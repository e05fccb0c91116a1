---------------------------- MODULE ModelGateway ----------------------------
(***************************************************************************)
(* The model gateway and the guardrail that asks a model                   *)
(* (klafi/model/gateway.py, klafi/guardrail/llm.py): a prompt is judged,   *)
(* the provider of an alias is asked under its policy, and a failure goes  *)
(* on to the alias's fallback.  The judge is itself a model of the         *)
(* gateway, so that judging a prompt is a request inside the request.      *)
(*                                                                         *)
(* Two ways lead to a model: the callable of gateway.model(alias)          *)
(* ("invoke", ModelGateway._invoke) and the chat model of init_chat_model  *)
(* ("chat", ChatModel over LangChain's with_fallbacks).                    *)
(*                                                                         *)
(* The gateway is called from many threads, but calls share nothing that   *)
(* changes except the verdict cache; the model has one call at a time and  *)
(* several in a row.  The configuration is chosen with the initial state.  *)
(* A prompt that is masked stays one prompt.                               *)
(***************************************************************************)
EXTENDS Naturals, Sequences, FiniteSets, SequencesExt, Subsequences

CONSTANTS
  Aliases,      \* names model.yaml may use
  NoAlias,      \* no fallback
  Chatless,     \* the aliases whose provider has no chat model
  Judge,        \* the alias the guardrail asks
  Texts,        \* prompts of the application
  Short,        \* those shorter than the guardrail's min_chars
  Retries,      \* max_retries of every alias's policy
  MaxRequests   \* bound: how many requests the application makes

ASSUME GatewayAssumption ==
  /\ NoAlias \notin Aliases
  /\ Judge \in Aliases
  /\ Chatless \subseteq Aliases
  /\ IsFiniteSet(Aliases)
  /\ Short \subseteq Texts
  /\ Retries \in Nat
  /\ MaxRequests \in Nat

VARIABLES
  entries,    \* the aliases that are registered
  fallback,   \* alias -> its fallback
  onError,    \* the guardrail's on_error: "warn" lets the text pass when the judge fails
  verdicts,   \* its cache: text -> verdict
  stack,      \* the requests under way, the innermost last
  requests    \* how many requests the application has made

config == <<entries, fallback, onError>>
vars == <<config, verdicts, stack, requests>>

JudgePrompt == "judge prompt"
Verdicts == {"safe", "violation", "ambiguous"}

-----------------------------------------------------------------------------
(* Fallback chains.                                                        *)

\* The ways along the fallbacks from a, to no alias twice: past one that is not
\* registered there is none.
Walks(a) ==
  {w \in UNION {[1..n -> Aliases]: n \in 1..Cardinality(Aliases)}:
     /\ w[1] = a
     /\ \A k \in 1..Len(w) - 1: w[k] \in entries /\ w[k + 1] = fallback[w[k]]
     /\ \A k, l \in DOMAIN w: w[k] = w[l] => k = l}

\* The longest one, which ends where there is no fallback or one seen before.
Chain(a) == CHOOSE w \in Walks(a): \A v \in Walks(a): Len(v) <= Len(w)

\* chat_fallbacks: the aliases after a.
ChatFallbacks(a) == Tail(Chain(a))

\* The chat models of a chain; one whose provider has none is left out.
Chatty(chain) == At(chain, {k \in DOMAIN chain: chain[k] \notin Chatless})

\* _entry raises for an alias that is not registered; init_chat_model meets it
\* when the agent is assembled, and also refuses a provider without chat model.
ChatModelExists(a) ==
  /\ a \in entries \ Chatless
  /\ Range(ChatFallbacks(a)) \subseteq entries

-----------------------------------------------------------------------------
(* Requests on the stack.                                                  *)

Request(a, text, path, judging) ==
  [alias |-> a,
   seen |-> {},             \* _invoke: the aliases that failed before this one
   rest |-> IF path = "chat" THEN Chatty(ChatFallbacks(a)) ELSE <<>>,
   path |-> path,
   text |-> text,
   judging |-> judging,     \* is it the judge's own
   stage |-> "before",
   tries |-> 0,             \* the attempts of this alias that failed
   failure |-> "none",
   start |-> a,             \* ghost: the alias asked for
   asked |-> <<>>,          \* ghost: the aliases whose provider was asked, in order
   attempts |-> [x \in Aliases |-> 0],   \* ghost: how often; one too many is not counted on
   waved |-> FALSE,         \* ghost: the judge failed and the text passed
   refused |-> FALSE]       \* ghost: a guardrail or a policy has raised

Current == Last(stack)
Becomes(frame) == stack' = Append(Front(stack), frame)

\* _judging is set while the judge is asked.
Judging == \E i \in DOMAIN stack: stack[i].judging

Asking(frame) ==
  [frame EXCEPT !.asked = IF frame.alias \in Range(@) THEN @ ELSE Append(@, frame.alias),
                !.attempts[frame.alias] = IF @ > Retries + 1 THEN @ ELSE @ + 1]

Failing(frame, failure) ==
  [frame EXCEPT !.stage = "failed", !.failure = failure,
                !.refused = @ \/ failure = "guard"]

-----------------------------------------------------------------------------
Init ==
  /\ entries \in {Aliases} \cup {Aliases \ {a}: a \in Aliases}
  /\ fallback \in [Aliases -> Aliases \cup {NoAlias}]
  /\ onError \in {"warn", "block"}
  /\ verdicts = [t \in Texts |-> "none"]
  /\ stack = <<>>
  /\ requests = 0

\* The application asks a model.
Ask ==
  \E a \in Aliases, text \in Texts, path \in {"invoke", "chat"}:
    /\ stack = <<>>
    /\ requests < MaxRequests
    /\ path = "chat" => ChatModelExists(a)
    /\ requests' = requests + 1
    /\ stack' = <<Request(a, text, path, FALSE)>>
    /\ UNCHANGED <<config, verdicts>>

\* _entry: the alias is unknown, which no except clause of this call sees.
Unknown ==
  /\ stack # <<>>
  /\ Current.stage = "before"
  /\ Current.alias \notin entries
  /\ Becomes(Failing(Current, "unknown"))
  /\ UNCHANGED <<config, verdicts, requests>>

\* Faulty variant: an answer out of form lets the text pass.
PassesUnlessViolation(frame) ==
  Judging \/ frame.text \in Short
    \/ (frame.text \in Texts /\ verdicts[frame.text] \in {"safe", "ambiguous"})

\* before_model with the LLMGuardrail: the judge's own traffic, texts that are
\* short and those known to be safe pass.
Passes(frame) ==
  Judging \/ frame.text \in Short \/ (frame.text \in Texts /\ verdicts[frame.text] = "safe")

Pass ==
  /\ stack # <<>>
  /\ Current.stage = "before"
  /\ Current.alias \in entries
  /\ Passes(Current)
  /\ Becomes([Current EXCEPT !.stage = "provider"])
  /\ UNCHANGED <<config, verdicts, requests>>

\* A verdict against the text blocks it; an answer out of form counts as one.
Block ==
  /\ stack # <<>>
  /\ Current.stage = "before"
  /\ Current.alias \in entries
  /\ ~Passes(Current)
  /\ Current.text \in Texts
  /\ verdicts[Current.text] # "none"
  /\ Becomes(Failing(Current, "guard"))
  /\ UNCHANGED <<config, verdicts, requests>>

\* No verdict yet: the judge is asked, under gateway.model.
AskJudge ==
  /\ stack # <<>>
  /\ Current.stage = "before"
  /\ Current.alias \in entries
  /\ ~Passes(Current)
  /\ Current.text \in Texts => verdicts[Current.text] = "none"
  /\ stack' = Append(stack, Request(Judge, JudgePrompt, "invoke", TRUE))
  /\ UNCHANGED <<config, verdicts, requests>>

\* The provider answers.
Answers ==
  /\ stack # <<>>
  /\ Current.stage = "provider"
  /\ Becomes([Asking(Current) EXCEPT !.stage = "after"])
  /\ UNCHANGED <<config, verdicts, requests>>

\* It fails for a moment, and the policy allows another attempt.
Retry ==
  /\ stack # <<>>
  /\ Current.stage = "provider"
  /\ Current.tries < Retries
  /\ Becomes([Asking(Current) EXCEPT !.tries = @ + 1])
  /\ UNCHANGED <<config, verdicts, requests>>

\* It fails for good: an error, a timeout, the last attempt, or an exception of
\* a guardrail or a policy of its own.
Fails ==
  \E failure \in {"error", "guard"}:
    /\ stack # <<>>
    /\ Current.stage = "provider"
    /\ Becomes(Failing(Asking(Current), failure))
    /\ UNCHANGED <<config, verdicts, requests>>

\* after_model: an output guardrail may block the answer of the model.
AnswerBlocked ==
  /\ stack # <<>>
  /\ Current.stage = "after"
  /\ Becomes(Failing(Current, "guard"))
  /\ UNCHANGED <<config, verdicts, requests>>

\* Faulty variant: only the alias that failed is not asked again.
NextOfOnlySelf(frame) ==
  IF frame.path = "chat" THEN (IF frame.rest = <<>> THEN NoAlias ELSE Head(frame.rest))
  ELSE IF frame.failure = "error" /\ fallback[frame.alias] # frame.alias
       THEN fallback[frame.alias] ELSE NoAlias

\* Faulty variant: whatever fails goes on to the fallback.
NextOfAnyFailure(frame) ==
  IF frame.path = "chat" THEN (IF frame.rest = <<>> THEN NoAlias ELSE Head(frame.rest))
  ELSE IF frame.alias \in entries /\ fallback[frame.alias] \notin frame.seen \cup {frame.alias}
       THEN fallback[frame.alias] ELSE NoAlias

\* The alias asked after a failure: _invoke goes on for errors of the provider
\* only; with_fallbacks for every exception.
NextOf(frame) ==
  IF frame.path = "chat" THEN (IF frame.rest = <<>> THEN NoAlias ELSE Head(frame.rest))
  ELSE IF frame.failure = "error" /\ fallback[frame.alias] \notin frame.seen \cup {frame.alias}
       THEN fallback[frame.alias] ELSE NoAlias

Fallback ==
  /\ stack # <<>>
  /\ Current.stage = "failed"
  /\ NextOf(Current) # NoAlias
  /\ Becomes([Current EXCEPT !.alias = NextOf(Current),
                             !.seen = @ \cup {Current.alias},
                             !.rest = IF @ = <<>> THEN @ ELSE Tail(@),
                             !.stage = "before", !.tries = 0, !.failure = "none",
                             !.waved = FALSE])
  /\ UNCHANGED <<config, verdicts, requests>>

\* A request of the application ends.
Return ==
  /\ Len(stack) = 1
  /\ \/ Current.stage = "after"
     \/ Current.stage = "failed" /\ NextOf(Current) = NoAlias
  /\ stack' = <<>>
  /\ UNCHANGED <<config, verdicts, requests>>

\* The judge has answered: the verdict is kept.
Judged ==
  \E verdict \in Verdicts:
    /\ Len(stack) > 1
    /\ Current.stage = "after"
    /\ stack' = Front(stack)
    /\ verdicts' = [verdicts EXCEPT ![Last(Front(stack)).text] = verdict]
    /\ UNCHANGED <<config, requests>>

\* Faulty variant: a failing judge counts as a verdict.
JudgeFailedCached ==
  /\ Len(stack) > 1
  /\ Current.stage = "failed"
  /\ NextOf(Current) = NoAlias
  /\ LET judged == Last(Front(stack)) IN
     /\ stack' = Front(stack)
     /\ verdicts' = [verdicts EXCEPT ![judged.text] =
                       IF onError = "warn" THEN "safe" ELSE "violation"]
  /\ UNCHANGED <<config, requests>>

\* Faulty variant: a judge that fails is asked again.
JudgeFailedAgain ==
  /\ Len(stack) > 1
  /\ Current.stage = "failed"
  /\ NextOf(Current) = NoAlias
  /\ stack' = Front(stack)
  /\ UNCHANGED <<config, verdicts, requests>>

\* The judge has failed, with all its fallbacks: check() answers by on_error,
\* and nothing is kept.
JudgeFailed ==
  /\ Len(stack) > 1
  /\ Current.stage = "failed"
  /\ NextOf(Current) = NoAlias
  /\ LET judged == Last(Front(stack)) IN
     stack' = Append(Front(Front(stack)),
                     IF onError = "warn" THEN [judged EXCEPT !.stage = "provider", !.waved = TRUE]
                     ELSE Failing(judged, "guard"))
  /\ UNCHANGED <<config, verdicts, requests>>

Step ==
  \/ Unknown \/ Pass \/ Block \/ AskJudge
  \/ Answers \/ Retry \/ Fails \/ AnswerBlocked
  \/ Fallback \/ Return \/ Judged \/ JudgeFailed

Next == Ask \/ Step

\* A call runs to its end: providers answer or fail, as their timeouts see to.
Spec == Init /\ [][Next]_vars /\ WF_vars(Step)

-----------------------------------------------------------------------------
(* Properties.                                                             *)

\* Has s elements of t in the order of t.
InOrder(s, t) ==
  \E place \in [DOMAIN s -> DOMAIN t]:
    /\ \A k \in DOMAIN s: s[k] = t[place[k]]
    /\ \A k, l \in DOMAIN s: k < l => place[k] < place[l]

\* The aliases a request asks are a beginning of the chain its alias's fallbacks
\* make, in that order and each at most Retries + 1 times, also when the chain
\* leads back into itself (gateway.py:184); both paths agree on the chain, but a
\* chat model leaves out what has none, and goes on after a block too and may so
\* leave an alias out.
AsksFollowTheChain ==
  \A i \in DOMAIN stack:
    LET f == stack[i]
        chain == Chain(f.start)
    IN /\ IF f.path = "invoke" THEN IsPrefix(f.asked, chain)
          ELSE InOrder(f.asked, chain) /\ Range(f.asked) \cap Chatless = {}
       /\ \A a \in Aliases: f.attempts[a] <= Retries + 1

\* On the path of gateway.model a block is final: once a guardrail or a policy
\* has raised in a request, the request asks no provider any more (gateway.py:182).
BlocksAreFinal ==
  [][\A i \in DOMAIN stack \cap DOMAIN stack':
       (stack[i].refused /\ stack[i].path = "invoke") =>
         stack'[i].attempts = stack[i].attempts]_vars

\* No provider is asked about a prompt that was not found safe, on either path
\* and by whichever alias of the chain; except short texts, and texts whose
\* judge failed just now under on_error = WARN.  A failure of the judge is no
\* verdict: the next request has the text judged again.  The judge's own traffic is
\* not judged (_judging, llm.py:104): its request is the innermost one.
OnlySafeTextsAreAsked ==
  /\ \A i \in DOMAIN stack: stack[i].judging <=> i = 2
  /\ Len(stack) <= 2
  /\ \A i \in DOMAIN stack:
       (stack[i].stage = "provider" /\ ~stack[i].judging) =>
         \/ stack[i].text \in Short
         \/ stack[i].waved /\ onError = "warn" /\ verdicts[stack[i].text] = "none"
         \/ ~stack[i].waved /\ verdicts[stack[i].text] = "safe"

\* A failed judge leaves no verdict behind: verdicts come from answers only.
VerdictsAreAnswers ==
  [][\A t \in Texts: verdicts'[t] # verdicts[t] =>
       /\ verdicts[t] = "none"
       /\ Current.judging /\ Current.stage = "after"]_vars

\* Every request ends, whatever the fallbacks are.
RequestsEnd == (stack # <<>>) ~> (stack = <<>>)
=============================================================================
