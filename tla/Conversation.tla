---------------------------- MODULE Conversation ----------------------------
(***************************************************************************)
(* A conversation on one thread: turns of a user, an agent node that asks  *)
(* a model, and a ToolNode that runs the calls the model makes             *)
(* (klafi/core/graph.py), with one guardrail at the places a project can   *)
(* put it and it can change what is kept (GuardrailHook before_agent,      *)
(* @klafi_node before and after), with the ContextHook that shortens what  *)
(* the agent node sees (klafi/context/hook.py), and with a caller who      *)
(* waits for the result or has it streamed (StreamGate).                   *)
(*                                                                         *)
(* The thread's history is what the checkpointer holds.  What the agent    *)
(* node sees of it, its view, is made anew for each execution of the node. *)
(***************************************************************************)
EXTENDS Guardrails, StreamGate

CONSTANTS
  Keeps,        \* the values of keep_recent
  MaxTokens,    \* the threshold; every message counts for one token
  MaxMessages,  \* bound: the length of the history
  MaxBad,       \* bound: how many messages offend
  MaxImportant  \* bound: how many messages are marked as important

ASSUME ConversationAssumption ==
  {MaxTokens, MaxMessages, MaxBad, MaxImportant} \cup Keeps \subseteq Nat

\* Where a guardrail can be put: in front of the agent, in front of the agent
\* node, behind the agent node.
Places == {"input", "before", "after"}

VARIABLES
  places,     \* where the guardrail is put
  severity,   \* what it answers to an offence
  warnOnly,   \* is it wrapped in warn_only
  keep,       \* keep_recent
  summarizes, \* is there a summarizer
  stage,      \* what runs next
  history,    \* the messages in the checkpointer
  view,       \* the messages the model is asked with
  looked,     \* ghost: the messages looked at in front of the agent node
  contract,   \* has the agent node an output contract
  http,       \* is the stream one of the HTTP server
  gate,       \* the gate of the stream, one that asks for nothing for invoke
  sent,       \* the items of this turn's stream that have reached the caller
  returned    \* ghost: the structured values of this turn, in their order

config == <<places, severity, warnOnly, keep, summarizes, contract, http>>
stream == <<gate, sent, returned>>
vars == <<config, stage, history, view, looked, stream>>

\* A message is known by its place in the thread, as by LangChain's message id.
\* text: has it any; a call of tools may have none.  Ghosts: led, others followed
\* it in the same input; met, it was looked at on its way into the history.  of:
\* what a summary stands for.
Message(id, role, bad, important) ==
  [id |-> id, role |-> role, text |-> TRUE, bad |-> bad, important |-> important,
   led |-> FALSE, met |-> FALSE, of |-> {}]

Summary(old) == [Message(0, "system", FALSE, FALSE) EXCEPT !.of = old]

\* invoke and ainvoke: no stream.
NoStream == [modes |-> {}, single |-> FALSE, subgraphs |-> TRUE, http |-> FALSE]

CountOf(messages, is(_)) == Len(SelectSeq(messages, is))

\* The bounds, and the messages that may be added under them.
Fits(messages) ==
  LET all == history \o messages
  IN /\ Len(all) <= MaxMessages
     /\ CountOf(all, LAMBDA m: m.bad) <= MaxBad
     /\ CountOf(all, LAMBDA m: m.important) <= MaxImportant

-----------------------------------------------------------------------------
Init ==
  /\ places \in SUBSET Places
  /\ severity \in Severities
  /\ warnOnly \in BOOLEAN
  /\ keep \in Keeps
  /\ summarizes \in BOOLEAN
  /\ stage = "idle"
  /\ history = <<>>
  /\ view = <<>>
  /\ looked = {}
  /\ contract \in Contracts
  /\ \E internal \in BOOLEAN, way \in Ways \cup {NoStream}:
       /\ http = way.http
       /\ gate = Gate(way.modes, way.single, way.subgraphs,
                      [agent |-> Declared("after" \in places, contract, internal),
                       tools |-> Declared(FALSE, "none", FALSE)])
  /\ sent = <<>>
  /\ returned = 0

\* What LangGraph streams of a node: tokens, then what it returned, then the state.
Tokens(node, messages) ==
  Through([gate |-> gate, out |-> <<>>], Item("messages", node, messages, 0))
Returned(fed, node, messages, value) ==
  Through(Through(fed, Item("updates", node, messages, value)),
          Item("values", node, messages, value))

\* What reaches the caller.
Stream(fed) ==
  /\ gate' = fed.gate
  /\ sent' = sent \o At(fed.out, {i \in DOMAIN fed.out: http => HasLine(fed.out[i])})

\* over_threshold.
OverThreshold(messages) == Len(messages) > MaxTokens

\* A pipeline with the guardrail, if it is put at this place.
Guarded(messages, place) ==
  IF place \in places THEN Enforce(messages, Effective(severity, warnOnly))
  ELSE [blocked |-> FALSE, looked |-> {}, value |-> messages]

\* Messages that come into the history are marked when they were looked at.
Kept(guarded) ==
  [i \in DOMAIN guarded.value |-> [guarded.value[i] EXCEPT !.met = i \in guarded.looked]]

\* A user's input, one message or two: before_agent looks at the input and
\* replaces it; when it blocks, nothing of the input comes into the thread.
Input ==
  \E bad \in [1..2 -> BOOLEAN], important \in BOOLEAN, first \in {"none", "human", "system"}:
    LET id == Len(history) + 1
        lead == [Message(id, first, bad[1], FALSE) EXCEPT !.led = TRUE]
        input == IF first = "none" THEN <<Message(id, "human", bad[2], important)>>
                 ELSE <<lead, Message(id + 1, "human", bad[2], important)>>
        guarded == Guarded(input, "input")
    IN /\ stage = "idle"
       /\ first = "none" => ~bad[1]
       /\ Fits(input)
       /\ ~guarded.blocked
       /\ history' = history \o Kept(guarded)
       /\ stage' = "agent"
       /\ gate' = [gate EXCEPT !.hold = {}]
       /\ sent' = <<>>
       /\ returned' = 0
       /\ UNCHANGED <<config, view, looked>>

\* The agent node is entered: ContextHook.before_node shortens the view when it
\* is over the threshold and something can go, unless the summarizer fails
\* (fail-open); then the node's before pipeline looks at what is left.
AgentNode ==
  \E fails \in BOOLEAN:
    LET old == IF OverThreshold(history) THEN Old(history, keep) ELSE {}
        rest == Rest(history, old)
        seen == IF old = {} \/ fails THEN history
                ELSE IF summarizes THEN WithSummary(rest, Summary(old)) ELSE rest
        guarded == Guarded(seen, "before")
    IN /\ stage = "agent"
       /\ fails => summarizes /\ old # {}
       /\ stage' = IF guarded.blocked THEN "idle" ELSE "model"
       /\ view' = IF guarded.blocked THEN <<>> ELSE guarded.value
       /\ looked' = looked \cup ({seen[i].id: i \in guarded.looked} \ {0})
       /\ UNCHANGED <<config, history, stream>>

\* What a node with a contract returns has a value, or it fails; only a Command
\* passes without one (_coerce_output).
Valued(valued) == IF valued THEN returned + 1 ELSE 0

\* The model answers, or calls tools; the node's after pipeline looks at the
\* message before it is kept, and when it blocks the message is lost, and a
\* structured value with it.
Model ==
  \E role \in {"ai", "call"}, text, bad, important, valued \in BOOLEAN:
    LET answer == <<[Message(Len(history) + 1, role, bad, important) EXCEPT !.text = text]>>
        guarded == Guarded(answer, "after")
    IN /\ stage = "model"
       /\ text \/ (role = "call" /\ ~bad)
       /\ valued => contract # "none"
       /\ Fits(answer)
       /\ stage' = IF guarded.blocked THEN "idle" ELSE IF role = "call" THEN "tools" ELSE "output"
       /\ history' = IF guarded.blocked THEN history ELSE history \o Kept(guarded)
       /\ view' = <<>>
       /\ Stream(IF guarded.blocked THEN Tokens("agent", answer)
                 ELSE Returned(Tokens("agent", answer), "agent", Kept(guarded), Valued(valued)))
       /\ returned' = IF valued /\ ~guarded.blocked THEN returned + 1 ELSE returned
       /\ UNCHANGED <<config, looked>>

\* The node fails behind the model's tokens, and the execution with it, or it is
\* tried again (the node's retry_policy), once as far as the caller sees it.
ModelFails ==
  \E bad \in BOOLEAN, next \in {"idle", "model"}:
    LET answer == <<Message(Len(history) + 1, "ai", bad, FALSE)>>
    IN /\ stage = "model"
       /\ gate.requested # {}
       /\ Fits(answer)
       /\ \A i \in DOMAIN sent: sent[i].messages # <<>> => sent[i].messages[1].id <= Len(history)
       /\ stage' = next
       /\ view' = IF next = "model" THEN view ELSE <<>>
       /\ Stream(Tokens("agent", answer))
       /\ UNCHANGED <<config, history, looked, returned>>

\* With an output contract, the node may return its value and no message.
Extract ==
  \E bad \in BOOLEAN:
    /\ stage = "model"
    /\ contract # "none"
    /\ stage' = "output"
    /\ view' = <<>>
    /\ Stream(Returned(Tokens("agent", <<Message(Len(history) + 1, "ai", bad, FALSE)>>),
                       "agent", <<>>, Valued(TRUE)))
    /\ returned' = returned + 1
    /\ UNCHANGED <<config, history, looked>>

\* The ToolNode runs one call or two; a tool that fails makes a message too.
Tools ==
  \E bad \in [1..2 -> BOOLEAN], n \in 1..2, important \in BOOLEAN:
    LET results == [i \in 1..n |->
                      Message(Len(history) + i, "tool", bad[i], important /\ i = 1)]
    IN /\ stage = "tools"
       /\ n = 1 => ~bad[2]
       /\ Fits(results)
       /\ history' = history \o results
       /\ stage' = "agent"
       /\ Stream(Returned(Tokens("tools", results), "tools", results, 0))
       /\ UNCHANGED <<config, view, looked, returned>>

\* A block inside of a tool is no tool failure: it ends the execution, and the
\* call stays in the history without a result.
ToolBlocked ==
  /\ stage = "tools"
  /\ stage' = "idle"
  /\ UNCHANGED <<config, history, view, looked, stream>>

\* after_agent looks at the result the caller gets, which is a copy, or at the last
\* state of the stream, which has been sent: whatever it says, the execution ends
\* and the history and the stream stay as they are.
Output ==
  /\ stage = "output"
  /\ stage' = "idle"
  /\ UNCHANGED <<config, history, view, looked, stream>>

Next == Input \/ AgentNode \/ Model \/ ModelFails \/ Extract \/ Tools \/ ToolBlocked \/ Output

Spec == Init /\ [][Next]_vars

-----------------------------------------------------------------------------
(* Properties.                                                             *)

\* The messages of the thread that the view leaves out.
Missing == DOMAIN history \ {view[i].id: i \in DOMAIN view}

\* The results of one answer's calls, and the answer: nothing else in between.
SameCall(i, j) ==
  /\ i < j
  /\ history[i].role \in {"call", "tool"}
  /\ \A k \in i + 1..j: history[k].role = "tool"

\* Looking at the tail only is enough (binding.py:68): with a guardrail in front
\* of the agent node, everything from a user or from a tool that the model is
\* asked with was looked at, in this turn or in an earlier one.  Except what
\* came in ahead of another message of its input, and what follows the message
\* of its tail on which the node was blocked in an earlier turn.
AskedWasLookedAt ==
  (stage = "model" /\ "before" \in places /\ keep # 0) =>
    \A i \in DOMAIN history \ Missing:
      \/ i \in looked
      \/ history[i].role \notin {"human", "tool"}
      \/ history[i].led
      \/ \E j \in looked: SameCall(j, i) /\ history[j].bad

\* An input or an answer that was looked at and offends is not kept, unless the
\* guardrail only warns: warn_only weakens a block and never a mask, and a
\* severity nobody knows blocks (base.py:54, 171).
OffencesAreHandled ==
  \A i \in DOMAIN history:
    (history[i].bad /\ history[i].met) => severity # "mask" /\ (warnOnly \/ severity = "warn")

\* Calls and their results are not parted, and what is left of a conversation
\* begins with a human turn (manager.py:102), as far as neither is important.
PairsStayTogether ==
  stage = "model" =>
    LET plain == Plain(history)
        shown == plain \ Missing
    IN /\ \A i, j \in plain: SameCall(i, j) => (i \in Missing <=> j \in Missing)
       /\ (Missing # {} /\ shown # {}) => history[Min(shown)].role = "human"

\* A view tells what it shows in the order of the thread; it leaves out the
\* oldest only, nothing important and none of the keep_recent latest; and when
\* it has a summary, that stands for exactly what is left out.
ViewsAreComplete ==
  stage = "model" =>
    LET shown == {i \in DOMAIN view: view[i].id # 0}
        sums == DOMAIN view \ shown
        plain == Plain(history)
    IN /\ \A i, j \in shown: i < j => view[i].id < view[j].id
       /\ Missing \subseteq plain
       /\ \A i \in Missing, j \in plain \ Missing: i < j
       /\ Missing # {} => Cardinality(plain \ Missing) >= keep
       /\ Cardinality(sums) = (IF summarizes /\ Missing # {} THEN 1 ELSE 0)
       /\ \A i \in sums: view[i].of = Missing

\* What a stream shows of the agent node is what came of it.  Under "messages",
\* with an after pipeline or an output contract, every message that the node adds
\* to the thread arrives once, with the text that was kept but without the calls it
\* makes, and what was blocked, failed or was not kept does not arrive
\* (base_graph.py:385, 614); without, every message arrives as it was kept; over
\* HTTP, those that have a text.  In a list of modes, every structured value
\* arrives once (node.py:18), and nothing else as structured, but for an update
\* that lacks the key its contract names.  Of an internal node nothing is shown
\* but the state (node.py:22).  Streams of subgraphs pass unfiltered.
StreamsShowWhatWasKept ==
  ~gate.passthrough =>
    LET of(mode) == {k \in DOMAIN sent: sent[k].mode = mode /\ sent[k].node = "agent"}
        tokens == of("messages")
        guarded == "agent" \in gate.guarded
        thisTurn(i) == \A k \in i..Len(history): history[k].role # "human"
        answers == {i \in DOMAIN history: history[i].role \in {"ai", "call"} /\ thisTurn(i)
                                           /\ (http => history[i].text)}
        shows(k, i) == LET message == sent[k].messages[1]
                       IN /\ message.id = i
                          /\ message.text = history[i].text /\ message.bad = history[i].bad
                          /\ message.role = IF guarded THEN "ai" ELSE history[i].role
        shown(i) == {k \in tokens: shows(k, i)}
        valued(n) == {k \in of("structured"): sent[k].value = n}
    IN IF "agent" \in gate.internal
       THEN tokens \cup of("updates") \cup of("structured") = {}
       ELSE /\ "messages" \in gate.requested => \A i \in answers: shown(i) # {}
            /\ guarded =>
                 /\ \A i \in answers: Cardinality(shown(i)) <= 1
                 /\ \A k \in tokens: \E i \in answers: shows(k, i)
            /\ IF gate.single THEN of("structured") = {}
               ELSE /\ \A n \in 1..returned: Cardinality(valued(n)) = 1
                    /\ \A k \in of("structured"):
                         sent[k].value \in 1..returned \/ (contract = "named" /\ sent[k].value = 0)
=============================================================================
