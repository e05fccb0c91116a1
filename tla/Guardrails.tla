----------------------------- MODULE Guardrails -----------------------------
(***************************************************************************)
(* Guardrails (klafi/guardrail/base.py, klafi/guardrail/binding.py) and    *)
(* the context manager (klafi/context/manager.py) as operators on a        *)
(* conversation: which messages a guardrail looks at and what becomes of   *)
(* them, and what a node sees of a conversation that is too long.          *)
(*                                                                         *)
(* A message is a record with at least the fields role, bad (does it       *)
(* offend against the policy) and important.                               *)
(***************************************************************************)
EXTENDS Naturals, Sequences, FiniteSets, SequencesExt, FiniteSetsExt, Subsequences

-----------------------------------------------------------------------------
(* Results of a check.                                                     *)

\* What a guardrail answers to an offence: a GuardrailResult with a severity, a
\* slip of the pen included, or "mask" for one that brings a replacement.
Severities == {"block", "warn", "mask", "blocc"}

\* Faulty variant: warn_only also takes the replacement away.
EffectiveWarningAll(severity, warnOnly) ==
  IF warnOnly \/ severity = "warn" THEN "warn"
  ELSE IF severity = "mask" THEN "mask" ELSE "block"

\* warn_only: an offence is a warning only, but a replacement stays one.
WarnOnly(severity) == IF severity = "mask" THEN "mask" ELSE "warn"

\* effective_severity, with the guardrail under warn_only or not: a replacement
\* is always made, and whatever is not exactly "warn" blocks.
Effective(severity, warnOnly) ==
  LET given == IF warnOnly THEN WarnOnly(severity) ELSE severity
  IN IF given \in {"mask", "warn"} THEN given ELSE "block"

-----------------------------------------------------------------------------
(* What is looked at.                                                      *)

\* Faulty variant: the tail is the last message only.
TailStartLast(messages) == Len(messages)

\* _tail_start: the last message, and with tool messages at the end all of them.
TailStart(messages) ==
  LET tools == {i \in DOMAIN messages: \A j \in i..Len(messages): messages[j].role = "tool"}
  IN IF tools = {} THEN Len(messages) ELSE Min(tools)

\* _check_leaf, where it does not block: an offence is masked, or recorded only.
CheckLeaf(m, effective) ==
  IF m.bad /\ effective = "mask" THEN [m EXCEPT !.bad = FALSE] ELSE m

\* bind over a list of messages: those of the tail are looked at one after the
\* other, until one is blocked.
Enforce(messages, effective) ==
  LET tail == IF messages = <<>> THEN {} ELSE TailStart(messages)..Len(messages)
      bad == {i \in tail: messages[i].bad}
      blocked == effective = "block" /\ bad # {}
  IN [blocked |-> blocked,
      looked |-> IF blocked THEN {i \in tail: i <= Min(bad)} ELSE tail,
      value |-> [i \in DOMAIN messages |->
                   IF i \in tail THEN CheckLeaf(messages[i], effective) ELSE messages[i]]]

-----------------------------------------------------------------------------
(* ContextManager.reduce.                                                  *)

IsImportant(m) == m.role = "system" \/ m.important

\* Faulty variant: the cut is made wherever keep_recent puts it.
CutAnywhere(unimportant, keep) ==
  IF Len(unimportant) > keep THEN Len(unimportant) - keep ELSE 0

\* Where the messages that are not important are cut: keep_recent of them stay,
\* and as many more as it takes to begin with a human turn; 0 cuts nothing.
Cut(unimportant, keep) ==
  LET most == IF Len(unimportant) > keep THEN Len(unimportant) - keep ELSE 0
      turns == {k \in 1..most: k < Len(unimportant) /\ unimportant[k + 1].role = "human"}
  IN IF keep = 0 THEN Len(unimportant)
     ELSE IF turns = {} THEN 0 ELSE Max(turns)

\* non_important.
Plain(messages) == {i \in DOMAIN messages: ~IsImportant(messages[i])}

\* The places of what is left out.
Old(messages, keep) ==
  LET plain == Plain(messages)
  IN {Nth(plain, k): k \in 1..Cut(At(messages, plain), keep)}

\* Faulty variant: what is important is pulled to the front.
RestImportantFirst(messages, old) ==
  At(messages, DOMAIN messages \ Plain(messages)) \o At(messages, Plain(messages) \ old)

\* What stays, in its order.
Rest(messages, old) == At(messages, DOMAIN messages \ old)

\* The summary goes behind the system messages at the front.
WithSummary(messages, summary) ==
  LET others == {i \in DOMAIN messages: messages[i].role # "system"}
  IN InsertAt(messages, IF others = {} THEN Len(messages) + 1 ELSE Min(others), summary)
=============================================================================
