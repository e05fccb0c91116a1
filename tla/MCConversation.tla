--------------------------- MODULE MCConversation ---------------------------
(* The instance of Conversation for TLC: what a stream shows depends on the *)
(* guardrail behind the agent node only, so that streams are combined with  *)
(* it alone, in threads of four messages, of two when nothing is filtered;  *)
(* contracts matter to a stream only, and calls of tools without a text to  *)
(* one over HTTP.                                                           *)
EXTENDS Conversation

\* Severities that come to the same (Effective) are told apart in threads of four.
Plainly == ~warnOnly /\ severity # "blocc"

StreamsAreShort ==
  IF gate.requested # {}
  THEN /\ places \subseteq {"after"} /\ severity \in {"block", "mask"} /\ ~warnOnly
       /\ keep = 0 /\ ~summarizes
       /\ Len(history) <= IF gate.passthrough THEN 2 ELSE 4
       /\ \A i \in DOMAIN history: ~history[i].important /\ ~history[i].led
       /\ http \/ \A i \in DOMAIN history: history[i].text
  ELSE /\ contract = "none" /\ \A i \in DOMAIN history: history[i].text
       /\ Plainly \/ Len(history) <= 4
=============================================================================
