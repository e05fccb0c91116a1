----------------------------- MODULE Admission ------------------------------
(***************************************************************************)
(* What the backpressure middleware promises, without semaphores: a        *)
(* request is let in, in one step, only while the server and its agent     *)
(* are below their caps, and every request that was let in leaves.         *)
(* ConcurrencyLimiter implements it.                                       *)
(***************************************************************************)
EXTENDS Naturals, FiniteSets

CONSTANTS
  Requests,   \* the connections
  Agents,     \* agent ids
  Global,     \* the scope of the server-wide cap
  Limit       \* scope -> cap, 0 where there is none

VARIABLES
  inside,     \* the requests that run agent code
  target      \* the agent each request names; meaningless outside

vars == <<inside, target>>

Load(s) == {r \in inside : s = Global \/ target[r] = s}

HasRoom(s) == Limit[s] > 0 => Cardinality(Load(s)) < Limit[s]

Init ==
  /\ inside = {}
  /\ target \in [Requests -> Agents]

\* A request outside names an agent; nothing else may happen to its target.
Choose(r, a) ==
  /\ r \notin inside
  /\ target' = [target EXCEPT ![r] = a]
  /\ UNCHANGED inside

Admit(r) ==
  /\ r \notin inside
  /\ HasRoom(Global)
  /\ HasRoom(target[r])
  /\ inside' = inside \cup {r}
  /\ UNCHANGED target

Leave(r) ==
  /\ r \in inside
  /\ inside' = inside \ {r}
  /\ UNCHANGED target

Next ==
  \E r \in Requests :
    \/ \E a \in Agents : Choose(r, a)
    \/ Admit(r)
    \/ Leave(r)

\* Requests are admitted within the caps; those admitted leave.
Safety == Init /\ [][Next]_vars
Spec == Safety /\ \A r \in Requests : WF_vars(Leave(r))
=============================================================================
