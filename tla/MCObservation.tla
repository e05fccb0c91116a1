--------------------------- MODULE MCObservation ---------------------------
(* The instance of Observation for TLC: the recorder and the guard are      *)
(* registered globally, the others are the agent's.                         *)
EXTENDS Observation

CONSTANTS c1, c2, e1, e2

MCCalls == {c1, c2}
MCExecutions == {e1, e2}
MCGlobalHooks == <<"guard", "recorder">>
MCPlatformHooks == <<"app">>
MCPlan == [all |-> <<"events">>, agent |-> <<>>]
MCExtraHooks == <<"off">>
MCPriority == [guard |-> 1, tracing |-> 5, events |-> 8, logging |-> 10, recorder |-> 20, app |-> 100, off |-> 0]
Symmetry == Permutations(MCCalls) \cup Permutations(MCExecutions)

\* An execution without calls matters to the other one by its beginning, which
\* evicts a run; how runs are evicted late is seen with a call in each execution.
BystandersBegin ==
  \A e \in Executions:
    (\A c \in Calls: call[c].execution # e) =>
      agent[e] \in {"new", "running"} \/ ending[e] = "refused"

\* What calls do after the graph has raised an interrupt or was cancelled is what
\* they do after a failure, and followed there.
FailuresGoOn ==
  \A c \in Calls: ending[call[c].execution] \in {"interrupt", "cancelled"} => ~Active(c)
=============================================================================
