------------------------- MODULE ConcurrencyLimiter -------------------------
(***************************************************************************)
(* The backpressure middleware of the HTTP server                          *)
(* (klafi/server/concurrency.py, _ConcurrencyLimiter).  A request on an    *)
(* execution endpoint runs only while it holds a slot of the global        *)
(* semaphore and a slot of its agent's semaphore; a request that misses    *)
(* either one gives back what it took and is answered 429.                 *)
(*                                                                         *)
(* One process per client connection.  A step of the model is one          *)
(* operation on a semaphore or one stretch between two awaits: the code    *)
(* uses threading.BoundedSemaphore and its tests call it from several      *)
(* threads, so another request may run between any two semaphore           *)
(* operations.                                                             *)
(***************************************************************************)
EXTENDS Naturals, FiniteSets

CONSTANTS
  Requests,   \* the connections; one carries one request at a time
  Agents,     \* agent ids a path can name
  Global,     \* the scope of the server-wide semaphore
  Limit       \* scope -> configured cap, 0 where none is configured

Scopes == Agents \cup {Global}

ASSUME LimiterAssumption ==
  /\ IsFiniteSet(Requests)
  /\ Global \notin Agents
  /\ Limit \in [Scopes -> Nat]

VARIABLES
  pc,         \* where the handler of each request is
  agent,      \* the agent the current request of each connection names
  value,      \* the counter of each BoundedSemaphore
  acquired,   \* the handler's list of semaphores taken (a set: order is Global first)
  released,   \* the handler's released flag
  toRelease   \* what its running "for s in acquired: s.release()" has left

vars == <<pc, agent, value, acquired, released, toRelease>>

-----------------------------------------------------------------------------
(* The configured semaphores and the paths that are counted.               *)

\* A semaphore exists only for a positive cap.
Limited(s) == Limit[s] > 0

CountedEndpoints == {"invoke", "resume", "stream", "resume/stream"}
Endpoints == CountedEndpoints \cup {"metadata", "threads", "executions"}

IsCounted(method, endpoint) == method = "POST" /\ endpoint \in CountedEndpoints

Stages == {"idle", "uncounted", "global", "agent", "rejecting",
           "running", "flushing", "tail"}

-----------------------------------------------------------------------------
Init ==
  /\ pc = [r \in Requests |-> "idle"]
  /\ agent \in [Requests -> Agents]
  /\ value = Limit
  /\ acquired = [r \in Requests |-> {}]
  /\ released = [r \in Requests |-> FALSE]
  /\ toRelease = [r \in Requests |-> {}]

\* A handler goes on only when its release loop, if it is in one, is over.
At(r, stage) == pc[r] = stage /\ toRelease[r] = {}

Goto(r, stage) == pc' = [pc EXCEPT ![r] = stage]

\* Faulty variant: a release() that forgets its released flag.
ReleaseAgain(r) ==
  /\ released' = [released EXCEPT ![r] = TRUE]
  /\ toRelease' = [toRelease EXCEPT ![r] = acquired[r]]

\* The release() closure: idempotent through the released flag.
Release(r) ==
  /\ released' = [released EXCEPT ![r] = TRUE]
  /\ toRelease' = [toRelease EXCEPT ![r] = IF released[r] THEN {} ELSE acquired[r]]

-----------------------------------------------------------------------------
(* Actions.                                                                *)

Arrive(r, a, method, endpoint) ==
  /\ At(r, "idle")
  /\ agent' = [agent EXCEPT ![r] = a]
  /\ acquired' = [acquired EXCEPT ![r] = {}]
  /\ released' = [released EXCEPT ![r] = FALSE]
  /\ Goto(r, IF IsCounted(method, endpoint) THEN "global" ELSE "uncounted")
  /\ UNCHANGED <<value, toRelease>>

\* A request that is not counted goes straight to the application.
Passthrough(r) ==
  /\ At(r, "uncounted")
  /\ Goto(r, "idle")
  /\ UNCHANGED <<agent, value, acquired, released, toRelease>>

\* Non-blocking acquire of the semaphore of scope s.
TakeSlot(r, s) ==
  /\ value[s] > 0
  /\ value' = [value EXCEPT ![s] = @ - 1]
  /\ acquired' = [acquired EXCEPT ![r] = @ \cup {s}]

\* Faulty variant: the result of acquire(blocking=False) is not looked at.
AcquireGlobalUnchecked(r) ==
  /\ At(r, "global")
  /\ \/ (~Limited(Global) \/ value[Global] = 0) /\ UNCHANGED <<value, acquired>>
     \/ Limited(Global) /\ TakeSlot(r, Global)
  /\ Goto(r, "agent")
  /\ UNCHANGED <<agent, released, toRelease>>

AcquireGlobal(r) ==
  /\ At(r, "global")
  /\ \/ ~Limited(Global) /\ UNCHANGED <<value, acquired>>
     \/ Limited(Global) /\ TakeSlot(r, Global)
  /\ Goto(r, "agent")
  /\ UNCHANGED <<agent, released, toRelease>>

\* Faulty variant: turns a request away while one slot is left.
RejectGlobalEarly(r) ==
  /\ At(r, "global")
  /\ Limited(Global) /\ value[Global] <= 1
  /\ Goto(r, "rejecting")
  /\ UNCHANGED <<agent, value, acquired, released, toRelease>>

RejectGlobal(r) ==
  /\ At(r, "global")
  /\ Limited(Global) /\ value[Global] = 0
  /\ Goto(r, "rejecting")
  /\ UNCHANGED <<agent, value, acquired, released, toRelease>>

\* Faulty variant: the agent's semaphore is looked at but never taken.
AcquireAgentUntaken(r) ==
  /\ At(r, "agent")
  /\ ~Limited(agent[r]) \/ value[agent[r]] > 0
  /\ Goto(r, "running")
  /\ UNCHANGED <<agent, value, acquired, released, toRelease>>

AcquireAgent(r) ==
  /\ At(r, "agent")
  /\ \/ ~Limited(agent[r]) /\ UNCHANGED <<value, acquired>>
     \/ Limited(agent[r]) /\ TakeSlot(r, agent[r])
  /\ Goto(r, "running")
  /\ UNCHANGED <<agent, released, toRelease>>

\* Faulty variant: the global slot is kept when the agent turns the request away.
RejectAgentKeeping(r) ==
  /\ At(r, "agent")
  /\ Limited(agent[r]) /\ value[agent[r]] = 0
  /\ Goto(r, "rejecting")
  /\ UNCHANGED <<agent, value, acquired, released, toRelease>>

\* The agent's cap is reached: give back the global slot, then answer 429.
RejectAgent(r) ==
  /\ At(r, "agent")
  /\ Limited(agent[r]) /\ value[agent[r]] = 0
  /\ toRelease' = [toRelease EXCEPT ![r] = acquired[r]]
  /\ Goto(r, "rejecting")
  /\ UNCHANGED <<agent, value, acquired, released>>

\* The awaited 429 response is sent, or the client is gone.
Rejected(r) ==
  /\ At(r, "rejecting")
  /\ Goto(r, "idle")
  /\ UNCHANGED <<agent, value, acquired, released, toRelease>>

\* Faulty variant: only the global semaphore is given back.
ReleaseGlobalSlot(r, s) ==
  /\ s = Global /\ s \in toRelease[r]
  /\ value' = [value EXCEPT ![s] = @ + 1]
  /\ toRelease' = [toRelease EXCEPT ![r] = @ \ {s}]
  /\ UNCHANGED <<pc, agent, acquired, released>>

\* One iteration of "for s in acquired: s.release()", Global first.
ReleaseSlot(r, s) ==
  /\ s \in toRelease[r]
  /\ Global \in toRelease[r] => s = Global
  /\ value' = [value EXCEPT ![s] = @ + 1]
  /\ toRelease' = [toRelease EXCEPT ![r] = @ \ {s}]
  /\ UNCHANGED <<pc, agent, acquired, released>>

\* send_wrapper with the last body chunk: release() comes before the send.
SendLastChunk(r) ==
  /\ At(r, "running")
  /\ Release(r)
  /\ Goto(r, "flushing")
  /\ UNCHANGED <<agent, value, acquired>>

\* The await of the last send returns to the application.
Flushed(r) ==
  /\ At(r, "flushing")
  /\ Goto(r, "tail")
  /\ UNCHANGED <<agent, value, acquired, released, toRelease>>

\* The application returns, raises or is cancelled: the finally clause.
AppEnds(r) ==
  /\ \E stage \in {"running", "flushing", "tail"} : At(r, stage)
  /\ Release(r)
  /\ Goto(r, "idle")
  /\ UNCHANGED <<agent, value, acquired>>

\* What the server does for r once it has arrived.
Handle(r) ==
  \/ Passthrough(r)
  \/ AcquireGlobal(r)
  \/ RejectGlobal(r)
  \/ AcquireAgent(r)
  \/ RejectAgent(r)
  \/ Rejected(r)
  \/ \E s \in Scopes : ReleaseSlot(r, s)
  \/ SendLastChunk(r)
  \/ Flushed(r)
  \/ AppEnds(r)

Next ==
  \E r \in Requests :
    \/ \E a \in Agents, method \in {"GET", "POST"}, endpoint \in Endpoints :
         Arrive(r, a, method, endpoint)
    \/ Handle(r)

\* The event loop runs every handler on; clients need not send anything.
Fairness == \A r \in Requests : WF_vars(Handle(r))

Spec == Init /\ [][Next]_vars
FairSpec == Spec /\ Fairness

-----------------------------------------------------------------------------
(* Properties.                                                             *)

\* The type of the state.  value[s] <= Limit[s] is what keeps
\* BoundedSemaphore.release from raising ValueError out of the finally clause.
TypeOK ==
  /\ pc \in [Requests -> Stages]
  /\ agent \in [Requests -> Agents]
  /\ value \in [Scopes -> Nat]
  /\ \A s \in Scopes : Limited(s) => value[s] <= Limit[s]
  /\ acquired \in [Requests -> SUBSET Scopes]
  /\ released \in [Requests -> BOOLEAN]
  /\ toRelease \in [Requests -> SUBSET Scopes]

\* r has taken a slot of s and has not given it back.
Holds(r, s) ==
  /\ s \in acquired[r]
  /\ pc[r] \in {"agent", "running"} \/ s \in toRelease[r]

Holders(s) == {r \in Requests : Holds(r, s)}

\* No slot is lost or given back twice: in every state, whatever mix of
\* rejections, early responses, exceptions and disconnects led there, the
\* counter of a semaphore and the requests that hold a slot add up to the cap.
SlotAccounting ==
  \A s \in Scopes : Limited(s) => value[s] + Cardinality(Holders(s)) = Limit[s]

\* The requests whose agent code runs under a slot.
Running(s) == {r \in Requests : pc[r] = "running" /\ (s = Global \/ agent[r] = s)}

\* The caps the middleware promises: at most Limit[Global] executions on the
\* server and at most Limit[a] of agent a, at the same time.
CapsRespected ==
  \A s \in Scopes : Limited(s) => Cardinality(Running(s)) <= Limit[s]

\* A 429 is never spurious: a request is turned away only when other requests
\* hold every slot of the scope that turned it away.
RejectionsJustified ==
  [][\A r \in Requests :
       (pc[r] # "rejecting" /\ pc'[r] = "rejecting") =>
         \E s \in {Global, agent[r]} :
           Limited(s) /\ Cardinality(Holders(s) \ {r}) = Limit[s]]_vars

\* Every slot taken is eventually given back, on every way a request can end.
SlotsReturned ==
  \A r \in Requests, s \in Scopes : Holds(r, s) ~> ~Holds(r, s)

-----------------------------------------------------------------------------
(* The promise this module implements: the requests inside are those whose  *)
(* agent code runs under their slots.                                       *)

Admitted == {r \in Requests : pc[r] = "running"}

Promise == INSTANCE Admission WITH inside <- Admitted, target <- agent

\* Through all the interleavings of two semaphores, the middleware admits as
\* if it looked at both caps and let the request in within a single step, and
\* every admitted request leaves.
ImplementsAdmission == Promise!Spec

=============================================================================
