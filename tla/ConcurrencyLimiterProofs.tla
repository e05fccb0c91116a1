---------------------- MODULE ConcurrencyLimiterProofs ----------------------
(***************************************************************************)
(* Proofs about ConcurrencyLimiter, for any finite set of connections, any *)
(* agents and any caps.                                                    *)
(*                                                                         *)
(* TypeOK is not inductive: that value[s] stays below Limit[s] when a slot *)
(* is given back needs SlotAccounting, and SlotAccounting needs to know    *)
(* what a handler has acquired at each stage and when its released flag    *)
(* is set (Control).  The three together are inductive.                    *)
(***************************************************************************)
EXTENDS ConcurrencyLimiter, FiniteSetTheorems, TLAPS

\* The type of the state without the bound on the counters.
Types ==
  /\ pc \in [Requests -> Stages]
  /\ agent \in [Requests -> Agents]
  /\ value \in [Scopes -> Nat]
  /\ acquired \in [Requests -> SUBSET Scopes]
  /\ released \in [Requests -> BOOLEAN]
  /\ toRelease \in [Requests -> SUBSET Scopes]

\* The semaphores a request on agent a has to pass.
Needed(a) == {s \in {Global, a} : Limited(s)}

\* What the locals of one handler hold at each stage.
HandlerControl(r) ==
  /\ toRelease[r] \subseteq acquired[r]
  /\ acquired[r] \subseteq Needed(agent[r])
  /\ pc[r] \in {"uncounted", "global", "agent", "running"} => toRelease[r] = {}
  /\ pc[r] \in {"global", "agent", "running"} => ~released[r]
  /\ pc[r] \in {"flushing", "tail"} => released[r]
  /\ pc[r] = "global" => acquired[r] = {}
  /\ pc[r] = "agent" => acquired[r] = {s \in {Global} : Limited(s)}
  /\ pc[r] = "running" => acquired[r] = Needed(agent[r])

Control == \A r \in Requests : HandlerControl(r)

IInv == Types /\ Control /\ SlotAccounting

-----------------------------------------------------------------------------
(* Counting lemmas.                                                        *)

\* The holders of a scope are finitely many, so their number is a natural.
LEMMA HoldersFinite ==
  ASSUME NEW s
  PROVE  IsFiniteSet(Holders(s)) /\ Cardinality(Holders(s)) \in Nat
BY LimiterAssumption, FS_Subset, FS_CardinalityType DEF Holders

\* While the accounting holds no counter exceeds its cap.
LEMMA CountersBounded ==
  ASSUME Types, SlotAccounting, NEW s \in Scopes, Limited(s)
  PROVE  value[s] <= Limit[s]
<1>1. Limit[s] \in Nat /\ value[s] \in Nat
  BY LimiterAssumption DEF Types
<1>2. Cardinality(Holders(s)) \in Nat
  BY HoldersFinite
<1>. QED  BY <1>1, <1>2 DEF SlotAccounting

\* A request that starts to hold a slot adds one to the holders.
LEMMA OneMoreHolder ==
  ASSUME NEW s, NEW r \in Requests, ~Holds(r, s), Holders(s)' = Holders(s) \cup {r}
  PROVE  Cardinality(Holders(s)') = Cardinality(Holders(s)) + 1
BY HoldersFinite, FS_AddElement DEF Holders

\* A request that gives back its slot takes one from the holders.
LEMMA OneHolderLess ==
  ASSUME NEW s, NEW r \in Requests, Holds(r, s), Holders(s)' = Holders(s) \ {r}
  PROVE  Cardinality(Holders(s)') = Cardinality(Holders(s)) - 1
BY HoldersFinite, FS_RemoveElement DEF Holders

\* A step of request r balances a scope: the counter moves against r's holding.
Balanced(r, s) ==
  \/ value'[s] = value[s] /\ (Holds(r, s)' <=> Holds(r, s))
  \/ value'[s] = value[s] - 1 /\ ~Holds(r, s) /\ Holds(r, s)'
  \/ value'[s] = value[s] + 1 /\ Holds(r, s) /\ ~Holds(r, s)'

\* Nothing happens to the holdings of the other requests.
OthersKeep(r) == \A q \in Requests \ {r}, s \in Scopes : Holds(q, s)' <=> Holds(q, s)

\* When counter and holders of a scope move by the same amount, or not at all,
\* the accounting survives the step.
LEMMA BalancedAccounting ==
  ASSUME Types, SlotAccounting, Types', NEW r \in Requests, OthersKeep(r),
         \A s \in Scopes : Limited(s) => Balanced(r, s)
  PROVE  SlotAccounting'
<1> SUFFICES ASSUME NEW s \in Scopes, Limited(s)
             PROVE  value'[s] + Cardinality(Holders(s)') = Limit[s]
  BY DEF SlotAccounting, Limited
<1>1. /\ value[s] + Cardinality(Holders(s)) = Limit[s]
      /\ value[s] \in Nat /\ value'[s] \in Nat
      /\ Limit[s] \in Nat /\ Cardinality(Holders(s)) \in Nat
  BY HoldersFinite, LimiterAssumption DEF SlotAccounting, Types
<1>2. CASE value'[s] = value[s] /\ (Holds(r, s)' <=> Holds(r, s))
  <2>1. Holders(s)' = Holders(s)
    BY <1>2 DEF OthersKeep, Holders
  <2>. QED  BY <1>1, <1>2, <2>1
<1>3. CASE value'[s] = value[s] - 1 /\ ~Holds(r, s) /\ Holds(r, s)'
  <2>1. Holders(s)' = Holders(s) \cup {r}
    BY <1>3 DEF OthersKeep, Holders
  <2>2. Cardinality(Holders(s)') = Cardinality(Holders(s)) + 1
    BY <1>3, <2>1, OneMoreHolder
  <2>. QED  BY <1>1, <1>3, <2>2
<1>4. CASE value'[s] = value[s] + 1 /\ Holds(r, s) /\ ~Holds(r, s)'
  <2>1. Holders(s)' = Holders(s) \ {r}
    BY <1>4 DEF OthersKeep, Holders
  <2>2. Cardinality(Holders(s)') = Cardinality(Holders(s)) - 1
    BY <1>4, <2>1, OneHolderLess
  <2>. QED  BY <1>1, <1>4, <2>2
<1>. QED  BY <1>2, <1>3, <1>4 DEF Balanced

-----------------------------------------------------------------------------
(* The inductive invariant.                                                *)

\* Nobody holds a slot in the initial states and every counter is at its cap.
LEMMA InitIInv == Init => IInv
<1> SUFFICES ASSUME Init PROVE IInv
  OBVIOUS
<1>1. Types
  BY LimiterAssumption DEF Init, Types, Stages
<1>2. Control
  BY DEF Init, Control, HandlerControl, Needed
<1>3. SlotAccounting
  <2> SUFFICES ASSUME NEW s \in Scopes
               PROVE  value[s] + Cardinality(Holders(s)) = Limit[s]
    BY DEF SlotAccounting
  <2>1. Holders(s) = {}
    BY DEF Init, Holders, Holds
  <2>. QED  BY <2>1, FS_EmptySet, LimiterAssumption DEF Init
<1>. QED  BY <1>1, <1>2, <1>3 DEF IInv

\* What a step of request r has to establish: the types and its handler's
\* control, everything else following from the balance.
Preserved(r) ==
  /\ Types'
  /\ HandlerControl(r)'
  /\ \A q \in Requests \ {r} :
       /\ pc'[q] = pc[q] /\ agent'[q] = agent[q] /\ acquired'[q] = acquired[q]
       /\ released'[q] = released[q] /\ toRelease'[q] = toRelease[q]
  /\ \A s \in Scopes : Limited(s) => Balanced(r, s)

\* A step that changes neither counters nor holders keeps the accounting.
LEMMA PreservedIInv ==
  ASSUME IInv, NEW r \in Requests, Preserved(r)
  PROVE  IInv'
<1>1. OthersKeep(r)
  BY DEF Preserved, OthersKeep, Holds
<1>2. SlotAccounting'
  BY <1>1, BalancedAccounting DEF IInv, Preserved
<1>3. ASSUME NEW q \in Requests PROVE HandlerControl(q)'
  <2>1. CASE q = r
    BY <2>1 DEF Preserved
  <2>2. CASE q # r
    <3>1. HandlerControl(q)
      BY DEF IInv, Control
    <3>. QED  BY <2>2, <3>1 DEF Preserved, HandlerControl, Needed, Limited
  <2>. QED  BY <2>1, <2>2
<1>. QED  BY <1>2, <1>3 DEF IInv, Control, Preserved

-----------------------------------------------------------------------------
(* One lemma per action.                                                    *)

\* A request that arrives holds nothing yet.
LEMMA ArrivePreserves ==
  ASSUME IInv, NEW r \in Requests, NEW a \in Agents, NEW method, NEW endpoint,
         Arrive(r, a, method, endpoint)
  PROVE  Preserved(r)
<1>1. Types' /\ HandlerControl(r)'
  BY DEF IInv, Types, Control, HandlerControl, Needed, Arrive, At, Goto, Stages
<1>2. \A s \in Scopes : ~Holds(r, s) /\ ~Holds(r, s)'
  BY DEF IInv, Types, Arrive, At, Goto, Holds
<1>. QED  BY <1>1, <1>2 DEF IInv, Types, Preserved, Balanced, Arrive, Goto

\* A request that is not counted never touches a semaphore.
LEMMA PassthroughPreserves ==
  ASSUME IInv, NEW r \in Requests, Passthrough(r)
  PROVE  Preserved(r)
<1>1. Types' /\ HandlerControl(r)'
  BY DEF IInv, Types, Control, HandlerControl, Needed, Passthrough, At, Goto, Stages
<1>2. \A s \in Scopes : ~Holds(r, s) /\ ~Holds(r, s)'
  BY DEF IInv, Types, Passthrough, At, Goto, Holds
<1>. QED  BY <1>1, <1>2 DEF IInv, Types, Preserved, Balanced, Passthrough, Goto

\* Sending the 429 comes after everything was given back.
LEMMA RejectedPreserves ==
  ASSUME IInv, NEW r \in Requests, Rejected(r)
  PROVE  Preserved(r)
<1>1. Types' /\ HandlerControl(r)'
  BY DEF IInv, Types, Control, HandlerControl, Needed, Rejected, At, Goto, Stages
<1>2. \A s \in Scopes : ~Holds(r, s) /\ ~Holds(r, s)'
  BY DEF IInv, Types, Rejected, At, Goto, Holds
<1>. QED  BY <1>1, <1>2 DEF IInv, Types, Preserved, Balanced, Rejected, Goto

\* The end of the last send touches no semaphore.
LEMMA FlushedPreserves ==
  ASSUME IInv, NEW r \in Requests, Flushed(r)
  PROVE  Preserved(r)
<1>1. Types' /\ HandlerControl(r)'
  BY DEF IInv, Types, Control, HandlerControl, Needed, Flushed, At, Goto, Stages
<1>2. \A s \in Scopes : ~Holds(r, s) /\ ~Holds(r, s)'
  BY DEF IInv, Types, Flushed, At, Goto, Holds
<1>. QED  BY <1>1, <1>2 DEF IInv, Types, Preserved, Balanced, Flushed, Goto

\* Taking the global slot makes the request a holder of it, or, without a
\* global cap, of nothing.
LEMMA AcquireGlobalPreserves ==
  ASSUME IInv, NEW r \in Requests, AcquireGlobal(r)
  PROVE  Preserved(r)
<1>. USE DEF AcquireGlobal, At, Goto, TakeSlot
<1>1. Types'
  BY LimiterAssumption DEF IInv, Types, Stages, Scopes
<1>2. HandlerControl(r)'
  BY DEF IInv, Types, Control, HandlerControl, Needed
<1>3. ASSUME NEW s \in Scopes, Limited(s) PROVE Balanced(r, s)
  <2>1. acquired[r] = {} /\ ~Holds(r, s) /\ toRelease[r] = {}
    BY DEF IInv, Control, HandlerControl, Holds
  <2>2. CASE s = Global
    <3>1. value'[s] = value[s] - 1 /\ Holds(r, s)'
      BY <1>3, <2>2 DEF IInv, Types, Holds
    <3>. QED  BY <2>1, <3>1 DEF Balanced
  <2>3. CASE s # Global
    <3>1. value'[s] = value[s] /\ ~Holds(r, s)'
      BY <2>1, <2>3 DEF IInv, Types, Holds
    <3>. QED  BY <2>1, <3>1 DEF Balanced
  <2>. QED  BY <2>2, <2>3
<1>. QED  BY <1>1, <1>2, <1>3 DEF IInv, Types, Preserved

\* A request the global cap turns away has taken nothing.
LEMMA RejectGlobalPreserves ==
  ASSUME IInv, NEW r \in Requests, RejectGlobal(r)
  PROVE  Preserved(r)
<1>. USE DEF RejectGlobal, At, Goto
<1>1. Types' /\ HandlerControl(r)'
  BY DEF IInv, Types, Control, HandlerControl, Needed, Stages
<1>2. \A s \in Scopes : ~Holds(r, s) /\ ~Holds(r, s)'
  BY DEF IInv, Types, Holds
<1>. QED  BY <1>1, <1>2 DEF IInv, Types, Preserved, Balanced

\* Taking the agent's slot makes the request a holder of it as well.
LEMMA AcquireAgentPreserves ==
  ASSUME IInv, NEW r \in Requests, AcquireAgent(r)
  PROVE  Preserved(r)
<1>. USE DEF AcquireAgent, At, Goto, TakeSlot
<1>1. Types'
  BY DEF IInv, Types, Stages, Scopes
<1>2. agent[r] \in Agents /\ agent[r] # Global /\ toRelease[r] = {}
  BY LimiterAssumption DEF IInv, Types
<1>3. HandlerControl(r)'
  BY <1>2 DEF IInv, Types, Control, HandlerControl, Needed
<1>4. ASSUME NEW s \in Scopes, Limited(s) PROVE Balanced(r, s)
  <2>1. acquired[r] = {x \in {Global} : Limited(x)}
    BY DEF IInv, Control, HandlerControl
  <2>2. CASE s = agent[r]
    <3>1. value'[s] = value[s] - 1 /\ ~Holds(r, s) /\ Holds(r, s)'
      BY <1>2, <1>4, <2>1, <2>2 DEF IInv, Types, Holds
    <3>. QED  BY <3>1 DEF Balanced
  <2>3. CASE s # agent[r]
    <3>1. value'[s] = value[s] /\ (Holds(r, s)' <=> Holds(r, s))
      BY <1>2, <2>3 DEF IInv, Types, Holds
    <3>. QED  BY <3>1 DEF Balanced
  <2>. QED  BY <2>2, <2>3
<1>. QED  BY <1>1, <1>3, <1>4 DEF IInv, Types, Preserved

\* Turned away by its agent, a request still holds the global slot it is
\* about to give back.
LEMMA RejectAgentPreserves ==
  ASSUME IInv, NEW r \in Requests, RejectAgent(r)
  PROVE  Preserved(r)
<1>. USE DEF RejectAgent, At, Goto
<1>1. Types' /\ HandlerControl(r)'
  BY DEF IInv, Types, Control, HandlerControl, Needed, Stages
<1>2. \A s \in Scopes : Holds(r, s)' <=> Holds(r, s)
  BY DEF IInv, Types, Holds
<1>. QED  BY <1>1, <1>2 DEF IInv, Types, Preserved, Balanced

\* The counter has room for the slot given back, since r still counts among
\* the holders.
LEMMA ReleaseSlotPreserves ==
  ASSUME IInv, NEW r \in Requests, NEW s \in Scopes, ReleaseSlot(r, s)
  PROVE  Preserved(r)
<1>. USE DEF ReleaseSlot
<1>1. Types'
  BY DEF IInv, Types
<1>2. HandlerControl(r)
  BY DEF IInv, Control
<1>3. HandlerControl(r)'
  BY <1>2 DEF IInv, Types, HandlerControl, Needed, Limited
<1>4. pc[r] \notin {"agent", "running"}
  BY <1>2 DEF HandlerControl
<1>5. ASSUME NEW x \in Scopes PROVE Balanced(r, x)
  <2>1. CASE x = s
    <3>1. value'[x] = value[x] + 1 /\ Holds(r, x) /\ ~Holds(r, x)'
      BY <1>2, <1>4, <2>1 DEF IInv, Types, Holds, HandlerControl
    <3>. QED  BY <3>1 DEF Balanced
  <2>2. CASE x # s
    <3>1. value'[x] = value[x] /\ (Holds(r, x)' <=> Holds(r, x))
      BY <1>4, <2>2 DEF IInv, Types, Holds
    <3>. QED  BY <3>1 DEF Balanced
  <2>. QED  BY <2>1, <2>2
<1>. QED  BY <1>1, <1>3, <1>5 DEF IInv, Types, Preserved

\* With the last chunk the holder's slots move to its release loop.
LEMMA SendLastChunkPreserves ==
  ASSUME IInv, NEW r \in Requests, SendLastChunk(r)
  PROVE  Preserved(r)
<1>. USE DEF SendLastChunk, Release, At, Goto
<1>1. Types' /\ HandlerControl(r)'
  BY DEF IInv, Types, Control, HandlerControl, Needed, Stages
<1>2. ~released[r]
  BY DEF IInv, Control, HandlerControl
<1>3. \A s \in Scopes : Holds(r, s)' <=> Holds(r, s)
  BY <1>2 DEF IInv, Types, Holds
<1>. QED  BY <1>1, <1>3 DEF IInv, Types, Preserved, Balanced

\* The finally clause gives back what a running request holds and nothing
\* once the last chunk was sent.
LEMMA AppEndsPreserves ==
  ASSUME IInv, NEW r \in Requests, AppEnds(r)
  PROVE  Preserved(r)
<1>. USE DEF AppEnds, Release, At, Goto
<1>1. Types' /\ HandlerControl(r)'
  BY DEF IInv, Types, Control, HandlerControl, Needed, Stages
<1>2. \A s \in Scopes : Holds(r, s)' <=> Holds(r, s)
  BY DEF IInv, Types, Control, HandlerControl, Holds
<1>. QED  BY <1>1, <1>2 DEF IInv, Types, Preserved, Balanced

\* Every step of every handler preserves the invariant.
LEMMA NextIInv == IInv /\ [Next]_vars => IInv'
<1> SUFFICES ASSUME IInv, [Next]_vars PROVE IInv'
  OBVIOUS
<1>1. ASSUME NEW r \in Requests, NEW a \in Agents, NEW method \in {"GET", "POST"},
             NEW endpoint \in Endpoints, Arrive(r, a, method, endpoint)
      PROVE  IInv'
  BY <1>1, ArrivePreserves, PreservedIInv
<1>2. ASSUME NEW r \in Requests, Handle(r) PROVE IInv'
  <2>1. CASE Passthrough(r)
    BY <2>1, PassthroughPreserves, PreservedIInv
  <2>2. CASE AcquireGlobal(r)
    BY <2>2, AcquireGlobalPreserves, PreservedIInv
  <2>3. CASE RejectGlobal(r)
    BY <2>3, RejectGlobalPreserves, PreservedIInv
  <2>4. CASE AcquireAgent(r)
    BY <2>4, AcquireAgentPreserves, PreservedIInv
  <2>5. CASE RejectAgent(r)
    BY <2>5, RejectAgentPreserves, PreservedIInv
  <2>6. CASE Rejected(r)
    BY <2>6, RejectedPreserves, PreservedIInv
  <2>7. ASSUME NEW s \in Scopes, ReleaseSlot(r, s) PROVE IInv'
    BY <2>7, ReleaseSlotPreserves, PreservedIInv
  <2>8. CASE SendLastChunk(r)
    BY <2>8, SendLastChunkPreserves, PreservedIInv
  <2>9. CASE Flushed(r)
    BY <2>9, FlushedPreserves, PreservedIInv
  <2>10. CASE AppEnds(r)
    BY <2>10, AppEndsPreserves, PreservedIInv
  <2>. QED  BY <1>2, <2>1, <2>2, <2>3, <2>4, <2>5, <2>6, <2>7, <2>8, <2>9, <2>10 DEF Handle
<1>3. CASE UNCHANGED vars
  BY <1>3 DEF vars, IInv, Types, Control, HandlerControl, SlotAccounting, Holders, Holds
<1>. QED  BY <1>1, <1>2, <1>3 DEF Next

\* The invariant holds in every reachable state.
LEMMA Inductive == Spec => []IInv
BY InitIInv, NextIInv, PTL DEF Spec

-----------------------------------------------------------------------------
(* The theorems.                                                            *)

\* TypeOK of every state: in particular no release overflows a
\* BoundedSemaphore, so release() never raises out of the finally clause.
THEOREM TypeCorrect == Spec => []TypeOK
<1>1. IInv => TypeOK
  BY CountersBounded DEF IInv, Types, TypeOK
<1>. QED  BY <1>1, Inductive, PTL

\* No slot is lost or returned twice, for any number of clients and any caps.
THEOREM Accounting == Spec => []SlotAccounting
<1>1. IInv => SlotAccounting
  BY DEF IInv
<1>. QED  BY <1>1, Inductive, PTL

\* A request whose agent code runs holds a slot of every cap that applies.
LEMMA RunningHolds ==
  ASSUME Control, NEW s \in Scopes, Limited(s)
  PROVE  Running(s) \subseteq Holders(s)
BY DEF Control, HandlerControl, Needed, Running, Holders, Holds

\* The accounting bounds the requests that run under a cap.
LEMMA IInvCaps == IInv => CapsRespected
<1> SUFFICES ASSUME IInv, NEW s \in Scopes, Limited(s)
             PROVE  Cardinality(Running(s)) <= Limit[s]
  BY DEF CapsRespected
<1>1. Cardinality(Running(s)) <= Cardinality(Holders(s))
  BY RunningHolds, HoldersFinite, FS_Subset DEF IInv
<1>2. /\ Cardinality(Running(s)) \in Nat /\ Cardinality(Holders(s)) \in Nat
      /\ value[s] \in Nat /\ Limit[s] \in Nat
  <2>1. IsFiniteSet(Running(s))
    BY LimiterAssumption, FS_Subset DEF Running
  <2>. QED  BY <2>1, HoldersFinite, FS_CardinalityType, LimiterAssumption DEF IInv, Types
<1>. QED  BY <1>1, <1>2 DEF IInv, SlotAccounting

\* The caps hold for the agent code that runs, whatever else happens.
THEOREM Caps == Spec => []CapsRespected
BY Inductive, IInvCaps, PTL

\* A full semaphore is held by others: r, which was not let in, is not a holder.
LEMMA FullScope ==
  ASSUME IInv, NEW r \in Requests, NEW s \in Scopes, Limited(s), value[s] = 0, ~Holds(r, s)
  PROVE  Cardinality(Holders(s) \ {r}) = Limit[s]
<1>1. Holders(s) \ {r} = Holders(s)
  BY DEF Holders
<1>2. Cardinality(Holders(s)) \in Nat /\ Limit[s] \in Nat
  BY HoldersFinite, LimiterAssumption
<1>. QED  BY <1>1, <1>2 DEF IInv, SlotAccounting

\* A step into a 429 is taken only when the other requests fill the scope.
LEMMA StepJustified ==
  ASSUME IInv, Next, NEW r \in Requests, pc[r] # "rejecting", pc'[r] = "rejecting"
  PROVE  \E s \in {Global, agent[r]} :
           Limited(s) /\ Cardinality(Holders(s) \ {r}) = Limit[s]
<1>1. PICK q \in Requests :
        \/ \E a \in Agents, method \in {"GET", "POST"}, endpoint \in Endpoints :
             Arrive(q, a, method, endpoint)
        \/ Handle(q)
  BY DEF Next
<1>2. RejectGlobal(r) \/ RejectAgent(r)
  BY <1>1 DEF IInv, Types, Handle, Arrive, Passthrough, AcquireGlobal, RejectGlobal,
     AcquireAgent, RejectAgent, Rejected, ReleaseSlot, SendLastChunk, Flushed, AppEnds, Goto
<1>3. CASE RejectGlobal(r)
  <2>1. Limited(Global) /\ value[Global] = 0 /\ ~Holds(r, Global)
    BY <1>3 DEF RejectGlobal, At, Holds
  <2>. QED  BY <2>1, FullScope DEF Scopes
<1>4. CASE RejectAgent(r)
  <2>1. Limited(agent[r]) /\ value[agent[r]] = 0 /\ agent[r] \in Agents
    BY <1>4 DEF RejectAgent, IInv, Types
  <2>2. agent[r] \notin acquired[r]
    BY <1>4, <2>1, LimiterAssumption DEF RejectAgent, At, IInv, Control, HandlerControl
  <2>. QED  BY <2>1, <2>2, FullScope DEF Scopes, Holds
<1>. QED  BY <1>2, <1>3, <1>4

\* A 429 always has its cause: some scope all of whose slots others hold.
THEOREM RejectionsAlwaysJustified == Spec => RejectionsJustified
<1>1. IInv /\ [Next]_vars =>
        [\A r \in Requests :
           (pc[r] # "rejecting" /\ pc'[r] = "rejecting") =>
             \E s \in {Global, agent[r]} :
               Limited(s) /\ Cardinality(Holders(s) \ {r}) = Limit[s]]_vars
  BY StepJustified
<1>. QED  BY <1>1, Inductive, PTL DEF Spec, RejectionsJustified

-----------------------------------------------------------------------------
(* The middleware implements Admission, up to its liveness.                 *)

\* The load of the abstract specification is the running requests.
LEMMA LoadIsRunning == \A s : Promise!Load(s) = Running(s)
BY DEF Promise!Load, Running, Admitted

\* Counting means the same in Admission as here.
LEMMA SameCardinality == \A S : Promise!Cardinality(S) = Cardinality(S)
BY DEF Promise!Cardinality, Cardinality

\* A request about to run finds room under both caps: it is itself one of the
\* holders of the global slot, and its agent's counter is positive.
LEMMA AcquireAgentFindsRoom ==
  ASSUME IInv, NEW r \in Requests, AcquireAgent(r)
  PROVE  Promise!HasRoom(Global) /\ Promise!HasRoom(agent[r])
<1>1. ASSUME NEW s \in Scopes
      PROVE  IsFiniteSet(Running(s)) /\ Cardinality(Running(s)) \in Nat
  BY LimiterAssumption, FS_Subset, FS_CardinalityType DEF Running
<1>2. ASSUME Limited(Global)
      PROVE  Cardinality(Running(Global)) < Limit[Global]
  <2>1. Holds(r, Global) /\ r \notin Running(Global)
    BY <1>2 DEF AcquireAgent, At, Holds, Running, IInv, Control, HandlerControl
  <2>2. Running(Global) \subseteq Holders(Global) \ {r}
    BY <1>2, <2>1, RunningHolds DEF IInv, Scopes
  <2>3. /\ IsFiniteSet(Holders(Global) \ {r})
        /\ Cardinality(Holders(Global) \ {r}) = Cardinality(Holders(Global)) - 1
    BY <2>1, HoldersFinite, FS_RemoveElement DEF Holders
  <2>4. Cardinality(Running(Global)) <= Cardinality(Holders(Global)) - 1
    BY <2>2, <2>3, FS_Subset
  <2>5. value[Global] + Cardinality(Holders(Global)) = Limit[Global]
    BY <1>2 DEF IInv, SlotAccounting, Scopes
  <2>. QED
    BY <1>1, <2>4, <2>5, HoldersFinite, LimiterAssumption DEF IInv, Types, Scopes
<1>3. ASSUME Limited(agent[r])
      PROVE  Cardinality(Running(agent[r])) < Limit[agent[r]]
  <2>1. agent[r] \in Scopes /\ value[agent[r]] > 0
    BY <1>3 DEF AcquireAgent, TakeSlot, IInv, Types, Scopes
  <2>2. Cardinality(Running(agent[r])) <= Cardinality(Holders(agent[r]))
    BY <1>3, <2>1, RunningHolds, HoldersFinite, FS_Subset DEF IInv
  <2>3. value[agent[r]] + Cardinality(Holders(agent[r])) = Limit[agent[r]]
    BY <1>3, <2>1 DEF IInv, SlotAccounting
  <2>. QED
    BY <1>1, <2>1, <2>2, <2>3, HoldersFinite, LimiterAssumption DEF IInv, Types
<1>. QED  BY <1>2, <1>3, LoadIsRunning, SameCardinality DEF Promise!HasRoom, Limited

\* Every step of the middleware is a step of Admission or a stutter.
LEMMA StepImplements ==
  ASSUME IInv, [Next]_vars
  PROVE  [Promise!Next]_(Promise!vars)
<1>. USE DEF Promise!vars, Admitted
<1>1. ASSUME NEW r \in Requests, NEW a \in Agents, NEW method, NEW endpoint,
             Arrive(r, a, method, endpoint)
      PROVE  Promise!Choose(r, a)
  <2>1. r \notin Admitted /\ Admitted' = Admitted
    BY <1>1 DEF IInv, Types, Arrive, At, Goto
  <2>. QED  BY <1>1, <2>1 DEF Arrive, Promise!Choose
<1>2. ASSUME NEW r \in Requests, AcquireAgent(r)
      PROVE  Promise!Admit(r)
  <2>1. r \notin Admitted /\ Admitted' = Admitted \cup {r} /\ agent' = agent
    BY <1>2 DEF IInv, Types, AcquireAgent, At, Goto
  <2>. QED  BY <1>2, <2>1, AcquireAgentFindsRoom DEF Promise!Admit
<1>3. ASSUME NEW r \in Requests, pc[r] = "running", SendLastChunk(r) \/ AppEnds(r)
      PROVE  Promise!Leave(r)
  <2>1. r \in Admitted /\ Admitted' = Admitted \ {r} /\ agent' = agent
    BY <1>3 DEF IInv, Types, SendLastChunk, AppEnds, Goto
  <2>. QED  BY <2>1 DEF Promise!Leave
<1>4. ASSUME NEW r \in Requests, Handle(r), ~AcquireAgent(r),
             ~(pc[r] = "running" /\ (SendLastChunk(r) \/ AppEnds(r)))
      PROVE  Admitted' = Admitted /\ agent' = agent
  BY <1>4 DEF IInv, Types, Handle, Passthrough, AcquireGlobal, RejectGlobal, RejectAgent,
     Rejected, ReleaseSlot, SendLastChunk, Flushed, AppEnds, At, Goto
<1>5. CASE UNCHANGED vars
  BY <1>5 DEF vars
<1>. QED  BY <1>1, <1>2, <1>3, <1>4, <1>5 DEF Next, Promise!Next

\* Every behaviour of the middleware, seen through the requests whose agent
\* code runs, is one the atomic admission control allows.
THEOREM Implements == Spec => Promise!Safety
<1>1. Init => Promise!Init
  BY DEF Init, Promise!Init, Admitted
<1>. QED  BY <1>1, StepImplements, Inductive, PTL DEF Spec, Promise!Safety

=============================================================================
