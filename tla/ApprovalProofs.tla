--------------------------- MODULE ApprovalProofs ---------------------------
(***************************************************************************)
(* Proofs about Approval for any finite set of request slots, any threads, *)
(* any capacity of the FIFO and any bounds on sends, failures and          *)
(* restarts.                                                               *)
(*                                                                         *)
(* None of the invariants the runs check is inductive.  The inductive one, *)
(* IInv, adds what a request knows at each stage (Stations), and for each  *)
(* counter the requests that may still move it: those that may open a task *)
(* (TasksCounted), those with a place in the FIFO ahead of them            *)
(* (FifoCounted), those that may still push (PushesCounted) and those that *)
(* carry an approval or act on one (ApprovalsCounted).  An id that has an   *)
(* entry (Known) is asked for, or somebody is about to say so, or nobody   *)
(* will, as the process went down in between (Said).                       *)
(***************************************************************************)
EXTENDS Approval, FiniteSetTheorems, SequenceTheorems, TLAPS

-----------------------------------------------------------------------------
(* The inductive invariant.                                                *)

\* The ids whose entry has been made, whether it is still there or not.
Known == Announced \cup forgotten

\* What a slot says of the request it handles.
Slots == [kind : Kinds \cup {"none"}, thread : Threads \cup {"none"}, task : Nat,
          approved : BOOLEAN, given : SUBSET BOOLEAN, victim : Ids \cup {<<>>}]

\* What a thread holds.
Checkpoints == [task : Nat, at : {"empty", "todo", "pending", "done"}, given : SUBSET BOOLEAN]

\* The types of the state, without any bound.
Types ==
  /\ thread \in [Threads -> Checkpoints]
  /\ announced \in Seq(Ids)
  /\ run \in [Requests -> Slots]
  /\ pc \in [Requests -> Stages]
  /\ asked \subseteq Ids /\ unsaid \subseteq Ids /\ refused \subseteq asked
  /\ pushed \in [Ids -> Nat] /\ effects \in [Ids -> Nat] /\ approvals \in [Threads -> Nat]
  /\ sent \in 0..MaxSends /\ failures \in Nat /\ restarts \in Nat

\* The stages ahead of the graph's run, and those of its node.
Ahead == {"checking", "loading"}
InNode == {"asking", "room", "evicting", "marking", "announcing", "pushing", "interrupting", "acting", "saving"}

\* What a request knows where it is.
Station(r) ==
  /\ pc[r] # "idle" => run[r].thread \in Threads /\ run[r].kind \in Kinds
  /\ pc[r] = "checking" => run[r].kind = "resume"
  /\ run[r].approved => Resumes(r)
  /\ (pc[r] = "loading" /\ run[r].kind = "resume") => thread[run[r].thread].at # "empty"
  /\ pc[r] \in InNode => Id(r) \in Ids /\ thread[run[r].thread].at # "empty"
  /\ pc[r] = "evicting" => run[r].victim \in Ids
  /\ pc[r] \in {"announcing", "pushing", "interrupting"} => Id(r) \in Known
  /\ pc[r] = "pushing" => Id(r) \in asked
  /\ pc[r] = "acting" => TRUE \in run[r].given

Stations == \A r \in Requests : Station(r)

\* The requests that may still open a task of t.
Openers(t) ==
  {r \in Requests : pc[r] \in Ahead /\ run[r].thread = t /\ run[r].kind # "rerun"}

\* A thread has as many tasks as it has had inputs.
TasksCounted ==
  \A t \in Threads :
    /\ thread[t].task + Cardinality(Openers(t)) <= sent
    /\ thread[t].at = "empty" <=> thread[t].task = 0

\* The FIFO has no duplicates, and room for those who have looked for it.
Marking == {r \in Requests : pc[r] = "marking"}

FifoCounted ==
  /\ \A m, n \in 1..Len(announced) : announced[m] = announced[n] => m = n
  /\ Len(announced) + Cardinality(Marking) <= Capacity + Cardinality(Requests) - 1

\* Every request that was made has had an entry, and for every entry the request was
\* made, is about to be, or was cut off by a restart.
BeingSaid(i) == \E r \in Announcing : Id(r) = i

Said ==
  /\ asked \subseteq Known
  /\ \A i \in Known : i \in asked \/ i \in unsaid \/ BeingSaid(i)

\* Every decision has had its entry, and so has what a thread waits for.
Asked ==
  /\ decided \subseteq Known
  /\ \A t \in Threads : thread[t].at = "pending" => <<t, thread[t].task>> \in Known

\* What has an entry has reached the adapter, or is on its way.
HandedOver(i) ==
  \/ pushed[i] > 0
  \/ i \in refused
  \/ \E r \in Requests : pc[r] \in {"announcing", "pushing"} /\ Id(r) = i

AllHandedOver == restarts = 0 => \A i \in Known : HandedOver(i)

\* The requests that may push i although it is remembered by now.
Pushers(i) ==
  {r \in Requests : pc[r] \in {"room", "evicting", "marking", "announcing", "pushing"} /\ Id(r) = i}

PushesCounted ==
  \A i \in Ids :
    /\ i \notin Known => pushed[i] = 0
    /\ i \notin forgotten => pushed[i] + Cardinality(Pushers(i)) <= Cardinality(Requests)

\* The requests that bring an approval to t, and the tasks of t that have one.
Tickets(t) == {r \in Requests : pc[r] \in Ahead /\ run[r].thread = t /\ run[r].approved}

Approved(t, k) ==
  \/ effects[<<t, k>>] > 0
  \/ thread[t].task = k /\ TRUE \in thread[t].given
  \/ \E r \in Requests : pc[r] \in InNode /\ Id(r) = <<t, k>> /\ TRUE \in run[r].given

ApprovedTasks(t) == {k \in 1..MaxSends : Approved(t, k)}

ApprovalsCounted ==
  \A t \in Threads : Cardinality(ApprovedTasks(t)) + Cardinality(Tickets(t)) <= approvals[t]

IInv ==
  /\ Types /\ Stations /\ TasksCounted /\ FifoCounted /\ Said /\ Asked
  /\ AllHandedOver /\ PushesCounted /\ ApprovalsCounted
-----------------------------------------------------------------------------
(* Counting.                                                               *)

\* Request slots can be counted.
LEMMA RequestsFinite ==
  ASSUME NEW S \in SUBSET Requests
  PROVE  IsFiniteSet(S) /\ Cardinality(S) \in Nat /\ Cardinality(S) <= Cardinality(Requests)
BY ApprovalAssumption, FS_Subset, FS_CardinalityType

\* What one element more or less does to a number of elements, at most.
LEMMA Counting ==
  ASSUME NEW S, NEW T, NEW r, IsFiniteSet(S), T \subseteq S \cup {r}
  PROVE  /\ IsFiniteSet(T)
         /\ Cardinality(S) \in Nat /\ Cardinality(T) \in Nat
         /\ Cardinality(T) <= Cardinality(S) + 1
         /\ T \subseteq S => Cardinality(T) <= Cardinality(S)
         /\ (r \in S /\ r \notin T) => Cardinality(T) + 1 <= Cardinality(S)
<1>1. Cardinality(S) \in Nat
  BY FS_CardinalityType
<1>2. IsFiniteSet(S \cup {r}) /\ Cardinality(S \cup {r}) <= Cardinality(S) + 1
  <2> DEFINE U == S \cup {r}
  <2>1. /\ IsFiniteSet(U)
        /\ Cardinality(U) = IF r \in S THEN Cardinality(S) ELSE Cardinality(S) + 1
    BY FS_AddElement
  <2> HIDE DEF U
  <2>2. IsFiniteSet(U) /\ Cardinality(U) <= Cardinality(S) + 1
    BY <1>1, <2>1
  <2> QED
    BY <2>2 DEF U
<1>3. /\ IsFiniteSet(T) /\ Cardinality(T) <= Cardinality(S \cup {r})
      /\ Cardinality(T) \in Nat /\ Cardinality(S \cup {r}) \in Nat
  BY <1>2, FS_Subset, FS_CardinalityType
<1>4. ASSUME T \subseteq S PROVE Cardinality(T) <= Cardinality(S)
  BY <1>4, FS_Subset
<1>5. ASSUME r \in S, r \notin T PROVE Cardinality(T) + 1 <= Cardinality(S)
  <2>1. T \in SUBSET (S \ {r})
    BY <1>5
  <2> DEFINE U == S \ {r}
  <2>2. IsFiniteSet(U) /\ Cardinality(U) = Cardinality(S) - 1
    BY <1>5, FS_RemoveElement
  <2>3. Cardinality(T) <= Cardinality(U)
    BY <2>1, <2>2, FS_Subset
  <2> HIDE DEF U
  <2> QED
    BY <1>1, <1>3, <2>2, <2>3
<1> QED
  BY <1>1, <1>2, <1>3, <1>4, <1>5

\* The sets of requests that the invariant counts are finite.
LEMMA CountedFinite ==
  /\ IsFiniteSet(Marking) /\ Cardinality(Marking) \in Nat
  /\ \A t : IsFiniteSet(Openers(t)) /\ Cardinality(Openers(t)) \in Nat
  /\ \A t : IsFiniteSet(Tickets(t)) /\ Cardinality(Tickets(t)) \in Nat
  /\ \A i : IsFiniteSet(Pushers(i)) /\ Cardinality(Pushers(i)) \in Nat
  /\ IsFiniteSet(Requests) /\ Cardinality(Requests) \in Nat
BY RequestsFinite DEF Marking, Openers, Tickets, Pushers

\* And so are the tasks of a thread.
LEMMA TasksFinite ==
  ASSUME NEW t
  PROVE  IsFiniteSet(ApprovedTasks(t)) /\ Cardinality(ApprovedTasks(t)) \in Nat
<1>1. IsFiniteSet(1..MaxSends)
  BY ApprovalAssumption, FS_Interval
<1> QED
  BY <1>1, FS_Subset, FS_CardinalityType DEF ApprovedTasks

-----------------------------------------------------------------------------
(* The initial states.                                                     *)

LEMMA InitIInv == Init => IInv
<1> SUFFICES ASSUME Init PROVE IInv
  OBVIOUS
<1> USE DEF Init, Nobody
<1>1. Types /\ Stations
  BY ApprovalAssumption DEF Types, Slots, Checkpoints, Stations, Station, Stages, Kinds, Ahead, InNode, Ids, Resumes
<1>2. /\ \A t : Openers(t) = {} /\ Tickets(t) = {}
      /\ \A i : Pushers(i) = {}
      /\ Marking = {}
  BY DEF Openers, Tickets, Pushers, Marking, Ahead
<1>3. /\ \A t : Cardinality(Openers(t)) = 0 /\ Cardinality(Tickets(t)) = 0
      /\ \A i : Cardinality(Pushers(i)) = 0
      /\ Cardinality(Marking) = 0 /\ Cardinality(Requests) \in Nat
      /\ Cardinality({}) = 0 /\ Capacity \in Nat \ {0}
  BY <1>2, FS_EmptySet, CountedFinite, ApprovalAssumption
<1>4. TasksCounted
  BY <1>3 DEF TasksCounted
<1>9. Known = {}
  BY DEF Known, Announced
<1>5. FifoCounted /\ Said
  BY <1>3, <1>9 DEF FifoCounted, Said
<1>6. Asked /\ AllHandedOver
  BY <1>9 DEF Asked, AllHandedOver
<1>7. PushesCounted
  BY <1>3 DEF PushesCounted
<1>8. ApprovalsCounted
  <2>1. ASSUME NEW t \in Threads PROVE Cardinality(ApprovedTasks(t)) = 0
    <3>1. ASSUME NEW k \in 1..MaxSends PROVE effects[<<t, k>>] = 0 /\ thread[t].given = {}
      BY DEF Ids
    <3>2. \A r \in Requests : pc[r] \notin InNode
      BY DEF InNode
    <3> HIDE DEF Init
    <3>3. ASSUME NEW k \in 1..MaxSends PROVE ~(effects[<<t, k>>] > 0)
      BY <3>1
    <3>4. ApprovedTasks(t) = {}
      BY <3>1, <3>2, <3>3, Zenon DEF ApprovedTasks, Approved
    <3> QED
      BY <1>3, <3>4
  <2> QED
    BY <1>3, <2>1 DEF ApprovalsCounted
<1> QED
  BY <1>1, <1>4, <1>5, <1>6, <1>7, <1>8 DEF IInv

-----------------------------------------------------------------------------
(* Steps.                                                                  *)

\* A sequence without its n-th element.
LEMMA RemoveAtProperties ==
  ASSUME NEW S, NEW s \in Seq(S), NEW n \in 1..Len(s)
  PROVE  /\ RemoveAt(s, n) \in Seq(S)
         /\ Len(RemoveAt(s, n)) = Len(s) - 1
         /\ \A i \in 1..(Len(s) - 1) :
              RemoveAt(s, n)[i] = IF i < n THEN s[i] ELSE s[i + 1]
<1> DEFINE a == SubSeq(s, 1, n - 1)
           b == SubSeq(s, n + 1, Len(s))
<1>1. Len(s) \in Nat /\ \A i \in 1..Len(s) : s[i] \in S
  BY LenProperties, ElementOfSeq
<1>2. /\ a \in Seq(S) /\ Len(a) = n - 1
      /\ \A i \in 1..(n - 1) : a[i] = s[i]
  BY <1>1, SubSeqProperties
<1>3. /\ b \in Seq(S) /\ Len(b) = Len(s) - n
      /\ \A i \in 1..(Len(s) - n) : b[i] = s[i + n]
  BY <1>1, SubSeqProperties
<1>4. RemoveAt(s, n) = a \o b
  BY DEF RemoveAt
<1> HIDE DEF a, b
<1>5. /\ a \o b \in Seq(S) /\ Len(a \o b) = Len(s) - 1
      /\ \A i \in 1..(Len(s) - 1) :
           (a \o b)[i] = IF i <= n - 1 THEN a[i] ELSE b[i - (n - 1)]
  <2>1. /\ a \o b \in Seq(S) /\ Len(a \o b) = Len(a) + Len(b)
        /\ \A i \in 1..(Len(a) + Len(b)) :
             (a \o b)[i] = IF i <= Len(a) THEN a[i] ELSE b[i - Len(a)]
    BY <1>2, <1>3, ConcatProperties
  <2>2. Len(a) = n - 1 /\ Len(a) + Len(b) = Len(s) - 1
    BY <1>1, <1>2, <1>3
  <2> QED
    BY <2>1, <2>2
<1>6. ASSUME NEW i \in 1..(Len(s) - 1)
      PROVE  (a \o b)[i] = IF i < n THEN s[i] ELSE s[i + 1]
  <2>1. CASE i < n
    <3>1. i \in 1..(n - 1) /\ i <= n - 1
      BY <1>1, <2>1
    <3> QED BY <1>2, <1>5, <2>1, <3>1
  <2>2. CASE ~(i < n)
    <3>1. ~(i <= n - 1) /\ i - (n - 1) \in 1..(Len(s) - n) /\ (i - (n - 1)) + n = i + 1
      BY <1>1, <2>2
    <3> QED BY <1>3, <1>5, <2>2, <3>1
  <2> QED BY <2>1, <2>2
<1> QED
  BY <1>4, <1>5, <1>6

\* What changes of a slot keeps its type.
LEMMA SlotChanges ==
  ASSUME NEW slot \in Slots
  PROVE  /\ \A k \in Nat, given \in SUBSET BOOLEAN : [slot EXCEPT !.task = k, !.given = given] \in Slots
         /\ \A victim \in Ids \cup {<<>>} : [slot EXCEPT !.victim = victim] \in Slots
<1> DEFINE kinds == Kinds \cup {"none"}
           threads == Threads \cup {"none"}
           victims == Ids \cup {<<>>}
<1>1. Slots = [kind : kinds, thread : threads, task : Nat, approved : BOOLEAN,
               given : SUBSET BOOLEAN, victim : victims]
  BY DEF Slots
<1> HIDE DEF kinds, threads, victims
<1>2. \A k \in Nat, given \in SUBSET BOOLEAN : [slot EXCEPT !.task = k, !.given = given] \in Slots
  BY <1>1
<1>3. \A victim \in victims : [slot EXCEPT !.victim = victim] \in Slots
  BY <1>1
<1> QED BY <1>2, <1>3, ZenonT(60) DEF victims

\* A request moves alone.
OthersKeep(r) ==
  \A q \in Requests \ {r} : pc'[q] = pc[q] /\ run'[q] = run[q]

\* The types of what a step of a request does to its slot.
LEMMA SlotTypes ==
  ASSUME Types, NEW r \in Requests, pc[r] # "idle", run[r].thread \in Threads,
         Answer(r) \/ NodeRaises(r)
  PROVE  run' \in [Requests -> Slots] /\ pc' \in [Requests -> Stages]
<1>1. Nobody \in Slots
  BY DEF Nobody, Slots
<1>2. [Nobody EXCEPT !.kind = "rerun", !.thread = run[r].thread] \in Slots
  BY DEF Nobody, Slots, Kinds
<1>3. "idle" \in Stages /\ "loading" \in Stages
  BY DEF Stages
<1> QED
  BY <1>1, <1>2, <1>3 DEF Types, Answer, NodeRaises

LEMMA StepKeepsOthers ==
  ASSUME Types, NEW r \in Requests, Step(r)
  PROVE  OthersKeep(r)
<1> USE DEF OthersKeep, Types, Goto, Answer, NodeRaises
<1>1. CASE CheckPending(r) \/ Asking(r) \/ MakeRoom(r) \/ Evict(r)
  BY <1>1 DEF CheckPending, Asking, MakeRoom, Evict
<1>2. CASE Load(r)
  BY <1>2 DEF Load, StartNode
<1>3. CASE Mark(r) \/ Announce(r) \/ Push(r) \/ Interrupt(r) \/ Decide(r)
  BY <1>3 DEF Mark, Announce, Push, Interrupt, Decide
<1>4. CASE Act(r) \/ Fail(r) \/ Save(r)
  BY <1>4 DEF Act, Fail, Save
<1> QED
  BY <1>1, <1>2, <1>3, <1>4 DEF Step

\* What a step leaves alone keeps its type; so only what it changes is looked at.
LEMMA StepTypes ==
  ASSUME IInv, NEW r \in Requests, Step(r)
  PROVE  Types'
<1> USE ApprovalAssumption
<1>0. /\ Types /\ Station(r)
      /\ \A t \in Threads : thread[t].task + Cardinality(Openers(t)) <= sent
  BY DEF IInv, Stations, TasksCounted
<1>1. CASE CheckPending(r)
  <2>1. run' \in [Requests -> Slots] /\ pc' \in [Requests -> Stages]
    BY <1>0, <1>1, SlotTypes DEF CheckPending, Goto, Types, Stages, Station
  <2> QED
    BY <1>0, <1>1, <2>1 DEF CheckPending, Types, memory, history, bounds
<1>2. CASE Load(r)
  <2> DEFINE t == run[r].thread
  <2>1. t \in Threads /\ thread[t].task \in Nat
    BY <1>0, <1>2 DEF Load, Station, Types, Checkpoints
  <2>2. ASSUME NEW k \in Nat, StartNode(r, t, k)
        PROVE  /\ run' \in [Requests -> Slots] /\ pc' \in [Requests -> Stages]
               /\ thread' \in [Threads -> Checkpoints]
    <3> DEFINE old == IF k = thread[t].task THEN thread[t]
                      ELSE [task |-> k, at |-> "todo", given |-> {}]
               given == old.given \cup IF Resumes(r) THEN {run[r].approved} ELSE {}
    <3>1. old \in Checkpoints /\ given \in SUBSET BOOLEAN
      <4>1. old \in Checkpoints
        BY <1>0, <2>1 DEF Types, Checkpoints
      <4>2. run[r].approved \in BOOLEAN
        BY <1>0 DEF Types, Slots
      <4> QED
        BY <4>1, <4>2 DEF Checkpoints
    <3>2. /\ run' = [run EXCEPT ![r] = [@ EXCEPT !.task = k, !.given = given]]
          /\ thread' = [thread EXCEPT ![t] = [old EXCEPT !.given = given]]
          /\ pc' = [pc EXCEPT ![r] = "asking"]
      BY <2>2, Zenon DEF StartNode
    <3> HIDE DEF old, given
    <3>3. [old EXCEPT !.given = given] \in Checkpoints
      BY <3>1 DEF Checkpoints
    <3>4. run' \in [Requests -> Slots] /\ pc' \in [Requests -> Stages]
      <4>0. run[r] \in Slots
        BY <1>0 DEF Types
      <4>1. [run[r] EXCEPT !.task = k, !.given = given] \in Slots
        BY <3>1, <4>0, SlotChanges, ZenonT(60)
      <4> QED
        BY <1>0, <3>2, <4>1 DEF Types, Stages
    <3> QED
      BY <1>0, <2>1, <3>2, <3>3, <3>4 DEF Types
  <2>3. /\ run' \in [Requests -> Slots] /\ pc' \in [Requests -> Stages]
        /\ thread' \in [Threads -> Checkpoints]
    BY <1>0, <1>2, <2>1, <2>2, SlotTypes DEF Load, Types
  <2> QED
    BY <1>0, <1>2, <2>3 DEF Load, Types, memory, history, bounds
<1>3. CASE Asking(r)
  BY <1>0, <1>3 DEF Asking, Goto, Types, Stages, memory, history, bounds
<1>4. CASE MakeRoom(r)
  <2>1. Len(announced) >= Capacity => Head(announced) \in Ids
    BY <1>0, HeadTailProperties, EmptySeq DEF Types
  <2>2. Len(announced) >= Capacity => [run[r] EXCEPT !.victim = Head(announced)] \in Slots
    <3>1. run[r] \in Slots
      BY <1>0 DEF Types
    <3> QED BY <2>1, <3>1, SlotChanges, ZenonT(60)
  <2>3. run' \in [Requests -> Slots] /\ pc' \in [Requests -> Stages]
    BY <1>0, <1>4, <2>2 DEF MakeRoom, Goto, Types, Stages
  <2> QED
    BY <1>0, <1>4, <2>3 DEF MakeRoom, Types, memory, history, bounds
<1>5. CASE Evict(r)
  <2>1. run' \in [Requests -> Slots] /\ pc' \in [Requests -> Stages]
    <3>1. CASE NodeRaises(r)
      BY <1>0, <1>5, <3>1, SlotTypes DEF Evict, Station
    <3>2. CASE /\ pc' = [pc EXCEPT ![r] = "marking"]
               /\ run' = [run EXCEPT ![r].victim = <<>>]
      <4>0. run[r] \in Slots
        BY <1>0 DEF Types
      <4>1. [run[r] EXCEPT !.victim = <<>>] \in Slots
        BY <4>0, SlotChanges, ZenonT(60)
      <4> QED
        BY <1>0, <3>2, <4>1 DEF Types, Stages
    <3> QED
      BY <1>5, <3>1, <3>2 DEF Evict
  <2>2. announced' \in Seq(Ids)
    BY <1>0, <1>5, RemoveAtProperties DEF Evict, Types, memory
  <2> QED
    BY <1>0, <1>5, <2>1, <2>2 DEF Evict, Types, history, bounds
<1>6. CASE Mark(r)
  BY <1>0, <1>6, AppendProperties DEF Mark, Goto, Types, Stages, Station, InNode, history, bounds
<1>7. CASE Push(r)
  <2>1. run' \in [Requests -> Slots] /\ pc' \in [Requests -> Stages]
    BY <1>0, <1>7, SlotTypes DEF Push, Goto, Types, Stages, Station
  <2>2. Id(r) \in Ids /\ Id(r) \in asked
    BY <1>0, <1>7 DEF Push, Station, InNode
  <2>3. pushed' \in [Ids -> Nat] /\ refused' \subseteq asked /\ failures' \in Nat
    BY <1>0, <1>7, <2>2 DEF Push, Types
  <2> QED
    BY <1>0, <1>7, <2>1, <2>3 DEF Push, Types, memory
<1>8. CASE Interrupt(r)
  <2>1. run' \in [Requests -> Slots] /\ pc' \in [Requests -> Stages]
    BY <1>0, <1>8, SlotTypes DEF Interrupt, Station
  <2> DEFINE t == run[r].thread
             at == IF thread[t].task = run[r].task /\ thread[t].at = "todo"
                   THEN "pending" ELSE thread[t].at
  <2>2. t \in Threads /\ thread' = [thread EXCEPT ![t].at = at]
    BY <1>0, <1>8 DEF Interrupt, Station, Types
  <2>3. thread[t] \in Checkpoints /\ [thread[t] EXCEPT !.at = at] \in Checkpoints
    BY <1>0, <2>2 DEF Types, Checkpoints
  <2> HIDE DEF t, at
  <2>4. thread' \in [Threads -> Checkpoints]
    BY <1>0, <2>2, <2>3 DEF Types
  <2> QED
    BY <1>0, <1>8, <2>1, <2>4 DEF Interrupt, Types, memory, history, bounds
<1>9. CASE Decide(r)
  BY <1>0, <1>9 DEF Decide, Goto, Types, Stages, memory, bounds
<1>10. CASE Act(r)
  BY <1>0, <1>10 DEF Act, Goto, Types, Stages, Station, InNode, memory, bounds
<1>11. CASE Fail(r)
  <2>1. run' \in [Requests -> Slots] /\ pc' \in [Requests -> Stages]
    BY <1>0, <1>11, SlotTypes DEF Fail, Station
  <2> QED
    BY <1>0, <1>11, <2>1 DEF Fail, Types, memory, history
<1>12. CASE Save(r)
  <2>1. run' \in [Requests -> Slots] /\ pc' \in [Requests -> Stages]
    BY <1>0, <1>12, SlotTypes DEF Save, Station
  <2>2. ASSUME NEW t \in Threads
        PROVE  [thread[t] EXCEPT !.at = "done", !.given = {}] \in Checkpoints
    BY <1>0 DEF Types, Checkpoints
  <2>3. thread' \in [Threads -> Checkpoints]
    BY <1>0, <1>12, <2>2, ZenonT(60) DEF Save, Types
  <2> QED
    BY <1>0, <1>12, <2>1, <2>3 DEF Save, Types, memory, history, bounds
<1>13. CASE Announce(r)
  <2>1. Id(r) \in Ids
    BY <1>0, <1>13 DEF Announce, Station, InNode
  <2> QED
    BY <1>0, <1>13, <2>1 DEF Announce, Goto, Types, Stages, memory, bounds
<1> QED
  BY <1>1, <1>2, <1>3, <1>4, <1>5, <1>6, <1>7, <1>8, <1>9, <1>10, <1>11, <1>12, <1>13 DEF Step

\* What the entries are after one is appended or taken out.
LEMMA AppendedEntries ==
  ASSUME Types, NEW i \in Ids, announced' = Append(announced, i)
  PROVE  /\ Announced' = Announced \cup {i} /\ Len(announced') = Len(announced) + 1
         /\ \A m \in 1..Len(announced) : announced'[m] = announced[m]
         /\ announced'[Len(announced) + 1] = i
<1>1. /\ Len(announced') = Len(announced) + 1 /\ Len(announced) \in Nat
      /\ \A m \in 1..Len(announced) : announced'[m] = announced[m]
      /\ announced'[Len(announced) + 1] = i
  BY AppendProperties, LenProperties DEF Types
<1>2. \A m \in 1..Len(announced') : m \in 1..Len(announced) \/ m = Len(announced) + 1
  BY <1>1
<1>3. \A m \in 1..Len(announced) : m \in 1..Len(announced')
  BY <1>1
<1>4. Len(announced) + 1 \in 1..Len(announced')
  BY <1>1
<1> QED
  BY <1>1, <1>2, <1>3, <1>4 DEF Announced

LEMMA RemovedEntries ==
  ASSUME IInv, NEW n \in 1..Len(announced), announced' = RemoveAt(announced, n)
  PROVE  /\ Announced' = Announced \ {announced[n]} /\ Len(announced') = Len(announced) - 1
         /\ \A k, m \in 1..Len(announced') : announced'[k] = announced'[m] => k = m
<1>1. /\ Len(announced') = Len(announced) - 1 /\ Len(announced) \in Nat
      /\ \A i \in 1..(Len(announced) - 1) :
           announced'[i] = IF i < n THEN announced[i] ELSE announced[i + 1]
      /\ \A k, m \in 1..Len(announced) : announced[k] = announced[m] => k = m
  BY RemoveAtProperties, LenProperties DEF IInv, Types, FifoCounted
<1>2. \A m \in 1..Len(announced') : announced'[m] # announced[n] /\ announced'[m] \in Announced
  <2> TAKE m \in 1..Len(announced')
  <2> DEFINE k == IF m < n THEN m ELSE m + 1
  <2>1. k \in 1..Len(announced) /\ k # n /\ announced'[m] = announced[k]
    BY <1>1
  <2> HIDE DEF k
  <2> QED
    BY <1>1, <2>1 DEF Announced
<1>3. \A k \in 1..Len(announced) : k # n => \E m \in 1..Len(announced') : announced'[m] = announced[k]
  <2> SUFFICES ASSUME NEW k \in 1..Len(announced), k # n
               PROVE  \E m \in 1..Len(announced') : announced'[m] = announced[k]
    OBVIOUS
  <2> DEFINE m == IF k < n THEN k ELSE k - 1
  <2>1. m \in 1..Len(announced') /\ announced'[m] = announced[k]
    BY <1>1
  <2> QED
    BY <2>1
<1>4. ASSUME NEW k \in 1..Len(announced'), NEW m \in 1..Len(announced'), announced'[k] = announced'[m]
      PROVE  k = m
  BY <1>1, <1>4, SMTT(40)
<1>5. Announced' = Announced \ {announced[n]}
  <2>1. ASSUME NEW i \in Announced' PROVE i \in Announced /\ i # announced[n]
    BY <1>2, <2>1 DEF Announced
  <2>2. ASSUME NEW i \in Announced, i # announced[n] PROVE i \in Announced'
    <3>1. PICK k \in 1..Len(announced) : i = announced[k] /\ k # n
      BY <2>2, Zenon DEF Announced
    <3>2. \E m \in 1..Len(announced') : announced'[m] = i
      BY <1>3, <3>1, Zenon
    <3> QED
      BY <3>2, Zenon DEF Announced
  <2> QED
    BY <2>1, <2>2, Zenon
<1> QED
  BY <1>1, <1>4, <1>5

\* What is known grows with the entries that are made, and with nothing else.
LEMMA StepKnown ==
  ASSUME IInv, NEW r \in Requests, Step(r)
  PROVE  /\ Known \subseteq Known'
         /\ Mark(r) => Known' = Known \cup {Id(r)}
         /\ ~Mark(r) => Known' = Known
<1>1. Types /\ Station(r)
  BY DEF IInv, Stations
<1>2. CASE Mark(r)
  <2>1. Id(r) \in Ids /\ UNCHANGED forgotten
    BY <1>1, <1>2 DEF Mark, Station, InNode
  <2>2. Announced' = Announced \cup {Id(r)}
    <3>1. CASE Id(r) \in Announced
      BY <1>2, <3>1 DEF Mark, Announced
    <3>2. CASE Id(r) \notin Announced
      BY <1>1, <1>2, <2>1, <3>2, AppendedEntries DEF Mark
    <3> QED
      BY <3>1, <3>2
  <2> QED
    BY <1>2, <2>1, <2>2 DEF Known
<1>3. CASE Evict(r) /\ ~Mark(r)
  <2>1. CASE UNCHANGED memory
    BY <1>3, <2>1 DEF Known, Announced, memory
  <2>2. CASE /\ \E n \in 1..Len(announced) :
                  announced[n] = run[r].victim /\ announced' = RemoveAt(announced, n)
             /\ forgotten' = forgotten \cup {run[r].victim}
    <3>1. Announced' = Announced \ {run[r].victim} /\ run[r].victim \in Announced
      BY <2>2, RemovedEntries DEF Announced
    <3> QED
      BY <1>3, <2>2, <3>1 DEF Known
  <2> QED
    BY <1>3, <2>1, <2>2 DEF Evict
<1>4. CASE ~Evict(r) /\ ~Mark(r)
  <2>1. UNCHANGED <<announced, forgotten>>
    BY <1>4 DEF Step, CheckPending, Load, Asking, MakeRoom, Announce, Push, Interrupt, Decide, Act,
                Fail, Save, memory
  <2> QED
    BY <1>4, <2>1 DEF Known, Announced
<1> QED
  BY <1>2, <1>3, <1>4

\* What a step does to the threads and to what was asked for: threads that exist
\* go on to exist, and their tasks are numbered upwards.
Grows ==
  /\ \A t \in Threads : /\ thread[t].at # "empty" => thread'[t].at # "empty"
                        /\ thread[t].task <= thread'[t].task
  /\ Known \subseteq Known' /\ asked \subseteq asked'

LEMMA StepGrows ==
  ASSUME IInv, NEW r \in Requests, Step(r)
  PROVE  Grows
<1>1. Types /\ Station(r)
  BY DEF IInv, Stations
<1>2. \A t \in Threads : thread[t] \in Checkpoints /\ thread[t].task \in Nat
  BY <1>1 DEF Types, Checkpoints
<1>0. Known \subseteq Known' /\ asked \subseteq asked'
  <2>1. asked \subseteq asked'
    BY DEF Step, CheckPending, Load, Asking, MakeRoom, Evict, Mark, Announce, Push, Interrupt, Decide,
           Act, Fail, Save, history
  <2> QED
    BY <2>1, StepKnown
<1>3. CASE UNCHANGED thread
  BY <1>0, <1>2, <1>3 DEF Grows
<1>4. CASE Load(r)
  <2> DEFINE t == run[r].thread
  <2>1. t \in Threads
    BY <1>1, <1>4 DEF Load, Station
  <2>2. ASSUME NEW k \in Nat, k >= thread[t].task, thread[t].at = "empty" => k # thread[t].task,
               StartNode(r, t, k)
        PROVE  /\ \A s \in Threads \ {t} : thread'[s] = thread[s]
               /\ thread'[t].at # "empty" /\ thread'[t].task = k
    BY <1>1, <1>2, <2>1, <2>2 DEF StartNode, Types, Checkpoints
  <2>3. \/ StartNode(r, t, thread[t].task + 1)
        \/ StartNode(r, t, thread[t].task) /\ thread[t].at # "empty"
        \/ UNCHANGED thread
    BY <1>4 DEF Load
  <2>4. thread[t].at = "empty" <=> thread[t].task = 0
    BY <2>1 DEF IInv, TasksCounted
  <2> QED
    BY <1>0, <1>2, <1>3, <2>1, <2>2, <2>3, <2>4 DEF Grows
<1>5. CASE Interrupt(r)
  <2>1. \A t \in Threads : thread'[t].task = thread[t].task
                           /\ (thread'[t].at = thread[t].at \/ thread'[t].at = "pending")
    BY <1>1, <1>2, <1>5 DEF Interrupt, Types, Checkpoints
  <2> QED
    BY <1>0, <1>2, <1>5, <2>1 DEF Interrupt, Grows
<1>6. CASE Save(r)
  <2>1. \A t \in Threads : thread'[t].task = thread[t].task
                           /\ (thread'[t].at = thread[t].at \/ thread'[t].at = "done")
    BY <1>1, <1>2, <1>6 DEF Save, Types, Checkpoints
  <2> QED
    BY <1>0, <1>2, <1>6, <2>1 DEF Save, Grows
<1> QED
  BY <1>3, <1>4, <1>5, <1>6 DEF Step, CheckPending, Asking, MakeRoom, Evict, Mark, Announce, Push, Decide, Act, Fail

\* A slot whose request is answered or tried again.
LEMMA SlotLeaves ==
  ASSUME Types, NEW r \in Requests, pc[r] # "idle", run[r].thread \in Threads,
         Answer(r) \/ NodeRaises(r)
  PROVE  Station(r)' /\ pc'[r] \in {"idle", "loading"}
<1>1. CASE Answer(r)
  BY <1>1 DEF Answer, Station, Types, Nobody, InNode, Resumes
<1>2. CASE /\ pc' = [pc EXCEPT ![r] = "loading"]
           /\ run' = [run EXCEPT ![r] = [Nobody EXCEPT !.kind = "rerun", !.thread = run[r].thread]]
  BY <1>2 DEF Station, Types, Nobody, InNode, Resumes, Kinds
<1> QED
  BY <1>1, <1>2 DEF NodeRaises

\* The requests that do not move know what they knew.
LEMMA OthersStations ==
  ASSUME IInv, Grows, NEW q \in Requests, pc'[q] = pc[q], run'[q] = run[q]
  PROVE  Station(q)'
BY DEF IInv, Stations, Station, Grows, Ahead, InNode, Id, Resumes

\* A request that may open a task finds room for it under the bound.
LEMMA RoomForTask ==
  ASSUME IInv, NEW t \in Threads, NEW r \in Openers(t)
  PROVE  thread[t].task + 1 \in 1..MaxSends
<1>1. Cardinality(Openers(t)) \in Nat \ {0}
  BY CountedFinite, FS_EmptySet
<1>2. thread[t].task \in Nat /\ sent \in 0..MaxSends
  BY DEF IInv, Types, Checkpoints
<1>3. thread[t].task + Cardinality(Openers(t)) <= sent
  BY DEF IInv, TasksCounted
<1> QED
  BY <1>1, <1>2, <1>3, ApprovalAssumption

\* What loading a thread comes to: a new task, the open one, or nothing.
LEMMA LoadCases ==
  ASSUME IInv, NEW r \in Requests, Load(r)
  PROVE  /\ run[r].thread \in Threads
         /\ \/ /\ r \in Openers(run[r].thread)
               /\ StartNode(r, run[r].thread, thread[run[r].thread].task + 1)
            \/ /\ thread[run[r].thread].at \in {"todo", "pending"}
               /\ thread[run[r].thread].task \in 1..MaxSends
               /\ StartNode(r, run[r].thread, thread[run[r].thread].task)
            \/ Answer(r) /\ UNCHANGED thread
<1> DEFINE t == run[r].thread
<1>1. t \in Threads /\ pc[r] = "loading"
  BY DEF IInv, Stations, Station, Load
<1>2. run[r].kind = "invoke" \/ Resumes(r) => r \in Openers(t)
  BY <1>1 DEF Openers, Resumes, Ahead
<1>3. /\ thread[t].at = "empty" <=> thread[t].task = 0
      /\ thread[t].task + Cardinality(Openers(t)) <= sent
      /\ thread[t].task \in Nat /\ sent \in 0..MaxSends /\ Cardinality(Openers(t)) \in Nat
  BY <1>1, CountedFinite DEF IInv, TasksCounted, Types, Checkpoints
<1>4. thread[t].at # "empty" => thread[t].task \in 1..MaxSends
  BY <1>3, ApprovalAssumption
<1> QED
  BY <1>1, <1>2, <1>4 DEF Load

\* The stage of a request that goes on as it is.
LEMMA SlotGoes ==
  ASSUME Types, NEW r \in Requests, NEW stage, Goto(r, stage)
  PROVE  pc'[r] = stage /\ run'[r] = run[r] /\ Id(r)' = Id(r) /\ (Resumes(r)' <=> Resumes(r))
BY DEF Types, Goto, Id, Resumes

\* What it has to know at its new stage.
LEMMA StationGoes ==
  ASSUME IInv, Grows, NEW r \in Requests, NEW stage \in InNode \ {"evicting"}, Goto(r, stage),
         pc[r] \in InNode,
         stage \in {"announcing", "pushing", "interrupting"} => Id(r) \in Known',
         stage = "pushing" => Id(r) \in asked',
         stage = "acting" => TRUE \in run[r].given
  PROVE  Station(r)'
<1>1. Types /\ Station(r)
  BY DEF IInv, Stations
<1>2. pc'[r] = stage /\ run'[r] = run[r] /\ Id(r)' = Id(r) /\ (Resumes(r)' <=> Resumes(r))
  BY <1>1, SlotGoes
<1>3. /\ run[r].thread \in Threads /\ run[r].kind \in Kinds
      /\ run[r].approved => Resumes(r)
      /\ Id(r) \in Ids /\ thread[run[r].thread].at # "empty"
  BY <1>1 DEF Station, InNode
<1>4. thread'[run[r].thread].at # "empty"
  BY <1>3 DEF Grows
<1> QED
  BY <1>2, <1>3, <1>4 DEF Station, InNode

\* Requests know what they know at each stage.
LEMMA StepStations ==
  ASSUME IInv, NEW r \in Requests, Step(r)
  PROVE  Stations'
<1> SUFFICES Station(r)'
  BY StepGrows, StepKeepsOthers, OthersStations DEF IInv, Stations, OthersKeep
<1>0. /\ Types /\ Station(r) /\ Grows /\ run[r] \in Slots
      /\ Announced \subseteq Known
  BY StepGrows DEF IInv, Stations, Known, Types
<1>1. CASE CheckPending(r)
  <2>1. CASE Answer(r)
    BY <1>0, <1>1, <2>1, SlotLeaves DEF CheckPending, Station
  <2>2. CASE Goto(r, "loading")
    <3>1. /\ pc'[r] = "loading" /\ run'[r] = run[r] /\ thread' = thread
          /\ Resumes(r)' <=> Resumes(r)
      BY <1>0, <1>1, <2>2, SlotGoes DEF CheckPending
    <3>2. /\ run[r].thread \in Threads /\ run[r].kind \in Kinds
          /\ run[r].approved => Resumes(r)
      BY <1>0, <1>1 DEF CheckPending, Station
    <3>3. CASE thread[run[r].thread].at = "pending"
      BY <3>1, <3>2, <3>3 DEF Station, InNode
    <3>4. CASE Answer(r)
      BY <1>0, <1>1, <3>4, SlotLeaves DEF CheckPending, Station
    <3> QED
      BY <1>1, <3>3, <3>4 DEF CheckPending
  <2> QED
    BY <1>1, <2>1, <2>2 DEF CheckPending
<1>2. CASE Load(r)
  <2> DEFINE t == run[r].thread
  <2>1. t \in Threads /\ thread[t] \in Checkpoints
    BY <1>0, <1>2 DEF Load, Station, Types
  <2>2. ASSUME NEW k \in 1..MaxSends, StartNode(r, t, k),
               thread[t].at = "empty" => k # thread[t].task
        PROVE  Station(r)'
    <3>1. /\ pc'[r] = "asking" /\ run'[r].thread = t /\ run'[r].task = k
          /\ run'[r].approved = run[r].approved /\ run'[r].kind = run[r].kind
      BY <1>0, <2>1, <2>2 DEF StartNode, Types, Slots
    <3>2. thread'[t].at # "empty"
      BY <1>0, <2>1, <2>2 DEF StartNode, Types, Checkpoints
    <3>3. /\ run'[r].thread \in Threads /\ run'[r].kind \in Kinds
          /\ run'[r].approved => Resumes(r)'
          /\ Id(r)' \in Ids
      BY <1>0, <1>2, <2>1, <3>1 DEF Load, Station, Resumes, Id, Ids
    <3> QED
      BY <2>1, <3>1, <3>2, <3>3 DEF Station
  <2>3. ASSUME Answer(r) PROVE Station(r)'
    BY <1>0, <1>2, <2>1, <2>3, SlotLeaves DEF Load
  <2> QED
    BY <1>2, <2>1, <2>2, <2>3, LoadCases, RoomForTask DEF IInv, TasksCounted
<1>3. CASE Asking(r)
  <2>1. CASE Id(r) \in Announced
    <3>1. Goto(r, "interrupting") /\ pc[r] \in InNode
      BY <1>3, <2>1 DEF Asking, InNode
    <3> QED
      BY <1>0, <2>1, <3>1, StationGoes DEF InNode, Grows
  <2>2. CASE Id(r) \notin Announced
    <3>1. Goto(r, "room") /\ pc[r] \in InNode
      BY <1>3, <2>2 DEF Asking, InNode
    <3> QED
      BY <1>0, <3>1, StationGoes DEF InNode
  <2> QED
    BY <2>1, <2>2
<1>4. CASE MakeRoom(r)
  <2>1. Len(announced) >= Capacity => Head(announced) \in Ids
    BY <1>0, ApprovalAssumption, HeadTailProperties, EmptySeq DEF Types
  <2>2. CASE Goto(r, "marking")
    BY <1>0, <1>4, <2>2, StationGoes DEF MakeRoom, InNode
  <2>3. CASE /\ Len(announced) >= Capacity
             /\ run' = [run EXCEPT ![r].victim = Head(announced)]
             /\ pc' = [pc EXCEPT ![r] = "evicting"]
    BY <1>0, <1>4, <2>1, <2>3 DEF MakeRoom, Station, Types, Slots, InNode, Resumes, Id
  <2> QED
    BY <1>4, <2>2, <2>3 DEF MakeRoom
<1>5. CASE Evict(r)
  <2>1. CASE NodeRaises(r)
    BY <1>0, <1>5, <2>1, SlotLeaves DEF Evict, Station
  <2>2. CASE /\ pc' = [pc EXCEPT ![r] = "marking"]
             /\ run' = [run EXCEPT ![r].victim = <<>>]
    BY <1>0, <1>5, <2>2 DEF Evict, Station, Types, Slots, InNode, Resumes, Id
  <2> QED
    BY <1>5, <2>1, <2>2 DEF Evict
<1>6. CASE Mark(r)
  <2>1. Id(r) \in Known'
    BY <1>6, StepKnown
  <2> QED
    BY <1>0, <1>6, <2>1, StationGoes DEF Mark, InNode
<1>11. CASE Announce(r)
  <2>1. Id(r) \in Known' /\ Id(r) \in asked'
    BY <1>0, <1>11 DEF Announce, Station, Grows
  <2> QED
    BY <1>0, <1>11, <2>1, StationGoes DEF Announce, InNode
<1>7. CASE Push(r)
  <2>1. CASE NodeRaises(r)
    BY <1>0, <1>7, <2>1, SlotLeaves DEF Push, Station
  <2>2. CASE Goto(r, "interrupting")
    <3>1. Id(r) \in Known'
      BY <1>0, <1>7 DEF Push, Station, Grows
    <3> QED
      BY <1>0, <1>7, <2>2, <3>1, StationGoes DEF Push, InNode
  <2> QED
    BY <1>7, <2>1, <2>2 DEF Push
<1>8. CASE Interrupt(r) \/ Fail(r) \/ Save(r)
  BY <1>0, <1>8, SlotLeaves DEF Interrupt, Fail, Save, Station
<1>9. CASE Decide(r)
  <2>1. PICK approved \in run[r].given : Goto(r, IF approved THEN "acting" ELSE "saving")
    BY <1>9 DEF Decide
  <2>2. approved \in BOOLEAN /\ pc[r] \in InNode
    BY <1>0, <1>9, <2>1 DEF Decide, Slots, InNode
  <2>3. CASE approved = TRUE
    BY <1>0, <2>1, <2>2, <2>3, StationGoes DEF InNode
  <2>4. CASE approved = FALSE
    BY <1>0, <2>1, <2>2, <2>4, StationGoes DEF InNode
  <2> QED
    BY <2>2, <2>3, <2>4
<1>10. CASE Act(r)
  BY <1>0, <1>10, StationGoes DEF Act, InNode
<1> QED
  BY <1>1, <1>2, <1>3, <1>4, <1>5, <1>6, <1>7, <1>8, <1>9, <1>10, <1>11 DEF Step

-----------------------------------------------------------------------------
(* Tasks.                                                                  *)

\* A request is ahead of the graph's run after a step only when it is tried
\* again, without what it had brought, or when its thread has been checked.
LEMMA StepAhead ==
  ASSUME IInv, NEW r \in Requests, Step(r), pc'[r] \in Ahead
  PROVE  \/ run'[r].kind = "rerun" /\ ~run'[r].approved
         \/ CheckPending(r) /\ pc[r] \in Ahead /\ run'[r] = run[r]
<1>1. Types
  BY DEF IInv
<1>2. ASSUME NodeRaises(r) PROVE run'[r].kind = "rerun" /\ ~run'[r].approved
  BY <1>1, <1>2 DEF NodeRaises, Answer, Types, Nobody, Ahead
<1>3. ASSUME Answer(r) PROVE FALSE
  BY <1>1, <1>3 DEF Answer, Types, Ahead
<1>4. ASSUME NEW stage, Goto(r, stage) PROVE stage \in Ahead /\ run'[r] = run[r]
  BY <1>1, <1>4 DEF Goto, Types
<1>5. CASE CheckPending(r)
  BY <1>3, <1>4, <1>5 DEF CheckPending, Ahead
<1>6. CASE Load(r)
  BY <1>1, <1>3, <1>6 DEF Load, StartNode, Types, Ahead
<1>7. CASE Asking(r) \/ Mark(r) \/ Announce(r) \/ Decide(r) \/ Act(r)
  <2>1. PICK stage \in {"interrupting", "room", "announcing", "pushing", "acting", "saving"} :
          Goto(r, stage)
    BY <1>7 DEF Asking, Mark, Announce, Decide, Act
  <2> QED
    BY <1>4, <2>1 DEF Ahead
<1>8. CASE MakeRoom(r)
  <2>1. ASSUME pc' = [pc EXCEPT ![r] = "evicting"] PROVE FALSE
    BY <1>1, <2>1 DEF Types, Ahead
  <2> QED
    BY <1>4, <1>8, <2>1 DEF MakeRoom, Ahead
<1>9. CASE Evict(r) \/ Push(r) \/ Interrupt(r) \/ Fail(r) \/ Save(r)
  <2>1. ASSUME pc' = [pc EXCEPT ![r] = "marking"] PROVE FALSE
    BY <1>1, <2>1 DEF Types, Ahead
  <2>2. NodeRaises(r) \/ Answer(r) \/ Goto(r, "interrupting")
    BY <1>9, <2>1 DEF Evict, Announce, Push, Interrupt, Fail, Save
  <2>3. "interrupting" \notin Ahead
    BY DEF Ahead
  <2> QED
    BY <1>2, <1>3, <1>4, <2>2, <2>3
<1> QED
  BY <1>5, <1>6, <1>7, <1>8, <1>9 DEF Step

\* No step makes a request one that opens a task or brings an approval.
LEMMA StepOpeners ==
  ASSUME IInv, NEW r \in Requests, Step(r), NEW t
  PROVE  Openers(t)' \subseteq Openers(t) /\ Tickets(t)' \subseteq Tickets(t)
BY StepAhead, StepKeepsOthers DEF IInv, OthersKeep, Openers, Tickets

LEMMA StepTasks ==
  ASSUME IInv, NEW r \in Requests, Step(r)
  PROVE  TasksCounted'
<1> SUFFICES ASSUME NEW t \in Threads
             PROVE  /\ thread'[t].task + Cardinality(Openers(t)') <= sent'
                    /\ thread'[t].at = "empty" <=> thread'[t].task = 0
  BY DEF TasksCounted
<1>1. /\ thread[t] \in Checkpoints /\ thread[t].task \in Nat /\ sent \in Nat
      /\ thread[t].task + Cardinality(Openers(t)) <= sent
      /\ thread[t].at = "empty" <=> thread[t].task = 0
      /\ Types
  BY DEF IInv, Types, Checkpoints, TasksCounted
<1>2. /\ Cardinality(Openers(t)) \in Nat /\ Cardinality(Openers(t)') \in Nat
      /\ Cardinality(Openers(t)') <= Cardinality(Openers(t))
      /\ (r \in Openers(t) /\ r \notin Openers(t)') =>
           Cardinality(Openers(t)') + 1 <= Cardinality(Openers(t))
  BY CountedFinite, Counting, StepOpeners
<1>3. UNCHANGED sent
  BY DEF Step, CheckPending, Load, Asking, MakeRoom, Evict, Mark, Announce, Push, Interrupt, Decide, Act,
         Fail, Save, bounds
<1>4. CASE thread'[t].task = thread[t].task /\ (thread'[t].at = "empty" <=> thread[t].at = "empty")
  BY <1>1, <1>2, <1>3, <1>4
<1>5. CASE Load(r)
  <2>1. ASSUME run[r].thread = t, r \in Openers(t), StartNode(r, t, thread[t].task + 1)
        PROVE  /\ r \notin Openers(t)'
               /\ thread'[t].task = thread[t].task + 1 /\ thread'[t].at # "empty"
    BY <1>1, <2>1 DEF StartNode, Openers, Types, Ahead
  <2>2. ASSUME run[r].thread = t, thread[t].at # "empty", StartNode(r, t, thread[t].task)
        PROVE  thread'[t].task = thread[t].task /\ thread'[t].at = thread[t].at
    BY <1>1, <2>2 DEF StartNode, Types, Checkpoints
  <2>3. ASSUME run[r].thread # t, NEW k, StartNode(r, run[r].thread, k)
        PROVE  thread'[t] = thread[t]
    BY <1>1, <2>3 DEF StartNode, Types
  <2> QED
    BY <1>1, <1>2, <1>3, <1>4, <1>5, <2>1, <2>2, <2>3, LoadCases
<1>6. CASE Interrupt(r) \/ Save(r)
  <2>1. pc[r] \in InNode => thread[run[r].thread].at # "empty"
    BY DEF IInv, Stations, Station
  <2>2. /\ thread'[t].task = thread[t].task
        /\ thread'[t].at = "empty" <=> thread[t].at = "empty"
    <3>1. CASE Interrupt(r)
      BY <1>1, <3>1 DEF Interrupt, Types, Checkpoints
    <3>2. CASE Save(r)
      BY <1>1, <2>1, <3>2 DEF Save, Types, Checkpoints, InNode
    <3> QED
      BY <1>6, <3>1, <3>2
  <2> QED
    BY <1>4, <2>2
<1> QED
  BY <1>4, <1>5, <1>6 DEF Step, CheckPending, Asking, MakeRoom, Evict, Mark, Announce, Push, Decide, Act, Fail

-----------------------------------------------------------------------------
(* The FIFO.                                                               *)

\* Only these four steps meet the FIFO and those who mark.
LEMMA StepFifoCases ==
  ASSUME IInv, NEW r \in Requests, Step(r)
  PROVE  \/ UNCHANGED <<announced, forgotten>> /\ Marking' \subseteq Marking
         \/ (MakeRoom(r) /\ Len(announced) < Capacity) \/ Evict(r) \/ Mark(r)
<1>1. Types /\ OthersKeep(r)
  BY StepKeepsOthers DEF IInv
<1>2. ASSUME ~(MakeRoom(r) /\ Len(announced) < Capacity), ~Evict(r)
      PROVE  pc'[r] # "marking"
  <2>1. ASSUME NodeRaises(r) \/ Answer(r) PROVE pc'[r] # "marking"
    BY <1>1, <2>1 DEF NodeRaises, Answer, Types
  <2>2. ASSUME NEW stage, stage # "marking", Goto(r, stage) PROVE pc'[r] # "marking"
    BY <1>1, <2>2 DEF Goto, Types
  <2>3. ASSUME NEW t, NEW k, StartNode(r, t, k) PROVE pc'[r] # "marking"
    BY <1>1, <2>3 DEF StartNode, Types
  <2>4. ASSUME pc' = [pc EXCEPT ![r] = "evicting"] PROVE pc'[r] # "marking"
    BY <1>1, <2>4 DEF Types
  <2>5. CASE Asking(r)
    <3>1. Goto(r, "interrupting") \/ Goto(r, "room")
      BY <2>5 DEF Asking
    <3> QED
      BY <2>2, <3>1
  <2>6. CASE Decide(r)
    <3>1. Goto(r, "acting") \/ Goto(r, "saving")
      BY <2>6 DEF Decide
    <3> QED
      BY <2>2, <3>1
  <2>7. CASE Load(r)
    BY <2>1, <2>3, <2>7 DEF Load
  <2>8. CASE MakeRoom(r)
    BY <1>2, <2>4, <2>8 DEF MakeRoom
  <2> QED
    BY <1>2, <2>1, <2>2, <2>5, <2>6, <2>7, <2>8
       DEF Step, CheckPending, Mark, Announce, Push, Interrupt, Act, Fail, Save
<1>3. ASSUME pc'[r] # "marking" PROVE Marking' \subseteq Marking
  BY <1>1, <1>3 DEF Marking, OthersKeep
<1>4. ~Evict(r) /\ ~Mark(r) => UNCHANGED <<announced, forgotten>>
  BY DEF Step, CheckPending, Load, Asking, MakeRoom, Announce, Push, Interrupt, Decide, Act, Fail, Save,
         memory, history
<1> QED
  BY <1>2, <1>3, <1>4

\* The FIFO stays within what its capacity and the requests in its way allow.
LEMMA StepFifo ==
  ASSUME IInv, NEW r \in Requests, Step(r)
  PROVE  FifoCounted'
<1>1. /\ Types /\ OthersKeep(r) /\ Station(r) /\ FifoCounted
  BY StepKeepsOthers DEF IInv, Stations
<1>2. /\ Len(announced) \in Nat /\ Capacity \in Nat \ {0}
      /\ Cardinality(Marking) \in Nat /\ Cardinality(Requests) \in Nat
      /\ Cardinality(Marking') \in Nat /\ Cardinality(Marking') <= Cardinality(Requests)
      /\ Cardinality(Marking') <= Cardinality(Marking) + 1
      /\ Marking' \subseteq Marking => Cardinality(Marking') <= Cardinality(Marking)
      /\ (r \in Marking /\ r \notin Marking') => Cardinality(Marking') + 1 <= Cardinality(Marking)
  <2>1. Marking' \subseteq Marking \cup {r} /\ Marking' \subseteq Requests
    BY <1>1 DEF Marking, OthersKeep
  <2>2. Cardinality(Marking') <= Cardinality(Requests)
    BY <2>1, RequestsFinite
  <2> QED
    BY <1>1, <2>1, <2>2, CountedFinite, Counting, ApprovalAssumption, LenProperties DEF Types
<1>3. CASE UNCHANGED <<announced, forgotten>> /\ Marking' \subseteq Marking
  BY <1>1, <1>2, <1>3 DEF FifoCounted
<1>4. CASE MakeRoom(r) /\ Len(announced) < Capacity
  BY <1>1, <1>2, <1>4 DEF MakeRoom, FifoCounted, memory
<1>5. CASE Evict(r)
  <2>1. CASE NodeRaises(r) /\ UNCHANGED memory
    <3>1. pc'[r] # "marking"
      BY <1>1, <2>1 DEF NodeRaises, Answer, Types
    <3>2. Marking' \subseteq Marking
      BY <1>1, <3>1 DEF Marking, OthersKeep
    <3> QED
      BY <1>3, <1>5, <2>1, <3>2 DEF Evict, memory
  <2>2. CASE /\ \E n \in 1..Len(announced) :
                  announced[n] = run[r].victim /\ announced' = RemoveAt(announced, n)
             /\ forgotten' = forgotten \cup {run[r].victim}
    <3>1. /\ Announced' = Announced \ {run[r].victim} /\ Len(announced') = Len(announced) - 1
          /\ \A k, m \in 1..Len(announced') : announced'[k] = announced'[m] => k = m
          /\ run[r].victim \in Announced
      BY <2>2, RemovedEntries DEF Announced
    <3> QED
      BY <1>1, <1>2, <3>1, SMTT(40) DEF FifoCounted
  <2> QED
    BY <1>5, <2>1, <2>2 DEF Evict
<1>6. CASE Mark(r)
  <2>1. Id(r) \in Ids /\ r \in Marking /\ r \notin Marking'
    BY <1>1, <1>6 DEF Mark, Goto, Station, Types, Marking, InNode
  <2>2. CASE Id(r) \in Announced
    BY <1>1, <1>2, <1>6, <2>1, <2>2 DEF Mark, FifoCounted
  <2>3. CASE Id(r) \notin Announced
    <3>1. /\ Announced' = Announced \cup {Id(r)} /\ Len(announced') = Len(announced) + 1
          /\ \A m \in 1..Len(announced) : announced'[m] = announced[m]
          /\ announced'[Len(announced) + 1] = Id(r)
      BY <1>1, <1>6, <2>1, <2>3, AppendedEntries DEF Mark
    <3>2. \A m \in 1..Len(announced) : announced[m] # Id(r)
      BY <2>3 DEF Announced
    <3>3. ASSUME NEW k \in 1..Len(announced'), NEW m \in 1..Len(announced'),
                 announced'[k] = announced'[m]
          PROVE  k = m
      <4>1. /\ k \in 1..Len(announced) \/ k = Len(announced) + 1
            /\ m \in 1..Len(announced) \/ m = Len(announced) + 1
        BY <1>2, <3>1
      <4> QED
        BY <1>1, <3>1, <3>2, <3>3, <4>1, Zenon DEF FifoCounted
    <3> QED
      BY <1>1, <1>2, <2>1, <3>1, <3>3 DEF FifoCounted
  <2> QED
    BY <2>2, <2>3
<1> QED
  BY <1>3, <1>4, <1>5, <1>6, StepFifoCases

-----------------------------------------------------------------------------
(* What was asked for.                                                     *)

\* What is known are approval ids.
LEMMA KnownIds == ASSUME IInv PROVE Known \subseteq Ids
<1>1. ASSUME NEW i, BeingSaid(i) PROVE i \in Ids
  BY <1>1 DEF IInv, Stations, Station, InNode, BeingSaid, Announcing
<1> QED
  BY <1>1 DEF IInv, Said, Types

\* An entry is made by a request that then says what it is for.
LEMMA StepSaid ==
  ASSUME IInv, NEW r \in Requests, Step(r)
  PROVE  Said'
<1>1. Types /\ Station(r) /\ Said /\ OthersKeep(r) /\ Known \subseteq Known'
  BY StepKeepsOthers, StepKnown DEF IInv, Stations
<1>2. asked' \subseteq Known'
  <2>1. CASE Announce(r)
    BY <1>1, <2>1 DEF Announce, Station, Said
  <2>2. CASE ~Announce(r)
    <3>1. UNCHANGED asked
      BY <2>2 DEF Step, CheckPending, Load, Asking, MakeRoom, Evict, Mark, Push, Interrupt, Decide,
                  Act, Fail, Save, history
    <3> QED
      BY <1>1, <3>1 DEF Said
  <2> QED
    BY <2>1, <2>2
<1>3. asked \subseteq asked' /\ UNCHANGED unsaid
  BY DEF Step, CheckPending, Load, Asking, MakeRoom, Evict, Mark, Announce, Push, Interrupt, Decide,
         Act, Fail, Save, history
<1>4. ASSUME NEW i, BeingSaid(i) PROVE i \in asked' \/ BeingSaid(i)'
  <2>1. PICK q \in Requests : pc[q] = "announcing" /\ Id(q) = i
    BY <1>4 DEF BeingSaid, Announcing
  <2>2. CASE q = r
    <3>1. Announce(r)
      BY <2>1, <2>2 DEF Step, CheckPending, Load, Asking, MakeRoom, Evict, Mark, Push, Interrupt,
                        Decide, Act, Fail, Save
    <3> QED
      BY <2>1, <2>2, <3>1 DEF Announce
  <2>3. CASE q # r
    <3>1. pc'[q] = "announcing" /\ Id(q)' = i
      BY <1>1, <2>1, <2>3 DEF OthersKeep, Id
    <3> QED
      BY <3>1 DEF BeingSaid, Announcing
  <2> QED
    BY <2>2, <2>3
<1>5. ASSUME NEW i \in Known' PROVE i \in asked' \/ i \in unsaid' \/ BeingSaid(i)'
  <2>1. CASE i \in Known
    BY <1>1, <1>3, <1>4, <2>1 DEF Said
  <2>2. CASE i \notin Known
    <3>1. Mark(r) /\ i = Id(r)
      BY <1>5, <2>2, StepKnown
    <3>2. pc'[r] = "announcing" /\ Id(r)' = i
      BY <1>1, <3>1, SlotGoes DEF Mark
    <3> QED
      BY <3>2 DEF BeingSaid, Announcing
  <2> QED
    BY <2>1, <2>2
<1> QED
  BY <1>2, <1>5 DEF Said

\* Decisions answer what has an entry, and threads wait for nothing else.
LEMMA StepAsked ==
  ASSUME IInv, NEW r \in Requests, Step(r)
  PROVE  Asked'
<1>1. Types /\ Station(r) /\ Asked /\ Known \subseteq Known'
  BY StepGrows DEF IInv, Stations, Grows
<1>2. decided' \subseteq Known'
  <2>1. CASE Decide(r)
    BY <1>1, <2>1 DEF Decide, Station, Asked
  <2>2. CASE ~Decide(r)
    <3>1. UNCHANGED decided
      BY <2>2 DEF Step, CheckPending, Load, Asking, MakeRoom, Evict, Mark, Announce, Push, Interrupt, Act, Fail,
                  Save, history
    <3> QED
      BY <1>1, <3>1 DEF Asked
  <2> QED
    BY <2>1, <2>2
<1>3. ASSUME NEW t \in Threads, thread'[t].at = "pending"
      PROVE  <<t, thread'[t].task>> \in Known'
  <2>1. CASE thread'[t].at = thread[t].at /\ thread'[t].task = thread[t].task
    BY <1>1, <1>3, <2>1 DEF Asked
  <2>2. CASE Load(r)
    <3>1. ASSUME NEW k, StartNode(r, run[r].thread, k)
          PROVE  thread'[t].at = thread[t].at /\ thread'[t].task = thread[t].task
      BY <1>1, <1>3, <3>1 DEF StartNode, Types, Checkpoints
    <3> QED
      BY <2>1, <2>2, <3>1 DEF Load
  <2>3. CASE Interrupt(r)
    <3>1. Id(r) \in Known /\ thread'[t].task = thread[t].task
      BY <1>1, <2>3 DEF Interrupt, Station, Types, Checkpoints
    <3>2. CASE run[r].thread = t /\ thread[t].task = run[r].task
      BY <1>1, <3>1, <3>2 DEF Id
    <3>3. CASE ~(run[r].thread = t /\ thread[t].task = run[r].task)
      BY <1>1, <2>1, <2>3, <3>3 DEF Interrupt, Types, Checkpoints
    <3> QED
      BY <3>2, <3>3
  <2>4. CASE Save(r)
    BY <1>1, <1>3, <2>1, <2>4 DEF Save, Types, Checkpoints
  <2>5. CASE UNCHANGED thread
    BY <2>1, <2>5
  <2> QED
    BY <2>2, <2>3, <2>4, <2>5
       DEF Step, CheckPending, Asking, MakeRoom, Evict, Mark, Announce, Push, Decide, Act, Fail
<1> QED
  BY <1>2, <1>3 DEF Asked

\* The request that asks hands over what it asks for, unless the adapter refuses.
LEMMA StepHandedOver ==
  ASSUME IInv, NEW r \in Requests, Step(r)
  PROVE  AllHandedOver'
<1>1. Types /\ Station(r) /\ AllHandedOver /\ OthersKeep(r)
  BY StepKeepsOthers DEF IInv, Stations
<1>2. UNCHANGED restarts
  BY DEF Step, CheckPending, Load, Asking, MakeRoom, Evict, Mark, Announce, Push, Interrupt, Decide, Act, Fail,
         Save, bounds
<1> SUFFICES ASSUME restarts = 0, NEW i \in Known' PROVE HandedOver(i)'
  BY <1>2 DEF AllHandedOver
<1>3. CASE Mark(r)
  <2>1. /\ UNCHANGED <<pushed, refused>> /\ Known' = Known \cup {Id(r)}
        /\ pc'[r] = "announcing" /\ Id(r)' = Id(r) /\ pc[r] = "marking"
    BY <1>1, <1>3, SlotGoes, StepKnown DEF Mark, history
  <2>2. CASE i = Id(r)
    BY <2>1, <2>2 DEF HandedOver
  <2>3. CASE i \in Known
    <3>1. HandedOver(i)
      BY <1>1, <2>3 DEF AllHandedOver
    <3>2. ASSUME NEW q \in Requests, pc[q] \in {"announcing", "pushing"}
          PROVE  pc'[q] = pc[q] /\ Id(q)' = Id(q)
      BY <1>1, <2>1, <3>2 DEF OthersKeep, Id
    <3> QED
      BY <2>1, <3>1, <3>2 DEF HandedOver
  <2> QED
    BY <2>1, <2>2, <2>3
<1>4. CASE Push(r)
  <2>1. i \in Known /\ Id(r) \in Ids /\ i \in Ids /\ pc[r] = "pushing"
    <3>1. i \in Known
      BY <1>4, StepKnown DEF Push, Mark
    <3>2. Known \subseteq Ids
      BY KnownIds
    <3> QED
      BY <1>1, <1>4, <3>1, <3>2 DEF Push, Station, InNode
  <2>2. HandedOver(i)
    BY <1>1, <2>1 DEF AllHandedOver
  <2>3. pushed[i] \in Nat
    BY <1>1, <2>1 DEF Types
  <2>4. pushed[i] > 0 => pushed'[i] > 0
    <3>1. pushed'[i] = pushed[i] \/ pushed'[i] = pushed[i] + 1
      BY <1>1, <1>4, <2>1 DEF Push, Types
    <3> QED
      BY <2>3, <3>1
  <2>5. i \in refused => i \in refused'
    BY <1>4 DEF Push
  <2>6. ASSUME NEW q \in Requests, pc[q] \in {"announcing", "pushing"}, Id(q) = i
        PROVE  HandedOver(i)'
    <3>1. CASE q = r
      BY <1>1, <1>4, <2>1, <2>3, <2>6, <3>1 DEF Push, HandedOver, Types
    <3>2. CASE q # r
      BY <1>1, <2>6, <3>2 DEF HandedOver, OthersKeep, Id
    <3> QED
      BY <3>1, <3>2
  <2> QED
    BY <2>2, <2>4, <2>5, <2>6 DEF HandedOver
<1>5. CASE ~Mark(r) /\ ~Push(r)
  <2>1. UNCHANGED <<pushed, refused>> /\ pc[r] # "pushing" /\ (pc[r] = "announcing" => Announce(r))
    BY <1>5 DEF Step, CheckPending, Load, Asking, MakeRoom, Evict, Announce, Interrupt, Decide, Act,
                Fail, Save, history
  <2>2. ASSUME NEW q \in Requests, pc[q] \in {"announcing", "pushing"}
        PROVE  pc'[q] \in {"announcing", "pushing"} /\ Id(q)' = Id(q)
    <3>1. CASE q = r
      BY <1>1, <2>1, <2>2, <3>1, SlotGoes DEF Announce
    <3>2. CASE q # r
      BY <1>1, <2>2, <3>2 DEF OthersKeep, Id
    <3> QED
      BY <3>1, <3>2
  <2>3. HandedOver(i)
    <3>1. i \in Known
      BY <1>5, StepKnown
    <3> QED
      BY <1>1, <3>1 DEF AllHandedOver
  <2> QED
    BY <2>1, <2>2, <2>3 DEF HandedOver
<1> QED
  BY <1>3, <1>4, <1>5

\* Only a request that looks while its id is not remembered joins its pushers.
LEMMA StepPushers ==
  ASSUME IInv, NEW r \in Requests, Step(r), NEW i
  PROVE  \/ Pushers(i)' \subseteq Pushers(i)
         \/ Asking(r) /\ i \notin Announced
<1>1. Types /\ OthersKeep(r)
  BY StepKeepsOthers DEF IInv
<1> SUFFICES ASSUME r \in Pushers(i)', r \notin Pushers(i) PROVE Asking(r) /\ i \notin Announced
  BY <1>1 DEF Pushers, OthersKeep, Id
<1>2. pc'[r] \in {"room", "evicting", "marking", "announcing", "pushing"} /\ Id(r)' = i
  BY DEF Pushers
<1>3. ASSUME NodeRaises(r) \/ Answer(r) PROVE FALSE
  BY <1>1, <1>2, <1>3 DEF NodeRaises, Answer, Types
<1>4. ASSUME NEW stage, Goto(r, stage)
      PROVE  /\ stage \in {"room", "evicting", "marking", "announcing", "pushing"} /\ Id(r) = i
             /\ pc[r] \notin {"room", "evicting", "marking", "announcing", "pushing"}
  BY <1>1, <1>2, <1>4, SlotGoes DEF Pushers
<1>5. CASE CheckPending(r)
  BY <1>3, <1>4, <1>5 DEF CheckPending
<1>6. CASE Load(r)
  BY <1>1, <1>2, <1>3, <1>6 DEF Load, StartNode, Types
<1>7. CASE Asking(r)
  <2>1. Id(r) \notin Announced /\ Id(r) = i
    <3>1. CASE Id(r) \in Announced
      <4>1. Goto(r, "interrupting")
        BY <1>7, <3>1 DEF Asking
      <4> QED
        BY <1>4, <4>1
    <3>2. CASE Id(r) \notin Announced
      <4>1. Goto(r, "room")
        BY <1>7, <3>2 DEF Asking
      <4> QED
        BY <1>4, <3>2, <4>1
    <3> QED
      BY <3>1, <3>2
  <2> QED
    BY <1>7, <2>1
<1>8. CASE MakeRoom(r) \/ Evict(r)
  <2>1. pc[r] \in {"room", "evicting"}
    BY <1>8 DEF MakeRoom, Evict
  <2>2. Id(r)' = Id(r) \/ pc'[r] \in {"idle", "loading"}
    <3>1. CASE NodeRaises(r) \/ Answer(r)
      BY <1>1, <3>1 DEF NodeRaises, Answer, Types
    <3>2. CASE run'[r].thread = run[r].thread /\ run'[r].task = run[r].task
      BY <3>2 DEF Id
    <3>3. ASSUME NEW victim, run' = [run EXCEPT ![r].victim = victim]
          PROVE  run'[r].thread = run[r].thread /\ run'[r].task = run[r].task
      BY <1>1, <3>3 DEF Types, Slots
    <3> QED
      BY <1>8, <3>1, <3>2, <3>3 DEF MakeRoom, Evict, Goto
  <2> QED
    BY <1>2, <2>1, <2>2 DEF Pushers
<1>9. CASE Mark(r) \/ Announce(r)
  BY <1>4, <1>9 DEF Mark, Announce
<1>10. CASE Push(r)
  BY <1>3, <1>4, <1>10 DEF Push
<1>11. CASE Decide(r)
  <2>1. Goto(r, "acting") \/ Goto(r, "saving")
    BY <1>11 DEF Decide
  <2> QED
    BY <1>4, <2>1
<1>12. CASE Interrupt(r) \/ Act(r) \/ Fail(r) \/ Save(r)
  BY <1>3, <1>4, <1>12 DEF Interrupt, Act, Fail, Save
<1> QED
  BY <1>5, <1>6, <1>7, <1>8, <1>9, <1>10, <1>11, <1>12 DEF Step

\* What is remembered is pushed again by its pushers only, once by each.
LEMMA StepPushes ==
  ASSUME IInv, NEW r \in Requests, Step(r)
  PROVE  PushesCounted'
<1> SUFFICES ASSUME NEW i \in Ids
             PROVE  /\ i \notin Known' => pushed'[i] = 0
                    /\ i \notin forgotten' =>
                         pushed'[i] + Cardinality(Pushers(i)') <= Cardinality(Requests)
  BY DEF PushesCounted
<1>1. /\ Types /\ Station(r) /\ Known \subseteq Known' /\ forgotten \subseteq forgotten'
  <2>1. forgotten \subseteq forgotten'
    BY DEF Step, CheckPending, Load, Asking, MakeRoom, Evict, Mark, Announce, Push, Interrupt, Decide, Act,
           Fail, Save, memory
  <2> QED
    BY <2>1, StepGrows DEF IInv, Stations, Grows
<1>2. /\ i \notin Known => pushed[i] = 0
      /\ i \notin forgotten => pushed[i] + Cardinality(Pushers(i)) <= Cardinality(Requests)
      /\ pushed[i] \in Nat
  BY DEF IInv, PushesCounted, Types
<1>3. /\ Cardinality(Pushers(i)) \in Nat /\ Cardinality(Pushers(i)') \in Nat
      /\ Cardinality(Requests) \in Nat /\ Cardinality(Pushers(i)') <= Cardinality(Requests)
      /\ Pushers(i)' \subseteq Pushers(i) => Cardinality(Pushers(i)') <= Cardinality(Pushers(i))
      /\ (Pushers(i)' \subseteq Pushers(i) /\ r \in Pushers(i) /\ r \notin Pushers(i)') =>
           Cardinality(Pushers(i)') + 1 <= Cardinality(Pushers(i))
  <2>1. Pushers(i)' \subseteq Requests
    BY DEF Pushers
  <2>2. Cardinality(Pushers(i)') <= Cardinality(Requests)
    BY <2>1, RequestsFinite
  <2>3. ASSUME Pushers(i)' \subseteq Pushers(i)
        PROVE  /\ Cardinality(Pushers(i)') <= Cardinality(Pushers(i))
               /\ (r \in Pushers(i) /\ r \notin Pushers(i)') =>
                    Cardinality(Pushers(i)') + 1 <= Cardinality(Pushers(i))
    <3>1. Pushers(i)' \subseteq Pushers(i) \cup {r} /\ IsFiniteSet(Pushers(i))
      BY <2>3, CountedFinite
    <3> QED
      BY <2>3, <3>1, Counting
  <2>4. Cardinality(Pushers(i)') \in Nat
    BY <2>1, RequestsFinite
  <2> QED
    BY <2>2, <2>3, <2>4, CountedFinite
<1>4. CASE UNCHANGED pushed
  <2>1. CASE Pushers(i)' \subseteq Pushers(i)
    BY <1>1, <1>2, <1>3, <1>4, <2>1
  <2>2. CASE Asking(r) /\ i \notin Announced
    <3>1. i \notin forgotten => i \notin Known
      BY <1>1, <2>2 DEF Known
    <3> QED
      BY <1>1, <1>2, <1>3, <1>4, <3>1
  <2> QED
    BY <2>1, <2>2, StepPushers
<1>5. CASE Push(r) /\ pushed' = [pushed EXCEPT ![Id(r)] = @ + 1] /\ Goto(r, "interrupting")
  <2>1. ~Asking(r) /\ Id(r) \in Known /\ pc'[r] = "interrupting" /\ pc[r] = "pushing"
    BY <1>1, <1>5, SlotGoes DEF Push, Asking, Station
  <2>2. Pushers(i)' \subseteq Pushers(i) /\ r \notin Pushers(i)'
    BY <2>1, StepPushers DEF Pushers
  <2>3. CASE i = Id(r)
    <3>1. r \in Pushers(i) /\ pushed'[i] = pushed[i] + 1 /\ i \in Known'
      BY <1>1, <1>5, <2>1, <2>3 DEF Pushers, Types
    <3> QED
      BY <1>1, <1>2, <1>3, <2>2, <3>1
  <2>4. CASE i # Id(r)
    <3>1. pushed'[i] = pushed[i]
      BY <1>1, <1>5, <2>4 DEF Types
    <3> QED
      BY <1>1, <1>2, <1>3, <2>2, <3>1
  <2> QED
    BY <2>3, <2>4
<1> QED
  BY <1>4, <1>5 DEF Step, CheckPending, Load, Asking, MakeRoom, Evict, Mark, Announce, Push, Interrupt, Decide,
                    Act, Fail, Save, history

-----------------------------------------------------------------------------
(* Approvals.                                                              *)

\* A task of t that may be approved after a step could be before, unless the
\* step brings the approval to it.
LEMMA StepApproved ==
  ASSUME IInv, NEW r \in Requests, Step(r), NEW t \in Threads, NEW k \in 1..MaxSends, Approved(t, k)'
  PROVE  \/ Approved(t, k)
         \/ r \in Tickets(t) /\ r \notin Tickets(t)' /\ pc'[r] = "asking" /\ Id(r)' = <<t, k>>
<1>1. Types /\ Station(r) /\ OthersKeep(r) /\ thread[t] \in Checkpoints /\ <<t, k>> \in Ids
  BY StepKeepsOthers DEF IInv, Stations, Types, Ids
<1>2. ASSUME NEW q \in Requests \ {r}, pc'[q] \in InNode, Id(q)' = <<t, k>>, TRUE \in run'[q].given
      PROVE  Approved(t, k)
  BY <1>1, <1>2 DEF OthersKeep, Approved, Id
<1>3. CASE Load(r)
  <2> DEFINE s == run[r].thread
  <2>1. UNCHANGED effects
    BY <1>3 DEF Load, history
  <2>2. CASE Answer(r) /\ UNCHANGED thread
    <3>1. pc'[r] \notin InNode
      BY <1>1, <2>2 DEF Answer, Types, InNode
    <3> QED
      BY <1>2, <2>1, <2>2, <3>1 DEF Approved
  <2>3. ASSUME NEW n \in 1..MaxSends, StartNode(r, s, n), n = thread[s].task \/ n = thread[s].task + 1
        PROVE  \/ Approved(t, k)
               \/ r \in Tickets(t) /\ r \notin Tickets(t)' /\ pc'[r] = "asking" /\ Id(r)' = <<t, k>>
    <3> DEFINE old == IF n = thread[s].task THEN thread[s]
                      ELSE [task |-> n, at |-> "todo", given |-> {}]
               given == old.given \cup IF Resumes(r) THEN {run[r].approved} ELSE {}
    <3>1. s \in Threads /\ thread[s] \in Checkpoints /\ old \in Checkpoints
      BY <1>1, <1>3 DEF Load, Station, Types, Checkpoints
    <3>2. /\ run' = [run EXCEPT ![r] = [@ EXCEPT !.task = n, !.given = given]]
          /\ thread' = [thread EXCEPT ![s] = [old EXCEPT !.given = given]]
          /\ pc' = [pc EXCEPT ![r] = "asking"]
      BY <2>3, Zenon DEF StartNode
    <3>3. old.task = n /\ (old.given = {} \/ (old.given = thread[s].given /\ thread[s].task = n))
      BY <3>1
    <3>4. TRUE \in given => TRUE \in old.given \/ run[r].approved = TRUE
      BY <1>1
    <3> HIDE DEF old, given
    <3>5. /\ run'[r].given = given /\ Id(r)' = <<s, n>> /\ pc'[r] = "asking"
          /\ thread'[s].given = given /\ thread'[s].task = n
      BY <1>1, <3>1, <3>2, <3>3 DEF Types, Slots, Checkpoints, Id
    <3>6. s # t => thread'[t] = thread[t]
      BY <1>1, <3>2 DEF Types
    <3>7. CASE s = t /\ n = k
      <4>1. CASE TRUE \in given
        <5>1. TRUE \in old.given => Approved(t, k)
          BY <3>3, <3>7 DEF Approved
        <5>2. run[r].approved => r \in Tickets(t) /\ r \notin Tickets(t)'
          BY <1>3, <3>5, <3>7 DEF Load, Tickets, Ahead
        <5> QED
          BY <3>4, <3>5, <3>7, <4>1, <5>1, <5>2
      <4>2. CASE TRUE \notin given
        BY <1>2, <2>1, <3>5, <3>7, <4>2 DEF Approved
      <4> QED
        BY <4>1, <4>2
    <3>8. CASE ~(s = t /\ n = k)
      <4>1. Id(r)' # <<t, k>>
        BY <3>5, <3>8
      <4>2. ~(thread'[t].task = k /\ TRUE \in thread'[t].given) \/ Approved(t, k)
        BY <3>5, <3>6, <3>8 DEF Approved
      <4> QED
        BY <1>2, <2>1, <4>1, <4>2 DEF Approved
    <3> QED
      BY <3>7, <3>8
  <2>4. /\ s \in Threads
        /\ \/ StartNode(r, s, thread[s].task + 1) /\ thread[s].task + 1 \in 1..MaxSends
           \/ StartNode(r, s, thread[s].task) /\ thread[s].task \in 1..MaxSends
           \/ Answer(r) /\ UNCHANGED thread
    BY <1>3, LoadCases, RoomForTask
  <2> QED
    BY <2>2, <2>3, <2>4
<1>4. CASE ~Load(r)
  <2>1. pc'[r] \in InNode => pc[r] \in InNode /\ Id(r)' = Id(r) /\ run'[r].given = run[r].given
    <3>1. ASSUME NodeRaises(r) \/ Answer(r) PROVE pc'[r] \notin InNode
      BY <1>1, <3>1 DEF NodeRaises, Answer, Types, InNode
    <3>2. ASSUME NEW stage, Goto(r, stage) PROVE Id(r)' = Id(r) /\ run'[r].given = run[r].given
      BY <1>1, <3>2, SlotGoes
    <3>3. CASE CheckPending(r)
      <4>1. Goto(r, "loading") => pc'[r] \notin InNode
        BY <1>1, SlotGoes DEF InNode
      <4> QED
        BY <3>1, <3>3, <4>1 DEF CheckPending
    <3>4. CASE MakeRoom(r) \/ Evict(r)
      <4>1. ASSUME NEW v, run' = [run EXCEPT ![r].victim = v]
            PROVE  Id(r)' = Id(r) /\ run'[r].given = run[r].given
        BY <1>1, <4>1 DEF Types, Slots, Id
      <4>2. pc[r] \in InNode
        BY <3>4 DEF MakeRoom, Evict, InNode
      <4> QED
        BY <3>1, <3>2, <3>4, <4>1, <4>2 DEF MakeRoom, Evict
    <3>5. CASE \/ Asking(r) \/ Mark(r) \/ Announce(r) \/ Push(r) \/ Interrupt(r)
               \/ Decide(r) \/ Act(r) \/ Fail(r) \/ Save(r)
      <4>1. pc[r] \in InNode
        BY <3>5 DEF Asking, Mark, Announce, Push, Interrupt, Decide, Act, Fail, Save, InNode
      <4>2. NodeRaises(r) \/ Answer(r) \/ \E stage : Goto(r, stage)
        BY <3>5 DEF Asking, Mark, Announce, Push, Interrupt, Decide, Act, Fail, Save
      <4> QED
        BY <3>1, <3>2, <4>1, <4>2
    <3> QED
      BY <1>4, <3>3, <3>4, <3>5 DEF Step
  <2>2. (\E q \in Requests : pc'[q] \in InNode /\ Id(q)' = <<t, k>> /\ TRUE \in run'[q].given)
          => Approved(t, k)
    BY <1>2, <2>1 DEF Approved
  <2>3. thread'[t].task = k /\ TRUE \in thread'[t].given
          => thread[t].task = k /\ TRUE \in thread[t].given
    <3>1. CASE Interrupt(r)
      BY <1>1, <3>1 DEF Interrupt, Types, Checkpoints
    <3>2. CASE Save(r)
      BY <1>1, <3>2 DEF Save, Types, Checkpoints
    <3> QED
      BY <1>4, <3>1, <3>2
         DEF Step, CheckPending, Asking, MakeRoom, Evict, Mark, Announce, Push, Decide, Act, Fail
  <2>4. effects'[<<t, k>>] > 0 => Approved(t, k)
    <3>1. CASE Act(r)
      <4>1. pc[r] \in InNode /\ TRUE \in run[r].given
        BY <1>1, <3>1 DEF Act, Station, InNode
      <4>2. Id(r) = <<t, k>> => Approved(t, k)
        BY <4>1 DEF Approved
      <4>3. Id(r) # <<t, k>> => effects'[<<t, k>>] = effects[<<t, k>>]
        BY <1>1, <3>1 DEF Act, Types
      <4> QED
        BY <4>2, <4>3 DEF Approved
    <3>2. CASE ~Act(r)
      <4>1. UNCHANGED effects
        BY <1>4, <3>2 DEF Step, CheckPending, Asking, MakeRoom, Evict, Mark, Announce, Push, Interrupt, Decide,
                          Fail, Save, history
      <4> QED
        BY <4>1 DEF Approved
    <3> QED
      BY <3>1, <3>2
  <2> QED
    BY <2>2, <2>3, <2>4 DEF Approved
<1> QED
  BY <1>3, <1>4

\* The tasks that are approved and the approvals on their way never outnumber the
\* approvals that were sent.
LEMMA StepApprovals ==
  ASSUME IInv, NEW r \in Requests, Step(r)
  PROVE  ApprovalsCounted'
<1> SUFFICES ASSUME NEW t \in Threads
             PROVE  Cardinality(ApprovedTasks(t)') + Cardinality(Tickets(t)') <= approvals'[t]
  BY DEF ApprovalsCounted
<1>1. /\ Cardinality(ApprovedTasks(t)) + Cardinality(Tickets(t)) <= approvals[t]
      /\ approvals[t] \in Nat
      /\ UNCHANGED approvals
  BY DEF IInv, ApprovalsCounted, Types, Step, CheckPending, Load, Asking, MakeRoom, Evict, Mark, Announce, Push,
         Interrupt, Decide, Act, Fail, Save
<1>2. /\ Cardinality(Tickets(t)) \in Nat /\ Cardinality(Tickets(t)') \in Nat
      /\ Cardinality(Tickets(t)') <= Cardinality(Tickets(t))
      /\ (r \in Tickets(t) /\ r \notin Tickets(t)') =>
           Cardinality(Tickets(t)') + 1 <= Cardinality(Tickets(t))
  BY CountedFinite, Counting, StepOpeners
<1>3. IsFiniteSet(ApprovedTasks(t)) /\ Cardinality(ApprovedTasks(t)) \in Nat
  BY TasksFinite
<1>4. CASE ApprovedTasks(t)' \subseteq ApprovedTasks(t)
  <2>1. Cardinality(ApprovedTasks(t)') \in Nat
        /\ Cardinality(ApprovedTasks(t)') <= Cardinality(ApprovedTasks(t))
    BY <1>3, <1>4, Counting
  <2> QED
    BY <1>1, <1>2, <1>3, <2>1
<1>5. CASE ~(ApprovedTasks(t)' \subseteq ApprovedTasks(t))
  <2>1. PICK k \in 1..MaxSends : Approved(t, k)' /\ ~Approved(t, k)
    BY <1>5 DEF ApprovedTasks
  <2>2. r \in Tickets(t) /\ r \notin Tickets(t)' /\ Id(r)' = <<t, k>>
    BY <2>1, StepApproved
  <2>3. ApprovedTasks(t)' \subseteq ApprovedTasks(t) \cup {k}
    BY <2>2, StepApproved DEF ApprovedTasks
  <2>4. Cardinality(ApprovedTasks(t)') \in Nat
        /\ Cardinality(ApprovedTasks(t)') <= Cardinality(ApprovedTasks(t)) + 1
    BY <1>3, <2>3, Counting
  <2> QED
    BY <1>1, <1>2, <1>3, <2>2, <2>4
<1> QED
  BY <1>4, <1>5

-----------------------------------------------------------------------------
(* The other steps: a request is sent, the server restarted.               *)

LEMMA SendIInv ==
  ASSUME IInv, NEW r \in Requests, NEW kind \in Kinds, NEW t \in Threads, NEW approved \in BOOLEAN,
         approved => kind \in {"resume", "resume_approval"}, Send(r, kind, t, approved)
  PROVE  IInv'
<1> DEFINE slot == [Nobody EXCEPT !.kind = kind, !.thread = t, !.approved = approved]
           stage == IF kind = "resume" THEN "checking" ELSE "loading"
<1>1. /\ Types /\ pc[r] = "idle" /\ sent < MaxSends /\ sent' = sent + 1
      /\ run' = [run EXCEPT ![r] = slot] /\ pc' = [pc EXCEPT ![r] = stage]
      /\ approvals' = [approvals EXCEPT ![t] = IF approved THEN @ + 1 ELSE @]
      /\ UNCHANGED <<thread, announced, forgotten, asked, unsaid, pushed, refused, decided, effects,
                     failures, restarts>>
  BY DEF IInv, Send, memory, history
<1>2. /\ slot \in Slots /\ slot.kind = kind /\ slot.thread = t /\ slot.approved = approved
      /\ stage \in Stages /\ stage \in Ahead
  BY DEF Slots, Nobody, Stages, Ahead
<1> HIDE DEF slot
<1>3. /\ pc'[r] = stage /\ run'[r] = slot
      /\ \A q \in Requests \ {r} : pc'[q] = pc[q] /\ run'[q] = run[q] /\ Id(q)' = Id(q)
                                   /\ (Resumes(q)' <=> Resumes(q))
  BY <1>1 DEF Types, Id, Resumes
<1>4. Types'
  <2>1. approvals' \in [Threads -> Nat]
    BY <1>1 DEF Types
  <2>2. sent' \in 0..MaxSends
    BY <1>1, ApprovalAssumption DEF Types
  <2> QED
    BY <1>1, <1>2, <2>1, <2>2 DEF Types
<1>5. Stations'
  <2>1. Station(r)'
    <3>1. thread[t].task \in Nat
      BY <1>1 DEF Types, Checkpoints
    <3>2. stage = "loading" => kind # "resume"
      OBVIOUS
    <3> QED
      BY <1>2, <1>3, <3>2 DEF Station, Resumes, Ahead, InNode
  <2>2. ASSUME NEW q \in Requests \ {r} PROVE Station(q)'
    <3>1. Known' = Known
      BY <1>1 DEF Known, Announced
    <3> QED
      BY <1>1, <1>3, <3>1, ZenonT(60) DEF IInv, Stations, Station
  <2> QED
    BY <2>1, <2>2 DEF Stations
<1>6. ASSUME NEW u \in Threads
      PROVE  /\ Cardinality(Openers(u)) \in Nat /\ Cardinality(Openers(u)') \in Nat
             /\ Cardinality(Openers(u)') <= Cardinality(Openers(u)) + 1
             /\ Cardinality(Tickets(u)) \in Nat /\ Cardinality(Tickets(u)') \in Nat
             /\ Cardinality(Tickets(u)') <= Cardinality(Tickets(u)) + 1
             /\ ~(u = t /\ approved) => Cardinality(Tickets(u)') <= Cardinality(Tickets(u))
  <2>1. Openers(u)' \subseteq Openers(u) \cup {r} /\ Tickets(u)' \subseteq Tickets(u) \cup {r}
    BY <1>3 DEF Openers, Tickets
  <2>2. ~(u = t /\ approved) => Tickets(u)' \subseteq Tickets(u)
    BY <1>2, <1>3 DEF Tickets
  <2>3. /\ Cardinality(Openers(u)) \in Nat /\ Cardinality(Openers(u)') \in Nat
        /\ Cardinality(Openers(u)') <= Cardinality(Openers(u)) + 1
    BY <2>1, CountedFinite, Counting
  <2>4. /\ Cardinality(Tickets(u)) \in Nat /\ Cardinality(Tickets(u)') \in Nat
        /\ Cardinality(Tickets(u)') <= Cardinality(Tickets(u)) + 1
        /\ Tickets(u)' \subseteq Tickets(u) => Cardinality(Tickets(u)') <= Cardinality(Tickets(u))
    BY <2>1, CountedFinite, Counting
  <2> QED
    BY <2>2, <2>3, <2>4
<1>7. TasksCounted'
  <2> SUFFICES ASSUME NEW u \in Threads
               PROVE  /\ thread[u].task + Cardinality(Openers(u)') <= sent + 1
                      /\ thread[u].at = "empty" <=> thread[u].task = 0
    BY <1>1 DEF TasksCounted
  <2>1. /\ thread[u].task \in Nat /\ sent \in Nat
        /\ thread[u].task + Cardinality(Openers(u)) <= sent
        /\ thread[u].at = "empty" <=> thread[u].task = 0
    BY <1>1 DEF IInv, Types, Checkpoints, TasksCounted
  <2> QED
    BY <1>6, <2>1
<1>8. /\ Marking' \subseteq Marking
      /\ \A i : Pushers(i)' \subseteq Pushers(i)
  BY <1>2, <1>3 DEF Marking, Pushers, Ahead
<1>9. FifoCounted' /\ Said' /\ PushesCounted'
  <2>1. Known' = Known
    BY <1>1 DEF Known, Announced
  <2>2. /\ Cardinality(Marking') \in Nat /\ Cardinality(Marking') <= Cardinality(Marking)
        /\ Cardinality(Marking) \in Nat /\ Cardinality(Requests) \in Nat
        /\ Len(announced) \in Nat /\ Capacity \in Nat
    BY <1>1, <1>8, CountedFinite, Counting, ApprovalAssumption, LenProperties DEF Types
  <2>3. FifoCounted'
    BY <1>1, <2>2 DEF IInv, FifoCounted
  <2>4. Said'
    <3>1. ASSUME NEW i, BeingSaid(i) PROVE BeingSaid(i)'
      BY <1>1, <1>3, <3>1 DEF BeingSaid, Announcing
    <3> QED
      BY <1>1, <2>1, <3>1 DEF IInv, Said
  <2>5. ASSUME NEW i \in Ids
        PROVE  /\ i \notin Known' => pushed'[i] = 0
               /\ i \notin forgotten' =>
                    pushed'[i] + Cardinality(Pushers(i)') <= Cardinality(Requests)
    <3>1. /\ Cardinality(Pushers(i)') \in Nat /\ Cardinality(Pushers(i)) \in Nat
          /\ Cardinality(Pushers(i)') <= Cardinality(Pushers(i))
      BY <1>8, CountedFinite, Counting
    <3>2. /\ i \notin Known => pushed[i] = 0
          /\ i \notin forgotten => pushed[i] + Cardinality(Pushers(i)) <= Cardinality(Requests)
          /\ pushed[i] \in Nat
      BY DEF IInv, PushesCounted, Types
    <3> QED
      BY <1>1, <2>1, <2>2, <3>1, <3>2, SMTT(40)
  <2> QED
    BY <2>3, <2>4, <2>5 DEF PushesCounted
<1>10. Asked'
  BY <1>1 DEF IInv, Asked, Known, Announced
<1>11. AllHandedOver'
  <2>1. ASSUME NEW q \in Requests, pc[q] \in {"announcing", "pushing"}
        PROVE  pc'[q] = pc[q] /\ Id(q)' = Id(q)
    BY <1>1, <1>3, <2>1
  <2>2. ASSUME NEW i, HandedOver(i) PROVE HandedOver(i)'
    BY <1>1, <2>1, <2>2 DEF HandedOver
  <2> QED
    BY <1>1, <2>2 DEF IInv, AllHandedOver, Known, Announced
<1>12. ApprovalsCounted'
  <2> SUFFICES ASSUME NEW u \in Threads
               PROVE  Cardinality(ApprovedTasks(u)') + Cardinality(Tickets(u)') <= approvals'[u]
    BY DEF ApprovalsCounted
  <2>1. ASSUME NEW k \in 1..MaxSends, Approved(u, k)' PROVE Approved(u, k)
    <3>1. ASSUME NEW q \in Requests, pc'[q] \in InNode
          PROVE  pc[q] \in InNode /\ Id(q)' = Id(q) /\ run'[q].given = run[q].given
      BY <1>2, <1>3, <3>1 DEF Ahead, InNode
    <3> QED
      BY <1>1, <2>1, <3>1 DEF Approved
  <2>2. ApprovedTasks(u)' \subseteq ApprovedTasks(u)
    BY <2>1 DEF ApprovedTasks
  <2>3. /\ Cardinality(ApprovedTasks(u)') \in Nat /\ Cardinality(ApprovedTasks(u)) \in Nat
        /\ Cardinality(ApprovedTasks(u)') <= Cardinality(ApprovedTasks(u))
    BY <2>2, TasksFinite, Counting
  <2>4. Cardinality(ApprovedTasks(u)) + Cardinality(Tickets(u)) <= approvals[u]
        /\ approvals[u] \in Nat
    BY <1>1 DEF IInv, ApprovalsCounted, Types
  <2>5. approvals'[u] = IF u = t /\ approved THEN approvals[u] + 1 ELSE approvals[u]
    BY <1>1 DEF Types
  <2> QED
    BY <1>6, <2>3, <2>4, <2>5
<1> QED
  BY <1>4, <1>5, <1>7, <1>9, <1>10, <1>11, <1>12 DEF IInv

LEMMA RestartIInv ==
  ASSUME IInv, Restart
  PROVE  IInv'
<1>1. /\ Types /\ restarts' = restarts + 1 /\ announced' = <<>>
      /\ forgotten' = forgotten \cup Announced
      /\ run' = [r \in Requests |-> Nobody] /\ pc' = [r \in Requests |-> "idle"]
      /\ unsaid' = unsaid \cup {Id(r) : r \in Announcing}
      /\ UNCHANGED <<thread, asked, pushed, refused, decided, effects, approvals, sent, failures>>
  BY DEF IInv, Restart
<1>0. Known' = Known
  BY <1>1 DEF Known, Announced
<1>2. Types' /\ Stations'
  <2>1. unsaid' \subseteq Ids
    BY <1>1, ZenonT(60) DEF Types, IInv, Stations, Station, Announcing, InNode
  <2> QED
    BY <1>1, <2>1 DEF Types, Slots, Nobody, Stages, Stations, Station, InNode, Resumes
<1>3. /\ \A t : Openers(t)' = {} /\ Tickets(t)' = {}
      /\ \A i : Pushers(i)' = {}
      /\ Marking' = {}
  BY <1>1 DEF Openers, Tickets, Pushers, Marking, Ahead
<1>4. Cardinality({}) = 0
  BY FS_EmptySet
<1>5. TasksCounted'
  <2> SUFFICES ASSUME NEW t \in Threads
               PROVE  /\ thread[t].task + Cardinality(Openers(t)') <= sent
                      /\ thread[t].at = "empty" <=> thread[t].task = 0
    BY <1>1 DEF TasksCounted
  <2>1. /\ thread[t].task \in Nat /\ sent \in Nat /\ Cardinality(Openers(t)) \in Nat
        /\ thread[t].task + Cardinality(Openers(t)) <= sent
        /\ thread[t].at = "empty" <=> thread[t].task = 0
    BY <1>1, CountedFinite DEF IInv, Types, Checkpoints, TasksCounted
  <2>2. Cardinality(Openers(t)') = 0
    BY <1>3, <1>4
  <2> QED
    BY <2>1, <2>2
<1>6. FifoCounted'
  <2>1. /\ Len(announced') = 0 /\ Capacity \in Nat \ {0} /\ Cardinality(Requests) \in Nat
        /\ Cardinality(Marking') = 0
    BY <1>1, <1>3, <1>4, CountedFinite, ApprovalAssumption
  <2> QED
    BY <2>1 DEF FifoCounted
<1>7. Said'
  BY <1>0, <1>1 DEF IInv, Said, BeingSaid
<1>8. Asked'
  BY <1>0, <1>1 DEF IInv, Asked
<1>9. AllHandedOver'
  BY <1>1 DEF AllHandedOver, Types
<1>10. PushesCounted'
  <2> SUFFICES ASSUME NEW i \in Ids
               PROVE  /\ i \notin Known => pushed[i] = 0
                      /\ i \notin forgotten' =>
                           pushed[i] + Cardinality(Pushers(i)') <= Cardinality(Requests)
    BY <1>0, <1>1 DEF PushesCounted
  <2>1. /\ i \notin Known => pushed[i] = 0
        /\ i \notin forgotten => pushed[i] + Cardinality(Pushers(i)) <= Cardinality(Requests)
        /\ pushed[i] \in Nat /\ Cardinality(Pushers(i)) \in Nat /\ Cardinality(Requests) \in Nat
    BY CountedFinite DEF IInv, PushesCounted, Types
  <2>2. Cardinality(Pushers(i)') = 0
    BY <1>3, <1>4
  <2> QED
    BY <1>1, <2>1, <2>2
<1>11. ApprovalsCounted'
  <2> SUFFICES ASSUME NEW t \in Threads
               PROVE  Cardinality(ApprovedTasks(t)') + Cardinality(Tickets(t)') <= approvals[t]
    BY <1>1 DEF ApprovalsCounted
  <2>1. ASSUME NEW k \in 1..MaxSends, Approved(t, k)' PROVE Approved(t, k)
    BY <1>1, <2>1 DEF Approved, InNode
  <2>2. ApprovedTasks(t)' \subseteq ApprovedTasks(t)
    BY <2>1 DEF ApprovedTasks
  <2>3. /\ Cardinality(ApprovedTasks(t)') \in Nat /\ Cardinality(ApprovedTasks(t)) \in Nat
        /\ Cardinality(ApprovedTasks(t)') <= Cardinality(ApprovedTasks(t))
    BY <2>2, TasksFinite, Counting
  <2>4. /\ Cardinality(ApprovedTasks(t)) + Cardinality(Tickets(t)) <= approvals[t]
        /\ approvals[t] \in Nat /\ Cardinality(Tickets(t)) \in Nat
    BY <1>1, CountedFinite DEF IInv, ApprovalsCounted, Types
  <2>5. Cardinality(Tickets(t)') = 0
    BY <1>3, <1>4
  <2> QED
    BY <2>3, <2>4, <2>5
<1> QED
  BY <1>2, <1>5, <1>6, <1>7, <1>8, <1>9, <1>10, <1>11 DEF IInv

-----------------------------------------------------------------------------
(* Theorems.                                                               *)

\* IInv is inductive: what a request does at one stage leaves the others what
\* they need.
THEOREM InductiveInvariant == Spec => []IInv
<1>1. IInv /\ [Next]_vars => IInv'
  <2> SUFFICES ASSUME IInv, [Next]_vars PROVE IInv'
    OBVIOUS
  <2>1. ASSUME NEW r \in Requests, Step(r) PROVE IInv'
    BY <2>1, StepTypes, StepStations, StepTasks, StepFifo, StepSaid, StepAsked, StepHandedOver, StepPushes,
       StepApprovals DEF IInv
  <2>2. CASE UNCHANGED vars
    <3>1. UNCHANGED <<thread, announced, forgotten, run, pc, asked, unsaid, pushed, refused, decided,
                      effects, approvals, sent, failures, restarts>>
      BY <2>2 DEF vars, memory, history, bounds
    <3>2. Types' /\ Stations'
      BY <3>1 DEF IInv, Types, Stations, Station, Id, Resumes, Known, Announced
    <3>3. TasksCounted' /\ FifoCounted' /\ Said' /\ Asked'
      <4>1. (\A t : Openers(t)' = Openers(t)) /\ Marking' = Marking /\ Known' = Known
        BY <3>1 DEF Openers, Marking, Known, Announced
      <4>2. \A i : BeingSaid(i)' <=> BeingSaid(i)
        BY <3>1 DEF BeingSaid, Announcing, Id
      <4> QED
        BY <3>1, <4>1, <4>2 DEF IInv, TasksCounted, FifoCounted, Said, Asked
    <3>4. AllHandedOver' /\ PushesCounted'
      BY <3>1 DEF IInv, AllHandedOver, HandedOver, PushesCounted, Pushers, Id, Known, Announced
    <3>5. ASSUME NEW t PROVE ApprovedTasks(t)' = ApprovedTasks(t) /\ Tickets(t)' = Tickets(t)
      BY <3>1 DEF ApprovedTasks, Approved, Tickets, Id
    <3>6. ApprovalsCounted'
      BY <3>1, <3>5 DEF IInv, ApprovalsCounted
    <3> QED
      BY <3>2, <3>3, <3>4, <3>6 DEF IInv
  <2>3. ASSUME Next, \A r \in Requests : ~Step(r), ~Restart PROVE IInv'
    BY <2>3, SendIInv DEF Next
  <2> QED
    BY <2>1, <2>2, <2>3, RestartIInv
<1> QED
  BY <1>1, InitIInv, PTL DEF Spec

\* The tasks of a thread are as many as the requests sent at most.
LEMMA TasksBounded ==
  ASSUME IInv, NEW t \in Threads
  PROVE  /\ thread[t] \in [task : 0..MaxSends, at : {"empty", "todo", "pending", "done"},
                           given : SUBSET BOOLEAN]
         /\ thread[t].at # "empty" => <<t, thread[t].task>> \in Ids
<1>1. /\ thread[t] \in Checkpoints /\ thread[t].task \in Nat /\ sent \in 0..MaxSends
      /\ thread[t].task + Cardinality(Openers(t)) <= sent /\ Cardinality(Openers(t)) \in Nat
      /\ thread[t].at = "empty" <=> thread[t].task = 0
  BY CountedFinite DEF IInv, Types, Checkpoints, TasksCounted
<1>2. thread[t].task \in 0..MaxSends /\ (thread[t].task # 0 => thread[t].task \in 1..MaxSends)
  BY <1>1, ApprovalAssumption
<1> QED
  BY <1>1, <1>2 DEF Checkpoints, Ids

\* Types; the FIFO has no duplicates, and no more entries than its capacity and
\* the requests that can find it almost full at the same time (hitl/approval.py).
THEOREM TypesHold == Spec => []TypeOK
<1>1. IInv => TypeOK
  <2> SUFFICES ASSUME IInv PROVE TypeOK
    OBVIOUS
  <2>1. thread \in [Threads -> [task : 0..MaxSends, at : {"empty", "todo", "pending", "done"},
                                given : SUBSET BOOLEAN]]
    BY TasksBounded DEF IInv, Types
  <2>2. Len(announced) <= Capacity + Cardinality(Requests) - 1
    <3>1. /\ Len(announced) + Cardinality(Marking) <= Capacity + Cardinality(Requests) - 1
          /\ Len(announced) \in Nat /\ Cardinality(Marking) \in Nat /\ Capacity \in Nat
          /\ Cardinality(Requests) \in Nat
      BY CountedFinite, ApprovalAssumption, LenProperties DEF IInv, Types, FifoCounted
    <3> QED
      BY <3>1
  <2>3. ASSUME NEW r \in Requests
        PROVE  /\ pc[r] \in Stages
               /\ pc[r] \notin {"idle", "checking", "loading"} => Id(r) \in Ids
               /\ pc[r] = "evicting" => run[r].victim \in Ids
    <3>1. pc[r] \in Stages /\ Station(r)
      BY DEF IInv, Types, Stations
    <3>2. pc[r] \notin {"idle", "checking", "loading"} => pc[r] \in InNode
      BY <3>1 DEF Stages, InNode
    <3> QED
      BY <3>1, <3>2 DEF Station
  <2>4. forgotten \subseteq Ids /\ decided \subseteq Ids
    BY KnownIds DEF Known, IInv, Asked
  <2> QED
    BY <2>1, <2>2, <2>3, <2>4 DEF TypeOK, IInv, Types, FifoCounted, Asked
<1> QED
  BY <1>1, InductiveInvariant, PTL

\* Every ApprovalCompleted event and audit line names a request that was made
\* under the same approval id: the node that decides has asked, or found the id
\* in _announced, whose maker asks next, unless a restart stops it.
THEOREM DecisionsAnswerRequests == Spec => []DecisionsHaveRequests
<1>1. IInv => DecisionsHaveRequests
  BY DEF IInv, Asked, Said, BeingSaid, DecisionsHaveRequests
<1> QED
  BY <1>1, InductiveInvariant, PTL

\* An approving decision is good for the side effect of one task only, whatever
\* fails, is retried, resumed twice or restarted; and a rejection for none.
THEOREM ApprovalsAreSpentOnce == Spec => []OneTaskPerApproval
<1>1. IInv => OneTaskPerApproval
  <2> SUFFICES ASSUME IInv, NEW t \in Threads
               PROVE  Cardinality({k \in 1..MaxSends : effects[<<t, k>>] > 0}) <= approvals[t]
    BY DEF OneTaskPerApproval
  <2> DEFINE Done == {k \in 1..MaxSends : effects[<<t, k>>] > 0}
  <2>1. Done \subseteq ApprovedTasks(t)
    BY DEF ApprovedTasks, Approved
  <2>2. /\ Cardinality(Done) \in Nat /\ Cardinality(ApprovedTasks(t)) \in Nat
        /\ Cardinality(Done) <= Cardinality(ApprovedTasks(t))
    BY <2>1, TasksFinite, Counting
  <2>3. /\ Cardinality(ApprovedTasks(t)) + Cardinality(Tickets(t)) <= approvals[t]
        /\ Cardinality(Tickets(t)) \in Nat /\ approvals[t] \in Nat
    BY CountedFinite DEF IInv, ApprovalsCounted, Types
  <2> HIDE DEF Done
  <2>4. Cardinality(Done) <= approvals[t]
    BY <2>2, <2>3
  <2> QED
    BY <2>4 DEF Done
<1> QED
  BY <1>1, InductiveInvariant, PTL

\* Without a restart, what a thread waits for was handed to the adapter, is being
\* handed to it, or was refused.
THEOREM WaitingReachesAdapter == Spec => []WaitingWasPushed
<1>1. IInv => WaitingWasPushed
  BY DEF IInv, Asked, AllHandedOver, HandedOver, WaitingWasPushed
<1> QED
  BY <1>1, InductiveInvariant, PTL

\* A request is handed over again only after its id was evicted or lost, but for
\* those served at the same time that looked before it was remembered.
THEOREM RememberedIsNotRepeated == Spec => []RepeatsOnlyIfForgotten
<1>1. IInv => RepeatsOnlyIfForgotten
  <2> SUFFICES ASSUME IInv, NEW i \in Ids, pushed[i] > Cardinality(Requests), i \notin forgotten
               PROVE  FALSE
    BY DEF RepeatsOnlyIfForgotten
  <2>1. /\ pushed[i] + Cardinality(Pushers(i)) <= Cardinality(Requests)
        /\ pushed[i] \in Nat /\ Cardinality(Pushers(i)) \in Nat /\ Cardinality(Requests) \in Nat
    BY CountedFinite DEF IInv, PushesCounted, Types
  <2> QED
    BY <2>1
<1> QED
  BY <1>1, InductiveInvariant, PTL

\* POST .../resume never starts a thread that does not exist, although its check
\* and its run are two steps: threads that exist go on to exist.
THEOREM ResumesStartNothing == Spec => UnknownThreadsNotStarted
<1> DEFINE Starts(t) == \E r \in Requests : pc[r] = "loading" /\ pc'[r] = "asking"
                                            /\ run[r].thread = t /\ run[r].kind # "resume"
           Kept == \A t \in Threads :
                     thread[t].at = "empty" /\ thread'[t].at # "empty" => Starts(t)
<1>1. IInv /\ [Next]_vars => [Kept]_vars
  <2> SUFFICES ASSUME IInv, Next, NEW t \in Threads, thread[t].at = "empty", thread'[t].at # "empty"
               PROVE  Starts(t)
    OBVIOUS
  <2>1. PICK r \in Requests : Step(r)
    BY ZenonT(60) DEF Next, Send, Restart
  <2>2. Types /\ Station(r)
    BY DEF IInv, Stations
  <2>3. CASE Load(r)
    <3>1. ~(Answer(r) /\ UNCHANGED thread)
      OBVIOUS
    <3>2. PICK k : StartNode(r, run[r].thread, k)
      BY <2>3, <3>1, LoadCases
    <3>3. run[r].thread = t /\ pc'[r] = "asking"
      BY <2>2, <3>2 DEF StartNode, Types
    <3> QED
      BY <2>2, <2>3, <3>3 DEF Load, Station
  <2>4. CASE Interrupt(r) \/ Save(r)
    <3>1. thread[run[r].thread].at # "empty"
      BY <2>2, <2>4 DEF Interrupt, Save, Station, InNode
    <3> QED
      BY <2>2, <2>4, <3>1 DEF Interrupt, Save, Types, Checkpoints
  <2> QED
    BY <2>1, <2>3, <2>4
       DEF Step, CheckPending, Asking, MakeRoom, Evict, Mark, Announce, Push, Decide, Act, Fail
<1> QED
  BY <1>1, InductiveInvariant, PTL DEF Spec, UnknownThreadsNotStarted
=============================================================================
