----------------------- MODULE AgentExecutionProofs -----------------------
(***************************************************************************)
(* Proofs about AgentExecution for every number of nodes and every bound   *)
(* on the retries.  One inductive invariant, IInv, carries the type        *)
(* invariant, the confinement of the attempts' work (OneAttemptAtATime,    *)
(* NoWorkAfterTheAnswer) and the classification of cancellations           *)
(* (CancellationIsNoError).  A second one, Account, carries what the       *)
(* execution says of itself (WaitingIsReported, TraceIsTruthful), and a    *)
(* third, Progress, what its retries keep (ProgressKept).                  *)
(***************************************************************************)
EXTENDS AgentExecution, TLAPS

-----------------------------------------------------------------------------
(* The inductive invariant.                                                *)

\* The first attempt is number 0, and another one is only prepared while the
\* policy has one left.
Types ==
  /\ TypeOK
  /\ pc \in {"before", "enter"} => attempt = 0
  /\ pc = "backoff" => attempt < cfg.retries

\* The three places where work can be: a plain function that outlived its
\* task, the attempt the caller waits for, and the pool thread of a sync
\* attempt that the caller has given up for good.
Outlived(a) == cfg.blocking /\ worker[a].at = "orphan"
AwaitedFor(a) == a = attempt /\ pc \in {"attempt", "yielded"}
GivenUp(a) ==
  /\ a = attempt /\ pc \in {"failing", "finally", "done"}
  /\ cfg.api = "invoke" /\ cfg.timeout
  /\ exc = "TimeoutException" /\ state = "TIMEOUT"

Confined ==
  \A a \in Attempts : Live(worker[a]) => Outlived(a) \/ AwaitedFor(a) \/ GivenUp(a)

\* A worker past the start of a node is at a node, and orphans are plain functions.
InNode ==
  \A a \in Attempts :
    /\ worker[a].at \in {"effected", "orphan"} => worker[a].node \in Nodes
    /\ worker[a].at = "orphan" => cfg.blocking

\* From the except clause on, a cancelled execution is CANCELLED and no error.
Cancelled ==
  exc = "CancelledError" =>
    /\ pc \in {"failing", "finally", "done"}
    /\ pc \in {"finally", "done"} => state = "CANCELLED" /\ ~errored
    /\ pc = "done" => recorded = "CANCELLED"

\* A stream is suspended at a yield only if it is a stream.
Yielding == pc = "yielded" => Streaming

IInv == Types /\ Confined /\ InNode /\ Cancelled /\ Yielding

-----------------------------------------------------------------------------
(* What the configurations exclude.                                        *)

\* The facts about a call and its policy that the proofs use.
LEMMA ConfigFacts ==
  ASSUME cfg \in Configs
  PROVE  /\ cfg.retries \in 0..MaxRetries
         /\ cfg.timeout \in BOOLEAN /\ cfg.policy \in BOOLEAN /\ cfg.blocking \in BOOLEAN
         /\ cfg.api \in Apis
         /\ cfg.blocking => ~Sync
         /\ cfg.timeout => cfg.policy
         /\ cfg.policy => ~Streaming
BY DEF Configs, Apis, StreamApis, SyncApis, Sync, Streaming, Attempts

\* The two states in which a worker is put down.
LEMMA FreshWorkers == Idle \in WorkerStates /\ Started \in WorkerStates
<1>1. 1 \in 1..(NodeCount + 1)
  BY ExecutionAssumption
<1> QED
  BY <1>1 DEF Idle, Started, WorkerStates

\* The initial states satisfy the invariant.
LEMMA InitIInv == Init => IInv
<1> SUFFICES ASSUME Init PROVE IInv
  OBVIOUS
<1> USE ExecutionAssumption
<1>1. cfg.retries \in 0..MaxRetries
  BY ConfigFacts DEF Init
<1>2. Types
  <2>1. worker \in [Attempts -> WorkerStates]
    BY DEF Init, Idle, WorkerStates
  <2>2. thread \in {"empty", "previous", "current"} /\ effects \in [Nodes -> Nat]
    BY DEF Init
  <2>3. attempt \in 0..cfg.retries /\ saved \in 0..NodeCount
    BY <1>1 DEF Init
  <2>4. pc = "before" /\ state \in States /\ exc \in Exceptions \cup {"none"}
    BY DEF Init, States
  <2> QED
    BY <2>1, <2>2, <2>3, <2>4 DEF Init, Types, TypeOK
<1>3. Confined /\ InNode
  BY DEF Init, Confined, InNode, Live, Idle
<1>4. Cancelled /\ Yielding
  BY DEF Init, Cancelled, Yielding
<1> QED
  BY <1>2, <1>3, <1>4 DEF IInv

-----------------------------------------------------------------------------
(* The run of the graph.                                                   *)

\* A step of one worker: it was at work and stays an ordinary run.
Moves(a) ==
  /\ Live(worker[a]) /\ worker[a].at # "orphan"
  /\ worker' \in [Attempts -> WorkerStates]
  /\ \A b \in Attempts \ {a} : worker'[b] = worker[b]
  /\ worker'[a].at # "orphan"
  /\ worker'[a].at = "effected" => worker'[a].node \in Nodes

\* What the graph's run may change besides its worker keeps its type.
DataTypes ==
  /\ thread' \in {"empty", "previous", "current"}
  /\ saved' \in 0..NodeCount /\ waiting' \in BOOLEAN /\ effects' \in [Nodes -> Nat]

\* A worker that moves and leaves the caller alone preserves the invariant.
LEMMA WorkerMoves ==
  ASSUME IInv, NEW a \in Attempts, Moves(a), DataTypes,
         UNCHANGED <<cfg, pc, state, attempt, exc, hooks>>
  PROVE  IInv'
<1> USE DEF IInv, Moves, hooks
<1>1. Types'
  BY DEF Types, TypeOK, DataTypes
<1>2. Confined'
  BY DEF Confined, Live, Outlived, AwaitedFor, GivenUp
<1>3. InNode'
  BY DEF InNode
<1>4. Cancelled' /\ Yielding'
  BY DEF Cancelled, Yielding, Streaming
<1> QED
  BY <1>1, <1>2, <1>3, <1>4

\* So does one of a stream that hands what it did to the consumer: the stream
\* was being waited for, since only invoke gives up a worker for good.
LEMMA WorkerYields ==
  ASSUME IInv, NEW a \in Attempts, Moves(a), DataTypes,
         Streaming, pc' = "yielded", state' \in States,
         UNCHANGED <<cfg, attempt, exc, hooks>>
  PROVE  IInv'
<1> USE DEF IInv, Moves, hooks
<1>1. AwaitedFor(a) /\ cfg.api # "invoke"
  BY DEF InNode, Confined, Outlived, GivenUp, Streaming, StreamApis
<1>2. Types'
  BY DEF Types, TypeOK, DataTypes
<1>3. Confined'
  BY <1>1 DEF Confined, Live, Outlived, AwaitedFor, GivenUp
<1>4. InNode'
  BY DEF InNode
<1>5. Cancelled' /\ Yielding'
  BY <1>1 DEF Cancelled, AwaitedFor, Yielding, Streaming
<1> QED
  BY <1>2, <1>3, <1>4, <1>5

\* Every step of the graph's run preserves the invariant.
LEMMA GraphStepPreserves ==
  ASSUME IInv, NEW a \in Attempts, GraphStep(a)
  PROVE  IInv'
<1> USE ExecutionAssumption DEF CanRun, EndWorker, Live, Moves, DataTypes
<1>1. /\ worker \in [Attempts -> WorkerStates]
      /\ thread \in {"empty", "previous", "current"}
      /\ saved \in 0..NodeCount /\ waiting \in BOOLEAN /\ effects \in [Nodes -> Nat]
      /\ state \in States
      /\ worker[a].at \in {"effected", "orphan"} => worker[a].node \in Nodes
  BY DEF IInv, Types, TypeOK, InNode
<1>2. CASE GraphLoadFails(a)
  <2>1. Moves(a) /\ DataTypes
    BY <1>1, <1>2, ZenonT(60) DEF GraphLoadFails, WorkerStates, Exceptions, NodeFailures
  <2> QED
    BY <1>2, <2>1, WorkerMoves DEF GraphLoadFails
<1>3. CASE GraphStarts(a)
  <2>1. Moves(a)
    BY <1>1, <1>3 DEF GraphStarts, WorkerStates
  <2>2. DataTypes
    BY <1>1, <1>3 DEF GraphStarts
  <2> QED
    BY <1>3, <2>1, <2>2, WorkerMoves DEF GraphStarts
<1>4. CASE GraphResumes(a)
  <2>1. Moves(a) /\ DataTypes
    BY <1>1, <1>4 DEF GraphResumes, WorkerStates, Exceptions
  <2> QED
    BY <1>4, <2>1, WorkerMoves DEF GraphResumes
<1>5. CASE NodeActs(a)
  <2>1. Moves(a)
    BY <1>1, <1>5 DEF NodeActs, WorkerStates
  <2>2. DataTypes
    BY <1>1, <1>5 DEF NodeActs
  <2> QED
    BY <1>5, <2>1, <2>2, WorkerMoves DEF NodeActs
<1>6. CASE NodeCompletes(a)
  <2>1. worker[a].node \in 1..NodeCount
    BY <1>1, <1>6 DEF NodeCompletes, Nodes
  <2>2. Moves(a)
    BY <1>1, <1>6, <2>1 DEF NodeCompletes, WorkerStates
  <2>3. DataTypes
    BY <1>1, <1>6, <2>1 DEF NodeCompletes
  <2>4. CASE Streaming
    BY <1>1, <1>6, <2>2, <2>3, <2>4, WorkerYields DEF NodeCompletes, YieldItem
  <2>5. CASE ~Streaming
    BY <1>6, <2>2, <2>3, <2>5, WorkerMoves DEF NodeCompletes, YieldItem
  <2> QED
    BY <2>4, <2>5
<1>7. CASE NodeFails(a)
  <2>0. PICK e \in NodeFailures : EndWorker(a, e)
    BY <1>7 DEF NodeFails
  <2>1. Moves(a) /\ DataTypes
    BY <1>1, <1>7, <2>0, ZenonT(60) DEF NodeFails, WorkerStates, Exceptions
  <2> QED
    BY <1>7, <2>1, WorkerMoves DEF NodeFails
<1>8. CASE NodeInterrupts(a)
  <2>1. Moves(a) /\ DataTypes
    BY <1>1, <1>8, ZenonT(60) DEF NodeInterrupts, WorkerStates
  <2>2. CASE Streaming
    <3>1. state' \in States
      BY <1>1, <1>8 DEF NodeInterrupts, States
    <3> QED
      BY <1>8, <2>1, <2>2, <3>1, WorkerYields DEF NodeInterrupts, YieldItem
  <2>3. CASE ~Streaming
    BY <1>8, <2>1, <2>3, WorkerMoves DEF NodeInterrupts, YieldItem
  <2> QED
    BY <2>2, <2>3
<1>9. CASE GraphEnds(a)
  <2>1. Moves(a) /\ DataTypes
    BY <1>1, <1>9, ZenonT(60) DEF GraphEnds, WorkerStates
  <2> QED
    BY <1>9, <2>1, WorkerMoves DEF GraphEnds
<1>10. CASE OrphanActs(a)
  <2>1. effects' \in [Nodes -> Nat] /\ worker' \in [Attempts -> WorkerStates]
    BY <1>1, <1>10 DEF OrphanActs, Idle, WorkerStates
  <2>2. Types'
    BY <1>10, <2>1 DEF OrphanActs, hooks, IInv, Types, TypeOK
  <2>3. Confined' /\ InNode'
    BY <1>1, <1>10 DEF OrphanActs, IInv, Confined, InNode, Outlived, AwaitedFor, GivenUp, Idle
  <2>4. Cancelled' /\ Yielding'
    BY <1>10 DEF OrphanActs, hooks, IInv, Cancelled, Yielding, Streaming
  <2> QED
    BY <2>2, <2>3, <2>4 DEF IInv
<1> QED
  BY <1>2, <1>3, <1>4, <1>5, <1>6, <1>7, <1>8, <1>9, <1>10 DEF GraphStep
-----------------------------------------------------------------------------
(* The caller.                                                             *)

\* The caller's steps that leave every worker alone.  Nothing is at work but
\* what is allowed to outlive the attempt, before and after the step.
LEMMA CallerMoves ==
  ASSUME IInv,
         UNCHANGED <<cfg, attempt, graph>>,
         Types', Cancelled', Yielding',
         \A a \in Attempts : Live(worker[a]) => Outlived(a) \/ AwaitedFor(a)' \/ GivenUp(a)'
  PROVE  IInv'
<1>1. Confined' /\ InNode'
  BY DEF IInv, Confined, InNode, Live, Outlived, graph
<1> QED
  BY <1>1 DEF IInv

\* The hooks and pipelines before the first attempt.
LEMMA BeforeAgentPreserves == IInv /\ BeforeAgent => IInv'
<1> SUFFICES ASSUME IInv, BeforeAgent PROVE IInv'
  OBVIOUS
<1>1. Types' /\ Cancelled' /\ Yielding'
  BY ZenonT(60) DEF BeforeAgent, Blocks, graph, IInv, Types, TypeOK, Cancelled, Yielding,
         Exceptions, NodeFailures
<1>2. \A a \in Attempts : Live(worker[a]) => Outlived(a)
  BY DEF BeforeAgent, IInv, Confined, AwaitedFor, GivenUp
<1> QED
  BY <1>1, <1>2, CallerMoves DEF BeforeAgent

\* The before pipeline and the start of the first attempt.
LEMMA EnterPreserves == IInv /\ Enter => IInv'
<1> SUFFICES ASSUME IInv, Enter PROVE IInv'
  OBVIOUS
<1> USE ExecutionAssumption
<1>1. CASE UNCHANGED <<worker, state>> /\ \E e \in Blocks : Raise(e)
  <2>1. Types' /\ Cancelled' /\ Yielding'
    BY <1>1 DEF Enter, Raise, Blocks, hooks, IInv, Types, TypeOK, Cancelled, Yielding,
           Exceptions, NodeFailures
  <2>2. \A a \in Attempts : Live(worker[a]) => Outlived(a)
    BY DEF Enter, IInv, Confined, AwaitedFor, GivenUp
  <2> QED
    BY <1>1, <2>1, <2>2, CallerMoves DEF Enter, graph
<1>2. CASE /\ worker' = [worker EXCEPT ![0] = Started]
           /\ state' = IF cfg.policy THEN "RUNNING" ELSE state
           /\ pc' = "attempt" /\ UNCHANGED exc
  <2>1. worker' \in [Attempts -> WorkerStates]
    BY <1>2, FreshWorkers DEF IInv, Types, TypeOK
  <2>2. Types'
    BY <1>2, <2>1 DEF Enter, hooks, IInv, Types, TypeOK, States
  <2>3. Confined' /\ InNode'
    BY <1>2 DEF Enter, IInv, Types, TypeOK, Confined, InNode, Live, Outlived, AwaitedFor,
           GivenUp, Started
  <2>4. Cancelled' /\ Yielding'
    BY <1>2 DEF Enter, IInv, Cancelled, Yielding
  <2> QED
    BY <2>2, <2>3, <2>4 DEF IInv
<1> QED
  BY <1>1, <1>2 DEF Enter

\* An attempt that came to an end leaves only orphans behind.
LEMMA NothingAwaited ==
  ASSUME IInv, pc = "attempt", Ended(worker[attempt])
  PROVE  \A a \in Attempts : Live(worker[a]) => Outlived(a)
BY DEF IInv, Confined, Live, Ended, AwaitedFor, GivenUp

\* What the except clause of the engine can lead to.
LEMMA EngineOutcome ==
  ASSUME IInv, NEW e \in Exceptions, EngineCatches(e)
  PROVE  \/ /\ pc' = "backoff" /\ attempt < cfg.retries /\ UNCHANGED <<state, exc>>
            /\ ~(Sync /\ e = "TimeoutException")
         \/ /\ pc' = "failing" /\ exc' = e /\ state' \in States
            /\ cfg.policy /\ e = "TimeoutException" => state' = "TIMEOUT"
<1>1. cfg.retries \in 0..MaxRetries /\ attempt \in Nat /\ state \in States
  BY ExecutionAssumption, ConfigFacts DEF IInv, Types, TypeOK
<1> QED
  BY <1>1 DEF EngineCatches, ShouldRetry, Raise, States, IsControlFlow

\* What the engine's except clause and the outer one need to find settled.
LEMMA CatchingKeepsTypes ==
  ASSUME IInv, pc = "attempt", NEW e \in Exceptions, EngineCatches(e),
         UNCHANGED <<cfg, attempt, thread, saved, waiting, effects, hooks>>,
         worker' \in [Attempts -> WorkerStates]
  PROVE  Types' /\ Cancelled' /\ Yielding'
<1>1. exc \in Exceptions \cup {"none"} /\ exc # "CancelledError"
  BY DEF IInv, Types, TypeOK, Cancelled
<1>2. CASE pc' = "backoff" /\ attempt < cfg.retries /\ UNCHANGED <<state, exc>>
  BY <1>1, <1>2 DEF IInv, Types, TypeOK, Cancelled, Yielding, hooks
<1>3. CASE pc' = "failing" /\ exc' = e /\ state' \in States
  BY <1>3 DEF IInv, Types, TypeOK, Cancelled, Yielding, hooks
<1> QED
  BY <1>2, <1>3, EngineOutcome

\* An attempt that returns, and one that raises.
LEMMA AttemptEndsPreserves == IInv /\ (AttemptReturns \/ AttemptFails) => IInv'
<1> SUFFICES ASSUME IInv, AttemptReturns \/ AttemptFails PROVE IInv'
  OBVIOUS
<1>1. \A a \in Attempts : Live(worker[a]) => Outlived(a)
  BY NothingAwaited DEF AttemptReturns, AttemptFails
<1>2. CASE AttemptReturns
  <2>1. state' \in States
    BY <1>2 DEF AttemptReturns, IInv, Types, TypeOK, States
  <2>2. Types' /\ Cancelled' /\ Yielding'
    BY <1>2, <2>1 DEF AttemptReturns, graph, hooks, IInv, Types, TypeOK, Cancelled, Yielding
  <2> QED
    BY <1>1, <1>2, <2>2, CallerMoves DEF AttemptReturns
<1>3. CASE AttemptFails
  <2> DEFINE e == Translated(worker[attempt].out)
  <2>1. e \in Exceptions
    BY <1>3 DEF AttemptFails, Translated, Exceptions, NodeFailures
  <2>2. worker' \in [Attempts -> WorkerStates]
    BY <1>3 DEF AttemptFails, graph, IInv, Types, TypeOK
  <2>3. Types' /\ Cancelled' /\ Yielding'
    BY <1>3, <2>1, <2>2, CatchingKeepsTypes DEF AttemptFails, graph
  <2> QED
    BY <1>1, <1>3, <2>3, CallerMoves DEF AttemptFails
<1> QED
  BY <1>2, <1>3

\* The cancellation of a task leaves at most an orphan of this attempt.
LEMMA TaskCancelled ==
  ASSUME IInv, StopWorker \/ CancelTask, UNCHANGED cfg
  PROVE  /\ worker' \in [Attempts -> WorkerStates]
         /\ InNode'
         /\ \A a \in Attempts : Live(worker'[a]) =>
              (cfg.blocking /\ worker'[a].at = "orphan") \/ (a # attempt /\ worker'[a] = worker[a])
<1>1. worker \in [Attempts -> WorkerStates] /\ InNode
  BY DEF IInv, Types, TypeOK
<1>2. CASE StopWorker
  <2>1. worker' \in [Attempts -> WorkerStates]
    BY <1>1, <1>2, FreshWorkers DEF StopWorker
  <2> QED
    BY <1>1, <1>2, <2>1 DEF StopWorker, Idle, InNode, Live
<1>3. CASE /\ cfg.blocking
           /\ worker[attempt].at = "ready" /\ worker[attempt].node \in Nodes
           /\ worker' = [worker EXCEPT ![attempt].at = "orphan"]
  <2>1. worker' \in [Attempts -> WorkerStates]
    BY <1>1, <1>3, ZenonT(60) DEF WorkerStates
  <2> QED
    BY <1>1, <1>3, <2>1 DEF InNode, Live
<1> QED
  BY <1>2, <1>3 DEF CancelTask

\* The policy's deadline.  An async attempt is cancelled; a sync one is given up
\* and, being never retried, stays alone.
LEMMA DeadlinePreserves == IInv /\ Deadline => IInv'
<1> SUFFICES ASSUME IInv, Deadline PROVE IInv'
  OBVIOUS
<1>1. "TimeoutException" \in Exceptions /\ pc = "attempt" /\ cfg.timeout /\ cfg.policy
  BY ConfigFacts DEF Exceptions, NodeFailures, Deadline, IInv, Types, TypeOK
<1>2. \/ pc' = "backoff" /\ UNCHANGED <<state, exc>> /\ ~Sync
      \/ pc' = "failing" /\ exc' = "TimeoutException" /\ state' = "TIMEOUT"
  BY <1>1, EngineOutcome DEF Deadline
<1>3. CASE Sync
  <2>1. worker' = worker /\ worker' \in [Attempts -> WorkerStates]
    BY <1>3 DEF Deadline, IInv, Types, TypeOK
  <2>2. cfg.api = "invoke" /\ ~cfg.blocking
    BY <1>1, <1>3, ConfigFacts DEF Sync, SyncApis, Streaming, StreamApis, IInv, Types, TypeOK
  <2>3. Types' /\ Cancelled' /\ Yielding'
    BY <1>1, <2>1, CatchingKeepsTypes DEF Deadline
  <2>4. \A a \in Attempts : Live(worker[a]) => AwaitedFor(a)
    BY <1>1, <2>2 DEF IInv, Confined, Outlived, GivenUp
  <2>5. \A a \in Attempts : Live(worker[a]) => GivenUp(a)'
    BY <1>1, <1>2, <1>3, <2>2, <2>4 DEF Deadline, AwaitedFor, GivenUp
  <2> QED
    BY <2>1, <2>3, <2>5, CallerMoves DEF Deadline, graph
<1>4. CASE ~Sync
  <2>1. CancelTask /\ UNCHANGED cfg
    BY <1>4 DEF Deadline
  <2>2. Types' /\ Cancelled' /\ Yielding'
    BY <1>1, <2>1, TaskCancelled, CatchingKeepsTypes DEF Deadline
  <2>3. Confined'
    BY <1>1, <2>1, TaskCancelled DEF IInv, Confined, Outlived, AwaitedFor, GivenUp
  <2> QED
    BY <2>1, <2>2, <2>3, TaskCancelled DEF IInv
<1> QED
  BY <1>3, <1>4

\* The next attempt starts when nothing but orphans is left of the others.
LEMMA RetryPreserves == IInv /\ Retry => IInv'
<1> SUFFICES ASSUME IInv, Retry PROVE IInv'
  OBVIOUS
<1>1. /\ worker \in [Attempts -> WorkerStates]
      /\ attempt \in Nat /\ attempt < cfg.retries /\ cfg.retries \in 0..MaxRetries
  BY ExecutionAssumption, ConfigFacts DEF Retry, IInv, Types, TypeOK
<1>2. attempt + 1 \in Attempts /\ attempt' \in 0..cfg.retries
  BY <1>1, ExecutionAssumption DEF Attempts, Retry
<1>3. worker' \in [Attempts -> WorkerStates]
  BY <1>1, FreshWorkers DEF Retry
<1>4. Types'
  BY <1>2, <1>3 DEF Retry, hooks, IInv, Types, TypeOK
<1>5. Confined' /\ InNode'
  BY <1>1, <1>2 DEF Retry, IInv, Confined, InNode, Live, Outlived, AwaitedFor, GivenUp, Started
<1>6. Cancelled' /\ Yielding'
  BY DEF Retry, IInv, Cancelled, Yielding
<1> QED
  BY <1>4, <1>5, <1>6 DEF IInv

\* A client that goes away, during an await or between two items of a stream.
LEMMA LeavingPreserves == IInv /\ (Cancel \/ CloseStream) => IInv'
<1> SUFFICES ASSUME IInv, Cancel \/ CloseStream PROVE IInv'
  OBVIOUS
<1>1. /\ (StopWorker \/ CancelTask) /\ pc' = "failing"
      /\ UNCHANGED <<cfg, state, attempt, thread, saved, waiting, effects, hooks>>
      /\ exc' \in Exceptions
      /\ pc \in {"enter", "attempt", "backoff", "exit", "yielded"}
  BY DEF Cancel, CloseStream, Raise, Exceptions
<1>2. Types'
  BY <1>1, TaskCancelled DEF IInv, Types, TypeOK, hooks
<1>3. Confined'
  BY <1>1, TaskCancelled DEF IInv, Confined, Outlived, AwaitedFor, GivenUp
<1>4. Cancelled' /\ Yielding'
  BY <1>1 DEF IInv, Cancelled, Yielding
<1> QED
  BY <1>1, <1>2, <1>3, <1>4, TaskCancelled DEF IInv

\* The consumer of a stream asks for the next item.
LEMMA PullItemPreserves == IInv /\ PullItem => IInv'
<1> SUFFICES ASSUME IInv, PullItem PROVE IInv'
  OBVIOUS
<1>1. Types' /\ Cancelled' /\ Yielding'
  BY DEF PullItem, graph, hooks, IInv, Types, TypeOK, Cancelled, Yielding
<1>2. \A a \in Attempts : Live(worker[a]) => Outlived(a) \/ AwaitedFor(a)'
  BY DEF PullItem, IInv, Confined, AwaitedFor, GivenUp
<1> QED
  BY <1>1, <1>2, CallerMoves DEF PullItem

\* The after pipeline and after_agent.
LEMMA ExitPreserves == IInv /\ Exit => IInv'
<1> SUFFICES ASSUME IInv, Exit PROVE IInv'
  OBVIOUS
<1>1. Types' /\ Cancelled' /\ Yielding'
  BY DEF Exit, Raise, Blocks, graph, hooks, IInv, Types, TypeOK, Cancelled, Yielding,
         Exceptions, NodeFailures
<1>2. \A a \in Attempts : Live(worker[a]) => Outlived(a)
  BY DEF Exit, IInv, Confined, AwaitedFor, GivenUp
<1> QED
  BY <1>1, <1>2, CallerMoves DEF Exit

\* The except clause of invoke(), where the exception is classified.
LEMMA OnFailurePreserves == IInv /\ OnFailure => IInv'
<1> SUFFICES ASSUME IInv, OnFailure PROVE IInv'
  OBVIOUS
<1>1. Types' /\ Cancelled' /\ Yielding'
  BY ZenonT(60) DEF OnFailure, IsControlFlow, graph, IInv, Types, TypeOK, Cancelled, Yielding, States
<1>2. \A a \in Attempts : Live(worker[a]) => Outlived(a) \/ GivenUp(a)'
  BY DEF OnFailure, IInv, Confined, AwaitedFor, GivenUp
<1> QED
  BY <1>1, <1>2, CallerMoves DEF OnFailure

\* finally_agent, where the recorder takes the state over.
LEMMA FinallyPreserves == IInv /\ Finally => IInv'
<1> SUFFICES ASSUME IInv, Finally PROVE IInv'
  OBVIOUS
<1>1. Types' /\ Cancelled' /\ Yielding'
  BY DEF Finally, graph, IInv, Types, TypeOK, Cancelled, Yielding, States
<1>2. \A a \in Attempts : Live(worker[a]) => Outlived(a) \/ GivenUp(a)'
  BY DEF Finally, IInv, Confined, AwaitedFor, GivenUp
<1> QED
  BY <1>1, <1>2, CallerMoves DEF Finally

-----------------------------------------------------------------------------
(* The theorems.                                                           *)

\* Every step of an execution preserves the invariant.
LEMMA NextIInv == IInv /\ [Next]_vars => IInv'
<1> SUFFICES ASSUME IInv, [Next]_vars PROVE IInv'
  OBVIOUS
<1>1. CASE \E a \in Attempts : GraphStep(a)
  BY <1>1, GraphStepPreserves
<1>2. CASE CallerStep
  BY <1>2, BeforeAgentPreserves, EnterPreserves, AttemptEndsPreserves, DeadlinePreserves,
     RetryPreserves, ExitPreserves, OnFailurePreserves, FinallyPreserves DEF CallerStep
<1>3. CASE Cancel \/ PullItem \/ CloseStream
  BY <1>3, LeavingPreserves, PullItemPreserves
<1>4. CASE UNCHANGED vars
  <2>1. Types' /\ Confined' /\ InNode' /\ Cancelled' /\ Yielding'
    BY <1>4 DEF vars, graph, hooks, IInv, Types, TypeOK, Confined, InNode, Live, Outlived,
       AwaitedFor, GivenUp, Cancelled, Yielding, Streaming
  <2> QED
    BY <2>1 DEF IInv
<1> QED
  BY <1>1, <1>2, <1>3, <1>4 DEF Next

\* The invariant holds in every state of every execution.
LEMMA Inductive == Spec => []IInv
BY InitIInv, NextIInv, PTL DEF Spec

\* Types: whatever the number of nodes and retries, the attempt counter never
\* passes the policy's max_retries and no state outside the machine's is written.
THEOREM TypeCorrect == Spec => []TypeOK
<1>1. IInv => TypeOK
  BY DEF IInv, Types
<1> QED
  BY <1>1, Inductive, PTL

\* Two attempts of an execution never work at the same time, plain functions
\* under the async API apart.
THEOREM AttemptsExclusive == Spec => []OneAttemptAtATime
<1>1. IInv => OneAttemptAtATime
  BY DEF IInv, Confined, Outlived, AwaitedFor, GivenUp, OneAttemptAtATime
<1> QED
  BY <1>1, Inductive, PTL

\* After the answer only a sync execution's TIMEOUT leaves the attempt running,
\* and async ones at most the plain function that was being awaited.
THEOREM AnswerIsTheEnd == Spec => []NoWorkAfterTheAnswer
<1>1. IInv => NoWorkAfterTheAnswer
  BY DEF IInv, Confined, Outlived, AwaitedFor, GivenUp, NoWorkAfterTheAnswer
<1> QED
  BY <1>1, Inductive, PTL

\* A cancelled execution ends CANCELLED in ctx.state and in the trace, and no
\* error hook fires for it.
THEOREM CancellationClassified == Spec => []CancellationIsNoError
<1>1. IInv => CancellationIsNoError
  BY DEF IInv, Cancelled, CancellationIsNoError
<1> QED
  BY <1>1, Inductive, PTL

-----------------------------------------------------------------------------
(* The account an execution gives of itself: a second invariant, inductive *)
(* together with the first.                                                *)

\* An exception is on its way from the except clauses on, and not before.
Raised ==
  /\ pc \in {"failing", "escaped"} => exc # "none"
  /\ pc \in {"before", "enter", "attempt", "backoff", "yielded", "exit"} => exc = "none"

\* What a run of the graph cannot end with by itself.
Outs == \A a \in Attempts : worker[a].out \notin {"CancelledError", "GeneratorExit"}

\* The attempt the caller waits for has stopped for an approval.
Interrupted ==
  pc \in {"attempt", "yielded"} /\ Ended(worker[attempt]) /\ worker[attempt].out = "interrupt"

\* A pending interrupt is seen by the caller, and marked where it is looked for.
Marked ==
  exc = "none" =>
    /\ waiting => Interrupted \/ pc \in {"exit", "finally", "done"}
    /\ Interrupted => waiting
    /\ state = "WAITING_APPROVAL" => waiting
    /\ waiting /\ ~cfg.subgraphs /\ (Streaming \/ pc \in {"exit", "finally", "done"}) =>
         state = "WAITING_APPROVAL"

\* What the state says at each stage: only an engine writes RUNNING and how it ended.
Written ==
  /\ ~cfg.policy => state \notin {"RUNNING", "COMPLETED", "FAILED", "TIMEOUT"}
  /\ pc \in {"before", "enter"} => state = "CREATED"
  /\ pc \in {"attempt", "backoff"} /\ cfg.policy => state = "RUNNING"
  /\ state = "RUNNING" => \/ pc \in {"attempt", "backoff"}
                          \/ pc = "failing" /\ exc = "CancelledError"
  /\ state = "TIMEOUT" <=> (exc = "TimeoutException" /\ cfg.policy)
  /\ exc = "TimeoutException" /\ ~cfg.policy => state = "CREATED"
  /\ state = "CANCELLED" => exc = "CancelledError"
  /\ state = "FAILED" => exc # "none" /\ ~IsControlFlow(exc)
  /\ state = "COMPLETED" /\ exc # "none" =>
       exc \in Blocks \/ (exc = "CancelledError" /\ pc = "failing")

\* What the hooks were told.
Told ==
  /\ pc \in {"finally", "done"} /\ exc # "none" =>
       /\ errored <=> ~IsControlFlow(exc)
       /\ IsControlFlow(exc) => state \in {"CANCELLED", "WAITING_APPROVAL"}
  /\ pc = "done" => recorded = IF state # "CREATED" THEN state
                               ELSE IF errored THEN "FAILED" ELSE "COMPLETED"

Account == Raised /\ Outs /\ Marked /\ Written /\ Told

LEMMA InitAccount == Init => Account
<1> SUFFICES ASSUME Init PROVE Account
  OBVIOUS
<1> QED
  BY DEF Init, Account, Raised, Outs, Marked, Written, Told, Idle, Interrupted, IsControlFlow

\* A run of the graph: it is the attempt the caller waits for, unless the caller
\* is on its way out with an exception.
LEMMA GraphStepAccount ==
  ASSUME IInv, Account, NEW a \in Attempts, GraphStep(a)
  PROVE  Account'
<1> USE DEF CanRun, EndWorker
<1>1. /\ worker \in [Attempts -> WorkerStates] /\ cfg \in Configs
      /\ Live(worker[a]) /\ worker[a].at # "orphan" => (a = attempt /\ pc \in {"attempt", "yielded"})
                                                     \/ (exc = "TimeoutException" /\ ~Streaming)
      /\ pc = "yielded" => Streaming
      /\ attempt \in Attempts
  <2>1. cfg.api = "invoke" => ~Streaming
    BY DEF Streaming, StreamApis
  <2>2. cfg.retries \in 0..MaxRetries /\ attempt \in 0..cfg.retries
    BY ConfigFacts DEF IInv, Types, TypeOK
  <2>3. attempt \in Attempts
    BY <2>2, ExecutionAssumption DEF Attempts
  <2> QED
    BY <2>1, <2>3 DEF IInv, Types, TypeOK, Confined, Outlived, AwaitedFor, GivenUp, Yielding
<1>2. CASE OrphanActs(a)
  <2>1. UNCHANGED <<cfg, pc, state, attempt, waiting, exc, errored, recorded>>
        /\ worker' = [worker EXCEPT ![a] = Idle] /\ worker[a].at = "orphan"
    BY <1>2 DEF OrphanActs, hooks
  <2>2. Outs'
    BY <1>1, <2>1 DEF Account, Outs, Idle
  <2>3. Interrupted' <=> Interrupted
    BY <1>1, <2>1 DEF Interrupted, Ended, Idle
  <2> QED
    BY <2>1, <2>2, <2>3 DEF Account, Raised, Marked, Written, Told, Streaming
<1>3. CASE NodeInterrupts(a)
  <2>1. /\ UNCHANGED <<cfg, attempt, exc, errored, recorded>> /\ waiting' = TRUE
        /\ state' = IF Streaming /\ ~cfg.subgraphs THEN "WAITING_APPROVAL" ELSE state
        /\ pc' = IF Streaming THEN "yielded" ELSE pc
        /\ worker' = [worker EXCEPT ![a].at = "ended", ![a].out = "interrupt"]
        /\ Live(worker[a]) /\ worker[a].at # "orphan"
    BY <1>3 DEF NodeInterrupts, YieldItem, hooks, Live
  <2>2. Outs'
    BY <1>1, <2>1 DEF Account, Outs
  <2>3. CASE exc = "TimeoutException" /\ ~Streaming
    BY <2>1, <2>2, <2>3 DEF Account, Raised, Marked, Written, Told
  <2>4. CASE a = attempt /\ pc \in {"attempt", "yielded"}
    <3>1. pc' \in {"attempt", "yielded"} /\ exc = "none" /\ (pc' = "attempt" => pc = "attempt")
      BY <2>1, <2>4, <1>1 DEF Account, Raised
    <3>2. Interrupted'
      BY <1>1, <2>1, <2>4, <3>1 DEF Interrupted, Ended, WorkerStates
    <3>3. cfg.policy => ~Streaming
      BY <1>1, ConfigFacts
    <3>4. Marked'
      BY <1>1, <2>1, <3>1, <3>2 DEF Marked, Streaming
    <3>5. Written'
      BY <2>1, <2>4, <3>1, <3>3 DEF Account, Written, Streaming
    <3> QED
      BY <2>1, <2>2, <3>1, <3>4, <3>5 DEF Account, Raised, Told
  <2> QED
    BY <1>1, <2>1, <2>3, <2>4
<1>4. CASE ~OrphanActs(a) /\ ~NodeInterrupts(a)
  <2>1. /\ UNCHANGED <<cfg, state, attempt, waiting, exc, errored, recorded>>
        /\ pc' = pc \/ (Streaming /\ pc' = "yielded")
        /\ Live(worker[a]) /\ worker[a].at # "orphan"
    BY <1>4 DEF GraphStep, GraphLoadFails, GraphStarts, GraphResumes, NodeActs, NodeCompletes, NodeFails,
                GraphEnds, YieldItem, hooks, Live
  <2>2. /\ \A b \in Attempts \ {a} : worker'[b] = worker[b]
        /\ worker'[a].out \notin {"CancelledError", "GeneratorExit"}
        /\ ~(worker'[a].at = "ended" /\ worker'[a].out = "interrupt")
    <3>1. CASE GraphLoadFails(a)
      BY <1>1, <3>1 DEF GraphLoadFails, WorkerStates
    <3>2. CASE GraphStarts(a)
      BY <1>1, <3>2 DEF GraphStarts, WorkerStates, Account, Outs
    <3>3. CASE GraphResumes(a)
      BY <1>1, <3>3 DEF GraphResumes, WorkerStates, Account, Outs
    <3>4. CASE NodeActs(a) \/ NodeCompletes(a)
      BY <1>1, <3>4 DEF NodeActs, NodeCompletes, WorkerStates, Account, Outs
    <3>5. CASE NodeFails(a)
      BY <1>1, <3>5 DEF NodeFails, NodeFailures, WorkerStates
    <3>6. CASE GraphEnds(a)
      BY <1>1, <3>6 DEF GraphEnds, WorkerStates
    <3> QED
      BY <1>4, <3>1, <3>2, <3>3, <3>4, <3>5, <3>6 DEF GraphStep
  <2>3. Outs'
    BY <2>2 DEF Account, Outs
  <2>4. CASE exc = "TimeoutException" /\ ~Streaming
    BY <2>1, <2>3, <2>4 DEF Account, Raised, Marked, Written, Told
  <2>5. CASE a = attempt /\ pc \in {"attempt", "yielded"}
    <3>1. /\ pc' \in {"attempt", "yielded"} /\ exc = "none" /\ (pc' = "attempt" => pc = "attempt")
          /\ ~Interrupted' /\ ~Interrupted
      BY <2>1, <2>2, <2>5, <1>1 DEF Account, Raised, Interrupted, Ended, Live
    <3>2. cfg.policy => ~Streaming
      BY <1>1, ConfigFacts
    <3>3. Marked'
      BY <2>1, <2>5, <3>1 DEF Account, Marked
    <3>4. Written'
      BY <2>1, <2>5, <3>1, <3>2 DEF Account, Written, Streaming
    <3> QED
      BY <2>1, <2>3, <3>1, <3>3, <3>4 DEF Account, Raised, Told
  <2> QED
    BY <1>1, <2>1, <2>4, <2>5
<1> QED
  BY <1>2, <1>3, <1>4

\* The engine's except clause: an exception that is not retried leaves the
\* state it stands for.
LEMMA EngineAccount ==
  ASSUME IInv, Account, pc = "attempt", ~waiting, Outs', NEW e, EngineCatches(e),
         e \in Exceptions \ {"CancelledError"},
         UNCHANGED <<cfg, waiting, hooks>>
  PROVE  Account'
<1>1. exc = "none" /\ state # "WAITING_APPROVAL" /\ (cfg.policy => state = "RUNNING")
      /\ "none" \notin Exceptions
  BY DEF Account, Raised, Marked, Written, Exceptions, NodeFailures
<1>2. CASE pc' = "backoff" /\ UNCHANGED <<state, exc>> /\ cfg.policy
  BY <1>1, <1>2 DEF Account, Raised, Marked, Written, Told, Interrupted, hooks
<1>3. CASE /\ state' = IF ~cfg.policy THEN state
                       ELSE IF IsControlFlow(e) THEN "WAITING_APPROVAL"
                       ELSE IF e = "TimeoutException" THEN "TIMEOUT" ELSE "FAILED"
           /\ exc' = e /\ pc' = "failing"
  <2>1. Raised' /\ Marked' /\ Told'
    BY <1>1, <1>3 DEF Raised, Marked, Told
  <2>2. Written'
    <3>1. state \in States /\ cfg.policy \in BOOLEAN
      BY ConfigFacts DEF IInv, Types, TypeOK, Configs
    <3> QED
      BY <1>1, <1>3, <3>1 DEF Account, Written, IsControlFlow, States
  <2> QED
    BY <2>1, <2>2 DEF Account
<1> QED
  BY <1>2, <1>3 DEF EngineCatches, Raise

\* Ways for the caller to lose its workers.
LEMMA StopOuts ==
  ASSUME IInv, Account, UNCHANGED worker \/ StopWorker \/ CancelTask
  PROVE  Outs'
<1>1. worker \in [Attempts -> WorkerStates] /\ Outs
  BY DEF IInv, Types, TypeOK, Account
<1>2. CASE UNCHANGED worker
  BY <1>1, <1>2 DEF Outs
<1>3. CASE StopWorker
  BY <1>1, <1>3 DEF Outs, StopWorker, Idle
<1>4. CASE worker' = [worker EXCEPT ![attempt].at = "orphan"]
  BY <1>1, <1>4 DEF Outs, WorkerStates
<1> QED
  BY <1>2, <1>3, <1>4 DEF CancelTask

LEMMA CallerAccount ==
  ASSUME IInv, Account, CallerStep
  PROVE  Account'
<1>0. /\ cfg \in Configs /\ worker \in [Attempts -> WorkerStates] /\ attempt \in Attempts
      /\ cfg.policy => ~Streaming
      /\ cfg.timeout => cfg.policy
      /\ Streaming \/ ~cfg.subgraphs
  <2>1. cfg \in Configs /\ attempt \in 0..cfg.retries /\ worker \in [Attempts -> WorkerStates]
    BY DEF IInv, Types, TypeOK
  <2>2. Streaming \/ ~cfg.subgraphs
    BY <2>1 DEF Configs, Streaming
  <2>3. attempt \in Attempts
    BY <2>1, ConfigFacts, ExecutionAssumption DEF Attempts
  <2> QED
    BY <2>1, <2>2, <2>3, ConfigFacts
<1>1. CASE BeforeAgent
  BY <1>1 DEF BeforeAgent, Blocks, graph, Account, Raised, Outs, Marked, Written, Told, Interrupted,
              IsControlFlow, Streaming
<1>2. CASE Enter
  <2>1. exc = "none" /\ state = "CREATED" /\ ~waiting
    BY <1>2 DEF Enter, Account, Raised, Written, Marked, Interrupted
  <2>2. CASE /\ worker' = [worker EXCEPT ![0] = Started]
             /\ state' = IF cfg.policy THEN "RUNNING" ELSE state
             /\ pc' = "attempt" /\ UNCHANGED exc
    <3>1. Outs' /\ ~Interrupted'
      BY <1>0, <1>2, <2>2 DEF Enter, Account, Outs, Started, Interrupted, Ended, IInv, Types
    <3> QED
      BY <1>2, <2>1, <2>2, <3>1 DEF Enter, Account, Raised, Marked, Written, Told
  <2>3. CASE \E e \in Blocks : Raise(e) /\ UNCHANGED <<worker, state>>
    BY <1>2, <2>1, <2>3 DEF Enter, Raise, Blocks, Account, Raised, Outs, Marked, Written, Told,
                            IsControlFlow, hooks
  <2> QED
    BY <1>2, <2>2, <2>3 DEF Enter
<1>3. CASE AttemptReturns
  <2>1. exc = "none" /\ UNCHANGED <<cfg, worker, waiting, exc, errored, recorded>> /\ pc' = "exit"
        /\ (waiting <=> worker[attempt].out = "interrupt")
    BY <1>3 DEF AttemptReturns, graph, hooks, Account, Raised, Marked, Interrupted
  <2>2. Marked'
    BY <1>0, <1>3, <2>1 DEF AttemptReturns, Account, Marked, Interrupted, Streaming
  <2>3. Written'
    BY <1>0, <1>3, <2>1 DEF AttemptReturns, Account, Written
  <2> QED
    BY <2>1, <2>2, <2>3 DEF Account, Raised, Outs, Told
<1>4. CASE AttemptFails
  <2> DEFINE e == Translated(worker[attempt].out)
  <2>1. e \in Exceptions \ {"CancelledError"}
    BY <1>0, <1>4 DEF AttemptFails, Translated, Exceptions, NodeFailures, Account, Outs
  <2>2. ~waiting
    BY <1>4 DEF AttemptFails, Account, Raised, Marked, Interrupted, Exceptions, NodeFailures
  <2>3. Outs'
    BY <1>4, StopOuts DEF AttemptFails, graph
  <2> HIDE DEF e
  <2>4. EngineCatches(e) /\ UNCHANGED <<cfg, waiting, hooks>> /\ pc = "attempt"
    BY <1>4 DEF AttemptFails, graph, e
  <2> QED
    BY <2>1, <2>2, <2>3, <2>4, EngineAccount
<1>5. CASE Deadline
  <2>1. ~waiting
    BY <1>5 DEF Deadline, Live, Ended, Account, Raised, Marked, Interrupted
  <2>2. Outs'
    BY <1>5, StopOuts DEF Deadline
  <2>3. "TimeoutException" \in Exceptions \ {"CancelledError"}
    BY DEF Exceptions, NodeFailures
  <2> QED
    BY <1>0, <1>5, <2>1, <2>2, <2>3, EngineAccount DEF Deadline
<1>6. CASE Retry
  <2>1. exc = "none" /\ ~waiting
    BY <1>6 DEF Retry, Account, Raised, Marked, Interrupted
  <2>2. Outs' /\ ~Interrupted'
    <3>1. attempt + 1 \in Attempts
      BY <1>6, ConfigFacts, ExecutionAssumption DEF Retry, IInv, Types, TypeOK, Attempts
    <3> QED
      BY <1>0, <1>6, <3>1 DEF Retry, Account, Outs, Started, Interrupted, Ended
  <2> QED
    BY <1>6, <2>1, <2>2 DEF Retry, Account, Raised, Marked, Written, Told, hooks
<1>7. CASE Exit
  <2>1. exc = "none" /\ state # "RUNNING" /\ UNCHANGED <<cfg, state, worker, waiting, errored, recorded>>
    BY <1>7 DEF Exit, graph, hooks, Account, Raised, Written
  <2>2. CASE pc' = "finally" /\ UNCHANGED exc
    BY <1>7, <2>1, <2>2 DEF Exit, Account, Raised, Outs, Marked, Written, Told, Interrupted, Streaming
  <2>3. CASE \E e \in Blocks : Raise(e)
    BY <1>7, <2>1, <2>3 DEF Exit, Raise, Blocks, Account, Raised, Outs, Marked, Written, Told,
                            IsControlFlow
  <2> QED
    BY <1>7, <2>2, <2>3 DEF Exit
<1>8. CASE OnFailure
  BY <1>8 DEF OnFailure, IsControlFlow, Account, Raised, Outs, Marked, Written, Told, graph, Blocks
<1>9. CASE Finally
  BY <1>9 DEF Finally, Account, Raised, Outs, Marked, Written, Told, Interrupted, Streaming, graph
<1> QED
  BY <1>1, <1>2, <1>3, <1>4, <1>5, <1>6, <1>7, <1>8, <1>9 DEF CallerStep

\* A client that goes away, or asks for more.
LEMMA ClientAccount ==
  ASSUME IInv, Account, Cancel \/ PullItem \/ CloseStream
  PROVE  Account'
<1>1. cfg \in Configs /\ (pc = "yielded" => Streaming) /\ (cfg.policy => ~Streaming)
  BY ConfigFacts DEF IInv, Types, TypeOK, Yielding
<1>2. CASE Cancel
  <2>1. Outs'
    BY <1>2, StopOuts DEF Cancel
  <2>2. exc = "none" /\ exc' = "CancelledError" /\ pc' = "failing" /\ UNCHANGED <<cfg, state>>
        /\ pc \in {"enter", "attempt", "backoff", "exit"}
    BY <1>2 DEF Cancel, Raise, Account, Raised
  <2> QED
    BY <2>1, <2>2 DEF Account, Raised, Marked, Written, Told
<1>3. CASE PullItem
  BY <1>1, <1>3 DEF PullItem, graph, hooks, Account, Raised, Outs, Marked, Written, Told, Interrupted,
                    Streaming
<1>4. CASE CloseStream
  <2>1. Outs'
    BY <1>4, StopOuts DEF CloseStream
  <2>2. exc = "none" /\ exc' = "GeneratorExit" /\ pc' = "failing" /\ UNCHANGED <<cfg, state>>
        /\ ~cfg.policy
    BY <1>1, <1>4 DEF CloseStream, Raise, Account, Raised
  <2> QED
    BY <2>1, <2>2 DEF Account, Raised, Marked, Written, Told, IsControlFlow
<1> QED
  BY <1>2, <1>3, <1>4

LEMMA NextAccount == IInv /\ Account /\ [Next]_vars => Account'
<1> SUFFICES ASSUME IInv, Account, [Next]_vars PROVE Account'
  OBVIOUS
<1>1. CASE UNCHANGED vars
  BY <1>1 DEF vars, graph, hooks, Account, Raised, Outs, Marked, Written, Told, Interrupted, Streaming
<1> QED
  BY <1>1, GraphStepAccount, CallerAccount, ClientAccount DEF Next

LEMMA AccountHolds == Spec => []Account
BY InitIInv, NextIInv, InitAccount, NextAccount, PTL DEF Spec

\* Every API reports a run that stopped for an approval as waiting, in ctx.state and
\* in the trace, and no other run; a stream with subgraphs does not look.
THEOREM WaitingReported == Spec => []WaitingIsReported
<1>1. IInv /\ Account => WaitingIsReported
  <2> SUFFICES ASSUME IInv, Account, pc = "done", exc = "none", ~cfg.subgraphs
               PROVE  /\ waiting <=> state = "WAITING_APPROVAL"
                      /\ waiting <=> recorded = "WAITING_APPROVAL"
    BY DEF WaitingIsReported
  <2>1. waiting \in BOOLEAN
    BY DEF IInv, Types, TypeOK
  <2> QED
    BY <2>1 DEF Account, Marked, Told
<1> QED
  BY <1>1, Inductive, AccountHolds, PTL

\* The recorder's trace says how the execution went.
THEOREM TraceTruthful == Spec => []TraceIsTruthful
<1>1. Account => TraceIsTruthful
  <2> SUFFICES ASSUME Account, pc = "done" PROVE TraceIsTruthful
    BY DEF TraceIsTruthful
  <2>1. /\ recorded = IF state # "CREATED" THEN state
                      ELSE IF errored THEN "FAILED" ELSE "COMPLETED"
        /\ state # "RUNNING"
    BY DEF Account, Told, Written
  <2>2. /\ state = "TIMEOUT" <=> (exc = "TimeoutException" /\ cfg.policy)
        /\ state = "FAILED" => errored
    BY DEF Account, Told, Written
  <2>4. exc = "TimeoutException" /\ ~cfg.policy => recorded = "FAILED"
    BY <2>1 DEF Account, Told, Written, IsControlFlow
  <2>3. recorded = "COMPLETED" /\ exc # "none" => cfg.policy /\ exc \in Blocks
    BY <2>1 DEF Account, Told, Written
  <2> QED
    BY <2>1, <2>2, <2>3, <2>4 DEF TraceIsTruthful
<1> QED
  BY <1>1, AccountHolds, PTL

-----------------------------------------------------------------------------
(* The progress that is saved.                                             *)

\* Once the input is saved nobody begins with it again, and a run that is in a node
\* or ahead of one has everything saved that comes before.
Progress ==
  /\ thread = "current" =>
       /\ cfg.checkpointer /\ pc \notin {"before", "enter"}
       /\ worker[0].at # "loading"
  /\ \A a \in Attempts :
       /\ worker[a].at = "loading" => worker[a].node = 1
       /\ cfg.checkpointer /\ worker[a].at \in {"ready", "effected"} =>
            thread = "current" /\ worker[a].node = saved + 1

\* At most one run is on its way, the latest, and the caller has begun it.
LEMMA Latest ==
  ASSUME IInv, NEW a \in Attempts, worker[a].at \in {"loading", "ready", "effected"}
  PROVE  a = attempt /\ pc \notin {"before", "enter", "backoff", "exit"}
  BY DEF IInv, Confined, Live, Outlived, AwaitedFor, GivenUp

LEMMA InitProgress == Init => Progress
  BY DEF Init, Progress, Idle

\* A run of the graph saves a node when the ones before it are saved.
LEMMA GraphStepProgress ==
  ASSUME IInv, Progress, NEW a \in Attempts, GraphStep(a)
  PROVE  Progress'
<1>1. /\ worker \in [Attempts -> WorkerStates] /\ saved \in Nat /\ NodeCount \in Nat
      /\ 0 \in Attempts
  BY ExecutionAssumption DEF IInv, Types, TypeOK, Attempts
<1>2. \A b \in Attempts \ {a} : worker'[b] = worker[b]
  BY <1>1 DEF GraphStep, GraphLoadFails, GraphStarts, GraphResumes, NodeActs, NodeCompletes,
     NodeFails, NodeInterrupts, GraphEnds, OrphanActs, EndWorker
<1>3. UNCHANGED cfg /\ (pc' = pc \/ pc' = "yielded")
  BY DEF GraphStep, GraphLoadFails, GraphStarts, GraphResumes, NodeActs, NodeCompletes,
     NodeFails, NodeInterrupts, GraphEnds, OrphanActs, YieldItem
<1>4. CASE UNCHANGED <<thread, saved>> /\ worker'[a].at \notin {"loading", "ready", "effected"}
  BY <1>1, <1>2, <1>3, <1>4 DEF Progress
<1>5. CASE GraphLoadFails(a) \/ NodeFails(a) \/ NodeInterrupts(a) \/ GraphEnds(a) \/ OrphanActs(a)
  <2>1. UNCHANGED <<thread, saved>> /\ worker'[a].at \notin {"loading", "ready", "effected"}
    BY <1>1, <1>5 DEF GraphLoadFails, NodeFails, NodeInterrupts, GraphEnds, OrphanActs, EndWorker,
       Idle, WorkerStates
  <2> QED BY <1>4, <2>1
<1>6. CASE GraphStarts(a)
  <2>1. /\ worker[a].at = "loading" /\ a = attempt /\ pc \notin {"before", "enter"}
        /\ worker'[a].at = "ready" /\ worker'[a].node = 1
    BY <1>1, <1>6, Latest DEF GraphStarts, CanRun, WorkerStates, Progress
  <2>2. \A b \in Attempts \ {a} : worker[b].at \notin {"loading", "ready", "effected"}
    BY <2>1, Latest
  <2>3. CASE cfg.checkpointer
    <3>1. a = 0 /\ thread' = "current" /\ saved' = 0
      BY <1>6, <2>3 DEF GraphStarts, RetryPayload
    <3> QED BY <1>1, <1>2, <1>3, <2>1, <2>2, <2>3, <3>1 DEF Progress
  <2>4. CASE ~cfg.checkpointer
    BY <1>1, <1>2, <1>3, <1>6, <2>1, <2>4 DEF Progress, GraphStarts
  <2> QED BY <2>3, <2>4
<1>7. CASE GraphResumes(a)
  <2>1. UNCHANGED <<thread, saved>>
    BY <1>7 DEF GraphResumes
  <2>2. CASE thread = "current" /\ worker' = [worker EXCEPT ![a].at = "ready", ![a].node = saved + 1]
    <3>1. worker'[a].at = "ready" /\ worker'[a].node = saved + 1
      BY <1>1, <2>2 DEF WorkerStates
    <3> QED BY <1>1, <1>2, <1>3, <2>1, <2>2, <3>1 DEF Progress
  <2>3. CASE EndWorker(a, "ok") \/ EndWorker(a, "EmptyInputError")
    <3>1. worker'[a].at = "ended"
      BY <1>1, <2>3 DEF EndWorker, WorkerStates
    <3> QED BY <1>4, <2>1, <3>1
  <2> QED BY <1>7, <2>2, <2>3 DEF GraphResumes
<1>8. CASE NodeActs(a)
  <2>1. /\ UNCHANGED <<thread, saved>> /\ worker[a].at = "ready"
        /\ worker'[a].at = "effected" /\ worker'[a].node = worker[a].node
    BY <1>1, <1>8 DEF NodeActs, CanRun, WorkerStates
  <2> QED BY <1>1, <1>2, <1>3, <2>1 DEF Progress
<1>9. CASE NodeCompletes(a)
  <2>1. /\ UNCHANGED thread /\ worker[a].at = "effected" /\ worker[a].node \in Nat
        /\ worker'[a].at = "ready" /\ worker'[a].node = worker[a].node + 1
        /\ saved' = IF cfg.checkpointer THEN worker[a].node ELSE saved
    BY <1>1, <1>9 DEF NodeCompletes, CanRun, WorkerStates
  <2>2. \A b \in Attempts \ {a} : worker[b].at \notin {"loading", "ready", "effected"}
    BY <2>1, Latest
  <2> QED BY <1>1, <1>2, <1>3, <2>1, <2>2 DEF Progress
<1> QED BY <1>5, <1>6, <1>7, <1>8, <1>9 DEF GraphStep

\* The caller saves nothing; it begins a run with the input as its first attempt,
\* and others when no run is on its way.
LEMMA CallerProgress ==
  ASSUME IInv, Progress, CallerStep \/ Cancel \/ PullItem \/ CloseStream
  PROVE  Progress'
<1>1. /\ worker \in [Attempts -> WorkerStates] /\ 0 \in Attempts
      /\ attempt \in Attempts /\ UNCHANGED <<cfg, thread, saved>>
  BY ConfigFacts, ExecutionAssumption DEF IInv, Types, TypeOK, Attempts, CallerStep, BeforeAgent,
     Enter, AttemptReturns, AttemptFails, Deadline, Retry, Exit, OnFailure, Finally, Cancel,
     PullItem, CloseStream, graph
<1>2. CASE Enter
  <2>1. pc = "enter" /\ pc' # "before" /\ UNCHANGED <<thread, saved>>
    BY <1>2 DEF Enter, Raise
  <2>2. \/ UNCHANGED worker
        \/ worker' = [worker EXCEPT ![0] = Started] /\ pc' = "attempt"
    BY <1>2 DEF Enter
  <2> QED BY <1>1, <2>1, <2>2 DEF Progress, Started
<1>3. CASE Retry
  <2>1. attempt + 1 \in Attempts /\ attempt + 1 # 0
    BY <1>3, ConfigFacts, ExecutionAssumption DEF Retry, IInv, Types, TypeOK, Attempts
  <2>2. worker' = [worker EXCEPT ![attempt + 1] = Started] /\ pc' = "attempt"
    BY <1>3 DEF Retry
  <2> QED BY <1>1, <2>1, <2>2 DEF Progress, Started
<1>4. CASE ~Enter /\ ~Retry
  <2>1. pc' \in {"before", "enter"} => pc \in {"before", "enter"}
    BY <1>4 DEF CallerStep, BeforeAgent, AttemptReturns, AttemptFails, Deadline, EngineCatches, Exit,
       OnFailure, Finally, Cancel, PullItem, CloseStream, Raise
  <2>2. \A a \in Attempts :
          worker'[a] = worker[a] \/ worker'[a].at \notin {"loading", "ready", "effected"}
    BY <1>1, <1>4 DEF CallerStep, BeforeAgent, AttemptReturns, AttemptFails, Deadline, Exit,
       OnFailure, Finally, Cancel, PullItem, CloseStream, CancelTask, StopWorker, Idle, graph,
       WorkerStates
  <2> QED BY <1>1, <2>1, <2>2 DEF Progress
<1> QED BY <1>2, <1>3, <1>4

LEMMA NextProgress == IInv /\ Progress /\ [Next]_vars => Progress'
<1> SUFFICES ASSUME IInv, Progress, [Next]_vars PROVE Progress'
  OBVIOUS
<1>1. CASE UNCHANGED vars
  BY <1>1 DEF vars, graph, Progress
<1> QED
  BY <1>1, GraphStepProgress, CallerProgress DEF Next

\* With a checkpointer a retry resumes behind what is saved: it neither gives it up
\* nor repeats its side effects.
THEOREM RetriesKeepProgress == Spec => ProgressKept
<1>1. ASSUME IInv, Progress, [Next]_vars, thread = "current"
      PROVE  saved' >= saved /\ (~cfg.blocking => \A n \in 1..saved : effects'[n] = effects[n])
  <2>1. /\ worker \in [Attempts -> WorkerStates] /\ saved \in Nat /\ effects \in [Nodes -> Nat]
        /\ cfg.checkpointer /\ worker[0].at # "loading"
        /\ \A a \in Attempts : worker[a].at \in {"ready", "effected"} => worker[a].node = saved + 1
        /\ \A a \in Attempts : worker[a].at = "orphan" => cfg.blocking
        /\ 1..saved \subseteq Nodes
    BY <1>1, ExecutionAssumption DEF IInv, Types, TypeOK, InNode, Progress, Nodes
  <2>2. CASE UNCHANGED <<saved, effects>>
    BY <2>1, <2>2
  <2>3. ASSUME NEW a \in Attempts, NodeActs(a)
        PROVE  saved' = saved /\ \A n \in 1..saved : effects'[n] = effects[n]
    BY <2>1, <2>3 DEF NodeActs, CanRun
  <2>4. ASSUME NEW a \in Attempts, NodeCompletes(a)
        PROVE  saved' = saved + 1 /\ UNCHANGED effects
    BY <2>1, <2>4 DEF NodeCompletes, CanRun
  <2>5. ASSUME NEW a \in Attempts, OrphanActs(a)
        PROVE  saved' = saved /\ cfg.blocking
    BY <2>1, <2>5 DEF OrphanActs
  <2>6. ASSUME NEW a \in Attempts, GraphStarts(a)
        PROVE  FALSE
    BY <2>1, <2>6 DEF GraphStarts, CanRun, RetryPayload
  <2>7. ASSUME NEW a \in Attempts, GraphStep(a), ~NodeActs(a), ~NodeCompletes(a), ~OrphanActs(a),
               ~GraphStarts(a)
        PROVE  UNCHANGED <<saved, effects>>
    BY <2>7 DEF GraphStep, GraphLoadFails, GraphResumes, NodeFails, NodeInterrupts, GraphEnds
  <2>8. ASSUME CallerStep \/ Cancel \/ PullItem \/ CloseStream \/ UNCHANGED vars
        PROVE  UNCHANGED <<saved, effects>>
    BY <2>8 DEF CallerStep, BeforeAgent, Enter, AttemptReturns, AttemptFails, Deadline, Retry, Exit,
       OnFailure, Finally, Cancel, PullItem, CloseStream, graph, vars
  <2> QED BY <1>1, <2>1, <2>2, <2>3, <2>4, <2>5, <2>6, <2>7, <2>8 DEF Next
<1>2. IInv /\ Progress /\ [Next]_vars =>
        [thread = "current" => /\ saved' >= saved
                               /\ ~cfg.blocking => \A n \in 1..saved : effects'[n] = effects[n]]_vars
  BY <1>1
<1> QED
  BY <1>2, InitIInv, NextIInv, InitProgress, NextProgress, PTL DEF Spec, ProgressKept

=============================================================================
