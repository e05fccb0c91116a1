--------------------------- MODULE AgentExecution ---------------------------
(***************************************************************************)
(* One execution of an agent: BaseGraph.invoke / ainvoke / stream /        *)
(* astream (klafi/core/base_graph.py) around the retry-and-timeout engine  *)
(* (klafi/runtime/engine.py) and its policy (klafi/runtime/policy.py), with *)
(* the checkpointed run of the graph underneath and the execution recorder *)
(* (klafi/server/recorder.py) watching.                                    *)
(*                                                                         *)
(* The graph is a chain of nodes 1..NodeCount.  An attempt of the engine   *)
(* runs it in a worker: the caller itself, a task that wait_for cancels    *)
(* (async), or a pool thread that nobody can stop (sync with a timeout).   *)
(* How LangGraph loads, resumes and saves a thread is modelled from how    *)
(* this code relies on it and is marked external.                          *)
(***************************************************************************)
EXTENDS Naturals, FiniteSets

CONSTANTS
  NodeCount,   \* nodes of the graph, run in order
  MaxRetries   \* the largest max_retries of a policy

ASSUME ExecutionAssumption ==
  /\ NodeCount \in Nat \ {0}
  /\ MaxRetries \in Nat

VARIABLES
  cfg,        \* which API is called, under which policy, with a checkpointer or not
  pc,         \* where the caller is in invoke()
  state,      \* ctx.state
  attempt,    \* the engine's attempt counter
  worker,     \* what each attempt's run of the graph is doing
  thread,     \* what the checkpointer holds for the thread: nothing, an earlier
              \* finished run, or the run of this execution's input
  saved,      \* nodes whose completion is saved for this execution's input
  waiting,    \* whether an interrupt is pending on the thread
  effects,    \* how often the side effect of each node has happened
  exc,        \* the exception that ends the execution, or "none"
  opened,     \* whether the observing hooks' before_agent ran
  errored,    \* whether on_agent_error fired
  closed,     \* whether finally_agent fired
  recorded    \* the state the recorder's finished run shows, or "none"

graph == <<worker, thread, saved, waiting, effects>>
hooks == <<opened, errored, closed, recorded>>
vars == <<cfg, pc, state, attempt, graph, exc, hooks>>

-----------------------------------------------------------------------------
(* Calls, policies, exceptions.                                             *)

Nodes == 1..NodeCount
Attempts == 0..MaxRetries

States == {"CREATED", "RUNNING", "WAITING_APPROVAL", "COMPLETED",
           "FAILED", "CANCELLED", "TIMEOUT"}

SyncApis == {"invoke", "stream"}
StreamApis == {"stream", "astream"}
Apis == {"invoke", "ainvoke"} \cup StreamApis

\* Streams are not run by the engine: no policy applies to them.  blocking: the
\* nodes are plain functions, which the async API runs in executor threads.
\* subgraphs: the stream is asked for with subgraphs=True.
Configs ==
  {c \in [api : Apis, policy : BOOLEAN, timeout : BOOLEAN, retries : Attempts,
          checkpointer : BOOLEAN, blocking : BOOLEAN, subgraphs : BOOLEAN] :
     /\ c.api \in StreamApis => ~c.policy
     /\ ~c.policy => ~c.timeout /\ c.retries = 0
     /\ c.blocking => c.api \in {"ainvoke", "astream"}
     /\ c.subgraphs => c.api \in StreamApis}

Sync == cfg.api \in SyncApis
Streaming == cfg.api \in StreamApis

\* Ways a node can fail: a transient fault, any other agent error, a bug in the
\* node, a guardrail's block, a deadline of the node's own, klafi's
\* TimeoutException from the policy of a tool or a model that the node uses (they
\* run under the same engine), LangGraph's control flow.
NodeFailures == {"ConnectionError", "AgentException", "ValueError", "GuardrailException",
                 "TimeoutError", "TimeoutException", "GraphBubbleUp"}

Exceptions == NodeFailures \cup {"EmptyInputError", "CancelledError", "GeneratorExit"}

IsControlFlow(e) == e \in {"CancelledError", "GraphBubbleUp"}

\* ConnectionError and TimeoutError are OSErrors, hence in no_retry_on.
NoRetryOn == {"GuardrailException", "ValueError", "ConnectionError", "TimeoutError"}

\* Faulty variant: the attempt counter is compared one too late.
ShouldRetryOnceMore(e, a) ==
  /\ a <= cfg.retries
  /\ e = "ConnectionError" \/ e \notin NoRetryOn

ShouldRetry(e, a) ==
  /\ a < cfg.retries
  /\ e = "ConnectionError" \/ e \notin NoRetryOn

\* _timeout_sync / _timeout_async: under a timeout every TimeoutError becomes
\* the engine's TimeoutException, the node's own included; a TimeoutException is
\* no TimeoutError and passes as it is.
Translated(e) == IF cfg.timeout /\ e = "TimeoutError" THEN "TimeoutException" ELSE e

\* Faulty variant: a retry passes the original input again.
RetryPayloadInput(a) == "input"

\* What attempt a passes to the graph: the input, or None to resume.
RetryPayload(a) == IF a = 0 \/ ~cfg.checkpointer THEN "input" ELSE "resume"

-----------------------------------------------------------------------------
(* Workers.                                                                 *)

WorkerStates ==
  [at : {"none", "loading", "ready", "effected", "orphan", "ended"},
   node : 1..(NodeCount + 1),
   out : Exceptions \cup {"none", "ok", "interrupt"}]

Idle == [at |-> "none", node |-> 1, out |-> "none"]
Started == [at |-> "loading", node |-> 1, out |-> "none"]

Live(w) == w.at \in {"loading", "ready", "effected", "orphan"}
Ended(w) == w.at = "ended"

\* The worker of attempt a ends with out.
EndWorker(a, out) == worker' = [worker EXCEPT ![a].at = "ended", ![a].out = out]

\* The run is unwound.
StopWorker == worker' = [worker EXCEPT ![attempt] = Idle]

\* The task of the run is cancelled.  That ends the await of a node, but not the
\* executor thread in which a plain function is running.
CancelTask ==
  \/ StopWorker
  \/ /\ cfg.blocking
     /\ worker[attempt].at = "ready" /\ worker[attempt].node \in Nodes
     /\ worker' = [worker EXCEPT ![attempt].at = "orphan"]

-----------------------------------------------------------------------------
Init ==
  /\ cfg \in Configs
  /\ pc = "before"
  /\ state = "CREATED"
  /\ attempt = 0
  /\ worker = [a \in Attempts |-> Idle]
  /\ thread \in IF cfg.checkpointer THEN {"empty", "previous"} ELSE {"empty"}
  /\ saved = 0
  /\ waiting = FALSE
  /\ effects = [n \in Nodes |-> 0]
  /\ exc = "none"
  /\ opened = FALSE /\ errored = FALSE /\ closed = FALSE /\ recorded = "none"

-----------------------------------------------------------------------------
(* The graph's run, step by step (LangGraph under the checkpointer).        *)

\* A worker goes on except while a suspended generator waits for its consumer.
CanRun(a, at) == worker[a].at = at /\ pc # "yielded"

\* The first thing a run does is to ask the checkpointer, which may be down.
GraphLoadFails(a) ==
  /\ CanRun(a, "loading")
  /\ cfg.checkpointer
  /\ EndWorker(a, "ConnectionError")
  /\ UNCHANGED <<cfg, pc, state, attempt, thread, saved, waiting, effects, exc, hooks>>

\* A run with an input saves that input and begins with the first node.
GraphStarts(a) ==
  /\ CanRun(a, "loading")
  /\ RetryPayload(a) = "input"
  /\ worker' = [worker EXCEPT ![a].at = "ready"]
  /\ IF cfg.checkpointer
     THEN thread' = "current" /\ saved' = 0
     ELSE UNCHANGED <<thread, saved>>
  /\ UNCHANGED <<cfg, pc, state, attempt, waiting, effects, exc, hooks>>

\* A run without input goes on where the thread stands: after its last saved
\* node, at once to the end if it is finished, nowhere if there is nothing.
GraphResumes(a) ==
  /\ CanRun(a, "loading")
  /\ RetryPayload(a) = "resume"
  /\ \/ thread = "current" /\ worker' = [worker EXCEPT ![a].at = "ready", ![a].node = saved + 1]
     \/ thread = "previous" /\ EndWorker(a, "ok")
     \/ thread = "empty" /\ EndWorker(a, "EmptyInputError")
  /\ UNCHANGED <<cfg, pc, state, attempt, thread, saved, waiting, effects, exc, hooks>>

\* A node runs: its side effect is out before anything is saved.
NodeActs(a) ==
  /\ CanRun(a, "ready")
  /\ worker[a].node \in Nodes
  /\ worker' = [worker EXCEPT ![a].at = "effected"]
  /\ effects' = [effects EXCEPT ![worker[a].node] = @ + 1]
  /\ UNCHANGED <<cfg, pc, state, attempt, thread, saved, waiting, exc, hooks>>

\* A streamed execution hands every finished step to its consumer.
YieldItem == pc' = IF Streaming THEN "yielded" ELSE pc

NodeCompletes(a) ==
  /\ CanRun(a, "effected")
  /\ worker' = [worker EXCEPT ![a].at = "ready", ![a].node = @ + 1]
  /\ saved' = IF cfg.checkpointer THEN worker[a].node ELSE saved
  /\ YieldItem
  /\ UNCHANGED <<cfg, state, attempt, thread, waiting, effects, exc, hooks>>

NodeFails(a) ==
  /\ CanRun(a, "effected")
  /\ \E e \in NodeFailures : EndWorker(a, e)
  /\ UNCHANGED <<cfg, pc, state, attempt, thread, saved, waiting, effects, exc, hooks>>

\* A human approval is asked for: the run ends with a pending interrupt.  In a
\* stream, _StreamGate.feed marks the state when the update passes by, unless it
\* passes everything through.
NodeInterrupts(a) ==
  /\ CanRun(a, "effected")
  /\ cfg.checkpointer
  /\ EndWorker(a, "interrupt")
  /\ waiting' = TRUE
  /\ state' = IF Streaming /\ ~cfg.subgraphs THEN "WAITING_APPROVAL" ELSE state
  /\ YieldItem
  /\ UNCHANGED <<cfg, attempt, thread, saved, effects, exc, hooks>>

GraphEnds(a) ==
  /\ CanRun(a, "ready")
  /\ worker[a].node \notin Nodes
  /\ EndWorker(a, "ok")
  /\ UNCHANGED <<cfg, pc, state, attempt, thread, saved, waiting, effects, exc, hooks>>

\* The thread of a cancelled node does its work all the same; the result is dropped.
OrphanActs(a) ==
  /\ worker[a].at = "orphan"
  /\ effects' = [effects EXCEPT ![worker[a].node] = @ + 1]
  /\ worker' = [worker EXCEPT ![a] = Idle]
  /\ UNCHANGED <<cfg, pc, state, attempt, thread, saved, waiting, exc, hooks>>

GraphStep(a) ==
  \/ GraphLoadFails(a)
  \/ GraphStarts(a)
  \/ GraphResumes(a)
  \/ NodeActs(a)
  \/ NodeCompletes(a)
  \/ NodeFails(a)
  \/ NodeInterrupts(a)
  \/ GraphEnds(a)
  \/ OrphanActs(a)

-----------------------------------------------------------------------------
(* The caller.                                                              *)

\* What a hook or a before/after pipeline may raise to stop an execution: a
\* guardrail's block, or any other exception of theirs, whatever its class.
Blocks == {"GuardrailException", "AgentException"}

\* before_agent runs ahead of the try: if a fail-close hook raises there, the
\* exception leaves invoke() past on_agent_error and finally_agent.
BeforeAgent ==
  /\ pc = "before"
  /\ \/ opened' = TRUE /\ pc' = "enter" /\ UNCHANGED exc
     \/ opened' \in BOOLEAN /\ pc' = "escaped" /\ exc' \in Blocks
  /\ UNCHANGED <<cfg, state, attempt, graph, errored, closed, recorded>>

\* An exception inside the try: on to its except clause.
Raise(e) == exc' = e /\ pc' = "failing"

\* The @klafi_graph before pipeline, then the first attempt.
Enter ==
  /\ pc = "enter"
  /\ \/ /\ worker' = [worker EXCEPT ![0] = Started]
        /\ state' = IF cfg.policy THEN "RUNNING" ELSE state
        /\ pc' = "attempt"
        /\ UNCHANGED exc
     \/ \E e \in Blocks : Raise(e) /\ UNCHANGED <<worker, state>>
  /\ UNCHANGED <<cfg, attempt, thread, saved, waiting, effects, hooks>>

\* Faulty variant: __interrupt__ in the result is not looked at.
AttemptReturnsUnmarked ==
  /\ pc = "attempt"
  /\ Ended(worker[attempt]) /\ worker[attempt].out \in {"ok", "interrupt"}
  /\ state' = IF cfg.policy THEN "COMPLETED" ELSE state
  /\ pc' = "exit"
  /\ UNCHANGED <<cfg, attempt, graph, exc, hooks>>

\* The engine reports COMPLETED; _mark_interrupt_state corrects it.
AttemptReturns ==
  /\ pc = "attempt"
  /\ Ended(worker[attempt]) /\ worker[attempt].out \in {"ok", "interrupt"}
  /\ state' = IF worker[attempt].out = "interrupt" /\ ~Streaming THEN "WAITING_APPROVAL"
              ELSE IF cfg.policy THEN "COMPLETED" ELSE state
  /\ pc' = "exit"
  /\ UNCHANGED <<cfg, attempt, graph, exc, hooks>>

\* Faulty variant: the sync engine retries a timeout like any other failure.
EngineCatchesRetrying(e) ==
  \/ /\ cfg.policy /\ ~IsControlFlow(e) /\ ShouldRetry(e, attempt)
     /\ pc' = "backoff"
     /\ UNCHANGED <<state, exc>>
  \/ /\ ~cfg.policy \/ IsControlFlow(e) \/ ~ShouldRetry(e, attempt)
     /\ state' = IF ~cfg.policy THEN state
                 ELSE IF IsControlFlow(e) THEN "WAITING_APPROVAL"
                 ELSE IF e = "TimeoutException" THEN "TIMEOUT" ELSE "FAILED"
     /\ Raise(e)

\* The except clause of run_sync and run_async; without a policy there is none.
EngineCatches(e) ==
  LET retried == /\ cfg.policy
                 /\ ~IsControlFlow(e)
                 /\ ~(Sync /\ e = "TimeoutException")
                 /\ ShouldRetry(e, attempt)
  IN  \/ retried /\ pc' = "backoff" /\ UNCHANGED <<state, exc>>
      \/ /\ ~retried
         /\ state' = IF ~cfg.policy THEN state
                     ELSE IF IsControlFlow(e) THEN "WAITING_APPROVAL"
                     ELSE IF e = "TimeoutException" THEN "TIMEOUT" ELSE "FAILED"
         /\ Raise(e)

AttemptFails ==
  /\ pc = "attempt"
  /\ Ended(worker[attempt]) /\ worker[attempt].out \in Exceptions
  /\ EngineCatches(Translated(worker[attempt].out))
  /\ UNCHANGED <<cfg, attempt, graph, hooks>>

\* Faulty variant: the async engine stops waiting without cancelling the task.
DeadlineUncancelled ==
  /\ pc = "attempt"
  /\ cfg.timeout /\ Live(worker[attempt])
  /\ UNCHANGED worker
  /\ EngineCatches("TimeoutException")
  /\ UNCHANGED <<cfg, attempt, thread, saved, waiting, effects, hooks>>

\* Faulty variant: one deadline around all attempts, used up by the first.
DeadlineOnce ==
  /\ pc = "attempt" /\ attempt = 0
  /\ cfg.timeout /\ Live(worker[attempt])
  /\ IF Sync THEN UNCHANGED worker ELSE CancelTask
  /\ EngineCatches("TimeoutException")
  /\ UNCHANGED <<cfg, attempt, thread, saved, waiting, effects, hooks>>

\* The policy's timeout: async cancels the task; sync only stops waiting and
\* leaves the pool thread running.
Deadline ==
  /\ pc = "attempt"
  /\ cfg.timeout /\ Live(worker[attempt])
  /\ IF Sync THEN UNCHANGED worker ELSE CancelTask
  /\ EngineCatches("TimeoutException")
  /\ UNCHANGED <<cfg, attempt, thread, saved, waiting, effects, hooks>>

\* The backoff is over.
Retry ==
  /\ pc = "backoff"
  /\ attempt' = attempt + 1
  /\ worker' = [worker EXCEPT ![attempt + 1] = Started]
  /\ pc' = "attempt"
  /\ UNCHANGED <<cfg, state, thread, saved, waiting, effects, exc, hooks>>

\* The client of an async execution is gone while it awaits something.
Cancel ==
  /\ ~Sync
  /\ pc \in {"enter", "attempt", "backoff", "exit"}
  /\ CancelTask
  /\ Raise("CancelledError")
  /\ UNCHANGED <<cfg, state, attempt, thread, saved, waiting, effects, hooks>>

\* The consumer of a stream takes the next item ...
PullItem ==
  /\ pc = "yielded"
  /\ pc' = "attempt"
  /\ UNCHANGED <<cfg, state, attempt, graph, exc, hooks>>

\* ... or closes the generator, which is suspended at its yield.
CloseStream ==
  /\ pc = "yielded"
  /\ StopWorker
  /\ Raise("GeneratorExit")
  /\ UNCHANGED <<cfg, state, attempt, thread, saved, waiting, effects, hooks>>

\* The @klafi_graph after pipeline and the after_agent hooks; a stream with
\* subgraphs has collected no final state to run them on.
Exit ==
  /\ pc = "exit"
  /\ \/ pc' = "finally" /\ UNCHANGED exc
     \/ ~cfg.subgraphs /\ \E e \in Blocks : Raise(e)
  /\ UNCHANGED <<cfg, state, attempt, graph, hooks>>

\* Faulty variant: a cancellation is handled like any other exception.
OnFailureUnclassified ==
  /\ pc = "failing"
  /\ state' = IF exc = "GraphBubbleUp" THEN "WAITING_APPROVAL" ELSE state
  /\ errored' = (exc # "GraphBubbleUp")
  /\ pc' = "finally"
  /\ UNCHANGED <<cfg, attempt, graph, exc, opened, closed, recorded>>

\* The except clause of invoke(): cancellation and interrupt are no errors.
OnFailure ==
  /\ pc = "failing"
  /\ state' = CASE exc = "CancelledError" -> "CANCELLED"
                [] exc = "GraphBubbleUp" -> "WAITING_APPROVAL"
                [] OTHER -> state
  /\ errored' = ~IsControlFlow(exc)
  /\ pc' = "finally"
  /\ UNCHANGED <<cfg, attempt, graph, exc, opened, closed, recorded>>

\* Faulty variant: the recorder does not look at the run's error.
FinallyIgnoringError ==
  /\ pc = "finally"
  /\ closed' = TRUE
  /\ recorded' = IF state # "CREATED" THEN state ELSE "COMPLETED"
  /\ pc' = "done"
  /\ UNCHANGED <<cfg, state, attempt, graph, exc, opened, errored>>

\* finally_agent; the recorder closes its run.
Finally ==
  /\ pc = "finally"
  /\ closed' = TRUE
  /\ recorded' = IF state # "CREATED" THEN state
                 ELSE IF errored THEN "FAILED" ELSE "COMPLETED"
  /\ pc' = "done"
  /\ UNCHANGED <<cfg, state, attempt, graph, exc, opened, errored>>

\* What the caller's thread or task does of itself.
CallerStep ==
  \/ BeforeAgent
  \/ Enter
  \/ AttemptReturns
  \/ AttemptFails
  \/ Deadline
  \/ Retry
  \/ Exit
  \/ OnFailure
  \/ Finally

Next ==
  \/ \E a \in Attempts : GraphStep(a)
  \/ CallerStep
  \/ Cancel
  \/ PullItem
  \/ CloseStream

\* The caller is scheduled and its deadline expires; nothing is assumed of the
\* nodes, of the checkpointer, or of a stream's consumer.
Fairness == WF_vars(CallerStep)

Spec == Init /\ [][Next]_vars
FairSpec == Spec /\ Fairness

-----------------------------------------------------------------------------
(* Properties.                                                             *)

Finished == pc \in {"done", "escaped"}

TypeOK ==
  /\ cfg \in Configs
  /\ pc \in {"before", "enter", "attempt", "backoff", "yielded", "exit",
             "failing", "finally", "done", "escaped"}
  /\ state \in States
  /\ attempt \in 0..cfg.retries
  /\ worker \in [Attempts -> WorkerStates]
  /\ thread \in {"empty", "previous", "current"}
  /\ saved \in 0..NodeCount
  /\ waiting \in BOOLEAN
  /\ effects \in [Nodes -> Nat]
  /\ exc \in Exceptions \cup {"none"}
  /\ opened \in BOOLEAN /\ errored \in BOOLEAN /\ closed \in BOOLEAN
  /\ recorded \in States \cup {"none"}

\* Two attempts of one execution never run at the same time, although nobody
\* can stop the thread of a sync attempt that has timed out.  Plain functions
\* under the async API are the exception: their threads outlive the task.
OneAttemptAtATime ==
  \A a, b \in Attempts : Live(worker[a]) /\ Live(worker[b]) => a = b \/ cfg.blocking

\* With a checkpointer, what is saved of this input is never given up, and no
\* retry repeats the side effect of a node whose completion has been saved.
ProgressKept ==
  [][thread = "current" =>
       /\ saved' >= saved
       /\ ~cfg.blocking => \A n \in 1..saved : effects'[n] = effects[n]]_vars

\* Once the caller has its answer no node runs any more, except in the pool
\* thread of a sync execution that ended in TIMEOUT and, with plain functions
\* under the async API, the function that was running when the task was cancelled.
\* (The thread of a tool that exceeded the tool's own timeout is no run of a node;
\* the model leaves it out.)
NoWorkAfterTheAnswer ==
  \A a \in Attempts :
    pc \in {"exit", "failing", "finally", "done", "escaped"} /\ Live(worker[a]) =>
      \/ cfg.api = "invoke" /\ cfg.timeout /\ exc = "TimeoutException" /\ state = "TIMEOUT"
      \/ cfg.blocking /\ worker[a].at = "orphan"

\* A run that stopped for an approval is reported as waiting, in ctx.state and
\* in the trace, by every API and with or without a policy; and nothing else is.
\* Streams with subgraphs=True are the exception, their items are not looked at.
WaitingIsReported ==
  pc = "done" /\ exc = "none" /\ ~cfg.subgraphs =>
    /\ waiting <=> state = "WAITING_APPROVAL"
    /\ waiting <=> recorded = "WAITING_APPROVAL"

\* What the recorder shows is how the execution went: it is settled; TIMEOUT
\* stands for a TimeoutException that ended the run of the graph under a policy,
\* of the policy's own timeout or of a tool's or model's within a node (without a
\* policy, and so in every stream, the same exception is FAILED); FAILED for a
\* reported error; and COMPLETED for an execution without an exception, but for
\* one that the output side blocked after the engine had written COMPLETED.
TraceIsTruthful ==
  pc = "done" =>
    /\ recorded \notin {"CREATED", "RUNNING"}
    /\ recorded = "TIMEOUT" <=> (exc = "TimeoutException" /\ cfg.policy)
    /\ exc = "TimeoutException" /\ ~cfg.policy => recorded = "FAILED"
    /\ recorded = "FAILED" => errored
    /\ recorded = "COMPLETED" /\ exc # "none" => cfg.policy /\ exc \in Blocks

\* An execution the client cancelled counts as CANCELLED everywhere, whatever
\* the engine or an earlier attempt had written, and is never an error.
CancellationIsNoError ==
  pc = "done" /\ exc = "CancelledError" =>
    state = "CANCELLED" /\ recorded = "CANCELLED" /\ ~errored

\* Under a timeout every invoke and ainvoke ends, even if a node or the
\* checkpointer hangs forever in each of the attempts.
TimeoutBoundsExecution ==
  cfg.timeout ~> Finished

\* base_graph.py:325 says that a client that goes away does not count as an
\* error.  Violated by a consumer that closes the stream between two items.
ClosingIsNoError ==
  pc = "done" /\ exc \in {"CancelledError", "GeneratorExit"} => ~errored

\* http.py:290 says that a timeout on the async path really cancels.  Violated
\* with plain functions as nodes: the attempt that timed out is still at work
\* while the next one runs.
TimeoutCancels ==
  cfg.api = "ainvoke" => \A a \in Attempts : a < attempt => ~Live(worker[a])

\* _retry_payload says that a retry goes on from this execution's progress and
\* that without a state to resume the input is passed again.  Violated when the
\* first attempt fails before its input is saved.
CompletedMeansProcessed ==
  pc = "done" /\ exc = "none" /\ ~waiting => \A n \in Nodes : effects[n] > 0

=============================================================================
