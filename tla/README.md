# Verification of KLAFI

TLA+ specifications of [KLAFI](../src), a Python framework for agents on top of
LangGraph, the TLC configurations that check them on small instances, and TLAPS
proofs that hold for every instance. Paths of the program below
are relative to `src/klafi/`.

```
tlc -workers 2 -config ConcurrencyLimiter.cfg MCConcurrencyLimiter.tla
tlc -workers 2 -config AgentExecution.cfg AgentExecution.tla
tlc -workers 2 -config Approval.cfg MCApproval.tla
tlc -workers 2 -config Observation.cfg MCObservation.tla
tlc -workers 2 -config ModelGateway.cfg ModelGateway.tla
tlc -workers 2 -config Conversation.cfg MCConversation.tla
tlc -workers 2 -config Platform.cfg MCPlatform.tla
tlapm ConcurrencyLimiterProofs.tla
tlapm AgentExecutionProofs.tla
tlapm ApprovalProofs.tla
tlapm ObservationProofs.tla
tlapm ModelGatewayProofs.tla
tlapm PlatformProofs.tla
tlapm GuardrailsProofs.tla
tlapm ConversationProofs.tla
```

`PROJECT.json` lists components, runs, mutants, findings, hazards and theorems,
and maps every definition to the lines it models.

## 1. Inventory of the system

An agent is a declaration (nodes, edges, hooks, guardrails, policy) that
`core/graph.py` turns into a LangGraph graph. `BaseGraph.invoke` and its async
and streaming twins run that graph once, through `ExecutionEngine` when the
agent has a policy, under the hooks of the application. The HTTP server exposes
agents behind a backpressure middleware and records what they do. A node may
stop an execution to ask a human; a later request resumes it with the decision.

| Component | State it keeps | Operations | What makes it correct |
|---|---|---|---|
| Concurrency limiter `server/concurrency.py` | a global semaphore and one per agent; per request the semaphores taken and a released flag | acquire both, 429, release with the last chunk or in `finally` | no slot lost or returned twice; caps respected; 429 only when really full |
| Agent execution `core/base_graph.py` | `ctx.state`, the attempt's payload, the stream gate | `invoke`, `ainvoke`, `stream`, `astream`; pipelines and agent hooks around them | state, hooks, answer and trace agree for every way to end |
| Engine and policy `runtime/` | attempt counter, worker thread or task | `run_sync`, `run_async`, `should_retry`, backoff | no two attempts at once, bounded duration, finished work not repeated |
| Human approval `hitl/approval.py` | `_announced`, a FIFO of ids, per process | `request_approval`, `resume_approval` | every decision belongs to a request; an approval is good for one task |
| HTTP server `server/http.py` | none of its own | invoke, resume, stream, thread and execution endpoints | only waiting threads are resumed |
| Execution recorder `server/recorder.py` | runs and their rows (bounded), timers of open calls | before/after/error hooks, `ModelCalled` subscription, `get`, `list` | a run shows what happened; rows belong to their calls |
| Server registry, web UI `server/registry.py`, `webui.py` | agents by id | register, lookup | what is served is on record |
| Hooks and node pipeline `core/hook.py`, `node.py`, `middleware.py`, `logging_hook.py` | hook lists, fail-open or fail-close | onion around nodes, models and tools | every end is told to whoever was told of the beginning, failures go where the mode says |
| Graph declaration `core/graph.py`, `spec.py`, `hookdefs.py` | none at run time | decorators, compile | declarations reach the stream gate and the hooks |
| Context, exceptions `core/context.py`, `exceptions.py` | a `ContextVar` | current context, classification | control flow is told apart from errors |
| Guardrails `guardrail/base.py`, `binding.py` | bound validators per stage | enforce, mask, bind | order and severity decide, masking is passed on |
| LLM guardrails `guardrail/llm.py` | re-entrancy flag, verdict cache | judge | only the judge's own traffic is let through, a verdict comes from an answer |
| Model gateway `model/gateway.py`, `callback.py` | models and fallback table | `_invoke`, `chat_fallbacks` | fallback terminates, each model asked at most once |
| Providers `model/providers.py` | vendor clients | build | — |
| Tools, skills `tool/` | tool table | `Tool.run`: permission, validation, hooks, policy, events | one end for each beginning, in the right words |
| MCP sessions `tool/mcp.py` | a loop thread, one holding task per session | open, call, close, with timeouts | nobody waits for ever; what `close` is asked to end is ended or given up |
| Checkpointers, stores `context/checkpoint.py`, `memory.py` | LangGraph savers | put, get, list | — (adapters) |
| Context manager `context/manager.py`, `hook.py` | summary cache (bounded) | reduce, summarise | the cut is at a human turn, nothing important is lost |
| Events `events/` | subscribers | publish | subscribers are isolated |
| Control plane `registry/` | records by name and version | register, transition | what is in production was approved |
| Application, factory `app/`, `runtime/factory.py` | policy, caps, hooks of each agent | `create`, `register`, `http_app` | an agent runs under the policy its configuration states |
| Configuration `config/layered.py` | layers | merge | later layers win, key by key |
| Observability `observability/` | span table | open, close | every opened span closes |
| Evaluation `evaluation/` | — | score | — |
| Templates `templates/` | loop counter of the supervisor | route | bounded number of hand-offs |

### How the components interact

* HTTP server → limiter → endpoint → `BaseGraph` → engine → LangGraph → nodes.
  Calls go down; exceptions come up and are classified twice, in the engine and
  in `BaseGraph`, each of which writes `ctx.state`.
* The agent hooks (recorder, spans, events) see an execution only through
  `before_agent`, `on_agent_error` and `finally_agent`; the recorder reads
  `ctx.state` at the end, whoever wrote it last.
* A node and the HTTP server share the *thread* (conversation) through the
  checkpointer, and nothing else; `_announced` is shared by all nodes of a
  process.
* Threads of control: event loop tasks, executor threads for plain functions,
  the pool threads of sync timeouts, the loop thread of MCP.

### What is hard

Requests interleave on the semaphores and on `_announced`; a timed-out sync
attempt goes on in a thread nobody can stop; a retry resumes from what happens
to be saved; an interrupt is first an ordinary result (or an exception) and must
become a state; a client may disappear at any await or between two items of a
stream; a node that asked for approval runs again from its start; the adapter or
the node fails between two steps; a restart forgets the process's memory but not
the threads. `hazards` in `PROJECT.json` lists these at their lines with the
properties that cover them, and the ones that no property covers yet.

## 2. Modules

| Module | Models | Checked by | Proofs |
|---|---|---|---|
| `ConcurrencyLimiter` | `server/concurrency.py` | `MCConcurrencyLimiter` | `ConcurrencyLimiterProofs` |
| `Admission` | what the limiter promises (abstract) | through `ImplementsAdmission` | `ConcurrencyLimiterProofs` |
| `AgentExecution` | `core/base_graph.py` (executions), `runtime/engine.py`, `runtime/policy.py`, the recorder's run | itself, four configurations | `AgentExecutionProofs` |
| `Approval` | `hitl/approval.py`, resume endpoints of `server/http.py` | `MCApproval`, three configurations | `ApprovalProofs` |
| `Hooks` | `core/hook.py`, `core/node.py`, `core/middleware.py`: operators | through `Observation` | `ObservationProofs` |
| `Observation` | what hooks, events, spans and the recorder are told of an execution | `MCObservation` | `ObservationProofs` |
| `ModelGateway` | `model/gateway.py`, `guardrail/llm.py` | itself | `ModelGatewayProofs` |
| `Guardrails` | `guardrail/base.py`, `guardrail/binding.py`, `context/manager.py`: operators | through `Conversation` | `GuardrailsProofs` |
| `Subsequences` | what a loop keeps of a list: two operators for `Guardrails` and `ModelGateway` | through these | `GuardrailsProofs` |
| `StreamGate` | `_StreamGate` of `core/base_graph.py`, stream lines of `server/http.py`: operators | through `Conversation` | — |
| `Conversation` | turns of an agent with tools, guardrail, context hook and stream | `MCConversation` | `ConversationProofs` |
| `McpSessions` | `tool/mcp.py` | `MCPlatform` | — |
| `LayeredConfig` | `config/layered.py`, `runtime/policy.py`: operators | through `ControlPlane` | `PlatformProofs` |
| `ControlPlane` | `app/application.py`, `runtime/factory.py` and `_init_policy` of `core/base_graph.py`, `registry/`, `server/registry.py` | `MCPlatform` | `PlatformProofs` |
| `Platform` | `McpSessions` and `ControlPlane` as a bootstrap composes them | `MCPlatform` | `PlatformProofs` |

A definition named *faulty variant* in a comment is not part of a specification:
it is the definition after it with a plausible mistake, and shows that a
property would notice the mistake.

### ConcurrencyLimiter

`pc[r]` is where the handler of connection `r` is in `__call__`, `acquired` and
`released` are its locals of the same names, `value` the counters of the
semaphores. `toRelease` is what is left of a running `for s in acquired:
s.release()`, so that other requests come between any two semaphore operations:
the code uses `threading.BoundedSemaphore` and its tests call it from several
threads. `Arrive` chooses method, endpoint and agent, so that the pattern of
counted paths is part of the model. A release comes with the last chunk
(`SendLastChunk`), from the rejection (`RejectGlobal`, `RejectAgent`) and from
the `finally` clause (`AppEnds`: return, exception and disconnect alike).

`Admission` states the promise without semaphores: `inside` and the agent each
request names. A request enters in one step if the server and its agent have
room, and leaves. The refinement maps `inside` to the requests running the
application with their slots and `target` to `agent`.

### AgentExecution

One call of one of the four APIs. `cfg` is the call and its policy, `pc` the
place in `invoke()`, `state` is `ctx.state`, `attempt` the engine's counter. Each
attempt's run of the graph is a `worker` of its own that steps through the
nodes: under `ainvoke` with a timeout it is a task (cancellation stops it, but
not a plain function already running in an executor thread, `orphan`); under
`invoke` with a timeout it is a pool thread that goes on after the caller stopped
waiting. `thread`, `saved` and `waiting` are what the checkpointer holds, and
`effects` counts how often each node's side effect happened. `opened`, `errored`,
`closed`, `recorded` are what the agent hooks and the recorder saw.

* An action of the caller is a stretch of `invoke` between two places where it
  waits or may raise: `BeforeAgent`, `Enter` (before pipeline, first attempt),
  `AttemptReturns`, `AttemptFails` and `Deadline` (the engine's three ways out of
  an attempt, with `should_retry`), `Retry`, `Exit` (after pipeline and hooks),
  `OnFailure` (the `except` clause), `Finally`. `Cancel` and `CloseStream` are a
  client that goes away.
* An attempt passes the input the first time and `None` afterwards when there is
  a checkpointer (`RetryPayload`, `_retry_payload`).
* A hook that fails closed in `before_agent` runs ahead of the `try`: the
  exception leaves `invoke` past the error hooks (`pc = "escaped"`).
* Stream items are the updates of finished nodes; tokens in the middle of a node
  are not modelled, so a stream is closed only between nodes. Cancellation is
  cooperative, at the awaits.
* A node fails with each kind of exception that is classified differently, among them
  klafi's `TimeoutException` from the policy of a tool or a model that the node uses:
  the engine records it as TIMEOUT like its own, and without a policy it is a failure.
* Backoff delays and the length of a timeout are not measured: a deadline may
  pass at any moment of an attempt.

### Approval

Requests `r` (invoke, rerun with no input, `POST .../resume`, and the Python API
`resume_approval`) run on threads whose graph has one node that asks and then
acts. An approval id is `<<thread, task>>`: the digest of the code depends on the
place in the thread's history, action and payload, which are the same for every
execution of one task and different for different tasks. `request_approval` is
one action per operation on shared state (`Asking`, `MakeRoom`, `Evict`, `Mark`,
`Announce`, `Push`, `Interrupt`, `Decide`), because nodes run in executor threads without a
lock around `_announced`: another execution of the task finds the entry (`Mark`) before
its event is out (`Announce`). `CheckPending` is `_pending_interrupts` of the server,
`Load` what the run reads afterwards.

History variables: `asked` and `decided` are the `ApprovalRequested` and
`ApprovalCompleted` events with their audit lines, `unsaid` the ids whose entry was
made when a restart cut off the event, `pushed` and `refused` the calls of the adapter, `effects` what the node did, `approvals` the approving
decisions clients sent.

### Hooks and Observation

`Hooks` holds the order and the errors of callbacks: `AgentHooks` is the list the
class, the factory, the application and `hooks.yaml` make together, `Chain` the
enabled ones with the global ones by priority, `Fire` one callback along the
chain in either direction: who has run, and who stopped it. `ChainAssumption` of
`Observation` states the order of the hooks its actions know, from the priorities of
their classes; TLC computes it from the declarations by `resolve_hooks`. A hook that is not
fail-open stops the callback and the call; a fail-open one that raises is skipped.
`NodeFunction` is the wrapper of `@klafi_node`.

`Observation` runs executions with calls of nodes, tools and models under that
chain. `pc[c]` is where a call is in `run_hooked`, `Tool.run` or the model's
callbacks. A step is one callback along the chain, or one section under the
recorder's lock: `_finish` and `_add` are two sections, so that `NodeFinish` and
`NodeRow`, `ToolFail` and `ToolFailed`, `BoundaryAfter` and `BoundaryRow` may have
another call between them. `timer` and `errors` are `_open` and `_errors` of the
recorder, `runs` is `_runs`; `told` and `agentTold` are the events on the bus with,
among them, the on_error middlewares; `spans` are the open spans. What the
subclasses of `Hook` do at a callback is written into the action of the callback.
Ghosts remember which calls overlapped, whose run was evicted, and how many
`ModelCalled` events there were. `state` is `ctx.state` of an
execution without a policy: `FailureState` is what `_on_failure` writes, `ResultState`
the mark of an interrupted node's result, and `FinalState` what the recorder makes of
it. What a policy's engine writes is AgentExecution's subject.

### ModelGateway

A request is a frame on `stack`; judging a prompt pushes the judge's own request on
the same gateway. `path` tells the two ways to a model apart: `gateway.model`, which
follows fallbacks in `_invoke` and after errors of the provider only, and the chat
model, whose chain `ChatFallbacks` computes beforehand and whose `with_fallbacks`
goes on after any exception. `Chain` is what the loop of `chat_fallbacks` runs
through, said without the loop: the longest of the `Walks` along the fallbacks that come
to no alias twice. `_invoke` has no chain in the model either, only `seen` and the
fallback of the alias that failed (`NextOf`). `verdicts` is the `lru_cache` of the guardrail, `waved`
remembers that a text passed because its judge failed. All fallback tables,
one alias missing or none, and both settings of `on_error` are initial states.
`on_ambiguous` has its default, the severity of a violation, which is BLOCK. Calls
from several threads share the cache only; two threads that judge one text at
the same time do no more than one after the other without cache.

### Guardrails, StreamGate and Conversation

`Guardrails` has, as operators, `Effective` (severity, replacement and `warn_only`
together), `TailStart` and `Enforce` (which messages a guardrail looks at and what
becomes of them) and `ContextManager.reduce` (`Cut`, `Old`, `Rest`, `WithSummary`).
`StreamGate` is the filter of `stream` and `astream`: `Gate` its constructor, `Feed` its
`feed`, with `HeldBack` and `Structured` for what the completion of a node adds, `Chunk`
what `_final_ai_chunk` leaves of a message (content and id), `Through` one item more in the
loop of `stream`, `HasLine` what `_stream_line` makes a line of.

`Conversation` puts them together: a user's input, an agent node, a ToolNode, turn
after turn. A message is a record with its id, role, whether it has a text, whether it offends and
whether it is marked important; the policy is "what offends". `history` is the thread,
`view` what the model is asked with. `Input` is `before_agent` with the guardrail in
front of the agent, `AgentNode` the entry of the node (`ContextHook`, then the node's
before pipeline), `Model` its function and after pipeline, `Extract` the same with an
output contract, `ModelFails` a node that fails behind its tokens and may be tried
again, `Tools` and `ToolBlocked` the ToolNode, `Output` the output side, which changes
neither the thread nor what was sent. `gate` and `sent` are the stream. The
contract of the agent node names the key of its value or has it found; `Valued` is the
value of an update, a number of its own for each, and 0 for a Command that passes without one;
`returned` counts the values of a turn.
Every message counts for one token; a masked message does not offend any more.

### McpSessions, LayeredConfig, ControlPlane and Platform

`McpSessions` has four kinds of threads: `boot` (`connect_mcp`), the loop's thread with
one task `session[s]` for each server (`hold`), `closer` (`close()`), and the callers of
tools. Waiting with a timeout is two actions: what was waited for has come
(`BootGets`, `CloseGets`, `CallEnds`), or the wait is given up and what was waited for
goes on (`BootLoses`, `CloseGivesUp`, `CallGivesUp`).

In `LayeredConfig` a configuration is the set of its leaves with their paths, so that
`deep_merge` is a set expression (`Merge`). An empty mapping is a leaf of its own,
because it leaves what it overrides as it is, where any other value replaces it.
`IsLayer` is what a file can say: a mapping, in which no leaf is above another one, and
whose policy is a mapping or null. `None` is no policy: `FromConfig` answers it for a
configuration without one, `MergePolicy` merges over it.

`ControlPlane` is `app.register` in three steps (`RegisterBegin`, `RegisterRecord`,
`RegisterServe`), `server.register` of an agent that the developer made, which
`runtime/factory.py` advises for the templates it cannot make (`ServeDirectly`), `http_app`, and `transition` statement by statement
(`TransitionCheck`, `TransitionWrite`, `TransitionDate`, `TransitionSave`): the in-memory
store hands out its records, so that operators change one object, and a
registration may put another object in its place meanwhile. `Create` passes an agent the
platform's policy with its config.yaml merged over it; `InitPolicy` is `_init_policy`, which
reads the `spec.config` of the class when it is passed none. `served` remembers what was
stated for an agent and how it came to be served.

`Platform` composes both as the bootstrap of `examples/support_platform` does: a
package that uses MCP tools connects while it is imported, on the thread that
registers agents, and is registered without tools when that fails.

### LangGraph

LangGraph (pinned to 1.2.11 in `uv.lock`) is not part of `src/`. Its behaviour
is taken from how the code uses it and is the only external part of the model:

* a run with an input saves the input first; a run with `None` continues after
  the last saved node, returns at once for a finished thread, and raises
  `EmptyInputError` for an empty one;
* a node's result is saved when the node completes, hence not when it raises;
* an interrupt ends the run with a pending interrupt on the thread, and the node
  is executed from its beginning when the thread is resumed;
* a decision is stored with the checkpoint it was sent to, so that a later
  execution of the same task finds it; new input starts a task without one;
* two runs of one thread do not exclude each other;
* a stream gives a node's tokens, then its update, then the state, in the modes
  that were asked for; `with_fallbacks` asks the next model after any exception.

## 3. Runs

All bounds are constants of the configurations. The longest runs,
`observation`, `conversation` and `platform`, take about a minute and a half with two workers.

| Run | Distinct states | Question |
|---|---|---|
| `limiter` | 17,025 | does the middleware keep its caps and its slots, and implement atomic admission? |
| `execution` | 94,614 | do state, hooks, trace and side effects agree for every API, policy and failure? |
| `execution_closing` | — | is a consumer that closes a stream no error? (no) |
| `execution_timeout_cancels` | — | does an async timeout really cancel? (no, for plain functions) |
| `execution_completed` | — | does COMPLETED mean that the input was processed? (no) |
| `approval` | 1,516,056 | do requests, decisions and effects belong together under interleaving, failure and restart? |
| `approval_requested_once` | — | is a request handed over once per id? (no) |
| `approval_resumes` | — | does a resume run only what was waiting when it was let in? (no) |
| `observation` | 1,159,051 | do rows, times, tokens, spans and events tell what happened? |
| `gateway` | 342,270 | are models asked in order and for judged texts only, and does every request end? |
| `conversation` | 1,038,833 | is everything looked at, the view whole, and the stream what was kept? |
| `platform` | 124,997 | is what is served governed and approved, and do boot and close end? |

**`limiter`**: three connections, two agents, a global cap of 2, agent `a1`
capped at 1, `a2` not capped. One request more than the global cap, two more than
the agent's: every rejection, the give-back of a global slot, and the unlimited
scope happen. A connection carries one request after the other, so that lost
slots would accumulate. No symmetry, as the run checks liveness.
*SlotAccounting* relates each counter to the requests that hold its slots,
*CapsRespected* the running requests to the caps, *RejectionsJustified* a 429 to
what the others hold at that moment, *SlotsReturned* says that a slot taken comes
back, *ImplementsAdmission* that the whole is atomic admission.

**`execution`**: two nodes, so that one may be saved when the other fails, and up
to two retries, so that a retry of a retry exists; all APIs, all policies, a
thread that is empty or holds an earlier run.
*OneAttemptAtATime* and *NoWorkAfterTheAnswer* are about threads that nobody can
stop, *ProgressKept* about what a retry repeats, *WaitingIsReported*,
*TraceIsTruthful* and *CancellationIsNoError* about the three writers of one
state and their reader (a trace shows TIMEOUT exactly for a `TimeoutException` under a policy,
whoever raised it), *TimeoutBoundsExecution* about nodes that hang.

**`approval`**: two requests at a time on two threads, a FIFO of one entry (1024
in the code; full with the first request, so that evictions, the race of two
evictions and overfilling occur), three requests sent, one failure, one restart.
Threads and requests are symmetric; no liveness is checked here.
*DecisionsHaveRequests* and *OneTaskPerApproval* are the audit's promise (the former with
the window between an entry and its event, which another execution may overtake),
*WaitingWasPushed* says that nobody waits for a request that no approver could
have seen unless the adapter failed, *RepeatsOnlyIfForgotten* that deduplication
works for an id until it is forgotten, *UnknownThreadsNotStarted* that the 409 check
holds although it races with other requests.

**`observation`**: two calls of any kinds in two executions, so that calls of one
tool, of one model or of a node and a tool overlap, within an execution and across
two, and the recorder has room for one run, so that a run is evicted while it is
under way and opened anew by a late event. In each callback no hook raises, or the
outermost (the guardrail), or the innermost (the application's), or a fail-open one in the
middle. `BystandersBegin` in `MCObservation` lets an execution without calls only begin, which
evicts a run; what evictions do to a run that is still under way is seen with a call in each
execution. `FailuresGoOn` does not follow calls beyond an interrupt or a cancellation of their graph: what
they do is what they do after a failure. Calls and executions are symmetric; there is no liveness in this run.
*CallsAreRecorded* and *RunsTellTheEnd* are what the playground shows (with or without an
interrupt, in every way to end), *TimesAreOwn* and
*TokensAreCounted* what the shared timers and the late attachment of `ModelCalled` leave of
it, *SpansAreClosed* and *EndsAreTold* what observers rely on for each way to end.

**`gateway`**: three aliases, which allow cycles of length one, two and three and a
tail that leads into a cycle, two requests one after the other, so that the
second finds the first one's verdict, one text and a short one, one retry.
*AsksFollowTheChain* relates what was asked, on either path, to the chain of the
fallback table, *BlocksAreFinal* is about what must not go on, *OnlySafeTextsAreAsked*
says that no way around the judge exists but the ones the code states,
*VerdictsAreAnswers* that a failing judge is asked again by the next request, and
*RequestsEnd* that neither cycles nor judging inside of judging go on for ever.

**`conversation`**: threads of five messages with one that offends and one that is
important, a threshold of two, `keep_recent` of 0 (which keeps no unimportant message), 1 and 2;
every place and severity of the guardrail, every way to stream. That is enough for
an answer with two tool results to lie across the cut, and for a turn after a
blocked one. What a stream shows depends on the node's declaration and on the
guardrail behind it only; `StreamsAreShort` in `MCConversation` combines streams with
these alone, in threads of four messages, of two when nothing is filtered, and leaves
contracts and messages without a text to streams. Severities that come to the same with
`warn_only` or without are told apart in threads of four.
*AskedWasLookedAt* says that looking at the tail is enough, and names the three
exceptions; *OffencesAreHandled* is about `warn_only`, replacements and misspelt
severities; *PairsStayTogether* and *ViewsAreComplete* are what a provider and a reader
need of a shortened conversation; *StreamsShowWhatWasKept* is the gate's promise: every
guarded message once, as its content and id, and every structured value once.

**`platform`**: two servers, one with a timeout for its tools, one calling thread;
two agents in two versions, two registrations and two operators; five contents of
each layer, an empty mapping and null in the place of a policy among them; an agent's policy
in its config.yaml, in its class or passed by its developer, one without a setting that is
modelled among them.
Sessions, policies and the records of each version have no variable in common;
`Apart` in `MCPlatform` leaves out the states in which two of them have left their
initial values, and moves the records of one version only, since they are
interchangeable. A session that has moved goes with at most one registration, and layered
configurations, policies of classes and agents served directly with one registration of
version 1 of the agent that does not wait for sessions, before `http_app`; an agent served
before is not registered again when the layers say something. *ServedAreGoverned*
compares each setting an agent runs with to its config.yaml, to the last layer that states it,
written without `Merge`, and to its class where neither states a policy; *ProductionWasApproved* holds
although two operators overtake each other and a registration replaces the record
in between; *WaitsEnd* says that nobody who waits for a server with a timeout waits for ever.

Deadlock is not checked in `execution`, `observation` and `platform` (executions, and
what was asked of the platform, end), nor in `approval`, `conversation` and `gateway`
(clients need not send anything more). It is checked in `limiter`.

### Fairness

* Limiter: every handler goes on (`WF` on its steps). That the application ends
  is an assumption about agents: `SlotsReturned` and the fairness of `Admission`
  rest on it. The code gives no bound without a policy timeout.
* Execution: only the caller is fair, and a deadline that can expire does.
  Nothing is assumed of nodes, checkpointer, client or stream consumer.
* Gateway: a call goes on (`WF` on the steps of the gateway together): providers
  answer, fail or run into their policy's timeout. Which of them is free.
* Platform: the thread that boots, the one that closes, and the timeout of a call
  go on, step by step (`WF` of each). Nothing is assumed of the servers and of the
  tasks on the loop, which may hang: that is what the timeouts are for.
* Approval, observation, conversation: none.

## 4. What does not hold

Each of these runs checks one statement of the repository and shows how the code
departs from it; the quotations are in `findings`.

1. `ClosingIsNoError` (`core/base_graph.py:332`): a client that goes away is not
   an error, says the comment. A consumer that closes the generator between two
   items raises `GeneratorExit`, which is not in the list of control flow: the
   trace shows FAILED.
2. `TimeoutCancels` (`runtime/engine.py:79`, `server/http.py:290`): with plain
   functions as nodes the task is cancelled and the function goes on; the retry
   runs beside it, which the sync engine forbids for this very reason.
3. `CompletedMeansProcessed` (`core/base_graph.py:169`): a first attempt that
   fails before its input is saved leaves the retry to resume the thread's
   *earlier* run; its result is returned as COMPLETED for the new input.
4. `RequestedOnce` (`hitl/approval.py:106`): a full FIFO forgets a request that
   still waits, and the resume announces it a second time.
5. `ResumesFindPending` (`server/http.py:307`): the thread moves on between the
   check and the run; the decision then answers a request nobody has seen.

Two more behaviours are in the model and are allowed by the properties as
stated: an execution whose output side blocks *after* the engine wrote COMPLETED
is recorded as COMPLETED although it raised (`TraceIsTruthful` names the
exception), and observers of an execution whose `before_agent` fails closed never
see it end (`pc = "escaped"`). `OneTaskPerApproval` speaks of tasks and not of
effects because a decision sent twice, or a node that fails after its side
effect, repeats the effect within one task.

Other properties name their exceptions too, where the code has them:

* A hook that refuses an execution in `before_agent` leaves the recorder's run
  without an end and the span open (`RunsTellTheEnd`, `SpansAreClosed`); one inside
  of TracingHook that refuses a node leaves the node's span open.
* An overlapping call of the same tool or model, or one stopped earlier, lends a row
  its start (`TimesAreOwn`); tokens may be another call's (`TokensAreCounted`).
* A tool whose result a hook rejects is announced and never told to have ended, and an
  interrupt inside of a tool is told as its failure (`EndsAreTold`); a row may show
  success for what the guardrail then rejected (`CallsAreRecorded`).
* A chat model goes on to its fallback after a guardrail has blocked
  (`BlocksAreFinal` speaks of the other path); the fallback is judged again.
* A message that came in ahead of another one of the same input, and tool results
  behind the one that blocked an earlier turn, are never looked at in front of the
  node (`AskedWasLookedAt`). `keep_recent = 0` is excluded there: the view then holds
  important messages only.
* A decision may be completed ahead of its request's event, by an execution of the task that
  finds the entry another one has just made, and without it if a restart comes in between
  (`DecisionsHaveRequests`).
* Streams with subgraphs pass the gate unfiltered; a guarded message arrives as a chunk of its
  content and id, without the calls it makes; a Command that passes a contract without the key
  it names is shown as a structured item without a value (`StreamsShowWhatWasKept`).
* An agent registered after `http_app` has no cap of its own at the middleware, and one registered
  again without a cap keeps the old one. An agent handed to `server.register` directly has no
  record and no cap, and runs with the policy it was made with or that of its class, whatever the
  layers say (`ServedAreGoverned`).
* The policy in the `spec.config` of an agent's class is not read once the platform states any
  policy, though `runtime/policy.py:4` wants the more specific one to go first: the factory passes
  the platform's as an argument (`ServedAreGoverned` says when the class is asked).
* A registration of a version that exists puts its record back into development;
  a transition that was under way saves the former record over it
  (`ProductionWasApproved` holds nevertheless).
* When boot fails, sessions that are open and the loop's thread stay; a call that was
  given up goes on.

## 5. Proofs

TLAPS proves the following for every value of the constants. Every theorem is
about the specification the runs check; each invariant of a proof was checked
with TLC on the run's instance first.

`ConcurrencyLimiterProofs`, from `LimiterAssumption` (finitely many connections,
`Global` is no agent, caps are natural numbers):

* `TypeCorrect`, `Accounting`, `Caps`: `TypeOK`, `SlotAccounting` and
  `CapsRespected` are invariants.
* `RejectionsAlwaysJustified`: the action property of the same name.
* `Implements`: `Spec => Promise!Safety`, the safety part of
  `ImplementsAdmission`.

The inductive invariant is `Types /\ Control /\ SlotAccounting`.
`SlotAccounting` alone is not inductive: a release adds one to a counter, which
is right only if the request still held that slot, and `Control` says which slots
a handler holds at each stage and that a set `released` flag means they are given
back or about to be. The counting rests on four lemmas on how the number of
holders changes when one request takes or returns one slot. Caps follow because a
running request holds every limited scope it needs; a rejection finds counter 0,
hence as many holders as the cap, none of them the request itself.

`AgentExecutionProofs`, from `ExecutionAssumption` (at least one node, a natural
number of retries):

* `TypeCorrect`, `AttemptsExclusive`, `AnswerIsTheEnd`,
  `CancellationClassified`: `TypeOK`, `OneAttemptAtATime`,
  `NoWorkAfterTheAnswer` and `CancellationIsNoError` are invariants.
* `WaitingReported`, `TraceTruthful`: so are `WaitingIsReported` and
  `TraceIsTruthful`.
* `RetriesKeepProgress`: the action property `ProgressKept`.

The inductive invariant is `Types /\ Confined /\ InNode /\ Cancelled /\
Yielding`. `Confined` is the argument: a live worker is a plain function that
outlived its task, or the attempt the caller waits for, or the pool thread of a
sync attempt that timed out and that the caller has given up *for good*. The
last case is closed to retries because the sync engine never retries a timeout;
without that clause two attempts could be alive at once. The sub-properties of
each step are lemmas, one per action or per group of actions with one argument.

`WaitingReported` and `TraceTruthful` need a second invariant, `Account`, inductive together with the
first: at which stages an exception is on its way (`Raised`), that a pending interrupt
is one the caller has seen or is about to see (`Marked`), who may have written each
value of `ctx.state` (`Written`; TIMEOUT is written for a `TimeoutException` only, and for
each of them under a policy), and what the hooks were told (`Told`). `Marked` is
the delicate one: an attempt that was given up may stop for an approval after the
caller has an exception, so that it speaks of executions without an exception only,
and `Confined` excludes it there. A third one, `Progress`, says that a run in a node or ahead
of one has everything saved that comes before it, and that nobody who would start anew
is left once the input is saved; `Confined` sees to it that there is one such run at a time.

`ApprovalProofs`, from `ApprovalAssumption` (finitely many requests at a time, a FIFO
of at least one entry, natural bounds on sends, failures and restarts):

* `InductiveInvariant`, and from it `TypesHold`, `DecisionsAnswerRequests`,
  `ApprovalsAreSpentOnce`, `WaitingReachesAdapter`, `RememberedIsNotRepeated`: the
  five invariants of the run.
* `ResumesStartNothing`: the action property `UnknownThreadsNotStarted`.

None of the invariants is inductive. `Stations` says what a request knows at each
stage of `request_approval`; `Said`, `Asked` and `AllHandedOver` where an id is between its
entry, its event and its push: an id with an entry, be it forgotten again (`Known`), was asked
for, or somebody is about to say so, or a restart came in between. The bounds are proved by counting what may still come:
the tasks by the requests that may open one (`TasksCounted`), the length of the FIFO
by the requests that have found room or are finding it (`FifoCounted`), pushes by the
requests that looked before the id was remembered (`PushesCounted`), and the approved
tasks of a thread by the requests that carry an approval or act on one
(`ApprovalsCounted`). A decision stored with a checkpoint is counted once although
several requests may read it, because they read it for one task.

`ObservationProofs`, from `ObservationAssumption` (a capacity of at least one,
finitely many calls, which are no executions), `ChainAssumption` and
`HooksAssumption`:

* `EndsTold`, `SpansClosed`, `RunsTellTheirEnd`, `TypesHold`, `CallsRecorded`,
  `TimesOwn`, `TokensCounted`: all seven invariants of the run.

The invariant is built in layers. `Stages` says of a call at each place what has been
told of it, which hook may have stopped it and whether its span is open, for each kind
of call; spans and events follow. `Typed` describes the file of runs, whose lemmas
say what opening and evicting do to it; `Ends` is what a run says of an execution at each
of its stages, unless it was evicted, together with the state of its context, whose
last writer is the mark of an interrupt or the except clause. `Timers` says whose start a timer holds: its own
call's unless another one was beside it. `Rowed` says that a call has one row or none,
and that the rows with tokens are as many as the events. A call that publishes
`ModelCalled` must find a row without tokens: rows with tokens are taken by calls each
of which has a row of its own, none of which is the caller's, so that there are more
rows than taken ones (`Untaken`, a pigeonhole argument). That a call that overlaps no
other finds its *own* row is the deepest point: the recorder searches from the latest
row backwards, and `Ordered` says that whoever takes tokens behind that row has a row
of its own behind it, so that a later call always finds a free one there (`LaterIsFree`,
the same argument for a suffix). The calls of one model of one execution have to be
considered together.

`ModelGatewayProofs`, from `GatewayAssumption`:

* `UnsafeTextsStay`: `OnlySafeTextsAreAsked` is an invariant.
* `BlocksFinal`, `VerdictsAnswered`: the action properties `BlocksAreFinal` and
  `VerdictsAreAnswers`.
* `AsksFollow`: `AsksFollowTheChain` is an invariant.

The invariant `IInv` is the shape of the stack: the application's request, and above it
the judge's, only while that request waits for a verdict its text does not have yet.
A verdict therefore never changes below a request that relies on it, and a waved text
has none. That a blocked request of `gateway.model` stays failed is part of what a frame is.

For `AsksFollow`, `CInv` adds that every request is on its way along the chain
(`Follows`). `ChainIs` says what a chain is without its definition: it follows the
fallbacks, holds no alias twice and cannot be prolonged; a longest walk exists because
an alias can stand in it once only. Every alias then has one place in the chain, and
`Ordered` says that what was asked stands up to the alias under way and what a chat model
still has to ask behind it; `Invoked`, for `_invoke`, that `seen` is what stands in front of it
and that nothing was left out. That the next alias of `_invoke` is the next one of the
chain is the point of `FallsBack`: a fallback outside `seen` at the end of the chain would prolong
it, which takes that the alias is registered, and this is known because its provider was asked.

`PlatformProofs`, from `ControlPlaneAssumption`, `LayersAssumption`, `KeysAssumption`, `EmptyAssumption`,
`McpAssumption` and `PlatformAssumption`:

* `ServedGoverned`: `ServedAreGoverned` is an invariant. It rests on `Merging`: over
  a layer, `deep_merge` answers a setting from the upper one if that says something of
  it or of the whole policy, and from the lower one otherwise; hence, layer by layer,
  what the platform's policy says is what the last layer states, and `MergingPolicy` says the
same of whether there is a policy at all (`Governed`). `Registering` and `Serving` carry over
what an agent was made with, by the application or by its developer. `Noted` and
  `Kept` follow an agent's cap through the window between its registration and
  `http_app`.
* `ProductionApproved`: `ProductionWasApproved` is an invariant. A record beyond TEST
  is approved or being dated (`ApprovedFirst`), and what an operator has found approved
  stays so until it writes (`Cleared`), whoever writes in between: no step takes an
  approval back, and a record registered anew is another object.

`GuardrailsProofs` has no specification: its theorems are about the operators of
`Guardrails`, for messages of any kind and conversations of any length.

* `OldProperties`: what `reduce` leaves out is the oldest of the plain messages; at least
  `keep_recent` of them stay, and the first of these is a human turn.
* `EnforceProperties`: a guardrail masks or leaves a message as it is; what it has looked
  at, let pass and offends, passes by a warning; it looks at all of the tail, up to the
  message it blocks on.

They rest on the numbering of the places in a finite set (`Numbered`: `Nth` answers every
place once and in order; `AtProperties`, which `ModelGatewayProofs` cites for the chat models), the cut (`CutProperties`) and the tail (`TailStartProperties`).

`ConversationProofs`, from `ConversationAssumption` (natural bounds, no bound on what they are):

* `TypeCorrect`, and `OffencesHandled`, `ViewsComplete`, `PairsKept`, `AskedLookedAt`,
  `StreamsShown`: `OffencesAreHandled`, `ViewsAreComplete`, `PairsStayTogether`,
  `AskedWasLookedAt` and `StreamsShowWhatWasKept` are invariants.

The inductive invariant is `Typed /\ Handled /\ Viewed /\ Covered`. `Viewed` says of a
view that there is a set it leaves out, empty or `Old(history, keep)`, and that it tells all
the rest in order (`Tells`); completeness and pairs follow from `OldProperties` and from
the cut at a human turn: between a call and its results there is none. `AskedWasLookedAt` is not
inductive, since it speaks of the moment in which the model is asked only: `Covered` says
that whatever is not in the tail of the thread was looked at or is an exception, at every stage.
The step of the agent node needs that the tail of the *view* holds the tail of the *thread*,
although the guardrail only sees the former (`TailIsShown`): the first plain message that
stays is a human turn, so that everything left out is older than the tail and the
message in front of it, and the summary lies in front of the first message that is
no system message. What is in the tail of the view before the message looked for then
belongs to the same call, which is the exception for a block in the middle of a tail.

The stream has an invariant of its own on top of the thread's types, `Streamed`: what the
gate knows of the agent node is what the node declares (`Gated`), and what has been shown
of it (`Shown`), with "at most one" put as a uniqueness of message ids, and for structured values
(`ValuesShown`) as one item for each number up to `returned`. Nothing is proved
about the order of items. `FeedIs` says what the gate makes of any one item: what it
withholds, what comes out in its place, and that one token comes out at the most;
`TokensAre` and `ReturnedAre` put this together for what one node sends, `LinesProperties`
for the lines of an HTTP stream. A step then keeps the invariant if what it adds to the
stream shows what it adds to the thread and to the values of the turn (`Adds`,
`ValuesAdded`, `StreamStep`).

Only model-checked, and why:

* liveness (`SlotsReturned`, `TimeoutBoundsExecution`, `RequestsEnd`, `WaitsEnd`, the
  fairness of `Admission`): out of the prover's reach.

## 6. Not modelled

* Several approvals in one super-step, addressed by interrupt id; approver fields;
  parallel tasks of one node, which share the gate's hold.
* Which texts the prebuilt patterns find, masks of free text, the conversion of
  tools for LangChain, attributes of spans, encoding of HTTP answers: data without
  control.
* The summary cache, `get()` of the recorder beside a writer, rows of approval events.
* Model providers, checkpointers and stores: adapters of libraries. Their callers
  know of them that they answer, fail or hang.
* Evaluation scores data sets one sample after the other; templates are
  small graphs without state of their own.
* Real time: delays are nondeterministic.
* Pool threads of a tool or a model that outlive that tool's or model's own timeout: their
  `TimeoutException` is in `AgentExecution`, the thread is not.
* `RunnableConfig` merging, compilation of graphs, the command line, examples other
  than the bootstrap.

## 7. Plan

Done, in this order: `ConcurrencyLimiter` with `Admission`, `AgentExecution`,
`Approval`; the proofs of the first two; `Hooks` with `Observation`, `ModelGateway`,
`Guardrails` and `StreamGate` with `Conversation`, `McpSessions`, `LayeredConfig` and
`ControlPlane` with `Platform`; the proofs of `Approval`, `ModelGateway`, `Platform` and
`Observation`, of what an execution says of itself and keeps, of `Guardrails` and of `Conversation`.

None of the modules has a RECURSIVE operator. What could be proved next: of `Hooks` and
`McpSessions` what their steps may never do.
