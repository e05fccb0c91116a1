---------------------------- MODULE Observation ----------------------------
(***************************************************************************)
(* What is told of an execution: the hooks around agents, nodes, tools and *)
(* models, the events they publish, the spans they open and the rows the   *)
(* recorder of the server keeps (klafi/core/hook.py, klafi/tool/tool.py,   *)
(* klafi/model/callback.py, klafi/events/, klafi/observability/tracing.py, *)
(* klafi/server/recorder.py).                                              *)
(*                                                                         *)
(* Several executions run at once, and in each of them several calls: of   *)
(* nodes, of tools and of models.  Calls of one execution may have one     *)
(* name.  A step of a call is one dispatch of a callback along the chain   *)
(* of hooks, or one section under the recorder's lock.                     *)
(*                                                                         *)
(* The chain is GuardrailHook ("guard"), TracingHook ("tracing"),          *)
(* EventHook ("events"), the recorder and one hook of the application      *)
(* ("app").  The guard and the application's hook may raise in every       *)
(* callback and are fail-close; LoggingHook ("logging") stands for the     *)
(* fail-open ones that raise.                                              *)
(* Executions have no policy: what the engine writes into the state of     *)
(* their context when they have one is AgentExecution's subject.           *)
(***************************************************************************)
EXTENDS Hooks

CONSTANTS
  Executions,  \* execution ids
  Calls,       \* the calls of nodes, tools and models
  Capacity,    \* how many runs the recorder keeps
  NoCall       \* no timer, or no tokens

ASSUME ObservationAssumption ==
  /\ Capacity \in Nat \ {0}
  /\ NoCall \notin Calls
  /\ Calls \cap Executions = {}
  /\ IsFiniteSet(Calls)

\* The framework's hooks have their priority from their class, the application's
\* has the default.
ASSUME ChainAssumption ==
  /\ Chain = <<"guard", "tracing", "events", "logging", "recorder", "app">>
  /\ NoHook \notin {"guard", "tracing", "events", "logging", "recorder", "app"}

VARIABLES
  call,      \* of each call: execution, kind and name
  pc,        \* where each call is
  stop,      \* the hook that stopped it, NoHook if none did
  outcome,   \* how its body ended
  agent,     \* where each execution is
  ending,    \* how each execution ends
  state,     \* the state in its context
  spans,     \* the calls and executions whose span is open
  told,      \* the lifecycle events of each call, in order
  agentTold, \* those of each execution
  runs,      \* the recorder's _runs, the oldest first
  timer,     \* its _open: for each key the call whose start it holds
  errors,    \* its _errors: the calls of nodes that failed and have no row yet
  timed,     \* what _finish popped for a call, until its row is added
  begun,     \* ghost: the calls whose timer the recorder has started
  overlapped,\* ghost: the calls that ran beside another one of their group
  lost,      \* ghost: the executions whose run was evicted
  counted    \* ghost: the ModelCalled events since an execution's run was opened

callVars == <<call, pc, stop, outcome, told, timed>>
agentVars == <<agent, ending, state, agentTold>>
recorderVars == <<runs, timer, errors, begun, overlapped, lost, counted>>
vars == <<callVars, agentVars, spans, recorderVars>>

Kinds == {"node", "tool", "model"}
Open == {"tracing", "events", "logging", "recorder"}   \* the fail-open hooks

\* The hooks that may raise in one callback.
Raisings == {{}, {"guard"}, {"app"}, {"logging"}}

-----------------------------------------------------------------------------
(* The recorder.                                                           *)

Recorded(rs, e) == \E i \in DOMAIN rs: rs[i].execution = e
IndexOf(rs, e) == CHOOSE i \in DOMAIN rs: rs[i].execution = e
RunOf(rs, e) == rs[IndexOf(rs, e)]

NewRun(e) == [execution |-> e, rows |-> <<>>, state |-> state[e], error |-> FALSE, ended |-> FALSE]

\* Faulty variant: no run is ever dropped.
RunKeepingAll(rs, e) == IF Recorded(rs, e) THEN rs ELSE Append(rs, NewRun(e))

\* _run: the run of an execution, opened when there is none; at capacity the
\* oldest one goes, whether it has ended or not.
Run(rs, e) ==
  IF Recorded(rs, e) THEN rs
  ELSE LET more == Append(rs, NewRun(e))
       IN IF Len(more) > Capacity THEN Tail(more) ELSE more

EvictedBy(e) ==
  {x \in Executions: Recorded(runs, x) /\ ~Recorded(Run(runs, e), x)}

\* What opening the run of e does to the ghosts.
Recounted(e) == [x \in Executions |-> IF x \in EvictedBy(e) THEN 0 ELSE counted[x]]
Reopen(e) ==
  /\ lost' = lost \cup EvictedBy(e)
  /\ counted' = Recounted(e)

\* The run of e, opened when there is none, and changed.
Opened(e) == RunOf(Run(runs, e), e)
ChangeRun(e, run) == runs' = [Run(runs, e) EXCEPT ![IndexOf(Run(runs, e), e)] = run]

Row(c, kind, status, start, tokens) ==
  [kind |-> kind, of |-> c, name |-> call[c].name, status |-> status, start |-> start,
   tokens |-> tokens]

\* _add, for a row about call c.
AddRow(c, kind, status, start) ==
  LET e == call[c].execution
  IN /\ ChangeRun(e, [Opened(e) EXCEPT !.rows = Append(@, Row(c, kind, status, start, NoCall))])
     /\ Reopen(e)

\* Nodes have a key of their own (the id of their state); the calls of one tool
\* or one model in one execution share one.
Key(c) ==
  IF call[c].kind = "node" THEN <<call[c].execution, "node", c>>
  ELSE <<call[c].execution, call[c].kind, call[c].name>>

Keys == {Key(c): c \in Calls}

\* _start: whatever start the key holds is overwritten.
StartTimer(c) ==
  /\ timer' = [timer EXCEPT ![Key(c)] = c]
  /\ begun' = begun \cup {c}

\* Faulty variant: a start is read and left where it is.
FinishTimerKeeping(c) ==
  /\ timed' = [timed EXCEPT ![c] = timer[Key(c)]]
  /\ UNCHANGED timer

\* _finish pops whatever start the key holds.
FinishTimer(c) ==
  /\ timed' = [timed EXCEPT ![c] = timer[Key(c)]]
  /\ timer' = [timer EXCEPT ![Key(c)] = NoCall]

\* Faulty variant: a ModelCalled goes to the latest row of the model, also to
\* one that has its tokens.
TakesTokensAgain(row, c) == row.kind = "model" /\ row.name = call[c].name

\* on_event looks for a row of the same alias without tokens.
TakesTokens(row, c) == row.kind = "model" /\ row.name = call[c].name /\ row.tokens = NoCall

\* on_event(ModelCalled): the latest such row gets the tokens; without one a
\* row is added.
CountTokens(c) ==
  LET e == call[c].execution
      rows == Opened(e).rows
      fitting == {i \in DOMAIN rows: TakesTokens(rows[i], c)}
  IN /\ ChangeRun(e, [Opened(e) EXCEPT !.rows =
                       IF fitting # {} THEN [rows EXCEPT ![Max(fitting)].tokens = c]
                       ELSE Append(rows, Row(c, "model", "ok", NoCall, c))])
     /\ lost' = lost \cup EvictedBy(e)
     /\ counted' = [Recounted(e) EXCEPT ![e] = @ + 1]

-----------------------------------------------------------------------------
(* Calls.                                                                  *)

At(c, stage) == pc[c] = stage
Goto(c, stage) == pc' = [pc EXCEPT ![c] = stage]
Tell(c, events) == told' = [told EXCEPT ![c] = @ \o events]
Group(c) == {d \in Calls: call[d] = call[c]}
Active(c) == pc[c] \notin {"idle", "done"}

Init ==
  /\ call \in [Calls -> [execution: Executions, kind: Kinds, name: {"a"}]]
  /\ pc = [c \in Calls |-> "idle"]
  /\ stop = [c \in Calls |-> NoHook]
  /\ outcome = [c \in Calls |-> "none"]
  /\ agent = [e \in Executions |-> "new"]
  /\ ending = [e \in Executions |-> "none"]
  /\ state = [e \in Executions |-> "CREATED"]
  /\ spans = {}
  /\ told = [c \in Calls |-> <<>>]
  /\ agentTold = [e \in Executions |-> <<>>]
  /\ runs = <<>>
  /\ timer = [k \in Keys |-> NoCall]
  /\ errors = {}
  /\ timed = [c \in Calls |-> NoCall]
  /\ begun = {}
  /\ overlapped = {}
  /\ lost = {}
  /\ counted = [e \in Executions |-> 0]

\* A call begins inside its running execution.
Begins(c) ==
  /\ At(c, "idle")
  /\ agent[call[c].execution] = "running"
  /\ LET beside == {d \in Group(c) \ {c}: Active(d)}
     IN overlapped' = IF beside = {} THEN overlapped ELSE overlapped \cup beside \cup {c}

\* GuardrailHook publishes a GuardrailViolation when it blocks; the recorder adds a row.
Blocked(c, fired) ==
  IF fired.stop = "guard" THEN AddRow(c, "guardrail", "block", NoCall)
  ELSE UNCHANGED <<runs, lost, counted>>

\* A callback that is fired before the body, and starts the recorder's timer.
FireBefore(c, fired) ==
  /\ stop' = [stop EXCEPT ![c] = fired.stop]
  /\ IF "recorder" \in fired.ran THEN StartTimer(c) ELSE UNCHANGED <<timer, begun>>
  /\ Blocked(c, fired)

\* TracingHook keeps the spans of agents and nodes in a table between its
\* callbacks (_start, _end); those of tools and models are a context manager's (span).
OpenSpan(x) == spans \cup {x}
EndSpan(x) == spans \ {x}
LeaveSpan(c) == spans \ {c}

(* Nodes (run_hooked, arun_hooked).                                        *)

\* _before runs ahead of the try: when a hook stops it nothing else is called.
NodeBefore(c) ==
  \E raising \in Raisings:
    LET fired == Fire(Inwards, raising, Open) IN
    /\ call[c].kind = "node"
    /\ Begins(c)
    /\ FireBefore(c, fired)
    /\ spans' = IF "tracing" \in fired.ran THEN OpenSpan(c) ELSE spans
    /\ Tell(c, IF "events" \in fired.ran THEN <<"Started">> ELSE <<>>)
    /\ outcome' = [outcome EXCEPT ![c] = IF fired.stop = NoHook THEN "none" ELSE "error"]
    /\ Goto(c, IF fired.stop = NoHook THEN "body" ELSE "done")
    /\ UNCHANGED <<call, timed, agentVars, errors>>

\* The node function in its pipelines.
NodeBody(c) ==
  \E parts \in NodeParts:
    /\ call[c].kind = "node"
    /\ At(c, "body")
    /\ outcome' = [outcome EXCEPT ![c] = NodeFunction(parts).outcome]
    /\ Tell(c, IF NodeFunction(parts).onError THEN <<"OnError">> ELSE <<>>)
    /\ Goto(c, IF NodeFunction(parts).outcome = "ok" THEN "after" ELSE "failing")
    /\ UNCHANGED <<call, stop, timed, agentVars, spans, timer, errors, begun,
                   overlapped, runs, lost, counted>>

\* Faulty variant: _after outside the try.
NodeAfterOutside(c) ==
  \E raising \in Raisings:
    LET fired == Fire(Outwards, raising, Open) IN
    /\ call[c].kind = "node"
    /\ At(c, "after")
    /\ Tell(c, IF "events" \in fired.ran THEN <<"Completed">> ELSE <<>>)
    /\ stop' = [stop EXCEPT ![c] = fired.stop]
    /\ outcome' = [outcome EXCEPT ![c] = IF fired.stop = NoHook THEN "ok" ELSE "error"]
    /\ Blocked(c, fired)
    /\ Goto(c, IF fired.stop = NoHook THEN "finish" ELSE "done")
    /\ UNCHANGED <<call, timed, agentVars, spans, timer, errors, begun, overlapped>>

\* _after is inside the try: a hook that stops it makes the node fail.
NodeAfter(c) ==
  \E raising \in Raisings:
    LET fired == Fire(Outwards, raising, Open) IN
    /\ call[c].kind = "node"
    /\ At(c, "after")
    /\ Tell(c, IF "events" \in fired.ran THEN <<"Completed">> ELSE <<>>)
    /\ stop' = [stop EXCEPT ![c] = fired.stop]
    /\ outcome' = [outcome EXCEPT ![c] = IF fired.stop = NoHook THEN "ok" ELSE "error"]
    /\ Blocked(c, fired)
    /\ Goto(c, IF fired.stop = NoHook THEN "finish" ELSE "failing")
    /\ UNCHANGED <<call, timed, agentVars, spans, timer, errors, begun, overlapped>>

\* Faulty variant: every exception of a node is reported as its failure.
NodeFailAlways(c) ==
  /\ call[c].kind = "node"
  /\ At(c, "failing")
  /\ errors' = errors \cup {c}
  /\ Tell(c, <<"Failed">>)
  /\ Goto(c, "finish")
  /\ UNCHANGED <<call, stop, outcome, timed, agentVars, spans, timer, begun, overlapped,
                 runs, lost, counted>>

\* on_node_error, unless the exception is control flow.
NodeFail(c) ==
  /\ call[c].kind = "node"
  /\ At(c, "failing")
  /\ IF IsControlFlow(outcome[c]) THEN UNCHANGED <<errors, told>>
     ELSE errors' = errors \cup {c} /\ Tell(c, <<"Failed">>)
  /\ Goto(c, "finish")
  /\ UNCHANGED <<call, stop, outcome, timed, agentVars, spans, timer, begun, overlapped,
                 runs, lost, counted>>

\* finally_node, first section: the recorder pops the start.
NodeFinish(c) ==
  /\ call[c].kind = "node"
  /\ At(c, "finish")
  /\ FinishTimer(c)
  /\ Goto(c, "row")
  /\ UNCHANGED <<call, stop, outcome, told, agentVars, spans, errors, begun, overlapped,
                 runs, lost, counted>>

\* Second section: the row; then TracingHook ends the span.
NodeRow(c) ==
  /\ call[c].kind = "node"
  /\ At(c, "row")
  /\ AddRow(c, "node", IF c \in errors THEN "error" ELSE "ok", timed[c])
  /\ errors' = errors \ {c}
  /\ spans' = EndSpan(c)
  /\ Goto(c, "done")
  /\ timed' = [timed EXCEPT ![c] = NoCall]
  /\ UNCHANGED <<call, stop, outcome, told, agentVars, timer, begun, overlapped>>

(* Tools (Tool.run) and models (KlafiCallbackHandler, ModelGateway._invoke). *)

Boundary(c) == call[c].kind \in {"tool", "model"}

\* A tool's span and ToolStarted come first, ahead of the permission check.
ToolStart(c) ==
  /\ call[c].kind = "tool"
  /\ Begins(c)
  /\ spans' = OpenSpan(c)
  /\ Tell(c, <<"Started">>)
  /\ Goto(c, "check")
  /\ UNCHANGED <<call, stop, outcome, timed, agentVars, runs, timer, errors, begun, lost, counted>>

\* The permission is missing or the input does not fit: no before_tool hook is called.
ToolRefused(c) ==
  /\ At(c, "check")
  /\ outcome' = [outcome EXCEPT ![c] = "error"]
  /\ Goto(c, "failing")
  /\ UNCHANGED <<call, stop, told, timed, agentVars, spans, recorderVars>>

\* before_tool, inside the try.
ToolBefore(c) ==
  \E raising \in Raisings:
    LET fired == Fire(Inwards, raising, Open) IN
    /\ At(c, "check")
    /\ FireBefore(c, fired)
    /\ outcome' = [outcome EXCEPT ![c] = IF fired.stop = NoHook THEN "none" ELSE "error"]
    /\ Goto(c, IF fired.stop = NoHook THEN "body" ELSE "failing")
    /\ UNCHANGED <<call, told, timed, agentVars, spans, errors, overlapped>>

\* before_model; the span is open only from here on, or closed again by span().
ModelBefore(c) ==
  \E raising \in Raisings:
    LET fired == Fire(Inwards, raising, Open) IN
    /\ call[c].kind = "model"
    /\ Begins(c)
    /\ FireBefore(c, fired)
    /\ spans' = IF fired.stop = NoHook THEN OpenSpan(c) ELSE spans
    /\ outcome' = [outcome EXCEPT ![c] = IF fired.stop = NoHook THEN "none" ELSE "error"]
    /\ Goto(c, IF fired.stop = NoHook THEN "body" ELSE "done")
    /\ UNCHANGED <<call, told, timed, agentVars, errors>>

\* The tool's function under its policy and the output's validation, or the
\* provider.  A failing model has no hook to tell it to: on_llm_error and
\* span() end its span, and its timer stays.
BoundaryBody(c) ==
  \E end \in {"ok", "error"} \cup (IF call[c].kind = "tool" THEN {"interrupt"} ELSE {}):
    /\ Boundary(c)
    /\ At(c, "body")
    /\ outcome' = [outcome EXCEPT ![c] = end]
    /\ IF end = "ok" THEN Goto(c, "after") /\ UNCHANGED spans
       ELSE IF call[c].kind = "tool" THEN Goto(c, "failing") /\ UNCHANGED spans
       ELSE Goto(c, "done") /\ spans' = LeaveSpan(c)
    /\ UNCHANGED <<call, stop, told, timed, agentVars, recorderVars>>

\* on_tool_error, for whatever is an Exception, an interrupt too: the
\* recorder's first section.
ToolFail(c) ==
  /\ call[c].kind = "tool"
  /\ At(c, "failing")
  /\ FinishTimer(c)
  /\ Goto(c, "failrow")
  /\ UNCHANGED <<call, stop, outcome, told, agentVars, spans, errors, begun, overlapped,
                 runs, lost, counted>>

\* Its second section, ToolFailed, the end of the span.
ToolFailed(c) ==
  /\ At(c, "failrow")
  /\ AddRow(c, "tool", "error", timed[c])
  /\ Tell(c, <<"Failed">>)
  /\ spans' = LeaveSpan(c)
  /\ Goto(c, "done")
  /\ timed' = [timed EXCEPT ![c] = NoCall]
  /\ UNCHANGED <<call, stop, outcome, agentVars, timer, errors, begun, overlapped>>

\* after_tool and after_model, outside the try: a hook that raises ahead of the
\* recorder leaves neither a row nor an event, and the timer stays.
BoundaryAfter(c) ==
  \E raising \in Raisings:
    LET fired == Fire(Outwards, raising, Open) IN
    /\ Boundary(c)
    /\ At(c, "after")
    /\ stop' = [stop EXCEPT ![c] = fired.stop]
    /\ outcome' = [outcome EXCEPT ![c] = IF fired.stop = NoHook THEN "ok" ELSE "error"]
    /\ IF "recorder" \in fired.ran THEN FinishTimer(c) /\ Goto(c, "row") /\ UNCHANGED spans
       ELSE UNCHANGED <<timed, timer>> /\ Goto(c, "done") /\ spans' = LeaveSpan(c)
    /\ UNCHANGED <<call, told, agentVars, errors, begun, overlapped, runs, lost, counted>>

BoundaryRow(c) ==
  /\ Boundary(c)
  /\ At(c, "row")
  /\ AddRow(c, call[c].kind, "ok", timed[c])
  /\ Goto(c, "leave")
  /\ timed' = [timed EXCEPT ![c] = NoCall]
  /\ UNCHANGED <<call, stop, outcome, told, agentVars, spans, timer, errors,
                 begun, overlapped>>

\* What is left of the callback, the guard outermost, then ToolCompleted or
\* ModelCalled.
BoundaryLeave(c) ==
  /\ At(c, "leave")
  /\ IF stop[c] = "guard" THEN AddRow(c, "guardrail", "block", NoCall) /\ UNCHANGED told
     ELSE IF call[c].kind = "tool" THEN Tell(c, <<"Completed">>) /\ UNCHANGED <<runs, lost, counted>>
     ELSE Tell(c, <<"ModelCalled">>) /\ CountTokens(c)
  /\ spans' = LeaveSpan(c)
  /\ Goto(c, "done")
  /\ UNCHANGED <<call, stop, outcome, timed, agentVars, timer, errors, begun, overlapped>>

(* Agents (BaseGraph.invoke and ainvoke, without a policy).                *)

AgentGoto(e, stage) == agent' = [agent EXCEPT ![e] = stage]
AgentTell(e, events) == agentTold' = [agentTold EXCEPT ![e] = @ \o events]

\* before_agent is outside the try: the hooks inside of one that stops it are
\* not called, and none is called again.
AgentBegin(e) ==
  \E raising \in Raisings:
    LET fired == Fire(Inwards, raising, Open) IN
    /\ agent[e] = "new"
    /\ spans' = IF "tracing" \in fired.ran THEN OpenSpan(e) ELSE spans
    /\ AgentTell(e, IF "events" \in fired.ran THEN <<"Started">> ELSE <<>>)
    /\ ChangeRun(e, Opened(e)) /\ Reopen(e)
    /\ ending' = [ending EXCEPT ![e] = IF fired.stop = NoHook THEN "none" ELSE "refused"]
    /\ AgentGoto(e, IF fired.stop = NoHook THEN "running" ELSE "done")
    /\ UNCHANGED <<callVars, state, timer, errors, begun, overlapped>>

\* What _on_failure writes into the context; a failure leaves it alone.
FailureState(how, s) ==
  IF how = "cancelled" THEN "CANCELLED"
  ELSE IF IsControlFlow(how) THEN "WAITING_APPROVAL" ELSE s

\* The graph fails, is cancelled or raises an interrupt; calls that run in
\* threads go on.
AgentBreak(e) ==
  \E how \in {"error", "cancelled", "interrupt"}:
    /\ agent[e] = "running"
    /\ ending' = [ending EXCEPT ![e] = how]
    /\ state' = [state EXCEPT ![e] = FailureState(how, @)]
    /\ AgentGoto(e, IF IsControlFlow(how) THEN "finally" ELSE "failing")
    /\ UNCHANGED <<callVars, agentTold, spans, recorderVars>>

\* A node of e was interrupted.
Interrupted(e) ==
  \E c \in Calls: call[c].execution = e /\ call[c].kind = "node" /\ outcome[c] = "interrupt"

\* _mark_interrupt_state: the graph's result says when one of its nodes was.
ResultState(e) == IF Interrupted(e) THEN "WAITING_APPROVAL" ELSE state[e]

\* The graph has a result, which is marked ahead of the hooks; after_agent is
\* inside the try, and a hook that rejects the result leaves the mark.
AgentAfter(e) ==
  \E raising \in Raisings:
    LET fired == Fire(Outwards, raising, Open) IN
    /\ agent[e] = "running"
    /\ \A c \in Calls: call[c].execution = e => ~Active(c)
    /\ state' = [state EXCEPT ![e] = ResultState(e)]
    /\ AgentTell(e, IF "events" \in fired.ran THEN <<"Completed">> ELSE <<>>)
    /\ ending' = [ending EXCEPT ![e] = IF fired.stop = NoHook THEN "ok" ELSE "rejected"]
    /\ AgentGoto(e, IF fired.stop = NoHook THEN "finally" ELSE "failing")
    /\ UNCHANGED <<callVars, spans, recorderVars>>

\* on_agent_error.
AgentFail(e) ==
  /\ agent[e] = "failing"
  /\ AgentTell(e, <<"Failed">>)
  /\ ChangeRun(e, [Opened(e) EXCEPT !.error = TRUE]) /\ Reopen(e)
  /\ AgentGoto(e, "finally")
  /\ UNCHANGED <<callVars, ending, state, spans, timer, errors, begun, overlapped>>

\* Faulty variant: an error decides, whatever the context says.
FinalStateByError(r, s) ==
  IF r.error THEN "FAILED" ELSE IF s # "CREATED" THEN s ELSE "COMPLETED"

\* The state finally_agent writes: the context's, or when nothing was written
\* there, what the run's error tells.
FinalState(r, s) ==
  IF s # "CREATED" THEN s
  ELSE IF r.error THEN "FAILED" ELSE "COMPLETED"

\* finally_agent.
AgentFinally(e) ==
  /\ agent[e] = "finally"
  /\ ChangeRun(e, [Opened(e) EXCEPT !.ended = TRUE,
                                    !.state = FinalState(Opened(e), state[e])])
  /\ Reopen(e)
  /\ spans' = EndSpan(e)
  /\ AgentGoto(e, "done")
  /\ UNCHANGED <<callVars, ending, state, agentTold, timer, errors, begun, overlapped>>

-----------------------------------------------------------------------------
NodeStep(c) == NodeBefore(c) \/ NodeBody(c) \/ NodeAfter(c) \/ NodeFail(c) \/ NodeFinish(c) \/ NodeRow(c)
ToolStep(c) == ToolStart(c) \/ ToolRefused(c) \/ ToolBefore(c) \/ ToolFail(c) \/ ToolFailed(c)
BoundaryStep(c) ==
  ModelBefore(c) \/ BoundaryBody(c) \/ BoundaryAfter(c) \/ BoundaryRow(c) \/ BoundaryLeave(c)
AgentStep(e) == AgentBegin(e) \/ AgentBreak(e) \/ AgentAfter(e) \/ AgentFail(e) \/ AgentFinally(e)

Next ==
  \/ \E c \in Calls: NodeStep(c) \/ ToolStep(c) \/ BoundaryStep(c)
  \/ \E e \in Executions: AgentStep(e)

Spec == Init /\ [][Next]_vars

-----------------------------------------------------------------------------
(* Properties.                                                             *)

Rows == UNION {Range(runs[i].rows): i \in DOMAIN runs}
RowsOf(c) == {row \in Rows: row.of = c /\ row.kind = call[c].kind}

\* The recorder holds at most Capacity runs, one of an execution, and its tables
\* of timers and errors hold nothing that is not a call of their kind.
TypeOK ==
  /\ Len(runs) <= Capacity
  /\ \A i, j \in DOMAIN runs: runs[i].execution = runs[j].execution => i = j
  /\ \A k \in Keys: timer[k] # NoCall => Key(timer[k]) = k
  /\ \A c \in errors: call[c].kind = "node"
  /\ spans \subseteq Calls \cup Executions
  /\ \A c \in Calls: outcome[c] \in {"none", "ok", "error", "interrupt", "cancelled"}

\* Every call that ended well has one row in the run of its execution, without
\* an error and, for a model, with tokens; no call has two; what failed is not
\* shown as a success, except by a guard that rejects what a tool returned or a
\* model answered, and by hooks that stop a call as control flow does (get() of
\* recorder.py, shown by the playground).  Runs that were evicted are excepted.
CallsAreRecorded ==
  \A c \in Calls:
    (pc[c] = "done" /\ call[c].execution \notin lost) =>
      LET rows == RunOf(runs, call[c].execution).rows
          n == Cardinality({i \in DOMAIN rows: rows[i].of = c /\ rows[i].kind = call[c].kind})
      IN /\ n <= 1
         /\ outcome[c] = "ok" => n = 1
         /\ \A row \in RowsOf(c):
              row.status = "ok" => outcome[c] # "error" \/ (Boundary(c) /\ stop[c] = "guard")

\* A row shows the time since its own call began.  It shows another call's time
\* only when two calls of one tool or model overlapped, or when the call was
\* refused before its timer began and an earlier one, stopped or failed, had
\* left its own.
TimesAreOwn ==
  \A c \in Calls: \A row \in RowsOf(c):
    \/ row.start = c
    \/ c \in overlapped
    \/ row.start = NoCall /\ (c \notin begun \/ call[c].execution \in lost)
    \/ row.start # NoCall /\ c \notin begun /\ outcome[row.start] = "error"

\* Tokens are counted once, and none is lost: in every run as many rows have
\* tokens as ModelCalled events were published since the run was opened; a row
\* has the tokens of its own call unless calls of that model overlapped.
TokensAreCounted ==
  \A i \in DOMAIN runs:
    LET rows == runs[i].rows
        filled == {j \in DOMAIN rows: rows[j].kind = "model" /\ rows[j].tokens # NoCall}
    IN /\ Cardinality(filled) = counted[runs[i].execution]
       /\ \A j, k \in filled: rows[j].tokens = rows[k].tokens => j = k
       /\ \A j \in filled: rows[j].tokens = rows[j].of \/ rows[j].of \in overlapped

\* A span is open only while its call or execution is under way; the exception
\* is an entry that a hook inside of TracingHook stopped, which nothing ends.
SpansAreClosed ==
  /\ \A c \in Calls \cap spans: Active(c) \/ (call[c].kind = "node" /\ stop[c] = "app")
  /\ \A e \in Executions \cap spans: agent[e] # "done" \/ ending[e] = "refused"

\* Every end of a tool is told once and in the right words, control flow as a
\* failure too; only a hook at its return leaves ToolStarted without an end.  A
\* node that began is told how it ended unless it was interrupted: as failed, once,
\* also when a hook rejects a result that was told as completed; its on_error
\* middlewares hear of the function's own failures only.  ModelCalled is told of
\* answers only.
EndsAreTold ==
  \A c \in Calls: pc[c] = "done" =>
    CASE call[c].kind = "tool" ->
           \/ outcome[c] = "ok" /\ told[c] = <<"Started", "Completed">>
           \/ outcome[c] # "ok" /\ told[c] = <<"Started", "Failed">>
           \/ outcome[c] = "error" /\ stop[c] # NoHook /\ told[c] = <<"Started">>
      [] call[c].kind = "model" -> (told[c] = <<"ModelCalled">>) <=> (outcome[c] = "ok")
      [] OTHER ->
           \/ outcome[c] = "ok" /\ told[c] = <<"Started", "Completed">>
           \/ IsControlFlow(outcome[c]) /\ told[c] = <<"Started">>
           \/ outcome[c] = "error" /\ stop[c] # NoHook /\ told[c] \in {<<>>, <<"Started">>}
           \/ outcome[c] = "error" /\ told[c] \in
                {<<"Started", "Failed">>, <<"Started", "OnError", "Failed">>,
                 <<"Started", "Completed", "Failed">>}

\* The graph of an execution that is over stopped for an approval.
StoppedForApproval(e) ==
  ending[e] = "interrupt" \/ (ending[e] \in {"ok", "rejected"} /\ Interrupted(e))

\* The run of an execution that is over says so and says how: one whose graph
\* stopped for an approval is shown neither as completed nor, when the hooks
\* reject what it has so far, as failed, though with the error; with an interrupt
\* in one node and a failure beside it the graph has failed.  A run that was
\* evicted meanwhile is excepted, and one that a hook refused, which never ends.
RunsTellTheEnd ==
  \A e \in Executions:
    (agent[e] = "done" /\ ending[e] # "refused" /\ e \notin lost) =>
      LET r == RunOf(runs, e)
      IN /\ r.ended
         /\ r.error <=> ending[e] \in {"error", "rejected"}
         /\ r.state = IF StoppedForApproval(e) THEN "WAITING_APPROVAL"
                      ELSE [ok |-> "COMPLETED", error |-> "FAILED", rejected |-> "FAILED",
                            cancelled |-> "CANCELLED"][ending[e]]
=============================================================================
