------------------------- MODULE ObservationProofs -------------------------
(***************************************************************************)
(* Proofs about what is told of an execution, for any calls, executions    *)
(* and capacity of the recorder, in layers of which each rests on those    *)
(* before it:                                                              *)
(*                                                                         *)
(*   Stages    what has been told of a call by the place where it is;      *)
(*   Typed     the file of runs has one run of each execution;             *)
(*   Ends      what a run says of the end of its execution;                *)
(*   Recorder  whose start the timers hold, and which errors are kept;     *)
(*   Rowed     which rows a call has, and that each answer finds a row to  *)
(*             put its tokens in (Untaken);                                *)
(*   Ordered   that a call that overlaps no other finds its own row, since *)
(*             the others find theirs after it (LaterIsFree).              *)
(***************************************************************************)
EXTENDS Observation, SequenceTheorems, FiniteSetTheorems, WellFoundedInduction, TLAPS

-----------------------------------------------------------------------------
(* The chain of hooks.                                                     *)

\* The hooks that only watch, and do not raise.
Watching == {"tracing", "events", "recorder"}

LEMMA ChainIs ==
  /\ Inwards = <<"guard", "tracing", "events", "logging", "recorder", "app">>
  /\ Outwards = <<"app", "recorder", "logging", "events", "tracing", "guard">>
<1> DEFINE chain == <<"guard", "tracing", "events", "logging", "recorder", "app">>
<1>1. Chain = chain
  BY ChainAssumption
<1>2. Reverse(chain) = <<"app", "recorder", "logging", "events", "tracing", "guard">>
  BY DEF Reverse
<1> QED BY <1>1, <1>2 DEF Inwards, Outwards

\* A callback that goes inwards: the guard stops it ahead of everyone, the
\* application's hook behind.
LEMMA FireInwards ==
  ASSUME NEW raising \in Raisings
  PROVE  LET fired == Fire(Inwards, raising, Open)
         IN \/ fired.stop \in {NoHook, "app"} /\ Watching \subseteq fired.ran
            \/ fired.stop = "guard" /\ Watching \cap fired.ran = {}
<1> DEFINE order == Inwards
           stops == {i \in DOMAIN order: order[i] \in raising \ Open}
           last == IF stops = {} THEN Len(order) ELSE Min(stops)
           fired == Fire(order, raising, Open)
<1>1. /\ order = <<"guard", "tracing", "events", "logging", "recorder", "app">>
      /\ DOMAIN order = 1..6 /\ Len(order) = 6
      /\ order[1] = "guard" /\ order[2] = "tracing" /\ order[3] = "events"
      /\ order[4] = "logging" /\ order[5] = "recorder" /\ order[6] = "app"
  BY ChainIs
<1>2. /\ fired.ran = {order[i]: i \in 1..last} \ raising
      /\ fired.stop = IF stops = {} THEN NoHook ELSE order[last]
  BY DEF Fire
<1>3. CASE raising = {} \/ raising = {"logging"}
  <2>1. stops = {}
    BY <1>3 DEF Open
  <2>2. last = 6
    BY <1>1, <2>1
  <2> QED BY <1>1, <1>2, <1>3, <2>1, <2>2 DEF Watching
<1>4. CASE raising = {"guard"}
  <2>1. stops = {1}
    BY <1>1, <1>4 DEF Open
  <2>2. last = 1
    BY <2>1 DEF Min
  <2> QED BY <1>1, <1>2, <1>4, <2>1, <2>2 DEF Watching
<1>5. CASE raising = {"app"}
  <2>1. stops = {6}
    BY <1>1, <1>5 DEF Open
  <2>2. last = 6
    BY <2>1 DEF Min
  <2>3. fired.stop = "app"
    BY <1>1, <1>2, <2>1, <2>2
  <2>4. Watching \subseteq {order[i]: i \in 1..6} \ raising
    BY <1>1, <1>5 DEF Watching
  <2> QED BY <1>2, <2>2, <2>3, <2>4
<1> QED BY <1>3, <1>4, <1>5 DEF Raisings

\* One that goes outwards: the other way round.
LEMMA FireOutwards ==
  ASSUME NEW raising \in Raisings
  PROVE  LET fired == Fire(Outwards, raising, Open)
         IN \/ fired.stop \in {NoHook, "guard"} /\ Watching \subseteq fired.ran
            \/ fired.stop = "app" /\ Watching \cap fired.ran = {}
<1> DEFINE order == Outwards
           stops == {i \in DOMAIN order: order[i] \in raising \ Open}
           last == IF stops = {} THEN Len(order) ELSE Min(stops)
           fired == Fire(order, raising, Open)
<1>1. /\ order = <<"app", "recorder", "logging", "events", "tracing", "guard">>
      /\ DOMAIN order = 1..6 /\ Len(order) = 6
      /\ order[6] = "guard" /\ order[5] = "tracing" /\ order[4] = "events"
      /\ order[3] = "logging" /\ order[2] = "recorder" /\ order[1] = "app"
  BY ChainIs
<1>2. /\ fired.ran = {order[i]: i \in 1..last} \ raising
      /\ fired.stop = IF stops = {} THEN NoHook ELSE order[last]
  BY DEF Fire
<1>3. CASE raising = {} \/ raising = {"logging"}
  <2>1. stops = {}
    BY <1>3 DEF Open
  <2>2. last = 6
    BY <1>1, <2>1
  <2> QED BY <1>1, <1>2, <1>3, <2>1, <2>2 DEF Watching
<1>4. CASE raising = {"app"}
  <2>1. stops = {1}
    BY <1>1, <1>4 DEF Open
  <2>2. last = 1
    BY <2>1 DEF Min
  <2> QED BY <1>1, <1>2, <1>4, <2>1, <2>2 DEF Watching
<1>5. CASE raising = {"guard"}
  <2>1. stops = {6}
    BY <1>1, <1>5 DEF Open
  <2>2. last = 6
    BY <2>1 DEF Min
  <2>3. fired.stop = "guard"
    BY <1>1, <1>2, <2>1, <2>2
  <2>4. Watching \subseteq {order[i]: i \in 1..6} \ raising
    BY <1>1, <1>5 DEF Watching
  <2> QED BY <1>2, <2>2, <2>3, <2>4
<1> QED BY <1>3, <1>4, <1>5 DEF Raisings

\* What is told one after the other.
LEMMA Telling ==
  ASSUME NEW S, NEW x \in S, NEW y \in S, NEW z \in S
  PROVE  /\ <<>> \o <<>> = <<>> /\ <<>> \o <<x>> = <<x>> /\ <<x>> \o <<>> = <<x>>
         /\ <<x>> \o <<y>> = <<x, y>> /\ <<x, y>> \o <<z>> = <<x, y, z>>
         /\ <<x, y>> \o <<>> = <<x, y>>
<1>1. /\ <<>> \o <<>> = <<>> /\ <<>> \o <<x>> = <<x>> /\ <<x>> \o <<>> = <<x>>
      /\ <<x, y>> \o <<>> = <<x, y>>
  OBVIOUS
<1>2. <<x>> \o <<y>> = <<x, y>>
  <2> DEFINE p == <<x>> \o <<y>>
  <2>1. /\ <<x>> \in Seq(S) /\ Len(<<x>>) = 1 /\ <<x>>[1] = x
        /\ <<y>> \in Seq(S) /\ Len(<<y>>) = 1 /\ <<y>>[1] = y
    OBVIOUS
  <2>2. p \in Seq(S) /\ Len(p) = 2 /\ p[1] = x /\ p[2] = y
    BY <2>1, ConcatProperties
  <2> HIDE DEF p
  <2>3. p = <<x, y>>
    BY <2>2
  <2> QED BY <2>3 DEF p
<1>3. <<x, y>> \o <<z>> = <<x, y, z>>
  <2> DEFINE p == <<x, y>> \o <<z>>
  <2>1. /\ <<x, y>> \in Seq(S) /\ Len(<<x, y>>) = 2 /\ <<x, y>>[1] = x /\ <<x, y>>[2] = y
        /\ <<z>> \in Seq(S) /\ Len(<<z>>) = 1 /\ <<z>>[1] = z
    OBVIOUS
  <2>2. p \in Seq(S) /\ Len(p) = 3 /\ p[1] = x /\ p[2] = y /\ p[3] = z
    BY <2>1, ConcatProperties
  <2> HIDE DEF p
  <2>3. p = <<x, y, z>>
    BY <2>2
  <2> QED BY <2>3 DEF p
<1> QED BY <1>1, <1>2, <1>3

-----------------------------------------------------------------------------
(* Where a call is, and what has been told of it by then.                  *)

\* What the context of an execution without a policy can say.
ContextStates == {"CREATED", "CANCELLED", "WAITING_APPROVAL"}

Tables ==
  /\ call \in [Calls -> [execution: Executions, kind: Kinds, name: {"a"}]]
  /\ DOMAIN pc = Calls /\ DOMAIN stop = Calls /\ DOMAIN outcome = Calls
  /\ DOMAIN told = Calls /\ DOMAIN timed = Calls
  /\ DOMAIN agent = Executions /\ DOMAIN ending = Executions
  /\ state \in [Executions -> ContextStates]

\* A call that has not begun.
Fresh(c) ==
  /\ pc[c] = "idle" /\ told[c] = <<>> /\ stop[c] = NoHook /\ outcome[c] = "none"
  /\ c \notin spans

\* A node whose function, or a hook behind it, has failed or was interrupted.
NodeBroke(c) ==
  \/ outcome[c] = "interrupt" /\ told[c] = <<"Started">>
  \/ /\ outcome[c] = "error"
     /\ told[c] \in {<<"Started">>, <<"Started", "OnError">>, <<"Started", "Completed">>}

\* A node whose end has been told.
NodeEnded(c) ==
  \/ outcome[c] = "ok" /\ told[c] = <<"Started", "Completed">>
  \/ outcome[c] = "interrupt" /\ told[c] = <<"Started">>
  \/ /\ outcome[c] = "error"
     /\ told[c] \in {<<"Started", "Failed">>, <<"Started", "OnError", "Failed">>,
                     <<"Started", "Completed", "Failed">>}

\* A node a hook has refused: outside of the span, or inside of it.
NodeRefused(c) ==
  /\ outcome[c] = "error"
  /\ \/ stop[c] = "guard" /\ told[c] = <<>> /\ c \notin spans
     \/ stop[c] = "app" /\ told[c] = <<"Started">>

NodeStaged(c) ==
  \/ Fresh(c)
  \/ pc[c] = "body" /\ outcome[c] = "none" /\ stop[c] = NoHook /\ told[c] = <<"Started">>
  \/ pc[c] = "after" /\ outcome[c] = "ok" /\ stop[c] = NoHook /\ told[c] = <<"Started">>
  \/ pc[c] = "failing" /\ NodeBroke(c)
  \/ pc[c] \in {"finish", "row"} /\ NodeEnded(c)
  \/ pc[c] = "done" /\ NodeEnded(c) /\ c \notin spans
  \/ pc[c] = "done" /\ NodeRefused(c)

\* The body was done, and only the guard may have rejected what it returned.
Returned(c) ==
  \/ outcome[c] = "ok" /\ stop[c] = NoHook
  \/ outcome[c] = "error" /\ stop[c] = "guard"

ToolStaged(c) ==
  \/ Fresh(c)
  \/ /\ pc[c] \in {"check", "body"} /\ outcome[c] = "none" /\ stop[c] = NoHook
     /\ told[c] = <<"Started">>
  \/ pc[c] = "after" /\ outcome[c] = "ok" /\ stop[c] = NoHook /\ told[c] = <<"Started">>
  \/ pc[c] \in {"row", "leave"} /\ Returned(c) /\ told[c] = <<"Started">>
  \/ /\ pc[c] \in {"failing", "failrow"} /\ outcome[c] \in {"error", "interrupt"}
     /\ told[c] = <<"Started">>
  \/ /\ pc[c] = "done" /\ c \notin spans
     /\ \/ outcome[c] = "ok" /\ stop[c] = NoHook /\ told[c] = <<"Started", "Completed">>
        \/ outcome[c] \in {"error", "interrupt"} /\ told[c] = <<"Started", "Failed">>
        \/ outcome[c] = "error" /\ stop[c] \in {"guard", "app"} /\ told[c] = <<"Started">>

ModelStaged(c) ==
  \/ Fresh(c)
  \/ pc[c] = "body" /\ outcome[c] = "none" /\ stop[c] = NoHook /\ told[c] = <<>>
  \/ pc[c] = "after" /\ outcome[c] = "ok" /\ stop[c] = NoHook /\ told[c] = <<>>
  \/ pc[c] \in {"row", "leave"} /\ Returned(c) /\ told[c] = <<>>
  \/ /\ pc[c] = "done" /\ c \notin spans
     /\ \/ outcome[c] = "ok" /\ stop[c] = NoHook /\ told[c] = <<"ModelCalled">>
        \/ outcome[c] = "error" /\ told[c] = <<>>

Staged(c) ==
  /\ call[c].kind = "node" => NodeStaged(c)
  /\ call[c].kind = "tool" => ToolStaged(c)
  /\ call[c].kind = "model" => ModelStaged(c)

AgentStaged(e) ==
  /\ agent[e] = "new" => e \notin spans
  /\ agent[e] = "done" => e \notin spans \/ ending[e] = "refused"

Stages ==
  /\ spans \subseteq Calls \cup Executions
  /\ \A c \in Calls: Staged(c)
  /\ \A e \in Executions: AgentStaged(e)

-----------------------------------------------------------------------------
(* A step of one call leaves the others where they are.                    *)

LEMMA InitStages == Init => Tables /\ Stages
  BY DEF Init, Tables, ContextStates, Stages, Staged, NodeStaged, ToolStaged, ModelStaged, Fresh,
         AgentStaged

\* Only call c has moved.
OnlyMoves(c) ==
  /\ UNCHANGED <<call, agent, ending, state>>
  /\ DOMAIN pc' = Calls /\ DOMAIN stop' = Calls /\ DOMAIN outcome' = Calls
  /\ DOMAIN told' = Calls /\ DOMAIN timed' = Calls
  /\ \A d \in Calls \ {c}: /\ pc'[d] = pc[d] /\ told'[d] = told[d] /\ stop'[d] = stop[d]
                           /\ outcome'[d] = outcome[d] /\ (d \in spans' <=> d \in spans)
  /\ \A e \in Executions: e \in spans' <=> e \in spans
  /\ spans' \subseteq spans \cup {c}

LEMMA OthersStay ==
  ASSUME Tables, Stages, NEW c \in Calls, OnlyMoves(c), Staged(c)'
  PROVE  Tables' /\ Stages'
<1>1. Tables'
  BY DEF Tables, OnlyMoves
<1>2. ASSUME NEW d \in Calls, d # c
      PROVE  Staged(d)'
  <2>1. Staged(d)
    BY DEF Stages
  <2>2. /\ pc'[d] = pc[d] /\ told'[d] = told[d] /\ stop'[d] = stop[d]
        /\ outcome'[d] = outcome[d] /\ (d \in spans' <=> d \in spans)
        /\ call' = call
    BY <1>2 DEF OnlyMoves
  <2>3. CASE call[d].kind = "node"
    BY <2>1, <2>2, <2>3
       DEF Staged, NodeStaged, Fresh, NodeBroke, NodeEnded, NodeRefused
  <2>4. CASE call[d].kind = "tool"
    BY <2>1, <2>2, <2>4 DEF Staged, ToolStaged, Fresh, Returned
  <2>5. CASE call[d].kind = "model"
    BY <2>1, <2>2, <2>5 DEF Staged, ModelStaged, Fresh, Returned
  <2> QED BY <2>2, <2>3, <2>4, <2>5 DEF Staged
<1>3. \A e \in Executions: AgentStaged(e)'
  BY DEF Stages, AgentStaged, OnlyMoves
<1>4. spans' \subseteq Calls \cup Executions
  BY DEF Stages, OnlyMoves
<1> QED BY <1>1, <1>2, <1>3, <1>4 DEF Stages

LEMMA NodeBeforeStages ==
  ASSUME Tables, Stages, NEW c \in Calls, NodeBefore(c)
  PROVE  Tables' /\ Stages'
<1>1. PICK raising \in Raisings:
        LET fired == Fire(Inwards, raising, Open) IN
        /\ call[c].kind = "node"
        /\ Begins(c)
        /\ FireBefore(c, fired)
        /\ spans' = IF "tracing" \in fired.ran THEN OpenSpan(c) ELSE spans
        /\ Tell(c, IF "events" \in fired.ran THEN <<"Started">> ELSE <<>>)
        /\ outcome' = [outcome EXCEPT ![c] = IF fired.stop = NoHook THEN "none" ELSE "error"]
        /\ Goto(c, IF fired.stop = NoHook THEN "body" ELSE "done")
        /\ UNCHANGED <<call, timed, agentVars, errors>>
  BY DEF NodeBefore
<1> DEFINE fired == Fire(Inwards, raising, Open)
<1>2. \/ fired.stop \in {NoHook, "app"} /\ Watching \subseteq fired.ran
      \/ fired.stop = "guard" /\ Watching \cap fired.ran = {}
  BY FireInwards
<1> HIDE DEF fired
<1>3. /\ spans' = IF "tracing" \in fired.ran THEN spans \cup {c} ELSE spans
      /\ told' = [told EXCEPT ![c] = @ \o IF "events" \in fired.ran THEN <<"Started">> ELSE <<>>]
      /\ outcome' = [outcome EXCEPT ![c] = IF fired.stop = NoHook THEN "none" ELSE "error"]
      /\ pc' = [pc EXCEPT ![c] = IF fired.stop = NoHook THEN "body" ELSE "done"]
      /\ stop' = [stop EXCEPT ![c] = fired.stop]
      /\ UNCHANGED <<call, timed, agent, ending, state>>
  BY <1>1 DEF fired, FireBefore, OpenSpan, Tell, Goto, agentVars
<1>4. OnlyMoves(c)
  BY <1>3, ObservationAssumption DEF OnlyMoves, Tables
<1>5. call[c].kind = "node" /\ Fresh(c)
  BY <1>1 DEF Stages, Staged, NodeStaged, Begins, At
<1>6. told'[c] = IF "events" \in fired.ran THEN <<"Started">> ELSE <<>>
  BY <1>3, <1>5, Telling DEF Fresh, Tables
<1>7. NodeStaged(c)'
  <2>1. CASE fired.stop = NoHook
    <3>1. told'[c] = <<"Started">>
      BY <1>2, <1>6, <2>1, ChainAssumption DEF Watching
    <3> QED BY <1>3, <2>1, <3>1 DEF NodeStaged, Tables
  <2>2. CASE fired.stop = "app"
    <3>1. told'[c] = <<"Started">>
      BY <1>2, <1>6, <2>2 DEF Watching
    <3> QED BY <1>3, <2>2, <3>1, ChainAssumption DEF NodeStaged, NodeRefused, Tables
  <2>3. CASE fired.stop = "guard"
    <3>1. told'[c] = <<>> /\ spans' = spans
      BY <1>2, <1>3, <1>6, <2>3, ChainAssumption DEF Watching
    <3> QED BY <1>3, <1>5, <2>3, <3>1, ChainAssumption DEF NodeStaged, NodeRefused, Tables, Fresh
  <2> QED BY <1>2, <2>1, <2>2, <2>3
<1>8. Staged(c)'
  BY <1>3, <1>5, <1>7 DEF Staged
<1> QED BY <1>4, <1>8, OthersStay

\* What a node function in its pipelines comes to.
LEMMA NodeFunctions ==
  ASSUME NEW parts \in NodeParts
  PROVE  LET r == NodeFunction(parts)
         IN /\ r.outcome \in {"ok", "error", "interrupt"} /\ r.onError \in BOOLEAN
            /\ r.onError => r.outcome = "error"
  BY DEF NodeParts, NodeFunction, FireError, IsControlFlow, CoerceOutput

LEMMA NodeBodyStages ==
  ASSUME Tables, Stages, NEW c \in Calls, NodeBody(c)
  PROVE  Tables' /\ Stages'
<1>1. PICK parts \in NodeParts:
        /\ call[c].kind = "node"
        /\ At(c, "body")
        /\ outcome' = [outcome EXCEPT ![c] = NodeFunction(parts).outcome]
        /\ Tell(c, IF NodeFunction(parts).onError THEN <<"OnError">> ELSE <<>>)
        /\ Goto(c, IF NodeFunction(parts).outcome = "ok" THEN "after" ELSE "failing")
        /\ UNCHANGED <<call, stop, timed, agentVars, spans>>
  BY DEF NodeBody
<1> DEFINE r == NodeFunction(parts)
<1>2. /\ r.outcome \in {"ok", "error", "interrupt"} /\ r.onError \in BOOLEAN
      /\ r.onError => r.outcome = "error"
  BY NodeFunctions
<1>3. /\ outcome' = [outcome EXCEPT ![c] = r.outcome]
      /\ told' = [told EXCEPT ![c] = @ \o IF r.onError THEN <<"OnError">> ELSE <<>>]
      /\ pc' = [pc EXCEPT ![c] = IF r.outcome = "ok" THEN "after" ELSE "failing"]
      /\ UNCHANGED <<call, stop, timed, agent, ending, state, spans>>
  BY <1>1 DEF Tell, Goto, agentVars
<1> HIDE DEF r
<1>4. OnlyMoves(c)
  BY <1>3 DEF OnlyMoves, Tables
<1>5. /\ call[c].kind = "node" /\ stop[c] = NoHook /\ told[c] = <<"Started">>
  BY <1>1 DEF Stages, Staged, NodeStaged, Fresh, At
<1>6. told'[c] = IF r.onError THEN <<"Started", "OnError">> ELSE <<"Started">>
  <2>1. told'[c] = <<"Started">> \o IF r.onError THEN <<"OnError">> ELSE <<>>
    BY <1>3, <1>5 DEF Tables
  <2>2. <<"Started">> \o <<>> = <<"Started">> /\ <<"Started">> \o <<"OnError">> = <<"Started", "OnError">>
    <3> DEFINE S == {"Started", "OnError"}
    <3>1. "Started" \in S /\ "OnError" \in S
      OBVIOUS
    <3> HIDE DEF S
    <3> QED BY <3>1, Telling
  <2> QED BY <2>1, <2>2
<1>7. NodeStaged(c)'
  BY <1>2, <1>3, <1>5, <1>6 DEF NodeStaged, NodeBroke, Tables
<1>8. Staged(c)'
  BY <1>3, <1>5, <1>7 DEF Staged
<1> QED BY <1>4, <1>8, OthersStay

LEMMA NodeAfterStages ==
  ASSUME Tables, Stages, NEW c \in Calls, NodeAfter(c)
  PROVE  Tables' /\ Stages'
<1>1. PICK raising \in Raisings:
        LET fired == Fire(Outwards, raising, Open) IN
        /\ call[c].kind = "node"
        /\ At(c, "after")
        /\ Tell(c, IF "events" \in fired.ran THEN <<"Completed">> ELSE <<>>)
        /\ stop' = [stop EXCEPT ![c] = fired.stop]
        /\ outcome' = [outcome EXCEPT ![c] = IF fired.stop = NoHook THEN "ok" ELSE "error"]
        /\ Goto(c, IF fired.stop = NoHook THEN "finish" ELSE "failing")
        /\ UNCHANGED <<call, timed, agentVars, spans>>
  BY DEF NodeAfter
<1> DEFINE fired == Fire(Outwards, raising, Open)
<1>2. \/ fired.stop \in {NoHook, "guard"} /\ Watching \subseteq fired.ran
      \/ fired.stop = "app" /\ Watching \cap fired.ran = {}
  BY FireOutwards
<1>3. /\ outcome' = [outcome EXCEPT ![c] = IF fired.stop = NoHook THEN "ok" ELSE "error"]
      /\ told' = [told EXCEPT ![c] = @ \o IF "events" \in fired.ran THEN <<"Completed">> ELSE <<>>]
      /\ pc' = [pc EXCEPT ![c] = IF fired.stop = NoHook THEN "finish" ELSE "failing"]
      /\ stop' = [stop EXCEPT ![c] = fired.stop]
      /\ UNCHANGED <<call, timed, agent, ending, state, spans>>
  BY <1>1 DEF Tell, Goto, agentVars
<1> HIDE DEF fired
<1>4. OnlyMoves(c)
  BY <1>3 DEF OnlyMoves, Tables
<1>5. call[c].kind = "node" /\ told[c] = <<"Started">>
  BY <1>1 DEF Stages, Staged, NodeStaged, Fresh, At
<1>6. told'[c] = IF "events" \in fired.ran THEN <<"Started", "Completed">> ELSE <<"Started">>
  <2>1. told'[c] = <<"Started">> \o IF "events" \in fired.ran THEN <<"Completed">> ELSE <<>>
    BY <1>3, <1>5 DEF Tables
  <2>2. /\ <<"Started">> \o <<>> = <<"Started">>
        /\ <<"Started">> \o <<"Completed">> = <<"Started", "Completed">>
    <3> DEFINE S == {"Started", "Completed"}
    <3>1. "Started" \in S /\ "Completed" \in S
      OBVIOUS
    <3> HIDE DEF S
    <3> QED BY <3>1, Telling
  <2> QED BY <2>1, <2>2
<1>7. NodeStaged(c)'
  <2>1. CASE fired.stop = NoHook
    <3>1. told'[c] = <<"Started", "Completed">>
      BY <1>2, <1>6, <2>1, ChainAssumption DEF Watching
    <3> QED BY <1>3, <2>1, <3>1 DEF NodeStaged, NodeEnded, Tables
  <2>2. CASE fired.stop # NoHook
    <3>1. told'[c] \in {<<"Started", "Completed">>, <<"Started">>}
      BY <1>6
    <3> QED BY <1>3, <2>2, <3>1 DEF NodeStaged, NodeBroke, Tables
  <2> QED BY <2>1, <2>2
<1>8. Staged(c)'
  BY <1>3, <1>5, <1>7 DEF Staged
<1> QED BY <1>4, <1>8, OthersStay

LEMMA NodeFailStages ==
  ASSUME Tables, Stages, NEW c \in Calls, NodeFail(c)
  PROVE  Tables' /\ Stages'
<1>1. /\ call[c].kind = "node" /\ At(c, "failing")
      /\ pc' = [pc EXCEPT ![c] = "finish"]
      /\ UNCHANGED <<call, stop, outcome, timed, agent, ending, state, spans>>
      /\ IF IsControlFlow(outcome[c]) THEN told' = told
         ELSE told' = [told EXCEPT ![c] = @ \o <<"Failed">>]
  BY DEF NodeFail, Goto, Tell, agentVars
<1>2. OnlyMoves(c)
  BY <1>1 DEF OnlyMoves, Tables
<1>3. NodeBroke(c)
  BY <1>1 DEF Stages, Staged, NodeStaged, Fresh, At
<1>4. NodeStaged(c)'
  <2>1. CASE outcome[c] = "interrupt"
    BY <1>1, <1>3, <2>1 DEF NodeStaged, NodeEnded, NodeBroke, IsControlFlow, Tables
  <2>2. CASE outcome[c] = "error"
    <3>1. told'[c] = told[c] \o <<"Failed">>
      BY <1>1, <2>2 DEF IsControlFlow, Tables
    <3>2. /\ <<"Started">> \o <<"Failed">> = <<"Started", "Failed">>
          /\ <<"Started", "OnError">> \o <<"Failed">> = <<"Started", "OnError", "Failed">>
          /\ <<"Started", "Completed">> \o <<"Failed">> = <<"Started", "Completed", "Failed">>
      <4> DEFINE S == {"Started", "Completed", "OnError", "Failed"}
      <4>1. "Started" \in S /\ "Completed" \in S /\ "OnError" \in S /\ "Failed" \in S
        OBVIOUS
      <4> HIDE DEF S
      <4> QED BY <4>1, Telling
    <3>3. told[c] \in {<<"Started">>, <<"Started", "OnError">>, <<"Started", "Completed">>}
      BY <1>3, <2>2 DEF NodeBroke
    <3>4. told'[c] \in {<<"Started", "Failed">>, <<"Started", "OnError", "Failed">>,
                        <<"Started", "Completed", "Failed">>}
      BY <3>1, <3>2, <3>3
    <3> QED BY <1>1, <2>2, <3>4 DEF NodeStaged, NodeEnded, Tables
  <2> QED BY <1>3, <2>1, <2>2 DEF NodeBroke
<1>5. Staged(c)'
  BY <1>1, <1>4 DEF Staged
<1> QED BY <1>2, <1>5, OthersStay

LEMMA NodeFinishStages ==
  ASSUME Tables, Stages, NEW c \in Calls, NodeFinish(c)
  PROVE  Tables' /\ Stages'
<1>1. /\ call[c].kind = "node" /\ At(c, "finish")
      /\ pc' = [pc EXCEPT ![c] = "row"]
      /\ DOMAIN timed' = DOMAIN timed
      /\ UNCHANGED <<call, stop, outcome, told, agent, ending, state, spans>>
  BY DEF NodeFinish, Goto, FinishTimer, agentVars
<1>2. OnlyMoves(c)
  BY <1>1 DEF OnlyMoves, Tables
<1>3. NodeStaged(c)'
  BY <1>1 DEF Stages, Staged, NodeStaged, NodeEnded, Fresh, At, Tables
<1> QED BY <1>1, <1>2, <1>3, OthersStay DEF Staged

LEMMA NodeRowStages ==
  ASSUME Tables, Stages, NEW c \in Calls, NodeRow(c)
  PROVE  Tables' /\ Stages'
<1>1. /\ call[c].kind = "node" /\ At(c, "row")
      /\ pc' = [pc EXCEPT ![c] = "done"]
      /\ DOMAIN timed' = DOMAIN timed
      /\ spans' = spans \ {c}
      /\ UNCHANGED <<call, stop, outcome, told, agent, ending, state>>
  BY DEF NodeRow, Goto, EndSpan, agentVars
<1>2. OnlyMoves(c)
  BY <1>1, ObservationAssumption DEF OnlyMoves, Tables
<1>3. NodeStaged(c)'
  BY <1>1 DEF Stages, Staged, NodeStaged, NodeEnded, Fresh, At, Tables
<1> QED BY <1>1, <1>2, <1>3, OthersStay DEF Staged

LEMMA ToolStartStages ==
  ASSUME Tables, Stages, NEW c \in Calls, ToolStart(c)
  PROVE  Tables' /\ Stages'
<1>1. /\ call[c].kind = "tool" /\ At(c, "idle")
      /\ pc' = [pc EXCEPT ![c] = "check"]
      /\ told' = [told EXCEPT ![c] = @ \o <<"Started">>]
      /\ spans' = spans \cup {c}
      /\ UNCHANGED <<call, stop, outcome, timed, agent, ending, state>>
  BY DEF ToolStart, Begins, Goto, Tell, OpenSpan, agentVars
<1>2. OnlyMoves(c)
  BY <1>1, ObservationAssumption DEF OnlyMoves, Tables
<1>3. Fresh(c)
  BY <1>1 DEF Stages, Staged, ToolStaged, At
<1>4. told'[c] = <<"Started">>
  <2>1. told'[c] = <<>> \o <<"Started">>
    BY <1>1, <1>3 DEF Tables, Fresh
  <2> QED BY <2>1, Telling
<1>5. ToolStaged(c)'
  BY <1>1, <1>3, <1>4 DEF ToolStaged, Fresh, Tables
<1> QED BY <1>1, <1>2, <1>5, OthersStay DEF Staged

\* Only tools are checked.
LEMMA Checked ==
  ASSUME Tables, Stages, NEW c \in Calls, pc[c] = "check"
  PROVE  /\ call[c].kind = "tool"
         /\ outcome[c] = "none" /\ stop[c] = NoHook /\ told[c] = <<"Started">>
<1>1. call[c].kind \in {"node", "tool", "model"}
  BY DEF Tables, Kinds
<1>2. call[c].kind # "node"
  BY DEF Stages, Staged, NodeStaged, Fresh
<1>3. call[c].kind # "model"
  BY DEF Stages, Staged, ModelStaged, Fresh
<1> QED BY <1>1, <1>2, <1>3 DEF Stages, Staged, ToolStaged, Fresh

LEMMA ToolRefusedStages ==
  ASSUME Tables, Stages, NEW c \in Calls, ToolRefused(c)
  PROVE  Tables' /\ Stages'
<1>1. /\ pc[c] = "check"
      /\ pc' = [pc EXCEPT ![c] = "failing"]
      /\ outcome' = [outcome EXCEPT ![c] = "error"]
      /\ UNCHANGED <<call, stop, told, timed, agent, ending, state, spans>>
  BY DEF ToolRefused, Goto, At, agentVars
<1>2. OnlyMoves(c)
  BY <1>1 DEF OnlyMoves, Tables
<1>3. ToolStaged(c)'
  BY <1>1, Checked DEF ToolStaged, Tables
<1> QED BY <1>1, <1>2, <1>3, Checked, OthersStay DEF Staged

LEMMA ToolBeforeStages ==
  ASSUME Tables, Stages, NEW c \in Calls, ToolBefore(c)
  PROVE  Tables' /\ Stages'
<1>1. pc[c] = "check"
  BY DEF ToolBefore, At
<1>2. PICK raising \in Raisings:
        LET fired == Fire(Inwards, raising, Open) IN
        /\ FireBefore(c, fired)
        /\ outcome' = [outcome EXCEPT ![c] = IF fired.stop = NoHook THEN "none" ELSE "error"]
        /\ Goto(c, IF fired.stop = NoHook THEN "body" ELSE "failing")
        /\ UNCHANGED <<call, told, timed, agentVars, spans>>
  BY DEF ToolBefore
<1> DEFINE fired == Fire(Inwards, raising, Open)
<1>3. /\ outcome' = [outcome EXCEPT ![c] = IF fired.stop = NoHook THEN "none" ELSE "error"]
      /\ pc' = [pc EXCEPT ![c] = IF fired.stop = NoHook THEN "body" ELSE "failing"]
      /\ stop' = [stop EXCEPT ![c] = fired.stop]
      /\ UNCHANGED <<call, told, timed, agent, ending, state, spans>>
  BY <1>2 DEF FireBefore, Goto, agentVars
<1> HIDE DEF fired
<1>4. OnlyMoves(c)
  BY <1>3 DEF OnlyMoves, Tables
<1>5. ToolStaged(c)'
  BY <1>1, <1>3, Checked DEF ToolStaged, Tables
<1> QED BY <1>1, <1>3, <1>4, <1>5, Checked, OthersStay DEF Staged

LEMMA ToolFailStages ==
  ASSUME Tables, Stages, NEW c \in Calls, ToolFail(c)
  PROVE  Tables' /\ Stages'
<1>1. /\ call[c].kind = "tool" /\ pc[c] = "failing"
      /\ pc' = [pc EXCEPT ![c] = "failrow"]
      /\ DOMAIN timed' = DOMAIN timed
      /\ UNCHANGED <<call, stop, outcome, told, agent, ending, state, spans>>
  BY DEF ToolFail, Goto, FinishTimer, agentVars, At
<1>2. OnlyMoves(c)
  BY <1>1 DEF OnlyMoves, Tables
<1>3. ToolStaged(c)'
  BY <1>1 DEF Stages, Staged, ToolStaged, Fresh, Tables
<1> QED BY <1>1, <1>2, <1>3, OthersStay DEF Staged

\* Only tools have a row of their failure.
LEMMA FailedTool ==
  ASSUME Tables, Stages, NEW c \in Calls, pc[c] = "failrow"
  PROVE  /\ call[c].kind = "tool" /\ outcome[c] \in {"error", "interrupt"}
         /\ told[c] = <<"Started">>
<1>1. call[c].kind \in {"node", "tool", "model"}
  BY DEF Tables, Kinds
<1>2. call[c].kind # "node"
  BY DEF Stages, Staged, NodeStaged, Fresh
<1>3. call[c].kind # "model"
  BY DEF Stages, Staged, ModelStaged, Fresh
<1> QED BY <1>1, <1>2, <1>3 DEF Stages, Staged, ToolStaged, Fresh

LEMMA ToolFailedStages ==
  ASSUME Tables, Stages, NEW c \in Calls, ToolFailed(c)
  PROVE  Tables' /\ Stages'
<1>1. /\ pc[c] = "failrow"
      /\ pc' = [pc EXCEPT ![c] = "done"]
      /\ told' = [told EXCEPT ![c] = @ \o <<"Failed">>]
      /\ spans' = spans \ {c}
      /\ DOMAIN timed' = DOMAIN timed
      /\ UNCHANGED <<call, stop, outcome, agent, ending, state>>
  BY DEF ToolFailed, Goto, Tell, LeaveSpan, agentVars, At
<1>2. OnlyMoves(c)
  BY <1>1, ObservationAssumption DEF OnlyMoves, Tables
<1>3. told'[c] = <<"Started", "Failed">>
  <2>1. told'[c] = <<"Started">> \o <<"Failed">>
    BY <1>1, FailedTool DEF Tables
  <2> DEFINE S == {"Started", "Failed"}
  <2>2. "Started" \in S /\ "Failed" \in S
    OBVIOUS
  <2> HIDE DEF S
  <2> QED BY <2>1, <2>2, Telling
<1>4. ToolStaged(c)'
  BY <1>1, <1>3, FailedTool DEF ToolStaged, Tables
<1> QED BY <1>1, <1>2, <1>4, FailedTool, OthersStay DEF Staged

LEMMA ModelBeforeStages ==
  ASSUME Tables, Stages, NEW c \in Calls, ModelBefore(c)
  PROVE  Tables' /\ Stages'
<1>1. PICK raising \in Raisings:
        LET fired == Fire(Inwards, raising, Open) IN
        /\ call[c].kind = "model"
        /\ Begins(c)
        /\ FireBefore(c, fired)
        /\ spans' = IF fired.stop = NoHook THEN OpenSpan(c) ELSE spans
        /\ outcome' = [outcome EXCEPT ![c] = IF fired.stop = NoHook THEN "none" ELSE "error"]
        /\ Goto(c, IF fired.stop = NoHook THEN "body" ELSE "done")
        /\ UNCHANGED <<call, told, timed, agentVars>>
  BY DEF ModelBefore
<1> DEFINE fired == Fire(Inwards, raising, Open)
<1>2. /\ spans' = IF fired.stop = NoHook THEN spans \cup {c} ELSE spans
      /\ outcome' = [outcome EXCEPT ![c] = IF fired.stop = NoHook THEN "none" ELSE "error"]
      /\ pc' = [pc EXCEPT ![c] = IF fired.stop = NoHook THEN "body" ELSE "done"]
      /\ stop' = [stop EXCEPT ![c] = fired.stop]
      /\ UNCHANGED <<call, told, timed, agent, ending, state>>
  BY <1>1 DEF FireBefore, OpenSpan, Goto, agentVars
<1> HIDE DEF fired
<1>3. OnlyMoves(c)
  BY <1>2, ObservationAssumption DEF OnlyMoves, Tables
<1>4. call[c].kind = "model" /\ Fresh(c)
  BY <1>1 DEF Stages, Staged, ModelStaged, Begins, At
<1>5. ModelStaged(c)'
  BY <1>2, <1>4 DEF ModelStaged, Fresh, Tables
<1> QED BY <1>2, <1>3, <1>4, <1>5, OthersStay DEF Staged

LEMMA BoundaryBodyStages ==
  ASSUME Tables, Stages, NEW c \in Calls, BoundaryBody(c)
  PROVE  Tables' /\ Stages'
<1>1. PICK end \in {"ok", "error"} \cup (IF call[c].kind = "tool" THEN {"interrupt"} ELSE {}):
        /\ Boundary(c)
        /\ At(c, "body")
        /\ outcome' = [outcome EXCEPT ![c] = end]
        /\ IF end = "ok" THEN Goto(c, "after") /\ UNCHANGED spans
           ELSE IF call[c].kind = "tool" THEN Goto(c, "failing") /\ UNCHANGED spans
           ELSE Goto(c, "done") /\ spans' = LeaveSpan(c)
        /\ UNCHANGED <<call, stop, told, timed, agentVars>>
  BY DEF BoundaryBody
<1>2. /\ outcome' = [outcome EXCEPT ![c] = end]
      /\ pc' = [pc EXCEPT ![c] = IF end = "ok" THEN "after"
                                 ELSE IF call[c].kind = "tool" THEN "failing" ELSE "done"]
      /\ spans' = IF end # "ok" /\ call[c].kind # "tool" THEN spans \ {c} ELSE spans
      /\ UNCHANGED <<call, stop, told, timed, agent, ending, state>>
  BY <1>1 DEF Goto, LeaveSpan, agentVars
<1>3. OnlyMoves(c)
  BY <1>2, ObservationAssumption DEF OnlyMoves, Tables
<1>4. CASE call[c].kind = "tool"
  <2>1. stop[c] = NoHook /\ told[c] = <<"Started">>
    BY <1>1, <1>4 DEF Stages, Staged, ToolStaged, Fresh, At
  <2>2. ToolStaged(c)'
    BY <1>1, <1>2, <1>4, <2>1 DEF ToolStaged, Tables
  <2> QED BY <1>2, <1>3, <1>4, <2>2, OthersStay DEF Staged
<1>5. CASE call[c].kind = "model"
  <2>1. stop[c] = NoHook /\ told[c] = <<>>
    BY <1>1, <1>5 DEF Stages, Staged, ModelStaged, Fresh, At
  <2>2. ModelStaged(c)'
    BY <1>1, <1>2, <1>5, <2>1 DEF ModelStaged, Tables
  <2> QED BY <1>2, <1>3, <1>5, <2>2, OthersStay DEF Staged
<1> QED BY <1>1, <1>4, <1>5 DEF Boundary

LEMMA BoundaryAfterStages ==
  ASSUME Tables, Stages, NEW c \in Calls, BoundaryAfter(c)
  PROVE  Tables' /\ Stages'
<1>1. PICK raising \in Raisings:
        LET fired == Fire(Outwards, raising, Open) IN
        /\ Boundary(c)
        /\ At(c, "after")
        /\ stop' = [stop EXCEPT ![c] = fired.stop]
        /\ outcome' = [outcome EXCEPT ![c] = IF fired.stop = NoHook THEN "ok" ELSE "error"]
        /\ IF "recorder" \in fired.ran THEN FinishTimer(c) /\ Goto(c, "row") /\ UNCHANGED spans
           ELSE UNCHANGED <<timed, timer>> /\ Goto(c, "done") /\ spans' = LeaveSpan(c)
        /\ UNCHANGED <<call, told, agentVars>>
  BY DEF BoundaryAfter
<1> DEFINE fired == Fire(Outwards, raising, Open)
<1>2. \/ fired.stop \in {NoHook, "guard"} /\ Watching \subseteq fired.ran
      \/ fired.stop = "app" /\ Watching \cap fired.ran = {}
  BY FireOutwards
<1> DEFINE ran == "recorder" \in fired.ran
<1>3. /\ outcome' = [outcome EXCEPT ![c] = IF fired.stop = NoHook THEN "ok" ELSE "error"]
      /\ stop' = [stop EXCEPT ![c] = fired.stop]
      /\ pc' = [pc EXCEPT ![c] = IF ran THEN "row" ELSE "done"]
      /\ spans' = IF ran THEN spans ELSE spans \ {c}
      /\ DOMAIN timed' = DOMAIN timed
      /\ UNCHANGED <<call, told, agent, ending, state>>
  BY <1>1 DEF Goto, LeaveSpan, FinishTimer, agentVars
<1>4. IF ran THEN fired.stop \in {NoHook, "guard"} ELSE fired.stop = "app"
  BY <1>2 DEF Watching
<1> HIDE DEF fired, ran
<1>5. OnlyMoves(c)
  BY <1>3, ObservationAssumption DEF OnlyMoves, Tables
<1>6. CASE call[c].kind = "tool"
  <2>1. told[c] = <<"Started">>
    BY <1>1, <1>6 DEF Stages, Staged, ToolStaged, Fresh, At
  <2>2. ToolStaged(c)'
    BY <1>3, <1>4, <2>1, ChainAssumption DEF ToolStaged, Returned, Tables
  <2> QED BY <1>3, <1>5, <1>6, <2>2, OthersStay DEF Staged
<1>7. CASE call[c].kind = "model"
  <2>1. told[c] = <<>>
    BY <1>1, <1>7 DEF Stages, Staged, ModelStaged, Fresh, At
  <2>2. ModelStaged(c)'
    BY <1>3, <1>4, <2>1, ChainAssumption DEF ModelStaged, Returned, Tables
  <2> QED BY <1>3, <1>5, <1>7, <2>2, OthersStay DEF Staged
<1> QED BY <1>1, <1>6, <1>7 DEF Boundary

LEMMA BoundaryRowStages ==
  ASSUME Tables, Stages, NEW c \in Calls, BoundaryRow(c)
  PROVE  Tables' /\ Stages'
<1>1. /\ Boundary(c) /\ pc[c] = "row"
      /\ pc' = [pc EXCEPT ![c] = "leave"]
      /\ DOMAIN timed' = DOMAIN timed
      /\ UNCHANGED <<call, stop, outcome, told, agent, ending, state, spans>>
  BY DEF BoundaryRow, Goto, At, agentVars
<1>2. OnlyMoves(c)
  BY <1>1 DEF OnlyMoves, Tables
<1>3. CASE call[c].kind = "tool"
  <2>1. ToolStaged(c)'
    BY <1>1, <1>3 DEF Stages, Staged, ToolStaged, Fresh, Returned, Tables
  <2> QED BY <1>1, <1>2, <1>3, <2>1, OthersStay DEF Staged
<1>4. CASE call[c].kind = "model"
  <2>1. ModelStaged(c)'
    BY <1>1, <1>4 DEF Stages, Staged, ModelStaged, Fresh, Returned, Tables
  <2> QED BY <1>1, <1>2, <1>4, <2>1, OthersStay DEF Staged
<1> QED BY <1>1, <1>3, <1>4 DEF Boundary

\* Only tools and models are left behind their rows.
LEMMA Leaving ==
  ASSUME Tables, Stages, NEW c \in Calls, pc[c] = "leave"
  PROVE  /\ call[c].kind \in {"tool", "model"} /\ Returned(c)
         /\ told[c] = IF call[c].kind = "tool" THEN <<"Started">> ELSE <<>>
<1>1. call[c].kind \in {"node", "tool", "model"}
  BY DEF Tables, Kinds
<1>2. call[c].kind # "node"
  BY DEF Stages, Staged, NodeStaged, Fresh
<1> QED BY <1>1, <1>2 DEF Stages, Staged, ToolStaged, ModelStaged, Fresh

LEMMA BoundaryLeaveStages ==
  ASSUME Tables, Stages, NEW c \in Calls, BoundaryLeave(c)
  PROVE  Tables' /\ Stages'
<1>1. /\ pc[c] = "leave"
      /\ pc' = [pc EXCEPT ![c] = "done"]
      /\ spans' = spans \ {c}
      /\ UNCHANGED <<call, stop, outcome, timed, agent, ending, state>>
  BY DEF BoundaryLeave, Goto, LeaveSpan, At, agentVars
<1>2. told' = IF stop[c] = "guard" THEN told
              ELSE [told EXCEPT ![c] = @ \o IF call[c].kind = "tool" THEN <<"Completed">>
                                            ELSE <<"ModelCalled">>]
  BY DEF BoundaryLeave, Tell
<1>3. OnlyMoves(c)
  BY <1>1, <1>2, ObservationAssumption DEF OnlyMoves, Tables
<1>4. Returned(c)
  BY <1>1, Leaving
<1>5. CASE call[c].kind = "tool"
  <2>1. told[c] = <<"Started">>
    BY <1>1, <1>5, Leaving
  <2>2. <<"Started">> \o <<"Completed">> = <<"Started", "Completed">>
    <3> DEFINE S == {"Started", "Completed"}
    <3>1. "Started" \in S /\ "Completed" \in S
      OBVIOUS
    <3> HIDE DEF S
    <3> QED BY <3>1, Telling
  <2>3. told'[c] = IF stop[c] = "guard" THEN <<"Started">> ELSE <<"Started", "Completed">>
    BY <1>2, <1>5, <2>1, <2>2 DEF Tables
  <2>4. ToolStaged(c)'
    BY <1>1, <1>4, <2>3, ChainAssumption DEF ToolStaged, Returned, Tables
  <2> QED BY <1>1, <1>3, <1>5, <2>4, OthersStay DEF Staged
<1>6. CASE call[c].kind = "model"
  <2>1. told[c] = <<>>
    BY <1>1, <1>6, Leaving
  <2>2. told'[c] = IF stop[c] = "guard" THEN <<>> ELSE <<"ModelCalled">>
    BY <1>2, <1>6, <2>1, Telling DEF Tables
  <2>3. ModelStaged(c)'
    BY <1>1, <1>4, <2>2, ChainAssumption DEF ModelStaged, Returned, Tables
  <2> QED BY <1>1, <1>3, <1>6, <2>3, OthersStay DEF Staged
<1> QED BY <1>1, <1>5, <1>6, Leaving

\* What an execution does leaves its calls where they are.
LEMMA CallsStay ==
  ASSUME Tables, Stages, NEW e \in Executions, UNCHANGED callVars,
         DOMAIN agent' = Executions, DOMAIN ending' = Executions,
         \A x \in Executions \ {e}: agent'[x] = agent[x] /\ ending'[x] = ending[x],
         state' \in [Executions -> ContextStates],
         spans' \in {spans, spans \cup {e}, spans \ {e}}, AgentStaged(e)'
  PROVE  Tables' /\ Stages'
<1>1. UNCHANGED <<call, pc, stop, outcome, told, timed>>
  BY DEF callVars
<1>2. Tables'
  BY <1>1 DEF Tables
<1>3. \A c \in Calls: c \in spans' <=> c \in spans
  BY ObservationAssumption
<1>4. \A x \in Executions \ {e}: x \in spans' <=> x \in spans
  OBVIOUS
<1>5. ASSUME NEW c \in Calls
      PROVE  Staged(c)'
  BY <1>1, <1>3 DEF Stages, Staged, NodeStaged, ToolStaged, ModelStaged, Fresh, NodeBroke,
                    NodeEnded, NodeRefused, Returned
<1>6. \A x \in Executions: AgentStaged(x)'
  BY <1>4 DEF Stages, AgentStaged
<1>7. spans' \subseteq Calls \cup Executions
  BY DEF Stages
<1> QED BY <1>2, <1>5, <1>6, <1>7 DEF Stages

LEMMA AgentStages ==
  ASSUME Tables, Stages, NEW e \in Executions, AgentStep(e)
  PROVE  Tables' /\ Stages'
<1>1. CASE AgentBegin(e)
  <2>1. PICK raising \in Raisings:
          LET fired == Fire(Inwards, raising, Open) IN
          /\ agent[e] = "new"
          /\ spans' = IF "tracing" \in fired.ran THEN OpenSpan(e) ELSE spans
          /\ ending' = [ending EXCEPT ![e] = IF fired.stop = NoHook THEN "none" ELSE "refused"]
          /\ AgentGoto(e, IF fired.stop = NoHook THEN "running" ELSE "done")
          /\ UNCHANGED <<callVars, state>>
    BY <1>1 DEF AgentBegin
  <2>2. AgentStaged(e)'
    BY <2>1 DEF AgentStaged, AgentGoto, Tables
  <2>3. /\ DOMAIN agent' = Executions /\ DOMAIN ending' = Executions
        /\ \A x \in Executions \ {e}: agent'[x] = agent[x] /\ ending'[x] = ending[x]
        /\ spans' \in {spans, spans \cup {e}, spans \ {e}} /\ UNCHANGED callVars
        /\ state' \in [Executions -> ContextStates]
    BY <2>1 DEF AgentGoto, OpenSpan, Tables
  <2> QED BY <2>2, <2>3, CallsStay
<1>2. CASE AgentBreak(e)
  <2>1. AgentStaged(e)'
    BY <1>2 DEF AgentBreak, AgentStaged, AgentGoto, Tables
  <2>2. /\ DOMAIN agent' = Executions /\ DOMAIN ending' = Executions
        /\ \A x \in Executions \ {e}: agent'[x] = agent[x] /\ ending'[x] = ending[x]
        /\ spans' \in {spans, spans \cup {e}, spans \ {e}} /\ UNCHANGED callVars
        /\ state' \in [Executions -> ContextStates]
    BY <1>2 DEF AgentBreak, AgentGoto, FailureState, ContextStates, Tables
  <2> QED BY <2>1, <2>2, CallsStay
<1>3. CASE AgentAfter(e)
  <2>1. AgentStaged(e)'
    BY <1>3 DEF AgentAfter, AgentStaged, AgentGoto, Tables
  <2>2. /\ DOMAIN agent' = Executions /\ DOMAIN ending' = Executions
        /\ \A x \in Executions \ {e}: agent'[x] = agent[x] /\ ending'[x] = ending[x]
        /\ spans' \in {spans, spans \cup {e}, spans \ {e}} /\ UNCHANGED callVars
        /\ state' \in [Executions -> ContextStates]
    BY <1>3 DEF AgentAfter, AgentGoto, ResultState, ContextStates, Tables
  <2> QED BY <2>1, <2>2, CallsStay
<1>4. CASE AgentFail(e)
  <2>1. AgentStaged(e)'
    BY <1>4 DEF AgentFail, AgentStaged, AgentGoto, Tables
  <2>2. /\ DOMAIN agent' = Executions /\ DOMAIN ending' = Executions
        /\ \A x \in Executions \ {e}: agent'[x] = agent[x] /\ ending'[x] = ending[x]
        /\ spans' \in {spans, spans \cup {e}, spans \ {e}} /\ UNCHANGED callVars
        /\ state' \in [Executions -> ContextStates]
    BY <1>4 DEF AgentFail, AgentGoto, Tables
  <2> QED BY <2>1, <2>2, CallsStay
<1>5. CASE AgentFinally(e)
  <2>1. AgentStaged(e)'
    BY <1>5 DEF AgentFinally, AgentStaged, AgentGoto, EndSpan, Tables
  <2>2. /\ DOMAIN agent' = Executions /\ DOMAIN ending' = Executions
        /\ \A x \in Executions \ {e}: agent'[x] = agent[x] /\ ending'[x] = ending[x]
        /\ spans' \in {spans, spans \cup {e}, spans \ {e}} /\ UNCHANGED callVars
        /\ state' \in [Executions -> ContextStates]
    BY <1>5 DEF AgentFinally, AgentGoto, EndSpan, Tables
  <2> QED BY <2>1, <2>2, CallsStay
<1> QED BY <1>1, <1>2, <1>3, <1>4, <1>5 DEF AgentStep

LEMMA NextStages == Tables /\ Stages /\ [Next]_vars => (Tables /\ Stages)'
<1> SUFFICES ASSUME Tables, Stages, [Next]_vars PROVE Tables' /\ Stages'
  OBVIOUS
<1>1. CASE UNCHANGED vars
  <2>1. UNCHANGED <<call, pc, stop, outcome, told, timed, agent, ending, state, spans>>
    BY <1>1 DEF vars, callVars, agentVars
  <2>2. \A c \in Calls: Staged(c)' <=> Staged(c)
    BY <2>1 DEF Staged, NodeStaged, ToolStaged, ModelStaged, Fresh, NodeBroke, NodeEnded,
                NodeRefused, Returned
  <2> QED BY <2>1, <2>2 DEF Tables, Stages, AgentStaged
<1>2. ASSUME NEW c \in Calls, NodeStep(c)
      PROVE  Tables' /\ Stages'
  BY <1>2, NodeBeforeStages, NodeBodyStages, NodeAfterStages, NodeFailStages, NodeFinishStages,
     NodeRowStages DEF NodeStep
<1>3. ASSUME NEW c \in Calls, ToolStep(c)
      PROVE  Tables' /\ Stages'
  BY <1>3, ToolStartStages, ToolRefusedStages, ToolBeforeStages, ToolFailStages,
     ToolFailedStages DEF ToolStep
<1>4. ASSUME NEW c \in Calls, BoundaryStep(c)
      PROVE  Tables' /\ Stages'
  BY <1>4, ModelBeforeStages, BoundaryBodyStages, BoundaryAfterStages, BoundaryRowStages,
     BoundaryLeaveStages DEF BoundaryStep
<1> QED BY <1>1, <1>2, <1>3, <1>4, AgentStages DEF Next

LEMMA StagesHold == Spec => [](Tables /\ Stages)
  BY InitStages, NextStages, PTL DEF Spec

\* Every end of a call is told once and in the right words, whichever hook or
\* part of it failed.
THEOREM EndsTold == Spec => []EndsAreTold
<1>1. Tables /\ Stages => EndsAreTold
  <2> SUFFICES ASSUME Tables, Stages, NEW c \in Calls, pc[c] = "done"
               PROVE  CASE call[c].kind = "tool" ->
                             \/ outcome[c] = "ok" /\ told[c] = <<"Started", "Completed">>
                             \/ outcome[c] # "ok" /\ told[c] = <<"Started", "Failed">>
                             \/ outcome[c] = "error" /\ stop[c] # NoHook /\ told[c] = <<"Started">>
                        [] call[c].kind = "model" ->
                             (told[c] = <<"ModelCalled">>) <=> (outcome[c] = "ok")
                        [] OTHER ->
                             \/ outcome[c] = "ok" /\ told[c] = <<"Started", "Completed">>
                             \/ IsControlFlow(outcome[c]) /\ told[c] = <<"Started">>
                             \/ outcome[c] = "error" /\ stop[c] # NoHook /\ told[c] \in {<<>>, <<"Started">>}
                             \/ outcome[c] = "error" /\ told[c] \in
                                  {<<"Started", "Failed">>, <<"Started", "OnError", "Failed">>,
                                   <<"Started", "Completed", "Failed">>}
    BY DEF EndsAreTold
  <2>1. CASE call[c].kind = "tool"
    BY <2>1, ChainAssumption DEF Stages, Staged, ToolStaged, Fresh
  <2>2. CASE call[c].kind = "model"
    BY <2>2 DEF Stages, Staged, ModelStaged, Fresh
  <2>3. CASE call[c].kind = "node"
    BY <2>3, ChainAssumption DEF Stages, Staged, NodeStaged, NodeEnded, NodeRefused, Fresh,
                                 IsControlFlow
  <2> QED BY <2>1, <2>2, <2>3 DEF Tables, Kinds
<1> QED BY <1>1, StagesHold, PTL

\* No span stays open behind its call or its execution, but the entry that a hook
\* inside of TracingHook stopped.
THEOREM SpansClosed == Spec => []SpansAreClosed
<1>1. Tables /\ Stages => SpansAreClosed
  <2> SUFFICES ASSUME Tables, Stages
               PROVE  SpansAreClosed
    OBVIOUS
  <2>1. ASSUME NEW c \in Calls, c \in spans, ~Active(c)
        PROVE  call[c].kind = "node" /\ stop[c] = "app"
    <3>1. pc[c] \in {"idle", "done"}
      BY <2>1 DEF Active
    <3>2. call[c].kind # "tool"
      BY <2>1, <3>1 DEF Stages, Staged, ToolStaged, Fresh
    <3>3. call[c].kind # "model"
      BY <2>1, <3>1 DEF Stages, Staged, ModelStaged, Fresh
    <3>4. call[c].kind = "node"
      BY <3>2, <3>3 DEF Tables, Kinds
    <3> QED BY <2>1, <3>1, <3>4 DEF Stages, Staged, NodeStaged, NodeRefused, Fresh
  <2> QED BY <2>1 DEF SpansAreClosed, Stages, AgentStaged
<1> QED BY <1>1, StagesHold, PTL

-----------------------------------------------------------------------------
(* The file of runs the recorder keeps.                                    *)

RowSet ==
  [kind: Kinds \cup {"guardrail"}, of: Calls, name: {"a"}, status: {"ok", "error", "block"},
   start: Calls \cup {NoCall}, tokens: Calls \cup {NoCall}]

RunSet ==
  [execution: Executions, rows: Seq(RowSet), state: ContextStates \cup {"FAILED", "COMPLETED"},
   error: BOOLEAN, ended: BOOLEAN]

\* Runs are at most Capacity, and one of an execution.
IsFile(rs) ==
  /\ rs \in Seq(RunSet) /\ Len(rs) <= Capacity
  /\ \A i, j \in DOMAIN rs: rs[i].execution = rs[j].execution => i = j

File == IsFile(runs) /\ lost \subseteq Executions

\* Two files say the same of an execution.
SameRun(R, rs, x) ==
  /\ Recorded(R, x) <=> Recorded(rs, x)
  /\ Recorded(rs, x) => RunOf(R, x) = RunOf(rs, x)

\* A run is found where it is.
LEMMA Index ==
  ASSUME NEW rs, IsFile(rs), NEW i \in DOMAIN rs
  PROVE  /\ Recorded(rs, rs[i].execution) /\ IndexOf(rs, rs[i].execution) = i
         /\ RunOf(rs, rs[i].execution) = rs[i]
<1>1. \A j \in DOMAIN rs: rs[j].execution = rs[i].execution => j = i
  BY DEF IsFile
<1>2. IndexOf(rs, rs[i].execution) = i
  BY <1>1 DEF IndexOf
<1> QED BY <1>2 DEF Recorded, RunOf

LEMMA Finding ==
  ASSUME NEW rs, IsFile(rs), NEW e, Recorded(rs, e)
  PROVE  /\ IndexOf(rs, e) \in DOMAIN rs /\ RunOf(rs, e) = rs[IndexOf(rs, e)]
         /\ RunOf(rs, e) \in RunSet /\ RunOf(rs, e).execution = e
<1>1. PICK i \in DOMAIN rs: rs[i].execution = e
  BY DEF Recorded
<1>2. IndexOf(rs, e) = i /\ RunOf(rs, e) = rs[i]
  BY <1>1, Index
<1>3. rs \in Seq(RunSet)
  BY DEF IsFile
<1> QED BY <1>1, <1>2, <1>3

LEMMA NewRuns == ASSUME Tables, NEW e \in Executions PROVE NewRun(e) \in RunSet
<1>1. <<>> \in Seq(RowSet)
  OBVIOUS
<1> HIDE DEF RowSet
<1> QED BY <1>1 DEF NewRun, RunSet, Tables

\* Opening a run changes no other, and drops the oldest at most.
LEMMA Opening ==
  ASSUME Tables, NEW rs, IsFile(rs), NEW e \in Executions
  PROVE  /\ IsFile(Run(rs, e)) /\ Recorded(Run(rs, e), e)
         /\ RunOf(Run(rs, e), e) = IF Recorded(rs, e) THEN RunOf(rs, e) ELSE NewRun(e)
         /\ \A x: x # e /\ Recorded(Run(rs, e), x) =>
               Recorded(rs, x) /\ RunOf(Run(rs, e), x) = RunOf(rs, x)
<1>1. CASE Recorded(rs, e)
  <2>1. Run(rs, e) = rs
    BY <1>1 DEF Run
  <2> QED BY <1>1, <2>1
<1>2. CASE ~Recorded(rs, e)
  <2> DEFINE more == Append(rs, NewRun(e))
             shift == IF Len(more) > Capacity THEN 1 ELSE 0
             R == Run(rs, e)
  <2>1. R = IF Len(more) > Capacity THEN Tail(more) ELSE more
    BY <1>2 DEF Run
  <2>2. /\ rs \in Seq(RunSet) /\ NewRun(e) \in RunSet /\ NewRun(e).execution = e
        /\ Len(rs) <= Capacity /\ Len(rs) \in Nat /\ Capacity \in Nat \ {0}
        /\ \A i, j \in DOMAIN rs: rs[i].execution = rs[j].execution => i = j
    BY NewRuns, ObservationAssumption DEF IsFile, NewRun
  <2> HIDE DEF RunSet
  <2>3. /\ more \in Seq(RunSet) /\ Len(more) = Len(rs) + 1 /\ DOMAIN more = 1..Len(rs) + 1
        /\ more[Len(rs) + 1] = NewRun(e) /\ \A i \in 1..Len(rs): more[i] = rs[i]
    BY <2>2
  <2> HIDE DEF more
  <2>4. /\ R \in Seq(RunSet) /\ Len(R) = Len(more) - shift /\ DOMAIN R = 1..Len(more) - shift
        /\ \A i \in 1..Len(more) - shift: R[i] = more[i + shift]
    <3>1. CASE Len(more) > Capacity
      <4>1. R = Tail(more) /\ more # <<>> /\ shift = 1
        BY <2>1, <2>2, <2>3, <3>1
      <4> HIDE DEF R
      <4> QED BY <2>3, <4>1
    <3>2. CASE ~(Len(more) > Capacity)
      <4>1. R = more /\ shift = 0
        BY <2>1, <3>2
      <4> HIDE DEF R
      <4> QED BY <2>3, <4>1
    <3> QED BY <3>1, <3>2
  <2>5. shift \in {0, 1} /\ Len(rs) + 1 - shift <= Capacity /\ Len(rs) + 1 - shift >= 1
    BY <2>2, <2>3
  <2> HIDE DEF R, shift
  <2>6. \A i \in DOMAIN R: /\ i + shift \in 1..Len(rs) + 1 /\ i + shift \in Nat /\ i \in Nat
                           /\ R[i] = IF i + shift = Len(rs) + 1 THEN NewRun(e) ELSE rs[i + shift]
    <3> SUFFICES ASSUME NEW i \in DOMAIN R
                 PROVE  /\ i + shift \in 1..Len(rs) + 1 /\ i + shift \in Nat /\ i \in Nat
                        /\ R[i] = IF i + shift = Len(rs) + 1 THEN NewRun(e) ELSE rs[i + shift]
      OBVIOUS
    <3>0. i \in 1..Len(more) - shift
      BY <2>4
    <3>1. i \in 1..Len(rs) + 1 - shift /\ R[i] = more[i + shift]
      <4>1. R[i] = more[i + shift]
        BY <2>4, <3>0
      <4>2. Len(more) - shift = Len(rs) + 1 - shift
        BY <2>2, <2>3, <2>5
      <4> QED BY <3>0, <4>1, <4>2
    <3>2. i + shift \in 1..Len(rs) + 1 /\ i + shift \in Nat /\ i \in Nat
      BY <2>2, <2>5, <3>1
    <3>3. CASE i + shift = Len(rs) + 1
      BY <2>3, <3>1, <3>2, <3>3
    <3>4. CASE i + shift # Len(rs) + 1
      <4>1. i + shift \in 1..Len(rs)
        BY <2>2, <3>2, <3>4
      <4> QED BY <2>3, <3>1, <3>2, <3>4, <4>1
    <3> QED BY <3>3, <3>4
  <2>7. \A i \in DOMAIN rs: rs[i].execution # e
    BY <1>2 DEF Recorded
  <2>8. ASSUME NEW i \in DOMAIN R, NEW j \in DOMAIN R, R[i].execution = R[j].execution
        PROVE  i = j
    <3>1. i + shift = j + shift
      BY <2>2, <2>6, <2>7, <2>8
    <3> QED BY <2>5, <2>6, <3>1
  <2>9. IsFile(R)
    <3>1. Len(R) <= Capacity
      BY <2>2, <2>3, <2>4, <2>5
    <3> QED BY <2>4, <2>8, <3>1 DEF IsFile
  <2>10. PICK l \in DOMAIN R: R[l] = NewRun(e)
    <3> DEFINE l == Len(rs) + 1 - shift
    <3>1. l \in DOMAIN R /\ l + shift = Len(rs) + 1
      BY <2>2, <2>3, <2>4, <2>5
    <3> QED BY <2>6, <3>1
  <2>11. Recorded(R, e) /\ RunOf(R, e) = NewRun(e)
    BY <2>2, <2>9, <2>10, Index
  <2>12. ASSUME NEW x, x # e, Recorded(R, x)
         PROVE  Recorded(rs, x) /\ RunOf(R, x) = RunOf(rs, x)
    <3>1. PICK i \in DOMAIN R: R[i].execution = x
      BY <2>12 DEF Recorded
    <3>2. R[i] = rs[i + shift] /\ i + shift \in DOMAIN rs
      BY <2>2, <2>6, <2>12, <3>1
    <3>3. PICK k \in DOMAIN rs: R[i] = rs[k]
      BY <3>2
    <3> QED BY <2>9, <3>1, <3>3, Index
  <2> QED BY <1>2, <2>9, <2>11, <2>12 DEF R
<1> QED BY <1>1, <1>2

\* Changing a run changes no other.
LEMMA Changing ==
  ASSUME NEW rs, IsFile(rs), NEW e, Recorded(rs, e), NEW run \in RunSet, run.execution = e,
         NEW R, R = [rs EXCEPT ![IndexOf(rs, e)] = run]
  PROVE  /\ IsFile(R) /\ Recorded(R, e) /\ RunOf(R, e) = run
          /\ \A x: x # e => SameRun(R, rs, x)
<1> DEFINE n == IndexOf(rs, e)
<1>1. n \in DOMAIN rs /\ rs[n].execution = e
  BY Finding
<1>2. rs \in Seq(RunSet) /\ Len(rs) <= Capacity /\ R = [rs EXCEPT ![n] = run]
  BY DEF IsFile
<1> HIDE DEF n, RunSet
<1>3. R \in Seq(RunSet) /\ Len(R) = Len(rs) /\ DOMAIN R = DOMAIN rs
  <2> DEFINE W == [rs EXCEPT ![n] = run]
  <2>1. W \in Seq(RunSet) /\ Len(W) = Len(rs) /\ DOMAIN W = DOMAIN rs
    BY <1>1, <1>2
  <2> QED BY <1>2, <2>1
<1>4. R[n] = run /\ \A i \in DOMAIN rs: i # n => R[i] = rs[i]
  BY <1>1, <1>2
<1>5. \A i \in DOMAIN rs: R[i].execution = rs[i].execution
  BY <1>1, <1>4
<1>6. IsFile(R)
  BY <1>2, <1>3, <1>5 DEF IsFile
<1>7. Recorded(R, e) /\ RunOf(R, e) = run
  BY <1>1, <1>3, <1>4, <1>6, Index, ZenonT(60)
<1>8. ASSUME NEW x, x # e
      PROVE  SameRun(R, rs, x)
  <2>1. Recorded(R, x) <=> Recorded(rs, x)
    BY <1>3, <1>5 DEF Recorded
  <2>2. ASSUME Recorded(rs, x) PROVE RunOf(R, x) = RunOf(rs, x)
    <3>1. PICK i \in DOMAIN rs: rs[i].execution = x
      BY <2>2 DEF Recorded
    <3>2. R[i] = rs[i] /\ i \in DOMAIN R
      BY <1>1, <1>3, <1>4, <1>8, <3>1
    <3>3. RunOf(rs, x) = rs[i]
      BY <3>1, Index
    <3>4. RunOf(R, R[i].execution) = R[i]
      BY <1>6, <3>2, Index
    <3> QED BY <3>1, <3>2, <3>3, <3>4
  <2> QED BY <2>1, <2>2 DEF SameRun
<1> QED BY <1>6, <1>7, <1>8 DEF n

\* The run of e is written, and no other; the oldest of the others may be gone.
Writes(e, run) ==
  /\ Recorded(runs', e) /\ RunOf(runs', e) = run
  /\ lost \subseteq lost' /\ lost' \subseteq Executions /\ (e \in lost' => e \in lost)
  /\ e \notin EvictedBy(e)
  /\ \A x \in Executions \ {e}:
       \/ ~Recorded(runs', x) /\ Recorded(runs, x) /\ x \in EvictedBy(e) /\ x \in lost'
       \/ x \notin EvictedBy(e) /\ SameRun(runs', runs, x)

LEMMA OpenedRuns ==
  ASSUME Tables, File, NEW e \in Executions
  PROVE  /\ Opened(e) \in RunSet /\ Opened(e).execution = e
         /\ Opened(e) = IF Recorded(runs, e) THEN RunOf(runs, e) ELSE NewRun(e)
<1>1. IsFile(Run(runs, e)) /\ Recorded(Run(runs, e), e)
  BY Opening DEF File
<1>2. Opened(e) \in RunSet /\ Opened(e).execution = e
  BY <1>1, Finding DEF Opened
<1>3. Opened(e) = IF Recorded(runs, e) THEN RunOf(runs, e) ELSE NewRun(e)
  BY Opening DEF File, Opened
<1> QED BY <1>2, <1>3

LEMMA Recording ==
  ASSUME Tables, File, NEW e \in Executions, NEW run \in RunSet, run.execution = e,
         ChangeRun(e, run), lost' = lost \cup EvictedBy(e)
  PROVE  File' /\ Writes(e, run)
<1> DEFINE R == Run(runs, e)
<1>1. /\ IsFile(R) /\ Recorded(R, e)
      /\ \A x: x # e /\ Recorded(R, x) => Recorded(runs, x) /\ RunOf(R, x) = RunOf(runs, x)
  BY Opening DEF File
<1>2. runs' = [R EXCEPT ![IndexOf(R, e)] = run]
  BY DEF ChangeRun
<1>3. EvictedBy(e) = {x \in Executions: Recorded(runs, x) /\ ~Recorded(R, x)}
  BY DEF EvictedBy
<1> HIDE DEF R
<1>4. /\ IsFile(runs') /\ Recorded(runs', e) /\ RunOf(runs', e) = run
      /\ \A x: x # e => SameRun(runs', R, x)
  <2>1. runs' = [R EXCEPT ![IndexOf(R, e)] = run]
    BY <1>2
  <2>2. run \in RunSet /\ run.execution = e /\ IsFile(R) /\ Recorded(R, e)
    BY <1>1
  <2>3. \A W: W = [R EXCEPT ![IndexOf(R, e)] = run] =>
               /\ IsFile(W) /\ Recorded(W, e) /\ RunOf(W, e) = run
               /\ \A x: x # e => SameRun(W, R, x)
    BY <2>2, Changing
  <2> QED BY <2>1, <2>3
<1>5. File'
  BY <1>3, <1>4 DEF File, IsFile
<1>6. e \notin EvictedBy(e)
  BY <1>1, <1>3
<1>7. e \in lost' => e \in lost
  BY <1>6
<1>8. ASSUME NEW x \in Executions \ {e}
      PROVE  \/ ~Recorded(runs', x) /\ Recorded(runs, x) /\ x \in EvictedBy(e) /\ x \in lost'
             \/ x \notin EvictedBy(e) /\ SameRun(runs', runs, x)
  <2>3. x \in Executions /\ x # e
    OBVIOUS
  <2>4. (Recorded(runs', x) <=> Recorded(R, x)) /\ (Recorded(R, x) => RunOf(runs', x) = RunOf(R, x))
    BY <1>4, <2>3 DEF SameRun
  <2>5. x \in EvictedBy(e) <=> Recorded(runs, x) /\ ~Recorded(R, x)
    BY <1>3, <2>3
  <2>6. Recorded(R, x) => Recorded(runs, x) /\ RunOf(R, x) = RunOf(runs, x)
    BY <1>1, <2>3
  <2>1. CASE x \in EvictedBy(e)
    BY <2>1, <2>4, <2>5
  <2>2. CASE x \notin EvictedBy(e)
    BY <2>2, <2>4, <2>5, <2>6 DEF SameRun
  <2> QED BY <2>1, <2>2
<1> QED BY <1>4, <1>5, <1>6, <1>7, <1>8 DEF Writes, File

-----------------------------------------------------------------------------
(* What the steps write.                                                   *)

CallStep(c) == NodeStep(c) \/ ToolStep(c) \/ BoundaryStep(c)

Typed ==
  /\ File
  /\ timer \in [Keys -> Calls \cup {NoCall}] /\ timed \in [Calls -> Calls \cup {NoCall}]
  /\ errors \subseteq Calls /\ begun \subseteq Calls /\ DOMAIN counted = Executions

\* Of the calls only c moves, and only inside of an execution that has begun.
LEMMA CallFrame ==
  ASSUME Tables, NEW c \in Calls, CallStep(c)
  PROVE  /\ UNCHANGED <<call, agent, ending, state>> /\ call[c].execution \in Executions
         /\ pc[c] # "done"
         /\ pc[c] # "idle" \/ agent[call[c].execution] = "running"
         /\ \A d \in Calls \ {c}: pc'[d] = pc[d] /\ outcome'[d] = outcome[d] /\ stop'[d] = stop[d]
<1> USE DEF Tables, agentVars, callVars, At, Goto, Begins
<1>1. CASE NodeBefore(c)
  BY <1>1 DEF NodeBefore, FireBefore
<1>2. CASE NodeBody(c)
  BY <1>2 DEF NodeBody
<1>3. CASE NodeAfter(c)
  BY <1>3 DEF NodeAfter
<1>4. CASE NodeFail(c) \/ NodeFinish(c) \/ NodeRow(c)
  BY <1>4 DEF NodeFail, NodeFinish, NodeRow
<1>5. CASE ToolStart(c) \/ ToolRefused(c) \/ ToolFail(c) \/ ToolFailed(c)
  BY <1>5 DEF ToolStart, ToolRefused, ToolFail, ToolFailed
<1>6. CASE ToolBefore(c)
  BY <1>6 DEF ToolBefore, FireBefore
<1>7. CASE ModelBefore(c)
  BY <1>7 DEF ModelBefore, FireBefore
<1>8. CASE BoundaryBody(c)
  BY <1>8 DEF BoundaryBody
<1>9. CASE BoundaryAfter(c)
  BY <1>9 DEF BoundaryAfter
<1>10. CASE BoundaryRow(c) \/ BoundaryLeave(c)
  BY <1>10 DEF BoundaryRow, BoundaryLeave
<1> QED BY <1>1, <1>2, <1>3, <1>4, <1>5, <1>6, <1>7, <1>8, <1>9, <1>10
        DEF CallStep, NodeStep, ToolStep, BoundaryStep

RowsAt(e) == IF Recorded(runs, e) THEN RunOf(runs, e).rows ELSE <<>>

LEMMA OpenedRows ==
  ASSUME Tables, File, NEW e \in Executions
  PROVE  Opened(e).rows = RowsAt(e) /\ RowsAt(e) \in Seq(RowSet)
<1>1. /\ Opened(e) \in RunSet /\ Opened(e).execution = e
      /\ Opened(e) = IF Recorded(runs, e) THEN RunOf(runs, e) ELSE NewRun(e)
  BY OpenedRuns
<1>2. Opened(e).rows = RowsAt(e)
  BY <1>1 DEF RowsAt, NewRun
<1>3. Opened(e).rows \in Seq(RowSet)
  BY <1>1 DEF RunSet
<1> QED BY <1>2, <1>3

\* The run of e with other rows.
WithRows(e, rows) == [Opened(e) EXCEPT !.rows = rows]

\* The rows of e are these now; other runs have theirs, or are gone.
RowsBecome(e, rows) ==
  /\ RowsAt(e)' = rows
  /\ lost \subseteq lost' /\ lost' \subseteq Executions /\ (e \in lost' => e \in lost)
  /\ e \notin EvictedBy(e)
  /\ \A x \in Executions \ {e}:
       \/ RowsAt(x)' = RowsAt(x) /\ x \notin EvictedBy(e)
       \/ RowsAt(x)' = <<>> /\ x \in EvictedBy(e) /\ x \in lost'

LEMMA WritingRows ==
  ASSUME Tables, File, NEW e \in Executions, NEW run \in RunSet, Writes(e, run)
  PROVE  RowsBecome(e, run.rows)
<1>1. RowsAt(e)' = run.rows
  BY DEF Writes, RowsAt
<1>2. ASSUME NEW x \in Executions \ {e}
      PROVE  \/ RowsAt(x)' = RowsAt(x) /\ x \notin EvictedBy(e)
             \/ RowsAt(x)' = <<>> /\ x \in EvictedBy(e) /\ x \in lost'
  BY <1>2 DEF Writes, RowsAt, SameRun
<1> QED BY <1>1, <1>2 DEF Writes, RowsBecome

\* _add: the row comes last.
LEMMA Adding ==
  ASSUME Tables, File, NEW c \in Calls, NEW kind \in Kinds \cup {"guardrail"},
         NEW status \in {"ok", "error", "block"}, NEW start \in Calls \cup {NoCall},
         AddRow(c, kind, status, start)
  PROVE  LET e == call[c].execution
             rows == Append(RowsAt(e), Row(c, kind, status, start, NoCall))
         IN /\ File' /\ rows \in Seq(RowSet) /\ Writes(e, WithRows(e, rows)) /\ RowsBecome(e, rows)
            /\ counted' = Recounted(e)
<1> DEFINE e == call[c].execution
           row == Row(c, kind, status, start, NoCall)
           rows == Append(RowsAt(e), row)
           run == WithRows(e, rows)
<1>1. e \in Executions /\ row \in RowSet
  BY DEF Tables, Row, RowSet
<1>2. /\ Opened(e).rows = RowsAt(e) /\ RowsAt(e) \in Seq(RowSet)
      /\ Opened(e) \in RunSet /\ Opened(e).execution = e
  BY <1>1, OpenedRows, OpenedRuns
<1>3. ChangeRun(e, [Opened(e) EXCEPT !.rows = Append(@, row)])
      /\ lost' = lost \cup EvictedBy(e) /\ counted' = Recounted(e)
  BY DEF AddRow, Reopen
<1> HIDE DEF e, row
<1>4. rows \in Seq(RowSet)
  BY <1>1, <1>2
<1>5. ChangeRun(e, run)
  <2>1. [Opened(e) EXCEPT !.rows = Append(@, row)] = run
    BY <1>2 DEF WithRows
  <2> QED BY <1>3, <2>1
<1>6. run \in RunSet /\ run.execution = e /\ run.rows = rows
  <2> HIDE DEF rows, RowSet
  <2> QED BY <1>2, <1>4 DEF WithRows, RunSet
<1> HIDE DEF rows, run
<1>7. File' /\ Writes(e, run)
  BY <1>1, <1>3, <1>5, <1>6, Recording
<1>8. RowsBecome(e, rows)
  BY <1>1, <1>6, <1>7, WritingRows
<1> QED BY <1>3, <1>4, <1>7, <1>8 DEF e, row, rows, run

\* Of some positions in a sequence one is the last.
LEMMA LastOf ==
  ASSUME NEW n \in Nat, NEW S \in SUBSET (1..n), S # {}
  PROVE  Max(S) \in S /\ \A i \in S: i <= Max(S)
<1> DEFINE T == {n - i: i \in S}
<1>1. T \in SUBSET Nat /\ T # {}
  <2>1. ASSUME NEW i \in S PROVE n - i \in Nat
    <3>1. i \in 1..n
      OBVIOUS
    <3> QED BY <3>1
  <2> QED BY <2>1
<1>2. PICK t \in T: \A u \in T: ~(<<u, t>> \in OpToRel(<, Nat))
  BY <1>1, WFMin, NatLessThanWellFounded, Zenon
<1>3. \A u \in T: ~(u < t)
  BY <1>1, <1>2 DEF OpToRel
<1>4. PICK m \in S: t = n - m
  BY <1>2, ZenonT(60)
<1>5. \A i \in S: m >= i
  <2> SUFFICES ASSUME NEW i \in S PROVE m >= i
    OBVIOUS
  <2>1. ~(n - i < n - m)
    BY <1>3, <1>4
  <2>2. i \in 1..n /\ m \in 1..n
    OBVIOUS
  <2> QED BY <2>1, <2>2
<1>6. Max(S) \in S /\ \A i \in S: Max(S) >= i
  BY <1>5, Zenon DEF Max
<1> QED BY <1>6

\* on_event(ModelCalled): the last row that fits gets the tokens; without one a
\* row is added.
LEMMA Counting ==
  ASSUME Tables, File, NEW c \in Calls, CountTokens(c)
  PROVE  LET e == call[c].execution
             old == RowsAt(e)
         IN /\ File' /\ counted' = [Recounted(e) EXCEPT ![e] = @ + 1]
            /\ \E rows \in Seq(RowSet):
                 /\ Writes(e, WithRows(e, rows)) /\ RowsBecome(e, rows)
                 /\ \/ \E m \in DOMAIN old:
                         /\ TakesTokens(old[m], c)
                         /\ \A i \in DOMAIN old: TakesTokens(old[i], c) => i <= m
                         /\ rows = [old EXCEPT ![m].tokens = c]
                    \/ /\ \A i \in DOMAIN old: ~TakesTokens(old[i], c)
                       /\ rows = Append(old, Row(c, "model", "ok", NoCall, c))
<1> DEFINE e == call[c].execution
           old == RowsAt(e)
           row == Row(c, "model", "ok", NoCall, c)
           fitting == {i \in DOMAIN old: TakesTokens(old[i], c)}
           rows == IF fitting # {} THEN [old EXCEPT ![Max(fitting)].tokens = c] ELSE Append(old, row)
           run == WithRows(e, rows)
<1>1. e \in Executions /\ row \in RowSet
  BY DEF Tables, Row, RowSet, Kinds
<1>2. /\ Opened(e).rows = old /\ old \in Seq(RowSet)
      /\ Opened(e) \in RunSet /\ Opened(e).execution = e
  BY <1>1, OpenedRows, OpenedRuns
<1>3. /\ ChangeRun(e, [Opened(e) EXCEPT !.rows = rows])
      /\ lost' = lost \cup EvictedBy(e) /\ counted' = [Recounted(e) EXCEPT ![e] = @ + 1]
  BY <1>2 DEF CountTokens
<1> HIDE DEF e, row, old
<1>4. /\ rows \in Seq(RowSet)
      /\ \/ \E m \in DOMAIN old:
              /\ TakesTokens(old[m], c)
              /\ \A i \in DOMAIN old: TakesTokens(old[i], c) => i <= m
              /\ rows = [old EXCEPT ![m].tokens = c]
         \/ /\ \A i \in DOMAIN old: ~TakesTokens(old[i], c)
            /\ rows = Append(old, row)
  <2>1. CASE fitting # {}
    <3>1. PICK m \in DOMAIN old:
            /\ m = Max(fitting) /\ TakesTokens(old[m], c)
            /\ \A i \in DOMAIN old: TakesTokens(old[i], c) => i <= m
      <4>1. Len(old) \in Nat /\ fitting \in SUBSET (1..Len(old)) /\ DOMAIN old = 1..Len(old)
        BY <1>2
      <4>2. Max(fitting) \in fitting /\ \A i \in fitting: i <= Max(fitting)
        BY <2>1, <4>1, LastOf
      <4> QED BY <4>1, <4>2
    <3>2. rows = [old EXCEPT ![m].tokens = c]
      BY <2>1, <3>1
    <3>3. rows \in Seq(RowSet)
      <4>1. old[m] \in RowSet
        BY <1>2, <3>1
      <4>2. [old[m] EXCEPT !.tokens = c] \in RowSet
        BY <4>1 DEF RowSet
      <4>3. PICK new \in RowSet: new = [old[m] EXCEPT !.tokens = c]
        BY <4>2
      <4>4. rows = [old EXCEPT ![m] = new]
        BY <3>2, <4>3
      <4> HIDE DEF rows
      <4> QED BY <1>2, <3>1, <4>3, <4>4
    <3> QED BY <3>1, <3>2, <3>3
  <2>2. CASE fitting = {}
    <3>1. rows = Append(old, row) /\ \A i \in DOMAIN old: ~TakesTokens(old[i], c)
      BY <2>2
    <3>2. rows \in Seq(RowSet)
      BY <1>1, <1>2, <3>1
    <3> QED BY <3>1, <3>2
  <2> QED BY <2>1, <2>2
<1> HIDE DEF rows
<1>5. ChangeRun(e, run)
  BY <1>3 DEF WithRows
<1>6. run \in RunSet /\ run.execution = e /\ run.rows = rows
  <2> HIDE DEF RowSet
  <2> QED BY <1>2, <1>4 DEF WithRows, RunSet
<1> HIDE DEF run
<1>7. File' /\ Writes(e, run)
  BY <1>1, <1>3, <1>5, <1>6, Recording
<1>8. RowsBecome(e, rows)
  BY <1>1, <1>6, <1>7, WritingRows
<1> HIDE DEF fitting
<1> QED BY <1>3, <1>4, <1>7, <1>8 DEF e, row, run, old

\* What a step of a call does to the file.
LEMMA CallRecords ==
  ASSUME Tables, Stages, Typed, NEW c \in Calls, CallStep(c)
  PROVE  \/ UNCHANGED <<runs, lost, counted>>
         \/ \E kind \in Kinds \cup {"guardrail"}, status \in {"ok", "error", "block"},
               start \in Calls \cup {NoCall}: AddRow(c, kind, status, start)
         \/ call[c].kind = "model" /\ CountTokens(c)
<1> DEFINE Adds == \E kind \in Kinds \cup {"guardrail"}, status \in {"ok", "error", "block"},
                      start \in Calls \cup {NoCall}: AddRow(c, kind, status, start)
<1>1. AddRow(c, "guardrail", "block", NoCall) => Adds
  OBVIOUS
<1>2. /\ AddRow(c, "node", "ok", timed[c]) => Adds
      /\ AddRow(c, "node", "error", timed[c]) => Adds
      /\ AddRow(c, "tool", "error", timed[c]) => Adds
      /\ AddRow(c, call[c].kind, "ok", timed[c]) => Adds
  <2>1. timed[c] \in Calls \cup {NoCall} /\ call[c].kind \in Kinds /\ {"node", "tool"} \subseteq Kinds
    BY DEF Typed, Tables, Kinds
  <2> QED BY <2>1
<1> HIDE DEF Adds
<1>3. ASSUME NEW fired, Blocked(c, fired)
      PROVE  UNCHANGED <<runs, lost, counted>> \/ Adds
  BY <1>1, <1>3 DEF Blocked
<1>4. CASE NodeBefore(c) \/ ToolBefore(c) \/ ModelBefore(c)
  <2>1. PICK fired: FireBefore(c, fired)
    BY <1>4 DEF NodeBefore, ToolBefore, ModelBefore
  <2> QED BY <1>3, <2>1 DEF FireBefore, Adds
<1>5. CASE NodeAfter(c)
  <2>1. PICK fired: Blocked(c, fired)
    BY <1>5 DEF NodeAfter
  <2> QED BY <1>3, <2>1 DEF Adds
<1>6. CASE NodeBody(c) \/ NodeFail(c) \/ NodeFinish(c) \/ ToolStart(c) \/ ToolRefused(c) \/ ToolFail(c)
  BY <1>6 DEF NodeBody, NodeFail, NodeFinish, ToolStart, ToolRefused, ToolFail, recorderVars
<1>7. CASE BoundaryBody(c) \/ BoundaryAfter(c)
  BY <1>7 DEF BoundaryBody, BoundaryAfter, recorderVars
<1>8. CASE NodeRow(c) \/ ToolFailed(c) \/ BoundaryRow(c)
  BY <1>2, <1>8 DEF NodeRow, ToolFailed, BoundaryRow, Adds
<1>9. CASE BoundaryLeave(c)
  <2>1. CASE stop[c] = "guard"
    BY <1>1, <1>9, <2>1 DEF BoundaryLeave, Adds
  <2>2. CASE stop[c] # "guard" /\ call[c].kind = "tool"
    BY <1>9, <2>2 DEF BoundaryLeave
  <2>3. CASE stop[c] # "guard" /\ call[c].kind # "tool"
    <3>1. call[c].kind = "model"
      <4>1. pc[c] = "leave"
        BY <1>9 DEF BoundaryLeave, At
      <4> QED BY <2>3, <4>1, Leaving
    <3> QED BY <1>9, <2>3, <3>1 DEF BoundaryLeave
  <2> QED BY <2>1, <2>2, <2>3
<1> QED BY <1>4, <1>5, <1>6, <1>7, <1>8, <1>9 DEF CallStep, NodeStep, ToolStep, BoundaryStep

\* A call changes nothing of its execution's run but the rows.
LEMMA CallWrites ==
  ASSUME Tables, Stages, Typed, NEW c \in Calls, CallStep(c)
  PROVE  LET e == call[c].execution
         IN /\ File' /\ DOMAIN counted' = Executions
            /\ \/ UNCHANGED <<runs, lost>>
               \/ \E rows \in Seq(RowSet): Writes(e, WithRows(e, rows))
<1> DEFINE e == call[c].execution
<1>1. CASE UNCHANGED <<runs, lost, counted>>
  BY <1>1 DEF Typed, File, IsFile
<1>2. ASSUME NEW kind \in Kinds \cup {"guardrail"}, NEW status \in {"ok", "error", "block"},
             NEW start \in Calls \cup {NoCall}, AddRow(c, kind, status, start)
      PROVE  /\ File' /\ DOMAIN counted' = Executions
             /\ \E rows \in Seq(RowSet): Writes(e, WithRows(e, rows))
  <2>1. /\ Append(RowsAt(e), Row(c, kind, status, start, NoCall)) \in Seq(RowSet)
        /\ Writes(e, WithRows(e, Append(RowsAt(e), Row(c, kind, status, start, NoCall))))
        /\ File' /\ counted' = Recounted(e)
    BY <1>2, Adding DEF Typed
  <2>2. DOMAIN counted' = Executions
    BY <2>1 DEF Recounted
  <2> HIDE DEF e
  <2> QED BY <2>1, <2>2
<1>3. CASE CountTokens(c)
  <2>1. /\ File' /\ counted' = [Recounted(e) EXCEPT ![e] = @ + 1]
        /\ \E rows \in Seq(RowSet): Writes(e, WithRows(e, rows))
    BY <1>3, Counting DEF Typed
  <2>2. DOMAIN counted' = Executions
    BY <2>1 DEF Recounted
  <2> HIDE DEF e
  <2> QED BY <2>1, <2>2 DEF e
<1> QED BY <1>1, <1>2, <1>3, CallRecords

LEMMA KeysStay == UNCHANGED call => Keys' = Keys /\ \A c \in Calls: Key(c)' = Key(c)
<1> SUFFICES ASSUME UNCHANGED call PROVE Keys' = Keys /\ \A c \in Calls: Key(c)' = Key(c)
  OBVIOUS
<1>1. \A c \in Calls: Key(c)' = Key(c)
  BY DEF Key
<1> QED BY <1>1 DEF Keys

\* What a step of a call does to the recorder's tables.
LEMMA CallTables ==
  ASSUME Tables, Stages, Typed, NEW c \in Calls, CallStep(c)
  PROVE  /\ timer' \in [Keys' -> Calls \cup {NoCall}] /\ timed' \in [Calls -> Calls \cup {NoCall}]
         /\ errors' \subseteq Calls /\ begun' \subseteq Calls
<1>1. Keys' = Keys /\ Key(c) \in Keys
  BY CallFrame, KeysStay DEF Keys
<1>2. UNCHANGED timer \/ StartTimer(c) \/ FinishTimer(c) =>
        timer' \in [Keys' -> Calls \cup {NoCall}]
  BY <1>1 DEF Typed, StartTimer, FinishTimer
<1>3. UNCHANGED timed \/ FinishTimer(c) \/ timed' = [timed EXCEPT ![c] = NoCall] =>
        timed' \in [Calls -> Calls \cup {NoCall}]
  <2>1. timer[Key(c)] \in Calls \cup {NoCall}
    BY <1>1 DEF Typed
  <2> QED BY <2>1 DEF Typed, FinishTimer
<1>4. UNCHANGED errors \/ errors' = errors \cup {c} \/ errors' = errors \ {c} => errors' \subseteq Calls
  BY DEF Typed
<1>5. UNCHANGED begun \/ StartTimer(c) => begun' \subseteq Calls
  BY DEF Typed, StartTimer
<1>6. /\ UNCHANGED timer \/ StartTimer(c) \/ FinishTimer(c)
      /\ UNCHANGED timed \/ FinishTimer(c) \/ timed' = [timed EXCEPT ![c] = NoCall]
      /\ UNCHANGED errors \/ errors' = errors \cup {c} \/ errors' = errors \ {c}
      /\ UNCHANGED begun \/ StartTimer(c)
  <2>1. CASE NodeStep(c)
    BY <2>1 DEF NodeStep, NodeBefore, NodeBody, NodeAfter, NodeFail, NodeFinish, NodeRow, FireBefore
  <2>2. CASE ToolStep(c)
    BY <2>2 DEF ToolStep, ToolStart, ToolRefused, ToolBefore, ToolFail, ToolFailed, FireBefore,
                recorderVars
  <2>3. CASE BoundaryStep(c)
    BY <2>3 DEF BoundaryStep, ModelBefore, BoundaryBody, BoundaryAfter, BoundaryRow, BoundaryLeave,
                FireBefore, recorderVars
  <2> QED BY <2>1, <2>2, <2>3 DEF CallStep
<1> QED BY <1>2, <1>3, <1>4, <1>5, <1>6

LEMMA CallTyped == ASSUME Tables, Stages, Typed, NEW c \in Calls, CallStep(c) PROVE Typed'
  BY CallWrites, CallTables DEF Typed

\* What an execution writes into its run.
Entries(e) ==
  {Opened(e), [Opened(e) EXCEPT !.error = TRUE],
   [Opened(e) EXCEPT !.ended = TRUE, !.state = FinalState(Opened(e), state[e])]}

LEMMA AgentWrites ==
  ASSUME Tables, File, NEW e \in Executions, NEW run \in Entries(e), ChangeRun(e, run), Reopen(e)
  PROVE  File' /\ Writes(e, run) /\ RowsBecome(e, RowsAt(e)) /\ counted' = Recounted(e)
<1>1. /\ Opened(e) \in RunSet /\ Opened(e).execution = e /\ Opened(e).rows = RowsAt(e)
  BY OpenedRuns, OpenedRows
<1>2. run \in RunSet /\ run.execution = e /\ run.rows = RowsAt(e)
  <2>1. FinalState(Opened(e), state[e]) \in ContextStates \cup {"FAILED", "COMPLETED"}
    BY DEF FinalState, Tables
  <2> HIDE DEF RowSet
  <2>2. CASE run = Opened(e)
    BY <1>1, <2>2
  <2>3. CASE run = [Opened(e) EXCEPT !.error = TRUE]
    BY <1>1, <2>3 DEF RunSet
  <2>4. CASE run = [Opened(e) EXCEPT !.ended = TRUE, !.state = FinalState(Opened(e), state[e])]
    BY <1>1, <2>1, <2>4 DEF RunSet
  <2> QED BY <2>2, <2>3, <2>4 DEF Entries
<1>3. File' /\ Writes(e, run)
  BY <1>2, Recording DEF Reopen
<1>4. RowsBecome(e, RowsAt(e))
  BY <1>2, <1>3, WritingRows
<1> QED BY <1>3, <1>4 DEF Reopen

\* A step of an execution leaves its calls and the rows alone.
LEMMA AgentFrame ==
  ASSUME Tables, Typed, NEW e \in Executions, AgentStep(e)
  PROVE  /\ UNCHANGED <<callVars, timer, errors, begun, overlapped>>
         /\ \A x \in Executions \ {e}: /\ agent'[x] = agent[x] /\ ending'[x] = ending[x]
                                       /\ state'[x] = state[x]
         /\ \/ UNCHANGED <<runs, lost, counted>>
            \/ /\ File' /\ RowsBecome(e, RowsAt(e)) /\ counted' = Recounted(e)
               /\ \E run \in Entries(e): Writes(e, run)
<1>1. /\ UNCHANGED <<callVars, timer, errors, begun, overlapped>>
      /\ \A x \in Executions \ {e}: /\ agent'[x] = agent[x] /\ ending'[x] = ending[x]
                                    /\ state'[x] = state[x]
  BY DEF Tables, AgentStep, AgentBegin, AgentBreak, AgentAfter, AgentFail, AgentFinally, AgentGoto,
         agentVars, recorderVars
<1>2. \/ UNCHANGED <<runs, lost, counted>>
      \/ \E run \in Entries(e): ChangeRun(e, run) /\ Reopen(e)
  BY DEF AgentStep, AgentBegin, AgentBreak, AgentAfter, AgentFail, AgentFinally, recorderVars,
         Entries
<1>3. ASSUME NEW run \in Entries(e), ChangeRun(e, run), Reopen(e)
      PROVE  File' /\ Writes(e, run) /\ RowsBecome(e, RowsAt(e)) /\ counted' = Recounted(e)
  BY <1>3, AgentWrites DEF Typed
<1> QED BY <1>1, <1>2, <1>3

LEMMA AgentTyped ==
  ASSUME Tables, Typed, NEW e \in Executions, AgentStep(e)
  PROVE  Typed'
<1>1. UNCHANGED <<call, timed, timer, errors, begun>>
  BY AgentFrame DEF callVars
<1>2. Keys' = Keys
  BY <1>1, KeysStay
<1>3. File' /\ DOMAIN counted' = Executions
  BY AgentFrame DEF Typed, File, IsFile, Recounted
<1> QED BY <1>1, <1>2, <1>3 DEF Typed

LEMMA NextTyped == Tables /\ Stages /\ Typed /\ [Next]_vars => Typed'
<1> SUFFICES ASSUME Tables, Stages, Typed, [Next]_vars PROVE Typed'
  OBVIOUS
<1>1. CASE UNCHANGED vars
  <2>1. UNCHANGED <<call, timed, timer, errors, begun, counted, runs, lost>>
    BY <1>1 DEF vars, callVars, recorderVars
  <2>2. Keys' = Keys
    BY <2>1, KeysStay
  <2> QED BY <2>1, <2>2 DEF Typed, File, IsFile
<1>2. CASE \E c \in Calls: CallStep(c)
  BY <1>2, CallTyped
<1>3. CASE \E e \in Executions: AgentStep(e)
  BY <1>3, AgentTyped
<1> QED BY <1>1, <1>2, <1>3 DEF Next, CallStep

LEMMA InitTyped == Init => Typed
<1> SUFFICES ASSUME Init PROVE Typed
  OBVIOUS
<1>1. File
  <2>1. runs = <<>> /\ lost = {} /\ Len(<<>>) = 0 /\ DOMAIN <<>> = {} /\ <<>> \in Seq(RunSet)
    BY DEF Init
  <2> QED BY <2>1, ObservationAssumption DEF File, IsFile
<1> QED BY <1>1 DEF Init, Typed

LEMMA TypedHolds == Spec => [](Tables /\ Stages /\ Typed)
  BY InitStages, NextStages, InitTyped, NextTyped, PTL DEF Spec

-----------------------------------------------------------------------------
(* What a run says of the end of its execution.                            *)

\* Calls and runs belong to executions that have begun.
Begun ==
  /\ \A c \in Calls: pc[c] # "idle" => agent[call[c].execution] # "new"
  /\ \A e \in Executions: Recorded(runs, e) => agent[e] # "new"

\* The state a run is to show, and the one its context has then.
StateShown(e) ==
  IF StoppedForApproval(e) THEN "WAITING_APPROVAL"
  ELSE [ok |-> "COMPLETED", error |-> "FAILED", rejected |-> "FAILED",
        cancelled |-> "CANCELLED"][ending[e]]

ContextState(e) ==
  IF StoppedForApproval(e) THEN "WAITING_APPROVAL"
  ELSE IF ending[e] = "cancelled" THEN "CANCELLED" ELSE "CREATED"

EndTold(e, r) ==
  /\ agent[e] \in {"new", "running"} => ~r.error
  /\ agent[e] = "finally" => (r.error <=> ending[e] \in {"error", "rejected"})
  /\ agent[e] = "done" /\ ending[e] # "refused" =>
       /\ r.ended
       /\ r.state = StateShown(e)
       /\ (r.error <=> ending[e] \in {"error", "rejected"})

Endings == {"ok", "rejected", "error", "cancelled", "interrupt"}

\* How an execution stands: no call of it is under way when its graph had a result.
Standing(e) ==
  /\ agent[e] \in {"new", "running", "failing", "finally", "done"}
  /\ agent[e] \in {"new", "running"} => state[e] = "CREATED" /\ ending[e] = "none"
  /\ agent[e] = "failing" => ending[e] \in {"error", "rejected"}
  /\ agent[e] = "finally" => ending[e] \in Endings
  /\ agent[e] = "done" => ending[e] \in Endings \cup {"refused"}
  /\ agent[e] \in {"failing", "finally"} => state[e] = ContextState(e)
  /\ ending[e] \in {"ok", "rejected"} => \A c \in Calls: call[c].execution = e => ~Active(c)

Ends ==
  \A e \in Executions:
    /\ Standing(e)
    /\ e \notin lost /\ agent[e] # "new" => Recorded(runs, e) /\ EndTold(e, RunOf(runs, e))

\* A call moves only while its graph has no result.
LEMMA CallStands ==
  ASSUME Tables, Begun, Ends, NEW c \in Calls, CallStep(c), NEW x \in Executions
  PROVE  /\ StoppedForApproval(x)' <=> StoppedForApproval(x)
         /\ Standing(x)'
<1>1. /\ UNCHANGED <<call, agent, ending, state>> /\ call[c].execution \in Executions
      /\ pc[c] # "done" /\ (pc[c] # "idle" \/ agent[call[c].execution] = "running")
      /\ \A d \in Calls \ {c}: pc'[d] = pc[d] /\ outcome'[d] = outcome[d]
  BY CallFrame
<1>2. Standing(call[c].execution) /\ Standing(x)
  BY <1>1 DEF Ends
<1>3. ending[x] \in {"ok", "rejected"} => x # call[c].execution
  BY <1>1, <1>2 DEF Standing, Active
<1>4. ending[x] \in {"ok", "rejected"} => (Interrupted(x)' <=> Interrupted(x))
  BY <1>1, <1>3 DEF Interrupted
<1>5. StoppedForApproval(x)' <=> StoppedForApproval(x)
  BY <1>1, <1>4 DEF StoppedForApproval
<1>6. ContextState(x)' = ContextState(x)
  BY <1>1, <1>5 DEF ContextState
<1>7. ending[x] \in {"ok", "rejected"} =>
        \A d \in Calls: call[d].execution = x => ~Active(d)'
  BY <1>1, <1>2, <1>3 DEF Standing, Active
<1>8. Standing(x)'
  BY <1>1, <1>2, <1>6, <1>7 DEF Standing
<1> QED BY <1>5, <1>8

LEMMA CallEnds ==
  ASSUME Tables, Stages, Typed, Begun, Ends, NEW c \in Calls, CallStep(c)
  PROVE  Begun' /\ Ends'
<1> DEFINE e == call[c].execution
<1>1. /\ UNCHANGED <<call, agent, ending>> /\ e \in Executions /\ agent[e] # "new"
      /\ \A d \in Calls \ {c}: pc'[d] = pc[d]
  BY CallFrame DEF Begun
<1>2. /\ File'
      /\ \/ UNCHANGED <<runs, lost>>
         \/ \E rows \in Seq(RowSet): Writes(e, WithRows(e, rows))
  BY CallWrites
<1>3. \A d \in Calls: pc'[d] # "idle" => agent'[call'[d].execution] # "new"
  BY <1>1 DEF Begun
<1>4. \A x \in Executions: Standing(x)' /\ StateShown(x)' = StateShown(x)
  BY <1>1, CallStands DEF StateShown
<1>5. CASE UNCHANGED <<runs, lost>>
  <2>1. \A x \in Executions: EndTold(x, RunOf(runs, x)) => EndTold(x, RunOf(runs, x))'
    BY <1>1, <1>5, <1>4 DEF EndTold
  <2> QED BY <1>1, <1>3, <1>5, <1>4, <2>1 DEF Begun, Ends
<1>6. ASSUME NEW rows \in Seq(RowSet), Writes(e, WithRows(e, rows))
      PROVE  Begun' /\ Ends'
  <2>1. \A x \in Executions \ {e}: Recorded(runs', x) => Recorded(runs, x)
    BY <1>6 DEF Writes, SameRun
  <2>2. Begun'
    BY <1>1, <1>3, <2>1 DEF Begun
  <2>3. ASSUME NEW x \in Executions, x \notin lost', agent[x] # "new"
        PROVE  Recorded(runs', x) /\ EndTold(x, RunOf(runs, x))'
    <3>1. x \notin lost /\ Recorded(runs, x) /\ EndTold(x, RunOf(runs, x))
      BY <1>6, <2>3 DEF Ends, Writes
    <3>2. CASE x = e
      <4>1. Opened(e) = RunOf(runs, e) /\ Opened(e) \in RunSet
        BY <1>1, <3>1, <3>2, OpenedRuns DEF Typed
      <4>2. RunOf(runs', e) = WithRows(e, rows) /\ Recorded(runs', e)
        BY <1>6 DEF Writes
      <4>3. PICK r: r = RunOf(runs', e)
        OBVIOUS
      <4>4. r.error = RunOf(runs, e).error /\ r.ended = RunOf(runs, e).ended
            /\ r.state = RunOf(runs, e).state
        BY <4>1, <4>2, <4>3 DEF WithRows, RunSet
      <4>5. EndTold(x, RunOf(runs, x))'
        BY <1>1, <1>4, <3>1, <3>2, <4>3, <4>4 DEF EndTold
      <4> QED BY <3>2, <4>2, <4>5
    <3>3. CASE x # e
      <4>1. SameRun(runs', runs, x)
        BY <1>6, <2>3, <3>3 DEF Writes
      <4>2. Recorded(runs', x) /\ RunOf(runs', x) = RunOf(runs, x)
        BY <3>1, <4>1 DEF SameRun
      <4> QED BY <1>1, <1>4, <3>1, <4>2 DEF EndTold
    <3> QED BY <3>2, <3>3
  <2>4. Ends'
    BY <1>1, <1>4, <2>3 DEF Ends
  <2> QED BY <2>2, <2>4
<1> QED BY <1>2, <1>5, <1>6

LEMMA AgentEnds ==
  ASSUME Tables, Stages, Typed, Begun, Ends, NEW e \in Executions, AgentStep(e)
  PROVE  Begun' /\ Ends'
<1>1. /\ UNCHANGED callVars
      /\ \A x \in Executions \ {e}: /\ agent'[x] = agent[x] /\ ending'[x] = ending[x]
                                    /\ state'[x] = state[x]
      /\ \/ UNCHANGED <<runs, lost, counted>>
         \/ File' /\ \E run \in Entries(e): Writes(e, run)
  BY AgentFrame
<1>2. UNCHANGED <<call, pc, outcome>>
  BY <1>1 DEF callVars
<1>3. \A x \in Executions: Interrupted(x)' <=> Interrupted(x)
  BY <1>2 DEF Interrupted
<1>4. \A x \in Executions \ {e}: /\ StoppedForApproval(x)' <=> StoppedForApproval(x)
                                 /\ StateShown(x)' = StateShown(x)
                                 /\ ContextState(x)' = ContextState(x)
  BY <1>1, <1>3 DEF StoppedForApproval, StateShown, ContextState
<1>5. \A x \in Executions \ {e}: Standing(x)'
  BY <1>1, <1>2, <1>4 DEF Ends, Standing, Active
<1>6. agent'[e] # "new"
  BY DEF Tables, AgentStep, AgentBegin, AgentBreak, AgentAfter, AgentFail, AgentFinally, AgentGoto
<1>7. \A x \in Executions \ {e}: Recorded(runs', x) => Recorded(runs, x)
  BY <1>1 DEF Writes, SameRun
<1>8. Begun'
  <2>1. \A d \in Calls: call[d].execution \in Executions
    BY DEF Tables
  <2> QED BY <1>1, <1>2, <1>6, <1>7, <2>1 DEF Begun
<1>9. ASSUME NEW x \in Executions \ {e}, x \notin lost', agent[x] # "new"
      PROVE  Recorded(runs', x) /\ EndTold(x, RunOf(runs, x))'
  <2>1. x \notin lost
    BY <1>1, <1>9 DEF Writes
  <2>2. Recorded(runs, x) /\ EndTold(x, RunOf(runs, x))
    BY <1>9, <2>1 DEF Ends
  <2>3. Recorded(runs', x) /\ RunOf(runs', x) = RunOf(runs, x)
    BY <1>1, <1>9, <2>2 DEF Writes, SameRun
  <2> QED BY <1>1, <1>9, <1>4, <2>2, <2>3 DEF EndTold
<1>10. e \in lost => e \in lost'
  BY <1>1 DEF Writes
<1>11. SUFFICES /\ Standing(e)'
                /\ e \notin lost => Recorded(runs', e) /\ EndTold(e, RunOf(runs, e))'
  BY <1>1, <1>8, <1>9, <1>10, <1>5 DEF Ends
<1>12. /\ e \notin lost /\ agent[e] # "new" => Recorded(runs, e) /\ EndTold(e, RunOf(runs, e))
       /\ Standing(e)
  BY DEF Ends
<1>13. /\ Opened(e) \in RunSet
       /\ Opened(e) = IF Recorded(runs, e) THEN RunOf(runs, e) ELSE NewRun(e)
  BY OpenedRuns DEF Typed
<1>14. ASSUME NEW run \in Entries(e), ChangeRun(e, run), Reopen(e)
       PROVE  Recorded(runs', e) /\ RunOf(runs', e) = run
  BY <1>14, AgentWrites DEF Typed, Writes
<1>15. CASE AgentBegin(e)
  <2>1. PICK raising \in Raisings:
          LET fired == Fire(Inwards, raising, Open) IN
          /\ agent[e] = "new"
          /\ ChangeRun(e, Opened(e)) /\ Reopen(e)
          /\ ending' = [ending EXCEPT ![e] = IF fired.stop = NoHook THEN "none" ELSE "refused"]
          /\ AgentGoto(e, IF fired.stop = NoHook THEN "running" ELSE "done")
          /\ UNCHANGED state
    BY <1>15 DEF AgentBegin
  <2>2. Recorded(runs', e) /\ RunOf(runs', e) = Opened(e)
    BY <1>14, <2>1 DEF Entries
  <2>3. Opened(e) = NewRun(e)
    BY <1>13, <2>1 DEF Begun
  <2>4. \/ agent'[e] = "running" /\ ending'[e] = "none"
        \/ agent'[e] = "done" /\ ending'[e] = "refused"
    BY <2>1 DEF AgentGoto, Tables
  <2>5. ~RunOf(runs', e).error
    BY <2>2, <2>3 DEF NewRun
  <2>6. Standing(e)'
    BY <1>12, <2>1, <2>4 DEF Standing
  <2> QED BY <2>2, <2>4, <2>5, <2>6 DEF EndTold
<1>16. CASE AgentBreak(e)
  <2>1. PICK how \in {"error", "cancelled", "interrupt"}:
          /\ agent[e] = "running"
          /\ ending' = [ending EXCEPT ![e] = how]
          /\ state' = [state EXCEPT ![e] = FailureState(how, @)]
          /\ AgentGoto(e, IF IsControlFlow(how) THEN "finally" ELSE "failing")
          /\ UNCHANGED recorderVars
    BY <1>16 DEF AgentBreak
  <2>2. /\ ending'[e] = how /\ runs' = runs
        /\ agent'[e] = IF how = "error" THEN "failing" ELSE "finally"
    BY <2>1 DEF AgentGoto, Tables, recorderVars, IsControlFlow
  <2>3. state[e] = "CREATED"
    BY <1>12, <2>1 DEF Standing
  <2>4. state'[e] = ContextState(e)'
    BY <2>1, <2>2, <2>3 DEF FailureState, ContextState, StoppedForApproval, IsControlFlow, Tables
  <2>5. Standing(e)'
    BY <2>2, <2>4 DEF Standing, Endings
  <2>6. e \notin lost => Recorded(runs', e) /\ ~RunOf(runs', e).error
    BY <1>12, <2>1, <2>2 DEF EndTold
  <2> QED BY <2>2, <2>5, <2>6 DEF EndTold
<1>17. CASE AgentAfter(e)
  <2>1. PICK raising \in Raisings:
          LET fired == Fire(Outwards, raising, Open) IN
          /\ agent[e] = "running"
          /\ \A c \in Calls: call[c].execution = e => ~Active(c)
          /\ state' = [state EXCEPT ![e] = ResultState(e)]
          /\ ending' = [ending EXCEPT ![e] = IF fired.stop = NoHook THEN "ok" ELSE "rejected"]
          /\ AgentGoto(e, IF fired.stop = NoHook THEN "finally" ELSE "failing")
          /\ UNCHANGED recorderVars
    BY <1>17 DEF AgentAfter
  <2>2. /\ runs' = runs
        /\ \/ agent'[e] = "failing" /\ ending'[e] = "rejected"
           \/ agent'[e] = "finally" /\ ending'[e] = "ok"
    BY <2>1 DEF AgentGoto, Tables, recorderVars
  <2>3. state[e] = "CREATED"
    BY <1>12, <2>1 DEF Standing
  <2>4. state'[e] = IF Interrupted(e) THEN "WAITING_APPROVAL" ELSE "CREATED"
    BY <2>1, <2>3 DEF ResultState, Tables
  <2>5. state'[e] = ContextState(e)'
    BY <1>3, <2>2, <2>4 DEF ContextState, StoppedForApproval
  <2>6. \A c \in Calls: call'[c].execution = e => ~Active(c)'
    BY <1>2, <2>1 DEF Active
  <2>7. Standing(e)'
    BY <2>2, <2>5, <2>6 DEF Standing, Endings
  <2>8. e \notin lost => Recorded(runs', e) /\ ~RunOf(runs', e).error
    BY <1>12, <2>1, <2>2 DEF EndTold
  <2> QED BY <2>2, <2>7, <2>8 DEF EndTold
<1>18. CASE AgentFail(e)
  <2>1. /\ agent[e] = "failing" /\ agent'[e] = "finally" /\ UNCHANGED <<ending, state>>
        /\ ChangeRun(e, [Opened(e) EXCEPT !.error = TRUE]) /\ Reopen(e)
    BY <1>18 DEF AgentFail, AgentGoto, Tables
  <2>2. Recorded(runs', e) /\ RunOf(runs', e) = [Opened(e) EXCEPT !.error = TRUE]
    BY <1>14, <2>1 DEF Entries
  <2>3. RunOf(runs', e).error
    BY <1>13, <2>2 DEF RunSet
  <2>4. ContextState(e)' = ContextState(e)
    BY <1>3, <2>1 DEF ContextState, StoppedForApproval
  <2>5. Standing(e)'
    BY <1>2, <1>12, <2>1, <2>4 DEF Standing, Endings, Active
  <2>6. ending[e] \in {"error", "rejected"}
    BY <1>12, <2>1 DEF Standing
  <2> QED BY <2>1, <2>2, <2>3, <2>5, <2>6 DEF EndTold
<1>19. CASE AgentFinally(e)
  <2> DEFINE run == [Opened(e) EXCEPT !.ended = TRUE, !.state = FinalState(Opened(e), state[e])]
  <2>1. /\ agent[e] = "finally" /\ agent'[e] = "done" /\ UNCHANGED <<ending, state>>
        /\ ChangeRun(e, run) /\ Reopen(e)
    BY <1>19 DEF AgentFinally, AgentGoto, Tables
  <2>2. Recorded(runs', e) /\ RunOf(runs', e) = run
    BY <1>14, <2>1 DEF Entries
  <2>3. run.ended /\ run.error = Opened(e).error /\ run.state = FinalState(Opened(e), state[e])
    BY <1>13 DEF RunSet
  <2> HIDE DEF run
  <2>4. e \notin lost => (Opened(e).error <=> ending[e] \in {"error", "rejected"})
    BY <1>12, <1>13, <2>1 DEF EndTold
  <2>5. ending[e] \in Endings /\ state[e] = ContextState(e)
    BY <1>12, <2>1 DEF Standing
  <2>6. e \notin lost => run.state = StateShown(e)
    BY <2>3, <2>4, <2>5 DEF FinalState, ContextState, StateShown, Endings, StoppedForApproval
  <2>7. StateShown(e)' = StateShown(e)
    BY <1>3, <2>1 DEF StateShown, StoppedForApproval
  <2>8. Opened(e).error \in BOOLEAN
    BY <1>13 DEF RunSet
  <2>9. Standing(e)'
    BY <1>2, <1>12, <2>1, <2>5 DEF Standing, Active
  <2> QED BY <2>1, <2>2, <2>3, <2>4, <2>6, <2>7, <2>8, <2>9 DEF EndTold
<1> QED BY <1>15, <1>16, <1>17, <1>18, <1>19 DEF AgentStep

LEMMA NextEnds == Tables /\ Stages /\ Typed /\ Begun /\ Ends /\ [Next]_vars => Begun' /\ Ends'
<1> SUFFICES ASSUME Tables, Stages, Typed, Begun, Ends, [Next]_vars PROVE Begun' /\ Ends'
  OBVIOUS
<1>1. CASE UNCHANGED vars
  <2>1. UNCHANGED <<call, pc, outcome, agent, ending, state, runs, lost>>
    BY <1>1 DEF vars, callVars, agentVars, recorderVars
  <2>2. \A x \in Executions: StoppedForApproval(x)' <=> StoppedForApproval(x)
    BY <2>1 DEF StoppedForApproval, Interrupted
  <2>3. \A x \in Executions: EndTold(x, RunOf(runs, x)) => EndTold(x, RunOf(runs, x))'
    BY <2>1, <2>2 DEF EndTold, StateShown
  <2>4. \A x \in Executions: Standing(x) => Standing(x)'
    BY <2>1, <2>2 DEF Standing, ContextState, Active
  <2> QED BY <2>1, <2>3, <2>4 DEF Begun, Ends
<1>2. CASE \E c \in Calls: CallStep(c)
  BY <1>2, CallEnds
<1>3. CASE \E e \in Executions: AgentStep(e)
  BY <1>3, AgentEnds
<1> QED BY <1>1, <1>2, <1>3 DEF Next, CallStep

LEMMA InitEnds == Init => Begun /\ Ends
  BY DEF Init, Begun, Ends, Standing, Recorded

\* The run of an execution that is over says so and says how, whatever was lost
\* and opened again around it.
THEOREM RunsTellTheirEnd == Spec => []RunsTellTheEnd
<1>1. Ends => RunsTellTheEnd
  BY DEF Ends, EndTold, StateShown, RunsTellTheEnd
<1>2. Spec => [](Begun /\ Ends)
  BY InitEnds, NextEnds, TypedHolds, PTL DEF Spec
<1> QED BY <1>1, <1>2, PTL

-----------------------------------------------------------------------------
(* How a call moves on, and what its steps do to the timers.               *)

\* Between its timer and its row.
Underway == {"body", "after", "failing", "finish"}

\* The calls whose timer runs or was left running: they have not ended well.
Unfinished(c) == pc[c] \in Underway \/ (pc[c] = "done" /\ outcome[c] = "error")

\* The timer starts.
Starts(c) ==
  /\ StartTimer(c) /\ UNCHANGED timed
  /\ pc[c] \in {"idle", "check"} /\ pc'[c] \in {"body", "failing", "done"}
  /\ pc'[c] = "done" => outcome'[c] = "error"

\* It is popped.
Pops(c) ==
  /\ FinishTimer(c) /\ UNCHANGED begun
  /\ pc[c] \in {"after", "failing", "finish"} /\ pc'[c] \in {"row", "failrow"}

\* Neither.
GoesOn(c) ==
  /\ UNCHANGED <<timer, begun>> /\ \A d \in Calls \ {c}: timed'[d] = timed[d]
  /\ \/ pc[c] \in {"idle", "check"} /\ pc'[c] \in {"check", "failing", "done"}
     \/ pc[c] \in Underway /\ (pc'[c] \in Underway \/ (pc'[c] = "done" /\ outcome'[c] = "error"))
     \/ pc[c] \in {"row", "failrow", "leave"} /\ pc'[c] \in {"leave", "done"}

\* Those that are active beside a call that begins.
Neighbours(c) == {d \in Group(c) \ {c}: Active(d)}

\* What every step of a call comes to.
Moves(c) ==
  /\ Starts(c) \/ Pops(c) \/ GoesOn(c)
  /\ outcome[c] = "error" => outcome'[c] = "error"
  /\ pc[c] \in {"row", "failrow", "leave", "done"} => outcome'[c] = outcome[c] /\ stop'[c] = stop[c]
  /\ IF pc[c] = "idle" /\ Neighbours(c) # {} THEN overlapped' = overlapped \cup Neighbours(c) \cup {c}
     ELSE UNCHANGED overlapped

LEMMA BeforeMoves ==
  ASSUME Tables, Stages, NEW c \in Calls, NodeBefore(c) \/ ToolBefore(c) \/ ModelBefore(c)
  PROVE  Moves(c)
<1>1. PICK raising \in Raisings:
        LET fired == Fire(Inwards, raising, Open) IN
        /\ FireBefore(c, fired)
        /\ outcome' = [outcome EXCEPT ![c] = IF fired.stop = NoHook THEN "none" ELSE "error"]
        /\ Goto(c, IF fired.stop = NoHook THEN "body" ELSE IF ToolBefore(c) THEN "failing" ELSE "done")
        /\ UNCHANGED timed
        /\ IF ToolBefore(c) THEN At(c, "check") /\ UNCHANGED overlapped ELSE Begins(c)
  <2>1. CASE ToolBefore(c)
    BY <2>1 DEF ToolBefore
  <2>2. CASE ~ToolBefore(c) /\ NodeBefore(c)
    BY <2>2 DEF NodeBefore
  <2>3. CASE ~ToolBefore(c) /\ ModelBefore(c)
    BY <2>3 DEF ModelBefore
  <2> QED BY <2>1, <2>2, <2>3
<1> DEFINE fired == Fire(Inwards, raising, Open)
<1>2. \/ fired.stop \in {NoHook, "app"} /\ "recorder" \in fired.ran
      \/ fired.stop = "guard" /\ "recorder" \notin fired.ran
  BY FireInwards DEF Watching
<1>3. /\ IF "recorder" \in fired.ran THEN StartTimer(c) ELSE UNCHANGED <<timer, begun>>
      /\ outcome'[c] = IF fired.stop = NoHook THEN "none" ELSE "error"
      /\ pc'[c] = IF fired.stop = NoHook THEN "body" ELSE IF ToolBefore(c) THEN "failing" ELSE "done"
      /\ UNCHANGED timed
      /\ pc[c] = IF ToolBefore(c) THEN "check" ELSE "idle"
  BY <1>1 DEF FireBefore, Goto, At, Begins, Tables
<1> HIDE DEF fired
<1>4. outcome[c] = "none"
  <2>1. CASE pc[c] = "check"
    BY <2>1, Checked
  <2>2. CASE pc[c] = "idle"
    BY <2>2 DEF Stages, Staged, NodeStaged, ToolStaged, ModelStaged, Fresh, Tables, Kinds
  <2> QED BY <1>3, <2>1, <2>2
<1>5. IF pc[c] = "idle" /\ Neighbours(c) # {} THEN overlapped' = overlapped \cup Neighbours(c) \cup {c}
      ELSE UNCHANGED overlapped
  BY <1>1, <1>3 DEF Begins, Neighbours
<1>6. Starts(c) \/ GoesOn(c)
  BY <1>2, <1>3, ChainAssumption DEF Starts, GoesOn
<1> QED BY <1>3, <1>4, <1>5, <1>6 DEF Moves

LEMMA CallMoves ==
  ASSUME Tables, Stages, NEW c \in Calls, CallStep(c)
  PROVE  Moves(c)
<1>1. CASE NodeBefore(c) \/ ToolBefore(c) \/ ModelBefore(c)
  BY <1>1, BeforeMoves
<1>2. CASE NodeBody(c)
  <2>1. PICK parts \in NodeParts:
          /\ At(c, "body")
          /\ call[c].kind = "node"
          /\ Goto(c, IF NodeFunction(parts).outcome = "ok" THEN "after" ELSE "failing")
          /\ UNCHANGED <<timed, timer, begun, overlapped>>
    BY <1>2 DEF NodeBody
  <2>2. pc[c] = "body" /\ pc'[c] \in {"after", "failing"}
    BY <2>1 DEF At, Goto, Tables
  <2>3. outcome[c] = "none"
    BY <2>1, <2>2 DEF Stages, Staged, NodeStaged, Fresh
  <2> QED BY <2>1, <2>2, <2>3 DEF Moves, GoesOn, Underway
<1>3. CASE NodeAfter(c)
  <2>1. /\ pc[c] = "after" /\ pc'[c] \in {"finish", "failing"} /\ call[c].kind = "node"
        /\ UNCHANGED <<timed, timer, begun, overlapped>>
    BY <1>3 DEF NodeAfter, Goto, At, Tables
  <2>2. outcome[c] = "ok"
    BY <2>1 DEF Stages, Staged, NodeStaged, Fresh
  <2> QED BY <2>1, <2>2 DEF Moves, GoesOn, Underway
<1>4. CASE NodeFail(c)
  <2>1. /\ pc[c] = "failing" /\ pc'[c] = "finish"
        /\ UNCHANGED <<timed, timer, begun, overlapped, outcome>>
    BY <1>4 DEF NodeFail, Goto, At, Tables
  <2> QED BY <2>1 DEF Moves, GoesOn, Underway
<1>5. CASE NodeFinish(c) \/ ToolFail(c)
  <2>1. /\ pc[c] \in {"finish", "failing"} /\ pc'[c] \in {"row", "failrow"} /\ FinishTimer(c)
        /\ UNCHANGED <<begun, overlapped, outcome>>
    BY <1>5 DEF NodeFinish, ToolFail, Goto, At, Tables
  <2> QED BY <2>1 DEF Moves, Pops
<1>6. CASE NodeRow(c) \/ ToolFailed(c) \/ BoundaryRow(c) \/ BoundaryLeave(c)
  <2>1. /\ pc[c] \in {"row", "failrow", "leave"} /\ pc'[c] \in {"leave", "done"}
        /\ UNCHANGED timed \/ timed' = [timed EXCEPT ![c] = NoCall]
        /\ UNCHANGED <<timer, begun, overlapped, outcome, stop>>
    BY <1>6 DEF NodeRow, ToolFailed, BoundaryRow, BoundaryLeave, Goto, At, Tables
  <2>2. \A d \in Calls \ {c}: timed'[d] = timed[d]
    BY <2>1 DEF Tables
  <2> QED BY <2>1, <2>2 DEF Moves, GoesOn
<1>7. CASE ToolStart(c)
  <2>1. /\ pc[c] = "idle" /\ pc'[c] = "check" /\ Begins(c)
        /\ UNCHANGED <<timed, timer, begun, outcome>>
    BY <1>7 DEF ToolStart, Begins, Goto, At, Tables
  <2> QED BY <2>1 DEF Moves, GoesOn, Begins, Neighbours
<1>8. CASE ToolRefused(c)
  <2>1. /\ pc[c] = "check" /\ pc'[c] = "failing" /\ outcome'[c] = "error"
        /\ UNCHANGED <<timed, timer, begun, overlapped>>
    BY <1>8 DEF ToolRefused, recorderVars, Goto, At, Tables
  <2> QED BY <2>1 DEF Moves, GoesOn
<1>9. CASE BoundaryBody(c)
  <2>1. PICK end \in {"ok", "error"} \cup (IF call[c].kind = "tool" THEN {"interrupt"} ELSE {}):
          /\ Boundary(c)
          /\ At(c, "body")
          /\ outcome' = [outcome EXCEPT ![c] = end]
          /\ IF end = "ok" THEN Goto(c, "after")
             ELSE IF call[c].kind = "tool" THEN Goto(c, "failing") ELSE Goto(c, "done")
          /\ UNCHANGED <<timed, timer, begun, overlapped>>
    BY <1>9 DEF BoundaryBody, recorderVars
  <2>2. pc[c] = "body" /\ (pc'[c] \in Underway \/ (pc'[c] = "done" /\ outcome'[c] = "error"))
    BY <2>1 DEF Goto, At, Tables, Underway
  <2>3. outcome[c] = "none"
    BY <2>1, <2>2 DEF Stages, Staged, ToolStaged, ModelStaged, Fresh, Boundary
  <2> QED BY <2>1, <2>2, <2>3 DEF Moves, GoesOn, Underway
<1>10. CASE BoundaryAfter(c)
  <2>1. PICK raising \in Raisings:
          LET fired == Fire(Outwards, raising, Open) IN
          /\ Boundary(c)
          /\ At(c, "after")
          /\ outcome' = [outcome EXCEPT ![c] = IF fired.stop = NoHook THEN "ok" ELSE "error"]
          /\ IF "recorder" \in fired.ran THEN FinishTimer(c) /\ Goto(c, "row")
             ELSE UNCHANGED <<timed, timer>> /\ Goto(c, "done")
          /\ UNCHANGED <<begun, overlapped>>
    BY <1>10 DEF BoundaryAfter
  <2> DEFINE fired == Fire(Outwards, raising, Open)
  <2>2. \/ fired.stop \in {NoHook, "guard"} /\ "recorder" \in fired.ran
        \/ fired.stop = "app" /\ "recorder" \notin fired.ran
    BY FireOutwards DEF Watching
  <2>3. /\ pc[c] = "after" /\ UNCHANGED <<begun, overlapped>>
        /\ IF "recorder" \in fired.ran THEN FinishTimer(c) /\ pc'[c] = "row"
           ELSE UNCHANGED <<timed, timer>> /\ pc'[c] = "done"
        /\ outcome'[c] = IF fired.stop = NoHook THEN "ok" ELSE "error"
    BY <2>1 DEF Goto, At, Tables
  <2> HIDE DEF fired
  <2>4. outcome[c] = "ok"
    BY <2>1, <2>3 DEF Stages, Staged, ToolStaged, ModelStaged, Fresh, Boundary
  <2>5. Pops(c) \/ GoesOn(c)
    BY <2>2, <2>3, ChainAssumption DEF Pops, GoesOn, Underway
  <2> QED BY <2>3, <2>4, <2>5 DEF Moves
<1> QED BY <1>1, <1>2, <1>3, <1>4, <1>5, <1>6, <1>7, <1>8, <1>9, <1>10
        DEF CallStep, NodeStep, ToolStep, BoundaryStep

\* Calls of one name that run beside each other are known as such.
Beside ==
  \A c, d \in Calls:
    c # d /\ call[c] = call[d] /\ Active(c) /\ Active(d) => c \in overlapped

\* What a row of call c may show as its start.
Fits(c, start) ==
  \/ start = c
  \/ c \in overlapped
  \/ start = NoCall /\ (c \notin begun \/ call[c].execution \in lost)
  \/ start # NoCall /\ c \notin begun /\ outcome[start] = "error"

\* A timer is of a call with that key which has not ended well; it is a call's own
\* unless another one was beside it; and what was popped for a call fits it.
Timers ==
  /\ \A k \in Keys, c \in Calls: timer[k] = c => Key(c) = k /\ c \in begun /\ Unfinished(c)
  /\ \A c \in begun: pc[c] \in Underway => c \in overlapped \/ timer[Key(c)] = c
  /\ \A c \in Calls: pc[c] \in {"row", "failrow"} => Fits(c, timed[c])
  /\ \A c \in Calls: pc[c] \in {"idle", "check"} => c \notin begun

\* The calls of one key are one, or have one name.
LEMMA OneKey ==
  ASSUME Tables, NEW c \in Calls, NEW d \in Calls, Key(c) = Key(d)
  PROVE  c = d \/ call[c] = call[d]
<1>1. /\ call[c] \in [execution: Executions, kind: Kinds, name: {"a"}]
      /\ call[d] \in [execution: Executions, kind: Kinds, name: {"a"}]
  BY DEF Tables
<1>2. /\ call[c].execution = call[d].execution
      /\ call[c].kind = call[d].kind
      /\ call[c].kind = "node" => c = d
  BY DEF Key
<1>3. call[c].name = call[d].name
  BY <1>1
<1> QED BY <1>1, <1>2, <1>3

\* What fits a call fits it from then on.
LEMMA StillFits ==
  ASSUME Tables, Stages, Typed, NEW c \in Calls, NEW start \in Calls \cup {NoCall}, Fits(c, start),
         pc[c] \notin {"idle", "check"}, [Next]_vars
  PROVE  Fits(c, start)'
<1>1. CASE UNCHANGED vars
  BY <1>1 DEF vars, callVars, recorderVars, Fits
<1>2. ASSUME NEW d \in Calls, CallStep(d)
      PROVE  Fits(c, start)'
  <2>1. UNCHANGED call /\ \A x \in Calls \ {d}: outcome'[x] = outcome[x]
    BY <1>2, CallFrame
  <2>2. Moves(d)
    BY <1>2, CallMoves
  <2>3. overlapped \subseteq overlapped' /\ (outcome[d] = "error" => outcome'[d] = "error")
    BY <2>2 DEF Moves
  <2>4. c \notin begun => c \notin begun'
    BY <2>2 DEF Moves, Starts, Pops, GoesOn, StartTimer
  <2>5. lost \subseteq lost'
    BY <1>2, CallWrites DEF Writes
  <2> QED BY <2>1, <2>3, <2>4, <2>5 DEF Fits
<1>3. ASSUME NEW e \in Executions, AgentStep(e)
      PROVE  Fits(c, start)'
  <2>1. UNCHANGED <<callVars, begun, overlapped>> /\ lost \subseteq lost'
    BY <1>3, AgentFrame DEF RowsBecome
  <2> QED BY <2>1 DEF callVars, Fits
<1> QED BY <1>1, <1>2, <1>3 DEF Next, CallStep

LEMMA CallBeside ==
  ASSUME Tables, Stages, Beside, NEW c \in Calls, CallStep(c)
  PROVE  Beside'
<1>1. /\ UNCHANGED call /\ \A x \in Calls \ {c}: pc'[x] = pc[x]
      /\ Moves(c)
  BY CallFrame, CallMoves
<1>2. overlapped \subseteq overlapped' /\ (pc[c] # "idle" => Active(c))
  BY <1>1 DEF Moves, Starts, Pops, GoesOn, Active, Underway
<1>3. \A x \in Calls \ {c}: Active(x)' <=> Active(x)
  BY <1>1 DEF Active
<1> SUFFICES ASSUME NEW a \in Calls, NEW d \in Calls, a # d, call[a] = call[d],
                    Active(a)', Active(d)'
             PROVE  a \in overlapped'
  BY <1>1 DEF Beside
<1>4. CASE Active(a) /\ Active(d)
  BY <1>2, <1>4 DEF Beside
<1>5. CASE ~(Active(a) /\ Active(d))
  <2>1. pc[c] = "idle" /\ c \in {a, d}
    BY <1>2, <1>3, <1>5
  <2>2. PICK b \in {a, d}: b # c /\ Active(b) /\ call[b] = call[c] /\ {a, d} = {b, c}
    BY <1>3, <2>1
  <2>3. b \in Neighbours(c)
    BY <2>2 DEF Neighbours, Group
  <2> QED BY <1>1, <2>1, <2>2, <2>3 DEF Moves
<1> QED BY <1>4, <1>5

\* A pop finds a call's own start, or one that fits.
LEMMA Popped ==
  ASSUME Tables, Typed, Beside, Timers, NEW c \in Calls, pc[c] \in Underway
  PROVE  Fits(c, timer[Key(c)]) /\ timer[Key(c)] \in Calls \cup {NoCall}
<1> DEFINE s == timer[Key(c)]
<1>1. Key(c) \in Keys /\ s \in Calls \cup {NoCall}
  BY DEF Keys, Typed
<1>2. CASE c \in begun
  <2>1. c \in overlapped \/ s = c
    BY <1>2 DEF Timers
  <2> QED BY <1>1, <2>1 DEF Fits
<1>3. CASE c \notin begun /\ s = NoCall
  BY <1>1, <1>3 DEF Fits
<1>4. CASE c \notin begun /\ s # NoCall
  <2>1. s \in Calls /\ Key(s) = Key(c) /\ s \in begun /\ Unfinished(s)
    BY <1>1, <1>4 DEF Timers
  <2>2. s # c /\ call[s] = call[c]
    BY <1>4, <2>1, OneKey
  <2>3. CASE pc[s] \in Underway
    <3>1. Active(s) /\ Active(c)
      BY <2>3 DEF Active, Underway
    <3> QED BY <1>1, <2>1, <2>2, <3>1 DEF Beside, Fits
  <2>4. CASE outcome[s] = "error"
    BY <1>1, <1>4, <2>4 DEF Fits
  <2> QED BY <2>1, <2>3, <2>4 DEF Unfinished
<1> QED BY <1>1, <1>2, <1>3, <1>4

LEMMA CallTimers ==
  ASSUME Tables, Stages, Typed, Beside, Timers, NEW c \in Calls, CallStep(c)
  PROVE  Timers'
<1>1. /\ UNCHANGED call /\ \A x \in Calls \ {c}: pc'[x] = pc[x] /\ outcome'[x] = outcome[x]
      /\ Moves(c) /\ Keys' = Keys /\ \A x \in Calls: Key(x)' = Key(x)
  BY CallFrame, CallMoves, KeysStay
<1>2. \A x \in Calls \ {c}: Unfinished(x)' <=> Unfinished(x)
  BY <1>1 DEF Unfinished
<1>3. Key(c) \in Keys /\ Typed'
  BY CallTyped DEF Keys
<1>4. /\ DOMAIN timer = Keys /\ DOMAIN timed = Calls
      /\ \A k \in Keys: timer[k] \in Calls \cup {NoCall}
      /\ timer' \in [Keys -> Calls \cup {NoCall}]
      /\ begun \subseteq Calls /\ begun' \subseteq Calls
  BY <1>1, <1>3 DEF Typed
<1>5. overlapped \subseteq overlapped'
  BY <1>1 DEF Moves
<1>6. /\ \A k \in Keys, x \in Calls: timer[k] = x => Key(x) = k /\ x \in begun /\ Unfinished(x)
      /\ \A x \in begun: pc[x] \in Underway => x \in overlapped \/ timer[Key(x)] = x
      /\ \A x \in Calls: pc[x] \in {"row", "failrow"} => Fits(x, timed[x])
      /\ \A x \in Calls: pc[x] \in {"idle", "check"} => x \notin begun
  BY DEF Timers
<1>7. ASSUME NEW x \in Calls, NEW start \in Calls \cup {NoCall}, Fits(x, start),
             pc[x] \notin {"idle", "check"}, timed'[x] = start
      PROVE  Fits(x, timed[x])'
  <2>1. [Next]_vars
    BY DEF Next, CallStep
  <2>2. Fits(x, start)'
    BY <1>7, <2>1, StillFits
  <2> QED BY <1>7, <2>2 DEF Fits
<1>8. ASSUME NEW x \in Calls \ {c}, pc'[x] \in {"row", "failrow"}, timed'[x] = timed[x]
      PROVE  Fits(x, timed[x])'
  <2>1. Fits(x, timed[x]) /\ timed[x] \in Calls \cup {NoCall} /\ pc[x] \notin {"idle", "check"}
    BY <1>1, <1>6, <1>8 DEF Typed
  <2>2. PICK start \in Calls \cup {NoCall}: start = timed[x]
    BY <2>1
  <2> QED BY <1>7, <1>8, <2>1, <2>2
<1>9. SUFFICES
        /\ \A k \in Keys, x \in Calls: timer'[k] = x => Key(x) = k /\ x \in begun' /\ Unfinished(x)'
        /\ \A x \in begun': pc'[x] \in Underway => x \in overlapped' \/ timer'[Key(x)] = x
        /\ \A x \in Calls \ {c}: timed'[x] = timed[x]
        /\ pc'[c] \in {"row", "failrow"} => Fits(c, timed[c])'
        /\ pc'[c] \in {"idle", "check"} => c \notin begun'
        /\ \A x \in Calls \ {c}: x \in begun' => x \in begun
  <2>1. \A x \in Calls: pc'[x] \in {"row", "failrow"} => Fits(x, timed[x])'
    BY <1>8, <1>9
  <2>2. \A x \in Calls: pc'[x] \in {"idle", "check"} => x \notin begun'
    BY <1>1, <1>6, <1>9
  <2>3. \A k \in Keys', x \in Calls: timer'[k] = x => Key(x)' = k /\ x \in begun' /\ Unfinished(x)'
    BY <1>1, <1>9
  <2>4. \A x \in begun': pc'[x] \in Underway => x \in overlapped' \/ timer'[Key(x)'] = x
    BY <1>1, <1>4, <1>9
  <2> QED BY <2>1, <2>2, <2>3, <2>4 DEF Timers
<1>10. CASE Starts(c)
  <2>1. /\ timer' = [timer EXCEPT ![Key(c)] = c] /\ begun' = begun \cup {c} /\ timed' = timed
        /\ pc[c] \in {"idle", "check"} /\ pc'[c] \in {"body", "failing", "done"}
        /\ pc'[c] = "done" => outcome'[c] = "error"
    BY <1>10 DEF Starts, StartTimer
  <2>2. Unfinished(c)'
    BY <2>1 DEF Unfinished, Underway
  <2>3. ASSUME NEW k \in Keys, NEW x \in Calls, timer'[k] = x
        PROVE  Key(x) = k /\ x \in begun' /\ Unfinished(x)'
    <3>1. CASE k = Key(c)
      BY <1>3, <1>4, <2>1, <2>2, <2>3, <3>1
    <3>2. CASE k # Key(c)
      <4>1. timer[k] = x
        BY <1>4, <2>1, <2>3, <3>2
      <4>2. x # c
        BY <1>6, <2>1, <4>1
      <4> QED BY <1>2, <1>6, <2>1, <4>1, <4>2
    <3> QED BY <3>1, <3>2
  <2>4. ASSUME NEW x \in begun', pc'[x] \in Underway
        PROVE  x \in overlapped' \/ timer'[Key(x)] = x
    <3>1. CASE x = c
      BY <1>3, <1>4, <2>1, <3>1
    <3>2. CASE x # c
      <4>1. x \in Calls /\ (x \in overlapped \/ timer[Key(x)] = x)
        BY <1>1, <1>4, <1>6, <2>1, <2>4, <3>2
      <4>2. CASE Key(x) # Key(c)
        BY <1>4, <1>5, <2>1, <4>1, <4>2
      <4>3. CASE Key(x) = Key(c)
        <5>1. call[x] = call[c]
          BY <3>2, <4>1, <4>3, OneKey
        <5>2. CASE pc[c] = "idle"
          <6>1. x \in Neighbours(c)
            BY <1>1, <2>4, <3>2, <4>1, <5>1 DEF Neighbours, Group, Active, Underway
          <6> QED BY <1>1, <5>2, <6>1 DEF Moves
        <5>3. CASE pc[c] = "check"
          <6>1. Active(c) /\ Active(x)
            BY <1>1, <2>4, <3>2, <4>1, <5>3 DEF Active, Underway
          <6>2. x \in overlapped
            BY <3>2, <4>1, <5>1, <6>1 DEF Beside
          <6> QED BY <1>5, <6>2
        <5> QED BY <2>1, <5>2, <5>3
      <4> QED BY <4>2, <4>3
    <3> QED BY <3>1, <3>2
  <2> QED BY <2>1, <2>3, <2>4
<1>11. CASE Pops(c)
  <2>1. /\ timed' = [timed EXCEPT ![c] = timer[Key(c)]]
        /\ timer' = [timer EXCEPT ![Key(c)] = NoCall] /\ begun' = begun
        /\ pc[c] \in {"after", "failing", "finish"} /\ pc'[c] \in {"row", "failrow"}
    BY <1>11 DEF Pops, FinishTimer
  <2>2. PICK start \in Calls \cup {NoCall}: start = timer[Key(c)] /\ Fits(c, start)
    BY <2>1, Popped DEF Underway
  <2>3. Fits(c, timed[c])'
    BY <1>4, <1>7, <2>1, <2>2
  <2>4. ASSUME NEW k \in Keys, NEW x \in Calls, timer'[k] = x
        PROVE  Key(x) = k /\ x \in begun' /\ Unfinished(x)'
    <3>1. k # Key(c) /\ timer[k] = x
      BY <1>3, <1>4, <2>1, <2>4, ObservationAssumption
    <3>2. x # c
      BY <1>6, <3>1
    <3> QED BY <1>2, <1>6, <2>1, <3>1, <3>2
  <2>5. ASSUME NEW x \in begun', pc'[x] \in Underway
        PROVE  x \in overlapped' \/ timer'[Key(x)] = x
    <3>1. x # c /\ x \in Calls
      BY <1>4, <2>1, <2>5 DEF Underway
    <3>2. pc[x] \in Underway /\ (x \in overlapped \/ timer[Key(x)] = x)
      BY <1>1, <1>6, <2>1, <2>5, <3>1
    <3>3. CASE Key(x) # Key(c)
      BY <1>4, <1>5, <2>1, <3>2, <3>3
    <3>4. CASE Key(x) = Key(c)
      <4>1. call[x] = call[c]
        BY <3>1, <3>4, OneKey
      <4>2. Active(x) /\ Active(c)
        BY <2>1, <3>2 DEF Active, Underway
      <4>3. x \in overlapped
        BY <3>1, <4>1, <4>2 DEF Beside
      <4> QED BY <1>5, <4>3
    <3> QED BY <3>3, <3>4
  <2> QED BY <1>4, <2>1, <2>3, <2>4, <2>5
<1>12. CASE GoesOn(c)
  <2>1. /\ timer' = timer /\ begun' = begun /\ \A x \in Calls \ {c}: timed'[x] = timed[x]
        /\ \/ pc[c] \in {"idle", "check"} /\ pc'[c] \in {"check", "failing", "done"}
           \/ pc[c] \in Underway /\ (pc'[c] \in Underway \/ (pc'[c] = "done" /\ outcome'[c] = "error"))
           \/ pc[c] \in {"row", "failrow", "leave"} /\ pc'[c] \in {"leave", "done"}
    BY <1>12 DEF GoesOn
  <2>2. pc[c] # "done" /\ pc'[c] \notin {"row", "failrow"}
    BY <2>1 DEF Underway
  <2>3. Unfinished(c) => Unfinished(c)'
    BY <2>1, <2>2 DEF Unfinished, Underway
  <2>4. \A k \in Keys, x \in Calls: timer'[k] = x => Key(x) = k /\ x \in begun' /\ Unfinished(x)'
    BY <1>2, <1>6, <2>1, <2>3
  <2>5. ASSUME NEW x \in begun', pc'[x] \in Underway
        PROVE  x \in overlapped' \/ timer'[Key(x)] = x
    <3>1. x \in begun /\ pc[x] \in Underway
      <4>1. CASE x = c
        BY <1>4, <1>6, <2>1, <2>5, <4>1 DEF Underway
      <4>2. CASE x # c
        BY <1>1, <1>4, <2>1, <2>5, <4>2
      <4> QED BY <4>1, <4>2
    <3> QED BY <1>5, <1>6, <2>1, <3>1
  <2>6. pc'[c] \in {"idle", "check"} => c \notin begun'
    BY <1>6, <2>1 DEF Underway
  <2> QED BY <2>1, <2>2, <2>4, <2>5, <2>6
<1> QED BY <1>1, <1>10, <1>11, <1>12 DEF Moves

\* The errors of nodes whose row is still to come.
Errors ==
  /\ \A c \in errors: call[c].kind = "node" /\ pc[c] \in {"finish", "row"}
  /\ \A c \in Calls: call[c].kind = "node" /\ pc[c] \in {"finish", "row"} =>
       (c \in errors <=> outcome[c] = "error")

LEMMA CallErrors ==
  ASSUME Tables, Stages, Typed, Errors, NEW c \in Calls, CallStep(c)
  PROVE  Errors'
<1>1. /\ UNCHANGED call /\ \A x \in Calls \ {c}: pc'[x] = pc[x] /\ outcome'[x] = outcome[x]
      /\ errors \subseteq Calls
  BY CallFrame DEF Typed
<1>2. SUFFICES /\ \A x \in Calls \ {c}: x \in errors' <=> x \in errors
               /\ errors' \subseteq Calls
               /\ c \in errors' => call[c].kind = "node" /\ pc'[c] \in {"finish", "row"}
               /\ call[c].kind = "node" /\ pc'[c] \in {"finish", "row"} =>
                    (c \in errors' <=> outcome'[c] = "error")
  BY <1>1 DEF Errors
<1>3. call[c].kind \in Kinds
  BY DEF Tables
<1>4. CASE NodeFail(c)
  <2>1. /\ call[c].kind = "node" /\ pc[c] = "failing" /\ pc'[c] = "finish" /\ outcome' = outcome
        /\ IF IsControlFlow(outcome[c]) THEN UNCHANGED errors ELSE errors' = errors \cup {c}
    BY <1>4 DEF NodeFail, At, Goto, Tables
  <2>2. outcome[c] \in {"interrupt", "error"}
    BY <2>1 DEF Stages, Staged, NodeStaged, NodeBroke, Fresh
  <2>3. c \notin errors
    BY <2>1 DEF Errors
  <2> QED BY <1>1, <2>1, <2>2, <2>3 DEF IsControlFlow
<1>5. CASE NodeFinish(c)
  <2>1. /\ call[c].kind = "node" /\ pc[c] = "finish" /\ pc'[c] = "row"
        /\ UNCHANGED <<errors, outcome>>
    BY <1>5 DEF NodeFinish, At, Goto, Tables
  <2> QED BY <1>1, <2>1 DEF Errors
<1>6. CASE NodeRow(c)
  <2>1. pc'[c] = "done" /\ errors' = errors \ {c}
    BY <1>6 DEF NodeRow, Goto, Tables
  <2> QED BY <1>1, <2>1
<1>7. CASE NodeAfter(c)
  <2>1. PICK raising \in Raisings:
          LET fired == Fire(Outwards, raising, Open) IN
          /\ At(c, "after")
          /\ outcome' = [outcome EXCEPT ![c] = IF fired.stop = NoHook THEN "ok" ELSE "error"]
          /\ Goto(c, IF fired.stop = NoHook THEN "finish" ELSE "failing")
          /\ UNCHANGED errors
    BY <1>7 DEF NodeAfter
  <2>2. /\ pc[c] = "after" /\ errors' = errors /\ pc'[c] \in {"finish", "failing"}
        /\ pc'[c] = "finish" => outcome'[c] = "ok"
    BY <2>1 DEF At, Goto, Tables
  <2>3. c \notin errors
    BY <2>2 DEF Errors
  <2> QED BY <1>1, <2>2, <2>3 DEF Errors
<1>8. CASE NodeBefore(c) \/ NodeBody(c)
  <2>1. /\ pc'[c] \in {"body", "done", "after", "failing"} /\ errors' = errors
        /\ pc[c] \in {"idle", "body"}
    BY <1>8 DEF NodeBefore, NodeBody, Begins, At, Goto, Tables
  <2> QED BY <1>1, <2>1 DEF Errors
<1>9. CASE ToolStep(c) \/ BoundaryStep(c)
  <2>1. call[c].kind # "node"
    <3>1. CASE ToolRefused(c) \/ ToolBefore(c)
      BY <3>1, Checked DEF ToolRefused, ToolBefore, At
    <3>2. CASE ToolFailed(c)
      BY <3>2, FailedTool DEF ToolFailed, At
    <3>3. CASE BoundaryLeave(c)
      BY <3>3, Leaving DEF BoundaryLeave, At
    <3> QED BY <1>9, <3>1, <3>2, <3>3
            DEF ToolStep, ToolStart, ToolFail, BoundaryStep, ModelBefore, BoundaryBody,
                BoundaryAfter, BoundaryRow, Boundary
  <2>2. errors' = errors
    BY <1>9 DEF ToolStep, ToolStart, ToolRefused, ToolBefore, ToolFail, ToolFailed, BoundaryStep,
                ModelBefore, BoundaryBody, BoundaryAfter, BoundaryRow, BoundaryLeave, recorderVars
  <2> QED BY <1>1, <2>1, <2>2 DEF Errors
<1> QED BY <1>4, <1>5, <1>6, <1>7, <1>8, <1>9 DEF CallStep, NodeStep

\* The recorder's tables between the steps.
Recorder == Typed /\ Beside /\ Timers /\ Errors

LEMMA TablesStay ==
  ASSUME Tables, Stages, Recorder,
         UNCHANGED <<callVars, timer, errors, begun, overlapped>>, Typed', lost \subseteq lost'
  PROVE  Recorder'
<1>1. UNCHANGED <<call, pc, stop, outcome, timed>>
  BY DEF callVars
<1>2. Keys' = Keys /\ \A x \in Calls: Key(x)' = Key(x)
  BY <1>1, KeysStay
<1>3. Beside'
  BY <1>1 DEF Recorder, Beside, Active
<1>4. Errors'
  BY <1>1 DEF Recorder, Errors
<1>5. \A x \in Calls: Unfinished(x)' <=> Unfinished(x)
  BY <1>1 DEF Unfinished
<1>6. ASSUME NEW x \in Calls, Fits(x, timed[x])
      PROVE  Fits(x, timed[x])'
  BY <1>1, <1>6 DEF Fits
<1>7. Timers'
  <2>1. \A k \in Keys', x \in Calls: timer'[k] = x => Key(x)' = k /\ x \in begun' /\ Unfinished(x)'
    BY <1>2, <1>5 DEF Recorder, Timers
  <2>2. \A x \in begun': pc'[x] \in Underway => x \in overlapped' \/ timer'[Key(x)'] = x
    BY <1>1, <1>2 DEF Recorder, Timers, Typed
  <2>3. \A x \in Calls: pc'[x] \in {"row", "failrow"} => Fits(x, timed[x])'
    BY <1>1, <1>6 DEF Recorder, Timers
  <2>4. \A x \in Calls: pc'[x] \in {"idle", "check"} => x \notin begun'
    BY <1>1 DEF Recorder, Timers
  <2> QED BY <2>1, <2>2, <2>3, <2>4 DEF Timers
<1> QED BY <1>3, <1>4, <1>7 DEF Recorder

LEMMA NextRecorder == Tables /\ Stages /\ Recorder /\ [Next]_vars => Recorder'
<1> SUFFICES ASSUME Tables, Stages, Recorder, [Next]_vars PROVE Recorder'
  OBVIOUS
<1>1. CASE UNCHANGED vars
  <2>1. UNCHANGED <<callVars, timer, errors, begun, overlapped>> /\ lost' = lost
    BY <1>1 DEF vars, recorderVars
  <2> QED BY <2>1, NextTyped, TablesStay DEF Recorder
<1>2. CASE \E c \in Calls: CallStep(c)
  BY <1>2, CallTyped, CallBeside, CallTimers, CallErrors DEF Recorder
<1>3. CASE \E e \in Executions: AgentStep(e)
  <2>1. PICK e \in Executions: AgentStep(e)
    BY <1>3
  <2>2. UNCHANGED <<callVars, timer, errors, begun, overlapped>> /\ lost \subseteq lost'
    BY <2>1, AgentFrame DEF Recorder, RowsBecome
  <2> QED BY <2>2, NextTyped, TablesStay DEF Recorder
<1> QED BY <1>1, <1>2, <1>3 DEF Next, CallStep

LEMMA InitRecorder == Init => Recorder
<1> SUFFICES ASSUME Init PROVE Recorder
  OBVIOUS
<1>1. Typed
  BY InitTyped
<1>2. Beside /\ Errors
  BY DEF Init, Beside, Active, Errors
<1>3. Timers
  BY ObservationAssumption DEF Init, Timers, Underway
<1> QED BY <1>1, <1>2, <1>3 DEF Recorder

LEMMA RecorderHolds == Spec => [](Tables /\ Stages /\ Recorder)
  BY InitStages, NextStages, InitRecorder, NextRecorder, PTL DEF Spec

\* The recorder's tables hold what they should, for every capacity.
THEOREM TypesHold == Spec => []TypeOK
<1>1. Tables /\ Stages /\ Recorder => TypeOK
  <2> SUFFICES ASSUME Tables, Stages, Recorder PROVE TypeOK
    OBVIOUS
  <2>1. /\ Len(runs) <= Capacity
        /\ \A i, j \in DOMAIN runs: runs[i].execution = runs[j].execution => i = j
    BY DEF Recorder, Typed, File, IsFile
  <2>2. \A k \in Keys: timer[k] # NoCall => Key(timer[k]) = k
    BY DEF Recorder, Typed, Timers
  <2>3. \A c \in errors: call[c].kind = "node"
    BY DEF Recorder, Errors
  <2>4. ASSUME NEW c \in Calls
        PROVE  outcome[c] \in {"none", "ok", "error", "interrupt", "cancelled"}
    <3>1. call[c].kind \in {"node", "tool", "model"}
      BY DEF Tables, Kinds
    <3> QED BY <3>1 DEF Stages, Staged, NodeStaged, ToolStaged, ModelStaged, Fresh, NodeBroke,
                        NodeEnded, NodeRefused, Returned
  <2> QED BY <2>1, <2>2, <2>3, <2>4 DEF TypeOK, Stages
<1> QED BY <1>1, RecorderHolds, PTL

-----------------------------------------------------------------------------
(* The rows.                                                               *)

\* A row tells of a call of its execution; but for those about the guard it is the
\* row of a call that has run, and shows no failure as a success; and tokens are
\* those of a model's answer.
RowFits(e, row) ==
  /\ call[row.of].execution = e
  /\ row.kind # "guardrail" =>
       /\ row.kind = call[row.of].kind /\ pc[row.of] \in {"leave", "done"}
       /\ row.status = "ok" =>
            outcome[row.of] # "error" \/ (Boundary(row.of) /\ stop[row.of] = "guard")
       /\ Fits(row.of, row.start)
  /\ row.tokens # NoCall =>
       /\ row.kind = "model" /\ pc[row.tokens] = "done" /\ outcome[row.tokens] = "ok"
       /\ call[row.tokens].kind = "model" /\ call[row.tokens].execution = e

FitsIn(e) == \A i \in DOMAIN RowsAt(e): RowFits(e, RowsAt(e)[i])

RowsFit == \A e \in Executions: FitsIn(e)

OwnRows(c) ==
  {i \in DOMAIN RowsAt(call[c].execution):
     /\ RowsAt(call[c].execution)[i].of = c
     /\ RowsAt(call[c].execution)[i].kind = call[c].kind}

\* A call that has ended well, or has only its event left.
Reported(c) == pc[c] = "leave" \/ (pc[c] = "done" /\ outcome[c] = "ok")

\* While the run is there, a call has one row or none, and one when it ended well.
OneRowOf(c) ==
  call[c].execution \notin lost =>
    /\ \A i, j \in OwnRows(c): i = j
    /\ Reported(c) => OwnRows(c) # {}

OneRow == \A c \in Calls: OneRowOf(c)

IsFilled(row) == row.kind = "model" /\ row.tokens # NoCall

Filled(rows) == {i \in DOMAIN rows: IsFilled(rows[i])}

\* Tokens are counted, once.
CountedIn(e) ==
  /\ Cardinality(Filled(RowsAt(e))) = counted[e]
  /\ \A i, j \in Filled(RowsAt(e)): RowsAt(e)[i].tokens = RowsAt(e)[j].tokens => i = j

Counted == \A e \in Executions: CountedIn(e)

\* While a call waits to tell of its answer, a row of its model is free: those that
\* are taken are by calls with a row of their own.
LEMMA Untaken ==
  ASSUME Tables, Typed, RowsFit, OneRow, Counted, NEW c \in Calls,
         call[c].kind = "model", pc[c] = "leave", call[c].execution \notin lost
  PROVE  LET rows == RowsAt(call[c].execution)
         IN \E i \in DOMAIN rows: TakesTokens(rows[i], c)
<1> DEFINE e == call[c].execution
           rows == RowsAt(e)
           M == {i \in DOMAIN rows: rows[i].kind = "model"}
<1>1. SUFFICES ASSUME \A i \in DOMAIN rows: ~TakesTokens(rows[i], c)
               PROVE  FALSE
  OBVIOUS
<1>2. e \in Executions /\ rows \in Seq(RowSet)
  BY OpenedRows DEF Tables, Typed
<1>3. \A i \in DOMAIN rows: rows[i].name = call[c].name /\ rows[i] \in RowSet /\ RowFits(e, rows[i])
  <2>1. call[c].name = "a"
    BY DEF Tables
  <2>2. \A i \in DOMAIN rows: rows[i] \in RowSet
    BY <1>2
  <2>3. \A i \in DOMAIN rows: RowFits(e, rows[i])
    BY <1>2 DEF RowsFit, FitsIn
  <2>4. \A row \in RowSet: row.name = "a"
    BY DEF RowSet
  <2> QED BY <2>1, <2>2, <2>3, <2>4
<1>4. \A i \in M: rows[i].tokens # NoCall /\ i \in Filled(rows)
  BY <1>1, <1>3 DEF TakesTokens, Filled, IsFilled
<1>5. PICK k \in M: rows[k].of = c
  <2>1. OwnRows(c) # {}
    BY DEF OneRow, OneRowOf, Reported
  <2> QED BY <2>1 DEF OwnRows
<1>6. ASSUME NEW i \in M
      PROVE  \E j \in M \ {k}: rows[j].of = rows[i].tokens
  <2>1. PICK d \in Calls: d = rows[i].tokens
    BY <1>3, <1>4 DEF RowSet
  <2>2. pc[d] = "done" /\ outcome[d] = "ok" /\ call[d].kind = "model" /\ call[d].execution = e
    BY <1>3, <1>4, <2>1 DEF RowFits
  <2>3. OwnRows(d) # {}
    BY <2>2 DEF OneRow, OneRowOf, Reported
  <2>4. PICK j \in M: rows[j].of = d
    BY <2>2, <2>3, SMTT(40) DEF OwnRows
  <2> QED BY <1>5, <2>1, <2>2, <2>4
<1> DEFINE f == [i \in M |-> CHOOSE j \in M \ {k}: rows[j].of = rows[i].tokens]
<1>7. \A i \in M: f[i] \in M \ {k} /\ rows[f[i]].of = rows[i].tokens
  BY <1>6, ZenonT(60)
<1>8. f \in [M -> M \ {k}]
  BY <1>7, ZenonT(60)
<1>9. IsFiniteSet(M)
  <2>1. DOMAIN rows = 1..Len(rows) /\ Len(rows) \in Nat
    BY <1>2
  <2>2. IsFiniteSet(1..Len(rows)) /\ M \in SUBSET (1..Len(rows))
    BY <2>1, FS_Interval
  <2> QED BY <2>2, FS_Subset
<1> HIDE DEF f, M
<1>10. /\ IsFiniteSet(M \ {k}) /\ Cardinality(M \ {k}) = Cardinality(M) - 1
       /\ Cardinality(M) \in Nat
  BY <1>5, <1>9, FS_RemoveElement, FS_CardinalityType
<1>11. PICK x, y \in M: x # y /\ f[x] = f[y]
  <2>1. Cardinality(M \ {k}) < Cardinality(M)
    BY <1>10
  <2> QED BY <1>8, <1>9, <1>10, <2>1, FS_PigeonHole
<1>12. rows[x].tokens = rows[y].tokens /\ x \in Filled(rows) /\ y \in Filled(rows)
  BY <1>4, <1>7, <1>11
<1> QED BY <1>2, <1>11, <1>12 DEF Counted, CountedIn

\* What a row tells stays true.
LEMMA RowsStay ==
  ASSUME Tables, Stages, Recorder, [Next]_vars, NEW e \in Executions, NEW row \in RowSet,
         RowFits(e, row)
  PROVE  RowFits(e, row)'
<1>1. /\ UNCHANGED call
      /\ \A d \in Calls: pc[d] \in {"leave", "done"} =>
           /\ pc'[d] \in {"leave", "done"} /\ outcome'[d] = outcome[d] /\ stop'[d] = stop[d]
           /\ pc[d] = "done" => pc'[d] = "done"
  <2>1. CASE UNCHANGED vars
    BY <2>1 DEF vars, callVars
  <2>2. ASSUME NEW c \in Calls, CallStep(c)
        PROVE  /\ UNCHANGED call
               /\ \A d \in Calls: pc[d] \in {"leave", "done"} =>
                    /\ pc'[d] \in {"leave", "done"} /\ outcome'[d] = outcome[d] /\ stop'[d] = stop[d]
                    /\ pc[d] = "done" => pc'[d] = "done"
    <3>1. /\ UNCHANGED call /\ Moves(c)
          /\ \A d \in Calls \ {c}: pc'[d] = pc[d] /\ outcome'[d] = outcome[d] /\ stop'[d] = stop[d]
      BY <2>2, CallFrame, CallMoves
    <3>2. pc[c] \in {"leave", "done"} =>
            /\ pc'[c] \in {"leave", "done"} /\ outcome'[c] = outcome[c] /\ stop'[c] = stop[c]
            /\ pc[c] # "done"
      BY <3>1 DEF Moves, Starts, Pops, GoesOn, Underway
    <3> QED BY <3>1, <3>2
  <2>3. CASE \E x \in Executions: AgentStep(x)
    BY <2>3, AgentFrame DEF callVars, Recorder
  <2> QED BY <2>1, <2>2, <2>3 DEF Next, CallStep
<1>2. row.of \in Calls /\ row.start \in Calls \cup {NoCall} /\ row.tokens \in Calls \cup {NoCall}
  BY DEF RowSet
<1>3. row.kind # "guardrail" => Fits(row.of, row.start)'
  <2>1. row.kind # "guardrail" => Fits(row.of, row.start) /\ pc[row.of] \notin {"idle", "check"}
    BY DEF RowFits
  <2> QED BY <1>2, <2>1, StillFits DEF Recorder
<1>4. row.tokens # NoCall =>
        /\ row.kind = "model" /\ pc'[row.tokens] = "done" /\ outcome'[row.tokens] = "ok"
        /\ call'[row.tokens].kind = "model" /\ call'[row.tokens].execution = e
  BY <1>1, <1>2 DEF RowFits
<1>5. row.kind # "guardrail" =>
        /\ row.kind = call'[row.of].kind /\ pc'[row.of] \in {"leave", "done"}
        /\ row.status = "ok" =>
             outcome'[row.of] # "error" \/ (Boundary(row.of)' /\ stop'[row.of] = "guard")
  BY <1>1, <1>2 DEF RowFits, Boundary
<1>6. call'[row.of].execution = e
  BY <1>1 DEF RowFits
<1> QED BY <1>3, <1>4, <1>5, <1>6 DEF RowFits

\* The steps of a call that write no row; a call they end well has its row.
Quiet(c) == UNCHANGED <<runs, lost, counted>> /\ (Reported(c)' => Reported(c))

\* Those that add one: about the guard, or the call's own.
AddsOne(c) ==
  LET e == call[c].execution
  IN \E row \in RowSet:
       /\ row.of = c /\ row.tokens = NoCall /\ RowFits(e, row)'
       /\ RowsBecome(e, Append(RowsAt(e), row)) /\ counted' = Recounted(e)
       /\ \/ row.kind = "guardrail" /\ (Reported(c)' => Reported(c))
          \/ row.kind = call[c].kind /\ pc[c] \in {"row", "failrow"}

\* The one that tells of an answer.
Tells(c) ==
  /\ call[c].kind = "model" /\ CountTokens(c)
  /\ pc[c] = "leave" /\ pc'[c] = "done" /\ outcome[c] = "ok" /\ outcome'[c] = "ok"

LEMMA GuardRows ==
  ASSUME Tables, Stages, Recorder, NEW c \in Calls, CallStep(c),
         AddRow(c, "guardrail", "block", NoCall), Reported(c)' => Reported(c)
  PROVE  AddsOne(c)
<1> DEFINE e == call[c].execution
<1>1. PICK row: row = Row(c, "guardrail", "block", NoCall, NoCall)
  OBVIOUS
<1>2. /\ row.of = c /\ row.tokens = NoCall /\ row.kind = "guardrail"
  BY <1>1 DEF Row
<1>3. row \in RowSet
  BY <1>1 DEF Row, RowSet, Tables
<1>4. RowsBecome(e, Append(RowsAt(e), row)) /\ counted' = Recounted(e)
  BY <1>1, Adding DEF Recorder, Typed
<1>5. RowFits(e, row)'
  BY <1>2, CallFrame DEF RowFits
<1> QED BY <1>2, <1>3, <1>4, <1>5 DEF AddsOne

LEMMA CallsRows ==
  ASSUME Tables, Stages, Recorder, NEW c \in Calls, CallStep(c),
         NEW status \in {"ok", "error"}, AddRow(c, call[c].kind, status, timed[c]),
         pc[c] \in {"row", "failrow"}, pc'[c] \in {"leave", "done"},
         status = "ok" => outcome'[c] # "error" \/ (Boundary(c) /\ stop'[c] = "guard")
  PROVE  AddsOne(c)
<1> DEFINE e == call[c].execution
<1>1. PICK start \in Calls \cup {NoCall}: start = timed[c]
  BY DEF Recorder, Typed
<1>2. PICK row: row = Row(c, call[c].kind, status, start, NoCall)
  OBVIOUS
<1>3. /\ row.of = c /\ row.tokens = NoCall /\ row.kind = call[c].kind /\ row.start = start
      /\ row.status = status
  BY <1>2 DEF Row
<1>4. row \in RowSet
  BY <1>1, <1>2 DEF Row, RowSet, Tables
<1>5. RowsBecome(e, Append(RowsAt(e), row)) /\ counted' = Recounted(e)
  <2>1. call[c].kind \in Kinds \cup {"guardrail"} /\ AddRow(c, call[c].kind, status, start)
    BY <1>1 DEF Tables
  <2> QED BY <1>2, <2>1, Adding DEF Recorder, Typed
<1>6. Fits(c, start)'
  <2>1. Fits(c, start)
    BY <1>1 DEF Recorder, Timers
  <2>2. [Next]_vars
    BY DEF Next, CallStep
  <2> QED BY <2>1, <2>2, StillFits DEF Recorder
<1>7. UNCHANGED call
  BY CallFrame
<1>8. RowFits(e, row)'
  BY <1>3, <1>6, <1>7 DEF RowFits, Boundary
<1> QED BY <1>3, <1>4, <1>5, <1>8 DEF AddsOne

LEMMA Reporting ==
  ASSUME Tables, Stages, Recorder, NEW c \in Calls, CallStep(c)
  PROVE  Quiet(c) \/ AddsOne(c) \/ Tells(c)
<1>1. ASSUME NEW fired, Blocked(c, fired), Reported(c)' => Reported(c)
      PROVE  Quiet(c) \/ AddsOne(c)
  BY <1>1, GuardRows DEF Blocked, Quiet
<1>2. CASE NodeBefore(c) \/ ToolBefore(c) \/ ModelBefore(c)
  <2>1. PICK fired:
          /\ Blocked(c, fired)
          /\ outcome' = [outcome EXCEPT ![c] = IF fired.stop = NoHook THEN "none" ELSE "error"]
          /\ \/ Goto(c, IF fired.stop = NoHook THEN "body" ELSE "done")
             \/ Goto(c, IF fired.stop = NoHook THEN "body" ELSE "failing")
    <3>1. CASE NodeBefore(c)
      BY <3>1 DEF NodeBefore, FireBefore
    <3>2. CASE ToolBefore(c)
      BY <3>2 DEF ToolBefore, FireBefore
    <3>3. CASE ModelBefore(c)
      BY <3>3 DEF ModelBefore, FireBefore
    <3> QED BY <1>2, <3>1, <3>2, <3>3
  <2>2. ~Reported(c)'
    BY <2>1 DEF Reported, Goto, Tables
  <2> QED BY <1>1, <2>1, <2>2
<1>3. CASE NodeAfter(c)
  <2>1. PICK fired: Blocked(c, fired) /\ Goto(c, IF fired.stop = NoHook THEN "finish" ELSE "failing")
    BY <1>3 DEF NodeAfter
  <2>2. ~Reported(c)'
    BY <2>1 DEF Reported, Goto, Tables
  <2> QED BY <1>1, <2>1, <2>2
<1>4. CASE NodeBody(c) \/ NodeFail(c) \/ NodeFinish(c) \/ ToolStart(c) \/ ToolRefused(c) \/ ToolFail(c)
  <2>1. pc'[c] \notin {"leave", "done"} /\ UNCHANGED <<runs, lost, counted>>
    BY <1>4 DEF NodeBody, NodeFail, NodeFinish, ToolStart, ToolRefused, ToolFail, recorderVars,
                Goto, Tables
  <2> QED BY <2>1 DEF Quiet, Reported
<1>5. CASE BoundaryBody(c)
  <2>1. PICK end \in {"ok", "error"} \cup (IF call[c].kind = "tool" THEN {"interrupt"} ELSE {}):
          /\ outcome' = [outcome EXCEPT ![c] = end]
          /\ IF end = "ok" THEN Goto(c, "after")
             ELSE IF call[c].kind = "tool" THEN Goto(c, "failing") ELSE Goto(c, "done")
          /\ UNCHANGED <<runs, lost, counted>>
    BY <1>5 DEF BoundaryBody, recorderVars
  <2>2. ~Reported(c)'
    BY <2>1 DEF Reported, Goto, Tables
  <2> QED BY <2>1, <2>2 DEF Quiet
<1>6. CASE BoundaryAfter(c)
  <2>1. PICK raising \in Raisings:
          LET fired == Fire(Outwards, raising, Open) IN
          /\ outcome' = [outcome EXCEPT ![c] = IF fired.stop = NoHook THEN "ok" ELSE "error"]
          /\ IF "recorder" \in fired.ran THEN Goto(c, "row") ELSE Goto(c, "done")
          /\ UNCHANGED <<runs, lost, counted>>
    BY <1>6 DEF BoundaryAfter
  <2> DEFINE fired == Fire(Outwards, raising, Open)
  <2>2. fired.stop = "app" \/ "recorder" \in fired.ran
    BY FireOutwards DEF Watching
  <2>3. pc'[c] = "row" \/ (pc'[c] = "done" /\ outcome'[c] = "error")
    BY <2>1, <2>2, ChainAssumption DEF Goto, Tables
  <2> QED BY <2>1, <2>3 DEF Quiet, Reported
<1>7. CASE NodeRow(c)
  <2>1. /\ call[c].kind = "node" /\ pc[c] = "row" /\ pc'[c] = "done" /\ outcome' = outcome
        /\ AddRow(c, "node", IF c \in errors THEN "error" ELSE "ok", timed[c])
    BY <1>7 DEF NodeRow, At, Goto, Tables
  <2>2. c \in errors <=> outcome[c] = "error"
    BY <2>1 DEF Recorder, Errors
  <2>3. PICK status \in {"ok", "error"}: status = IF c \in errors THEN "error" ELSE "ok"
    OBVIOUS
  <2> QED BY <2>1, <2>2, <2>3, CallsRows
<1>8. CASE ToolFailed(c)
  <2>1. /\ pc[c] = "failrow" /\ pc'[c] = "done" /\ AddRow(c, "tool", "error", timed[c])
    BY <1>8 DEF ToolFailed, At, Goto, Tables
  <2>2. call[c].kind = "tool"
    BY <2>1, FailedTool
  <2> QED BY <2>1, <2>2, CallsRows
<1>9. CASE BoundaryRow(c)
  <2>1. /\ Boundary(c) /\ pc[c] = "row" /\ pc'[c] = "leave" /\ AddRow(c, call[c].kind, "ok", timed[c])
        /\ UNCHANGED <<outcome, stop>>
    BY <1>9 DEF BoundaryRow, At, Goto, Tables
  <2>2. Returned(c)
    BY <2>1 DEF Stages, Staged, ToolStaged, ModelStaged, Fresh, Boundary
  <2> QED BY <2>1, <2>2, CallsRows DEF Returned
<1>10. CASE BoundaryLeave(c)
  <2>1. pc[c] = "leave" /\ pc'[c] = "done" /\ UNCHANGED outcome /\ Reported(c)
    BY <1>10 DEF BoundaryLeave, At, Goto, Tables, Reported
  <2>2. CASE stop[c] = "guard"
    BY <1>10, <2>1, <2>2, GuardRows DEF BoundaryLeave
  <2>3. CASE stop[c] # "guard" /\ call[c].kind = "tool"
    BY <1>10, <2>1, <2>3 DEF BoundaryLeave, Quiet
  <2>4. CASE stop[c] # "guard" /\ call[c].kind # "tool"
    <3>1. call[c].kind = "model" /\ outcome[c] = "ok"
      BY <2>1, <2>4, Leaving DEF Returned
    <3> QED BY <1>10, <2>1, <2>4, <3>1 DEF BoundaryLeave, Tells
  <2> QED BY <2>2, <2>3, <2>4
<1> QED BY <1>2, <1>3, <1>4, <1>5, <1>6, <1>7, <1>8, <1>9, <1>10
        DEF CallStep, NodeStep, ToolStep, BoundaryStep

Rowed == RowsFit /\ OneRow /\ Counted

\* The positions of a sequence's rows, and which of them a row more, or tokens,
\* fill.
LEMMA FilledRows ==
  ASSUME NEW rows \in Seq(RowSet)
  PROVE  /\ IsFiniteSet(Filled(rows)) /\ Cardinality(Filled(rows)) \in Nat
         /\ \A i \in Filled(rows): i \in DOMAIN rows /\ rows[i].tokens \in Calls
<1>1. DOMAIN rows = 1..Len(rows) /\ Len(rows) \in Nat
  OBVIOUS
<1>2. IsFiniteSet(1..Len(rows)) /\ Filled(rows) \in SUBSET (1..Len(rows))
  BY <1>1, FS_Interval DEF Filled
<1>3. IsFiniteSet(Filled(rows)) /\ Cardinality(Filled(rows)) \in Nat
  BY <1>2, FS_Subset, FS_CardinalityType
<1>4. ASSUME NEW i \in Filled(rows) PROVE i \in DOMAIN rows /\ rows[i].tokens \in Calls
  <2>1. i \in DOMAIN rows /\ rows[i].tokens # NoCall
    BY DEF Filled, IsFilled
  <2>2. rows[i] \in RowSet
    BY <2>1
  <2> QED BY <2>1, <2>2 DEF RowSet
<1> QED BY <1>3, <1>4

LEMMA FilledByOne ==
  ASSUME NEW rows \in Seq(RowSet), NEW row \in RowSet
  PROVE  LET more == Append(rows, row)
             n == Len(rows) + 1
         IN /\ more \in Seq(RowSet) /\ DOMAIN more = DOMAIN rows \cup {n} /\ n \notin DOMAIN rows
            /\ more[n] = row /\ \A i \in DOMAIN rows: more[i] = rows[i]
            /\ Filled(more) = IF IsFilled(row) THEN Filled(rows) \cup {n} ELSE Filled(rows)
<1> DEFINE more == Append(rows, row)
           n == Len(rows) + 1
<1>1. /\ more \in Seq(RowSet) /\ DOMAIN more = 1..n /\ DOMAIN rows = 1..Len(rows) /\ Len(rows) \in Nat
      /\ more[n] = row /\ \A i \in 1..Len(rows): more[i] = rows[i]
  <2> HIDE DEF RowSet
  <2> QED OBVIOUS
<1> HIDE DEF more
<1>2. DOMAIN more = DOMAIN rows \cup {n} /\ n \notin DOMAIN rows
  BY <1>1
<1>3. Filled(more) = IF IsFilled(row) THEN Filled(rows) \cup {n} ELSE Filled(rows)
  <2>1. \A i \in DOMAIN rows: IsFilled(more[i]) <=> IsFilled(rows[i])
    BY <1>1
  <2>2. IsFilled(more[n]) <=> IsFilled(row)
    BY <1>1
  <2> HIDE DEF n
  <2>3. CASE IsFilled(row)
    BY <1>2, <2>1, <2>2, <2>3, Zenon DEF Filled
  <2>4. CASE ~IsFilled(row)
    BY <1>2, <2>1, <2>2, <2>4, Zenon DEF Filled
  <2> QED BY <2>3, <2>4
<1> QED BY <1>1, <1>2, <1>3 DEF more, n

LEMMA FilledAt ==
  ASSUME NEW rows \in Seq(RowSet), NEW m \in DOMAIN rows, rows[m].kind = "model",
         rows[m].tokens = NoCall, NEW c \in Calls, NEW more, more = [rows EXCEPT ![m].tokens = c]
  PROVE  /\ DOMAIN more = DOMAIN rows
         /\ more[m] = [rows[m] EXCEPT !.tokens = c] /\ more[m].tokens = c /\ rows[m] \in RowSet
         /\ \A i \in DOMAIN rows: i # m => more[i] = rows[i]
         /\ \A i \in DOMAIN rows: more[i].of = rows[i].of /\ more[i].kind = rows[i].kind
         /\ Filled(more) = Filled(rows) \cup {m} /\ m \notin Filled(rows)
<1>1. rows[m] \in RowSet
  OBVIOUS
<1>2. /\ DOMAIN more = DOMAIN rows /\ more[m] = [rows[m] EXCEPT !.tokens = c]
      /\ \A i \in DOMAIN rows: i # m => more[i] = rows[i]
  OBVIOUS
<1>3. more[m].tokens = c /\ more[m].of = rows[m].of /\ more[m].kind = rows[m].kind
  BY <1>1, <1>2 DEF RowSet
<1>4. m \notin Filled(rows)
  BY DEF Filled, IsFilled
<1>5. IsFilled(more[m])
  BY <1>3, ObservationAssumption DEF IsFilled
<1>6. Filled(more) = Filled(rows) \cup {m}
  BY <1>2, <1>5 DEF Filled
<1> QED BY <1>1, <1>2, <1>3, <1>4, <1>6

\* The three parts of the invariant after a step, over the rows it leaves.
LEMMA FitsNow ==
  ASSUME NEW e, NEW rows, RowsAt(e)' = rows, \A i \in DOMAIN rows: RowFits(e, rows[i])'
  PROVE  FitsIn(e)'
  BY DEF FitsIn, RowFits, Fits, Boundary

LEMMA CountedNow ==
  ASSUME NEW e, NEW rows, RowsAt(e)' = rows, Cardinality(Filled(rows)) = counted'[e],
         \A i, j \in Filled(rows): rows[i].tokens = rows[j].tokens => i = j
  PROVE  CountedIn(e)'
  BY DEF CountedIn

\* The rows of call c among some.
RowsOn(rows, c) == {i \in DOMAIN rows: rows[i].of = c /\ rows[i].kind = call[c].kind}

LEMMA OwnNow ==
  ASSUME NEW c, NEW e, call[c].execution = e, UNCHANGED call, NEW rows, RowsAt(e)' = rows
  PROVE  OwnRows(c)' = RowsOn(rows, c) /\ OwnRows(c) = RowsOn(RowsAt(e), c)
  BY DEF OwnRows, RowsOn, RowsAt

\* The runs a step does not write.
LEMMA OthersRows ==
  ASSUME Tables, Stages, Recorder, Rowed, [Next]_vars, UNCHANGED call,
         NEW e \in Executions, NEW rows, RowsBecome(e, rows),
         \A x \in Executions \ {e}: counted'[x] = Recounted(e)[x],
         \A d \in Calls: call[d].execution # e => pc'[d] = pc[d] /\ outcome'[d] = outcome[d]
  PROVE  /\ \A x \in Executions \ {e}: FitsIn(x)' /\ CountedIn(x)'
         /\ \A d \in Calls: call[d].execution # e => OneRowOf(d)'
<1>1. ASSUME NEW x \in Executions \ {e}
      PROVE  FitsIn(x)' /\ CountedIn(x)'
  <2>1. PICK old \in Seq(RowSet): old = RowsAt(x)
    BY OpenedRows DEF Recorder, Typed
  <2>2. /\ \A i \in DOMAIN old: old[i] \in RowSet /\ RowFits(x, old[i])
        /\ Cardinality(Filled(old)) = counted[x]
        /\ \A i, j \in Filled(old): old[i].tokens = old[j].tokens => i = j
    BY <2>1 DEF Rowed, RowsFit, FitsIn, Counted, CountedIn
  <2>3. CASE RowsAt(x)' = old /\ x \notin EvictedBy(e)
    <3>1. \A i \in DOMAIN old: RowFits(x, old[i])'
      BY <2>2, RowsStay
    <3>2. counted'[x] = counted[x]
      BY <2>3 DEF Recounted
    <3> QED BY <2>2, <2>3, <3>1, <3>2, FitsNow, CountedNow
  <2>4. CASE RowsAt(x)' = <<>> /\ x \in EvictedBy(e)
    <3>1. counted'[x] = 0
      BY <2>4 DEF Recounted
    <3>2. DOMAIN <<>> = {} /\ Filled(<<>>) = {} /\ Cardinality({}) = 0
      BY FS_EmptySet DEF Filled
    <3>3. FitsIn(x)'
      BY <2>4, <3>2, FitsNow
    <3>4. CountedIn(x)'
      BY <2>4, <3>1, <3>2, CountedNow
    <3> QED BY <3>3, <3>4
  <2> QED BY <2>1, <2>3, <2>4 DEF RowsBecome
<1>2. ASSUME NEW d \in Calls, call[d].execution # e
      PROVE  OneRowOf(d)'
  <2>1. PICK x \in Executions \ {e}: x = call[d].execution
    BY <1>2 DEF Tables
  <2>2. CASE x \in lost'
    BY <2>1, <2>2 DEF OneRowOf
  <2>3. CASE x \notin lost'
    <3>1. RowsAt(x)' = RowsAt(x) /\ x \notin lost
      BY <2>3 DEF RowsBecome
    <3>2. PICK old: old = RowsAt(x) /\ RowsAt(x)' = old
      BY <3>1
    <3>3. OwnRows(d)' = OwnRows(d)
      BY <2>1, <3>2, OwnNow
    <3>4. Reported(d)' <=> Reported(d)
      BY <1>2 DEF Reported
    <3> QED BY <2>1, <3>1, <3>3, <3>4 DEF Rowed, OneRow, OneRowOf
  <2> QED BY <2>2, <2>3
<1> QED BY <1>1, <1>2


\* A step that leaves the rows of e as they are, and lets no call end well.
LEMMA KeepingRows ==
  ASSUME Tables, Stages, Recorder, Rowed, [Next]_vars, UNCHANGED call,
         NEW e \in Executions, NEW rows, rows = RowsAt(e), RowsAt(e)' = rows,
         counted'[e] = counted[e], e \in lost => e \in lost',
         \A d \in Calls: Reported(d)' => Reported(d)
  PROVE  /\ FitsIn(e)' /\ CountedIn(e)'
         /\ \A d \in Calls: call[d].execution = e => OneRowOf(d)'
<1>1. /\ rows \in Seq(RowSet) /\ \A i \in DOMAIN rows: RowFits(e, rows[i])
      /\ Cardinality(Filled(rows)) = counted[e]
      /\ \A i, j \in Filled(rows): rows[i].tokens = rows[j].tokens => i = j
  BY OpenedRows DEF Recorder, Typed, Rowed, RowsFit, FitsIn, Counted, CountedIn
<1>2. \A i \in DOMAIN rows: rows[i] \in RowSet
  BY <1>1
<1>3. \A i \in DOMAIN rows: RowFits(e, rows[i])'
  BY <1>1, <1>2, RowsStay
<1>4. FitsIn(e)' /\ CountedIn(e)'
  BY <1>1, <1>3, FitsNow, CountedNow
<1>5. ASSUME NEW d \in Calls, call[d].execution = e
      PROVE  OneRowOf(d)'
  <2>1. OwnRows(d)' = OwnRows(d)
    BY <1>5, OwnNow
  <2> QED BY <1>5, <2>1 DEF Rowed, OneRow, OneRowOf
<1> QED BY <1>4, <1>5

LEMMA AgentRows ==
  ASSUME Tables, Stages, Recorder, Rowed, NEW e \in Executions, AgentStep(e)
  PROVE  Rowed'
<1>1. [Next]_vars
  BY DEF Next
<1>2. /\ UNCHANGED <<call, pc, outcome>>
      /\ \/ UNCHANGED <<runs, lost, counted>>
         \/ RowsBecome(e, RowsAt(e)) /\ counted' = Recounted(e)
  BY AgentFrame DEF Recorder, callVars
<1>3. \A d \in Calls: Reported(d)' => Reported(d)
  BY <1>2 DEF Reported
<1>4. \A d \in Calls: call[d].execution \in Executions
  BY DEF Tables
<1>5. CASE UNCHANGED <<runs, lost, counted>>
  <2>1. ASSUME NEW x \in Executions
        PROVE  /\ FitsIn(x)' /\ CountedIn(x)'
               /\ \A d \in Calls: call[d].execution = x => OneRowOf(d)'
    <3>1. PICK rows: rows = RowsAt(x) /\ RowsAt(x)' = rows
      BY <1>5 DEF RowsAt
    <3> QED BY <1>1, <1>2, <1>3, <1>5, <3>1, KeepingRows
  <2> QED BY <1>4, <2>1 DEF Rowed, RowsFit, OneRow, Counted
<1>6. CASE RowsBecome(e, RowsAt(e)) /\ counted' = Recounted(e)
  <2>1. PICK rows: rows = RowsAt(e)
    OBVIOUS
  <2>2. RowsBecome(e, rows)
    BY <1>6, <2>1
  <2>3. RowsAt(e)' = rows /\ counted'[e] = counted[e] /\ (e \in lost => e \in lost')
    BY <1>6, <2>2 DEF RowsBecome, Recounted
  <2>4. /\ FitsIn(e)' /\ CountedIn(e)'
        /\ \A d \in Calls: call[d].execution = e => OneRowOf(d)'
    BY <1>1, <1>2, <1>3, <2>1, <2>3, KeepingRows
  <2>5. /\ \A x \in Executions \ {e}: FitsIn(x)' /\ CountedIn(x)'
        /\ \A d \in Calls: call[d].execution # e => OneRowOf(d)'
    BY <1>1, <1>2, <1>6, <2>2, OthersRows
  <2> QED BY <2>4, <2>5 DEF Rowed, RowsFit, OneRow, Counted
<1> QED BY <1>2, <1>5, <1>6

LEMMA QuietRows ==
  ASSUME Tables, Stages, Recorder, Rowed, NEW c \in Calls, CallStep(c), Quiet(c)
  PROVE  Rowed'
<1>1. [Next]_vars
  BY DEF Next, CallStep
<1>2. UNCHANGED call /\ \A d \in Calls \ {c}: pc'[d] = pc[d] /\ outcome'[d] = outcome[d]
  BY CallFrame
<1>3. \A d \in Calls: Reported(d)' => Reported(d)
  BY <1>2 DEF Reported, Quiet
<1>4. \A d \in Calls: call[d].execution \in Executions
  BY DEF Tables
<1>5. ASSUME NEW x \in Executions
      PROVE  /\ FitsIn(x)' /\ CountedIn(x)'
             /\ \A d \in Calls: call[d].execution = x => OneRowOf(d)'
  <2>1. PICK rows: rows = RowsAt(x) /\ RowsAt(x)' = rows
    BY DEF Quiet, RowsAt
  <2> QED BY <1>1, <1>2, <1>3, <2>1, KeepingRows DEF Quiet
<1> QED BY <1>4, <1>5 DEF Rowed, RowsFit, OneRow, Counted

\* A row more, about the guard or the call's own.
LEMMA AddingRows ==
  ASSUME Tables, Stages, Recorder, Rowed, NEW c \in Calls, CallStep(c), AddsOne(c)
  PROVE  Rowed'
<1>1. [Next]_vars
  BY DEF Next, CallStep
<1>2. PICK e \in Executions: e = call[c].execution
  BY DEF Tables
<1>3. UNCHANGED call /\ \A d \in Calls \ {c}: pc'[d] = pc[d] /\ outcome'[d] = outcome[d]
  BY CallFrame
<1>4. PICK row \in RowSet:
        /\ row.of = c /\ row.tokens = NoCall /\ RowFits(e, row)'
        /\ RowsBecome(e, Append(RowsAt(e), row)) /\ counted' = Recounted(e)
        /\ \/ row.kind = "guardrail" /\ (Reported(c)' => Reported(c))
           \/ row.kind = call[c].kind /\ pc[c] \in {"row", "failrow"}
  <2>1. PICK row \in RowSet:
          /\ row.of = c /\ row.tokens = NoCall /\ RowFits(call[c].execution, row)'
          /\ RowsBecome(e, Append(RowsAt(e), row)) /\ counted' = Recounted(e)
          /\ \/ row.kind = "guardrail" /\ (Reported(c)' => Reported(c))
             \/ row.kind = call[c].kind /\ pc[c] \in {"row", "failrow"}
    BY <1>2 DEF AddsOne
  <2>2. RowFits(e, row)'
    BY <1>2, <1>3, <2>1 DEF RowFits
  <2> QED BY <2>1, <2>2
<1>5. PICK old \in Seq(RowSet): old = RowsAt(e)
  BY OpenedRows DEF Recorder, Typed
<1>6. PICK more: more = Append(old, row)
  OBVIOUS
<1> DEFINE n == Len(old) + 1
<1>7. /\ DOMAIN more = DOMAIN old \cup {n} /\ n \notin DOMAIN old
      /\ more[n] = row /\ \A i \in DOMAIN old: more[i] = old[i]
      /\ Filled(more) = IF IsFilled(row) THEN Filled(old) \cup {n} ELSE Filled(old)
  BY <1>6, FilledByOne
<1> HIDE DEF n
<1>8. Filled(more) = Filled(old) /\ Filled(old) \subseteq DOMAIN old
  BY <1>4, <1>7 DEF IsFilled, Filled
<1>9. /\ RowsBecome(e, more) /\ RowsAt(e)' = more /\ counted'[e] = counted[e]
      /\ \A x \in Executions \ {e}: counted'[x] = Recounted(e)[x]
      /\ e \in lost => e \in lost'
  BY <1>4, <1>5, <1>6 DEF RowsBecome, Recounted
<1>10. FitsIn(e)'
  <2>1. \A i \in DOMAIN old: old[i] \in RowSet /\ RowFits(e, old[i])
    BY <1>5 DEF Rowed, RowsFit, FitsIn
  <2>2. \A i \in DOMAIN more: RowFits(e, more[i])'
    BY <1>1, <1>4, <1>7, <2>1, RowsStay
  <2> QED BY <1>9, <2>2, FitsNow
<1>11. CountedIn(e)'
  <2>1. /\ Cardinality(Filled(old)) = counted[e]
        /\ \A i, j \in Filled(old): old[i].tokens = old[j].tokens => i = j
    BY <1>5 DEF Rowed, Counted, CountedIn
  <2> QED BY <1>7, <1>8, <1>9, <2>1, CountedNow
<1>12. ASSUME NEW d \in Calls, call[d].execution = e
       PROVE  OneRowOf(d)'
  <2>1. OwnRows(d)' = RowsOn(more, d) /\ OwnRows(d) = RowsOn(old, d)
    BY <1>3, <1>5, <1>9, <1>12, OwnNow
  <2>2. /\ e \notin lost => \A i, j \in OwnRows(d): i = j
        /\ e \notin lost => (Reported(d) => OwnRows(d) # {})
    BY <1>12 DEF Rowed, OneRow, OneRowOf
  <2>3. CASE row.of # d \/ row.kind # call[d].kind
    <3>1. RowsOn(more, d) = RowsOn(old, d)
      BY <1>7, <2>3 DEF RowsOn
    <3>2. row.kind = "guardrail" \/ d # c
      BY <1>4, <2>3
    <3>3. Reported(d)' => Reported(d)
      <4>1. CASE d # c
        BY <1>3, <4>1 DEF Reported
      <4>2. CASE d = c
        <5>1. row.kind = "guardrail"
          BY <3>2, <4>2
        <5>2. call[c].kind # "guardrail"
          BY DEF Tables, Kinds
        <5> QED BY <1>4, <4>2, <5>1, <5>2
      <4> QED BY <4>1, <4>2
    <3> QED BY <1>3, <1>9, <1>12, <2>1, <2>2, <3>1, <3>3 DEF OneRowOf
  <2>4. CASE row.of = d /\ row.kind = call[d].kind
    <3>1. d = c /\ pc[c] \notin {"leave", "done"}
      <4>1. call[c].kind # "guardrail"
        BY DEF Tables, Kinds
      <4> QED BY <1>4, <2>4, <4>1
    <3>2. RowsOn(old, d) = {}
      <4>1. ASSUME NEW i \in DOMAIN old, old[i].of = d, old[i].kind = call[d].kind
            PROVE  FALSE
        <5>1. RowFits(e, old[i])
          BY <1>5 DEF Rowed, RowsFit, FitsIn
        <5>2. old[i].kind # "guardrail"
          BY <4>1 DEF Tables, Kinds
        <5> QED BY <3>1, <4>1, <5>1, <5>2 DEF RowFits
      <4> QED BY <4>1 DEF RowsOn
    <3>3. RowsOn(more, d) = {n}
      BY <1>7, <2>4, <3>2 DEF RowsOn
    <3> QED BY <2>1, <3>3 DEF OneRowOf
  <2> QED BY <2>3, <2>4
<1>13. /\ \A x \in Executions \ {e}: FitsIn(x)' /\ CountedIn(x)'
       /\ \A d \in Calls: call[d].execution # e => OneRowOf(d)'
  <2>1. \A d \in Calls: call[d].execution # e => pc'[d] = pc[d] /\ outcome'[d] = outcome[d]
    BY <1>2, <1>3
  <2> QED BY <1>1, <1>3, <1>9, <2>1, OthersRows
<1> QED BY <1>10, <1>11, <1>12, <1>13 DEF Rowed, RowsFit, OneRow, Counted

\* The last free row gets the tokens of call c; without one a row is added.
TokensGo(c, old, rows) ==
  \/ \E m \in DOMAIN old:
       /\ TakesTokens(old[m], c)
       /\ \A i \in DOMAIN old: TakesTokens(old[i], c) => i <= m
       /\ rows = [old EXCEPT ![m].tokens = c]
  \/ /\ \A i \in DOMAIN old: ~TakesTokens(old[i], c)
     /\ rows = Append(old, Row(c, "model", "ok", NoCall, c))

LEMMA Answering ==
  ASSUME Tables, File, NEW c \in Calls, CountTokens(c),
         NEW e, e = call[c].execution, NEW old, old = RowsAt(e)
  PROVE  /\ counted' = [Recounted(e) EXCEPT ![e] = @ + 1]
         /\ \E rows \in Seq(RowSet): RowsBecome(e, rows) /\ TokensGo(c, old, rows)
<1>1. LET x == call[c].execution
          o == RowsAt(x)
      IN /\ counted' = [Recounted(x) EXCEPT ![x] = @ + 1]
         /\ \E rows \in Seq(RowSet):
              /\ Writes(x, WithRows(x, rows)) /\ RowsBecome(x, rows)
              /\ \/ \E m \in DOMAIN o:
                      /\ TakesTokens(o[m], c)
                      /\ \A i \in DOMAIN o: TakesTokens(o[i], c) => i <= m
                      /\ rows = [o EXCEPT ![m].tokens = c]
                 \/ /\ \A i \in DOMAIN o: ~TakesTokens(o[i], c)
                    /\ rows = Append(o, Row(c, "model", "ok", NoCall, c))
  BY Counting
<1>2. LET x == call[c].execution
          o == RowsAt(x)
      IN /\ counted' = [Recounted(x) EXCEPT ![x] = @ + 1]
         /\ \E rows \in Seq(RowSet): RowsBecome(x, rows) /\ TokensGo(c, o, rows)
  BY <1>1, Zenon DEF TokensGo
<1> QED BY <1>2

\* Tokens: the last free row gets them, and there is one while the run is there.
LEMMA TellingRows ==
  ASSUME Tables, Stages, Recorder, Rowed, NEW c \in Calls, CallStep(c), Tells(c)
  PROVE  Rowed'
<1>1. [Next]_vars
  BY DEF Next, CallStep
<1>2. PICK e \in Executions: e = call[c].execution
  BY DEF Tables
<1>3. UNCHANGED call /\ \A d \in Calls \ {c}: pc'[d] = pc[d] /\ outcome'[d] = outcome[d]
  BY CallFrame
<1>4. PICK old \in Seq(RowSet): old = RowsAt(e)
  BY OpenedRows DEF Recorder, Typed
<1>5. /\ \A i \in DOMAIN old: old[i] \in RowSet /\ RowFits(e, old[i])
      /\ Cardinality(Filled(old)) = counted[e]
      /\ \A i, j \in Filled(old): old[i].tokens = old[j].tokens => i = j
  BY <1>4 DEF Rowed, RowsFit, FitsIn, Counted, CountedIn
<1>6. \A i \in DOMAIN old: RowFits(e, old[i])'
  BY <1>1, <1>5, RowsStay
<1>7. /\ call[c].kind = "model" /\ pc[c] = "leave" /\ pc'[c] = "done"
      /\ outcome[c] = "ok" /\ outcome'[c] = "ok" /\ c # NoCall
  BY ObservationAssumption DEF Tells
<1>8. \A i \in Filled(old): old[i].tokens # c
  BY <1>5, <1>7 DEF Filled, IsFilled, RowFits
<1>9. /\ counted' = [Recounted(e) EXCEPT ![e] = @ + 1]
      /\ \E rows \in Seq(RowSet): RowsBecome(e, rows) /\ TokensGo(c, old, rows)
  <2>1. CountTokens(c) /\ File
    BY DEF Recorder, Typed, Tells
  <2> QED BY <1>2, <1>4, <2>1, Answering
<1>10. PICK rows \in Seq(RowSet): RowsBecome(e, rows) /\ TokensGo(c, old, rows)
  BY <1>9
<1>11. RowsAt(e)' = rows /\ (e \in lost => e \in lost') /\ e \notin EvictedBy(e)
  BY <1>10 DEF RowsBecome
<1>12. counted'[e] = counted[e] + 1 /\ \A x \in Executions \ {e}: counted'[x] = Recounted(e)[x]
  BY <1>9, <1>11 DEF Recounted
<1>13. PICK n: /\ n \notin Filled(old) /\ Filled(rows) = Filled(old) \cup {n} /\ rows[n].tokens = c
               /\ \A i \in Filled(old): rows[i] = old[i]
               /\ \A i \in DOMAIN rows: RowFits(e, rows[i])'
               /\ \A d \in Calls: RowsOn(old, d) \subseteq RowsOn(rows, d)
               /\ e \notin lost => \A d \in Calls: RowsOn(rows, d) = RowsOn(old, d)
  <2>1. CASE \E m \in DOMAIN old: TakesTokens(old[m], c) /\ rows = [old EXCEPT ![m].tokens = c]
    <3>1. PICK m \in DOMAIN old: TakesTokens(old[m], c) /\ rows = [old EXCEPT ![m].tokens = c]
      BY <2>1
    <3>2. old[m].kind = "model" /\ old[m].tokens = NoCall
      BY <3>1 DEF TakesTokens
    <3>3. /\ DOMAIN rows = DOMAIN old
          /\ rows[m] = [old[m] EXCEPT !.tokens = c] /\ rows[m].tokens = c /\ old[m] \in RowSet
          /\ \A i \in DOMAIN old: i # m => rows[i] = old[i]
          /\ \A i \in DOMAIN old: rows[i].of = old[i].of /\ rows[i].kind = old[i].kind
          /\ Filled(rows) = Filled(old) \cup {m} /\ m \notin Filled(old)
      <4>1. \A more: more = [old EXCEPT ![m].tokens = c] =>
              /\ DOMAIN more = DOMAIN old
              /\ more[m] = [old[m] EXCEPT !.tokens = c] /\ more[m].tokens = c /\ old[m] \in RowSet
              /\ \A i \in DOMAIN old: i # m => more[i] = old[i]
              /\ \A i \in DOMAIN old: more[i].of = old[i].of /\ more[i].kind = old[i].kind
              /\ Filled(more) = Filled(old) \cup {m} /\ m \notin Filled(old)
        BY <3>2, FilledAt
      <4> QED BY <3>1, <4>1
    <3>4. \A i \in Filled(old): i \in DOMAIN old /\ i # m
      BY <3>3 DEF Filled
    <3>5. RowFits(e, rows[m])'
      <4>1. PICK row: row = rows[m]
        OBVIOUS
      <4>2. /\ row.of = old[m].of /\ row.kind = old[m].kind /\ row.status = old[m].status
            /\ row.start = old[m].start /\ row.tokens = c /\ row.kind = "model"
        BY <3>2, <3>3, <4>1 DEF RowSet
      <4>3. RowFits(e, old[m])'
        BY <1>6
      <4>4. RowFits(e, row)'
        BY <1>2, <1>3, <1>7, <4>2, <4>3 DEF RowFits, Fits, Boundary
      <4> QED BY <4>1, <4>4
    <3>6. \A i \in DOMAIN rows: RowFits(e, rows[i])'
      BY <1>6, <3>3, <3>5
    <3>7. \A d \in Calls: RowsOn(rows, d) = RowsOn(old, d)
      BY <3>3 DEF RowsOn
    <3> QED BY <3>3, <3>4, <3>6, <3>7
  <2>2. CASE /\ \A i \in DOMAIN old: ~TakesTokens(old[i], c)
             /\ rows = Append(old, Row(c, "model", "ok", NoCall, c))
    <3>1. e \in lost
      <4>1. e \notin lost => \E i \in DOMAIN old: TakesTokens(old[i], c)
        BY <1>2, <1>4, <1>7, Untaken DEF Recorder, Rowed
      <4> QED BY <2>2, <4>1
    <3>2. PICK row: row = Row(c, "model", "ok", NoCall, c)
      OBVIOUS
    <3>3. /\ row.of = c /\ row.kind = "model" /\ row.status = "ok" /\ row.start = NoCall
          /\ row.tokens = c
      BY <3>2 DEF Row
    <3>4. row \in RowSet
      BY <3>2 DEF Row, RowSet, Tables, Kinds
    <3> DEFINE n == Len(old) + 1
    <3>5. /\ DOMAIN rows = DOMAIN old \cup {n} /\ n \notin DOMAIN old
          /\ rows[n] = row /\ \A i \in DOMAIN old: rows[i] = old[i]
          /\ Filled(rows) = IF IsFilled(row) THEN Filled(old) \cup {n} ELSE Filled(old)
      BY <2>2, <3>2, <3>4, FilledByOne
    <3> HIDE DEF n
    <3>6. Filled(rows) = Filled(old) \cup {n} /\ n \notin Filled(old)
      BY <1>7, <3>3, <3>5 DEF IsFilled, Filled
    <3>7. RowFits(e, row)'
      BY <1>2, <1>3, <1>7, <1>11, <3>1, <3>3 DEF RowFits, Fits, Boundary
    <3>8. \A i \in DOMAIN rows: RowFits(e, rows[i])'
      BY <1>6, <3>5, <3>7
    <3>9. \A d \in Calls: RowsOn(old, d) \subseteq RowsOn(rows, d)
      BY <3>5 DEF RowsOn
    <3>10. \A i \in Filled(old): rows[i] = old[i]
      BY <3>5 DEF Filled
    <3> QED BY <3>1, <3>3, <3>5, <3>6, <3>8, <3>9, <3>10
  <2> QED BY <1>10, <2>1, <2>2 DEF TokensGo
<1>14. FitsIn(e)'
  BY <1>11, <1>13, FitsNow
<1>15. CountedIn(e)'
  <2>1. Cardinality(Filled(rows)) = counted'[e]
    <3>1. IsFiniteSet(Filled(old)) /\ Cardinality(Filled(old) \cup {n}) = Cardinality(Filled(old)) + 1
      BY <1>13, FilledRows, FS_AddElement
    <3> QED BY <1>5, <1>12, <1>13, <3>1
  <2>2. \A i, j \in Filled(rows): rows[i].tokens = rows[j].tokens => i = j
    BY <1>5, <1>8, <1>13
  <2> QED BY <1>11, <2>1, <2>2, CountedNow
<1>16. ASSUME NEW d \in Calls, call[d].execution = e
       PROVE  OneRowOf(d)'
  <2>1. OwnRows(d)' = RowsOn(rows, d) /\ OwnRows(d) = RowsOn(old, d)
    BY <1>3, <1>4, <1>11, <1>16, OwnNow
  <2>2. Reported(d)' => Reported(d)
    BY <1>3, <1>7 DEF Reported
  <2>3. e \notin lost => OwnRows(d)' = OwnRows(d)
    BY <1>13, <2>1
  <2> QED BY <1>3, <1>11, <1>16, <2>2, <2>3 DEF Rowed, OneRow, OneRowOf
<1>17. /\ \A x \in Executions \ {e}: FitsIn(x)' /\ CountedIn(x)'
       /\ \A d \in Calls: call[d].execution # e => OneRowOf(d)'
  <2>1. \A d \in Calls: call[d].execution # e => pc'[d] = pc[d] /\ outcome'[d] = outcome[d]
    BY <1>2, <1>3
  <2> QED BY <1>1, <1>3, <1>10, <1>12, <2>1, OthersRows
<1> QED BY <1>14, <1>15, <1>16, <1>17 DEF Rowed, RowsFit, OneRow, Counted

LEMMA NextRowed == Tables /\ Stages /\ Recorder /\ Rowed /\ [Next]_vars => Rowed'
<1> SUFFICES ASSUME Tables, Stages, Recorder, Rowed, [Next]_vars PROVE Rowed'
  OBVIOUS
<1>1. CASE UNCHANGED vars
  <2>1. UNCHANGED <<call, pc, outcome, stop, begun, overlapped, runs, lost, counted>>
    BY <1>1, SMTT(40) DEF vars, callVars, recorderVars
  <2>2. \A e \in Executions: FitsIn(e)' /\ CountedIn(e)'
    BY <2>1 DEF Rowed, RowsFit, Counted, FitsIn, CountedIn, RowsAt, RowFits, Fits, Boundary
  <2>3. \A d \in Calls: OneRowOf(d)'
    BY <2>1, SMTT(40) DEF Rowed, OneRow, OneRowOf, OwnRows, RowsAt, Reported
  <2> QED BY <2>2, <2>3 DEF Rowed, RowsFit, OneRow, Counted
<1>2. CASE \E c \in Calls: CallStep(c)
  BY <1>2, Reporting, QuietRows, AddingRows, TellingRows
<1>3. CASE \E e \in Executions: AgentStep(e)
  BY <1>3, AgentRows
<1> QED BY <1>1, <1>2, <1>3 DEF Next, CallStep

LEMMA InitRowed == Init => Rowed
<1> SUFFICES ASSUME Init PROVE Rowed
  OBVIOUS
<1>1. \A e \in Executions: RowsAt(e) = <<>>
  BY DEF Init, RowsAt, Recorded
<1>2. DOMAIN <<>> = {} /\ Filled(<<>>) = {} /\ Cardinality({}) = 0
  BY FS_EmptySet DEF Filled
<1>3. \A e \in Executions: FitsIn(e) /\ CountedIn(e)
  BY <1>1, <1>2 DEF Init, FitsIn, CountedIn
<1>4. ASSUME NEW c \in Calls PROVE OneRowOf(c)
  <2>1. OwnRows(c) = {} /\ ~Reported(c)
    BY <1>1, <1>2 DEF Init, OwnRows, Reported
  <2> QED BY <2>1 DEF OneRowOf
<1> QED BY <1>3, <1>4 DEF Rowed, RowsFit, OneRow, Counted

LEMMA RowedHolds == Spec => [](Tables /\ Stages /\ Recorder /\ Rowed)
  BY InitRowed, NextRowed, RecorderHolds, PTL DEF Spec

\* The rows about a call are found in its run and fit it.
LEMMA RowsFound ==
  ASSUME Tables, Recorder, Rowed, NEW c \in Calls, NEW row \in RowsOf(c)
  PROVE  /\ row.of = c /\ row.kind = call[c].kind /\ row \in RowSet
         /\ RowFits(call[c].execution, row) /\ row.kind # "guardrail"
<1>1. row \in Rows /\ row.of = c /\ row.kind = call[c].kind
  BY DEF RowsOf
<1>2. PICK i \in DOMAIN runs: row \in Range(runs[i].rows)
  BY <1>1 DEF Rows
<1>3. PICK e: e = runs[i].execution
  OBVIOUS
<1>4. IsFile(runs) /\ runs[i] \in RunSet
  <2>1. IsFile(runs) /\ runs \in Seq(RunSet)
    BY DEF Recorder, Typed, File, IsFile
  <2> QED BY <2>1
<1>5. e \in Executions /\ runs[i].rows \in Seq(RowSet)
  BY <1>3, <1>4 DEF RunSet
<1>6. RowsAt(e) = runs[i].rows
  <2>1. Recorded(runs, e) /\ RunOf(runs, e) = runs[i]
    BY <1>3, <1>4, Index
  <2> QED BY <2>1 DEF RowsAt
<1>7. PICK j \in DOMAIN runs[i].rows: row = runs[i].rows[j]
  BY <1>2, Zenon DEF Range
<1>8. row \in RowSet /\ RowFits(e, row)
  BY <1>5, <1>6, <1>7 DEF Rowed, RowsFit, FitsIn
<1>9. call[c].execution = e
  BY <1>1, <1>8 DEF RowFits
<1> QED BY <1>1, <1>8, <1>9 DEF Tables, Kinds

\* Every call that ended well has one row, without an error, in the run of its
\* execution, unless that was evicted; no call has two.
THEOREM CallsRecorded == Spec => []CallsAreRecorded
<1>1. Tables /\ Stages /\ Recorder /\ Rowed /\ Begun /\ Ends => CallsAreRecorded
  <2> SUFFICES ASSUME Tables, Stages, Recorder, Rowed, Begun, Ends,
                      NEW c \in Calls, pc[c] = "done", call[c].execution \notin lost
               PROVE  LET rows == RunOf(runs, call[c].execution).rows
                          n == Cardinality({i \in DOMAIN rows: rows[i].of = c /\ rows[i].kind = call[c].kind})
                      IN /\ n <= 1
                         /\ outcome[c] = "ok" => n = 1
                         /\ \A row \in RowsOf(c):
                              row.status = "ok" => outcome[c] # "error" \/ (Boundary(c) /\ stop[c] = "guard")
    BY DEF CallsAreRecorded
  <2> DEFINE e == call[c].execution
             rows == RunOf(runs, e).rows
             own == {i \in DOMAIN rows: rows[i].of = c /\ rows[i].kind = call[c].kind}
  <2>1. e \in Executions /\ agent[e] # "new"
    BY DEF Tables, Begun
  <2>2. RowsAt(e) = rows
    BY <2>1 DEF Ends, RowsAt
  <2>3. own = OwnRows(c)
    BY <2>2 DEF OwnRows
  <2>4. (\A i, j \in own: i = j) /\ (outcome[c] = "ok" => own # {})
    BY <2>3 DEF Rowed, OneRow, OneRowOf, Reported
  <2>5. own = {} \/ \E i: own = {i}
    <3> HIDE DEF own
    <3>1. ASSUME NEW i \in own PROVE own = {i}
      BY <2>4, <3>1, ZenonT(60)
    <3> QED BY <3>1, ZenonT(60)
  <2>6. Cardinality(own) \in {0, 1} /\ (own # {} => Cardinality(own) = 1)
    BY <2>5, FS_EmptySet, FS_Singleton
  <2>7. Cardinality(own) <= 1
    BY <2>6
  <2>8. \A row \in RowsOf(c):
          row.status = "ok" => outcome[c] # "error" \/ (Boundary(c) /\ stop[c] = "guard")
    BY RowsFound DEF RowFits
  <2> QED BY <2>4, <2>6, <2>7, <2>8, ZenonT(60)
<1>2. Spec => [](Begun /\ Ends)
  BY InitEnds, NextEnds, TypedHolds, PTL DEF Spec
<1> QED BY <1>1, <1>2, RowedHolds, PTL

\* A row shows another call's time only where two overlapped, or where an earlier
\* call left its timer to one that never began.
THEOREM TimesOwn == Spec => []TimesAreOwn
<1>1. Tables /\ Recorder /\ Rowed => TimesAreOwn
  <2> SUFFICES ASSUME Tables, Recorder, Rowed, NEW c \in Calls, NEW row \in RowsOf(c)
               PROVE  \/ row.start = c
                      \/ c \in overlapped
                      \/ row.start = NoCall /\ (c \notin begun \/ call[c].execution \in lost)
                      \/ row.start # NoCall /\ c \notin begun /\ outcome[row.start] = "error"
    BY DEF TimesAreOwn
  <2> QED BY RowsFound DEF RowFits, Fits
<1> QED BY <1>1, RowedHolds, PTL

-----------------------------------------------------------------------------
(* Whose tokens a row has.                                                 *)

\* The rows after position j in which call c is.
Later(rows, j, c) == {k \in DOMAIN rows: k > j /\ rows[k].of = c /\ rows[k].kind = "model"}

\* Of a model's call that ran beside no other: its row, at j, has its tokens or
\* none; the rows after it were added, and got their tokens, by calls whose own rows
\* are among them; and there are none of them before it has told.
Alone(rows, j) ==
  LET d == rows[j].of
  IN /\ rows[j].tokens \in {NoCall, d}
     /\ \A i \in DOMAIN rows: i > j /\ IsFilled(rows[i]) =>
          rows[i].tokens # d /\ Later(rows, j, rows[i].tokens) # {}
     /\ \A c \in Group(d) \ {d}: pc[c] = "leave" => Later(rows, j, c) # {}
     /\ pc[d] = "leave" => \A i \in DOMAIN rows: i > j => rows[i].kind # "model"

AloneIn(e) ==
  \A j \in DOMAIN RowsAt(e):
    RowsAt(e)[j].kind = "model" /\ RowsAt(e)[j].of \notin overlapped => Alone(RowsAt(e), j)

Ordered == \A e \in Executions: AloneIn(e)

LEMMA OrderNow ==
  ASSUME NEW e, NEW rows, RowsAt(e)' = rows,
         \A j \in DOMAIN rows: rows[j].kind = "model" /\ rows[j].of \notin overlapped' => Alone(rows, j)'
  PROVE  AloneIn(e)'
  BY DEF AloneIn, Alone, Group, Later

\* A call whose own row is among the later ones finds a free one there: those that
\* are taken are by calls with a row of their own among them.
LEMMA LaterIsFree ==
  ASSUME NEW rows \in Seq(RowSet), NEW j \in DOMAIN rows, Alone(rows, j), NEW c,
         Later(rows, j, c) # {}, \A i \in Filled(rows): rows[i].tokens # c,
         \A i, k \in Filled(rows): rows[i].tokens = rows[k].tokens => i = k
  PROVE  \E i \in DOMAIN rows: i > j /\ rows[i].kind = "model" /\ rows[i].tokens = NoCall
<1> DEFINE M == {i \in DOMAIN rows: i > j /\ rows[i].kind = "model"}
<1>1. SUFFICES ASSUME \A i \in M: rows[i].tokens # NoCall
               PROVE  FALSE
  OBVIOUS
<1>2. \A i \in M: i \in Filled(rows) /\ IsFilled(rows[i]) /\ i \in DOMAIN rows /\ i > j
  BY <1>1 DEF Filled, IsFilled
<1>3. PICK k \in M: rows[k].of = c
  BY DEF Later
<1>4. ASSUME NEW i \in M
      PROVE  \E x \in M \ {k}: rows[x].of = rows[i].tokens
  <2>1. Later(rows, j, rows[i].tokens) # {}
    BY <1>2 DEF Alone
  <2>2. PICK x \in M: rows[x].of = rows[i].tokens
    BY <2>1 DEF Later
  <2>3. rows[i].tokens # c
    BY <1>2
  <2> QED BY <1>3, <2>2, <2>3
<1> DEFINE f == [i \in M |-> CHOOSE x \in M \ {k}: rows[x].of = rows[i].tokens]
<1>5. \A i \in M: f[i] \in M \ {k} /\ rows[f[i]].of = rows[i].tokens
  BY <1>4
<1>6. f \in [M -> M \ {k}]
  BY <1>5
<1>7. IsFiniteSet(M)
  <2>1. DOMAIN rows = 1..Len(rows) /\ Len(rows) \in Nat
    OBVIOUS
  <2>2. IsFiniteSet(1..Len(rows)) /\ M \in SUBSET (1..Len(rows))
    BY <2>1, FS_Interval
  <2> QED BY <2>2, FS_Subset
<1> HIDE DEF f, M
<1>8. /\ IsFiniteSet(M \ {k}) /\ Cardinality(M \ {k}) = Cardinality(M) - 1
      /\ Cardinality(M) \in Nat
  BY <1>3, <1>7, FS_RemoveElement, FS_CardinalityType
<1>9. PICK x, y \in M: x # y /\ f[x] = f[y]
  <2>1. Cardinality(M \ {k}) < Cardinality(M)
    BY <1>8
  <2> QED BY <1>6, <1>7, <1>8, <2>1, FS_PigeonHole
<1>10. rows[x].tokens = rows[y].tokens /\ x \in Filled(rows) /\ y \in Filled(rows)
  BY <1>2, <1>5, <1>9
<1> QED BY <1>9, <1>10

\* How calls move on, as far as the order of rows depends on it.
LEMMA Leaves ==
  ASSUME Tables, Stages, Recorder, [Next]_vars
  PROVE  /\ UNCHANGED call /\ overlapped \subseteq overlapped'
         /\ \A d \in Calls: pc'[d] = "leave" /\ pc[d] # "leave" => pc[d] # "done" /\ CallStep(d)
<1>1. CASE UNCHANGED vars
  BY <1>1 DEF vars, callVars, recorderVars
<1>2. ASSUME NEW c \in Calls, CallStep(c)
      PROVE  /\ UNCHANGED call /\ overlapped \subseteq overlapped'
             /\ \A d \in Calls: pc'[d] = "leave" /\ pc[d] # "leave" => pc[d] # "done" /\ CallStep(d)
  <2>1. /\ UNCHANGED call /\ Moves(c) /\ \A d \in Calls \ {c}: pc'[d] = pc[d]
    BY <1>2, CallFrame, CallMoves
  <2>2. overlapped \subseteq overlapped'
    BY <2>1 DEF Moves
  <2>3. pc[c] # "done"
    BY <2>1 DEF Moves, Starts, Pops, GoesOn, Underway
  <2> QED BY <1>2, <2>1, <2>2, <2>3
<1>3. CASE \E e \in Executions: AgentStep(e)
  BY <1>3, AgentFrame DEF callVars, Recorder

<1> QED BY <1>1, <1>2, <1>3 DEF Next, CallStep

\* A step that leaves rows as they are, and brings no call to its event.
LEMMA KeepingOrder ==
  ASSUME Tables, Stages, Recorder, Ordered, [Next]_vars, NEW e \in Executions,
         NEW rows, rows = RowsAt(e), RowsAt(e)' \in {rows, <<>>},
         \A d \in Calls: call[d].execution = e => (Reported(d)' => Reported(d)),
         \A i \in DOMAIN rows: call[rows[i].of].execution = e
  PROVE  AloneIn(e)'
<1>1. UNCHANGED call /\ overlapped \subseteq overlapped'
  BY Leaves
<1>2. \A d \in Calls: call[d].execution = e /\ pc'[d] = "leave" => pc[d] = "leave"
  BY Leaves DEF Reported
<1>3. CASE RowsAt(e)' = <<>>
  BY <1>3, OrderNow
<1>4. CASE RowsAt(e)' = rows
  <2>1. rows \in Seq(RowSet) /\ \A i \in DOMAIN rows: rows[i].of \in Calls
    <3>1. rows \in Seq(RowSet)
      BY OpenedRows DEF Recorder, Typed
    <3>2. \A i \in DOMAIN rows: rows[i] \in RowSet
      BY <3>1
    <3>3. \A row \in RowSet: row.of \in Calls
      BY DEF RowSet
    <3> QED BY <3>1, <3>2, <3>3
  <2>2. ASSUME NEW j \in DOMAIN rows, rows[j].kind = "model", rows[j].of \notin overlapped'
        PROVE  Alone(rows, j)'
    <3>1. Alone(rows, j)
      BY <1>1, <2>2 DEF Ordered, AloneIn
    <3>2. PICK d \in Calls: d = rows[j].of /\ call[d].execution = e
      BY <2>1
    <3>3. \A x \in Group(d): x \in Calls /\ call[x].execution = e
      BY <3>2 DEF Group
    <3>4. Group(d)' = Group(d)
      BY <1>1 DEF Group
    <3>5. \A x \in Group(d) \ {d}: pc'[x] = "leave" => Later(rows, j, x) # {}
      BY <1>2, <3>1, <3>2, <3>3 DEF Alone
    <3>6. pc'[d] = "leave" => \A i \in DOMAIN rows: i > j => rows[i].kind # "model"
      BY <1>2, <3>1, <3>2 DEF Alone
    <3> QED BY <3>1, <3>2, <3>4, <3>5, <3>6 DEF Alone, Later, Group
  <2> QED BY <1>4, <2>2, OrderNow
<1> QED BY <1>3, <1>4

\* Two calls of one model in one execution are of one group, and only one of them
\* runs unless it is known that they overlap.
LEMMA NoneBeside ==
  ASSUME Tables, Recorder, NEW c \in Calls, NEW d \in Calls, c # d, call[c].kind = "model",
         call[d].kind = "model", call[d].execution = call[c].execution
  PROVE  /\ call[d] = call[c] /\ c \in Group(d) /\ d \in Group(c)
         /\ Active(c) /\ Active(d) => c \in overlapped /\ d \in overlapped
<1>1. /\ call[c] \in [execution: Executions, kind: Kinds, name: {"a"}]
      /\ call[d] \in [execution: Executions, kind: Kinds, name: {"a"}]
  BY DEF Tables
<1>2. call[d].name = call[c].name
  BY <1>1
<1>3. call[d] = call[c]
  BY <1>1, <1>2
<1>4. Active(c) /\ Active(d) => c \in overlapped /\ d \in overlapped
  BY <1>3 DEF Recorder, Beside
<1> QED BY <1>3, <1>4 DEF Group

\* A row more keeps the order.
LEMMA AddingOrder ==
  ASSUME Tables, Stages, Recorder, Rowed, Ordered, NEW c \in Calls, CallStep(c), AddsOne(c)
  PROVE  AloneIn(call[c].execution)'
<1>1. [Next]_vars
  BY DEF Next, CallStep
<1>2. PICK e \in Executions: e = call[c].execution
  BY DEF Tables
<1>3. /\ UNCHANGED call /\ overlapped \subseteq overlapped'
      /\ \A d \in Calls \ {c}: pc'[d] = pc[d]
      /\ pc'[c] = "leave" /\ pc[c] # "leave" => pc[c] # "done"
  BY <1>1, CallFrame, Leaves
<1>4. PICK row \in RowSet:
        /\ row.of = c /\ row.tokens = NoCall
        /\ RowsBecome(e, Append(RowsAt(e), row))
        /\ \/ row.kind = "guardrail" /\ (Reported(c)' => Reported(c))
           \/ row.kind = call[c].kind /\ pc[c] \in {"row", "failrow"}
  BY <1>2 DEF AddsOne
<1>5. PICK old \in Seq(RowSet): old = RowsAt(e)
  BY OpenedRows DEF Recorder, Typed
<1>6. PICK more: more = Append(old, row)
  OBVIOUS
<1>7. PICK n: /\ DOMAIN more = DOMAIN old \cup {n} /\ n \notin DOMAIN old
              /\ more[n] = row /\ (\A i \in DOMAIN old: more[i] = old[i]) /\ \A i \in DOMAIN old: n > i
  <2>1. DOMAIN old = 1..Len(old) /\ Len(old) \in Nat
    OBVIOUS
  <2>2. \A i \in DOMAIN old: Len(old) + 1 > i
    BY <2>1
  <2> QED BY <1>6, <2>2, FilledByOne
<1>8. RowsAt(e)' = more
  BY <1>4, <1>5, <1>6 DEF RowsBecome
<1>9. \A i \in DOMAIN old: old[i] \in RowSet /\ RowFits(e, old[i])
  BY <1>5 DEF Rowed, RowsFit, FitsIn
<1>10. ~IsFilled(row)
  BY <1>4 DEF IsFilled
<1>11. ASSUME NEW j \in DOMAIN old, more[j].kind = "model", more[j].of \notin overlapped'
       PROVE  Alone(more, j)'
  <2>1. PICK d \in Calls: d = old[j].of
    BY <1>9 DEF RowSet
  <2>2. /\ more[j] = old[j] /\ d \notin overlapped /\ call[d].kind = "model"
        /\ call[d].execution = e /\ pc[d] \in {"leave", "done"} /\ n > j
    BY <1>3, <1>7, <1>9, <1>11, <2>1 DEF RowFits
  <2>3. Alone(old, j)
    BY <1>5, <1>7, <1>11, <2>1, <2>2 DEF Ordered, AloneIn
  <2>4. \A x: Later(old, j, x) \subseteq Later(more, j, x)
    BY <1>7 DEF Later
  <2>5. \A i \in DOMAIN more: i > j /\ IsFilled(more[i]) =>
          more[i].tokens # d /\ Later(more, j, more[i].tokens) # {}
    BY <1>7, <1>10, <2>1, <2>3, <2>4 DEF Alone
  <2>6. ASSUME NEW x \in Group(d) \ {d}, pc'[x] = "leave"
        PROVE  Later(more, j, x) # {}
    <3>1. x \in Calls /\ call[x] = call[d]
      BY DEF Group
    <3>2. CASE pc[x] = "leave"
      BY <2>1, <2>3, <2>4, <3>2 DEF Alone
    <3>3. CASE pc[x] # "leave"
      <4>1. x = c /\ ~Reported(c) /\ Reported(c)'
        BY <1>3, <2>6, <3>1, <3>3 DEF Reported
      <4>2. row.kind = "model"
        BY <1>4, <2>2, <3>1, <4>1
      <4>3. n \in Later(more, j, x)
        BY <1>4, <1>7, <2>2, <4>1, <4>2 DEF Later
      <4> QED BY <4>3
    <3> QED BY <3>2, <3>3
  <2>7. ASSUME pc'[d] = "leave", NEW i \in DOMAIN more, i > j
        PROVE  more[i].kind # "model"
    <3>1. pc[d] = "leave"
            BY <1>3, <2>2, <2>7

    <3>2. CASE i \in DOMAIN old
      BY <1>7, <2>1, <2>3, <2>7, <3>1, <3>2 DEF Alone
    <3>3. CASE i = n
      <4>1. SUFFICES ASSUME row.kind = "model" PROVE FALSE
        BY <1>7, <3>3
      <4>2. call[c].kind = "model" /\ pc[c] \in {"row", "failrow"}
        BY <1>4, <4>1
      <4>3. d # c /\ Active(c) /\ Active(d)
        BY <3>1, <4>2 DEF Active
      <4> QED BY <1>2, <2>2, <4>2, <4>3, NoneBeside
    <3> QED BY <1>7, <3>2, <3>3
  <2>8. Group(d)' = Group(d)
    BY <1>3 DEF Group
  <2>9. more[j].tokens \in {NoCall, d}
    BY <2>1, <2>2, <2>3 DEF Alone
  <2> QED BY <2>1, <2>2, <2>5, <2>6, <2>7, <2>8, <2>9 DEF Alone, Later, Group
<1>12. ASSUME more[n].kind = "model", more[n].of \notin overlapped'
       PROVE  Alone(more, n)'
  <2>1. /\ more[n].of = c /\ more[n].tokens = NoCall /\ row.kind = "model"
        /\ call[c].kind = "model" /\ pc[c] \in {"row", "failrow"} /\ c \notin overlapped
    BY <1>3, <1>4, <1>7, <1>12
  <2>2. \A i \in DOMAIN more: ~(i > n)
    <3>1. \A i \in DOMAIN old: n > i /\ i \in Nat /\ n \in Nat
      BY <1>7, <1>6
    <3>2. ~(n > n) /\ n \in Nat
      BY <1>6, <1>7
    <3> QED BY <1>7, <3>1, <3>2
  <2>3. \A x \in Group(c) \ {c}: pc'[x] # "leave"
    <3>1. ASSUME NEW x \in Group(c) \ {c}, pc'[x] = "leave" PROVE FALSE
      <4>1. x \in Calls /\ call[x] = call[c] /\ pc[x] = "leave"
        BY <1>3, <3>1 DEF Group
      <4>2. Active(x) /\ Active(c)
        BY <2>1, <4>1 DEF Active
      <4> QED BY <2>1, <3>1, <4>1, <4>2, NoneBeside
    <3> QED BY <3>1
  <2>4. Group(c)' = Group(c)
    BY <1>3 DEF Group
  <2> QED BY <2>1, <2>2, <2>3, <2>4 DEF Alone, Later, Group
<1>13. AloneIn(e)'
  BY <1>7, <1>8, <1>11, <1>12, OrderNow
<1> QED BY <1>2, <1>3, <1>13 DEF AloneIn, RowsAt

\* So do tokens: a call that ran beside no other finds its own row the last free
\* one; a later one finds a later row.
LEMMA TellingOrder ==
  ASSUME Tables, Stages, Recorder, Rowed, Ordered, NEW c \in Calls, CallStep(c), Tells(c)
  PROVE  AloneIn(call[c].execution)'
<1>1. [Next]_vars
  BY DEF Next, CallStep
<1>2. PICK e \in Executions: e = call[c].execution
  BY DEF Tables
<1>3. /\ UNCHANGED call /\ overlapped \subseteq overlapped'
      /\ \A d \in Calls \ {c}: pc'[d] = pc[d]
  BY <1>1, CallFrame, Leaves
<1>4. PICK old \in Seq(RowSet): old = RowsAt(e)
  BY OpenedRows DEF Recorder, Typed
<1>5. /\ \A i \in DOMAIN old: old[i] \in RowSet /\ RowFits(e, old[i])
      /\ \A i, k \in Filled(old): old[i].tokens = old[k].tokens => i = k
  BY <1>4 DEF Rowed, RowsFit, FitsIn, Counted, CountedIn
<1>6. call[c].kind = "model" /\ pc[c] = "leave" /\ pc'[c] = "done" /\ c # NoCall
  BY ObservationAssumption DEF Tells
<1>7. \A i \in Filled(old): old[i].tokens # c
  BY <1>5, <1>6 DEF Filled, IsFilled, RowFits
<1>8. PICK rows \in Seq(RowSet): RowsBecome(e, rows) /\ TokensGo(c, old, rows)
  <2>1. CountTokens(c) /\ File
    BY DEF Recorder, Typed, Tells
  <2> QED BY <1>2, <1>4, <2>1, Answering
<1>9. RowsAt(e)' = rows
  BY <1>8 DEF RowsBecome
<1> SUFFICES AloneIn(e)'
  BY <1>2, <1>3 DEF AloneIn, RowsAt
<1>10. \A i \in DOMAIN old: TakesTokens(old[i], c) <=> old[i].kind = "model" /\ old[i].tokens = NoCall
  <2>1. call[c].name = "a"
    BY DEF Tables
  <2>2. \A i \in DOMAIN old: old[i].name = "a"
    BY <1>5 DEF RowSet
  <2> QED BY <2>1, <2>2 DEF TakesTokens
<1>11. ASSUME NEW j \in DOMAIN old, old[j].kind = "model", old[j].of \notin overlapped'
       PROVE  /\ old[j].of \in Calls /\ call[old[j].of].kind = "model"
              /\ call[old[j].of].execution = e /\ Alone(old, j) /\ old[j].of \notin overlapped
              /\ old[j].of = c \/ c \in Group(old[j].of) \ {old[j].of}
  <2>1. PICK d \in Calls: d = old[j].of
    BY <1>5 DEF RowSet
  <2>2. call[d].kind = "model" /\ call[d].execution = e /\ d \notin overlapped
    BY <1>3, <1>5, <1>11, <2>1 DEF RowFits
  <2>3. Alone(old, j)
    BY <1>4, <1>11, <2>1, <2>2 DEF Ordered, AloneIn
  <2>4. d # c => c \in Group(d)
    BY <1>2, <1>6, <2>2, NoneBeside
  <2> QED BY <2>1, <2>2, <2>3, <2>4
<1>12. ASSUME NEW d \in Calls, NEW x \in Group(d), pc'[x] = "leave"
       PROVE  x \in Calls /\ x # c /\ pc[x] = "leave"
  BY <1>3, <1>6, <1>12 DEF Group
<1>13. CASE \E m \in DOMAIN old:
              /\ TakesTokens(old[m], c)
              /\ \A i \in DOMAIN old: TakesTokens(old[i], c) => i <= m
              /\ rows = [old EXCEPT ![m].tokens = c]
  <2>1. PICK m \in DOMAIN old:
          /\ TakesTokens(old[m], c)
          /\ \A i \in DOMAIN old: TakesTokens(old[i], c) => i <= m
          /\ rows = [old EXCEPT ![m].tokens = c]
    BY <1>13
  <2>2. old[m].kind = "model" /\ old[m].tokens = NoCall
    BY <1>10, <2>1
  <2>3. /\ DOMAIN rows = DOMAIN old /\ rows[m].tokens = c
        /\ \A i \in DOMAIN old: i # m => rows[i] = old[i]
        /\ \A i \in DOMAIN old: rows[i].of = old[i].of /\ rows[i].kind = old[i].kind
    <3>1. \A more: more = [old EXCEPT ![m].tokens = c] =>
            /\ DOMAIN more = DOMAIN old
            /\ more[m] = [old[m] EXCEPT !.tokens = c] /\ more[m].tokens = c /\ old[m] \in RowSet
            /\ \A i \in DOMAIN old: i # m => more[i] = old[i]
            /\ \A i \in DOMAIN old: more[i].of = old[i].of /\ more[i].kind = old[i].kind
            /\ Filled(more) = Filled(old) \cup {m} /\ m \notin Filled(old)
      BY <2>2, FilledAt
    <3> QED BY <2>1, <3>1
  <2>4. \A j, x: Later(rows, j, x) = Later(old, j, x)
    BY <2>3 DEF Later
  <2>5. ASSUME NEW j \in DOMAIN rows, rows[j].kind = "model", rows[j].of \notin overlapped'
        PROVE  Alone(rows, j)'
    <3>1. PICK d: d = old[j].of
      OBVIOUS
    <3>2. /\ j \in DOMAIN old /\ d \in Calls /\ call[d].kind = "model" /\ call[d].execution = e
          /\ Alone(old, j) /\ d \notin overlapped /\ rows[j].of = d
          /\ d = c \/ c \in Group(d) \ {d}
      BY <1>11, <2>3, <2>5, <3>1
    <3>3. d # c => Later(old, j, c) # {}
      BY <1>6, <3>1, <3>2 DEF Alone
    <3>4. d # c => m # j
      <4>1. SUFFICES ASSUME d # c, m = j PROVE FALSE
        OBVIOUS
      <4>2. PICK i \in DOMAIN old: i > j /\ old[i].kind = "model" /\ old[i].tokens = NoCall
        BY <1>5, <1>7, <3>2, <3>3, <4>1, LaterIsFree
      <4>3. i <= m
        BY <1>10, <2>1, <4>2
      <4>4. i \in Nat /\ j \in Nat
        OBVIOUS
      <4> QED BY <4>1, <4>2, <4>3, <4>4
    <3>5. d = c => ~(m > j)
      BY <1>6, <2>2, <3>1, <3>2 DEF Alone
    <3>6. rows[j].tokens \in {NoCall, d}
      BY <2>3, <3>1, <3>2, <3>4 DEF Alone
    <3>7. ASSUME NEW i \in DOMAIN rows, i > j, IsFilled(rows[i])
          PROVE  rows[i].tokens # d /\ Later(rows, j, rows[i].tokens) # {}
      <4>1. CASE i # m
        BY <2>3, <2>4, <3>1, <3>2, <3>7, <4>1 DEF Alone
      <4>2. CASE i = m
        BY <2>3, <2>4, <3>3, <3>5, <3>7, <4>2
      <4> QED BY <4>1, <4>2
    <3>8. \A x \in Group(d) \ {d}: pc'[x] = "leave" => Later(rows, j, x) # {}
      BY <1>12, <2>4, <3>1, <3>2 DEF Alone
    <3>9. pc'[d] = "leave" => \A i \in DOMAIN rows: i > j => rows[i].kind # "model"
      <4>1. pc'[d] = "leave" => pc[d] = "leave"
        BY <1>3, <1>6, <3>2
      <4> QED BY <2>3, <3>1, <3>2, <4>1 DEF Alone
    <3>10. Group(d)' = Group(d)
      BY <1>3 DEF Group
    <3> QED BY <3>2, <3>6, <3>7, <3>8, <3>9, <3>10 DEF Alone, Later, Group
  <2> QED BY <1>9, <2>5, OrderNow
<1>14. CASE /\ \A i \in DOMAIN old: ~TakesTokens(old[i], c)
            /\ rows = Append(old, Row(c, "model", "ok", NoCall, c))
  <2>1. PICK row \in RowSet: row = Row(c, "model", "ok", NoCall, c)
    BY DEF Row, RowSet, Tables, Kinds
  <2>2. row.of = c /\ row.kind = "model" /\ row.tokens = c
    BY <2>1 DEF Row
  <2>3. PICK n: /\ DOMAIN rows = DOMAIN old \cup {n} /\ n \notin DOMAIN old
                /\ rows[n] = row /\ (\A i \in DOMAIN old: rows[i] = old[i])
                /\ (\A i \in DOMAIN old: n > i) /\ \A i \in DOMAIN rows: ~(i > n)
    <3>1. DOMAIN old = 1..Len(old) /\ Len(old) \in Nat
      OBVIOUS
    <3>2. \A i \in DOMAIN old: Len(old) + 1 > i /\ ~(i > Len(old) + 1)
      BY <3>1
    <3>3. ~(Len(old) + 1 > Len(old) + 1)
      BY <3>1
    <3>4. rows = Append(old, row)
      BY <1>14, <2>1
    <3>5. /\ DOMAIN rows = DOMAIN old \cup {Len(old) + 1} /\ Len(old) + 1 \notin DOMAIN old
          /\ rows[Len(old) + 1] = row /\ \A i \in DOMAIN old: rows[i] = old[i]
      BY <3>4, FilledByOne
    <3> QED BY <3>2, <3>3, <3>5
  <2>4. ASSUME NEW j \in DOMAIN old, rows[j].kind = "model", rows[j].of \notin overlapped'
        PROVE  Alone(rows, j)'
    <3>1. PICK d: d = old[j].of
      OBVIOUS
    <3>2. /\ d \in Calls /\ call[d].kind = "model" /\ call[d].execution = e
          /\ Alone(old, j) /\ d \notin overlapped /\ rows[j] = old[j]
          /\ d = c \/ c \in Group(d) \ {d}
      BY <1>11, <2>3, <2>4, <3>1
    <3>3. \A x: Later(old, j, x) \subseteq Later(rows, j, x)
      BY <2>3 DEF Later
    <3>4. d # c
      <4>1. old[j].tokens # NoCall /\ j \in Filled(old)
        BY <1>10, <1>14, <2>4, <3>2 DEF Filled, IsFilled
      <4> QED BY <1>7, <3>1, <3>2, <4>1 DEF Alone
    <3>5. n \in Later(rows, j, c)
      BY <2>2, <2>3 DEF Later
    <3>6. \A i \in DOMAIN rows: i > j /\ IsFilled(rows[i]) =>
            rows[i].tokens # d /\ Later(rows, j, rows[i].tokens) # {}
      BY <2>2, <2>3, <3>1, <3>2, <3>3, <3>4, <3>5 DEF Alone
    <3>7. \A x \in Group(d) \ {d}: pc'[x] = "leave" => Later(rows, j, x) # {}
      BY <1>12, <3>1, <3>2, <3>3 DEF Alone
    <3>8. pc'[d] # "leave"
      <4>1. SUFFICES ASSUME pc'[d] = "leave" PROVE FALSE
        OBVIOUS
      <4>2. Active(d) /\ Active(c)
        BY <1>3, <1>6, <3>2, <3>4, <4>1 DEF Active
      <4> QED BY <1>2, <1>6, <3>2, <3>4, <4>2, NoneBeside
    <3>9. Group(d)' = Group(d)
      BY <1>3 DEF Group
    <3>10. rows[j].tokens \in {NoCall, d} /\ rows[j].of = d
      BY <3>1, <3>2 DEF Alone
    <3> QED BY <3>6, <3>7, <3>8, <3>9, <3>10 DEF Alone, Later, Group
  <2>5. ASSUME rows[n].of \notin overlapped'
        PROVE  Alone(rows, n)'
    <3>1. rows[n].of = c /\ rows[n].tokens = c /\ c \notin overlapped
      BY <1>3, <2>2, <2>3, <2>5
    <3>2. \A x \in Group(c) \ {c}: pc'[x] # "leave"
      <4>1. ASSUME NEW x \in Group(c) \ {c}, pc'[x] = "leave" PROVE FALSE
        <5>1. x \in Calls /\ pc[x] = "leave" /\ call[x] = call[c]
          BY <1>12, <4>1 DEF Group
        <5>2. Active(x) /\ Active(c)
          BY <1>6, <5>1 DEF Active
        <5> QED BY <1>6, <3>1, <4>1, <5>1, <5>2, NoneBeside
      <4> QED BY <4>1
    <3>3. Group(c)' = Group(c)
      BY <1>3 DEF Group
    <3> QED BY <1>6, <2>3, <3>1, <3>2, <3>3 DEF Alone, Later, Group
  <2> QED BY <1>9, <2>3, <2>4, <2>5, OrderNow
<1> QED BY <1>8, <1>13, <1>14 DEF TokensGo

LEMMA NextOrdered == Tables /\ Stages /\ Recorder /\ Rowed /\ Ordered /\ [Next]_vars => Ordered'
<1> SUFFICES ASSUME Tables, Stages, Recorder, Rowed, Ordered, [Next]_vars PROVE Ordered'
  OBVIOUS
<1>1. \A x \in Executions: \A i \in DOMAIN RowsAt(x): call[RowsAt(x)[i].of].execution = x
  BY DEF Rowed, RowsFit, FitsIn, RowFits
\* Executions whose rows and calls are left alone.
<1>2. ASSUME NEW x \in Executions, RowsAt(x)' = RowsAt(x) \/ RowsAt(x)' = <<>>,
             \A d \in Calls: call[d].execution = x => (Reported(d)' => Reported(d))
      PROVE  AloneIn(x)'
  <2>1. PICK rows: rows = RowsAt(x)
    OBVIOUS
  <2>2. RowsAt(x)' \in {rows, <<>>}
    BY <1>2, <2>1
  <2>3. \A i \in DOMAIN rows: call[rows[i].of].execution = x
    BY <1>1, <2>1
  <2> QED BY <1>2, <2>1, <2>2, <2>3, KeepingOrder
<1>3. CASE UNCHANGED vars
  <2>1. UNCHANGED <<runs, pc, outcome>>
    BY <1>3 DEF vars, callVars, recorderVars
  <2>2. \A x \in Executions: RowsAt(x)' = RowsAt(x)
    BY <2>1 DEF RowsAt
  <2>3. \A d \in Calls: Reported(d)' => Reported(d)
    BY <2>1 DEF Reported
  <2> QED BY <1>2, <2>2, <2>3 DEF Ordered
<1>4. ASSUME NEW c \in Calls, CallStep(c) PROVE Ordered'
  <2>1. PICK e \in Executions: e = call[c].execution
    BY DEF Tables
  <2>2. \A d \in Calls: d # c => (Reported(d)' => Reported(d))
    BY <1>4, CallFrame DEF Reported
  <2>3. CASE Quiet(c)
    <3>1. \A x \in Executions: RowsAt(x)' = RowsAt(x)
      BY <2>3 DEF Quiet, RowsAt
    <3>2. \A d \in Calls: Reported(d)' => Reported(d)
      BY <2>2, <2>3 DEF Quiet
    <3> QED BY <1>2, <3>1, <3>2 DEF Ordered
  <2>4. ASSUME NEW rows, RowsBecome(e, rows), AloneIn(call[c].execution)'
        PROVE  Ordered'
    <3>1. \A x \in Executions \ {e}: RowsAt(x)' = RowsAt(x) \/ RowsAt(x)' = <<>>
      BY <2>4 DEF RowsBecome
    <3>2. \A x \in Executions \ {e}: AloneIn(x)'
      BY <1>2, <2>1, <2>2, <3>1
    <3>3. AloneIn(e)'
      <4>1. UNCHANGED call
        BY <1>4, CallFrame
      <4> QED BY <2>1, <2>4, <4>1 DEF AloneIn, RowsAt
    <3> QED BY <3>2, <3>3 DEF Ordered
  <2>5. CASE AddsOne(c)
    <3>1. PICK rows: RowsBecome(e, rows)
      BY <2>1, <2>5 DEF AddsOne
    <3> QED BY <1>4, <2>4, <2>5, <3>1, AddingOrder
  <2>6. CASE Tells(c)
    <3>1. PICK old: old = RowsAt(e)
      OBVIOUS
    <3>2. CountTokens(c) /\ File
      BY <2>6 DEF Recorder, Typed, Tells
    <3>3. PICK rows: RowsBecome(e, rows)
      BY <2>1, <3>1, <3>2, Answering
    <3> QED BY <1>4, <2>4, <2>6, <3>3, TellingOrder
  <2> QED BY <1>4, <2>3, <2>5, <2>6, Reporting
<1>5. ASSUME NEW e \in Executions, AgentStep(e) PROVE Ordered'
  <2>1. UNCHANGED callVars /\ (UNCHANGED <<runs, lost, counted>> \/ RowsBecome(e, RowsAt(e)))
    BY <1>5, AgentFrame DEF Recorder
  <2>2. \A x \in Executions: RowsAt(x)' = RowsAt(x) \/ RowsAt(x)' = <<>>
    BY <2>1 DEF RowsBecome, RowsAt
  <2>3. \A d \in Calls: Reported(d)' => Reported(d)
    BY <2>1 DEF Reported, callVars
  <2> QED BY <1>2, <2>2, <2>3 DEF Ordered
<1> QED BY <1>3, <1>4, <1>5 DEF Next, CallStep

LEMMA InitOrdered == Init => Ordered
<1> SUFFICES ASSUME Init PROVE Ordered
  OBVIOUS
<1>1. \A e \in Executions: RowsAt(e) = <<>>
  BY DEF Init, RowsAt, Recorded
<1> QED BY <1>1 DEF Ordered, AloneIn

\* Tokens are counted once and none is lost, whatever runs were evicted and opened
\* again; and a row has its own call's unless calls of that model overlapped.
THEOREM TokensCounted == Spec => []TokensAreCounted
<1>1. Tables /\ Recorder /\ Rowed /\ Ordered => TokensAreCounted
  <2> SUFFICES ASSUME Tables, Recorder, Rowed, Ordered, NEW i \in DOMAIN runs
               PROVE  LET rows == runs[i].rows
                          filled == {j \in DOMAIN rows: rows[j].kind = "model" /\ rows[j].tokens # NoCall}
                      IN /\ Cardinality(filled) = counted[runs[i].execution]
                         /\ \A j, k \in filled: rows[j].tokens = rows[k].tokens => j = k
                         /\ \A j \in filled: rows[j].tokens = rows[j].of \/ rows[j].of \in overlapped
    BY DEF TokensAreCounted
  <2>1. IsFile(runs) /\ runs[i] \in RunSet
    <3>1. IsFile(runs) /\ runs \in Seq(RunSet)
      BY DEF Recorder, Typed, File, IsFile
    <3> QED BY <3>1
  <2>2. PICK e \in Executions: e = runs[i].execution
    BY <2>1 DEF RunSet
  <2>3. PICK rows: rows = runs[i].rows /\ rows = RowsAt(e)
    <3>1. Recorded(runs, e) /\ RunOf(runs, e) = runs[i]
      BY <2>1, <2>2, Index
    <3> QED BY <3>1 DEF RowsAt
  <2>4. Filled(rows) = {j \in DOMAIN rows: rows[j].kind = "model" /\ rows[j].tokens # NoCall}
    BY DEF Filled, IsFilled
  <2>5. /\ Cardinality(Filled(rows)) = counted[e]
        /\ \A j, k \in Filled(rows): rows[j].tokens = rows[k].tokens => j = k
    BY <2>3 DEF Rowed, Counted, CountedIn
  <2>6. \A j \in Filled(rows): rows[j].tokens = rows[j].of \/ rows[j].of \in overlapped
    BY <2>3 DEF Filled, IsFilled, Ordered, AloneIn, Alone
  <2> QED BY <2>2, <2>3, <2>4, <2>5, <2>6
<1>2. Spec => [](Tables /\ Stages /\ Recorder /\ Rowed /\ Ordered)
  BY InitOrdered, NextOrdered, RowedHolds, PTL DEF Spec
<1> QED BY <1>1, <1>2, PTL
=============================================================================
