-------------------------------- MODULE Hooks --------------------------------
(***************************************************************************)
(* The hook engine (klafi/core/hook.py) and the pipelines of @klafi_node   *)
(* (klafi/core/node.py, klafi/core/middleware.py) as operators.            *)
(*                                                                         *)
(* A hook is known by its name.  What its callback does is told by the     *)
(* modules that use this one; here only who is called, in which order, and *)
(* who stops a call.                                                       *)
(***************************************************************************)
EXTENDS Naturals, Sequences, FiniteSets, SequencesExt, FiniteSetsExt

CONSTANTS
  GlobalHooks,  \* register_hook's list, in the order of registration
  Observed,     \* the agent class's observability
  PlatformHooks,\* the application's base hooks
  Plan,         \* hooks.yaml: those of all agents and those of this one
  ExtraHooks,   \* what register or create is given for this agent
  Priority,     \* hook -> priority, the lower the further out
  Disabled,     \* the hooks with enabled = False
  NoHook        \* no hook stopped the call

\* HookPlan.for_agent.
ForAgent == Plan.all \o Plan.agent

\* KlafiGraph brings logging and tracing unless it is told not to.
DefaultHooks == IF Observed THEN <<"logging", "tracing">> ELSE <<>>

\* The agent's own list, as the application, the factory and the class make it.
AgentHooks == DefaultHooks \o PlatformHooks \o ForAgent \o ExtraHooks

HookNames == Range(GlobalHooks \o AgentHooks)

ASSUME HooksAssumption ==
  /\ Priority \in [HookNames -> Nat]
  /\ NoHook \notin HookNames

-----------------------------------------------------------------------------
(* The onion: before_* and on_*_error run from the outermost hook inwards, *)
(* after_* and finally_* the other way.                                    *)

\* resolve_hooks: global and agent hooks together, the enabled ones by priority.
Chain ==
  SortSeq(SelectSeq(GlobalHooks \o AgentHooks, LAMBDA h: h \notin Disabled),
          LAMBDA g, h: Priority[g] < Priority[h])

Inwards == Chain
Outwards == Reverse(Chain)

\* Faulty variant: a fail-open hook that raises keeps the others from being called.
FireStopping(order, raising, open) ==
  LET stops == {i \in DOMAIN order: order[i] \in raising}
      last == IF stops = {} THEN Len(order) ELSE Min(stops)
  IN [ran |-> {order[i]: i \in 1..last} \ raising,
      stop |-> IF stops = {} THEN NoHook ELSE order[last]]

\* One callback along the chain (_fire in _before and _after, _transform): the
\* hooks in raising raise; the first of them that is not fail-open stops it.
Fire(order, raising, open) ==
  LET stops == {i \in DOMAIN order: order[i] \in raising \ open}
      last == IF stops = {} THEN Len(order) ELSE Min(stops)
  IN [ran |-> {order[i]: i \in 1..last} \ raising,
      stop |-> IF stops = {} THEN NoHook ELSE order[last]]

-----------------------------------------------------------------------------
(* A node function inside its pipelines.                                   *)

\* is_control_flow: an interrupt and a cancellation are not failures.
IsControlFlow(outcome) == outcome \in {"interrupt", "cancelled"}

\* What the parts of a node can do.
NodeParts ==
  [before: {"ok", "error"},                             \* its before pipeline (apply)
   body: {"ok", "error", "interrupt"},                  \* the function (a cancellation is
                                                        \* control flow as an interrupt is)
   fits: BOOLEAN,                                       \* its result fits the output contract
   after: {"ok", "error"}]                              \* its after pipeline

\* _coerce_output: without a contract, or when the result is no mapping, every
\* result fits; otherwise the one value the contract means has to be there and to
\* be valid, or the node fails.
CoerceOutput(fits) == IF fits THEN "ok" ELSE "error"

\* fire_error: the on_error middlewares do not hear of control flow.
FireError(outcome) == outcome # "ok" /\ ~IsControlFlow(outcome)

\* klafi_node's wrapper: the before pipeline, the function (the only part whose
\* failures reach the on_error middlewares), the contract, the after pipeline.
NodeFunction(p) ==
  [outcome |-> IF p.before # "ok" THEN "error"
               ELSE IF p.body # "ok" THEN p.body
               ELSE IF CoerceOutput(p.fits) # "ok" THEN "error"
               ELSE p.after,
   onError |-> p.before = "ok" /\ FireError(p.body)]
=============================================================================
