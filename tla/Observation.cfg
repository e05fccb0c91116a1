\* Two calls in two executions, and room for one run.
SPECIFICATION Spec
CONSTANTS
  c1 = c1
  c2 = c2
  e1 = e1
  e2 = e2
  Calls <- MCCalls
  Executions <- MCExecutions
  Capacity = 1
  NoCall = NoCall
  GlobalHooks <- MCGlobalHooks
  Observed = TRUE
  PlatformHooks <- MCPlatformHooks
  Plan <- MCPlan
  ExtraHooks <- MCExtraHooks
  Priority <- MCPriority
  Disabled = {"off"}
  NoHook = NoHook
SYMMETRY Symmetry
CONSTRAINT
  BystandersBegin
  FailuresGoOn
INVARIANTS
  TypeOK
  CallsAreRecorded
  TimesAreOwn
  TokensAreCounted
  SpansAreClosed
  EndsAreTold
  RunsTellTheEnd
\* Executions end.
CHECK_DEADLOCK FALSE
