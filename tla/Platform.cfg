\* Two MCP servers, one with a timeout for its tools, and one thread that calls
\* tools; two agents, two registrations, two operators.
SPECIFICATION FairSpec
CONSTANTS
  a1 = a1
  a2 = a2
  s1 = s1
  s2 = s2
  Servers <- MCServers
  Timed = {s2}
  Callers = {c1}
  Agents = {a1, a2}
  Versions = {1, 2}
  UsesMcp = {a2}
  Operators = {o1, o2}
  Keys = {"policy", "timeout", "concurrency"}
  Empty = Empty
  LayerChoices <- MCLayerChoices
  OwnChoices <- MCOwnChoices
  MaxRegistrations = 2
CONSTRAINT
  Apart
INVARIANTS
  ServedAreGoverned
  ProductionWasApproved
PROPERTIES
  WaitsEnd
\* Everything that was asked for is done.
CHECK_DEADLOCK FALSE
