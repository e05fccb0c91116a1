------------------------------ MODULE Platform ------------------------------
(***************************************************************************)
(* The platform as its bootstrap assembles it                              *)
(* (examples/support_platform/common): the application registers agents,   *)
(* and the package of an agent that uses MCP tools imports the module that *)
(* calls connect_mcp, once, and goes on without tools when that fails.     *)
(***************************************************************************)
EXTENDS McpSessions, ControlPlane

CONSTANT UsesMcp  \* the agents whose package imports the MCP tools

ASSUME PlatformAssumption == UsesMcp \subseteq Agents

vars == <<mcpVars, controlVars>>

Init == McpInit /\ ControlInit

Connected == boot.stage \in {"done", "failed"}
Connecting == boot.stage \in {"opening", "loading"}

\* register_package: one agent after the other, on the thread that connects; and
\* there are those that are made and served without the application.
RegisterNext ==
  \E a \in Agents, v \in Versions:
    /\ ~Connecting
    /\ a \in UsesMcp => Connected
    /\ RegisterBegin(a, v) \/ ServeDirectly(a, v)

\* connect_mcp is called by the bootstrap, ahead of the registration.
Mcp == McpNext /\ (boot.stage = "none" => registrar.stage = "idle")

Control == RegisterNext \/ (~Connecting /\ Register) \/ Transition

Next ==
  \/ Mcp /\ UNCHANGED controlVars
  \/ Control /\ UNCHANGED mcpVars

Spec == Init /\ [][Next]_vars

\* The threads that boot, close and call run on, and so do timeouts; nothing is
\* assumed of the servers and of what runs on the loop.
Fairness ==
  /\ \A s \in ServerSet: WF_vars(BootStep(s) /\ UNCHANGED controlVars)
  /\ \A s \in ServerSet: WF_vars(CloseStep(s) /\ UNCHANGED controlVars)
  /\ \A c \in Callers: WF_vars(CallGivesUp(c) /\ UNCHANGED controlVars)

FairSpec == Spec /\ Fairness
=============================================================================
