---------------------------- MODULE McpSessions -----------------------------
(***************************************************************************)
(* The sessions with MCP servers (klafi/tool/mcp.py): connect_mcp opens    *)
(* one session after the other on a thread of its own with an event loop,  *)
(* tools call their servers through that loop from any thread, and close() *)
(* ends the sessions and the loop.                                         *)
(*                                                                         *)
(* A session lives in one task on the loop (hold), from entering its       *)
(* context manager to leaving it.  The threads that wait for the loop do   *)
(* so with or without a timeout; what they wait for goes on after it.      *)
(***************************************************************************)
EXTENDS Naturals, FiniteSets, Sequences

CONSTANTS
  Servers,  \* the servers of mcp.yaml, in order
  Timed,    \* those with a timeout for their tools
  Callers   \* the threads that call tools; one has one call at a time

ServerSet == {Servers[i]: i \in DOMAIN Servers}

ASSUME McpAssumption == IsFiniteSet(Callers) /\ Timed \subseteq ServerSet

VARIABLES
  boot,      \* connect_mcp: its stage, and the server it is at
  session,   \* server -> what the task that holds its session does
  handles,   \* the servers whose handle connect_mcp, then McpTools, has
  tools,     \* the servers whose tools were loaded
  stopping,  \* the servers whose stop event is set
  closer,    \* close(): its stage, and the server it is at
  gaveUp,    \* the servers close() did not wait for any longer
  loop,      \* the event loop's thread
  call       \* caller -> its tool call

mcpVars == <<boot, session, handles, tools, stopping, closer, gaveUp, loop, call>>

NoCall == [stage |-> "idle", server |-> Servers[1]]

McpInit ==
  /\ boot = [stage |-> "none", at |-> 1]
  /\ session = [s \in ServerSet |-> "none"]
  /\ handles = {}
  /\ tools = {}
  /\ stopping = {}
  /\ closer = [stage |-> "none", at |-> 1]
  /\ gaveUp = {}
  /\ loop = "none"
  /\ call = [c \in Callers |-> NoCall]

HoldTo(s, state) == session' = [session EXCEPT ![s] = state]

-----------------------------------------------------------------------------
(* connect_mcp.                                                            *)

BootAt(stage, s) == boot.stage = stage /\ s = Servers[boot.at]

\* The configuration is wrong, or the library is missing: nothing was begun.
BootRefused ==
  /\ boot.stage = "none"
  /\ boot' = [boot EXCEPT !.stage = "failed"]
  /\ UNCHANGED <<session, handles, tools, stopping, closer, gaveUp, loop, call>>

\* The loop's thread is started, and open_session starts the first task.
BootBegin ==
  /\ boot.stage = "none"
  /\ boot' = [boot EXCEPT !.stage = "opening"]
  /\ loop' = "running"
  /\ HoldTo(Servers[1], "opening")
  /\ UNCHANGED <<handles, tools, stopping, closer, gaveUp, call>>

\* The task has entered the session: connect_mcp gets its handle, and asks for
\* the tools.
BootGets(s) ==
  /\ BootAt("opening", s)
  /\ session[s] # "opening" /\ session[s] # "failed"
  /\ boot' = [boot EXCEPT !.stage = "loading"]
  /\ handles' = handles \cup {s}
  /\ UNCHANGED <<session, tools, stopping, closer, gaveUp, loop, call>>

\* The session could not be entered, or not within the timeout: connect_mcp
\* raises.  Nothing is closed, and a task that is still entering goes on.
BootLoses(s) ==
  /\ BootAt("opening", s)
  /\ session[s] \in {"opening", "failed"}
  /\ boot' = [boot EXCEPT !.stage = "failed"]
  /\ UNCHANGED <<session, handles, tools, stopping, closer, gaveUp, loop, call>>

\* The tools are loaded, and connect_mcp opens the next session or is done.
BootLoads(s) ==
  /\ BootAt("loading", s)
  /\ session[s] = "open"
  /\ tools' = tools \cup {s}
  /\ IF boot.at = Len(Servers)
     THEN boot' = [boot EXCEPT !.stage = "done"] /\ UNCHANGED session
     ELSE /\ boot' = [stage |-> "opening", at |-> boot.at + 1]
          /\ HoldTo(Servers[boot.at + 1], "opening")
  /\ UNCHANGED <<handles, stopping, closer, gaveUp, loop, call>>

\* The tools cannot be loaded, or not within the timeout: connect_mcp raises.
BootLoadFails(s) ==
  /\ BootAt("loading", s)
  /\ boot' = [boot EXCEPT !.stage = "failed"]
  /\ UNCHANGED <<session, handles, tools, stopping, closer, gaveUp, loop, call>>

-----------------------------------------------------------------------------
(* The tasks on the loop.                                                  *)

\* hold(): the session is entered, or not; it is left when the stop event is set
\* or the connection is lost, with or without an error.
Hold(s) ==
  /\ loop = "running"
  /\ \/ session[s] = "opening" /\ (HoldTo(s, "open") \/ HoldTo(s, "failed"))
     \/ session[s] = "open" /\ HoldTo(s, "broken")
     \/ session[s] = "open" /\ s \in stopping /\ HoldTo(s, "closed")
  /\ UNCHANGED <<boot, handles, tools, stopping, closer, gaveUp, loop, call>>

-----------------------------------------------------------------------------
(* McpTools.close.                                                         *)

CloseAt(stage, s) == closer.stage = stage /\ s = Servers[closer.at]

\* close() goes to the next server, or stops the loop after the last one.
CloseOn ==
  IF closer.at = Len(Servers)
  THEN /\ closer' = [closer EXCEPT !.stage = "stopped"]
       /\ handles' = {}
       /\ loop' = "stopped"
  ELSE /\ closer' = [stage |-> "asking", at |-> closer.at + 1]
       /\ UNCHANGED <<handles, loop>>

\* connect_mcp has handed out its McpTools.
CloseBegin ==
  /\ boot.stage = "done" /\ closer.stage = "none"
  /\ closer' = [closer EXCEPT !.stage = "asking"]
  /\ UNCHANGED <<boot, session, handles, tools, stopping, gaveUp, loop, call>>

\* close_session: the task is told to stop, and waited for.
CloseAsks(s) ==
  /\ CloseAt("asking", s)
  /\ stopping' = stopping \cup {s}
  /\ closer' = [closer EXCEPT !.stage = "waiting"]
  /\ UNCHANGED <<boot, session, handles, tools, gaveUp, loop, call>>

\* Faulty variant: an error of a task ends close().
CloseGetsUncaught(s) ==
  /\ CloseAt("waiting", s)
  /\ session[s] \in {"closed", "broken"}
  /\ IF session[s] = "broken"
     THEN closer' = [closer EXCEPT !.stage = "raised"] /\ UNCHANGED <<handles, loop>>
     ELSE CloseOn
  /\ UNCHANGED <<boot, session, tools, stopping, gaveUp, call>>

\* The task has ended; an error of it is logged.
CloseGets(s) ==
  /\ CloseAt("waiting", s)
  /\ session[s] \in {"closed", "broken"}
  /\ CloseOn
  /\ UNCHANGED <<boot, session, tools, stopping, gaveUp, call>>

\* The task has not ended within the timeout: that is logged too.
CloseGivesUp(s) ==
  /\ CloseAt("waiting", s)
  /\ session[s] = "open"
  /\ gaveUp' = gaveUp \cup {s}
  /\ CloseOn
  /\ UNCHANGED <<boot, session, tools, stopping, call>>

-----------------------------------------------------------------------------
(* Calls of tools: Tool.run, with loop.run as the runner.                  *)

CallTo(c, stage) ==
  /\ call' = [call EXCEPT ![c].stage = stage]
  /\ UNCHANGED <<boot, session, handles, tools, stopping, closer, gaveUp, loop>>

CallBegin(c, s) ==
  /\ boot.stage = "done" /\ s \in tools
  /\ call[c].stage = "idle"
  /\ call' = [call EXCEPT ![c] = [stage |-> "waiting", server |-> s]]
  /\ UNCHANGED <<boot, session, handles, tools, stopping, closer, gaveUp, loop>>

\* The call ends on the loop, with a result or an error, whether somebody still
\* waits for it or not.
CallEnds(c) ==
  /\ call[c].stage \in {"waiting", "abandoned"}
  /\ loop = "running"
  /\ CallTo(c, "idle")

\* The tool's timeout ends the wait, and not the call.
CallGivesUp(c) ==
  /\ call[c].stage = "waiting" /\ call[c].server \in Timed
  /\ CallTo(c, "abandoned")

-----------------------------------------------------------------------------
BootStep(s) == BootGets(s) \/ BootLoses(s) \/ BootLoads(s) \/ BootLoadFails(s)
CloseStep(s) == CloseAsks(s) \/ CloseGets(s) \/ CloseGivesUp(s)

McpNext ==
  \/ BootRefused \/ BootBegin \/ CloseBegin
  \/ \E s \in ServerSet: BootStep(s) \/ Hold(s) \/ CloseStep(s)
  \/ \E c \in Callers:
       \/ \E s \in ServerSet: CallBegin(c, s)
       \/ CallEnds(c) \/ CallGivesUp(c)

-----------------------------------------------------------------------------
(* Properties.                                                             *)

\* A thread that waits for the loop gets back although a server hangs: boot ends
\* within its timeouts, a timed call is waited for no longer than that, and
\* close() ends the loop, having seen every session end or given it up, whatever
\* went wrong with the sessions before it.
WaitsEnd ==
  /\ boot.stage \in {"opening", "loading"} ~> boot.stage \in {"done", "failed"}
  /\ closer.stage # "none" ~>
       /\ loop = "stopped"
       /\ \A s \in ServerSet: session[s] \in {"closed", "broken"} \/ s \in gaveUp
  /\ \A c \in Callers:
       (call[c].stage = "waiting" /\ call[c].server \in Timed) ~> call[c].stage # "waiting"
=============================================================================
