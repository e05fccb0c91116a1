------------------------------ MODULE Approval ------------------------------
(***************************************************************************)
(* Human approval (klafi/hitl/approval.py) as the HTTP server drives it     *)
(* (klafi/server/http.py: invoke, resume, resume_stream).                   *)
(*                                                                         *)
(* Every thread runs a graph of one node that calls request_approval and    *)
(* then, if approved, has its side effect.  LangGraph executes that node    *)
(* from its beginning again when the thread is resumed, so that the         *)
(* announcement of the request is deduplicated by _announced, a FIFO of the *)
(* process.  Nodes run in executor threads: two requests interleave between *)
(* any two operations on the FIFO.                                          *)
(***************************************************************************)
EXTENDS Naturals, SequencesExt

CONSTANTS
  Requests,      \* requests being served at the same time
  Threads,       \* conversation threads
  Sendable,      \* kinds of requests the clients send
  Capacity,      \* entries _announced holds (1024 in the code)
  MaxSends,      \* bound on the requests sent
  MaxFailures,   \* bound on the failures of the adapter and of nodes after their side effect
  MaxRestarts    \* bound on the restarts of the server

\* New input, no input, POST .../resume, and the Python API resume_approval.
Kinds == {"invoke", "rerun", "resume", "resume_approval"}

ASSUME ApprovalAssumption ==
  /\ IsFiniteSet(Requests)
  /\ Sendable \subseteq Kinds
  /\ Capacity \in Nat \ {0}
  /\ MaxSends \in Nat /\ MaxFailures \in Nat /\ MaxRestarts \in Nat

VARIABLES
  thread,     \* the latest checkpoint of each thread: number of its input, progress,
              \* decisions it was resumed with
  announced,  \* _announced, oldest entry first
  forgotten,  \* approval ids that were evicted from it or lost with the process
  run,        \* the request each server slot is handling
  pc,         \* where it is
  asked,      \* approval ids with an ApprovalRequested event
  unsaid,     \* approval ids that a restart cut off between their entry and that event
  pushed,     \* requests that reached the adapter, per approval id
  refused,    \* approval ids the adapter raised for
  decided,    \* approval ids with an ApprovalCompleted event
  effects,    \* side effects of approved nodes per approval id
  approvals,  \* approving decisions sent, per thread
  sent, failures, restarts

memory == <<announced, forgotten>>
history == <<asked, unsaid, pushed, refused, decided, effects>>
bounds == <<sent, failures, restarts>>
vars == <<thread, memory, run, pc, history, approvals, bounds>>

-----------------------------------------------------------------------------
(* approval_id is a digest of the task's place in the thread's history, the *)
(* action and the payload: the same for every execution of one task.        *)

Ids == Threads \X (1..MaxSends)
Id(r) == <<run[r].thread, run[r].task>>

Resumes(r) == run[r].kind \in {"resume", "resume_approval"}

Nobody == [kind |-> "none", thread |-> "none", task |-> 0, approved |-> FALSE,
           given |-> {}, victim |-> <<>>]

Goto(r, stage) == pc' = [pc EXCEPT ![r] = stage] /\ UNCHANGED run

\* The request is answered, with a result, 409 or 500.
Answer(r) == pc' = [pc EXCEPT ![r] = "idle"] /\ run' = [run EXCEPT ![r] = Nobody]

\* The node raised: the request is answered with its error, or a policy of the
\* agent retries it, passing None.
NodeRaises(r) ==
  \/ Answer(r)
  \/ pc' = [pc EXCEPT ![r] = "loading"]
     /\ run' = [run EXCEPT ![r] = [Nobody EXCEPT !.kind = "rerun", !.thread = run[r].thread]]

Init ==
  /\ thread = [t \in Threads |-> [task |-> 0, at |-> "empty", given |-> {}]]
  /\ announced = <<>> /\ forgotten = {}
  /\ run = [r \in Requests |-> Nobody]
  /\ pc = [r \in Requests |-> "idle"]
  /\ asked = {} /\ unsaid = {} /\ pushed = [i \in Ids |-> 0] /\ refused = {}
  /\ decided = {} /\ effects = [i \in Ids |-> 0]
  /\ approvals = [t \in Threads |-> 0]
  /\ sent = 0 /\ failures = 0 /\ restarts = 0

-----------------------------------------------------------------------------
(* The server and the graph's run.                                          *)

Send(r, kind, t, approved) ==
  /\ pc[r] = "idle" /\ kind \in Sendable /\ sent < MaxSends
  /\ sent' = sent + 1
  /\ run' = [run EXCEPT ![r] = [Nobody EXCEPT !.kind = kind, !.thread = t, !.approved = approved]]
  /\ approvals' = [approvals EXCEPT ![t] = IF approved THEN @ + 1 ELSE @]
  /\ pc' = [pc EXCEPT ![r] = IF kind = "resume" THEN "checking" ELSE "loading"]
  /\ UNCHANGED <<thread, memory, history, failures, restarts>>

\* Faulty variant: every thread may be resumed.
CheckPendingNot(r) ==
  /\ pc[r] = "checking"
  /\ Goto(r, "loading")
  /\ UNCHANGED <<thread, memory, history, approvals, bounds>>

\* _pending_interrupts: 409 unless the thread waits, or if it cannot be read.
CheckPending(r) ==
  /\ pc[r] = "checking"
  /\ \/ thread[run[r].thread].at = "pending" /\ Goto(r, "loading")
     \/ Answer(r)
  /\ UNCHANGED <<thread, memory, history, approvals, bounds>>

\* The graph executes its node for input k of thread t.  A decision is saved with
\* the checkpoint it was sent to: later executions of the task find it, too.
StartNode(r, t, k) ==
  LET old   == IF k = thread[t].task THEN thread[t]
               ELSE [task |-> k, at |-> "todo", given |-> {}]
      given == old.given \cup IF Resumes(r) THEN {run[r].approved} ELSE {}
  IN  /\ run' = [run EXCEPT ![r] = [@ EXCEPT !.task = k, !.given = given]]
      /\ thread' = [thread EXCEPT ![t] = [old EXCEPT !.given = given]]
      /\ pc' = [pc EXCEPT ![r] = "asking"]

\* LangGraph loads the thread.  New input opens a task of its own, and so does a
\* resume of a thread that does not exist; else the open task is executed;
\* there is nothing to do on a finished one.
Load(r) ==
  LET t == run[r].thread  open == thread[t].at \in {"todo", "pending"}  IN
  /\ pc[r] = "loading"
  /\ \/ /\ run[r].kind = "invoke" \/ (Resumes(r) /\ thread[t].at = "empty")
        /\ StartNode(r, t, thread[t].task + 1)
     \/ /\ run[r].kind # "invoke" /\ open
        /\ StartNode(r, t, thread[t].task)
     \/ /\ run[r].kind # "invoke" /\ ~open /\ ~(Resumes(r) /\ thread[t].at = "empty")
        /\ Answer(r) /\ UNCHANGED thread
  /\ UNCHANGED <<memory, history, approvals, bounds>>

-----------------------------------------------------------------------------
(* request_approval.                                                        *)

Announced == {announced[n] : n \in 1..Len(announced)}

\* Faulty variant: a node that has its decision at hand announces nothing.
AskingUnlessResumed(r) ==
  /\ pc[r] = "asking"
  /\ Goto(r, IF Resumes(r) \/ Id(r) \in Announced THEN "interrupting" ELSE "room")
  /\ UNCHANGED <<thread, memory, history, approvals, bounds>>

\* if approval_id not in _announced
Asking(r) ==
  /\ pc[r] = "asking"
  /\ Goto(r, IF Id(r) \in Announced THEN "interrupting" ELSE "room")
  /\ UNCHANGED <<thread, memory, history, approvals, bounds>>

\* Faulty variant: room is made one entry too late.
MakeRoomLate(r) ==
  /\ pc[r] = "room"
  /\ \/ /\ Len(announced) > Capacity
        /\ run' = [run EXCEPT ![r].victim = Head(announced)]
        /\ pc' = [pc EXCEPT ![r] = "evicting"]
     \/ Len(announced) <= Capacity /\ Goto(r, "marking")
  /\ UNCHANGED <<thread, memory, history, approvals, bounds>>

\* A full FIFO: next(iter(_announced)) is the victim.
MakeRoom(r) ==
  /\ pc[r] = "room"
  /\ \/ /\ Len(announced) >= Capacity
        /\ run' = [run EXCEPT ![r].victim = Head(announced)]
        /\ pc' = [pc EXCEPT ![r] = "evicting"]
     \/ Len(announced) < Capacity /\ Goto(r, "marking")
  /\ UNCHANGED <<thread, memory, history, approvals, bounds>>

\* _announced.pop(victim): a KeyError fails the node if another request was faster.
Evict(r) ==
  /\ pc[r] = "evicting"
  /\ \/ /\ \E n \in 1..Len(announced) :
             announced[n] = run[r].victim /\ announced' = RemoveAt(announced, n)
        /\ forgotten' = forgotten \cup {run[r].victim}
        /\ pc' = [pc EXCEPT ![r] = "marking"] /\ run' = [run EXCEPT ![r].victim = <<>>]
     \/ run[r].victim \notin Announced /\ NodeRaises(r) /\ UNCHANGED memory
  /\ UNCHANGED <<thread, history, approvals, bounds>>

\* Faulty variant: the entry is not made.
MarkNothing(r) ==
  /\ pc[r] = "marking"
  /\ Goto(r, "announcing")
  /\ UNCHANGED <<thread, memory, history, approvals, bounds>>

\* The entry is made: from here on other executions of the task say nothing ...
Mark(r) ==
  /\ pc[r] = "marking"
  /\ announced' = IF Id(r) \in Announced THEN announced ELSE Append(announced, Id(r))
  /\ Goto(r, "announcing")
  /\ UNCHANGED <<thread, forgotten, history, approvals, bounds>>

\* Faulty variant: an announcement without the adapter.
AnnounceOnly(r) ==
  /\ pc[r] = "announcing"
  /\ asked' = asked \cup {Id(r)}
  /\ Goto(r, "interrupting")
  /\ UNCHANGED <<thread, memory, unsaid, pushed, refused, decided, effects, approvals, bounds>>

\* ... the audit line is written and the event emitted (no subscriber can fail it) ...
Announce(r) ==
  /\ pc[r] = "announcing"
  /\ asked' = asked \cup {Id(r)}
  /\ Goto(r, "pushing")
  /\ UNCHANGED <<thread, memory, unsaid, pushed, refused, decided, effects, approvals, bounds>>

\* ... and the request handed to the adapter, whose failure fails the node.
Push(r) ==
  /\ pc[r] = "pushing"
  /\ \/ pushed' = [pushed EXCEPT ![Id(r)] = @ + 1] /\ Goto(r, "interrupting")
        /\ UNCHANGED <<refused, failures>>
     \/ failures < MaxFailures /\ failures' = failures + 1
        /\ refused' = refused \cup {Id(r)} /\ NodeRaises(r) /\ UNCHANGED pushed
  /\ UNCHANGED <<thread, memory, asked, unsaid, decided, effects, approvals, sent, restarts>>

\* interrupt(): without a decision the run stops and its checkpoint, if it still
\* is the thread's latest, waits.
Interrupt(r) ==
  LET t == run[r].thread IN
  /\ pc[r] = "interrupting" /\ run[r].given = {}
  /\ thread' = [thread EXCEPT ![t].at =
                  IF thread[t].task = run[r].task /\ @ = "todo" THEN "pending" ELSE @]
  /\ Answer(r)
  /\ UNCHANGED <<memory, history, approvals, bounds>>

\* Faulty variant: the decision is not looked at.
DecideYes(r) ==
  /\ pc[r] = "interrupting" /\ run[r].given # {}
  /\ decided' = decided \cup {Id(r)}
  /\ Goto(r, "acting")
  /\ UNCHANGED <<thread, memory, asked, unsaid, pushed, refused, effects, approvals, bounds>>

\* With one it returns: the decision is audited, ApprovalCompleted emitted.
Decide(r) ==
  /\ pc[r] = "interrupting"
  /\ \E approved \in run[r].given : Goto(r, IF approved THEN "acting" ELSE "saving")
  /\ decided' = decided \cup {Id(r)}
  /\ UNCHANGED <<thread, memory, asked, unsaid, pushed, refused, effects, approvals, bounds>>

\* What the node does with an approval.
Act(r) ==
  /\ pc[r] = "acting"
  /\ effects' = [effects EXCEPT ![Id(r)] = @ + 1]
  /\ Goto(r, "saving")
  /\ UNCHANGED <<thread, memory, asked, unsaid, pushed, refused, decided, approvals, bounds>>

\* The node fails after its side effect, before anything of it is saved.
Fail(r) ==
  /\ pc[r] = "saving" /\ failures < MaxFailures
  /\ failures' = failures + 1
  /\ NodeRaises(r)
  /\ UNCHANGED <<thread, memory, history, approvals, sent, restarts>>

\* The run ends: its checkpoint becomes the latest of the thread.
Save(r) ==
  /\ pc[r] = "saving"
  /\ thread' = [thread EXCEPT ![run[r].thread] = [@ EXCEPT !.at = "done", !.given = {}]]
  /\ Answer(r)
  /\ UNCHANGED <<memory, history, approvals, bounds>>

\* The requests that have made their entry and not emitted their event yet.
Announcing == {r \in Requests : pc[r] = "announcing"}

\* The server is restarted: _announced and the runs are gone, the threads stay.
Restart ==
  /\ restarts < MaxRestarts
  /\ restarts' = restarts + 1
  /\ announced' = <<>> /\ forgotten' = forgotten \cup Announced
  /\ run' = [r \in Requests |-> Nobody]
  /\ pc' = [r \in Requests |-> "idle"]
  /\ unsaid' = unsaid \cup {Id(r) : r \in Announcing}
  /\ UNCHANGED <<thread, asked, pushed, refused, decided, effects, approvals, sent, failures>>

Step(r) ==
  \/ CheckPending(r)
  \/ Load(r)
  \/ Asking(r)
  \/ MakeRoom(r)
  \/ Evict(r)
  \/ Mark(r)
  \/ Announce(r)
  \/ Push(r)
  \/ Interrupt(r)
  \/ Decide(r)
  \/ Act(r)
  \/ Fail(r)
  \/ Save(r)

Next ==
  \/ \E r \in Requests :
       \/ \E kind \in Kinds, t \in Threads, approved \in BOOLEAN :
            (approved => kind \in {"resume", "resume_approval"}) /\ Send(r, kind, t, approved)
       \/ Step(r)
  \/ Restart

Spec == Init /\ [][Next]_vars

-----------------------------------------------------------------------------
(* Properties.                                                             *)

Stages == {"idle", "checking", "loading", "asking", "room", "evicting", "marking",
           "announcing", "pushing", "interrupting", "acting", "saving"}

\* Types; the FIFO has no duplicates, and no more entries than its capacity and
\* the requests that can find it almost full at the same time allow.
TypeOK ==
  /\ thread \in [Threads -> [task : 0..MaxSends, at : {"empty", "todo", "pending", "done"},
                         given : SUBSET BOOLEAN]]
  /\ announced \in Seq(Ids)
  /\ \A m, n \in 1..Len(announced) : announced[m] = announced[n] => m = n
  /\ Len(announced) <= Capacity + Cardinality(Requests) - 1
  /\ \A r \in Requests :
       /\ pc[r] \in Stages
       /\ pc[r] \notin {"idle", "checking", "loading"} => Id(r) \in Ids
       /\ pc[r] = "evicting" => run[r].victim \in Ids
  /\ forgotten \subseteq Ids /\ asked \subseteq Ids /\ unsaid \subseteq Ids
  /\ refused \subseteq asked /\ decided \subseteq Ids
  /\ pushed \in [Ids -> Nat] /\ effects \in [Ids -> Nat]

\* Every ApprovalCompleted event and audit line names a request that was made
\* under the same approval id, even when the node was executed anew after the
\* decision, on another execution, after an eviction or a restart.  It comes ahead
\* of the request's own event only while the execution that made the entry is
\* about to emit that event, and without it only if a restart came in between:
\* an execution that finds the entry does not wait for what it stands for.
DecisionsHaveRequests ==
  \A i \in decided \ asked : i \in unsaid \/ \E r \in Announcing : Id(r) = i

\* An approving decision is good for the side effect of one task only, whatever
\* fails, is retried, resumed twice or restarted; and a rejection for none.
OneTaskPerApproval ==
  \A t \in Threads :
    Cardinality({k \in 1..MaxSends : effects[<<t, k>>] > 0}) <= approvals[t]

\* Without a restart, a request that a thread waits for was handed to the
\* adapter, or is being handed to it, or the adapter refused it.
WaitingWasPushed ==
  restarts = 0 =>
    \A t \in Threads :
      LET i == <<t, thread[t].task>> IN
      thread[t].at = "pending" =>
        \/ pushed[i] > 0
        \/ i \in refused
        \/ \E r \in Requests : pc[r] \in {"announcing", "pushing"} /\ Id(r) = i

\* As long as the process has not forgotten a request, its resumes, retries and
\* reruns do not hand it to the adapter again: only those may, once each, that
\* are served at the same time and looked before it was remembered.
RepeatsOnlyIfForgotten ==
  \A i \in Ids : pushed[i] > Cardinality(Requests) => i \in forgotten

\* POST .../resume never starts a thread that does not exist (http.py:214), not
\* even when other requests come between its check and its run.
UnknownThreadsNotStarted ==
  [][\A t \in Threads : thread[t].at = "empty" /\ thread'[t].at # "empty" =>
       \E r \in Requests : pc[r] = "loading" /\ pc'[r] = "asking"
                           /\ run[r].thread = t /\ run[r].kind # "resume"]_vars

\* approval.py:92 says that the effects of a request happen once per id.
\* Violated by an eviction or a restart before the decision comes.
RequestedOnce == \A i \in Ids : pushed[i] <= 1

\* http.py:214 says that a resume of a thread without a pending approval is
\* stopped by a 409, so that no node runs by it.  Violated when the thread moves on
\* between the check and the run: the decision then approves what nobody asked for.
ResumesFindPending ==
  [][\A r \in Requests :
       run[r].kind = "resume" /\ pc[r] = "loading" /\ pc'[r] = "asking" =>
         thread[run[r].thread].at = "pending"]_vars

=============================================================================
