\* Two requests at a time, one entry in the FIFO, a restart.
SPECIFICATION Spec
CONSTANTS
  r1 = r1
  r2 = r2
  t1 = t1
  t2 = t2
  Requests <- MCRequests
  Threads <- MCThreads
  Sendable = {"invoke", "rerun", "resume", "resume_approval"}
  Capacity = 1
  MaxSends = 3
  MaxFailures = 1
  MaxRestarts = 1
SYMMETRY Symmetry
INVARIANTS
  TypeOK
  DecisionsHaveRequests
  OneTaskPerApproval
  WaitingWasPushed
  RepeatsOnlyIfForgotten
PROPERTY
  UnknownThreadsNotStarted
\* Clients need not send anything more.
CHECK_DEADLOCK FALSE
