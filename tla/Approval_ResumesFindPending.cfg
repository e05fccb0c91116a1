\* A resume over HTTP and another request, and no restart.
SPECIFICATION Spec
CONSTANTS
  r1 = r1
  r2 = r2
  t1 = t1
  t2 = t2
  Requests <- MCRequests
  Threads <- MCThreads
  Sendable = {"invoke", "resume"}
  Capacity = 1
  MaxSends = 3
  MaxFailures = 0
  MaxRestarts = 0
PROPERTY ResumesFindPending
CHECK_DEADLOCK FALSE
