\* One request at a time and no restart: the FIFO forgets what still waits.
SPECIFICATION Spec
CONSTANTS
  r1 = r1
  r2 = r2
  t1 = t1
  t2 = t2
  Requests = {r1}
  Threads <- MCThreads
  Sendable = {"invoke", "resume"}
  Capacity = 1
  MaxSends = 3
  MaxFailures = 0
  MaxRestarts = 0
INVARIANT RequestedOnce
CHECK_DEADLOCK FALSE
