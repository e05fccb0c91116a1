SPECIFICATION Spec
CONSTANTS
  NodeCount = 2
  MaxRetries = 1
INVARIANT TimeoutCancels
\* An execution ends.
CHECK_DEADLOCK FALSE
