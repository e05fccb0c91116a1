SPECIFICATION Spec
CONSTANTS
  NodeCount = 2
  MaxRetries = 1
INVARIANT ClosingIsNoError
\* An execution ends.
CHECK_DEADLOCK FALSE
