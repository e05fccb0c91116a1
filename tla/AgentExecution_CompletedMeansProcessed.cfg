SPECIFICATION Spec
CONSTANTS
  NodeCount = 2
  MaxRetries = 1
INVARIANT CompletedMeansProcessed
\* An execution ends.
CHECK_DEADLOCK FALSE
