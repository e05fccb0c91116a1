\* Two nodes, up to two retries, every API, policy and thread.
SPECIFICATION FairSpec
CONSTANTS
  NodeCount = 2
  MaxRetries = 2
INVARIANTS
  TypeOK
  OneAttemptAtATime
  NoWorkAfterTheAnswer
  WaitingIsReported
  TraceIsTruthful
  CancellationIsNoError
PROPERTIES
  ProgressKept
  TimeoutBoundsExecution
\* An execution ends.
CHECK_DEADLOCK FALSE
