\* Threads of five messages, of which one offends and one is important.
CONSTANTS
  Keeps = {0, 1, 2}
  MaxTokens = 2
  MaxMessages = 5
  MaxBad = 1
  MaxImportant = 1

SPECIFICATION Spec

CONSTRAINT
  StreamsAreShort

INVARIANTS
  AskedWasLookedAt
  OffencesAreHandled
  PairsStayTogether
  ViewsAreComplete
  StreamsShowWhatWasKept

\* Nobody need say anything more.
CHECK_DEADLOCK FALSE
