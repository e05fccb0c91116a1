\* Every configuration of three aliases, two requests in a row.
SPECIFICATION Spec
CONSTANTS
  Aliases = {"a", "b", "c"}
  NoAlias = "none"
  Judge = "c"
  Chatless = {"b"}
  Texts = {"long", "short"}
  Short = {"short"}
  Retries = 1
  MaxRequests = 2
INVARIANTS
  AsksFollowTheChain
  OnlySafeTextsAreAsked
PROPERTIES
  BlocksAreFinal
  VerdictsAreAnswers
  RequestsEnd
\* The application need not ask anything more.
CHECK_DEADLOCK FALSE
