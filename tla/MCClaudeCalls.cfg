SPECIFICATION FairSpec
CONSTANTS
  Tasks = {room1, room2}
  Limit = 10
  Shares = {50, 90, 100}
  Responses <- MCResponses
  TokenPrice <- MCTokenPrice
  SearchPrice = 5
  MaxContinuations = 1
  FailuresBeforeAlert = 2
  Backoff = 1
  MaxTime = 2
INVARIANTS
  TypeOK
  OverrunBounded
  SpendAlertsTell
  FailureAlertsPaired
PROPERTIES
  PauseNeverShortened
  CallsEnd
CHECK_DEADLOCK FALSE
