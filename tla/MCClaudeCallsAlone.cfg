SPECIFICATION Spec
CONSTANTS
  Tasks = {room1}
  Limit = 10
  Shares = {50, 90, 100}
  Responses <- MCResponses
  TokenPrice <- MCDearPrice
  SearchPrice = 9
  MaxContinuations = 1
  FailuresBeforeAlert = 2
  Backoff = 1
  MaxTime = 1
PROPERTY
  CallSitesCheckIn
CHECK_DEADLOCK FALSE
