SPECIFICATION FairSpec
CONSTANTS
  AttemptLimits = {0, 1, 3}
  BaseDelay = 3
  MaxDelay = 4
  Multiplier = 2
  Jitter = TRUE
  Limit = 2
  Lag = 1
CHECK_DEADLOCK FALSE
INVARIANTS
  IInv
  ResultIsTheLastAttempts
  TimeoutsAreGenuine
  BackoffIsInRange
  TheCallIsBounded
PROPERTIES
  TheCallReturns
