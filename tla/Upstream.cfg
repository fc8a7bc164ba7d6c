CONSTANTS
  MaxData = 1
  MaxRounds = 6
  MaxAttempts = 2
  MaxNoise = 2
  Wrap = 4
  MaxIn = 3
  MaxOut = 2
  MaxAgain = 1
SPECIFICATION Spec
INVARIANTS
  FailsOnlyForCause
  EarlyBytesKept
  SstpStreamIntact
PROPERTIES
  ImplementsConnector
  AttemptSettles
CHECK_DEADLOCK FALSE
