CONSTANTS
  MaxData = 0
  MaxRounds = 6
  MaxAttempts = 2
  MaxNoise = 0
  Wrap = 4
  MaxIn = 2
  MaxOut = 1
  MaxAgain = 1
SPECIFICATION Spec
INVARIANTS
  TcpDeliversOnce
CHECK_DEADLOCK FALSE
