CONSTANTS
  Attempt = {a1, a2}
  MaxChunks = 2
  MaxReplies = 2
  NoSocket = NoSocket
SYMMETRY AttemptSymmetry
SPECIFICATION Spec
INVARIANTS
  OneRemoteAnswers
  NoSocketForgotten
  RequestReachesRemote
  VerdictIsTrue
CHECK_DEADLOCK FALSE
