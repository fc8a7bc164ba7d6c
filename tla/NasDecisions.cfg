CONSTANTS
  FAST_INTERVAL = 6
  FULL_INTERVAL = 24
  MaxCycle = 2
  MaxLate = 1
  Null = Null
  a1 = a1
  a2 = a2
  a3 = a3
  b1 = b1
  b2 = b2
  x = x
  Address <- MCAddress
  Net <- MCNet
  Rank <- MCRank
  Allowed <- MCAllowed
  WorkerAllowed <- MCAddress
  Seeds = {a1, x}
  CandidateTarget = 4
  Summaries <- MCSummaries
  PoolSize = 3
  MaxPer24 = 2
  MinPool = 2
  MaxPoolEntries = 16
  W = 3
  CidrLists <- MCCidrLists
  Offered = {{}, {0, 7}, {1, 2, 5}}
  Targets = {0, 1, 2}
  SampleSlack = 0
  ScanSlack = 0
SPECIFICATION Spec
INVARIANTS
  FullCyclesOnTime
  ProposalIsAccepted
  NoBetterLeftOut
  BetterScoresHigher
  CandidatesAreUsable
PROPERTIES
  PromotionChangesPool
CHECK_DEADLOCK FALSE
