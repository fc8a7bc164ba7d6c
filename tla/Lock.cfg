CONSTANTS
  Process = {a, b, c}
  Null = Null
  MayOutlast = TRUE
  MaxFaults = 2
SPECIFICATION FairSpec
INVARIANTS
  MutualExclusion
  ReleasesCleanly
PROPERTIES
  StaleLockRecovered
