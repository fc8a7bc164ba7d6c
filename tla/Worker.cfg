CONSTANTS
  V4 = 2
  V6 = 3
  Uuid = 2
  Hash = 5
  Salt = 2
  VarintBase = 4
  Samples <- MCSamples
  MaxSends = 3
  MaxParts = 2
  MaxMessages = 3
  MaxQueries = 2
  MaxBody = 2
  NoRemote = NoRemote
  MaxRequests = 3
  MaxLog = 2
  Missing = Missing
  Default = Default
SPECIFICATION Spec
INVARIANTS
  CutsDoNotMatter
  CiphertextDecrypts
  DnsAnswersReadable
  TunnelReleasesSockets
  KvWritesSurvive
PROPERTIES
  SessionsEnd
CHECK_DEADLOCK FALSE
