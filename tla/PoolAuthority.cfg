CONSTANTS
  r1 = r1
  r2 = r2
  r3 = r3
  p1 = p1
  p2 = p2
  Revision <- MCRevision
  Pool <- MCPool
  PoolOf <- MCPoolOf
  FormatAddTxt <- MCFormatAddTxt
  ManualText = {m1, m2}
  Blank = Blank
  Null = Null
SPECIFICATION Spec
INVARIANTS
  TypeOK
  RollbackTargetStored
  ServedTextIsCurrentPool
PROPERTIES
  OverrideShieldsReaders
  ClearedOverrideStaysCleared
  ImplementsRegister
