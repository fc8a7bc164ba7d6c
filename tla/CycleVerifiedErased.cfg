CONSTANTS
  r1 = r1
  r2 = r2
  r3 = r3
  p1 = p1
  p2 = p2
  Revision <- MCRevision
  Pool <- MCPool
  PoolOf <- MCPoolOf
  FormatAddTxt <- MCFormatAddTxt
  ManualText = {m1}
  Blank = Blank
  Null = Null
  Operator = FALSE
  MaxInFlight = 2
SPECIFICATION Spec
PROPERTIES
  VerifiedPoolNotErased
