CONSTANTS
  r1 = r1
  r2 = r2
  p1 = p1
  p2 = p2
  Revision <- MCRevision
  Pool <- MCPool
  PoolOf <- MCPoolOf
  FormatAddTxt <- MCFormatAddTxt
  ManualText = {m1}
  Blank = Blank
  Null = Null
  Never = Never
  Call = {c1, c2}
  KvMayFail = TRUE
SYMMETRY CallSymmetry
SPECIFICATION Spec
INVARIANTS
  LegacyOverrideSurvives
  AdminHasLastWord
  OverrideIsExplicit
  ReadsAreLinearizable
  MirroredCurrentResolves
  QuiescentMirror
