CONSTANTS
  Process = {a, b}
  Null = Null
  MayOutlast = FALSE
  MaxFaults = 1
SPECIFICATION Spec
INVARIANTS
  CyclesDoNotOverlap
