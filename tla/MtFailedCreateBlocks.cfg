CONSTANTS
  Callers = {c1, c2}
  Jobs = {j1, j2, j3}
  Handle = Handle
  NoOne = NoOne
  Max = 1
  UintMax = 7
  SplitIncrement = FALSE
  CreateMayFail = TRUE
  MaxSpurious = 0

SPECIFICATION FairSpec

PROPERTIES
  DoReturns

CHECK_DEADLOCK FALSE
