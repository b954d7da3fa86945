CONSTANTS
  Callers = {c1}
  Jobs = {j1, j2}
  Handle = Handle
  NoOne = NoOne
  Max = 2
  UintMax = 7
  SplitIncrement = TRUE
  CreateMayFail = FALSE
  MaxSpurious = 0

SPECIFICATION FairSpec

PROPERTIES
  FreeReturns

CHECK_DEADLOCK FALSE
