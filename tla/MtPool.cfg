CONSTANTS
  Callers = {c1, c2}
  Jobs = {j1, j2, j3, j4}
  Handle = Handle
  NoOne = NoOne
  Max = 1
  UintMax = 7
  SplitIncrement = FALSE
  CreateMayFail = TRUE
  MaxSpurious = 1

SPECIFICATION FairSpec

INVARIANTS
  SizeIsPresent
  BoundedOvershoot
  NoUseAfterFree

PROPERTIES
  DoReturnsUnlessFailed
  FreeReturns
  PoolSpec

CHECK_DEADLOCK FALSE
