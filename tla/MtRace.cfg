CONSTANTS
  Callers = {c1}
  Jobs = {j1, j2, j3, j4}
  Handle = Handle
  NoOne = NoOne
  Max = 2
  UintMax = 7
  SplitIncrement = TRUE
  CreateMayFail = TRUE
  MaxSpurious = 2

SPECIFICATION Spec
SYMMETRY Symmetry

INVARIANTS
  TypeOK
  NoLostWakeup

CHECK_DEADLOCK FALSE
