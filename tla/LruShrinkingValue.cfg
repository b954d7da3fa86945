CONSTANTS
  k1 = k1
  k2 = k2
  k3 = k3
  k4 = k4
  Key = {k1, k2, k3, k4}
  Value = {1, 2}
  Lengths = {1, 2}
  MaxItems = 4
  Null = Null
  HashSize = 2
  Hash <- SomeHash
  TotalMemory = 7
  Word = 16
  Memories <- OnlyZeroed
  Clients = {"any"}

SPECIFICATION Spec

PROPERTIES
  SetReturns

CHECK_DEADLOCK FALSE
