CONSTANTS
  k1 = k1
  k2 = k2
  k3 = k3
  k4 = k4
  Key = {k1, k2, k3, k4}
  Value = {1, 2}
  Lengths = {2}
  MaxItems = 3
  Null = Null
  HashSize = 2
  Hash <- SomeHash
  TotalMemory = 5
  Word = 16
  Memories <- ZeroedOrNot
  Clients = {"careful", "any"}

SPECIFICATION Spec

INVARIANTS
  ListsPartition
  MemoryBalanced

PROPERTIES
  CarefulSetReturns
  CacheSpec

CHECK_DEADLOCK FALSE
