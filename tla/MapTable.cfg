CONSTANTS
  k1 = k1
  k2 = k2
  k3 = k3
  k4 = k4
  Key = {k1, k2, k3, k4}
  EmptyKey = k4
  Data = {1, 2}
  Null = Null
  Hash <- SomeHash
  InitialSize = 4
  MaxChain = 2
  FullCode = 8
  MaxTable = 32
  MallocMayFail = TRUE
  Junk <- CleanMemory
  Clients = {"overwriter", "remover"}

SPECIFICATION Spec

INVARIANTS
  ReadYourPut
  Reachable
  SizeIsKeys

PROPERTIES
  PutReturns
  DictSpec

CHECK_DEADLOCK FALSE
