CONSTANTS
  Addr = {1, 2, 3, 4}
  Null = Null
  Wild = Wild
  Sizes = {1, 3}
  SizeMax = 63
  ByteLength = 8
  WrongCase = 6
  IncCount = 8
  Junk <- CleanMemory
  Spoil <- Spared
  MaxLen = 8
  Unresizable = {}
  Pick <- AnyFree

SPECIFICATION Spec

INVARIANTS
  HeldIsTracked

PROPERTIES
  HeapSpec

CHECK_DEADLOCK FALSE
