CONSTANTS
  Addr = {1, 2, 3, 4, 5, 6, 7, 8}
  Null = Null
  Wild = Wild
  Sizes = {1}
  SizeMax = 63
  ByteLength = 8
  WrongCase = 6
  IncCount = 8
  Junk <- CleanMemory
  Spoil <- Spared
  MaxLen = 8
  Unresizable = {}
  Pick <- LowestFree

SPECIFICATION Spec

INVARIANTS
  HeldIsTracked

CHECK_DEADLOCK FALSE
