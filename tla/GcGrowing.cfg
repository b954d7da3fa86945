CONSTANTS
  Addr = {1, 2, 3, 4, 5}
  Null = Null
  Wild = Wild
  Sizes = {1}
  SizeMax = 63
  ByteLength = 2
  WrongCase = 1
  IncCount = 4
  Junk <- DirtyMemory
  Spoil <- Hit
  MaxLen = 8
  Unresizable = {1}
  Pick <- LowestFree

SPECIFICATION Spec
VIEW GrowingView

INVARIANTS
  TableIsAllocated
  NoDoubleFree

PROPERTIES
  GrowsOnlyWhenFull

CHECK_DEADLOCK FALSE
