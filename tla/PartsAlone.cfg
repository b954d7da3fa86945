CONSTANTS
  n1 = n1
  n2 = n2
  Node = {n1, n2}
  Datacenter <- Datacenters
  Machine <- Machines
  DatacenterSize = 2
  MachineSize = 2
  SeqSize = 2
  InitialSeq = {0, 1}
  MaxTime = 3
  IdThread = {t1, t2}
  SeqNumbers = 2
  LastTime = 3
  MaxCalls = 4
  Words = 3
  Base = 4
  IntWords = 2
  WordBits = 2
  WordDigits = 2
  DigitBits = 1
  MaxPower = 4
  TreeData = {1, 2, 3, 4, 5, 6, 7, 8}
  MaxLevels = 5
  Item = {1, 2, 3}
  NoItem = NoItem
  Increment = 2
  MaxElements = 5
  Letter = {"a", "b"}
  Separator = Separator
  Terminator = Terminator
  MaxText = 4
  t1 = t1
  t2 = t2
  Thread = {t1, t2}
  NoThread = NoThread
  Absent = Absent
  Morning = 3
  LastHalf = 4
  MaxLines = 3
  MaxRestarts = 2
  Capacity = 4
  Datum = {1, 2}
  Nothing = Nothing
  MaxPushes = 6
  OctetSize = 8
  FrmSize = 4
  Response = 2
  PeerFrames <- FramePairs
  Messages <- Texts
  MaxSends = 2
  Orders <- BuildOrders
  XorOctets <- BitXor
  BlockLength = 8
  LengthField = 2
  LowLimit = 5
  HighLimit = 4
  MaxInput = 3
  MaxResets = 1
  FewBytes = {0, 1, 63, 128, 200, 255}
  LongText = 120
  CodePoints = {1, 127, 128, 2047, 2048, 65535, 65536, 1114111}
  MaxChars = 3
  Pad = Pad
  Feed = Feed

SPECIFICATION PartsSpec
CONSTRAINTS
  FewCalls
  FewLines
  FewSends
  FewLosses
SYMMETRY Threads

INVARIANTS
  NoDuplicates
  NodesDisjoint
  ArithmeticExact
  AlgorithmsExact
  RepeatsInRacedTimes
  TreeSortedBalanced
  ListHolds
  StringHolds
  LinesKept
  LinesInFileOfTheirDay
  ClosedOnlyAtMidnight
  
  FramesInOrder
  SentFramesParse
  DigestOfMessage
  EncodingsExact

PROPERTIES
  IdsIncrease
  BackupsKept

CHECK_DEADLOCK FALSE
