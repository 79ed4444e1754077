SPECIFICATION FairSpec
CONSTANTS
  Size = 8
  Word = 2
  WordBytes = 1
  BurstSize = 4
  FifoSize = 10
  Block = 3
  MinFree = 2
  Target = 3
  Packet = 2
  Lead = 1
  Numbers = 6
  Writes = {4, 10}
  Liberties = {}
PROPERTIES WritesAndStopsReturn
INVARIANTS BytesOnTheirWay NullsBetweenPackets DrainLeavesAWord
