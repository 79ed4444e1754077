SPECIFICATION FairSpec
CONSTANTS
  Size = 18
  Packet = 3
  NumSync = 2
  FifoSize = 5
  Search = 7
  Block = 2
  Seqs = 6
  Reads = {3, 5}
  Modes = {"ts", "raw"}
  Faults = {"valid", "nosync"}
  MaxFaulty = 1
INVARIANT FoundAgain
PROPERTIES ReadsGetWhatIsCounted ReadsReturn
