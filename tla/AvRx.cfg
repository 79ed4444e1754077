SPECIFICATION Spec
CONSTANTS
  Streams <- MCStreams
  MaxSize = 1
  Lent = 1
  Lateness = 2
  Faults = 2
  Quiet = 12
INVARIANTS TypeOK FramesHaveOnePlace FramesAreWhole FramesComeAgain
