SPECIFICATION FairSpec
CONSTANTS
  t1 = t1
  t2 = t2
  k1 = k1
  k2 = k2
  Threads <- TwoThreads
  Keepers <- TwoKeepers
  Frames = 2
  Lines = 2
  Ids = 6
  CardFrames = 1
  Liberties = {"short"}
CHECK_DEADLOCK FALSE
PROPERTY PaddingIsTaken
