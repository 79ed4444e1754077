SPECIFICATION Spec
CONSTANTS
  f1 = f1
  f2 = f2
  f3 = f3
  Frames <- MCFrames
  None = None
  MaxSize = 1
  Size = 6
  MaxPacket = 2
  FlushEvery = 2
  Shape <- MCShape
  FlushFailures = 1
INVARIANTS FramesHaveOnePlace WordsAreKept
PROPERTIES StopsReturn FramesGoBack
