SPECIFICATION Spec
CONSTANTS
  t1 = t1
  t2 = t2
  t3 = t3
  t4 = t4
  Threads <- ThreeThreads
  Tries = 2
  MaxLoad = 1
  CrossFailsInRead = TRUE
SYMMETRY Symmetry
INVARIANTS WaitingReadHasItsChannel
