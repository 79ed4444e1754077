SPECIFICATION FairSpec
CONSTANTS
  t1 = t1
  t2 = t2
  t3 = t3
  t4 = t4
  Threads <- FourThreads
  Tries = 2
  MaxLoad = 2
  CrossFailsInRead = FALSE
INVARIANTS TypeOK OneReader DetachesCounted LentFrameStays DetachedHoldsNothing
PROPERTIES KeepsItsUse FreeReturns
