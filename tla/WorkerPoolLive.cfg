SPECIFICATION FairSpec
CONSTANTS
  r1 = r1
  r2 = r2
  w1 = w1
  w2 = w2
  Runners <- OneRunner
  Workers <- OneWorker
  MaxThreads = 2
  Setups <- AllSetups
  SetupsWait = TRUE
INVARIANT TypeOK
PROPERTIES RunsEveryPieceOnce SetUpReturns
