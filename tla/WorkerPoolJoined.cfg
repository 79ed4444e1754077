SPECIFICATION Spec
CONSTANTS
  r1 = r1
  r2 = r2
  w1 = w1
  w2 = w2
  Runners <- TwoRunners
  Workers <- TwoWorkers
  MaxThreads = 2
  Setups <- JoinSetups
  SetupsWait = TRUE
SYMMETRY Symmetry
INVARIANTS JobOutlivesItsPieces QueuedJobHasAThread RefsCountHolders
