---------------------------- MODULE MCWorkerPool ----------------------------
(* The instances of WorkerPool that TLC checks. *)
EXTENDS WorkerPool, TLC

CONSTANTS r1, r2, w1, w2

OneRunner == {r1}
OneWorker == {w1}
TwoRunners == {r1, r2}
TwoWorkers == {w1, w2}
NoWorkers == {}
OwnSetups == {"StartThreads", "SetDispatch", "NoDispatch"}
JoinSetups == {"ExpectThreads"}
Symmetry == Permutations(TwoRunners) \cup Permutations(TwoWorkers)
RunnerSymmetry == Permutations(TwoRunners)
AllSetups == OwnSetups \cup JoinSetups
=============================================================================
