------------------------------- MODULE MCSdiTx -------------------------------
(* The instances of SdiTx that TLC checks. *)
EXTENDS SdiTx, TLC

CONSTANTS t1, t2, k1, k2

TwoThreads == {t1, t2}
TwoKeepers == {k1, k2}
KeeperSymmetry == Permutations(TwoKeepers)
===============================================================================
