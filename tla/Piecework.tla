------------------------------- MODULE Piecework -------------------------------
(***************************************************************************)
(* What DtJobRunner_Run promises (Core/DtWorkerPool.h): it runs a job's    *)
(* function once for each piece and returns when all pieces are done.      *)
(* Who runs a piece, and in which order, is left open.                     *)
(***************************************************************************)
EXTENDS Naturals

CONSTANTS Runners,    \* the DtJobRunners, each running one job at a time
          MaxThreads  \* the most pieces a job is split into

VARIABLES phase,      \* whether the runner's caller is inside DtJobRunner_Run
          left        \* the pieces of its job that have not been run yet

jobs == <<phase, left>>

Init == /\ phase = [r \in Runners |-> "idle"]
        /\ left = [r \in Runners |-> {}]

Call(r) == /\ phase[r] = "idle"
           /\ phase' = [phase EXCEPT ![r] = "running"]
           /\ \E n \in 1..MaxThreads : left' = [left EXCEPT ![r] = 0..n-1]

RunOne(r) == /\ phase[r] = "running"
             /\ \E p \in left[r] : left' = [left EXCEPT ![r] = @ \ {p}]
             /\ UNCHANGED phase

Return(r) == /\ phase[r] = "running"
             /\ left[r] = {}
             /\ phase' = [phase EXCEPT ![r] = "idle"]
             /\ UNCHANGED left

Next == \E r \in Runners : Call(r) \/ RunOne(r) \/ Return(r)

Spec == /\ Init /\ [][Next]_jobs
        /\ \A r \in Runners : WF_jobs(RunOne(r) \/ Return(r))
===============================================================================
