--------------------------- MODULE WorkerPool_proofs ---------------------------
(***************************************************************************)
(* Theorems about WorkerPool, for any number of channels, of joined        *)
(* threads and of own threads, whatever the program calls and when: types, *)
(* that a job outlives its pieces, and that DtJobRunner_Run runs each      *)
(* piece once and returns when all have run.  Only the two theorems that   *)
(* name it assume SetupsWait.                                              *)
(***************************************************************************)
EXTENDS WorkerPool, FiniteSetTheorems, TLAPS

\* Every variable of the pool, its threads and its runners keeps its type, whatever is
\* called and whenever (Source/Core/DtWorkerPool.c).
THEOREM TypeCorrect == Spec => []TypeOK
<1>0. Own \subseteq Threads /\ Workers \subseteq Threads
  BY DEF Threads
<1> USE <1>0, PoolAssumption DEF NoTask, NoJob, NotSetUp, Idle, ThreadSteps, RunnerSteps
<1>1. Init => TypeOK
  BY DEF Init, TypeOK, PoolTypes, ThreadTypes, RunnerTypes
<1>2. TypeOK /\ [Next]_vars => TypeOK'
  <2> SUFFICES ASSUME PoolTypes, ThreadTypes, RunnerTypes, [Next]_vars
               PROVE PoolTypes' /\ ThreadTypes' /\ RunnerTypes'
    BY DEF TypeOK
  <2> USE DEF refs, joinVars, jobVars, runVars, progVars
  <2>0. ASSUME UNCHANGED numRunnersSized, DropRef
        PROVE /\ numRefs' \in Int /\ numRunnersSized' \in Int
              /\ halt' \in [step : {"off", "stop", "signal", "join"}, i : Nat]
    <3>1. CASE numRefs = 1
      BY <2>0, <3>1 DEF DropRef, PoolTypes
    <3>2. CASE numRefs # 1
      BY <2>0, <3>2 DEF DropRef, PoolTypes
    <3> QED BY <3>1, <3>2
  <2>1. CASE Alloc
    <3>1. PoolTypes'
      BY <2>1 DEF PoolTypes, Alloc
    <3>2. ThreadTypes'
      BY <2>1 DEF ThreadTypes, Alloc
    <3>3. RunnerTypes'
      BY <2>1 DEF RunnerTypes, Alloc
    <3> QED BY <3>1, <3>2, <3>3
  <2>2. CASE Free
    <3>1. PoolTypes'
      BY <2>2, <2>0 DEF PoolTypes, Free
    <3>2. ThreadTypes'
      BY <2>2 DEF ThreadTypes, Free
    <3>3. RunnerTypes'
      BY <2>2 DEF RunnerTypes, Free
    <3> QED BY <3>1, <3>2, <3>3
  <2>3. CASE StopSet
    <3>1. PoolTypes'
      BY <2>3 DEF PoolTypes, StopSet
    <3>2. ThreadTypes'
      BY <2>3 DEF ThreadTypes, StopSet
    <3>3. RunnerTypes'
      BY <2>3 DEF RunnerTypes, StopSet
    <3> QED BY <3>1, <3>2, <3>3
  <2>4. CASE StopSignal
    <3>1. PoolTypes'
      BY <2>4 DEF PoolTypes, StopSignal
    <3>2. ThreadTypes'
      BY <2>4 DEF ThreadTypes, StopSignal, PoolTypes
    <3>3. RunnerTypes'
      BY <2>4 DEF RunnerTypes, StopSignal
    <3> QED BY <3>1, <3>2, <3>3
  <2>5. CASE StopJoin
    <3>1. PoolTypes'
      BY <2>5 DEF PoolTypes, StopJoin
    <3>2. ThreadTypes'
      BY <2>5 DEF ThreadTypes, StopJoin
    <3>3. RunnerTypes'
      BY <2>5 DEF RunnerTypes, StopJoin
    <3> QED BY <3>1, <3>2, <3>3
  <2>6. CASE StopClear
    <3>1. PoolTypes'
      BY <2>6 DEF PoolTypes, StopClear
    <3>2. ThreadTypes'
      BY <2>6 DEF ThreadTypes, StopClear
    <3>3. RunnerTypes'
      BY <2>6 DEF RunnerTypes, StopClear
    <3> QED BY <3>1, <3>2, <3>3
  <2>7. CASE IsInUse
    <3>1. PoolTypes'
      <4>1. CASE call' = Idle /\ UNCHANGED halt
        BY <2>7, <4>1 DEF PoolTypes, IsInUse
      <4>2. CASE /\ call' = [call EXCEPT !.step = "stopping"]
                 /\ halt' = [step |-> "stop", i |-> 0]
        BY <2>7, <4>2 DEF PoolTypes, IsInUse
      <4> QED BY <2>7, <4>1, <4>2 DEF IsInUse
    <3>2. ThreadTypes'
      BY <2>7 DEF ThreadTypes, IsInUse
    <3>3. RunnerTypes'
      BY <2>7 DEF RunnerTypes, IsInUse
    <3> QED BY <3>1, <3>2, <3>3
  <2>8. CASE Apply
    <3>1. PoolTypes'
      <4>1. CASE call' = Idle /\ UNCHANGED set
        BY <2>8, <4>1 DEF PoolTypes, Apply
      <4>2. ASSUME call.wants # "NoDispatch", call.wants \in Setups,
                   set' = [mode |-> ModeOf[call.wants], numThreads |-> call.count,
                           numStarted |-> 0]
            PROVE set' \in [mode : {"none", "own", "dispatch", "joinable"},
                            numThreads : 0..MaxThreads, numStarted : Nat]
        <5>1. call.wants \in {"StartThreads", "SetDispatch", "ExpectThreads"}
          BY <4>2 DEF PoolTypes
        <5>2. ModeOf[call.wants] \in {"own", "dispatch", "joinable"}
          BY <5>1 DEF ModeOf
        <5>3. call.count \in 0..MaxThreads
          BY DEF PoolTypes
        <5> QED BY <4>2, <5>2, <5>3
      <4>3. ASSUME call.wants # "NoDispatch",
                   set' = [mode |-> ModeOf[call.wants], numThreads |-> call.count,
                           numStarted |-> 0],
                   call' = IF call.wants = "StartThreads"
                           THEN [call EXCEPT !.step = "starting"] ELSE Idle
            PROVE PoolTypes'
        <5>1. call' \in [step : {"idle", "joined", "check", "stopping", "starting", "failed"},
                         wants : Setups \cup {"none"}, count : 0..MaxThreads]
          <6>1. CASE call.wants = "StartThreads"
            BY <4>3, <6>1 DEF PoolTypes
          <6>2. CASE call.wants # "StartThreads"
            BY <4>3, <6>2 DEF PoolTypes
          <6> QED BY <6>1, <6>2
        <5>2. UNCHANGED <<refs, held, halt>>
          BY <2>8 DEF Apply
        <5>3. call.wants \in Setups
          BY <2>8 DEF Apply, PoolTypes
        <5>4. set' \in [mode : {"none", "own", "dispatch", "joinable"},
                        numThreads : 0..MaxThreads, numStarted : Nat]
          BY <4>2, <4>3, <5>3
        <5>5. call'.step # "idle" => call'.wants \in Setups
          BY <4>3, <5>3 DEF PoolTypes
        <5> QED BY <5>1, <5>2, <5>4, <5>5 DEF PoolTypes
      <4> QED BY <2>8, <4>1, <4>3 DEF Apply
    <3>2. ThreadTypes'
      BY <2>8 DEF ThreadTypes, Apply
    <3>3. RunnerTypes'
      BY <2>8 DEF RunnerTypes, Apply
    <3> QED BY <3>1, <3>2, <3>3
  <2>9. CASE StartThread
    <3>1. PoolTypes'
      <4>1. CASE set.numStarted + 1 = set.numThreads
        BY <2>9, <4>1 DEF PoolTypes, StartThread
      <4>2. CASE set.numStarted + 1 # set.numThreads
        BY <2>9, <4>2 DEF PoolTypes, StartThread
      <4> QED BY <2>9, <4>1, <4>2 DEF StartThread
    <3>2. ThreadTypes'
      BY <2>9 DEF ThreadTypes, StartThread
    <3>3. RunnerTypes'
      BY <2>9 DEF RunnerTypes, StartThread
    <3> QED BY <3>1, <3>2, <3>3
  <2>10. CASE StartFails
    <3>1. PoolTypes'
      BY <2>10 DEF PoolTypes, StartFails
    <3>2. ThreadTypes'
      BY <2>10 DEF ThreadTypes, StartFails
    <3>3. RunnerTypes'
      BY <2>10 DEF RunnerTypes, StartFails
    <3> QED BY <3>1, <3>2, <3>3
  <2>11. CASE ReturnFailure
    <3>1. PoolTypes'
      BY <2>11 DEF PoolTypes, ReturnFailure
    <3>2. ThreadTypes'
      BY <2>11 DEF ThreadTypes, ReturnFailure
    <3>3. RunnerTypes'
      BY <2>11 DEF RunnerTypes, ReturnFailure
    <3> QED BY <3>1, <3>2, <3>3
  <2>12. ASSUME NEW wants \in Setups, NEW n \in 2..MaxThreads, SetUp(wants, n)
        PROVE PoolTypes' /\ ThreadTypes' /\ RunnerTypes'
    <3>1. PoolTypes'
      <4>1. CASE joined = {}
        BY <2>12, <4>1 DEF PoolTypes, SetUp
      <4>2. CASE joined # {}
        BY <2>12, <4>2 DEF PoolTypes, SetUp
      <4> QED BY <2>12, <4>1, <4>2 DEF SetUp
    <3>2. ThreadTypes'
      BY <2>12 DEF ThreadTypes, SetUp
    <3>3. RunnerTypes'
      BY <2>12 DEF RunnerTypes, SetUp
    <3> QED BY <3>1, <3>2, <3>3
  <2>13. ASSUME NEW ws \in SUBSET Workers, Dismiss(ws)
        PROVE PoolTypes' /\ ThreadTypes' /\ RunnerTypes'
    <3>1. PoolTypes'
      BY <2>13 DEF PoolTypes, Dismiss
    <3>2. ThreadTypes'
      BY <2>13 DEF ThreadTypes, Dismiss
    <3>3. RunnerTypes'
      BY <2>13 DEF RunnerTypes, Dismiss
    <3> QED BY <3>1, <3>2, <3>3
  <2>14. ASSUME NEW w \in Workers, Join(w)
        PROVE PoolTypes' /\ ThreadTypes' /\ RunnerTypes'
    <3>1. PoolTypes'
      <4>1. CASE w \in dismissed
        BY <2>14, <4>1 DEF PoolTypes, Join
      <4>2. CASE w \notin dismissed
        BY <2>14, <4>2 DEF PoolTypes, Join
      <4> QED BY <2>14, <4>1, <4>2 DEF Join
    <3>2. ThreadTypes'
      <4>1. CASE w \in dismissed
        BY <2>14, <4>1 DEF ThreadTypes, Join
      <4>2. CASE w \notin dismissed
        BY <2>14, <4>2 DEF ThreadTypes, Join
      <4> QED BY <2>14, <4>1, <4>2 DEF Join
    <3>3. RunnerTypes'
      BY <2>14 DEF RunnerTypes, Join
    <3> QED BY <3>1, <3>2, <3>3
  <2>15. ASSUME NEW t \in Threads, RunFunc(t)
        PROVE PoolTypes' /\ ThreadTypes' /\ RunnerTypes'
    <3>1. PoolTypes'
      BY <2>15 DEF PoolTypes, RunFunc
    <3>2. ThreadTypes'
      BY <2>15 DEF ThreadTypes, RunFunc
    <3>3. RunnerTypes'
      <4>1. ran[task[t].runner] \cup {task[t].piece} \in SUBSET Nat
        BY <2>15 DEF ThreadTypes, RunnerTypes, RunFunc
      <4>2. ran' \in [Runners -> SUBSET Nat]
        BY <2>15, <4>1 DEF ThreadTypes, RunnerTypes, RunFunc
      <4> QED BY <2>15, <4>2 DEF RunnerTypes, RunFunc
    <3> QED BY <3>1, <3>2, <3>3
  <2>16. ASSUME NEW t \in Threads, CountPiece(t)
        PROVE PoolTypes' /\ ThreadTypes' /\ RunnerTypes'
    <3>1. PoolTypes'
      BY <2>16 DEF PoolTypes, CountPiece
    <3>2. ThreadTypes'
      <4>1. tpc' \in [Threads -> ThreadSteps]
        BY <2>16 DEF ThreadTypes, CountPiece
      <4>2. task' \in [Threads -> [runner : Runners \cup {"none"}, piece : Nat]]
        BY <2>16 DEF ThreadTypes, CountPiece
      <4>3. ASSUME NEW u \in Threads, tpc'[u] \in {"run", "count", "set"}
            PROVE task'[u].runner \in Runners
        <5>1. CASE u = t
          BY <2>16, <4>3, <5>1 DEF ThreadTypes, CountPiece
        <5>2. CASE u # t
          BY <2>16, <4>3, <5>2 DEF ThreadTypes, CountPiece
        <5> QED BY <5>1, <5>2
      <4> QED BY <2>16, <4>1, <4>2, <4>3 DEF ThreadTypes, CountPiece
    <3>3. RunnerTypes'
      <4>1. PICK q \in Runners : job' = [job EXCEPT ![q].numFinished = job[q].numFinished + 1]
        BY <2>16 DEF ThreadTypes, CountPiece
      <4>2. job' \in [Runners -> [numPieces : Nat, nextPiece : Nat, numFinished : Nat]]
        <5>2. job[q] \in [numPieces : Nat, nextPiece : Nat, numFinished : Nat]
          BY DEF RunnerTypes
        <5>3. job' = [job EXCEPT ![q] = [job[q] EXCEPT !.numFinished = job[q].numFinished + 1]]
          BY <4>1
        <5>4. [job[q] EXCEPT !.numFinished = job[q].numFinished + 1]
                \in [numPieces : Nat, nextPiece : Nat, numFinished : Nat]
          BY <5>2
        <5> QED BY <5>3, <5>4 DEF RunnerTypes
      <4> QED BY <2>16, <4>2 DEF RunnerTypes, CountPiece
    <3> QED BY <3>1, <3>2, <3>3
  <2>17. ASSUME NEW t \in Threads, SetDone(t)
        PROVE PoolTypes' /\ ThreadTypes' /\ RunnerTypes'
    <3>1. PoolTypes'
      BY <2>17 DEF PoolTypes, SetDone
    <3>2. ThreadTypes'
      BY <2>17 DEF ThreadTypes, SetDone
    <3>3. RunnerTypes'
      BY <2>17 DEF RunnerTypes, SetDone, ThreadTypes
    <3> QED BY <3>1, <3>2, <3>3
  <2>18. ASSUME NEW t \in Threads, WaitGo(t)
        PROVE PoolTypes' /\ ThreadTypes' /\ RunnerTypes'
    <3>1. PoolTypes'
      BY <2>18 DEF PoolTypes, WaitGo
    <3>2. ThreadTypes'
      BY <2>18 DEF ThreadTypes, WaitGo
    <3>3. RunnerTypes'
      BY <2>18 DEF RunnerTypes, WaitGo
    <3> QED BY <3>1, <3>2, <3>3
  <2>19. ASSUME NEW t \in Threads, queue # <<>>, TakePiece(t),
               UNCHANGED <<refs, set, go, done, rpc, idx, ran, runVars, progVars, halt>>,
               UNCHANGED joinVars
        PROVE PoolTypes' /\ ThreadTypes' /\ RunnerTypes'
    <3>0. /\ Head(queue) \in Runners /\ Tail(queue) \in Seq(Runners)
          /\ job[Head(queue)].nextPiece \in Nat
      BY <2>19 DEF RunnerTypes
    <3>1. PoolTypes'
      BY <2>19, <3>0 DEF PoolTypes, TakePiece
    <3>2. ThreadTypes'
      <4>1. tpc' \in [Threads -> ThreadSteps]
        BY <2>19, <3>0 DEF ThreadTypes, TakePiece
      <4>2. task' \in [Threads -> [runner : Runners \cup {"none"}, piece : Nat]]
        BY <2>19, <3>0 DEF ThreadTypes, TakePiece
      <4>3. ASSUME NEW u \in Threads, tpc'[u] \in {"run", "count", "set"}
            PROVE task'[u].runner \in Runners
        <5>1. CASE u = t
          BY <2>19, <3>0, <5>1 DEF ThreadTypes, TakePiece
        <5>2. CASE u # t
          BY <2>19, <3>0, <4>3, <5>2 DEF ThreadTypes, TakePiece
        <5> QED BY <5>1, <5>2
      <4> QED BY <2>19, <3>0, <4>1, <4>2, <4>3 DEF ThreadTypes
    <3>3. RunnerTypes'
      <4>1. queue' \in Seq(Runners)
        BY <2>19, <3>0 DEF RunnerTypes, TakePiece
      <4>2. job' \in [Runners -> [numPieces : Nat, nextPiece : Nat, numFinished : Nat]]
        <5>1. PICK q \in Runners : job' = [job EXCEPT ![q].nextPiece = job[q].nextPiece + 1]
          BY <2>19, <3>0 DEF TakePiece
        <5>2. job[q] \in [numPieces : Nat, nextPiece : Nat, numFinished : Nat]
          BY DEF RunnerTypes
        <5>3. job' = [job EXCEPT ![q] = [job[q] EXCEPT !.nextPiece = job[q].nextPiece + 1]]
          BY <5>1
        <5>4. [job[q] EXCEPT !.nextPiece = job[q].nextPiece + 1]
                \in [numPieces : Nat, nextPiece : Nat, numFinished : Nat]
          BY <5>2
        <5> QED BY <5>3, <5>4 DEF RunnerTypes
      <4> QED BY <2>19, <3>0, <4>1, <4>2 DEF RunnerTypes
    <3> QED BY <3>1, <3>2, <3>3
  <2>20. ASSUME NEW t \in Own, OwnLoop(t)
        PROVE PoolTypes' /\ ThreadTypes' /\ RunnerTypes'
    <3>1. CASE Stop
      <4>1. PoolTypes'
        BY <2>20, <3>1 DEF PoolTypes, OwnLoop
      <4>2. ThreadTypes'
        BY <2>20, <3>1 DEF ThreadTypes, OwnLoop
      <4>3. RunnerTypes'
        BY <2>20, <3>1 DEF RunnerTypes, OwnLoop
      <4> QED BY <4>1, <4>2, <4>3
    <3>2. CASE ~Stop /\ queue = <<>>
      <4>1. PoolTypes'
        BY <2>20, <3>2 DEF PoolTypes, OwnLoop
      <4>2. ThreadTypes'
        BY <2>20, <3>2 DEF ThreadTypes, OwnLoop
      <4>3. RunnerTypes'
        BY <2>20, <3>2 DEF RunnerTypes, OwnLoop
      <4> QED BY <4>1, <4>2, <4>3
    <3>3. CASE ~Stop /\ queue # <<>>
      BY <2>20, <3>3, <2>19 DEF OwnLoop
    <3> QED BY <3>1, <3>2, <3>3
  <2>21. ASSUME NEW w \in Workers, JoinLoop(w)
        PROVE PoolTypes' /\ ThreadTypes' /\ RunnerTypes'
    <3>1. CASE MayLeave(w)
      <4>1. PoolTypes'
        BY <2>21, <3>1 DEF PoolTypes, JoinLoop
      <4>2. ThreadTypes'
        BY <2>21, <3>1 DEF ThreadTypes, JoinLoop
      <4>3. RunnerTypes'
        BY <2>21, <3>1 DEF RunnerTypes, JoinLoop
      <4> QED BY <4>1, <4>2, <4>3
    <3>2. CASE ~MayLeave(w) /\ queue = <<>>
      <4>1. PoolTypes'
        BY <2>21, <3>2 DEF PoolTypes, JoinLoop
      <4>2. ThreadTypes'
        BY <2>21, <3>2 DEF ThreadTypes, JoinLoop
      <4>3. RunnerTypes'
        BY <2>21, <3>2 DEF RunnerTypes, JoinLoop
      <4> QED BY <4>1, <4>2, <4>3
    <3>3. CASE ~MayLeave(w) /\ queue # <<>>
      BY <2>21, <3>3, <2>19 DEF JoinLoop
    <3> QED BY <3>1, <3>2, <3>3
  <2>22. ASSUME NEW w \in Workers, JoinReturns(w)
        PROVE PoolTypes' /\ ThreadTypes' /\ RunnerTypes'
    <3>1. PoolTypes'
      BY <2>22, <2>0 DEF PoolTypes, JoinReturns
    <3>2. ThreadTypes'
      BY <2>22 DEF ThreadTypes, JoinReturns
    <3>3. RunnerTypes'
      BY <2>22 DEF RunnerTypes, JoinReturns
    <3> QED BY <3>1, <3>2, <3>3
  <2>23. ASSUME NEW r \in Runners, GivePool(r)
        PROVE PoolTypes' /\ ThreadTypes' /\ RunnerTypes'
    <3>1. PoolTypes'
      BY <2>23 DEF PoolTypes, GivePool
    <3>2. ThreadTypes'
      BY <2>23 DEF ThreadTypes, GivePool
    <3>3. RunnerTypes'
      BY <2>23 DEF RunnerTypes, GivePool
    <3> QED BY <3>1, <3>2, <3>3
  <2>24. ASSUME NEW r \in Runners, DropPool(r)
        PROVE PoolTypes' /\ ThreadTypes' /\ RunnerTypes'
    <3>1. PoolTypes'
      BY <2>24, <2>0 DEF PoolTypes, DropPool
    <3>2. ThreadTypes'
      BY <2>24 DEF ThreadTypes, DropPool
    <3>3. RunnerTypes'
      BY <2>24 DEF RunnerTypes, DropPool
    <3> QED BY <3>1, <3>2, <3>3
  <2>25. ASSUME NEW r \in Runners, SetPoolHold(r)
        PROVE PoolTypes' /\ ThreadTypes' /\ RunnerTypes'
    <3>1. PoolTypes'
      BY <2>25 DEF PoolTypes, SetPoolHold
    <3>2. ThreadTypes'
      BY <2>25 DEF ThreadTypes, SetPoolHold
    <3>3. RunnerTypes'
      BY <2>25 DEF RunnerTypes, SetPoolHold
    <3> QED BY <3>1, <3>2, <3>3
  <2>26. ASSUME NEW r \in Runners, SetPoolFree(r)
        PROVE PoolTypes' /\ ThreadTypes' /\ RunnerTypes'
    <3>1. PoolTypes'
      <4>1. CASE r \in pooled /\ numRefs = 1
        BY <2>26, <4>1 DEF PoolTypes, SetPoolFree, DropRef
      <4>2. CASE r \in pooled /\ numRefs # 1
        BY <2>26, <4>2 DEF PoolTypes, SetPoolFree, DropRef
      <4>3. CASE r \notin pooled
        BY <2>26, <4>3 DEF PoolTypes, SetPoolFree, DropRef
      <4> QED BY <2>26, <4>1, <4>2, <4>3 DEF SetPoolFree, DropRef
    <3>2. ThreadTypes'
      BY <2>26 DEF ThreadTypes, SetPoolFree, DropRef
    <3>3. RunnerTypes'
      <4>1. numPieces' \in [Runners -> 1..MaxThreads] /\ rpc' \in [Runners -> RunnerSteps]
        BY <2>26 DEF RunnerTypes, SetPoolFree
      <4> QED BY <2>26, <4>1 DEF RunnerTypes, SetPoolFree
    <3> QED BY <3>1, <3>2, <3>3
  <2>27. ASSUME NEW r \in Runners, SetPoolSize(r)
        PROVE PoolTypes' /\ ThreadTypes' /\ RunnerTypes'
    <3>1. PoolTypes'
      BY <2>27 DEF PoolTypes, SetPoolSize
    <3>2. ThreadTypes'
      BY <2>27 DEF ThreadTypes, SetPoolSize
    <3>3. RunnerTypes'
      <4>1. NumThreads \in 1..MaxThreads
        BY DEF NumThreads, PoolTypes
      <4>2. PICK asked \in 0..MaxThreads :
              numPieces' = [numPieces EXCEPT
                ![r] = IF asked > 0 /\ asked < NumThreads THEN asked ELSE NumThreads]
        BY <2>27 DEF SetPoolSize
      <4>3. numPieces' \in [Runners -> 1..MaxThreads]
        BY <4>1, <4>2 DEF RunnerTypes
      <4> QED BY <2>27, <4>3 DEF RunnerTypes, SetPoolSize
    <3> QED BY <3>1, <3>2, <3>3
  <2>28. ASSUME NEW r \in Runners, RunnerFree(r)
        PROVE PoolTypes' /\ ThreadTypes' /\ RunnerTypes'
    <3>1. PoolTypes'
      <4>1. CASE numRefs = 1
        BY <2>28, <4>1 DEF PoolTypes, RunnerFree, DropRef
      <4>2. CASE numRefs # 1
        BY <2>28, <4>2 DEF PoolTypes, RunnerFree, DropRef
      <4> QED BY <2>28, <4>1, <4>2 DEF RunnerFree, DropRef
    <3>2. ThreadTypes'
      BY <2>28 DEF ThreadTypes, RunnerFree, DropRef
    <3>3. RunnerTypes'
      BY <2>28 DEF RunnerTypes, RunnerFree, DropRef
    <3> QED BY <3>1, <3>2, <3>3
  <2>29. ASSUME NEW r \in Runners, RunInCaller(r)
        PROVE PoolTypes' /\ ThreadTypes' /\ RunnerTypes'
    <3>1. PoolTypes'
      BY <2>29 DEF PoolTypes, RunInCaller
    <3>2. ThreadTypes'
      BY <2>29 DEF ThreadTypes, RunInCaller
    <3>3. RunnerTypes'
      <4>1. ran' \in [Runners -> SUBSET Nat]
        BY <2>29 DEF RunnerTypes, RunInCaller
      <4> QED BY <2>29, <4>1 DEF RunnerTypes, RunInCaller
    <3> QED BY <3>1, <3>2, <3>3
  <2>30. ASSUME NEW r \in Runners, RunDispatched(r)
        PROVE PoolTypes' /\ ThreadTypes' /\ RunnerTypes'
    <3>1. PoolTypes'
      BY <2>30 DEF PoolTypes, RunDispatched
    <3>2. ThreadTypes'
      BY <2>30 DEF ThreadTypes, RunDispatched
    <3>3. RunnerTypes'
      <4>1. ran' \in [Runners -> SUBSET Nat]
        BY <2>30 DEF RunnerTypes, RunDispatched
      <4> QED BY <2>30, <4>1 DEF RunnerTypes, RunDispatched
    <3> QED BY <3>1, <3>2, <3>3
  <2>31. ASSUME NEW r \in Runners, RunQueued(r)
        PROVE PoolTypes' /\ ThreadTypes' /\ RunnerTypes'
    <3>1. PoolTypes'
      BY <2>31 DEF PoolTypes, RunQueued
    <3>2. ThreadTypes'
      BY <2>31 DEF ThreadTypes, RunQueued
    <3>3. RunnerTypes'
      <4>1. ran' \in [Runners -> SUBSET Nat]
        BY <2>31 DEF RunnerTypes, RunQueued
      <4>2. job' \in [Runners -> [numPieces : Nat, nextPiece : Nat, numFinished : Nat]]
        <5>1. numPieces[r] \in Nat
          BY DEF RunnerTypes
        <5>2. [NoJob EXCEPT !.numPieces = numPieces[r]]
                = [numPieces |-> numPieces[r], nextPiece |-> 0, numFinished |-> 0]
          OBVIOUS
        <5> QED BY <2>31, <5>1, <5>2 DEF RunnerTypes, RunQueued
      <4>3. queue' \in Seq(Runners)
        BY <2>31 DEF RunnerTypes, RunQueued
      <4>4. rpc' \in [Runners -> RunnerSteps] /\ idx' \in [Runners -> Nat]
        BY <2>31 DEF RunnerTypes, RunQueued
      <4> QED BY <2>31, <4>1, <4>2, <4>3, <4>4 DEF RunnerTypes, RunQueued
    <3> QED BY <3>1, <3>2, <3>3
  <2>32. ASSUME NEW r \in Runners, InlinePiece(r)
        PROVE PoolTypes' /\ ThreadTypes' /\ RunnerTypes'
    <3>1. PoolTypes'
      BY <2>32 DEF PoolTypes, InlinePiece
    <3>2. ThreadTypes'
      BY <2>32 DEF ThreadTypes, InlinePiece
    <3>3. RunnerTypes'
      <4>1. ran[r] \cup {idx[r]} \in SUBSET Nat
        BY DEF RunnerTypes
      <4>2. ran' \in [Runners -> SUBSET Nat]
        BY <2>32, <4>1 DEF RunnerTypes, InlinePiece
      <4>3. idx' \in [Runners -> Nat]
        BY <2>32 DEF RunnerTypes, InlinePiece
      <4> QED BY <2>32, <4>2, <4>3 DEF RunnerTypes, InlinePiece
    <3> QED BY <3>1, <3>2, <3>3
  <2>33. ASSUME NEW r \in Runners, DispatchedPiece(r)
        PROVE PoolTypes' /\ ThreadTypes' /\ RunnerTypes'
    <3>1. PoolTypes'
      BY <2>33 DEF PoolTypes, DispatchedPiece
    <3>2. ThreadTypes'
      BY <2>33 DEF ThreadTypes, DispatchedPiece
    <3>3. RunnerTypes'
      <4>1. PICK p \in 0..numPieces[r] - 1 : ran' = [ran EXCEPT ![r] = @ \cup {p}]
        BY <2>33 DEF DispatchedPiece
      <4>2. ran[r] \cup {p} \in SUBSET Nat
        BY DEF RunnerTypes
      <4>3. ran' \in [Runners -> SUBSET Nat]
        BY <4>1, <4>2 DEF RunnerTypes
      <4> QED BY <2>33, <4>3 DEF RunnerTypes, DispatchedPiece
    <3> QED BY <3>1, <3>2, <3>3
  <2>34. ASSUME NEW r \in Runners, RunReturns(r)
        PROVE PoolTypes' /\ ThreadTypes' /\ RunnerTypes'
    <3>1. PoolTypes'
      BY <2>34 DEF PoolTypes, RunReturns
    <3>2. ThreadTypes'
      BY <2>34 DEF ThreadTypes, RunReturns
    <3>3. RunnerTypes'
      BY <2>34 DEF RunnerTypes, RunReturns
    <3> QED BY <3>1, <3>2, <3>3
  <2>35. ASSUME NEW r \in Runners, SignalOwn(r)
        PROVE PoolTypes' /\ ThreadTypes' /\ RunnerTypes'
    <3>1. PoolTypes'
      BY <2>35 DEF PoolTypes, SignalOwn
    <3>2. ThreadTypes'
      <4>1. CASE idx[r] <= set.numStarted
        BY <2>35, <4>1 DEF ThreadTypes, SignalOwn, RunnerTypes
      <4>2. CASE ~(idx[r] <= set.numStarted)
        BY <2>35, <4>2 DEF ThreadTypes, SignalOwn
      <4> QED BY <4>1, <4>2
    <3>3. RunnerTypes'
      <4>1. rpc' \in [Runners -> RunnerSteps] /\ idx' \in [Runners -> Nat]
        <5>1. CASE idx[r] <= set.numStarted
          <6>1. UNCHANGED rpc /\ idx' = [idx EXCEPT ![r] = idx[r] + 1]
            BY <2>35, <5>1 DEF SignalOwn
          <6> QED BY <6>1 DEF RunnerTypes
        <5>2. CASE ~(idx[r] <= set.numStarted)
          BY <2>35, <5>2 DEF RunnerTypes, SignalOwn
        <5> QED BY <5>1, <5>2
      <4> QED BY <2>35, <4>1 DEF RunnerTypes, SignalOwn
    <3> QED BY <3>1, <3>2, <3>3
  <2>36. ASSUME NEW r \in Runners, AwaitDone(r)
        PROVE PoolTypes' /\ ThreadTypes' /\ RunnerTypes'
    <3>1. PoolTypes'
      BY <2>36 DEF PoolTypes, AwaitDone
    <3>2. ThreadTypes'
      BY <2>36 DEF ThreadTypes, AwaitDone
    <3>3. RunnerTypes'
      BY <2>36 DEF RunnerTypes, AwaitDone
    <3> QED BY <3>1, <3>2, <3>3
  <2>37. CASE UNCHANGED vars
    <3>1. PoolTypes'
      BY <2>37 DEF PoolTypes, vars
    <3>2. ThreadTypes'
      BY <2>37 DEF ThreadTypes, vars
    <3>3. RunnerTypes'
      BY <2>37 DEF RunnerTypes, vars
    <3> QED BY <3>1, <3>2, <3>3
  <2>50. CASE InStopThreads \/ InSetUp
    BY <2>3, <2>4, <2>5, <2>6, <2>7, <2>8, <2>9, <2>11, <2>50
       DEF InStopThreads, InSetUp
  <2>51. ASSUME NEW t \in Threads, Work(t)
         PROVE PoolTypes' /\ ThreadTypes' /\ RunnerTypes'
    BY <2>15, <2>16, <2>17, <2>18, <2>51 DEF Work
  <2>52. ASSUME NEW t \in Own, OwnThread(t)
         PROVE PoolTypes' /\ ThreadTypes' /\ RunnerTypes'
    BY <2>51, <2>20, <2>52 DEF OwnThread
  <2>53. ASSUME NEW w \in Workers, Dismiss({w}) \/ Join(w) \/ JoinedThread(w)
         PROVE PoolTypes' /\ ThreadTypes' /\ RunnerTypes'
    <3>1. CASE Dismiss({w})
      BY <2>13, <3>1
    <3>2. CASE Join(w) \/ JoinedThread(w)
      BY <2>51, <2>14, <2>21, <2>22, <3>2 DEF JoinedThread
    <3> QED BY <2>53, <3>1, <3>2
  <2>54. CASE Dismiss(joined)
    BY <2>13, <2>54 DEF ThreadTypes
  <2>55. ASSUME NEW r \in Runners, InRun(r)
         PROVE PoolTypes' /\ ThreadTypes' /\ RunnerTypes'
    BY <2>32, <2>33, <2>34, <2>35, <2>36, <2>55 DEF InRun
  <2>56. ASSUME NEW r \in Runners, InSetPool(r)
         PROVE PoolTypes' /\ ThreadTypes' /\ RunnerTypes'
    BY <2>23, <2>26, <2>27, <2>56 DEF InSetPool
  <2> QED
    BY <2>1, <2>2, <2>10, <2>12, <2>50, <2>52, <2>53, <2>54,
       <2>23, <2>24, <2>25, <2>28, <2>55, <2>56,
       <2>29, <2>30, <2>31, <2>37
       DEF Next
<1> QED BY <1>1, <1>2, PTL DEF Spec

-------------------------------------------------------------------------------
(* The inductive invariant.                                                *)

Queued == {queue[i] : i \in DOMAIN queue}

\* The threads that have a piece of runner r's job which they have not counted; those that
\* are about to set its event.
Holding(r) == {t \in Threads : tpc[t] \in {"run", "count"} /\ task[t].runner = r}
Setting(r) == {t \in Threads : tpc[t] = "set" /\ task[t].runner = r}

\* A caller that is not in RunQueued has left nothing behind.
NoTrace(r) == r \notin Queued /\ Holding(r) = {} /\ Setting(r) = {} /\ r \notin done

\* The counters of a job and the threads that work on it: what is taken and not counted is in
\* a thread's hands; the last count, and only that, sets the event, once.
Counted(r) ==
  /\ job[r].numPieces = numPieces[r]
  /\ job[r].nextPiece <= numPieces[r]
  /\ r \in Queued <=> job[r].nextPiece < numPieces[r]
  /\ job[r].numFinished + Cardinality(Holding(r)) = job[r].nextPiece
  /\ (r \in done \/ Setting(r) # {}) <=> job[r].numFinished = numPieces[r]
  /\ r \in done => Setting(r) = {}
  /\ \A t, u \in Setting(r) : t = u

\* The pieces of a job that have run: all that were taken, but for those that threads are
\* about to run.  No piece is taken twice.
Taken(r) ==
  /\ \A t \in Holding(r) : task[t].piece < job[r].nextPiece
  /\ \A t, u \in Holding(r) : task[t].piece = task[u].piece => t = u
  /\ \A p \in Nat : p \in ran[r] <=>
       p < job[r].nextPiece /\ \A t \in Holding(r) : tpc[t] = "run" => task[t].piece # p

QueueOnce == \A i, j \in DOMAIN queue : queue[i] = queue[j] => i = j

RunnerInv(r) == IF InQueuedRun(r) THEN Counted(r) /\ Taken(r) ELSE NoTrace(r)

JobInv == QueueOnce /\ \A r \in Runners : RunnerInv(r)

\* The pool's own threads: those that run are started ones, and StopThreads, which joins them
\* one after the other, has not reached them.
StopInv ==
  /\ call.step = "starting" => set.numStarted < set.numThreads /\ halt.step = "off"
  /\ call.step \in {"joined", "check", "stopping", "starting"} => call.count >= 2
  /\ call.step = "stopping" /\ halt.step = "off" => set.numStarted = 0
  /\ halt.step = "signal" => halt.i <= set.numStarted + 1
  /\ halt.step = "join" => halt.i <= set.numStarted
  /\ \A t \in Own : tpc[t] # "off" => t <= set.numStarted /\ (Stop => t >= halt.i)

Sizing == {r \in Runners : rpc[r] \in {"hold", "size"}}
Inside == {w \in Workers : tpc[w] # "off"}

\* The runners that count as sized by the pool.
Sized == {<<"runner", r>> : r \in pooled} \cup {<<"sizing", r>> : r \in Sizing}

\* Both counters of the pool, and what makes the holders come and go one at a time.
CountInv ==
  /\ IsFiniteSet(Holders) /\ numRefs = Cardinality(Holders)
  /\ IsFiniteSet(Sized) /\ numRunnersSized = Cardinality(Sized)

CallInv ==
  /\ call # Idle => held = 1
  /\ \A r \in Runners : rpc[r] = "size" => r \notin pooled

-------------------------------------------------------------------------------
(* References.                                                             *)

LEMMA OneMore ==
  ASSUME NEW S, NEW T, NEW x, IsFiniteSet(S), x \notin S, T = S \cup {x}
  PROVE  IsFiniteSet(T) /\ Cardinality(T) = Cardinality(S) + 1
  BY FS_AddElement

LEMMA OneLess ==
  ASSUME NEW S, NEW T, NEW x, IsFiniteSet(S), x \in S, T = S \ {x}
  PROVE  IsFiniteSet(T) /\ Cardinality(T) = Cardinality(S) - 1
  BY FS_RemoveElement

LEMMA OwnThreads ==
  Own \subseteq Threads /\ Workers \subseteq Threads /\ Own \cap Workers = {} /\ Own \subseteq Nat
  BY PoolAssumption DEF Threads, Own

LEMMA InitCount == Init => CountInv /\ CallInv
  <1> SUFFICES ASSUME Init PROVE CountInv /\ CallInv
    OBVIOUS
  <1>1. Holders = {<<"program">>}
    <2>1. Sizing = {} /\ Inside = {} /\ given = {} /\ pooled = {} /\ held = 1
      BY OwnThreads DEF Init, Sizing, Inside
    <2> QED BY <2>1 DEF Holders, Sizing, Inside
  <1>2. Sized = {}
    BY DEF Init, Sized, Sizing
  <1> QED BY <1>1, <1>2, FS_EmptySet, FS_Singleton DEF Init, CountInv, CallInv

\* A step in which nobody takes or drops a hold.
LEMMA RefsStay ==
  ASSUME CountInv, UNCHANGED <<refs, held, given, pooled>>,
         \A r \in Runners : rpc'[r] \in {"hold", "size"} <=> rpc[r] \in {"hold", "size"},
         \A w \in Workers : tpc'[w] = "off" <=> tpc[w] = "off"
  PROVE  CountInv'
  <1>1. Sizing' = Sizing /\ Inside' = Inside
    BY DEF Sizing, Inside
  <1>2. Holders' = Holders /\ Sized' = Sized
    BY <1>1 DEF Holders, Sized, Sizing, Inside
  <1> QED BY <1>2 DEF CountInv, refs

\* A hold that is not the program's is dropped: while the program has one it is not the last.
LEMMA NotTheLast ==
  ASSUME CountInv, NEW h \in Holders, h # <<"program">>, held = 1
  PROVE  numRefs # 1
  <1>1. <<"program">> \in Holders
    BY DEF Holders
  <1> QED BY <1>1, FS_Singleton DEF CountInv

\* The actions that take or drop a hold, one by one.
LEMMA ProgramKeepsCount ==
  ASSUME TypeOK, CountInv, CallInv, Alloc \/ Free
  PROVE  CountInv'
  <1>0. UNCHANGED <<given, pooled, rpc, tpc, numRunnersSized>>
    BY DEF Alloc, Free, jobVars, runVars
  <1>1. Sizing' = Sizing /\ Inside' = Inside
    BY <1>0 DEF Sizing, Inside
  <1>2. Sized' = Sized
    BY <1>0, <1>1 DEF Sized
  <1>3. CASE Alloc
    <2>1. Holders = {}
      BY <1>3, FS_EmptySet DEF Alloc, CountInv
    <2>2. Holders' = {<<"program">>}
      BY <1>0, <1>1, <1>3, <2>1 DEF Holders, Sizing, Inside, Alloc
    <2>3. IsFiniteSet(Holders') /\ Cardinality(Holders') = 1
      <3> DEFINE p == <<"program">>
      <3>1. Holders' = {p}
        BY <2>2
      <3> HIDE DEF p
      <3> QED BY <3>1, FS_Singleton
    <2> QED BY <1>0, <1>2, <1>3, <2>3 DEF CountInv, Alloc
  <1>4. CASE Free
    <2>1. <<"program">> \in Holders
      BY <1>4 DEF Holders, Free
    <2>2. Holders' = Holders \ {<<"program">>}
      BY <1>0, <1>1, <1>4 DEF Holders, Sizing, Inside, Free
    <2> QED BY <1>0, <1>2, <1>4, <2>1, <2>2, OneLess DEF CountInv, Free, DropRef
  <1> QED BY <1>3, <1>4

LEMMA JoinKeepsCount ==
  ASSUME TypeOK, CountInv, NEW w \in Workers, Join(w)
  PROVE  CountInv'
  <1>0. UNCHANGED <<held, given, pooled, rpc, numRunnersSized>> /\ Sizing' = Sizing
    BY DEF Join, runVars, progVars, Sizing
  <1>1. Sized' = Sized
    BY <1>0 DEF Sized
  <1>2. CASE w \in dismissed
    BY <1>2, RefsStay DEF Join, refs, runVars, progVars
  <1>3. CASE w \notin dismissed
    <2>1. Inside' = Inside \cup {w} /\ w \notin Inside
      BY <1>3, OwnThreads, ZenonT(60) DEF Join, Inside, TypeOK, ThreadTypes
    <2>2. Holders' = Holders \cup {<<"thread", w>>} /\ <<"thread", w>> \notin Holders
      BY <1>0, <2>1 DEF Holders, Sizing, Inside
    <2> QED BY <1>0, <1>1, <1>3, <2>2, OneMore, SMTT(30) DEF CountInv, Join
  <1> QED BY <1>2, <1>3

LEMMA JoinReturnsKeepsCount ==
  ASSUME TypeOK, CountInv, NEW w \in Workers, JoinReturns(w)
  PROVE  CountInv' /\ <<"thread", w>> \in Holders
  <1>0. UNCHANGED <<held, given, pooled, rpc, numRunnersSized>> /\ Sizing' = Sizing
    BY DEF JoinReturns, runVars, progVars, Sizing
  <1>1. Sized' = Sized
    BY <1>0 DEF Sized
  <1>2. Inside' = Inside \ {w} /\ w \in Inside
    BY OwnThreads DEF JoinReturns, Inside, TypeOK, ThreadTypes
  <1>3. Holders' = Holders \ {<<"thread", w>>} /\ <<"thread", w>> \in Holders
    BY <1>0, <1>2 DEF Holders, Sizing, Inside
  <1> QED BY <1>0, <1>1, <1>3, OneLess DEF CountInv, JoinReturns, DropRef

LEMMA GivePoolKeepsCount ==
  ASSUME TypeOK, CountInv, NEW r \in Runners, GivePool(r)
  PROVE  CountInv'
  <1>0. UNCHANGED <<held, pooled, tpc, numRunnersSized>> /\ Inside' = Inside
    BY DEF GivePool, runVars, progVars, Inside
  <1>1. Sizing' = Sizing
    BY DEF GivePool, Sizing, TypeOK, RunnerTypes
  <1>2. Sized' = Sized
    BY <1>0, <1>1 DEF Sized
  <1>3. given' = given \cup {r} /\ r \notin given
    BY DEF GivePool
  <1>4. Holders' = Holders \cup {<<"channel", r>>} /\ <<"channel", r>> \notin Holders
    BY <1>0, <1>1, <1>3 DEF Holders, Sizing, Inside
  <1> QED BY <1>0, <1>2, <1>4, OneMore DEF CountInv, GivePool

LEMMA DropPoolKeepsCount ==
  ASSUME TypeOK, CountInv, NEW r \in Runners, DropPool(r)
  PROVE  CountInv' /\ <<"channel", r>> \in Holders
  <1>0. UNCHANGED <<held, pooled, tpc, rpc, numRunnersSized>> /\ Inside' = Inside /\ Sizing' = Sizing
    BY DEF DropPool, jobVars, progVars, Inside, Sizing
  <1>2. Sized' = Sized
    BY <1>0 DEF Sized
  <1>3. given' = given \ {r} /\ r \in given
    BY DEF DropPool
  <1>4. Holders' = Holders \ {<<"channel", r>>} /\ <<"channel", r>> \in Holders
    BY <1>0, <1>3 DEF Holders, Sizing, Inside
  <1> QED BY <1>0, <1>2, <1>4, OneLess DEF CountInv, DropPool, DropRef

LEMMA HoldKeepsCount ==
  ASSUME TypeOK, CountInv, NEW r \in Runners, SetPoolHold(r)
  PROVE  CountInv'
  <1>0. UNCHANGED <<held, given, pooled, tpc>> /\ Inside' = Inside
    BY DEF SetPoolHold, runVars, progVars, Inside
  <1>1. Sizing' = Sizing \cup {r} /\ r \notin Sizing
    BY DEF SetPoolHold, Sizing, TypeOK, RunnerTypes
  <1>2. Sized' = Sized \cup {<<"sizing", r>>} /\ <<"sizing", r>> \notin Sized
    BY <1>0, <1>1 DEF Sized
  <1>3. Holders' = Holders \cup {<<"sizing", r>>} /\ <<"sizing", r>> \notin Holders
    BY <1>0, <1>1 DEF Holders, Sizing, Inside
  <1> QED BY <1>2, <1>3, OneMore DEF CountInv, SetPoolHold

LEMMA FreeKeepsCount ==
  ASSUME TypeOK, CountInv, NEW r \in Runners, SetPoolFree(r) \/ RunnerFree(r)
  PROVE  CountInv' /\ (r \in pooled => <<"runner", r>> \in Holders)
  <1>0. UNCHANGED <<held, given, tpc>> /\ Inside' = Inside /\ pooled' = pooled \ {r}
    BY DEF SetPoolFree, RunnerFree, progVars, Inside
  <1>1. Sizing' = Sizing
    BY DEF SetPoolFree, RunnerFree, Sizing, TypeOK, RunnerTypes
  <1>2. CASE r \in pooled
    <2>1. Sized' = Sized \ {<<"runner", r>>} /\ <<"runner", r>> \in Sized
      BY <1>0, <1>1, <1>2 DEF Sized
    <2>2. Holders' = Holders \ {<<"runner", r>>} /\ <<"runner", r>> \in Holders
      BY <1>0, <1>1, <1>2 DEF Holders, Sizing, Inside
    <2>3. numRunnersSized' = numRunnersSized - 1 /\ DropRef
      BY <1>2 DEF SetPoolFree, RunnerFree
    <2> QED BY <2>1, <2>2, <2>3, OneLess DEF CountInv, DropRef
  <1>3. CASE r \notin pooled
    <2>1. Holders' = Holders /\ Sized' = Sized
      BY <1>0, <1>1, <1>3 DEF Holders, Sized, Sizing, Inside
    <2>2. UNCHANGED refs
      BY <1>3 DEF SetPoolFree, RunnerFree
    <2> QED BY <1>3, <2>1, <2>2 DEF CountInv, refs
  <1> QED BY <1>2, <1>3

LEMMA SizeKeepsCount ==
  ASSUME TypeOK, CountInv, CallInv, NEW r \in Runners, SetPoolSize(r)
  PROVE  CountInv'
  <1>0. UNCHANGED <<held, given, tpc, refs>> /\ Inside' = Inside /\ pooled' = pooled \cup {r}
        /\ r \notin pooled
    BY DEF SetPoolSize, progVars, Inside, CallInv
  <1>1. Sizing' = Sizing \ {r} /\ r \in Sizing
    BY DEF SetPoolSize, Sizing, TypeOK, RunnerTypes
  <1>2. ASSUME NEW S, NEW T, NEW x, NEW y, IsFiniteSet(S), x \in S, y \notin S, T = (S \ {x}) \cup {y}
        PROVE  IsFiniteSet(T) /\ Cardinality(T) = Cardinality(S)
    <2>1. IsFiniteSet(S \ {x}) /\ Cardinality(S \ {x}) = Cardinality(S) - 1
      BY <1>2, OneLess
    <2>2. y \notin S \ {x}
      BY <1>2
    <2>3. IsFiniteSet(T) /\ Cardinality(T) = Cardinality(S \ {x}) + 1
      BY <1>2, <2>1, <2>2, OneMore
    <2> QED BY <1>2, <2>1, <2>3, FS_CardinalityType
  <1>3. /\ Sized' = (Sized \ {<<"sizing", r>>}) \cup {<<"runner", r>>}
        /\ <<"sizing", r>> \in Sized /\ <<"runner", r>> \notin Sized
    BY <1>0, <1>1 DEF Sized
  <1>4. /\ Holders' = (Holders \ {<<"sizing", r>>}) \cup {<<"runner", r>>}
        /\ <<"sizing", r>> \in Holders /\ <<"runner", r>> \notin Holders
    BY <1>0, <1>1 DEF Holders, Sizing, Inside
  <1> QED BY <1>0, <1>2, <1>3, <1>4 DEF CountInv, refs

\* A set-up function, StopThreads and a runner's job take and drop no hold either.
LEMMA StopKeepsCount ==
  ASSUME TypeOK, StopInv, CountInv, InStopThreads \/ InSetUp \/ StartFails
  PROVE  CountInv'
  <1> USE OwnThreads DEF refs, joinVars, jobVars, runVars, progVars
  <1>1. CASE InStopThreads
    BY <1>1, RefsStay DEF InStopThreads, StopSet, StopSignal, StopJoin, StopClear
  <1>2. CASE IsInUse \/ Apply \/ ReturnFailure \/ StartFails
    BY <1>2, RefsStay DEF IsInUse, Apply, ReturnFailure, StartFails
  <1>3. CASE StartThread
    <2>1. set.numStarted + 1 \in Own
      BY <1>3, PoolAssumption DEF StartThread, StopInv, TypeOK, PoolTypes, Own
    <2>2. \A w \in Workers : tpc'[w] = tpc[w]
      BY <1>3, <2>1 DEF StartThread, TypeOK, ThreadTypes
    <2> QED BY <1>3, <2>2, RefsStay DEF StartThread
  <1> QED BY <1>1, <1>2, <1>3 DEF InSetUp

LEMMA WorkKeepsCount ==
  ASSUME TypeOK, CountInv, NEW t \in Threads,
         Work(t) \/ (t \in Own /\ OwnLoop(t)) \/ (t \in Workers /\ JoinLoop(t))
  PROVE  CountInv'
  <1> USE OwnThreads DEF refs, joinVars, jobVars, runVars, progVars, TypeOK, ThreadTypes
  <1>1. ASSUME tpc[t] # "off", UNCHANGED <<refs, held, given, pooled, rpc>>,
               \E s \in ThreadSteps : tpc' = [tpc EXCEPT ![t] = s] /\ (s = "off" => t \in Own)
        PROVE  CountInv'
    BY <1>1, RefsStay
  <1>2. CASE Work(t)
    <2>1. \E s \in ThreadSteps : tpc' = [tpc EXCEPT ![t] = s] /\ s # "off"
      BY <1>2 DEF Work, RunFunc, CountPiece, SetDone, WaitGo, ThreadSteps
    <2> QED BY <1>1, <1>2, <2>1 DEF Work, RunFunc, CountPiece, SetDone, WaitGo
  <1>3. CASE t \in Own /\ OwnLoop(t)
    <2>1. \E s \in ThreadSteps : tpc' = [tpc EXCEPT ![t] = s]
      BY <1>3 DEF OwnLoop, TakePiece, ThreadSteps
    <2> QED BY <1>1, <1>3, <2>1 DEF OwnLoop
  <1>4. CASE t \in Workers /\ JoinLoop(t)
    <2>1. \E s \in ThreadSteps : tpc' = [tpc EXCEPT ![t] = s] /\ s # "off"
      BY <1>4 DEF JoinLoop, TakePiece, ThreadSteps
    <2> QED BY <1>1, <1>4, <2>1 DEF JoinLoop
  <1> QED BY <1>2, <1>3, <1>4

LEMMA RunKeepsCount ==
  ASSUME TypeOK, CountInv, NEW r \in Runners,
         RunInCaller(r) \/ RunDispatched(r) \/ RunQueued(r) \/ InRun(r)
  PROVE  CountInv'
  <1>1. UNCHANGED <<refs, held, given, pooled, tpc>>
    BY DEF refs, runVars, progVars, RunInCaller, RunDispatched, RunQueued, InRun,
           InlinePiece, DispatchedPiece, RunReturns, SignalOwn, AwaitDone
  <1>2. \E s \in RunnerSteps \ {"hold", "size"} :
          rpc[r] \notin {"hold", "size"} /\ rpc' = [rpc EXCEPT ![r] = s]
    <2>1. UNCHANGED rpc => rpc' = [rpc EXCEPT ![r] = rpc[r]] /\ rpc[r] \in RunnerSteps
      BY DEF TypeOK, RunnerTypes
    <2> QED BY <2>1
         DEF RunInCaller, RunDispatched, RunQueued, InRun, InlinePiece, DispatchedPiece,
             RunReturns, SignalOwn, AwaitDone, RunnerSteps
  <1> QED BY <1>1, <1>2, RefsStay DEF TypeOK, RunnerTypes

LEMMA StepKeepsCount ==
  ASSUME TypeOK, StopInv, CountInv, CallInv, [Next]_vars
  PROVE  CountInv'
  <1>1. ASSUME NEW ws, Dismiss(ws) PROVE CountInv'
    BY <1>1, RefsStay DEF Dismiss, refs, runVars, progVars
  <1>2. ASSUME NEW wants, NEW n, SetUp(wants, n) PROVE CountInv'
    BY <1>2, RefsStay DEF SetUp, refs, joinVars, jobVars, runVars
  <1>3. CASE UNCHANGED vars
    BY <1>3, RefsStay DEF vars, refs, joinVars, jobVars, runVars, progVars
  <1>4. ASSUME NEW t \in Own, OwnThread(t) PROVE CountInv'
    BY <1>4, WorkKeepsCount, OwnThreads DEF OwnThread
  <1>5. ASSUME NEW w \in Workers, Join(w) \/ JoinedThread(w) PROVE CountInv'
    BY <1>5, WorkKeepsCount, JoinKeepsCount, JoinReturnsKeepsCount, OwnThreads DEF JoinedThread
  <1>6. ASSUME NEW r \in Runners,
               \/ GivePool(r) \/ DropPool(r) \/ SetPoolHold(r) \/ InSetPool(r) \/ RunnerFree(r)
               \/ RunInCaller(r) \/ RunDispatched(r) \/ RunQueued(r) \/ InRun(r)
        PROVE  CountInv'
    BY <1>6, GivePoolKeepsCount, DropPoolKeepsCount, HoldKeepsCount, FreeKeepsCount,
       SizeKeepsCount, RunKeepsCount DEF InSetPool
  <1> QED BY <1>1, <1>2, <1>3, <1>4, <1>5, <1>6, ProgramKeepsCount, StopKeepsCount DEF Next

LEMMA StepKeepsCall ==
  ASSUME TypeOK, CallInv, [Next]_vars
  PROVE  CallInv'
  <1> USE DEF refs, joinVars, jobVars, runVars, progVars
  <1>1. ASSUME UNCHANGED held \/ held' = 1, call' # Idle => call # Idle \/ held = 1
        PROVE  (call # Idle => held = 1)'
    BY <1>1 DEF CallInv
  <1>2. (call # Idle => held = 1)'
    <2>1. CASE Alloc \/ Free
      BY <2>1 DEF Alloc, Free
    <2>2. CASE InSetUp \/ StartFails
      BY <2>2, <1>1 DEF InSetUp, IsInUse, Apply, StartThread, ReturnFailure, StartFails, Idle
    <2>3. ASSUME NEW wants, NEW n, SetUp(wants, n) PROVE (call # Idle => held = 1)'
      BY <2>3, <1>1 DEF SetUp
    <2>4. CASE UNCHANGED progVars
      BY <2>4 DEF CallInv
    <2>5. CASE InStopThreads
      BY <2>5, <2>4 DEF InStopThreads, StopSet, StopSignal, StopJoin, StopClear
    <2>6. ASSUME NEW ws, Dismiss(ws) PROVE UNCHANGED progVars
      BY <2>6 DEF Dismiss
    <2>7. ASSUME NEW t, OwnThread(t) \/ Join(t) \/ JoinedThread(t) PROVE UNCHANGED progVars
      BY <2>7 DEF OwnThread, JoinedThread, Work, RunFunc, CountPiece, SetDone, WaitGo,
                  OwnLoop, Join, JoinLoop, JoinReturns
    <2>8. ASSUME NEW r,
                 \/ GivePool(r) \/ DropPool(r) \/ SetPoolHold(r) \/ InSetPool(r) \/ RunnerFree(r)
                 \/ RunInCaller(r) \/ RunDispatched(r) \/ RunQueued(r) \/ InRun(r)
          PROVE  UNCHANGED progVars
      BY <2>8 DEF GivePool, DropPool, SetPoolHold, InSetPool, SetPoolFree, SetPoolSize,
                  RunnerFree, RunInCaller, RunDispatched, RunQueued, InRun, InlinePiece,
                  DispatchedPiece, RunReturns, SignalOwn, AwaitDone
    <2>9. CASE UNCHANGED vars
      BY <2>9, <2>4 DEF vars
    <2> QED BY <2>1, <2>2, <2>3, <2>4, <2>5, <2>6, <2>7, <2>8, <2>9 DEF Next
  <1>3. ASSUME NEW q \in Runners, rpc'[q] = "size" PROVE q \notin pooled'
    <2>1. CASE UNCHANGED runVars /\ (rpc'[q] = "size" => rpc[q] = "size")
      BY <1>3, <2>1 DEF CallInv
    <2>2. CASE UNCHANGED <<runVars, rpc>>
      BY <2>1, <2>2
    <2>3. CASE Alloc \/ Free \/ InStopThreads \/ InSetUp \/ StartFails
      BY <2>2, <2>3 DEF Alloc, Free, InStopThreads, StopSet, StopSignal, StopJoin, StopClear,
                        InSetUp, IsInUse, Apply, StartThread, ReturnFailure, StartFails
    <2>4. ASSUME NEW ws, NEW wants, NEW n, Dismiss(ws) \/ SetUp(wants, n)
          PROVE  UNCHANGED <<runVars, rpc>>
      BY <2>4 DEF Dismiss, SetUp
    <2>5. ASSUME NEW t, OwnThread(t) \/ Join(t) \/ JoinedThread(t)
          PROVE  UNCHANGED <<runVars, rpc>>
      BY <2>5 DEF OwnThread, JoinedThread, Work, RunFunc, CountPiece, SetDone, WaitGo,
                  OwnLoop, Join, JoinLoop, JoinReturns
    <2>6. ASSUME NEW r \in Runners,
                 \/ GivePool(r) \/ DropPool(r) \/ SetPoolHold(r)
                 \/ RunInCaller(r) \/ RunDispatched(r) \/ RunQueued(r) \/ InRun(r)
          PROVE  q \notin pooled'
      <3>1. UNCHANGED pooled
        BY <2>6 DEF GivePool, DropPool, SetPoolHold, RunInCaller, RunDispatched, RunQueued,
                    InRun, InlinePiece, DispatchedPiece, RunReturns, SignalOwn, AwaitDone
      <3>2. rpc'[q] = "size" => rpc[q] = "size"
        BY <2>6 DEF GivePool, DropPool, SetPoolHold, RunInCaller, RunDispatched, RunQueued,
                    InRun, InlinePiece, DispatchedPiece, RunReturns, SignalOwn, AwaitDone,
                    TypeOK, RunnerTypes
      <3> QED BY <1>3, <3>1, <3>2 DEF CallInv
    <2>7. ASSUME NEW r \in Runners, SetPoolFree(r) \/ SetPoolSize(r) \/ RunnerFree(r)
          PROVE  q \notin pooled'
      <3>1. CASE q = r
        BY <1>3, <2>7, <3>1 DEF SetPoolFree, SetPoolSize, RunnerFree, TypeOK, RunnerTypes
      <3>2. CASE q # r
        BY <1>3, <2>7, <3>2 DEF SetPoolFree, SetPoolSize, RunnerFree, TypeOK, RunnerTypes, CallInv
      <3> QED BY <3>1, <3>2
    <2>8. CASE UNCHANGED vars
      BY <2>8, <2>2 DEF vars
    <2> QED BY <2>2, <2>3, <2>4, <2>5, <2>6, <2>7, <2>8 DEF Next, InSetPool
  <1> QED BY <1>2, <1>3 DEF CallInv

-------------------------------------------------------------------------------
(* The pool's own threads and StopThreads.                                 *)

LEMMA InitStop == Init => StopInv
  BY OwnThreads DEF Init, StopInv, NotSetUp, Idle, Stop

\* A step that leaves the set-up and StopThreads alone and starts no thread.
LEMMA StopStays ==
  ASSUME StopInv, UNCHANGED <<set, call, halt>>, \A t \in Own : tpc'[t] # "off" => tpc[t] # "off"
  PROVE  StopInv'
  BY DEF StopInv, Stop

\* While a set-up function runs the program holds the pool, so that no reference dropped
\* then is the last and nobody starts a second StopThreads.
LEMMA DropRefKeepsStop ==
  ASSUME StopInv, UNCHANGED <<set, call>>, \A t \in Own : tpc'[t] # "off" => tpc[t] # "off",
         DropRef, call # Idle => numRefs # 1
  PROVE  StopInv'
  <1>1. CASE numRefs # 1
    BY <1>1, StopStays DEF DropRef
  <1>2. CASE numRefs = 1
    <2>1. call = Idle /\ halt' = [step |-> "stop", i |-> 0] /\ ~Stop'
      BY <1>2 DEF DropRef, Stop
    <2> QED BY <2>1 DEF StopInv, Idle
  <1> QED BY <1>1, <1>2

LEMMA StopThreadsKeepsStop ==
  ASSUME TypeOK, StopInv, InStopThreads
  PROVE  StopInv'
  <1> USE DEF joinVars, jobVars, runVars, progVars, TypeOK, PoolTypes
  <1>0. Own \subseteq Nat
    BY OwnThreads
  <1>1. CASE StopSet
    BY <1>0, <1>1 DEF StopSet, StopInv, Stop, Own
  <1>2. CASE StopSignal
    BY <1>2 DEF StopSignal, StopInv, Stop
  <1>3. CASE StopJoin
    <2>1. \A t \in Own : tpc[t] # "off" => t >= halt.i /\ t # halt.i
      BY <1>3 DEF StopJoin, StopInv, Stop
    <2>2. \A t \in Own : tpc'[t] # "off" => t >= halt.i + 1
      BY <1>0, <1>3, <2>1 DEF StopJoin
    <2> QED BY <1>3, <2>2 DEF StopJoin, StopInv
  <1>4. CASE StopClear
    <2>1. \A t \in Own : tpc[t] = "off"
      BY <1>0, <1>4 DEF StopClear, StopInv, Stop
    <2> QED BY <1>4, <2>1 DEF StopClear, StopInv, NotSetUp, Stop
  <1> QED BY <1>1, <1>2, <1>3, <1>4 DEF InStopThreads

LEMMA StartThreadKeepsStop ==
  ASSUME TypeOK, StopInv, StartThread
  PROVE  StopInv'
  <1> DEFINE i == set.numStarted + 1
  <1>1. /\ set.numStarted \in Nat /\ set.numThreads \in 0..MaxThreads /\ halt.i \in Nat
        /\ set.numStarted < set.numThreads /\ halt.step = "off" /\ call.step = "starting"
        /\ call.count >= 2
    BY DEF TypeOK, PoolTypes, StartThread, StopInv
  <1>2. i \in Own
    BY <1>1, PoolAssumption DEF Own
  <1>3. tpc' = [tpc EXCEPT ![i] = "wait"] /\ halt' = halt
        /\ set' = [set EXCEPT !.numStarted = i] /\ call' = IF i = set.numThreads THEN Idle ELSE call
    BY DEF StartThread
  <1>4. /\ set'.numStarted = i /\ set'.numThreads = set.numThreads
        /\ call' = Idle \/ (call' = call /\ i < set.numThreads)
    BY <1>1, <1>3 DEF TypeOK, PoolTypes
  <1>5. \A t \in Own : tpc'[t] # "off" => t <= i
    BY <1>1, <1>2, <1>3, OwnThreads DEF StopInv, TypeOK, ThreadTypes
  <1> QED BY <1>1, <1>3, <1>4, <1>5 DEF StopInv, Stop, Idle

LEMMA SetUpKeepsStop ==
  ASSUME TypeOK, StopInv, CallInv,
         IsInUse \/ Apply \/ ReturnFailure \/ StartFails
         \/ (\E wants \in Setups, n \in 2..MaxThreads : SetUp(wants, n))
  PROVE  StopInv'
  <1> USE DEF joinVars, jobVars, runVars, progVars
  <1>1. CASE IsInUse
    <2>1. call.step \in {"joined", "check"} /\ tpc' = tpc /\ set' = set
      BY <1>1 DEF IsInUse
    <2>2. CASE call' = Idle /\ UNCHANGED halt
      BY <2>1, <2>2 DEF StopInv, Stop, Idle
    <2>3. CASE call' = [call EXCEPT !.step = "stopping"] /\ halt' = [step |-> "stop", i |-> 0]
      <3>1. call'.step = "stopping" /\ call'.count = call.count
        BY <2>3 DEF TypeOK, PoolTypes
      <3> QED BY <2>1, <2>3, <3>1 DEF StopInv, Stop
    <2> QED BY <1>1, <2>2, <2>3 DEF IsInUse
  <1>2. CASE Apply
    <2>1. call.step = "stopping" /\ halt.step = "off" /\ halt' = halt /\ tpc' = tpc
          /\ set.numStarted = 0 /\ call.count >= 2 /\ call.count \in 0..MaxThreads
      BY <1>2 DEF Apply, StopInv, TypeOK, PoolTypes
    <2>2. \A t \in Own : tpc[t] = "off"
      BY <2>1, PoolAssumption DEF StopInv, Own
    <2>3. CASE call' = Idle
      BY <2>1, <2>2, <2>3 DEF StopInv, Stop, Idle
    <2>4. CASE /\ set' = [mode |-> ModeOf[call.wants], numThreads |-> call.count,
                          numStarted |-> 0]
               /\ call' = [call EXCEPT !.step = "starting"]
      <3>1. call'.step = "starting" /\ call'.count = call.count
        BY <2>4 DEF TypeOK, PoolTypes
      <3>2. set'.numStarted = 0 /\ set'.numThreads = call.count
        BY <2>4
      <3> QED BY <2>1, <2>2, <3>1, <3>2 DEF StopInv, Stop
    <2> QED BY <1>2, <2>3, <2>4 DEF Apply
  <1>3. CASE ReturnFailure
    BY <1>3 DEF ReturnFailure, StopInv, Stop, Idle
  <1>4. CASE StartFails
    <2>1. call'.step = "failed" /\ halt'.step = "stop" /\ set' = set /\ tpc' = tpc
      BY <1>4 DEF StartFails, TypeOK, PoolTypes
    <2> QED BY <2>1 DEF StopInv, Stop
  <1>5. ASSUME NEW wants \in Setups, NEW n \in 2..MaxThreads, SetUp(wants, n)
        PROVE  StopInv'
    <2>1. call'.step \in {"check", "joined"} /\ call'.count = n
          /\ UNCHANGED <<set, halt, tpc>>
      BY <1>5 DEF SetUp
    <2> QED BY <2>1 DEF StopInv, Stop
  <1> QED BY <1>1, <1>2, <1>3, <1>4, <1>5

LEMMA StepKeepsStop ==
  ASSUME TypeOK, StopInv, CountInv, CallInv, [Next]_vars
  PROVE  StopInv'
  <1> USE DEF joinVars, jobVars, runVars, progVars
  <1>1. CASE Alloc
    BY <1>1, StopStays DEF Alloc
  <1>2. CASE Free
    BY <1>2, DropRefKeepsStop DEF Free
  <1>3. ASSUME NEW ws, Dismiss(ws) PROVE StopInv'
    BY <1>3, StopStays DEF Dismiss
  <1>4. ASSUME NEW t \in Threads, Work(t) PROVE StopInv'
    <2>1. \A u \in Own : tpc'[u] # "off" => tpc[u] # "off"
      BY <1>4, OwnThreads DEF Work, RunFunc, CountPiece, SetDone, WaitGo, TypeOK, ThreadTypes
    <2> QED BY <1>4, <2>1, StopStays DEF Work, RunFunc, CountPiece, SetDone, WaitGo
  <1>5. ASSUME NEW t \in Own, OwnLoop(t) PROVE StopInv'
    <2>1. \A u \in Own : tpc'[u] # "off" => tpc[u] # "off"
      BY <1>5, OwnThreads DEF OwnLoop, TakePiece, TypeOK, ThreadTypes
    <2> QED BY <1>5, <2>1, StopStays DEF OwnLoop
  <1>6. ASSUME NEW w \in Workers, Join(w) \/ JoinLoop(w) \/ JoinReturns(w) PROVE StopInv'
    <2>1. \A u \in Own : tpc'[u] # "off" => tpc[u] # "off"
      BY <1>6, OwnThreads DEF Join, JoinLoop, JoinReturns, TakePiece, TypeOK, ThreadTypes
    <2>2. CASE Join(w) \/ JoinLoop(w)
      BY <2>1, <2>2, StopStays DEF Join, JoinLoop
    <2>3. CASE JoinReturns(w)
      <3>1. call # Idle => numRefs # 1
        BY <2>3, JoinReturnsKeepsCount, NotTheLast DEF CallInv
      <3> QED BY <2>1, <2>3, <3>1, DropRefKeepsStop DEF JoinReturns
    <2> QED BY <1>6, <2>2, <2>3
  <1>7. ASSUME NEW r \in Runners, DropPool(r) PROVE StopInv'
    <2>1. call # Idle => numRefs # 1
      BY <1>7, DropPoolKeepsCount, NotTheLast DEF CallInv
    <2> QED BY <1>7, <2>1, DropRefKeepsStop DEF DropPool
  <1>8. ASSUME NEW r \in Runners, SetPoolFree(r) \/ RunnerFree(r) PROVE StopInv'
    <2>1. CASE r \in pooled
      <3>1. call # Idle => numRefs # 1
        BY <1>8, <2>1, FreeKeepsCount, NotTheLast DEF CallInv
      <3> QED BY <1>8, <2>1, <3>1, DropRefKeepsStop DEF SetPoolFree, RunnerFree
    <2>2. CASE r \notin pooled
      BY <1>8, <2>2, StopStays DEF SetPoolFree, RunnerFree
    <2> QED BY <2>1, <2>2
  <1>9. ASSUME NEW r,
               \/ GivePool(r) \/ SetPoolHold(r) \/ SetPoolSize(r)
               \/ RunInCaller(r) \/ RunDispatched(r) \/ RunQueued(r) \/ InRun(r)
        PROVE  StopInv'
    BY <1>9, StopStays DEF GivePool, SetPoolHold, SetPoolSize, RunInCaller, RunDispatched,
       RunQueued, InRun, InlinePiece, DispatchedPiece, RunReturns, SignalOwn, AwaitDone
  <1>10. CASE UNCHANGED vars
    BY <1>10, StopStays DEF vars
  <1> QED BY <1>1, <1>2, <1>3, <1>4, <1>5, <1>6, <1>7, <1>8, <1>9, <1>10, OwnThreads,
             StopThreadsKeepsStop, StartThreadKeepsStop, SetUpKeepsStop
          DEF Next, InSetUp, OwnThread, JoinedThread, InSetPool

-------------------------------------------------------------------------------
(* The jobs and their pieces.                                              *)

LEMMA HoldingIsFinite ==
  ASSUME NEW r
  PROVE  /\ IsFiniteSet(Holding(r)) /\ Cardinality(Holding(r)) \in Nat
         /\ IsFiniteSet(Holding(r)') /\ Cardinality(Holding(r)') \in Nat
  <1>1. IsFiniteSet(Threads)
    <2>1. IsFiniteSet(Own)
      BY PoolAssumption, FS_Interval, 1 \in Int, MaxThreads \in Int DEF Own
    <2> QED BY <2>1, PoolAssumption, FS_Union DEF Threads
  <1>2. Holding(r) \subseteq Threads /\ Holding(r)' \subseteq Threads
    BY DEF Holding
  <1> QED BY <1>1, <1>2, FS_Subset, FS_CardinalityType

LEMMA InitJobs == Init => JobInv
  BY DEF Init, JobInv, QueueOnce, RunnerInv, InQueuedRun, NoTrace, Queued, Holding, Setting

\* A step that leaves a runner's job, and the threads that work on it, alone.
LEMMA RunnerStays ==
  ASSUME NEW r \in Runners, RunnerInv(r), InQueuedRun(r)' <=> InQueuedRun(r),
         r \in Queued' <=> r \in Queued, r \in done' <=> r \in done,
         Holding(r)' = Holding(r), Setting(r)' = Setting(r),
         InQueuedRun(r) => /\ UNCHANGED <<job[r], numPieces[r], ran[r]>>
                           /\ \A t \in Holding(r) : UNCHANGED <<tpc[t], task[t]>>
  PROVE  RunnerInv(r)'
  <1>1. CASE InQueuedRun(r)
    <2>1. Counted(r)'
      BY <1>1 DEF RunnerInv, Counted
    <2>2. Taken(r)'
      BY <1>1 DEF RunnerInv, Taken
    <2> QED BY <1>1, <2>1, <2>2 DEF RunnerInv
  <1>2. CASE ~InQueuedRun(r)
    BY <1>2 DEF RunnerInv, NoTrace
  <1> QED BY <1>1, <1>2

\* Threads that work on no piece move.
LEMMA ThreadsStay ==
  ASSUME NEW r,
         \A t \in Threads : \/ UNCHANGED <<tpc[t], task[t]>>
                            \/ tpc[t] \notin Working /\ tpc'[t] \notin Working
                            \/ /\ tpc[t] \in Working => task[t].runner # r
                               /\ tpc'[t] \in Working => task'[t].runner # r
  PROVE  /\ Holding(r)' = Holding(r) /\ Setting(r)' = Setting(r)
         /\ \A t \in Holding(r) : UNCHANGED <<tpc[t], task[t]>>
  BY DEF Holding, Setting, Working

LEMMA JobsStay ==
  ASSUME JobInv, UNCHANGED <<queue, job, done, numPieces, ran>>,
         \A r \in Runners : InQueuedRun(r)' <=> InQueuedRun(r),
         \A t \in Threads : \/ UNCHANGED <<tpc[t], task[t]>>
                            \/ tpc[t] \notin Working /\ tpc'[t] \notin Working
  PROVE  JobInv'
  <1>1. ASSUME NEW r \in Runners PROVE RunnerInv(r)'
    BY ThreadsStay, RunnerStays DEF JobInv, Queued
  <1> QED BY <1>1 DEF JobInv, QueueOnce

\* A runner outside RunQueued is configured, or runs a job without the queue.
LEMMA OtherRunsKeepJobs ==
  ASSUME TypeOK, JobInv, NEW r \in Runners,
         ~InQueuedRun(r), ~InQueuedRun(r)', UNCHANGED <<queue, job, tpc, task>>,
         done' \in {done, done \ {r}},
         \A q \in Runners \ {r} : UNCHANGED <<rpc[q], numPieces[q], ran[q]>>
  PROVE  JobInv'
  <1>1. ASSUME NEW q \in Runners PROVE RunnerInv(q)'
    <2>1. CASE q = r
      BY <2>1 DEF JobInv, RunnerInv, NoTrace, Queued, Holding, Setting
    <2>2. CASE q # r
      BY <2>2, ThreadsStay, RunnerStays DEF JobInv, InQueuedRun, Queued
    <2> QED BY <2>1, <2>2
  <1> QED BY <1>1 DEF JobInv, QueueOnce

LEMMA RunFuncKeepsJobs ==
  ASSUME TypeOK, JobInv, NEW t \in Threads, RunFunc(t)
  PROVE  JobInv'
  <1>1. PICK r \in Runners, p \in Nat : r = task[t].runner /\ p = task[t].piece /\ t \in Holding(r)
    BY DEF RunFunc, TypeOK, ThreadTypes, Holding
  <1>2. InQueuedRun(r) /\ Counted(r) /\ Taken(r)
    BY <1>1 DEF JobInv, RunnerInv, NoTrace
  <1>3. UNCHANGED <<queue, job, done, numPieces, rpc, task>> /\ Queued' = Queued
    BY DEF RunFunc, runVars, Queued
  <1>4. tpc[t] = "run" /\ tpc' = [tpc EXCEPT ![t] = "count"] /\ tpc \in [Threads -> ThreadSteps]
    BY DEF RunFunc, TypeOK, ThreadTypes
  <1>5. ran[r] \subseteq Nat /\ ran'[r] = ran[r] \cup {p} /\ \A q \in Runners \ {r} : ran'[q] = ran[q]
    BY <1>1 DEF RunFunc, TypeOK, RunnerTypes
  <1>6. ASSUME NEW q \in Runners, q # r PROVE RunnerInv(q)'
    <2>1. \A u \in Threads : \/ UNCHANGED <<tpc[u], task[u]>>
                             \/ task[u].runner # q /\ task'[u].runner # q
      BY <1>1, <1>3, <1>4, <1>6
    <2>2. /\ Holding(q)' = Holding(q) /\ Setting(q)' = Setting(q)
          /\ \A u \in Holding(q) : UNCHANGED <<tpc[u], task[u]>>
      BY <2>1, ThreadsStay
    <2> QED BY <1>3, <1>5, <1>6, <2>2, RunnerStays DEF JobInv, InQueuedRun
  <1>7. Holding(r)' = Holding(r) /\ Setting(r)' = Setting(r)
    BY <1>1, <1>3, <1>4 DEF Holding, Setting
  <1>8. Counted(r)'
    BY <1>2, <1>3, <1>7 DEF Counted
  <1>9. Taken(r)'
    <2>1. ASSUME NEW x \in Nat
          PROVE  x \in ran'[r] <=>
                   x < job[r].nextPiece /\ \A u \in Holding(r) : tpc'[u] = "run" => task[u].piece # x
      <3>1. CASE x = p
        <4>1. \A u \in Holding(r) : tpc'[u] = "run" => u # t
          BY <1>4 DEF Holding
        <4>2. \A u \in Holding(r) : tpc'[u] = "run" => task[u].piece # p
          BY <1>1, <1>2, <4>1 DEF Taken
        <4> QED BY <1>1, <1>2, <1>5, <3>1, <4>2 DEF Taken
      <3>2. CASE x # p
        <4>1. x \in ran'[r] <=> x \in ran[r]
          BY <1>5, <3>2
        <4>2. ASSUME NEW u \in Holding(r)
              PROVE  (tpc'[u] = "run" => task[u].piece # x) <=> (tpc[u] = "run" => task[u].piece # x)
          BY <1>1, <1>4, <3>2 DEF Holding
        <4> QED BY <1>2, <4>1, <4>2 DEF Taken
      <3> QED BY <3>1, <3>2
    <2> QED BY <1>2, <1>3, <1>7, <2>1 DEF Taken
  <1>10. RunnerInv(r)'
    BY <1>2, <1>3, <1>8, <1>9 DEF RunnerInv, InQueuedRun
  <1> QED BY <1>3, <1>6, <1>10 DEF JobInv, QueueOnce

LEMMA CountPieceKeepsJobs ==
  ASSUME TypeOK, JobInv, NEW t \in Threads, CountPiece(t)
  PROVE  JobInv'
  <1>1. PICK r \in Runners, n \in Nat :
          r = task[t].runner /\ n = job[r].numFinished + 1 /\ t \in Holding(r) /\ tpc[t] = "count"
    BY DEF CountPiece, TypeOK, ThreadTypes, RunnerTypes, Holding
  <1>2. InQueuedRun(r) /\ Counted(r) /\ Taken(r)
    BY <1>1 DEF JobInv, RunnerInv, NoTrace
  <1>3. UNCHANGED <<queue, done, numPieces, rpc, ran>> /\ Queued' = Queued
    BY DEF CountPiece, runVars, Queued
  <1>4. \A u \in Threads \ {t} : UNCHANGED <<tpc[u], task[u]>>
    BY DEF CountPiece, TypeOK, ThreadTypes
  <1>5. /\ job'[r] = [job[r] EXCEPT !.numFinished = n]
        /\ \A q \in Runners \ {r} : job'[q] = job[q]
    BY <1>1 DEF CountPiece, TypeOK, RunnerTypes
  <1>6. /\ job[r] \in [numPieces : Nat, nextPiece : Nat, numFinished : Nat] /\ numPieces[r] \in Nat
        /\ job'[r].numPieces = job[r].numPieces /\ job'[r].nextPiece = job[r].nextPiece
        /\ job'[r].numFinished = n
    BY <1>1, <1>5 DEF TypeOK, RunnerTypes
  <1>7. /\ n = job[r].numPieces => tpc'[t] = "set" /\ task'[t].runner = r
        /\ n # job[r].numPieces => tpc'[t] = "loop"
    BY <1>1 DEF CountPiece, TypeOK, ThreadTypes
  <1>8. ASSUME NEW q \in Runners, q # r PROVE RunnerInv(q)'
    <2>1. \A u \in Threads : \/ UNCHANGED <<tpc[u], task[u]>>
                             \/ tpc[u] \notin Working /\ tpc'[u] \notin Working
                             \/ /\ tpc[u] \in Working => task[u].runner # q
                                /\ tpc'[u] \in Working => task'[u].runner # q
      BY <1>1, <1>4, <1>7, <1>8 DEF Working
    <2>2. /\ Holding(q)' = Holding(q) /\ Setting(q)' = Setting(q)
          /\ \A u \in Holding(q) : UNCHANGED <<tpc[u], task[u]>>
      BY <2>1, ThreadsStay
    <2> QED BY <1>3, <1>5, <1>8, <2>2, RunnerStays DEF JobInv, InQueuedRun
  <1>9. Holding(r)' = Holding(r) \ {t}
    BY <1>1, <1>4, <1>7 DEF Holding
  <1>10. /\ Cardinality(Holding(r)') = Cardinality(Holding(r)) - 1
         /\ Cardinality(Holding(r)) \in Nat /\ Cardinality(Holding(r)') \in Nat
    BY <1>1, <1>9, HoldingIsFinite, OneLess
  <1>11. n <= job[r].nextPiece /\ n <= numPieces[r]
    BY <1>1, <1>2, <1>6, <1>10 DEF Counted
  <1>12. job[r].numFinished # numPieces[r] /\ Setting(r) = {} /\ r \notin done
    BY <1>1, <1>2, <1>6, <1>11 DEF Counted
  <1>13. /\ n = numPieces[r] => Setting(r)' = {t}
         /\ n # numPieces[r] => Setting(r)' = {}
    BY <1>1, <1>2, <1>4, <1>7, <1>12 DEF Setting, Counted
  <1>14. Counted(r)'
    <2>1. (r \in done \/ Setting(r)' # {}) <=> n = numPieces[r]
      BY <1>12, <1>13
    <2>2. \A u, v \in Setting(r)' : u = v
      BY <1>13
    <2> QED BY <1>1, <1>2, <1>3, <1>6, <1>10, <1>12, <2>1, <2>2 DEF Counted
  <1>15. Taken(r)'
    <2>1. \A u \in Holding(r)' : u \in Holding(r) /\ tpc'[u] = tpc[u] /\ task'[u] = task[u]
      BY <1>4, <1>9 DEF Holding
    <2>2. \A u \in Holding(r) : tpc[u] = "run" => u \in Holding(r)'
      BY <1>1, <1>9
    <2> QED BY <1>2, <1>3, <1>6, <2>1, <2>2 DEF Taken
  <1>16. RunnerInv(r)'
    BY <1>2, <1>3, <1>14, <1>15 DEF RunnerInv, InQueuedRun
  <1> QED BY <1>3, <1>8, <1>16 DEF JobInv, QueueOnce

LEMMA SetDoneKeepsJobs ==
  ASSUME TypeOK, JobInv, NEW t \in Threads, SetDone(t)
  PROVE  JobInv'
  <1>1. PICK r \in Runners : r = task[t].runner /\ t \in Setting(r)
    BY DEF SetDone, TypeOK, ThreadTypes, Setting
  <1>2. InQueuedRun(r) /\ Counted(r) /\ Taken(r)
    BY <1>1 DEF JobInv, RunnerInv, NoTrace
  <1>3. UNCHANGED <<queue, job, numPieces, rpc, ran>> /\ Queued' = Queued /\ done' = done \cup {r}
    BY <1>1 DEF SetDone, runVars, Queued
  <1>4. /\ \A u \in Threads \ {t} : UNCHANGED <<tpc[u], task[u]>>
        /\ tpc[t] = "set" /\ tpc'[t] = "loop"
    BY DEF SetDone, TypeOK, ThreadTypes
  <1>5. ASSUME NEW q \in Runners, q # r PROVE RunnerInv(q)'
    <2>1. \A u \in Threads : \/ UNCHANGED <<tpc[u], task[u]>>
                             \/ /\ tpc[u] \in Working => task[u].runner # q
                                /\ tpc'[u] \in Working => task'[u].runner # q
      BY <1>1, <1>4, <1>5 DEF Working
    <2>2. /\ Holding(q)' = Holding(q) /\ Setting(q)' = Setting(q)
          /\ \A u \in Holding(q) : UNCHANGED <<tpc[u], task[u]>>
      BY <2>1, ThreadsStay
    <2> QED BY <1>3, <1>5, <2>2, RunnerStays DEF JobInv, InQueuedRun
  <1>6. Holding(r)' = Holding(r) /\ \A u \in Holding(r) : UNCHANGED <<tpc[u], task[u]>>
    BY <1>4 DEF Holding
  <1>7. Setting(r)' = {}
    BY <1>1, <1>2, <1>4 DEF Setting, Counted
  <1>8. Counted(r)'
    BY <1>1, <1>2, <1>3, <1>6, <1>7 DEF Counted
  <1>9. Taken(r)'
    BY <1>2, <1>3, <1>6 DEF Taken
  <1>10. RunnerInv(r)'
    BY <1>2, <1>3, <1>8, <1>9 DEF RunnerInv, InQueuedRun
  <1> QED BY <1>3, <1>5, <1>10 DEF JobInv, QueueOnce

LEMMA TakePieceKeepsJobs ==
  ASSUME TypeOK, JobInv, NEW t \in Threads, tpc[t] = "loop", queue # <<>>, TakePiece(t),
         UNCHANGED <<done, numPieces, rpc, ran>>
  PROVE  JobInv'
  <1>0. queue \in Seq(Runners) /\ Len(queue) \in Nat /\ Len(queue) >= 1
    BY DEF TypeOK, RunnerTypes
  <1>1. PICK r \in Runners, p \in Nat :
          r = Head(queue) /\ r = queue[1] /\ p = job[r].nextPiece /\ r \in Queued
    <2>1. Head(queue) = queue[1] /\ 1 \in DOMAIN queue /\ queue[1] \in Runners
      BY <1>0
    <2>2. job[queue[1]].nextPiece \in Nat
      BY <2>1 DEF TypeOK, RunnerTypes
    <2> QED BY <2>1, <2>2 DEF Queued
  <1>2. InQueuedRun(r) /\ Counted(r) /\ Taken(r)
    BY <1>0, <1>1 DEF JobInv, RunnerInv, NoTrace
  <1>3. /\ \A u \in Threads \ {t} : UNCHANGED <<tpc[u], task[u]>>
        /\ tpc'[t] = "run" /\ task'[t] = [runner |-> r, piece |-> p]
    BY <1>1 DEF TakePiece, TypeOK, ThreadTypes
  <1>4. /\ job'[r] = [job[r] EXCEPT !.nextPiece = p + 1]
        /\ \A q \in Runners \ {r} : job'[q] = job[q]
    BY <1>1 DEF TakePiece, TypeOK, RunnerTypes
  <1>5. /\ job[r] \in [numPieces : Nat, nextPiece : Nat, numFinished : Nat] /\ numPieces[r] \in Nat
        /\ job'[r].numPieces = job[r].numPieces /\ job'[r].nextPiece = p + 1
        /\ job'[r].numFinished = job[r].numFinished
    BY <1>4 DEF TypeOK, RunnerTypes
  <1>6. /\ Tail(queue) \in Seq(Runners) /\ Len(Tail(queue)) = Len(queue) - 1
        /\ \A i \in 1..Len(queue) - 1 : Tail(queue)[i] = queue[i + 1]
    BY <1>0, <1>1
  <1>7. QueueOnce' /\ Queued' = IF p + 1 = numPieces[r] THEN Queued \ {r} ELSE Queued
    <2>1. CASE p + 1 = numPieces[r]
      <3>1. queue' = Tail(queue)
        BY <1>1, <1>2, <2>1 DEF TakePiece, Counted
      <3>2. QueueOnce'
        BY <1>0, <1>1, <1>6, <3>1 DEF JobInv, QueueOnce
      <3>3. Queued' = Queued \ {r}
        <4>1. ASSUME NEW q \in Queued' PROVE q \in Queued \ {r}
          <5>1. PICK i \in 1..Len(queue) - 1 : q = queue[i + 1]
            BY <1>0, <1>1, <1>6, <3>1 DEF Queued
          <5>2. i + 1 \in DOMAIN queue /\ 1 \in DOMAIN queue /\ i + 1 # 1
            BY <1>0, <1>1
          <5> QED BY <1>0, <1>1, <5>1, <5>2 DEF Queued, JobInv, QueueOnce
        <4>2. ASSUME NEW q \in Queued, q # r PROVE q \in Queued'
          <5>1. PICK i \in 1..Len(queue) : q = queue[i]
            BY <1>0, <1>1 DEF Queued
          <5>2. i - 1 \in 1..Len(queue) - 1 /\ Tail(queue)[i - 1] = q
            BY <1>0, <1>1, <1>6, <4>2, <5>1
          <5>3. i - 1 \in DOMAIN queue' /\ queue'[i - 1] = q
            BY <1>0, <1>1, <1>6, <3>1, <5>2
          <5> QED BY <5>3 DEF Queued
        <4> QED BY <4>1, <4>2
      <3> QED BY <2>1, <3>2, <3>3
    <2>2. CASE p + 1 # numPieces[r]
      <3>1. queue' = queue
        BY <1>1, <1>2, <2>2 DEF TakePiece, Counted
      <3> QED BY <2>2, <3>1 DEF JobInv, QueueOnce, Queued
    <2> QED BY <2>1, <2>2
  <1>8. ASSUME NEW q \in Runners, q # r PROVE RunnerInv(q)'
    <2>1. \A u \in Threads : \/ UNCHANGED <<tpc[u], task[u]>>
                             \/ /\ tpc[u] \in Working => task[u].runner # q
                                /\ tpc'[u] \in Working => task'[u].runner # q
      BY <1>3, <1>8 DEF Working
    <2>2. /\ Holding(q)' = Holding(q) /\ Setting(q)' = Setting(q)
          /\ \A u \in Holding(q) : UNCHANGED <<tpc[u], task[u]>>
      BY <2>1, ThreadsStay
    <2> QED BY <1>4, <1>7, <1>8, <2>2, RunnerStays DEF JobInv, InQueuedRun
  <1>9. Holding(r)' = Holding(r) \cup {t} /\ t \notin Holding(r)
    BY <1>3 DEF Holding
  <1>10. /\ Cardinality(Holding(r)') = Cardinality(Holding(r)) + 1
         /\ Cardinality(Holding(r)) \in Nat
    BY <1>9, HoldingIsFinite, OneMore
  <1>11. Setting(r)' = Setting(r)
    BY <1>3 DEF Setting
  <1>12. p < numPieces[r]
    BY <1>0, <1>1, <1>2 DEF Counted
  <1>13. Counted(r)'
    <2>1. r \in Queued' <=> p + 1 < numPieces[r]
      BY <1>1, <1>5, <1>7, <1>12
    <2>2. job[r].numFinished + Cardinality(Holding(r)') = p + 1
      BY <1>1, <1>2, <1>5, <1>10, SMTT(30) DEF Counted
    <2>3. p + 1 <= numPieces[r]
      BY <1>5, <1>12
    <2> QED BY <1>2, <1>5, <1>11, <2>1, <2>2, <2>3 DEF Counted
  <1>14. Taken(r)'
    <2>1. \A u \in Holding(r) : tpc'[u] = tpc[u] /\ task'[u] = task[u] /\ task[u].piece < p
      BY <1>1, <1>2, <1>3, <1>9 DEF Holding, Taken
    <2>2. \A u \in Holding(r) : task[u].piece \in Nat
      BY DEF Holding, TypeOK, ThreadTypes
    <2>3. \A u \in Holding(r)' : task'[u].piece < p + 1
      BY <1>3, <1>5, <1>9, <2>1, <2>2
    <2>4. \A u, v \in Holding(r)' : task'[u].piece = task'[v].piece => u = v
      BY <1>2, <1>3, <1>5, <1>9, <2>1, <2>2 DEF Taken
    <2>5. ASSUME NEW x \in Nat
          PROVE  x \in ran[r] <=>
                   x < p + 1 /\ \A u \in Holding(r)' : tpc'[u] = "run" => task'[u].piece # x
      <3>1. CASE x = p
        BY <1>1, <1>2, <1>3, <1>9, <2>1, <3>1 DEF Taken
      <3>2. CASE x # p
        <4>1. (\A u \in Holding(r)' : tpc'[u] = "run" => task'[u].piece # x)
                <=> (\A u \in Holding(r) : tpc[u] = "run" => task[u].piece # x)
          BY <1>3, <1>9, <2>1, <3>2
        <4> QED BY <1>1, <1>2, <1>5, <3>2, <4>1 DEF Taken
      <3> QED BY <3>1, <3>2
    <2> QED BY <1>5, <2>3, <2>4, <2>5 DEF Taken
  <1>15. RunnerInv(r)'
    BY <1>2, <1>13, <1>14 DEF RunnerInv, InQueuedRun
  <1> QED BY <1>7, <1>8, <1>15 DEF JobInv

LEMMA RunQueuedKeepsJobs ==
  ASSUME TypeOK, JobInv, NEW r \in Runners, RunQueued(r)
  PROVE  JobInv'
  <1>1. ~InQueuedRun(r) /\ InQueuedRun(r)' /\ NoTrace(r)
    BY DEF RunQueued, TypeOK, RunnerTypes, InQueuedRun, JobInv, RunnerInv
  <1>2. UNCHANGED <<tpc, task, done, numPieces>> /\ queue' = Append(queue, r)
    BY DEF RunQueued, runVars
  <1>3. /\ queue \in Seq(Runners) /\ Len(queue) \in Nat /\ queue' \in Seq(Runners)
        /\ Len(queue') = Len(queue) + 1 /\ queue'[Len(queue) + 1] = r
        /\ \A i \in 1..Len(queue) : queue'[i] = queue[i]
    BY <1>2 DEF TypeOK, RunnerTypes
  <1>4. Queued' = Queued \cup {r}
    <2>1. Queued' \subseteq Queued \cup {r}
      BY <1>3 DEF Queued
    <2>2. ASSUME NEW q \in Queued PROVE q \in Queued'
      <3>1. PICK i \in 1..Len(queue) : q = queue[i]
        BY <1>3 DEF Queued
      <3>2. i \in DOMAIN queue' /\ queue'[i] = q
        BY <1>3, <3>1
      <3> QED BY <3>2 DEF Queued
    <2>3. r \in Queued'
      <3>1. Len(queue) + 1 \in DOMAIN queue'
        BY <1>3
      <3> QED BY <1>3, <3>1 DEF Queued
    <2> QED BY <2>1, <2>2, <2>3
  <1>5. QueueOnce'
    <2>1. \A i \in 1..Len(queue) : queue[i] # r
      BY <1>1, <1>3 DEF NoTrace, Queued
    <2> QED BY <1>3, <2>1 DEF JobInv, QueueOnce
  <1>6. ASSUME NEW q \in Runners, q # r PROVE RunnerInv(q)'
    <2>1. UNCHANGED <<rpc[q], job[q], ran[q]>>
      BY <1>6 DEF RunQueued, TypeOK, RunnerTypes
    <2>2. /\ Holding(q)' = Holding(q) /\ Setting(q)' = Setting(q)
          /\ \A u \in Holding(q) : UNCHANGED <<tpc[u], task[u]>>
      BY <1>2, ThreadsStay
    <2> QED BY <1>2, <1>4, <1>6, <2>1, <2>2, RunnerStays DEF JobInv, InQueuedRun
  <1>7. /\ job'[r].numPieces = numPieces[r] /\ job'[r].nextPiece = 0 /\ job'[r].numFinished = 0
        /\ ran'[r] = {} /\ numPieces[r] \in Nat \ {0}
    <2>1. [NoJob EXCEPT !.numPieces = numPieces[r]]
            = [numPieces |-> numPieces[r], nextPiece |-> 0, numFinished |-> 0]
      BY DEF NoJob
    <2>2. job'[r] = [NoJob EXCEPT !.numPieces = numPieces[r]] /\ ran'[r] = {}
      BY DEF RunQueued, TypeOK, RunnerTypes
    <2>3. numPieces[r] \in 1..MaxThreads
      BY DEF TypeOK, RunnerTypes
    <2> QED BY <2>1, <2>2, <2>3, PoolAssumption
  <1>8. Holding(r)' = {} /\ Setting(r)' = {} /\ Cardinality({}) = 0
    BY <1>1, <1>2, FS_EmptySet DEF NoTrace, Holding, Setting
  <1>9. Counted(r)'
    BY <1>1, <1>2, <1>4, <1>7, <1>8 DEF NoTrace, Counted
  <1>10. Taken(r)'
    BY <1>7, <1>8 DEF Taken
  <1>11. RunnerInv(r)'
    BY <1>1, <1>9, <1>10 DEF RunnerInv
  <1> QED BY <1>5, <1>6, <1>11 DEF JobInv

\* What is true of a job when its event is set: nobody works on it any more, and all its
\* pieces have run.
LEMMA DoneMeansDone ==
  ASSUME TypeOK, JobInv, NEW r \in Runners, InQueuedRun(r), r \in done
  PROVE  /\ Holding(r) = {} /\ Setting(r) = {} /\ r \notin Queued
         /\ 0..numPieces[r] - 1 \subseteq ran[r]
  <1>1. Counted(r) /\ Taken(r)
    BY DEF JobInv, RunnerInv
  <1>2. /\ job[r].nextPiece \in Nat /\ job[r].numFinished \in Nat /\ numPieces[r] \in Nat
        /\ Cardinality(Holding(r)) \in Nat /\ IsFiniteSet(Holding(r))
    BY HoldingIsFinite DEF TypeOK, RunnerTypes
  <1>3. Cardinality(Holding(r)) = 0 /\ job[r].nextPiece = numPieces[r]
    BY <1>1, <1>2 DEF Counted
  <1>4. Holding(r) = {}
    BY <1>2, <1>3, FS_EmptySet
  <1>5. 0..numPieces[r] - 1 \subseteq ran[r]
    BY <1>1, <1>2, <1>3, <1>4 DEF Taken
  <1> QED BY <1>1, <1>2, <1>3, <1>4, <1>5 DEF Counted

LEMMA AwaitDoneKeepsJobs ==
  ASSUME TypeOK, JobInv, NEW r \in Runners, AwaitDone(r)
  PROVE  JobInv'
  <1>1. InQueuedRun(r) /\ r \in done /\ ~InQueuedRun(r)'
    BY DEF AwaitDone, InQueuedRun, TypeOK, RunnerTypes
  <1>2. UNCHANGED <<queue, tpc, task, numPieces, ran>> /\ done' = done \ {r}
    BY DEF AwaitDone, runVars
  <1>3. RunnerInv(r)'
    BY <1>1, <1>2, DoneMeansDone DEF RunnerInv, NoTrace, Queued, Holding, Setting
  <1>4. ASSUME NEW q \in Runners, q # r PROVE RunnerInv(q)'
    <2>1. UNCHANGED <<rpc[q], job[q]>>
      BY <1>4 DEF AwaitDone, TypeOK, RunnerTypes
    <2>2. /\ Holding(q)' = Holding(q) /\ Setting(q)' = Setting(q)
          /\ \A u \in Holding(q) : UNCHANGED <<tpc[u], task[u]>>
      BY <1>2, ThreadsStay
    <2> QED BY <1>2, <1>4, <2>1, <2>2, RunnerStays DEF JobInv, InQueuedRun, Queued
  <1> QED BY <1>2, <1>3, <1>4 DEF JobInv, QueueOnce

LEMMA StepKeepsJobs ==
  ASSUME TypeOK, StopInv, JobInv, [Next]_vars
  PROVE  JobInv'
  <1> USE DEF jobVars, runVars, InQueuedRun
  <1>1. CASE UNCHANGED <<jobVars, numPieces>>
    BY <1>1, JobsStay
  <1>2. CASE Alloc \/ Free
    BY <1>1, <1>2 DEF Alloc, Free
  <1>3. CASE InStopThreads
    BY <1>3, JobsStay DEF InStopThreads, StopSet, StopSignal, StopJoin, StopClear
  <1>4. CASE IsInUse \/ Apply \/ ReturnFailure \/ StartFails
    BY <1>1, <1>4 DEF IsInUse, Apply, ReturnFailure, StartFails
  <1>5. CASE StartThread
    <2>1. set.numStarted + 1 \in Own /\ tpc[set.numStarted + 1] = "off"
      BY <1>5, PoolAssumption DEF StartThread, StopInv, TypeOK, PoolTypes, Own
    <2>2. \A t \in Threads : \/ UNCHANGED <<tpc[t], task[t]>>
                             \/ tpc[t] \notin Working /\ tpc'[t] \notin Working
      BY <1>5, <2>1 DEF StartThread, TypeOK, ThreadTypes, Working
    <2> QED BY <1>5, <2>2, JobsStay DEF StartThread
  <1>6. ASSUME NEW wants, NEW n, SetUp(wants, n) PROVE JobInv'
    BY <1>1, <1>6 DEF SetUp
  <1>7. ASSUME NEW ws, Dismiss(ws) PROVE JobInv'
    BY <1>7, JobsStay DEF Dismiss
  <1>8. ASSUME NEW t \in Threads, Work(t) PROVE JobInv'
    <2>1. CASE WaitGo(t)
      BY <2>1, JobsStay DEF WaitGo, Working, TypeOK, ThreadTypes
    <2> QED BY <1>8, <2>1, RunFuncKeepsJobs, CountPieceKeepsJobs, SetDoneKeepsJobs DEF Work
  <1>9. ASSUME NEW t \in Own, OwnLoop(t) PROVE JobInv'
    <2>1. tpc[t] = "loop" /\ UNCHANGED <<done, numPieces, rpc, ran>>
      BY <1>9 DEF OwnLoop
    <2>2. CASE queue # <<>> /\ TakePiece(t)
      BY <2>1, <2>2, OwnThreads, TakePieceKeepsJobs
    <2>3. CASE UNCHANGED <<queue, task, job>> /\ \E s \in {"off", "wait"} : tpc' = [tpc EXCEPT ![t] = s]
      <3>1. \A u \in Threads : \/ UNCHANGED <<tpc[u], task[u]>>
                               \/ tpc[u] \notin Working /\ tpc'[u] \notin Working
        BY <2>1, <2>3 DEF Working, TypeOK, ThreadTypes
      <3> QED BY <2>1, <2>3, <3>1, JobsStay
    <2> QED BY <1>9, <2>2, <2>3 DEF OwnLoop
  <1>10. ASSUME NEW w \in Workers, JoinLoop(w) PROVE JobInv'
    <2>1. tpc[w] = "loop" /\ UNCHANGED <<done, numPieces, rpc, ran>>
      BY <1>10 DEF JoinLoop
    <2>2. CASE queue # <<>> /\ TakePiece(w)
      BY <2>1, <2>2, OwnThreads, TakePieceKeepsJobs
    <2>3. CASE UNCHANGED <<queue, task, job>> /\ \E s \in {"leave", "wait"} : tpc' = [tpc EXCEPT ![w] = s]
      <3>1. \A u \in Threads : \/ UNCHANGED <<tpc[u], task[u]>>
                               \/ tpc[u] \notin Working /\ tpc'[u] \notin Working
        BY <2>1, <2>3 DEF Working, TypeOK, ThreadTypes
      <3> QED BY <2>1, <2>3, <3>1, JobsStay
    <2> QED BY <1>10, <2>2, <2>3 DEF JoinLoop
  <1>11. ASSUME NEW w \in Workers, Join(w) \/ JoinReturns(w) PROVE JobInv'
    <2>1. \A u \in Threads : \/ UNCHANGED <<tpc[u], task[u]>>
                             \/ tpc[u] \notin Working /\ tpc'[u] \notin Working
      BY <1>11 DEF Join, JoinReturns, Working, TypeOK, ThreadTypes
    <2> QED BY <1>11, <2>1, JobsStay DEF Join, JoinReturns
  <1>12. ASSUME NEW r \in Runners, DropPool(r) PROVE JobInv'
    BY <1>1, <1>12 DEF DropPool
  <1>13. ASSUME NEW r \in Runners,
                \/ GivePool(r) \/ SetPoolHold(r) \/ SetPoolFree(r) \/ SetPoolSize(r)
                \/ RunnerFree(r) \/ RunInCaller(r) \/ RunDispatched(r) \/ InlinePiece(r)
                \/ DispatchedPiece(r) \/ RunReturns(r)
         PROVE  JobInv'
    <2>1. ~InQueuedRun(r) /\ ~InQueuedRun(r)'
      BY <1>13 DEF GivePool, SetPoolHold, SetPoolFree, SetPoolSize, RunnerFree, RunInCaller,
                   RunDispatched, InlinePiece, DispatchedPiece, RunReturns, TypeOK, RunnerTypes
    <2>2. UNCHANGED <<queue, job, tpc, task>> /\ done' \in {done, done \ {r}}
      BY <1>13 DEF GivePool, SetPoolHold, SetPoolFree, SetPoolSize, RunnerFree, RunInCaller,
                   RunDispatched, InlinePiece, DispatchedPiece, RunReturns
    <2>3. \A q \in Runners \ {r} : UNCHANGED <<rpc[q], numPieces[q], ran[q]>>
      BY <1>13 DEF GivePool, SetPoolHold, SetPoolFree, SetPoolSize, RunnerFree, RunInCaller,
                   RunDispatched, InlinePiece, DispatchedPiece, RunReturns, TypeOK, RunnerTypes
    <2> QED BY <2>1, <2>2, <2>3, OtherRunsKeepJobs
  <1>14. ASSUME NEW r \in Runners, SignalOwn(r) PROVE JobInv'
    <2>1. \A q \in Runners : InQueuedRun(q)' <=> InQueuedRun(q)
      BY <1>14 DEF SignalOwn, TypeOK, RunnerTypes
    <2> QED BY <1>14, <2>1, JobsStay DEF SignalOwn
  <1>15. CASE UNCHANGED vars
    BY <1>1, <1>15 DEF vars
  <1> QED BY <1>2, <1>3, <1>4, <1>5, <1>6, <1>7, <1>8, <1>9, <1>10, <1>11, <1>12, <1>13,
             <1>14, <1>15, OwnThreads, RunQueuedKeepsJobs, AwaitDoneKeepsJobs
          DEF Next, InSetUp, OwnThread, JoinedThread, InSetPool, InRun

-------------------------------------------------------------------------------
(* Who uses the pool.                                                      *)

\* Joined threads are inside Join and in its loop; a queued job is of a runner that the pool
\* has sized; so is that of a channel that has yet to take its hold.
UseInv ==
  /\ \A w \in Workers : w \in joined <=> tpc[w] \notin {"off", "leave"}
  /\ \A r \in Runners : InQueuedRun(r) => r \in pooled
  /\ \A r \in Runners : rpc[r] = "give" => r \in pooled /\ r \notin given

LEMMA InitUse == Init => UseInv
  BY OwnThreads DEF Init, UseInv, InQueuedRun

LEMMA UseStays ==
  ASSUME UseInv, UNCHANGED <<joined, pooled, given>>,
         \A w \in Workers : tpc'[w] \in {"off", "leave"} <=> tpc[w] \in {"off", "leave"},
         \A r \in Runners : /\ InQueuedRun(r)' => InQueuedRun(r) \/ r \in pooled
                            /\ rpc'[r] = "give" => rpc[r] = "give"
  PROVE  UseInv'
  BY DEF UseInv

LEMMA StepKeepsUse ==
  ASSUME TypeOK, StopInv, UseInv, [Next]_vars
  PROVE  UseInv'
  <1> USE DEF joinVars, jobVars, runVars, InQueuedRun
  <1>1. CASE UNCHANGED <<joined, pooled, given, tpc, rpc>>
    BY <1>1, UseStays
  <1>2. CASE Alloc \/ Free \/ InStopThreads \/ IsInUse \/ Apply \/ ReturnFailure \/ StartFails
    BY <1>1, <1>2 DEF Alloc, Free, InStopThreads, StopSet, StopSignal, StopJoin, StopClear,
                      IsInUse, Apply, ReturnFailure, StartFails
  <1>3. CASE StartThread
    <2>1. set.numStarted + 1 \in Own
      BY <1>3, PoolAssumption DEF StartThread, StopInv, TypeOK, PoolTypes, Own
    <2>2. \A w \in Workers : tpc'[w] = tpc[w]
      BY <1>3, <2>1, OwnThreads DEF StartThread, TypeOK, ThreadTypes
    <2> QED BY <1>3, <2>2, UseStays DEF StartThread
  <1>4. ASSUME NEW wants, NEW n, NEW ws, SetUp(wants, n) \/ Dismiss(ws) PROVE UseInv'
    BY <1>1, <1>4 DEF SetUp, Dismiss
  <1>5. ASSUME NEW t \in Threads, tpc[t] \notin {"off", "leave"}, t \in Workers => t \in joined,
               UNCHANGED <<joined, pooled, given, rpc>>,
               \E s \in ThreadSteps : /\ tpc' = [tpc EXCEPT ![t] = s]
                                      /\ t \in Workers => s \notin {"off", "leave"}
        PROVE  UseInv'
    <2>1. \A w \in Workers : tpc'[w] \in {"off", "leave"} <=> tpc[w] \in {"off", "leave"}
      BY <1>5, OwnThreads DEF TypeOK, ThreadTypes
    <2> QED BY <1>5, <2>1, UseStays
  <1>6. ASSUME NEW t \in Threads, Work(t) PROVE UseInv'
    <2>1. \E s \in ThreadSteps : tpc' = [tpc EXCEPT ![t] = s] /\ s \notin {"off", "leave"}
      BY <1>6 DEF Work, RunFunc, CountPiece, SetDone, WaitGo, ThreadSteps
    <2>2. tpc[t] \notin {"off", "leave"} /\ UNCHANGED <<joined, pooled, given, rpc>>
      BY <1>6 DEF Work, RunFunc, CountPiece, SetDone, WaitGo
    <2> QED BY <1>5, <2>1, <2>2 DEF UseInv
  <1>7. ASSUME NEW t \in Own, OwnLoop(t) PROVE UseInv'
    <2>1. \E s \in ThreadSteps : tpc' = [tpc EXCEPT ![t] = s]
      BY <1>7 DEF OwnLoop, TakePiece, ThreadSteps
    <2> QED BY <1>5, <1>7, <2>1, OwnThreads DEF OwnLoop
  <1>8. ASSUME NEW w \in Workers, JoinLoop(w) PROVE UseInv'
    <2>1. CASE MayLeave(w)
      BY <1>8, <2>1, OwnThreads DEF JoinLoop, UseInv, TypeOK, ThreadTypes
    <2>2. CASE ~MayLeave(w)
      <3>1. \E s \in ThreadSteps : tpc' = [tpc EXCEPT ![w] = s] /\ s \notin {"off", "leave"}
        BY <1>8, <2>2 DEF JoinLoop, TakePiece, ThreadSteps
      <3>2. UNCHANGED joined
        BY <1>8, <2>2 DEF JoinLoop
      <3> QED BY <1>5, <1>8, <3>1, <3>2, OwnThreads DEF JoinLoop, UseInv
    <2> QED BY <2>1, <2>2
  <1>9. ASSUME NEW w \in Workers, Join(w) \/ JoinReturns(w) PROVE UseInv'
    BY <1>9, OwnThreads DEF Join, JoinReturns, UseInv, TypeOK, ThreadTypes
  <1>10. ASSUME NEW r \in Runners,
                \/ RunInCaller(r) \/ RunDispatched(r) \/ RunQueued(r) \/ InRun(r)
         PROVE  UseInv'
    <2>1. \A q \in Runners : /\ InQueuedRun(q)' => InQueuedRun(q) \/ q \in pooled
                             /\ rpc'[q] = "give" => rpc[q] = "give"
      BY <1>10 DEF RunInCaller, RunDispatched, RunQueued, InCaller, InRun, InlinePiece,
                   DispatchedPiece, RunReturns, SignalOwn, AwaitDone, TypeOK, RunnerTypes
    <2> QED BY <1>10, <2>1, UseStays
            DEF RunInCaller, RunDispatched, RunQueued, InRun, InlinePiece, DispatchedPiece,
                RunReturns, SignalOwn, AwaitDone
  <1>11. ASSUME NEW r \in Runners,
                \/ GivePool(r) \/ DropPool(r) \/ SetPoolHold(r) \/ SetPoolFree(r)
                \/ SetPoolSize(r) \/ RunnerFree(r)
         PROVE  UseInv'
    <2>1. UNCHANGED <<joined, tpc>> /\ \A q \in Runners \ {r} : rpc'[q] = rpc[q]
      BY <1>11 DEF GivePool, DropPool, SetPoolHold, SetPoolFree, SetPoolSize, RunnerFree,
                   TypeOK, RunnerTypes
    <2>2. ~InQueuedRun(r)' /\ (rpc'[r] = "give" => r \in pooled' /\ r \notin given')
      BY <1>11 DEF GivePool, DropPool, SetPoolHold, SetPoolFree, SetPoolSize, RunnerFree,
                   TypeOK, RunnerTypes
    <2>3. \A q \in Runners \ {r} : (q \in pooled' <=> q \in pooled) /\ (q \in given' <=> q \in given)
      BY <1>11 DEF GivePool, DropPool, SetPoolHold, SetPoolFree, SetPoolSize, RunnerFree
    <2> QED BY <2>1, <2>2, <2>3 DEF UseInv
  <1>12. CASE UNCHANGED vars
    BY <1>1, <1>12 DEF vars
  <1> QED BY <1>2, <1>3, <1>4, <1>6, <1>7, <1>8, <1>9, <1>10, <1>11, <1>12, OwnThreads
          DEF Next, InSetUp, OwnThread, JoinedThread, InSetPool

-------------------------------------------------------------------------------
(* StopThreads runs for whoever dropped the last reference, or for a       *)
(* set-up function; so only one of them runs at a time.                    *)

HaltInv == halt.step # "off" => numRefs = 0 \/ call.step \in {"stopping", "failed"}

LEMMA SomeoneHolds ==
  ASSUME CountInv, NEW h \in Holders
  PROVE  numRefs # 0
  BY FS_EmptySet DEF CountInv

LEMMA NobodyHolds ==
  ASSUME TypeOK, CountInv, UseInv, numRefs = 0
  PROVE  held # 1 /\ given = {} /\ pooled = {} /\ joined = {} /\ Sizing = {}
  <1>1. Holders = {}
    BY FS_EmptySet DEF CountInv
  <1>2. held # 1 /\ given = {} /\ pooled = {} /\ Sizing = {} /\ Inside = {}
    BY <1>1, ZenonT(60) DEF Holders, Sizing, Inside
  <1>3. joined \subseteq Inside
    BY DEF UseInv, TypeOK, ThreadTypes, Inside
  <1> QED BY <1>2, <1>3

LEMMA HaltStays ==
  ASSUME HaltInv, UNCHANGED call,
         \/ UNCHANGED <<numRefs, halt>>
         \/ numRefs # 0 /\ (DropRef \/ UNCHANGED halt)
  PROVE  HaltInv'
  BY DEF HaltInv, DropRef

LEMMA StepKeepsHalt ==
  ASSUME TypeOK, CountInv, CallInv, StopInv, UseInv, HaltInv, [Next]_vars
  PROVE  HaltInv'
  <1> USE DEF refs, joinVars, jobVars, runVars, progVars
  <1>1. CASE Alloc
    BY <1>1 DEF Alloc, HaltInv
  <1>2. held = 1 => numRefs # 0
    BY NobodyHolds
  <1>3. CASE Free
    BY <1>2, <1>3, HaltStays DEF Free
  <1>4. CASE InStopThreads
    BY <1>4 DEF InStopThreads, StopSet, StopSignal, StopJoin, StopClear, HaltInv
  <1>5. CASE IsInUse
    BY <1>5 DEF IsInUse, HaltInv, TypeOK, PoolTypes
  <1>6. CASE Apply \/ ReturnFailure
    BY <1>6 DEF Apply, ReturnFailure, HaltInv
  <1>7. CASE StartThread
    BY <1>7 DEF StartThread, HaltInv
  <1>8. CASE StartFails
    BY <1>8 DEF StartFails, HaltInv, TypeOK, PoolTypes
  <1>9. ASSUME NEW wants, NEW n, SetUp(wants, n) PROVE HaltInv'
    BY <1>2, <1>9 DEF SetUp, HaltInv, Idle
  <1>10. ASSUME NEW ws, Dismiss(ws) PROVE HaltInv'
    BY <1>10, HaltStays DEF Dismiss
  <1>11. ASSUME NEW t, Work(t) \/ OwnLoop(t) \/ JoinLoop(t) PROVE HaltInv'
    BY <1>11, HaltStays DEF Work, RunFunc, CountPiece, SetDone, WaitGo, OwnLoop, JoinLoop
  <1>12. ASSUME NEW w \in Workers, Join(w) \/ JoinReturns(w) PROVE HaltInv'
    <2>1. CASE Join(w)
      BY <1>2, <2>1, HaltStays DEF Join
    <2>2. CASE JoinReturns(w)
      BY <2>2, JoinReturnsKeepsCount, SomeoneHolds, HaltStays DEF JoinReturns
    <2> QED BY <1>12, <2>1, <2>2
  <1>13. ASSUME NEW r \in Runners, GivePool(r) \/ SetPoolHold(r) PROVE HaltInv'
    <2>1. numRefs # 0
      BY <1>2, <1>13, NobodyHolds DEF GivePool, SetPoolHold, UseInv
    <2> QED BY <1>13, <2>1, HaltStays DEF GivePool, SetPoolHold
  <1>14. ASSUME NEW r \in Runners, DropPool(r) PROVE HaltInv'
    BY <1>14, DropPoolKeepsCount, SomeoneHolds, HaltStays DEF DropPool
  <1>15. ASSUME NEW r \in Runners, SetPoolFree(r) \/ RunnerFree(r) PROVE HaltInv'
    <2>1. CASE r \in pooled
      BY <1>15, <2>1, FreeKeepsCount, SomeoneHolds, HaltStays DEF SetPoolFree, RunnerFree
    <2>2. CASE r \notin pooled
      BY <1>15, <2>2, HaltStays DEF SetPoolFree, RunnerFree
    <2> QED BY <2>1, <2>2
  <1>16. ASSUME NEW r,
                SetPoolSize(r) \/ RunInCaller(r) \/ RunDispatched(r) \/ RunQueued(r) \/ InRun(r)
         PROVE  HaltInv'
    BY <1>16, HaltStays DEF SetPoolSize, RunInCaller, RunDispatched, RunQueued, InRun,
       InlinePiece, DispatchedPiece, RunReturns, SignalOwn, AwaitDone
  <1>17. CASE UNCHANGED vars
    BY <1>17, HaltStays DEF vars
  <1> QED BY <1>1, <1>3, <1>4, <1>5, <1>6, <1>7, <1>8, <1>9, <1>10, <1>11, <1>12, <1>13,
             <1>14, <1>15, <1>16, <1>17
          DEF Next, InSetUp, OwnThread, JoinedThread, InSetPool

-------------------------------------------------------------------------------
(* A program that keeps channels and joining threads out of its set-up     *)
(* calls: SetupsWait.                                                      *)

\* StopThreads, and the set-up that follows it, find nobody that uses the pool's threads.
QuietInv ==
  /\ call.step = "check" => joined = {}
  /\ call.step \in {"stopping", "starting", "failed"} => pooled = {} /\ joined = {} /\ Sizing = {}
  /\ QueuedJobHasAThread

LEMMA QuietStays ==
  ASSUME QuietInv, UNCHANGED <<call, set, pooled, joined>>, Sizing' \subseteq Sizing,
         queue' # <<>> => queue # <<>>
  PROVE  QuietInv'
  BY DEF QuietInv, QueuedJobHasAThread

LEMMA NothingQueued ==
  ASSUME TypeOK, JobInv, UseInv, pooled = {}
  PROVE  queue = <<>> /\ \A r \in Runners : ~InQueuedRun(r)
  <1>1. \A r \in Runners : ~InQueuedRun(r)
    BY DEF UseInv
  <1>2. ASSUME queue # <<>> PROVE FALSE
    <2>1. 1 \in DOMAIN queue /\ queue[1] \in Runners
      BY <1>2 DEF TypeOK, RunnerTypes
    <2> QED BY <1>1, <2>1 DEF JobInv, RunnerInv, NoTrace, Queued
  <1> QED BY <1>1, <1>2

LEMMA InitQuiet == Init => HaltInv /\ QuietInv
  BY DEF Init, HaltInv, QuietInv, QueuedJobHasAThread, Idle, NotSetUp

LEMMA StepKeepsQuiet ==
  ASSUME SetupsWait, TypeOK, CountInv, CallInv, StopInv, JobInv, UseInv, QuietInv, [Next]_vars
  PROVE  QuietInv'
  <1> USE DEF refs, joinVars, jobVars, runVars, progVars
  <1>1. CASE Alloc \/ Free
    BY <1>1, QuietStays DEF Alloc, Free, Sizing
  <1>2. CASE InStopThreads
    BY <1>2, QuietStays DEF InStopThreads, StopSet, StopSignal, StopJoin, StopClear, Sizing,
       QuietInv, QueuedJobHasAThread, NotSetUp
  <1>3. CASE IsInUse
    <2>1. CASE call' = Idle
      BY <1>3, <2>1 DEF IsInUse, QuietInv, QueuedJobHasAThread, Idle
    <2>2. CASE /\ call.step = "check" /\ numRunnersSized = 0
               /\ call' = [call EXCEPT !.step = "stopping"]
      <3>1. Sized = {}
        BY <2>2, FS_EmptySet DEF CountInv
      <3>2. pooled = {} /\ Sizing = {}
        BY <3>1 DEF Sized
      <3>3. call'.step = "stopping"
        BY <2>2 DEF TypeOK, PoolTypes
      <3> QED BY <1>3, <2>2, <3>2, <3>3 DEF IsInUse, QuietInv, QueuedJobHasAThread, Sizing
    <2> QED BY <1>3, <2>1, <2>2 DEF IsInUse
  <1>4. CASE Apply
    <2>1. pooled = {} /\ joined = {} /\ Sizing = {} /\ queue = <<>>
      BY <1>4, NothingQueued DEF Apply, QuietInv
    <2>2. call'.step \in {"idle", "starting"}
      BY <1>4 DEF Apply, Idle, TypeOK, PoolTypes
    <2>3. UNCHANGED <<pooled, joined, Sizing, queue>>
      BY <1>4 DEF Apply, Sizing
    <2> QED BY <2>1, <2>2, <2>3 DEF QuietInv, QueuedJobHasAThread
  <1>5. CASE StartThread \/ StartFails \/ ReturnFailure
    <2>1. pooled = {} /\ joined = {} /\ Sizing = {} /\ queue = <<>>
      BY <1>5, NothingQueued DEF StartThread, StartFails, ReturnFailure, QuietInv
    <2>2. call'.step # "check"
      BY <1>5 DEF StartThread, StartFails, ReturnFailure, Idle, TypeOK, PoolTypes
    <2>3. UNCHANGED <<pooled, joined, Sizing, queue>>
      BY <1>5 DEF StartThread, StartFails, ReturnFailure, Sizing
    <2> QED BY <2>1, <2>2, <2>3 DEF QuietInv, QueuedJobHasAThread
  <1>6. ASSUME NEW wants, NEW n, SetUp(wants, n) PROVE QuietInv'
    BY <1>6 DEF SetUp, QuietInv, QueuedJobHasAThread
  <1>7. ASSUME NEW ws, Dismiss(ws) PROVE QuietInv'
    BY <1>7, QuietStays DEF Dismiss, Sizing
  <1>8. ASSUME NEW t, Work(t) PROVE QuietInv'
    BY <1>8, QuietStays DEF Work, RunFunc, CountPiece, SetDone, WaitGo, Sizing
  <1>9. ASSUME NEW t, OwnLoop(t) PROVE QuietInv'
    BY <1>9, QuietStays DEF OwnLoop, Sizing
  <1>10. ASSUME NEW w \in Workers, Join(w) PROVE QuietInv'
    BY <1>10 DEF Join, NoSetUpUnderWay, Idle, QuietInv, QueuedJobHasAThread
  <1>11. ASSUME NEW w \in Workers, JoinLoop(w) PROVE QuietInv'
    <2>1. CASE MayLeave(w)
      <3>1. UNCHANGED <<queue, set, call, pooled, Sizing>> /\ joined' = joined \ {w}
        BY <1>11, <2>1 DEF JoinLoop, Sizing
      <3>2. queue # <<>> => joined' # {}
        <4>1. ASSUME Cardinality(joined) > 1, joined' = {} PROVE FALSE
          <5>1. joined = {} \/ joined = {w}
            BY <3>1, <4>1
          <5>2. Cardinality(joined) \in {0, 1}
            BY <5>1, FS_EmptySet, FS_Singleton
          <5> QED BY <4>1, <5>2
        <4> QED BY <2>1, <4>1 DEF MayLeave
      <3> QED BY <3>1, <3>2 DEF QuietInv, QueuedJobHasAThread
    <2>2. CASE ~MayLeave(w)
      BY <1>11, <2>2, QuietStays DEF JoinLoop, Sizing
    <2> QED BY <2>1, <2>2
  <1>12. ASSUME NEW w \in Workers, JoinReturns(w) PROVE QuietInv'
    BY <1>12, QuietStays DEF JoinReturns, Sizing
  <1>13. ASSUME NEW r \in Runners, SetPoolHold(r) PROVE QuietInv'
    BY <1>13 DEF SetPoolHold, NoSetUpUnderWay, Idle, QuietInv, QueuedJobHasAThread
  <1>14. ASSUME NEW r \in Runners, SetPoolFree(r) \/ SetPoolSize(r) PROVE QuietInv'
    <2>1. Sizing # {}
      BY <1>14 DEF SetPoolFree, SetPoolSize, Sizing
    <2> QED BY <1>14, <2>1 DEF SetPoolFree, SetPoolSize, QuietInv, QueuedJobHasAThread
  <1>15. ASSUME NEW r \in Runners, RunnerFree(r) PROVE QuietInv'
    BY <1>15 DEF RunnerFree, QuietInv, QueuedJobHasAThread, Sizing
  <1>16. ASSUME NEW r \in Runners, RunQueued(r) PROVE QuietInv'
    <2>1. Sizing' \subseteq Sizing
      BY <1>16 DEF RunQueued, Sizing, TypeOK, RunnerTypes
    <2> QED BY <1>16, <2>1 DEF RunQueued, InCaller, QuietInv, QueuedJobHasAThread
  <1>17. ASSUME NEW r \in Runners,
                \/ GivePool(r) \/ DropPool(r) \/ RunInCaller(r) \/ RunDispatched(r) \/ InRun(r)
         PROVE  QuietInv'
    <2>1. Sizing' \subseteq Sizing
      BY <1>17 DEF GivePool, DropPool, RunInCaller, RunDispatched, InRun, InlinePiece,
                   DispatchedPiece, RunReturns, SignalOwn, AwaitDone, Sizing, TypeOK, RunnerTypes
    <2> QED BY <1>17, <2>1, QuietStays
            DEF GivePool, DropPool, RunInCaller, RunDispatched, InRun, InlinePiece,
                DispatchedPiece, RunReturns, SignalOwn, AwaitDone
  <1>18. CASE UNCHANGED vars
    BY <1>18, QuietStays DEF vars, Sizing
  <1> QED BY <1>1, <1>2, <1>3, <1>4, <1>5, <1>6, <1>7, <1>8, <1>9, <1>10, <1>11, <1>12, <1>13,
             <1>14, <1>15, <1>16, <1>17, <1>18
          DEF Next, InSetUp, OwnThread, JoinedThread, InSetPool

-------------------------------------------------------------------------------
(* The theorems.                                                           *)

PoolInv == CountInv /\ CallInv /\ StopInv /\ JobInv /\ UseInv /\ HaltInv

LEMMA PoolInvHolds == Spec => [](TypeOK /\ PoolInv)
  <1>1. Init => PoolInv
    BY InitCount, InitStop, InitJobs, InitUse, InitQuiet DEF PoolInv
  <1>2. TypeOK /\ PoolInv /\ [Next]_vars => PoolInv'
    BY StepKeepsCount, StepKeepsCall, StepKeepsStop, StepKeepsJobs, StepKeepsUse, StepKeepsHalt
       DEF PoolInv
  <1> QED BY <1>1, <1>2, TypeCorrect, PTL DEF Spec

\* The reference count of the pool is the number of those who hold it, the program, the
\* channels, the sized runners and the threads inside Join, whatever is called and whenever.
THEOREM RefsCountHoldersHolds == Spec => []RefsCountHolders
  <1>1. PoolInv => RefsCountHolders
    BY DEF PoolInv, CountInv, RefsCountHolders
  <1> QED BY <1>1, PoolInvHolds, PTL

\* A job lies on its caller's stack and is not let go of while it is queued or while a thread
\* runs, counts or reports a piece of it (DtWorkerPool.c:28-31, RunPiece).
THEOREM JobOutlives == Spec => []JobOutlivesItsPieces
  <1>1. ASSUME TypeOK, JobInv PROVE JobOutlivesItsPieces
    <2>1. ASSUME NEW r \in Runners, r \in Queued \/ Holding(r) # {} \/ Setting(r) # {}
          PROVE  InQueuedRun(r) /\ r \notin done
      BY <1>1, <2>1, DoneMeansDone DEF JobInv, RunnerInv, NoTrace
    <2>2. \A i \in DOMAIN queue : queue[i] \in Runners /\ queue[i] \in Queued
      BY <1>1 DEF TypeOK, RunnerTypes, Queued
    <2>3. ASSUME NEW t \in Threads, tpc[t] \in Working
          PROVE  /\ task[t].runner \in Runners
                 /\ t \in Holding(task[t].runner) \/ t \in Setting(task[t].runner)
      BY <1>1, <2>3 DEF TypeOK, ThreadTypes, Working, Holding, Setting
    <2>4. ASSUME NEW t \in Threads, tpc[t] \in Working
          PROVE  InQueuedRun(task[t].runner) /\ task[t].runner \notin done
      BY <2>1, <2>3, <2>4
    <2> QED BY <2>1, <2>2, <2>4 DEF JobOutlivesItsPieces
  <1> QED BY <1>1, PoolInvHolds, PTL DEF PoolInv

\* While joined threads serve the pool and a job is queued, one of them is joined, provided
\* that no channel is configured and no thread joins during a set-up call
\* (DtWorkerPool.c:33-36, MayLeave).
THEOREM QueuedJobIsServed == SetupsWait => (Spec => []QueuedJobHasAThread)
  <1> SUFFICES ASSUME SetupsWait PROVE Spec => []QueuedJobHasAThread
    OBVIOUS
  <1>1. Init => QuietInv
    BY InitQuiet
  <1>2. (TypeOK /\ PoolInv) /\ QuietInv /\ [Next]_vars => QuietInv'
    BY StepKeepsQuiet DEF PoolInv
  <1>3. QuietInv => QueuedJobHasAThread
    BY DEF QuietInv
  <1> QED BY <1>1, <1>2, <1>3, PoolInvHolds, PTL DEF Spec

\* StopThreads is called with no job running and no thread joined, under the same proviso
\* (DtWorkerPool.c:160).
THEOREM StopThreadsFindsPoolIdleHolds == SetupsWait => (Spec => []StopThreadsFindsPoolIdle)
  <1> SUFFICES ASSUME SetupsWait PROVE Spec => []StopThreadsFindsPoolIdle
    OBVIOUS
  <1>1. Init => QuietInv
    BY InitQuiet
  <1>2. (TypeOK /\ PoolInv) /\ QuietInv /\ [Next]_vars => QuietInv'
    BY StepKeepsQuiet DEF PoolInv
  <1>3. TypeOK /\ PoolInv /\ QuietInv => StopThreadsFindsPoolIdle
    <2> SUFFICES ASSUME TypeOK, PoolInv, QuietInv, halt.step # "off"
                 PROVE  queue = <<>> /\ joined = {} /\ \A r \in Runners : ~InQueuedRun(r)
      BY DEF StopThreadsFindsPoolIdle
    <2>1. pooled = {} /\ joined = {}
      BY NobodyHolds DEF PoolInv, HaltInv, QuietInv
    <2> QED BY <2>1, NothingQueued DEF PoolInv
  <1> QED BY <1>1, <1>2, <1>3, PoolInvHolds, PTL DEF Spec

-------------------------------------------------------------------------------
(* DtJobRunner_Run keeps the promise of Piecework.  That it does return,   *)
(* which needs fairness, is left to TLC.                                   *)

\* How far the runs that bypass the queue are.
DirectInv ==
  \A r \in Runners :
    /\ rpc[r] = "inline" => idx[r] <= numPieces[r] /\ ran[r] = 0..idx[r] - 1
    /\ rpc[r] = "dispatch" => ran[r] \subseteq 0..numPieces[r] - 1

LEMMA InitDirect == Init => DirectInv
  BY DEF Init, DirectInv

LEMMA DirectStays ==
  ASSUME DirectInv,
         \A r \in Runners :
           rpc'[r] \in {"inline", "dispatch"} => UNCHANGED <<rpc[r], idx[r], ran[r], numPieces[r]>>
  PROVE  DirectInv'
  BY DEF DirectInv

LEMMA StepKeepsDirect ==
  ASSUME TypeOK, JobInv, DirectInv, [Next]_vars
  PROVE  DirectInv'
  <1> USE DEF jobVars, runVars
  <1>1. CASE UNCHANGED <<rpc, idx, ran, numPieces>>
    BY <1>1, DirectStays
  <1>2. CASE Alloc \/ Free \/ InStopThreads \/ InSetUp \/ StartFails
    BY <1>1, <1>2 DEF Alloc, Free, InStopThreads, StopSet, StopSignal, StopJoin, StopClear,
                      InSetUp, IsInUse, Apply, StartThread, ReturnFailure, StartFails
  <1>3. ASSUME NEW wants, NEW n, NEW ws, SetUp(wants, n) \/ Dismiss(ws) PROVE DirectInv'
    BY <1>1, <1>3 DEF SetUp, Dismiss
  <1>4. ASSUME NEW t \in Threads, RunFunc(t) PROVE DirectInv'
    <2>1. PICK r \in Runners : r = task[t].runner /\ t \in Holding(r)
      BY <1>4 DEF RunFunc, TypeOK, ThreadTypes, Holding
    <2>2. InQueuedRun(r)
      BY <2>1 DEF JobInv, RunnerInv, NoTrace
    <2>3. \A q \in Runners \ {r} : ran'[q] = ran[q]
      BY <1>4, <2>1 DEF RunFunc, TypeOK, RunnerTypes
    <2> QED BY <1>4, <2>2, <2>3, DirectStays DEF RunFunc, InQueuedRun
  <1>5. ASSUME NEW t, CountPiece(t) \/ SetDone(t) \/ WaitGo(t) \/ OwnLoop(t)
                      \/ Join(t) \/ JoinLoop(t) \/ JoinReturns(t)
        PROVE  DirectInv'
    BY <1>1, <1>5 DEF CountPiece, SetDone, WaitGo, OwnLoop, Join, JoinLoop, JoinReturns
  <1>6. ASSUME NEW r \in Runners,
               \/ GivePool(r) \/ DropPool(r) \/ SetPoolHold(r) \/ SetPoolFree(r)
               \/ SetPoolSize(r) \/ RunnerFree(r) \/ RunQueued(r) \/ RunReturns(r)
               \/ SignalOwn(r) \/ AwaitDone(r)
        PROVE  DirectInv'
    <2>1. \A q \in Runners : \/ UNCHANGED <<rpc[q], idx[q], ran[q], numPieces[q]>>
                             \/ rpc'[q] \notin {"inline", "dispatch"}
      BY <1>6 DEF GivePool, DropPool, SetPoolHold, SetPoolFree, SetPoolSize, RunnerFree,
                  RunQueued, RunReturns, SignalOwn, AwaitDone, TypeOK, RunnerTypes
    <2> QED BY <2>1, DirectStays
  <1>7. ASSUME NEW r \in Runners,
               RunInCaller(r) \/ RunDispatched(r) \/ InlinePiece(r) \/ DispatchedPiece(r)
        PROVE  DirectInv'
    <2>1. \A q \in Runners \ {r} : UNCHANGED <<rpc[q], idx[q], ran[q], numPieces[q]>>
      BY <1>7 DEF RunInCaller, RunDispatched, InlinePiece, DispatchedPiece, TypeOK, RunnerTypes
    <2>2. numPieces' = numPieces /\ numPieces[r] \in Nat /\ idx[r] \in Nat
      BY <1>7 DEF RunInCaller, RunDispatched, InlinePiece, DispatchedPiece, TypeOK, RunnerTypes
    <2>3. CASE RunInCaller(r)
      <3>1. rpc'[r] = "inline" /\ idx'[r] = 0 /\ ran'[r] = {}
        BY <2>3 DEF RunInCaller, TypeOK, RunnerTypes
      <3>2. ran'[r] = 0..idx'[r] - 1
        BY <3>1
      <3>3. idx'[r] <= numPieces'[r]
        BY <2>2, <3>1
      <3> QED BY <2>1, <3>1, <3>2, <3>3, ZenonT(60) DEF DirectInv
    <2>4. CASE RunDispatched(r)
      <3>1. rpc'[r] = "dispatch" /\ ran'[r] = {}
        BY <2>4 DEF RunDispatched, TypeOK, RunnerTypes
      <3> QED BY <2>1, <3>1 DEF DirectInv
    <2>5. CASE InlinePiece(r)
      <3>1. /\ rpc[r] = "inline" /\ rpc'[r] = "inline" /\ idx[r] < numPieces[r]
            /\ idx'[r] = idx[r] + 1 /\ ran'[r] = ran[r] \cup {idx[r]}
        BY <2>5 DEF InlinePiece, TypeOK, RunnerTypes
      <3>2. ran'[r] = 0..idx'[r] - 1
        BY <2>2, <3>1 DEF DirectInv
      <3> QED BY <2>1, <2>2, <3>1, <3>2 DEF DirectInv
    <2>6. CASE DispatchedPiece(r)
      <3>1. PICK p \in 0..numPieces[r] - 1 : ran'[r] = ran[r] \cup {p}
        BY <2>6 DEF DispatchedPiece, TypeOK, RunnerTypes
      <3>2. rpc[r] = "dispatch" /\ rpc'[r] = "dispatch"
        BY <2>6 DEF DispatchedPiece
      <3> QED BY <2>1, <2>2, <3>1, <3>2 DEF DirectInv
    <2> QED BY <1>7, <2>3, <2>4, <2>5, <2>6
  <1>8. CASE UNCHANGED vars
    BY <1>1, <1>8 DEF vars
  <1> QED BY <1>2, <1>3, <1>4, <1>5, <1>6, <1>7, <1>8, OwnThreads
          DEF Next, OwnThread, JoinedThread, Work, InSetPool, InRun

LEMMA DirectInvHolds == Spec => []DirectInv
  <1>1. (TypeOK /\ PoolInv) /\ DirectInv /\ [Next]_vars => DirectInv'
    BY StepKeepsDirect DEF PoolInv
  <1> QED BY <1>1, InitDirect, PoolInvHolds, PTL DEF Spec

\* A step that starts, ends and advances no run.
LEMMA NoProgress ==
  ASSUME \A r \in Runners : /\ Running(r)' <=> Running(r)
                            /\ Running(r) => UNCHANGED <<numPieces[r], ran[r]>>
  PROVE  UNCHANGED Job!jobs
  BY DEF Job!jobs

LEMMA RunBegins ==
  ASSUME TypeOK, NEW r \in Runners, ~Running(r), Running(r)', ran'[r] = {}, UNCHANGED numPieces,
         \A q \in Runners \ {r} : (Running(q)' <=> Running(q)) /\ UNCHANGED ran[q]
  PROVE  Job!Next
  <1>1. numPieces[r] \in 1..MaxThreads
    BY DEF TypeOK, RunnerTypes
  <1> QED BY <1>1, ZenonT(60) DEF Job!Next, Job!Call

LEMMA RunAdvances ==
  ASSUME TypeOK, NEW r \in Runners, Running(r), NEW p \in 0..numPieces[r] - 1, p \notin ran[r],
         ran'[r] = ran[r] \cup {p}, UNCHANGED numPieces,
         \A q \in Runners : Running(q)' <=> Running(q),
         \A q \in Runners \ {r} : UNCHANGED ran[q]
  PROVE  Job!Next
  <1> DEFINE Left(q) == IF Running(q) THEN (0..numPieces[q] - 1) \ ran[q] ELSE {}
  <1>1. p \in Left(r) /\ Left(r)' = Left(r) \ {p}
    OBVIOUS
  <1>2. \A q \in Runners \ {r} : Left(q)' = Left(q)
    OBVIOUS
  <1>3. [q \in Runners |-> Left(q)]' = [[q \in Runners |-> Left(q)] EXCEPT ![r] = Left(r) \ {p}]
    <2> HIDE DEF Left
    <2> QED BY <1>1, <1>2
  <1>4. Job!RunOne(r)
    BY <1>1, <1>3 DEF Job!RunOne
  <1> QED BY <1>4 DEF Job!Next

LEMMA RunEnds ==
  ASSUME TypeOK, NEW r \in Runners, Running(r), ~Running(r)', UNCHANGED <<numPieces, ran>>,
         0..numPieces[r] - 1 \subseteq ran[r],
         \A q \in Runners \ {r} : Running(q)' <=> Running(q)
  PROVE  Job!Next
  BY DEF Job!Next, Job!Return

\* What a thread is about to run is a piece of the job that has not run.
LEMMA TakenIsNew ==
  ASSUME TypeOK, JobInv, NEW t \in Threads, tpc[t] = "run"
  PROVE  /\ task[t].runner \in Runners /\ InQueuedRun(task[t].runner)
         /\ task[t].piece \in 0..numPieces[task[t].runner] - 1
         /\ task[t].piece \notin ran[task[t].runner]
  <1>1. PICK r \in Runners, p \in Nat : r = task[t].runner /\ p = task[t].piece /\ t \in Holding(r)
    BY DEF TypeOK, ThreadTypes, Holding
  <1>2. InQueuedRun(r) /\ Counted(r) /\ Taken(r)
    BY <1>1 DEF JobInv, RunnerInv, NoTrace
  <1>3. p < job[r].nextPiece /\ p \notin ran[r]
    BY <1>1, <1>2 DEF Taken
  <1>4. job[r].nextPiece \in Nat /\ numPieces[r] \in Nat /\ job[r].nextPiece <= numPieces[r]
    BY <1>2 DEF Counted, TypeOK, RunnerTypes
  <1> QED BY <1>1, <1>2, <1>3, <1>4

LEMMA StepMaps ==
  ASSUME TypeOK, JobInv, DirectInv, [Next]_vars
  PROVE  [Job!Next]_(Job!jobs)
  <1> USE DEF jobVars, runVars
  <1>1. CASE UNCHANGED <<rpc, ran, numPieces>>
    BY <1>1, NoProgress DEF Running
  <1>2. CASE Alloc \/ Free \/ InStopThreads \/ InSetUp \/ StartFails
    BY <1>1, <1>2 DEF Alloc, Free, InStopThreads, StopSet, StopSignal, StopJoin, StopClear,
                      InSetUp, IsInUse, Apply, StartThread, ReturnFailure, StartFails
  <1>3. ASSUME NEW wants, NEW n, NEW ws, SetUp(wants, n) \/ Dismiss(ws) PROVE [Job!Next]_(Job!jobs)
    BY <1>1, <1>3 DEF SetUp, Dismiss
  <1>4. ASSUME NEW t \in Threads, RunFunc(t) PROVE [Job!Next]_(Job!jobs)
    <2>1. PICK r \in Runners, p \in {task[t].piece} :
             r = task[t].runner /\ InQueuedRun(r)
             /\ p \in 0..numPieces[r] - 1 /\ p \notin ran[r]
      BY <1>4, TakenIsNew DEF RunFunc
    <2>2. ran'[r] = ran[r] \cup {p} /\ \A q \in Runners \ {r} : ran'[q] = ran[q]
      BY <1>4, <2>1 DEF RunFunc, TypeOK, RunnerTypes
    <2>3. UNCHANGED <<rpc, numPieces>>
      BY <1>4 DEF RunFunc
    <2> QED BY <2>1, <2>2, <2>3, RunAdvances DEF Running, InQueuedRun
  <1>5. ASSUME NEW t, CountPiece(t) \/ SetDone(t) \/ WaitGo(t) \/ OwnLoop(t)
                      \/ Join(t) \/ JoinLoop(t) \/ JoinReturns(t)
        PROVE  [Job!Next]_(Job!jobs)
    BY <1>1, <1>5 DEF CountPiece, SetDone, WaitGo, OwnLoop, Join, JoinLoop, JoinReturns
  <1>6. ASSUME NEW r \in Runners,
               \/ GivePool(r) \/ DropPool(r) \/ SetPoolHold(r) \/ SetPoolFree(r)
               \/ SetPoolSize(r) \/ RunnerFree(r) \/ SignalOwn(r)
        PROVE  [Job!Next]_(Job!jobs)
    <2>1. \A q \in Runners : /\ Running(q)' <=> Running(q)
                             /\ Running(q) => UNCHANGED <<numPieces[q], ran[q]>>
      BY <1>6 DEF GivePool, DropPool, SetPoolHold, SetPoolFree, SetPoolSize, RunnerFree,
                  SignalOwn, TypeOK, RunnerTypes, Running
    <2> QED BY <2>1, NoProgress
  <1>7. ASSUME NEW r \in Runners, RunInCaller(r) \/ RunDispatched(r) \/ RunQueued(r)
        PROVE  [Job!Next]_(Job!jobs)
    <2>1. ~Running(r) /\ Running(r)' /\ ran'[r] = {} /\ UNCHANGED numPieces
      BY <1>7 DEF RunInCaller, RunDispatched, RunQueued, TypeOK, RunnerTypes, Running
    <2>2. \A q \in Runners \ {r} : (Running(q)' <=> Running(q)) /\ UNCHANGED ran[q]
      BY <1>7 DEF RunInCaller, RunDispatched, RunQueued, TypeOK, RunnerTypes, Running
    <2> QED BY <2>1, <2>2, RunBegins
  <1>8. ASSUME NEW r \in Runners, InlinePiece(r) \/ DispatchedPiece(r) PROVE [Job!Next]_(Job!jobs)
    <2>1. UNCHANGED <<rpc, numPieces>> /\ Running(r) /\ \A q \in Runners \ {r} : ran'[q] = ran[q]
      BY <1>8 DEF InlinePiece, DispatchedPiece, TypeOK, RunnerTypes, Running
    <2>2. \E p \in 0..numPieces[r] - 1 : p \notin ran[r] /\ ran'[r] = ran[r] \cup {p}
      <3>1. CASE InlinePiece(r)
        <4>1. idx[r] \in 0..numPieces[r] - 1 /\ idx[r] \notin ran[r]
          BY <3>1 DEF InlinePiece, DirectInv, TypeOK, RunnerTypes
        <4>2. ran'[r] = ran[r] \cup {idx[r]}
          BY <3>1 DEF InlinePiece, TypeOK, RunnerTypes
        <4> QED BY <4>1, <4>2
      <3>2. CASE DispatchedPiece(r)
        BY <3>2 DEF DispatchedPiece, TypeOK, RunnerTypes
      <3> QED BY <1>8, <3>1, <3>2
    <2> QED BY <2>1, <2>2, RunAdvances DEF Running
  <1>9. ASSUME NEW r \in Runners, RunReturns(r) \/ AwaitDone(r) PROVE [Job!Next]_(Job!jobs)
    <2>1. /\ Running(r) /\ ~Running(r)' /\ UNCHANGED <<numPieces, ran>>
          /\ \A q \in Runners \ {r} : Running(q)' <=> Running(q)
      BY <1>9 DEF RunReturns, AwaitDone, TypeOK, RunnerTypes, Running
    <2>2. 0..numPieces[r] - 1 \subseteq ran[r]
      <3>1. CASE RunReturns(r)
        BY <3>1 DEF RunReturns, DirectInv
      <3>2. CASE AwaitDone(r)
        BY <3>2, DoneMeansDone DEF AwaitDone, InQueuedRun
      <3> QED BY <1>9, <3>1, <3>2
    <2> QED BY <2>1, <2>2, RunEnds
  <1>10. CASE UNCHANGED vars
    BY <1>1, <1>10 DEF vars
  <1> QED BY <1>2, <1>3, <1>4, <1>5, <1>6, <1>7, <1>8, <1>9, <1>10, OwnThreads
          DEF Next, OwnThread, JoinedThread, Work, InSetPool, InRun

\* Every behaviour of the pool is one of Piecework, but for its fairness: DtJobRunner_Run
\* returns only when each piece of its job has run, however the pieces are shared out, and
\* starts and runs nothing that the promise does not allow (Core/DtWorkerPool.h).
THEOREM RunsEveryPieceSafely == Spec => Job!Init /\ [][Job!Next]_(Job!jobs)
  <1>1. Init => Job!Init
    BY DEF Init, Job!Init, Running
  <1>2. (TypeOK /\ PoolInv) /\ DirectInv /\ [Next]_vars => [Job!Next]_(Job!jobs)
    BY StepMaps DEF PoolInv
  <1> QED BY <1>1, <1>2, PoolInvHolds, DirectInvHolds, PTL DEF Spec

\* No piece is run twice, nor by two threads: what a thread, or the caller, is about to run
\* is a piece of the job, has not been run and is in nobody else's hands (TakePiece).
PieceOfOne ==
  /\ \A t \in Threads : tpc[t] = "run" =>
       task[t].piece \in (0..numPieces[task[t].runner] - 1) \ ran[task[t].runner]
  /\ \A t, u \in Threads : tpc[t] = "run" /\ tpc[u] = "run" /\ task[t] = task[u] => t = u
  /\ \A r \in Runners : rpc[r] = "inline" => idx[r] \notin ran[r]

\* A piece of a job is run once, by one thread.
THEOREM PieceRunsOnce == Spec => []PieceOfOne
  <1>1. ASSUME TypeOK, JobInv, DirectInv PROVE PieceOfOne
    <2>1. ASSUME NEW t \in Threads, NEW u \in Threads, tpc[t] = "run", tpc[u] = "run", task[t] = task[u]
          PROVE  t = u
      <3>1. PICK r \in Runners : r = task[t].runner /\ t \in Holding(r) /\ u \in Holding(r)
        BY <1>1, <2>1 DEF TypeOK, ThreadTypes, Holding
      <3>2. Taken(r)
        BY <1>1, <3>1 DEF JobInv, RunnerInv, NoTrace
      <3> QED BY <2>1, <3>1, <3>2 DEF Taken
    <2>2. \A r \in Runners : rpc[r] = "inline" => idx[r] \notin ran[r]
      BY <1>1 DEF DirectInv, TypeOK, RunnerTypes
    <2> QED BY <1>1, <2>1, <2>2, TakenIsNew DEF PieceOfOne
  <1> QED BY <1>1, PoolInvHolds, DirectInvHolds, PTL DEF PoolInv
================================================================================
