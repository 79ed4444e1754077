------------------------------ MODULE WorkerPool ------------------------------
(***************************************************************************)
(* Source/Core/DtWorkerPool.c: one DtWorkerPool, the DtJobRunners of the   *)
(* channels that share it, the threads the pool starts itself and the      *)
(* threads of the program that join it.                                    *)
(*                                                                         *)
(* A section under Pool->Lock, an atomic operation, an event set or an     *)
(* event wait is one step; everything between two of them is not split.    *)
(***************************************************************************)
EXTENDS Integers, Sequences, FiniteSets

CONSTANTS
  Runners,     \* the DtJobRunners, each used by one channel's thread
  Workers,     \* the DtWorkers, each used by one thread of the program
  MaxThreads,  \* bound: the largest NumThreads the program asks for
  Setups,      \* the set-up functions the program calls
  SetupsWait   \* TRUE: no channel configures its runner, and no thread joins,
               \* while the program is inside a set-up function

ASSUME PoolAssumption ==
  /\ MaxThreads \in Nat /\ MaxThreads >= 2
  /\ Workers \cap (1..MaxThreads) = {}
  /\ IsFiniteSet(Workers) /\ IsFiniteSet(Runners)
  /\ Setups \subseteq {"StartThreads", "SetDispatch", "ExpectThreads", "NoDispatch"}
  /\ SetupsWait \in BOOLEAN

Own == 1..MaxThreads         \* Pool->Workers[], the pool's own threads
Threads == Own \cup Workers

VARIABLES
  numRefs, numRunnersSized,  \* the two atomic counters of the pool
  set,        \* what the set-up functions assign, see NotSetUp
  queue,      \* Pool->Head .. Tail: the jobs, each named by its runner
  joined,     \* Pool->FirstJoined; Pool->NumJoined is its size
  dismissed,  \* the workers whose Dismissed is set
  go,         \* the threads whose Go event is set
  tpc, task,  \* where every thread is, and the piece it has taken
  given,      \* the channels that hold the pool
  pooled,     \* the runners whose Pool is this pool, and so are sized by it
  numPieces,  \* the runners' NumPieces
  job,        \* the Job on the stack of the runner's caller
  done,       \* the runners whose Done event is set
  rpc, idx,   \* where the caller is in DtJobRunner_Run or SetPool; its loop counter
  ran,        \* history: the pieces of the current job whose Func has returned
  held,       \* the references the program holds: 1, or 0 once it has freed the pool
  call,       \* the set-up function the program is in
  halt        \* StopThreads, of which at most one runs: its step and loop counter

refs == <<numRefs, numRunnersSized>>
jobVars == <<queue, go, tpc, task, job, done, rpc, idx, ran>>
joinVars == <<joined, dismissed>>
runVars == <<given, pooled, numPieces>>
progVars == <<held, call>>
vars == <<refs, set, joinVars, jobVars, runVars, progVars, halt>>

NotSetUp == [mode |-> "none", numThreads |-> 0, numStarted |-> 0]
NoTask == [runner |-> "none", piece |-> 0]
NoJob == [numPieces |-> 0, nextPiece |-> 0, numFinished |-> 0]
Idle == [step |-> "idle", wants |-> "none", count |-> 0]

Init ==
  /\ numRefs = 1 /\ numRunnersSized = 0
  /\ set = NotSetUp
  /\ queue = <<>>
  /\ joined = {} /\ dismissed = {}
  /\ go = {}
  /\ tpc = [t \in Threads |-> "off"]
  /\ task = [t \in Threads |-> NoTask]
  /\ given = {} /\ pooled = {}
  /\ numPieces = [r \in Runners |-> 1]
  /\ job = [r \in Runners |-> NoJob]
  /\ done = {}
  /\ rpc = [r \in Runners |-> "idle"]
  /\ idx = [r \in Runners |-> 0]
  /\ ran = [r \in Runners |-> {}]
  /\ held = 1 /\ call = Idle
  /\ halt = [step |-> "off", i |-> 0]

-------------------------------------------------------------------------------
(* References.  The thread that drops the last one runs StopThreads and    *)
(* frees the pool; nobody else can reach the pool any more.                *)

DropRef ==
  /\ numRefs' = numRefs - 1
  /\ halt' = IF numRefs = 1 THEN [step |-> "stop", i |-> 0] ELSE halt

\* StopThreads, started by a set-up function or by the last DropRef.  Pool->Stop is set
\* from its first section under the lock to its end.
Stop == halt.step \in {"signal", "join"}

StopSet ==
  /\ halt.step = "stop"
  /\ halt' = [step |-> "signal", i |-> 1]
  /\ UNCHANGED <<refs, set, joinVars, jobVars, runVars, progVars>>

\* Mutant of StopSignal: the thread that is to stop is not woken.
StopSignalSleeping ==
  /\ halt.step = "signal" /\ halt.i <= set.numStarted
  /\ halt' = [halt EXCEPT !.step = "join"]
  /\ UNCHANGED <<refs, set, joinVars, jobVars, runVars, progVars>>

StopSignal ==
  /\ halt.step = "signal" /\ halt.i <= set.numStarted
  /\ go' = go \cup {halt.i}
  /\ halt' = [halt EXCEPT !.step = "join"]
  /\ UNCHANGED <<refs, set, joinVars, queue, tpc, task, job, done, rpc, idx, ran,
                 runVars, progVars>>

StopJoin ==
  /\ halt.step = "join"
  /\ tpc[halt.i] = "off"
  /\ halt' = [step |-> "signal", i |-> halt.i + 1]
  /\ UNCHANGED <<refs, set, joinVars, jobVars, runVars, progVars>>

StopClear ==
  /\ halt.step = "signal" /\ halt.i > set.numStarted
  /\ set' = NotSetUp
  /\ halt' = [step |-> "off", i |-> 0]
  /\ UNCHANGED <<refs, joinVars, jobVars, runVars, progVars>>

-------------------------------------------------------------------------------
(* The program sets the pool up, gives it away and lets it go.             *)

Alloc ==
  /\ numRefs = 0 /\ halt.step = "off"
  /\ numRefs' = 1
  /\ held' = 1
  /\ UNCHANGED <<numRunnersSized, set, joinVars, jobVars, runVars, call, halt>>

Free ==
  /\ held = 1 /\ call = Idle
  /\ joined \subseteq dismissed     \* cdtapi.h: it must dismiss its threads first
  /\ \A r \in Runners : rpc[r] \in {"hold", "size", "give"} => r \in given
  /\ held' = 0
  /\ DropRef
  /\ UNCHANGED <<numRunnersSized, set, joinVars, jobVars, runVars, call>>

\* StartThreads, SetDispatch and ExpectThreads begin alike: IsInUse reads NumJoined
\* under the lock, then NumRunnersSized.
SetUp(wants, n) ==
  /\ held = 1 /\ call = Idle
  /\ call' = [step |-> IF joined = {} THEN "check" ELSE "joined", wants |-> wants, count |-> n]
  /\ UNCHANGED <<refs, set, joinVars, jobVars, runVars, held, halt>>

IsInUse ==
  /\ \/ /\ call.step = "joined" \/ (call.step = "check" /\ numRunnersSized # 0)
        /\ call' = Idle
        /\ UNCHANGED halt
     \/ /\ call.step = "check" /\ numRunnersSized = 0
        /\ call' = [call EXCEPT !.step = "stopping"]
        /\ halt' = [step |-> "stop", i |-> 0]
  /\ UNCHANGED <<refs, set, joinVars, jobVars, runVars, held>>

\* The program keeps channels and joining threads out of its set-up calls, or does not.
NoSetUpUnderWay == SetupsWait => call = Idle

ModeOf == [StartThreads |-> "own", SetDispatch |-> "dispatch", ExpectThreads |-> "joinable"]

\* After StopThreads.  StartThreads goes on to start its threads, unless there is no
\* memory for them.
Apply ==
  /\ call.step = "stopping" /\ halt.step = "off"
  /\ \/ /\ call.wants = "NoDispatch"
        /\ call' = Idle
        /\ UNCHANGED set
     \/ /\ call.wants # "NoDispatch"
        /\ set' = [mode |-> ModeOf[call.wants], numThreads |-> call.count, numStarted |-> 0]
        /\ call' = IF call.wants = "StartThreads" THEN [call EXCEPT !.step = "starting"]
                                                  ELSE Idle
     \/ /\ call.wants = "StartThreads"
        /\ call' = Idle
        /\ UNCHANGED set
  /\ UNCHANGED <<refs, joinVars, jobVars, runVars, held, halt>>

StartThread ==
  /\ call.step = "starting"
  /\ LET i == set.numStarted + 1 IN
     /\ tpc' = [tpc EXCEPT ![i] = "wait"]
     /\ go' = go \ {i}
     /\ set' = [set EXCEPT !.numStarted = i]
     /\ call' = IF i = set.numThreads THEN Idle ELSE call
  /\ UNCHANGED <<refs, joinVars, queue, task, job, done, rpc, idx, ran, runVars, held,
                 halt>>

\* An event or a thread cannot be had: the threads already started are stopped again.
StartFails ==
  /\ call.step = "starting"
  /\ halt' = [step |-> "stop", i |-> 0]
  /\ call' = [call EXCEPT !.step = "failed"]
  /\ UNCHANGED <<refs, set, joinVars, jobVars, runVars, held>>

ReturnFailure ==
  /\ call.step = "failed" /\ halt.step = "off"
  /\ call' = Idle
  /\ UNCHANGED <<refs, set, joinVars, jobVars, runVars, held, halt>>

\* Dismiss does not ask whether the worker has joined; DismissAll reaches those that have.
Dismiss(ws) ==
  /\ held = 1 /\ call = Idle
  /\ dismissed' = dismissed \cup ws
  /\ go' = go \cup ws
  /\ UNCHANGED <<refs, set, joined, queue, tpc, task, job, done, rpc, idx, ran,
                 runVars, progVars, halt>>

-------------------------------------------------------------------------------
(* A piece: taken under the lock, run, counted, and with the last one the  *)
(* caller is woken.  Both kinds of thread do it.                           *)

\* Mutants of TakePiece: the job leaves the queue one piece too early, or stays in it.
TakePieceShort(t) ==
  LET r == Head(queue)
      p == job[r].nextPiece IN
  /\ task' = [task EXCEPT ![t] = [runner |-> r, piece |-> p]]
  /\ tpc' = [tpc EXCEPT ![t] = "run"]
  /\ job' = [job EXCEPT ![r].nextPiece = p + 1]
  /\ queue' = IF p + 2 = job[r].numPieces THEN Tail(queue) ELSE queue

TakePieceLong(t) ==
  LET r == Head(queue)
      p == job[r].nextPiece IN
  /\ task' = [task EXCEPT ![t] = [runner |-> r, piece |-> p]]
  /\ tpc' = [tpc EXCEPT ![t] = "run"]
  /\ job' = [job EXCEPT ![r].nextPiece = p + 1]
  /\ queue' = IF p + 1 > job[r].numPieces THEN Tail(queue) ELSE queue

\* TakePiece: the head's next piece; a job leaves the queue with its last piece taken.
TakePiece(t) ==
  LET r == Head(queue)
      p == job[r].nextPiece IN
  /\ task' = [task EXCEPT ![t] = [runner |-> r, piece |-> p]]
  /\ tpc' = [tpc EXCEPT ![t] = "run"]
  /\ job' = [job EXCEPT ![r].nextPiece = p + 1]
  /\ queue' = IF p + 1 = job[r].numPieces THEN Tail(queue) ELSE queue

RunFunc(t) ==
  /\ tpc[t] = "run"
  /\ ran' = [ran EXCEPT ![task[t].runner] = @ \cup {task[t].piece}]
  /\ tpc' = [tpc EXCEPT ![t] = "count"]
  /\ UNCHANGED <<refs, set, joinVars, queue, go, task, job, done, rpc, idx, runVars,
                 progVars, halt>>

\* Mutant of CountPiece: the caller is let go when the last piece has been taken.
CountPieceTaken(t) ==
  /\ tpc[t] = "count"
  /\ LET r == task[t].runner IN
     /\ job' = [job EXCEPT ![r].numFinished = @ + 1]
     /\ tpc' = [tpc EXCEPT ![t] = IF job[r].nextPiece = job[r].numPieces THEN "set" ELSE "loop"]
     /\ UNCHANGED task
  /\ UNCHANGED <<refs, set, joinVars, queue, go, done, rpc, idx, ran, runVars, progVars,
                 halt>>

\* The atomic increment of NumFinished; NumPieces and Done are read before it.
CountPiece(t) ==
  /\ tpc[t] = "count"
  /\ LET r == task[t].runner
         n == job[r].numFinished + 1 IN
     /\ job' = [job EXCEPT ![r].numFinished = n]
     /\ IF n = job[r].numPieces
        THEN tpc' = [tpc EXCEPT ![t] = "set"] /\ UNCHANGED task
        ELSE /\ tpc' = [tpc EXCEPT ![t] = "loop"]
             /\ task' = [task EXCEPT ![t] = NoTask]
  /\ UNCHANGED <<refs, set, joinVars, queue, go, done, rpc, idx, ran, runVars, progVars,
                 halt>>

SetDone(t) ==
  /\ tpc[t] = "set"
  /\ done' = done \cup {task[t].runner}
  /\ tpc' = [tpc EXCEPT ![t] = "loop"]
  /\ task' = [task EXCEPT ![t] = NoTask]
  /\ UNCHANGED <<refs, set, joinVars, queue, go, job, rpc, idx, ran, runVars, progVars,
                 halt>>

WaitGo(t) ==
  /\ tpc[t] = "wait" /\ t \in go
  /\ go' = go \ {t}
  /\ tpc' = [tpc EXCEPT ![t] = "loop"]
  /\ UNCHANGED <<refs, set, joinVars, queue, task, job, done, rpc, idx, ran, runVars,
                 progVars, halt>>

\* PoolThreadMain's section under the lock.
OwnLoop(t) ==
  /\ tpc[t] = "loop"
  /\ \/ /\ Stop
        /\ tpc' = [tpc EXCEPT ![t] = "off"]
        /\ UNCHANGED <<queue, task, job>>
     \/ /\ ~Stop /\ queue = <<>>
        /\ tpc' = [tpc EXCEPT ![t] = "wait"]
        /\ UNCHANGED <<queue, task, job>>
     \/ /\ ~Stop /\ queue # <<>>
        /\ TakePiece(t)
  /\ UNCHANGED <<refs, set, joinVars, go, done, rpc, idx, ran, runVars, progVars, halt>>

\* DtWorkerPool_Join, up to its loop.
Join(w) ==
  /\ tpc[w] = "off" /\ held = 1
  /\ NoSetUpUnderWay
  /\ set.mode = "joinable" /\ Cardinality(joined) < set.numThreads
  /\ IF w \in dismissed
     THEN /\ dismissed' = dismissed \ {w}
          /\ UNCHANGED <<joined, numRefs, tpc>>
     ELSE /\ joined' = joined \cup {w}
          /\ numRefs' = numRefs + 1
          /\ tpc' = [tpc EXCEPT ![w] = "loop"]
          /\ UNCHANGED dismissed
  /\ UNCHANGED <<numRunnersSized, set, queue, go, task, job, done, rpc, idx, ran,
                 runVars, progVars, halt>>

\* Mutant of MayLeave: the last joined thread leaves with a job queued.
MayLeaveAtOnce(w) == w \in dismissed

\* Whether a joined thread that was dismissed may leave, under the lock.
MayLeave(w) == w \in dismissed /\ (Cardinality(joined) > 1 \/ queue = <<>>)

JoinLoop(w) ==
  /\ tpc[w] = "loop"
  /\ \/ /\ MayLeave(w)
        /\ joined' = joined \ {w}
        /\ dismissed' = dismissed \ {w}
        /\ tpc' = [tpc EXCEPT ![w] = "leave"]
        /\ UNCHANGED <<queue, task, job>>
     \/ /\ ~MayLeave(w) /\ queue = <<>>
        /\ tpc' = [tpc EXCEPT ![w] = "wait"]
        /\ UNCHANGED <<joinVars, queue, task, job>>
     \/ /\ ~MayLeave(w) /\ queue # <<>>
        /\ TakePiece(w)
        /\ UNCHANGED joinVars
  /\ UNCHANGED <<refs, set, go, done, rpc, idx, ran, runVars, progVars, halt>>

JoinReturns(w) ==
  /\ tpc[w] = "leave"
  /\ tpc' = [tpc EXCEPT ![w] = "off"]
  /\ DropRef
  /\ UNCHANGED <<numRunnersSized, set, joinVars, queue, go, task, job, done, rpc, idx,
                 ran, runVars, progVars>>

Work(t) == RunFunc(t) \/ CountPiece(t) \/ SetDone(t) \/ WaitGo(t)
OwnThread(t) == Work(t) \/ OwnLoop(t)
JoinedThread(w) == Work(w) \/ JoinLoop(w) \/ JoinReturns(w)

-------------------------------------------------------------------------------
(* A channel and its DtJobRunner.                                          *)

\* SetWorkerPool of a channel: its side sizes the runner first, if it has a layout and the
\* memory, and the channel takes a hold of its own, until it is detached.
GivePool(r) ==
  /\ r \notin given
  /\ rpc[r] = "give" \/ (rpc[r] = "idle" /\ held = 1 /\ NoSetUpUnderWay)
  /\ numRefs' = numRefs + 1
  /\ given' = given \cup {r}
  /\ rpc' = [rpc EXCEPT ![r] = "idle"]
  /\ UNCHANGED <<numRunnersSized, set, joinVars, queue, go, tpc, task, job, done, idx, ran,
                 pooled, numPieces, progVars, halt>>

DropPool(r) ==
  /\ rpc[r] = "idle" /\ r \in given \ pooled
  /\ given' = given \ {r}
  /\ DropRef
  /\ UNCHANGED <<numRunnersSized, set, joinVars, jobVars, pooled, numPieces, progVars>>

\* Mutant of SetPoolHold: a runner that has this pool already takes no hold for the new one.
SetPoolHoldOnce(r) ==
  /\ rpc[r] = "idle" /\ (r \in given \/ held = 1)
  /\ NoSetUpUnderWay
  /\ numRefs' = IF r \in pooled THEN numRefs ELSE numRefs + 1
  /\ numRunnersSized' = numRunnersSized + 1
  /\ rpc' = [rpc EXCEPT ![r] = "hold"]
  /\ UNCHANGED <<set, joinVars, queue, go, tpc, task, job, done, idx, ran, runVars,
                 progVars, halt>>

\* DtJobRunner_SetPool holds the new pool before it frees the runner, then sizes itself.
SetPoolHold(r) ==
  /\ rpc[r] = "idle" /\ (r \in given \/ held = 1)
  /\ NoSetUpUnderWay
  /\ numRefs' = numRefs + 1
  /\ numRunnersSized' = numRunnersSized + 1
  /\ rpc' = [rpc EXCEPT ![r] = "hold"]
  /\ UNCHANGED <<set, joinVars, queue, go, tpc, task, job, done, idx, ran, runVars,
                 progVars, halt>>

SetPoolFree(r) ==
  /\ rpc[r] = "hold"
  /\ IF r \in pooled
     THEN numRunnersSized' = numRunnersSized - 1 /\ DropRef
     ELSE UNCHANGED <<refs, halt>>
  /\ done' = done \ {r}
  /\ pooled' = pooled \ {r}
  /\ numPieces' = [numPieces EXCEPT ![r] = 1]
  /\ rpc' = [rpc EXCEPT ![r] = "size"]
  /\ UNCHANGED <<set, joinVars, queue, go, tpc, task, job, idx, ran, given, progVars>>

\* Mutant of NumThreads: a pool that was not set up has no thread instead of the caller's.
NumThreadsUnset == set.numThreads

\* DtWorkerPool_NumThreads
NumThreads == IF set.numThreads > 0 THEN set.numThreads ELSE 1

SetPoolSize(r) ==
  /\ rpc[r] = "size"
  /\ \E asked \in 0..MaxThreads :
       numPieces' = [numPieces EXCEPT
                       ![r] = IF asked > 0 /\ asked < NumThreads THEN asked ELSE NumThreads]
  /\ pooled' = pooled \cup {r}
  /\ rpc' = [rpc EXCEPT ![r] = IF r \in given THEN "idle" ELSE "give"]
  /\ UNCHANGED <<refs, set, joinVars, queue, go, tpc, task, job, done, idx, ran, given,
                 progVars, halt>>

\* DtJobRunner_Free, and DtJobRunner_SetPool with no pool.
RunnerFree(r) ==
  /\ rpc[r] = "idle" /\ r \in pooled
  /\ numRunnersSized' = numRunnersSized - 1
  /\ DropRef
  /\ done' = done \ {r}
  /\ pooled' = pooled \ {r}
  /\ numPieces' = [numPieces EXCEPT ![r] = 1]
  /\ UNCHANGED <<set, joinVars, queue, go, tpc, task, job, rpc, idx, ran, given, progVars>>

\* DtJobRunner_Run: in the calling thread, through the program's function, or queued.
InCaller(r) ==
  \/ r \notin pooled \/ numPieces[r] = 1 \/ set.numThreads = 0
  \/ set.mode = "joinable" /\ joined = {}

RunInCaller(r) ==
  /\ rpc[r] = "idle" /\ InCaller(r)
  /\ rpc' = [rpc EXCEPT ![r] = "inline"]
  /\ idx' = [idx EXCEPT ![r] = 0]
  /\ ran' = [ran EXCEPT ![r] = {}]
  /\ UNCHANGED <<refs, set, joinVars, queue, go, tpc, task, job, done, runVars, progVars,
                 halt>>

RunDispatched(r) ==
  /\ rpc[r] = "idle" /\ ~InCaller(r) /\ set.mode = "dispatch"
  /\ rpc' = [rpc EXCEPT ![r] = "dispatch"]
  /\ ran' = [ran EXCEPT ![r] = {}]
  /\ UNCHANGED <<refs, set, joinVars, queue, go, tpc, task, job, done, idx, runVars,
                 progVars, halt>>

\* RunQueued's section under the lock: the job joins the queue, the joined threads are woken.
RunQueued(r) ==
  /\ rpc[r] = "idle" /\ ~InCaller(r) /\ set.mode # "dispatch"
  /\ job' = [job EXCEPT ![r] = [NoJob EXCEPT !.numPieces = numPieces[r]]]
  /\ queue' = Append(queue, r)
  /\ go' = go \cup joined
  /\ ran' = [ran EXCEPT ![r] = {}]
  /\ rpc' = [rpc EXCEPT ![r] = "signal"]
  /\ idx' = [idx EXCEPT ![r] = 1]
  /\ UNCHANGED <<refs, set, joinVars, tpc, task, done, runVars, progVars, halt>>

\* A piece run in the calling thread.
InlinePiece(r) ==
  /\ rpc[r] = "inline" /\ idx[r] < numPieces[r]
  /\ ran' = [ran EXCEPT ![r] = @ \cup {idx[r]}]
  /\ idx' = [idx EXCEPT ![r] = @ + 1]
  /\ UNCHANGED <<refs, set, joinVars, queue, go, tpc, task, job, done, rpc, runVars,
                 progVars, halt>>

\* External: the program's DtJobDispatchFunc runs every piece once, in any order.
DispatchedPiece(r) ==
  /\ rpc[r] = "dispatch"
  /\ \E p \in (0..numPieces[r] - 1) \ ran[r] : ran' = [ran EXCEPT ![r] = @ \cup {p}]
  /\ UNCHANGED <<refs, set, joinVars, queue, go, tpc, task, job, done, rpc, idx,
                 runVars, progVars, halt>>

RunReturns(r) ==
  /\ \/ rpc[r] = "inline" /\ idx[r] = numPieces[r]
     \/ rpc[r] = "dispatch" /\ ran[r] = 0..numPieces[r] - 1
  /\ rpc' = [rpc EXCEPT ![r] = "idle"]
  /\ UNCHANGED <<refs, set, joinVars, queue, go, tpc, task, job, done, idx, ran,
                 runVars, progVars, halt>>

SignalOwn(r) ==
  /\ rpc[r] = "signal"
  /\ IF idx[r] <= set.numStarted
     THEN /\ go' = go \cup {idx[r]}
          /\ idx' = [idx EXCEPT ![r] = @ + 1]
          /\ UNCHANGED rpc
     ELSE /\ rpc' = [rpc EXCEPT ![r] = "await"]
          /\ UNCHANGED <<go, idx>>
  /\ UNCHANGED <<refs, set, joinVars, queue, tpc, task, job, done, ran, runVars, progVars,
                 halt>>

\* OsEvent_Wait(Done) returns, RunQueued returns, and the job is gone from the stack.
AwaitDone(r) ==
  /\ rpc[r] = "await" /\ r \in done
  /\ done' = done \ {r}
  /\ job' = [job EXCEPT ![r] = NoJob]
  /\ rpc' = [rpc EXCEPT ![r] = "idle"]
  /\ UNCHANGED <<refs, set, joinVars, queue, go, tpc, task, idx, ran, runVars, progVars,
                 halt>>

InRun(r) == InlinePiece(r) \/ DispatchedPiece(r) \/ RunReturns(r) \/ SignalOwn(r) \/ AwaitDone(r)
InSetPool(r) == SetPoolFree(r) \/ SetPoolSize(r) \/ (rpc[r] = "give" /\ GivePool(r))
InStopThreads == StopSet \/ StopSignal \/ StopJoin \/ StopClear
InSetUp == IsInUse \/ Apply \/ StartThread \/ ReturnFailure

-------------------------------------------------------------------------------
Next ==
  \/ Alloc \/ Free \/ InStopThreads \/ InSetUp \/ StartFails
  \/ \E wants \in Setups, n \in 2..MaxThreads : SetUp(wants, n)
  \/ \E w \in Workers : Dismiss({w}) \/ Join(w) \/ JoinedThread(w)
  \/ Dismiss(joined)
  \/ \E t \in Own : OwnThread(t)
  \/ \E r \in Runners :
       \/ GivePool(r) \/ DropPool(r) \/ SetPoolHold(r) \/ InSetPool(r) \/ RunnerFree(r)
       \/ RunInCaller(r) \/ RunDispatched(r) \/ RunQueued(r) \/ InRun(r)

Spec == Init /\ [][Next]_vars

\* Every thread that is inside the library keeps running.  Nothing is assumed of when the
\* program calls it.
Fairness ==
  /\ WF_vars(InStopThreads) /\ WF_vars(InSetUp)
  /\ \A t \in Own : WF_vars(OwnThread(t))
  /\ \A w \in Workers : WF_vars(JoinedThread(w))
  /\ \A r \in Runners : WF_vars(InRun(r)) /\ WF_vars(InSetPool(r))

FairSpec == Spec /\ Fairness

-------------------------------------------------------------------------------
(* Properties.                                                             *)

RunnerSteps == {"idle", "hold", "size", "give", "inline", "dispatch", "signal", "await"}
ThreadSteps == {"off", "wait", "loop", "run", "count", "set", "leave"}

PoolTypes ==
  /\ numRefs \in Int /\ numRunnersSized \in Int /\ held \in 0..1
  /\ set \in [mode : {"none", "own", "dispatch", "joinable"}, numThreads : 0..MaxThreads,
              numStarted : Nat]
  /\ call \in [step : {"idle", "joined", "check", "stopping", "starting", "failed"},
               wants : Setups \cup {"none"}, count : 0..MaxThreads]
  /\ call.step # "idle" => call.wants \in Setups
  /\ halt \in [step : {"off", "stop", "signal", "join"}, i : Nat]

ThreadTypes ==
  /\ joined \subseteq Workers /\ dismissed \subseteq Workers
  /\ go \subseteq Workers \cup Nat
  /\ tpc \in [Threads -> ThreadSteps]
  /\ task \in [Threads -> [runner : Runners \cup {"none"}, piece : Nat]]
  /\ \A t \in Threads : tpc[t] \in {"run", "count", "set"} => task[t].runner \in Runners

RunnerTypes ==
  /\ queue \in Seq(Runners)
  /\ given \subseteq Runners /\ pooled \subseteq Runners
  /\ numPieces \in [Runners -> 1..MaxThreads]
  /\ job \in [Runners -> [numPieces : Nat, nextPiece : Nat, numFinished : Nat]]
  /\ done \subseteq Runners
  /\ rpc \in [Runners -> RunnerSteps]
  /\ idx \in [Runners -> Nat]
  /\ ran \in [Runners -> SUBSET Nat]

\* The types of the pool's counters and calls, of its threads and of the runners' jobs.
TypeOK == PoolTypes /\ ThreadTypes /\ RunnerTypes

InQueuedRun(r) == rpc[r] \in {"signal", "await"}
Working == {"run", "count", "set"}

\* A job lies on its caller's stack: as long as it is queued, or a thread runs, counts or
\* reports a piece of it, the caller is still inside RunQueued, and the event that lets it
\* go has not been set (DtWorkerPool.c:28-31, RunPiece).
JobOutlivesItsPieces ==
  /\ \A i \in DOMAIN queue : InQueuedRun(queue[i]) /\ queue[i] \notin done
  /\ \A t \in Threads : tpc[t] \in Working =>
       InQueuedRun(task[t].runner) /\ task[t].runner \notin done

\* No job waits for a thread that is not coming: while joined threads serve the pool and a
\* job is queued, one is joined (DtWorkerPool.c:33-36).
QueuedJobHasAThread == queue # <<>> /\ set.mode = "joinable" => joined # {}

\* Who holds a reference to the pool: the program, a channel, a runner sized by the pool
\* (in SetPool it takes the new hold before it drops the old), a thread in Join.
Holders ==
  (IF held = 1 THEN {<<"program">>} ELSE {})
  \cup {<<"channel", r>> : r \in given}
  \cup {<<"runner", r>> : r \in pooled}
  \cup {<<"sizing", r>> : r \in {x \in Runners : rpc[x] \in {"hold", "size"}}}
  \cup {<<"thread", w>> : w \in {x \in Workers : tpc[x] # "off"}}

\* The reference count is the number of holders: the program, every channel, every sized
\* runner and every thread inside Join; so the pool is there for whoever uses it, and goes
\* with the last (DtWorkerPool.h, "A pool has a reference count").
RefsCountHolders == numRefs = Cardinality(Holders)

\* StopThreads is "called with no job running and no thread joined" (DtWorkerPool.c:160).
StopThreadsFindsPoolIdle ==
  halt.step # "off" =>
    /\ queue = <<>> /\ joined = {}
    /\ \A r \in Runners : ~InQueuedRun(r)

\* A set-up function returns: no thread of the pool misses that it is to stop.
SetUpReturns == call # Idle ~> call = Idle

\* "Makes the thread of Worker leave the pool: its DtWorkerPool_Join() returns once it has
\* finished its current piece" (cdtapi.h, DtWorkerPool_Dismiss).
DismissedThreadLeaves == \A w \in Workers : w \in joined /\ w \in dismissed ~> w \notin joined

Running(r) == rpc[r] \in {"inline", "dispatch", "signal", "await"}

\* DtJobRunner_Run runs every piece once and then, and only then, returns; with the
\* threads running it does return.
Job == INSTANCE Piecework WITH
  phase <- [r \in Runners |-> IF Running(r) THEN "running" ELSE "idle"],
  left <- [r \in Runners |-> IF Running(r) THEN (0..numPieces[r] - 1) \ ran[r] ELSE {}]

RunsEveryPieceOnce == Job!Spec
===============================================================================
