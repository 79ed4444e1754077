------------------------------ MODULE InpChannel ------------------------------
(***************************************************************************)
(* Source/Channel/DtInpChannel.c: one input channel, used by several       *)
(* threads of the program, and of the side it receives through             *)
(* (DtRxBackend.h) what the channel's rules are about.                     *)
(*                                                                         *)
(* A section under Chan->Lock is one step.  A call that fails its checks   *)
(* and changes nothing is no step.                                         *)
(***************************************************************************)
EXTENDS Integers, FiniteSets

CONSTANTS
  Threads,           \* the threads of the program
  Tries,             \* pauses of a detach before it gives up, DT_DETACH_TRIES
  MaxLoad,           \* bound: the frames, or blocks of bytes, the ring holds
  CrossFailsInRead   \* FALSE: a change between SDI and ASI fails only with no read waiting

ASSUME InpAssumption ==
  /\ IsFiniteSet(Threads)
  /\ Tries \in Nat \ {0} /\ MaxLoad \in Nat \ {0}
  /\ CrossFailsInRead \in BOOLEAN

VARIABLES
  alive,            \* the channel has been allocated and not been freed
  attached,         \* Chan->Attached
  device,           \* Chan->Device, the channel's own handle: "open" or "closed"
  waitingDetaches,  \* Chan->WaitingDetaches
  reading,          \* Chan->Reading
  pool,             \* whether Chan->WorkerPool is held
  side,             \* Chan->Rx, see NewSide
  pc                \* where every thread is, see Idle, Waiting and Pausing

vars == <<alive, attached, device, waitingDetaches, reading, pool, side, pc>>

\* control: RxControl; ready: the receive channel is set up, so receiving can start;
\* load: the frames or bytes the ring holds; lent: its first frame is lent to a view.
NewSide(std, ready) ==
  [std |-> std, control |-> "idle", ready |-> ready, load |-> 0, lent |-> FALSE]
NoSide == NewSide("none", FALSE)

Kinds == {"frame", "lend", "bytes"}    \* ReadFrame2, AcquireFrame, Read
Idle == [at |-> "idle"]
\* A wait is a sleep, or, of an SDI side that receives, the driver's for its next event.
Waiting(kind, timed) ==
  [at |-> "wait", kind |-> kind, timed |-> timed,
   driver |-> side.std = "sdi" /\ side.control # "idle"]
Pausing(left) == [at |-> "pause", left |-> left]
Freeing == [at |-> "free"]

Init ==
  /\ alive = TRUE /\ attached = FALSE /\ device = "closed"
  /\ waitingDetaches = 0 /\ reading = FALSE
  /\ pool = FALSE
  /\ side = NoSide
  /\ pc = [t \in Threads |-> Idle]

\* The program calls nothing on a channel it is freeing or has freed.
MayCall(t) == alive /\ pc[t] = Idle /\ \A u \in Threads : pc[u] # Freeing

\* LockAttached: the lock of an attached channel is what admits a call.
Admitted(t) == MayCall(t) /\ attached

-------------------------------------------------------------------------------
(* Attaching, detaching, freeing.                                          *)

Alloc(t) ==
  /\ ~alive /\ \A u \in Threads : pc[u] = Idle
  /\ alive' = TRUE
  /\ UNCHANGED <<attached, device, waitingDetaches, reading, pool, side, pc>>

\* The port is set to one standard or the other; an attach that fails leaves no trace.
AttachToPort(t) ==
  /\ MayCall(t) /\ ~attached
  /\ \E std \in {"sdi", "asi"} : side' = NewSide(std, TRUE)
  /\ attached' = TRUE /\ device' = "open"
  /\ UNCHANGED <<alive, waitingDetaches, reading, pool, pc>>

\* Mutant of LetGo: the pool is kept.
LetGoKeepingPool ==
  /\ side' = NoSide /\ device' = "closed" /\ attached' = FALSE
  /\ UNCHANGED pool

\* The side stops and is released with the frame it lent, then the device and the pool.
LetGo ==
  /\ side' = NoSide /\ device' = "closed" /\ attached' = FALSE
  /\ pool' = FALSE

Keep == UNCHANGED <<side, device, attached, pool>>

\* Mutant of Detach: the channel is let go under a read.
DetachAtOnce(t) ==
  /\ Admitted(t)
  /\ LetGo
  /\ UNCHANGED <<alive, waitingDetaches, reading, pc>>

Detach(t) ==
  /\ Admitted(t)
  /\ IF reading
     THEN /\ waitingDetaches' = waitingDetaches + 1
          /\ pc' = [pc EXCEPT ![t] = Pausing(Tries - 1)]
          /\ Keep
     ELSE LetGo /\ UNCHANGED <<waitingDetaches, pc>>
  /\ UNCHANGED <<alive, reading>>

\* Mutant of PauseAgain: the request is not withdrawn.
GiveUpSilently(t) ==
  /\ pc[t].at = "pause" /\ attached /\ reading
  /\ pc' = [pc EXCEPT ![t] = IF @.left = 0 THEN Idle ELSE Pausing(@.left - 1)]
  /\ UNCHANGED waitingDetaches
  /\ Keep /\ UNCHANGED <<alive, reading>>

\* A read is still there after the pause: pause again, or give up and withdraw the request.
PauseAgain(t) ==
  /\ pc[t].at = "pause" /\ attached /\ reading
  /\ IF pc[t].left = 0
     THEN /\ waitingDetaches' = waitingDetaches - 1
          /\ pc' = [pc EXCEPT ![t] = Idle]
     ELSE /\ pc' = [pc EXCEPT ![t] = Pausing(@.left - 1)]
          /\ UNCHANGED waitingDetaches
  /\ Keep /\ UNCHANGED <<alive, reading>>

\* No read is left, or another thread has detached the channel meanwhile.
DetachEnds(t) ==
  /\ pc[t].at = "pause" /\ ~(attached /\ reading)
  /\ waitingDetaches' = waitingDetaches - 1
  /\ pc' = [pc EXCEPT ![t] = Idle]
  /\ IF attached THEN LetGo ELSE Keep
  /\ UNCHANGED <<alive, reading>>

\* The detach of a Free pauses for as long as a read takes.  The program leaves no detach
\* of another thread behind.
Free(t) ==
  /\ MayCall(t) /\ \A u \in Threads : pc[u].at # "pause"
  /\ IF attached /\ reading
     THEN /\ waitingDetaches' = waitingDetaches + 1
          /\ pc' = [pc EXCEPT ![t] = Freeing]
          /\ Keep /\ UNCHANGED alive
     ELSE /\ alive' = FALSE
          /\ IF attached THEN LetGo ELSE Keep
          /\ UNCHANGED <<waitingDetaches, pc>>
  /\ UNCHANGED reading

FreeEnds(t) ==
  /\ pc[t] = Freeing /\ ~(attached /\ reading)
  /\ waitingDetaches' = waitingDetaches - 1
  /\ pc' = [pc EXCEPT ![t] = Idle]
  /\ alive' = FALSE
  /\ IF attached THEN LetGo ELSE Keep
  /\ UNCHANGED reading

-------------------------------------------------------------------------------
(* Control, with the lock held throughout.                                 *)

SetWorkerPool(t) ==
  /\ Admitted(t) /\ ~reading
  /\ pool' \in BOOLEAN
  /\ UNCHANGED <<alive, attached, device, waitingDetaches, reading, side, pc>>

\* Mutant of Applied: a frame stays lent when the ring starts over.
AppliedKeepingLent(control) ==
  IF side.control = control THEN {side}
  ELSE {[side EXCEPT !.control = control, !.load = 0]}

\* ApplyRxControl of an SDI side, SetRxControl of an ASI side: what may become of the side.
\* A lent frame is forgotten before all else.  Receiving starts with an empty ring; it does
\* not start without a ring, or when the driver refuses.  An ASI side stops and empties its
\* ring whatever the driver says, an SDI side goes on when it may not stop.
Applied(control) ==
  IF side.control = control THEN {side}
  ELSE IF side.std = "asi"
  THEN {[side EXCEPT !.control = c, !.load = 0] : c \in {"idle", control}}
  ELSE IF control = "idle"
  THEN {[side EXCEPT !.control = c, !.lent = FALSE] : c \in {"idle", "receive"}}
  ELSE {[side EXCEPT !.control = c, !.load = 0, !.lent = FALSE] : c \in {"idle", "receive"}}
       \cup {[side EXCEPT !.lent = FALSE]}

SetRxControl(t) ==
  /\ Admitted(t) /\ side.ready
  /\ \E control \in {"idle", "receive"} : side' \in Applied(control)
  /\ UNCHANGED <<alive, attached, device, waitingDetaches, reading, pool, pc>>

ClearFifo(t) ==
  /\ Admitted(t)
  /\ side' \in Applied("idle")
  /\ UNCHANGED <<alive, attached, device, waitingDetaches, reading, pool, pc>>

\* A new standard of the same side: an SDI side gives its receive channel up for a new one,
\* and is left without when it cannot have it.
SetSameStd(t) ==
  /\ Admitted(t) /\ side.control = "idle" /\ side.std = "sdi"
  /\ \E ready \in BOOLEAN : side' = NewSide("sdi", ready)
  /\ UNCHANGED <<alive, attached, device, waitingDetaches, reading, pool, pc>>

\* A standard of the other side: the one side is released and the other attached.
CrossStd(t) ==
  /\ Admitted(t) /\ side.control = "idle"
  /\ side' = NewSide(IF side.std = "sdi" THEN "asi" ELSE "sdi", TRUE)
  /\ UNCHANGED <<alive, attached, device, waitingDetaches, reading, pool, pc>>

\* When that fails the channel is left detached.
CrossStdFails(t) ==
  /\ Admitted(t) /\ side.control = "idle"
  /\ CrossFailsInRead \/ ~reading
  /\ LetGo
  /\ UNCHANGED <<alive, waitingDetaches, reading, pc>>

ReleaseFrame(t) ==
  /\ Admitted(t) /\ side.lent
  /\ side' = [side EXCEPT !.lent = FALSE, !.load = @ - 1]
  /\ UNCHANGED <<alive, attached, device, waitingDetaches, reading, pool, pc>>

-------------------------------------------------------------------------------
(* Reading.  ReadFrame2, AcquireFrame and Read loop alike: what the side   *)
(* holds is delivered, or the time is up, or the read waits without the    *)
(* lock and looks again.                                                   *)

Serves(kind) == IF kind = "bytes" THEN side.std = "asi" ELSE side.std = "sdi"
Receiving == side.control # "idle"

Finish(t) == reading' = FALSE /\ pc' = [pc EXCEPT ![t] = Idle]

\* What a look at s may leave: an SDI side passes over what is cut short, out of sync or half
\* of a level-B pair, and a read of bytes takes its blocks as they come.
Passed(s) ==
  IF Receiving /\ ~s.lent THEN {[s EXCEPT !.load = n] : n \in 0..s.load} ELSE {s}

\* The loop ends with a failure: the wrong side, a lent frame in the way, a receive mode or
\* a buffer that does not fit, the driver's error, or the time-out.
Refuse(t, kind, timed, s) ==
  /\ ~Serves(kind) \/ Receiving \/ timed
  /\ side' \in Passed(s)
  /\ Finish(t)

\* Mutant of Deliver: a frame is delivered that has not arrived.
DeliverUnseen(t, kind, s) ==
  /\ Serves(kind) /\ Receiving /\ ~s.lent
  /\ side' = [s EXCEPT !.load = @ - 1]
  /\ Finish(t)

\* A frame, or the last of the bytes asked for, is there.  A frame lent stays in the ring.
Deliver(t, kind, s) ==
  /\ Serves(kind) /\ Receiving /\ ~s.lent
  /\ \E left \in Passed(s) :
       IF kind = "lend" THEN left.load > 0 /\ side' = [left EXCEPT !.lent = TRUE]
                        ELSE left.load < s.load /\ side' = left
  /\ Finish(t)

\* No frame was found, or not as many bytes as were asked for.
WaitForData(t, kind, timed, s) ==
  /\ Serves(kind)
  /\ kind # "bytes" => ~s.lent
  /\ side' \in Passed(s)
  /\ kind # "bytes" /\ Receiving /\ s.load > 0 => side' # s
  /\ reading' = TRUE
  /\ pc' = [pc EXCEPT ![t] = Waiting(kind, timed)]

\* s is the side, less what the wait before made it discard.
Look(t, kind, timed, s) ==
  Refuse(t, kind, timed, s) \/ Deliver(t, kind, s) \/ WaitForData(t, kind, timed, s)

\* Mutant of MayRead: a second read may start.
MayReadTwo(kind) == waitingDetaches = 0 /\ (kind # "bytes" => ~side.lent)

\* One read at a time, none while a detach waits, and no view that holds a frame.
MayRead(kind) ==
  /\ waitingDetaches = 0 /\ ~reading
  /\ kind = "lend" => ~side.lent

StartRead(t, kind, timed) ==
  /\ Admitted(t) /\ MayRead(kind) /\ Serves(kind)
  /\ Look(t, kind, timed, side)
  /\ UNCHANGED <<alive, attached, device, waitingDetaches, pool>>

\* Mutant of Wake: the read does not see that a detach waits.
WakeUnaware(t) ==
  LET p == pc[t] IN
  /\ p.at = "wait"
  /\ \/ p.driver /\ Finish(t) /\ UNCHANGED side
     \/ Look(t, p.kind, p.timed, side)
     \/ p.driver /\ side.std = "sdi" /\ Look(t, p.kind, p.timed, [side EXCEPT !.load = 0])
  /\ UNCHANGED <<alive, attached, device, waitingDetaches, pool>>

\* The wait is over.  The driver's may have failed, or seen an event out of sync, for which
\* the side, if it is an SDI side again or still, discards all it holds.
Wake(t) ==
  LET p == pc[t] IN
  /\ p.at = "wait"
  /\ IF waitingDetaches > 0
     THEN Finish(t) /\ UNCHANGED side
     ELSE \/ p.driver /\ Finish(t) /\ UNCHANGED side
          \/ Look(t, p.kind, p.timed, side)
          \/ p.driver /\ side.std = "sdi" /\ Look(t, p.kind, p.timed, [side EXCEPT !.load = 0])
  /\ UNCHANGED <<alive, attached, device, waitingDetaches, pool>>

\* External: the card writes a frame, or a block of bytes, into the ring.
Arrive ==
  /\ Receiving /\ side.load < MaxLoad
  /\ side' = [side EXCEPT !.load = @ + 1]
  /\ UNCHANGED <<alive, attached, device, waitingDetaches, reading, pool, pc>>

-------------------------------------------------------------------------------
InDetach(t) == PauseAgain(t) \/ DetachEnds(t)

Next ==
  \/ Arrive
  \/ \E t \in Threads :
       \/ Alloc(t) \/ AttachToPort(t) \/ Detach(t) \/ InDetach(t) \/ Free(t) \/ FreeEnds(t)
       \/ SetWorkerPool(t) \/ SetRxControl(t) \/ ClearFifo(t)
       \/ SetSameStd(t) \/ CrossStd(t) \/ CrossStdFails(t) \/ ReleaseFrame(t)
       \/ \E kind \in Kinds, timed \in BOOLEAN : StartRead(t, kind, timed)
       \/ Wake(t)

Spec == Init /\ [][Next]_vars

\* Waits and pauses end.  Nothing is assumed of when the program calls, nor of the card.
Fairness ==
  \A t \in Threads : WF_vars(Wake(t)) /\ WF_vars(InDetach(t)) /\ WF_vars(FreeEnds(t))

FairSpec == Spec /\ Fairness

-------------------------------------------------------------------------------
(* Properties.                                                             *)

Sides ==
  [std : {"none", "sdi", "asi"}, control : {"idle", "receive"}, ready : BOOLEAN,
   load : 0..MaxLoad, lent : BOOLEAN]

Places ==
  {Idle, Freeing} \cup [at : {"pause"}, left : 0..Tries - 1]
  \cup [at : {"wait"}, kind : Kinds, timed : BOOLEAN, driver : BOOLEAN]

\* The channel's fields, its side and its threads have their types.
TypeOK ==
  /\ alive \in BOOLEAN /\ attached \in BOOLEAN /\ device \in {"open", "closed"}
  /\ waitingDetaches \in Int /\ reading \in BOOLEAN /\ pool \in BOOLEAN
  /\ side \in Sides
  /\ pc \in [Threads -> Places]

Waits(t) == pc[t].at = "wait"
Pauses(t) == pc[t].at \in {"pause", "free"}

\* Reading says whether a thread waits in a read, and at most one does: two would take
\* frames from the ring in no set order (DtInpChannel.c:722-723).
OneReader ==
  /\ reading <=> \E t \in Threads : Waits(t)
  /\ \A t, u \in Threads : Waits(t) /\ Waits(u) => t = u

\* The count keeps a detach that gives up from withdrawing the request of another that
\* still waits (DtInpChannel.c:150-152).
DetachesCounted == waitingDetaches = Cardinality({t \in Threads : Pauses(t)})

\* A lent frame lies at the head of a ring that is receiving, and no read waits that could
\* discard it or take it: whatever releases or restarts the ring takes the frame back first
\* (DtRxBackend.h, "also take a lent frame back").
LentFrameStays ==
  side.lent => side.std = "sdi" /\ Receiving /\ side.load > 0 /\ ~reading

\* Detached, by whichever way, the channel holds no side, no handle to the card and no
\* worker pool (DtInpChannel.c:70-72, "Held from the setting until ... the detach").
DetachedHoldsNothing == IF attached THEN side.std # "none" /\ device = "open"
                        ELSE side = NoSide /\ device = "closed" /\ ~pool

\* A read that waits finds its channel and a side when it looks again; it dereferences both
\* without asking (DtInpChannel.c:713, 772).
WaitingReadHasItsChannel == \A t \in Threads : Waits(t) => alive /\ attached

\* The channel keeps the promise of ChannelUse: it is not detached or freed under a read.
Use == INSTANCE ChannelUse WITH busy <- reading
KeepsItsUse == Use!Spec

\* A program that frees the channel gets back, and the channel is gone: the read it waits
\* for is cancelled, and no other starts (cdtapi.h, "A read waiting on another thread
\* returns DTAPI_E_CANCELLED first; Free waits for that as long as it takes").
FreeReturns == \A t \in Threads : pc[t] = Freeing ~> ~alive
===============================================================================
