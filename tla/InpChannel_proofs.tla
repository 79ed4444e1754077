--------------------------- MODULE InpChannel_proofs ---------------------------
(***************************************************************************)
(* The channel of InpChannel keeps its invariants for any number of        *)
(* threads; and, as long as a change between SDI and ASI does not fail     *)
(* under a read, a read keeps its channel and the channel the promise of   *)
(* ChannelUse.                                                             *)
(***************************************************************************)
EXTENDS InpChannel, FiniteSetTheorems, TLAPS

Inv == TypeOK /\ OneReader /\ LentFrameStays /\ DetachedHoldsNothing

\* The places a thread goes to are places.
LEMMA PlacesHold ==
  /\ Idle \in Places /\ Idle.at = "idle"
  /\ Freeing \in Places /\ Freeing.at = "free"
  /\ \A n \in 0..Tries - 1 : Pausing(n) \in Places /\ Pausing(n).at = "pause"
  <1>1. Idle \in Places /\ Idle.at = "idle"
    BY DEF Places, Idle
  <1>2. Freeing \in Places /\ Freeing.at = "free"
    BY DEF Places, Freeing
  <1>3. ASSUME NEW n \in 0..Tries - 1
        PROVE  Pausing(n) \in Places /\ Pausing(n).at = "pause"
    <2>1. Pausing(n) \in [at : {"pause"}, left : 0..Tries - 1]
      BY DEF Pausing
    <2> QED BY <2>1 DEF Places, Pausing
  <1> QED BY <1>1, <1>2, <1>3

\* A thread that pauses has a number of pauses left.
LEMMA PauseHas ==
  ASSUME NEW p \in Places, p.at = "pause"
  PROVE  p.left \in 0..Tries - 1
  BY DEF Places, Idle, Freeing

LEMMA WaitHas ==
  ASSUME NEW p \in Places, p.at = "wait"
  PROVE  p.kind \in Kinds /\ p.timed \in BOOLEAN
  BY DEF Places, Idle, Freeing

LEMMA InitInv == Init => Inv
  <1> SUFFICES ASSUME Init PROVE Inv
    OBVIOUS
  <1> USE InpAssumption DEF Init
  <1>1. TypeOK
    <2>1. side \in Sides
      BY 0 \in 0..MaxLoad, InpAssumption DEF Sides, NoSide, NewSide
    <2>2. pc \in [Threads -> Places]
      BY PlacesHold
    <2>3. waitingDetaches \in Int
      OBVIOUS
    <2>4. alive \in BOOLEAN /\ attached \in BOOLEAN /\ device \in {"open", "closed"}
          /\ reading \in BOOLEAN /\ pool \in BOOLEAN
      OBVIOUS
    <2> QED BY <2>1, <2>2, <2>3, <2>4 DEF TypeOK
  <1>2. OneReader
    BY PlacesHold DEF OneReader, Waits
  <1>3. LentFrameStays /\ DetachedHoldsNothing
    BY DEF LentFrameStays, DetachedHoldsNothing, NoSide, NewSide
  <1> QED BY <1>1, <1>2, <1>3 DEF Inv

\* Letting go of the channel.
LEMMA LetGoStep ==
  ASSUME Inv, LetGo, reading' = reading, alive' \in BOOLEAN,
         waitingDetaches' \in Int, pc' \in [Threads -> Places],
         \A t \in Threads : Waits(t)' <=> Waits(t)
  PROVE  Inv'
  <1>1. TypeOK'
    <2>1. side' \in Sides
      BY InpAssumption DEF Sides, LetGo, NoSide, NewSide
    <2>2. attached' \in BOOLEAN /\ device' \in {"open", "closed"} /\ pool' \in BOOLEAN
      BY DEF LetGo
    <2>3. reading' \in BOOLEAN
      BY DEF Inv, TypeOK
    <2> QED BY <2>1, <2>2, <2>3 DEF TypeOK
  <1>2. OneReader'
    BY DEF Inv, OneReader
  <1>3. LentFrameStays' /\ DetachedHoldsNothing'
    BY DEF LentFrameStays, DetachedHoldsNothing, LetGo, NoSide, NewSide
  <1> QED BY <1>1, <1>2, <1>3 DEF Inv

\* The channel stays as it is, and no read starts or ends.
LEMMA KeepStep ==
  ASSUME Inv, Keep, reading' = reading, alive' \in BOOLEAN,
         waitingDetaches' \in Int, pc' \in [Threads -> Places],
         \A t \in Threads : Waits(t)' <=> Waits(t)
  PROVE  Inv'
  BY DEF Keep, Inv, TypeOK, Sides, OneReader, LentFrameStays, DetachedHoldsNothing,
     Receiving

\* Only the side changes: it stays of its kind, and lends nothing new.
LEMMA SideStep ==
  ASSUME Inv, side' \in Sides, side.std # "none", side'.std # "none", attached,
         side'.lent => LentFrameStays',
         UNCHANGED <<alive, attached, device, waitingDetaches, reading, pool, pc>>
  PROVE  Inv'
  BY DEF Inv, TypeOK, OneReader, Waits, LentFrameStays, DetachedHoldsNothing

\* A thread goes to a place that is a wait only if its place was one.
LEMMA ThreadMoves ==
  ASSUME Inv, NEW t \in Threads, NEW p \in Places, pc' = [pc EXCEPT ![t] = p],
         p.at = "wait" <=> Waits(t)
  PROVE  pc' \in [Threads -> Places] /\ \A u \in Threads : Waits(u)' <=> Waits(u)
  BY DEF Inv, TypeOK, Waits

\* A read ends: no thread waits any more.
LEMMA FinishStep ==
  ASSUME Inv, NEW t \in Threads, \A u \in Threads : Waits(u) => u = t, Finish(t)
  PROVE  pc' \in [Threads -> Places] /\ OneReader' /\ ~reading' /\ reading' \in BOOLEAN
  BY PlacesHold DEF Inv, TypeOK, Finish, OneReader, Waits
--------------------------------------------------------------------------------
(* Attaching, detaching and freeing.                                       *)

LEMMA AllocStep ==
  ASSUME Inv, NEW t \in Threads, Alloc(t)
  PROVE  Inv'
  <1>1. Keep /\ waitingDetaches' \in Int /\ pc' \in [Threads -> Places]
        /\ \A u \in Threads : Waits(u)' <=> Waits(u)
    BY DEF Alloc, Keep, Inv, TypeOK, Waits
  <1> QED BY <1>1, KeepStep DEF Alloc

LEMMA AttachStep ==
  ASSUME Inv, NEW t \in Threads, AttachToPort(t)
  PROVE  Inv'
  BY InpAssumption DEF AttachToPort, MayCall, Inv, TypeOK, Sides, OneReader, Waits,
     LentFrameStays, DetachedHoldsNothing, NoSide, NewSide, Receiving

LEMMA DetachStep ==
  ASSUME Inv, NEW t \in Threads, Detach(t)
  PROVE  Inv'
  <1>1. CASE reading
    <2>1. Tries - 1 \in 0..Tries - 1
      BY InpAssumption
    <2>2. pc' \in [Threads -> Places] /\ \A u \in Threads : Waits(u)' <=> Waits(u)
      BY <1>1, <2>1, ThreadMoves, PlacesHold DEF Detach, Admitted, MayCall, Waits
    <2>3. Keep /\ waitingDetaches' \in Int /\ alive' = alive /\ reading' = reading
      BY <1>1 DEF Detach, Inv, TypeOK
    <2> QED BY <2>2, <2>3, KeepStep DEF Inv, TypeOK
  <1>2. CASE ~reading
    <2>1. LetGo /\ reading' = reading /\ alive' = alive /\ waitingDetaches' = waitingDetaches
          /\ pc' = pc
      BY <1>2 DEF Detach
    <2> QED BY <1>2, <2>1, LetGoStep DEF Inv, TypeOK, Waits
  <1> QED BY <1>1, <1>2

LEMMA PauseAgainStep ==
  ASSUME Inv, NEW t \in Threads, PauseAgain(t)
  PROVE  Inv'
  <1>1. PICK p \in Places : pc' = [pc EXCEPT ![t] = p] /\ p.at # "wait"
    <2>1. CASE pc[t].left = 0
      BY <2>1, PlacesHold DEF PauseAgain
    <2>2. CASE pc[t].left # 0
      <3>1. pc[t].left - 1 \in 0..Tries - 1
        BY <2>2, PauseHas, InpAssumption DEF PauseAgain, Inv, TypeOK
      <3> QED BY <2>2, <3>1, PlacesHold DEF PauseAgain
    <2> QED BY <2>1, <2>2
  <1>2. pc' \in [Threads -> Places] /\ \A u \in Threads : Waits(u)' <=> Waits(u)
    BY <1>1, ThreadMoves DEF PauseAgain, Waits
  <1>3. Keep /\ waitingDetaches' \in Int /\ alive' = alive /\ reading' = reading
    BY DEF PauseAgain, Inv, TypeOK
  <1> QED BY <1>2, <1>3, KeepStep DEF Inv, TypeOK

LEMMA DetachEndsStep ==
  ASSUME Inv, NEW t \in Threads, DetachEnds(t)
  PROVE  Inv'
  <1>1. pc' \in [Threads -> Places] /\ \A u \in Threads : Waits(u)' <=> Waits(u)
    BY ThreadMoves, PlacesHold DEF DetachEnds, Waits
  <1>2. waitingDetaches' \in Int /\ alive' = alive /\ reading' = reading
    BY DEF DetachEnds, Inv, TypeOK
  <1>3. CASE attached
    BY <1>1, <1>2, <1>3, LetGoStep DEF DetachEnds, Inv, TypeOK
  <1>4. CASE ~attached
    BY <1>1, <1>2, <1>4, KeepStep DEF DetachEnds, Inv, TypeOK
  <1> QED BY <1>3, <1>4

LEMMA FreeStep ==
  ASSUME Inv, NEW t \in Threads, Free(t)
  PROVE  Inv'
  <1>1. CASE attached /\ reading
    <2>1. pc' \in [Threads -> Places] /\ \A u \in Threads : Waits(u)' <=> Waits(u)
      BY <1>1, ThreadMoves, PlacesHold DEF Free, MayCall, Waits
    <2>2. Keep /\ waitingDetaches' \in Int /\ alive' = alive /\ reading' = reading
      BY <1>1 DEF Free, Inv, TypeOK
    <2> QED BY <2>1, <2>2, KeepStep DEF Inv, TypeOK
  <1>2. CASE ~(attached /\ reading)
    <2>1. pc' = pc /\ waitingDetaches' = waitingDetaches /\ alive' = FALSE
          /\ reading' = reading
      BY <1>2 DEF Free
    <2>2. pc' \in [Threads -> Places] /\ waitingDetaches' \in Int
          /\ \A u \in Threads : Waits(u)' <=> Waits(u)
      BY <2>1 DEF Inv, TypeOK, Waits
    <2>3. CASE attached
      BY <1>2, <2>1, <2>2, <2>3, LetGoStep DEF Free
    <2>4. CASE ~attached
      BY <1>2, <2>1, <2>2, <2>4, KeepStep DEF Free
    <2> QED BY <2>3, <2>4
  <1> QED BY <1>1, <1>2

LEMMA FreeEndsStep ==
  ASSUME Inv, NEW t \in Threads, FreeEnds(t)
  PROVE  Inv'
  <1>1. pc' \in [Threads -> Places] /\ \A u \in Threads : Waits(u)' <=> Waits(u)
    BY ThreadMoves, PlacesHold DEF FreeEnds, Waits
  <1>2. waitingDetaches' \in Int /\ alive' = FALSE /\ reading' = reading
    BY DEF FreeEnds, Inv, TypeOK
  <1>3. CASE attached
    BY <1>1, <1>2, <1>3, LetGoStep DEF FreeEnds
  <1>4. CASE ~attached
    BY <1>1, <1>2, <1>4, KeepStep DEF FreeEnds
  <1> QED BY <1>3, <1>4
--------------------------------------------------------------------------------
(* Control.                                                                *)

\* Applying a receive control keeps the side's kind and lends nothing.
LEMMA AppliedKeeps ==
  ASSUME Inv, attached, NEW control \in {"idle", "receive"}, side' \in Applied(control)
  PROVE  side' \in Sides /\ side'.std # "none" /\ (side'.lent => side' = side)
  <1> USE InpAssumption
  <1>1. side \in Sides /\ side.std # "none"
    BY DEF Inv, TypeOK, DetachedHoldsNothing
  <1>0. 0 \in 0..MaxLoad
    OBVIOUS
  <1>2. CASE side' = side
    BY <1>1, <1>2
  <1>3. ASSUME NEW c \in {"idle", "receive"}, side.std = "asi",
               side' = [side EXCEPT !.control = c, !.load = 0]
        PROVE  side' \in Sides /\ side'.std # "none" /\ ~side'.lent
    <2>1. ~side.lent
      BY <1>3 DEF Inv, LentFrameStays
    <2> QED BY <1>0, <1>1, <1>3, <2>1 DEF Sides
  <1>4. ASSUME NEW c \in {"idle", "receive"},
               side' = [side EXCEPT !.control = c, !.lent = FALSE]
        PROVE  side' \in Sides /\ side'.std # "none" /\ ~side'.lent
    BY <1>1, <1>4 DEF Sides
  <1>5. ASSUME NEW c \in {"idle", "receive"},
               side' = [side EXCEPT !.control = c, !.load = 0, !.lent = FALSE]
        PROVE  side' \in Sides /\ side'.std # "none" /\ ~side'.lent
    BY <1>0, <1>1, <1>5 DEF Sides
  <1>6. CASE side' = [side EXCEPT !.lent = FALSE]
    BY <1>1, <1>6 DEF Sides
  <1>7. CASE side.std = "asi"
    BY <1>2, <1>3, <1>7 DEF Applied
  <1>8. CASE side.std # "asi"
    BY <1>2, <1>4, <1>5, <1>6, <1>8 DEF Applied
  <1> QED BY <1>7, <1>8

LEMMA ControlStep ==
  ASSUME Inv, NEW t \in Threads, SetRxControl(t) \/ ClearFifo(t)
  PROVE  Inv'
  <1>1. PICK control \in {"idle", "receive"} : side' \in Applied(control)
    BY DEF SetRxControl, ClearFifo
  <1>2. attached /\ UNCHANGED <<alive, attached, device, waitingDetaches, reading, pool, pc>>
    BY DEF SetRxControl, ClearFifo, Admitted
  <1>3. side' \in Sides /\ side'.std # "none" /\ (side'.lent => side' = side)
    BY <1>1, <1>2, AppliedKeeps
  <1>4. side.std # "none"
    BY <1>2 DEF Inv, DetachedHoldsNothing
  <1>5. side'.lent => LentFrameStays'
    BY <1>2, <1>3 DEF Inv, LentFrameStays, Receiving
  <1> QED BY <1>2, <1>3, <1>4, <1>5, SideStep

LEMMA SetStdStep ==
  ASSUME Inv, NEW t \in Threads, SetSameStd(t) \/ CrossStd(t)
  PROVE  Inv'
  <1>1. attached /\ UNCHANGED <<alive, attached, device, waitingDetaches, reading, pool, pc>>
    BY DEF SetSameStd, CrossStd, Admitted
  <1>2. PICK std \in {"sdi", "asi"}, ready \in BOOLEAN : side' = NewSide(std, ready)
    BY DEF SetSameStd, CrossStd
  <1>4. side' \in Sides /\ side'.std # "none" /\ ~side'.lent
    BY <1>2, InpAssumption DEF Sides, NewSide
  <1>3. side.std # "none"
    BY <1>1 DEF Inv, DetachedHoldsNothing
  <1> QED BY <1>1, <1>3, <1>4, SideStep

LEMMA RingStep ==
  ASSUME Inv, Arrive \/ \E t \in Threads : ReleaseFrame(t)
  PROVE  Inv'
  <1>1. side.std # "none" /\ attached
        /\ UNCHANGED <<alive, attached, device, waitingDetaches, reading, pool, pc>>
    BY DEF Arrive, ReleaseFrame, Admitted, Inv, DetachedHoldsNothing, Receiving, NoSide, NewSide
  <1>2. side \in Sides
    BY DEF Inv, TypeOK
  <1>3. CASE Arrive
    <2>1. side' \in Sides /\ side'.std # "none" /\ (side'.lent => LentFrameStays')
      BY <1>1, <1>2, <1>3, InpAssumption DEF Arrive, Sides, Inv, LentFrameStays, Receiving
    <2> QED BY <1>1, <2>1, SideStep
  <1>4. CASE \E t \in Threads : ReleaseFrame(t)
    <2>1. side.load - 1 \in 0..MaxLoad
      BY <1>2, <1>4, InpAssumption DEF ReleaseFrame, Sides, Inv, LentFrameStays
    <2>2. side' = [side EXCEPT !.lent = FALSE, !.load = side.load - 1]
      BY <1>4 DEF ReleaseFrame
    <2>3. side' \in Sides /\ side'.std # "none" /\ ~side'.lent
      BY <1>1, <1>2, <2>1, <2>2 DEF Sides
    <2> QED BY <1>1, <2>3, SideStep
  <1> QED BY <1>3, <1>4

LEMMA SetWorkerPoolStep ==
  ASSUME Inv, NEW t \in Threads, SetWorkerPool(t)
  PROVE  Inv'
  BY DEF SetWorkerPool, Admitted, Inv, TypeOK, Sides, OneReader, Waits, LentFrameStays,
     DetachedHoldsNothing, Receiving

LEMMA CrossStdFailsStep ==
  ASSUME Inv, NEW t \in Threads, CrossStdFails(t)
  PROVE  Inv'
  <1>1. LetGo /\ reading' = reading /\ alive' = alive /\ pc' = pc
        /\ waitingDetaches' = waitingDetaches
    BY DEF CrossStdFails
  <1> QED BY <1>1, LetGoStep DEF Inv, TypeOK, Waits
--------------------------------------------------------------------------------
(* Reading.                                                                *)

\* What a look passes over leaves a side of the same kind.
LEMMA PassedKeeps ==
  ASSUME NEW s \in Sides, NEW left \in Passed(s)
  PROVE  /\ left \in Sides /\ left.std = s.std /\ left.control = s.control
         /\ left.lent = s.lent /\ (s.lent => left = s)
  <1>1. ASSUME NEW n \in 0..s.load, left = [s EXCEPT !.load = n]
        PROVE  left \in Sides /\ left.std = s.std /\ left.control = s.control /\ left.lent = s.lent
    <2>1. n \in 0..MaxLoad
      BY InpAssumption DEF Sides
    <2> QED BY <1>1, <2>1 DEF Sides
  <1>2. left = s \/ (~s.lent /\ \E n \in 0..s.load : left = [s EXCEPT !.load = n])
    BY DEF Passed
  <1> QED BY <1>1, <1>2

\* What a read that looks at s leaves: a side of the same kind, and, if it waits, one that
\* lends nothing.
LEMMA LookSide ==
  ASSUME Inv, NEW t \in Threads, NEW kind \in Kinds, NEW timed \in BOOLEAN,
         NEW s \in Sides, s.std = side.std, s.control = side.control, s.lent = side.lent,
         side.lent => s = side, Look(t, kind, timed, s)
  PROVE  /\ side' \in Sides /\ side'.std = side.std /\ side'.control = side.control
         /\ side'.lent => side'.std = "sdi" /\ Receiving' /\ side'.load > 0
         /\ Finish(t) \/ (~side'.lent /\ WaitForData(t, kind, timed, s))
  <1> USE InpAssumption
  <1>1. side.lent => side.std = "sdi" /\ Receiving /\ side.load > 0
    BY DEF Inv, LentFrameStays
  <1>2. CASE Refuse(t, kind, timed, s)
    <2>1. side' \in Passed(s) /\ Finish(t)
      BY <1>2 DEF Refuse
    <2>2. /\ side' \in Sides /\ side'.std = s.std /\ side'.control = s.control
          /\ side'.lent = s.lent /\ (s.lent => side' = s)
      BY <2>1, PassedKeeps
    <2> QED BY <1>1, <2>1, <2>2 DEF Receiving
  <1>3. CASE Deliver(t, kind, s)
    <2>1. PICK left \in Passed(s) : IF kind = "lend"
                                   THEN left.load > 0 /\ side' = [left EXCEPT !.lent = TRUE]
                                   ELSE side' = left
      BY <1>3 DEF Deliver
    <2>2. /\ left \in Sides /\ left.std = s.std /\ left.control = s.control
          /\ left.lent = s.lent
      BY PassedKeeps
    <2>3. Finish(t) /\ ~s.lent /\ Receiving /\ Serves(kind)
      BY <1>3 DEF Deliver
    <2>4. CASE kind = "lend"
      <3>1. side' = [left EXCEPT !.lent = TRUE] /\ left.load > 0
        BY <2>1, <2>4
      <3>2. side' \in Sides /\ side'.std = side.std /\ side'.control = side.control
            /\ side'.load = left.load
        BY <2>2, <3>1 DEF Sides
      <3> QED BY <2>3, <2>4, <3>1, <3>2 DEF Receiving, Serves
    <2>5. CASE kind # "lend"
      BY <2>1, <2>2, <2>3, <2>5
    <2> QED BY <2>4, <2>5
  <1>4. CASE WaitForData(t, kind, timed, s)
    <2>1. ~s.lent
      BY <1>1, <1>4 DEF WaitForData, Serves, Kinds
    <2>2. side' \in Sides /\ side'.std = s.std /\ side'.control = s.control /\ side'.lent = s.lent
      BY <1>4, PassedKeeps DEF WaitForData
    <2> QED BY <1>4, <2>1, <2>2
  <1> QED BY <1>2, <1>3, <1>4 DEF Look

\* A read looks while no other thread waits in one.
LEMMA LookStep ==
  ASSUME Inv, NEW t \in Threads, NEW kind \in Kinds, NEW timed \in BOOLEAN,
         \A u \in Threads : Waits(u) => u = t,
         NEW s \in Sides, s.std = side.std, s.control = side.control, s.lent = side.lent,
         side.lent \/ ~attached => s = side, Look(t, kind, timed, s),
         UNCHANGED <<alive, attached, device, waitingDetaches, pool>>
  PROVE  Inv'
  <1>1. /\ side' \in Sides /\ side'.std = side.std /\ side'.control = side.control
        /\ side'.lent => side'.std = "sdi" /\ Receiving' /\ side'.load > 0
        /\ Finish(t) \/ (~side'.lent /\ WaitForData(t, kind, timed, s))
    BY LookSide
  <1>2. DetachedHoldsNothing'
    <2>1. CASE attached
      BY <1>1, <2>1 DEF Inv, DetachedHoldsNothing
    <2>2. CASE ~attached
      <3>1. s = NoSide /\ side = NoSide /\ ~Serves(kind) /\ ~Receiving
        BY <2>2 DEF Inv, DetachedHoldsNothing, NoSide, NewSide, Serves, Receiving
      <3>2. side' \in Passed(s)
        BY <3>1 DEF Look, Refuse, Deliver, WaitForData
      <3>3. side' = NoSide
        BY <3>1, <3>2 DEF Passed
      <3> QED BY <2>2, <3>3 DEF Inv, DetachedHoldsNothing
    <2> QED BY <2>1, <2>2
  <1>3. CASE Finish(t)
    <2>1. pc' \in [Threads -> Places] /\ OneReader' /\ ~reading' /\ reading' \in BOOLEAN
      BY <1>3, FinishStep
    <2>2. TypeOK'
      BY <1>1, <2>1 DEF Inv, TypeOK
    <2>3. LentFrameStays'
      BY <1>1, <2>1 DEF LentFrameStays
    <2> QED BY <1>2, <2>1, <2>2, <2>3 DEF Inv
  <1>4. CASE ~side'.lent /\ WaitForData(t, kind, timed, s)
    <2> DEFINE p == Waiting(kind, timed)
    <2>1. p \in Places /\ p.at = "wait"
      <3>1. p \in [at : {"wait"}, kind : Kinds, timed : BOOLEAN, driver : BOOLEAN]
        BY DEF Waiting
      <3> QED BY <3>1 DEF Places
    <2>2. pc' = [pc EXCEPT ![t] = p] /\ reading' = TRUE
      BY <1>4 DEF WaitForData
    <2> HIDE DEF p
    <2>3. pc' \in [Threads -> Places]
      BY <2>1, <2>2 DEF Inv, TypeOK
    <2>4. OneReader'
      BY <2>1, <2>2 DEF Inv, TypeOK, OneReader, Waits
    <2>5. TypeOK'
      BY <1>1, <2>2, <2>3 DEF Inv, TypeOK
    <2> QED BY <1>2, <1>4, <2>4, <2>5 DEF Inv, LentFrameStays
  <1> QED BY <1>1, <1>3, <1>4

LEMMA StartReadStep ==
  ASSUME Inv, NEW t \in Threads, NEW kind \in Kinds, NEW timed \in BOOLEAN,
         StartRead(t, kind, timed)
  PROVE  Inv'
  <1>1. ~reading /\ attached /\ side \in Sides
    BY DEF StartRead, Admitted, MayRead, Inv, TypeOK
  <1>2. \A u \in Threads : Waits(u) => u = t
    BY <1>1 DEF Inv, OneReader
  <1> QED BY <1>1, <1>2, LookStep DEF StartRead

LEMMA WakeStep ==
  ASSUME Inv, NEW t \in Threads, Wake(t)
  PROVE  Inv'
  <1>1. Waits(t) /\ reading /\ ~side.lent /\ side \in Sides
    BY DEF Wake, Waits, Inv, OneReader, LentFrameStays, TypeOK
  <1>2. \A u \in Threads : Waits(u) => u = t
    BY <1>1 DEF Inv, OneReader
  <1>3. UNCHANGED <<alive, attached, device, waitingDetaches, pool>>
    BY DEF Wake
  <1>4. pc[t].kind \in Kinds /\ pc[t].timed \in BOOLEAN
    BY <1>1, WaitHas DEF Waits, Inv, TypeOK
  <1>5. CASE Finish(t) /\ UNCHANGED side
    <2>1. pc' \in [Threads -> Places] /\ OneReader' /\ ~reading' /\ reading' \in BOOLEAN
      BY <1>2, <1>5, FinishStep
    <2> QED BY <1>1, <1>3, <1>5, <2>1 DEF Inv, TypeOK, LentFrameStays, DetachedHoldsNothing
  <1>6. CASE Look(t, pc[t].kind, pc[t].timed, side)
    BY <1>1, <1>2, <1>3, <1>4, <1>6, LookStep
  <1>7. CASE side.std = "sdi" /\ Look(t, pc[t].kind, pc[t].timed, [side EXCEPT !.load = 0])
    <2> DEFINE s == [side EXCEPT !.load = 0]
    <2>1. s \in Sides /\ s.std = side.std /\ s.control = side.control /\ s.lent = side.lent
      <3>1. 0 \in 0..MaxLoad
        BY InpAssumption
      <3> QED BY <1>1, <3>1 DEF Sides
    <2>2. Look(t, pc[t].kind, pc[t].timed, s) /\ attached
      BY <1>7 DEF Inv, DetachedHoldsNothing, NoSide, NewSide
    <2> HIDE DEF s
    <2> QED BY <1>1, <1>2, <1>3, <1>4, <2>1, <2>2, LookStep
  <1> QED BY <1>5, <1>6, <1>7 DEF Wake
--------------------------------------------------------------------------------
LEMMA NextStep ==
  ASSUME Inv, [Next]_vars
  PROVE  Inv'
  <1>1. CASE Arrive
    BY <1>1, RingStep
  <1>2. ASSUME NEW t \in Threads,
               \/ Alloc(t) \/ AttachToPort(t) \/ Detach(t) \/ InDetach(t) \/ Free(t)
               \/ FreeEnds(t)
        PROVE  Inv'
    BY <1>2, AllocStep, AttachStep, DetachStep, PauseAgainStep, DetachEndsStep, FreeStep,
       FreeEndsStep DEF InDetach
  <1>3. ASSUME NEW t \in Threads,
               \/ SetWorkerPool(t) \/ SetRxControl(t) \/ ClearFifo(t) \/ SetSameStd(t)
               \/ CrossStd(t) \/ CrossStdFails(t) \/ ReleaseFrame(t)
        PROVE  Inv'
    BY <1>3, SetWorkerPoolStep, ControlStep, SetStdStep, CrossStdFailsStep, RingStep
  <1>4. ASSUME NEW t \in Threads, NEW kind \in Kinds, NEW timed \in BOOLEAN,
               StartRead(t, kind, timed)
        PROVE  Inv'
    BY <1>4, StartReadStep
  <1>5. ASSUME NEW t \in Threads, Wake(t)
        PROVE  Inv'
    BY <1>5, WakeStep
  <1>6. CASE UNCHANGED vars
    BY <1>6 DEF vars, Inv, TypeOK, OneReader, Waits, LentFrameStays, DetachedHoldsNothing,
       Receiving
  <1> QED BY <1>1, <1>2, <1>3, <1>4, <1>5, <1>6 DEF Next

\* The inductive invariant holds of the channel.
THEOREM InvHolds == Spec => []Inv
  <1>1. Inv /\ [Next]_vars => Inv'
    BY NextStep
  <1> QED BY <1>1, InitInv, PTL DEF Spec

\* The fields, the side and the threads keep their types.
THEOREM TypeCorrect == Spec => []TypeOK
  <1>1. Inv => TypeOK
    BY DEF Inv
  <1> QED BY <1>1, InvHolds, PTL

\* Reading is exactly that one thread waits in a read, for any number of threads.
THEOREM AtMostOneReader == Spec => []OneReader
  <1>1. Inv => OneReader
    BY DEF Inv
  <1> QED BY <1>1, InvHolds, PTL

\* A lent frame is at the head of a receiving ring, and no read waits beside it.
THEOREM LentFrameIsSafe == Spec => []LentFrameStays
  <1>1. Inv => LentFrameStays
    BY DEF Inv
  <1> QED BY <1>1, InvHolds, PTL

\* A channel without a port holds no side, no handle and no pool.
THEOREM DetachLeavesNothing == Spec => []DetachedHoldsNothing
  <1>1. Inv => DetachedHoldsNothing
    BY DEF Inv
  <1> QED BY <1>1, InvHolds, PTL

--------------------------------------------------------------------------------
(* The detaches that wait.                                                 *)

LEMMA PausersAreFinite ==
  ASSUME NEW S \in SUBSET Threads
  PROVE  IsFiniteSet(S) /\ Cardinality(S) \in Nat
  BY InpAssumption, FS_Subset, FS_CardinalityType

\* Nobody begins or ends a pause, and the count stays; or a thread does, and is counted.
LEMMA CountStays ==
  ASSUME DetachesCounted, waitingDetaches' = waitingDetaches,
         \A u \in Threads : Pauses(u)' <=> Pauses(u)
  PROVE  DetachesCounted'
  <1>1. {u \in Threads : Pauses(u)}' = {u \in Threads : Pauses(u)}
    OBVIOUS
  <1> QED BY <1>1 DEF DetachesCounted

LEMMA CountUp ==
  ASSUME DetachesCounted, NEW t \in Threads, ~Pauses(t), Pauses(t)',
         waitingDetaches' = waitingDetaches + 1,
         \A u \in Threads \ {t} : Pauses(u)' <=> Pauses(u)
  PROVE  DetachesCounted'
  <1> DEFINE P == {u \in Threads : Pauses(u)}
  <1>1. P' = P \cup {t} /\ t \notin P
    OBVIOUS
  <1>2. IsFiniteSet(P)
    BY PausersAreFinite
  <1>3. Cardinality(P') = Cardinality(P) + 1
    BY <1>1, <1>2, FS_AddElement
  <1> QED BY <1>3 DEF DetachesCounted

LEMMA CountDown ==
  ASSUME DetachesCounted, NEW t \in Threads, Pauses(t), ~Pauses(t)',
         waitingDetaches' = waitingDetaches - 1,
         \A u \in Threads \ {t} : Pauses(u)' <=> Pauses(u)
  PROVE  DetachesCounted'
  <1> DEFINE P == {u \in Threads : Pauses(u)}
  <1>1. P' = P \ {t} /\ t \in P
    OBVIOUS
  <1>2. IsFiniteSet(P)
    BY PausersAreFinite
  <1>3. Cardinality(P') = Cardinality(P) - 1
    BY <1>1, <1>2, FS_RemoveElement
  <1> QED BY <1>3 DEF DetachesCounted

LEMMA CountStep ==
  ASSUME TypeOK, DetachesCounted, [Next]_vars
  PROVE  DetachesCounted'
  <1> USE PlacesHold
  <1>1. CASE UNCHANGED <<waitingDetaches, pc>>
    BY <1>1, CountStays DEF Pauses
  <1>2. CASE Arrive \/ UNCHANGED vars
    BY <1>1, <1>2 DEF Arrive, vars
  <1>3. ASSUME NEW t \in Threads,
               \/ Alloc(t) \/ AttachToPort(t) \/ SetWorkerPool(t) \/ SetRxControl(t)
               \/ ClearFifo(t) \/ SetSameStd(t) \/ CrossStd(t) \/ CrossStdFails(t)
               \/ ReleaseFrame(t)
        PROVE  DetachesCounted'
    BY <1>1, <1>3 DEF Alloc, AttachToPort, SetWorkerPool, SetRxControl, ClearFifo, SetSameStd,
       CrossStd, CrossStdFails, ReleaseFrame
  <1>4. ASSUME NEW t \in Threads, Detach(t) \/ Free(t) PROVE DetachesCounted'
    <2>1. ~Pauses(t)
      BY <1>4 DEF Detach, Free, Admitted, MayCall, Pauses
    <2>2. CASE waitingDetaches' = waitingDetaches + 1
      <3>1. Tries - 1 \in 0..Tries - 1
        BY InpAssumption
      <3>2. PICK p \in Places : pc' = [pc EXCEPT ![t] = p] /\ p.at \in {"pause", "free"}
        BY <1>4, <2>2, <3>1 DEF Detach, Free, TypeOK
      <3> QED BY <2>1, <2>2, <3>2, CountUp DEF Pauses, TypeOK
    <2>3. CASE waitingDetaches' = waitingDetaches
      BY <1>1, <1>4, <2>3 DEF Detach, Free, TypeOK
    <2> QED BY <1>4, <2>2, <2>3 DEF Detach, Free
  <1>5. ASSUME NEW t \in Threads, InDetach(t) \/ FreeEnds(t) PROVE DetachesCounted'
    <2>1. Pauses(t)
      BY <1>5 DEF InDetach, PauseAgain, DetachEnds, FreeEnds, Pauses
    <2>2. CASE waitingDetaches' = waitingDetaches - 1 /\ pc' = [pc EXCEPT ![t] = Idle]
      BY <2>1, <2>2, CountDown DEF Pauses, TypeOK
    <2>3. CASE PauseAgain(t) /\ pc[t].left # 0
      <3>1. pc[t].left - 1 \in 0..Tries - 1
        BY <2>3, PauseHas, InpAssumption DEF PauseAgain, TypeOK
      <3>2. pc' = [pc EXCEPT ![t] = Pausing(pc[t].left - 1)] /\ waitingDetaches' = waitingDetaches
        BY <2>3 DEF PauseAgain
      <3> QED BY <2>1, <3>1, <3>2, CountStays DEF Pauses, TypeOK
    <2> QED BY <1>5, <2>2, <2>3 DEF InDetach, PauseAgain, DetachEnds, FreeEnds
  <1>6. ASSUME NEW t \in Threads, ~Pauses(t), UNCHANGED waitingDetaches,
               \E p : pc' = [pc EXCEPT ![t] = p] /\ p.at \notin {"pause", "free"}
        PROVE  DetachesCounted'
    BY <1>6, CountStays DEF Pauses, TypeOK
  <1>7. ASSUME NEW t \in Threads, NEW kind \in Kinds, NEW timed \in BOOLEAN, NEW s,
               Look(t, kind, timed, s)
        PROVE  \E p : pc' = [pc EXCEPT ![t] = p] /\ p.at \notin {"pause", "free"}
    BY <1>7 DEF Look, Refuse, Deliver, WaitForData, Finish, Waiting
  <1>8. ASSUME NEW t \in Threads, NEW kind \in Kinds, NEW timed \in BOOLEAN,
               StartRead(t, kind, timed)
        PROVE  DetachesCounted'
    BY <1>6, <1>7, <1>8 DEF StartRead, Admitted, MayCall, Pauses
  <1>9. ASSUME NEW t \in Threads, Wake(t) PROVE DetachesCounted'
    <2>1. pc[t].kind \in Kinds /\ pc[t].timed \in BOOLEAN /\ ~Pauses(t)
      BY <1>9, WaitHas DEF Wake, Pauses, TypeOK
    <2>2. \E p : pc' = [pc EXCEPT ![t] = p] /\ p.at \notin {"pause", "free"}
      BY <1>7, <1>9, <2>1 DEF Wake, Finish
    <2> QED BY <1>6, <1>9, <2>1, <2>2 DEF Wake
  <1> QED BY <1>2, <1>3, <1>4, <1>5, <1>8, <1>9 DEF Next

\* Each detach, and each Free, that waits is counted once and withdraws its own request only.
THEOREM DetachesAreCounted == Spec => []DetachesCounted
  <1>1. Init => DetachesCounted
    <2> SUFFICES ASSUME Init PROVE DetachesCounted
      OBVIOUS
    <2>1. {t \in Threads : Pauses(t)} = {}
      BY PlacesHold DEF Init, Pauses
    <2> QED BY <2>1, FS_EmptySet DEF Init, DetachesCounted
  <1>2. TypeOK /\ DetachesCounted /\ [Next]_vars => DetachesCounted'
    BY CountStep
  <1> QED BY <1>1, <1>2, TypeCorrect, PTL DEF Spec
--------------------------------------------------------------------------------
(* A read has its channel, unless a change of standard fails under it.     *)

ReadHasChannel == (reading => attached) /\ (attached => alive)

LEMMA ReadStep ==
  ASSUME Inv, ReadHasChannel, ~CrossFailsInRead, [Next]_vars
  PROVE  ReadHasChannel'
  <1>1. CASE UNCHANGED <<reading, attached, alive>>
    BY <1>1 DEF ReadHasChannel
  <1>2. CASE Arrive \/ UNCHANGED vars
    BY <1>1, <1>2 DEF Arrive, vars
  <1>3. ASSUME NEW t \in Threads,
               \/ SetWorkerPool(t) \/ SetRxControl(t) \/ ClearFifo(t) \/ SetSameStd(t)
               \/ CrossStd(t) \/ ReleaseFrame(t)
        PROVE  ReadHasChannel'
    BY <1>1, <1>3 DEF SetWorkerPool, SetRxControl, ClearFifo, SetSameStd, CrossStd, ReleaseFrame
  <1>4. ASSUME NEW t \in Threads, Alloc(t) \/ AttachToPort(t) \/ CrossStdFails(t)
        PROVE  ReadHasChannel'
    <2>1. CASE Alloc(t)
      BY <2>1 DEF Alloc, ReadHasChannel
    <2>2. CASE AttachToPort(t)
      BY <2>2 DEF AttachToPort, MayCall, ReadHasChannel
    <2>3. CASE CrossStdFails(t)
      <3>1. ~reading /\ reading' = reading /\ attached' = FALSE
        BY <2>3 DEF CrossStdFails, LetGo
      <3> QED BY <3>1 DEF ReadHasChannel
    <2> QED BY <1>4, <2>1, <2>2, <2>3
  <1>5. ASSUME NEW t \in Threads, Detach(t) \/ InDetach(t) \/ Free(t) \/ FreeEnds(t)
        PROVE  ReadHasChannel'
    BY <1>5 DEF Detach, InDetach, PauseAgain, DetachEnds, Free, FreeEnds, LetGo, Keep,
       ReadHasChannel
  <1>6. ASSUME NEW t \in Threads, NEW kind \in Kinds, NEW timed \in BOOLEAN,
               StartRead(t, kind, timed)
        PROVE  ReadHasChannel'
    BY <1>6 DEF StartRead, Admitted, ReadHasChannel
  <1>7. ASSUME NEW t \in Threads, Wake(t)
        PROVE  ReadHasChannel'
    BY <1>7 DEF Wake, Waits, Inv, OneReader, ReadHasChannel
  <1> QED BY <1>2, <1>3, <1>4, <1>5, <1>6, <1>7 DEF Next

LEMMA ReadHasChannelHolds ==
  ASSUME ~CrossFailsInRead
  PROVE  Spec => []ReadHasChannel
  <1>1. Init => ReadHasChannel
    BY DEF Init, ReadHasChannel
  <1>2. Inv /\ ReadHasChannel /\ [Next]_vars => ReadHasChannel'
    BY ReadStep
  <1> QED BY <1>1, <1>2, InvHolds, PTL DEF Spec

\* A read that waits has its channel: what the failing change of standard, assumed away
\* here, breaks.
THEOREM WaitingReadKeepsChannel ==
  ASSUME ~CrossFailsInRead
  PROVE  Spec => []WaitingReadHasItsChannel
  <1>1. Inv /\ ReadHasChannel => WaitingReadHasItsChannel
    BY DEF Inv, OneReader, ReadHasChannel, WaitingReadHasItsChannel
  <1> QED BY <1>1, InvHolds, ReadHasChannelHolds, PTL
--------------------------------------------------------------------------------
(* The channel implements ChannelUse.                                      *)

\* A read that looks starts, ends or goes on, and the channel stays.
LEMMA LookReads ==
  ASSUME NEW t \in Threads, NEW kind \in Kinds, NEW timed \in BOOLEAN, NEW s,
         Look(t, kind, timed, s)
  PROVE  reading' \in BOOLEAN
  BY DEF Look, Refuse, Deliver, WaitForData, Finish

LEMMA UseStep ==
  ASSUME Inv, ReadHasChannel, ~CrossFailsInRead, [Next]_vars
  PROVE  [Use!Next]_(Use!channel)
  <1> USE DEF Use!channel, Use!Next
  <1>1. CASE Arrive
    BY <1>1 DEF Arrive
  <1>2. ASSUME NEW t \in Threads, Alloc(t) \/ AttachToPort(t)
        PROVE  [Use!Next]_(Use!channel)
    BY <1>2 DEF Alloc, AttachToPort, MayCall, Use!Alloc, Use!Attach
  <1>3. ASSUME NEW t \in Threads, Detach(t) \/ InDetach(t) \/ CrossStdFails(t)
        PROVE  [Use!Next]_(Use!channel)
    BY <1>3 DEF Detach, InDetach, PauseAgain, DetachEnds, CrossStdFails, Admitted, LetGo, Keep,
       Use!Detach
  <1>4. ASSUME NEW t \in Threads, Free(t) \/ FreeEnds(t)
        PROVE  [Use!Next]_(Use!channel)
    BY <1>4 DEF Free, FreeEnds, MayCall, LetGo, Keep, Inv, ReadHasChannel, TypeOK, Use!Free
  <1>5. ASSUME NEW t \in Threads,
               \/ SetWorkerPool(t) \/ SetRxControl(t) \/ ClearFifo(t) \/ SetSameStd(t)
               \/ CrossStd(t) \/ ReleaseFrame(t)
        PROVE  [Use!Next]_(Use!channel)
    BY <1>5 DEF SetWorkerPool, SetRxControl, ClearFifo, SetSameStd, CrossStd, ReleaseFrame
  <1>6. ASSUME NEW t \in Threads, NEW kind \in Kinds, NEW timed \in BOOLEAN,
               StartRead(t, kind, timed)
        PROVE  [Use!Next]_(Use!channel)
    <2>1. reading' \in BOOLEAN
      BY <1>6, LookReads DEF StartRead
    <2>2. reading = FALSE
      BY <1>6 DEF StartRead, MayRead, Inv, TypeOK
    <2> QED BY <1>6, <2>1, <2>2 DEF StartRead, Admitted, MayRead, Use!Start
  <1>7. ASSUME NEW t \in Threads, Wake(t)
        PROVE  [Use!Next]_(Use!channel)
    <2>1. reading
      BY <1>7 DEF Wake, Inv, OneReader, Waits
    <2>2. reading' \in BOOLEAN
      <3>1. pc[t].kind \in Kinds /\ pc[t].timed \in BOOLEAN
        BY <1>7, WaitHas DEF Wake, Inv, TypeOK
      <3> QED BY <1>7, <3>1, LookReads DEF Wake, Finish
    <2> QED BY <1>7, <2>1, <2>2 DEF Wake, Use!Return
  <1>8. CASE UNCHANGED vars
    BY <1>8 DEF vars
  <1> QED BY <1>1, <1>2, <1>3, <1>4, <1>5, <1>6, <1>7, <1>8 DEF Next

\* The channel implements ChannelUse: it is neither detached nor freed under a read.
THEOREM ImplementsChannelUse ==
  ASSUME ~CrossFailsInRead
  PROVE  Spec => KeepsItsUse
  <1>1. Init => Use!Init
    BY DEF Init, Use!Init
  <1>2. Inv /\ ReadHasChannel /\ [Next]_vars => [Use!Next]_(Use!channel)
    BY UseStep
  <1> QED BY <1>1, <1>2, InvHolds, ReadHasChannelHolds, PTL DEF Spec, KeepsItsUse, Use!Spec
================================================================================
