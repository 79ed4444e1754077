-------------------------------- MODULE SdiTx --------------------------------
(***************************************************************************)
(* Source/Channel/DtSdiTx.c, with the parts of DtOutpChannel.c that admit  *)
(* calls and detach: the writers of an SDI output channel, the thread that *)
(* keeps its signal, the calls that start and stop it, and the card.       *)
(*                                                                         *)
(* A section under the channel's lock is one step; the lock is released    *)
(* where the code does: while a write waits for room and after every line  *)
(* or batch of lines, while a stop joins the thread, and while a detach    *)
(* waits for the driver or pauses.  A call that changes nothing is no step.*)
(***************************************************************************)
EXTENDS Integers, FiniteSets

CONSTANTS
  Threads,     \* the threads of the program
  Keepers,     \* the threads the channel may have started at one time
  Frames,      \* the coded frames the DMA buffer has room for, DT_SDITX_BUF_MIN_FRAMES or more
  Lines,       \* bound: the raw lines of a frame
  Ids,         \* bound: the frame IDs, 65536 in the code
  CardFrames,  \* bound: the frames the card holds behind the buffer
  Liberties    \* what the program and the driver may do besides, see below

\* "overlap": a call that changes the control state or detaches starts while another has not
\*            returned
\* "restart": the channel is set idle and to hold again while an AcquireFrame waits
\* "short":   the bytes of a Write end in the padding that follows the last line of a frame
\* "refusal": the driver refuses the new write offset of a black frame written before a part
\*            of a frame
AllLiberties == {"overlap", "restart", "short", "refusal"}

ASSUME SdiTxAssumption ==
  /\ IsFiniteSet(Threads) /\ IsFiniteSet(Keepers)
  /\ Frames \in Nat /\ Frames >= 2
  /\ Lines \in Nat \ {0} /\ CardFrames \in Nat \ {0}
  /\ Ids \in Nat /\ Ids % 2 = 0 /\ Ids > Frames + CardFrames + 2
  /\ Liberties \subseteq AllLiberties

VARIABLES
  attached,         \* Chan->Attached: the side is there
  waitingDetaches,  \* Chan->WaitingDetaches
  writing,          \* Chan->Writing
  tx,               \* the side and the buffer it fills, see Fresh
  keeper,           \* Sdi->KeeperThread, a set of at most one thread
  running,          \* the keepers that have started and not returned
  stopRequested,    \* Sdi->StopRequested
  pc                \* where every thread is

vars == <<attached, waitingDetaches, writing, tx, keeper, running, stopRequested, pc>>
channel == <<attached, waitingDetaches, writing>>
thread == <<keeper, running, stopRequested>>

-------------------------------------------------------------------------------
(* The buffer, which holds Frames frames one after the other, and what is  *)
(* done with it under the lock.                                            *)

Slots == 0..Frames - 1

\* What lies in a place of the buffer: a header with an ID, followed by so many lines of one
\* frame, of field 1 or 2 of a level-B frame.
Picture(id, lines, field) == [id |-> id, lines |-> lines, field |-> field]
Nothing == Picture(0, 0, 0)

\* std: the standard, "b" for 3G level B, "none" without a buffer.
\* stage, reserved, lines: WriteStage, FrameRoomReserved, LinesEncoded of the frame being
\* written; lending, lent, built: the lending run, the place lent, the view's IsBuilt.
\* at, next: WriteOffset and NextFrameId; first, sending, allowed: FirstEventSeen,
\* SendingFrameId, BlackAllowed.  Of the card: load frames are in the buffer and card frames
\* behind it, and gone says whether a frame has started going out; card is -1 when the one
\* going out is still in the buffer.
Fresh(std) ==
  [std |-> std, control |-> "idle", stage |-> "search", reserved |-> FALSE, lines |-> 0,
   lending |-> FALSE, lent |-> {}, built |-> FALSE,
   at |-> 0, next |-> 0, first |-> FALSE, sending |-> 0, allowed |-> FALSE,
   ring |-> [s \in Slots |-> Nothing], load |-> 0, card |-> 0, gone |-> FALSE]

Free(x) == Frames - x.load
Unsent(x) == (x.next - (IF x.first THEN x.sending ELSE 0)) % Ids

\* The frame going out.
Going(x) == (x.next - x.load - x.card - 1) % Ids

ForgetPartialFrame(x) == [x EXCEPT !.stage = "search", !.reserved = FALSE, !.lines = 0]
StartFrame(x) == [x EXCEPT !.stage = "lines", !.reserved = FALSE, !.lines = 0]
EndLending(x) == [x EXCEPT !.lending = FALSE, !.lent = {}, !.built = FALSE]

ReserveRoom(x, field) ==
  [x EXCEPT !.reserved = TRUE, !.ring[x.at] = Picture(x.next, 0, field)]

\* Lines that do not follow those of their frame leave nothing whole.
EncodeLines(x, n) ==
  [x EXCEPT !.lines = @ + n,
            !.stage = IF x.lines + n = Lines THEN "padding" ELSE @,
            !.ring[x.at].lines = IF @ = x.lines THEN @ + n ELSE 0]

\* Mutant of CommitFrame: the write offset does not wrap.
CommitFrameUnwrapped(x) ==
  [x EXCEPT !.at = @ + 1, !.next = (@ + 1) % Ids, !.load = @ + 1]

CommitFrame(x) ==
  [x EXCEPT !.at = (@ + 1) % Frames, !.next = (@ + 1) % Ids, !.load = @ + 1]

\* Of level B the black picture is that of the field its ID stands for: field 1 is odd.
BlackPicture(x) ==
  Picture(x.next, Lines, IF x.std # "b" THEN 0 ELSE IF x.next % 2 = 0 THEN 2 ELSE 1)

\* Mutant of MakeRoom: one frame's room is taken to be enough.
MakeRoomOfOne(x) == IF x.reserved /\ Free(x) < 1 THEN ForgetPartialFrame(x) ELSE x

\* Without room for two frames the part of a frame at the write offset is forgotten.
MakeRoom(x) == IF x.reserved /\ Free(x) < 2 THEN ForgetPartialFrame(x) ELSE x

\* Mutant of PutBlack: the part that moves keeps its ID.
PutBlackKeepingId(x) ==
  [x EXCEPT !.ring = [s \in Slots |->
     IF s = x.at THEN BlackPicture(x)
     ELSE IF x.reserved /\ s = (x.at + 1) % Frames THEN x.ring[x.at]
     ELSE x.ring[s]]]

\* The black frame takes the place at the write offset; the part of a frame there moves one
\* frame further, with the next ID.
PutBlack(x) ==
  [x EXCEPT !.ring = [s \in Slots |->
     IF s = x.at THEN BlackPicture(x)
     ELSE IF x.reserved /\ s = (x.at + 1) % Frames
          THEN [x.ring[x.at] EXCEPT !.id = (x.next + 1) % Ids]
     ELSE x.ring[s]]]

\* Without room nothing happens.  The driver may refuse the new write offset.
InsertBlack(x) ==
  LET y == PutBlack(MakeRoom(x)) IN
  IF Free(x) < 1 THEN {x}
  ELSE {CommitFrame(y)} \cup IF y.reserved /\ "refusal" \notin Liberties THEN {} ELSE {y}

\* Mutant of IdleToHold: the last event is not forgotten.
IdleToHoldKeepingEvent(x) ==
  [ForgetPartialFrame(x) EXCEPT !.control = "hold", !.at = 0, !.next = 0, !.allowed = FALSE,
     !.gone = FALSE]

IdleToHold(x) ==
  [ForgetPartialFrame(x) EXCEPT !.control = "hold", !.at = 0, !.next = 0, !.first = FALSE,
     !.sending = 0, !.allowed = FALSE, !.gone = FALSE]

\* What the buffer and the card held is forgotten.
HoldToIdle(x) ==
  [EndLending(ForgetPartialFrame(x)) EXCEPT !.control = "idle",
     !.ring = [s \in Slots |-> Nothing], !.load = 0, !.card = 0]

\* The driver's format events name the frame going out.
NoteEvent(x) == [x EXCEPT !.first = TRUE, !.sending = Going(x)]

-------------------------------------------------------------------------------
(* Where the threads are.                                                  *)

Idle == [at |-> "idle"]
\* The pauses of a detach, DT_DETACH_TRIES of them, are not counted.
Pausing(mode) == [at |-> "pause", mode |-> mode]
\* A stop waits for the thread k to return, and then holds, goes idle, waits until all is
\* sent or releases the side.
Joining(k, goal) == [at |-> "join", keeper |-> k, goal |-> goal]
Draining(black) == [at |-> "drain", black |-> black]
\* A write waits for room, or is between two lines of its frame.
Writes == {"room", "gap"}
Writer(kind, picture) == [kind |-> kind, picture |-> picture]
At(place, w) == [at |-> place, kind |-> w.kind, picture |-> w.picture]
Skipping == [at |-> "skip"]

InControl(t) == pc[t].at \in {"pause", "join", "drain"}

MayCall(t) == pc[t] = Idle /\ attached
MayControl(t) == MayCall(t) /\ ("overlap" \in Liberties \/ \A u \in Threads : ~InControl(u))

Init ==
  /\ attached = FALSE /\ waitingDetaches = 0 /\ writing = FALSE
  /\ tx = Fresh("none")
  /\ keeper = {} /\ running = {} /\ stopRequested = FALSE
  /\ pc = [t \in Threads |-> Idle]

-------------------------------------------------------------------------------
(* Attaching and configuring.                                              *)

Standards == {"none", "a", "b"}

Attach(t) ==
  /\ pc[t] = Idle /\ ~attached
  /\ \E std \in Standards : tx' = Fresh(std)
  /\ attached' = TRUE
  /\ UNCHANGED <<waitingDetaches, writing, thread, pc>>

\* ConfigureChannel: a standard without raw frames, or a failure, leaves no buffer.
ApplyIoConfig(t) ==
  /\ MayControl(t) /\ tx.control = "idle"
  /\ \E std \in Standards : tx' = [EndLending(ForgetPartialFrame(tx)) EXCEPT !.std = std]
  /\ UNCHANGED <<channel, thread, pc>>

-------------------------------------------------------------------------------
(* The control state.                                                      *)

\* Mutant of StopSignalKeeper: the thread is not told.
StopUnasked(t, goal) ==
  /\ keeper # {}
  /\ keeper' = {}
  /\ \E k \in keeper : pc' = [pc EXCEPT ![t] = Joining(k, goal)]
  /\ UNCHANGED <<running, stopRequested, tx>>

\* A stop that finds the thread tells it, and joins it without the lock.
StopSignalKeeper(t, goal) ==
  /\ keeper # {}
  /\ stopRequested' = TRUE /\ keeper' = {}
  /\ \E k \in keeper : pc' = [pc EXCEPT ![t] = Joining(k, goal)]
  /\ UNCHANGED <<running, tx>>

Hold(t) ==
  /\ MayControl(t) /\ tx.control = "idle" /\ tx.std # "none"
  /\ "restart" \in Liberties \/ \A u \in Threads : pc[u].at = "room" => pc[u].kind # "lend"
  /\ tx' = IdleToHold(tx)
  /\ UNCHANGED <<channel, thread, pc>>

NewKeeper == CHOOSE k \in Keepers : k \notin running

HoldToSend(t) ==
  /\ MayControl(t) /\ tx.control = "hold" /\ Unsent(tx) >= 1
  /\ Keepers \ running # {} /\ keeper' = {NewKeeper} /\ running' = running \cup {NewKeeper}
  /\ stopRequested' = FALSE
  /\ tx' = [tx EXCEPT !.control = "send"]
  /\ UNCHANGED <<channel, pc>>

\* SetTxControl to hold or idle, or ClearFifo, while holding or sending.  A thread that is
\* being joined already is not waited for again.
Stop(t, goal) ==
  /\ MayControl(t)
  /\ \/ tx.control = "send" /\ StopSignalKeeper(t, goal)
     \/ /\ \/ tx.control = "hold" /\ goal = "idle"
           \/ tx.control = "send" /\ keeper = {}
        /\ tx' = IF goal = "idle" THEN HoldToIdle(tx) ELSE [tx EXCEPT !.control = "hold"]
        /\ UNCHANGED <<thread, pc>>
  /\ UNCHANGED channel

-------------------------------------------------------------------------------
(* Detaching.                                                              *)

\* n counts the detaches that wait, this one included.
Release(t, n) ==
  /\ attached' = FALSE /\ waitingDetaches' = n - 1
  /\ tx' = Fresh("none")
  /\ pc' = [pc EXCEPT ![t] = Idle]
  /\ UNCHANGED <<writing, keeper, running>>

\* WaitUntilSent, with the lock: it is over when the next frame has ID 0, as when none was
\* written; otherwise a black frame goes after the last one once there is room, and the
\* driver is waited for.
DrainFrom(t, n, x, black) ==
  IF x.next = 0 THEN Release(t, n)
  ELSE /\ IF black /\ Free(x) >= 1
          THEN tx' \in InsertBlack(x) /\ pc' = [pc EXCEPT ![t] = Draining(FALSE)]
          ELSE tx' = x /\ pc' = [pc EXCEPT ![t] = Draining(black)]
       /\ waitingDetaches' = n
       /\ UNCHANGED <<attached, writing, keeper, running>>

StartDrain(t, n) == DrainFrom(t, n, EndLending(ForgetPartialFrame(tx)), tx.next # 0)

\* No write is left: the detach stops the channel and releases the side.
LetGo(t, n, mode) ==
  IF tx.control = "send" /\ keeper # {}
  THEN /\ StopSignalKeeper(t, IF mode = "sent" THEN "drain" ELSE "release")
       /\ waitingDetaches' = n
       /\ UNCHANGED <<attached, writing>>
  ELSE /\ IF tx.control = "send" /\ mode = "sent" THEN StartDrain(t, n) ELSE Release(t, n)
       /\ UNCHANGED stopRequested

\* DTAPI_WAIT_UNTIL_SENT, the modes that do not wait, and the detach of DtOutpChannel_Free.
Modes == {"sent", "now", "free"}

\* Mutant of Detach: the channel is let go under a write.
DetachAtOnce(t, mode) == MayControl(t) /\ LetGo(t, waitingDetaches + 1, mode)

Detach(t, mode) ==
  /\ MayControl(t)
  /\ IF writing
     THEN /\ waitingDetaches' = waitingDetaches + 1
          /\ pc' = [pc EXCEPT ![t] = Pausing(mode)]
          /\ UNCHANGED <<attached, writing, tx, thread>>
     ELSE LetGo(t, waitingDetaches + 1, mode)

\* A write is still there after the last pause, and the request is withdrawn.  Free pauses
\* for as long as it takes.
GiveUpDetach(t) ==
  /\ pc[t].at = "pause" /\ pc[t].mode # "free" /\ attached /\ writing
  /\ waitingDetaches' = waitingDetaches - 1
  /\ pc' = [pc EXCEPT ![t] = Idle]
  /\ UNCHANGED <<attached, writing, tx, thread>>

\* No write is left, or another thread has detached the channel meanwhile.
PauseEnds(t) ==
  /\ pc[t].at = "pause" /\ ~(attached /\ writing)
  /\ IF attached
     THEN LetGo(t, waitingDetaches, pc[t].mode)
     ELSE /\ waitingDetaches' = waitingDetaches - 1
          /\ pc' = [pc EXCEPT ![t] = Idle]
          /\ UNCHANGED <<attached, writing, tx, thread>>

\* Mutant of JoinEnds: the stop does not wait for the thread.
JoinAtOnce(t) ==
  /\ pc[t].at = "join" /\ attached
  /\ stopRequested' = FALSE
  /\ CASE pc[t].goal = "drain" -> StartDrain(t, waitingDetaches)
       [] pc[t].goal = "release" -> Release(t, waitingDetaches)
       [] OTHER -> /\ tx' = IF pc[t].goal = "idle" THEN HoldToIdle(tx)
                                                   ELSE [tx EXCEPT !.control = "hold"]
                   /\ pc' = [pc EXCEPT ![t] = Idle]
                   /\ UNCHANGED <<channel, keeper, running>>

\* The thread has returned.  The PHY may refuse to stop, and then the channel holds.
JoinEnds(t) ==
  /\ pc[t].at = "join" /\ pc[t].keeper \notin running /\ attached
  /\ stopRequested' = FALSE
  /\ CASE pc[t].goal = "drain" -> StartDrain(t, waitingDetaches)
       [] pc[t].goal = "release" -> Release(t, waitingDetaches)
       [] OTHER -> /\ \/ pc[t].goal = "idle" /\ tx' = HoldToIdle(tx)
                      \/ tx' = [tx EXCEPT !.control = "hold"]
                   /\ pc' = [pc EXCEPT ![t] = Idle]
                   /\ UNCHANGED <<channel, keeper, running>>

\* The driver returns an event, or none in time.  Then all that was written is out, or the
\* wait goes on with what room there is now.
DrainLooks(t) ==
  /\ pc[t].at = "drain" /\ attached
  /\ \/ tx.gone /\ DrainFrom(t, waitingDetaches, NoteEvent(tx), pc[t].black)
     \/ IF tx.first /\ ~pc[t].black /\ Unsent(tx) <= 1
        THEN Release(t, waitingDetaches)
        ELSE DrainFrom(t, waitingDetaches, tx, pc[t].black)
  /\ UNCHANGED stopRequested

\* No event came for a second, or the driver failed.
DrainGivesUp(t) ==
  /\ pc[t].at = "drain" /\ attached
  /\ Release(t, waitingDetaches)
  /\ UNCHANGED stopRequested

-------------------------------------------------------------------------------
(* The thread that keeps the signal.                                       *)

\* What a wait for a format event makes of the side.  An event half-way through the first
\* frame or later, or a wait without one after it, allows black frames.
Noted ==
  IF tx.gone
  THEN {[NoteEvent(tx) EXCEPT !.allowed = @ \/ Going(tx) # 0 \/ late] : late \in BOOLEAN}
       \cup {[tx EXCEPT !.allowed = @ \/ tx.first]}
  ELSE {[tx EXCEPT !.allowed = @ \/ tx.first]}

\* The frame going out is the last one, and no lending run makes it the program's task.
NeedsBlack(x) == x.allowed /\ ~x.lending /\ Unsent(x) <= 1

\* SignalKeeperThread.  The read offset may not be had.
KeeperLooks(k) ==
  /\ k \in running /\ attached
  /\ IF stopRequested
     THEN running' = running \ {k} /\ UNCHANGED tx
     ELSE /\ \E x \in Noted : tx' \in {x} \cup IF NeedsBlack(x) THEN InsertBlack(x) ELSE {}
          /\ UNCHANGED running
  /\ UNCHANGED <<channel, keeper, stopRequested, pc>>

-------------------------------------------------------------------------------
(* Writing.                                                                *)

Finish(t, x) ==
  /\ tx' = x /\ writing' = FALSE
  /\ pc' = [pc EXCEPT ![t] = Idle]
  /\ UNCHANGED <<attached, waitingDetaches, thread>>

\* The lock is released at a place of the write.
Pass(t, x, place, w) ==
  /\ tx' = x /\ writing' = TRUE
  /\ pc' = [pc EXCEPT ![t] = At(place, w)]
  /\ UNCHANGED <<attached, waitingDetaches, thread>>

Cancelled == waitingDetaches > 0 \/ tx.control = "idle"

\* The pictures of a level-B frame, and the black pictures that put them in their fields.
FieldOf(picture) ==
  CASE picture \in {"fill1", "second"} -> 2
    [] picture \in {"first", "fill2"} -> 1
    [] OTHER -> 0
NextPicture(picture, odd) ==
  CASE picture = "fill1" -> "first"
    [] picture = "first" -> IF odd THEN "fill2" ELSE "second"
    [] picture = "fill2" -> "second"
    [] OTHER -> "none"
FirstPicture(x) == IF x.std # "b" THEN "only" ELSE IF x.next % 2 = 1 THEN "first" ELSE "fill1"

\* A write that fails in the wait for room: one of a frame forgets the frame.
GiveUp(t, w, x) == Finish(t, IF w.kind = "frame" THEN ForgetPartialFrame(x) ELSE x)

\* EncodeOneLine and EncodeLineBatch: the frame's first line needs room for all of it, which
\* the driver may fail to tell.  The bytes may hold a part of that line only.
Encode(t, w, x) ==
  IF x.reserved
  THEN \E n \in 1..Lines - x.lines : Pass(t, EncodeLines(x, n), "gap", w)
  ELSE \/ GiveUp(t, w, x)
       \/ Free(x) = 0 /\ Pass(t, x, "room", w)
       \/ /\ Free(x) >= 1
          /\ \E n \in IF w.kind = "bytes" THEN 0..1 ELSE {1} :
               Pass(t, EncodeLines(ReserveRoom(x, FieldOf(w.picture)), n), "gap", w)

\* WriteOneFrame from the top of its loop.  The frame is refused when the standard is not
\* that of its start.
WritePicture(t, w, x) ==
  IF Cancelled THEN Finish(t, ForgetPartialFrame(x))
  ELSE IF x.stage = "lines" THEN Encode(t, w, x)
  ELSE IF (w.picture = "only") = (x.std # "b") THEN Encode(t, w, StartFrame(x))
  ELSE Finish(t, ForgetPartialFrame(x))

\* The frame is complete: it is committed, or the driver refuses, and the next picture of a
\* level-B frame follows.
CommitPicture(t, w) ==
  LET x == ForgetPartialFrame(CommitFrame(tx))
      next == NextPicture(w.picture, x.next % 2 = 1)
  IN \/ Finish(t, ForgetPartialFrame(tx))
     \/ IF next = "none" THEN Finish(t, x) ELSE WritePicture(t, [w EXCEPT !.picture = next], x)

\* Write from the top of its loop, past the padding of a frame: the bytes end or hold no
\* start of a frame, or a line follows.
WriteBytes(t, w, x) ==
  \/ Finish(t, x)
  \/ x.stage = "lines" /\ Encode(t, w, x)
  \/ x.stage = "search" /\ (Finish(t, StartFrame(x)) \/ Encode(t, w, StartFrame(x)))

\* The padding after the last line: the frame is committed when the bytes hold all of it.
\* The loop does not end when they hold less.
TakePadding(t, w) ==
  LET x == ForgetPartialFrame(CommitFrame(tx)) IN
  \/ Finish(t, ForgetPartialFrame(tx))
  \/ WriteBytes(t, w, x)
  \/ /\ "short" \in Liberties
     /\ pc' = [pc EXCEPT ![t] = Skipping]
     /\ writing' = TRUE
     /\ UNCHANGED <<attached, waitingDetaches, tx, thread>>

Write(t) ==
  LET w == Writer("bytes", "only") IN
  /\ MayCall(t) /\ ~writing /\ ~Cancelled /\ ~tx.lending /\ tx.std # "b"
  /\ IF tx.stage = "padding" THEN TakePadding(t, w) ELSE WriteBytes(t, w, tx)

\* Mutant of WriteFrame: a write is not refused while another waits.
WriteFrameBeside(t) ==
  /\ MayCall(t) /\ ~Cancelled /\ ~tx.lending /\ tx.stage = "search"
  /\ WritePicture(t, Writer("frame", FirstPicture(tx)), tx)

WriteFrame(t) ==
  /\ MayCall(t) /\ ~writing /\ ~Cancelled /\ ~tx.lending /\ tx.stage = "search"
  /\ WritePicture(t, Writer("frame", FirstPicture(tx)), tx)

\* Between two lines.
NextLine(t) ==
  LET w == Writer(pc[t].kind, pc[t].picture) IN
  /\ pc[t].at = "gap" /\ attached
  /\ IF w.kind = "frame"
     THEN IF tx.stage = "padding" THEN CommitPicture(t, w) ELSE WritePicture(t, w, tx)
     ELSE IF Cancelled THEN Finish(t, tx)
     ELSE IF tx.stage = "padding" THEN TakePadding(t, w) ELSE WriteBytes(t, w, tx)

\* LendFrame, with room.
Lend(x) ==
  [x EXCEPT !.lent = {x.at}, !.built = FALSE, !.ring[x.at] = Picture(x.next, 0, 0)]

\* Mutant of FindRoom: the wait does not see a detach.
FindRoomUnaware(t) ==
  LET w == Writer(pc[t].kind, pc[t].picture) IN
  /\ pc[t].at = "room" /\ attached
  /\ IF tx.control = "idle" THEN GiveUp(t, w, tx)
     ELSE /\ Free(tx) >= 1
          /\ IF w.kind = "lend" THEN Finish(t, Lend(tx))
             ELSE IF tx.stage = "lines" /\ ~tx.reserved THEN Encode(t, w, tx)
             ELSE Pass(t, tx, "gap", w)

\* WaitForRoom, looking again: cancelled, or there is room.
FindRoom(t) ==
  LET w == Writer(pc[t].kind, pc[t].picture) IN
  /\ pc[t].at = "room" /\ attached
  /\ IF Cancelled THEN GiveUp(t, w, tx)
     ELSE /\ Free(tx) >= 1
          /\ IF w.kind = "lend" THEN Finish(t, Lend(tx))
             ELSE IF tx.stage = "lines" /\ ~tx.reserved THEN Encode(t, w, tx)
             ELSE Pass(t, tx, "gap", w)

\* Out of time, or the driver fails to tell what room there is.
WaitFails(t) ==
  /\ pc[t].at = "room" /\ attached /\ ~Cancelled
  /\ GiveUp(t, Writer(pc[t].kind, pc[t].picture), tx)

-------------------------------------------------------------------------------
(* Lending.                                                                *)

\* The run starts before the wait for room, and goes on when no frame can be lent.
AcquireFrame(t) ==
  LET x == [tx EXCEPT !.lending = TRUE] IN
  /\ MayCall(t) /\ ~writing /\ ~Cancelled /\ tx.lent = {} /\ tx.stage = "search"
  /\ \/ Finish(t, x)
     \/ Free(x) >= 1 /\ Finish(t, Lend(x))
     \/ Free(x) = 0 /\ Pass(t, x, "room", Writer("lend", "only"))

\* The program builds the frame where it was lent.
Build(t) ==
  /\ pc[t] = Idle /\ tx.lent # {}
  /\ tx' = [tx EXCEPT !.built = TRUE,
                      !.ring = [s \in Slots |-> IF s \in tx.lent THEN [@[s] EXCEPT !.lines = Lines]
                                                ELSE @[s]]]
  /\ UNCHANGED <<channel, thread, pc>>

\* CommitLentFrame: the driver may refuse, and the frame is dropped.
CommitLentFrame(t) ==
  LET x == [tx EXCEPT !.lent = {}, !.built = FALSE] IN
  /\ MayCall(t) /\ ~Cancelled /\ tx.lent # {} /\ tx.built
  /\ tx' \in {CommitFrame(x), x}
  /\ UNCHANGED <<channel, thread, pc>>

-------------------------------------------------------------------------------
(* External: the card.                                                     *)

\* It takes a frame from the buffer.  What lay in its place matters no more.
CardTakes ==
  /\ tx.control # "idle" /\ tx.load > 0 /\ tx.card < CardFrames
  /\ tx' = [tx EXCEPT !.load = @ - 1, !.card = @ + 1,
                      !.ring[(tx.at - tx.load) % Frames] = Nothing]
  /\ UNCHANGED <<channel, thread, pc>>

\* A frame starts going out, from behind the buffer or out of it.  Of the frames that did
\* so, at most one is not yet noted.
CardSends ==
  /\ tx.control = "send" /\ tx.card >= 0 /\ tx.load + tx.card > 0
  /\ (Unsent(tx) - tx.load - tx.card) % Ids <= (IF tx.first THEN 1 ELSE 0)
  /\ tx' = [tx EXCEPT !.card = @ - 1, !.gone = TRUE]
  /\ UNCHANGED <<channel, thread, pc>>

-------------------------------------------------------------------------------
\* A write that skips padding keeps the lock.
LockFree == \A t \in Threads : pc[t].at # "skip"

Next ==
  \/ CardTakes \/ CardSends
  \/ \E t \in Threads : Build(t)
  \/ /\ LockFree
     /\ \/ \E k \in Keepers : KeeperLooks(k)
        \/ \E t \in Threads :
             \/ Attach(t) \/ ApplyIoConfig(t) \/ Hold(t) \/ HoldToSend(t)
             \/ \E goal \in {"hold", "idle"} : Stop(t, goal)
             \/ \E mode \in Modes : Detach(t, mode)
             \/ GiveUpDetach(t) \/ PauseEnds(t) \/ JoinEnds(t)
             \/ DrainLooks(t) \/ DrainGivesUp(t)
             \/ Write(t) \/ NextLine(t) \/ FindRoom(t) \/ WaitFails(t)
             \/ WriteFrame(t) \/ AcquireFrame(t) \/ CommitLentFrame(t)

Spec == Init /\ [][Next]_vars

\* The waits of the code's own have time-outs, and a join ends once its thread has returned,
\* so the thread and a call that has started go on.  Nothing is assumed of when the program
\* calls, nor of the card.
GoesOn(t) == PauseEnds(t) \/ JoinEnds(t) \/ NextLine(t) \/ FindRoom(t)

Fairness ==
  /\ WF_vars(LockFree /\ \E k \in Keepers : KeeperLooks(k))
  /\ \A t \in Threads : WF_vars(LockFree /\ GoesOn(t))

FairSpec == Spec /\ Fairness

-------------------------------------------------------------------------------
(* Properties.                                                             *)

Sides ==
  [std : Standards, control : {"idle", "hold", "send"},
   stage : {"search", "lines", "padding"}, reserved : BOOLEAN, lines : 0..Lines,
   lending : BOOLEAN, lent : SUBSET Slots, built : BOOLEAN,
   at : Slots, next : 0..Ids - 1, first : BOOLEAN, sending : 0..Ids - 1, allowed : BOOLEAN,
   ring : [Slots -> [id : 0..Ids - 1, lines : 0..Lines, field : 0..2]],
   load : 0..Frames, card : -1..CardFrames, gone : BOOLEAN]

Places ==
  {Idle, Skipping}
  \cup [at : {"pause"}, mode : Modes]
  \cup [at : {"join"}, keeper : Keepers, goal : {"hold", "idle", "drain", "release"}]
  \cup [at : {"drain"}, black : BOOLEAN]
  \cup [at : Writes, kind : {"bytes", "frame", "lend"},
        picture : {"only", "fill1", "first", "fill2", "second"}]

\* The variables have their types.
TypeOK ==
  /\ attached \in BOOLEAN /\ waitingDetaches \in 0..Cardinality(Threads) /\ writing \in BOOLEAN
  /\ tx \in Sides
  /\ keeper \subseteq Keepers /\ running \subseteq Keepers /\ stopRequested \in BOOLEAN
  /\ pc \in [Threads -> Places]

\* Every frame the card may take is whole and has the ID of its place in the sequence, black
\* frames included, whatever was being written when the thread put one in (DtSdiTx.c:338-344,
\* "moves one frame further, with the next frame ID"; cdtapi.h, "whole or not at all").
CommittedFramesAreWhole ==
  \A i \in 1..tx.load :
    LET frame == tx.ring[(tx.at - i) % Frames] IN
    frame.lines = Lines /\ frame.id = (tx.next - i) % Ids

\* The part of a frame being written lies at the write offset, with the next ID and the lines
\* written so far, and there is room for all of it (DtSdiTx.c:144, "Its header is written and
\* room for it was found").
PartHasItsRoom ==
  tx.reserved => /\ tx.control # "idle" /\ Free(tx) >= 1 /\ ~tx.lending
                 /\ tx.ring[tx.at].id = tx.next /\ tx.ring[tx.at].lines = tx.lines

\* A lent frame keeps its place: it lies at the write offset with the next ID, in a lending
\* run, with no part of another frame and no write about (DtSdiTx.c:150-156).
LentFrameKeepsItsPlace ==
  tx.lent # {} => /\ tx.lending /\ tx.lent = {tx.at} /\ tx.ring[tx.at].id = tx.next
                  /\ Free(tx) >= 1 /\ tx.stage = "search" /\ ~writing

\* While sending one thread keeps the signal, unless a call is stopping it; otherwise none
\* runs, so that a detach that waits until all is sent is the only one to take the format
\* events (DtSdiTx.c:489, "the only waiter for them", 2118-2119).
OneKeeper ==
  LET joining == {t \in Threads : pc[t].at = "join"} IN
  /\ Cardinality(running) <= 1
  /\ joining = {} => running = keeper /\ ~stopRequested
  /\ tx.control = "send" <=> keeper # {} \/ \E t \in Threads : pc[t].at \in {"join", "drain"}
  /\ (\E t \in Threads : pc[t].at = "drain") => running = {}

\* A call that has let go of the lock finds the side it works on when it takes it again; one
\* that waits for the writes alone looks whether it is there (DtOutpChannel.c:167-169).
CallFindsItsSide ==
  \A t \in Threads : pc[t].at \in Writes \cup {"join", "drain"} => attached

\* At most one write is between its start and its return, and Writing says so.
OneWrite ==
  /\ writing <=> \E t \in Threads : pc[t].at \in Writes \cup {"skip"}
  /\ Cardinality({t \in Threads : pc[t].at \in Writes \cup {"skip"}}) <= 1

\* The calls that let go of the lock, and the channel's thread, keep out of each other's way:
\* one thread keeps the signal, one write is in progress, and none loses its side.
CallsKeepApart == OneKeeper /\ CallFindsItsSide /\ OneWrite

\* The count of unsent frames, made of the IDs of events, never falls below the frames the
\* card still has: sooner, a black frame would come between frames, and a detach would not
\* wait until all is sent (DtSdiTx.c:281-290).
UnsentIsNoLess ==
  tx.control # "idle" =>
    tx.load + tx.card + (IF tx.gone THEN 1 ELSE 0) <= Unsent(tx)

\* In a lending run only the frame lent moves the write offset.
OnlyTheLentFrameGoes ==
  [][tx.lending /\ tx'.lending /\ tx'.next # tx.next => tx.lent # {} /\ tx.built]_vars

\* Neither the write of a part nor a lent frame loses its place at the write offset, whatever
\* the thread, another call, a stop or a restart does meanwhile; and in a lending run nothing
\* but the program's frame goes.
WorkKeepsItsPlace ==
  [](PartHasItsRoom /\ LentFrameKeepsItsPlace) /\ OnlyTheLentFrameGoes

\* Of level B the pictures of field 1 get odd IDs and those of field 2 even ones, black
\* pictures included (DtSdiTx.c:1689-1692; cdtapi.h, "so that each picture goes out in its
\* own field").
PicturesInTheirFields ==
  \A i \in 1..tx.load :
    LET frame == tx.ring[(tx.at - i) % Frames] IN
    frame.field # 0 => (frame.id % 2 = 1) = (frame.field = 1)

\* A call that stops the thread comes back: the thread sees that it must stop.
JoinReturns == \A t \in Threads : pc[t].at = "join" ~> pc[t].at # "join"

\* A program that frees the channel gets back: the write it waits for is cancelled, wherever
\* that has let go of the lock, and no other starts (DtOutpChannel.c:288-290, "it waits for a
\* write on another thread to return for as long as it takes").
FreeReturns ==
  \A t \in Threads :
    pc[t].at = "pause" /\ pc[t].mode = "free" ~> pc[t].at # "pause"

\* No call that joins the thread, or frees the channel, waits for ever.
CallsReturn == JoinReturns /\ FreeReturns

\* A write that takes the padding of a frame comes to its end, and gives the lock back
\* (cdtapi.h, "The bytes need not be whole frames").
PaddingIsTaken == \A t \in Threads : pc[t].at = "skip" ~> pc[t].at # "skip"
===============================================================================
