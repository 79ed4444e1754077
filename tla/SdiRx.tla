-------------------------------- MODULE SdiRx --------------------------------
(***************************************************************************)
(* Source/Channel/DtSdiRx.c over Source/Core/DtRing.c: how an input channel *)
(* finds the frames of an SDI signal in the ring the card writes; and the   *)
(* card with its driver, as Source/OAL/Sim/SimChSdiRx.c has them.           *)
(*                                                                         *)
(* The ring is counted in units of the stream's alignment, which is also    *)
(* the size of a frame's header and what the card keeps free.  A unit is a  *)
(* header, or the Part-th unit of the lines of a frame.  The channel's lock *)
(* makes a call one step, but for what the card writes meanwhile: a step    *)
(* finds a frame, the next takes it from the ring.                          *)
(***************************************************************************)
EXTENDS Integers, FiniteSets, FiniteSetsExt, Sequences

CONSTANTS
  Size,       \* units in the ring
  Lines,      \* coded lines of a frame
  Stride,     \* units of a coded line
  Quarters,   \* bound: format events per frame, DT_SDIFRAME_FMT_EVENTS_PER_FRAME
  Ids,        \* bound: frame IDs, 0xFFFF + 1
  Ahead,      \* bound: frames the card starts since one was read
  Standards,  \* "a", and "b" for 3G level B, whose pictures are read in pairs
  Mixed,      \* may a program borrow a frame of level B while a read has held a field 1?
  Faults,     \* of a frame on its way in: "none", or what SimRxFault has
  Faulty      \* bound: the IDs of the frames that may have one

LineUnits == Lines * Stride
CodedSize == 1 + LineUnits
MaxLoad == Size - 2      \* the driver keeps a data word free, two units
CardLoad == Size - 1     \* the card keeps one unit free, SIM_RX_CARD_KEPT_FREE

ASSUME SdiRxAssumption ==
  /\ Faulty \subseteq 0..Ids - 1
  /\ Lines \in Nat \ {0, 1} /\ Stride \in Nat \ {0} /\ Quarters \in Nat \ {0}
  /\ Size \in Nat /\ MaxLoad >= 2 * CodedSize
  /\ Ahead \in Nat \ {0} /\ Ids \in Nat /\ Ids > Ahead + 2 /\ Ids % 2 = 0
  /\ Mixed \in BOOLEAN /\ Standards \subseteq {"a", "b"}
  /\ "none" \in Faults /\ Faults \subseteq {"none", "sync", "format", "skip", "unsynced"}

VARIABLES
  card,  \* the card and its driver, see Stopped
  ring,  \* what the units of the ring hold
  rx,    \* the side, see NewRx
  pc,    \* where the one read is
  out,   \* history: what the last step read, see NothingOut
  hist   \* history: see NoHistory

vars == <<card, ring, rx, pc, out, hist>>

Slots == 0..Size - 1
Header == 0          \* a header the layout accepts
BadFormat == -1    \* a header of another format
BadSync == -2      \* a header without the sync word
Blank == -3        \* never written
Unit(id, part) == [id |-> id, part |-> part]

\* The frame in the card: quarter is the next event's, Quarters between frames.
Stopped(num) ==
  [run |-> FALSE, w |-> 0, r |-> 0, quarter |-> Quarters, num |-> num,
   insync |-> FALSE, dropped |-> FALSE]

\* lent: the ID of the frame lent, or None; picture: Pictures[0] while it is held. stale: history,
\* it is of an earlier field 1 than the one held, which was read into the other buffer as the
\* look that found it let the earlier one go.
None == -1
NoPicture == [id |-> -1, whole |-> TRUE, torn |-> FALSE, stale |-> FALSE]
NewRx(std) ==
  [std |-> std, run |-> FALSE, r |-> 0, w |-> 0, insync |-> FALSE, expected |-> 0, last |-> 0,
   latched |-> FALSE, lent |-> None, held |-> FALSE, arrival |-> -1, picture |-> NoPicture]

\* since: the frame last read, or in the card at a start; lost: frames after it the card had
\* no room for; started: receiving started since; excused: frames were given up since for
\* their event or their header, not for an overflow.
NoHistory(num) ==
  [since |-> num, lost |-> {}, started |-> TRUE, excused |-> FALSE]

\* A read that has not found a frame waits, with the lock free, or is over.  A read after a wait
\* is as one that starts.  count is DeliverLevelB's, buffer the picture's.
\* letGo: history, the look that found the frame let a held field 1 go.
Idle == [at |-> "idle"]
Waiting == [at |-> "wait"]
SawOutOfSync == [at |-> "out"]   \* a wait that ended with an event out of sync
Looking(count) == [at |-> "look", count |-> count]
Copying(count, buffer, letGo) ==
  [at |-> "copy", count |-> count, buffer |-> buffer, letGo |-> letGo]

\* The frame read, its arrival and its pictures, none for a field read alone; lost: frames
\* before it were lost; and the rest of the history before it.
NothingOut == [arrival |-> -1, pictures |-> <<>>, lost |-> FALSE, noted |-> FALSE,
               started |-> FALSE, excused |-> FALSE]

Init ==
  /\ \E std \in Standards : rx = NewRx(std)
  /\ card = Stopped(0) /\ ring = [s \in Slots |-> Unit(0, Blank)]
  /\ pc = Idle /\ out = NothingOut /\ hist = NoHistory(0)

-------------------------------------------------------------------------------
(* The card.                                                               *)

RingLoad(x) == (x.w + Size - x.r) % Size

\* A user that has nothing to read is passed over, so the card stays where it was.
UpdateReadOffset(c, told) ==
  IF c.run /\ (c.w + Size - told) % Size > 0 THEN [c EXCEPT !.r = told] ELSE c

RingFree(c) == IF RingLoad(c) >= CardLoad THEN 0 ELSE CardLoad - RingLoad(c)

\* units are written as far as they fit.
Fitting(c, units) == SubSeq(units, 1, Min({Len(units), RingFree(c)}))
Advanced(c, units) ==
  LET n == Len(Fitting(c, units)) IN
  [c EXCEPT !.w = (@ + n) % Size, !.dropped = @ \/ n < Len(units)]
Written(c, units) ==
  LET put == Fitting(c, units) IN
  [s \in Slots |-> LET i == ((s + Size - c.w) % Size) + 1 IN
                   IF i <= Len(put) THEN put[i] ELSE ring[s]]

\* What has been given back may be written over at any time, so it holds nothing.
Kept(c, units) ==
  [s \in Slots |-> IF (s + Size - c.r) % Size < RingLoad(c) THEN units[s] ELSE Unit(0, Blank)]

\* StartFrame gives the next frame its number, and writes its header if it is in sync.
Started(c, fault) ==
  [c EXCEPT !.num = (@ + (IF fault = "skip" THEN 2 ELSE 1)) % Ids, !.quarter = 0,
            !.dropped = FALSE, !.insync = fault # "unsynced"]
HeaderOf(c, fault) ==
  IF ~c.insync THEN <<>>
  ELSE <<Unit(c.num, CASE fault = "sync" -> BadSync [] fault = "format" -> BadFormat
                       [] OTHER -> Header)>>

\* WriteLines: the lines up to the next event's quarter, unless some were dropped before.
Upto(q) == (Lines * q + Quarters - 1) \div Quarters
LinesOf(c) ==
  LET before == Upto(c.quarter) * Stride IN
  IF ~c.insync \/ c.dropped THEN <<>>
  ELSE [p \in 1..Upto(c.quarter + 1) * Stride - before |-> Unit(c.num, before + p)]

Distance(a, b) == (b + Ids - a) % Ids

\* NextEvent.  A read that waits for an event sees whether the frame is in sync.
CardEvent(fault) ==
  LET begins == card.quarter = Quarters
      c0 == IF begins THEN Started(card, fault) ELSE card
      units == (IF begins THEN HeaderOf(c0, fault) ELSE <<>>) \o
               (IF begins /\ RingFree(c0) = 0 /\ c0.insync THEN <<>> ELSE LinesOf(c0))
      c1 == Advanced(c0, units)
      ends == c1.quarter = Quarters - 1
  IN
  /\ card.run
  /\ begins => Distance(hist.since, c0.num) <= Ahead
  /\ fault # "none" => begins /\ c0.num \in Faulty
  /\ card' = [c1 EXCEPT !.quarter = @ + 1, !.insync = @ /\ ~ends, !.dropped = @ /\ ~ends]
  /\ ring' = Written(c0, units)
  /\ pc' = IF pc # Waiting THEN pc
           ELSE IF c1.insync /\ ~c1.dropped THEN Idle ELSE SawOutOfSync
  /\ hist' = [hist EXCEPT !.lost = IF c1.dropped THEN @ \cup {c1.num} ELSE @]
  /\ out' = NothingOut /\ UNCHANGED <<rx>>

-------------------------------------------------------------------------------
(* The side finds a frame.                                                 *)

At(x, o) == ring[(x.r + o) % Size]

\* Mutant of Told: the offset is told as it is.
ToldAsRead(x) == x.r

\* What AdvanceReadOffset tells the driver: one unit back when the ring is empty.
Told(x) == IF RingLoad(x) = 0 THEN (x.r + Size - 1) % Size ELSE x.r
Skip(x, n) == [x EXCEPT !.r = (@ + n) % Size]

Overflowed(x) == [x EXCEPT !.latched = TRUE]
\* No frame ID is expected then.
OutOfSync(x) == [x EXCEPT !.insync = FALSE, !.held = FALSE, !.expected = 0]

\* SyncWriteOffset, and a ring that has filled up has lost data.
Synced(x) == [x EXCEPT !.w = card.w]
Noticed(x) == IF RingLoad(x) + Stride >= MaxLoad THEN Overflowed(x) ELSE x

\* Mutant of LinesInPlace: the last line is not looked at.
LinesInPlaceFirst(x, o) == At(x, o + 1).part = 1

\* The first and the last line begin where they should.
LinesInPlace(x, o) ==
  /\ At(x, o + 1).part = 1
  /\ At(x, o + 1 + (Lines - 1) * Stride).part = (Lines - 1) * Stride + 1

\* Mutant of NoteLostFrames: a jump of the IDs is taken as a loss of the signal.
NoteLostFramesNever(x, id) == x

\* As many frames were lost as the time between the frames says: the card counts them.
NoteLostFrames(x, id) ==
  IF Distance(x.last, id) = (Distance(x.expected, id) + 1) % Ids THEN Overflowed(x) ELSE x

\* The search for a header from offset from on.  It passes over frames cut short, and ends at
\* a frame, at a header whose frame has not all arrived, or with nothing left.
Search(x, from) ==
  LET heads == {o \in from..RingLoad(x) - 1 : At(x, o).part = Header}
      stops == {o \in heads : o + CodedSize > RingLoad(x) \/ LinesInPlace(x, o)}
      upto == IF stops = {} THEN RingLoad(x) ELSE Min(stops)
      cut == \E o \in heads : o < upto
      y == Skip(IF cut THEN OutOfSync(Overflowed(x)) ELSE x, upto)
  IN [rx |-> IF stops = {} THEN y ELSE [y EXCEPT !.insync = TRUE, !.expected = At(y, 0).id],
      found |-> stops # {} /\ upto + CodedSize <= RingLoad(x), tell |-> upto > 0 \/ stops # {}]

\* FindFrame, with the ring as SyncWriteOffset leaves it.
FindFrame ==
  LET x == Noticed(Synced(rx))
      h == At(x, 0)
      stay(found) == [rx |-> x, found |-> found, tell |-> FALSE]
  IN CASE ~x.insync -> Search(x, 0)
       [] x.insync /\ RingLoad(x) < CodedSize -> stay(FALSE)
       [] OTHER ->
            IF h.part \notin {Header, BadFormat} THEN Search(OutOfSync(x), 0)
            ELSE IF h.id # x.expected THEN Search(OutOfSync(NoteLostFrames(x, h.id)), 0)
            ELSE IF h.part = BadFormat THEN Search(OutOfSync(x), 0)
            ELSE IF LinesInPlace(x, 0) THEN stay(TRUE)
            ELSE Search(OutOfSync(Overflowed(x)), 1)

\* The driver is told of a move of the read offset.
Tell(x) ==
  /\ card' = UpdateReadOffset(card, Told(x))
  /\ ring' = Kept(card', ring)

\* The write offset is asked for before it is used again, but for a frame that was found.
Settled(x) == [x EXCEPT !.w = x.r]

\* What the frame at the read offset is; whole: its units are those of one frame, in order,
\* up to the start of its last line.
PictureAt(x) ==
  LET id == At(x, 0).id IN
  [id |-> id, whole |-> \A p \in 0..LineUnits - Stride + 1 : At(x, p) = Unit(id, p),
   torn |-> \E p \in 0..LineUnits : At(x, p) # Unit(id, p), stale |-> FALSE]

\* A header that is none, though one was expected, excuses what is lost with it.
Looked ==
  LET y == Synced(rx)
      unread == rx.insync /\ RingLoad(y) >= CodedSize /\ At(y, 0).part # Header
  IN [hist EXCEPT !.excused = @ \/ unread]

-------------------------------------------------------------------------------
(* Reading.                                                                *)

LockFree == pc.at \in {"idle", "wait", "out"}

FieldOf(id) == IF id % 2 = 1 THEN 1 ELSE 2

\* No frame yet: the time is up, or the read waits; while idle, it sleeps.
NoFrame == IF rx.run THEN {Idle, Waiting} ELSE {Idle}

\* Mutant of BufferFor: the last picture's field chooses, ReadLevelBField.
BufferForLast(x) == IF x.std = "b" /\ FieldOf(x.last) = 1 THEN 1 ELSE 0

\* DeliverLevelB chooses Pictures[0] or [1] before ReadOne.
BufferFor(x) == IF x.std = "b" /\ x.held THEN 1 ELSE 0

\* FindFrame as ReadOne calls it.
LookToCopy ==
  LET f == FindFrame IN
  /\ pc.at \in {"idle", "look"} /\ rx.run /\ rx.lent = None
  /\ rx' = IF f.found THEN f.rx ELSE Settled(f.rx)
  /\ IF f.tell THEN Tell(f.rx) ELSE UNCHANGED <<card, ring>>
  /\ pc' \in IF f.found
             THEN {Copying(IF pc = Idle THEN 1 ELSE pc.count, BufferFor(rx),
                           rx.held /\ ~f.rx.held)}
             ELSE NoFrame
  /\ hist' = Looked /\ out' = NothingOut

LendFrame ==
  LET f == FindFrame IN
  /\ pc = Idle /\ rx.run /\ rx.lent = None /\ (Mixed \/ ~rx.held)
  /\ rx' = IF f.found THEN [f.rx EXCEPT !.lent = At(f.rx, 0).id] ELSE Settled(f.rx)
  /\ IF f.tell THEN Tell(f.rx) ELSE UNCHANGED <<card, ring>>
  /\ pc' \in IF f.found THEN {Idle} ELSE NoFrame
  /\ hist' = Looked /\ out' = NothingOut

\* FinishFrame, of the frame with this ID.  The program is taken to clear the latched flag, with
\* ClearFlags, after every frame, so that what it says is of the next.
FinishFrame(id) ==
  [Skip(rx, CodedSize) EXCEPT !.expected = (id + 1) % Ids, !.last = id, !.latched = FALSE]

\* Whether frames were lost between those read, and what is known of them.
Delivered(id, arrival, pictures) ==
  [arrival |-> arrival, pictures |-> pictures,
   lost |-> \E n \in hist.lost :
              Distance(hist.since, n) \in 1..Distance(hist.since, id) - 1,
   noted |-> rx.latched, started |-> hist.started, excused |-> hist.excused]

\* What is known of the frames after the one read.
Since(id) ==
  [since |-> id, started |-> FALSE, excused |-> FALSE,
   lost |-> {n \in hist.lost : Distance(hist.since, n) > Distance(hist.since, id)}]

FinishCopy ==
  LET picture == PictureAt(rx)
      x == FinishFrame(picture.id)
  IN
  /\ pc.at = "copy" /\ rx.std = "a"
  /\ rx' = Settled(x) /\ Tell(x) /\ pc' = Idle
  /\ out' = Delivered(picture.id, picture.id, <<picture>>)
  /\ hist' = Since(picture.id)

\* A field 1 is held; one that is held already gives way to it.  Read into the second buffer
\* with none held, it leaves the first as it was. place: where the read is.
FirstField(x, place, picture) ==
  [x EXCEPT !.picture = IF x.held \/ place.buffer = 0 THEN picture
                        ELSE [@ EXCEPT !.stale = place.letGo],
            !.held = TRUE, !.arrival = picture.id]

\* The rest of a round of DeliverLevelB, after ReadOne.
FinishPicture ==
  LET picture == PictureAt(rx)
      x == FinishFrame(picture.id)
      y == Settled(x)
      pair == FieldOf(picture.id) = 2 /\ x.held
  IN
  /\ pc.at = "copy" /\ rx.std = "b"
  /\ Tell(x)
  /\ rx' = IF FieldOf(picture.id) = 1 THEN FirstField(y, pc, picture)
           ELSE [y EXCEPT !.held = FALSE, !.arrival = -1, !.picture = NoPicture]
  /\ out' = Delivered(picture.id, IF pair THEN x.arrival ELSE -1,
                      IF pair THEN <<x.picture, picture>> ELSE <<>>)
  /\ pc' \in IF pair THEN {Idle}
             ELSE IF pc.count < 3 THEN {Looking(pc.count + 1)} ELSE NoFrame
  /\ hist' = Since(picture.id)

ReturnFrame ==
  LET x == [FinishFrame(rx.lent) EXCEPT !.lent = None] IN
  /\ pc = Idle /\ rx.lent # None
  /\ rx' = Settled(x) /\ Tell(x)
  /\ out' = Delivered(rx.lent, rx.lent, <<PictureAt(rx)>>)
  /\ hist' = Since(rx.lent)
  /\ UNCHANGED pc

DiscardAll == LET x == Synced(OutOfSync(rx)) IN Skip(x, RingLoad(x))

\* A wait without an event.
WaitTimesOut ==
  /\ pc = Waiting
  /\ pc' = Idle
  /\ out' = NothingOut /\ UNCHANGED <<card, ring, rx, hist>>

\* The wait ended with an event out of sync.
AfterWait ==
  LET x == DiscardAll IN
  /\ pc = SawOutOfSync
  /\ pc' = Idle /\ rx' = Settled(x)
  /\ IF RingLoad(Synced(rx)) > 0 THEN Tell(x) ELSE UNCHANGED <<card, ring>>
  /\ hist' = [hist EXCEPT !.excused = TRUE]
  /\ out' = NothingOut

-------------------------------------------------------------------------------
(* Control.                                                                *)

\* Receiving stops; ClearFifo also clears the latched flag.
Stopping(x) == Settled([x EXCEPT !.run = FALSE, !.lent = None])

Stop ==
  /\ LockFree /\ rx.run
  /\ rx' = Stopping(rx) /\ card' = [card EXCEPT !.run = FALSE]
  /\ out' = NothingOut /\ UNCHANGED <<ring, pc, hist>>

Start ==
  /\ LockFree /\ ~rx.run
  /\ rx' = [OutOfSync(rx) EXCEPT !.run = TRUE, !.lent = None, !.r = 0, !.w = 0]
  /\ card' = [card EXCEPT !.run = TRUE, !.w = 0, !.r = 0, !.quarter = Quarters]
  /\ ring' = Kept(card', ring)
  /\ hist' = NoHistory(card.num)
  /\ out' = NothingOut /\ UNCHANGED pc

ClearFifo ==
  /\ LockFree
  /\ rx' = [OutOfSync(IF rx.run THEN Stopping(rx) ELSE rx) EXCEPT !.latched = FALSE]
  /\ card' = [card EXCEPT !.run = FALSE]
  /\ out' = NothingOut /\ UNCHANGED <<ring, pc, hist>>

\* Of a lent frame: at other times the next look does the same.
GetFifoLoad ==
  /\ LockFree /\ rx.lent # None
  /\ rx' = Synced(rx)
  /\ out' = NothingOut /\ UNCHANGED <<card, ring, pc, hist>>

\* A new standard: ConfigureChannel, with a new ring.
ApplyIoConfig(std) ==
  /\ LockFree /\ ~rx.run
  /\ rx' = [NewRx(std) EXCEPT !.expected = rx.expected, !.last = rx.last,
                              !.latched = rx.latched]
  /\ card' = Stopped(card.num)
  /\ ring' = [s \in Slots |-> Unit(0, Blank)]
  /\ out' = NothingOut /\ UNCHANGED <<pc, hist>>

Next ==
  \/ \E fault \in Faults : CardEvent(fault)
  \/ LookToCopy \/ FinishCopy \/ FinishPicture \/ LendFrame \/ ReturnFrame
  \/ WaitTimesOut \/ AfterWait
  \/ Stop \/ Start \/ ClearFifo \/ GetFifoLoad
  \/ \E std \in Standards : ApplyIoConfig(std)

Spec == Init /\ [][Next]_vars

-------------------------------------------------------------------------------
(* Properties.                                                             *)

\* DtSdiRx.c:808-826: what a read delivers, and what is lent, is one frame, its units in
\* order up to its last line, whatever the card wrote over or cut short meanwhile. No frame
\* stays lent over a stop.
FramesAreInOnePiece ==
  /\ \A i \in DOMAIN out.pictures : out.pictures[i].whole
  /\ rx.lent # None => /\ rx.run /\ pc = Idle
                      /\ PictureAt(rx).whole /\ PictureAt(rx).id = rx.lent

\* DtSdiRx.c:430-441 against UpdateReadOffset of the driver: the card may write up to what
\* the channel has not read, but for a unit, so a ring that was full does not stay full.
CardHasRoom ==
  rx.run => RingFree(card) + RingLoad([r |-> rx.r, w |-> card.w]) + 1 >= CardLoad

\* The ring is shared: neither the card's writing spoils a frame that is read or lent, nor
\* does the reading leave the card without the room it could have.
RingIsShared == FramesAreInOnePiece /\ CardHasRoom

\* DtSdiRx.c:959-972: field 2 of a frame of level B comes right after the field 1 whose arrival
\* time is given, no lost field lies between; and the other picture is that field 1, or an
\* earlier one, but that only where the look for that field 1 let the earlier one go, after
\* DtSdiRx.c:983 had chosen the second buffer.
FieldsFollow ==
  Len(out.pictures) = 2 =>
    /\ FieldOf(out.pictures[1].id) = 1
    /\ out.pictures[2].id = (out.arrival + 1) % Ids
    /\ out.pictures[1].stale \/ out.pictures[1].id = out.arrival

\* cdtapi.h, DTAPI_RX_FIFO_OVF: where frames are missing between two that are read because
\* the card had no room, the flag was set, unless a header or an event gave frames up.
OverflowIsNoted == out.lost => out.noted \/ out.started \/ out.excused

\* The same without the excuse. It fails with Faults = {"none"}, Standards = {"a"}: frames that
\* an event out of sync discards leave no expected ID, so the jump over lost ones is not seen.
OverflowIsFlagged == out.lost => out.noted \/ out.started

\* cdtapi.h, level B: a frame is a picture of field 1 and that of field 2 after it. It does not
\* hold: DtSdiRx.c:983 chooses the buffer before ReadOne lets a field 1 go. FieldsFollow says
\* what does.
PairIsOneFrame ==
  Len(out.pictures) = 2 => out.pictures[2].id = (out.pictures[1].id + 1) % Ids

\* No unit of a frame delivered is another's. It fails with Stride = 2, Size = 12: of the last
\* line only the start is looked at, DtSdiFrame.c:904-920.
FramesAreWhole == \A i \in DOMAIN out.pictures : ~out.pictures[i].torn
===============================================================================
