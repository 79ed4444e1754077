--------------------------------- MODULE AvRx ---------------------------------
(***************************************************************************)
(* A receive FIFO of ST 2110-20 video: Source/AvFifo/DtAvRxFifo.c, the     *)
(* parser of DtSt2110Video.c, and the frames of DtAvFrame.c, between a     *)
(* network that loses, spoils, repeats and delays packets and a program    *)
(* that reads frames and gives them back.                                  *)
(*                                                                         *)
(* A packet has the segments, field and marker its sender gave it, however *)
(* it cuts a frame (St2110 is that of the repository); its sequence number *)
(* is its place in the stream of a format, which starts again after two    *)
(* frames or fields.  What a frame of memory holds is the numbers of the   *)
(* packets put into it.  The parser handles a packet, and the program      *)
(* makes a call, in one step: the queue and the pool have their own locks. *)
(***************************************************************************)
EXTENDS Integers, Sequences, FiniteSets
Seqs == INSTANCE SequencesExt

CONSTANTS
  Streams,     \* by format, the packets of two frames or of both fields
  MaxSize,     \* frames in the queue at most
  Lent,        \* bound: frames the program has at a time
  Lateness,    \* bound: packets the sender is ahead of one that is held back
  Faults,      \* bound: what the network, the sender and the memory do to the stream
  Quiet        \* bound: packets until a frame is due, see FramesComeAgain

StartsFrame(packet) == LET first == packet.segments[1] IN first.row = 0 /\ first.offset = 0

\* A packet has at least a segment, a part of a row, and none without bytes.
Segment == [row : Nat, offset : Nat, length : Nat \ {0}]
Packets == [field : {0, 1}, segments : Seq(Segment) \ {<<>>}, marker : BOOLEAN]

\* A frame starts after each marker, and has one field.
IsStream(packets) ==
  \A i \in DOMAIN packets : LET then == packets[(i % Len(packets)) + 1] IN
    IF packets[i].marker THEN StartsFrame(then) ELSE then.field = packets[i].field

ASSUME AvRxAssumption ==
  /\ {MaxSize, Lent, Lateness, Quiet} \subseteq Nat \ {0} /\ Faults \in Nat
  /\ Streams \in Seq(Seq(Packets) \ {<<>>}) \ {<<>>}
  /\ \A i \in DOMAIN Streams : IsStream(Streams[i])

VARIABLES
  sender,   \* the format sent, and the number of the packet sent next
  late,     \* a packet held back, or NoNumber
  faults,   \* faults so far
  rx,       \* the parser, DtSt2110VideoRx
  free,     \* the free frames of the pool, the one taken next first
  room,     \* the bytes each frame has room for, DataCapacity; 0 when there is no such frame
  mem,      \* what each frame holds, until the program has read it
  queue,    \* the frames received, DtAvFrameFifo
  lent,     \* the frames the program has read and not given back
  started,
  quiet     \* history: the packets parsed since the last that was disturbed or ended a frame

vars == <<sender, late, faults, rx, free, room, mem, queue, lent, started, quiet>>

-------------------------------------------------------------------------------
(* Packets.                                                                *)

SumOf(s) ==
  LET upTo[n \in 0..Len(s)] == IF n = 0 THEN 0 ELSE upTo[n - 1] + s[n] IN upTo[Len(s)]

PacketSize(packet) == SumOf([i \in DOMAIN packet.segments |-> packet.segments[i].length])

Numbers == UNION {{[format |-> i, n |-> n] : n \in 0..Len(Streams[i]) - 1} : i \in DOMAIN Streams}
NoNumber == [format |-> 0, n |-> 0]

Packet(seqNum) == Streams[seqNum.format][seqNum.n + 1]
Following(seqNum) == [seqNum EXCEPT !.n = (@ + 1) % Len(Streams[seqNum.format])]
LastSegment(packet) == packet.segments[Len(packet.segments)]

-------------------------------------------------------------------------------
(* The FIFO, while a packet is parsed: the parser, the pool and the queue. *)

Frames == 1..MaxSize + Lent + 1
None == 0
Nothing == [data |-> <<>>]

Fifo == [rx |-> rx, free |-> free, room |-> room, mem |-> mem, queue |-> queue]

Return(f, frame) == [f EXCEPT !.free = <<frame>> \o @, !.mem[frame] = Nothing]

\* Mutant of EnsureDataCapacity: a frame of the pool is taken as large enough.
EnsureDataCapacityOfNew(f, frame, size) ==
  [f EXCEPT !.room[frame] = IF @ = 0 THEN size ELSE @]

EnsureDataCapacity(f, frame, size) ==
  [f EXCEPT !.room[frame] = IF @ >= size THEN @ ELSE size]

\* A frame of the pool with room for size bytes becomes the partial frame, unless there is
\* no memory.
CanGet(f, size, memory) ==
  memory \/ (f.free # <<>> /\ f.room[Head(f.free)] >= size)
Get(f, size) ==
  LET frame == IF f.free # <<>> THEN Head(f.free)
               ELSE CHOOSE n \in Frames : f.room[n] = 0
  IN [EnsureDataCapacity(f, frame, size) EXCEPT
        !.free = IF @ = <<>> THEN @ ELSE Tail(@), !.rx.partial = frame]

\* DtAvFrameFifo_Clear: the frames go to the pool one by one.
Cleared(f) ==
  [f EXCEPT !.queue = <<>>, !.free = Seqs!Reverse(f.queue) \o @,
            !.mem = [n \in Frames |-> Nothing]]

\* DtAvRxSink_Deliver and DtAvFrameFifo_Push.
Push(f, frame) ==
  IF Len(f.queue) < MaxSize THEN [f EXCEPT !.queue = Append(@, frame)] ELSE Return(f, frame)

-------------------------------------------------------------------------------
(* The parser.                                                             *)

\* partial: the frame being received, or None; calculated: CalculatedFrameSize, and numRows:
\* NumRowsFrame, and so on, -1 when not known; bytes: InputNumBytes; next: LastSeqNum + 1.
NewRx ==
  [partial |-> None, bytes |-> 0, calculated |-> -1, numRows |-> -1, counted |-> -1,
   countedRows |-> 0, rowSize |-> -1, waiting |-> TRUE, interlaced |-> FALSE, next |-> NoNumber]

\* Mutant of ForgetStreamAndFrame: the frame is not returned.
ForgetStreamOnly(f) == [f EXCEPT !.rx = NewRx]

ForgetStreamAndFrame(f) ==
  LET g == IF f.rx.partial = None THEN f ELSE Return(f, f.rx.partial) IN [g EXCEPT !.rx = NewRx]

\* InputNumBytes and OutputNumBytes become 0.
Empty(f) ==
  IF f.rx.partial = None THEN f ELSE [f EXCEPT !.mem[f.rx.partial] = Nothing, !.rx.bytes = 0]

Follows(f, p) == p.seqNum = f.rx.next
Passed(f, p) == [f EXCEPT !.rx.next = p.next]

CountFrameSize(r, p) ==
  LET starts  == r.counted = -1 /\ StartsFrame(p)
      counts  == starts \/ (r.counted # -1 /\ p.seqNum = r.next)
      segment == LastSegment(p)
      numRows == segment.row + 1
  IN [r EXCEPT
        !.counted = IF ~counts THEN -1 ELSE p.size + (IF starts THEN 0 ELSE @),
        !.countedRows = IF counts THEN numRows ELSE 0,
        !.numRows = numRows,
        !.rowSize = IF @ = -1 /\ p.segments[1].offset # 0 THEN -1
                    ELSE IF segment.offset = 0 THEN segment.length
                    ELSE @ + segment.length]

\* Until a marker: learn the size.
Learn(f, p) ==
  LET r == IF f.rx.calculated = -1 THEN CountFrameSize(f.rx, p) ELSE f.rx
      known == r.calculated # -1 \/ (r.numRows # -1 /\ r.rowSize # -1) \/ r.counted # -1
  IN [f EXCEPT !.rx = [r EXCEPT !.next = p.next, !.waiting = ~(p.marker /\ known)]]

Greatest(a, b) == IF a > b THEN a ELSE b

CalculateFrameSize(r) ==
  LET more == IF r.interlaced THEN 1 ELSE 0
      size == IF r.numRows >= 0 /\ r.rowSize >= 0 THEN (r.numRows + more) * r.rowSize ELSE -1
      counted == IF r.counted # -1 /\ r.countedRows > 0
                 THEN r.counted + more * (r.counted \div r.countedRows) ELSE r.counted
      calculated == Greatest(size, counted)
  IN [r EXCEPT !.calculated = IF calculated > 0 THEN calculated ELSE -1,
               !.counted = -1, !.countedRows = 0]

\* A field has as many rows as its bytes fill.
DeliverFrame(f, p) ==
  LET frame == f.rx.partial
      lines == IF f.rx.interlaced /\ f.rx.rowSize > 0 THEN f.rx.bytes \div f.rx.rowSize
               ELSE f.rx.numRows
  IN Push([f EXCEPT !.rx.partial = None, !.rx.bytes = 0,
                    !.mem[frame] = [data |-> @.data, field |-> p.field, numRows |-> lines]], frame)

AppendPacket(f, p) ==
  IF f.rx.bytes + p.size > f.rx.calculated THEN ForgetStreamAndFrame(f)
  ELSE LET g == [f EXCEPT !.mem[f.rx.partial] = [data |-> Append(@.data, p.seqNum)],
                          !.rx.bytes = @ + p.size]
       IN IF p.marker THEN DeliverFrame(g, p) ELSE g

Fill(f, p, memory) ==
  LET g == IF f.rx.partial = None /\ f.rx.calculated = -1
           THEN [f EXCEPT !.rx = CalculateFrameSize(@)] ELSE f
  IN IF g.rx.calculated = -1 THEN ForgetStreamAndFrame(g)
     ELSE IF g.rx.partial # None THEN AppendPacket(g, p)
     ELSE IF CanGet(g, g.rx.calculated, memory) THEN AppendPacket(Get(g, g.rx.calculated), p)
     ELSE [g EXCEPT !.rx.waiting = ~p.marker]

\* Mutant of Misses: only a packet within a frame is looked at.
MissesWithin(f, p) == ~Follows(f, p) /\ f.rx.bytes # 0

\* A packet is missing that is not between frames.
Misses(f, p) == ~Follows(f, p) /\ (f.rx.bytes # 0 \/ ~StartsFrame(p))

\* Mutant of SkipFrame: the frame after one whose last packet came is skipped too.
SkipFrameAndNext(f, p) == Empty([Passed(f, p) EXCEPT !.rx.waiting = TRUE])

SkipFrame(f, p) == Empty([Passed(f, p) EXCEPT !.rx.waiting = ~p.marker])

\* A field bit once the size is known is a frame of another size.
Parse(f, p, memory) ==
  IF p.field = 1 /\ ~f.rx.interlaced /\ f.rx.calculated # -1 THEN ForgetStreamAndFrame(f)
  ELSE LET g == [f EXCEPT !.rx.interlaced = @ \/ p.field = 1]
       IN CASE g.rx.waiting -> Learn(g, p)
            [] ~g.rx.waiting /\ Misses(g, p) -> SkipFrame(g, p)
            [] OTHER -> Fill(Passed(g, p), p, memory)

\* Row headers that do not fit the packet.
ParseSpoilt(f) == Empty([f EXCEPT !.rx.waiting = TRUE])

-------------------------------------------------------------------------------
Init ==
  /\ sender = [format |-> 1, n |-> 0] /\ late = NoNumber /\ faults = 0
  /\ rx = NewRx /\ free = <<>> /\ room = [f \in Frames |-> 0] /\ mem = [f \in Frames |-> Nothing]
  /\ queue = <<>> /\ lent = {} /\ started = FALSE /\ quiet = 0

Becomes(f) ==
  rx' = f.rx /\ free' = f.free /\ room' = f.room /\ mem' = f.mem /\ queue' = f.queue

(* The network. *)

\* The packet ended a frame, which was delivered or dropped as the queue was full.
EndsFrame == /\ Packet(sender).marker /\ sender = rx.next
             /\ ~rx.waiting /\ ~rx'.waiting /\ rx'.partial = None /\ rx'.calculated # -1

Ahead == IF late.format = sender.format THEN (sender.n - late.n) % Len(Streams[sender.format])
         ELSE sender.n
MaySend == started /\ (late # NoNumber => Ahead < Lateness)
Sends == MaySend /\ sender' = Following(sender)

Fault == faults < Faults /\ faults' = faults + 1 /\ quiet' = 0

\* A packet with its sequence number and the one that follows it.
Numbered(seqNum, packet) ==
  [seqNum |-> seqNum, next |-> Following(seqNum), field |-> packet.field,
   segments |-> packet.segments, marker |-> packet.marker, size |-> PacketSize(packet)]

Arrives(seqNum, memory) ==
  \E p \in {Numbered(seqNum, Packet(seqNum))} : \E f \in {Parse(Fifo, p, memory)} : Becomes(f)

Receive ==
  /\ Sends /\ Arrives(sender, TRUE)
  /\ quiet' = IF EndsFrame THEN 0 ELSE quiet + 1
  /\ UNCHANGED <<late, faults, lent, started>>

\* There is no memory for a frame, if one is needed.
ReceiveWithoutMemory ==
  /\ Sends /\ Fault /\ Arrives(sender, FALSE)
  /\ UNCHANGED <<late, lent, started>>

ReceiveTwice ==
  /\ late = NoNumber /\ Sends /\ Fault /\ Arrives(sender, TRUE)
  /\ late' = sender
  /\ UNCHANGED <<lent, started>>

Lose ==
  /\ Sends /\ Fault
  /\ UNCHANGED <<late, rx, free, room, mem, queue, lent, started>>

Spoil ==
  /\ Sends /\ Fault /\ Becomes(ParseSpoilt(Fifo))
  /\ UNCHANGED <<late, lent, started>>

HoldBack ==
  /\ late = NoNumber /\ Sends /\ Fault
  /\ late' = sender
  /\ UNCHANGED <<rx, free, room, mem, queue, lent, started>>

ReceiveLate ==
  /\ started /\ late # NoNumber /\ Arrives(late, TRUE)
  /\ late' = NoNumber /\ quiet' = 0
  /\ UNCHANGED <<sender, faults, lent, started>>

\* The sender sends another format.
Change(format) ==
  /\ started /\ format # sender.format /\ Fault
  /\ sender' = [format |-> format, n |-> 0]
  /\ late' = IF late.format = format THEN NoNumber ELSE late
  /\ UNCHANGED <<rx, free, room, mem, queue, lent, started>>

(* The program. *)

\* A stream is found where it is.
Start(seqNum) ==
  /\ ~started /\ started' = TRUE
  /\ sender' = seqNum /\ late' = NoNumber /\ quiet' = 0
  /\ Becomes([Cleared(Fifo) EXCEPT !.rx = NewRx])
  /\ UNCHANGED <<faults, lent>>

Stop ==
  /\ started /\ started' = FALSE
  /\ Becomes(ForgetStreamAndFrame(Fifo))
  /\ sender' = [format |-> 1, n |-> 0] /\ late' = NoNumber /\ quiet' = 0
  /\ UNCHANGED <<lent, faults>>

Clear ==
  /\ ~started /\ queue # <<>> /\ Becomes(Cleared(Fifo))
  /\ UNCHANGED <<sender, late, faults, lent, started, quiet>>

Read ==
  /\ queue # <<>> /\ Cardinality(lent) < Lent
  /\ queue' = Tail(queue) /\ lent' = lent \cup {Head(queue)}
  /\ mem' = [mem EXCEPT ![Head(queue)] = Nothing]
  /\ UNCHANGED <<sender, late, faults, rx, free, room, started, quiet>>

ReturnToMemPool(frame) ==
  /\ Becomes(Return(Fifo, frame)) /\ lent' = lent \ {frame}
  /\ UNCHANGED <<sender, late, faults, started, quiet>>

Next ==
  \/ Receive \/ ReceiveWithoutMemory \/ ReceiveTwice \/ ReceiveLate
  \/ Lose \/ Spoil \/ HoldBack \/ (\E i \in DOMAIN Streams : Change(i))
  \/ (\E seqNum \in Numbers : Start(seqNum)) \/ Stop \/ Clear
  \/ Read \/ (\E f \in lent : ReturnToMemPool(f))

Spec == Init /\ [][Next]_vars

-------------------------------------------------------------------------------
(* Properties.                                                             *)

BytesOf(seqNums) == SumOf([i \in DOMAIN seqNums |-> PacketSize(Packet(seqNums[i]))])

Received == {queue[i] : i \in DOMAIN queue}
Partial == IF rx.partial = None THEN {} ELSE {rx.partial}

\* The variables have their types, and a frame has room for the data put into it.
TypeOK ==
  /\ sender \in Numbers /\ late \in Numbers \cup {NoNumber} /\ faults \in 0..Faults
  /\ rx.next \in Numbers \cup {NoNumber} /\ rx.partial \in Frames \cup {None}
  /\ Len(queue) <= MaxSize
  /\ \A f \in Frames : BytesOf(mem[f].data) <= room[f]

\* DtAvFramePool: every frame of the pool is free, in the queue, with the program, or being
\* received; none of them twice, and none is lost.
FramesHaveOnePlace ==
  LET freed == {free[i] : i \in DOMAIN free} IN
  /\ freed \cup Received \cup lent \cup Partial = {f \in Frames : room[f] # 0}
  /\ freed \cap (Received \cup lent \cup Partial) = {}
  /\ Received \cap (lent \cup Partial) = {} /\ lent \cap Partial = {}
  /\ \A i, j \in DOMAIN free : free[i] = free[j] => i = j
  /\ \A i, j \in DOMAIN queue : queue[i] = queue[j] => i = j

\* DtSt2110VideoRx_Parse: a frame received is all the packets of one frame sent, each once and
\* in order, whatever the network does with them; and its field is that of the packets.
FramesAreWhole ==
  \A f \in Received : LET data == mem[f].data IN
    /\ data # <<>> /\ StartsFrame(Packet(data[1]))
    /\ \A i \in DOMAIN data : /\ i > 1 => data[i] = Following(data[i - 1])
                              /\ Packet(data[i]).marker <=> i = Len(data)
                              /\ mem[f].field = Packet(data[i]).field

\* A frame is received, or dropped as the queue is full, within so many packets that come as
\* they are sent: what was learned of a disturbed stream is corrected or forgotten.
FramesComeAgain == quiet < Quiet

\* cdtapi_avfifo.h of NumRows: "Lines in the frame".
LinesAreCounted ==
  \A f \in Received :
    mem[f].numRows = LastSegment(Packet(mem[f].data[Len(mem[f].data)])).row + 1
===============================================================================
