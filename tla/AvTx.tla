--------------------------------- MODULE AvTx ---------------------------------
(***************************************************************************)
(* A transmit FIFO: Source/AvFifo/DtAvTxFifo.c with its writer of a pipe   *)
(* (DtAvPipe.c) and the pool and queue of frames (DtAvFrame.c).  The       *)
(* program fills frames of the pool and writes them; a thread packetizes   *)
(* each into a buffer that the card empties.                               *)
(*                                                                         *)
(* Offsets and sizes count data words of the pipe, of which packets are    *)
(* whole numbers.  The calls hold the FIFO's lock, a stop and a detach     *)
(* while they join the thread too; the thread never takes it.  The waits   *)
(* of the thread have time-outs, so the event that cuts them short is left *)
(* out.                                                                    *)
(***************************************************************************)
EXTENDS Integers, Sequences, FiniteSets

CONSTANTS
  Frames,        \* bound: the frames there is memory for
  None,          \* no frame
  MaxSize,       \* frames in the queue at most
  Size,          \* BufferSize
  MaxPacket,     \* data words of a packet at most
  FlushEvery,    \* DT_AV_WRITER_FLUSH_EVERY_PACKETS
  Shape,         \* of every frame, its words and the words it may need; bound: always the same
  FlushFailures  \* bound: write offsets the driver refuses in a row

ASSUME AvTxAssumption ==
  /\ None \notin Frames
  /\ {MaxSize, Size, MaxPacket, FlushEvery} \subseteq Nat \ {0}
  /\ FlushFailures \in Nat
  /\ Shape \in [Frames -> [words : Nat \ {0}, need : Nat]]
  /\ \A frame \in Frames : Shape[frame].words <= Shape[frame].need

VARIABLES
  attached,
  started,
  stopRequested,
  call,       \* "stop" or "detach" while one joins the thread, with the lock
  thread,     \* where AvTxThread is
  hand,       \* the frame the thread has taken
  left,       \* words of it that are not in the buffer
  free,       \* the pool's free frames
  all,        \* the pool's frames
  lent,       \* the frames the program has to fill
  queue,      \* the frames written and not taken
  ring,       \* the buffer
  offset,     \* Pipe->Offset, where the next packet goes
  known,      \* the write offset the driver was given last
  read,       \* the read offset of the card
  unflushed,  \* UnflushedPackets
  failures,   \* write offsets refused in a row
  way         \* history: the words written and not taken by the card

poolVars == <<free, all, lent, queue>>
pipeVars == <<ring, offset, known, read, unflushed, failures, way>>
callVars == <<attached, started, stopRequested, call>>
threadVars == <<thread, hand, left>>
vars == <<callVars, threadVars, poolVars, pipeVars>>

Queued == {queue[i] : i \in DOMAIN queue}
Held == {hand} \ {None}

\* DtAvFramePool_Return: a frame that is not of the pool, or is free, is refused.
Return(frame) == free' = IF frame \in all \ free THEN free \union {frame} ELSE free

-------------------------------------------------------------------------------
(* The writer.                                                             *)

UsableBytes == Size - 1

\* Mutant of FreeBytes: no word before the read offset stays free.
FreeBytesAll == IF read = offset THEN Size ELSE (read + Size - offset) % Size
FreeBytes == (read + Size - 1 - offset) % Size

\* The i-th of the next words of the frame.
Word(i) ==
  [frame |-> hand, n |-> Shape[hand].words - left + i]

\* Mutant of Written: a packet of which the end was reached is not continued at the start.
WrittenToEnd(size) ==
  [j \in 0..Size - 1 |->
     IF j \in offset..offset + size - 1 THEN Word(j - offset + 1) ELSE ring[j]]

\* The buffer with a packet of size words, written in place, or copied from WrapPacket in
\* two pieces when the largest packet would not fit before the end.
Written(size) ==
  LET isInWrapPacket == Size - offset < MaxPacket
      toEnd == IF isInWrapPacket /\ Size - offset < size THEN Size - offset ELSE size
  IN [j \in 0..Size - 1 |->
        CASE j \in offset..offset + toEnd - 1 -> Word(j - offset + 1)
          [] j \in 0..size - toEnd - 1 -> Word(j + toEnd + 1)
          [] OTHER -> ring[j]]

\* Mutant of NextOffset: it does not start again at the end of the buffer.
NextOffsetOn(size) == offset + size
NextOffset(size) == (offset + size) % Size

\* The driver is given the offset to, or refuses it.
SetTxWriteOffset(to) ==
  \/ known' = to /\ failures' = 0
  \/ failures < FlushFailures /\ failures' = failures + 1 /\ UNCHANGED known

\* Mutant of Flush: a packet by itself is left for the next flush.
FlushSeveral(packets, to) ==
  IF packets <= 1 THEN UNCHANGED <<known, failures>> ELSE SetTxWriteOffset(to)

\* DtAvWriter_Flush, with to the offset of the writer.
Flush(packets, to) ==
  IF packets = 0 THEN UNCHANGED <<known, failures>> ELSE SetTxWriteOffset(to)

-------------------------------------------------------------------------------
(* The thread.                                                             *)

Pop ==
  /\ thread = "ready" /\ ~stopRequested /\ queue # <<>>
  /\ thread' = "waiting" /\ hand' = Head(queue) /\ queue' = Tail(queue)
  /\ UNCHANGED <<left, free, all, lent, pipeVars, callVars>>

FitsInBuffer == Shape[hand].need <= UsableBytes

\* Mutant of MayGiveUp: a stop does not end the wait for room.
MayGiveUpNever == ~FitsInBuffer
MayGiveUp == ~FitsInBuffer \/ stopRequested

\* There is room, as a read of the read offset shows that did not fail.
FindRoom ==
  /\ thread = "waiting" /\ ~MayGiveUp
  /\ FreeBytes >= Shape[hand].need
  /\ thread' = "sending" /\ left' = Shape[hand].words
  /\ UNCHANGED <<hand, poolVars, pipeVars, callVars>>

\* It sees no room, or the read of the offset fails: it sleeps and looks again.
Poll == thread = "waiting" /\ ~MayGiveUp /\ UNCHANGED vars

\* The frame goes back unsent.
GiveUp ==
  /\ thread = "waiting" /\ MayGiveUp
  /\ thread' = "ready" /\ hand' = None /\ Return(hand)
  /\ UNCHANGED <<left, all, lent, queue, pipeVars, callVars>>

\* A packet of the frame: WriterBegin and WriterCommit.
SendPacket ==
  /\ thread = "sending" /\ left > 0
  /\ \E size \in 1..MaxPacket :
       /\ size <= left
       /\ left' = left - size
       /\ ring' = Written(size)
       /\ way' = way \o [i \in 1..size |-> Word(i)]
       /\ offset' = NextOffset(size)
       /\ IF unflushed + 1 >= FlushEvery
          THEN unflushed' = 0 /\ Flush(unflushed + 1, offset')
          ELSE unflushed' = unflushed + 1 /\ UNCHANGED <<known, failures>>
  /\ UNCHANGED <<thread, hand, read, poolVars, callVars>>

EndFrame ==
  /\ thread = "sending" /\ left = 0
  /\ unflushed' = 0 /\ Flush(unflushed, offset)
  /\ thread' = "ready" /\ hand' = None /\ Return(hand)
  /\ UNCHANGED <<left, all, lent, queue, ring, offset, read, way, callVars>>

Exit ==
  /\ thread = "ready" /\ stopRequested /\ thread' = "done"
  /\ UNCHANGED <<hand, left, poolVars, pipeVars, callVars>>

AvTxThread == Pop \/ FindRoom \/ Poll \/ GiveUp \/ SendPacket \/ EndFrame \/ Exit

-------------------------------------------------------------------------------
(* The program's calls.                                                    *)

Attach ==
  /\ call = "none" /\ ~attached /\ attached' = TRUE
  /\ UNCHANGED <<started, stopRequested, call, threadVars, poolVars, pipeVars>>

\* DtAvFrameFifo_Clear.
ClearQueue == queue' = <<>> /\ free' = free \union Queued

Clear ==
  /\ call = "none" /\ ~started /\ ClearQueue
  /\ UNCHANGED <<all, lent, threadVars, pipeVars, callVars>>

\* StartTransmitting: the FIFO empty, the pipe flushed, and the thread.
Start ==
  /\ call = "none" /\ attached /\ ~started /\ ClearQueue
  /\ started' = TRUE /\ stopRequested' = FALSE /\ thread' = "ready"
  /\ UNCHANGED <<attached, call, hand, left, all, lent, pipeVars>>

\* A start that fails once the FIFO is empty; StopTransmitting finds no thread to join.
StartFails ==
  /\ call = "none" /\ attached /\ ~started /\ ClearQueue /\ stopRequested' = TRUE
  /\ UNCHANGED <<attached, started, call, threadVars, all, lent, pipeVars>>

\* Stop, and Detach: StopTransmitting up to the join.
Stop(which) ==
  /\ call = "none" /\ attached /\ (which = "detach" \/ started)
  /\ call' = which /\ stopRequested' = TRUE
  /\ UNCHANGED <<attached, started, threadVars, poolVars, pipeVars>>

\* Mutant of Joined: the thread is not waited for.
JoinedAtOnce == TRUE
Joined == thread \in {"none", "done"}

\* OsThread_Join has returned: the pipe is closed, and a detach empties the queue.
JoinEnds ==
  /\ call # "none" /\ Joined
  /\ thread' = "none" /\ hand' = None /\ left' = 0
  /\ started' = FALSE /\ call' = "none" /\ attached' = (attached /\ call # "detach")
  /\ IF call = "detach" THEN ClearQueue ELSE UNCHANGED <<queue, free>>
  /\ ring' = [j \in 0..Size - 1 |-> None] /\ way' = <<>>
  /\ offset' = 0 /\ known' = 0 /\ read' = 0 /\ unflushed' = 0 /\ failures' = 0
  /\ UNCHANGED <<stopRequested, all, lent>>

\* A free frame, or a new one while there is memory.
GetFromMemPool ==
  /\ call = "none"
  /\ \E frame \in IF free # {} THEN free ELSE Frames \ all :
       /\ free' = free \ {frame} /\ all' = all \union {frame} /\ lent' = lent \union {frame}
  /\ UNCHANGED <<queue, threadVars, pipeVars, callVars>>

\* Mutant of Full: a frame for which there is no room goes back to the pool.
FullReturns(frame) == Return(frame) /\ UNCHANGED <<lent, queue>>
\* A frame the queue has no room for stays the program's.
Full(frame) == UNCHANGED <<free, lent, queue>>

Write ==
  /\ call = "none" /\ started
  /\ \E frame \in lent :
       IF Len(queue) < MaxSize
       THEN queue' = Append(queue, frame) /\ lent' = lent \ {frame} /\ UNCHANGED free
       ELSE Full(frame)
  /\ UNCHANGED <<all, threadVars, pipeVars, callVars>>

-------------------------------------------------------------------------------
(* The card takes the next word, up to the write offset it was given.  What *)
(* it took matters no more.                                                *)

CardTakes ==
  /\ started /\ read # known
  /\ read' = (read + 1) % Size /\ way' = Tail(way) /\ ring' = [ring EXCEPT ![read] = None]
  /\ UNCHANGED <<offset, known, unflushed, failures, threadVars, poolVars, callVars>>

-------------------------------------------------------------------------------
Init ==
  /\ attached = FALSE /\ started = FALSE /\ stopRequested = FALSE /\ call = "none"
  /\ thread = "none" /\ hand = None /\ left = 0
  /\ free = {} /\ all = {} /\ lent = {} /\ queue = <<>>
  /\ ring = [j \in 0..Size - 1 |-> None] /\ way = <<>>
  /\ offset = 0 /\ known = 0 /\ read = 0 /\ unflushed = 0 /\ failures = 0

Next ==
  \/ AvTxThread \/ CardTakes
  \/ Attach \/ Clear \/ Start \/ StartFails \/ JoinEnds \/ GetFromMemPool \/ Write
  \/ \E which \in {"stop", "detach"} : Stop(which)

\* The thread's waits end by themselves, and so does a join once the thread has returned.
Fairness == WF_vars(AvTxThread) /\ WF_vars(JoinEnds)

Spec == Init /\ [][Next]_vars /\ Fairness

-------------------------------------------------------------------------------
(* Properties.                                                             *)

CallTypes ==
  /\ attached \in BOOLEAN /\ started \in BOOLEAN /\ stopRequested \in BOOLEAN
  /\ call \in {"none", "stop", "detach"}
ThreadTypes ==
  /\ thread \in {"none", "ready", "waiting", "sending", "done"}
  /\ hand \in Frames \union {None} /\ left \in Nat
PoolTypes ==
  /\ free \subseteq Frames /\ all \subseteq Frames /\ lent \subseteq Frames
  /\ queue \in Seq(Frames) /\ Len(queue) <= MaxSize
PipeTypes ==
  /\ offset \in 0..Size - 1 /\ known \in 0..Size - 1 /\ read \in 0..Size - 1
  /\ unflushed \in 0..FlushEvery - 1 /\ failures \in 0..FlushFailures
TypeOK == CallTypes /\ ThreadTypes /\ PoolTypes /\ PipeTypes

\* Every frame of the pool is free, with the program, in the queue or with the thread, and
\* in one of them only: whatever a stop, a detach, a full queue or a frame that does not
\* fit come between, no frame is lost, sent twice, or given out while it is being sent.
FramesHaveOnePlace ==
  /\ all = free \union lent \union Queued \union Held
  /\ free \intersect (lent \union Queued \union Held) = {}
  /\ lent \intersect (Queued \union Held) = {}
  /\ Queued \intersect Held = {}
  /\ \A i, j \in DOMAIN queue : queue[i] = queue[j] => i = j

\* The words the thread wrote lie in the buffer until the card has taken them, in order,
\* from the read offset to the offset of the writer, round the end of the buffer too:
\* neither the wrap of a packet, a full buffer nor a write offset the driver refused
\* makes one overwrite another.
WordsAreKept ==
  /\ Len(way) = (offset + Size - read) % Size
  /\ \A i \in DOMAIN way : ring[(read + i - 1) % Size] = way[i]

\* A stop and a detach return, whatever the thread waits for, and whether or not the card
\* takes anything.
StopsReturn == call # "none" ~> call = "none"

\* The driver refused the last offset it was to be told, and the card has taken the words it knows
\* of: the thread waits for the room of the others, which nothing tells the driver before the next
\* packet (DtAvPipe.c:199).
Stranded ==
  /\ thread = "waiting" /\ ~MayGiveUp /\ FreeBytes < Shape[hand].need
  /\ read = known /\ known # offset /\ failures > 0

\* "Once the frame is sent, or cannot be, it goes back to the pool": while the card keeps
\* taking words and the FIFO is not stopped, every frame written leaves it, unless the words of
\* a refused offset take the room of one that comes after them.
FramesGoBack ==
  WF_vars(CardTakes) =>
    \A frame \in Frames :
      (started /\ frame \in Queued \union Held)
      ~> (~started \/ frame \in free \union lent \/ Stranded)

\* The same without the exception. It does not hold with Size = 6.
FramesAlwaysGoBack ==
  WF_vars(CardTakes) =>
    \A frame \in Frames :
      (started /\ frame \in Queued \union Held) ~> (~started \/ frame \in free \union lent)
===============================================================================
