-------------------------------- MODULE AsiTx --------------------------------
(***************************************************************************)
(* Source/Channel/DtAsiTx.c: the ASI side of an output channel, with the   *)
(* write and the calls that use it, its converter thread, and the card.    *)
(*                                                                         *)
(* A section under the channel's lock is one step; the lock is free while  *)
(* a write waits for room, a stop joins the thread, and a detach pauses or *)
(* waits until all is sent.  The program's bytes are numbered; byte b is   *)
(* the first of a packet, and so a sync byte, when b is a multiple of      *)
(* Packet.  The encoder is AsiEnc's in a mode whose packets go out as they *)
(* are: what it keeps between calls, and the K28 before a packet, without  *)
(* those the rate needs.                                                   *)
(***************************************************************************)
EXTENDS Integers, Sequences

CONSTANTS
  Size,        \* symbols in the DMA buffer
  Word,        \* symbols of the data word the card reads, PcieDataWidthInBytes / 2
  WordBytes,   \* so many bytes of the stream, PcieDataWidthInBytes: less than a packet
  BurstSize,   \* symbols of the burst FIFO
  FifoSize,    \* bytes of the FIFO, DT_ASITX_FIFO_SIZE
  Block,       \* DT_ASITX_WRITE_BLOCK, bytes
  MinFree,     \* DT_ASITX_MIN_OUTPUT_FREE, symbols
  Target,      \* DT_ASITX_STUFF_TARGET_BYTES, symbols
  Packet,      \* bound: bytes of a packet
  Lead,        \* bound: K28 before a packet
  Numbers,     \* bound: numbers of bytes, after which they start again
  Writes,      \* bound: the bytes of a write
  Liberties    \* what the program and the card may do besides, see below

\* "parts": a write need not end at the end of a packet
\* "stale": the card reports a read offset of an earlier run after bytes were committed
\* "late":  the card and the converter go on while a write that waits has room
AllLiberties == {"parts", "stale", "late"}

\* Mutant of MaxLoad: no word is kept free.
MaxLoadAll == Size

MaxLoad == Size - Word

\* What a FIFO that refuses a block holds, with the buffer, is the target or more; and the
\* nulls that fill a gap have room.
ASSUME AsiTxAssumption ==
  /\ {Word, BurstSize, Block, MinFree, Packet, Target, Numbers} \subseteq Nat \ {0} /\ Lead \in Nat
  /\ Size \in Nat /\ Size % Word = 0 /\ BurstSize % Word = 0
  /\ WordBytes \in 1..Packet - 1 /\ BurstSize >= Packet + Lead
  /\ Size - Word >= MinFree + Target /\ Size - Word >= Target + Packet + Lead
  /\ FifoSize \in Nat /\ FifoSize - Block >= Size - Word /\ FifoSize - Block >= Target + BurstSize
  /\ Numbers % Packet = 0 /\ Size % Numbers # 0 /\ FifoSize % Numbers # 0
  /\ Writes \subseteq Nat \ {0} /\ Liberties \subseteq AllLiberties
  /\ "parts" \notin Liberties => \A n \in Writes : n % Packet = 0

VARIABLES
  tx,         \* the side, see NewTx
  ring,       \* the symbols of the DMA buffer
  card,       \* the card, see Stopped
  converter,  \* the thread: "none", "runs", or "stopping", from StopRequested to its end
  write,      \* the bytes the write in progress has left; 0 when there is none
  call,       \* where the control call or detach is, see NoCall
  next,       \* the number of the byte the program writes next
  gone,       \* history: the number of the byte the card takes next
  cut         \* history: a write was cut off in this run

vars == <<tx, ring, card, converter, write, call, next, gone, cut>>

Slots == 0..Size - 1
K28 == -1
Null(i) == -2 - i   \* byte i of a null packet
Least(a, b) == IF a < b THEN a ELSE b
First(s, n) == SubSeq(s, 1, Least(n, Len(s)))
Without(s, n) == SubSeq(s, n + 1, Len(s))

\* fifo: the bytes in the FIFO; held: LoadWhileHolding; at: WriteOffset; committed:
\* CommittedBytes, in symbols, up to Size; index, lead: the encoder's ByteIndex and NumK28Sent.
NewTx ==
  [control |-> "idle", fifo |-> <<>>, held |-> 0, at |-> 0, committed |-> 0, stuff |-> FALSE,
   index |-> 0, lead |-> 0]

\* r: the read offset; stale: it is reported as an earlier one, or -1; burst: the burst FIFO's load.
Stopped == [r |-> 0, stale |-> -1, burst |-> 0]

\* then: the state wanted once the thread is joined; wait: DTAPI_WAIT_UNTIL_SENT; burst: WaitUntilSent
\* looks at the burst FIFO.
NoCall == [at |-> "none"]
Joining(then) == [at |-> "join", then |-> then]
Detaching(wait) == [at |-> "detach", wait |-> wait]
Draining(burst) == [at |-> "drain", burst |-> burst]
Drained == [at |-> "drained"]      \* WaitUntilSent ended by itself
Releasing == [at |-> "release"]

Init ==
  /\ tx = NewTx /\ ring = [s \in Slots |-> K28] /\ card = Stopped
  /\ converter = "none" /\ write = 0 /\ call = NoCall
  /\ next = 0 /\ gone = 0 /\ cut = FALSE

-------------------------------------------------------------------------------
(* The card takes data words into its burst FIFO as soon as it can.         *)

RealLoad(x, c) == (x.at + Size - c.r) % Size
InBuffer(x, c, rg) == [i \in 1..RealLoad(x, c) |-> rg[(c.r + i - 1) % Size]]

\* Those of symbols that are in S.
Only(symbols, S) ==
  LET upTo[n \in 0..Len(symbols)] ==
        IF n = 0 THEN <<>>
        ELSE IF symbols[n] \in S THEN Append(upTo[n - 1], symbols[n]) ELSE upTo[n - 1]
  IN upTo[Len(symbols)]
Data(symbols) == Only(symbols, Nat)

Words(x, c) == Least(RealLoad(x, c) \div Word, (BurstSize - c.burst) \div Word)
Refill(x, c, rg) ==
  \E n \in {Words(x, c) * Word} : \E symbols \in {First(InBuffer(x, c, rg), n)} :
  /\ card' = [c EXCEPT !.r = (@ + n) % Size, !.burst = @ + n,
                       !.stale = IF x.committed > 0 /\ "stale" \notin Liberties THEN -1 ELSE @]
  /\ gone' = (gone + Len(Data(symbols))) % Numbers
  /\ ring' = [s \in Slots |-> IF (s + Size - card'.r) % Size < RealLoad(x, card')
                              THEN rg[s] ELSE K28]

-------------------------------------------------------------------------------
(* What the side knows of the buffer.                                      *)

\* DtPcieCmd_CdmacGetTxReadOffset.
ReadOffset(x, c) ==
  IF c.stale # -1 /\ (x.committed = 0 \/ "stale" \in Liberties) THEN c.stale ELSE c.r

\* Mutant of DmaBufferLoad: the load is not held against what was committed.
DmaBufferLoadAsReported(x, c) ==
  LET free == (ReadOffset(x, c) + MaxLoad + Size - x.at) % Size IN
  IF x.control = "idle" \/ free > MaxLoad THEN 0 ELSE MaxLoad - free

DmaBufferLoad(x, c) ==
  LET free == (ReadOffset(x, c) + MaxLoad + Size - x.at) % Size IN
  IF x.control = "idle" \/ free > MaxLoad THEN 0 ELSE Least(MaxLoad - free, x.committed)

BytesInSymbols(n) == (n * Packet) \div (Packet + Lead)

ReportedFifoLoad(x, c) ==
  LET dma == DmaBufferLoad(x, c)
      bytes == Len(x.fifo) + (IF dma >= Word THEN BytesInSymbols(dma + BurstSize) ELSE 0)
  IN CASE x.control = "idle" -> 0
       [] x.control = "hold" -> x.held
       [] OTHER -> Least(bytes, FifoSize)

HasRoom(x, n) == n <= FifoSize - Len(x.fifo) /\ n <= FifoSize - ReportedFifoLoad(x, card)

\* A write that waits looks again when there is room, before the card and the converter go on.
InTime == "late" \in Liberties \/ write = 0 \/ ~HasRoom(tx, Least(write, Block))

-------------------------------------------------------------------------------
(* Encoding.                                                               *)

\* The side with its buffer, while it encodes.
Codes == Null(Packet - 1)..Numbers - 1
TxSides ==
  [control : {"idle", "hold", "send"}, fifo : Seq(Codes), held : Nat, at : Slots,
   committed : 0..Size, stuff : BOOLEAN, index : 0..Packet - 1, lead : 0..Lead]
Sides == [tx : TxSides, ring : [Slots -> Codes]]
Side(x, rg) == [tx |-> x, ring |-> rg]

Commit(s, symbols) ==
  [tx |-> [s.tx EXCEPT !.at = (@ + Len(symbols)) % Size,
                       !.committed = Least(@ + Len(symbols), Size)],
   ring |-> [k \in Slots |-> LET i == ((k + Size - s.tx.at) % Size) + 1 IN
                             IF i <= Len(symbols) THEN symbols[i] ELSE s.ring[k]]]

IsSync(byte) == byte = Null(0) \/ (byte >= 0 /\ byte % Packet = 0)

\* DtAsiEnc_Encode at work: the input left over, the symbols, the room left, and its index and
\* the K28 it has sent.  A function's argument is worked out once; TLC stops at one of no such type.
Encodings ==
  [in : Seq(Codes), out : Seq(Codes), room : Nat, index : 0..Packet - 1, lead : 0..Lead]

\* A step: before a packet, bytes up to a sync byte are dropped and K28 sent.
EncodeOn[e \in Encodings] ==
  IF e.in = <<>> \/ e.room = 0 THEN e
  ELSE IF e.index = 0 /\ ~IsSync(Head(e.in)) THEN [e EXCEPT !.in = Tail(@)]
  ELSE IF e.index = 0 /\ e.lead < Lead
  THEN [e EXCEPT !.out = Append(@, K28), !.room = @ - 1, !.lead = @ + 1]
  ELSE [in |-> Tail(e.in), out |-> Append(e.out, Head(e.in)), room |-> e.room - 1,
        index |-> (e.index + 1) % Packet, lead |-> 0]

\* As many steps as there may be: each takes a byte or room.
Encode(in, room, index, lead) ==
  LET after[n \in 0..Len(in) + room] ==
        IF n = 0 THEN [in |-> in, out |-> <<>>, room |-> room, index |-> index, lead |-> lead]
        ELSE EncodeOn[after[n - 1]]
  IN after[Len(in) + room]

EncodeInto(s, in, free) ==
  LET committed[e \in Encodings] ==
        [side |-> [Commit(s, e.out) EXCEPT !.tx.index = e.index, !.tx.lead = e.lead], in |-> e.in]
  IN committed[Encode(in, free, s.tx.index, s.tx.lead)]

\* EncodeFifo, and the K28 that fill the last data word once the FIFO is empty.
EncodeFifo(s) ==
  LET load == DmaBufferLoad(s.tx, card)
      taken[e \in [side : Sides, in : Seq(Codes)]] == [e.side EXCEPT !.tx.fifo = e.in]
  IN IF load > 0 /\ load < Word /\ s.tx.fifo = <<>>
     THEN Commit(s, [i \in 1..Word - load |-> K28])
     ELSE IF MaxLoad - load < MinFree THEN s
     ELSE taken[EncodeInto(s, s.tx.fifo, MaxLoad - load)]

CeilDiv(a, b) == (a + b - 1) \div b
NullBytes(n) == [i \in 1..n * Packet |-> Null((i - 1) % Packet)]

\* Stuff: null packets as far as there are less than Target symbols.
Stuff(s) ==
  LET load == DmaBufferLoad(s.tx, card)
      n == CeilDiv(BytesInSymbols(Target - load), Packet)
  IN IF load >= Target THEN s ELSE EncodeInto(s, NullBytes(n), MaxLoad - load).side

Stuffs == tx.stuff /\ tx.control = "send"

\* Mutant of Pass: the nulls go before what the FIFO holds.
PassStuffingFirst(s) ==
  LET encoded[e \in Sides] == EncodeFifo(e) IN encoded[IF Stuffs THEN Stuff(s) ELSE s]

\* A round of ConverterThread.
Pass(s) ==
  LET stuffed[e \in Sides] == IF Stuffs THEN Stuff(e) ELSE e IN stuffed[EncodeFifo(s)]

\* A step's new side, and what the card then takes of it.
Becomes(s) == \E v \in {s} : tx' = v.tx /\ Refill(v.tx, card, v.ring)

Convert ==
  /\ converter = "runs" /\ InTime
  /\ UNCHANGED <<converter, write, call, next, cut>>
  /\ \E s \in {Side(tx, ring)} : Becomes(Pass(s))

Exit ==
  /\ converter = "stopping"
  /\ converter' = "none"
  /\ UNCHANGED <<tx, ring, card, write, call, next, gone, cut>>

-------------------------------------------------------------------------------
(* Writing.                                                                *)

\* The n bytes from number from on.
AppendToFifo(x, n, from) ==
  [x EXCEPT !.fifo = @ \o [i \in 1..n |-> (from + i - 1) % Numbers],
            !.held = IF x.control = "hold" THEN @ + n ELSE @]

\* Mutant of WriteBlocks: there must be room for all that is left.
WriteBlocksAtOnce(x, left, from) ==
  IF left = 0 \/ ~HasRoom(x, left) THEN [tx |-> x, left |-> left]
  ELSE [tx |-> AppendToFifo(x, left, from), left |-> 0]

\* A write of left bytes that ends before number to, a block at a time while there is room: the
\* side and the bytes there was no room for.
Writings == [tx : TxSides, left : Nat, to : Nat]
WriteBlock[w \in Writings] ==
  LET n == Least(w.left, Block) IN
  IF w.left = 0 \/ ~HasRoom(w.tx, n) THEN w
  ELSE [w EXCEPT !.tx = AppendToFifo(@, n, w.to - w.left), !.left = @ - n]

WriteBlocks(x, left, from) ==
  LET after[n \in 0..CeilDiv(left, Block)] ==
        IF n = 0 THEN [tx |-> x, left |-> left, to |-> from + left] ELSE WriteBlock[after[n - 1]]
  IN after[CeilDiv(left, Block)]

\* A write that has appended what it could, from n bytes; a hold has it encoded when it ends.
Appended(blocks, rg, n) == \E w \in {blocks} :
  /\ write' = w.left /\ next' = (next + n - w.left) % Numbers
  /\ Becomes(IF w.left = 0 /\ w.tx.control = "hold" THEN EncodeFifo(Side(w.tx, rg))
             ELSE Side(w.tx, rg))

Detaches == call.at \in {"detach", "drain", "drained", "release"}
              \/ (call.at = "join" /\ call.then = "release")

\* DtOutpChannel_Write: what fits goes at once, otherwise blocks do.
Write(n) ==
  /\ write = 0 /\ tx.control # "idle" /\ ~Detaches
  /\ Appended(IF HasRoom(tx, n) THEN [tx |-> AppendToFifo(tx, n, next), left |-> 0]
              ELSE WriteBlocks(tx, n, next), ring, n)
  /\ UNCHANGED <<converter, call, cut>>

\* A write that waited for room looks again.
WriteEnds ==
  /\ write > 0 /\ (Detaches \/ tx.control = "idle")
  /\ write' = 0 /\ cut' = (tx.control # "idle")
  /\ UNCHANGED <<tx, ring, card, converter, call, next, gone>>

WriteLooks ==
  /\ write > 0 /\ ~Detaches /\ tx.control # "idle"
  /\ UNCHANGED <<converter, call, cut>>
  /\ \E s \in {IF tx.control = "hold" THEN EncodeFifo(Side(tx, ring)) ELSE Side(tx, ring)} :
       Appended(WriteBlocks(s.tx, write, next), s.ring, write)

-------------------------------------------------------------------------------
(* Control.                                                                *)

\* The program starts anew once its write has returned, at the start of a packet.
IdleToHold ==
  /\ call = NoCall /\ tx.control = "idle" /\ write = 0
  /\ tx' = [tx EXCEPT !.control = "hold"]
  /\ \E s \in Slots \cup {-1} : s % Word \in {0, Word - 1} /\ card' = [card EXCEPT !.stale = s]
  /\ UNCHANGED <<ring, converter, write, call, next, gone, cut>>

\* A driver that fails has the thread stopped again.
HoldToSend ==
  /\ call = NoCall /\ tx.control = "hold"
  /\ \/ converter' = "runs" /\ call' = NoCall /\ tx' = [tx EXCEPT !.control = "send", !.held = 0]
     \/ converter' = "stopping" /\ call' = Joining("hold") /\ UNCHANGED tx
  /\ UNCHANGED <<ring, card, write, next, gone, cut>>

SendToHold(then) ==
  /\ tx' = [tx EXCEPT !.held = ReportedFifoLoad(tx, card), !.control = "hold"]
  /\ converter' = "stopping" /\ call' = Joining(then)
  /\ UNCHANGED <<ring, card, write, next, gone, cut>>

\* The offsets, the encoder and the card are as IdleToHold sets them; the program's stream
\* is over.
HoldToIdle ==
  /\ tx' = [NewTx EXCEPT !.stuff = tx.stuff] /\ ring' = [s \in Slots |-> K28] /\ card' = Stopped
  /\ next' = 0 /\ gone' = 0 /\ cut' = FALSE

SetTxControl(to) ==
  /\ call = NoCall
  /\ \/ to \in {"hold", "idle"} /\ tx.control = "send" /\ SendToHold(to)
     \/ to = "idle" /\ tx.control = "hold" /\ HoldToIdle /\ UNCHANGED <<converter, write, call>>

SetTxMode ==
  /\ tx' = [tx EXCEPT !.stuff = ~@]
  /\ UNCHANGED <<ring, card, converter, write, call, next, gone, cut>>

\* The side let go of, and the channel attached anew.
Release ==
  /\ tx' = NewTx /\ ring' = [s \in Slots |-> K28] /\ card' = Stopped
  /\ next' = 0 /\ gone' = 0 /\ cut' = FALSE /\ call' = NoCall
  /\ UNCHANGED <<converter, write>>

Stop == IF tx.control = "send" THEN SendToHold("release") ELSE Release

JoinEnds ==
  /\ call.at = "join" /\ converter = "none"
  /\ CASE call.then = "hold" -> call' = NoCall /\ UNCHANGED <<tx, ring, card, converter, write, next, gone, cut>>
       [] call.then = "idle" -> call' = NoCall /\ HoldToIdle /\ UNCHANGED <<converter, write>>
       [] OTHER -> Release

-------------------------------------------------------------------------------
(* Detaching.                                                              *)

Then(at) == call' = at /\ UNCHANGED <<tx, ring, card, converter, write, next, gone, cut>>

\* With no write in progress: wait until all is sent, or stop.
GoOn(wait) == IF wait /\ tx.control = "send" THEN Then(Draining(FALSE)) ELSE Stop

Detach(wait) == call = NoCall /\ IF write > 0 THEN Then(Detaching(wait)) ELSE GoOn(wait)
DetachGoesOn == call.at = "detach" /\ write = 0 /\ GoOn(call.wait)
DetachGivesUp == call.at = "detach" /\ write > 0 /\ Then(NoCall)

\* Mutant of Drain: the load is not looked at.
DrainBurstOnly ==
  call.at = "drain" /\ Then(IF card.burst <= Word THEN Drained ELSE Draining(TRUE))

\* WaitUntilSent looks: at the load, and once it is a data word or less at the burst FIFO.
Drain ==
  /\ call.at = "drain"
  /\ LET burst == call.burst \/ ReportedFifoLoad(tx, card) <= WordBytes
     IN Then(IF burst /\ card.burst <= Word THEN Drained ELSE Draining(burst))

\* The load has not gone down for DT_ASITX_SENT_STALL_MS.
DrainGivesUp == call.at = "drain" /\ Then(Releasing)

DetachStops == call.at \in {"drained", "release"} /\ Stop

-------------------------------------------------------------------------------
(* The card.                                                               *)

\* The card sends a word.
CardSends ==
  /\ tx.control = "send" /\ card.burst > 0
  /\ InTime
  /\ Refill(tx, [card EXCEPT !.burst = @ - Word], ring)
  /\ UNCHANGED <<tx, converter, write, call, next, cut>>

\* The card reports where it is.
CardSettles ==
  /\ card.stale # -1
  /\ card' = [card EXCEPT !.stale = -1]
  /\ UNCHANGED <<tx, ring, converter, write, call, next, gone, cut>>

-------------------------------------------------------------------------------
Next ==
  \/ CardSends \/ CardSettles \/ Convert \/ Exit
  \/ (\E n \in Writes : Write(n)) \/ WriteEnds \/ WriteLooks
  \/ IdleToHold \/ HoldToSend \/ (\E to \in {"hold", "idle"} : SetTxControl(to)) \/ SetTxMode
  \/ JoinEnds
  \/ (\E wait \in BOOLEAN : Detach(wait)) \/ DetachGoesOn \/ DetachGivesUp
  \/ Drain \/ DrainGivesUp \/ DetachStops

Spec == Init /\ [][Next]_vars

\* The threads and the card go on, the converter's at least every DT_ASITX_CONVERT_PERIOD_MS, a
\* waiting write's every DT_ASITX_WRITE_POLL_MS; calls that have begun go on.
Fairness ==
  /\ WF_vars(CardSends) /\ WF_vars(CardSettles) /\ WF_vars(Convert) /\ WF_vars(Exit)
  /\ WF_vars(WriteEnds \/ WriteLooks)
  /\ WF_vars(JoinEnds) /\ WF_vars(DetachGoesOn) /\ WF_vars(DetachStops)
  /\ WF_vars(Drain) /\ WF_vars(DrainGivesUp)

FairSpec == Spec /\ Fairness

-------------------------------------------------------------------------------
(* Properties.                                                             *)

Symbols == Only(InBuffer(tx, card, ring), Int \ {K28})
OnTheirWay == Data(Symbols) \o tx.fifo

\* The bytes written reach the card each once and in order: what the buffer and the FIFO hold
\* goes on where the card is and ends where the program is (the write offset, the load told from the
\* card's offset, the encoder that keeps a packet's rest, and a write cut in blocks). Neither the
\* FIFO nor the load it reports exceeds its size, to which holding adds what the buffer has.
BytesOnTheirWay ==
  /\ \A i \in DOMAIN OnTheirWay : OnTheirWay[i] = (gone + i - 1) % Numbers
  /\ (gone + Len(OnTheirWay)) % Numbers = next
  /\ Len(tx.fifo) <= FifoSize /\ tx.held <= FifoSize

\* The null packets that stuffing puts in are whole and lie between packets of the program, though
\* the converter encodes and stuffs while a write waits with a packet half written.
NullsBetweenPackets ==
  \A i \in DOMAIN Symbols : LET before == gone + Len(Data(First(Symbols, i - 1))) IN
    Symbols[i] < 0 => cut \/ (before % Packet = 0
                              /\ (i < Len(Symbols) /\ Symbols[i + 1] >= 0 =>
                                  Symbols[i] = Null(Packet - 1)))

\* A detach whose wait ended by itself leaves of the program's bytes less than two data words in
\* the FIFO and the buffer together, though the load leaves out a word not filled, and counts the
\* burst FIFO for full or not at all.
DrainLeavesAWord == call.at = "drained" => Len(OnTheirWay) < Word + WordBytes

\* cdtapi.h of DTAPI_WAIT_UNTIL_SENT: "Detach then first waits until the card has sent it, and gives
\* up when nothing more goes out for a second."
DrainedIsSent == call.at = "drained" => OnTheirWay = <<>>

\* A write returns unless the program holds the channel, and so does every stop and detach: the
\* converter makes room and ends, and the card sends.
WritesAndStopsReturn ==
  /\ write # 0 ~> (write = 0 \/ tx.control = "hold")
  /\ call # NoCall ~> call = NoCall
===============================================================================
