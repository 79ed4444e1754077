-------------------------------- MODULE AsiRx --------------------------------
(***************************************************************************)
(* Source/Channel/DtAsiRx.c: the ASI side of an input channel, with the    *)
(* decoding of packets (Ts/DtTsTrp.c), the ring (Core/DtRing.c), the read  *)
(* of DtInpChannel.c and the card as the emulator has it (SimAsi.c).       *)
(*                                                                         *)
(* The card writes packets into the ring whenever they come; the calls     *)
(* walk what it wrote and count what a read would get (ScanBuffer), and    *)
(* a read decodes the same packets again (DeliverBytes).  A call is one    *)
(* step, a read one for each block: it waits without the lock.             *)
(*                                                                         *)
(* A packet is Packet units: its payload, and the trailer as the last one. *)
(* Payload is never taken for a trailer.                                   *)
(***************************************************************************)
EXTENDS Integers, Sequences, SequencesExt, FiniteSets, FiniteSetsExt

CONSTANTS
  Size,      \* units of the ring, DT_ASIRX_RING_SIZE
  Packet,    \* units of a packet, DT_TRP_SIZE
  NumSync,   \* packets in a row that make a stream, DT_TRP_NUM_SYNC
  FifoSize,  \* the load, in units of payload, DT_ASIRX_FIFO_SIZE
  Search,    \* units searched at a time, DT_ASIRX_SEARCH_SIZE
  Block,     \* units a read without a time-out takes at a time, DT_READ_BLOCK_BYTES
  Seqs,      \* bound: sequence numbers, after which they start again
  Reads,     \* bound: the units of a read
  Modes,     \* bound: the receive modes
  Faults,    \* bound: the packets that are not good, see Kinds
  MaxFaulty  \* bound: so many of them in the ring, and packets cut for want of room since the start

\* The kinds of packets are SimAsi's faults: no sync nibble, a valid count of a short packet, a
\* sequence number skipped before it, no packet-sync bit.
Kinds == {"good", "nibble", "valid", "sequence", "nosync"}

KeptFree == 1    \* what the card keeps free of the ring

ASSUME AsiRxAssumption ==
  /\ Packet \in Nat /\ Packet > 2 /\ NumSync \in Nat \ {0, 1}
  /\ Size \in Nat /\ Size > NumSync * Packet + KeptFree
  /\ FifoSize \in Nat /\ FifoSize >= Packet /\ Search \in Nat /\ Search >= NumSync * Packet
  /\ Block \in Nat \ {0} /\ Seqs \in Nat /\ Seqs > NumSync
  /\ Reads \subseteq Nat \ {0} /\ Modes \subseteq {"ts", "raw"} /\ Modes # {}
  /\ Faults \subseteq Kinds \ {"good"} /\ MaxFaulty \in Nat

VARIABLES
  asi,     \* the side, see NewAsi
  ring,    \* the units of the ring, Blank where none is to be read
  card,    \* the card, see Stopped
  read,    \* the read in progress, see NoRead
  fifo,    \* history: what reads would get of what was scanned
  taken    \* history: what a read got in the last step

vars == <<asi, ring, card, read, fifo, taken>>

Slots == 0..Size - 1
Least(a, b) == IF a < b THEN a ELSE b

Payload(n, i, of) == [end |-> FALSE, packet |-> n, at |-> i, of |-> of]
\* solid: history, NumSync - 1 good packets come right before it.
Trailer(n, kind, solid) == [end |-> TRUE, packet |-> n, kind |-> kind, solid |-> solid]
Blank == [end |-> FALSE, packet |-> 0, at |-> 0, of |-> 0]
Internal == [end |-> FALSE, packet |-> -1, at |-> 0, of |-> 0]    \* DTAPI_E_INTERNAL

\* r: the read offset, which is also ReadPosition; it tells the places in the ring apart.
\* skips: from NextSkipIndex on, each with the place it begins at and its units; pending: from
\* PendingPos on; missed: history, the search passed over a packet that comes after so many good ones.
NewAsi(mode) ==
  [control |-> "idle", mode |-> mode, oos |-> FALSE, r |-> 0, scanned |-> 0, load |-> 0,
   skips |-> <<>>, pending |-> <<>>, missed |-> FALSE]

\* The types. WalkOn and DeliverOn are functions on them: TLC stops at a side that leaves them.
Skips == [at : Slots, n : Nat]
Units == [end : {FALSE}, packet : -1..Seqs - 1, at : 0..Packet, of : 0..Packet]
Sides ==
  [control : {"idle", "rcv"}, mode : Modes, oos : BOOLEAN, r : Slots, scanned : 0..Size,
   load : 0..FifoSize, skips : Seq(Skips), pending : Seq(Units), missed : BOOLEAN]

\* w: where it writes; run: history, good packets it wrote in a row, up to NumSync - 1; full: packets
\* that found no room.  Which sequence number comes first does not matter.
Stopped == [w |-> 0, seq |-> 0, run |-> 0, full |-> 0]

\* left: BytesLeft; all: it has a time-out other than 0; held: it has taken a block and not waited.
NoRead == [left |-> 0, all |-> FALSE, held |-> FALSE]

Init ==
  /\ \E mode \in Modes : asi = NewAsi(mode)
  /\ ring = [s \in Slots |-> Blank] /\ card = Stopped
  /\ read = NoRead /\ fifo = <<>> /\ taken = <<>>

-------------------------------------------------------------------------------
(* Packets.                                                                *)

RingLoad(a) == (card.w + Size - a.r) % Size
UnitAt(a, offset) == ring[(a.r + offset) % Size]

ValidCountFits(mode, u) == mode = "raw" \/ u.kind # "valid"
HasNibble(u) == u.end /\ u.kind # "nibble"

Refused == -1

\* What a packet with this trailer delivers.
Decode(mode, u) ==
  IF ~HasNibble(u) \/ ~ValidCountFits(mode, u) THEN Refused
  ELSE IF u.kind = "nosync" /\ mode = "ts" THEN 0
  ELSE IF u.kind = "valid" THEN Packet - 2
  ELSE Packet - 1

\* Trailers of NumSync packets in a row from place p on; the first's valid count may be any.
IsSync(a, from, p) ==
  LET trailer(i) == UnitAt(a, from + p + i * Packet) IN
  /\ \A i \in 0..NumSync - 1 : HasNibble(trailer(i))
  /\ \A i \in 1..NumSync - 1 :
       /\ ValidCountFits(a.mode, trailer(i))
       /\ trailer(i).packet = (trailer(0).packet + i) % Seqs

\* DtTsTrp_FindSync: where a whole packet starts, or -1.
FindSync(a, from, size) ==
  LET found == {p \in 0..size - NumSync * Packet : IsSync(a, from, p)}
      p == Min(found)
  IN IF found = {} THEN -1
     ELSE IF p >= Packet - 1 THEN p - (Packet - 1)
     ELSE p + 1

-------------------------------------------------------------------------------
(* The scan.                                                               *)

Available(a) == RingLoad(a) - a.scanned

\* Mutant of SkipBytes: what is passed over later is taken to go on with the last.
SkipBytesAsOne(a, n) ==
  LET last == Len(a.skips) IN
  [a EXCEPT !.scanned = @ + n,
            !.skips = IF last > 0 THEN [@ EXCEPT ![last].n = @ + n]
                      ELSE Append(@, [at |-> (a.r + a.scanned) % Size, n |-> n])]

SkipBytes(a, n) ==
  LET at == (a.r + a.scanned) % Size
      last == Len(a.skips)
      goesOn == last > 0 /\ (a.skips[last].at + a.skips[last].n) % Size = at
      skips == IF goesOn THEN [a.skips EXCEPT ![last].n = @ + n]
               ELSE Append(a.skips, [at |-> at, n |-> n])
  IN [a EXCEPT !.scanned = @ + n, !.skips = skips]

ScanPacket(a) ==
  LET n == Decode(a.mode, UnitAt(a, a.scanned + Packet - 1)) IN
  CASE n = Refused -> SkipBytes([a EXCEPT !.oos = TRUE], 1)
    [] n # Refused /\ a.load + n > FifoSize -> SkipBytes(a, Packet)
    [] OTHER -> [a EXCEPT !.load = @ + n, !.scanned = @ + Packet]

PassOver(a, n) ==
  LET solid(i) == LET u == UnitAt(a, a.scanned + i) IN u.end /\ u.solid IN
  SkipBytes([a EXCEPT !.missed = @ \/ \E i \in 0..n - 1 : solid(i)], n)

\* Mutant of SearchOn: the last places, where a stream could start, are passed over too.
SearchOnOverAll(a) ==
  LET size == Least(Available(a), Search)
      offset == FindSync(a, a.scanned, size)
  IN CASE offset = -1 -> PassOver(a, size)
       [] offset = 0  -> [a EXCEPT !.oos = FALSE]
       [] OTHER       -> PassOver([a EXCEPT !.oos = FALSE], offset)

SearchOn(a) ==
  LET size == Least(Available(a), Search)
      offset == FindSync(a, a.scanned, size)
  IN CASE offset = -1 -> PassOver(a, size - NumSync * Packet + 1)
       [] offset = 0  -> [a EXCEPT !.oos = FALSE]
       [] OTHER       -> PassOver([a EXCEPT !.oos = FALSE], offset)

\* A round of ScanBuffer's loop.
WalkOn[a \in Sides] ==
  IF Available(a) < (IF a.oos THEN NumSync * Packet ELSE Packet) THEN a
  ELSE IF a.oos THEN SearchOn(a) ELSE ScanPacket(a)

\* As many as there may be: a search that stays where it is has found a packet.
Walk(a) ==
  LET rounds == 2 * Available(a)
      after[n \in 0..rounds] == IF n = 0 THEN a ELSE WalkOn[after[n - 1]]
  IN after[rounds]

AdvanceReadOffset(a, n) == [a EXCEPT !.scanned = @ - n, !.r = (@ + n) % Size]

\* Mutant of ScanBuffer: what a search that finds nothing passes over is not released.
ScanBufferInSync(a) ==
  LET walked == IF a.control = "idle" THEN a ELSE Walk(a) IN
  IF walked.load = 0 /\ ~walked.oos
  THEN AdvanceReadOffset([walked EXCEPT !.skips = <<>>], walked.scanned)
  ELSE walked

ScanBuffer(a) ==
  LET walked == IF a.control = "idle" THEN a ELSE Walk(a) IN
  IF walked.load = 0 THEN AdvanceReadOffset([walked EXCEPT !.skips = <<>>], walked.scanned)
  ELSE walked

-------------------------------------------------------------------------------
(* The delivery.                                                           *)

MaxOutput == Packet    \* DT_TRP_MAX_OUTPUT_BYTES

\* out: what the caller's buffer holds of its n units; used: Consumed; skips, pending: what is left.
Deliveries ==
  [n : Nat, out : Seq(Units), used : Nat, scanned : Nat, r : Slots, mode : Modes,
   skips : Seq(Skips), pending : Seq(Units)]

Done(d) == Len(d.out) = d.n \/ (d.out # <<>> /\ d.out[Len(d.out)] = Internal)

\* A round of DeliverBytes's loop.
DeliverOn[d \in Deliveries] ==
  LET room == d.n - Len(d.out)
      part == Least(Len(d.pending), room)
      output == Decode(d.mode, UnitAt(d, d.used + Packet - 1))
      bytes == [i \in 1..output |-> UnitAt(d, d.used + i - 1)]
      onward == [d EXCEPT !.used = @ + Packet]
  IN IF Done(d) THEN d
     ELSE IF d.pending # <<>>
     THEN [d EXCEPT !.out = @ \o SubSeq(d.pending, 1, part),
                    !.pending = SubSeq(@, part + 1, Len(@))]
     ELSE IF d.skips # <<>> /\ d.skips[1].at = (d.r + d.used) % Size
     THEN [d EXCEPT !.used = @ + d.skips[1].n, !.skips = Tail(@)]
     ELSE IF d.used + Packet > d.scanned
     THEN [d EXCEPT !.out = Append(@, Internal)]
     ELSE CASE output <= 0 -> onward
            [] output > 0 /\ room >= MaxOutput -> [onward EXCEPT !.out = @ \o bytes]
            [] OTHER -> [onward EXCEPT !.pending = bytes]

\* As many as there may be: each goes on in the ring, or takes what is pending.
Deliver(d) ==
  LET rounds == 2 * d.scanned + 1
      after[n \in 0..rounds] == IF n = 0 THEN d ELSE DeliverOn[after[n - 1]]
  IN after[rounds]

Delivery(a, n) ==
  Deliver([n |-> n, out |-> <<>>, used |-> 0, scanned |-> a.scanned, r |-> a.r, mode |-> a.mode,
           skips |-> a.skips, pending |-> a.pending])

\* DeliverBytes.
AfterDelivery(a, d) ==
  AdvanceReadOffset([a EXCEPT !.load = @ - d.n, !.skips = d.skips, !.pending = d.pending], d.used)

-------------------------------------------------------------------------------
(* The calls.                                                              *)

Becomes(side) ==
  \E a \in {side} :
    /\ asi' = a
    /\ ring' = [s \in Slots |-> IF (s + Size - a.r) % Size < RingLoad(a) THEN ring[s] ELSE Blank]
    /\ fifo' = Delivery(a, a.load).out

\* A round of the read's loop: it takes a block, or waits for DT_ASIRX_READ_POLL_MS.
Look(rd) ==
  LET block == IF rd.all THEN rd.left ELSE Least(rd.left, Block) IN
  /\ UNCHANGED card
  /\ \E scanned \in {ScanBuffer(asi)} :
       IF asi.control = "rcv" /\ scanned.load >= block
       THEN \E d \in {Delivery(scanned, block)} :
              /\ Becomes(AfterDelivery(scanned, d))
              /\ taken' = d.out
              /\ read' = IF rd.left = block THEN NoRead
                         ELSE [rd EXCEPT !.left = @ - block, !.held = TRUE]
       ELSE /\ Becomes(scanned)
            /\ taken' = <<>>
            /\ read' = [rd EXCEPT !.held = FALSE]

ReadStarts(n, all) ==
  /\ read = NoRead /\ (all => n <= FifoSize)
  /\ Look([left |-> n, all |-> all, held |-> FALSE])

ReadLooks == read.left > 0 /\ Look(read)

\* The time is up, or a detach waits.
ReadEnds ==
  /\ read.left > 0 /\ ~read.held
  /\ read' = NoRead
  /\ taken' = <<>> /\ UNCHANGED <<asi, ring, card, fifo>>

\* The program calls while no read has the lock.
MayCall == ~read.held
Called == taken' = <<>> /\ UNCHANGED read

\* GetFlags scans as well.
GetFifoLoad ==
  /\ MayCall /\ asi.control = "rcv"
  /\ Becomes(ScanBuffer(asi))
  /\ Called /\ UNCHANGED card

\* ResetScan; the card starts again at the beginning of the ring.
Reset(control, mode) ==
  /\ asi' = [NewAsi(mode) EXCEPT !.control = control, !.missed = asi.missed]
  /\ ring' = [s \in Slots |-> Blank]
  /\ card' = Stopped
  /\ fifo' = <<>>
  /\ Called

Start == MayCall /\ asi.control = "idle" /\ Reset("rcv", asi.mode)

\* ClearFifo is the same.
Stop == MayCall /\ asi.control = "rcv" /\ Reset("idle", asi.mode)

SetRxMode(mode) == MayCall /\ asi.control = "idle" /\ Reset("idle", mode)

-------------------------------------------------------------------------------
(* The card.                                                               *)

FreeUnits(a) == Size - KeptFree - RingLoad(a)
MayFail == Cardinality({s \in Slots : ring[s].end /\ ring[s].kind # "good"}) + card.full < MaxFaulty

\* A packet that does not fit is written as far as it fits.
ReceivePacket(kind) ==
  LET n == IF kind = "sequence" THEN (card.seq + 1) % Seqs ELSE card.seq
      of == IF kind = "valid" THEN Packet - 2 ELSE Packet - 1
      units == [i \in 1..Packet |-> IF i < Packet THEN Payload(n, i, of)
                                    ELSE Trailer(n, kind, kind = "good" /\ card.run = NumSync - 1)]
      size == Least(Packet, FreeUnits(asi))
      place(s) == ((s + Size - card.w) % Size) + 1
  IN /\ asi.control = "rcv" /\ (size < Packet => MayFail)
     /\ taken' = <<>> /\ UNCHANGED <<asi, read, fifo>>
     /\ ring' = [s \in Slots |-> IF place(s) <= size THEN units[place(s)] ELSE ring[s]]
     /\ card' = [w |-> (card.w + size) % Size, seq |-> (n + 1) % Seqs,
                 run |-> IF size < Packet \/ kind \notin {"good", "sequence"} THEN 0
                         ELSE IF kind = "sequence" THEN 1 ELSE Least(card.run + 1, NumSync - 1),
                 full |-> card.full + (IF size < Packet THEN 1 ELSE 0)]

ReceiveGood == ReceivePacket("good")
ReceiveFaulty(kind) == MayFail /\ ReceivePacket(kind)

-------------------------------------------------------------------------------
Next ==
  \/ ReceiveGood \/ (\E kind \in Faults : ReceiveFaulty(kind))
  \/ (\E n \in Reads, all \in BOOLEAN : ReadStarts(n, all)) \/ ReadLooks \/ ReadEnds
  \/ GetFifoLoad
  \/ Start \/ Stop \/ (\E mode \in Modes : SetRxMode(mode))

Spec == Init /\ [][Next]_vars

\* The line carries a stream, and a read that waits polls every DT_ASIRX_READ_POLL_MS.
FairSpec == Spec /\ WF_vars(ReceiveGood) /\ WF_vars(ReadLooks)

-------------------------------------------------------------------------------
(* Properties.                                                             *)

\* DtAsiRx.h:27-30: the reads get, whole and in order, what the scans counted (the scan's list of
\* what it dropped and skipped, a packet kept that a read's end cut, the ring released in time and
\* not too early), and no call finds that the two decoders disagree.
Fifo == INSTANCE PacketFifo WITH
          Limit <- FifoSize, fifo <- fifo, taken <- taken
ReadsGetWhatIsCounted == Fifo!Spec

\* What the card wrote wrongly, or cut for want of room, costs no packet that has good ones before
\* it: the search passes over no more than a stream could not start in.
FoundAgain == ~asi.missed

\* A scan leaves the ring without room for a packet, behind bytes the read does not take, as it
\* waits for more: DtAsiRx.c:243 releases what was dropped or passed over only at a load of 0.
Stuck ==
  LET scanned == ScanBuffer(asi)
      block == IF read.all THEN read.left ELSE Least(read.left, Block)
  IN scanned.load \in 1..block - 1 /\ FreeUnits(scanned) < Packet

\* cdtapi.h of DtInpChannel_Read: a read waits until its bytes are there; if the channel keeps
\* receiving a stream, they come, whatever came between, unless the ring is full behind bytes it
\* does not take.
ReadsReturn == read.left > 0 ~> read.left = 0 \/ asi.control = "idle" \/ Stuck

\* The same without the exception. It does not hold: a read of all of the FIFO waits for a load
\* that packets do not divide, and what a search passes over stays behind a rest.
ReadsAlwaysReturn == read.left > 0 ~> read.left = 0 \/ asi.control = "idle"

===============================================================================
