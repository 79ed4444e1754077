------------------------------- MODULE AsiEnc -------------------------------
(***************************************************************************)
(* Source/Ts/DtAsiEnc.c: a transport stream coded as ASI symbols.  The     *)
(* encoder is fed pieces of the stream and room for symbols, each of any   *)
(* size, and goes on where it was cut off.                                 *)
(*                                                                         *)
(* A symbol is a byte, or K28, which fills the line.  The 8b/10b codes and  *)
(* their running disparity are left out: they follow the bytes.  The       *)
(* interval of 188 x 8 seconds makes a rate of so many bits a second as    *)
(* many packets an interval, so a rate is counted in those.  No packet is   *)
(* late by half the range of the times.  The synchronisation flag, which   *)
(* FindSync sets, is left out.                                             *)
(***************************************************************************)
EXTENDS Integers, FiniteSets, Sequences, SequencesExt

CONSTANTS
  Short,     \* bound: bytes of a short packet, 188
  Long,      \* bound: bytes of a long packet, 204
  Line,      \* bound: symbols an interval
  Rates,     \* bound: packets an interval
  TxModes,   \* what SetTxMode is given: [ts, burst, onTime]
  Base,      \* bound: values of a byte; Sync is one
  Sync,      \* 0x47
  TimeSize,  \* bound: bytes of a time, 4
  Streams,   \* what a program writes, in all
  Pieces,    \* bound: the bytes given to one call
  Rooms,     \* bound: the room given to one call
  AnyTime    \* may the mode change within a packet?  Between packets it may in any case

TsModes == {"188", "204", "add16", "min16", "raw"}

ASSUME AsiEncAssumption ==
  /\ Short \in Nat \ {0, 1} /\ Long \in Nat /\ Long > Short
  /\ Line \in Nat \ {0} /\ Rates \subseteq Nat \ {0} /\ AnyTime \in BOOLEAN
  /\ TxModes \subseteq [ts : TsModes, burst : BOOLEAN, onTime : BOOLEAN]
  /\ Base \in Nat /\ Base % 2 = 0 /\ Sync \in 1..Base - 1 /\ TimeSize \in Nat \ {0}
  /\ \A s \in Streams : s \in Seq(0..Base - 1)
  /\ Pieces \subseteq Nat \ {0} /\ Rooms \subseteq Nat

VARIABLES
  stream,  \* the bytes, of which the first taken ones were taken
  taken,
  enc,     \* DtAsiEnc
  out,     \* the symbols since the settings were last made
  since    \* history: enc and taken then

vars == <<stream, taken, enc, out, since>>

K28 == -1
Least(a, b) == IF a < b THEN a ELSE b
Most(a, b) == IF a > b THEN a ELSE b
First(s, n) == SubSeq(s, 1, Least(n, Len(s)))
Without(s, n) == SubSeq(s, n + 1, Len(s))

-------------------------------------------------------------------------------
(* Settings.                                                               *)

Needed(rate, outSize) == rate * outSize

\* Two K28 before each packet, or one, or none, by what the line has left.
NumK28(rate, outSize, raw) ==
  LET fits(n) == Needed(rate, outSize) <= Line - rate * n IN
  CASE raw -> 0 [] ~raw /\ fits(2) -> 2 [] ~raw /\ ~fits(2) /\ fits(1) -> 1 [] OTHER -> 0

\* The room of one is reserved even where none is sent.
Overhead(rate, outSize, raw) ==
  IF raw THEN 0 ELSE rate * Most(NumK28(rate, outSize, raw), 1)

RateFits(rate, outSize) == Needed(rate, outSize) <= Line
ApplyRate(e, rate, outSize, raw) ==
  IF ~RateFits(rate, outSize) THEN e
  ELSE [e EXCEPT !.rate = rate, !.needed = Needed(rate, outSize),
                 !.available = Line - Overhead(rate, outSize, raw),
                 !.numK28 = NumK28(rate, outSize, raw)]

InSize(ts) == IF ts \in {"204", "min16"} THEN Long ELSE Short
InUsed(ts) == IF ts = "204" THEN Long ELSE Short
OutSize(ts) == IF ts \in {"204", "add16"} THEN Long ELSE Short

\* The rate counts in the new size; one that does not fit it is refused by Start.
SetTxMode(e, m) ==
  LET e1 == [e EXCEPT !.inSize = InSize(m.ts), !.inUsed = InUsed(m.ts),
                      !.outSize = OutSize(m.ts), !.raw = m.ts = "raw",
                      !.burst = m.burst, !.onTime = m.onTime]
  IN ApplyRate(e1, e.rate, e1.outSize, e1.raw)

NoTime == [i \in 1..TimeSize |-> 0]
NewEnc(rate) ==
  ApplyRate([inSize |-> Short, inUsed |-> Short, outSize |-> Short, raw |-> FALSE,
             burst |-> TRUE, onTime |-> FALSE, rate |-> rate, needed |-> 0, available |-> 0,
             numK28 |-> 0, acc |-> 0, byteIndex |-> 0, k28Sent |-> 0, skip |-> 0,
             state |-> "init", time |-> NoTime, now |-> 0, packetTime |-> 0,
             first |-> FALSE],
            rate, Short, FALSE)

\* Started with a rate that fits; with times the rate is not looked at.
CanStart(e) == e.onTime \/ RateFits(e.rate, e.outSize)

-------------------------------------------------------------------------------
(* Encoding.  c is a Cursor: the input left, the symbols written, and the   *)
(* room left; the encoder goes with it.                                    *)

Cursor(e, in, room) == [e |-> e, in |-> in, out |-> <<>>, room |-> room, ok |-> TRUE]

Take(c, n) == [c EXCEPT !.in = Without(@, n)]
Put(c, symbols) == [c EXCEPT !.out = @ \o symbols, !.room = @ - Len(symbols)]
Fill(c, n) == Put(c, [i \in 1..n |-> K28])
Zeros(c, n) == Put(c, [i \in 1..n |-> 0])
Stop(c) == [c EXCEPT !.ok = FALSE]

\* The bytes before the next sync byte.
Gap(in) ==
  CHOOSE n \in 0..Len(in) : /\ \A i \in 1..n : in[i] # Sync
                            /\ n < Len(in) => in[n + 1] = Sync

\* What comes before a packet's first byte; not ok when the input or the room runs out.
SkipRest(c) ==
  LET n == Least(c.e.skip, Len(c.in))
      d == [Take(c, n) EXCEPT !.e.skip = @ - n]
  IN IF d.e.skip > 0 \/ d.in = <<>> THEN Stop(d) ELSE d
FindSync(c) ==
  LET d == Take(c, Gap(c.in)) IN IF d.in = <<>> THEN Stop(d) ELSE d

\* Mutant of LeadK28: what was sent before the call is not kept.
LeadK28Anew(c) == Fill(c, Least(c.e.numK28, c.room))

LeadK28(c) ==
  LET n == Least(Most(c.e.numK28 - c.e.k28Sent, 0), c.room) IN
  [Fill(c, n) EXCEPT !.e.k28Sent = @ + n]
StartPacket(c) ==
  IF c.e.raw \/ c.e.byteIndex # 0 THEN c
  ELSE LET d == IF c.e.skip > 0 THEN SkipRest(c) ELSE c
           f == IF d.ok THEN FindSync(d) ELSE d
           g == IF f.ok THEN LeadK28(f) ELSE f
       IN IF g.ok /\ g.room = 0 THEN Stop(g) ELSE g

\* Mutant of EndPacket: MIN16 sends what it should drop as the next packet.
EndPacketKeepingRest(c) ==
  [c EXCEPT !.e.byteIndex = 0, !.e.k28Sent = 0, !.e.skip = 0]

EndPacket(c) ==
  [c EXCEPT !.e.byteIndex = 0, !.e.k28Sent = 0, !.e.skip = c.e.inSize - c.e.inUsed]

\* In normal mode every symbol is a byte or a K28, by the rate: n bytes, or zeros.
RECURSIVE Spread(_, _, _)
Spread(c, n, zeros) ==
  LET acc == c.e.acc + c.e.needed
      byte == IF zeros THEN Zeros(c, 1) ELSE Take(Put(c, <<c.in[1]>>), 1)
  IN IF c.room = 0 \/ n <= 0 THEN c
     ELSE IF acc >= 0
     THEN Spread([byte EXCEPT !.e.acc = acc - c.e.available, !.e.byteIndex = @ + 1],
                 n - 1, zeros)
     ELSE Spread([Fill(c, 1) EXCEPT !.e.acc = acc], n, zeros)

NormalRound(c) ==
  LET d == IF c.e.byteIndex < c.e.inUsed
           THEN Spread(c, Least(c.e.inUsed - c.e.byteIndex, Len(c.in)), FALSE) ELSE c
      f == IF d.e.byteIndex < d.e.inUsed THEN d
           ELSE Spread(d, d.e.outSize - d.e.byteIndex, TRUE)
  IN IF f.e.byteIndex >= f.e.outSize THEN EndPacket(f) ELSE f

\* size_t of a number: a negative one is more than there is room.
AsSize(n, c) == IF n < 0 THEN c.room ELSE n

CeilDiv(a, b) == (a + b - 1) \div b

\* Mutant of RateFill: what there was no room for is forgotten.
RateFillOnce(c) ==
  [Fill(c, Least(CeilDiv(Most(-c.e.acc, 0), c.e.needed), c.room)) EXCEPT
     !.e.acc = Most(@, @ + c.e.needed * CeilDiv(Most(-@, 0), c.e.needed))]

\* In burst mode the K28 the rate needs go before the packet.
RateFill(c) ==
  LET n == Least(CeilDiv(Most(-c.e.acc, 0), c.e.needed), c.room) IN
  [Fill(c, n) EXCEPT !.e.acc = @ + c.e.needed * n]

Sent(c, n) == [c EXCEPT !.e.byteIndex = @ + n, !.e.acc = @ + c.e.needed * n]

BurstRound(c) ==
  LET d == RateFill(c)
      n == Least(Most(d.e.inUsed - d.e.byteIndex, 0), Least(Len(d.in), d.room))
      f == Sent(Take(Put(d, SubSeq(d.in, 1, n)), n), n)
      z == IF f.e.byteIndex < f.e.inUsed THEN 0
           ELSE Least(AsSize(f.e.outSize - f.e.byteIndex, f), f.room)
      g == Sent(Zeros(f, z), z)
  IN IF g.e.byteIndex < g.e.outSize THEN g
     ELSE [EndPacket(g) EXCEPT !.e.acc = @ - g.e.available * g.e.outSize]

\* Times have TimeSize bytes, the least significant first, and wrap.
Times == Base ^ TimeSize
Value(time) == FoldLeft(LAMBDA v, b : v * Base + b, 0, Reverse(time))
Ahead(time, now) ==
  LET d == (time + Times - now) % Times IN IF d < Times \div 2 THEN d ELSE d - Times

Tick(c, n) == [c EXCEPT !.e.byteIndex = @ + n, !.e.now = (@ + 2 * n) % Times]

OnTimeRound(c) ==
  CASE c.e.state = "init" ->
         [c EXCEPT !.e.now = 0, !.e.packetTime = 0, !.e.first = TRUE, !.e.byteIndex = 0,
                   !.e.state = "time"]
    [] c.e.state = "time" ->
         LET n == Least(Most(TimeSize - c.e.byteIndex, 0), Len(c.in))
             d == [Take(c, n) EXCEPT
                     !.e.time = [i \in 1..TimeSize |->
                                   IF i \in c.e.byteIndex + 1..c.e.byteIndex + n
                                   THEN c.in[i - c.e.byteIndex] ELSE @[i]],
                     !.e.byteIndex = @ + n]
         IN IF d.e.byteIndex = TimeSize
            THEN [d EXCEPT !.e.byteIndex = 0, !.e.state = "sync"] ELSE d
    [] c.e.state = "sync" ->
         LET n == Gap(c.in)
             last == c.e.time \o SubSeq(c.in, 1, n)
             d == [Take(c, n) EXCEPT !.e.time = SubSeq(last, n + 1, n + TimeSize)]
             t == Value(d.e.time)
         IN IF d.in = <<>> THEN d
            ELSE [d EXCEPT !.e.packetTime = t, !.e.state = "bytes", !.e.first = FALSE,
                           !.e.now = IF d.e.first THEN t ELSE @]
    [] c.e.state = "bytes" ->
         LET k == Least(CeilDiv(Most(Ahead(c.e.packetTime, c.e.now), 0), 2), c.room)
             d == [Fill(c, k) EXCEPT !.e.now = (@ + 2 * k) % Times]
             n == Least(Most(d.e.inUsed - d.e.byteIndex, 0), Least(Len(d.in), d.room))
             f == Tick(Take(Put(d, SubSeq(d.in, 1, n)), n), n)
             z == Least(Most(f.e.outSize - f.e.byteIndex, 0), f.room)
             g == Tick(Zeros(f, z), z)
             rest == c.e.inSize - c.e.inUsed
         IN IF f.room = 0 \/ f.e.byteIndex < f.e.inUsed THEN f
            ELSE IF g.e.byteIndex < g.e.outSize THEN g
            ELSE [g EXCEPT !.e.byteIndex = 0, !.e.skip = rest,
                           !.e.state = IF rest > 0 THEN "skip" ELSE "time"]
    [] c.e.state = "skip" ->
         LET n == Least(c.e.skip, Len(c.in)) IN
         [Take(c, n) EXCEPT !.e.skip = @ - n, !.e.state = IF n = c.e.skip THEN "time" ELSE @]

\* Until the input or the room is used up.
RECURSIVE Rounds(_)
Rounds(c) ==
  LET d == IF c.e.onTime THEN c ELSE StartPacket(c) IN
  IF c.in = <<>> \/ c.room = 0 \/ ~c.ok THEN c
  ELSE IF ~d.ok THEN d
  ELSE Rounds(IF d.e.onTime THEN OnTimeRound(d)
              ELSE IF d.e.burst THEN BurstRound(d) ELSE NormalRound(d))

Encode(e, in, room) == Rounds(Cursor(e, in, room))

-------------------------------------------------------------------------------
(* An encoder at work.                                                     *)

Rest == Without(stream, taken)

Init ==
  /\ stream \in Streams /\ taken = 0 /\ out = <<>>
  /\ enc \in {SetTxMode(NewEnc(rate), m) : rate \in Rates, m \in TxModes}
  /\ CanStart(enc)
  /\ since = [enc |-> enc, taken |-> taken]

EncodePiece(n, room) ==
  LET c == Encode(enc, First(Rest, n), room) IN
  /\ Rest # <<>>
  /\ enc' = c.e /\ out' = out \o c.out
  /\ taken' = taken + Least(n, Len(Rest)) - Len(c.in)
  /\ UNCHANGED <<stream, since>>

\* A program may set mode and rate at any time.
Between == enc.byteIndex = 0 /\ enc.k28Sent = 0 /\ enc.state \in {"init", "time"}

Set(e) ==
  /\ AnyTime \/ Between
  /\ e # enc /\ CanStart(e) /\ since.taken = 0
  /\ enc' = e /\ out' = <<>> /\ since' = [enc |-> e, taken |-> taken]
  /\ UNCHANGED <<stream, taken>>

Next ==
  \/ \E n \in Pieces, room \in Rooms : EncodePiece(n, room)
  \/ \E m \in TxModes : Set(SetTxMode(enc, m))
  \/ \E rate \in Rates : Set(ApplyRate(enc, rate, enc.outSize, enc.raw))

Spec == Init /\ [][Next]_vars

-------------------------------------------------------------------------------
(* Properties.                                                             *)

Given == Without(stream, since.taken)
Bytes == SelectSeq(out, LAMBDA s : s # K28)

\* Room for all a stream gives.
Ample == Len(stream) * (Line + 2 + Times)

\* DtAsiEnc.h: "A packet or time stamp that is cut off continues in the next call": however
\* the input and the room were cut, the symbols are those of one call.
CutsDoNotShow == IsPrefix(out, Encode(since.enc, Given, Ample).out)

\* What a stream carries: its packets with their times, by what the mode says of them.
RECURSIVE PacketsIn(_, _)
PacketsIn(e, s) ==
  LET head == IF e.onTime THEN TimeSize ELSE 0
      at == IF e.raw /\ ~e.onTime THEN 0
            ELSE IF Len(s) < head THEN Len(s)
            ELSE head + Gap(Without(s, head))
      data == First(Without(s, at), e.inUsed)
      zeros == IF Len(data) < e.inUsed THEN 0 ELSE e.outSize - e.inUsed
  IN IF s = <<>> \/ at >= Len(s) THEN <<>>
     ELSE <<[time |-> SubSeq(s, at - head + 1, at), data |-> data \o [i \in 1..zeros |-> 0]]>> \o
          PacketsIn(e, Without(s, at + e.inSize))

\* Only a mode with packets, and no times, drops the rest of a packet of MIN16.
Packets ==
  LET e == since.enc
      rest == IF e.raw \/ e.onTime THEN 0 ELSE e.skip
  IN PacketsIn(e, Without(Given, rest))

\* Set between packets, the encoder stands before one.
SetBetween == since.enc.byteIndex = 0 /\ since.enc.k28Sent = 0 /\ since.enc.state \in {"init", "time"}

\* DtAsiEnc.h, InUsed and OutSize: every packet comes out whole and in order, with the zeros
\* that belong to it, without the bytes that do not.
PacketsComeOutWhole ==
  SetBetween => IsPrefix(Bytes, FlattenSeq([k \in DOMAIN Packets |-> Packets[k].data]))

\* Where the packets that came out start, and how many came out before.
BytesBefore(i) == Cardinality({j \in 1..i - 1 : out[j] # K28})
Starts == {i \in DOMAIN out : out[i] # K28 /\ BytesBefore(i) % enc.outSize = 0}
Number(i) == BytesBefore(i) \div enc.outSize

\* k packets after the first, k / rate intervals have passed, to within a symbol, as long as
\* there is room for a K28 before each; without, the line's rate is the stream's.
RateIsKept ==
  enc.raw \/ enc.numK28 > 0 =>
    \A i \in Starts :
      LET late == (i - 1 - enc.numK28) * enc.rate - Line * Number(i) IN
      late <= enc.rate /\ -late <= enc.rate

\* A packet with a time goes out then, counted from the first's, or once the line is free.
RECURSIVE DueAt(_)
DueAt(k) ==
  LET free == DueAt(k - 1) + enc.outSize
      now == Value(Packets[1].time) + 2 * free
  IN IF k = 0 THEN 0
     ELSE free + CeilDiv(Most(Ahead(Value(Packets[k + 1].time), now % Times), 0), 2)
TimesAreKept == \A i \in Starts : i = DueAt(Number(i)) + 1

\* DtAsiEnc.h: "so that the stream has the rate asked for", and "The packet goes out at that
\* time, counted from the first packet's time", also when times wrap and however calls cut.
PacketsGoOutInTime ==
  since.enc.acc = 0 /\ SetBetween =>
    IF ~enc.onTime THEN RateIsKept ELSE since.enc.state = "init" => TimesAreKept

\* DtAsiEnc.h, OutSize: zeros follow the InUsed bytes to make a packet. It does not hold with
\* AnyTime = TRUE and MCFewStreams: EncodeBurst takes OutSize - ByteIndex without a sign.
ZerosMakePackets ==
  \A i \in DOMAIN out : i + Long - 1 \in DOMAIN out => \E j \in i..i + Long - 1 : out[j] # 0

===============================================================================
