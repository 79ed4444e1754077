------------------------------ MODULE AvRx_proofs ------------------------------
(***************************************************************************)
(* Proofs about AvRx, for any streams of packets, any size of the queue    *)
(* and any number of faults: types and room, that no frame of the pool is  *)
(* lost or has two places, and that the frames received are whole.         *)
(***************************************************************************)
EXTENDS AvRx, FiniteSetTheorems, SequenceTheorems, TLAPS

--------------------------------------------------------------------------------
(* Sums.                                                                   *)

\* A set of numbers that has 0, and with each its successor, has them all.
LEMMA Onwards ==
  ASSUME NEW N \in Nat, NEW S, 0 \in S, \A n \in 0..N - 1 : n \in S => n + 1 \in S
  PROVE  0..N \subseteq S
  <1> DEFINE B == (0..N) \ S
             Below(m) == 0..m
             T == {Below(m) : m \in B}
             R == StrictSubsetOrdering(Nat)
  <1> SUFFICES ASSUME B # {} PROVE FALSE
    OBVIOUS
  <1>1. T \subseteq FiniteSubsetsOf(Nat) /\ T # {}
    <2>1. \A m \in B : Below(m) \in FiniteSubsetsOf(Nat)
      BY FS_Interval DEF FiniteSubsetsOf
    <2> QED BY <2>1
  <1>2. IsWellFoundedOn(R, FiniteSubsetsOf(Nat))
    <2> HIDE DEF T
    <2> QED BY ONLY FS_StrictSubsetOrderingWellFounded
  <1> HIDE DEF R
  <1>3. PICK X \in T : \A Y \in T : ~(<<Y, X>> \in R)
    <2> HIDE DEF T
    <2> QED BY ONLY <1>1, <1>2, WFMin
  <1>4. PICK m \in B : X = Below(m)
    BY <1>3
  <1>5. m # 0 /\ m \in 1..N /\ m - 1 \in 0..N - 1
    OBVIOUS
  <1>6. m - 1 \in B
    <2>1. (m - 1) + 1 = m
      BY <1>5
    <2> QED BY <1>5, <2>1
  <1>7. Below(m - 1) \in T /\ Below(m - 1) \subseteq X /\ Below(m - 1) # X /\ X \subseteq Nat
    <2>1. m \in X /\ m \notin Below(m - 1)
      BY <1>4, <1>5
    <2> QED BY <1>4, <1>5, <1>6, <2>1
  <1>8. <<Below(m - 1), X>> \in R
    BY <1>7 DEF R, StrictSubsetOrdering
  <1> QED BY <1>3, <1>7, <1>8

\* f adds up the first N numbers of s.
Adds(f, s, N) ==
  /\ f \in [0..N -> Nat] /\ f[0] = 0
  /\ \A n \in 1..N : f[n] = f[n - 1] + s[n]

LEMMA AddsOnce ==
  ASSUME NEW s \in Seq(Nat), NEW N \in 0..Len(s), NEW f, NEW g,
         f[0] = 0, \A n \in 1..N : f[n] = f[n - 1] + s[n],
         g[0] = 0, \A n \in 1..N : g[n] = g[n - 1] + s[n]
  PROVE  f[N] = g[N]
  <1> DEFINE S == {n \in 0..N : f[n] = g[n]}
  <1>1. ASSUME NEW n \in 0..N - 1, n \in S PROVE n + 1 \in S
    <2>1. n + 1 \in 1..N /\ (n + 1) - 1 = n
      OBVIOUS
    <2>2. f[n + 1] = f[n] + s[n + 1] /\ g[n + 1] = g[n] + s[n + 1]
      BY <2>1
    <2> QED BY <1>1, <2>1, <2>2
  <1>2. N \in Nat /\ 0 \in S
    BY DEF S
  <1>3. 0..N \subseteq S
    <2> HIDE DEF S
    <2> QED BY <1>1, <1>2, Onwards
  <1> QED BY <1>2, <1>3

LEMMA AddsExists ==
  ASSUME NEW s \in Seq(Nat)
  PROVE  \E f : Adds(f, s, Len(s))
  <1> DEFINE S == {N \in 0..Len(s) : \E f : Adds(f, s, N)}
  <1>1. 0 \in S
    <2>1. Adds([n \in 0..0 |-> 0], s, 0)
      BY DEF Adds
    <2>2. \E f : Adds(f, s, 0)
      BY <2>1
    <2>3. 0 \in 0..Len(s)
      OBVIOUS
    <2> QED BY <2>2, <2>3
  <1>2. ASSUME NEW N \in 0..Len(s) - 1, N \in S PROVE N + 1 \in S
    <2>1. PICK f : Adds(f, s, N)
      BY <1>2
    <2> DEFINE g == [n \in 0..N + 1 |-> IF n = N + 1 THEN f[N] + s[n] ELSE f[n]]
    <2>2. N + 1 \in 0..Len(s) /\ N + 1 \in 1..Len(s) /\ s[N + 1] \in Nat /\ f[N] \in Nat
      BY <2>1 DEF Adds
    <2>3. g \in [0..N + 1 -> Nat] /\ g[0] = 0
      BY <2>1, <2>2 DEF Adds
    <2>4. ASSUME NEW n \in 1..N + 1 PROVE g[n] = g[n - 1] + s[n]
      <3>1. CASE n = N + 1
        BY <2>1, <2>2, <3>1
      <3>2. CASE n \in 1..N
        BY <2>1, <2>2, <3>2 DEF Adds
      <3> QED BY <3>1, <3>2
    <2>5. Adds(g, s, N + 1)
      BY <2>3, <2>4 DEF Adds
    <2> HIDE DEF g
    <2>6. \E h : Adds(h, s, N + 1)
      BY <2>5
    <2> QED BY <2>2, <2>6
  <1>3. Len(s) \in Nat
    OBVIOUS
  <1>4. Len(s) \in S
    <2>1. 0..Len(s) \subseteq S
      <3> HIDE DEF S
      <3> QED BY <1>1, <1>2, <1>3, Onwards
    <2>2. Len(s) \in 0..Len(s)
      BY <1>3
    <2> HIDE DEF S
    <2> QED BY <2>1, <2>2
  <1> QED BY <1>4

LEMMA SumIs ==
  ASSUME NEW s \in Seq(Nat)
  PROVE  \E f : Adds(f, s, Len(s)) /\ SumOf(s) = f[Len(s)]
  <1> DEFINE Rec(f) == f = [n \in 0..Len(s) |-> IF n = 0 THEN 0 ELSE f[n - 1] + s[n]]
             upTo == CHOOSE f : Rec(f)
  <1>1. PICK f : Adds(f, s, Len(s))
    BY AddsExists
  <1>2. Rec(f)
    <2>1. ASSUME NEW n \in 0..Len(s) PROVE f[n] = IF n = 0 THEN 0 ELSE f[n - 1] + s[n]
      BY <1>1 DEF Adds
    <2>2. f = [n \in 0..Len(s) |-> f[n]]
      BY <1>1 DEF Adds
    <2> QED BY <2>1, <2>2
  <1>3. Rec(upTo)
    BY <1>2
  <1>4. SumOf(s) = upTo[Len(s)]
    BY DEF SumOf
  <1> HIDE DEF upTo
  <1>5. upTo[0] = 0 /\ \A n \in 1..Len(s) : upTo[n] = upTo[n - 1] + s[n]
    BY <1>3, SMTT(30)
  <1>6. f[0] = 0 /\ \A n \in 1..Len(s) : f[n] = f[n - 1] + s[n]
    BY <1>1 DEF Adds
  <1>7. upTo[Len(s)] = f[Len(s)]
    <2>1. Len(s) \in 0..Len(s)
      OBVIOUS
    <2> QED BY <1>5, <1>6, <2>1, AddsOnce
  <1> QED BY <1>1, <1>4, <1>7

LEMMA SumOfEmpty == SumOf(<<>>) = 0
  <1>1. <<>> \in Seq(Nat)
    OBVIOUS
  <1> QED BY <1>1, SumIs DEF Adds

LEMMA SumOfAppend ==
  ASSUME NEW s \in Seq(Nat), NEW e \in Nat
  PROVE  SumOf(Append(s, e)) = SumOf(s) + e /\ SumOf(s) \in Nat
  <1> DEFINE t == Append(s, e)
             N == Len(s)
  <1>1. t \in Seq(Nat) /\ Len(t) = N + 1 /\ t[N + 1] = e /\ \A n \in 1..N : t[n] = s[n]
    OBVIOUS
  <1>2. PICK f : Adds(f, s, Len(s)) /\ SumOf(s) = f[N]
    BY SumIs
  <1>3. PICK g : Adds(g, t, N + 1) /\ SumOf(t) = g[N + 1]
    BY <1>1, SumIs
  <1> HIDE DEF t
  <1>4. g[N + 1] = g[N] + e
    <2>1. \A n \in 1..N + 1 : g[n] = g[n - 1] + t[n]
      BY <1>3 DEF Adds
    <2>2. N + 1 \in 1..N + 1 /\ (N + 1) - 1 = N
      OBVIOUS
    <2> QED BY <1>1, <2>1, <2>2
  <1>5. g[0] = 0 /\ \A n \in 1..N : g[n] = g[n - 1] + s[n]
    BY <1>1, <1>3 DEF Adds
  <1>6. f[0] = 0 /\ \A n \in 1..N : f[n] = f[n - 1] + s[n]
    BY <1>2 DEF Adds
  <1>7. f[N] \in Nat
    BY <1>2 DEF Adds
  <1>8. f[N] = g[N]
    <2>1. N \in 0..Len(s)
      OBVIOUS
    <2> QED BY <1>5, <1>6, <2>1, AddsOnce
  <1> QED BY <1>2, <1>3, <1>4, <1>7, <1>8 DEF t

\* A sum of numbers is at least the last of them.
LEMMA SumOfPositive ==
  ASSUME NEW s \in Seq(Nat \ {0}), s # <<>>
  PROVE  SumOf(s) \in Nat \ {0}
  <1>1. s \in Seq(Nat) /\ Len(s) \in Nat \ {0}
    OBVIOUS
  <1>2. PICK f : Adds(f, s, Len(s)) /\ SumOf(s) = f[Len(s)]
    BY <1>1, SumIs
  <1>3. f[Len(s)] = f[Len(s) - 1] + s[Len(s)]
    BY <1>1, <1>2 DEF Adds
  <1>4. f[Len(s) - 1] \in Nat /\ s[Len(s)] \in Nat \ {0}
    BY <1>1, <1>2 DEF Adds
  <1> QED BY <1>2, <1>3, <1>4

--------------------------------------------------------------------------------
(* Packets.                                                                *)

\* A packet as it comes to the parser.
Arrival(p) ==
  /\ p.seqNum \in Numbers /\ p.next = Following(p.seqNum) /\ p.next \in Numbers
  /\ p.field = Packet(p.seqNum).field /\ p.field \in {0, 1}
  /\ p.marker = Packet(p.seqNum).marker /\ p.marker \in BOOLEAN
  /\ p.size = PacketSize(Packet(p.seqNum)) /\ p.size \in Nat \ {0}
  /\ p.segments = Packet(p.seqNum).segments /\ p.segments \in Seq(Segment) \ {<<>>}

LEMMA Constants ==
  /\ MaxSize \in Nat \ {0} /\ Lent \in Nat \ {0} /\ Faults \in Nat
  /\ Len(Streams) \in Nat \ {0} /\ DOMAIN Streams = 1..Len(Streams)
  /\ \A i \in DOMAIN Streams : /\ Streams[i] \in Seq(Packets) /\ Len(Streams[i]) \in Nat \ {0}
                               /\ IsStream(Streams[i])
  <1>1. Streams \in Seq(Seq(Packets) \ {<<>>}) /\ Streams # <<>>
    BY AvRxAssumption
  <1>2. ASSUME NEW i \in DOMAIN Streams
        PROVE  Streams[i] \in Seq(Packets) /\ Len(Streams[i]) \in Nat \ {0}
    <2>1. Streams[i] \in Seq(Packets) \ {<<>>}
      BY <1>1
    <2> QED BY <2>1
  <1>3. Len(Streams) \in Nat \ {0} /\ DOMAIN Streams = 1..Len(Streams)
    BY <1>1
  <1> QED BY <1>2, <1>3, AvRxAssumption DEF AvRxAssumption

LEMMA SizeIs ==
  ASSUME NEW packet \in Packets
  PROVE  PacketSize(packet) \in Nat \ {0}
  <1> DEFINE lengths == [i \in DOMAIN packet.segments |-> packet.segments[i].length]
  <1>1. packet.segments \in Seq(Segment) /\ packet.segments # <<>>
    BY DEF Packets
  <1>2. \A i \in DOMAIN packet.segments : packet.segments[i].length \in Nat \ {0}
    <2> SUFFICES ASSUME NEW i \in DOMAIN packet.segments
                 PROVE  packet.segments[i].length \in Nat \ {0}
      OBVIOUS
    <2>1. packet.segments[i] \in Segment
      BY <1>1
    <2> QED BY <2>1 DEF Segment
  <1>3. lengths \in Seq(Nat \ {0}) /\ lengths # <<>>
    BY <1>1, <1>2
  <1>4. SumOf(lengths) \in Nat \ {0}
    <2> HIDE DEF lengths
    <2> QED BY <1>3, SumOfPositive
  <1> QED BY <1>4 DEF PacketSize

LEMMA NumberIs ==
  ASSUME NEW seqNum \in Numbers
  PROVE  /\ seqNum = [format |-> seqNum.format, n |-> seqNum.n]
         /\ seqNum.format \in DOMAIN Streams /\ seqNum.n \in Nat
         /\ seqNum.n \in 0..Len(Streams[seqNum.format]) - 1
         /\ Packet(seqNum) = Streams[seqNum.format][seqNum.n + 1]
         /\ Packet(seqNum) \in Packets /\ PacketSize(Packet(seqNum)) \in Nat \ {0}
         /\ seqNum # NoNumber
  <1>1. PICK i \in DOMAIN Streams :
          \E n \in 0..Len(Streams[i]) - 1 : seqNum = [format |-> i, n |-> n]
    BY DEF Numbers
  <1>2. Len(Streams[i]) \in Nat /\ Streams[i] \in Seq(Packets)
    BY Constants
  <1>3. PICK n \in 0..Len(Streams[i]) - 1 : seqNum = [format |-> i, n |-> n]
    BY <1>1
  <1>4. n \in Nat /\ n + 1 \in 1..Len(Streams[i])
    BY <1>2
  <1>5. Packet(seqNum) = Streams[i][n + 1]
    BY <1>3 DEF Packet
  <1>6. Streams[i][n + 1] \in Packets
    BY <1>2, <1>4
  <1>7. PacketSize(Packet(seqNum)) \in Nat \ {0}
    BY <1>5, <1>6, SizeIs
  <1>8. i # 0
    BY Constants
  <1> QED BY <1>3, <1>4, <1>5, <1>6, <1>7, <1>8 DEF NoNumber

\* A frame starts after a marker, and until then the field stays.
LEMMA FollowingIs ==
  ASSUME NEW seqNum \in Numbers
  PROVE  /\ Following(seqNum) \in Numbers
         /\ Packet(seqNum).marker => StartsFrame(Packet(Following(seqNum)))
         /\ ~Packet(seqNum).marker => Packet(Following(seqNum)).field = Packet(seqNum).field
  <1> DEFINE i == seqNum.format
             s == Streams[i]
             n == seqNum.n
             m == (n + 1) % Len(s)
  <1>1. i \in DOMAIN Streams /\ n \in 0..Len(s) - 1 /\ s \in Seq(Packets) /\ Len(s) \in Nat \ {0}
        /\ IsStream(s) /\ Streams[i] = s
    BY NumberIs, Constants
  <1> HIDE DEF s
  <1>2. m \in 0..Len(s) - 1 /\ m + 1 \in 1..Len(s) /\ n + 1 \in 1..Len(s) /\ n + 1 \in DOMAIN s
    BY <1>1, SMTT(30)
  <1>3. Following(seqNum) = [format |-> i, n |-> m]
    BY <1>1, NumberIs DEF Following
  <1>4. Following(seqNum) \in Numbers
    BY <1>1, <1>2, <1>3 DEF Numbers
  <1>5. Packet(seqNum) = s[n + 1] /\ Packet(Following(seqNum)) = s[m + 1]
    BY <1>3, <1>4, NumberIs DEF s
  <1>6. IF s[n + 1].marker THEN StartsFrame(s[m + 1]) ELSE s[m + 1].field = s[n + 1].field
    BY <1>1, <1>2 DEF IsStream
  <1> QED BY <1>4, <1>5, <1>6

LEMMA ArrivalIs ==
  ASSUME NEW seqNum \in Numbers
  PROVE  Arrival(Numbered(seqNum, Packet(seqNum)))
  BY NumberIs, FollowingIs DEF Arrival, Numbered, Packets

LEMMA Sizes ==
  ASSUME NEW data \in Seq(Numbers)
  PROVE  /\ BytesOf(data) \in Nat /\ BytesOf(<<>>) = 0
         /\ data # <<>> => BytesOf(data) # 0
         /\ \A s \in Numbers : BytesOf(Append(data, s)) = BytesOf(data) + PacketSize(Packet(s))
  <1> DEFINE sizes == [i \in DOMAIN data |-> PacketSize(Packet(data[i]))]
  <1>1. sizes \in Seq(Nat \ {0}) /\ sizes \in Seq(Nat) /\ (data # <<>> => sizes # <<>>)
    <2>1. ASSUME NEW i \in 1..Len(data) PROVE PacketSize(Packet(data[i])) \in Nat \ {0}
      <3>1. data[i] \in Numbers
        OBVIOUS
      <3> QED BY <3>1, NumberIs
    <2> QED BY <2>1
  <1>2. BytesOf(data) = SumOf(sizes)
    BY DEF BytesOf
  <1>3. SumOf(sizes) \in Nat /\ (sizes # <<>> => SumOf(sizes) # 0)
    <2> HIDE DEF sizes
    <2>1. SumOf(sizes) \in Nat
      BY <1>1, SumOfAppend
    <2>2. sizes # <<>> => SumOf(sizes) # 0
      BY <1>1, SumOfPositive
    <2> QED BY <2>1, <2>2
  <1>4. BytesOf(<<>>) = 0
    <2>1. [i \in DOMAIN <<>> |-> PacketSize(Packet(<<>>[i]))] = <<>>
      OBVIOUS
    <2> QED BY <2>1, SumOfEmpty DEF BytesOf
  <1>5. ASSUME NEW s \in Numbers
        PROVE  BytesOf(Append(data, s)) = BytesOf(data) + PacketSize(Packet(s))
    <2> DEFINE more == Append(data, s)
    <2>1. PacketSize(Packet(s)) \in Nat
      BY NumberIs
    <2>2. [i \in DOMAIN more |-> PacketSize(Packet(more[i]))]
            = Append(sizes, PacketSize(Packet(s)))
      <3>1. DOMAIN more = 1..Len(data) + 1 /\ more[Len(data) + 1] = s
            /\ \A i \in 1..Len(data) : more[i] = data[i]
        OBVIOUS
      <3> HIDE DEF more
      <3>2. DOMAIN sizes = 1..Len(data) /\ Len(sizes) = Len(data) /\ Len(data) \in Nat
        OBVIOUS
      <3> QED BY <1>1, <2>1, <3>1, <3>2
    <2>3. SumOf(Append(sizes, PacketSize(Packet(s)))) = SumOf(sizes) + PacketSize(Packet(s))
      <3> HIDE DEF sizes
      <3> QED BY <1>1, <2>1, SumOfAppend
    <2> QED BY <1>2, <2>2, <2>3 DEF BytesOf
  <1> QED BY <1>1, <1>2, <1>3, <1>4, <1>5

--------------------------------------------------------------------------------
(* What is in a sequence, and once.                                        *)

InSeq(s) == {s[i] : i \in DOMAIN s}
Once(s) == \A i, j \in DOMAIN s : s[i] = s[j] => i = j

LEMMA InSeqIs ==
  ASSUME NEW S, NEW s \in Seq(S)
  PROVE  InSeq(s) \subseteq S /\ InSeq(<<>>) = {} /\ Once(<<>>) /\ (s = <<>> <=> InSeq(s) = {})
  <1>1. \A i \in DOMAIN s : s[i] \in S
    OBVIOUS
  <1>2. s # <<>> => s[1] \in InSeq(s)
    BY DEF InSeq
  <1> QED BY <1>1, <1>2 DEF InSeq, Once

LEMMA PushIs ==
  ASSUME NEW S, NEW s \in Seq(S), NEW e \in S
  PROVE  /\ <<e>> \o s \in Seq(S) /\ InSeq(<<e>> \o s) = InSeq(s) \cup {e}
         /\ Once(s) /\ e \notin InSeq(s) => Once(<<e>> \o s)
  <1> DEFINE t == <<e>> \o s
  <1>1. t \in Seq(S) /\ Len(t) = Len(s) + 1 /\ t[1] = e /\ Len(s) \in Nat
        /\ \A i \in 2..Len(t) : t[i] = s[i - 1]
    OBVIOUS
  <1> HIDE DEF t
  <1>2. DOMAIN t = 1..Len(s) + 1 /\ DOMAIN s = 1..Len(s)
    BY <1>1
  <1>3. \A i \in DOMAIN s : t[i + 1] = s[i] /\ i + 1 \in DOMAIN t
    BY <1>1, <1>2
  <1>4. InSeq(t) \subseteq InSeq(s) \cup {e}
    <2> SUFFICES ASSUME NEW i \in DOMAIN t PROVE t[i] \in InSeq(s) \cup {e}
      BY DEF InSeq
    <2>1. i = 1 \/ (i \in 2..Len(t) /\ i - 1 \in DOMAIN s)
      BY <1>1, <1>2
    <2> QED BY <1>1, <2>1 DEF InSeq
  <1>5. InSeq(s) \cup {e} \subseteq InSeq(t)
    BY <1>1, <1>2, <1>3 DEF InSeq
  <1>6. ASSUME Once(s), e \notin InSeq(s) PROVE Once(t)
    <2> SUFFICES ASSUME NEW i \in DOMAIN t, NEW j \in DOMAIN t, t[i] = t[j] PROVE i = j
      BY DEF Once
    <2>1. \A k \in DOMAIN t : k = 1 \/ (k \in 2..Len(t) /\ k - 1 \in DOMAIN s /\ t[k] = s[k - 1])
      BY <1>1, <1>2
    <2>2. i \in Int /\ j \in Int
      BY <1>2
    <2>3. i # 1 /\ j # 1 => i - 1 = j - 1
      BY <1>6, <2>1 DEF Once
    <2>4. i = 1 <=> j = 1
      BY <1>1, <1>6, <2>1 DEF InSeq
    <2>5. CASE i = 1
      BY <2>4, <2>5
    <2>6. CASE i # 1
      BY <2>2, <2>3, <2>4, <2>6
    <2> QED BY <2>5, <2>6
  <1> QED BY <1>1, <1>4, <1>5, <1>6 DEF t

LEMMA TailIs ==
  ASSUME NEW S, NEW s \in Seq(S), s # <<>>
  PROVE  /\ Head(s) \in S /\ Tail(s) \in Seq(S) /\ Len(Tail(s)) = Len(s) - 1
         /\ InSeq(s) = InSeq(Tail(s)) \cup {Head(s)}
         /\ Once(s) => Head(s) \notin InSeq(Tail(s)) /\ Once(Tail(s))
  <1> DEFINE t == Tail(s)
             e == Head(s)
  <1>1. t \in Seq(S) /\ e \in S /\ Len(s) \in Nat \ {0} /\ Len(t) = Len(s) - 1 /\ e = s[1]
        /\ \A i \in 1..Len(t) : t[i] = s[i + 1]
    OBVIOUS
  <1> HIDE DEF t, e
  <1>2. DOMAIN t = 1..Len(s) - 1 /\ DOMAIN s = 1..Len(s)
    BY <1>1
  <1>3. \A i \in DOMAIN t : t[i] = s[i + 1] /\ i + 1 \in DOMAIN s /\ i + 1 # 1 /\ i \in Int
    BY <1>1, <1>2
  <1>4. InSeq(s) \subseteq InSeq(t) \cup {e}
    <2> SUFFICES ASSUME NEW i \in DOMAIN s PROVE s[i] \in InSeq(t) \cup {e}
      BY DEF InSeq
    <2>1. i = 1 \/ (i - 1 \in DOMAIN t /\ s[i] = t[i - 1])
      BY <1>1, <1>2
    <2> QED BY <1>1, <2>1 DEF InSeq
  <1>5. InSeq(t) \cup {e} \subseteq InSeq(s)
    BY <1>1, <1>2, <1>3 DEF InSeq
  <1>6. ASSUME Once(s) PROVE e \notin InSeq(t) /\ Once(t)
    <2>1. e \notin InSeq(t)
      BY <1>1, <1>2, <1>3, <1>6 DEF Once, InSeq
    <2>2. ASSUME NEW i \in DOMAIN t, NEW j \in DOMAIN t, t[i] = t[j] PROVE i = j
      <3>1. i + 1 = j + 1
        BY <1>3, <1>6, <2>2 DEF Once
      <3> QED BY <1>3, <3>1
    <2> QED BY <2>1, <2>2 DEF Once
  <1> QED BY <1>1, <1>4, <1>5, <1>6 DEF t, e

LEMMA AppendIs ==
  ASSUME NEW S, NEW s \in Seq(S), NEW e \in S
  PROVE  /\ Append(s, e) \in Seq(S) /\ Len(Append(s, e)) = Len(s) + 1
         /\ InSeq(Append(s, e)) = InSeq(s) \cup {e}
         /\ Once(s) /\ e \notin InSeq(s) => Once(Append(s, e))
  <1> DEFINE t == Append(s, e)
  <1>1. t \in Seq(S) /\ Len(t) = Len(s) + 1 /\ t[Len(s) + 1] = e /\ Len(s) \in Nat
        /\ \A i \in 1..Len(s) : t[i] = s[i]
    OBVIOUS
  <1> HIDE DEF t
  <1>2. DOMAIN t = 1..Len(s) + 1 /\ DOMAIN s = 1..Len(s)
    BY <1>1
  <1>3. \A i \in DOMAIN t : i = Len(s) + 1 \/ (i \in DOMAIN s /\ t[i] = s[i])
    BY <1>1, <1>2
  <1>4. InSeq(t) = InSeq(s) \cup {e}
    <2>1. \A i \in DOMAIN s : i \in DOMAIN t /\ t[i] = s[i]
      BY <1>1, <1>2
    <2>2. Len(s) + 1 \in DOMAIN t
      BY <1>1, <1>2
    <2> QED BY <1>1, <1>3, <2>1, <2>2 DEF InSeq
  <1>5. ASSUME Once(s), e \notin InSeq(s) PROVE Once(t)
    BY <1>1, <1>3, <1>5 DEF Once, InSeq
  <1> QED BY <1>1, <1>4, <1>5 DEF t

LEMMA ReverseIs ==
  ASSUME NEW S, NEW s \in Seq(S)
  PROVE  /\ Seqs!Reverse(s) \in Seq(S) /\ InSeq(Seqs!Reverse(s)) = InSeq(s)
         /\ Once(s) => Once(Seqs!Reverse(s))
  <1> DEFINE r == Seqs!Reverse(s)
             n == Len(s)
  <1>1. n \in Nat /\ DOMAIN s = 1..n
    OBVIOUS
  <1>2. r = [i \in 1..n |-> s[(n - i) + 1]]
    BY DEF Seqs!Reverse
  <1> HIDE DEF r, n
  <1>3. \A i \in 1..n : (n - i) + 1 \in 1..n /\ (n - ((n - i) + 1)) + 1 = i
    BY <1>1
  <1>4. DOMAIN r = 1..n /\ \A i \in 1..n : r[i] = s[(n - i) + 1]
    BY <1>2
  <1>5. \A i \in 1..n : s[i] = r[(n - i) + 1]
    BY <1>3, <1>4
  <1>6. r \in Seq(S)
    <2>1. \A i \in 1..n : s[(n - i) + 1] \in S
      BY <1>1, <1>3
    <2> QED BY <1>1, <1>2, <2>1
  <1>7. InSeq(r) = InSeq(s)
    BY <1>1, <1>3, <1>4, <1>5 DEF InSeq
  <1>8. ASSUME Once(s) PROVE Once(r)
    <2> SUFFICES ASSUME NEW i \in 1..n, NEW j \in 1..n, r[i] = r[j] PROVE i = j
      BY <1>4 DEF Once
    <2>1. (n - i) + 1 = (n - j) + 1
      BY <1>1, <1>3, <1>4, <1>8 DEF Once
    <2>2. i \in Int /\ j \in Int
      OBVIOUS
    <2> QED BY ONLY <1>1, <2>1, <2>2
  <1> QED BY <1>6, <1>7, <1>8 DEF r

LEMMA ConcatIs ==
  ASSUME NEW S, NEW s \in Seq(S), NEW t \in Seq(S)
  PROVE  /\ s \o t \in Seq(S) /\ InSeq(s \o t) = InSeq(s) \cup InSeq(t)
         /\ Once(s) /\ Once(t) /\ InSeq(s) \cap InSeq(t) = {} => Once(s \o t)
  <1> DEFINE u == s \o t
             m == Len(s)
             n == Len(t)
  <1>1. u \in Seq(S) /\ m \in Nat /\ n \in Nat /\ Len(u) = m + n
        /\ DOMAIN s = 1..m /\ DOMAIN t = 1..n
        /\ (\A i \in 1..m : u[i] = s[i]) /\ \A i \in m + 1..m + n : u[i] = t[i - m]
    OBVIOUS
  <1> HIDE DEF u, m, n
  <1>2. DOMAIN u = 1..m + n
    BY <1>1
  <1>3. \A i \in DOMAIN u :
          \/ i \in DOMAIN s /\ u[i] = s[i]
          \/ i > m /\ i - m \in DOMAIN t /\ u[i] = t[i - m] /\ i \in Int
    BY <1>1, <1>2
  <1>4. InSeq(u) \subseteq InSeq(s) \cup InSeq(t)
    BY <1>3 DEF InSeq
  <1>5. InSeq(s) \cup InSeq(t) \subseteq InSeq(u)
    <2>1. \A i \in DOMAIN s : i \in DOMAIN u /\ u[i] = s[i]
      BY <1>1, <1>2
    <2>2. \A i \in DOMAIN t : i + m \in DOMAIN u /\ u[i + m] = t[i]
      BY <1>1, <1>2
    <2> QED BY <2>1, <2>2 DEF InSeq
  <1>6. ASSUME Once(s), Once(t), InSeq(s) \cap InSeq(t) = {} PROVE Once(u)
    <2> SUFFICES ASSUME NEW i \in DOMAIN u, NEW j \in DOMAIN u, u[i] = u[j] PROVE i = j
      BY DEF Once
    <2>1. CASE i \in DOMAIN s /\ u[i] = s[i] /\ j \in DOMAIN s /\ u[j] = s[j]
      BY <1>6, <2>1 DEF Once
    <2>2. CASE i - m \in DOMAIN t /\ u[i] = t[i - m] /\ j - m \in DOMAIN t /\ u[j] = t[j - m]
               /\ i \in Int /\ j \in Int
      <3>1. i - m = j - m
        BY <1>6, <2>2 DEF Once
      <3> QED BY <1>1, <2>2, <3>1
    <2>3. ~(i \in DOMAIN s /\ u[i] = s[i] /\ j - m \in DOMAIN t /\ u[j] = t[j - m])
      BY <1>6 DEF InSeq
    <2>4. ~(j \in DOMAIN s /\ u[j] = s[j] /\ i - m \in DOMAIN t /\ u[i] = t[i - m])
      BY <1>6 DEF InSeq
    <2> QED BY <1>3, <2>1, <2>2, <2>3, <2>4
  <1> QED BY <1>1, <1>4, <1>5, <1>6 DEF u

\* A sequence is at least as long as what is in it is large.
LEMMA InSeqIsFinite ==
  ASSUME NEW S, NEW s \in Seq(S)
  PROVE  IsFiniteSet(InSeq(s)) /\ Cardinality(InSeq(s)) <= Len(s)
  <1>1. Len(s) \in Nat /\ DOMAIN s = 1..Len(s)
    OBVIOUS
  <1>2. IsFiniteSet(1..Len(s)) /\ Cardinality(1..Len(s)) = Len(s)
    BY <1>1, FS_Interval, SMTT(30)
  <1>3. s \in Surjection(1..Len(s), InSeq(s))
    <2>1. s \in [1..Len(s) -> InSeq(s)]
      BY <1>1 DEF InSeq
    <2>2. \A e \in InSeq(s) : \E i \in 1..Len(s) : s[i] = e
      BY <1>1 DEF InSeq
    <2> QED BY <2>1, <2>2 DEF Surjection
  <1> QED BY <1>2, <1>3, FS_Surjection

--------------------------------------------------------------------------------
(* The inductive invariant.                                                *)

Known == Nat \cup {-1}
RxFields ==
  {"partial", "bytes", "calculated", "numRows", "counted", "countedRows", "rowSize", "waiting",
   "interlaced", "next"}
RxTypes(r) ==
  /\ DOMAIN r = RxFields /\ r = [x \in RxFields |-> r[x]]
  /\ r.partial \in Frames \cup {None} /\ r.bytes \in Nat /\ r.calculated \in (Nat \ {0}) \cup {-1}
  /\ r.numRows \in Known /\ r.counted \in Known /\ r.countedRows \in Nat /\ r.rowSize \in Known
  /\ r.waiting \in BOOLEAN /\ r.interlaced \in BOOLEAN /\ r.next \in Numbers \cup {NoNumber}

FifoFields == {"rx", "free", "room", "mem", "queue"}
FifoTypes(f) ==
  /\ DOMAIN f = FifoFields /\ f = [x \in FifoFields |-> f[x]]
  /\ RxTypes(f.rx) /\ f.free \in Seq(Frames) /\ f.queue \in Seq(Frames)
  /\ f.room \in [Frames -> Nat]
  /\ f.mem = [n \in Frames |-> f.mem[n]] /\ \A n \in Frames : f.mem[n].data \in Seq(Numbers)

\* The frame being received.  Below, L is what the program has, H what is in hand.
InHand(f) == IF f.rx.partial = None THEN {} ELSE {f.rx.partial}
Data(f) == f.mem[f.rx.partial].data

\* What is free, queued, lent and in hand is all there is, once each.
Places(free_, queued, lent_, hand, all) ==
  /\ free_ \cup queued \cup lent_ \cup hand = all
  /\ free_ \cap (queued \cup lent_ \cup hand) = {}
  /\ queued \cap (lent_ \cup hand) = {} /\ lent_ \cap hand = {}
Existing(f) == {n \in Frames : f.room[n] # 0}

PlacesInv(f, L, H) ==
  /\ Places(InSeq(f.free), InSeq(f.queue), L, H, Existing(f))
  /\ Once(f.free) /\ Once(f.queue)

\* No more frames are in use than there can be.
LentInv(f, L) == Len(f.queue) <= MaxSize /\ IsFiniteSet(L) /\ Cardinality(L) <= Lent

\* The packets of a frame, from the first on, that come without a marker between them.
Begun(data) ==
  /\ data # <<>> => StartsFrame(Packet(data[1]))
  /\ \A i \in DOMAIN data : /\ i > 1 => data[i] = Following(data[i - 1])
                            /\ ~Packet(data[i]).marker
                            /\ Packet(data[i]).field = Packet(data[1]).field

\* A frame that was received, see FramesAreWhole.
WholeFrame(m) ==
  /\ m.data # <<>> /\ StartsFrame(Packet(m.data[1]))
  /\ \A i \in DOMAIN m.data : /\ i > 1 => m.data[i] = Following(m.data[i - 1])
                              /\ Packet(m.data[i]).marker <=> i = Len(m.data)
                              /\ m.field = Packet(m.data[i]).field

\* Frames that are free or with the program hold nothing, the others have room for what they
\* hold, and those in the queue are whole.
ContentInv(f, H) ==
  /\ \A n \in Frames : n \notin InSeq(f.queue) \cup H => f.mem[n] = Nothing
  /\ \A n \in Frames : BytesOf(f.mem[n].data) <= f.room[n]
  /\ \A n \in InSeq(f.queue) : WholeFrame(f.mem[n])

\* The parser counts the bytes of the frame in hand, which has room for a whole one.
PartInv(f) ==
  /\ f.rx.partial = None => f.rx.bytes = 0
  /\ f.rx.partial # None =>
       /\ f.rx.calculated # -1 /\ f.room[f.rx.partial] >= f.rx.calculated
       /\ f.rx.bytes = BytesOf(Data(f)) /\ f.rx.bytes <= f.rx.calculated
       /\ Begun(Data(f))

\* The packet that comes next goes on with the frame in hand, or starts one.
NextInv(f) ==
  /\ f.rx.waiting => f.rx.bytes = 0
  /\ ~f.rx.waiting /\ f.rx.bytes = 0 => f.rx.next \in Numbers /\ StartsFrame(Packet(f.rx.next))
  /\ f.rx.bytes # 0 => f.rx.next = Following(Data(f)[Len(Data(f))])

Base(f, L) ==
  /\ FifoTypes(f) /\ PlacesInv(f, L, InHand(f)) /\ LentInv(f, L) /\ ContentInv(f, InHand(f))
  /\ PartInv(f)

Inv ==
  /\ sender \in Numbers /\ late \in Numbers \cup {NoNumber} /\ faults \in 0..Faults
  /\ started \in BOOLEAN /\ (~started => rx.partial = None)
  /\ Base(Fifo, lent) /\ NextInv(Fifo)

--------------------------------------------------------------------------------
(* What the helpers do to the FIFO.                                        *)

LEMMA FramesAre ==
  /\ Frames = 1..MaxSize + Lent + 1 /\ None \notin Frames
  /\ IsFiniteSet(Frames) /\ Cardinality(Frames) = MaxSize + Lent + 1
  <1>1. MaxSize + Lent + 1 \in Nat
    BY Constants
  <1>2. /\ IsFiniteSet(1..MaxSize + Lent + 1)
        /\ Cardinality(1..MaxSize + Lent + 1) = MaxSize + Lent + 1
    BY <1>1, FS_Interval
  <1> QED BY <1>1, <1>2 DEF Frames, None

LEMMA NothingHeld ==
  /\ Nothing.data \in Seq(Numbers) /\ BytesOf(Nothing.data) = 0 /\ Nothing.data = <<>>
  <1>1. <<>> \in Seq(Numbers)
    OBVIOUS
  <1> QED BY <1>1, Sizes DEF Nothing

LEMMA NewRxIs == RxTypes(NewRx) /\ NewRx.partial = None /\ NewRx.bytes = 0 /\ NewRx.waiting
  BY DEF NewRx, RxTypes, RxFields, Known, None

\* A parser that is another, over the same frames.
LEMMA RxIs ==
  ASSUME NEW f, FifoTypes(f), NEW r, RxTypes(r)
  PROVE  /\ FifoTypes([f EXCEPT !.rx = r]) /\ [f EXCEPT !.rx = r].rx = r
         /\ [f EXCEPT !.rx = r].free = f.free /\ [f EXCEPT !.rx = r].room = f.room
         /\ [f EXCEPT !.rx = r].mem = f.mem /\ [f EXCEPT !.rx = r].queue = f.queue
  BY DEF FifoTypes, FifoFields

\* The frame in hand is as it was.
SamePart(f, g) ==
  /\ g.free = f.free /\ g.room = f.room /\ g.mem = f.mem /\ g.queue = f.queue
  /\ g.rx.partial = f.rx.partial /\ g.rx.bytes = f.rx.bytes
  /\ f.rx.partial # None => g.rx.calculated = f.rx.calculated

LEMMA SameKeeps ==
  ASSUME NEW f, NEW g, NEW L, Base(f, L), FifoTypes(g), SamePart(f, g)
  PROVE  Base(g, L)
  BY DEF Base, SamePart, PlacesInv, LentInv, ContentInv, PartInv, InHand, Existing, Data

\* A frame that is in hand or lent goes back to the pool.
LEMMA ReturnIs ==
  ASSUME NEW f, NEW L, NEW H, NEW frame \in L \cup H, FifoTypes(f), PlacesInv(f, L, H),
         LentInv(f, L), ContentInv(f, H)
  PROVE  /\ FifoTypes(Return(f, frame)) /\ Return(f, frame).rx = f.rx
         /\ PlacesInv(Return(f, frame), L \ {frame}, H \ {frame})
         /\ LentInv(Return(f, frame), L \ {frame}) /\ ContentInv(Return(f, frame), H \ {frame})
  <1> DEFINE y == Return(f, frame)
  <1>2. /\ y.rx = f.rx /\ y.free = <<frame>> \o f.free /\ y.room = f.room /\ y.queue = f.queue
        /\ y.mem = [f.mem EXCEPT ![frame] = Nothing]
        /\ DOMAIN y = FifoFields /\ y = [x \in FifoFields |-> y[x]]
    BY DEF Return, FifoTypes, FifoFields
  <1> HIDE DEF y
  <1>3. frame \in Frames /\ frame \notin InSeq(f.free) /\ frame \notin InSeq(f.queue)
    BY DEF PlacesInv, Places, Existing
  <1>4. /\ y.mem = [n \in Frames |-> y.mem[n]] /\ y.mem[frame] = Nothing
        /\ \A n \in Frames : n # frame => y.mem[n] = f.mem[n]
    BY <1>2, <1>3 DEF FifoTypes
  <1>5. f.free \in Seq(Frames)
    BY DEF FifoTypes
  <1>6. y.free \in Seq(Frames) /\ InSeq(y.free) = InSeq(f.free) \cup {frame} /\ Once(y.free)
    BY <1>2, <1>3, <1>5, PushIs DEF PlacesInv
  <1>7. FifoTypes(y)
    <2>1. \A n \in Frames : y.mem[n].data \in Seq(Numbers)
      BY <1>4, NothingHeld DEF FifoTypes
    <2> QED BY <1>2, <1>4, <1>6, <2>1 DEF FifoTypes
  <1>8. PlacesInv(y, L \ {frame}, H \ {frame})
    <2>1. Existing(y) = Existing(f)
      BY <1>2 DEF Existing
    <2>2. Places(InSeq(f.free) \cup {frame}, InSeq(f.queue), L \ {frame}, H \ {frame}, Existing(f))
      BY <1>3 DEF PlacesInv, Places
    <2> QED BY <1>2, <1>6, <2>1, <2>2 DEF PlacesInv
  <1>9. LentInv(y, L \ {frame})
    <2>1. IsFiniteSet(L)
      BY DEF LentInv
    <2>2. IsFiniteSet(L \ {frame}) /\ Cardinality(L \ {frame}) <= Cardinality(L)
          /\ Cardinality(L \ {frame}) \in Nat /\ Cardinality(L) \in Nat
      BY <2>1, FS_Subset, FS_CardinalityType
    <2> QED BY <1>2, <2>2, Constants DEF LentInv
  <1>10. ContentInv(y, H \ {frame})
    <2>1. y.room[frame] \in Nat
      BY <1>2, <1>3 DEF FifoTypes
    <2> QED BY <1>2, <1>3, <1>4, <2>1, NothingHeld DEF ContentInv
  <1> QED BY <1>2, <1>7, <1>8, <1>9, <1>10 DEF y

\* The stream is forgotten, with the frame in hand, and all goes on as at the start.
LEMMA ForgetIs ==
  ASSUME NEW f, NEW L, FifoTypes(f), PlacesInv(f, L, InHand(f)), LentInv(f, L),
         ContentInv(f, InHand(f))
  PROVE  /\ Base(ForgetStreamAndFrame(f), L) /\ NextInv(ForgetStreamAndFrame(f))
         /\ ForgetStreamAndFrame(f).rx.partial = None
  <1> DEFINE g == IF f.rx.partial = None THEN f ELSE Return(f, f.rx.partial)
             y == [g EXCEPT !.rx = NewRx]
  <1>1. /\ FifoTypes(g) /\ PlacesInv(g, L, {}) /\ LentInv(g, L) /\ ContentInv(g, {})
    <2>1. CASE f.rx.partial = None
      BY <2>1 DEF InHand
    <2>2. CASE f.rx.partial # None
      <3> DEFINE frame == f.rx.partial
      <3>1. frame \in L \cup InHand(f) /\ frame \notin L /\ InHand(f) = {frame}
        BY <2>2 DEF InHand, PlacesInv, Places
      <3>2. L \ {frame} = L /\ InHand(f) \ {frame} = {} /\ g = Return(f, frame)
        BY <2>2, <3>1
      <3> HIDE DEF g, frame
      <3>3. /\ FifoTypes(Return(f, frame))
            /\ PlacesInv(Return(f, frame), L \ {frame}, InHand(f) \ {frame})
            /\ LentInv(Return(f, frame), L \ {frame})
            /\ ContentInv(Return(f, frame), InHand(f) \ {frame})
        BY <3>1, ReturnIs
      <3> QED BY <3>2, <3>3
    <2> QED BY <2>1, <2>2
  <1> HIDE DEF g
  <1>2. /\ FifoTypes(y) /\ y.rx = NewRx /\ y.free = g.free /\ y.room = g.room /\ y.mem = g.mem
        /\ y.queue = g.queue
    BY <1>1, NewRxIs, RxIs
  <1> HIDE DEF y
  <1>3. InHand(y) = {}
    BY <1>2, NewRxIs DEF InHand
  <1>4. Base(y, L)
    BY <1>1, <1>2, <1>3, NewRxIs DEF Base, PlacesInv, LentInv, ContentInv, PartInv, Existing
  <1>5. NextInv(y)
    BY <1>2, NewRxIs DEF NextInv
  <1>6. y = ForgetStreamAndFrame(f)
    BY DEF y, g, ForgetStreamAndFrame
  <1> QED BY <1>2, <1>4, <1>5, <1>6, NewRxIs

LEMMA EmptyIs == <<>> \in Seq(Frames) /\ InSeq(<<>>) = {} /\ Once(<<>>) /\ Len(<<>>) = 0
  BY DEF InSeq, Once

\* A frame that was received goes to the queue, or to the pool when the queue is full.
LEMMA QueueIs ==
  ASSUME NEW f, NEW L, NEW frame, FifoTypes(f), PlacesInv(f, L, {frame}), LentInv(f, L),
         ContentInv(f, {frame}), WholeFrame(f.mem[frame])
  PROVE  /\ FifoTypes(Push(f, frame)) /\ Push(f, frame).rx = f.rx
         /\ PlacesInv(Push(f, frame), L, {}) /\ LentInv(Push(f, frame), L)
         /\ ContentInv(Push(f, frame), {})
  <1>1. frame \in Frames /\ frame \notin InSeq(f.free) /\ frame \notin InSeq(f.queue)
        /\ frame \notin L
    BY DEF PlacesInv, Places, Existing
  <1>2. CASE ~(Len(f.queue) < MaxSize)
    <2>1. Push(f, frame) = Return(f, frame)
      BY <1>2 DEF Push
    <2>2. L \ {frame} = L /\ {frame} \ {frame} = {} /\ frame \in L \cup {frame}
      BY <1>1
    <2>3. /\ FifoTypes(Return(f, frame)) /\ Return(f, frame).rx = f.rx
          /\ PlacesInv(Return(f, frame), L \ {frame}, {frame} \ {frame})
          /\ LentInv(Return(f, frame), L \ {frame})
          /\ ContentInv(Return(f, frame), {frame} \ {frame})
      BY <2>2, ReturnIs
    <2> QED BY <2>1, <2>2, <2>3
  <1>3. CASE Len(f.queue) < MaxSize
    <2> DEFINE y == [f EXCEPT !.queue = Append(@, frame)]
    <2>1. /\ y.rx = f.rx /\ y.free = f.free /\ y.room = f.room /\ y.mem = f.mem
          /\ y.queue = Append(f.queue, frame)
          /\ DOMAIN y = FifoFields /\ y = [x \in FifoFields |-> y[x]]
      BY DEF FifoTypes, FifoFields
    <2>2. Push(f, frame) = y
      BY <1>3 DEF Push
    <2> HIDE DEF y
    <2>3. f.queue \in Seq(Frames) /\ Len(f.queue) \in Nat
      BY DEF FifoTypes
    <2>4. /\ y.queue \in Seq(Frames) /\ Len(y.queue) = Len(f.queue) + 1
          /\ InSeq(y.queue) = InSeq(f.queue) \cup {frame} /\ Once(y.queue)
      BY <1>1, <2>1, <2>3, AppendIs DEF PlacesInv
    <2>5. FifoTypes(y)
      BY <2>1, <2>4 DEF FifoTypes
    <2>6. PlacesInv(y, L, {})
      <3>1. Existing(y) = Existing(f)
        BY <2>1 DEF Existing
      <3>2. Places(InSeq(f.free), InSeq(f.queue) \cup {frame}, L, {}, Existing(f))
        BY <1>1 DEF PlacesInv, Places
      <3> QED BY <2>1, <2>4, <3>1, <3>2 DEF PlacesInv
    <2>7. LentInv(y, L)
      BY <1>3, <2>3, <2>4, Constants DEF LentInv
    <2>8. ContentInv(y, {})
      BY <2>1, <2>4 DEF ContentInv
    <2> QED BY <2>1, <2>2, <2>5, <2>6, <2>7, <2>8
  <1> QED BY <1>2, <1>3

\* The queue goes to the pool, frame by frame.
LEMMA ClearedIs ==
  ASSUME NEW f, NEW L, FifoTypes(f), PlacesInv(f, L, {}), LentInv(f, L), ContentInv(f, {})
  PROVE  /\ FifoTypes(Cleared(f)) /\ Cleared(f).rx = f.rx
         /\ PlacesInv(Cleared(f), L, {}) /\ LentInv(Cleared(f), L) /\ ContentInv(Cleared(f), {})
  <1> DEFINE y == Cleared(f)
  <1>1. /\ y.rx = f.rx /\ y.free = Seqs!Reverse(f.queue) \o f.free /\ y.room = f.room
        /\ y.queue = <<>> /\ y.mem = [n \in Frames |-> Nothing]
        /\ DOMAIN y = FifoFields /\ y = [x \in FifoFields |-> y[x]]
    BY DEF Cleared, FifoTypes, FifoFields
  <1> HIDE DEF y
  <1>2. f.queue \in Seq(Frames) /\ f.free \in Seq(Frames) /\ Once(f.free) /\ Once(f.queue)
        /\ InSeq(f.queue) \cap InSeq(f.free) = {}
    BY DEF FifoTypes, PlacesInv, Places
  <1>3. /\ Seqs!Reverse(f.queue) \in Seq(Frames) /\ Once(Seqs!Reverse(f.queue))
        /\ InSeq(Seqs!Reverse(f.queue)) = InSeq(f.queue)
    BY <1>2, ReverseIs
  <1>4. y.free \in Seq(Frames) /\ InSeq(y.free) = InSeq(f.queue) \cup InSeq(f.free) /\ Once(y.free)
    BY <1>1, <1>2, <1>3, ConcatIs
  <1>5. y.queue \in Seq(Frames) /\ InSeq(y.queue) = {} /\ Once(y.queue) /\ Len(y.queue) = 0
    BY <1>1, EmptyIs
  <1>6. FifoTypes(y)
    BY <1>1, <1>4, <1>5, NothingHeld DEF FifoTypes
  <1>7. PlacesInv(y, L, {})
    <2>1. Existing(y) = Existing(f)
      BY <1>1 DEF Existing
    <2>2. Places(InSeq(f.queue) \cup InSeq(f.free), {}, L, {}, Existing(f))
      BY DEF PlacesInv, Places
    <2> QED BY <1>1, <1>4, <1>5, <2>1, <2>2 DEF PlacesInv
  <1>8. LentInv(y, L)
    BY <1>5, Constants DEF LentInv
  <1>9. ContentInv(y, {})
    BY <1>1, <1>5, NothingHeld DEF ContentInv, FifoTypes
  <1> QED BY <1>1, <1>6, <1>7, <1>8, <1>9 DEF y

\* There is a frame that is not in use when the pool has none and none is in hand.
LEMMA OneIsLeft ==
  ASSUME NEW f, NEW L, FifoTypes(f), PlacesInv(f, L, {}), LentInv(f, L), f.free = <<>>
  PROVE  \E n \in Frames : f.room[n] = 0
  <1>1. Existing(f) = InSeq(f.queue) \cup L
    BY EmptyIs DEF PlacesInv, Places
  <1>2. /\ IsFiniteSet(InSeq(f.queue)) /\ Cardinality(InSeq(f.queue)) <= Len(f.queue)
        /\ f.queue \in Seq(Frames) /\ Len(f.queue) \in Nat
    BY InSeqIsFinite DEF FifoTypes
  <1>3. IsFiniteSet(L) /\ Cardinality(L) <= Lent /\ Len(f.queue) <= MaxSize
    BY DEF LentInv
  <1>4. Cardinality(InSeq(f.queue)) \in Nat /\ Cardinality(L) \in Nat
        /\ Cardinality(InSeq(f.queue) \cap L) \in Nat
    BY <1>2, <1>3, FS_CardinalityType, FS_Intersection
  <1>5. /\ Cardinality(InSeq(f.queue) \cup L)
             = Cardinality(InSeq(f.queue)) + Cardinality(L) - Cardinality(InSeq(f.queue) \cap L)
    BY <1>2, <1>3, FS_Union
  <1>6. Cardinality(Existing(f)) < Cardinality(Frames)
    BY <1>1, <1>2, <1>3, <1>4, <1>5, FramesAre, Constants
  <1>7. Existing(f) # Frames
    <2> SUFFICES ASSUME Existing(f) = Frames PROVE FALSE
      OBVIOUS
    <2>1. Cardinality(Frames) < Cardinality(Frames)
      BY <1>6
    <2>2. Cardinality(Frames) \in Int
      BY FramesAre, Constants
    <2> QED BY <2>1, <2>2
  <1> QED BY <1>7 DEF Existing

\* A frame of the pool, or a new one, has the room asked for.
LEMMA GetIs ==
  ASSUME NEW f, NEW L, Base(f, L), f.rx.partial = None, f.rx.calculated # -1
  PROVE  /\ Base(Get(f, f.rx.calculated), L) /\ Data(Get(f, f.rx.calculated)) = <<>>
         /\ \E n \in Frames : Get(f, f.rx.calculated).rx = [f.rx EXCEPT !.partial = n]
  <1> DEFINE size == f.rx.calculated
             frame == IF f.free # <<>> THEN Head(f.free)
                      ELSE CHOOSE n \in Frames : f.room[n] = 0
             y == Get(f, size)
  <1>0. /\ FifoTypes(f) /\ PlacesInv(f, L, {}) /\ LentInv(f, L) /\ ContentInv(f, {})
        /\ f.rx.bytes = 0
    BY DEF Base, InHand, PartInv
  <1>1. f.free \in Seq(Frames) /\ f.room \in [Frames -> Nat] /\ size \in Nat \ {0}
    BY <1>0 DEF FifoTypes, RxTypes
  <1> HIDE DEF size
  <1>3. frame \in Frames /\ (f.free = <<>> => f.room[frame] = 0)
    <2>1. CASE f.free # <<>>
      BY <1>1, <2>1
    <2>2. CASE f.free = <<>>
      <3>1. \E n \in Frames : f.room[n] = 0
        BY <1>0, <2>2, OneIsLeft
      <3> QED BY <2>2, <3>1
    <2> QED BY <2>1, <2>2
  <1>4. /\ y.rx = [f.rx EXCEPT !.partial = frame]
        /\ y.free = IF f.free = <<>> THEN f.free ELSE Tail(f.free)
        /\ y.room = [f.room EXCEPT ![frame] = IF @ >= size THEN @ ELSE size]
        /\ y.mem = f.mem /\ y.queue = f.queue
        /\ DOMAIN y = FifoFields /\ y = [x \in FifoFields |-> y[x]]
    <2> DEFINE e == EnsureDataCapacity(f, frame, size)
    <2>1. y = [e EXCEPT !.free = IF @ = <<>> THEN @ ELSE Tail(@), !.rx.partial = frame]
      BY DEF Get
    <2> HIDE DEF y, frame
    <2>2. /\ e.rx = f.rx /\ e.free = f.free /\ e.mem = f.mem /\ e.queue = f.queue
          /\ e.room = [f.room EXCEPT ![frame] = IF @ >= size THEN @ ELSE size]
          /\ DOMAIN e = FifoFields /\ e = [x \in FifoFields |-> e[x]]
      BY <1>0 DEF EnsureDataCapacity, FifoTypes, FifoFields
    <2> HIDE DEF e
    <2> QED BY <2>1, <2>2 DEF FifoFields
  <1>5. f.free # <<>> =>
          /\ frame = Head(f.free) /\ InSeq(f.free) = InSeq(Tail(f.free)) \cup {frame}
          /\ frame \notin InSeq(Tail(f.free)) /\ Once(Tail(f.free)) /\ Tail(f.free) \in Seq(Frames)
    BY <1>0, <1>1, TailIs DEF PlacesInv
  <1> HIDE DEF y, frame
  <1>6. /\ y.room \in [Frames -> Nat] /\ y.room[frame] >= size /\ y.room[frame] # 0
        /\ \A n \in Frames : y.room[n] >= f.room[n] /\ (n # frame => y.room[n] = f.room[n])
    BY <1>1, <1>3, <1>4
  <1>7. InSeq(y.free) = InSeq(f.free) \ {frame} /\ Once(y.free) /\ y.free \in Seq(Frames)
        /\ (f.free = <<>> => InSeq(f.free) = {})
    <2>1. CASE f.free = <<>>
      BY <1>0, <1>4, <2>1, EmptyIs
    <2>2. CASE f.free # <<>>
      BY <1>4, <1>5, <2>2
    <2> QED BY <2>1, <2>2
  <1>8. /\ frame \notin InSeq(f.queue) /\ frame \notin L /\ Existing(y) = Existing(f) \cup {frame}
        /\ (f.free # <<>> => frame \in InSeq(f.free))
    <2>1. Existing(y) = Existing(f) \cup {frame}
      BY <1>1, <1>3, <1>6 DEF Existing
    <2>2. f.free # <<>> => frame \in InSeq(f.free)
      BY <1>5
    <2>3. f.free = <<>> => frame \notin Existing(f)
      BY <1>3 DEF Existing
    <2> QED BY <1>0, <2>1, <2>2, <2>3 DEF PlacesInv, Places
  <1>9. PlacesInv(y, L, {frame})
    <2>1. Places(InSeq(f.free) \ {frame}, InSeq(f.queue), L, {frame}, Existing(f) \cup {frame})
      BY <1>0, <1>8 DEF PlacesInv, Places
    <2> QED BY <1>0, <1>4, <1>7, <1>8, <2>1 DEF PlacesInv
  <1>10. /\ RxTypes(y.rx) /\ y.rx.partial = frame /\ y.rx.bytes = 0 /\ y.rx.calculated = size
    <2>1. RxTypes(f.rx)
      BY <1>0 DEF FifoTypes
    <2> QED BY <1>0, <1>3, <1>4, <2>1 DEF RxTypes, RxFields, size
  <1>11. FifoTypes(y)
    BY <1>0, <1>4, <1>6, <1>7, <1>10 DEF FifoTypes
  <1>12. InHand(y) = {frame} /\ frame # None
    BY <1>3, <1>10, FramesAre DEF InHand
  <1>13. LentInv(y, L)
    BY <1>0, <1>4 DEF LentInv
  <1>14. ContentInv(y, {frame})
    <2>1. \A n \in Frames : BytesOf(f.mem[n].data) \in Nat
      BY <1>0, Sizes DEF FifoTypes
    <2>2. \A n \in Frames : BytesOf(y.mem[n].data) <= y.room[n]
      BY <1>0, <1>1, <1>4, <1>6, <2>1 DEF ContentInv
    <2> QED BY <1>0, <1>4, <2>2 DEF ContentInv
  <1>15. Data(y) = <<>>
    BY <1>0, <1>3, <1>4, <1>8, <1>10, NothingHeld DEF Data, ContentInv
  <1>16. PartInv(y)
    <2>1. BytesOf(Data(y)) = 0 /\ Begun(Data(y))
      BY <1>15, NothingHeld DEF Begun
    <2> QED BY <1>1, <1>6, <1>10, <1>12, <2>1 DEF PartInv
  <1>17. Base(y, L)
    BY <1>9, <1>11, <1>12, <1>13, <1>14, <1>16 DEF Base
  <1> QED BY <1>3, <1>4, <1>15, <1>17 DEF y, size

--------------------------------------------------------------------------------
(* The parser takes a packet.                                              *)

\* The packets of one frame, all of them.
Ended(data, field) ==
  /\ data # <<>> /\ StartsFrame(Packet(data[1]))
  /\ \A i \in DOMAIN data : /\ i > 1 => data[i] = Following(data[i - 1])
                            /\ Packet(data[i]).marker <=> i = Len(data)
                            /\ field = Packet(data[i]).field

LEMMA BytesAre ==
  ASSUME NEW r, RxTypes(r), NEW bytes \in Nat
  PROVE  /\ RxTypes([r EXCEPT !.bytes = bytes]) /\ [r EXCEPT !.bytes = bytes].bytes = bytes
         /\ [r EXCEPT !.bytes = bytes].partial = r.partial
         /\ [r EXCEPT !.bytes = bytes].calculated = r.calculated
         /\ [r EXCEPT !.bytes = bytes].waiting = r.waiting
         /\ [r EXCEPT !.bytes = bytes].next = r.next
  BY DEF RxTypes, RxFields

LEMMA NoHandIs ==
  ASSUME NEW r, RxTypes(r)
  PROVE  /\ RxTypes([r EXCEPT !.partial = None, !.bytes = 0])
         /\ [r EXCEPT !.partial = None, !.bytes = 0].partial = None
         /\ [r EXCEPT !.partial = None, !.bytes = 0].bytes = 0
         /\ [r EXCEPT !.partial = None, !.bytes = 0].waiting = r.waiting
         /\ [r EXCEPT !.partial = None, !.bytes = 0].next = r.next
  BY DEF RxTypes, RxFields

LEMMA DataGrows ==
  ASSUME NEW data \in Seq(Numbers), Begun(data), NEW s \in Numbers,
         data # <<>> => s = Following(data[Len(data)]),
         data = <<>> => StartsFrame(Packet(s))
  PROVE  /\ Append(data, s) \in Seq(Numbers) /\ Append(data, s) # <<>>
         /\ Append(data, s)[Len(Append(data, s))] = s
         /\ ~Packet(s).marker => Begun(Append(data, s))
         /\ Packet(s).marker => Ended(Append(data, s), Packet(s).field)
  <1> DEFINE d == Append(data, s)
             N == Len(data)
  <1>1. /\ N \in Nat /\ DOMAIN data = 1..N /\ d \in Seq(Numbers) /\ Len(d) = N + 1
        /\ DOMAIN d = 1..N + 1 /\ d # <<>> /\ d[N + 1] = s /\ (\A i \in 1..N : d[i] = data[i])
        /\ (data = <<>> <=> N = 0)
    <2>1. N \in Nat /\ DOMAIN data = 1..N /\ (data = <<>> <=> N = 0)
      OBVIOUS
    <2>2. d \in Seq(Numbers) /\ Len(d) = N + 1 /\ d[N + 1] = s
      OBVIOUS
    <2>3. \A i \in 1..N : d[i] = data[i]
      OBVIOUS
    <2> HIDE DEF d, N
    <2>4. DOMAIN d = 1..N + 1 /\ d # <<>>
      BY <2>1, <2>2
    <2> QED BY <2>1, <2>2, <2>3, <2>4
  <1> HIDE DEF d, N
  <1>2. StartsFrame(Packet(d[1]))
    <2>1. CASE N = 0
      BY <1>1, <2>1
    <2>2. CASE N # 0
      BY <1>1, <2>2 DEF Begun
    <2> QED BY <2>1, <2>2
  <1>3. \A i \in DOMAIN d : i > 1 => d[i] = Following(d[i - 1])
    <2> SUFFICES ASSUME NEW i \in 1..N + 1, i > 1 PROVE d[i] = Following(d[i - 1])
      BY <1>1
    <2>1. CASE i = N + 1
      <3>1. N # 0 /\ i - 1 = N /\ N \in 1..N
        BY <1>1, <2>1
      <3>2. d[N] = data[N] /\ data # <<>>
        BY <1>1, <3>1
      <3> QED BY <1>1, <2>1, <3>1, <3>2 DEF N
    <2>2. CASE i \in 1..N
      <3>1. i - 1 \in 1..N
        BY <1>1, <2>2
      <3> QED BY <1>1, <2>2, <3>1 DEF Begun
    <2> QED BY <1>1, <2>1, <2>2
  <1>4. \A i \in 1..N : ~Packet(d[i]).marker
    BY <1>1 DEF Begun
  <1>5. \A i \in 1..N + 1 : Packet(d[i]).field = Packet(s).field
    <2>1. N # 0 => Packet(data[N]).field = Packet(data[1]).field
      BY <1>1 DEF Begun
    <2>2. N # 0 => Packet(s).field = Packet(data[N]).field
      <3> SUFFICES ASSUME N # 0 PROVE Packet(s).field = Packet(data[N]).field
        OBVIOUS
      <3>1. N \in 1..N /\ data[N] \in Numbers /\ s = Following(data[N])
        BY <1>1 DEF N
      <3>2. ~Packet(data[N]).marker
        BY <1>1, <3>1 DEF Begun
      <3> QED BY <3>1, <3>2, FollowingIs
    <2>3. \A i \in 1..N : Packet(data[i]).field = Packet(s).field
      BY <1>1, <2>1, <2>2 DEF Begun
    <2> SUFFICES ASSUME NEW i \in 1..N + 1 PROVE Packet(d[i]).field = Packet(s).field
      OBVIOUS
    <2>4. i = N + 1 \/ i \in 1..N
      BY <1>1
    <2> QED BY <1>1, <2>3, <2>4
  <1>6. ASSUME ~Packet(s).marker PROVE Begun(d)
    <2>1. \A i \in DOMAIN d : ~Packet(d[i]).marker
      <3> SUFFICES ASSUME NEW i \in 1..N + 1 PROVE ~Packet(d[i]).marker
        BY <1>1
      <3>1. i = N + 1 \/ i \in 1..N
        BY <1>1
      <3> QED BY <1>1, <1>4, <1>6, <3>1
    <2>2. 1 \in 1..N + 1
      BY <1>1
    <2> QED BY <1>1, <1>2, <1>3, <1>5, <2>1, <2>2 DEF Begun
  <1>7. ASSUME Packet(s).marker PROVE Ended(d, Packet(s).field)
    <2>1. \A i \in DOMAIN d : Packet(d[i]).marker <=> i = Len(d)
      <3> SUFFICES ASSUME NEW i \in 1..N + 1 PROVE Packet(d[i]).marker <=> i = N + 1
        BY <1>1
      <3>1. CASE i = N + 1
        BY <1>1, <1>7, <3>1
      <3>2. CASE i \in 1..N
        <4>1. i # N + 1
          BY <1>1, <3>2
        <4> QED BY <1>4, <3>2, <4>1
      <3> QED BY <1>1, <3>1, <3>2
    <2>2. \A i \in DOMAIN d : Packet(s).field = Packet(d[i]).field
      BY <1>1, <1>5
    <2> QED BY <1>1, <1>2, <1>3, <2>1, <2>2 DEF Ended
  <1> QED BY <1>1, <1>6, <1>7 DEF d

\* The frame in hand is delivered.
LEMMA DeliverIs ==
  ASSUME NEW f, NEW L, NEW p, Arrival(p), p.marker, FifoTypes(f), f.rx.partial # None,
         PlacesInv(f, L, InHand(f)), LentInv(f, L), ContentInv(f, InHand(f)),
         Ended(Data(f), p.field), f.rx.next = p.next, ~f.rx.waiting
  PROVE  Base(DeliverFrame(f, p), L) /\ NextInv(DeliverFrame(f, p))
  <1> DEFINE frame == f.rx.partial
             lines == IF f.rx.interlaced /\ f.rx.rowSize > 0 THEN f.rx.bytes \div f.rx.rowSize
                      ELSE f.rx.numRows
             m == [data |-> f.mem[frame].data, field |-> p.field, numRows |-> lines]
             h == [f EXCEPT !.rx.partial = None, !.rx.bytes = 0,
                            !.mem[frame] = [data |-> @.data, field |-> p.field, numRows |-> lines]]
             y == Push(h, frame)
  <1>1. DeliverFrame(f, p) = y
    BY DEF DeliverFrame
  <1>2. frame \in Frames /\ InHand(f) = {frame} /\ RxTypes(f.rx)
    BY DEF FifoTypes, RxTypes, InHand
  <1>3. m.data = Data(f) /\ m.field = p.field
    BY DEF Data
  <1> HIDE DEF lines
  <1>4. /\ h.rx = [f.rx EXCEPT !.partial = None, !.bytes = 0]
        /\ h.free = f.free /\ h.room = f.room /\ h.queue = f.queue
        /\ h.mem = [f.mem EXCEPT ![frame] = m]
        /\ DOMAIN h = FifoFields /\ h = [x \in FifoFields |-> h[x]]
    <2> HIDE DEF frame
    <2> QED BY DEF FifoTypes, FifoFields
  <1> HIDE DEF h, m, frame
  <1>5. /\ h.rx.partial = None /\ h.rx.bytes = 0 /\ h.rx.next = p.next /\ ~h.rx.waiting
        /\ RxTypes(h.rx)
    <2> DEFINE r == [f.rx EXCEPT !.partial = None, !.bytes = 0]
    <2>1. /\ RxTypes(r) /\ r.partial = None /\ r.bytes = 0 /\ r.waiting = f.rx.waiting
          /\ r.next = f.rx.next
      BY <1>2, NoHandIs
    <2>2. h.rx = r
      BY <1>4
    <2> HIDE DEF r
    <2> QED BY <2>1, <2>2
  <1>6. h.mem = [n \in Frames |-> h.mem[n]] /\ h.mem[frame] = m
        /\ \A n \in Frames : n # frame => h.mem[n] = f.mem[n]
    BY <1>2, <1>4 DEF FifoTypes
  <1>7. \A n \in Frames : h.mem[n].data = f.mem[n].data /\ f.mem[n].data \in Seq(Numbers)
    BY <1>3, <1>6 DEF FifoTypes, Data, frame
  <1>8. FifoTypes(h)
    BY <1>4, <1>5, <1>6, <1>7 DEF FifoTypes
  <1>9. PlacesInv(h, L, {frame}) /\ LentInv(h, L)
    BY <1>2, <1>4 DEF PlacesInv, LentInv, Existing
  <1>10. frame \notin InSeq(f.queue)
    BY <1>2 DEF PlacesInv, Places
  <1>11. ContentInv(h, {frame})
    <2>1. InSeq(f.queue) \subseteq Frames
      BY InSeqIs DEF FifoTypes
    <2> QED BY <1>2, <1>4, <1>6, <1>7, <1>10, <2>1 DEF ContentInv
  <1>12. WholeFrame(h.mem[frame])
    BY <1>3, <1>6 DEF WholeFrame, Ended
  <1>13. /\ FifoTypes(y) /\ y.rx = h.rx /\ PlacesInv(y, L, {}) /\ LentInv(y, L)
         /\ ContentInv(y, {})
    BY <1>8, <1>9, <1>11, <1>12, QueueIs
  <1> HIDE DEF y
  <1>14. InHand(y) = {}
    BY <1>5, <1>13 DEF InHand
  <1>15. Base(y, L)
    BY <1>5, <1>13, <1>14 DEF Base, PartInv
  <1>16. StartsFrame(Packet(p.next))
    BY FollowingIs DEF Arrival
  <1>17. NextInv(y)
    BY <1>5, <1>13, <1>16 DEF NextInv, Arrival
  <1> QED BY <1>1, <1>15, <1>17

\* The packet that goes on with the frame in hand, or starts it, is put into it.
LEMMA AppendPacketIs ==
  ASSUME NEW f, NEW L, NEW p, Arrival(p), Base(f, L), f.rx.partial # None, ~f.rx.waiting,
         f.rx.next = p.next,
         Data(f) # <<>> => p.seqNum = Following(Data(f)[Len(Data(f))]),
         Data(f) = <<>> => StartsFrame(p)
  PROVE  Base(AppendPacket(f, p), L) /\ NextInv(AppendPacket(f, p))
  <1> DEFINE frame == f.rx.partial
             m == [data |-> Append(f.mem[frame].data, p.seqNum)]
             g == [f EXCEPT !.mem[f.rx.partial] = [data |-> Append(@.data, p.seqNum)],
                            !.rx.bytes = @ + p.size]
  <1>0. /\ FifoTypes(f) /\ PlacesInv(f, L, InHand(f)) /\ LentInv(f, L) /\ ContentInv(f, InHand(f))
        /\ PartInv(f)
    BY DEF Base
  <1>1. CASE f.rx.bytes + p.size > f.rx.calculated
    BY <1>0, <1>1, ForgetIs DEF AppendPacket
  <1>2. CASE ~(f.rx.bytes + p.size > f.rx.calculated)
    <2>1. AppendPacket(f, p) = IF p.marker THEN DeliverFrame(g, p) ELSE g
      BY <1>2 DEF AppendPacket
    <2>2. /\ g.rx = [f.rx EXCEPT !.bytes = @ + p.size]
          /\ g.free = f.free /\ g.room = f.room /\ g.queue = f.queue
          /\ g.mem = [f.mem EXCEPT ![frame] = m]
          /\ DOMAIN g = FifoFields /\ g = [x \in FifoFields |-> g[x]]
      BY <1>0 DEF FifoTypes, FifoFields
    <2>3. frame \in Frames /\ InHand(f) = {frame} /\ RxTypes(f.rx) /\ Data(f) = f.mem[frame].data
          /\ Data(f) \in Seq(Numbers)
      BY <1>0 DEF FifoTypes, RxTypes, InHand, Data
    <2>4. m.data = Append(Data(f), p.seqNum)
      BY <2>3
    <2>5. p.size \in Nat \ {0} /\ p.seqNum \in Numbers /\ p.size = PacketSize(Packet(p.seqNum))
      BY DEF Arrival
    <2> HIDE DEF g, m, frame
    <2>6. /\ g.rx.partial = frame /\ g.rx.bytes = f.rx.bytes + p.size /\ ~g.rx.waiting
          /\ g.rx.next = p.next /\ g.rx.calculated = f.rx.calculated /\ RxTypes(g.rx)
          /\ g.rx.bytes # 0
      <3>1. f.rx.bytes + p.size \in Nat \ {0}
        BY <2>3, <2>5 DEF RxTypes
      <3> QED BY <2>2, <2>3, <3>1, BytesAre DEF frame
    <2>7. g.mem = [n \in Frames |-> g.mem[n]] /\ g.mem[frame] = m
          /\ \A n \in Frames : n # frame => g.mem[n] = f.mem[n]
      BY <1>0, <2>2, <2>3, ZenonT(30) DEF FifoTypes
    <2>8. Data(g) = Append(Data(f), p.seqNum)
      BY <2>4, <2>6, <2>7, ZenonT(30) DEF Data
    <2>9. Begun(Data(f))
      BY <1>0 DEF PartInv
    <2>10. StartsFrame(p) => StartsFrame(Packet(p.seqNum))
      BY DEF StartsFrame, Arrival
    <2>11. /\ Data(g) \in Seq(Numbers) /\ Data(g)[Len(Data(g))] = p.seqNum
           /\ ~Packet(p.seqNum).marker => Begun(Data(g))
           /\ Packet(p.seqNum).marker => Ended(Data(g), Packet(p.seqNum).field)
      BY <2>3, <2>5, <2>8, <2>9, <2>10, DataGrows
    <2>12. FifoTypes(g)
      <3>1. \A n \in Frames : g.mem[n].data \in Seq(Numbers)
        BY <1>0, <2>4, <2>7, <2>8, <2>11 DEF FifoTypes
      <3> QED BY <1>0, <2>2, <2>6, <2>7, <3>1 DEF FifoTypes
    <2>13. InHand(g) = {frame}
      BY <2>3, <2>6, FramesAre DEF InHand
    <2>14. PlacesInv(g, L, {frame}) /\ LentInv(g, L)
      BY <1>0, <2>2, <2>3 DEF PlacesInv, LentInv, Existing
    <2>15. BytesOf(Data(g)) = g.rx.bytes
      BY <1>0, <2>3, <2>5, <2>6, <2>8, Sizes DEF PartInv
    <2>16. g.rx.bytes <= g.rx.calculated /\ g.rx.calculated <= g.room[frame]
           /\ g.rx.calculated \in Int /\ g.rx.bytes \in Int /\ g.room[frame] \in Int
           /\ g.rx.calculated # -1
      <3>1. f.rx.calculated # -1 /\ f.room[frame] >= f.rx.calculated
        BY <1>0 DEF PartInv, frame
      <3>2. g.room[frame] = f.room[frame] /\ f.room[frame] \in Nat
        BY <1>0, <2>2, <2>3 DEF FifoTypes
      <3>3. g.rx.calculated \in Int /\ g.rx.bytes \in Nat
        BY <2>6 DEF RxTypes
      <3> QED BY <1>2, <2>6, <3>1, <3>2, <3>3
    <2>17. ContentInv(g, {frame})
      <3>1. frame \notin InSeq(f.queue) /\ InSeq(f.queue) \subseteq Frames
        BY <1>0, <2>3, InSeqIs DEF PlacesInv, Places, FifoTypes
      <3>2. BytesOf(g.mem[frame].data) <= g.room[frame]
        <4>1. g.mem[frame].data = Data(g)
          BY <2>6 DEF Data
        <4>2. g.rx.bytes <= g.room[frame]
          BY <2>16
        <4> QED BY <2>15, <4>1, <4>2
      <3> QED BY <1>0, <2>2, <2>3, <2>7, <3>1, <3>2 DEF ContentInv
    <2>18. CASE p.marker
      <3>1. Ended(Data(g), p.field)
        BY <2>11, <2>18 DEF Arrival
      <3>2. g.rx.partial # None
        BY <2>3, <2>6, FramesAre
      <3> QED BY <2>1, <2>6, <2>12, <2>13, <2>14, <2>17, <2>18, <3>1, <3>2, DeliverIs
    <2>19. CASE ~p.marker
      <3>1. Begun(Data(g))
        BY <2>11, <2>19 DEF Arrival
      <3>2. PartInv(g)
        <4>1. g.rx.partial # None
          BY <2>3, <2>6, FramesAre
        <4>2. g.room[g.rx.partial] >= g.rx.calculated
          BY <2>6, <2>16
        <4> QED BY <2>15, <2>16, <3>1, <4>1, <4>2 DEF PartInv
      <3>3. Base(g, L)
        BY <2>12, <2>13, <2>14, <2>17, <3>2 DEF Base
      <3>4. NextInv(g)
        BY <2>6, <2>11 DEF NextInv, Arrival
      <3> QED BY <2>1, <2>19, <3>3, <3>4
    <2> QED BY <2>18, <2>19
  <1> QED BY <1>1, <1>2

--------------------------------------------------------------------------------
(* The parser learns the size of a frame.                                  *)

LEMMA CountIs ==
  ASSUME NEW r, RxTypes(r), NEW p, Arrival(p)
  PROVE  /\ RxTypes(CountFrameSize(r, p)) /\ CountFrameSize(r, p).partial = r.partial
         /\ CountFrameSize(r, p).bytes = r.bytes
  <1> DEFINE starts  == r.counted = -1 /\ StartsFrame(p)
             counts  == starts \/ (r.counted # -1 /\ p.seqNum = r.next)
             segment == LastSegment(p)
             rows    == segment.row + 1
             counted == IF ~counts THEN -1 ELSE p.size + (IF starts THEN 0 ELSE r.counted)
             size    == IF r.rowSize = -1 /\ p.segments[1].offset # 0 THEN -1
                        ELSE IF segment.offset = 0 THEN segment.length
                        ELSE r.rowSize + segment.length
             y       == [r EXCEPT !.counted = counted, !.countedRows = IF counts THEN rows ELSE 0,
                                  !.numRows = rows, !.rowSize = size]
  <1>1. segment \in Segment /\ segment.row \in Nat /\ segment.length \in Nat \ {0}
    <2>1. p.segments \in Seq(Segment) /\ p.segments # <<>>
      BY DEF Arrival
    <2>2. segment \in Segment
      BY <2>1 DEF LastSegment
    <2> QED BY <2>2 DEF Segment
  <1>2. CountFrameSize(r, p) = y
    BY DEF CountFrameSize
  <1>3. counted \in Known
    BY DEF Known, RxTypes, Arrival
  <1>4. size \in Known
    <2>1. r.rowSize \in Known
      BY DEF RxTypes
    <2> HIDE DEF segment
    <2> QED BY <1>1, <2>1 DEF Known
  <1>5. rows \in Known /\ (IF counts THEN rows ELSE 0) \in Nat
    BY <1>1 DEF Known
  <1> HIDE DEF counts, counted, size, rows
  <1> QED BY <1>2, <1>3, <1>4, <1>5 DEF RxTypes, RxFields

LEMMA CalculateIs ==
  ASSUME NEW r, RxTypes(r)
  PROVE  /\ RxTypes(CalculateFrameSize(r)) /\ CalculateFrameSize(r).partial = r.partial
         /\ CalculateFrameSize(r).bytes = r.bytes /\ CalculateFrameSize(r).next = r.next
         /\ CalculateFrameSize(r).waiting = r.waiting
  <1> DEFINE more == IF r.interlaced THEN 1 ELSE 0
             size == IF r.numRows >= 0 /\ r.rowSize >= 0 THEN (r.numRows + more) * r.rowSize
                     ELSE -1
             counted == IF r.counted # -1 /\ r.countedRows > 0
                        THEN r.counted + more * (r.counted \div r.countedRows) ELSE r.counted
             greatest == Greatest(size, counted)
             calculated == IF greatest > 0 THEN greatest ELSE -1
             y == [r EXCEPT !.calculated = calculated, !.counted = -1, !.countedRows = 0]
  <1>1. CalculateFrameSize(r) = y
    BY DEF CalculateFrameSize
  <1>2. size \in Int
    <2>1. r.numRows \in Int /\ r.rowSize \in Int /\ more \in Int
      BY DEF RxTypes, Known
    <2>2. (r.numRows + more) * r.rowSize \in Int
      <3> HIDE DEF more
      <3> QED BY <2>1
    <2> QED BY <2>2
  <1>3. counted \in Int
    <2>1. r.counted \in Int /\ r.countedRows \in Nat
      BY DEF RxTypes, Known
    <2>2. r.countedRows > 0 => r.counted \div r.countedRows \in Int
      BY <2>1
    <2>3. CASE r.interlaced
      BY <2>1, <2>2, <2>3
    <2>4. CASE ~r.interlaced
      BY <2>1, <2>2, <2>4
    <2> QED BY <2>3, <2>4
  <1> HIDE DEF size, counted
  <1>4. greatest \in Int
    BY <1>2, <1>3 DEF Greatest
  <1> HIDE DEF greatest
  <1>5. calculated \in (Nat \ {0}) \cup {-1}
    BY <1>4
  <1> HIDE DEF calculated
  <1>6. -1 \in Known
    BY DEF Known
  <1>7. /\ y.calculated = calculated /\ y.counted = -1 /\ y.countedRows = 0
        /\ \A x \in RxFields \ {"calculated", "counted", "countedRows"} : y[x] = r[x]
        /\ DOMAIN y = RxFields /\ y = [x \in RxFields |-> y[x]]
    BY DEF RxTypes, RxFields
  <1> HIDE DEF y
  <1> QED BY <1>1, <1>5, <1>6, <1>7 DEF RxTypes, RxFields

\* After a marker comes the first packet of a frame.
LEMMA MarkerIs ==
  ASSUME NEW p, Arrival(p), p.marker
  PROVE  StartsFrame(Packet(p.next))
  BY FollowingIs DEF Arrival

LEMMA LearnIs ==
  ASSUME NEW f, NEW L, NEW p, Arrival(p), Base(f, L), f.rx.bytes = 0
  PROVE  Base(Learn(f, p), L) /\ NextInv(Learn(f, p))
  <1> DEFINE r == IF f.rx.calculated = -1 THEN CountFrameSize(f.rx, p) ELSE f.rx
             known == r.calculated # -1 \/ (r.numRows # -1 /\ r.rowSize # -1) \/ r.counted # -1
             waits == ~(p.marker /\ known)
             s == [r EXCEPT !.next = p.next, !.waiting = waits]
             y == [f EXCEPT !.rx = s]
  <1>1. Learn(f, p) = y
    BY DEF Learn
  <1>2. FifoTypes(f) /\ RxTypes(f.rx) /\ PartInv(f)
    BY DEF Base, FifoTypes
  <1>3. /\ RxTypes(r) /\ r.partial = f.rx.partial /\ r.bytes = f.rx.bytes
        /\ f.rx.calculated # -1 => r.calculated = f.rx.calculated
    BY <1>2, CountIs
  <1> HIDE DEF r
  <1>4. waits \in BOOLEAN /\ (~waits => p.marker) /\ p.next \in Numbers
    BY DEF Arrival
  <1> HIDE DEF waits
  <1>5. /\ RxTypes(s) /\ s.partial = r.partial /\ s.bytes = r.bytes /\ s.calculated = r.calculated
        /\ s.next = p.next /\ s.waiting = waits
    BY <1>3, <1>4 DEF RxTypes, RxFields
  <1> HIDE DEF s
  <1>6. /\ FifoTypes(y) /\ y.rx = s /\ y.free = f.free /\ y.room = f.room /\ y.mem = f.mem
        /\ y.queue = f.queue
    BY <1>2, <1>5, RxIs
  <1> HIDE DEF y
  <1>7. SamePart(f, y)
    BY <1>2, <1>3, <1>5, <1>6 DEF SamePart, PartInv
  <1>8. Base(y, L)
    BY <1>6, <1>7, SameKeeps
  <1>9. NextInv(y)
    BY <1>3, <1>4, <1>5, <1>6, MarkerIs DEF NextInv
  <1> QED BY <1>1, <1>8, <1>9

--------------------------------------------------------------------------------
(* What was received of a frame is dropped.                                *)

LEMMA EmptiedIs ==
  ASSUME NEW f, NEW L, Base(f, L)
  PROVE  /\ Base(Empty(f), L) /\ Empty(f).rx.bytes = 0
         /\ Empty(f).rx.next = f.rx.next /\ Empty(f).rx.waiting = f.rx.waiting
  <1> DEFINE frame == f.rx.partial
             y == [f EXCEPT !.mem[f.rx.partial] = Nothing, !.rx.bytes = 0]
  <1>1. FifoTypes(f) /\ PlacesInv(f, L, InHand(f)) /\ LentInv(f, L) /\ ContentInv(f, InHand(f))
        /\ PartInv(f) /\ RxTypes(f.rx)
    BY DEF Base, FifoTypes
  <1>2. CASE f.rx.partial = None
    BY <1>1, <1>2 DEF Empty, PartInv
  <1>3. CASE f.rx.partial # None
    <2>1. Empty(f) = y
      BY <1>3 DEF Empty
    <2>2. /\ y.rx = [f.rx EXCEPT !.bytes = 0]
          /\ y.free = f.free /\ y.room = f.room /\ y.queue = f.queue
          /\ y.mem = [f.mem EXCEPT ![frame] = Nothing]
          /\ DOMAIN y = FifoFields /\ y = [x \in FifoFields |-> y[x]]
      BY <1>1 DEF FifoTypes, FifoFields
    <2> HIDE DEF y
    <2>3. frame \in Frames /\ InHand(f) = {frame} /\ frame # None
      BY <1>1, <1>3 DEF RxTypes, InHand
    <2>4. /\ RxTypes(y.rx) /\ y.rx.bytes = 0 /\ y.rx.partial = frame
          /\ y.rx.calculated = f.rx.calculated /\ y.rx.waiting = f.rx.waiting
          /\ y.rx.next = f.rx.next
      BY <1>1, <2>2, BytesAre
    <2> HIDE DEF frame
    <2>5. y.mem = [n \in Frames |-> y.mem[n]] /\ y.mem[frame] = Nothing
          /\ \A n \in Frames : n # frame => y.mem[n] = f.mem[n]
      BY <1>1, <2>2, <2>3 DEF FifoTypes
    <2>6. FifoTypes(y)
      <3>1. \A n \in Frames : y.mem[n].data \in Seq(Numbers)
        BY <1>1, <2>5, NothingHeld DEF FifoTypes
      <3> QED BY <1>1, <2>2, <2>4, <2>5, <3>1 DEF FifoTypes
    <2>7. InHand(y) = {frame}
      BY <2>3, <2>4 DEF InHand
    <2>8. PlacesInv(y, L, {frame}) /\ LentInv(y, L)
      BY <1>1, <2>2, <2>3 DEF PlacesInv, LentInv, Existing
    <2>9. ContentInv(y, {frame})
      <3>1. frame \notin InSeq(f.queue) /\ InSeq(f.queue) \subseteq Frames
        BY <1>1, <2>3, InSeqIs DEF PlacesInv, Places, FifoTypes
      <3>2. y.room[frame] \in Nat
        BY <2>3, <2>6 DEF FifoTypes
      <3> QED BY <1>1, <2>2, <2>3, <2>5, <3>1, <3>2, NothingHeld DEF ContentInv
    <2>10. PartInv(y)
      <3>1. Data(y) = <<>> /\ BytesOf(Data(y)) = 0 /\ Begun(Data(y))
        BY <2>4, <2>5, NothingHeld DEF Data, Begun
      <3>2. y.rx.calculated # -1 /\ y.room[frame] >= y.rx.calculated
        BY <1>1, <1>3, <2>2, <2>4 DEF PartInv, frame
      <3>3. y.rx.calculated \in (Nat \ {0}) \cup {-1}
        BY <2>4 DEF RxTypes
      <3> QED BY <2>3, <2>4, <3>1, <3>2, <3>3 DEF PartInv
    <2> QED BY <2>1, <2>4, <2>6, <2>7, <2>8, <2>9, <2>10 DEF Base
  <1> QED BY <1>2, <1>3

\* The parser stands before another packet, or waits or not.
Stands(f, y, r) == y = [f EXCEPT !.rx = r]
Waits(f, y, waits) == y = [f EXCEPT !.rx.waiting = waits]

LEMMA StandsIs ==
  ASSUME NEW f, NEW L, Base(f, L), NEW r, RxTypes(r), r.partial = f.rx.partial,
         r.bytes = f.rx.bytes, r.calculated = f.rx.calculated, NEW y, Stands(f, y, r)
  PROVE  Base(y, L) /\ SamePart(f, y) /\ y.rx = r
  <1>1. FifoTypes(f)
    BY DEF Base
  <1>2. /\ FifoTypes(y) /\ y.rx = r /\ y.free = f.free /\ y.room = f.room /\ y.mem = f.mem
        /\ y.queue = f.queue
    BY <1>1, RxIs DEF Stands
  <1>3. SamePart(f, y)
    BY <1>2 DEF SamePart
  <1> QED BY <1>2, <1>3, SameKeeps

LEMMA PassedIs ==
  ASSUME NEW f, NEW L, NEW p, Arrival(p), Base(f, L)
  PROVE  /\ Base(Passed(f, p), L) /\ SamePart(f, Passed(f, p))
         /\ Passed(f, p).rx.next = p.next /\ Passed(f, p).rx.waiting = f.rx.waiting
  <1> DEFINE r == [f.rx EXCEPT !.next = p.next]
             y == Passed(f, p)
  <1>1. FifoTypes(f) /\ RxTypes(f.rx) /\ p.next \in Numbers
    BY DEF Base, FifoTypes, Arrival
  <1>2. Stands(f, y, r)
    BY <1>1 DEF Stands, Passed, FifoTypes, FifoFields, RxTypes, RxFields
  <1>3. /\ RxTypes(r) /\ r.partial = f.rx.partial /\ r.bytes = f.rx.bytes
        /\ r.calculated = f.rx.calculated /\ r.next = p.next /\ r.waiting = f.rx.waiting
    BY <1>1 DEF RxTypes, RxFields
  <1> HIDE DEF r, y
  <1>4. Base(y, L) /\ SamePart(f, y) /\ y.rx = r
    BY <1>2, <1>3, StandsIs
  <1> QED BY <1>3, <1>4 DEF y

LEMMA WaitsIs ==
  ASSUME NEW f, NEW L, Base(f, L), NEW waits, waits \in BOOLEAN, NEW y, Waits(f, y, waits)
  PROVE  Base(y, L) /\ SamePart(f, y) /\ y.rx.next = f.rx.next /\ y.rx.waiting = waits
  <1> DEFINE r == [f.rx EXCEPT !.waiting = waits]
  <1>1. FifoTypes(f) /\ RxTypes(f.rx)
    BY DEF Base, FifoTypes
  <1>2. Stands(f, y, r)
    BY <1>1 DEF Stands, Waits, FifoTypes, FifoFields, RxTypes, RxFields
  <1>3. /\ RxTypes(r) /\ r.partial = f.rx.partial /\ r.bytes = f.rx.bytes
        /\ r.calculated = f.rx.calculated /\ r.next = f.rx.next /\ r.waiting = waits
    BY <1>1 DEF RxTypes, RxFields
  <1> HIDE DEF r
  <1>4. Base(y, L) /\ SamePart(f, y) /\ y.rx = r
    BY <1>2, <1>3, StandsIs
  <1> QED BY <1>3, <1>4

LEMMA SkipFrameIs ==
  ASSUME NEW f, NEW L, NEW p, Arrival(p), Base(f, L)
  PROVE  Base(SkipFrame(f, p), L) /\ NextInv(SkipFrame(f, p))
  <1> DEFINE waits == ~p.marker
             g == Passed(f, p)
             h == [g EXCEPT !.rx.waiting = waits]
             y == Empty(h)
  <1>1. SkipFrame(f, p) = y
    BY DEF SkipFrame
  <1>2. waits \in BOOLEAN /\ (~waits => p.marker) /\ p.next \in Numbers
    BY DEF Arrival
  <1> HIDE DEF waits
  <1>3. Base(g, L) /\ g.rx.next = p.next
    BY PassedIs
  <1> HIDE DEF g
  <1>4. Waits(g, h, waits)
    BY DEF Waits
  <1> HIDE DEF h
  <1>5. Base(h, L) /\ h.rx.next = p.next /\ h.rx.waiting = waits
    BY <1>2, <1>3, <1>4, WaitsIs
  <1>6. Base(y, L) /\ y.rx.bytes = 0 /\ y.rx.next = p.next /\ y.rx.waiting = waits
    BY <1>5, EmptiedIs
  <1> HIDE DEF y
  <1>7. NextInv(y)
    BY <1>2, <1>6, MarkerIs DEF NextInv
  <1> QED BY <1>1, <1>6, <1>7

LEMMA ParseSpoiltIs ==
  ASSUME NEW f, NEW L, Base(f, L)
  PROVE  Base(ParseSpoilt(f), L) /\ NextInv(ParseSpoilt(f))
  <1> DEFINE h == [f EXCEPT !.rx.waiting = TRUE]
             y == Empty(h)
  <1>1. ParseSpoilt(f) = y
    BY DEF ParseSpoilt
  <1>2. Waits(f, h, TRUE)
    BY DEF Waits
  <1> HIDE DEF h
  <1>3. Base(h, L) /\ h.rx.waiting
    BY <1>2, WaitsIs
  <1>4. Base(y, L) /\ y.rx.bytes = 0 /\ y.rx.waiting
    BY <1>3, EmptiedIs
  <1> HIDE DEF y
  <1> QED BY <1>1, <1>4 DEF NextInv

--------------------------------------------------------------------------------
(* The parser handles a packet.                                            *)

LEMMA FillIs ==
  ASSUME NEW f, NEW L, NEW p, NEW memory, Arrival(p), Base(f, L), ~f.rx.waiting,
         f.rx.next = p.next,
         f.rx.bytes # 0 => p.seqNum = Following(Data(f)[Len(Data(f))]),
         f.rx.bytes = 0 => StartsFrame(p)
  PROVE  Base(Fill(f, p, memory), L) /\ NextInv(Fill(f, p, memory))
  <1> DEFINE g == IF f.rx.partial = None /\ f.rx.calculated = -1
                  THEN [f EXCEPT !.rx = CalculateFrameSize(@)] ELSE f
             y == Fill(f, p, memory)
  <1>1. y = IF g.rx.calculated = -1 THEN ForgetStreamAndFrame(g)
            ELSE IF g.rx.partial # None THEN AppendPacket(g, p)
            ELSE IF CanGet(g, g.rx.calculated, memory)
                 THEN AppendPacket(Get(g, g.rx.calculated), p)
            ELSE [g EXCEPT !.rx.waiting = ~p.marker]
    BY DEF Fill
  <1>2. FifoTypes(f) /\ RxTypes(f.rx)
    BY DEF Base, FifoTypes
  <1>3. /\ FifoTypes(g) /\ SamePart(f, g) /\ g.rx.next = f.rx.next /\ ~g.rx.waiting
        /\ (g.rx.calculated # -1 => (g.rx.partial # None <=> f.rx.partial # None))
    <2>1. CASE f.rx.partial = None /\ f.rx.calculated = -1
      <3> DEFINE r == CalculateFrameSize(f.rx)
      <3>1. /\ RxTypes(r) /\ r.partial = f.rx.partial /\ r.bytes = f.rx.bytes
            /\ r.next = f.rx.next /\ r.waiting = f.rx.waiting
        BY <1>2, CalculateIs
      <3>2. g = [f EXCEPT !.rx = r]
        BY <2>1
      <3> HIDE DEF r, g
      <3>3. /\ FifoTypes(g) /\ g.rx = r /\ g.free = f.free /\ g.room = f.room
            /\ g.mem = f.mem /\ g.queue = f.queue
        BY <1>2, <3>1, <3>2, RxIs
      <3> QED BY <2>1, <3>1, <3>3 DEF SamePart
    <2>2. CASE ~(f.rx.partial = None /\ f.rx.calculated = -1)
      <3>1. g = f
        BY <2>2
      <3> QED BY <1>2, <3>1 DEF SamePart
    <2> QED BY <2>1, <2>2
  <1> HIDE DEF g, y
  <1>4. Base(g, L)
    BY <1>3, SameKeeps
  <1>5. /\ FifoTypes(g) /\ PlacesInv(g, L, InHand(g)) /\ LentInv(g, L)
        /\ ContentInv(g, InHand(g)) /\ PartInv(g) /\ RxTypes(g.rx)
    BY <1>4 DEF Base, FifoTypes
  <1>6. g.rx.bytes = f.rx.bytes /\ Data(g) = Data(f)
    BY <1>3 DEF SamePart, Data
  <1>7. CASE g.rx.calculated = -1
    <2>1. y = ForgetStreamAndFrame(g)
      BY <1>1, <1>7
    <2> QED BY <1>5, <2>1, ForgetIs DEF y
  <1>8. CASE g.rx.calculated # -1 /\ g.rx.partial # None
    <2>1. y = AppendPacket(g, p)
      BY <1>1, <1>8
    <2>2. Data(g) \in Seq(Numbers)
      BY <1>5, <1>8 DEF FifoTypes, RxTypes, Data
    <2>3. Data(g) = <<>> <=> g.rx.bytes = 0
      BY <1>5, <1>8, <2>2, Sizes DEF PartInv
    <2>4. /\ Data(g) # <<>> => p.seqNum = Following(Data(g)[Len(Data(g))])
          /\ Data(g) = <<>> => StartsFrame(p)
      BY <1>6, <2>3
    <2>5. g.rx.next = p.next
      BY <1>3
    <2> QED BY <1>3, <1>4, <1>8, <2>1, <2>4, <2>5, AppendPacketIs DEF y
  <1>9. CASE g.rx.calculated # -1 /\ g.rx.partial = None
    <2>1. g.rx.bytes = 0 /\ StartsFrame(p)
      BY <1>5, <1>6, <1>9 DEF PartInv
    <2>2. CASE CanGet(g, g.rx.calculated, memory)
      <3> DEFINE h == Get(g, g.rx.calculated)
      <3>1. y = AppendPacket(h, p)
        BY <1>1, <1>9, <2>2
      <3>2. Base(h, L) /\ Data(h) = <<>> /\ \E n \in Frames : h.rx = [g.rx EXCEPT !.partial = n]
        BY <1>4, <1>9, GetIs
      <3> HIDE DEF h
      <3>3. h.rx.partial # None /\ h.rx.next = p.next /\ ~h.rx.waiting
        BY <1>3, <1>5, <3>2, FramesAre DEF RxTypes, RxFields
      <3>4. /\ Data(h) = <<>> => StartsFrame(p)
            /\ Data(h) # <<>> => p.seqNum = Following(Data(h)[Len(Data(h))])
        BY <2>1, <3>2
      <3>5. Base(AppendPacket(h, p), L) /\ NextInv(AppendPacket(h, p))
        BY <3>2, <3>3, <3>4, AppendPacketIs
      <3> QED BY <3>1, <3>5 DEF y
    <2>3. CASE ~CanGet(g, g.rx.calculated, memory)
      <3> DEFINE waits == ~p.marker
                 h == [g EXCEPT !.rx.waiting = waits]
      <3>1. y = h
        BY <1>1, <1>9, <2>3
      <3>2. waits \in BOOLEAN /\ (~waits => p.marker) /\ p.next \in Numbers
        BY DEF Arrival
      <3> HIDE DEF waits
      <3>3. Waits(g, h, waits)
        BY DEF Waits
      <3> HIDE DEF h
      <3>4. Base(h, L) /\ SamePart(g, h) /\ h.rx.next = g.rx.next /\ h.rx.waiting = waits
        BY <1>4, <3>2, <3>3, WaitsIs
      <3>5. h.rx.bytes = 0 /\ h.rx.next = p.next
        BY <1>3, <2>1, <3>4 DEF SamePart
      <3>6. NextInv(h)
        BY <3>2, <3>4, <3>5, MarkerIs DEF NextInv
      <3> QED BY <3>1, <3>4, <3>6 DEF y
    <2> QED BY <2>2, <2>3
  <1> QED BY <1>7, <1>8, <1>9

LEMMA ParseIs ==
  ASSUME NEW f, NEW L, NEW p, NEW memory, Arrival(p), Base(f, L), NextInv(f)
  PROVE  Base(Parse(f, p, memory), L) /\ NextInv(Parse(f, p, memory))
  <1> DEFINE g == [f EXCEPT !.rx.interlaced = @ \/ p.field = 1]
             y == Parse(f, p, memory)
  <1>1. /\ FifoTypes(f) /\ PlacesInv(f, L, InHand(f)) /\ LentInv(f, L)
        /\ ContentInv(f, InHand(f)) /\ RxTypes(f.rx)
    BY DEF Base, FifoTypes
  <1>2. CASE p.field = 1 /\ ~f.rx.interlaced /\ f.rx.calculated # -1
    <2>1. y = ForgetStreamAndFrame(f)
      BY <1>2 DEF Parse
    <2> QED BY <1>1, <2>1, ForgetIs
  <1>3. CASE ~(p.field = 1 /\ ~f.rx.interlaced /\ f.rx.calculated # -1)
    <2>1. y = CASE g.rx.waiting -> Learn(g, p)
                [] ~g.rx.waiting /\ Misses(g, p) -> SkipFrame(g, p)
                [] OTHER -> Fill(Passed(g, p), p, memory)
      BY <1>3 DEF Parse
    <2>2. /\ FifoTypes(g) /\ SamePart(f, g) /\ g.rx.next = f.rx.next
          /\ g.rx.waiting = f.rx.waiting
      <3> DEFINE interlaced == f.rx.interlaced \/ p.field = 1
                 r == [f.rx EXCEPT !.interlaced = interlaced]
      <3>1. g = [f EXCEPT !.rx = r]
        BY <1>1 DEF FifoTypes, FifoFields, RxTypes, RxFields
      <3>2. interlaced \in BOOLEAN
        BY <1>1 DEF RxTypes
      <3> HIDE DEF interlaced, g
      <3>3. /\ RxTypes(r) /\ r.partial = f.rx.partial /\ r.bytes = f.rx.bytes
            /\ r.next = f.rx.next /\ r.waiting = f.rx.waiting /\ r.calculated = f.rx.calculated
        BY <1>1, <3>2 DEF RxTypes, RxFields
      <3> HIDE DEF r
      <3>4. /\ FifoTypes(g) /\ g.rx = r /\ g.free = f.free /\ g.room = f.room
            /\ g.mem = f.mem /\ g.queue = f.queue
        BY <1>1, <3>1, <3>3, RxIs
      <3> QED BY <3>3, <3>4 DEF SamePart
    <2> HIDE DEF g, y
    <2>3. Base(g, L)
      BY <2>2, SameKeeps
    <2>4. Data(g) = Data(f) /\ g.rx.bytes = f.rx.bytes
      BY <2>2 DEF SamePart, Data
    <2>5. CASE g.rx.waiting
      <3>1. y = Learn(g, p)
        BY <2>1, <2>5
      <3>2. g.rx.bytes = 0
        BY <2>2, <2>4, <2>5 DEF NextInv
      <3> QED BY <2>3, <3>1, <3>2, LearnIs DEF y
    <2>6. CASE ~g.rx.waiting /\ Misses(g, p)
      <3>1. y = SkipFrame(g, p)
        BY <2>1, <2>6
      <3> QED BY <2>3, <3>1, SkipFrameIs DEF y
    <2>7. CASE ~g.rx.waiting /\ ~Misses(g, p)
      <3> DEFINE h == Passed(g, p)
      <3>1. y = Fill(h, p, memory)
        BY <2>1, <2>7
      <3>2. Base(h, L) /\ SamePart(g, h) /\ h.rx.next = p.next /\ ~h.rx.waiting
        BY <2>3, <2>7, PassedIs
      <3> HIDE DEF h
      <3>3. Data(h) = Data(f) /\ h.rx.bytes = f.rx.bytes
        BY <2>4, <3>2 DEF SamePart, Data
      <3>4. f.rx.bytes # 0 => p.seqNum = Following(Data(f)[Len(Data(f))])
        BY <2>2, <2>4, <2>7 DEF Misses, Follows, NextInv
      <3>5. f.rx.bytes = 0 => StartsFrame(p)
        <4>1. StartsFrame(Packet(p.seqNum)) => StartsFrame(p)
          BY DEF StartsFrame, Arrival
        <4> QED BY <2>2, <2>4, <2>7, <4>1 DEF Misses, Follows, NextInv
      <3> QED BY <3>1, <3>2, <3>3, <3>4, <3>5, FillIs DEF y
    <2> QED BY <2>5, <2>6, <2>7
  <1> QED BY <1>2, <1>3

--------------------------------------------------------------------------------
(* The invariant holds at the start, and every step keeps it.              *)

LEMMA BecomesIs ==
  ASSUME NEW f, FifoTypes(f), Becomes(f)
  PROVE  Fifo' = f
  BY DEF Becomes, Fifo, FifoTypes, FifoFields

LEMMA FirstIs ==
  /\ \A i \in DOMAIN Streams : [format |-> i, n |-> 0] \in Numbers
  /\ [format |-> 1, n |-> 0] \in Numbers
  <1>1. ASSUME NEW i \in DOMAIN Streams PROVE [format |-> i, n |-> 0] \in Numbers
    <2>1. Len(Streams[i]) \in Nat \ {0}
      BY Constants
    <2>2. 0 \in 0..Len(Streams[i]) - 1
      BY <2>1
    <2> QED BY <2>1, <2>2 DEF Numbers
  <1>2. 1 \in DOMAIN Streams
    BY Constants
  <1> QED BY <1>1, <1>2

\* The FIFO as it starts.
LEMMA Starts == Init => Inv
  <1> SUFFICES ASSUME Init PROVE Inv
    OBVIOUS
  <1> DEFINE f == Fifo
  <1>1. /\ f.rx = NewRx /\ f.free = <<>> /\ f.queue = <<>> /\ f.room = [n \in Frames |-> 0]
        /\ f.mem = [n \in Frames |-> Nothing]
        /\ DOMAIN f = FifoFields /\ f = [x \in FifoFields |-> f[x]]
    BY DEF Init, Fifo, FifoFields
  <1>2. lent = {} /\ rx.partial = None /\ started = FALSE
    BY NewRxIs DEF Init
  <1> HIDE DEF f
  <1>3. FifoTypes(f)
    <2>1. /\ RxTypes(f.rx) /\ f.free \in Seq(Frames) /\ f.queue \in Seq(Frames)
          /\ f.room \in [Frames -> Nat]
      BY <1>1, EmptyIs, NewRxIs
    <2>2. f.mem = [n \in Frames |-> f.mem[n]] /\ \A n \in Frames : f.mem[n].data \in Seq(Numbers)
      BY <1>1, NothingHeld
    <2> QED BY <1>1, <2>1, <2>2 DEF FifoTypes
  <1>4. InHand(f) = {} /\ InSeq(f.queue) = {} /\ InSeq(f.free) = {} /\ Existing(f) = {}
    BY <1>1, EmptyIs, NewRxIs DEF InHand, Existing
  <1>5. PlacesInv(f, {}, {})
    <2>1. Once(f.free) /\ Once(f.queue)
      BY <1>1, EmptyIs
    <2> QED BY <1>4, <2>1 DEF PlacesInv, Places
  <1>6. LentInv(f, {})
    BY <1>1, EmptyIs, Constants, FS_EmptySet DEF LentInv
  <1>7. ContentInv(f, {})
    BY <1>1, <1>4, NothingHeld DEF ContentInv
  <1>8. PartInv(f) /\ NextInv(f)
    BY <1>1, NewRxIs DEF PartInv, NextInv
  <1>9. Base(f, {})
    BY <1>3, <1>4, <1>5, <1>6, <1>7, <1>8 DEF Base
  <1>10. sender \in Numbers /\ late = NoNumber /\ faults \in 0..Faults
    BY FirstIs, Constants DEF Init
  <1> QED BY <1>2, <1>8, <1>9, <1>10 DEF Inv, f

\* When it has stopped, the parser has no frame in hand.
LEMMA IdleIs ==
  ASSUME Inv, ~started
  PROVE  /\ FifoTypes(Fifo) /\ PlacesInv(Fifo, lent, {}) /\ LentInv(Fifo, lent)
         /\ ContentInv(Fifo, {}) /\ Fifo.rx.partial = None /\ Fifo.rx.bytes = 0
  <1>1. Base(Fifo, lent) /\ rx.partial = None
    BY DEF Inv
  <1>2. Fifo.rx.partial = None
    BY <1>1 DEF Fifo
  <1>3. InHand(Fifo) = {}
    BY <1>2 DEF InHand
  <1> QED BY <1>1, <1>2, <1>3 DEF Base, PartInv

LEMMA Arrived ==
  ASSUME Inv, NEW seqNum \in Numbers, NEW memory, Arrives(seqNum, memory)
  PROVE  Base(Fifo', lent) /\ NextInv(Fifo')
  <1> DEFINE p == Numbered(seqNum, Packet(seqNum))
             f == Parse(Fifo, p, memory)
  <1>1. Becomes(f)
    BY DEF Arrives
  <1>2. Arrival(p)
    BY ArrivalIs
  <1> HIDE DEF p
  <1>3. Base(f, lent) /\ NextInv(f)
    BY <1>2, ParseIs DEF Inv
  <1> HIDE DEF f
  <1>4. FifoTypes(f)
    BY <1>3 DEF Base
  <1>5. Fifo' = f
    BY <1>1, <1>4, BecomesIs
  <1> QED BY <1>3, <1>5

LEMMA Sending ==
  ASSUME Inv, Sends
  PROVE  sender' \in Numbers /\ started
  BY FollowingIs DEF Inv, Sends, MaySend

LEMMA Faulty ==
  ASSUME Inv, Fault
  PROVE  faults' \in 0..Faults
  BY Constants DEF Inv, Fault

LEMMA ReceiveKeeps == Inv /\ Receive => Inv'
  <1> SUFFICES ASSUME Inv, Receive PROVE Inv'
    OBVIOUS
  <1>1. Sends /\ Arrives(sender, TRUE) /\ UNCHANGED <<late, faults, lent, started>>
    BY DEF Receive
  <1>2. sender' \in Numbers /\ started
    BY <1>1, Sending
  <1>3. Base(Fifo', lent) /\ NextInv(Fifo')
    BY <1>1, Arrived DEF Inv
  <1> QED BY <1>1, <1>2, <1>3 DEF Inv

LEMMA ReceiveWithoutMemoryKeeps == Inv /\ ReceiveWithoutMemory => Inv'
  <1> SUFFICES ASSUME Inv, ReceiveWithoutMemory PROVE Inv'
    OBVIOUS
  <1>1. Sends /\ Fault /\ Arrives(sender, FALSE) /\ UNCHANGED <<late, lent, started>>
    BY DEF ReceiveWithoutMemory
  <1>2. sender' \in Numbers /\ started /\ faults' \in 0..Faults
    BY <1>1, Sending, Faulty
  <1>3. Base(Fifo', lent) /\ NextInv(Fifo')
    BY <1>1, Arrived DEF Inv
  <1> QED BY <1>1, <1>2, <1>3 DEF Inv

LEMMA ReceiveTwiceKeeps == Inv /\ ReceiveTwice => Inv'
  <1> SUFFICES ASSUME Inv, ReceiveTwice PROVE Inv'
    OBVIOUS
  <1>1. Sends /\ Fault /\ Arrives(sender, TRUE) /\ late' = sender /\ UNCHANGED <<lent, started>>
    BY DEF ReceiveTwice
  <1>2. sender' \in Numbers /\ started /\ faults' \in 0..Faults
    BY <1>1, Sending, Faulty
  <1>3. Base(Fifo', lent) /\ NextInv(Fifo')
    BY <1>1, Arrived DEF Inv
  <1> QED BY <1>1, <1>2, <1>3 DEF Inv

LEMMA ReceiveLateKeeps == Inv /\ ReceiveLate => Inv'
  <1> SUFFICES ASSUME Inv, ReceiveLate PROVE Inv'
    OBVIOUS
  <1>1. started /\ late # NoNumber /\ Arrives(late, TRUE) /\ late' = NoNumber
        /\ UNCHANGED <<sender, faults, lent, started>>
    BY DEF ReceiveLate
  <1>2. late \in Numbers
    BY <1>1 DEF Inv
  <1>3. Base(Fifo', lent) /\ NextInv(Fifo')
    BY <1>1, <1>2, Arrived
  <1> QED BY <1>1, <1>3 DEF Inv

LEMMA SpoilKeeps == Inv /\ Spoil => Inv'
  <1> SUFFICES ASSUME Inv, Spoil PROVE Inv'
    OBVIOUS
  <1> DEFINE f == ParseSpoilt(Fifo)
  <1>1. Sends /\ Fault /\ Becomes(f) /\ UNCHANGED <<late, lent, started>>
    BY DEF Spoil
  <1>2. sender' \in Numbers /\ started /\ faults' \in 0..Faults
    BY <1>1, Sending, Faulty
  <1>3. Base(f, lent) /\ NextInv(f)
    BY ParseSpoiltIs DEF Inv
  <1> HIDE DEF f
  <1>4. Fifo' = f
    BY <1>1, <1>3, BecomesIs DEF Base
  <1> QED BY <1>1, <1>2, <1>3, <1>4 DEF Inv

LEMMA PacketsKeep == Inv /\ (Lose \/ HoldBack \/ \E i \in DOMAIN Streams : Change(i)) => Inv'
  <1> SUFFICES ASSUME Inv, Lose \/ HoldBack \/ \E i \in DOMAIN Streams : Change(i) PROVE Inv'
    OBVIOUS
  <1>1. /\ started /\ Fault /\ UNCHANGED <<rx, free, room, mem, queue, lent, started>>
        /\ sender' \in Numbers /\ late' \in Numbers \cup {NoNumber}
    <2>1. CASE Lose
      BY <2>1, Sending DEF Lose, Inv
    <2>2. CASE HoldBack
      BY <2>2, Sending DEF HoldBack, Inv
    <2>3. CASE \E i \in DOMAIN Streams : Change(i)
      BY <2>3, FirstIs DEF Change, Inv
    <2> QED BY <2>1, <2>2, <2>3
  <1>2. Fifo' = Fifo
    BY <1>1 DEF Fifo
  <1>3. faults' \in 0..Faults
    BY <1>1, Faulty
  <1> QED BY <1>1, <1>2, <1>3 DEF Inv

LEMMA StartKeeps == Inv /\ (\E seqNum \in Numbers : Start(seqNum)) => Inv'
  <1> SUFFICES ASSUME Inv, NEW seqNum \in Numbers, Start(seqNum) PROVE Inv'
    OBVIOUS
  <1> DEFINE c == Cleared(Fifo)
             f == [c EXCEPT !.rx = NewRx]
  <1>1. /\ started' = TRUE /\ sender' = seqNum /\ late' = NoNumber /\ Becomes(f)
        /\ UNCHANGED <<faults, lent>> /\ ~started
    BY DEF Start
  <1>2. /\ FifoTypes(c) /\ PlacesInv(c, lent, {}) /\ LentInv(c, lent) /\ ContentInv(c, {})
    BY <1>1, IdleIs, ClearedIs
  <1> HIDE DEF c
  <1>3. /\ FifoTypes(f) /\ f.rx = NewRx /\ f.free = c.free /\ f.room = c.room /\ f.mem = c.mem
        /\ f.queue = c.queue
    BY <1>2, NewRxIs, RxIs
  <1> HIDE DEF f
  <1>4. InHand(f) = {}
    BY <1>3, NewRxIs DEF InHand
  <1>5. PlacesInv(f, lent, {}) /\ LentInv(f, lent) /\ ContentInv(f, {})
    BY <1>2, <1>3 DEF PlacesInv, LentInv, ContentInv, Existing
  <1>6. Base(f, lent) /\ NextInv(f)
    BY <1>3, <1>4, <1>5, NewRxIs DEF Base, PartInv, NextInv
  <1>7. Fifo' = f
    BY <1>1, <1>3, BecomesIs
  <1> QED BY <1>1, <1>6, <1>7 DEF Inv

LEMMA StopKeeps == Inv /\ Stop => Inv'
  <1> SUFFICES ASSUME Inv, Stop PROVE Inv'
    OBVIOUS
  <1> DEFINE f == ForgetStreamAndFrame(Fifo)
  <1>1. /\ started' = FALSE /\ sender' = [format |-> 1, n |-> 0] /\ late' = NoNumber
        /\ Becomes(f) /\ UNCHANGED <<lent, faults>>
    BY DEF Stop
  <1>2. Base(f, lent) /\ NextInv(f) /\ f.rx.partial = None
    BY ForgetIs DEF Inv, Base
  <1> HIDE DEF f
  <1>3. Fifo' = f /\ rx' = f.rx
    BY <1>1, <1>2, BecomesIs DEF Base, Becomes
  <1> QED BY <1>1, <1>2, <1>3, FirstIs DEF Inv

LEMMA ClearKeeps == Inv /\ Clear => Inv'
  <1> SUFFICES ASSUME Inv, Clear PROVE Inv'
    OBVIOUS
  <1> DEFINE f == Cleared(Fifo)
  <1>1. /\ ~started /\ Becomes(f) /\ UNCHANGED <<sender, late, faults, lent, started>>
    BY DEF Clear
  <1>2. /\ FifoTypes(f) /\ PlacesInv(f, lent, {}) /\ LentInv(f, lent) /\ ContentInv(f, {})
        /\ f.rx = Fifo.rx
    BY <1>1, IdleIs, ClearedIs
  <1> HIDE DEF f
  <1>3. f.rx.partial = None /\ f.rx.bytes = 0 /\ InHand(f) = {}
    BY <1>1, <1>2, IdleIs DEF InHand
  <1>4. Base(f, lent)
    BY <1>2, <1>3 DEF Base, PartInv
  <1>5. NextInv(f)
    BY <1>2, <1>3 DEF NextInv, Inv
  <1>6. Fifo' = f /\ rx' = f.rx
    BY <1>1, <1>2, BecomesIs DEF Becomes
  <1> QED BY <1>1, <1>3, <1>4, <1>5, <1>6 DEF Inv

LEMMA ReturnKeeps == Inv /\ (\E frame \in lent : ReturnToMemPool(frame)) => Inv'
  <1> SUFFICES ASSUME Inv, NEW frame \in lent, ReturnToMemPool(frame) PROVE Inv'
    OBVIOUS
  <1> DEFINE e == Fifo
             f == Return(e, frame)
             hand == InHand(e)
  <1>1. /\ Becomes(f) /\ lent' = lent \ {frame} /\ UNCHANGED <<sender, late, faults, started>>
    BY DEF ReturnToMemPool
  <1>2. Base(e, lent) /\ NextInv(e)
    BY DEF Inv
  <1> HIDE DEF e
  <1>3. /\ FifoTypes(e) /\ PlacesInv(e, lent, hand) /\ LentInv(e, lent) /\ ContentInv(e, hand)
        /\ PartInv(e)
    BY <1>2 DEF Base
  <1>4. frame \notin hand /\ hand \ {frame} = hand /\ frame \in Frames /\ frame \in lent \cup hand
    BY <1>3 DEF PlacesInv, Places, Existing
  <1>5. f.room = e.room /\ f.mem = [e.mem EXCEPT ![frame] = Nothing]
    BY <1>3 DEF Return, FifoTypes, FifoFields
  <1> HIDE DEF f, hand
  <1>6. /\ FifoTypes(f) /\ f.rx = e.rx /\ PlacesInv(f, lent \ {frame}, hand \ {frame})
        /\ LentInv(f, lent \ {frame}) /\ ContentInv(f, hand \ {frame})
    BY <1>3, <1>4, ReturnIs DEF f
  <1>7. InHand(f) = hand
    BY <1>6 DEF InHand, hand
  <1>8. e.rx.partial # None => Data(f) = Data(e)
    <2> SUFFICES ASSUME e.rx.partial # None PROVE Data(f) = Data(e)
      OBVIOUS
    <2>1. e.rx.partial # frame
      BY <1>4 DEF hand, InHand
    <2>2. e.rx.partial \in Frames
      BY <1>3 DEF FifoTypes, RxTypes
    <2>3. f.mem[e.rx.partial] = e.mem[e.rx.partial]
      BY <1>3, <1>5, <2>1, <2>2 DEF FifoTypes
    <2> QED BY <1>6, <2>3 DEF Data
  <1>9. PartInv(f)
    BY <1>3, <1>5, <1>6, <1>8 DEF PartInv
  <1>10. NextInv(f)
    BY <1>2, <1>3, <1>6, <1>8 DEF NextInv, PartInv
  <1>11. Base(f, lent \ {frame})
    BY <1>4, <1>6, <1>7, <1>9 DEF Base
  <1>12. Fifo' = f /\ rx' = f.rx
    BY <1>1, <1>6, BecomesIs DEF Becomes
  <1>13. rx' = rx
    BY <1>6, <1>12 DEF e, Fifo
  <1> QED BY <1>1, <1>10, <1>11, <1>12, <1>13 DEF Inv

LEMMA ReadKeeps == Inv /\ Read => Inv'
  <1> SUFFICES ASSUME Inv, Read PROVE Inv'
    OBVIOUS
  <1> DEFINE e == Fifo
             f == Fifo'
             frame == Head(queue)
             hand == InHand(e)
             more == lent \cup {frame}
  <1>1. /\ queue # <<>> /\ Cardinality(lent) < Lent /\ lent' = more
        /\ UNCHANGED <<sender, late, faults, rx, started>>
    BY DEF Read
  <1>2. Base(e, lent) /\ NextInv(e)
    BY DEF Inv
  <1>3. /\ f.rx = e.rx /\ f.free = e.free /\ f.room = e.room /\ f.queue = Tail(e.queue)
        /\ f.mem = [e.mem EXCEPT ![frame] = Nothing]
        /\ DOMAIN f = FifoFields /\ f = [x \in FifoFields |-> f[x]]
    BY DEF Read, Fifo, FifoFields
  <1>4. e.queue # <<>> /\ frame = Head(e.queue)
    BY <1>1 DEF Fifo
  <1> HIDE DEF e, f, frame
  <1>5. /\ FifoTypes(e) /\ PlacesInv(e, lent, hand) /\ LentInv(e, lent) /\ ContentInv(e, hand)
        /\ PartInv(e) /\ e.queue \in Seq(Frames)
    BY <1>2 DEF Base, FifoTypes
  <1>6. /\ frame \in Frames /\ f.queue \in Seq(Frames) /\ Len(f.queue) = Len(e.queue) - 1
        /\ InSeq(e.queue) = InSeq(f.queue) \cup {frame} /\ frame \notin InSeq(f.queue)
        /\ Once(f.queue)
    BY <1>3, <1>4, <1>5, TailIs DEF PlacesInv
  <1>7. frame \notin hand /\ frame \notin lent /\ frame \notin InSeq(e.free)
    BY <1>5, <1>6 DEF PlacesInv, Places
  <1>8. f.mem = [n \in Frames |-> f.mem[n]] /\ f.mem[frame] = Nothing
        /\ \A n \in Frames : n # frame => f.mem[n] = e.mem[n]
    BY <1>3, <1>5, <1>6 DEF FifoTypes
  <1>9. FifoTypes(f)
    <2>1. \A n \in Frames : f.mem[n].data \in Seq(Numbers)
      BY <1>5, <1>8, NothingHeld DEF FifoTypes
    <2> QED BY <1>3, <1>5, <1>6, <1>8, <2>1 DEF FifoTypes
  <1>10. InHand(f) = hand
    BY <1>3 DEF InHand
  <1> HIDE DEF hand
  <1>11. PlacesInv(f, more, hand)
    <2>1. Existing(f) = Existing(e)
      BY <1>3 DEF Existing
    <2>2. Places(InSeq(e.free), InSeq(f.queue), more, hand, Existing(e))
      BY <1>5, <1>6, <1>7 DEF PlacesInv, Places
    <2>3. Once(e.free)
      BY <1>5 DEF PlacesInv
    <2> QED BY <1>3, <1>6, <2>1, <2>2, <2>3 DEF PlacesInv
  <1>12. LentInv(f, more)
    <2>1. IsFiniteSet(lent) /\ Cardinality(lent) \in Nat
      BY <1>5, FS_CardinalityType DEF LentInv
    <2>2. IsFiniteSet(more) /\ Cardinality(more) = Cardinality(lent) + 1
      BY <1>7, <2>1, FS_AddElement
    <2>3. Len(e.queue) <= MaxSize /\ Len(e.queue) \in Nat
      BY <1>5 DEF LentInv
    <2>4. Cardinality(more) <= Lent
      BY <1>1, <2>1, <2>2, Constants
    <2>5. Len(f.queue) <= MaxSize
      BY <1>6, <2>3, Constants
    <2> QED BY <2>2, <2>4, <2>5 DEF LentInv
  <1>13. ContentInv(f, hand)
    <2>1. f.room[frame] \in Nat
      BY <1>6, <1>9 DEF FifoTypes
    <2>2. InSeq(f.queue) \subseteq Frames
      BY <1>6, InSeqIs
    <2>3. \A n \in Frames : n \notin InSeq(f.queue) \cup hand => f.mem[n] = Nothing
      BY <1>5, <1>6, <1>8 DEF ContentInv
    <2>4. \A n \in Frames : BytesOf(f.mem[n].data) <= f.room[n]
      BY <1>3, <1>5, <1>6, <1>8, <2>1, NothingHeld DEF ContentInv
    <2>5. \A n \in InSeq(f.queue) : WholeFrame(f.mem[n])
      BY <1>5, <1>6, <1>8, <2>2 DEF ContentInv
    <2> QED BY <2>3, <2>4, <2>5 DEF ContentInv
  <1>14. e.rx.partial # None => Data(f) = Data(e)
    <2> SUFFICES ASSUME e.rx.partial # None PROVE Data(f) = Data(e)
      OBVIOUS
    <2>1. e.rx.partial # frame
      BY <1>7 DEF hand, InHand
    <2>2. e.rx.partial \in Frames
      BY <1>5 DEF FifoTypes, RxTypes
    <2> QED BY <1>3, <1>8, <2>1, <2>2 DEF Data
  <1>15. PartInv(f)
    BY <1>3, <1>5, <1>14 DEF PartInv
  <1>16. NextInv(f)
    BY <1>2, <1>3, <1>5, <1>14 DEF NextInv, PartInv
  <1>17. Base(f, more)
    BY <1>9, <1>10, <1>11, <1>12, <1>13, <1>15 DEF Base
  <1> QED BY <1>1, <1>16, <1>17 DEF Inv, f

LEMMA NextKeeps == Inv /\ [Next]_vars => Inv'
  <1> SUFFICES ASSUME Inv, [Next]_vars PROVE Inv'
    OBVIOUS
  <1>1. CASE Receive \/ ReceiveWithoutMemory \/ ReceiveTwice \/ ReceiveLate
    BY <1>1, ReceiveKeeps, ReceiveWithoutMemoryKeeps, ReceiveTwiceKeeps, ReceiveLateKeeps
  <1>2. CASE Spoil
    BY <1>2, SpoilKeeps
  <1>3. CASE Lose \/ HoldBack \/ \E i \in DOMAIN Streams : Change(i)
    BY <1>3, PacketsKeep
  <1>4. CASE (\E seqNum \in Numbers : Start(seqNum)) \/ Stop \/ Clear
    BY <1>4, StartKeeps, StopKeeps, ClearKeeps
  <1>5. CASE Read \/ \E f \in lent : ReturnToMemPool(f)
    BY <1>5, ReadKeeps, ReturnKeeps
  <1>6. CASE UNCHANGED vars
    <2>1. Fifo' = Fifo
      BY <1>6 DEF vars, Fifo
    <2> QED BY <1>6, <2>1 DEF Inv, vars
  <1> QED BY <1>1, <1>2, <1>3, <1>4, <1>5, <1>6 DEF Next

\* Inv holds in every state.
THEOREM Invariance == Spec => []Inv
  <1> QED BY Starts, NextKeeps, PTL DEF Spec

--------------------------------------------------------------------------------
(* What follows.                                                           *)

\* Everything is of its type, the queue has room for no more than MaxSize frames, and a frame
\* has room for the packets put into it, whatever the sizes the parser has learned.
THEOREM TypeCorrect == Spec => []TypeOK
  <1>1. Inv => TypeOK
    BY DEF Inv, Base, FifoTypes, RxTypes, LentInv, ContentInv, TypeOK, Fifo
  <1> QED BY <1>1, Invariance, PTL

\* No frame of the pool is lost, and none is in two places.
THEOREM FramesHaveOnePlaceHolds == Spec => []FramesHaveOnePlace
  <1>1. Inv => FramesHaveOnePlace
    <2> SUFFICES ASSUME Inv PROVE FramesHaveOnePlace
      OBVIOUS
    <2>1. PlacesInv(Fifo, lent, InHand(Fifo))
      BY DEF Inv, Base
    <2>2. /\ Fifo.free = free /\ Fifo.queue = queue /\ InHand(Fifo) = Partial
          /\ Existing(Fifo) = {f \in Frames : room[f] # 0}
      BY DEF Fifo, Existing, InHand, Partial
    <2> QED BY <2>1, <2>2 DEF PlacesInv, Places, Once, InSeq, FramesHaveOnePlace, Received
  <1> QED BY <1>1, Invariance, PTL

\* A frame received is all the packets of one frame sent, whatever the network loses, repeats,
\* delays and spoils, and whenever it is stopped, started and sent another format.
THEOREM FramesAreWholeHolds == Spec => []FramesAreWhole
  <1>1. Inv => FramesAreWhole
    <2> SUFFICES ASSUME Inv, NEW f \in Received
                 PROVE  /\ mem[f].data # <<>> /\ StartsFrame(Packet(mem[f].data[1]))
                        /\ \A i \in DOMAIN mem[f].data :
                             /\ i > 1 => mem[f].data[i] = Following(mem[f].data[i - 1])
                             /\ Packet(mem[f].data[i]).marker <=> i = Len(mem[f].data)
                             /\ mem[f].field = Packet(mem[f].data[i]).field
      BY DEF FramesAreWhole
    <2>1. ContentInv(Fifo, InHand(Fifo)) /\ Fifo.mem = mem /\ InSeq(Fifo.queue) = Received
      BY DEF Inv, Base, Fifo, InSeq, Received
    <2> QED BY <2>1 DEF ContentInv, WholeFrame
  <1> QED BY <1>1, Invariance, PTL
================================================================================
