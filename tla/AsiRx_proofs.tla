----------------------------- MODULE AsiRx_proofs -----------------------------
(***************************************************************************)
(* Proofs about AsiRx, for any sizes of the ring, a packet, the FIFO and a *)
(* read and any faults: types, that the stream is found again, and that    *)
(* the reads get what the scans counted.                                   *)
(***************************************************************************)
EXTENDS AsiRx, FiniteSetTheorems, SequenceTheorems, TLAPS

--------------------------------------------------------------------------------
(* Induction over numbers and sequences.                                   *)

\* A set with 0 that goes on from each of its numbers below N goes up to N.
LEMMA UpTo ==
  ASSUME NEW N \in Nat, NEW S, 0 \in S, \A n \in 0..N - 1 : n \in S => n + 1 \in S
  PROVE  0..N \subseteq S
  <1> DEFINE Missing == (0..N) \ S
             Starts == {0..m : m \in Missing}
             Less == StrictSubsetOrdering(Nat)
  <1> SUFFICES ASSUME Missing # {} PROVE FALSE
    OBVIOUS
  <1>1. Starts \subseteq FiniteSubsetsOf(Nat) /\ Starts # {}
    <2>1. \A m \in Missing : 0..m \in FiniteSubsetsOf(Nat)
      BY FS_Interval DEF FiniteSubsetsOf
    <2> QED BY <2>1
  <1>2. IsWellFoundedOn(Less, FiniteSubsetsOf(Nat))
    <2> HIDE DEF Starts
    <2> QED BY ONLY FS_StrictSubsetOrderingWellFounded
  <1> HIDE DEF Less
  <1>3. PICK X \in Starts : \A Y \in Starts : ~(<<Y, X>> \in Less)
    <2> HIDE DEF Starts
    <2> QED BY ONLY <1>1, <1>2, WFMin
  <1>4. PICK m \in Missing : X = 0..m
    BY <1>3
  <1>5. m # 0 /\ m \in 1..N /\ m - 1 \in 0..N - 1
    OBVIOUS
  <1>6. m - 1 \in Missing
    <2>1. (m - 1) + 1 = m
      BY <1>5
    <2> QED BY <1>5, <2>1
  <1>7. 0..m - 1 \in Starts /\ 0..m - 1 \subseteq X /\ 0..m - 1 # X /\ X \subseteq Nat
    <2>1. m \in X /\ m \notin 0..m - 1
      BY <1>4, <1>5
    <2> QED BY <1>4, <1>5, <1>6, <2>1
  <1>8. <<0..m - 1, X>> \in Less
    BY <1>7 DEF Less, StrictSubsetOrdering
  <1> QED BY <1>3, <1>7, <1>8

\* A function that starts at s0 and takes the steps of step.
Steps(f, S, s0, step, N) ==
  /\ f \in [0..N -> S] /\ f[0] = s0
  /\ \A n \in 1..N : f[n] = step[n][f[n - 1]]

LEMMA StepsExist ==
  ASSUME NEW N \in Nat, NEW S, NEW s0 \in S, NEW step \in [1..N -> [S -> S]]
  PROVE  \E f : Steps(f, S, s0, step, N)
  <1> DEFINE T == {n \in 0..N : \E f : Steps(f, S, s0, step, n)}
  <1>1. 0 \in T
    <2> DEFINE f == [n \in 0..0 |-> s0]
    <2>1. Steps(f, S, s0, step, 0)
      BY DEF Steps
    <2> HIDE DEF f
    <2>2. \E h : Steps(h, S, s0, step, 0)
      BY <2>1
    <2> QED BY <2>2
  <1>2. ASSUME NEW n \in 0..N - 1, n \in T PROVE n + 1 \in T
    <2>1. PICK f : Steps(f, S, s0, step, n)
      BY <1>2
    <2> DEFINE next1 == step[n + 1][f[n]]
               g == [k \in 0..n + 1 |-> IF k = n + 1 THEN next1 ELSE f[k]]
    <2>2. n + 1 \in 0..N /\ n + 1 \in 1..N /\ f[n] \in S /\ f \in [0..n -> S] /\ f[0] = s0
      BY <2>1 DEF Steps
    <2>3. next1 \in S
      <3>1. step[n + 1] \in [S -> S]
        BY <2>2
      <3> QED BY <2>2, <3>1
    <2>4. \A k \in 1..n : f[k] = step[k][f[k - 1]]
      BY <2>1 DEF Steps
    <2>5. g \in [0..n + 1 -> S] /\ g[0] = s0
      <3> HIDE DEF next1
      <3> QED BY <2>2, <2>3
    <2>6. ASSUME NEW k \in 1..n + 1 PROVE g[k] = step[k][g[k - 1]]
      <3>1. CASE k = n + 1
        BY <2>2, <3>1
      <3>2. CASE k \in 1..n
        <4>1. k \in 0..n + 1 /\ k - 1 \in 0..n + 1 /\ k # n + 1 /\ k - 1 # n + 1
          BY <3>2
        <4>2. g[k] = f[k] /\ g[k - 1] = f[k - 1]
          <5> HIDE DEF next1
          <5> QED BY <4>1
        <4> HIDE DEF g
        <4> QED BY <2>4, <3>2, <4>2
      <3> QED BY <3>1, <3>2
    <2> HIDE DEF g
    <2>7. Steps(g, S, s0, step, n + 1)
      BY <2>5, <2>6 DEF Steps
    <2>8. \E h : Steps(h, S, s0, step, n + 1)
      BY <2>7
    <2> QED BY <2>2, <2>8
  <1>3. N \in T
    <2>1. 0..N \subseteq T
      <3> HIDE DEF T
      <3> QED BY <1>1, <1>2, UpTo
    <2>2. N \in 0..N
      OBVIOUS
    <2> HIDE DEF T
    <2> QED BY <2>1, <2>2
  <1> QED BY <1>3

\* A set of natural numbers has a least.
LEMMA LeastIs ==
  ASSUME NEW S \in SUBSET Nat, S # {}
  PROVE  Min(S) \in S /\ \A x \in S : Min(S) <= x
  <1>1. \E x \in S : \A y \in S : x <= y
    <2> SUFFICES ASSUME \A x \in S : \E y \in S : ~(x <= y) PROVE FALSE
      OBVIOUS
    <2>1. PICK N \in S : TRUE
      OBVIOUS
    <2> DEFINE T == {n \in 0..N : \A x \in S : n <= x}
    <2>2. 0 \in T
      BY <2>1
    <2>3. ASSUME NEW n \in 0..N - 1, n \in T PROVE n + 1 \in T
      <3>1. n \notin S
        BY <2>3
      <3>2. \A x \in S : n + 1 <= x
        BY <2>3, <3>1
      <3> QED BY <3>2
    <2>4. 0..N \subseteq T
      <3> HIDE DEF T
      <3> QED BY <2>1, <2>2, <2>3, UpTo
    <2>5. N \in T
      BY <2>1, <2>4
    <2> QED BY <2>1, <2>5
  <1> QED BY <1>1 DEF Min

--------------------------------------------------------------------------------
(* Places in a ring of n, seen from r, without remainders.                  *)

LEMMA ModLess ==
  ASSUME NEW n \in Nat \ {0}, NEW a \in 0..n - 1
  PROVE  a % n = a
  OBVIOUS

LEMMA ModRound ==
  ASSUME NEW n \in Nat \ {0}, NEW a \in n..2 * n - 1
  PROVE  a % n = a - n
  OBVIOUS

\* The place d further than r.
LEMMA PlaceAt ==
  ASSUME NEW n \in Nat \ {0}, NEW r \in 0..n - 1, NEW d \in 0..n
  PROVE  (r + d) % n = IF r + d < n THEN r + d ELSE r + d - n
  <1>1. CASE r + d < n
    BY <1>1, ModLess
  <1>2. CASE r + d >= n
    <2>1. r + d \in n..2 * n - 1
      BY <1>2
    <2>2. (r + d) % n = r + d - n
      BY <2>1, ModRound
    <2> QED BY <1>2, <2>2
  <1> QED BY <1>1, <1>2

\* The distance from place r on to place o.
LEMMA FarFrom ==
  ASSUME NEW n \in Nat \ {0}, NEW r \in 0..n - 1, NEW o \in 0..n - 1
  PROVE  (o + n - r) % n = IF r <= o THEN o - r ELSE o + n - r
  <1>1. CASE r <= o
    <2>1. o + n - r \in n..2 * n - 1
      BY <1>1
    <2>2. (o + n - r) % n = o + n - r - n
      BY <2>1, ModRound
    <2> QED BY <1>1, <2>2
  <1>2. CASE ~(r <= o)
    BY <1>2, ModLess
  <1> QED BY <1>1, <1>2

\* Place o, seen from r, without remainders.
Ahead(n, r, o) == IF r <= o THEN o - r ELSE o + n - r
Place(n, r, d) == IF r + d < n THEN r + d ELSE r + d - n

LEMMA PlaceAhead ==
  ASSUME NEW n \in Nat \ {0}, NEW r \in 0..n - 1, NEW o \in 0..n - 1
  PROVE  /\ Ahead(n, r, o) \in 0..n - 1 /\ Place(n, r, Ahead(n, r, o)) = o
         /\ \A d \in 0..n - 1 : /\ Place(n, r, d) \in 0..n - 1 /\ Ahead(n, r, Place(n, r, d)) = d
  BY DEF Ahead, Place

\* Going on by e from d ahead, and back.
LEMMA AheadMore ==
  ASSUME NEW n \in Nat \ {0}, NEW r \in 0..n - 1, NEW o \in 0..n - 1, NEW e \in 0..n - 1,
         Ahead(n, r, o) + e <= n - 1
  PROVE  Ahead(n, r, Place(n, o, e)) = Ahead(n, r, o) + e
  BY DEF Ahead, Place

LEMMA AheadLess ==
  ASSUME NEW n \in Nat \ {0}, NEW r \in 0..n - 1, NEW o \in 0..n - 1, NEW e \in 0..Ahead(n, r, o)
  PROVE  /\ Ahead(n, Place(n, r, e), o) = Ahead(n, r, o) - e
         /\ \A i \in 0..n - 1 : e + i <= n - 1 => Place(n, Place(n, r, e), i) = Place(n, r, e + i)
  BY DEF Ahead, Place

\* The place d ahead of r, seen from o.
LEMMA AheadOf ==
  ASSUME NEW n \in Nat \ {0}, NEW r \in 0..n - 1, NEW o \in 0..n - 1, NEW d \in 0..n - 1
  PROVE  Ahead(n, o, Place(n, r, d)) =
           IF d < Ahead(n, r, o) THEN n - Ahead(n, r, o) + d ELSE d - Ahead(n, r, o)
  BY DEF Ahead, Place


--------------------------------------------------------------------------------
(* What the ring holds, seen from a read offset: the unit at each distance, and how many there are.  *)

View(rg, r) == [i \in 0..Size - 1 |-> rg[Place(Size, r, i)]]
Loaded(c, r) == Ahead(Size, r, c.w)

Payloads ==
  [end : {FALSE}, packet : 0..Seqs - 1, at : 1..Packet - 1, of : {Packet - 2, Packet - 1}]
Trailers == [end : {TRUE}, packet : 0..Seqs - 1, kind : Kinds, solid : BOOLEAN]
Written == Payloads \cup Trailers
Rings == [Slots -> Written \cup {Blank}]
Cards == [w : Slots, seq : 0..Seqs - 1, run : 0..NumSync - 1, full : Nat]

OfKind(kind) == IF kind = "valid" THEN Packet - 2 ELSE Packet - 1
Unit(n, kind, solid, i) ==
  IF i < Packet THEN Payload(n, i, OfKind(kind)) ELSE Trailer(n, kind, solid)

\* Before each trailer comes what there is of its payload.
Laid(u, L) ==
  /\ \A q \in 0..L - 1 : u[q] \in Written
  /\ \A q \in 0..L - 1 : u[q].end =>
       \A i \in 1..Packet - 1 :
         q - Packet + i >= 0 => u[q - Packet + i] = Payload(u[q].packet, i, OfKind(u[q].kind))

\* A trailer that the search and the decoding take in any mode.
Fine(x) == x.end /\ x.kind \notin {"nibble", "valid"}

\* The place k packets before q.
Back(q, k) == q - k * Packet

\* Before a solid trailer, and at the ring's end, come the good packets that the history counts.
LinkedAt(u, q, m, n) ==
  \A k \in 0..m : Back(q, k) >= 0 =>
    Fine(u[Back(q, k)]) /\ (u[Back(q, k)].packet + k) % Seqs = n

Linked(u, L, c) ==
  /\ \A q \in 0..L - 1 : u[q].end /\ u[q].solid => LinkedAt(u, q, NumSync - 1, u[q].packet)
  /\ \A k \in 0..c.run - 1 : Back(L - 1, k) >= 0 =>
       Fine(u[Back(L - 1, k)]) /\ (u[Back(L - 1, k)].packet + k + 1) % Seqs = c.seq

LEMMA Sizes ==
  /\ Packet \in Nat /\ Packet >= 3 /\ NumSync \in Nat /\ NumSync >= 2
  /\ Size \in Nat \ {0} /\ FifoSize \in Nat /\ FifoSize >= Packet
  /\ Search \in Nat /\ Search >= NumSync * Packet /\ NumSync * Packet \in Nat
  /\ Block \in Nat \ {0} /\ Seqs \in Nat /\ Seqs > NumSync
  /\ Reads \subseteq Nat \ {0} /\ Modes \subseteq {"ts", "raw"} /\ Faults \subseteq Kinds
  /\ Slots = 0..Size - 1 /\ KeptFree = 1 /\ Size > NumSync * Packet + 1
  <1>1. Size \in Nat \ {0} /\ NumSync * Packet \in Nat
    BY AsiRxAssumption DEF KeptFree
  <1> QED BY <1>1, AsiRxAssumption DEF Slots, KeptFree

LEMMA BackIs ==
  ASSUME NEW q \in Int, NEW k \in Int
  PROVE  /\ Back(q, k) \in Int /\ Back(q, 0) = q
         /\ Back(q, k + 1) = Back(q, k) - Packet
         /\ Back(q + Packet, k + 1) = Back(q, k)
         /\ k >= 0 => Back(q, k) <= q
         /\ k >= 1 => Back(q, k) <= q - Packet
  <1>1. Packet \in Nat /\ Packet >= 3
    BY Sizes
  <1>2. (k + 1) * Packet = k * Packet + Packet
    BY <1>1, SMT
  <1>3. k * Packet \in Int /\ 0 * Packet = 0
    BY <1>1, SMT
  <1>4. k >= 0 => k * Packet >= 0
    BY <1>1, SMT
  <1>5. k >= 1 => k * Packet >= Packet
    BY <1>1, SMT
  <1> HIDE DEF Back
  <1>6. Back(q, k) = q - k * Packet /\ Back(q, 0) = q - 0 * Packet
    BY DEF Back
  <1>7. Back(q, k + 1) = q - (k + 1) * Packet /\ Back(q + Packet, k + 1) = (q + Packet) - (k + 1) * Packet
    BY DEF Back
  <1> DEFINE y == k * Packet
  <1>8. y \in Int /\ (k + 1) * Packet = y + Packet /\ (k >= 0 => y >= 0) /\ (k >= 1 => y >= Packet)
    BY <1>2, <1>3, <1>4, <1>5
  <1>9. Back(q, k) = q - y /\ Back(q, 0) = q - 0
    BY <1>3, <1>6
  <1> HIDE DEF y
  <1> QED BY <1>1, <1>7, <1>8, <1>9

LEMMA UnitIs ==
  ASSUME NEW n \in 0..Seqs - 1, NEW kind \in Kinds, NEW solid \in BOOLEAN, NEW i \in 1..Packet
  PROVE  /\ Unit(n, kind, solid, i) \in Written
         /\ Unit(n, kind, solid, i).end <=> i = Packet
         /\ i < Packet => Unit(n, kind, solid, i) = Payload(n, i, OfKind(kind))
         /\ i = Packet => Unit(n, kind, solid, i) = Trailer(n, kind, solid)
  <1>1. Packet \in Nat /\ Packet >= 3 /\ OfKind(kind) \in {Packet - 2, Packet - 1}
    BY Sizes DEF OfKind
  <1>2. CASE i < Packet
    <2>1. Unit(n, kind, solid, i) = Payload(n, i, OfKind(kind)) /\ i \in 1..Packet - 1
      BY <1>1, <1>2 DEF Unit
    <2>2. Payload(n, i, OfKind(kind)) \in Payloads /\ ~Payload(n, i, OfKind(kind)).end
      BY <1>1, <2>1 DEF Payload, Payloads
    <2>3. i # Packet
      BY <1>1, <1>2
    <2> QED BY <2>1, <2>2, <2>3 DEF Written
  <1>3. CASE i = Packet
    <2>1. Unit(n, kind, solid, i) = Trailer(n, kind, solid)
      BY <1>1, <1>3 DEF Unit
    <2>2. Trailer(n, kind, solid) \in Trailers /\ Trailer(n, kind, solid).end
      BY DEF Trailer, Trailers
    <2>3. ~(i < Packet)
      BY <1>1, <1>3
    <2> QED BY <1>3, <2>1, <2>2, <2>3 DEF Written
  <1> QED BY <1>1, <1>2, <1>3

LEMMA WrittenIs ==
  ASSUME NEW x \in Written
  PROVE  /\ x.end \in BOOLEAN /\ x.packet \in 0..Seqs - 1
         /\ x.end => x \in Trailers /\ x.kind \in Kinds /\ x.solid \in BOOLEAN
         /\ ~x.end => x \in Payloads
  BY DEF Written, Payloads, Trailers

\* A packet written behind what there is, as far as it fits.
Behind(u, v, L, M, size, n, kind, solid) ==
  /\ L \in Nat /\ size \in 0..Packet /\ M \in Nat /\ M = L + size
  /\ n \in 0..Seqs - 1 /\ kind \in Kinds /\ solid \in BOOLEAN
  /\ \A i \in 0..L - 1 : v[i] = u[i]
  /\ \A i \in 1..size : v[L + i - 1] = Unit(n, kind, solid, i)

LEMMA BehindLaid ==
  ASSUME NEW u, NEW v, NEW L, NEW M, NEW size, NEW n,
         NEW kind, NEW solid, Laid(u, L), Behind(u, v, L, M, size, n, kind, solid)
  PROVE  /\ Laid(v, M)
         /\ \A q \in L..M - 1 : v[q].end => q = L + Packet - 1 /\ size = Packet
                                                /\ v[q] = Trailer(n, kind, solid)
         /\ \A q \in 0..L - 1 : v[q] = u[q]
  <1>0. /\ L \in Nat /\ size \in 0..Packet /\ M \in Nat /\ M = L + size
        /\ n \in 0..Seqs - 1 /\ kind \in Kinds /\ solid \in BOOLEAN
    BY DEF Behind
  <1> USE <1>0
  <1>1. Packet \in Nat /\ Packet >= 3
    BY Sizes
  <1>2. ASSUME NEW q \in L..M - 1
        PROVE  /\ q - L + 1 \in 1..Packet /\ v[q] = Unit(n, kind, solid, q - L + 1)
               /\ v[q] \in Written
               /\ v[q].end => q = L + Packet - 1 /\ size = Packet /\ v[q] = Trailer(n, kind, solid)
    <2>1. q - L + 1 \in 1..size /\ q - L + 1 \in 1..Packet /\ L + (q - L + 1) - 1 = q
      BY <1>1
    <2>2. v[L + (q - L + 1) - 1] = Unit(n, kind, solid, q - L + 1)
      BY <2>1 DEF Behind
    <2>3. v[q] = Unit(n, kind, solid, q - L + 1)
      BY <2>1, <2>2
    <2>4. /\ v[q] \in Written /\ (v[q].end <=> q - L + 1 = Packet)
          /\ q - L + 1 = Packet => v[q] = Trailer(n, kind, solid)
      BY <2>1, <2>3, UnitIs
    <2>5. q - L + 1 = Packet => q = L + Packet - 1 /\ size = Packet
      BY <1>1, <2>1
    <2> QED BY <2>1, <2>3, <2>4, <2>5
  <1>3. \A q \in 0..L - 1 : v[q] = u[q]
    BY DEF Behind
  <1>4. ASSUME NEW q \in 0..M - 1 PROVE v[q] \in Written
    <2>1. q \in 0..L - 1 \/ q \in L..M - 1
      BY <1>1
    <2> QED BY <1>2, <1>3, <2>1 DEF Laid
  <1>5. ASSUME NEW q \in 0..M - 1, v[q].end, NEW i \in 1..Packet - 1, q - Packet + i >= 0
        PROVE  v[q - Packet + i] = Payload(v[q].packet, i, OfKind(v[q].kind))
    <2>1. CASE q \in 0..L - 1
      <3>1. q - Packet + i \in 0..L - 1
        BY <1>1, <1>5, <2>1
      <3>2. v[q] = u[q] /\ v[q - Packet + i] = u[q - Packet + i]
        BY <1>3, <2>1, <3>1
      <3> QED BY <1>5, <2>1, <3>2 DEF Laid
    <2>2. CASE q \in L..M - 1
      <3>1. q = L + Packet - 1 /\ size = Packet /\ v[q] = Trailer(n, kind, solid)
        BY <1>2, <1>5, <2>2
      <3>2. q - Packet + i \in L..M - 1 /\ (q - Packet + i) - L + 1 = i
        BY <1>1, <3>1
      <3>3. v[q - Packet + i] = Unit(n, kind, solid, i)
        BY <1>2, <3>2
      <3>4. Unit(n, kind, solid, i) = Payload(n, i, OfKind(kind))
        BY <1>1 DEF Unit
      <3> QED BY <3>1, <3>3, <3>4 DEF Trailer
    <2> QED BY <1>1, <2>1, <2>2
  <1>6. Laid(v, M)
    BY <1>4, <1>5 DEF Laid
  <1> QED BY <1>2, <1>3, <1>6

\* The card before and after a packet.
Onward(c, d, size, n, kind, solid) ==
  /\ n = IF kind = "sequence" THEN (c.seq + 1) % Seqs ELSE c.seq
  /\ d.seq = (n + 1) % Seqs
  /\ d.run = IF size < Packet \/ kind \notin {"good", "sequence"} THEN 0
             ELSE IF kind = "sequence" THEN 1 ELSE Least(c.run + 1, NumSync - 1)
  /\ solid <=> kind = "good" /\ c.run = NumSync - 1

LEMMA NumberOn ==
  ASSUME NEW p \in 0..Seqs - 1, NEW k \in 0..NumSync, NEW n \in 0..Seqs - 1, (p + k) % Seqs = n
  PROVE  (p + k + 1) % Seqs = (n + 1) % Seqs
  <1>1. Seqs \in Nat \ {0} /\ NumSync \in Nat /\ k \in 0..Seqs /\ k + 1 \in 0..Seqs /\ 1 \in 0..Seqs
    BY Sizes
  <1>2. (p + k) % Seqs = IF p + k < Seqs THEN p + k ELSE p + k - Seqs
    BY <1>1, PlaceAt
  <1>3. (p + (k + 1)) % Seqs = IF p + (k + 1) < Seqs THEN p + (k + 1) ELSE p + (k + 1) - Seqs
    BY <1>1, PlaceAt
  <1>4. (n + 1) % Seqs = IF n + 1 < Seqs THEN n + 1 ELSE n + 1 - Seqs
    BY <1>1, PlaceAt
  <1>5. p + (k + 1) = p + k + 1
    BY <1>1
  <1> QED BY <1>1, <1>2, <1>3, <1>4, <1>5

LEMMA NumbersIn ==
  ASSUME NEW n \in 0..Seqs - 1
  PROVE  n % Seqs = n /\ (n + 0) % Seqs = n /\ (n + 1) % Seqs \in 0..Seqs - 1
  BY Sizes

GoesOn(c, d, size, n, kind) ==
  /\ n \in 0..Seqs - 1 /\ d.seq \in 0..Seqs - 1 /\ d.run \in 0..NumSync - 1 /\ c.run \in 0..NumSync - 1
  /\ d.run > 0 => size = Packet /\ kind \in {"good", "sequence"}
  /\ d.run > 1 => d.run <= c.run + 1 /\ kind = "good"
  /\ kind = "good" => n = c.seq

LEMMA OnwardIs ==
  ASSUME NEW c \in Cards, NEW d, NEW size \in 0..Packet, NEW n, NEW kind \in Kinds,
         NEW solid \in BOOLEAN, Onward(c, d, size, n, kind, solid)
  PROVE  GoesOn(c, d, size, n, kind)
  <1>1. NumSync \in Nat /\ NumSync >= 2 /\ Packet \in Nat
    BY Sizes
  <1>2. c.seq \in 0..Seqs - 1 /\ c.run \in 0..NumSync - 1
    BY DEF Cards
  <1>3. n \in 0..Seqs - 1 /\ d.seq \in 0..Seqs - 1
    <2>1. n \in 0..Seqs - 1
      BY <1>2, NumbersIn DEF Onward
    <2> QED BY <2>1, NumbersIn DEF Onward
  <1>4. d.run \in 0..NumSync - 1
    BY <1>1, <1>2 DEF Onward, Least
  <1>5. d.run > 0 => size = Packet /\ kind \in {"good", "sequence"}
    BY <1>1 DEF Onward
  <1>6. d.run > 1 => d.run <= c.run + 1 /\ kind = "good"
    BY <1>1, <1>2 DEF Onward, Least
  <1> QED BY <1>2, <1>3, <1>4, <1>5, <1>6 DEF Onward, GoesOn

LEMMA BehindLinked ==
  ASSUME NEW u, NEW v, NEW L, NEW M, NEW size, NEW n, NEW kind,
         NEW solid, NEW c \in Cards, NEW d, Laid(u, L),
         Behind(u, v, L, M, size, n, kind, solid), Onward(c, d, size, n, kind, solid), Linked(u, L, c)
  PROVE  Linked(v, M, d)
  <1>0. /\ L \in Nat /\ size \in 0..Packet /\ M \in Nat /\ M = L + size
        /\ n \in 0..Seqs - 1 /\ kind \in Kinds /\ solid \in BOOLEAN
    BY DEF Behind
  <1> USE <1>0
  <1>1. /\ NumSync \in Nat /\ NumSync >= 2 /\ Packet \in Nat /\ Packet >= 3
    BY Sizes
  <1>2. /\ n \in 0..Seqs - 1 /\ d.run \in 0..NumSync - 1 /\ c.run \in 0..NumSync - 1
        /\ d.run > 0 => size = Packet /\ kind \in {"good", "sequence"}
        /\ d.run > 1 => d.run <= c.run + 1 /\ kind = "good"
        /\ kind = "good" => n = c.seq
    <2>1. GoesOn(c, d, size, n, kind)
      BY OnwardIs
    <2> QED BY <2>1 DEF GoesOn
  <1>3. /\ \A q \in L..M - 1 : v[q].end => q = L + Packet - 1 /\ size = Packet
                                                /\ v[q] = Trailer(n, kind, solid)
        /\ \A q \in 0..L - 1 : v[q] = u[q]
    BY BehindLaid
  <1>4. ASSUME NEW k \in 1..NumSync, k - 1 \in 0..c.run - 1, Back(L + Packet - 1, k) >= 0
        PROVE  /\ Fine(v[Back(L + Packet - 1, k)])
               /\ (v[Back(L + Packet - 1, k)].packet + k) % Seqs = c.seq
               /\ v[Back(L + Packet - 1, k)].packet \in 0..Seqs - 1
    <2> DEFINE b == Back(L - 1, k - 1)
    <2>1. Back(L + Packet - 1, k) = b /\ b \in Int /\ b <= L - 1
      <3>1. L - 1 \in Int /\ k - 1 \in Int /\ (k - 1) + 1 = k /\ (L - 1) + Packet = L + Packet - 1 /\ k - 1 >= 0
        BY <1>1
      <3>2. Back((L - 1) + Packet, (k - 1) + 1) = b /\ b \in Int /\ b <= L - 1
        BY <3>1, BackIs
      <3> HIDE DEF b
      <3> QED BY <3>1, <3>2
    <2>2. b \in 0..L - 1
      BY <1>4, <2>1
    <2>3. Fine(u[b]) /\ (u[b].packet + (k - 1) + 1) % Seqs = c.seq
      BY <1>4, <2>2 DEF Linked
    <2>4. u[b].packet \in 0..Seqs - 1 /\ v[b] = u[b]
      BY <1>3, <2>2, WrittenIs DEF Laid
    <2> HIDE DEF b
    <2>5. u[b].packet + (k - 1) + 1 = u[b].packet + k
      BY <1>1, <2>4
    <2> QED BY <2>1, <2>3, <2>4, <2>5
  <1>5. size = Packet => v[L + Packet - 1] = Unit(n, kind, solid, Packet)
                         /\ v[L + Packet - 1] = Trailer(n, kind, solid)
    BY <1>1 DEF Behind, Unit
  <1>6. ASSUME NEW q \in 0..M - 1, v[q].end, v[q].solid
        PROVE  LinkedAt(v, q, NumSync - 1, v[q].packet)
    <2>1. CASE q \in 0..L - 1
      <3>1. LinkedAt(u, q, NumSync - 1, u[q].packet) /\ v[q] = u[q]
        BY <1>3, <1>6, <2>1 DEF Linked
      <3>2. ASSUME NEW k \in 0..NumSync - 1, Back(q, k) >= 0
            PROVE  v[Back(q, k)] = u[Back(q, k)]
        <4>1. Back(q, k) \in 0..L - 1
          <5>1. Back(q, k) \in Int /\ Back(q, k) <= q
            <6>1. q \in Int /\ k \in Int /\ k >= 0
              BY <1>1, <2>1
            <6> QED BY <6>1, BackIs
          <5> QED BY <2>1, <3>2, <5>1
        <4> QED BY <1>3, <4>1
      <3> QED BY <3>1, <3>2 DEF LinkedAt
    <2>2. CASE q \in L..M - 1
      <3>1. q = L + Packet - 1 /\ size = Packet /\ v[q] = Trailer(n, kind, solid)
        BY <1>3, <1>6, <2>2
      <3>2. solid /\ kind = "good" /\ c.run = NumSync - 1 /\ v[q].packet = n /\ n = c.seq
        BY <1>2, <1>6, <3>1 DEF Trailer, Onward
      <3>3. ASSUME NEW k \in 0..NumSync - 1, Back(q, k) >= 0
            PROVE  Fine(v[Back(q, k)]) /\ (v[Back(q, k)].packet + k) % Seqs = n
        <4>1. CASE k = 0
          <5>1. Back(q, k) = q
            BY <1>1, <3>1, <4>1, BackIs
          <5>2. Fine(v[q])
            BY <3>1, <3>2 DEF Fine, Trailer
          <5>3. (v[q].packet + k) % Seqs = n
            BY <1>2, <3>2, <4>1, NumbersIn
          <5> QED BY <5>1, <5>2, <5>3
        <4>2. CASE k # 0
          <5>1. k \in 1..NumSync /\ k - 1 \in 0..c.run - 1
            BY <1>1, <3>2, <4>2
          <5> QED BY <1>4, <3>1, <3>2, <3>3, <5>1
        <4> QED BY <4>1, <4>2
      <3> QED BY <3>2, <3>3 DEF LinkedAt
    <2> QED BY <1>1, <2>1, <2>2
  <1>7. ASSUME NEW k \in 0..d.run - 1, Back(M - 1, k) >= 0
        PROVE  Fine(v[Back(M - 1, k)]) /\ (v[Back(M - 1, k)].packet + k + 1) % Seqs = d.seq
    <2>1. d.run > 0 /\ size = Packet /\ kind \in {"good", "sequence"}
      BY <1>2, <1>7
    <2>2. d.seq = (n + 1) % Seqs
      BY DEF Onward
    <2>3. CASE k = 0
      <3>1. Back(L + Packet - 1, k) = L + Packet - 1
        BY <1>1, <2>3, BackIs
      <3>2. Fine(v[L + Packet - 1]) /\ v[L + Packet - 1].packet = n
        BY <1>5, <2>1 DEF Fine, Trailer
      <3>3. n + k + 1 = n + 1
        BY <1>2, <2>3
      <3> QED BY <2>1, <2>2, <3>1, <3>2, <3>3
    <2>4. CASE k # 0
      <3>1. k \in 1..NumSync /\ k - 1 \in 0..c.run - 1 /\ n = c.seq /\ k \in 0..NumSync
        BY <1>1, <1>2, <1>7, <2>4
      <3>2. /\ Fine(v[Back(L + Packet - 1, k)])
            /\ (v[Back(L + Packet - 1, k)].packet + k) % Seqs = n
            /\ v[Back(L + Packet - 1, k)].packet \in 0..Seqs - 1
        BY <1>4, <1>7, <2>1, <3>1
      <3>3. (v[Back(L + Packet - 1, k)].packet + k + 1) % Seqs = (n + 1) % Seqs
        BY <1>2, <3>1, <3>2, NumberOn
      <3> QED BY <2>1, <2>2, <3>2, <3>3
    <2> QED BY <2>3, <2>4
  <1> QED BY <1>6, <1>7 DEF Linked

--------------------------------------------------------------------------------
(* Where the scan is among the good packets that come before a solid trailer.  The trailers of such  *)
(* a row, q the last and m before it, are still to be scanned; or the scan is between two of them.   *)

FitsAt(s, oos, q, m) ==
  Back(q, m) >= s \/ (~oos /\ \E k \in 0..m : s = Back(q, k) + 1)

Fits(u, L, c, s, oos) ==
  /\ \A q \in s..L - 1 : u[q].end /\ u[q].solid => FitsAt(s, oos, q, NumSync - 1)
  /\ c.run > 0 => FitsAt(s, oos, L - 1, c.run - 1)
  /\ ~oos /\ s < L => ~u[s].end

\* One packet more at the end of the row.
LEMMA FitsOn ==
  ASSUME NEW s \in Int, NEW oos \in BOOLEAN, NEW q \in Int, NEW m \in Nat, FitsAt(s, oos, q, m)
  PROVE  /\ FitsAt(s, oos, q + Packet, m + 1)
         /\ FitsAt(s, oos, q + Packet, m)
  <1>1. Packet \in Nat /\ Packet >= 3
    BY Sizes
  <1>2. ASSUME NEW k \in 0..m
        PROVE  Back(q, k) \in Int /\ Back(q + Packet, k + 1) = Back(q, k)
    <2>1. k \in Int
      OBVIOUS
    <2> QED BY <2>1, BackIs
  <1>3. Back(q + Packet, m) = Back(q, m) + Packet
    <2>1. q + Packet \in Int /\ m \in Int
      BY <1>1
    <2>2. Back(q + Packet, m + 1) = Back(q + Packet, m) - Packet /\ Back(q + Packet, m) \in Int
      BY <2>1, BackIs
    <2>3. Back(q + Packet, m + 1) = Back(q, m) /\ Back(q, m) \in Int
      BY <1>2
    <2> QED BY <1>1, <2>2, <2>3
  <1>4. CASE Back(q, m) >= s
    <2>1. Back(q + Packet, m + 1) >= s
      BY <1>2, <1>4
    <2>2. Back(q + Packet, m) >= s
      BY <1>1, <1>2, <1>3, <1>4
    <2> QED BY <2>1, <2>2 DEF FitsAt
  <1>5. ASSUME ~oos, NEW k \in 0..m, s = Back(q, k) + 1
        PROVE  FitsAt(s, oos, q + Packet, m + 1) /\ FitsAt(s, oos, q + Packet, m)
    <2>1. k + 1 \in 0..m + 1 /\ s = Back(q + Packet, k + 1) + 1
      BY <1>2, <1>5
    <2>2. FitsAt(s, oos, q + Packet, m + 1)
      BY <1>5, <2>1 DEF FitsAt
    <2>3. CASE k = m
      <3>1. Back(q + Packet, m) >= s
        BY <1>1, <1>2, <1>3, <1>5, <2>3
      <3> QED BY <2>2, <3>1 DEF FitsAt
    <2>4. CASE k # m
      <3>1. k + 1 \in 0..m
        BY <2>4
      <3>2. FitsAt(s, oos, q + Packet, m)
        BY <1>5, <2>1, <3>1 DEF FitsAt
      <3> QED BY <2>2, <3>2
    <2> QED BY <2>3, <2>4
  <1> QED BY <1>4, <1>5 DEF FitsAt

LEMMA BehindFits ==
  ASSUME NEW u, NEW v, NEW L, NEW M, NEW size, NEW n, NEW kind, NEW solid,
         NEW c \in Cards, NEW d, NEW s \in 0..L, NEW oos \in BOOLEAN, Laid(u, L), Behind(u, v, L, M, size, n, kind, solid), Onward(c, d, size, n, kind, solid),
         Fits(u, L, c, s, oos)
  PROVE  Fits(v, M, d, s, oos)
  <1>0. /\ L \in Nat /\ size \in 0..Packet /\ M \in Nat /\ M = L + size
        /\ n \in 0..Seqs - 1 /\ kind \in Kinds /\ solid \in BOOLEAN
    BY DEF Behind
  <1> USE <1>0
  <1>1. /\ NumSync \in Nat /\ NumSync >= 2 /\ Packet \in Nat /\ Packet >= 3
    BY Sizes
  <1>2. /\ n \in 0..Seqs - 1 /\ d.run \in 0..NumSync - 1 /\ c.run \in 0..NumSync - 1
        /\ d.run > 0 => size = Packet /\ kind \in {"good", "sequence"}
        /\ d.run > 1 => d.run <= c.run + 1 /\ kind = "good"
        /\ kind = "good" => n = c.seq
    <2>1. GoesOn(c, d, size, n, kind)
      BY OnwardIs
    <2> QED BY <2>1 DEF GoesOn
  <1>3. /\ Laid(v, M)
        /\ \A q \in L..M - 1 : v[q].end => q = L + Packet - 1 /\ size = Packet
                                                /\ v[q] = Trailer(n, kind, solid)
        /\ \A q \in 0..L - 1 : v[q] = u[q]
    BY BehindLaid
  <1>4. L - 1 \in Int /\ (L - 1) + Packet = L + Packet - 1 /\ s \in Int
    BY <1>1
  <1>5. ASSUME c.run > 0 PROVE FitsAt(s, oos, L + Packet - 1, c.run)
                               /\ FitsAt(s, oos, L + Packet - 1, c.run - 1)
    <2>1. FitsAt(s, oos, L - 1, c.run - 1)
      BY <1>5 DEF Fits
    <2>2. c.run - 1 \in Nat /\ (c.run - 1) + 1 = c.run
      BY <1>1, <1>2, <1>5
    <2>3. /\ FitsAt(s, oos, (L - 1) + Packet, (c.run - 1) + 1)
          /\ FitsAt(s, oos, (L - 1) + Packet, c.run - 1)
      BY <1>4, <2>1, <2>2, FitsOn
    <2> QED BY <1>4, <2>2, <2>3
  <1>6. ASSUME NEW q \in s..M - 1, v[q].end, v[q].solid
        PROVE  FitsAt(s, oos, q, NumSync - 1)
    <2>1. CASE q \in s..L - 1
      <3>1. v[q] = u[q]
        BY <1>3, <2>1
      <3> QED BY <1>6, <2>1, <3>1 DEF Fits
    <2>2. CASE q \in L..M - 1
      <3>1. q = L + Packet - 1 /\ v[q] = Trailer(n, kind, solid)
        BY <1>3, <1>6, <2>2
      <3>2. c.run = NumSync - 1
        BY <1>6, <3>1 DEF Trailer, Onward
      <3> QED BY <1>1, <1>5, <3>1, <3>2
    <2> QED BY <1>1, <2>1, <2>2
  <1>7. ASSUME d.run > 0 PROVE FitsAt(s, oos, M - 1, d.run - 1)
    <2>1. size = Packet
      BY <1>2, <1>7
    <2>2. CASE d.run = 1
      <3>1. Back(L + Packet - 1, 0) = L + Packet - 1 /\ L + Packet - 1 >= s
        <4>1. L + Packet - 1 \in Int /\ 0 \in Int /\ L + Packet - 1 >= s
          BY <1>1
        <4> QED BY <4>1, BackIs
      <3> QED BY <2>1, <2>2, <3>1 DEF FitsAt
    <2>3. CASE d.run # 1
      <3>1. kind = "good" /\ d.run = Least(c.run + 1, NumSync - 1) /\ d.run > 1
        BY <1>2, <1>7, <2>1, <2>3 DEF Onward
      <3>2. d.run - 1 = c.run \/ d.run - 1 = c.run - 1
        BY <1>1, <1>2, <3>1 DEF Least
      <3>3. c.run > 0
        BY <1>2, <3>1, <3>2
      <3> QED BY <1>5, <2>1, <3>2, <3>3
    <2> QED BY <2>2, <2>3
  <1>8. ASSUME ~oos, s < M PROVE ~v[s].end
    <2>1. CASE s < L
      <3>1. s \in 0..L - 1
        BY <2>1
      <3> QED BY <1>3, <1>8, <2>1, <3>1 DEF Fits
    <2>2. CASE ~(s < L)
      <3>1. s = L /\ s \in L..M - 1 /\ s # L + Packet - 1
        BY <1>1, <1>8, <2>2
      <3>2. v[s].end \in BOOLEAN
        <4>1. s \in 0..M - 1
          BY <1>8
        <4> QED BY <1>3, <4>1, WrittenIs DEF Laid
      <3> QED BY <1>3, <3>1, <3>2
    <2> QED BY <2>1, <2>2
  <1> QED BY <1>6, <1>7, <1>8 DEF Fits

--------------------------------------------------------------------------------
(* A round of the scan, by where it is.                                      *)

Ground(u, L, c) == L \in 0..Size - 1 /\ c \in Cards /\ Laid(u, L) /\ Linked(u, L, c)

\* Two trailers are a packet apart.
LEMMA TrailersApart ==
  ASSUME NEW u, NEW L \in Nat, Laid(u, L), NEW p \in 0..L - 1, NEW q \in 0..L - 1, p < q,
         u[p].end, u[q].end
  PROVE  p + Packet <= q
  <1>1. Packet \in Nat /\ Packet >= 3
    BY Sizes
  <1> SUFFICES ASSUME p + Packet > q PROVE FALSE
    BY <1>1
  <1> DEFINE i == p - q + Packet
  <1>2. i \in 1..Packet - 1 /\ q - Packet + i = p
    BY <1>1
  <1>3. u[p] = Payload(u[q].packet, i, OfKind(u[q].kind))
    <2>1. q - Packet + i >= 0
      BY <1>2
    <2> HIDE DEF i
    <2>2. u[q - Packet + i] = Payload(u[q].packet, i, OfKind(u[q].kind))
      BY <1>2, <2>1 DEF Laid
    <2> QED BY <1>2, <2>2
  <1> QED BY <1>3 DEF Payload

\* What ends at q, with m before it, are trailers in the ring as far as it goes back.
Row(u, L, q, m) ==
  /\ q \in -1..L - 1 /\ m \in Nat
  /\ \A k \in 0..m : Back(q, k) >= 0 => Fine(u[Back(q, k)])

LEMMA RowAccepted ==
  ASSUME NEW u, NEW L \in Nat, Laid(u, L), NEW q, NEW m, Row(u, L, q, m), NEW s \in Nat, s <= q,
         s + Packet <= L, u[s + Packet - 1].end, FitsAt(s, FALSE, q, m)
  PROVE  FitsAt(s + Packet, FALSE, q, m)
  <1>1. Packet \in Nat /\ Packet >= 3 /\ m \in Nat /\ q \in Int /\ q <= L - 1
    BY Sizes DEF Row
  <1>2. Back(q, m) \in Int /\ Back(q, m) <= q
    BY <1>1, BackIs
  <1> DEFINE t == s + Packet - 1
  <1>3. t \in 0..L - 1 /\ t + 1 = s + Packet
    BY <1>1
  <1>4. CASE Back(q, m) >= s
    <2>1. Back(q, m) \in 0..L - 1 /\ u[Back(q, m)].end
      <3>1. Back(q, m) >= 0 /\ Back(q, m) \in 0..L - 1 /\ m \in 0..m
        BY <1>1, <1>2, <1>4
      <3> QED BY <3>1 DEF Row, Fine
    <2>2. CASE Back(q, m) < t
      <3>1. Back(q, m) + Packet <= t
        BY <1>3, <2>1, <2>2, TrailersApart
      <3> QED BY <1>1, <1>2, <1>4, <3>1
    <2>3. CASE Back(q, m) = t
      <3>1. m \in 0..m /\ s + Packet = Back(q, m) + 1
        BY <1>1, <1>2, <2>3
      <3> QED BY <3>1 DEF FitsAt
    <2>4. CASE Back(q, m) > t
      <3>1. t + Packet <= Back(q, m)
        BY <1>3, <2>1, <2>4, TrailersApart
      <3>2. Back(q, m) >= s + Packet
        BY <1>1, <1>2, <3>1
      <3> QED BY <3>2 DEF FitsAt
    <2>5. Back(q, m) < t \/ Back(q, m) = t \/ Back(q, m) > t
      BY <1>1, <1>2
    <2> QED BY <2>2, <2>3, <2>4, <2>5
  <1>5. ASSUME NEW k \in 0..m, s = Back(q, k) + 1
        PROVE  FitsAt(s + Packet, FALSE, q, m)
    <2>1. k # 0
      <3>1. Back(q, 0) = q
        BY <1>1, BackIs
      <3> QED BY <1>1, <1>5, <3>1
    <2>2. k - 1 \in 0..m /\ k - 1 \in Int /\ (k - 1) + 1 = k
      BY <1>1, <2>1
    <2>3. Back(q, (k - 1) + 1) = Back(q, k - 1) - Packet /\ Back(q, k - 1) \in Int
      BY ZenonT(60), <1>1, <2>2, BackIs
    <2>4. s + Packet = Back(q, k - 1) + 1
      BY <1>1, <1>5, <2>2, <2>3
    <2> QED BY <2>2, <2>4 DEF FitsAt
  <1> QED BY <1>4, <1>5 DEF FitsAt

LEMMA RowRefused ==
  ASSUME NEW u, NEW L \in Nat, Laid(u, L), NEW q, NEW m, Row(u, L, q, m), NEW s \in Nat, s <= q,
         s + Packet <= L, ~Fine(u[s + Packet - 1]), ~u[s].end, FitsAt(s, FALSE, q, m)
  PROVE  FitsAt(s + 1, TRUE, q, m)
  <1>1. Packet \in Nat /\ Packet >= 3 /\ m \in Nat /\ q \in Int /\ q <= L - 1
    BY Sizes DEF Row
  <1>2. Back(q, m) \in Int /\ Back(q, m) <= q
    BY <1>1, BackIs
  <1>3. CASE Back(q, m) >= s
    <2>1. Back(q, m) # s
      <3>1. Back(q, m) >= 0 /\ m \in 0..m
        BY <1>1, <1>2, <1>3
      <3> QED BY <3>1 DEF Row, Fine
    <2>2. Back(q, m) >= s + 1
      BY <1>2, <1>3, <2>1
    <2> QED BY <2>2 DEF FitsAt
  <1>4. ASSUME NEW k \in 0..m, s = Back(q, k) + 1
        PROVE  FALSE
    <2>1. k # 0
      <3>1. Back(q, 0) = q
        BY <1>1, BackIs
      <3> QED BY <1>1, <1>4, <3>1
    <2>2. k - 1 \in 0..m /\ k - 1 \in Int /\ (k - 1) + 1 = k
      BY <1>1, <2>1
    <2>3. Back(q, (k - 1) + 1) = Back(q, k - 1) - Packet /\ Back(q, k - 1) \in Int
      BY ZenonT(60), <1>1, <2>2, BackIs
    <2>4. Back(q, k - 1) = s + Packet - 1 /\ Back(q, k - 1) >= 0
      BY <1>1, <1>4, <2>2, <2>3
    <2>5. Fine(u[Back(q, k - 1)])
      BY <2>2, <2>4 DEF Row
    <2> QED BY <2>4, <2>5
  <1> QED BY <1>3, <1>4 DEF FitsAt

LEMMA SolidRow ==
  ASSUME NEW u, NEW L, NEW c, Ground(u, L, c), NEW q \in 0..L - 1, u[q].end, u[q].solid
  PROVE  Row(u, L, q, NumSync - 1)
  <1>1. L \in Nat /\ NumSync - 1 \in Nat /\ Linked(u, L, c)
    BY Sizes DEF Ground
  <1> QED BY <1>1 DEF Row, Linked, LinkedAt

LEMMA RunRow ==
  ASSUME NEW u, NEW L, NEW c, Ground(u, L, c), c.run > 0
  PROVE  Row(u, L, L - 1, c.run - 1)
  <1>1. L \in Nat /\ c.run - 1 \in Nat /\ Linked(u, L, c) /\ NumSync \in Nat
    BY Sizes DEF Ground, Cards
  <1> QED BY <1>1 DEF Row, Linked

LEMMA AcceptFits ==
  ASSUME NEW u, NEW L, NEW c, Ground(u, L, c), NEW s \in Nat, s + Packet <= L,
         u[s + Packet - 1].end, Fits(u, L, c, s, FALSE)
  PROVE  Fits(u, L, c, s + Packet, FALSE)
  <1>1. /\ Packet \in Nat /\ Packet >= 3 /\ NumSync \in Nat /\ NumSync >= 2
        /\ L \in Nat /\ Laid(u, L) /\ c.run \in Nat
    BY Sizes DEF Ground, Cards
  <1>2. ASSUME NEW q \in s + Packet..L - 1, u[q].end, u[q].solid
        PROVE  FitsAt(s + Packet, FALSE, q, NumSync - 1)
    <2>1. q \in s..L - 1 /\ q \in 0..L - 1 /\ s <= q
      BY <1>1
    <2>2. FitsAt(s, FALSE, q, NumSync - 1) /\ Row(u, L, q, NumSync - 1)
      BY <1>2, <2>1, SolidRow DEF Fits
    <2> QED BY <1>1, <2>1, <2>2, RowAccepted
  <1>3. ASSUME c.run > 0 PROVE FitsAt(s + Packet, FALSE, L - 1, c.run - 1)
    <2>1. FitsAt(s, FALSE, L - 1, c.run - 1)
      BY <1>3 DEF Fits
    <2>2. Row(u, L, L - 1, c.run - 1)
      BY <1>3, RunRow, Zenon
    <2>3. s <= L - 1
      BY <1>1
    <2> QED BY <1>1, <2>1, <2>2, <2>3, RowAccepted
  <1>4. ASSUME s + Packet < L PROVE ~u[s + Packet].end
    <2> SUFFICES ASSUME u[s + Packet].end PROVE FALSE
      OBVIOUS
    <2>1. s + Packet - 1 \in 0..L - 1 /\ s + Packet \in 0..L - 1 /\ s + Packet - 1 < s + Packet
      BY <1>1, <1>4
    <2>2. s + Packet - 1 + Packet <= s + Packet
      BY <1>1, <2>1, TrailersApart
    <2> QED BY <1>1, <2>2
  <1> QED BY <1>2, <1>3, <1>4 DEF Fits

LEMMA RefuseFits ==
  ASSUME NEW u, NEW L, NEW c, Ground(u, L, c), NEW s \in Nat, s + Packet <= L,
         ~Fine(u[s + Packet - 1]), Fits(u, L, c, s, FALSE)
  PROVE  Fits(u, L, c, s + 1, TRUE)
  <1>1. /\ Packet \in Nat /\ Packet >= 3 /\ NumSync \in Nat /\ NumSync >= 2
        /\ L \in Nat /\ Laid(u, L) /\ c.run \in Nat
    BY Sizes DEF Ground, Cards
  <1>2. ~u[s].end
    BY <1>1 DEF Fits
  <1>3. ASSUME NEW q \in s + 1..L - 1, u[q].end, u[q].solid
        PROVE  FitsAt(s + 1, TRUE, q, NumSync - 1)
    <2>1. q \in s..L - 1 /\ q \in 0..L - 1 /\ s <= q
      BY <1>1
    <2>2. FitsAt(s, FALSE, q, NumSync - 1) /\ Row(u, L, q, NumSync - 1)
      BY <1>3, <2>1, SolidRow DEF Fits
    <2> QED BY <1>1, <1>2, <2>1, <2>2, RowRefused
  <1>4. ASSUME c.run > 0 PROVE FitsAt(s + 1, TRUE, L - 1, c.run - 1)
    <2>1. FitsAt(s, FALSE, L - 1, c.run - 1)
      BY <1>4 DEF Fits
    <2>2. Row(u, L, L - 1, c.run - 1)
      BY <1>4, RunRow, Zenon
    <2>3. s <= L - 1
      BY <1>1
    <2> QED BY <1>1, <1>2, <2>1, <2>2, <2>3, RowRefused
  <1> QED BY <1>3, <1>4 DEF Fits

--------------------------------------------------------------------------------
(* The search.                                                               *)

\* What a side sees of the ring.
Sees(a, u, L) == a.r \in Slots /\ card.w \in Slots /\ u = View(ring, a.r) /\ L = Loaded(card, a.r)

LEMMA SeesIs ==
  ASSUME NEW a, NEW u, NEW L, Sees(a, u, L)
  PROVE  /\ RingLoad(a) = L /\ L \in 0..Size - 1
         /\ \A i \in 0..Size - 1 : UnitAt(a, i) = u[i]
  <1>1. Size \in Nat \ {0} /\ a.r \in 0..Size - 1 /\ card.w \in 0..Size - 1
    BY Sizes DEF Sees
  <1>2. RingLoad(a) = L
    BY <1>1, FarFrom DEF RingLoad, Sees, Loaded, Ahead
  <1>3. L \in 0..Size - 1
    BY <1>1, PlaceAhead DEF Sees, Loaded
  <1>4. ASSUME NEW i \in 0..Size - 1 PROVE UnitAt(a, i) = u[i]
    <2>1. i \in 0..Size
      BY <1>1
    <2>2. (a.r + i) % Size = Place(Size, a.r, i)
      BY <1>1, <2>1, PlaceAt DEF Place
    <2> QED BY <2>2 DEF UnitAt, Sees, View
  <1> QED BY <1>2, <1>3, <1>4

LEMMA SyncRange ==
  ASSUME NEW i \in 0..NumSync - 1
  PROVE  i * Packet \in Nat /\ i * Packet <= NumSync * Packet - Packet
  <1>1. Packet \in Nat /\ NumSync \in Nat
    BY Sizes
  <1>2. i * Packet <= (NumSync - 1) * Packet /\ i * Packet \in Nat
    BY <1>1, SMT
  <1>3. (NumSync - 1) * Packet = NumSync * Packet - Packet
    BY <1>1, SMT
  <1> QED BY <1>2, <1>3

LEMMA SyncEnds ==
  ASSUME NEW a, NEW u, NEW L, Sees(a, u, L), NEW s \in Nat, NEW p \in Nat,
         s + p + NumSync * Packet <= L, IsSync(a, s, p)
  PROVE  u[s + p].end
  <1>1. /\ Size \in Nat /\ NumSync \in Nat /\ NumSync >= 2 /\ Packet \in Nat /\ Packet >= 3
        /\ NumSync * Packet \in Nat /\ L \in 0..Size - 1
    BY Sizes, SeesIs
  <1>2. 0 \in 0..NumSync - 1 /\ 0 * Packet = 0 /\ s + p + 0 * Packet = s + p /\ s + p \in 0..Size - 1
    BY <1>1, SMT
  <1>3. HasNibble(UnitAt(a, s + p + 0 * Packet))
    BY <1>2 DEF IsSync
  <1>4. UnitAt(a, s + p) = u[s + p]
    BY <1>2, SeesIs
  <1> QED BY <1>2, <1>3, <1>4 DEF HasNibble

LEMMA NumberBack ==
  ASSUME NEW x \in 0..Seqs - 1, NEW y \in 0..Seqs - 1, NEW i \in 0..NumSync - 1,
         (x + ((NumSync - 1) - i)) % Seqs = (y + (NumSync - 1)) % Seqs
  PROVE  x = (y + i) % Seqs
  <1>1. /\ Seqs \in Nat \ {0} /\ NumSync \in Nat /\ NumSync >= 2 /\ Seqs > NumSync
        /\ i \in 0..Seqs /\ (NumSync - 1) - i \in 0..Seqs /\ NumSync - 1 \in 0..Seqs
    BY Sizes
  <1> DEFINE k == (NumSync - 1) - i
             m == NumSync - 1
  <1>2. (x + k) % Seqs = IF x + k < Seqs THEN x + k ELSE x + k - Seqs
    BY <1>1, PlaceAt
  <1>3. (y + m) % Seqs = IF y + m < Seqs THEN y + m ELSE y + m - Seqs
    BY <1>1, PlaceAt
  <1>4. (y + i) % Seqs = IF y + i < Seqs THEN y + i ELSE y + i - Seqs
    BY <1>1, PlaceAt
  <1> QED BY <1>1, <1>2, <1>3, <1>4

\* A solid trailer is the last of a stream's, whose first the search finds when it gets there.
LEMMA SolidSync ==
  ASSUME NEW a, NEW u, NEW L, NEW c, Sees(a, u, L), Ground(u, L, c), NEW s \in Nat,
         NEW q \in 0..L - 1, u[q].end, u[q].solid, NEW p \in Nat, Back(q, NumSync - 1) = s + p
  PROVE  IsSync(a, s, p)
  <1>1. /\ Size \in Nat /\ NumSync \in Nat /\ NumSync >= 2 /\ Packet \in Nat /\ Packet >= 3
        /\ NumSync * Packet \in Nat /\ L \in 0..Size - 1 /\ L \in Nat
    BY Sizes, SeesIs
  <1>2. /\ LinkedAt(u, q, NumSync - 1, u[q].packet)
        /\ \A i \in 0..L - 1 : u[i] \in Written
    BY DEF Ground, Linked, Laid
  <1> DEFINE t(i) == s + p + i * Packet
  <1>3. ASSUME NEW i \in 0..NumSync - 1
        PROVE  /\ Fine(UnitAt(a, t(i)))
               /\ (UnitAt(a, t(i)).packet + ((NumSync - 1) - i)) % Seqs = u[q].packet
               /\ UnitAt(a, t(i)).packet \in 0..Seqs - 1
    <2> DEFINE k == (NumSync - 1) - i
    <2>1. k \in 0..NumSync - 1 /\ k \in Int /\ k >= 0 /\ i \in Nat
      BY <1>1
    <2>2. i * Packet \in Nat /\ k * Packet = (NumSync - 1) * Packet - i * Packet
      BY <1>1, <2>1, SMT
    <2>3. Back(q, k) = t(i)
      <3>1. (NumSync - 1) * Packet \in Int
        BY <1>1
      <3>2. q - (NumSync - 1) * Packet = s + p
        BY DEF Back
      <3>3. Back(q, k) = q - k * Packet
        BY DEF Back
      <3> HIDE DEF k
      <3> DEFINE x == (NumSync - 1) * Packet
                 y == i * Packet
                 z == k * Packet
      <3>4. x \in Int /\ y \in Int /\ z = x - y /\ q - x = s + p /\ Back(q, k) = q - z
        BY <2>2, <3>1, <3>2, <3>3
      <3>5. q - (x - y) = s + p + y
        <4> HIDE DEF x, y, z
        <4> QED BY <1>1, <3>4
      <3> QED BY <3>4, <3>5
    <2>4. Back(q, k) \in 0..L - 1
      <3>1. Back(q, k) <= q /\ Back(q, k) \in Int
        BY <2>1, BackIs
      <3>2. Back(q, k) >= 0
        BY <1>1, <2>2, <2>3
      <3> QED BY <1>1, <3>1, <3>2
    <2> HIDE DEF k, t
    <2>5. Fine(u[Back(q, k)]) /\ (u[Back(q, k)].packet + k) % Seqs = u[q].packet
      BY <1>2, <2>1, <2>4 DEF LinkedAt
    <2>6. u[Back(q, k)].packet \in 0..Seqs - 1
      BY <1>2, <2>4, WrittenIs
    <2>7. UnitAt(a, t(i)) = u[Back(q, k)]
      <3>1. t(i) \in 0..Size - 1
        BY <1>1, <2>3, <2>4
      <3> QED BY <2>3, <3>1, SeesIs
    <2> QED BY <2>5, <2>6, <2>7 DEF k
  <1>4. ASSUME NEW i \in 1..NumSync - 1
        PROVE  UnitAt(a, t(i)).packet = (UnitAt(a, t(0)).packet + i) % Seqs
    <2>1. i \in 0..NumSync - 1 /\ 0 \in 0..NumSync - 1 /\ (NumSync - 1) - 0 = NumSync - 1
      BY <1>1
    <2> HIDE DEF t
    <2>2. (UnitAt(a, t(0)).packet + (NumSync - 1)) % Seqs = u[q].packet
      BY <1>3, <2>1
    <2> QED BY <1>3, <2>1, <2>2, NumberBack
  <1>5. ASSUME NEW i \in 0..NumSync - 1
        PROVE  HasNibble(UnitAt(a, t(i))) /\ ValidCountFits(a.mode, UnitAt(a, t(i)))
    <2> HIDE DEF t
    <2> QED BY <1>3 DEF Fine, HasNibble, ValidCountFits
  <1>6. \A i \in 1..NumSync - 1 : i \in 0..NumSync - 1
    OBVIOUS
  <1>7. \A i : t(i) = s + p + i * Packet
    OBVIOUS
  <1> HIDE DEF t
  <1> QED BY <1>4, <1>5, <1>6, <1>7, Zenon DEF IsSync

\* What the search finds.
Found(a, s, size, p) ==
  /\ p \in 0..size - NumSync * Packet /\ IsSync(a, s, p)
  /\ \A x \in 0..size - NumSync * Packet : IsSync(a, s, x) => p <= x

LEMMA FindSyncIs ==
  ASSUME NEW a, NEW s \in Nat, NEW size \in Nat, size >= NumSync * Packet
  PROVE  \/ /\ FindSync(a, s, size) = -1
            /\ \A x \in 0..size - NumSync * Packet : ~IsSync(a, s, x)
         \/ \E p \in Nat :
              /\ Found(a, s, size, p)
              /\ FindSync(a, s, size) = IF p >= Packet - 1 THEN p - (Packet - 1) ELSE p + 1
  <1> DEFINE found == {p \in 0..size - NumSync * Packet : IsSync(a, s, p)}
  <1>1. NumSync * Packet \in Nat
    BY Sizes
  <1>2. CASE found = {}
    <2>1. FindSync(a, s, size) = -1
      BY <1>2 DEF FindSync
    <2> QED BY <1>2, <2>1
  <1>3. CASE found # {}
    <2>1. Min(found) \in found /\ \A x \in found : Min(found) <= x
      <3>1. found \in SUBSET Nat
        BY <1>1
      <3> HIDE DEF found
      <3> QED BY <1>3, <3>1, LeastIs
    <2>2. FindSync(a, s, size) = IF Min(found) >= Packet - 1 THEN Min(found) - (Packet - 1)
                                 ELSE Min(found) + 1
      BY <1>3 DEF FindSync
    <2>3. Found(a, s, size, Min(found)) /\ Min(found) \in Nat
      BY <1>1, <2>1 DEF Found
    <2> HIDE DEF found
    <2> QED BY <2>2, <2>3
  <1> QED BY <1>2, <1>3

\* The search passes over no solid trailer, and stays where it fits.
Passes(u, L, c, s, n, oos) ==
  /\ n \in Nat /\ oos \in BOOLEAN /\ s + n <= L
  /\ \A i \in s..s + n - 1 : ~(u[i].end /\ u[i].solid)
  /\ Fits(u, L, c, s + n, oos)

LEMMA RunIsFar ==
  ASSUME NEW c \in Cards, c.run > 0, NEW L \in Nat
  PROVE  Back(L - 1, c.run - 1) \in Int /\ Back(L - 1, c.run - 1) >= L + 1 - NumSync * Packet
  <1>1. /\ NumSync \in Nat /\ Packet \in Nat /\ Packet >= 3 /\ NumSync * Packet \in Nat
        /\ c.run - 1 \in 0..NumSync - 1
    BY Sizes DEF Cards
  <1> DEFINE k == c.run - 1
             x == k * Packet
             y == NumSync * Packet
  <1>2. x \in Nat /\ x <= y - Packet
    BY <1>1, SyncRange
  <1>3. Back(L - 1, k) = (L - 1) - x
    BY DEF Back
  <1>4. y \in Nat
    BY <1>1
  <1> HIDE DEF x, y, k
  <1>5. Back(L - 1, k) \in Int /\ Back(L - 1, k) >= L + 1 - y
    BY <1>1, <1>2, <1>3, <1>4
  <1> QED BY <1>5 DEF k, y

LEMMA PassedFits ==
  ASSUME NEW u, NEW L, NEW c, Ground(u, L, c), NEW s \in Nat, NEW n \in Nat, NEW oos \in BOOLEAN,
         Fits(u, L, c, s, TRUE), s + n + NumSync * Packet <= L + 1,
         \A q \in s..L - 1 : u[q].end /\ u[q].solid /\ Back(q, NumSync - 1) >= s =>
           Back(q, NumSync - 1) >= s + n \/ (~oos /\ Back(q, NumSync - 1) + 1 = s + n),
         ~oos /\ s + n < L => ~u[s + n].end
  PROVE  Passes(u, L, c, s, n, oos)
  <1>1. /\ Packet \in Nat /\ Packet >= 3 /\ NumSync \in Nat /\ NumSync >= 2 /\ NumSync * Packet \in Nat
        /\ L \in Nat /\ c \in Cards /\ c.run \in Nat
    BY Sizes DEF Ground, Cards
  <1>2. NumSync * Packet >= Packet
    BY <1>1, SMT
  <1>3. ASSUME NEW q \in s..L - 1, u[q].end, u[q].solid
        PROVE  /\ FitsAt(s + n, oos, q, NumSync - 1)
               /\ ~(q <= s + n - 1)
    <2> DEFINE b == Back(q, NumSync - 1)
    <2>1. b \in Int /\ b <= q - Packet
      <3>1. q \in Int /\ NumSync - 1 \in Int /\ NumSync - 1 >= 1
        BY <1>1
      <3> QED BY <3>1, BackIs
    <2>2. FitsAt(s, TRUE, q, NumSync - 1)
      BY <1>3 DEF Fits
    <2>3. b >= s
      BY <2>2 DEF FitsAt
    <2>4. b >= s + n \/ (~oos /\ b + 1 = s + n)
      BY <1>3, <2>3
    <2>5. NumSync - 1 \in 0..NumSync - 1
      BY <1>1
    <2>6. FitsAt(s + n, oos, q, NumSync - 1)
      BY <2>4, <2>5 DEF FitsAt
    <2> HIDE DEF b
    <2>7. ~(q <= s + n - 1)
      BY <1>1, <2>1, <2>4
    <2> QED BY <2>6, <2>7
  <1>4. ASSUME c.run > 0 PROVE FitsAt(s + n, oos, L - 1, c.run - 1)
    <2>1. Back(L - 1, c.run - 1) \in Int /\ Back(L - 1, c.run - 1) >= L + 1 - NumSync * Packet
      BY <1>1, <1>4, RunIsFar
    <2>2. Back(L - 1, c.run - 1) >= s + n
      BY <1>1, <2>1
    <2> QED BY <2>2 DEF FitsAt
  <1>5. s + n <= L /\ s + n \in Nat
    BY <1>1, <1>2
  <1>6. Fits(u, L, c, s + n, oos)
    <2>1. ASSUME NEW q \in s + n..L - 1, u[q].end, u[q].solid
          PROVE  FitsAt(s + n, oos, q, NumSync - 1)
      <3>1. q \in s..L - 1
        BY <1>1
      <3> QED BY <1>3, <2>1, <3>1
    <2> QED BY <1>4, <2>1 DEF Fits
  <1>7. ASSUME NEW i \in s..s + n - 1 PROVE ~(u[i].end /\ u[i].solid)
    <2>1. i \in s..L - 1 /\ i <= s + n - 1
      BY <1>1, <1>5
    <2> QED BY <1>3, <2>1
  <1> QED BY <1>5, <1>6, <1>7 DEF Passes

Searched(a, u, L, n, oos) ==
  /\ Passes(u, L, card, a.scanned, n, oos)
  /\ n = 0 => ~oos /\ SearchOn(a) = [a EXCEPT !.oos = FALSE]
  /\ n # 0 /\ oos => SearchOn(a) = PassOver(a, n)
  /\ n # 0 /\ ~oos => SearchOn(a) = PassOver([a EXCEPT !.oos = FALSE], n)

LEMMA SearchFits ==
  ASSUME NEW a, NEW u, NEW L, Sees(a, u, L), Ground(u, L, card), a.scanned \in Nat,
         Fits(u, L, card, a.scanned, TRUE), L - a.scanned >= NumSync * Packet
  PROVE  \E n \in Nat, oos \in BOOLEAN : Searched(a, u, L, n, oos)
  <1> DEFINE s == a.scanned
             size == Least(Available(a), Search)
             offset == FindSync(a, s, size)
             y == NumSync * Packet
  <1>1. /\ Packet \in Nat /\ Packet >= 3 /\ NumSync \in Nat /\ NumSync >= 2 /\ y \in Nat
        /\ L \in Nat /\ s \in Nat /\ Search \in Nat /\ Search >= y /\ Laid(u, L) /\ RingLoad(a) = L
        /\ L - s >= y
    BY Sizes, SeesIs DEF Ground
  <1>2. size \in Nat /\ size >= y /\ s + size <= L
    BY <1>1 DEF Least, Available
  <1>3. SearchOn(a) = CASE offset = -1 -> PassOver(a, size - y + 1)
                        [] offset = 0  -> [a EXCEPT !.oos = FALSE]
                        [] OTHER       -> PassOver([a EXCEPT !.oos = FALSE], offset)
    BY DEF SearchOn
  <1>4. ASSUME NEW q \in s..L - 1, u[q].end, u[q].solid, Back(q, NumSync - 1) >= s
        PROVE  /\ Back(q, NumSync - 1) - s \in Nat
               /\ Back(q, NumSync - 1) - s <= size - y => IsSync(a, s, Back(q, NumSync - 1) - s)
    <2> DEFINE x == Back(q, NumSync - 1) - s
    <2>1. Back(q, NumSync - 1) \in Int
      <3>1. q \in Int /\ NumSync - 1 \in Int
        BY <1>1
      <3> QED BY <3>1, BackIs
    <2>2. x \in Nat /\ Back(q, NumSync - 1) = s + x
      BY <1>1, <1>4, <2>1
    <2>3. q \in 0..L - 1
      BY <1>1
    <2> HIDE DEF x, s
    <2>4. IsSync(a, s, x)
      BY <1>1, <1>4, <2>2, <2>3, SolidSync
    <2> QED BY <2>2, <2>4 DEF x
  <1>9. Fits(u, L, card, s, TRUE)
    OBVIOUS
  <1> HIDE DEF s, size, offset, y
  <1>5. CASE offset = -1 /\ \A x \in 0..size - y : ~IsSync(a, s, x)
    <2> DEFINE n == size - y + 1
    <2>1. n \in Nat /\ n # 0 /\ SearchOn(a) = PassOver(a, n)
      <3>1. SearchOn(a) = PassOver(a, n)
        BY <1>3, <1>5
      <3> QED BY <1>1, <1>2, <3>1
    <2>2. ASSUME NEW q \in s..L - 1, u[q].end, u[q].solid, Back(q, NumSync - 1) >= s
          PROVE  Back(q, NumSync - 1) >= s + n
      <3> DEFINE x == Back(q, NumSync - 1) - s
      <3>1. x \in Nat /\ (x <= size - y => IsSync(a, s, x))
        BY <1>4, <2>2
      <3> HIDE DEF x
      <3>2. ~(x <= size - y)
        <4>1. x <= size - y => x \in 0..size - y
          BY <1>1, <1>2, <3>1
        <4> QED BY <1>5, <3>1, <4>1
      <3>3. Back(q, NumSync - 1) \in Int
        <4>1. q \in Int /\ NumSync - 1 \in Int
          BY <1>1
        <4> QED BY <4>1, BackIs
      <3> QED BY <1>1, <1>2, <3>1, <3>2, <3>3 DEF x
    <2>3. s + n + y <= L + 1
      BY <1>1, <1>2
    <2> HIDE DEF n
    <2>4. Passes(u, L, card, s, n, TRUE)
      BY <1>1, <2>1, <2>2, <2>3, <1>9, PassedFits DEF y
    <2>5. TRUE \in BOOLEAN /\ Searched(a, u, L, n, TRUE)
      BY <2>1, <2>4 DEF s, Searched
    <2> QED BY <2>1, <2>5
  <1>6. ASSUME NEW p \in Nat, Found(a, s, size, p),
               offset = IF p >= Packet - 1 THEN p - (Packet - 1) ELSE p + 1
        PROVE  /\ offset \in Nat
               /\ Passes(u, L, card, s, offset, FALSE)
    <2>1. p <= size - y /\ IsSync(a, s, p) /\ \A x \in 0..size - y : IsSync(a, s, x) => p <= x
      BY <1>1, <1>2, <1>6 DEF Found, y
    <2>2. offset \in Nat /\ offset <= p + 1
      BY <1>1, <1>6
    <2>3. s + p + y <= L /\ s + p \in 0..L - 1 /\ y >= Packet
      <3>1. y >= Packet
        BY <1>1, SMT DEF y
      <3> QED BY <1>1, <1>2, <2>1, <3>1
    <2>4. u[s + p].end
      BY <1>1, <2>1, <2>3, SyncEnds DEF y
    <2>5. ASSUME NEW q \in s..L - 1, u[q].end, u[q].solid, Back(q, NumSync - 1) >= s
          PROVE  Back(q, NumSync - 1) >= s + offset \/ Back(q, NumSync - 1) + 1 = s + offset
      <3> DEFINE x == Back(q, NumSync - 1) - s
      <3>1. x \in Nat /\ (x <= size - y => IsSync(a, s, x))
        BY <1>4, <2>5
      <3> HIDE DEF x
      <3>2. p <= x
        <4>1. CASE x <= size - y
          <5>1. x \in 0..size - y
            BY <1>1, <1>2, <3>1, <4>1
          <5> QED BY <2>1, <3>1, <4>1, <5>1
        <4>2. CASE ~(x <= size - y)
          BY <1>1, <1>2, <2>1, <3>1, <4>2
        <4> QED BY <4>1, <4>2
      <3>3. Back(q, NumSync - 1) \in Int
        <4>1. q \in Int /\ NumSync - 1 \in Int
          BY <1>1
        <4> QED BY <4>1, BackIs
      <3> QED BY <1>1, <1>6, <3>1, <3>2, <3>3 DEF x
    <2>6. ASSUME s + offset < L PROVE ~u[s + offset].end
      <3>1. CASE p >= Packet - 1
        <4>1. s + offset = (s + p) - Packet + 1 /\ (s + p) - Packet + 1 >= 0 /\ 1 \in 1..Packet - 1
          BY <1>1, <1>6, <2>3, <3>1
        <4> DEFINE w == s + p
        <4>2. w \in 0..L - 1 /\ u[w].end
          BY <2>3, <2>4
        <4> HIDE DEF w
        <4>3. u[w - Packet + 1] = Payload(u[w].packet, 1, OfKind(u[w].kind))
          <5>1. w - Packet + 1 >= 0
            BY <4>1 DEF w
          <5> QED BY <1>1, <4>1, <4>2, <5>1 DEF Laid
        <4>4. ~u[w - Packet + 1].end
          BY <4>3 DEF Payload
        <4> QED BY <4>1, <4>4 DEF w
      <3>2. CASE ~(p >= Packet - 1)
        <4> SUFFICES ASSUME u[s + offset].end PROVE FALSE
          OBVIOUS
        <4>1. s + offset = s + p + 1 /\ s + offset \in 0..L - 1 /\ s + p < s + offset
          BY <1>1, <1>6, <2>2, <2>6, <3>2
        <4>2. s + p + Packet <= s + offset
          BY <1>1, <2>3, <2>4, <4>1, TrailersApart
        <4> QED BY <1>1, <4>1, <4>2
      <3> QED BY <3>1, <3>2
    <2>7. s + offset + y <= L + 1
      BY <1>1, <2>2, <2>3
    <2>8. Passes(u, L, card, s, offset, FALSE)
      BY <1>1, <2>2, <2>5, <2>6, <2>7, <1>9, PassedFits DEF y
    <2> QED BY <2>2, <2>8
  <1>7. ASSUME NEW p \in Nat, Found(a, s, size, p),
               offset = IF p >= Packet - 1 THEN p - (Packet - 1) ELSE p + 1
        PROVE  \E n \in Nat, oos \in BOOLEAN : Searched(a, u, L, n, oos)
    <2>1. offset \in Nat /\ Passes(u, L, card, s, offset, FALSE)
      BY <1>6, <1>7
    <2>2. offset # -1
      BY <2>1
    <2>3. offset = 0 => SearchOn(a) = [a EXCEPT !.oos = FALSE]
      BY <1>3, <2>2
    <2>4. offset # 0 => SearchOn(a) = PassOver([a EXCEPT !.oos = FALSE], offset)
      BY <1>3, <2>2
    <2>5. FALSE \in BOOLEAN /\ Searched(a, u, L, offset, FALSE)
      BY <2>1, <2>3, <2>4 DEF s, Searched
    <2> QED BY <2>1, <2>5
  <1>8. \/ offset = -1 /\ \A x \in 0..size - y : ~IsSync(a, s, x)
        \/ \E p \in Nat : /\ Found(a, s, size, p)
                          /\ offset = IF p >= Packet - 1 THEN p - (Packet - 1) ELSE p + 1
    BY <1>1, <1>2, FindSyncIs DEF offset, y
  <1> QED BY <1>5, <1>7, <1>8

--------------------------------------------------------------------------------
(* What a side has counted: a way through what it scanned, in pieces it skipped and packets it took.  *)
(* B are the places where a piece begins or the last one ends, e tells where the piece ends, and c    *)
(* how many bytes a read gets before it gets there.                                                   *)

Off(r, x) == Ahead(Size, r, x.at)

SkipAt(a, B, c, e, j) ==
  LET o == Off(a.r, a.skips[j]) IN
  o \in B /\ o < a.scanned /\ e[o] = o + a.skips[j].n /\ c[e[o]] = c[o]

Skipped(a, b) == \E j \in DOMAIN a.skips : Off(a.r, a.skips[j]) = b

PacketAt(a, u, c, e, bytes, b) ==
  LET n == Decode(a.mode, u[b + Packet - 1]) IN
  /\ n # Refused /\ e[b] = b + Packet /\ c[b + Packet] = c[b] + n
  /\ \A i \in 1..n : bytes[c[b] + i] = u[b + i - 1]

Path(a, u, B, c, e, bytes) ==
  /\ B \in SUBSET (0..a.scanned) /\ 0 \in B /\ a.scanned \in B
  /\ c \in [B -> 0..a.load] /\ e \in [B -> Nat]
  /\ \A b \in B : b < a.scanned => e[b] \in B /\ b < e[b]
  /\ \A b, d \in B : b < d => e[b] <= d /\ c[b] <= c[d]
  /\ \A j \in DOMAIN a.skips : SkipAt(a, B, c, e, j)
  /\ \A j, k \in DOMAIN a.skips : j < k => Off(a.r, a.skips[j]) < Off(a.r, a.skips[k])
  /\ \A b \in B : b < a.scanned => Skipped(a, b) \/ PacketAt(a, u, c, e, bytes, b)
  /\ c[0] = Len(a.pending) /\ \A i \in 1..Len(a.pending) : bytes[i] = a.pending[i]
  /\ c[a.scanned] = a.load /\ Len(bytes) = a.load

Content(a, u, bytes) ==
  /\ a \in Sides /\ a.scanned <= Size - 1 /\ a.pending \in Seq(Payloads) /\ bytes \in Seq(Payloads)
  /\ \E B, c, e : Path(a, u, B, c, e, bytes)

SideTypes(a) ==
  /\ a.control \in {"idle", "rcv"} /\ a.mode \in Modes /\ a.oos \in BOOLEAN /\ a.r \in Slots
  /\ a.scanned \in 0..Size /\ a.load \in 0..FifoSize /\ a.skips \in Seq(Skips)
  /\ a.pending \in Seq(Units) /\ a.missed \in BOOLEAN

LEMMA SideIs ==
  ASSUME NEW a \in Sides
  PROVE  SideTypes(a)
  BY DEF Sides, SideTypes

LEMMA SideTo ==
  ASSUME NEW a \in Sides, NEW oos \in BOOLEAN, NEW scanned \in 0..Size, NEW load \in 0..FifoSize,
         NEW skips \in Seq(Skips), NEW pending \in Seq(Units), NEW r \in Slots
  PROVE  [a EXCEPT !.oos = oos, !.scanned = scanned, !.load = load, !.skips = skips,
                   !.pending = pending, !.r = r] \in Sides
  BY DEF Sides

LEMMA SkipIs ==
  ASSUME NEW x \in Skips
  PROVE  x.at \in Slots /\ x.n \in Nat
  BY DEF Skips

LEMMA OffIs ==
  ASSUME NEW r \in Slots, NEW x, x.at \in Slots
  PROVE  /\ Off(r, x) \in 0..Size - 1
         /\ \A s \in 0..Size - 1 : x.at = (r + s) % Size <=> Off(r, x) = s
         /\ \A s \in 0..Size - 1, n \in 0..Size - 1 : Off(r, x) + n <= Size - 1 =>
              ((x.at + n) % Size = (r + s) % Size <=> Off(r, x) + n = s)
  <1>1. Size \in Nat \ {0} /\ r \in 0..Size - 1 /\ x.at \in 0..Size - 1
    BY Sizes
  <1> DEFINE o == Off(r, x)
  <1>2. o \in 0..Size - 1 /\ Place(Size, r, o) = x.at
    BY <1>1, PlaceAhead DEF Off
  <1>3. ASSUME NEW s \in 0..Size - 1
        PROVE  /\ (r + s) % Size = Place(Size, r, s)
               /\ Ahead(Size, r, Place(Size, r, s)) = s /\ Place(Size, r, s) \in 0..Size - 1
    <2>1. s \in 0..Size
      BY <1>1
    <2> QED BY <1>1, <2>1, PlaceAt, PlaceAhead DEF Place
  <1>4. ASSUME NEW s \in 0..Size - 1 PROVE x.at = (r + s) % Size <=> o = s
    BY <1>2, <1>3 DEF Off
  <1>5. ASSUME NEW s \in 0..Size - 1, NEW n \in 0..Size - 1, o + n <= Size - 1
        PROVE  (x.at + n) % Size = (r + s) % Size <=> o + n = s
    <2>1. (x.at + n) % Size = Place(Size, x.at, n)
      <3>1. n \in 0..Size
        BY <1>1
      <3> QED BY <1>1, <3>1, PlaceAt DEF Place
    <2>2. Ahead(Size, r, Place(Size, x.at, n)) = o + n
      BY <1>1, <1>5, AheadMore DEF Off
    <2>3. Place(Size, x.at, n) = Place(Size, r, o + n)
      <3>1. Place(Size, x.at, n) \in 0..Size - 1
        BY <1>1, PlaceAhead
      <3> QED BY <1>1, <2>2, <3>1, PlaceAhead
    <2>4. o + n \in 0..Size - 1
      BY <1>2, <1>5
    <2> HIDE DEF o
    <2>5. Ahead(Size, r, Place(Size, r, o + n)) = o + n
      BY <1>3, <2>4
    <2> QED BY <1>3, <2>1, <2>3, <2>5
  <1> QED BY <1>2, <1>4, <1>5

\* All but what a skip changes.
Beside(z, a) ==
  /\ z.control = a.control /\ z.mode = a.mode /\ z.oos = a.oos /\ z.r = a.r /\ z.load = a.load
  /\ z.pending = a.pending /\ z.missed = a.missed

Joins(a) ==
  LET last == Len(a.skips) IN
  last > 0 /\ (a.skips[last].at + a.skips[last].n) % Size = (a.r + a.scanned) % Size

JoinedSkips(a, n) == [a.skips EXCEPT ![Len(a.skips)].n = @ + n]
AddedSkips(a, n) == Append(a.skips, [at |-> (a.r + a.scanned) % Size, n |-> n])

LEMMA SkipBytesIs ==
  ASSUME NEW a \in Sides, NEW n \in Nat, a.scanned + n <= Size - 1
  PROVE  /\ SkipBytes(a, n) \in Sides /\ Beside(SkipBytes(a, n), a)
         /\ SkipBytes(a, n).scanned = a.scanned + n
         /\ SkipBytes(a, n).skips = IF Joins(a) THEN JoinedSkips(a, n) ELSE AddedSkips(a, n)
  <1> DEFINE skips == IF Joins(a) THEN JoinedSkips(a, n) ELSE AddedSkips(a, n)
  <1>1. SkipBytes(a, n) = [a EXCEPT !.scanned = @ + n, !.skips = skips]
    BY Zenon DEF SkipBytes, Joins, JoinedSkips, AddedSkips
  <1>2. SideTypes(a) /\ Size \in Nat \ {0}
    BY SideIs, Sizes
  <1>3. skips \in Seq(Skips)
    <2>1. CASE Joins(a)
      <3>1. a.skips \in Seq(Skips) /\ Len(a.skips) \in 1..Len(a.skips)
        BY <1>2, <2>1 DEF Joins, SideTypes
      <3>2. a.skips[Len(a.skips)] \in Skips
        BY <3>1
      <3>3. [a.skips[Len(a.skips)] EXCEPT !.n = @ + n] \in Skips
        BY <3>2 DEF Skips
      <3>4. JoinedSkips(a, n) \in Seq(Skips)
        BY <3>1, <3>3 DEF JoinedSkips
      <3> QED BY <2>1, <3>4
    <2>2. CASE ~Joins(a)
      <3>1. [at |-> (a.r + a.scanned) % Size, n |-> n] \in Skips
        <4>1. (a.r + a.scanned) % Size \in 0..Size - 1
          BY <1>2, Sizes, SMTT(30) DEF SideTypes
        <4> QED BY <4>1, Sizes DEF Skips
      <3>2. AddedSkips(a, n) \in Seq(Skips)
        BY <1>2, <3>1 DEF AddedSkips, SideTypes
      <3> QED BY <2>2, <3>2
    <2> QED BY <2>1, <2>2
  <1> HIDE DEF skips
  <1>4. a.scanned + n \in 0..Size
    BY <1>2 DEF SideTypes
  <1>5. [a EXCEPT !.scanned = @ + n, !.skips = skips] \in Sides
    BY <1>3, <1>4 DEF Sides
  <1> DEFINE z == SkipBytes(a, n)
  <1>6. z.skips = skips /\ z.scanned = a.scanned + n /\ Beside(z, a)
    BY <1>1 DEF Sides, Beside
  <1> HIDE DEF z
  <1> QED BY <1>1, <1>5, <1>6 DEF z, skips

\* Its way goes on with the last skip, or with one more.
LEMMA JoinedPath ==
  ASSUME NEW a \in Sides, NEW z \in Sides, NEW n \in Nat \ {0}, a.scanned + n <= Size - 1, Beside(z, a),
         z.scanned = a.scanned + n, Joins(a), z.skips = JoinedSkips(a, n),
         NEW u, NEW bytes, NEW B, NEW c, NEW e, Path(a, u, B, c, e, bytes)
  PROVE  \E B2, c2, e2 : Path(z, u, B2, c2, e2, bytes)
  <1> DEFINE s == a.scanned
             l == Len(a.skips)
             o == Off(a.r, a.skips[l])
             B2 == (B \ {s}) \cup {s + n}
             c2 == [b \in B2 |-> IF b = s + n THEN a.load ELSE c[b]]
             e2 == [b \in B2 |-> IF b = o \/ b = s + n THEN s + n ELSE e[b]]
  <1>1. SideTypes(a) /\ Size \in Nat \ {0} /\ s \in Nat /\ n \in Nat
    BY SideIs, Sizes DEF SideTypes
  <1>2. l \in DOMAIN a.skips /\ DOMAIN a.skips = 1..l /\ l \in Nat /\ a.skips \in Seq(Skips)
    BY <1>1 DEF Joins, SideTypes
  <1>3. /\ B \in SUBSET (0..s) /\ 0 \in B /\ s \in B /\ c \in [B -> 0..a.load] /\ e \in [B -> Nat]
        /\ \A b \in B : b < s => e[b] \in B /\ b < e[b]
        /\ \A b, d \in B : b < d => e[b] <= d /\ c[b] <= c[d]
        /\ c[0] = Len(a.pending) /\ \A i \in 1..Len(a.pending) : bytes[i] = a.pending[i]
        /\ c[s] = a.load /\ Len(bytes) = a.load
    BY Zenon DEF Path
  <1>4. /\ \A j \in DOMAIN a.skips : SkipAt(a, B, c, e, j)
        /\ \A j, k \in DOMAIN a.skips : j < k => Off(a.r, a.skips[j]) < Off(a.r, a.skips[k])
        /\ \A b \in B : b < s => Skipped(a, b) \/ PacketAt(a, u, c, e, bytes, b)
    BY DEF Path
  <1>5. ASSUME NEW j \in DOMAIN a.skips
        PROVE  /\ Off(a.r, a.skips[j]) \in B /\ Off(a.r, a.skips[j]) < s
               /\ e[Off(a.r, a.skips[j])] = Off(a.r, a.skips[j]) + a.skips[j].n
               /\ c[e[Off(a.r, a.skips[j])]] = c[Off(a.r, a.skips[j])]
               /\ a.skips[j].n \in Nat
    <2>1. SkipAt(a, B, c, e, j)
      BY <1>4
    <2>2. a.skips[j] \in Skips
      BY <1>2
    <2> QED BY <2>1, <2>2, SkipIs DEF SkipAt
  <1>6. o \in B /\ o < s /\ o \in Nat /\ a.skips[l].n \in Nat
    <2>1. o \in B /\ o < s /\ a.skips[l].n \in Nat
      BY <1>2, <1>5
    <2> HIDE DEF s, o, l
    <2> QED BY <1>1, <1>3, <2>1
  <1>7. o + a.skips[l].n = s /\ e[o] = s
    <2>1. a.skips[l] \in Skips
      BY <1>2
    <2>2. a.skips[l].at \in Slots /\ a.r \in Slots
      BY <1>1, <2>1, SkipIs DEF SideTypes
    <2>3. e[o] = o + a.skips[l].n /\ e[o] \in B
      BY <1>2, <1>3, <1>5, <1>6
    <2>4. a.skips[l].n \in 0..Size - 1 /\ o + a.skips[l].n <= Size - 1 /\ s \in 0..Size - 1
      <3> HIDE DEF s, o, l
      <3>1. e[o] <= s /\ e[o] \in Nat
        <4>1. e[o] \in 0..s
          BY <1>3, <2>3
        <4> QED BY <1>1, <4>1
      <3>2. o + a.skips[l].n <= s
        BY <2>3, <3>1
      <3>3. s + n <= Size - 1
        BY DEF s
      <3> QED BY <1>1, <1>6, <3>2, <3>3
    <2>5. (a.skips[l].at + a.skips[l].n) % Size = (a.r + s) % Size
      BY DEF Joins
    <2> QED BY SMTT(30), <2>2, <2>3, <2>4, <2>5, OffIs
  <1>8. /\ z.r = a.r /\ z.mode = a.mode /\ z.load = a.load /\ z.pending = a.pending
        /\ z.scanned = s + n
    BY DEF Beside
  <1>9. /\ DOMAIN z.skips = DOMAIN a.skips
        /\ \A j \in DOMAIN a.skips : /\ Off(z.r, z.skips[j]) = Off(a.r, a.skips[j])
                                     /\ z.skips[j].n = IF j = l THEN a.skips[j].n + n ELSE a.skips[j].n
    <2>1. \A j \in DOMAIN a.skips : a.skips[j] \in Skips
      BY <1>2
    <2> QED BY <1>2, <1>8, <2>1 DEF JoinedSkips, Off, Skips
  <1> HIDE DEF s, l, o
  <1>10. /\ B2 \in SUBSET (0..s + n) /\ 0 \in B2 /\ s + n \in B2 /\ s \notin B2 /\ o \in B2
         /\ \A b \in B2 : b # s + n => b \in B /\ b < s
    BY SMTT(30), <1>1, <1>3, <1>6
  <1>11. /\ c2 \in [B2 -> 0..a.load] /\ e2 \in [B2 -> Nat]
         /\ \A b \in B2 : c2[b] = IF b = s + n THEN a.load ELSE c[b]
         /\ \A b \in B2 : e2[b] = IF b = o \/ b = s + n THEN s + n ELSE e[b]
    <2>1. a.load \in Nat
      BY <1>1 DEF SideTypes
    <2>2. \A b \in B2 : b # s + n => e[b] \in Nat /\ c[b] \in 0..a.load
      BY <1>3, <1>10
    <2> HIDE DEF B2
    <2> QED BY <1>3, <1>10, <2>1, <2>2
  <1> HIDE DEF B2, c2, e2
  <1>12. ASSUME NEW b \in B, b < s, b # o
         PROVE  e[b] \in B2 /\ e[b] \in B /\ e[b] # s /\ e[b] < s /\ b \in B2 /\ e2[b] = e[b] /\ c2[b] = c[b]
                /\ c2[e[b]] = c[e[b]] /\ b < e[b]
    <2>1. e[b] \in B /\ b < e[b] /\ b \in Nat /\ e[b] \in Nat /\ e[b] <= s
      <3>1. e[b] \in B /\ b < e[b]
        BY <1>3, <1>12
      <3>2. b \in 0..s /\ e[b] \in 0..s
        BY <1>3, <3>1
      <3> QED BY <1>1, <3>1, <3>2
    <2>2. e[b] # s
      <3>1. CASE b < o
        <4>1. e[b] <= o
          BY <1>3, <1>6, <3>1
        <4> QED BY <1>1, <1>6, <2>1, <4>1
      <3>2. CASE o < b
        <4>1. e[o] <= b
          BY <1>3, <1>6, <3>2
        <4> QED BY <1>1, <1>7, <1>12, <2>1, <4>1
      <3> QED BY <1>6, <1>12, <2>1, <3>1, <3>2
    <2>3. e[b] \in B2 /\ b \in B2 /\ b # s + n /\ e[b] # s + n
      <3>1. b # s + n /\ e[b] # s + n /\ b # s
        BY <1>1, <1>12, <2>1
      <3> QED BY <2>1, <2>2, <3>1 DEF B2
    <2> QED BY <1>1, <1>11, <1>12, <2>1, <2>2, <2>3
  <1>13. e2[o] = s + n /\ c2[s + n] = a.load /\ c2[o] = a.load /\ o # s + n
    <2>1. c[o] = a.load
      BY <1>2, <1>3, <1>5, <1>7 DEF o
    <2>2. o # s + n
      BY <1>1, <1>6
    <2> QED BY <1>10, <1>11, <2>1, <2>2
  <1>14. ASSUME NEW b \in B2, b < s + n PROVE e2[b] \in B2 /\ b < e2[b] /\ b \in B /\ b < s
    <2>1. b \in B /\ b < s
      BY <1>1, <1>10, <1>14
    <2>2. CASE b = o
      BY <1>1, <1>6, <1>10, <1>13, <2>2
    <2>3. CASE b # o
      BY <1>12, <2>1, <2>3
    <2> QED BY <2>1, <2>2, <2>3
  <1>15. ASSUME NEW b \in B2, NEW d \in B2, b < d PROVE e2[b] <= d /\ c2[b] <= c2[d]
    <2>1. d \in 0..s + n /\ b \in 0..s + n
      BY <1>10
    <2>2. b < s + n
      BY <1>1, <1>15, <2>1
    <2>3. b \in B /\ b < s
      BY <1>14, <2>2
    <2>4. CASE d = s + n
      <3>1. e2[b] \in B2 /\ e2[b] \in 0..s + n
        BY <1>10, <1>14, <2>2
      <3>2. c2[b] \in 0..a.load /\ c2[d] = a.load /\ a.load \in Nat
        BY <1>1, <1>11, <2>4 DEF SideTypes
      <3>3. c2[b] <= c2[d]
        BY <3>2
      <3> QED BY <1>1, <2>4, <3>1, <3>3
    <2>5. CASE d # s + n
      <3>1. d \in B /\ d < s
        BY <1>10, <2>5
      <3>2. e[b] <= d /\ c[b] <= c[d]
        BY <1>3, <1>15, <2>3, <3>1
      <3>3. b # o
        BY <1>1, <1>7, <2>1, <3>1, <3>2
      <3>4. c2[b] = c[b] /\ c2[d] = c[d]
        BY <1>1, <1>11, <2>2, <2>5
      <3> QED BY <1>12, <2>3, <3>2, <3>3, <3>4
    <2> QED BY <2>4, <2>5
  <1>16. ASSUME NEW j \in DOMAIN z.skips PROVE SkipAt(z, B2, c2, e2, j)
    <2> DEFINE x == Off(a.r, a.skips[j])
    <2>1. /\ j \in DOMAIN a.skips /\ Off(z.r, z.skips[j]) = x
          /\ z.skips[j].n = IF j = l THEN a.skips[j].n + n ELSE a.skips[j].n
      BY <1>9
    <2>2. x \in B /\ x < s /\ e[x] = x + a.skips[j].n /\ c[e[x]] = c[x] /\ a.skips[j].n \in Nat
      BY <1>5, <2>1
    <2>3. CASE j = l
      <3>1. x = o
        BY <2>3 DEF o
      <3>2. o + z.skips[j].n = s + n
        BY <1>1, <1>6, <1>7, <2>1, <2>3
      <3> HIDE DEF x
      <3> QED BY <1>1, <1>6, <1>8, <1>10, <1>13, <2>1, <3>1, <3>2 DEF SkipAt
    <2>4. CASE j # l
      <3>1. x # o
        <4>1. j < l \/ l < j
          BY <1>2, <2>1, <2>4
        <4>2. x < o \/ o < x
          BY <1>2, <1>4, <2>1, <4>1 DEF o
        <4>3. x \in Nat
          <5>1. x \in 0..s
            BY <1>3, <2>2
          <5> HIDE DEF x
          <5> QED BY <1>1, <5>1
        <4> HIDE DEF x
        <4> QED BY <1>6, <4>2, <4>3
      <3> HIDE DEF x
      <3>2. x < s + n
        <4>1. x \in 0..s
          BY <1>3, <2>2
        <4> QED BY <1>1, <2>2, <4>1
      <3>3. e2[x] = e[x] /\ c2[x] = c[x] /\ c2[e[x]] = c[e[x]] /\ x \in B2
        BY <1>12, <2>2, <3>1
      <3> QED BY <1>8, <2>1, <2>2, <2>4, <3>2, <3>3 DEF SkipAt
    <2> QED BY <2>3, <2>4
  <1>17. ASSUME NEW j \in DOMAIN z.skips, NEW k \in DOMAIN z.skips, j < k
         PROVE  Off(z.r, z.skips[j]) < Off(z.r, z.skips[k])
    BY <1>4, <1>9, <1>17
  <1>18. ASSUME NEW b \in B2, b < s + n PROVE Skipped(z, b) \/ PacketAt(z, u, c2, e2, bytes, b)
    <2>1. b \in B /\ b < s
      BY <1>14, <1>18
    <2>2. CASE Skipped(a, b)
      BY <1>9, <2>2 DEF Skipped
    <2>3. CASE ~Skipped(a, b)
      <3>1. PacketAt(a, u, c, e, bytes, b)
        BY <1>4, <2>1, <2>3
      <3>2. b # o
        BY <1>2, <2>3 DEF Skipped, o
      <3>3. e2[b] = e[b] /\ c2[b] = c[b] /\ c2[e[b]] = c[e[b]]
        BY <1>12, <2>1, <3>2
      <3>4. e[b] = b + Packet
        BY <3>1 DEF PacketAt
      <3> QED BY <1>8, <3>1, <3>3, <3>4 DEF PacketAt
    <2> QED BY <2>2, <2>3
  <1>19. c2[0] = Len(z.pending) /\ \A i \in 1..Len(z.pending) : bytes[i] = z.pending[i]
    <2>1. 0 # s + n
      BY <1>1
    <2> QED BY <1>3, <1>8, <1>10, <1>11, <2>1
  <1>20. Path(z, u, B2, c2, e2, bytes)
    BY <1>3, <1>8, <1>10, <1>11, <1>13, <1>14, <1>15, <1>16, <1>17, <1>18, <1>19, ZenonT(60) DEF Path
  <1> QED BY <1>20

LEMMA DecodeIs ==
  ASSUME NEW mode, NEW x
  PROVE  Decode(mode, x) \in Int /\ Decode(mode, x) \in {-1, 0, Packet - 2, Packet - 1}
  <1>1. Decode(mode, x) \in {-1, 0, Packet - 2, Packet - 1}
    BY DEF Decode, Refused
  <1>2. Packet \in Nat
    BY Sizes
  <1> QED BY <1>1, <1>2

\* What is taken ends with a trailer, and gives the payload it tells of.
LEMMA DecodeOf ==
  ASSUME NEW mode \in Modes, NEW x \in Written
  PROVE  /\ Decode(mode, x) # Refused => x.end /\ Decode(mode, x) \in 0..Packet - 1
         /\ Decode(mode, x) > 0 => Decode(mode, x) = OfKind(x.kind)
         /\ Fine(x) => Decode(mode, x) # Refused
  <1> DEFINE n == Decode(mode, x)
  <1>1. Packet \in Nat /\ Packet >= 3 /\ Refused = -1
    BY Sizes DEF Refused
  <1>2. CASE ~HasNibble(x) \/ ~ValidCountFits(mode, x)
    <2>1. n = Refused /\ ~Fine(x)
      BY <1>2 DEF Decode, Fine, HasNibble, ValidCountFits
    <2> HIDE DEF n
    <2>2. ~(n > 0)
      BY <1>1, <2>1
    <2> QED BY <2>1, <2>2 DEF n
  <1>3. CASE HasNibble(x) /\ ValidCountFits(mode, x)
    <2>1. x.end
      BY <1>3 DEF HasNibble
    <2>2. n = IF x.kind = "nosync" /\ mode = "ts" THEN 0 ELSE OfKind(x.kind)
      BY <1>3 DEF Decode, OfKind
    <2>3. OfKind(x.kind) \in 0..Packet - 1 /\ 0 \in 0..Packet - 1
      BY <1>1 DEF OfKind
    <2>4. n \in 0..Packet - 1 /\ (n # 0 => n = OfKind(x.kind))
      BY <2>2, <2>3
    <2> HIDE DEF n
    <2>5. n # Refused /\ (n > 0 => n = OfKind(x.kind))
      BY <1>1, <2>4
    <2> QED BY <2>1, <2>4, <2>5 DEF n
  <1> QED BY <1>2, <1>3

\* A piece more: a packet taken, or one skip more.
Taken(a, z, u, bytes2, n, m) ==
  /\ z.skips = a.skips /\ n = Packet /\ Decode(a.mode, u[a.scanned + Packet - 1]) = m
  /\ \A i \in 1..m : bytes2[a.load + i] = u[a.scanned + i - 1]

Added(a, z, n, m) ==
  /\ m = 0
  /\ \A j \in DOMAIN a.skips : j \in DOMAIN z.skips /\ z.skips[j] = a.skips[j]
  /\ \A j \in DOMAIN z.skips : j \in DOMAIN a.skips \/ (Off(a.r, z.skips[j]) = a.scanned /\ z.skips[j].n = n)
  /\ \A j, k \in DOMAIN z.skips : j < k => j \in DOMAIN a.skips
  /\ \E j \in DOMAIN z.skips : Off(a.r, z.skips[j]) = a.scanned

LEMMA LongerPath ==
  ASSUME NEW a \in Sides, NEW z \in Sides, NEW n \in Nat \ {0}, NEW m \in Nat,
         z.scanned = a.scanned + n, z.load = a.load + m, z.r = a.r, z.mode = a.mode,
         z.pending = a.pending, NEW u, NEW bytes, NEW B, NEW c, NEW e, Path(a, u, B, c, e, bytes),
         NEW bytes2, Len(bytes2) = z.load, \A i \in 1..a.load : bytes2[i] = bytes[i],
         Taken(a, z, u, bytes2, n, m) \/ Added(a, z, n, m)
  PROVE  \E B2, c2, e2 : Path(z, u, B2, c2, e2, bytes2)
  <1> DEFINE s == a.scanned
             B2 == B \cup {s + n}
             c2 == [b \in B2 |-> IF b = s + n THEN a.load + m ELSE c[b]]
             e2 == [b \in B2 |-> IF b = s \/ b = s + n THEN s + n ELSE e[b]]
  <1>1. SideTypes(a) /\ s \in Nat /\ n \in Nat /\ n > 0 /\ a.load \in Nat /\ a.pending \in Seq(Units)
    BY SideIs DEF SideTypes
  <1>2. /\ B \in SUBSET (0..s) /\ 0 \in B /\ s \in B /\ c \in [B -> 0..a.load] /\ e \in [B -> Nat]
        /\ \A b \in B : b < s => e[b] \in B /\ b < e[b]
        /\ \A b, d \in B : b < d => e[b] <= d /\ c[b] <= c[d]
        /\ c[0] = Len(a.pending) /\ \A i \in 1..Len(a.pending) : bytes[i] = a.pending[i]
        /\ c[s] = a.load /\ Len(bytes) = a.load
    BY Zenon DEF Path
  <1>3. /\ \A j \in DOMAIN a.skips : SkipAt(a, B, c, e, j)
        /\ \A j, k \in DOMAIN a.skips : j < k => Off(a.r, a.skips[j]) < Off(a.r, a.skips[k])
        /\ \A b \in B : b < s => Skipped(a, b) \/ PacketAt(a, u, c, e, bytes, b)
    BY DEF Path
  <1>4. ASSUME NEW j \in DOMAIN a.skips
        PROVE  /\ Off(a.r, a.skips[j]) \in B /\ Off(a.r, a.skips[j]) < s
               /\ e[Off(a.r, a.skips[j])] = Off(a.r, a.skips[j]) + a.skips[j].n
               /\ c[e[Off(a.r, a.skips[j])]] = c[Off(a.r, a.skips[j])]
    BY <1>3 DEF SkipAt
  <1>5. z.scanned = s + n
    OBVIOUS
  <1> HIDE DEF s
  <1>6. /\ B2 \in SUBSET (0..s + n) /\ 0 \in B2 /\ s + n \in B2 /\ s \in B2
        /\ \A b \in B : b \in 0..s /\ b # s + n
        /\ \A b \in B2 : b \in B \/ b = s + n
    <2>1. B \subseteq 0..s /\ 0 \in B /\ s \in B
      BY <1>2
    <2>2. \A b \in 0..s : b \in 0..s + n /\ b # s + n
      BY <1>1
    <2>3. s + n \in 0..s + n
      BY <1>1
    <2> QED BY <2>1, <2>2, <2>3
  <1>7. /\ c2 \in [B2 -> 0..a.load + m] /\ e2 \in [B2 -> Nat]
        /\ \A b \in B : c2[b] = c[b]
        /\ c2[s + n] = a.load + m /\ e2[s] = s + n
        /\ \A b \in B : b # s => e2[b] = e[b]
    <2>1. \A b \in B : e[b] \in Nat /\ c[b] \in 0..a.load + m
      BY <1>1, <1>2
    <2> HIDE DEF B2
    <2>2. ASSUME NEW b \in B2 PROVE (b = s + n \/ (b \in B /\ b # s + n)) /\ s + n \in Nat /\ a.load + m \in 0..a.load + m
      BY <1>1, <1>6
    <2>3. \A b \in B : b \in B2
      BY DEF B2
    <2> QED BY <1>6, <2>1, <2>2, <2>3
  <1> HIDE DEF B2, c2, e2
  <1>8. ASSUME NEW b \in B2, b < s + n
        PROVE  /\ e2[b] \in B2 /\ b < e2[b] /\ b \in B
               /\ b # s => b < s /\ e2[b] = e[b] /\ e[b] \in B /\ c2[b] = c[b] /\ c2[e[b]] = c[e[b]]
    <2>1. b \in B /\ b \in 0..s
      BY <1>1, <1>6, <1>8
    <2>2. CASE b = s
      BY <1>1, <1>6, <1>7, <2>1, <2>2
    <2>3. CASE b # s
      <3>1. b < s
        BY <1>1, <2>1, <2>3
      <3>2. e[b] \in B /\ b < e[b] /\ e2[b] = e[b]
        BY <1>2, <1>7, <2>1, <2>3, <3>1
      <3> QED BY <1>7, <2>1, <3>1, <3>2 DEF B2
    <2> QED BY <2>2, <2>3
  <1>9. ASSUME NEW b \in B2, NEW d \in B2, b < d PROVE e2[b] <= d /\ c2[b] <= c2[d]
    <2>1. d \in 0..s + n /\ b \in 0..s + n /\ b < s + n
      <3>1. d \in 0..s + n /\ b \in 0..s + n
        BY <1>6
      <3> QED BY <1>1, <1>9, <3>1
    <2>2. CASE d = s + n
      <3>1. e2[b] \in B2 /\ e2[b] \in 0..s + n
        BY <1>6, <1>8, <2>1
      <3>2. c2[b] \in 0..a.load + m /\ c2[d] = a.load + m
        BY <1>7, <2>2
      <3>3. c2[b] <= c2[d]
        BY <1>1, <3>2
      <3> QED BY <1>1, <2>2, <3>1, <3>3
    <2>3. CASE d # s + n
      <3>1. d \in B /\ d \in 0..s /\ b # s /\ b \in B
        BY <1>1, <1>6, <1>8, <1>9, <2>1, <2>3
      <3>2. e[b] <= d /\ c[b] <= c[d]
        BY <1>2, <1>9, <3>1
      <3>3. c2[b] = c[b] /\ c2[d] = c[d]
        BY <1>7, <3>1
      <3> QED BY <1>8, <2>1, <3>1, <3>2, <3>3
    <2> QED BY <2>2, <2>3
  <1>10. ASSUME NEW j \in DOMAIN a.skips, NEW y, y = a.skips[j]
         PROVE  LET o == Off(z.r, y) IN
                o \in B2 /\ o < z.scanned /\ e2[o] = o + y.n /\ c2[e2[o]] = c2[o]
    <2> DEFINE o == Off(a.r, a.skips[j])
    <2>1. o \in B /\ o < s /\ e[o] = o + a.skips[j].n /\ c[e[o]] = c[o]
      BY <1>4
    <2> HIDE DEF o
    <2>2. o \in B2 /\ o < s + n /\ o # s
      BY <1>1, <1>6, <2>1 DEF B2
    <2>3. e2[o] = e[o] /\ c2[o] = c[o] /\ c2[e[o]] = c[e[o]]
      BY <1>8, <2>2
    <2>4. Off(z.r, y) = o
      BY <1>10 DEF o
    <2> QED BY <1>5, <1>10, <2>1, <2>2, <2>3, <2>4
  <1>11. ASSUME NEW j \in DOMAIN z.skips PROVE SkipAt(z, B2, c2, e2, j)
    <2>1. CASE j \in DOMAIN a.skips
      <3>1. z.skips[j] = a.skips[j]
        BY <2>1 DEF Taken, Added
      <3> QED BY <1>10, <2>1, <3>1 DEF SkipAt
    <2>2. CASE j \notin DOMAIN a.skips
      <3>1. Added(a, z, n, m)
        BY <1>11, <2>2 DEF Taken
      <3>2. Off(z.r, z.skips[j]) = s /\ z.skips[j].n = n /\ m = 0
        BY <2>2, <3>1 DEF Added, s
      <3>3. c2[s] = c[s] /\ c2[s + n] = c[s]
        BY <1>1, <1>2, <1>7, <3>2
      <3> QED BY <1>1, <1>5, <1>6, <1>7, <3>2, <3>3 DEF SkipAt
    <2> QED BY <2>1, <2>2
  <1>12. ASSUME NEW j \in DOMAIN z.skips, NEW k \in DOMAIN z.skips, j < k
         PROVE  Off(z.r, z.skips[j]) < Off(z.r, z.skips[k])
    <2>1. CASE Taken(a, z, u, bytes2, n, m)
      BY <1>3, <1>12, <2>1 DEF Taken
    <2>2. CASE Added(a, z, n, m)
      <3>1. j \in DOMAIN a.skips /\ z.skips[j] = a.skips[j]
        BY <1>12, <2>2 DEF Added
      <3>2. CASE k \in DOMAIN a.skips
        BY <1>3, <1>12, <2>2, <3>1, <3>2 DEF Added
      <3>3. CASE k \notin DOMAIN a.skips
        <4>1. Off(z.r, z.skips[k]) = s
          BY <2>2, <3>3 DEF Added, s
        <4> QED BY <1>4, <3>1, <4>1
      <3> QED BY <3>2, <3>3
    <2> QED BY <2>1, <2>2
  <1>13. ASSUME NEW b \in B2, b < s + n PROVE Skipped(z, b) \/ PacketAt(z, u, c2, e2, bytes2, b)
    <2>1. CASE b = s
      <3>1. CASE Added(a, z, n, m)
        BY <2>1, <3>1 DEF Added, Skipped, s
      <3>2. CASE Taken(a, z, u, bytes2, n, m)
        <4>1. /\ n = Packet /\ Decode(a.mode, u[s + Packet - 1]) = m
              /\ \A i \in 1..m : bytes2[a.load + i] = u[s + i - 1]
          BY <3>2 DEF Taken, s
        <4>2. c2[s] = a.load
          BY <1>2, <1>7
        <4>3. m # Refused
          BY DEF Refused
        <4> QED BY <1>7, <2>1, <4>1, <4>2, <4>3 DEF PacketAt
      <3> QED BY <3>1, <3>2
    <2>2. CASE b # s
      <3>1. b \in B /\ b < s /\ e2[b] = e[b] /\ e[b] \in B /\ c2[b] = c[b] /\ c2[e[b]] = c[e[b]]
        BY <1>8, <1>13, <2>2
      <3>2. CASE Skipped(a, b)
        BY <3>2 DEF Skipped, Taken, Added
      <3>3. CASE ~Skipped(a, b)
        <4>1. PacketAt(a, u, c, e, bytes, b)
          BY <1>3, <3>1, <3>3
        <4> DEFINE w == Decode(a.mode, u[b + Packet - 1])
        <4>2. /\ w # Refused /\ e[b] = b + Packet /\ c[b + Packet] = c[b] + w
              /\ \A i \in 1..w : bytes[c[b] + i] = u[b + i - 1]
          BY <4>1 DEF PacketAt
        <4>3. c[b] \in Nat /\ c[e[b]] \in 0..a.load
          BY <1>1, <1>2, <3>1
        <4> HIDE DEF w
        <4>4. ASSUME NEW i \in 1..w PROVE bytes2[c[b] + i] = u[b + i - 1]
          <5>1. c[e[b]] = c[b] + w
            BY <4>2
          <5>2. w \in Int => c[b] + i \in 1..a.load
            BY SMTT(30), <1>1, <4>3, <5>1
          <5>3. w \in Int
            BY DecodeIs DEF w
          <5> QED BY <4>2, <5>2, <5>3
        <4> QED BY <3>1, <4>2, <4>4 DEF PacketAt, w
      <3> QED BY <3>2, <3>3
    <2> QED BY <2>1, <2>2
  <1>14. c2[0] = Len(z.pending) /\ \A i \in 1..Len(z.pending) : bytes2[i] = z.pending[i]
    <2>1. c2[0] = c[0] /\ c[0] \in 0..a.load
      BY <1>2, <1>7
    <2>2. Len(a.pending) \in Nat /\ Len(a.pending) <= a.load
      BY <1>1, <1>2, <2>1
    <2>3. \A i \in 1..Len(a.pending) : i \in 1..a.load
      BY <1>1, <2>2
    <2> QED BY <1>2, <2>1, <2>3
  <1>15. Path(z, u, B2, c2, e2, bytes2)
    BY <1>5, <1>6, <1>7, <1>8, <1>9, <1>11, <1>12, <1>13, <1>14, ZenonT(60) DEF Path
  <1> QED BY <1>15

\* What is skipped changes nothing of what a read gets.
LEMMA SkipKeeps ==
  ASSUME NEW a, NEW u, NEW bytes, Content(a, u, bytes), NEW n \in Nat \ {0},
         a.scanned + n <= Size - 1
  PROVE  Content(SkipBytes(a, n), u, bytes)
  <1> DEFINE z == SkipBytes(a, n)
  <1>1. /\ a \in Sides /\ a.pending \in Seq(Payloads) /\ bytes \in Seq(Payloads)
        /\ \E B, c, e : Path(a, u, B, c, e, bytes)
    BY DEF Content
  <1>2. SideTypes(a) /\ Size \in Nat \ {0} /\ n \in Nat
    BY <1>1, SideIs, Sizes
  <1>3. /\ z \in Sides /\ Beside(z, a) /\ z.scanned = a.scanned + n
        /\ z.skips = IF Joins(a) THEN JoinedSkips(a, n) ELSE AddedSkips(a, n)
    BY <1>1, <1>2, SkipBytesIs
  <1> HIDE DEF z
  <1>4. PICK B, c, e : Path(a, u, B, c, e, bytes)
    BY <1>1
  <1>5. /\ z.r = a.r /\ z.mode = a.mode /\ z.load = a.load /\ z.pending = a.pending
    BY <1>3 DEF Beside
  <1>6. \E B2, c2, e2 : Path(z, u, B2, c2, e2, bytes)
    <2>1. CASE Joins(a)
      <3>1. z.skips = JoinedSkips(a, n)
        BY <1>3, <2>1
      <3> QED BY <1>1, <1>3, <1>4, <2>1, <3>1, JoinedPath
    <2>2. CASE ~Joins(a)
      <3> DEFINE x == [at |-> (a.r + a.scanned) % Size, n |-> n]
                 l == Len(a.skips)
      <3>1. a.scanned \in 0..Size - 1 /\ a.r \in Slots /\ x.at = (a.r + a.scanned) % Size /\ x.n = n
        BY <1>2 DEF SideTypes
      <3>2. x.at \in Slots
        BY <1>2, <3>1, Sizes
      <3>3. Off(a.r, x) = a.scanned
        BY <3>1, <3>2, OffIs
      <3>4. a.skips \in Seq(Skips) /\ l \in Nat /\ z.skips = Append(a.skips, x)
        BY <1>2, <1>3, <2>2 DEF SideTypes, AddedSkips
      <3> HIDE DEF x
      <3>5. /\ DOMAIN a.skips = 1..l /\ DOMAIN z.skips = 1..l + 1
            /\ \A j \in 1..l : z.skips[j] = a.skips[j]
            /\ z.skips[l + 1] = x
        BY <3>4
      <3> HIDE DEF l
      <3>6. \A j \in 1..l + 1 : j \in 1..l \/ j = l + 1
        BY <3>4
      <3>7. \A j, k \in 1..l + 1 : j < k => j \in 1..l
        BY <3>4
      <3>8. l + 1 \in 1..l + 1 /\ \A j \in 1..l : j \in 1..l + 1
        BY <3>4
      <3>9. Added(a, z, n, 0)
        BY <3>1, <3>3, <3>5, <3>6, <3>7, <3>8 DEF Added
      <3>10. Len(bytes) = z.load /\ z.load = a.load + 0 /\ a.load \in Nat
        <4>1. Len(bytes) = a.load
          BY <1>4 DEF Path
        <4> QED BY <1>2, <1>5, <4>1 DEF SideTypes
      <3> QED BY <1>1, <1>3, <1>4, <1>5, <3>9, <3>10, LongerPath
    <2> QED BY <2>1, <2>2
  <1>7. z.scanned <= Size - 1
    BY <1>3
  <1> QED BY <1>1, <1>3, <1>5, <1>6, <1>7 DEF Content, z

\* Whole packets, one after the other.
LEMMA WholeOnes ==
  ASSUME NEW s \in Seq(Payloads), NEW t \in Seq(Payloads), Fifo!WholePackets(s), Fifo!WholePackets(t)
  PROVE  Fifo!WholePackets(s \o t)
  <1> DEFINE w == s \o t
             l == Len(s)
             m == Len(t)
  <1>1. /\ l \in Nat /\ m \in Nat /\ w \in Seq(Payloads) /\ Len(w) = l + m
        /\ \A i \in 1..l : w[i] = s[i]
        /\ \A i \in 1..m : w[l + i] = t[i]
        /\ (s = <<>> <=> l = 0) /\ (t = <<>> <=> m = 0) /\ (w = <<>> <=> l + m = 0)
    OBVIOUS
  <1>2. /\ s # <<>> => s[1].at = 1 /\ s[l].at = s[l].of
        /\ t # <<>> => t[1].at = 1 /\ t[m].at = t[m].of
        /\ \A i \in 1..l - 1 : IF s[i].at = s[i].of THEN s[i + 1].at = 1 ELSE s[i + 1] = [s[i] EXCEPT !.at = @ + 1]
        /\ \A i \in 1..m - 1 : IF t[i].at = t[i].of THEN t[i + 1].at = 1 ELSE t[i + 1] = [t[i] EXCEPT !.at = @ + 1]
    BY DEF Fifo!WholePackets
  <1> HIDE DEF w, l, m
  <1>3. w # <<>> => w[1].at = 1 /\ w[Len(w)].at = w[Len(w)].of
    <2>1. CASE l = 0
      <3>1. m # 0 => w[1] = t[1] /\ w[Len(w)] = t[m]
        <4>1. m # 0 => 1 \in 1..m /\ m \in 1..m /\ l + 1 = 1 /\ l + m = m
          BY <1>1, <2>1
        <4> QED BY <1>1, <4>1
      <3> QED BY <1>1, <1>2, <2>1, <3>1
    <2>2. CASE l # 0
      <3>1. w[1] = s[1]
        BY <1>1, <2>2
      <3>2. CASE m = 0
        <4>1. w[Len(w)] = s[l]
          BY <1>1, <2>2, <3>2
        <4> QED BY <1>1, <1>2, <2>2, <3>1, <4>1
      <3>3. CASE m # 0
        <4>1. m \in 1..m
          BY <1>1, <3>3
        <4>2. w[Len(w)] = t[m]
          BY <1>1, <4>1
        <4> QED BY <1>1, <1>2, <2>2, <3>1, <3>3, <4>2
      <3> QED BY <3>2, <3>3
    <2> QED BY <2>1, <2>2
  <1>4. ASSUME NEW i \in 1..Len(w) - 1
        PROVE  IF w[i].at = w[i].of THEN w[i + 1].at = 1 ELSE w[i + 1] = [w[i] EXCEPT !.at = @ + 1]
    <2>1. CASE i \in 1..l - 1
      <3>1. i \in 1..l /\ i + 1 \in 1..l
        BY <1>1, <2>1
      <3>2. w[i] = s[i] /\ w[i + 1] = s[i + 1]
        BY <1>1, <3>1
      <3> QED BY <1>2, <2>1, <3>2
    <2>2. CASE i = l
      <3>1. i \in 1..l /\ 1 \in 1..m /\ l # 0 /\ m # 0 /\ i + 1 = l + 1
        BY <1>1, <2>2
      <3>2. w[i] = s[l] /\ w[l + 1] = t[1]
        BY <1>1, <2>2, <3>1
      <3> QED BY ZenonT(60), <1>1, <1>2, <3>1, <3>2
    <2>3. CASE i \in l + 1..l + m - 1
      <3>1. i - l \in 1..m - 1 /\ i - l \in 1..m /\ (i - l) + 1 \in 1..m /\ l + (i - l) = i
            /\ l + ((i - l) + 1) = i + 1
        BY <1>1, <2>3
      <3>2. w[i] = t[i - l] /\ w[i + 1] = t[(i - l) + 1]
        BY <1>1, <3>1
      <3> QED BY <1>2, <3>1, <3>2
    <2>4. i \in 1..l - 1 \/ i = l \/ i \in l + 1..l + m - 1
      BY <1>1
    <2> QED BY <2>1, <2>2, <2>3, <2>4
  <1> QED BY <1>3, <1>4 DEF Fifo!WholePackets, w

LEMMA NoPackets == Fifo!WholePackets(<<>>)
  BY DEF Fifo!WholePackets

\* What a packet brings.
CameBytes(u, s, n) == [i \in 1..n |-> u[s + i - 1]]

LEMMA NextByte ==
  ASSUME NEW y \in Payloads, NEW z \in Payloads, z.packet = y.packet, z.at = y.at + 1, z.of = y.of
  PROVE  [y EXCEPT !.at = @ + 1] = z
  BY DEF Payloads

LEMMA CameIs ==
  ASSUME NEW u, NEW L \in Nat, Laid(u, L), NEW s \in Nat, s + Packet <= L, NEW mode \in Modes, NEW n,
         n = Decode(mode, u[s + Packet - 1]), n # Refused
  PROVE  /\ n \in 0..Packet - 1 /\ CameBytes(u, s, n) \in Seq(Payloads) /\ Len(CameBytes(u, s, n)) = n
         /\ \A i \in 1..n : CameBytes(u, s, n)[i] = u[s + i - 1]
         /\ Fifo!WholePackets(CameBytes(u, s, n))
  <1> DEFINE q == s + Packet - 1
             x == u[q]
             w == CameBytes(u, s, n)
             of == OfKind(x.kind)
  <1>1. Packet \in Nat /\ Packet >= 3
    BY Sizes
  <1>2. q \in 0..L - 1
    BY <1>1
  <1>3. x \in Written
    BY <1>2 DEF Laid
  <1>4. n \in 0..Packet - 1 /\ (n > 0 => n = of) /\ x.end
    BY <1>3, DecodeOf
  <1>5. \A i \in 1..Packet - 1 : q - Packet + i >= 0 =>
          u[q - Packet + i] = Payload(x.packet, i, of)
    BY <1>2, <1>4 DEF Laid
  <1>6. x.packet \in 0..Seqs - 1 /\ x.kind \in Kinds
    BY <1>3, <1>4, WrittenIs
  <1>7. ASSUME NEW i \in 1..n
        PROVE  /\ u[s + i - 1] = [end |-> FALSE, packet |-> x.packet, at |-> i, of |-> n]
               /\ u[s + i - 1] \in Payloads
    <2>1. i \in 1..Packet - 1 /\ q - Packet + i >= 0 /\ q - Packet + i = s + i - 1 /\ n > 0
      BY <1>1, <1>4
    <2>2. u[s + i - 1] = Payload(x.packet, i, n)
      BY <1>4, <1>5, <2>1
    <2>3. n \in {Packet - 2, Packet - 1}
      BY <1>4, <2>1 DEF OfKind
    <2> HIDE DEF x, q
    <2> QED BY <1>6, <2>1, <2>2, <2>3 DEF Payload, Payloads
  <1> HIDE DEF x, q, of
  <1>8. \A i \in 1..n : w[i] = u[s + i - 1]
    BY DEF CameBytes
  <1>9. w \in Seq(Payloads) /\ Len(w) = n
    <2>1. n \in Nat
      BY <1>1, <1>4
    <2>2. \A i \in 1..n : w[i] \in Payloads
      BY <1>7, <1>8
    <2>3. w = [i \in 1..n |-> w[i]]
      BY DEF CameBytes
    <2> HIDE DEF w
    <2>4. w \in [1..n -> Payloads]
      BY <2>2, <2>3, Zenon
    <2> QED BY <2>1, <2>4
  <1> HIDE DEF w
  <1>10. \A i \in 1..n : w[i] = [end |-> FALSE, packet |-> x.packet, at |-> i, of |-> n]
    BY <1>7, <1>8
  <1>11. Fifo!WholePackets(w)
    <2>1. w # <<>> => w[1].at = 1 /\ w[Len(w)].at = w[Len(w)].of
      <3>1. w # <<>> => 1 \in 1..n /\ n \in 1..n
        BY <1>4, <1>9
      <3> QED BY <1>9, <1>10, <3>1
    <2>2. ASSUME NEW i \in 1..Len(w) - 1
          PROVE  IF w[i].at = w[i].of THEN w[i + 1].at = 1 ELSE w[i + 1] = [w[i] EXCEPT !.at = @ + 1]
      <3>1. i \in 1..n /\ i + 1 \in 1..n /\ i # n
        BY <1>4, <1>9
      <3>2. /\ w[i] = [end |-> FALSE, packet |-> x.packet, at |-> i, of |-> n]
            /\ w[i + 1] = [end |-> FALSE, packet |-> x.packet, at |-> i + 1, of |-> n]
        BY <1>10, <3>1
      <3>3. w[i].at = i /\ w[i].of = n /\ [w[i] EXCEPT !.at = @ + 1] = w[i + 1]
        <4>1. w[i] \in Payloads /\ w[i + 1] \in Payloads
          BY <1>7, <1>8, <3>1
        <4>2. /\ w[i].at = i /\ w[i].of = n /\ w[i + 1].at = i + 1 /\ w[i + 1].of = n
              /\ w[i + 1].packet = w[i].packet
          BY <3>2
        <4> QED BY <4>1, <4>2, NextByte
      <3> QED BY <3>1, <3>3
    <2> QED BY <2>1, <2>2 DEF Fifo!WholePackets
  <1> QED BY <1>4, <1>8, <1>9, <1>11 DEF w

\* A packet that is taken adds what it holds.
LEMMA PacketKeeps ==
  ASSUME NEW a, NEW u, NEW L \in 0..Size - 1, Laid(u, L), NEW bytes, Content(a, u, bytes),
         a.scanned + Packet <= L, NEW n, n = Decode(a.mode, u[a.scanned + Packet - 1]),
         n # Refused, a.load + n <= FifoSize
  PROVE  Content([a EXCEPT !.load = @ + n, !.scanned = @ + Packet], u,
                 bytes \o CameBytes(u, a.scanned, n))
  <1> DEFINE z == [a EXCEPT !.load = @ + n, !.scanned = @ + Packet]
             came == CameBytes(u, a.scanned, n)
             bytes2 == bytes \o came
  <1>1. /\ a \in Sides /\ a.pending \in Seq(Payloads) /\ bytes \in Seq(Payloads)
        /\ \E B, c, e : Path(a, u, B, c, e, bytes)
    BY DEF Content
  <1>2. SideTypes(a) /\ Size \in Nat \ {0} /\ Packet \in Nat \ {0} /\ L \in Nat /\ FifoSize \in Nat
    BY <1>1, SideIs, Sizes
  <1>3. /\ a.scanned \in Nat /\ a.load \in Nat /\ a.mode \in Modes
    BY <1>2 DEF SideTypes
  <1>4. /\ n \in 0..Packet - 1 /\ came \in Seq(Payloads) /\ Len(came) = n
        /\ \A i \in 1..n : came[i] = u[a.scanned + i - 1]
    <2> DEFINE s == a.scanned
    <2>1. s \in Nat /\ s + Packet <= L /\ n = Decode(a.mode, u[s + Packet - 1])
      BY <1>3
    <2> HIDE DEF s
    <2>2. /\ n \in 0..Packet - 1 /\ CameBytes(u, s, n) \in Seq(Payloads) /\ Len(CameBytes(u, s, n)) = n
          /\ \A i \in 1..n : CameBytes(u, s, n)[i] = u[s + i - 1]
      BY SMTT(30), <1>2, <1>3, <2>1, CameIs
    <2> QED BY <2>2 DEF s
  <1> HIDE DEF came
  <1>5. a.load + n \in 0..FifoSize /\ a.scanned + Packet \in 0..Size /\ a.scanned + Packet <= Size - 1
        /\ n \in Nat
    BY SMTT(30), <1>2, <1>3, <1>4
  <1>6. /\ z \in Sides /\ z.scanned = a.scanned + Packet /\ z.load = a.load + n /\ z.r = a.r
        /\ z.mode = a.mode /\ z.pending = a.pending /\ z.skips = a.skips
    BY <1>1, <1>5 DEF Sides
  <1> HIDE DEF z
  <1>7. PICK B, c, e : Path(a, u, B, c, e, bytes)
    BY <1>1
  <1>8. Len(bytes) = a.load
    BY <1>7 DEF Path
  <1>9. /\ bytes2 \in Seq(Payloads) /\ Len(bytes2) = z.load
        /\ \A i \in 1..a.load : bytes2[i] = bytes[i]
        /\ \A i \in 1..n : bytes2[a.load + i] = u[a.scanned + i - 1]
    <2>1. /\ bytes2 \in Seq(Payloads) /\ Len(bytes2) = Len(bytes) + Len(came)
          /\ \A i \in 1..Len(bytes) : bytes2[i] = bytes[i]
          /\ \A i \in 1..Len(came) : bytes2[Len(bytes) + i] = came[i]
      <3>1. bytes \in Seq(Payloads) /\ came \in Seq(Payloads)
        BY <1>1, <1>4
      <3> QED BY ONLY <3>1
    <2> QED BY <1>4, <1>6, <1>8, <2>1
  <1> HIDE DEF bytes2
  <1>10. Taken(a, z, u, bytes2, Packet, n)
    BY <1>6, <1>9 DEF Taken
  <1>11. \E B2, c2, e2 : Path(z, u, B2, c2, e2, bytes2)
    BY ZenonT(60), <1>1, <1>2, <1>5, <1>6, <1>7, <1>9, <1>10, LongerPath
  <1>12. Content(z, u, bytes2)
    BY <1>1, <1>5, <1>6, <1>9, <1>11 DEF Content
  <1> QED BY <1>12 DEF z, bytes2, came

--------------------------------------------------------------------------------
(* The scan.                                                                 *)

Kept(a, u, L, c, bytes) ==
  /\ Ground(u, L, c) /\ Content(a, u, bytes) /\ a.scanned <= L /\ ~a.missed
  /\ Fits(u, L, c, a.scanned, a.oos)

SameBut(z, a) == z.r = a.r /\ z.control = a.control /\ z.mode = a.mode

\* The same way, for what only searches or has found.
LEMMA OosKeeps ==
  ASSUME NEW a, NEW u, NEW bytes, Content(a, u, bytes), NEW oos \in BOOLEAN
  PROVE  LET z == [a EXCEPT !.oos = oos] IN
         /\ Content(z, u, bytes) /\ SameBut(z, a) /\ z.scanned = a.scanned /\ z.missed = a.missed
         /\ z.oos = oos /\ z.load = a.load
  <1> DEFINE z == [a EXCEPT !.oos = oos]
  <1>1. /\ a \in Sides /\ a.scanned <= Size - 1 /\ a.pending \in Seq(Payloads) /\ bytes \in Seq(Payloads)
        /\ \E B, c, e : Path(a, u, B, c, e, bytes)
    BY DEF Content
  <1>2. z \in Sides
    BY <1>1 DEF Sides
  <1>3. /\ z.r = a.r /\ z.control = a.control /\ z.mode = a.mode /\ z.scanned = a.scanned
        /\ z.missed = a.missed /\ z.oos = oos /\ z.load = a.load /\ z.skips = a.skips
        /\ z.pending = a.pending
    BY <1>1 DEF Sides
  <1> HIDE DEF z
  <1>4. PICK B, c, e : Path(a, u, B, c, e, bytes)
    BY <1>1
  <1>5. \A b : (Skipped(a, b) <=> Skipped(z, b)) /\ (PacketAt(a, u, c, e, bytes, b) <=> PacketAt(z, u, c, e, bytes, b))
    BY <1>3 DEF Skipped, PacketAt
  <1>6. \A j : SkipAt(a, B, c, e, j) <=> SkipAt(z, B, c, e, j)
    BY <1>3 DEF SkipAt
  <1>7. Path(z, u, B, c, e, bytes)
    BY <1>3, <1>4, <1>5, <1>6, Zenon DEF Path
  <1>8. Content(z, u, bytes)
    BY <1>1, <1>2, <1>3, <1>7 DEF Content
  <1> QED BY <1>3, <1>8 DEF SameBut, z

LEMMA PassOverIs ==
  ASSUME NEW a \in Sides, NEW u, NEW L, Sees(a, u, L), NEW n \in Nat, ~a.missed, a.scanned + n <= L,
         \A i \in a.scanned..a.scanned + n - 1 : ~(u[i].end /\ u[i].solid)
  PROVE  PassOver(a, n) = SkipBytes(a, n)
  <1> DEFINE solid(i) == LET x == UnitAt(a, a.scanned + i) IN x.end /\ x.solid
             passed == \E i \in 0..n - 1 : solid(i)
             s == a.scanned
  <1>1. SideTypes(a) /\ s \in Nat /\ L \in 0..Size - 1 /\ Size \in Nat
        /\ \A i \in 0..Size - 1 : UnitAt(a, i) = u[i]
    BY SideIs, SeesIs, Sizes DEF SideTypes
  <1>2. ASSUME NEW i \in 0..n - 1 PROVE ~solid(i)
    <2>1. s + i \in s..s + n - 1 /\ s + i \in 0..Size - 1
      BY <1>1
    <2>2. UnitAt(a, s + i) = u[s + i]
      BY <1>1, <2>1
    <2>3. ~(u[s + i].end /\ u[s + i].solid)
      BY <2>1
    <2> QED BY <2>2, <2>3
  <1>3. ~passed
    BY <1>2
  <1>4. PassOver(a, n) = SkipBytes([a EXCEPT !.missed = @ \/ passed], n)
    BY DEF PassOver
  <1> HIDE DEF passed
  <1>5. a.missed = FALSE /\ (a.missed \/ passed) = FALSE
    BY <1>1, <1>3 DEF SideTypes
  <1>6. [a EXCEPT !.missed = FALSE] = a
    BY <1>5 DEF Sides
  <1>7. [a EXCEPT !.missed = @ \/ passed] = a
    BY <1>5, <1>6, Zenon
  <1> QED BY <1>4, <1>7

\* What passes over bytes that fit.
LEMMA PassKeeps ==
  ASSUME NEW a, NEW u, NEW L, NEW c, NEW bytes, Ground(u, L, c), Content(a, u, bytes), ~a.missed,
         NEW n \in Nat \ {0}, a.scanned + n <= L, Fits(u, L, c, a.scanned + n, a.oos)
  PROVE  Kept(SkipBytes(a, n), u, L, c, bytes) /\ SameBut(SkipBytes(a, n), a)
  <1> DEFINE z == SkipBytes(a, n)
  <1>1. a \in Sides /\ L \in 0..Size - 1 /\ n \in Nat
    BY DEF Content, Ground
  <1>2. SideTypes(a) /\ Size \in Nat \ {0}
    BY <1>1, SideIs, Sizes
  <1>3. a.scanned + n <= Size - 1
    BY <1>1, <1>2 DEF SideTypes
  <1>4. Content(z, u, bytes)
    BY <1>3, SkipKeeps
  <1>5. Beside(z, a) /\ z.scanned = a.scanned + n
    BY <1>1, <1>3, SkipBytesIs
  <1> HIDE DEF z
  <1>6. z.oos = a.oos /\ z.missed = a.missed /\ SameBut(z, a)
    BY <1>5 DEF Beside, SameBut
  <1>7. z.scanned <= L /\ Fits(u, L, c, z.scanned, z.oos)
    BY <1>5, <1>6
  <1> QED BY <1>4, <1>6, <1>7 DEF Kept, z

\* A round brings whole packets, or none, and passes over no solid trailer.
RoundOf(z, a, u, L, bytes) ==
  \E came \in Seq(Payloads) :
    Fifo!WholePackets(came) /\ Kept(z, u, L, card, bytes \o came) /\ SameBut(z, a)

LEMMA RoundOfNothing ==
  ASSUME NEW a, NEW z, NEW u, NEW L, NEW bytes, Kept(z, u, L, card, bytes), SameBut(z, a)
  PROVE  RoundOf(z, a, u, L, bytes)
  <1>1. bytes \in Seq(Payloads)
    BY DEF Kept, Content
  <1>2. bytes \o <<>> = bytes /\ <<>> \in Seq(Payloads)
    BY <1>1
  <1> QED BY <1>2, NoPackets DEF RoundOf

LEMMA SearchKeeps ==
  ASSUME NEW a, NEW u, NEW L, NEW bytes, Sees(a, u, L), Kept(a, u, L, card, bytes), a.oos,
         L - a.scanned >= NumSync * Packet
  PROVE  RoundOf(SearchOn(a), a, u, L, bytes)
  <1>1. /\ Ground(u, L, card) /\ Content(a, u, bytes) /\ a.scanned <= L /\ ~a.missed
        /\ Fits(u, L, card, a.scanned, a.oos) /\ a \in Sides
    BY DEF Kept, Content
  <1>2. SideTypes(a) /\ a.scanned \in Nat /\ a.oos = TRUE
    BY <1>1, SideIs DEF SideTypes
  <1>3. Fits(u, L, card, a.scanned, TRUE)
    BY <1>1, <1>2
  <1>4a. PICK n \in Nat, oos \in BOOLEAN : Searched(a, u, L, n, oos)
    BY <1>1, <1>2, <1>3, SearchFits
  <1>4. /\ Passes(u, L, card, a.scanned, n, oos)
        /\ n = 0 => ~oos /\ SearchOn(a) = [a EXCEPT !.oos = FALSE]
        /\ n # 0 /\ oos => SearchOn(a) = PassOver(a, n)
        /\ n # 0 /\ ~oos => SearchOn(a) = PassOver([a EXCEPT !.oos = FALSE], n)
    BY <1>4a DEF Searched
  <1>5. /\ a.scanned + n <= L /\ Fits(u, L, card, a.scanned + n, oos)
        /\ \A i \in a.scanned..a.scanned + n - 1 : ~(u[i].end /\ u[i].solid)
    BY <1>4 DEF Passes
  <1> DEFINE b == [a EXCEPT !.oos = FALSE]
  <1>6. /\ Content(b, u, bytes) /\ SameBut(b, a) /\ b.scanned = a.scanned /\ ~b.missed /\ b.oos = FALSE
    BY <1>1, OosKeeps
  <1> HIDE DEF b
  <1>7. b \in Sides /\ Sees(b, u, L)
    BY <1>6 DEF Content, Sees, SameBut
  <1>8. CASE n = 0
    <2>1. SearchOn(a) = b /\ oos = FALSE
      BY <1>4, <1>8 DEF b
    <2>2. a.scanned + n = b.scanned
      BY <1>2, <1>6, <1>8
    <2>3. Kept(b, u, L, card, bytes)
      BY <1>1, <1>5, <1>6, <2>1, <2>2 DEF Kept
    <2> QED BY <1>6, <2>1, <2>3, RoundOfNothing
  <1>9. CASE n # 0 /\ oos
    <2>1. SearchOn(a) = SkipBytes(a, n)
      BY <1>1, <1>4, <1>5, <1>9, PassOverIs
    <2>2. oos = a.oos
      BY <1>2, <1>9
    <2>3. Kept(SkipBytes(a, n), u, L, card, bytes) /\ SameBut(SkipBytes(a, n), a)
      BY <1>1, <1>5, <1>9, <2>2, PassKeeps
    <2> QED BY <2>1, <2>3, RoundOfNothing
  <1>10. CASE n # 0 /\ ~oos
    <2>1. SearchOn(a) = PassOver(b, n)
      BY <1>4, <1>10 DEF b
    <2>2. PassOver(b, n) = SkipBytes(b, n)
      BY <1>5, <1>6, <1>7, PassOverIs
    <2>3. oos = b.oos
      BY <1>6, <1>10
    <2>4. Kept(SkipBytes(b, n), u, L, card, bytes) /\ SameBut(SkipBytes(b, n), b)
      BY <1>1, <1>5, <1>6, <1>10, <2>3, PassKeeps
    <2>5. SameBut(SkipBytes(b, n), a)
      BY <1>6, <2>4 DEF SameBut
    <2> QED BY <2>1, <2>2, <2>4, <2>5, RoundOfNothing
  <1> QED BY <1>8, <1>9, <1>10

LEMMA PacketRound ==
  ASSUME NEW a, NEW u, NEW L, NEW bytes, Sees(a, u, L), Kept(a, u, L, card, bytes), ~a.oos,
         L - a.scanned >= Packet
  PROVE  RoundOf(ScanPacket(a), a, u, L, bytes)
  <1> DEFINE s == a.scanned
             x == u[s + Packet - 1]
             n == Decode(a.mode, x)
  <1>1. /\ Ground(u, L, card) /\ Content(a, u, bytes) /\ ~a.missed
        /\ Fits(u, L, card, s, a.oos) /\ a \in Sides /\ L \in 0..Size - 1 /\ Laid(u, L)
    BY DEF Kept, Content, Ground
  <1>2. SideTypes(a) /\ s \in Nat /\ a.oos = FALSE /\ Packet \in Nat \ {0} /\ Packet >= 3 /\ Size \in Nat
        /\ a.load \in Nat /\ FifoSize \in Nat
    BY <1>1, SideIs, Sizes DEF SideTypes
  <1>3. /\ s + Packet <= L /\ s + 1 <= L /\ s + Packet - 1 \in 0..L - 1 /\ s + Packet - 1 \in 0..Size - 1
    BY <1>1, <1>2
  <1>4. UnitAt(a, s + Packet - 1) = x /\ x \in Written
    BY <1>1, <1>3, SeesIs DEF Laid
  <1> HIDE DEF s
  <1>5. a.mode \in Modes /\ n \in Int
    BY <1>2, DecodeIs DEF SideTypes
  <1>6. CASE n = Refused
    <2> DEFINE b == [a EXCEPT !.oos = TRUE]
    <2>1. ScanPacket(a) = SkipBytes(b, 1)
      BY <1>4, <1>6 DEF ScanPacket, s
    <2>2. ~Fine(x)
      BY <1>4, <1>5, <1>6, DecodeOf
    <2>3. Fits(u, L, card, s + 1, TRUE)
      BY <1>1, <1>2, <1>3, <2>2, RefuseFits
    <2>4. /\ Content(b, u, bytes) /\ SameBut(b, a) /\ b.scanned = s /\ ~b.missed /\ b.oos = TRUE
      BY <1>1, OosKeeps DEF s
    <2> HIDE DEF b
    <2>5. Kept(SkipBytes(b, 1), u, L, card, bytes) /\ SameBut(SkipBytes(b, 1), b)
      <3>1. b.scanned + 1 <= L /\ Fits(u, L, card, b.scanned + 1, b.oos) /\ 1 \in Nat \ {0}
        <4>1. b.scanned + 1 <= L
          BY <1>3, <2>4
        <4>2. Fits(u, L, card, b.scanned + 1, b.oos)
          BY <2>3, <2>4, Zenon
        <4> QED BY <4>1, <4>2
      <3> QED BY <1>1, <2>4, <3>1, PassKeeps
    <2>6. SameBut(SkipBytes(b, 1), a)
      BY <2>4, <2>5 DEF SameBut
    <2> QED BY <2>1, <2>5, <2>6, RoundOfNothing
  <1>7. CASE n # Refused
    <2>1. x.end
      BY <1>4, <1>5, <1>7, DecodeOf
    <2>2. Fits(u, L, card, s + Packet, FALSE)
      BY <1>1, <1>2, <1>3, <2>1, AcceptFits
    <2>3. CASE a.load + n > FifoSize
      <3>1. ScanPacket(a) = SkipBytes(a, Packet)
        BY <1>4, <1>7, <2>3 DEF ScanPacket, s
      <3>2. a.scanned + Packet <= L /\ Fits(u, L, card, a.scanned + Packet, a.oos)
        BY <1>2, <1>3, <2>2 DEF s
      <3>3. Kept(SkipBytes(a, Packet), u, L, card, bytes) /\ SameBut(SkipBytes(a, Packet), a)
        BY <1>1, <1>2, <3>2, PassKeeps
      <3> QED BY <3>1, <3>3, RoundOfNothing
    <2>4. CASE ~(a.load + n > FifoSize)
      <3> DEFINE z == [a EXCEPT !.load = @ + n, !.scanned = @ + Packet]
                 came == CameBytes(u, s, n)
      <3>1. ScanPacket(a) = z
        BY <1>4, <1>7, <2>4 DEF ScanPacket, s
      <3>2. a.load + n <= FifoSize
        BY <1>2, <1>5, <2>4
      <3>3. came \in Seq(Payloads) /\ Fifo!WholePackets(came)
        BY <1>1, <1>2, <1>3, <1>5, <1>7, CameIs
      <3>4. Content(z, u, bytes \o came)
        BY <1>1, <1>3, <1>7, <3>2, PacketKeeps DEF s
      <3>5. z.scanned = s + Packet /\ z.oos = FALSE /\ z.missed = a.missed /\ SameBut(z, a)
        BY <1>1, <1>2 DEF Sides, SameBut, s
      <3> HIDE DEF z, came
      <3>6. Kept(z, u, L, card, bytes \o came)
        BY <1>1, <1>3, <2>2, <3>4, <3>5 DEF Kept
      <3> QED BY <3>1, <3>3, <3>5, <3>6 DEF RoundOf
    <2> QED BY <2>3, <2>4
  <1> QED BY <1>6, <1>7

LEMMA RoundKeeps ==
  ASSUME NEW a, NEW u, NEW L, NEW bytes, Sees(a, u, L), Kept(a, u, L, card, bytes)
  PROVE  RoundOf(WalkOn[a], a, u, L, bytes)
  <1>1. a \in Sides /\ L \in 0..Size - 1
    BY DEF Kept, Content, Ground
  <1>2. SideTypes(a) /\ a.scanned \in Nat /\ Packet \in Nat /\ NumSync * Packet \in Nat /\ Size \in Nat
    BY <1>1, SideIs, Sizes DEF SideTypes
  <1>3. RingLoad(a) = L
    BY SeesIs
  <1>4. Available(a) = L - a.scanned
    BY <1>3 DEF Available
  <1>5. WalkOn[a] = IF L - a.scanned < (IF a.oos THEN NumSync * Packet ELSE Packet) THEN a
                    ELSE IF a.oos THEN SearchOn(a) ELSE ScanPacket(a)
    BY <1>1, <1>4 DEF WalkOn
  <1>6. CASE L - a.scanned < (IF a.oos THEN NumSync * Packet ELSE Packet)
    <2>1. SameBut(a, a)
      BY DEF SameBut
    <2> QED BY <1>5, <1>6, <2>1, RoundOfNothing
  <1>7. CASE ~(L - a.scanned < (IF a.oos THEN NumSync * Packet ELSE Packet))
    <2>1. CASE a.oos
      <3>1. L - a.scanned >= NumSync * Packet
        BY <1>1, <1>2, <1>7, <2>1
      <3> QED BY <1>5, <1>7, <2>1, <3>1, SearchKeeps
    <2>2. CASE ~a.oos
      <3>1. L - a.scanned >= Packet
        BY <1>1, <1>2, <1>7, <2>2
      <3> QED BY <1>5, <1>7, <2>2, <3>1, PacketRound
    <2> QED BY <2>1, <2>2
  <1> QED BY <1>6, <1>7

LEMMA RoundsJoin ==
  ASSUME NEW a, NEW z, NEW y, NEW u, NEW L, NEW bytes, bytes \in Seq(Payloads), NEW came \in Seq(Payloads),
         Fifo!WholePackets(came), SameBut(z, a), RoundOf(y, z, u, L, bytes \o came)
  PROVE  RoundOf(y, a, u, L, bytes)
  <1>1. PICK came2 \in Seq(Payloads) :
          Fifo!WholePackets(came2) /\ Kept(y, u, L, card, (bytes \o came) \o came2) /\ SameBut(y, z)
    BY DEF RoundOf
  <1>2. (bytes \o came) \o came2 = bytes \o (came \o came2) /\ came \o came2 \in Seq(Payloads)
    BY ConcatAssociative
  <1>3. Fifo!WholePackets(came \o came2) /\ SameBut(y, a)
    BY <1>1, WholeOnes DEF SameBut
  <1> QED BY <1>1, <1>2, <1>3 DEF RoundOf

\* All rounds of a scan.
LEMMA WalkKeeps ==
  ASSUME NEW a, NEW u, NEW L, NEW bytes, Sees(a, u, L), Kept(a, u, L, card, bytes)
  PROVE  RoundOf(Walk(a), a, u, L, bytes)
  <1> DEFINE P == {z \in Sides : RoundOf(z, a, u, L, bytes)}
             N == 2 * Available(a)
             Rec(f) == f = [n \in 0..N |-> IF n = 0 THEN a ELSE WalkOn[f[n - 1]]]
             after == CHOOSE f : Rec(f)
             step == [n \in 1..N |-> [z \in P |-> WalkOn[z]]]
  <1>1. a \in Sides /\ L \in 0..Size - 1 /\ a.scanned <= L /\ bytes \in Seq(Payloads)
    BY DEF Kept, Content, Ground
  <1>2. N \in Nat
    <2>1. a.scanned \in Nat /\ RingLoad(a) = L
      BY <1>1, SideIs, SeesIs DEF SideTypes
    <2> QED BY <1>1, <2>1 DEF Available
  <1>3. a \in P
    <2>1. SameBut(a, a)
      BY DEF SameBut
    <2> QED BY <1>1, <2>1, RoundOfNothing
  <1>4. ASSUME NEW z \in P PROVE WalkOn[z] \in P
    <2>1. PICK came \in Seq(Payloads) :
            Fifo!WholePackets(came) /\ Kept(z, u, L, card, bytes \o came) /\ SameBut(z, a)
      BY DEF RoundOf
    <2>2. Sees(z, u, L)
      BY <2>1 DEF Sees, SameBut
    <2>3. RoundOf(WalkOn[z], z, u, L, bytes \o came)
      BY <2>1, <2>2, RoundKeeps
    <2>4. RoundOf(WalkOn[z], a, u, L, bytes)
      BY <1>1, <2>1, <2>3, RoundsJoin
    <2>5. WalkOn[z] \in Sides
      BY <2>4 DEF RoundOf, Kept, Content
    <2> QED BY <2>4, <2>5
  <1>5. Walk(a) = after[N]
    BY DEF Walk
  <1> HIDE DEF P
  <1>6. step \in [1..N -> [P -> P]]
    <2>1. [z \in P |-> WalkOn[z]] \in [P -> P]
      BY <1>4
    <2> QED BY <2>1
  <1>7. PICK f : Steps(f, P, a, step, N)
    <2> HIDE DEF step, N
    <2> QED BY <1>2, <1>3, <1>6, StepsExist
  <1>8. f \in [0..N -> P] /\ f[0] = a
    BY <1>7 DEF Steps
  <1>9. ASSUME NEW n \in 1..N PROVE f[n] = WalkOn[f[n - 1]]
    <2>1. f[n - 1] \in P
      BY <1>2, <1>8
    <2>2. f[n] = step[n][f[n - 1]]
      BY <1>7 DEF Steps
    <2> QED BY <2>1, <2>2
  <1>10. Rec(f)
    <2>1. ASSUME NEW n \in 0..N PROVE f[n] = IF n = 0 THEN a ELSE WalkOn[f[n - 1]]
      <3>1. n = 0 \/ (n \in 1..N /\ n # 0)
        BY <1>2
      <3> QED BY <1>8, <1>9, <3>1
    <2>2. f = [n \in 0..N |-> f[n]]
      BY <1>8
    <2> HIDE DEF step, N
    <2> QED BY <2>1, <2>2, Zenon
  <1>11. Rec(after)
    BY <1>10
  <1> HIDE DEF after, step, N
  <1>12. ASSUME NEW n \in 0..N PROVE after[n] = IF n = 0 THEN a ELSE WalkOn[after[n - 1]]
    BY <1>11
  <1> HIDE DEF Rec
  <1> DEFINE U == {n \in 0..N : after[n] \in P}
  <1>13. 0 \in U
    BY <1>2, <1>3, <1>12
  <1>14. ASSUME NEW n \in 0..N - 1, n \in U PROVE n + 1 \in U
    <2>1. n + 1 \in 0..N /\ n + 1 # 0 /\ (n + 1) - 1 = n
      BY <1>2
    <2>2. after[n + 1] = WalkOn[after[n]]
      BY <1>12, <2>1
    <2> QED BY <1>4, <1>14, <2>1, <2>2
  <1>15. N \in U
    <2>1. N \in 0..N
      BY <1>2
    <2> HIDE DEF U
    <2>2. 0..N \subseteq U
      BY <1>2, <1>13, <1>14, UpTo
    <2> QED BY <2>1, <2>2
  <1> QED BY <1>5, <1>15 DEF P

--------------------------------------------------------------------------------
(* The ring, seen from further on, and what the units that are not to be read do not change.   *)

Shifted(u, v, L, M, n) ==
  /\ n \in Nat /\ M \in Nat /\ L = M + n /\ L \in 0..Size - 1
  /\ \A i \in 0..M - 1 : v[i] = u[i + n]

LEMMA BackShift ==
  ASSUME NEW q \in Int, NEW n \in Int, NEW k \in Int
  PROVE  Back(q + n, k) = Back(q, k) + n /\ Back(q, k) \in Int /\ (k >= 0 => Back(q, k) <= q)
  <1>1. k * Packet \in Int
    BY Sizes, SMT
  <1>2. (q + n) - k * Packet = (q - k * Packet) + n
    BY <1>1
  <1>3. Back(q + n, k) = Back(q, k) + n
    BY <1>2 DEF Back
  <1> QED BY <1>3, BackIs

LEMMA LaidShift ==
  ASSUME NEW u, NEW v, NEW L, NEW M, NEW n, Shifted(u, v, L, M, n), Laid(u, L)
  PROVE  Laid(v, M)
  <1>1. n \in Nat /\ M \in Nat /\ L = M + n /\ Packet \in Nat
    BY Sizes DEF Shifted
  <1>2. ASSUME NEW q \in 0..M - 1 PROVE v[q] = u[q + n] /\ q + n \in 0..L - 1
    BY <1>1 DEF Shifted
  <1>3. ASSUME NEW q \in 0..M - 1 PROVE v[q] \in Written
    BY <1>2 DEF Laid
  <1>4. ASSUME NEW q \in 0..M - 1, v[q].end, NEW i \in 1..Packet - 1, q - Packet + i >= 0
        PROVE  v[q - Packet + i] = Payload(v[q].packet, i, OfKind(v[q].kind))
    <2>1. q - Packet + i \in 0..M - 1 /\ (q + n) - Packet + i >= 0
          /\ (q - Packet + i) + n = (q + n) - Packet + i
      BY <1>1, <1>4
    <2>2. v[q] = u[q + n] /\ q + n \in 0..L - 1 /\ v[q - Packet + i] = u[(q + n) - Packet + i]
      BY <1>2, <2>1
    <2> DEFINE x == q + n
    <2>3. v[q] = u[x] /\ x \in 0..L - 1 /\ v[q - Packet + i] = u[x - Packet + i] /\ x - Packet + i >= 0
      BY <2>1, <2>2
    <2> HIDE DEF x
    <2> QED BY <1>4, <2>3 DEF Laid
  <1> QED BY <1>3, <1>4 DEF Laid

LEMMA LinkedShift ==
  ASSUME NEW u, NEW v, NEW L, NEW M, NEW n, Shifted(u, v, L, M, n), NEW c \in Cards, Linked(u, L, c)
  PROVE  Linked(v, M, c)
  <1>1. n \in Nat /\ M \in Nat /\ L = M + n /\ NumSync \in Nat /\ c.run \in Nat
    BY Sizes DEF Shifted, Cards
  <1>2. ASSUME NEW q \in 0..M - 1 PROVE v[q] = u[q + n] /\ q + n \in 0..L - 1
    BY <1>1 DEF Shifted
  <1>3. ASSUME NEW q \in -1..M - 1, NEW k \in Nat, Back(q, k) >= 0
        PROVE  Back(q + n, k) >= 0 /\ v[Back(q, k)] = u[Back(q + n, k)]
    <2>1. Back(q + n, k) = Back(q, k) + n /\ Back(q, k) \in Int /\ Back(q, k) <= q
      <3>1. q \in Int /\ n \in Int /\ k \in Int /\ k >= 0
        BY <1>1
      <3> QED BY <3>1, BackShift
    <2>2. Back(q, k) \in 0..M - 1 /\ Back(q, k) + n >= 0
      BY <1>1, <1>3, <2>1
    <2> QED BY <1>2, <2>1, <2>2
  <1>4. ASSUME NEW q \in 0..M - 1, v[q].end, v[q].solid PROVE LinkedAt(v, q, NumSync - 1, v[q].packet)
    <2> DEFINE x == q + n
    <2>1. v[q] = u[x] /\ x \in 0..L - 1
      BY <1>2
    <2>2. LinkedAt(u, x, NumSync - 1, u[x].packet)
      BY <1>4, <2>1 DEF Linked
    <2>3. ASSUME NEW k \in 0..NumSync - 1, Back(q, k) >= 0
          PROVE  Fine(v[Back(q, k)]) /\ (v[Back(q, k)].packet + k) % Seqs = v[q].packet
      <3>1. Back(x, k) >= 0 /\ v[Back(q, k)] = u[Back(x, k)]
        BY <1>1, <1>3, <2>3
      <3> HIDE DEF x
      <3> QED BY <2>1, <2>2, <3>1 DEF LinkedAt
    <2> QED BY <2>3 DEF LinkedAt
  <1>5. ASSUME NEW k \in 0..c.run - 1, Back(M - 1, k) >= 0
        PROVE  Fine(v[Back(M - 1, k)]) /\ (v[Back(M - 1, k)].packet + k + 1) % Seqs = c.seq
    <2>1. M - 1 \in -1..M - 1 /\ k \in Nat /\ (M - 1) + n = L - 1
      BY <1>1
    <2>2. Back(L - 1, k) >= 0 /\ v[Back(M - 1, k)] = u[Back(L - 1, k)]
      BY <1>3, <1>5, <2>1
    <2> QED BY <2>2 DEF Linked
  <1> QED BY <1>4, <1>5 DEF Linked

LEMMA GroundShift ==
  ASSUME NEW u, NEW v, NEW L, NEW M, NEW n, Shifted(u, v, L, M, n), NEW c, Ground(u, L, c)
  PROVE  Ground(v, M, c)
  <1>1. M \in 0..Size - 1
    BY Sizes DEF Shifted
  <1> QED BY <1>1, LaidShift, LinkedShift DEF Ground

LEMMA FitsShift ==
  ASSUME NEW u, NEW v, NEW L, NEW M, NEW n, Shifted(u, v, L, M, n), NEW c \in Cards, NEW s \in Nat,
         NEW t \in Nat, s = t + n, NEW oos \in BOOLEAN, Fits(u, L, c, s, oos)
  PROVE  Fits(v, M, c, t, oos)
  <1>1. n \in Nat /\ M \in Nat /\ L = M + n /\ NumSync \in Nat /\ NumSync - 1 \in Nat /\ c.run \in Nat
    BY Sizes DEF Shifted, Cards
  <1>2. ASSUME NEW q \in Int, NEW m \in Nat, FitsAt(s, oos, q + n, m) PROVE FitsAt(t, oos, q, m)
    <2>1. \A k \in Int : Back(q + n, k) = Back(q, k) + n /\ Back(q, k) \in Int
      <3>1. q \in Int /\ n \in Int
        BY <1>1
      <3> QED BY <3>1, BackShift
    <2>2. CASE Back(q + n, m) >= s
      <3>1. Back(q, m) >= t
        BY <1>1, <2>1, <2>2
      <3> QED BY <3>1 DEF FitsAt
    <2>3. CASE ~(Back(q + n, m) >= s)
      <3>1. PICK k \in 0..m : s = Back(q + n, k) + 1
        BY <1>2, <2>3 DEF FitsAt
      <3>2. t = Back(q, k) + 1
        BY <1>1, <2>1, <3>1
      <3> QED BY <1>2, <2>3, <3>2 DEF FitsAt
    <2> QED BY <2>2, <2>3
  <1>3. ASSUME NEW q \in t..M - 1, v[q].end, v[q].solid PROVE FitsAt(t, oos, q, NumSync - 1)
    <2>1. q + n \in s..L - 1 /\ q \in 0..M - 1 /\ q \in Int
      BY <1>1
    <2>2. v[q] = u[q + n]
      BY <2>1 DEF Shifted
    <2> DEFINE x == q + n
    <2>3. x \in s..L - 1 /\ u[x].end /\ u[x].solid
      BY <1>3, <2>1, <2>2
    <2> HIDE DEF x
    <2>4. FitsAt(s, oos, x, NumSync - 1)
      BY <2>3 DEF Fits
    <2> QED BY <1>1, <1>2, <2>1, <2>4 DEF x
  <1>4. c.run > 0 => FitsAt(t, oos, M - 1, c.run - 1)
    <2>1. (M - 1) + n = L - 1 /\ M - 1 \in Int
      BY <1>1
    <2>2. c.run > 0 => FitsAt(s, oos, (M - 1) + n, c.run - 1) /\ c.run - 1 \in Nat
      BY <1>1, <2>1 DEF Fits
    <2> QED BY <1>2, <2>1, <2>2
  <1>5. ASSUME ~oos, t < M PROVE ~v[t].end
    <2>1. s < L /\ t \in 0..M - 1 /\ v[t] = u[s]
      BY <1>1, <1>5 DEF Shifted
    <2> QED BY <1>5, <2>1 DEF Fits
  <1> QED BY <1>3, <1>4, <1>5 DEF Fits

\* What is not to be read may change.
LEMMA ContentAgrees ==
  ASSUME NEW a, NEW u, NEW v, NEW L, NEW M, NEW bytes, Content(a, u, bytes), a.scanned <= L, L \in Nat,
         \A i \in 0..L - 1 : v[i] = u[i]
  PROVE  Content(a, v, bytes)
  <1>1. /\ a \in Sides /\ a.scanned <= Size - 1 /\ a.pending \in Seq(Payloads) /\ bytes \in Seq(Payloads)
        /\ \E B, c, e : Path(a, u, B, c, e, bytes)
    BY DEF Content
  <1>2. PICK B, c, e : Path(a, u, B, c, e, bytes)
    BY <1>1
  <1>3. a.scanned \in Nat /\ Packet \in Nat /\ Packet >= 3
    BY <1>1, SideIs, Sizes DEF SideTypes
  <1>4. ASSUME NEW b \in B, b < a.scanned, PacketAt(a, u, c, e, bytes, b)
        PROVE  PacketAt(a, v, c, e, bytes, b)
    <2>1. e[b] \in B /\ B \subseteq 0..a.scanned
      BY <1>2, <1>4 DEF Path
    <2>2. e[b] = b + Packet
      BY <1>4 DEF PacketAt
    <2>3. b \in Nat /\ b + Packet <= a.scanned
      BY <1>3, <2>1, <2>2
    <2>4. b + Packet - 1 \in 0..L - 1
      BY <1>3, <2>3
    <2>5. v[b + Packet - 1] = u[b + Packet - 1]
      BY <2>4
    <2> DEFINE n == Decode(a.mode, u[b + Packet - 1])
    <2>6. n \in Int /\ n <= Packet - 1 /\ n = Decode(a.mode, v[b + Packet - 1])
      <3>1. n \in Int /\ n \in {-1, 0, Packet - 2, Packet - 1}
        BY DecodeIs
      <3> HIDE DEF n
      <3>2. n <= Packet - 1
        BY <1>3, <3>1
      <3> QED BY <2>5, <3>1, <3>2 DEF n
    <2>7. /\ n # Refused /\ c[b + Packet] = c[b] + n
          /\ \A i \in 1..n : bytes[c[b] + i] = u[b + i - 1]
      BY <1>4 DEF PacketAt
    <2> HIDE DEF n
    <2>8. ASSUME NEW i \in 1..n PROVE v[b + i - 1] = u[b + i - 1]
      <3>1. b + i - 1 \in 0..L - 1
        BY <1>3, <2>3, <2>6
      <3> QED BY <3>1
    <2> QED BY <2>2, <2>6, <2>7, <2>8 DEF PacketAt
  <1>5. Path(a, v, B, c, e, bytes)
    <2>1. \A b \in B : b < a.scanned => Skipped(a, b) \/ PacketAt(a, v, c, e, bytes, b)
      BY <1>2, <1>4 DEF Path
    <2> QED BY <1>2, <2>1, Zenon DEF Path
  <1> QED BY <1>1, <1>5 DEF Content

LEMMA ViewShift ==
  ASSUME NEW rg, NEW c \in Cards, NEW r \in Slots, NEW n \in 0..Loaded(c, r)
  PROVE  /\ (r + n) % Size \in Slots
         /\ Shifted(View(rg, r), View(rg, (r + n) % Size), Loaded(c, r), Loaded(c, (r + n) % Size), n)
  <1> DEFINE L == Loaded(c, r)
             r2 == (r + n) % Size
             M == Loaded(c, r2)
  <1>1. Size \in Nat \ {0} /\ r \in 0..Size - 1 /\ c.w \in 0..Size - 1 /\ Slots = 0..Size - 1
    BY Sizes DEF Cards
  <1>2. L \in 0..Size - 1 /\ L = Ahead(Size, r, c.w)
    BY <1>1, PlaceAhead DEF Loaded
  <1>3. n \in 0..Size /\ n \in 0..Size - 1
    BY <1>1, <1>2
  <1>4. r2 = Place(Size, r, n)
    BY <1>1, <1>3, PlaceAt DEF Place
  <1>5. r2 \in 0..Size - 1
    BY <1>1, <1>3, <1>4, PlaceAhead
  <1>6. M = L - n /\ \A i \in 0..Size - 1 : n + i <= Size - 1 => Place(Size, r2, i) = Place(Size, r, n + i)
    <2>1. n \in 0..Ahead(Size, r, c.w)
      BY <1>2
    <2> QED BY <1>1, <1>2, <1>4, <2>1, AheadLess DEF Loaded
  <1> HIDE DEF L, M, r2
  <1>7. M \in Nat /\ L = M + n
    BY <1>1, <1>2, <1>3, <1>6 DEF L
  <1>8. ASSUME NEW i \in 0..M - 1 PROVE View(rg, r2)[i] = View(rg, r)[i + n]
    <2>1. i \in 0..Size - 1 /\ i + n \in 0..Size - 1 /\ n + i <= Size - 1 /\ i + n = n + i
      BY <1>1, <1>2, <1>3, <1>7
    <2> QED BY <1>6, <2>1 DEF View
  <1>9. Shifted(View(rg, r), View(rg, r2), L, M, n)
    BY <1>2, <1>3, <1>7, <1>8 DEF Shifted
  <1> QED BY <1>1, <1>5, <1>9 DEF L, M, r2

\* Nothing scanned, nothing to be read.
LEMMA EmptyContent ==
  ASSUME NEW a \in Sides, a.scanned = 0, a.load = 0, a.skips = <<>>, a.pending = <<>>, NEW u
  PROVE  Content(a, u, <<>>)
  <1> DEFINE B == {0}
             c == [b \in B |-> 0]
  <1>1. Size \in Nat \ {0} /\ <<>> \in Seq(Payloads) /\ Len(<<>>) = 0
    BY Sizes
  <1>2. B \in SUBSET (0..0) /\ 0 \in B /\ c \in [B -> 0..0] /\ c \in [B -> Nat] /\ c[0] = 0
        /\ \A b \in B : b = 0
    OBVIOUS
  <1> HIDE DEF B, c
  <1>3. DOMAIN a.skips = {} /\ 1..0 = {}
    OBVIOUS
  <1>4. Path(a, u, B, c, c, <<>>)
    BY <1>1, <1>2, <1>3 DEF Path
  <1> QED BY <1>1, <1>4 DEF Content

\* What a side has, with the ring that is there.
Here(a, bytes) ==
  /\ a.r \in Slots /\ card \in Cards
  /\ Kept(a, View(ring, a.r), Loaded(card, a.r), card, bytes)

LEMMA ScanKeeps ==
  ASSUME NEW a, NEW bytes, Here(a, bytes)
  PROVE  \E came \in Seq(Payloads) :
           /\ Fifo!WholePackets(came) /\ Here(ScanBuffer(a), bytes \o came)
           /\ ScanBuffer(a).control = a.control /\ ScanBuffer(a).mode = a.mode
  <1> DEFINE u == View(ring, a.r)
             L == Loaded(card, a.r)
             walked == IF a.control = "idle" THEN a ELSE Walk(a)
  <1>1. Sees(a, u, L) /\ Kept(a, u, L, card, bytes) /\ card \in Cards /\ a.r \in Slots
    BY DEF Here, Sees, Cards
  <1> HIDE DEF u, L
  <1>2. RoundOf(walked, a, u, L, bytes)
    <2>1. SameBut(a, a)
      BY DEF SameBut
    <2> QED BY <1>1, <2>1, RoundOfNothing, WalkKeeps
  <1>3. ScanBuffer(a) = IF walked.load = 0 THEN AdvanceReadOffset([walked EXCEPT !.skips = <<>>], walked.scanned)
                        ELSE walked
    BY DEF ScanBuffer
  <1> HIDE DEF walked
  <1>4. PICK came \in Seq(Payloads) :
          Fifo!WholePackets(came) /\ Kept(walked, u, L, card, bytes \o came) /\ SameBut(walked, a)
    BY <1>2 DEF RoundOf
  <1>5. walked.r = a.r /\ walked.control = a.control /\ walked.mode = a.mode
    BY <1>4 DEF SameBut
  <1>6. CASE walked.load # 0
    BY <1>1, <1>3, <1>4, <1>5, <1>6 DEF Here, u, L
  <1>7. CASE walked.load = 0
    <2> DEFINE w == [walked EXCEPT !.skips = <<>>]
               z == AdvanceReadOffset(w, walked.scanned)
               n == walked.scanned
               r2 == (walked.r + n) % Size
               v == View(ring, r2)
               M == Loaded(card, r2)
               out == bytes \o came
    <2>1. /\ walked \in Sides /\ Content(walked, u, out) /\ n <= L /\ Ground(u, L, card)
          /\ Fits(u, L, card, n, walked.oos) /\ ~walked.missed /\ L \in 0..Size - 1
      BY <1>4 DEF Kept, Content, Ground
    <2>2. SideTypes(walked) /\ n \in Nat /\ Size \in Nat \ {0}
      BY <2>1, SideIs, Sizes DEF SideTypes
    <2>3. /\ r2 \in Slots /\ Shifted(u, v, L, M, n)
      <3>1. n \in 0..Loaded(card, a.r) /\ walked.r = a.r
        BY <1>5, <2>1, <2>2 DEF L
      <3> QED BY <1>1, <3>1, ViewShift DEF u, L
    <2> HIDE DEF n, r2, v, M
    <2>4. z = [w EXCEPT !.scanned = @ - n, !.r = r2]
      BY DEF AdvanceReadOffset, r2, n
    <2>5. w \in Sides /\ <<>> \in Seq(Skips) /\ w.scanned = n
      <3>1. <<>> \in Seq(Skips) /\ walked \in Sides
        BY <2>1
      <3>2. w \in Sides
        BY <3>1 DEF Sides
      <3>3. w.scanned = walked.scanned
        BY <3>1 DEF Sides
      <3> QED BY <3>1, <3>2, <3>3 DEF n
    <2>6. n - n = 0 /\ 0 \in 0..Size /\ r2 \in 0..Size - 1
      BY <2>2, <2>3, Sizes
    <2>7. z = [w EXCEPT !.scanned = 0, !.r = r2]
      BY <2>4, <2>5, <2>6, Zenon
    <2>8. /\ z \in Sides /\ z.scanned = 0 /\ z.load = 0 /\ z.skips = <<>> /\ z.pending = walked.pending
          /\ z.r = r2 /\ z.oos = walked.oos /\ z.missed = walked.missed
          /\ z.control = walked.control /\ z.mode = walked.mode
      <3>1. z \in Sides
        BY <2>3, <2>5, <2>6, <2>7 DEF Sides
      <3>2. /\ z.scanned = 0 /\ z.load = w.load /\ z.skips = w.skips /\ z.pending = w.pending
            /\ z.r = r2 /\ z.oos = w.oos /\ z.missed = w.missed
            /\ z.control = w.control /\ z.mode = w.mode
        <4> HIDE DEF w
        <4> QED BY <2>5, <2>7 DEF Sides
      <3>3. /\ w.load = 0 /\ w.skips = <<>> /\ w.pending = walked.pending
            /\ w.oos = walked.oos /\ w.missed = walked.missed
            /\ w.control = walked.control /\ w.mode = walked.mode
        BY <1>7, <2>1 DEF Sides
      <3> QED BY <3>1, <3>2, <3>3
    <2>9. walked.pending = <<>> /\ out = <<>>
      <3>1. PICK B, c, e : Path(walked, u, B, c, e, out)
        BY <2>1 DEF Content
      <3>2. c[0] = Len(walked.pending) /\ c[0] \in 0..walked.load /\ Len(out) = walked.load
        BY <3>1 DEF Path
      <3>3. walked.pending \in Seq(Payloads) /\ out \in Seq(Payloads)
        BY <2>1 DEF Content
      <3>4. Len(walked.pending) = 0 /\ Len(out) = 0
        BY <1>7, <3>2, <3>3
      <3> HIDE DEF out
      <3> QED BY <3>3, <3>4
    <2>10. Content(z, v, out)
      BY <2>8, <2>9, EmptyContent
    <2>11. Ground(v, M, card)
      BY <2>1, <2>3, GroundShift
    <2>12. Fits(v, M, card, 0, walked.oos)
      <3>1. n = 0 + n /\ walked.oos \in BOOLEAN
        BY <2>2 DEF SideTypes
      <3> QED BY <1>1, <2>1, <2>2, <2>3, <3>1, FitsShift
    <2>13. 0 <= M
      BY <2>3 DEF Shifted
    <2> HIDE DEF z, out
    <2>14. Kept(z, v, M, card, out)
      BY <2>1, <2>8, <2>10, <2>11, <2>12, <2>13 DEF Kept
    <2>15. Here(z, out)
      BY <1>1, <2>3, <2>8, <2>14 DEF Here, v, M
    <2>16. ScanBuffer(a) = z
      BY <1>3, <1>7 DEF z
    <2> QED BY <1>4, <1>5, <2>8, <2>15, <2>16 DEF out
  <1> QED BY <1>6, <1>7

--------------------------------------------------------------------------------
(* The delivery: it goes the way of the scan.                                *)

Scanned(a, u, L, B, c, e, bytes, n) ==
  /\ Sees(a, u, L) /\ Content(a, u, bytes) /\ Path(a, u, B, c, e, bytes) /\ a.scanned <= L
  /\ n \in 0..a.load

\* The first k skips are behind, the others are left and ahead.
LeftFrom(a, d, k) ==
  /\ k \in 0..Len(a.skips) /\ Len(d.skips) = Len(a.skips) - k
  /\ \A j \in 1..Len(d.skips) : d.skips[j] = a.skips[k + j]
  /\ \A j \in 1..k : Off(a.r, a.skips[j]) < d.used
  /\ \A j \in k + 1..Len(a.skips) : Off(a.r, a.skips[j]) >= d.used

\* What a delivery has got, and what of a packet is pending.
Got(d, c, bytes) ==
  /\ d.out \in Seq(Payloads) /\ d.pending \in Seq(Payloads)
  /\ Len(d.out) <= d.n /\ Len(d.out) + Len(d.pending) = c[d.used]
  /\ \A i \in 1..Len(d.out) : d.out[i] = bytes[i]
  /\ \A i \in 1..Len(d.pending) : d.pending[i] = bytes[Len(d.out) + i]

Underway(a, B, c, bytes, n, d) ==
  /\ d \in Deliveries /\ d.n = n /\ d.r = a.r /\ d.mode = a.mode /\ d.scanned = a.scanned
  /\ d.used \in B /\ Got(d, c, bytes) /\ \E k \in 0..Len(a.skips) : LeftFrom(a, d, k)

Turn(d) == 2 * d.used - (IF d.pending # <<>> THEN 1 ELSE 0)

LEMMA PayloadIs ==
  /\ Payloads \subseteq Units /\ Seq(Payloads) \subseteq Seq(Units) /\ Internal \notin Payloads
  <1>1. Packet \in Nat /\ Packet >= 3 /\ Seqs \in Nat
    BY Sizes
  <1>2. Payloads \subseteq Units
    <2>1. /\ 0..Seqs - 1 \subseteq -1..Seqs - 1 /\ 1..Packet - 1 \subseteq 0..Packet
          /\ {Packet - 2, Packet - 1} \subseteq 0..Packet
      BY <1>1
    <2> QED BY <2>1 DEF Payloads, Units
  <1>3. Internal \notin Payloads
    BY <1>1 DEF Payloads, Internal
  <1> QED BY <1>2, <1>3

LEMMA DeliveryIs ==
  ASSUME NEW d \in Deliveries
  PROVE  /\ d.n \in Nat /\ d.out \in Seq(Units) /\ d.used \in Nat /\ d.scanned \in Nat /\ d.r \in Slots
         /\ d.mode \in Modes /\ d.skips \in Seq(Skips) /\ d.pending \in Seq(Units)
  BY DEF Deliveries

LEMMA DoneIs ==
  ASSUME NEW a, NEW B, NEW c, NEW bytes, NEW n, NEW d, Underway(a, B, c, bytes, n, d)
  PROVE  Done(d) <=> Len(d.out) = n
  <1>1. d.out \in Seq(Payloads) /\ d.n = n
    BY DEF Underway, Got
  <1>2. d.out # <<>> => d.out[Len(d.out)] \in Payloads
    BY <1>1
  <1> QED BY <1>1, <1>2, PayloadIs DEF Done

\* The path, where the delivery is.
LEMMA OnPath ==
  ASSUME NEW a, NEW u, NEW L, NEW B, NEW c, NEW e, NEW bytes, NEW n, Scanned(a, u, L, B, c, e, bytes, n)
  PROVE  /\ SideTypes(a) /\ a.scanned \in 0..Size - 1 /\ a.load \in Nat /\ L \in 0..Size - 1
         /\ B \subseteq 0..a.scanned /\ c \in [B -> 0..a.load] /\ e \in [B -> Nat]
         /\ \A b \in B : b \in Nat /\ b <= a.scanned /\ c[b] \in Nat /\ c[b] <= a.load
         /\ \A b \in B : b < a.scanned => e[b] \in B /\ b < e[b]
         /\ \A b, d \in B : b < d => e[b] <= d /\ c[b] <= c[d]
         /\ \A j \in DOMAIN a.skips : SkipAt(a, B, c, e, j)
         /\ \A j, k \in DOMAIN a.skips : j < k => Off(a.r, a.skips[j]) < Off(a.r, a.skips[k])
         /\ \A b \in B : b < a.scanned => Skipped(a, b) \/ PacketAt(a, u, c, e, bytes, b)
         /\ bytes \in Seq(Payloads) /\ Len(bytes) = a.load /\ c[a.scanned] = a.load /\ a.scanned \in B
         /\ n \in Nat /\ n <= a.load
         /\ \A i \in 0..Size - 1 : UnitAt(a, i) = u[i]
  <1>1. a \in Sides /\ a.scanned <= Size - 1 /\ bytes \in Seq(Payloads)
    BY DEF Scanned, Content
  <1>2. SideTypes(a) /\ Size \in Nat
    BY <1>1, SideIs, Sizes
  <1>3. a.scanned \in 0..Size - 1 /\ a.load \in Nat
    BY <1>1, <1>2 DEF SideTypes
  <1>4. /\ B \subseteq 0..a.scanned /\ c \in [B -> 0..a.load] /\ e \in [B -> Nat] /\ a.scanned \in B
        /\ \A b \in B : b < a.scanned => e[b] \in B /\ b < e[b]
        /\ \A b, d \in B : b < d => e[b] <= d /\ c[b] <= c[d]
        /\ \A j \in DOMAIN a.skips : SkipAt(a, B, c, e, j)
        /\ \A j, k \in DOMAIN a.skips : j < k => Off(a.r, a.skips[j]) < Off(a.r, a.skips[k])
        /\ \A b \in B : b < a.scanned => Skipped(a, b) \/ PacketAt(a, u, c, e, bytes, b)
        /\ Len(bytes) = a.load /\ c[a.scanned] = a.load
    BY DEF Scanned, Path
  <1>5. ASSUME NEW b \in B PROVE b \in Nat /\ b <= a.scanned /\ c[b] \in Nat /\ c[b] <= a.load
    <2>1. b \in 0..a.scanned /\ c[b] \in 0..a.load
      BY <1>4
    <2> QED BY <1>3, <2>1
  <1>6. n \in Nat /\ n <= a.load
    <2>1. n \in 0..a.load
      BY DEF Scanned
    <2> QED BY <1>3, <2>1
  <1>7. L \in 0..Size - 1 /\ \A i \in 0..Size - 1 : UnitAt(a, i) = u[i]
    BY SeesIs DEF Scanned
  <1> QED BY <1>1, <1>2, <1>3, <1>4, <1>5, <1>6, <1>7

\* It takes what is pending, as far as there is room.
LEMMA PendingTaken ==
  ASSUME NEW a, NEW B, NEW c, NEW bytes, NEW n, NEW d, Underway(a, B, c, bytes, n, d),
         Len(d.out) < n, d.pending # <<>>, bytes \in Seq(Payloads)
  PROVE  /\ Underway(a, B, c, bytes, n, DeliverOn[d])
         /\ Done(DeliverOn[d]) \/ Turn(DeliverOn[d]) >= Turn(d) + 1
  <1> DEFINE room == d.n - Len(d.out)
             part == Least(Len(d.pending), room)
             out == d.out \o SubSeq(d.pending, 1, part)
             pending == SubSeq(d.pending, part + 1, Len(d.pending))
             z == [d EXCEPT !.out = out, !.pending = pending]
             l == Len(d.out)
             m == Len(d.pending)
  <1>1. /\ d \in Deliveries /\ d.n = n /\ d.out \in Seq(Payloads) /\ d.pending \in Seq(Payloads)
        /\ l + m = c[d.used]
        /\ \A i \in 1..l : d.out[i] = bytes[i]
        /\ \A i \in 1..m : d.pending[i] = bytes[l + i]
    BY DEF Underway, Got
  <1>2. ~Done(d)
    <2>1. n \in Nat /\ Len(d.out) \in Nat
      BY <1>1, DeliveryIs
    <2> QED BY <2>1, DoneIs
  <1>3. DeliverOn[d] = z
    BY <1>1, <1>2 DEF DeliverOn
  <1>4. n \in Nat /\ l \in Nat /\ m \in Nat \ {0} /\ room \in Nat \ {0} /\ part \in 1..m /\ part <= room
        /\ room = n - l /\ (part = m \/ part = room)
    <2>1. n \in Nat /\ l \in Nat /\ m \in Nat \ {0}
      BY <1>1, DeliveryIs
    <2>2. room \in Nat \ {0} /\ room = n - l
      BY <1>1, <2>1
    <2>3. part = Least(m, room)
      OBVIOUS
    <2> HIDE DEF part, room, m, l
    <2>4. part = IF m < room THEN m ELSE room
      BY <2>3 DEF Least
    <2>5. part \in 1..m /\ part <= room /\ (part = m \/ part = room)
      <3>1. m \in Nat \ {0} /\ room \in Nat \ {0}
        BY <2>1, <2>2
      <3> QED BY ONLY <2>4, <3>1
    <2> QED BY <2>1, <2>2, <2>5
  <1> HIDE DEF part, room
  <1>5. /\ out \in Seq(Payloads) /\ Len(out) = l + part
        /\ \A i \in 1..l : out[i] = d.out[i]
        /\ \A i \in 1..part : out[l + i] = d.pending[i]
    <2>1. /\ SubSeq(d.pending, 1, part) \in Seq(Payloads) /\ Len(SubSeq(d.pending, 1, part)) = part
          /\ \A i \in 1..part : SubSeq(d.pending, 1, part)[i] = d.pending[i]
      BY <1>1, <1>4
    <2> DEFINE t == SubSeq(d.pending, 1, part)
    <2> HIDE DEF t
    <2>2. t \in Seq(Payloads) /\ Len(t) = part /\ out = d.out \o t
      BY <2>1 DEF t
    <2>3. /\ d.out \o t \in Seq(Payloads) /\ Len(d.out \o t) = Len(d.out) + Len(t)
          /\ \A i \in 1..Len(d.out) : (d.out \o t)[i] = d.out[i]
          /\ \A i \in 1..Len(t) : (d.out \o t)[Len(d.out) + i] = t[i]
      <3>1. d.out \in Seq(Payloads) /\ t \in Seq(Payloads)
        BY <1>1, <2>2
      <3> QED BY ONLY <3>1
    <2> QED BY <2>1, <2>2, <2>3 DEF t
  <1>6. /\ pending \in Seq(Payloads) /\ Len(pending) = m - part
        /\ \A i \in 1..m - part : pending[i] = d.pending[part + i]
        /\ (part = m => pending = <<>>)
    <2>1. /\ pending \in Seq(Payloads) /\ Len(pending) = m - part
          /\ \A i \in 1..m - part : pending[i] = d.pending[part + i]
      BY <1>1, <1>4
    <2> HIDE DEF pending
    <2> QED BY SMTT(30), <1>4, <2>1
  <1> HIDE DEF out, pending
  <1>7. /\ z \in Deliveries /\ z.n = n /\ z.r = d.r /\ z.mode = d.mode /\ z.scanned = d.scanned
        /\ z.used = d.used /\ z.skips = d.skips /\ z.out = out /\ z.pending = pending
    <2>1. out \in Seq(Units) /\ pending \in Seq(Units)
      BY <1>5, <1>6, PayloadIs
    <2> QED BY <1>1, <2>1 DEF Deliveries
  <1> HIDE DEF z, l, m
  <1>8. \A i \in 1..Len(z.out) : z.out[i] = bytes[i]
    <2>1. ASSUME NEW i \in 1..Len(z.out) PROVE out[i] = bytes[i]
      <3>1. CASE i \in 1..l
        BY <1>1, <1>5, <3>1
      <3>2. CASE i \notin 1..l
        <4>1. i - l \in 1..part /\ i - l \in 1..m /\ l + (i - l) = i
          BY <1>4, <1>5, <1>7, <3>2
        <4> QED BY <1>1, <1>5, <4>1
      <3> QED BY <3>1, <3>2
    <2> QED BY <1>7, <2>1
  <1>9. \A i \in 1..Len(z.pending) : z.pending[i] = bytes[Len(z.out) + i]
    <2>1. ASSUME NEW i \in 1..m - part PROVE pending[i] = bytes[l + part + i]
      <3>1. part + i \in 1..m /\ l + (part + i) = l + part + i
        BY <1>4
      <3> QED BY <1>1, <1>6, <3>1
    <2> QED BY <1>5, <1>6, <1>7, <2>1
  <1>10. Got(z, c, bytes)
    <2>1. Len(z.out) <= z.n /\ Len(z.out) + Len(z.pending) = c[z.used]
      <3>1. Len(z.out) = l + part /\ Len(z.pending) = m - part /\ c[z.used] = c[d.used] /\ z.n = n
        BY <1>5, <1>6, <1>7
      <3>2. l + part <= n /\ (l + part) + (m - part) = l + m
        BY <1>4
      <3> QED BY <1>1, <3>1, <3>2
    <2> QED BY <1>5, <1>6, <1>7, <1>8, <1>9, <2>1 DEF Got
  <1>11. Underway(a, B, c, bytes, n, z)
    <2>1. /\ d.n = n /\ d.r = a.r /\ d.mode = a.mode /\ d.scanned = a.scanned
          /\ d.used \in B /\ \E k \in 0..Len(a.skips) : LeftFrom(a, d, k)
      BY DEF Underway
    <2>2. \A k : LeftFrom(a, d, k) => LeftFrom(a, z, k)
      BY <1>7 DEF LeftFrom
    <2>3. \E k \in 0..Len(a.skips) : LeftFrom(a, z, k)
      BY <2>1, <2>2
    <2> QED BY <1>7, <1>10, <2>1, <2>3 DEF Underway
  <1>12. Done(z) \/ Turn(z) >= Turn(d) + 1
    <2>1. CASE part = room
      <3>1. Len(z.out) = n
        BY <1>4, <1>5, <1>7, <2>1
      <3> QED BY <1>11, <3>1, DoneIs
    <2>2. CASE part = m
      <3>1. z.pending = <<>> /\ z.used = d.used /\ d.used \in Nat
        BY <1>1, <1>6, <1>7, <2>2, DeliveryIs
      <3>2. Turn(z) = 2 * d.used /\ Turn(d) = 2 * d.used - 1
        BY <3>1 DEF Turn
      <3> QED BY <3>1, <3>2
    <2> QED BY <1>4, <2>1, <2>2
  <1> QED BY <1>3, <1>11, <1>12

\* With nothing pending it is at a place of the way, before the end.
LEMMA BeforeEnd ==
  ASSUME NEW a, NEW u, NEW L, NEW B, NEW c, NEW e, NEW bytes, NEW n, NEW d,
         Scanned(a, u, L, B, c, e, bytes, n), Underway(a, B, c, bytes, n, d), Len(d.out) < n,
         d.pending = <<>>
  PROVE  /\ d.used \in B /\ d.used \in Nat /\ d.used < a.scanned /\ c[d.used] = Len(d.out)
         /\ e[d.used] \in B /\ d.used < e[d.used] /\ e[d.used] <= a.scanned
         /\ ~Done(d) /\ Turn(d) = 2 * d.used
  <1>1. d.out \in Seq(Payloads) /\ d.used \in B /\ Len(d.out) + Len(d.pending) = c[d.used]
    BY DEF Underway, Got
  <1>2. c[d.used] = Len(d.out)
    BY <1>1
  <1>3. /\ a.scanned \in Nat /\ a.load \in Nat /\ n \in Nat /\ n <= a.load /\ c[a.scanned] = a.load
        /\ \A b \in B : b \in Nat /\ b <= a.scanned
        /\ \A b \in B : b < a.scanned => e[b] \in B /\ b < e[b]
    BY OnPath
  <1>4. d.used # a.scanned
    BY <1>1, <1>2, <1>3
  <1>5. d.used \in Nat /\ d.used < a.scanned
    BY <1>1, <1>3, <1>4
  <1>6. e[d.used] \in B /\ d.used < e[d.used] /\ e[d.used] <= a.scanned
    BY <1>1, <1>3, <1>5
  <1>7. ~Done(d)
    <2>1. n \in Nat /\ Len(d.out) \in Nat
      BY <1>1, <1>3
    <2> QED BY <2>1, DoneIs
  <1>8. Turn(d) = 2 * d.used
    BY <1>5 DEF Turn
  <1> QED BY <1>1, <1>2, <1>5, <1>6, <1>7, <1>8

\* The skip it comes to is the first that is left.
LEMMA FirstLeft ==
  ASSUME NEW a, NEW u, NEW L, NEW B, NEW c, NEW e, NEW bytes, NEW n, NEW d,
         Scanned(a, u, L, B, c, e, bytes, n), Underway(a, B, c, bytes, n, d), d.used < a.scanned
  PROVE  d.skips # <<>> /\ d.skips[1].at = (d.r + d.used) % Size <=> Skipped(a, d.used)
  <1>1. PICK k \in 0..Len(a.skips) : LeftFrom(a, d, k)
    BY DEF Underway
  <1>2. /\ d \in Deliveries /\ d.r = a.r /\ d.used \in B
    BY DEF Underway
  <1>3. d.skips \in Seq(Skips) /\ d.used \in Nat
    BY <1>2, DeliveryIs
  <1>4. /\ a.skips \in Seq(Skips) /\ a.r \in Slots /\ a.scanned \in 0..Size - 1
        /\ \A j, i \in DOMAIN a.skips : j < i => Off(a.r, a.skips[j]) < Off(a.r, a.skips[i])
    BY OnPath DEF SideTypes
  <1>5. /\ Len(d.skips) = Len(a.skips) - k
        /\ \A j \in 1..Len(d.skips) : d.skips[j] = a.skips[k + j]
        /\ \A j \in 1..k : Off(a.r, a.skips[j]) < d.used
        /\ \A j \in k + 1..Len(a.skips) : Off(a.r, a.skips[j]) >= d.used
    BY <1>1 DEF LeftFrom
  <1>6. Size \in Nat \ {0} /\ Slots = 0..Size - 1 /\ d.used \in 0..Size - 1
    <2>1. Size \in Nat \ {0} /\ Slots = 0..Size - 1
      BY Sizes
    <2> QED BY <1>3, <1>4, <2>1
  <1>7. ASSUME NEW j \in DOMAIN a.skips
        PROVE  /\ Off(a.r, a.skips[j]) \in 0..Size - 1
               /\ a.skips[j].at = (a.r + d.used) % Size <=> Off(a.r, a.skips[j]) = d.used
    <2>1. a.skips[j] \in Skips
      BY <1>4
    <2>2. a.skips[j].at \in Slots
      BY <2>1, SkipIs
    <2> DEFINE x == a.skips[j]
               s == d.used
               r == a.r
    <2>3. r \in Slots /\ x.at \in Slots /\ s \in 0..Size - 1
      BY <1>4, <1>6, <2>2
    <2> HIDE DEF x, s, r
    <2>4. Off(r, x) \in 0..Size - 1 /\ (x.at = (r + s) % Size <=> Off(r, x) = s)
      BY <2>3, OffIs
    <2> QED BY <2>4 DEF x, s, r
  <1>8. ASSUME d.skips # <<>> PROVE d.skips[1] = a.skips[k + 1] /\ k + 1 \in DOMAIN a.skips
    <2>1. Len(d.skips) \in Nat /\ Len(d.skips) # 0 /\ Len(a.skips) \in Nat
      BY <1>3, <1>4, <1>8
    <2>2. 1 \in 1..Len(d.skips) /\ k + 1 \in 1..Len(a.skips)
      BY <1>5, <2>1
    <2> QED BY <1>4, <1>5, <2>2
  <1>9. ASSUME d.skips # <<>>, d.skips[1].at = (d.r + d.used) % Size PROVE Skipped(a, d.used)
    <2>1. Off(a.r, a.skips[k + 1]) = d.used /\ k + 1 \in DOMAIN a.skips
      BY <1>2, <1>7, <1>8, <1>9
    <2> QED BY <2>1 DEF Skipped
  <1>10. ASSUME Skipped(a, d.used) PROVE d.skips # <<>> /\ d.skips[1].at = (d.r + d.used) % Size
    <2>1. PICK j \in DOMAIN a.skips : Off(a.r, a.skips[j]) = d.used
      BY <1>10 DEF Skipped
    <2>2. j \in 1..Len(a.skips) /\ Len(a.skips) \in Nat /\ DOMAIN a.skips = 1..Len(a.skips)
      BY <1>4
    <2>3. j \notin 1..k
      BY <1>3, <1>5, <2>1
    <2>4. j \in k + 1..Len(a.skips)
      BY <2>2, <2>3
    <2>5. Len(d.skips) # 0 /\ k + 1 \in 1..Len(a.skips) /\ k + 1 \in k + 1..Len(a.skips)
      BY <1>5, <2>2, <2>4
    <2>6. d.skips # <<>>
      BY <1>3, <2>5
    <2>7. Off(a.r, a.skips[k + 1]) >= d.used /\ Off(a.r, a.skips[k + 1]) \in 0..Size - 1
      BY <1>5, <1>7, <2>2, <2>5
    <2>8. j = k + 1
      <3>1. k + 1 < j => Off(a.r, a.skips[k + 1]) < Off(a.r, a.skips[j])
        BY <1>4, <2>2, <2>5
      <3>2. ~(k + 1 < j)
        BY <1>3, <2>1, <2>7, <3>1
      <3> QED BY <2>4, <3>2
    <2>9. a.skips[j].at = (a.r + d.used) % Size
      BY <1>7, <2>1
    <2> QED BY <1>2, <1>8, <2>6, <2>8, <2>9
  <1> QED BY <1>9, <1>10

\* It goes past a skip.
LEMMA SkipTaken ==
  ASSUME NEW a, NEW u, NEW L, NEW B, NEW c, NEW e, NEW bytes, NEW n, NEW d,
         Scanned(a, u, L, B, c, e, bytes, n), Underway(a, B, c, bytes, n, d), Len(d.out) < n,
         d.pending = <<>>, Skipped(a, d.used)
  PROVE  /\ Underway(a, B, c, bytes, n, DeliverOn[d])
         /\ Done(DeliverOn[d]) \/ Turn(DeliverOn[d]) >= Turn(d) + 1
  <1> DEFINE used == d.used + d.skips[1].n
             skips == Tail(d.skips)
             z == [d EXCEPT !.used = used, !.skips = skips]
  <1>1. /\ d.used \in B /\ d.used \in Nat /\ d.used < a.scanned /\ c[d.used] = Len(d.out)
        /\ e[d.used] \in B /\ d.used < e[d.used] /\ e[d.used] <= a.scanned
        /\ ~Done(d) /\ Turn(d) = 2 * d.used
    BY BeforeEnd
  <1>2. d.skips # <<>> /\ d.skips[1].at = (d.r + d.used) % Size
    BY <1>1, FirstLeft
  <1>3. /\ d \in Deliveries /\ d.n = n /\ d.r = a.r /\ d.mode = a.mode /\ d.scanned = a.scanned
        /\ Got(d, c, bytes) /\ d.skips \in Seq(Skips)
    BY DeliveryIs DEF Underway
  <1>4. DeliverOn[d] = z
    BY <1>1, <1>2, <1>3 DEF DeliverOn
  <1>5. PICK k \in 0..Len(a.skips) : LeftFrom(a, d, k)
    BY DEF Underway
  <1>6. /\ Len(d.skips) = Len(a.skips) - k
        /\ \A j \in 1..Len(d.skips) : d.skips[j] = a.skips[k + j]
        /\ \A j \in 1..k : Off(a.r, a.skips[j]) < d.used
        /\ \A j \in k + 1..Len(a.skips) : Off(a.r, a.skips[j]) >= d.used
    BY <1>5 DEF LeftFrom
  <1>7. /\ a.skips \in Seq(Skips) /\ a.r \in Slots /\ a.scanned \in 0..Size - 1
        /\ \A j, i \in DOMAIN a.skips : j < i => Off(a.r, a.skips[j]) < Off(a.r, a.skips[i])
        /\ \A j \in DOMAIN a.skips : SkipAt(a, B, c, e, j)
        /\ \A b, x \in B : b < x => e[b] <= x /\ c[b] <= c[x]
        /\ \A b \in B : b \in Nat
    BY OnPath DEF SideTypes
  <1>8. /\ Len(d.skips) \in Nat \ {0} /\ Len(a.skips) \in Nat /\ DOMAIN a.skips = 1..Len(a.skips)
        /\ k \in Nat /\ k + 1 \in 1..Len(a.skips) /\ 1 \in 1..Len(d.skips)
    <2>1. Len(d.skips) \in Nat \ {0} /\ Len(a.skips) \in Nat /\ DOMAIN a.skips = 1..Len(a.skips)
      BY <1>2, <1>3, <1>7
    <2>2. k \in Nat /\ k + 1 \in 1..Len(a.skips) /\ 1 \in 1..Len(d.skips)
      BY <1>6, <2>1
    <2> QED BY <2>1, <2>2
  <1>9. d.skips[1] = a.skips[k + 1]
    BY <1>6, <1>8
  <1>10. ASSUME NEW j \in DOMAIN a.skips
         PROVE  /\ Off(a.r, a.skips[j]) \in B /\ e[Off(a.r, a.skips[j])] = Off(a.r, a.skips[j]) + a.skips[j].n
                /\ c[e[Off(a.r, a.skips[j])]] = c[Off(a.r, a.skips[j])] /\ Off(a.r, a.skips[j]) \in Nat
    BY <1>7 DEF SkipAt
  <1>11. Off(a.r, a.skips[k + 1]) = d.used
    <2>1. a.skips[k + 1] \in Skips
      BY <1>7, <1>8
    <2>2. a.skips[k + 1].at \in Slots
      BY <2>1, SkipIs
    <2>3. d.used \in 0..Size - 1
      BY <1>1, <1>7, Sizes
    <2> QED BY <1>2, <1>3, <1>7, <1>9, <2>2, <2>3, OffIs
  <1>12. used = e[d.used] /\ c[used] = c[d.used]
    BY <1>8, <1>9, <1>10, <1>11
  <1>13. /\ skips \in Seq(Skips) /\ Len(skips) = Len(d.skips) - 1
         /\ \A j \in 1..Len(skips) : skips[j] = d.skips[j + 1]
    <2>1. /\ Tail(d.skips) \in Seq(Skips) /\ Len(Tail(d.skips)) = Len(d.skips) - 1
          /\ \A j \in 1..Len(Tail(d.skips)) : Tail(d.skips)[j] = d.skips[j + 1]
      BY <1>2, <1>3
    <2> QED BY <2>1
  <1>14. used \in Nat /\ used \in B /\ d.used < used
    BY <1>1, <1>7, <1>12
  <1> HIDE DEF used, skips
  <1>15. /\ z \in Deliveries /\ z.n = n /\ z.r = d.r /\ z.mode = d.mode /\ z.scanned = d.scanned
         /\ z.used = used /\ z.skips = skips /\ z.out = d.out /\ z.pending = d.pending
    BY <1>3, <1>13, <1>14 DEF Deliveries
  <1> HIDE DEF z
  <1>16. Got(z, c, bytes)
    BY <1>3, <1>12, <1>15 DEF Got
  <1>17. LeftFrom(a, z, k + 1)
    <2>1. k + 1 \in 0..Len(a.skips) /\ Len(z.skips) = Len(a.skips) - (k + 1)
      BY <1>6, <1>8, <1>13, <1>15
    <2>2. ASSUME NEW j \in 1..Len(z.skips) PROVE z.skips[j] = a.skips[(k + 1) + j]
      <3>1. j \in 1..Len(skips) /\ j + 1 \in 1..Len(d.skips) /\ k + (j + 1) = (k + 1) + j
        BY <1>8, <1>13, <1>15
      <3> QED BY <1>6, <1>13, <1>15, <3>1
    <2>3. ASSUME NEW j \in 1..k + 1 PROVE Off(a.r, a.skips[j]) < z.used
      <3>1. j \in 1..k \/ j = k + 1
        BY <1>8
      <3>2. j \in DOMAIN a.skips /\ Off(a.r, a.skips[j]) \in Nat
        <4>1. j \in DOMAIN a.skips
          BY <1>8
        <4> QED BY <1>10, <4>1
      <3>3. Off(a.r, a.skips[j]) < d.used \/ Off(a.r, a.skips[j]) = d.used
        BY <1>6, <1>11, <3>1
      <3> QED BY <1>1, <1>14, <1>15, <3>2, <3>3
    <2>4. ASSUME NEW j \in (k + 1) + 1..Len(a.skips) PROVE Off(a.r, a.skips[j]) >= z.used
      <3>1. j \in DOMAIN a.skips /\ k + 1 \in DOMAIN a.skips /\ k + 1 < j
        BY <1>8
      <3>2. d.used < Off(a.r, a.skips[j]) /\ Off(a.r, a.skips[j]) \in B /\ Off(a.r, a.skips[j]) \in Nat
        BY <1>7, <1>10, <1>11, <3>1
      <3>3. e[d.used] <= Off(a.r, a.skips[j])
        BY <1>1, <1>7, <3>2
      <3> QED BY <1>12, <1>14, <1>15, <3>2, <3>3
    <2> QED BY <2>1, <2>2, <2>3, <2>4 DEF LeftFrom
  <1>18. Underway(a, B, c, bytes, n, z)
    <2>1. k + 1 \in 0..Len(a.skips)
      BY <1>8
    <2> QED BY <1>3, <1>14, <1>15, <1>16, <1>17, <2>1 DEF Underway
  <1>19. Turn(z) >= Turn(d) + 1
    <2>1. Turn(z) = 2 * used
      BY <1>14, <1>15 DEF Turn
    <2> QED BY <1>1, <1>14, <2>1
  <1> QED BY <1>4, <1>18, <1>19

\* It takes a packet, or makes it pending where there may be no room for it.
LEMMA PacketTaken ==
  ASSUME NEW a, NEW u, NEW L, NEW B, NEW c, NEW e, NEW bytes, NEW n, NEW d,
         Scanned(a, u, L, B, c, e, bytes, n), Underway(a, B, c, bytes, n, d), Len(d.out) < n,
         d.pending = <<>>, ~Skipped(a, d.used)
  PROVE  /\ Underway(a, B, c, bytes, n, DeliverOn[d])
         /\ Done(DeliverOn[d]) \/ Turn(DeliverOn[d]) >= Turn(d) + 1
  <1> DEFINE s == d.used
             l == Len(d.out)
             room == d.n - Len(d.out)
             output == Decode(d.mode, UnitAt(d, d.used + Packet - 1))
             came == [i \in 1..output |-> UnitAt(d, d.used + i - 1)]
             onward == [d EXCEPT !.used = @ + Packet]
             z == CASE output <= 0 -> onward
                    [] output > 0 /\ room >= MaxOutput -> [onward EXCEPT !.out = @ \o came]
                    [] OTHER -> [onward EXCEPT !.pending = came]
  <1>1. /\ s \in B /\ s \in Nat /\ s < a.scanned /\ c[s] = l
        /\ e[s] \in B /\ s < e[s] /\ e[s] <= a.scanned
        /\ ~Done(d) /\ Turn(d) = 2 * s
    BY BeforeEnd
  <1>2. ~(d.skips # <<>> /\ d.skips[1].at = (d.r + d.used) % Size)
    BY <1>1, FirstLeft
  <1>3. /\ d \in Deliveries /\ d.n = n /\ d.r = a.r /\ d.mode = a.mode /\ d.scanned = a.scanned
        /\ d.out \in Seq(Payloads) /\ d.out \in Seq(Units) /\ l \in Nat /\ l <= n /\ n \in Nat
        /\ \A i \in 1..l : d.out[i] = bytes[i]
    <2>1. /\ d \in Deliveries /\ d.n = n /\ d.r = a.r /\ d.mode = a.mode /\ d.scanned = a.scanned
          /\ d.out \in Seq(Payloads) /\ Len(d.out) <= d.n
          /\ \A i \in 1..l : d.out[i] = bytes[i]
      BY DEF Underway, Got
    <2> QED BY <2>1, DeliveryIs
  <1>4. /\ bytes \in Seq(Payloads) /\ Len(bytes) = a.load /\ a.load \in Nat
        /\ \A i \in 0..Size - 1 : UnitAt(a, i) = u[i]
        /\ a.scanned \in 0..Size - 1 /\ n <= a.load
        /\ \A b \in B : b < a.scanned => Skipped(a, b) \/ PacketAt(a, u, c, e, bytes, b)
        /\ \A b, x \in B : b < x => e[b] <= x
        /\ \A b \in B : b \in Nat /\ b <= a.scanned /\ c[b] \in Nat /\ c[b] <= a.load
        /\ \A j \in DOMAIN a.skips : SkipAt(a, B, c, e, j)
    BY OnPath
  <1>5. PacketAt(a, u, c, e, bytes, s)
    BY <1>1, <1>4
  <1>6. Packet \in Nat /\ Packet >= 3 /\ Size \in Nat \ {0}
    BY Sizes
  <1> DEFINE w == Decode(a.mode, u[s + Packet - 1])
  <1>7. /\ w # Refused /\ e[s] = s + Packet /\ c[s + Packet] = c[s] + w
        /\ \A i \in 1..w : bytes[c[s] + i] = u[s + i - 1]
    BY <1>5 DEF PacketAt
  <1>8. w \in 0..Packet - 1
    <2>1. w \in Int /\ w \in {-1, 0, Packet - 2, Packet - 1} /\ w # -1
      BY <1>7, DecodeIs DEF Refused
    <2> HIDE DEF w
    <2> QED BY <1>6, <2>1
  <1>9. \A i \in 0..Size - 1 : UnitAt(d, i) = u[i]
    <2>1. \A i : UnitAt(d, i) = UnitAt(a, i)
      BY <1>3 DEF UnitAt
    <2> QED BY <1>4, <2>1
  <1> HIDE DEF s, l
  <1>10. /\ s + Packet \in B /\ s + Packet \in Nat /\ s + Packet <= a.scanned
         /\ s + Packet - 1 \in 0..Size - 1
    <2>1. s + Packet \in B
      BY ONLY <1>1, <1>7
    <2> DEFINE t == s + Packet
    <2>2. t \in B
      BY <2>1
    <2>3. s \in Nat
      BY <1>1, <1>4
    <2> HIDE DEF t
    <2>4. t \in Nat /\ t <= a.scanned
      BY <1>4, <2>2
    <2> QED BY ONLY <1>4, <1>6, <2>1, <2>3, <2>4 DEF t
  <1>11. output = w
    <2>1. UnitAt(d, s + Packet - 1) = u[s + Packet - 1]
      BY <1>9, <1>10
    <2> QED BY <1>3, <2>1 DEF s
  <1>12. l + w <= a.load /\ c[s + Packet] = l + w
    BY <1>1, <1>4, <1>7, <1>10
  <1> HIDE DEF output, w
  <1>13. ASSUME NEW i \in 1..w PROVE UnitAt(d, d.used + i - 1) = bytes[l + i] /\ bytes[l + i] \in Payloads
    <2>1. s + i - 1 \in 0..Size - 1 /\ l + i \in 1..a.load
      <3>1. i \in Nat /\ i >= 1 /\ i <= w /\ w \in Nat /\ w <= Packet - 1
        BY <1>6, <1>8
      <3>2. l + i \in 1..a.load
        <4>1. l \in Nat /\ a.load \in Nat /\ l + w <= a.load
          BY <1>3, <1>4, <1>12
        <4> QED BY ONLY <3>1, <4>1
      <3>3. s + i - 1 \in 0..Size - 1
        <4>1. s \in Nat /\ s + Packet - 1 \in 0..Size - 1
          BY <1>1, <1>10
        <4> QED BY ONLY <1>6, <3>1, <4>1
      <3> QED BY <3>2, <3>3
    <2>2. UnitAt(d, s + i - 1) = u[s + i - 1]
      BY <1>9, <2>1
    <2>3. bytes[l + i] = u[s + i - 1]
      BY <1>1, <1>7
    <2>4. bytes[l + i] \in Payloads
      BY <1>4, <2>1
    <2> QED BY <2>2, <2>3, <2>4 DEF s
  <1>14. came \in Seq(Payloads) /\ Len(came) = w /\ \A i \in 1..w : came[i] = bytes[l + i]
    <2>1. \A i \in 1..w : came[i] = bytes[l + i] /\ came[i] \in Payloads
      BY <1>11, <1>13
    <2>2. came = [i \in 1..w |-> came[i]]
      BY <1>11
    <2> HIDE DEF came
    <2>3. came \in [1..w -> Payloads] /\ w \in Nat
      BY <1>8, <2>1, <2>2
    <2> QED BY <2>1, <2>3
  <1> HIDE DEF came
  <1>15. DeliverOn[d] = z
    <2>1. ~(d.used + Packet > d.scanned)
      <3>1. s + Packet <= d.scanned /\ d.scanned \in Nat
        BY <1>3, <1>4, <1>10
      <3> QED BY <1>10, <3>1 DEF s
    <2> QED BY <1>1, <1>2, <1>3, <2>1 DEF DeliverOn, output, came
  <1>16. \E out \in Seq(Payloads), pending \in Seq(Payloads) :
           /\ z = [d EXCEPT !.used = s + Packet, !.out = out, !.pending = pending]
           /\ Len(out) <= n /\ Len(out) + Len(pending) = l + w
           /\ \A i \in 1..Len(out) : out[i] = bytes[i]
           /\ \A i \in 1..Len(pending) : pending[i] = bytes[Len(out) + i]
    <2> DEFINE at(out, pending) == [d EXCEPT !.used = s + Packet, !.out = out, !.pending = pending]
    <2>1. <<>> \in Seq(Payloads) /\ Len(<<>>) = 0 /\ onward = at(d.out, <<>>)
      <3>1. <<>> \in Seq(Payloads) /\ Len(<<>>) = 0
        OBVIOUS
      <3>2. d.pending = <<>> /\ d \in Deliveries
        BY <1>3
      <3>3. onward = [d EXCEPT !.used = s + Packet, !.out = d.out, !.pending = d.pending]
        BY <3>2 DEF Deliveries, s
      <3> QED BY <3>1, <3>2, <3>3, Zenon
    <2>2. CASE w = 0
      <3>1. z = onward /\ output <= 0
        BY <1>11, <2>2
      <3>2. \A i \in 1..Len(<<>>) : <<>>[i] = bytes[Len(d.out) + i]
        BY <2>1
      <3> HIDE DEF z, onward
      <3> QED BY <1>3, <2>1, <2>2, <3>1, <3>2 DEF l
    <2>3. CASE w # 0 /\ room >= MaxOutput
      <3>1. ~(output <= 0) /\ output > 0
        BY <1>8, <1>11, <2>3
      <3>2. z = [onward EXCEPT !.out = @ \o came]
        BY <2>3, <3>1
      <3> HIDE DEF z
      <3>3. /\ d.out \o came \in Seq(Payloads) /\ Len(d.out \o came) = l + w
            /\ \A i \in 1..l : (d.out \o came)[i] = d.out[i]
            /\ \A i \in 1..w : (d.out \o came)[l + i] = came[i]
        <4>1. d.out \in Seq(Payloads) /\ came \in Seq(Payloads)
          BY <1>3, <1>14
        <4>2. /\ d.out \o came \in Seq(Payloads) /\ Len(d.out \o came) = Len(d.out) + Len(came)
              /\ \A i \in 1..Len(d.out) : (d.out \o came)[i] = d.out[i]
              /\ \A i \in 1..Len(came) : (d.out \o came)[Len(d.out) + i] = came[i]
          BY ONLY <4>1
        <4> QED BY <1>14, <4>2 DEF l
      <3> DEFINE out == d.out \o came
      <3>4. z = at(out, <<>>)
        <4>1. onward \in Deliveries /\ onward.out = d.out
          BY <1>3, <1>10 DEF Deliveries, s
        <4>2. z = [onward EXCEPT !.out = out]
          BY <3>2, <4>1
        <4> HIDE DEF out
        <4>3. [onward EXCEPT !.out = out] = at(out, <<>>)
          BY <1>3, <1>10 DEF Deliveries, s
        <4> QED BY <4>2, <4>3
      <3> HIDE DEF out
      <3>5. l + w <= n
        BY <1>3, <1>6, <1>8, <2>3 DEF l, MaxOutput
      <3>6. ASSUME NEW i \in 1..Len(out) PROVE out[i] = bytes[i]
        <4>1. Len(out) = l + w
          BY <3>3 DEF out
        <4>2. CASE i \in 1..l
          BY <1>3, <3>3, <4>2 DEF out
        <4>3. CASE i \notin 1..l
          <5>1. i - l \in 1..w /\ l + (i - l) = i
            BY <1>3, <1>8, <4>1, <4>3
          <5>2. out[l + (i - l)] = came[i - l]
            BY <3>3, <5>1 DEF out
          <5>3. came[i - l] = bytes[l + (i - l)]
            BY <1>14, <5>1
          <5> QED BY <5>1, <5>2, <5>3
        <4> QED BY <4>2, <4>3
      <3>7. out \in Seq(Payloads) /\ Len(out) = l + w
        BY <3>3 DEF out
      <3>8. \A i \in 1..Len(<<>>) : <<>>[i] = bytes[Len(out) + i]
        BY <2>1
      <3>9. Len(out) <= n /\ Len(out) + Len(<<>>) = l + w
        BY <1>3, <1>8, <2>1, <3>5, <3>7
      <3> QED BY <2>1, <3>4, <3>6, <3>7, <3>8, <3>9
    <2>4. CASE w # 0 /\ ~(room >= MaxOutput)
      <3>1. ~(output <= 0) /\ output > 0
        BY <1>8, <1>11, <2>4
      <3>2. z = [onward EXCEPT !.pending = came]
        BY <2>4, <3>1
      <3> HIDE DEF z
      <3>3. z = at(d.out, came)
        BY <1>3, <1>10, <3>2 DEF Deliveries, s
      <3>4. \A i \in 1..Len(came) : came[i] = bytes[Len(d.out) + i]
        BY <1>14 DEF l
      <3> QED BY <1>3, <1>14, <3>3, <3>4 DEF l
    <2> QED BY <2>2, <2>3, <2>4
  <1> HIDE DEF z
  <1>17. PICK out \in Seq(Payloads), pending \in Seq(Payloads) :
           /\ z = [d EXCEPT !.used = s + Packet, !.out = out, !.pending = pending]
           /\ Len(out) <= n /\ Len(out) + Len(pending) = l + w
           /\ \A i \in 1..Len(out) : out[i] = bytes[i]
           /\ \A i \in 1..Len(pending) : pending[i] = bytes[Len(out) + i]
    BY <1>16
  <1>18. /\ z \in Deliveries /\ z.n = n /\ z.r = d.r /\ z.mode = d.mode /\ z.scanned = d.scanned
         /\ z.used = s + Packet /\ z.skips = d.skips /\ z.out = out /\ z.pending = pending
    <2>1. out \in Seq(Units) /\ pending \in Seq(Units)
      BY PayloadIs
    <2> QED BY <1>3, <1>10, <1>17, <2>1 DEF Deliveries
  <1>19. Got(z, c, bytes)
    BY <1>12, <1>17, <1>18 DEF Got
  <1>20. PICK k \in 0..Len(a.skips) : LeftFrom(a, d, k)
    BY DEF Underway
  <1>21. LeftFrom(a, z, k)
    <2>1. /\ k \in 0..Len(a.skips) /\ Len(d.skips) = Len(a.skips) - k
          /\ \A j \in 1..Len(d.skips) : d.skips[j] = a.skips[k + j]
          /\ \A j \in 1..k : Off(a.r, a.skips[j]) < s
          /\ \A j \in k + 1..Len(a.skips) : Off(a.r, a.skips[j]) >= s
      BY <1>20 DEF LeftFrom, s
    <2>2. a.skips \in Seq(Skips)
      BY OnPath DEF SideTypes
    <2>3. Len(a.skips) \in Nat /\ DOMAIN a.skips = 1..Len(a.skips)
      BY <2>2
    <2>4. ASSUME NEW j \in DOMAIN a.skips PROVE Off(a.r, a.skips[j]) \in B /\ Off(a.r, a.skips[j]) \in Nat
      BY <1>4 DEF SkipAt
    <2>5. ASSUME NEW j \in 1..k PROVE Off(a.r, a.skips[j]) < s + Packet
      <3>1. j \in DOMAIN a.skips
        BY <2>1, <2>3
      <3>2. Off(a.r, a.skips[j]) \in Nat /\ Off(a.r, a.skips[j]) < s
        BY <2>1, <2>4, <3>1
      <3> QED BY <1>1, <1>6, <3>2
    <2>6. ASSUME NEW j \in k + 1..Len(a.skips) PROVE Off(a.r, a.skips[j]) >= s + Packet
      <3>1. j \in DOMAIN a.skips
        BY <2>1, <2>3
      <3>2. Off(a.r, a.skips[j]) \in B /\ Off(a.r, a.skips[j]) \in Nat /\ Off(a.r, a.skips[j]) >= s
        BY <2>1, <2>4, <3>1
      <3>3. Off(a.r, a.skips[j]) # s
        BY <3>1 DEF Skipped, s
      <3>4. s < Off(a.r, a.skips[j])
        BY <1>1, <3>2, <3>3
      <3>5. e[s] <= Off(a.r, a.skips[j])
        BY <1>1, <1>4, <3>2, <3>4
      <3> QED BY <1>7, <1>10, <3>2, <3>5
    <2> QED BY <1>18, <2>1, <2>5, <2>6 DEF LeftFrom
  <1>22. Underway(a, B, c, bytes, n, z)
    BY <1>3, <1>10, <1>18, <1>19, <1>21 DEF Underway
  <1>23. Turn(z) >= Turn(d) + 1
    <2>1. Turn(z) >= 2 * (s + Packet) - 1
      BY <1>10, <1>18 DEF Turn
    <2>2. Turn(z) \in Int
      BY <1>10, <1>18 DEF Turn
    <2> QED BY <1>1, <1>6, <2>1, <2>2
  <1> QED BY <1>15, <1>22, <1>23

LEMMA DeliverOnKeeps ==
  ASSUME NEW a, NEW u, NEW L, NEW B, NEW c, NEW e, NEW bytes, NEW n, NEW d,
         Scanned(a, u, L, B, c, e, bytes, n), Underway(a, B, c, bytes, n, d)
  PROVE  /\ Underway(a, B, c, bytes, n, DeliverOn[d])
         /\ Done(DeliverOn[d]) \/ (~Done(d) /\ Turn(DeliverOn[d]) >= Turn(d) + 1)
  <1>1. /\ d \in Deliveries /\ d.n = n /\ d.out \in Seq(Payloads) /\ Len(d.out) <= n
    BY DEF Underway, Got
  <1>2. n \in Nat /\ Len(d.out) \in Nat /\ bytes \in Seq(Payloads)
    BY <1>1, OnPath
  <1>3. Done(d) <=> Len(d.out) = n
    BY DoneIs
  <1>4. CASE Done(d)
    <2>1. DeliverOn[d] = d
      BY <1>1, <1>4 DEF DeliverOn
    <2> QED BY <1>4, <2>1
  <1>5. CASE ~Done(d)
    <2>1. Len(d.out) < n
      BY <1>1, <1>2, <1>3, <1>5
    <2>2. CASE d.pending # <<>>
      BY <1>2, <1>5, <2>1, <2>2, PendingTaken
    <2>3. CASE d.pending = <<>> /\ Skipped(a, d.used)
      BY <1>5, <2>1, <2>3, SkipTaken
    <2>4. CASE d.pending = <<>> /\ ~Skipped(a, d.used)
      BY <1>5, <2>1, <2>4, PacketTaken
    <2> QED BY <2>2, <2>3, <2>4
  <1> QED BY <1>4, <1>5

Beginning(a, n) ==
  [n |-> n, out |-> <<>>, used |-> 0, scanned |-> a.scanned, r |-> a.r, mode |-> a.mode,
   skips |-> a.skips, pending |-> a.pending]

LEMMA BeginningIs ==
  ASSUME NEW a, NEW u, NEW L, NEW B, NEW c, NEW e, NEW bytes, NEW n, Scanned(a, u, L, B, c, e, bytes, n)
  PROVE  Underway(a, B, c, bytes, n, Beginning(a, n)) /\ Turn(Beginning(a, n)) >= -1
  <1> DEFINE d == Beginning(a, n)
  <1>1. SideTypes(a) /\ a.scanned \in Nat /\ n \in Nat /\ a.skips \in Seq(Skips)
    BY OnPath DEF SideTypes
  <1>2. /\ a.pending \in Seq(Payloads) /\ a.pending \in Seq(Units) /\ 0 \in B /\ c[0] = Len(a.pending)
        /\ \A i \in 1..Len(a.pending) : bytes[i] = a.pending[i]
    BY PayloadIs DEF Scanned, Content, Path
  <1>3. /\ d.n = n /\ d.r = a.r /\ d.mode = a.mode /\ d.scanned = a.scanned /\ d.used = 0
        /\ d.out = <<>> /\ d.skips = a.skips /\ d.pending = a.pending
    BY DEF Beginning
  <1>4. d \in Deliveries
    BY <1>1, <1>2 DEF Beginning, Deliveries, SideTypes
  <1> HIDE DEF d
  <1>5. <<>> \in Seq(Payloads) /\ Len(<<>>) = 0 /\ Len(a.pending) \in Nat
    BY <1>2
  <1>6. Got(d, c, bytes)
    <2>1. Len(d.out) <= d.n /\ Len(d.out) + Len(d.pending) = c[d.used]
      BY <1>1, <1>2, <1>3, <1>5
    <2>2. \A i \in 1..Len(d.out) : d.out[i] = bytes[i]
      BY <1>3, <1>5
    <2>3. \A i \in 1..Len(d.pending) : d.pending[i] = bytes[Len(d.out) + i]
      BY <1>2, <1>3, <1>5
    <2> QED BY <1>2, <1>3, <1>5, <2>1, <2>2, <2>3 DEF Got
  <1>7. LeftFrom(a, d, 0) /\ 0 \in 0..Len(a.skips)
    <2>1. Len(a.skips) \in Nat /\ DOMAIN a.skips = 1..Len(a.skips)
      BY <1>1
    <2>2. ASSUME NEW j \in DOMAIN a.skips PROVE Off(a.r, a.skips[j]) >= 0
      <3>1. SkipAt(a, B, c, e, j)
        BY OnPath
      <3>2. Off(a.r, a.skips[j]) \in B
        BY <3>1 DEF SkipAt
      <3>3. Off(a.r, a.skips[j]) \in Nat
        BY <3>2, OnPath
      <3> QED BY <3>3
    <2> QED BY <1>3, <2>1, <2>2 DEF LeftFrom
  <1>8. Underway(a, B, c, bytes, n, d)
    BY <1>2, <1>3, <1>4, <1>6, <1>7 DEF Underway
  <1>9. Turn(d) >= -1
    BY <1>3 DEF Turn
  <1> QED BY <1>8, <1>9 DEF d

\* Not done, it has places to go to.
LEMMA TurnEnds ==
  ASSUME NEW a, NEW u, NEW L, NEW B, NEW c, NEW e, NEW bytes, NEW n, NEW d,
         Scanned(a, u, L, B, c, e, bytes, n), Underway(a, B, c, bytes, n, d), ~Done(d)
  PROVE  Turn(d) \in Int /\ Turn(d) < 2 * a.scanned
  <1>1. /\ d \in Deliveries /\ d.n = n /\ d.out \in Seq(Payloads) /\ Len(d.out) <= n /\ d.used \in B
    BY DEF Underway, Got
  <1>2. n \in Nat /\ Len(d.out) \in Nat /\ a.scanned \in Nat /\ d.used \in Nat /\ d.used <= a.scanned
    BY <1>1, OnPath
  <1>3. Len(d.out) < n
    BY <1>1, <1>2, DoneIs
  <1>4. CASE d.pending = <<>>
    <2>1. d.used < a.scanned /\ Turn(d) = 2 * d.used
      BY <1>3, <1>4, BeforeEnd
    <2> QED BY <1>2, <2>1
  <1>5. CASE d.pending # <<>>
    <2>1. Turn(d) = 2 * d.used - 1
      BY <1>5 DEF Turn
    <2> QED BY <1>2, <2>1
  <1> QED BY <1>4, <1>5

\* All rounds of a delivery.
LEMMA DeliveryEnds ==
  ASSUME NEW a, NEW u, NEW L, NEW B, NEW c, NEW e, NEW bytes, NEW n, Scanned(a, u, L, B, c, e, bytes, n)
  PROVE  Underway(a, B, c, bytes, n, Delivery(a, n)) /\ Done(Delivery(a, n))
  <1> DEFINE P == {d \in Deliveries : Underway(a, B, c, bytes, n, d)}
             d0 == Beginning(a, n)
             N == 2 * a.scanned + 1
             Rec(f) == f = [k \in 0..N |-> IF k = 0 THEN d0 ELSE DeliverOn[f[k - 1]]]
             after == CHOOSE f : Rec(f)
             step == [k \in 1..N |-> [d \in P |-> DeliverOn[d]]]
  <1>1. a.scanned \in Nat /\ N \in Nat
    BY OnPath
  <1>2. d0 \in P /\ Turn(d0) >= -1
    BY BeginningIs DEF Underway
  <1>3. ASSUME NEW d \in P PROVE DeliverOn[d] \in P
    <2>1. Underway(a, B, c, bytes, n, DeliverOn[d])
      BY DeliverOnKeeps
    <2>2. DeliverOn[d] \in Deliveries
      BY <2>1 DEF Underway
    <2> QED BY <2>1, <2>2
  <1>4. Delivery(a, n) = after[N]
    BY DEF Delivery, Deliver, Beginning
  <1>5. \A d \in P : Underway(a, B, c, bytes, n, d)
    OBVIOUS
  <1> HIDE DEF P, d0
  <1>6. step \in [1..N -> [P -> P]]
    <2>1. [d \in P |-> DeliverOn[d]] \in [P -> P]
      BY <1>3
    <2> QED BY <2>1
  <1>7. PICK f : Steps(f, P, d0, step, N)
    <2> HIDE DEF step, N
    <2> QED BY <1>1, <1>2, <1>6, StepsExist
  <1>8. f \in [0..N -> P] /\ f[0] = d0
    BY <1>7 DEF Steps
  <1>9. ASSUME NEW k \in 1..N PROVE f[k] = DeliverOn[f[k - 1]]
    <2>1. f[k - 1] \in P
      BY <1>1, <1>8
    <2>2. f[k] = step[k][f[k - 1]]
      BY <1>7 DEF Steps
    <2> QED BY <2>1, <2>2
  <1>10. Rec(f)
    <2>1. ASSUME NEW k \in 0..N PROVE f[k] = IF k = 0 THEN d0 ELSE DeliverOn[f[k - 1]]
      <3>1. k = 0 \/ (k \in 1..N /\ k # 0)
        BY <1>1
      <3> QED BY <1>8, <1>9, <3>1
    <2>2. f = [k \in 0..N |-> f[k]]
      BY SMTT(30), <1>8
    <2> HIDE DEF step, N
    <2> QED BY <2>1, <2>2, Zenon
  <1>11. Rec(after)
    BY <1>10
  <1> HIDE DEF after, step, N
  <1>12. ASSUME NEW k \in 0..N PROVE after[k] = IF k = 0 THEN d0 ELSE DeliverOn[after[k - 1]]
    BY <1>11
  <1> HIDE DEF Rec
  <1> DEFINE U == {k \in 0..N : after[k] \in P /\ (Done(after[k]) \/ Turn(after[k]) >= k - 1)}
  <1>13. 0 \in U
    BY <1>1, <1>2, <1>12
  <1>14. ASSUME NEW k \in 0..N - 1, k \in U PROVE k + 1 \in U
    <2> DEFINE d == after[k]
    <2>1. k + 1 \in 0..N /\ k + 1 # 0 /\ (k + 1) - 1 = k
      BY <1>1
    <2>2. after[k + 1] = DeliverOn[d]
      BY <1>12, <2>1
    <2>3. d \in P /\ (Done(d) \/ Turn(d) >= k - 1)
      BY <1>14
    <2> HIDE DEF d
    <2>4. /\ DeliverOn[d] \in P
          /\ Done(DeliverOn[d]) \/ (~Done(d) /\ Turn(DeliverOn[d]) >= Turn(d) + 1)
      BY <1>3, <1>5, <2>3, DeliverOnKeeps
    <2>5. CASE ~Done(DeliverOn[d])
      <3>1. ~Done(d) /\ Turn(DeliverOn[d]) >= Turn(d) + 1 /\ Turn(d) >= k - 1
        BY <2>3, <2>4, <2>5
      <3>2. Turn(d) \in Int /\ Turn(DeliverOn[d]) \in Int
        BY <1>5, <2>3, <2>4, <2>5, <3>1, TurnEnds
      <3>3. Turn(DeliverOn[d]) >= (k + 1) - 1
        <4>1. k \in Int
          BY <1>1
        <4> DEFINE y == Turn(d)
                   z == Turn(DeliverOn[d])
        <4>2. y \in Int /\ z \in Int /\ z >= y + 1 /\ y >= k - 1
          BY <3>1, <3>2
        <4> HIDE DEF y, z
        <4>3. z >= (k + 1) - 1
          BY <4>1, <4>2
        <4> QED BY <4>3 DEF z
      <3> QED BY <2>1, <2>2, <2>4, <3>3
    <2>6. CASE Done(DeliverOn[d])
      BY <2>1, <2>2, <2>4, <2>6
    <2> QED BY <2>5, <2>6
  <1>15. N \in U
    <2>1. N \in 0..N
      BY <1>1
    <2> HIDE DEF U
    <2>2. 0..N \subseteq U
      BY <1>1, <1>13, <1>14, UpTo
    <2> QED BY <2>1, <2>2
  <1> DEFINE r == after[N]
  <1>16. r \in P /\ (Done(r) \/ Turn(r) >= N - 1)
    BY <1>15
  <1> HIDE DEF r
  <1>17. Done(r)
    <2> SUFFICES ASSUME ~Done(r) PROVE FALSE
      OBVIOUS
    <2>1. Turn(r) \in Int /\ Turn(r) < 2 * a.scanned /\ Turn(r) >= N - 1
      BY <1>5, <1>16, TurnEnds
    <2> QED BY <1>1, <2>1 DEF N
  <1> QED BY <1>4, <1>5, <1>16, <1>17 DEF r

\* What it has got is the oldest that was counted.
LEMMA DeliveryGets ==
  ASSUME NEW a, NEW B, NEW c, NEW bytes, NEW n, NEW d, Underway(a, B, c, bytes, n, d), Done(d),
         bytes \in Seq(Payloads), n \in 0..Len(bytes)
  PROVE  Len(d.out) = n /\ d.out = SubSeq(bytes, 1, n)
  <1>1. /\ d.out \in Seq(Payloads) /\ \A i \in 1..Len(d.out) : d.out[i] = bytes[i]
    BY DEF Underway, Got
  <1>2. Len(d.out) = n
    BY DoneIs
  <1> DEFINE t == SubSeq(bytes, 1, n)
             out == d.out
  <1>3. t \in Seq(Payloads) /\ Len(t) = n /\ \A i \in 1..n : t[i] = bytes[i]
    OBVIOUS
  <1>4. out \in Seq(Payloads) /\ Len(out) = n /\ \A i \in 1..n : out[i] = bytes[i]
    BY <1>1, <1>2
  <1> HIDE DEF t, out
  <1>5. out = t
    <2>1. DOMAIN out = 1..n /\ DOMAIN t = 1..n
      BY <1>3, <1>4
    <2>2. \A i \in 1..n : out[i] = t[i]
      BY <1>3, <1>4
    <2>3. out = [i \in DOMAIN out |-> out[i]] /\ t = [i \in DOMAIN t |-> t[i]]
      BY <1>3, <1>4
    <2> QED BY <2>1, <2>2, <2>3, Zenon
  <1> QED BY <1>2, <1>5 DEF out, t

LEMMA AfterDeliveryIs ==
  ASSUME NEW a \in Sides, NEW d \in Deliveries, d.used <= a.scanned, d.n <= a.load
  PROVE  LET z == AfterDelivery(a, d) IN
         /\ z \in Sides /\ z.scanned = a.scanned - d.used /\ z.load = a.load - d.n
         /\ z.r = (a.r + d.used) % Size /\ z.skips = d.skips /\ z.pending = d.pending
         /\ z.control = a.control /\ z.mode = a.mode /\ z.oos = a.oos /\ z.missed = a.missed
  <1> DEFINE load == a.load - d.n
             scanned == a.scanned - d.used
             r == (a.r + d.used) % Size
             w == [a EXCEPT !.load = load, !.skips = d.skips, !.pending = d.pending]
             z == [w EXCEPT !.scanned = scanned, !.r = r]
  <1>1. /\ SideTypes(a) /\ d.n \in Nat /\ d.used \in Nat /\ d.skips \in Seq(Skips) /\ d.pending \in Seq(Units)
        /\ Size \in Nat \ {0} /\ Slots = 0..Size - 1 /\ FifoSize \in Nat
    BY SideIs, DeliveryIs, Sizes
  <1>2. load \in 0..FifoSize /\ scanned \in 0..Size
    <2>1. a.load \in 0..FifoSize /\ a.scanned \in 0..Size
      BY <1>1 DEF SideTypes
    <2>2. d.n <= a.load /\ d.used <= a.scanned
      OBVIOUS
    <2> QED BY SMTT(30), <1>1, <2>1, <2>2
  <1>3. r \in Slots
    <2>1. a.r \in Nat
      BY <1>1 DEF SideTypes
    <2> QED BY <1>1, <2>1
  <1>4. AfterDelivery(a, d) = z
    <2>1. w.scanned = a.scanned /\ w.r = a.r
      BY <1>1, <1>2 DEF Sides
    <2>2. AfterDelivery(a, d) = [w EXCEPT !.scanned = @ - d.used, !.r = (@ + d.used) % Size]
      BY DEF AfterDelivery, AdvanceReadOffset
    <2> HIDE DEF w
    <2> QED BY <2>1, <2>2, Zenon
  <1> HIDE DEF load, scanned, r
  <1>5. w \in Sides /\ w.load = load /\ w.skips = d.skips /\ w.pending = d.pending
        /\ w.control = a.control /\ w.mode = a.mode /\ w.oos = a.oos /\ w.missed = a.missed
    <2>1. w \in Sides
      BY <1>1, <1>2 DEF Sides
    <2> QED BY <2>1 DEF Sides
  <1> HIDE DEF w
  <1>6. z \in Sides /\ z.scanned = scanned /\ z.r = r /\ z.load = w.load /\ z.skips = w.skips
        /\ z.pending = w.pending /\ z.control = w.control /\ z.mode = w.mode /\ z.oos = w.oos
        /\ z.missed = w.missed
    <2>1. z \in Sides
      BY <1>2, <1>3, <1>5 DEF Sides
    <2> QED BY <1>5, <2>1 DEF Sides
  <1> HIDE DEF z
  <1> QED BY <1>4, <1>5, <1>6 DEF load, scanned, r

\* What is left goes on from where the delivery has come to.
LEMMA RestContent ==
  ASSUME NEW a, NEW u, NEW L, NEW B, NEW c, NEW e, NEW bytes, NEW n, NEW d,
         Scanned(a, u, L, B, c, e, bytes, n), Underway(a, B, c, bytes, n, d), Len(d.out) = n,
         NEW v, NEW M, Shifted(u, v, L, M, d.used)
  PROVE  Content(AfterDelivery(a, d), v, SubSeq(bytes, n + 1, a.load))
  <1> DEFINE z == AfterDelivery(a, d)
             f == d.used
             rest == SubSeq(bytes, n + 1, a.load)
             B2 == {b \in 0..a.scanned - f : b + f \in B}
             c2 == [b \in B2 |-> c[b + f] - n]
             e2 == [b \in B2 |-> IF b + f < a.scanned THEN e[b + f] - f ELSE 0]
  <1>1. /\ d \in Deliveries /\ d.n = n /\ f \in B /\ d.pending \in Seq(Payloads)
        /\ n + Len(d.pending) = c[f]
        /\ \A i \in 1..Len(d.pending) : d.pending[i] = bytes[n + i]
    BY DEF Underway, Got
  <1>2. a \in Sides /\ 0 \in B
    BY DEF Scanned, Content, Path
  <1>3. /\ SideTypes(a) /\ a.scanned \in 0..Size - 1 /\ a.load \in Nat /\ L \in 0..Size - 1
        /\ \A b \in B : b \in Nat /\ b <= a.scanned /\ c[b] \in Nat /\ c[b] <= a.load
        /\ e \in [B -> Nat]
        /\ \A b \in B : b < a.scanned => e[b] \in B /\ b < e[b]
        /\ \A b, x \in B : b < x => e[b] <= x /\ c[b] <= c[x]
        /\ \A j \in DOMAIN a.skips : SkipAt(a, B, c, e, j)
        /\ \A j, k \in DOMAIN a.skips : j < k => Off(a.r, a.skips[j]) < Off(a.r, a.skips[k])
        /\ \A b \in B : b < a.scanned => Skipped(a, b) \/ PacketAt(a, u, c, e, bytes, b)
        /\ bytes \in Seq(Payloads) /\ Len(bytes) = a.load /\ c[a.scanned] = a.load /\ a.scanned \in B
        /\ n \in Nat /\ n <= a.load
    BY OnPath
  <1>4. f \in Nat /\ f <= a.scanned
    BY <1>1, <1>3
  <1>5. /\ z \in Sides /\ z.scanned = a.scanned - f /\ z.load = a.load - n
        /\ z.r = (a.r + f) % Size /\ z.skips = d.skips /\ z.pending = d.pending /\ z.mode = a.mode
    BY <1>1, <1>2, <1>3, <1>4, AfterDeliveryIs
  <1> HIDE DEF z
  <1>6. /\ rest \in Seq(Payloads) /\ Len(rest) = a.load - n
        /\ \A i \in 1..a.load - n : rest[i] = bytes[n + i]
    BY SMTT(30), <1>3
  <1> HIDE DEF rest, f
  <1>7. a.scanned \in Nat /\ Size \in Nat \ {0} /\ a.r \in Slots /\ Slots = 0..Size - 1 /\ Packet \in Nat
        /\ Packet >= 3
    BY <1>3, Sizes DEF SideTypes
  <1>8. ASSUME NEW x, x.at \in Slots, Off(a.r, x) >= f PROVE Off(z.r, x) = Off(a.r, x) - f
    <2> DEFINE o == x.at
               r == a.r
    <2>1. o \in 0..Size - 1 /\ r \in 0..Size - 1
      BY <1>7, <1>8
    <2>2. Off(a.r, x) = Ahead(Size, r, o) /\ Off(z.r, x) = Ahead(Size, z.r, o)
      BY DEF Off
    <2>3. f \in 0..Size - 1 /\ f \in 0..Size
      BY <1>3, <1>4, <1>7
    <2>4. z.r = (r + f) % Size
      BY <1>5
    <2> HIDE DEF o, r
    <2>5. z.r = Place(Size, r, f)
      BY <1>7, <2>1, <2>3, <2>4, PlaceAt DEF Place
    <2>6. Ahead(Size, r, o) \in 0..Size - 1
      BY <1>7, <2>1, PlaceAhead
    <2>7. f \in 0..Ahead(Size, r, o)
      BY <1>4, <1>8, <2>2, <2>6
    <2>8. Ahead(Size, Place(Size, r, f), o) = Ahead(Size, r, o) - f
      BY <1>7, <2>1, <2>7, AheadLess
    <2> QED BY <2>2, <2>5, <2>8
  <1>9. PICK k \in 0..Len(a.skips) : LeftFrom(a, d, k)
    BY DEF Underway
  <1>10. /\ Len(d.skips) = Len(a.skips) - k
         /\ \A j \in 1..Len(d.skips) : d.skips[j] = a.skips[k + j]
         /\ \A j \in 1..k : Off(a.r, a.skips[j]) < f
         /\ \A j \in k + 1..Len(a.skips) : Off(a.r, a.skips[j]) >= f
    BY <1>9 DEF LeftFrom, f
  <1>11. /\ a.skips \in Seq(Skips) /\ Len(a.skips) \in Nat /\ DOMAIN a.skips = 1..Len(a.skips) /\ k \in Nat
         /\ d.skips \in Seq(Skips) /\ DOMAIN d.skips = 1..Len(a.skips) - k
    <2>1. a.skips \in Seq(Skips) /\ d.skips \in Seq(Skips)
      BY <1>1, <1>3, DeliveryIs DEF SideTypes
    <2> QED BY <1>10, <2>1
  <1>12. ASSUME NEW j \in DOMAIN d.skips
         PROVE  /\ k + j \in DOMAIN a.skips /\ d.skips[j] = a.skips[k + j] /\ d.skips[j].n \in Nat
                /\ Off(z.r, d.skips[j]) = Off(a.r, a.skips[k + j]) - f
                /\ Off(a.r, a.skips[k + j]) >= f
    <2>1. k + j \in DOMAIN a.skips /\ k + j \in k + 1..Len(a.skips) /\ j \in 1..Len(d.skips)
      BY <1>10, <1>11
    <2>2. d.skips[j] = a.skips[k + j] /\ Off(a.r, a.skips[k + j]) >= f
      BY <1>10, <2>1
    <2>3. a.skips[k + j] \in Skips
      BY <1>11, <2>1
    <2>4. a.skips[k + j].at \in Slots /\ a.skips[k + j].n \in Nat
      BY <2>3, SkipIs
    <2>5. Off(z.r, a.skips[k + j]) = Off(a.r, a.skips[k + j]) - f
      BY <1>8, <2>2, <2>4
    <2> QED BY <2>1, <2>2, <2>4, <2>5
  <1>13. ASSUME NEW b \in B, b >= f PROVE b - f \in B2 /\ (b - f) + f = b
    <2>1. b \in Nat /\ b <= a.scanned
      BY <1>3
    <2>2. b - f \in 0..a.scanned - f /\ (b - f) + f = b
      BY <1>4, <1>7, <1>13, <2>1
    <2> QED BY <2>2
  <1>14. ASSUME NEW b \in B2
         PROVE  /\ b \in Nat /\ b + f \in B /\ b + f >= f /\ b <= a.scanned - f
                /\ c[b + f] \in Nat /\ n <= c[b + f] /\ c[b + f] <= a.load
                /\ c2[b] = c[b + f] - n /\ (b < a.scanned - f <=> b + f < a.scanned)
    <2>1. b \in 0..a.scanned - f /\ b + f \in B
      OBVIOUS
    <2>2. b \in Nat /\ b <= a.scanned - f
      BY <1>4, <1>7, <2>1
    <2>3. c[b + f] \in Nat /\ c[b + f] <= a.load
      BY <1>3, <2>1
    <2>4. n <= c[f]
      <3>1. Len(d.pending) \in Nat
        BY <1>1
      <3> QED BY SMTT(30), <1>1, <1>3, <3>1
    <2>5. c[f] <= c[b + f]
      <3>1. CASE b = 0
        <4>1. b + f = f
          BY <1>4, <3>1
        <4> QED BY <1>1, <1>3, <4>1
      <3>2. CASE b # 0
        <4>1. f < b + f
          BY <1>4, <2>2, <3>2
        <4> QED BY <1>1, <1>3, <2>1, <4>1
      <3> QED BY <3>1, <3>2
    <2>6. n <= c[b + f]
      <3>1. c[f] \in Nat
        BY <1>1, <1>3
      <3> QED BY <1>3, <2>3, <2>4, <2>5, <3>1
    <2>7. b < a.scanned - f <=> b + f < a.scanned
      BY <1>4, <1>7, <2>2
    <2>8. b + f >= f
      BY <1>4, <2>2
    <2> HIDE DEF B2
    <2>9. c2[b] = c[b + f] - n
      OBVIOUS
    <2> QED BY <2>1, <2>2, <2>3, <2>6, <2>7, <2>8, <2>9
  <1>15. ASSUME NEW b \in B2, b < a.scanned - f
         PROVE  /\ e2[b] = e[b + f] - f /\ e[b + f] \in B /\ b + f < e[b + f] /\ e[b + f] \in Nat
                /\ e2[b] \in B2 /\ b < e2[b] /\ e2[b] + f = e[b + f]
    <2>1. b + f \in B /\ b + f < a.scanned /\ b \in Nat
      BY <1>14, <1>15
    <2>2. e[b + f] \in B /\ b + f < e[b + f] /\ e[b + f] \in Nat
      BY <1>3, <2>1
    <2>3. e2[b] = e[b + f] - f
      <3> HIDE DEF B2
      <3> QED BY <2>1
    <2> HIDE DEF e2
    <2>4. e[b + f] >= f
      BY <1>4, <2>1, <2>2
    <2>5. e[b + f] - f \in B2 /\ (e[b + f] - f) + f = e[b + f]
      BY <1>13, <2>2, <2>4
    <2>6. b < e[b + f] - f
      BY <1>4, <2>1, <2>2
    <2> QED BY <2>1, <2>2, <2>3, <2>5, <2>6
  <1>16. /\ B2 \in SUBSET (0..z.scanned) /\ 0 \in B2 /\ z.scanned \in B2
    <2>1. 0 \in B2 /\ a.scanned - f \in B2
      <3>1. f - f = 0 /\ f >= f /\ a.scanned >= f
        BY <1>4, <1>7
      <3> HIDE DEF B2
      <3> QED BY <1>1, <1>3, <1>13, <3>1 DEF f
    <2>2. \A b \in B2 : b \in 0..a.scanned - f
      OBVIOUS
    <2> HIDE DEF B2
    <2> QED BY <1>5, <2>1, <2>2
  <1>17. c2 \in [B2 -> 0..z.load] /\ e2 \in [B2 -> Nat]
    <2>1. ASSUME NEW b \in B2 PROVE c[b + f] - n \in 0..z.load
      <3>1. c[b + f] \in Nat /\ n <= c[b + f] /\ c[b + f] <= a.load
        BY <1>14
      <3> HIDE DEF B2
      <3> QED BY <1>3, <1>5, <3>1
    <2>2. ASSUME NEW b \in B2 PROVE (IF b + f < a.scanned THEN e[b + f] - f ELSE 0) \in Nat
      <3>1. b \in Nat /\ b + f \in B /\ (b < a.scanned - f <=> b + f < a.scanned)
        BY <1>14
      <3>2. b < a.scanned - f => e[b + f] \in Nat /\ b + f < e[b + f]
        BY <1>15
      <3> HIDE DEF B2, e2
      <3> QED BY <1>4, <3>1, <3>2
    <2> HIDE DEF B2
    <2> QED BY <2>1, <2>2
  <1> HIDE DEF B2, c2, e2
  <1>18. ASSUME NEW b \in B2, NEW x \in B2, b < x PROVE e2[b] <= x /\ c2[b] <= c2[x]
    <2>1. b \in Nat /\ b + f \in B /\ x \in Nat /\ x + f \in B /\ x <= a.scanned - f
          /\ c2[b] = c[b + f] - n /\ c2[x] = c[x + f] - n
      BY <1>14
    <2>2. b + f < x + f /\ b < a.scanned - f
      BY <1>4, <1>7, <1>18, <2>1
    <2>3. e[b + f] <= x + f /\ c[b + f] <= c[x + f]
      BY <1>3, <2>1, <2>2
    <2>4. e2[b] = e[b + f] - f /\ e[b + f] \in Nat
      BY <1>15, <2>2
    <2>5. c[b + f] \in Nat /\ c[x + f] \in Nat
      BY <1>3, <2>1
    <2>6. e2[b] <= x
      <3> DEFINE y == e[b + f]
      <3>1. y \in Nat /\ y <= x + f /\ e2[b] = y - f
        BY <2>3, <2>4
      <3> HIDE DEF y
      <3> QED BY <1>4, <2>1, <3>1
    <2>7. c2[b] <= c2[x]
      <3> DEFINE y == c[b + f]
                 w == c[x + f]
      <3>1. y \in Nat /\ w \in Nat /\ y <= w /\ c2[b] = y - n /\ c2[x] = w - n
        BY <2>1, <2>3, <2>5
      <3> HIDE DEF y, w
      <3> QED BY <1>3, <3>1
    <2> QED BY <2>6, <2>7
  <1>19. ASSUME NEW j \in DOMAIN z.skips PROVE SkipAt(z, B2, c2, e2, j)
    <2> DEFINE x == Off(a.r, a.skips[k + j])
               y == x - f
    <2>1. /\ j \in DOMAIN d.skips /\ k + j \in DOMAIN a.skips /\ z.skips[j] = a.skips[k + j]
          /\ z.skips[j].n \in Nat /\ Off(z.r, z.skips[j]) = y /\ x >= f
      BY <1>5, <1>12
    <2>2. SkipAt(a, B, c, e, k + j)
      BY <1>3, <2>1
    <2>3. x \in B /\ x < a.scanned /\ e[x] = x + z.skips[j].n /\ c[e[x]] = c[x]
      BY <2>1, <2>2 DEF SkipAt
    <2> HIDE DEF x
    <2>4. y \in B2 /\ y + f = x /\ x \in Nat
      BY <1>3, <1>13, <2>1, <2>3
    <2>5. y < a.scanned - f
      BY <1>4, <1>7, <2>3, <2>4
    <2> HIDE DEF y
    <2>6. e2[y] = e[x] - f /\ e2[y] \in B2 /\ e2[y] + f = e[x] /\ e[x] \in Nat
      BY <1>15, <2>4, <2>5
    <2>7. c2[y] = c[x] - n /\ c2[e2[y]] = c[e[x]] - n
      BY <1>14, <2>4, <2>6
    <2>8. e2[y] = y + z.skips[j].n
      <3>1. y = x - f
        BY DEF y
      <3>2. e[x] = x + z.skips[j].n /\ z.skips[j].n \in Nat
        BY <2>1, <2>3
      <3> QED BY <1>4, <2>4, <2>6, <3>1, <3>2
    <2> QED BY <1>5, <2>1, <2>3, <2>4, <2>5, <2>7, <2>8 DEF SkipAt
  <1>20. ASSUME NEW j \in DOMAIN z.skips, NEW i \in DOMAIN z.skips, j < i
         PROVE  Off(z.r, z.skips[j]) < Off(z.r, z.skips[i])
    <2>1. /\ j \in DOMAIN d.skips /\ i \in DOMAIN d.skips
          /\ k + j \in DOMAIN a.skips /\ Off(z.r, z.skips[j]) = Off(a.r, a.skips[k + j]) - f
          /\ k + i \in DOMAIN a.skips /\ Off(z.r, z.skips[i]) = Off(a.r, a.skips[k + i]) - f
      BY <1>5, <1>12
    <2>2. k + j < k + i
      BY <1>11, <1>20, <2>1
    <2>3. Off(a.r, a.skips[k + j]) < Off(a.r, a.skips[k + i])
      BY <1>3, <2>1, <2>2
    <2>4. Off(a.r, a.skips[k + j]) \in Nat /\ Off(a.r, a.skips[k + i]) \in Nat
      BY <1>3, <2>1 DEF SkipAt
    <2> QED BY <1>4, <2>1, <2>3, <2>4
  <1>21. ASSUME NEW b \in B2, b < z.scanned PROVE Skipped(z, b) \/ PacketAt(z, v, c2, e2, rest, b)
    <2> DEFINE x == b + f
    <2>1. b < a.scanned - f /\ b \in Nat
      BY <1>5, <1>14, <1>21
    <2>2. x \in B /\ x < a.scanned /\ c2[b] = c[x] - n /\ c[x] \in Nat /\ n <= c[x] /\ x \in Nat
      BY <1>14, <1>3, <2>1
    <2>3. e2[b] = e[x] - f /\ e2[b] \in B2 /\ e2[b] + f = e[x] /\ e[x] \in B
      BY <1>15, <2>1
    <2> HIDE DEF x
    <2>4. CASE Skipped(a, x)
      <3>1. PICK j \in DOMAIN a.skips : Off(a.r, a.skips[j]) = x
        BY <2>4 DEF Skipped
      <3>2. x >= f
        BY <1>4, <2>1 DEF x
      <3>3. j \notin 1..k
        BY <1>4, <1>10, <2>2, <3>1, <3>2
      <3>4. j - k \in DOMAIN d.skips /\ k + (j - k) = j
        BY <1>11, <3>1, <3>3
      <3>5. Off(z.r, z.skips[j - k]) = x - f /\ j - k \in DOMAIN z.skips
        BY <1>5, <1>12, <3>1, <3>4
      <3>6. x - f = b
        BY <1>4, <2>1 DEF x
      <3> QED BY <3>5, <3>6 DEF Skipped
    <2>5. CASE ~Skipped(a, x)
      <3> DEFINE w == Decode(a.mode, u[x + Packet - 1])
      <3>1. /\ w # Refused /\ e[x] = x + Packet /\ c[x + Packet] = c[x] + w
            /\ \A i \in 1..w : bytes[c[x] + i] = u[x + i - 1]
        <4>1. PacketAt(a, u, c, e, bytes, x)
          BY <1>3, <2>2, <2>5
        <4> QED BY <4>1 DEF PacketAt
      <3>2. w \in Int /\ w <= Packet - 1
        <4>1. w \in Int /\ w \in {-1, 0, Packet - 2, Packet - 1}
          BY DecodeIs
        <4> HIDE DEF w
        <4> QED BY <1>7, <4>1
      <3>3. e[x] <= a.scanned /\ e2[b] = b + Packet /\ c[e[x]] \in Nat /\ c[e[x]] <= a.load
            /\ c2[e2[b]] = c[e[x]] - n
        <4>1. e2[b] = b + Packet
          BY <1>4, <1>7, <2>1, <2>3, <3>1 DEF x
        <4>2. c2[e2[b]] = c[e[x]] - n
          BY <1>14, <2>3
        <4> QED BY <1>3, <2>3, <4>1, <4>2
      <3>4. n + 0 \in Nat /\ M \in Nat /\ L = M + f /\ \A i \in 0..M - 1 : v[i] = u[i + f]
        BY <1>3 DEF Shifted, f
      <3>5. a.scanned <= L
        BY DEF Scanned
      <3>6. \A i \in 0..Packet - 1 : b + i \in 0..M - 1 /\ (b + i) + f = x + i
        BY <1>3, <1>4, <1>7, <2>1, <3>1, <3>3, <3>4, <3>5, SMTT(30) DEF x
      <3>7. \A i \in 0..Packet - 1 : v[b + i] = u[x + i]
        <4>1. ASSUME NEW i \in 0..Packet - 1 PROVE v[b + i] = u[x + i]
          <5>1. v[b + i] = u[(b + i) + f]
            BY <3>4, <3>6
          <5> QED BY <3>6, <5>1
        <4> QED BY <4>1
      <3>8. v[b + Packet - 1] = u[x + Packet - 1]
        <4>1. Packet - 1 \in 0..Packet - 1 /\ b + (Packet - 1) = b + Packet - 1
              /\ x + (Packet - 1) = x + Packet - 1
          BY <1>7, <2>1, <2>2
        <4> QED BY <3>7, <4>1
      <3>9. w = Decode(z.mode, v[b + Packet - 1])
        BY <1>5, <3>8
      <3> HIDE DEF w
      <3>10. c2[b + Packet] = c2[b] + w
        <4>1. c2[b + Packet] = c[x + Packet] - n
          BY <3>1, <3>3
        <4>2. c[x + Packet] - n = (c[x] - n) + w
          BY <1>3, <2>2, <3>1, <3>2
        <4> QED BY <2>2, <4>1, <4>2
      <3>11. ASSUME NEW i \in 1..w PROVE rest[c2[b] + i] = v[b + i - 1]
        <4>1. i - 1 \in 0..Packet - 1 /\ b + (i - 1) = b + i - 1 /\ x + (i - 1) = x + i - 1
          BY <1>7, <2>1, <2>2, <3>2
        <4>2. v[b + i - 1] = u[x + i - 1]
          BY <3>7, <4>1
        <4>3. c2[b] + i \in 1..a.load - n /\ n + (c2[b] + i) = c[x] + i
          <5>1. c[x] + w <= a.load
            BY <3>1, <3>3
          <5> DEFINE y == c[x]
          <5>2. y \in Nat /\ n <= y /\ c2[b] = y - n /\ y + w <= a.load /\ i \in 1..w /\ w \in Int
            BY <2>2, <3>2, <5>1
          <5> HIDE DEF y
          <5>3. (y - n) + i \in 1..a.load - n /\ n + ((y - n) + i) = y + i
            <6>1. n \in Nat /\ a.load \in Nat
              BY <1>3
            <6> QED BY <5>2, <6>1
          <5> QED BY <5>2, <5>3 DEF y
        <4>4. rest[c2[b] + i] = bytes[c[x] + i]
          BY <1>6, <4>3
        <4> QED BY <3>1, <4>2, <4>4
      <3> QED BY <3>1, <3>3, <3>9, <3>10, <3>11 DEF PacketAt
    <2> QED BY <2>4, <2>5
  <1>22. /\ c2[0] = Len(z.pending) /\ c2[z.scanned] = z.load
         /\ \A i \in 1..Len(z.pending) : rest[i] = z.pending[i]
    <2>1. Len(d.pending) \in Nat
      BY <1>1
    <2>2. c2[0] = c[f] - n
      <3>1. c2[0] = c[0 + f] - n /\ 0 + f = f
        BY <1>4, <1>14, <1>16
      <3> QED BY <3>1
    <2>3. c2[z.scanned] = a.load - n
      <3>1. c2[z.scanned] = c[z.scanned + f] - n /\ z.scanned + f = a.scanned
        BY <1>4, <1>5, <1>7, <1>14, <1>16
      <3> QED BY <1>3, <3>1
    <2>4. n + Len(d.pending) = c[f] /\ c[f] \in Nat /\ c[f] <= a.load
      BY <1>1, <1>3 DEF f
    <2>5. \A i \in 1..Len(d.pending) : rest[i] = d.pending[i]
      <3>1. \A i \in 1..Len(d.pending) : i \in 1..a.load - n
        BY <1>3, <2>1, <2>4
      <3> QED BY <1>1, <1>6, <3>1
    <2> QED BY <1>3, <1>5, <2>1, <2>2, <2>3, <2>4, <2>5
  <1>23. \A b \in B2 : b < z.scanned => e2[b] \in B2 /\ b < e2[b]
    BY <1>5, <1>15
  <1>24. Len(rest) = z.load
    BY <1>5, <1>6
  <1>25. Path(z, v, B2, c2, e2, rest)
    BY <1>16, <1>17, <1>18, <1>19, <1>20, <1>21, <1>22, <1>23, <1>24, Zenon DEF Path
  <1>26. z.scanned <= Size - 1
    BY SMTT(30), <1>3, <1>4, <1>5, <1>7
  <1> QED BY <1>1, <1>5, <1>6, <1>25, <1>26 DEF Content, z, rest

LEMMA HereIs ==
  ASSUME NEW a, NEW bytes, Here(a, bytes)
  PROVE  /\ Sees(a, View(ring, a.r), Loaded(card, a.r)) /\ a \in Sides /\ card \in Cards /\ a.r \in Slots
         /\ bytes \in Seq(Payloads) /\ Len(bytes) = a.load /\ a.load \in Nat /\ a.load <= FifoSize
         /\ \A n \in 0..a.load : \E B, c, e :
              Scanned(a, View(ring, a.r), Loaded(card, a.r), B, c, e, bytes, n)
  <1> DEFINE u == View(ring, a.r)
             L == Loaded(card, a.r)
  <1>1. Kept(a, u, L, card, bytes) /\ card \in Cards /\ a.r \in Slots
    BY DEF Here
  <1>2. Sees(a, u, L)
    BY <1>1 DEF Sees, Cards
  <1> HIDE DEF u, L
  <1>3. Content(a, u, bytes) /\ a.scanned <= L
    BY <1>1 DEF Kept
  <1>4. a \in Sides /\ bytes \in Seq(Payloads) /\ \E B, c, e : Path(a, u, B, c, e, bytes)
    BY <1>3 DEF Content
  <1>5. PICK B, c, e : Path(a, u, B, c, e, bytes)
    BY <1>4
  <1>6. Len(bytes) = a.load
    BY <1>5 DEF Path
  <1>7. a.load \in Nat /\ a.load <= FifoSize
    <2>1. a.load \in 0..FifoSize /\ FifoSize \in Nat
      BY <1>4, SideIs, Sizes DEF SideTypes
    <2> QED BY <2>1
  <1>8. \A n \in 0..a.load : Scanned(a, u, L, B, c, e, bytes, n)
    BY <1>2, <1>3, <1>5 DEF Scanned
  <1> QED BY <1>1, <1>2, <1>4, <1>6, <1>7, <1>8 DEF u, L

\* A read gets the oldest, and leaves the rest.
LEMMA DeliveryKeeps ==
  ASSUME NEW a, NEW bytes, Here(a, bytes), NEW n \in 0..a.load
  PROVE  /\ Delivery(a, n).out = SubSeq(bytes, 1, n)
         /\ Here(AfterDelivery(a, Delivery(a, n)), SubSeq(bytes, n + 1, a.load))
         /\ AfterDelivery(a, Delivery(a, n)).control = a.control
  <1> DEFINE u == View(ring, a.r)
             L == Loaded(card, a.r)
             d == Delivery(a, n)
             z == AfterDelivery(a, d)
             rest == SubSeq(bytes, n + 1, a.load)
             r2 == (a.r + d.used) % Size
             v == View(ring, r2)
             M == Loaded(card, r2)
  <1>1. /\ Sees(a, u, L) /\ a \in Sides /\ card \in Cards /\ a.r \in Slots
        /\ bytes \in Seq(Payloads) /\ Len(bytes) = a.load /\ a.load \in Nat /\ a.load <= FifoSize
    BY HereIs
  <1>2. PICK B, c, e : Scanned(a, u, L, B, c, e, bytes, n)
    BY HereIs
  <1>3. Kept(a, u, L, card, bytes)
    BY DEF Here
  <1>4. /\ Ground(u, L, card) /\ a.scanned <= L /\ ~a.missed /\ Fits(u, L, card, a.scanned, a.oos)
        /\ L \in 0..Size - 1
    BY <1>3 DEF Kept, Ground
  <1> HIDE DEF u
  <1>5. Underway(a, B, c, bytes, n, d) /\ Done(d)
    BY <1>2, DeliveryEnds
  <1> HIDE DEF d
  <1>6. Len(d.out) = n /\ d.out = SubSeq(bytes, 1, n)
    BY <1>1, <1>5, DeliveryGets
  <1>7. d \in Deliveries /\ d.n = n /\ d.used \in B
    BY <1>5 DEF Underway
  <1>8. /\ SideTypes(a) /\ d.used \in Nat /\ d.used <= a.scanned /\ a.scanned \in 0..Size - 1 /\ n <= a.load
    BY <1>2, <1>7, OnPath
  <1>9. d.used \in 0..L /\ a.scanned \in Nat
    BY <1>4, <1>8
  <1>10. r2 \in Slots /\ Shifted(u, v, L, M, d.used)
    BY <1>1, <1>9, ViewShift DEF u, L
  <1> HIDE DEF L, v, M, r2
  <1>11. Content(z, v, rest)
    BY <1>2, <1>5, <1>6, <1>10, RestContent
  <1>12. /\ z.scanned = a.scanned - d.used /\ z.r = r2 /\ z.control = a.control /\ z.oos = a.oos
         /\ z.missed = a.missed
    BY <1>1, <1>7, <1>8, AfterDeliveryIs DEF r2
  <1> HIDE DEF z, rest
  <1>13. Ground(v, M, card)
    BY <1>4, <1>10, GroundShift
  <1>14. M \in Nat /\ L = M + d.used
    BY <1>10 DEF Shifted
  <1>15. z.scanned \in Nat /\ a.scanned = z.scanned + d.used /\ z.scanned <= M
    BY <1>4, <1>8, <1>9, <1>12, <1>14
  <1>16. Fits(v, M, card, z.scanned, z.oos)
    <2>1. a.oos \in BOOLEAN
      BY <1>8 DEF SideTypes
    <2> QED BY <1>1, <1>4, <1>9, <1>10, <1>12, <1>15, <2>1, FitsShift
  <1>17. Kept(z, v, M, card, rest)
    BY <1>4, <1>11, <1>12, <1>13, <1>15, <1>16 DEF Kept
  <1>18. Here(z, rest)
    BY <1>1, <1>10, <1>12, <1>17 DEF Here, v, M
  <1> QED BY <1>6, <1>12, <1>18 DEF z, rest, d

LEMMA AllOfIt ==
  ASSUME NEW a, NEW bytes, Here(a, bytes)
  PROVE  Delivery(a, a.load).out = bytes
  <1>1. bytes \in Seq(Payloads) /\ Len(bytes) = a.load /\ a.load \in Nat
    BY HereIs
  <1>2. a.load \in 0..a.load
    BY <1>1
  <1>3. Delivery(a, a.load).out = SubSeq(bytes, 1, Len(bytes))
    BY <1>1, <1>2, DeliveryKeeps
  <1>4. SubSeq(bytes, 1, Len(bytes)) = bytes
    BY <1>1
  <1> QED BY <1>3, <1>4

LEMMA KeptAgrees ==
  ASSUME NEW a, NEW u, NEW v, NEW L, NEW c, NEW bytes, Kept(a, u, L, c, bytes),
         \A i \in 0..L - 1 : v[i] = u[i]
  PROVE  Kept(a, v, L, c, bytes)
  <1>1. /\ Ground(u, L, c) /\ Content(a, u, bytes) /\ a.scanned <= L /\ ~a.missed
        /\ Fits(u, L, c, a.scanned, a.oos) /\ L \in 0..Size - 1 /\ L \in Nat /\ c \in Cards
    <2>1. /\ Ground(u, L, c) /\ Content(a, u, bytes) /\ a.scanned <= L /\ ~a.missed
          /\ Fits(u, L, c, a.scanned, a.oos) /\ L \in 0..Size - 1 /\ c \in Cards
      BY DEF Kept, Ground
    <2> QED BY <2>1
  <1>2. a.scanned \in Nat /\ a.oos \in BOOLEAN
    BY <1>1, SideIs DEF Content, SideTypes
  <1>3. Shifted(u, v, L, L, 0)
    <2>1. \A i \in 0..L - 1 : i + 0 = i
      BY <1>1
    <2>2. L = L + 0 /\ 0 \in Nat
      BY <1>1
    <2> QED BY <1>1, <2>1, <2>2 DEF Shifted
  <1>4. Ground(v, L, c)
    BY <1>1, <1>3, GroundShift
  <1>5. Fits(v, L, c, a.scanned, a.oos)
    <2>1. a.scanned = a.scanned + 0
      BY <1>2
    <2> QED BY <1>1, <1>2, <1>3, <2>1, FitsShift
  <1>6. Content(a, v, bytes)
    BY <1>1, ContentAgrees
  <1> QED BY <1>1, <1>4, <1>5, <1>6 DEF Kept

\* The ring after a call.
LEMMA BecomesKeeps ==
  ASSUME NEW a, NEW bytes, Here(a, bytes), ring \in Rings, Becomes(a), UNCHANGED card
  PROVE  asi' = a /\ fifo' = bytes /\ ring' \in Rings /\ Here(asi, fifo)'
  <1> DEFINE u == View(ring, a.r)
             v == View(ring', a.r)
             L == Loaded(card, a.r)
  <1>1. /\ asi' = a /\ fifo' = Delivery(a, a.load).out
        /\ ring' = [s \in Slots |-> IF (s + Size - a.r) % Size < RingLoad(a) THEN ring[s] ELSE Blank]
    BY DEF Becomes
  <1>2. fifo' = bytes
    BY <1>1, AllOfIt
  <1>3. /\ Sees(a, u, L) /\ a.r \in Slots /\ card \in Cards /\ Kept(a, u, L, card, bytes)
    BY HereIs DEF Here
  <1>4. RingLoad(a) = L /\ L \in 0..Size - 1
    BY <1>3, SeesIs
  <1>5. Size \in Nat \ {0} /\ Slots = 0..Size - 1 /\ a.r \in 0..Size - 1
    BY <1>3, Sizes
  <1>6. ring' \in Rings
    BY <1>1 DEF Rings
  <1> HIDE DEF L
  <1>7. ASSUME NEW i \in 0..L - 1 PROVE v[i] = u[i]
    <2> DEFINE s == Place(Size, a.r, i)
    <2>1. i \in 0..Size - 1
      BY <1>4, <1>5
    <2>2. s \in 0..Size - 1 /\ Ahead(Size, a.r, s) = i
      BY <1>5, <2>1, PlaceAhead
    <2>3. v[i] = ring'[s] /\ u[i] = ring[s]
      BY <2>1 DEF View
    <2> HIDE DEF s
    <2>4. (s + Size - a.r) % Size = i
      BY <1>5, <2>2, FarFrom DEF Ahead
    <2>5. i < L
      BY <1>4
    <2>6. ring'[s] = ring[s]
      BY <1>1, <1>4, <1>5, <2>2, <2>4, <2>5
    <2> QED BY <2>3, <2>6
  <1> HIDE DEF u, v
  <1>8. Kept(a, v, L, card, bytes)
    BY <1>3, <1>7, KeptAgrees
  <1>9. Here(asi, fifo)'
    <2>1. asi'.r = a.r /\ card' = card
      BY <1>1
    <2> QED BY <1>1, <1>2, <1>3, <1>8, <2>1 DEF Here, v, L
  <1> QED BY <1>1, <1>2, <1>6, <1>9

--------------------------------------------------------------------------------
(* The steps.                                                                *)

\* The ring and the card are as the card writes them; what is scanned is a path of packets and
\* skips that gives the FIFO's bytes; and no row of good packets before the end is lost.
IInv ==
  /\ ring \in Rings /\ read \in [left : Nat, all : BOOLEAN, held : BOOLEAN]
  /\ Here(asi, fifo)

\* A side and a card that start at the beginning of the ring.
LEMMA Beginnings ==
  ASSUME NEW a \in Sides, NEW rg, a.scanned = 0, a.load = 0, a.skips = <<>>, a.pending = <<>>, a.r = 0,
         ~a.missed
  PROVE  Stopped \in Cards /\ a.r \in Slots /\ Kept(a, View(rg, a.r), Loaded(Stopped, a.r), Stopped, <<>>)
  <1> DEFINE u == View(rg, a.r)
             L == Loaded(Stopped, a.r)
  <1>1. Size \in Nat \ {0} /\ Slots = 0..Size - 1 /\ Seqs \in Nat /\ Seqs > 0 /\ NumSync \in Nat
        /\ NumSync >= 2
    BY Sizes
  <1>2. 0 \in Slots /\ 0 \in 0..Seqs - 1 /\ 0 \in 0..NumSync - 1
    BY <1>1
  <1>3. Stopped \in Cards /\ Stopped.w = 0 /\ Stopped.run = 0
    BY <1>2 DEF Stopped, Cards
  <1>4. L = 0
    BY <1>1, <1>3 DEF Loaded, Ahead
  <1> HIDE DEF u, L
  <1>5. 0..L - 1 = {} /\ 0..Stopped.run - 1 = {} /\ L \in 0..Size - 1
    BY <1>1, <1>3, <1>4
  <1>6. Ground(u, L, Stopped)
    BY <1>3, <1>5 DEF Ground, Laid, Linked
  <1>7. Fits(u, L, Stopped, a.scanned, a.oos)
    <2>1. a.scanned..L - 1 = {} /\ ~(Stopped.run > 0) /\ ~(a.scanned < L)
      BY <1>3, <1>4
    <2> QED BY <2>1 DEF Fits
  <1>8. Content(a, u, <<>>)
    BY EmptyContent
  <1>9. a.scanned <= L
    BY <1>4
  <1> QED BY <1>2, <1>3, <1>6, <1>7, <1>8, <1>9 DEF Kept, u, L

\* What NewAsi makes.
Fresh(a, missed) ==
  /\ a \in Sides /\ a.scanned = 0 /\ a.load = 0 /\ a.skips = <<>> /\ a.pending = <<>>
  /\ a.r = 0 /\ a.missed = missed

LEMMA NewSide ==
  ASSUME NEW control \in {"idle", "rcv"}, NEW mode \in Modes, NEW missed \in BOOLEAN
  PROVE  /\ Fresh(NewAsi(mode), FALSE)
         /\ Fresh([NewAsi(mode) EXCEPT !.control = control, !.missed = missed], missed)
  <1>1. 0 \in Slots /\ 0 \in 0..Size /\ 0 \in 0..FifoSize
    BY Sizes
  <1>2. <<>> \in Seq(Skips) /\ <<>> \in Seq(Units)
    OBVIOUS
  <1>3. NewAsi(mode) \in Sides
    BY <1>1, <1>2 DEF NewAsi, Sides
  <1> DEFINE b == NewAsi(mode)
  <1>4. b.scanned = 0 /\ b.load = 0 /\ b.skips = <<>> /\ b.pending = <<>> /\ b.r = 0 /\ b.missed = FALSE
    BY DEF NewAsi
  <1> HIDE DEF b
  <1>5. b \in Sides
    BY <1>3 DEF b
  <1>6. LET a == [b EXCEPT !.control = control, !.missed = missed] IN
         /\ a \in Sides /\ a.scanned = b.scanned /\ a.load = b.load /\ a.skips = b.skips
         /\ a.pending = b.pending /\ a.r = b.r /\ a.missed = missed
    BY <1>5 DEF Sides
  <1> QED BY <1>4, <1>5, <1>6 DEF b, Fresh

LEMMA InitHolds ==
  ASSUME Init
  PROVE  IInv
  <1>1. PICK mode \in Modes : asi = NewAsi(mode)
    BY DEF Init
  <1>2. ring = [s \in Slots |-> Blank] /\ card = Stopped /\ read = NoRead /\ fifo = <<>>
    BY DEF Init
  <1>3. Fresh(asi, FALSE)
    BY <1>1, NewSide
  <1>4. /\ asi \in Sides /\ asi.scanned = 0 /\ asi.load = 0 /\ asi.skips = <<>> /\ asi.pending = <<>>
        /\ asi.r = 0 /\ ~asi.missed
    BY <1>3 DEF Fresh
  <1>5. Here(asi, fifo)
    BY <1>2, <1>4, Beginnings DEF Here
  <1>6. ring \in Rings /\ read \in [left : Nat, all : BOOLEAN, held : BOOLEAN]
    BY <1>2 DEF Rings, NoRead
  <1> QED BY <1>5, <1>6 DEF IInv

LEMMA ResetKeeps ==
  ASSUME IInv, NEW control \in {"idle", "rcv"}, NEW mode \in Modes, Reset(control, mode)
  PROVE  IInv' /\ Fifo!Clear
  <1>1. /\ asi' = [NewAsi(mode) EXCEPT !.control = control, !.missed = asi.missed]
        /\ ring' = [s \in Slots |-> Blank] /\ card' = Stopped /\ fifo' = <<>>
        /\ taken' = <<>> /\ read' = read
    BY DEF Reset, Called
  <1>2. ~asi.missed /\ asi \in Sides
    BY HereIs DEF IInv, Here, Kept
  <1>3. asi.missed \in BOOLEAN
    BY <1>2, SideIs DEF SideTypes
  <1>4. /\ asi' \in Sides /\ asi'.scanned = 0 /\ asi'.load = 0 /\ asi'.skips = <<>>
        /\ asi'.pending = <<>> /\ asi'.r = 0 /\ ~asi'.missed
    <2>1. Fresh([NewAsi(mode) EXCEPT !.control = control, !.missed = asi.missed], asi.missed)
      BY <1>3, NewSide
    <2>2. Fresh(asi', asi.missed)
      BY <1>1, <2>1
    <2> QED BY <1>2, <2>2 DEF Fresh
  <1>5. Here(asi, fifo)'
    BY <1>1, <1>4, Beginnings DEF Here
  <1>6. ring' \in Rings /\ read' \in [left : Nat, all : BOOLEAN, held : BOOLEAN]
    BY <1>1 DEF Rings, IInv
  <1> QED BY <1>1, <1>5, <1>6 DEF IInv, Fifo!Clear

\* What the card writes: a packet behind what there is.
LEMMA ReceiveKeeps ==
  ASSUME IInv, NEW kind \in Kinds, ReceivePacket(kind)
  PROVE  IInv' /\ taken' = <<>> /\ fifo' = fifo
  <1> DEFINE n == IF kind = "sequence" THEN (card.seq + 1) % Seqs ELSE card.seq
             solid == kind = "good" /\ card.run = NumSync - 1
             size == Least(Packet, FreeUnits(asi))
             run2 == IF size < Packet \/ kind \notin {"good", "sequence"} THEN 0
                     ELSE IF kind = "sequence" THEN 1 ELSE Least(card.run + 1, NumSync - 1)
             full2 == card.full + (IF size < Packet THEN 1 ELSE 0)
             r == asi.r
             u == View(ring, r)
             v == View(ring', r)
             L == Loaded(card, r)
             M == L + size
  <1>1. /\ Sees(asi, u, L) /\ asi \in Sides /\ card \in Cards /\ r \in Slots /\ Kept(asi, u, L, card, fifo)
        /\ ring \in Rings
    <2>1. Here(asi, fifo)
      BY DEF IInv
    <2> QED BY <2>1, HereIs DEF Here, IInv
  <1>2. /\ Packet \in Nat /\ Packet >= 3 /\ NumSync \in Nat /\ NumSync >= 2 /\ Size \in Nat \ {0}
        /\ Slots = 0..Size - 1 /\ Seqs \in Nat /\ KeptFree = 1
    BY Sizes
  <1>3. /\ card.w \in 0..Size - 1 /\ card.seq \in 0..Seqs - 1 /\ card.run \in 0..NumSync - 1 /\ card.full \in Nat
        /\ r \in 0..Size - 1
    BY <1>1, <1>2 DEF Cards
  <1>4. RingLoad(asi) = L /\ L \in 0..Size - 1 /\ L = Ahead(Size, r, card.w)
    BY <1>1, SeesIs DEF Loaded
  <1> HIDE DEF L
  <1>5. size \in 0..Packet /\ size + L <= Size - 1
    BY <1>2, <1>4 DEF Least, FreeUnits
  <1>6. n \in 0..Seqs - 1 /\ (n + 1) % Seqs \in 0..Seqs - 1 /\ solid \in BOOLEAN
    <2>1. n \in 0..Seqs - 1
      BY <1>3, NumbersIn
    <2> QED BY <2>1, NumbersIn
  <1>7. run2 \in 0..NumSync - 1 /\ full2 \in Nat
    BY <1>2, <1>3, SMTT(30) DEF Least
  <1>8. /\ taken' = <<>> /\ asi' = asi /\ read' = read /\ fifo' = fifo
        /\ card' = [w |-> (card.w + size) % Size, seq |-> (n + 1) % Seqs, run |-> run2, full |-> full2]
        /\ ring' = [s \in Slots |->
                      IF ((s + Size - card.w) % Size) + 1 <= size
                      THEN [i \in 1..Packet |-> IF i < Packet THEN Payload(n, i, OfKind(kind))
                                                ELSE Trailer(n, kind, solid)][((s + Size - card.w) % Size) + 1]
                      ELSE ring[s]]
    BY DEF ReceivePacket, OfKind
  <1> HIDE DEF n, solid, run2, full2, size
  <1>9. ASSUME NEW s \in Slots
        PROVE  /\ Ahead(Size, card.w, s) \in 0..Size - 1
               /\ ring'[s] = IF Ahead(Size, card.w, s) + 1 <= size
                             THEN Unit(n, kind, solid, Ahead(Size, card.w, s) + 1) ELSE ring[s]
    <2>1. (s + Size - card.w) % Size = Ahead(Size, card.w, s)
      BY <1>2, <1>3, FarFrom DEF Ahead
    <2>2. Ahead(Size, card.w, s) \in 0..Size - 1
      BY <1>2, <1>3, PlaceAhead
    <2> DEFINE p == Ahead(Size, card.w, s)
    <2> HIDE DEF p
    <2>3. ring'[s] = IF p + 1 <= size
                     THEN [i \in 1..Packet |-> IF i < Packet THEN Payload(n, i, OfKind(kind))
                                               ELSE Trailer(n, kind, solid)][p + 1]
                     ELSE ring[s]
      BY <1>8, <2>1 DEF p
    <2>4. p \in 0..Size - 1 /\ (p + 1 <= size => p + 1 \in 1..Packet)
      BY <1>2, <1>5, <2>2 DEF p
    <2>5. ring'[s] = IF p + 1 <= size THEN Unit(n, kind, solid, p + 1) ELSE ring[s]
      BY <2>3, <2>4 DEF Unit
    <2> QED BY <2>2, <2>5 DEF p
  <1>10. ring' \in Rings
    <2>1. ASSUME NEW s \in Slots PROVE ring'[s] \in Written \cup {Blank}
      <3>1. CASE Ahead(Size, card.w, s) + 1 <= size
        <4> DEFINE p == Ahead(Size, card.w, s)
        <4>0. p \in 0..Size - 1 /\ p + 1 <= size
          BY <1>9, <3>1
        <4> HIDE DEF p
        <4>1. p + 1 \in 1..Packet
          BY <1>2, <1>5, <4>0
        <4> USE DEF p
        <4> QED BY <1>6, <1>9, <3>1, <4>1, UnitIs
      <3>2. CASE ~(Ahead(Size, card.w, s) + 1 <= size)
        BY <1>1, <1>9, <3>2 DEF Rings
      <3> QED BY <3>1, <3>2
    <2>2. ring' = [s \in Slots |-> ring'[s]]
      BY <1>8
    <2> DEFINE g == ring'
    <2> HIDE DEF g
    <2>3. g = [s \in Slots |-> g[s]] /\ \A s \in Slots : g[s] \in Written \cup {Blank}
      BY <2>1, <2>2 DEF g
    <2>4. g \in Rings
      BY <2>3 DEF Rings
    <2> QED BY <2>4 DEF g
  <1>11. card' \in Cards /\ card'.w = (card.w + size) % Size
    <2>1. (card.w + size) % Size \in Slots
      <3>1. card.w + size \in Int
        BY <1>3, <1>5
      <3> QED BY <1>2, <3>1
    <2> QED BY <1>6, <1>7, <1>8, <2>1 DEF Cards
  <1>12. Loaded(card', r) = M /\ M \in 0..Size - 1
    <2>1. size \in 0..Size - 1 /\ size \in 0..Size
      BY <1>2, <1>4, <1>5
    <2>2. card'.w = Place(Size, card.w, size)
      BY <1>2, <1>3, <1>11, <2>1, PlaceAt DEF Place
    <2>3. Ahead(Size, r, card.w) + size <= Size - 1
      BY <1>2, <1>4, <1>5
    <2>4. Ahead(Size, r, Place(Size, card.w, size)) = Ahead(Size, r, card.w) + size
      BY <1>2, <1>3, <2>1, <2>3, AheadMore
    <2> QED BY <1>2, <1>4, <1>5, <2>2, <2>4 DEF Loaded
  <1>13. ASSUME NEW i \in 0..Size - 1
         PROVE  /\ i < L => v[i] = u[i]
                /\ i >= L /\ i - L + 1 <= size => v[i] = Unit(n, kind, solid, i - L + 1)
    <2> DEFINE s == Place(Size, r, i)
               p == Ahead(Size, card.w, s)
    <2>1. s \in Slots
      BY <1>2, <1>3, PlaceAhead
    <2>2. p = IF i < L THEN Size - L + i ELSE i - L
      BY <1>2, <1>3, <1>4, AheadOf
    <2>3. v[i] = ring'[s] /\ u[i] = ring[s]
      BY DEF View
    <2> HIDE DEF s, u, v
    <2>4. p \in 0..Size - 1 /\ ring'[s] = IF p + 1 <= size THEN Unit(n, kind, solid, p + 1) ELSE ring[s]
      BY <1>9, <2>1
    <2> HIDE DEF p
    <2>5. i < L => ~(p + 1 <= size)
      BY <1>2, <1>4, <1>5, <2>2
    <2>6. i >= L => p = i - L
      BY <1>4, <2>2
    <2> QED BY <1>4, <2>3, <2>4, <2>5, <2>6
  <1>14. Behind(u, v, L, M, size, n, kind, solid)
    <2>1. ASSUME NEW i \in 0..L - 1 PROVE v[i] = u[i]
      <3>1. i \in 0..Size - 1 /\ i < L
        BY <1>2, <1>4
      <3> QED BY <1>13, <3>1
    <2>2. ASSUME NEW i \in 1..size PROVE v[L + i - 1] = Unit(n, kind, solid, i)
      <3> DEFINE q == L + i - 1
      <3>1. q \in 0..Size - 1 /\ q >= L /\ q - L + 1 = i /\ i <= size
        BY <1>2, <1>4, <1>5
      <3> HIDE DEF q, u, v
      <3>2. v[q] = Unit(n, kind, solid, q - L + 1)
        BY <1>13, <3>1
      <3> QED BY <3>1, <3>2 DEF q
    <2>3. L \in Nat /\ M \in Nat
      BY <1>4, <1>12
    <2> HIDE DEF u, v
    <2> QED BY <1>5, <1>6, <2>1, <2>2, <2>3 DEF Behind
  <1>15. Onward(card, card', size, n, kind, solid)
    <2>1. card'.seq = (n + 1) % Seqs /\ card'.run = run2
      BY <1>8
    <2> QED BY <2>1 DEF Onward, n, run2, solid
  <1> HIDE DEF u, v, M
  <1>16. /\ Laid(u, L) /\ Linked(u, L, card) /\ Content(asi, u, fifo) /\ asi.scanned <= L /\ ~asi.missed
         /\ Fits(u, L, card, asi.scanned, asi.oos)
    BY <1>1 DEF Kept, Ground
  <1>17. asi.scanned \in 0..L /\ asi.oos \in BOOLEAN
    <2>1. SideTypes(asi)
      BY <1>1, SideIs
    <2>2. asi.scanned \in 0..Size /\ asi.oos \in BOOLEAN
      BY <2>1 DEF SideTypes
    <2> QED BY <1>2, <1>4, <1>16, <2>2
  <1>18. Laid(v, M)
    BY <1>14, <1>16, BehindLaid
  <1>19. Linked(v, M, card')
    BY <1>1, <1>14, <1>15, <1>16, BehindLinked
  <1>20. Fits(v, M, card', asi.scanned, asi.oos)
    BY <1>1, <1>14, <1>15, <1>16, <1>17, BehindFits
  <1>21. Content(asi, v, fifo)
    <2>1. L \in Nat /\ \A i \in 0..L - 1 : v[i] = u[i]
      BY <1>14 DEF Behind
    <2> QED BY <1>16, <2>1, ContentAgrees
  <1>22. asi.scanned <= M
    BY <1>4, <1>5, <1>17 DEF M
  <1>23. Kept(asi, v, M, card', fifo)
    BY <1>11, <1>12, <1>16, <1>18, <1>19, <1>20, <1>21, <1>22 DEF Kept, Ground
  <1>24. Here(asi, fifo)'
    BY <1>1, <1>8, <1>11, <1>12, <1>23 DEF Here, v
  <1>25. read' \in [left : Nat, all : BOOLEAN, held : BOOLEAN]
    BY <1>8 DEF IInv
  <1> QED BY <1>8, <1>10, <1>24, <1>25 DEF IInv

LEMMA ReadIs ==
  ASSUME NEW rd \in [left : Nat, all : BOOLEAN, held : BOOLEAN]
  PROVE  /\ rd.left \in Nat /\ rd.all \in BOOLEAN
         /\ (IF rd.all THEN rd.left ELSE Least(rd.left, Block)) \in 0..rd.left
         /\ NoRead \in [left : Nat, all : BOOLEAN, held : BOOLEAN]
         /\ \A n \in 0..rd.left, held \in BOOLEAN :
              [rd EXCEPT !.left = @ - n, !.held = held] \in [left : Nat, all : BOOLEAN, held : BOOLEAN]
         /\ \A held \in BOOLEAN : [rd EXCEPT !.held = held] \in [left : Nat, all : BOOLEAN, held : BOOLEAN]
  <1>1. rd.left \in Nat /\ rd.all \in BOOLEAN
    OBVIOUS
  <1>2. (IF rd.all THEN rd.left ELSE Least(rd.left, Block)) \in 0..rd.left
    BY <1>1, Sizes DEF Least
  <1>3. NoRead \in [left : Nat, all : BOOLEAN, held : BOOLEAN]
    BY DEF NoRead
  <1>4. ASSUME NEW n \in 0..rd.left, NEW held \in BOOLEAN
        PROVE  [rd EXCEPT !.left = @ - n, !.held = held] \in [left : Nat, all : BOOLEAN, held : BOOLEAN]
    <2>1. rd.left - n \in Nat
      BY <1>1
    <2> QED BY <2>1
  <1> QED BY <1>1, <1>2, <1>3, <1>4

\* What a call puts in and a read takes: the oldest of what is there and has come.
LEMMA PutTaken ==
  ASSUME NEW before \in Seq(Payloads), NEW came \in Seq(Payloads), NEW n \in 0..Len(before \o came),
         Fifo!WholePackets(came), Len(before \o came) <= FifoSize, before = fifo,
         taken' = SubSeq(before \o came, 1, n),
         fifo' = SubSeq(before \o came, n + 1, Len(before \o came))
  PROVE  Fifo!PutAndTake
  <1> DEFINE all == before \o came
             after == taken' \o fifo'
  <1>1. all \in Seq(Payloads) /\ Len(all) = Len(before) + Len(came) /\ Len(all) \in Nat
        /\ Len(before) \in Nat /\ Len(came) \in Nat
    BY ONLY before \in Seq(Payloads), came \in Seq(Payloads)
  <1>2. SubSeq(all, 1, Len(before)) = before /\ SubSeq(all, Len(before) + 1, Len(all)) = came
    BY ONLY before \in Seq(Payloads), came \in Seq(Payloads)
  <1> HIDE DEF all
  <1>3. after = all
    <2>1. n \in 0..Len(all)
      BY DEF all
    <2>2. SubSeq(all, 1, n) \o SubSeq(all, n + 1, Len(all)) = all
      <3>1. SubSeq(all, 1, n) \o SubSeq(all, n + 1, Len(all)) = SubSeq(all, 1, Len(all))
        <4>1. 1 \in 1..Len(all) + 1 /\ n \in 1 - 1..Len(all) /\ Len(all) \in n..Len(all)
          BY <1>1, <2>1
        <4> QED BY <1>1, <4>1, ConcatAdjacentSubSeq
      <3> QED BY <1>1, <3>1, SubSeqFull
    <2> QED BY <2>2 DEF all
  <1>4. Len(all) <= FifoSize
    BY DEF all
  <1> HIDE DEF after
  <1>5. Len(all) >= Len(before)
    BY <1>1
  <1>6. /\ Len(after) >= Len(before) /\ SubSeq(after, 1, Len(before)) = before
        /\ SubSeq(after, Len(before) + 1, Len(after)) = came /\ Len(after) <= FifoSize
    BY <1>2, <1>3, <1>4, <1>5, Zenon
  <1> QED BY <1>6 DEF Fifo!PutAndTake, after

\* A call that scans, and takes nothing.
LEMMA NothingTaken ==
  ASSUME NEW before \in Seq(Payloads), NEW came \in Seq(Payloads),
         Fifo!WholePackets(came), Len(before \o came) <= FifoSize, before = fifo,
         taken' = <<>>, fifo' = before \o came
  PROVE  Fifo!PutAndTake
  <1> DEFINE all == before \o came
  <1>1. all \in Seq(Payloads) /\ Len(all) \in Nat
    BY ONLY before \in Seq(Payloads), came \in Seq(Payloads)
  <1> HIDE DEF all
  <1>2. SubSeq(all, 1, 0) = <<>> /\ SubSeq(all, 0 + 1, Len(all)) = all /\ 0 \in 0..Len(all)
    BY ONLY <1>1
  <1> QED BY <1>2, PutTaken DEF all

\* A round of a read.
LEMMA LookKeeps ==
  ASSUME IInv, NEW rd \in [left : Nat, all : BOOLEAN, held : BOOLEAN], Look(rd)
  PROVE  IInv' /\ Fifo!PutAndTake
  <1> DEFINE z == ScanBuffer(asi)
             block == IF rd.all THEN rd.left ELSE Least(rd.left, Block)
             d == Delivery(z, block)
             b == AfterDelivery(z, d)
  <1>1. Here(asi, fifo) /\ ring \in Rings
    BY DEF IInv
  <1>2. fifo \in Seq(Payloads)
    BY <1>1, HereIs
  <1>3. PICK came \in Seq(Payloads) : Fifo!WholePackets(came) /\ Here(z, fifo \o came)
    BY <1>1, ScanKeeps
  <1> DEFINE all == fifo \o came
  <1> HIDE DEF z, all
  <1>4. all \in Seq(Payloads) /\ Len(all) = z.load /\ z.load \in Nat /\ z.load <= FifoSize
    BY <1>3, HereIs DEF all
  <1>5. block \in 0..rd.left /\ rd.left \in Nat
    BY ReadIs
  <1>6. /\ card' = card
        /\ IF asi.control = "rcv" /\ z.load >= block
           THEN /\ Becomes(b) /\ taken' = d.out
                /\ read' = IF rd.left = block THEN NoRead ELSE [rd EXCEPT !.left = @ - block, !.held = TRUE]
           ELSE /\ Becomes(z) /\ taken' = <<>>
                /\ read' = [rd EXCEPT !.held = FALSE]
    BY Zenon DEF Look, z
  <1>7. read' \in [left : Nat, all : BOOLEAN, held : BOOLEAN]
    <2> HIDE DEF block
    <2>1. read' = NoRead \/ read' = [rd EXCEPT !.left = @ - block, !.held = TRUE]
          \/ read' = [rd EXCEPT !.held = FALSE]
      BY <1>6, Zenon
    <2> QED BY <1>5, <2>1, ReadIs
  <1> HIDE DEF block
  <1>8. CASE asi.control = "rcv" /\ z.load >= block
    <2>1. Becomes(b) /\ taken' = d.out
      BY <1>6, <1>8
    <2>2. block \in 0..z.load
      BY <1>4, <1>5, <1>8
    <2>3. d.out = SubSeq(all, 1, block) /\ Here(b, SubSeq(all, block + 1, z.load))
      BY <1>3, <2>2, DeliveryKeeps DEF all
    <2> HIDE DEF d, b
    <2>4. fifo' = SubSeq(all, block + 1, z.load) /\ ring' \in Rings /\ Here(asi, fifo)'
      BY <1>1, <1>6, <2>1, <2>3, BecomesKeeps
    <2>5. Fifo!PutAndTake
      <3>1. /\ block \in 0..Len(all) /\ Len(all) <= FifoSize
            /\ taken' = SubSeq(all, 1, block) /\ fifo' = SubSeq(all, block + 1, Len(all))
        BY <1>4, <2>1, <2>2, <2>3, <2>4
      <3> QED BY <1>2, <1>3, <3>1, PutTaken DEF all
    <2> QED BY <1>7, <2>4, <2>5 DEF IInv
  <1>9. CASE ~(asi.control = "rcv" /\ z.load >= block)
    <2>1. Becomes(z) /\ taken' = <<>>
      BY <1>6, <1>9
    <2>2. Here(z, all)
      BY <1>3 DEF all
    <2>3. fifo' = all /\ ring' \in Rings /\ Here(asi, fifo)'
      BY <1>1, <1>6, <2>1, <2>2, BecomesKeeps
    <2>4. Fifo!PutAndTake
      <3>1. Len(all) <= FifoSize
        BY <1>4
      <3> QED BY <1>2, <1>3, <2>1, <2>3, <3>1, NothingTaken DEF all
    <2> QED BY <1>7, <2>3, <2>4 DEF IInv
  <1> QED BY <1>8, <1>9

\* What a call does to the two ends of the FIFO.
Moves == Fifo!PutAndTake \/ Fifo!Clear

LEMMA Unmoved ==
  ASSUME IInv, taken' = <<>>, fifo' = fifo
  PROVE  Fifo!PutAndTake
  <1>1. fifo \in Seq(Payloads) /\ Len(fifo) <= FifoSize
    BY HereIs DEF IInv
  <1>2. <<>> \in Seq(Payloads)
    OBVIOUS
  <1>3. fifo \o <<>> = fifo
    BY ONLY <1>1
  <1> QED BY <1>1, <1>2, <1>3, NoPackets, NothingTaken

LEMMA NextKeeps ==
  ASSUME IInv, Next
  PROVE  IInv' /\ Moves
  <1>1. CASE ReceiveGood
    <2>1. "good" \in Kinds
      BY DEF Kinds
    <2> QED BY <1>1, <2>1, ReceiveKeeps, Unmoved DEF ReceiveGood, Moves
  <1>2. ASSUME NEW kind \in Faults, ReceiveFaulty(kind) PROVE IInv' /\ Moves
    <2>1. kind \in Kinds /\ ReceivePacket(kind)
      BY <1>2, Sizes DEF ReceiveFaulty
    <2> QED BY <2>1, ReceiveKeeps, Unmoved DEF Moves
  <1>3. ASSUME NEW n \in Reads, NEW all \in BOOLEAN, ReadStarts(n, all) PROVE IInv' /\ Moves
    <2>1. [left |-> n, all |-> all, held |-> FALSE] \in [left : Nat, all : BOOLEAN, held : BOOLEAN]
      BY Sizes
    <2> QED BY <1>3, <2>1, LookKeeps DEF ReadStarts, Moves
  <1>4. CASE ReadLooks
    BY <1>4, LookKeeps DEF ReadLooks, Moves, IInv
  <1>5. CASE ReadEnds
    <2>1. read' = NoRead /\ taken' = <<>> /\ asi' = asi /\ ring' = ring /\ card' = card /\ fifo' = fifo
      BY <1>5 DEF ReadEnds
    <2>2. read' \in [left : Nat, all : BOOLEAN, held : BOOLEAN]
      BY <2>1 DEF NoRead
    <2>3. Here(asi, fifo)'
      BY <2>1 DEF IInv, Here
    <2> QED BY <2>1, <2>2, <2>3, Unmoved DEF IInv, Moves
  <1>6. CASE GetFifoLoad
    <2>1. Becomes(ScanBuffer(asi)) /\ card' = card /\ taken' = <<>> /\ read' = read
      BY <1>6 DEF GetFifoLoad, Called
    <2>2. Here(asi, fifo) /\ ring \in Rings /\ fifo \in Seq(Payloads)
      BY HereIs DEF IInv
    <2>3. PICK came \in Seq(Payloads) : Fifo!WholePackets(came) /\ Here(ScanBuffer(asi), fifo \o came)
      BY <2>2, ScanKeeps
    <2>4. fifo' = fifo \o came /\ ring' \in Rings /\ Here(asi, fifo)'
      BY <2>1, <2>2, <2>3, BecomesKeeps
    <2>5. Len(fifo \o came) <= FifoSize
      BY <2>3, HereIs
    <2>6. Fifo!PutAndTake
      BY <2>1, <2>2, <2>3, <2>4, <2>5, NothingTaken
    <2> QED BY <2>1, <2>4, <2>6 DEF IInv, Moves
  <1>7. SideTypes(asi)
    BY HereIs, SideIs DEF IInv
  <1>8. asi.mode \in Modes
    BY <1>7 DEF SideTypes
  <1>9. CASE Start
    BY <1>8, <1>9, ResetKeeps DEF Start, Moves
  <1>10. CASE Stop
    BY <1>8, <1>10, ResetKeeps DEF Stop, Moves
  <1>11. ASSUME NEW mode \in Modes, SetRxMode(mode) PROVE IInv' /\ Moves
    BY <1>11, ResetKeeps DEF SetRxMode, Moves
  <1> QED BY <1>1, <1>2, <1>3, <1>4, <1>5, <1>6, <1>9, <1>10, <1>11 DEF Next

--------------------------------------------------------------------------------
(* The theorems.                                                             *)

\* What is scanned is a path of packets and skips that holds the FIFO's bytes, and no row of good
\* packets is lost: ScanBuffer, DeliverBytes, the read and the card keep it.
THEOREM Invariance == Spec => []IInv
  <1>1. Init => IInv
    BY InitHolds
  <1>2. IInv /\ [Next]_vars => IInv'
    <2> SUFFICES ASSUME IInv, [Next]_vars PROVE IInv'
      OBVIOUS
    <2>1. CASE Next
      BY <2>1, NextKeeps
    <2>2. CASE UNCHANGED vars
      BY <2>2 DEF vars, IInv, Here
    <2> QED BY <2>1, <2>2
  <1> QED BY <1>1, <1>2, PTL DEF Spec

\* The search passes over no packet that NumSync - 1 good ones come right before.
THEOREM FoundAgainHolds == Spec => []FoundAgain
  <1>1. IInv => FoundAgain
    BY DEF IInv, Here, Kept, FoundAgain
  <1> QED BY <1>1, Invariance, PTL

\* DtAsiRx.h:27-30: the reads get, whole and in order, what the scans counted.
THEOREM ReadsGetWhatIsCountedHolds == Spec => ReadsGetWhatIsCounted
  <1>1. Init => Fifo!Init
    BY DEF Init, Fifo!Init
  <1>2. IInv /\ [Next]_vars => [Fifo!PutAndTake \/ Fifo!Clear]_<<fifo, taken>>
    <2> SUFFICES ASSUME IInv, [Next]_vars
                 PROVE  [Fifo!PutAndTake \/ Fifo!Clear]_<<fifo, taken>>
      OBVIOUS
    <2>1. CASE Next
      BY <2>1, NextKeeps DEF Moves
    <2>2. CASE UNCHANGED vars
      BY <2>2 DEF vars
    <2> QED BY <2>1, <2>2
  <1> QED BY <1>1, <1>2, Invariance, PTL DEF Spec, ReadsGetWhatIsCounted, Fifo!Spec
================================================================================
