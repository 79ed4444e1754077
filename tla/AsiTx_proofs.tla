----------------------------- MODULE AsiTx_proofs -----------------------------
(***************************************************************************)
(* Proofs about AsiTx, for any sizes of the buffer, the FIFOs, a packet and *)
(* a write: types, that the bytes written reach the card each once and in  *)
(* order, that stuffing stays between packets, and what a detach leaves.    *)
(***************************************************************************)
EXTENDS AsiTx, FiniteSetTheorems, SequenceTheorems, TLAPS

--------------------------------------------------------------------------------
(* Induction over numbers and sequences.                                   *)

\* A set with 0 that goes on from each of its numbers below N goes up to N.
LEMMA UpTo ==
  ASSUME NEW N \in Nat, NEW S, 0 \in S, \A n \in 0..N - 1 : n \in S => n + 1 \in S
  PROVE  0..N \subseteq S
  <1> DEFINE Missing == (0..N) \ S
             Starts == {0..m : m \in Missing}
             Less == StrictSubsetOrdering(Nat)
  <1> SUFFICES ASSUME Missing # {} PROVE FALSE
    OBVIOUS
  <1>1. Starts \subseteq FiniteSubsetsOf(Nat) /\ Starts # {}
    <2>1. \A m \in Missing : 0..m \in FiniteSubsetsOf(Nat)
      BY FS_Interval DEF FiniteSubsetsOf
    <2> QED BY <2>1
  <1>2. IsWellFoundedOn(Less, FiniteSubsetsOf(Nat))
    <2> HIDE DEF Starts
    <2> QED BY ONLY FS_StrictSubsetOrderingWellFounded
  <1> HIDE DEF Less
  <1>3. PICK X \in Starts : \A Y \in Starts : ~(<<Y, X>> \in Less)
    <2> HIDE DEF Starts
    <2> QED BY ONLY <1>1, <1>2, WFMin
  <1>4. PICK m \in Missing : X = 0..m
    BY <1>3
  <1>5. m # 0 /\ m \in 1..N /\ m - 1 \in 0..N - 1
    OBVIOUS
  <1>6. m - 1 \in Missing
    <2>1. (m - 1) + 1 = m
      BY <1>5
    <2> QED BY <1>5, <2>1
  <1>7. 0..m - 1 \in Starts /\ 0..m - 1 \subseteq X /\ 0..m - 1 # X /\ X \subseteq Nat
    <2>1. m \in X /\ m \notin 0..m - 1
      BY <1>4, <1>5
    <2> QED BY <1>4, <1>5, <1>6, <2>1
  <1>8. <<0..m - 1, X>> \in Less
    BY <1>7 DEF Less, StrictSubsetOrdering
  <1> QED BY <1>3, <1>7, <1>8

\* A function that starts at s0 and takes the steps of step.
Steps(f, S, s0, step, N) ==
  /\ f \in [0..N -> S] /\ f[0] = s0
  /\ \A n \in 1..N : f[n] = step[n][f[n - 1]]

LEMMA StepsExist ==
  ASSUME NEW N \in Nat, NEW S, NEW s0 \in S, NEW step \in [1..N -> [S -> S]]
  PROVE  \E f : Steps(f, S, s0, step, N)
  <1> DEFINE T == {n \in 0..N : \E f : Steps(f, S, s0, step, n)}
  <1>1. 0 \in T
    <2> DEFINE f == [n \in 0..0 |-> s0]
    <2>1. Steps(f, S, s0, step, 0)
      BY DEF Steps
    <2> HIDE DEF f
    <2>2. \E h : Steps(h, S, s0, step, 0)
      BY <2>1
    <2> QED BY <2>2
  <1>2. ASSUME NEW n \in 0..N - 1, n \in T PROVE n + 1 \in T
    <2>1. PICK f : Steps(f, S, s0, step, n)
      BY <1>2
    <2> DEFINE next1 == step[n + 1][f[n]]
               g == [k \in 0..n + 1 |-> IF k = n + 1 THEN next1 ELSE f[k]]
    <2>2. n + 1 \in 0..N /\ n + 1 \in 1..N /\ f[n] \in S /\ f \in [0..n -> S] /\ f[0] = s0
      BY <2>1 DEF Steps
    <2>3. next1 \in S
      <3>1. step[n + 1] \in [S -> S]
        BY <2>2
      <3> QED BY <2>2, <3>1
    <2>4. \A k \in 1..n : f[k] = step[k][f[k - 1]]
      BY <2>1 DEF Steps
    <2>5. g \in [0..n + 1 -> S] /\ g[0] = s0
      <3> HIDE DEF next1
      <3> QED BY <2>2, <2>3
    <2>6. ASSUME NEW k \in 1..n + 1 PROVE g[k] = step[k][g[k - 1]]
      <3>1. CASE k = n + 1
        BY <2>2, <3>1
      <3>2. CASE k \in 1..n
        <4>1. k \in 0..n + 1 /\ k - 1 \in 0..n + 1 /\ k # n + 1 /\ k - 1 # n + 1
          BY <3>2
        <4>2. g[k] = f[k] /\ g[k - 1] = f[k - 1]
          <5> HIDE DEF next1
          <5> QED BY <4>1
        <4> HIDE DEF g
        <4> QED BY <2>4, <3>2, <4>2
      <3> QED BY <3>1, <3>2
    <2> HIDE DEF g
    <2>7. Steps(g, S, s0, step, n + 1)
      BY <2>5, <2>6 DEF Steps
    <2>8. \E h : Steps(h, S, s0, step, n + 1)
      BY <2>7
    <2> QED BY <2>2, <2>8
  <1>3. N \in T
    <2>1. 0..N \subseteq T
      <3> HIDE DEF T
      <3> QED BY <1>1, <1>2, UpTo
    <2>2. N \in 0..N
      OBVIOUS
    <2> HIDE DEF T
    <2> QED BY <2>1, <2>2
  <1> QED BY <1>3

\* A set with the empty sequence, and with a sequence each that has one element more.
LEMMA SeqInduction ==
  ASSUME NEW S, NEW T, <<>> \in T,
         \A s \in Seq(S), c \in S : s \in T => Append(s, c) \in T
  PROVE  Seq(S) \subseteq T
  <1> SUFFICES ASSUME NEW s \in Seq(S) PROVE s \in T
    OBVIOUS
  <1> DEFINE U == {n \in 0..Len(s) : SubSeq(s, 1, n) \in T}
  <1>1. 0 \in U
    <2>1. SubSeq(s, 1, 0) = <<>> /\ 0 \in 0..Len(s)
      OBVIOUS
    <2> QED BY <2>1
  <1>2. ASSUME NEW n \in 0..Len(s) - 1, n \in U PROVE n + 1 \in U
    <2>1. n + 1 \in 1..Len(s) /\ s[n + 1] \in S /\ SubSeq(s, 1, n) \in Seq(S)
      OBVIOUS
    <2>2. SubSeq(s, 1, n + 1) = Append(SubSeq(s, 1, n), s[n + 1])
      BY <2>1
    <2>3. n + 1 \in 0..Len(s) /\ SubSeq(s, 1, n) \in T
      BY <1>2, <2>1
    <2>4. Append(SubSeq(s, 1, n), s[n + 1]) \in T
      BY <2>1, <2>3
    <2> QED BY <2>2, <2>3, <2>4
  <1>3. Len(s) \in U
    <2>1. Len(s) \in Nat /\ Len(s) \in 0..Len(s)
      OBVIOUS
    <2> HIDE DEF U
    <2>2. 0..Len(s) \subseteq U
      BY <1>1, <1>2, <2>1, UpTo
    <2> QED BY <2>1, <2>2
  <1>4. SubSeq(s, 1, Len(s)) = s
    OBVIOUS
  <1> QED BY <1>3, <1>4

--------------------------------------------------------------------------------
(* Remainders.                                                             *)

LEMMA MulLess ==
  ASSUME NEW a \in Int, NEW b \in Int, NEW n \in Nat \ {0}, a < b
  PROVE  a * n + n <= b * n
  <1>1. (a + 1) * n <= b * n
    BY SMT
  <1>2. (a + 1) * n = a * n + n
    BY SMT
  <1> QED BY <1>1, <1>2, SMT

LEMMA DivMod ==
  ASSUME NEW x \in Int, NEW n \in Nat \ {0}
  PROVE  /\ x \div n \in Int /\ x % n \in 0..n - 1
         /\ x = (x \div n) * n + (x % n)
  BY SMT

LEMMA ModIs ==
  ASSUME NEW x \in Int, NEW n \in Nat \ {0}, NEW q \in Int, NEW r \in 0..n - 1, x = q * n + r
  PROVE  x % n = r /\ x \div n = q
  <1> DEFINE p == x \div n
             s == x % n
  <1>1. p \in Int /\ s \in 0..n - 1 /\ x = p * n + s
    BY DivMod
  <1> HIDE DEF p, s
  <1>2. p * n \in Int /\ q * n \in Int
    BY <1>1
  <1>3. ~(p < q)
    <2> SUFFICES ASSUME p < q PROVE FALSE
      OBVIOUS
    <2>1. p * n + n <= q * n
      BY <1>1, MulLess
    <2> QED BY <1>1, <1>2, <2>1
  <1>4. ~(q < p)
    <2> SUFFICES ASSUME q < p PROVE FALSE
      OBVIOUS
    <2>1. q * n + n <= p * n
      BY <1>1, MulLess
    <2> QED BY <1>1, <1>2, <2>1
  <1>5. p = q
    BY <1>1, <1>3, <1>4
  <1>6. s = r
    BY <1>1, <1>2, <1>5
  <1> QED BY <1>5, <1>6 DEF p, s

LEMMA ModMod ==
  ASSUME NEW a \in Int, NEW b \in Int, NEW n \in Nat \ {0}
  PROVE  ((a % n) + b) % n = (a + b) % n
  <1> DEFINE k == a \div n
             c == a % n
             y == c + b
             q == y \div n
             r == y % n
  <1>1. k \in Int /\ c \in 0..n - 1 /\ a = k * n + c
    BY DivMod
  <1>2. y \in Int
    BY <1>1
  <1>3. q \in Int /\ r \in 0..n - 1 /\ y = q * n + r
    <2> HIDE DEF y
    <2> QED BY <1>2, DivMod
  <1>4. k * n \in Int /\ q * n \in Int
    BY <1>1, <1>3
  <1> HIDE DEF k, q, r, c
  <1>5. a + b = k * n + y
    BY <1>1, <1>4
  <1>6. (k + q) * n = k * n + q * n
    BY <1>1, <1>3, SMT
  <1> HIDE DEF y
  <1>7. a + b = (k + q) * n + r
    BY <1>1, <1>2, <1>3, <1>4, <1>5, <1>6
  <1>8. k + q \in Int /\ a + b \in Int
    BY <1>1, <1>3
  <1>9. (a + b) % n = r
    BY <1>3, <1>7, <1>8, ModIs
  <1> QED BY <1>9 DEF r, y, c

LEMMA ModOfMod ==
  ASSUME NEW x \in Int, NEW n \in Nat \ {0}, NEW m \in Nat \ {0}, m % n = 0
  PROVE  (x % m) % n = x % n
  <1> DEFINE c == m \div n
             k == x \div m
             y == x % m
             q == y \div n
             r == y % n
  <1>1. c \in Int /\ m = c * n
    <2>1. c \in Int /\ m = c * n + (m % n)
      BY DivMod
    <2>2. c * n \in Int
      BY <2>1
    <2> QED BY <2>1, <2>2
  <1>2. k \in Int /\ y \in 0..m - 1 /\ x = k * m + y
    BY DivMod
  <1>3. q \in Int /\ r \in 0..n - 1 /\ y = q * n + r
    <2>1. y \in Int
      BY <1>2
    <2> QED BY <2>1, DivMod
  <1> HIDE DEF c, k, y, q, r
  <1>4. k * m = (k * c) * n
    BY <1>1, <1>2, SMT
  <1>5. k * c \in Int
    BY <1>1, <1>2
  <1>6. x = (k * c + q) * n + r
    BY <1>2, <1>3, <1>4, <1>5, SMT
  <1>7. x % n = r
    <2>1. k * c + q \in Int
      BY <1>3, <1>5
    <2> QED BY <1>3, <1>6, <2>1, ModIs
  <1> QED BY <1>7 DEF r, y

LEMMA ModLess ==
  ASSUME NEW n \in Nat \ {0}, NEW a \in 0..n - 1
  PROVE  a % n = a
  OBVIOUS

\* Of two numbers that are the same modulo n, the same further on are so too.
LEMMA ModSame ==
  ASSUME NEW a \in Int, NEW b \in Int, NEW d \in Int, NEW n \in Nat \ {0}, a % n = b % n
  PROVE  (a + d) % n = (b + d) % n
  <1>1. ((a % n) + d) % n = (a + d) % n
    BY ModMod
  <1>2. ((b % n) + d) % n = (b + d) % n
    BY ModMod
  <1> QED BY <1>1, <1>2

--------------------------------------------------------------------------------
(* The symbols of a set.                                                   *)

\* f goes through the first N symbols of s and keeps those in S.
Keeps(f, s, S, N) ==
  /\ f[0] = <<>>
  /\ \A n \in 1..N : f[n] = IF s[n] \in S THEN Append(f[n - 1], s[n]) ELSE f[n - 1]

LEMMA KeepsOnce ==
  ASSUME NEW T, NEW s \in Seq(T), NEW S, NEW N \in Nat, NEW f, NEW g, NEW t,
         \A n \in 1..N : t[n] = s[n], Keeps(f, s, S, N), Keeps(g, t, S, N)
  PROVE  f[N] = g[N]
  <1> DEFINE U == {n \in 0..N : f[n] = g[n]}
  <1>1. 0 \in U
    BY DEF Keeps
  <1>2. ASSUME NEW n \in 0..N - 1, n \in U PROVE n + 1 \in U
    <2>1. n + 1 \in 1..N /\ (n + 1) - 1 = n
      OBVIOUS
    <2>2. f[n + 1] = IF s[n + 1] \in S THEN Append(f[n], s[n + 1]) ELSE f[n]
      BY <2>1 DEF Keeps
    <2>3. g[n + 1] = IF t[n + 1] \in S THEN Append(g[n], t[n + 1]) ELSE g[n]
      BY <2>1 DEF Keeps
    <2>4. t[n + 1] = s[n + 1] /\ f[n] = g[n] /\ n + 1 \in 0..N
      BY <1>2, <2>1
    <2>5. f[n + 1] = g[n + 1]
      BY <2>2, <2>3, <2>4
    <2> QED BY <2>4, <2>5
  <1>3. 0..N \subseteq U
    <2> HIDE DEF U
    <2> QED BY <1>1, <1>2, UpTo
  <1>4. N \in 0..N
    OBVIOUS
  <1> QED BY <1>3, <1>4

LEMMA OnlyIs ==
  ASSUME NEW T, NEW s \in Seq(T), NEW S
  PROVE  \E f \in [0..Len(s) -> Seq(T)] : Keeps(f, s, S, Len(s)) /\ Only(s, S) = f[Len(s)]
  <1> DEFINE N == Len(s)
             step == [n \in 1..N |-> [r \in Seq(T) |-> IF s[n] \in S THEN Append(r, s[n]) ELSE r]]
             Rec(f) == f = [n \in 0..Len(s) |->
                              IF n = 0 THEN <<>>
                              ELSE IF s[n] \in S THEN Append(f[n - 1], s[n]) ELSE f[n - 1]]
             upTo == CHOOSE f : Rec(f)
  <1>1. N \in Nat /\ <<>> \in Seq(T) /\ \A n \in 1..N : s[n] \in T
    OBVIOUS
  <1>2. step \in [1..N -> [Seq(T) -> Seq(T)]]
    <2>1. \A n \in 1..N, r \in Seq(T) : (IF s[n] \in S THEN Append(r, s[n]) ELSE r) \in Seq(T)
      BY <1>1
    <2> QED BY <2>1
  <1>3. PICK f : Steps(f, Seq(T), <<>>, step, N)
    <2> HIDE DEF step, N
    <2> QED BY <1>1, <1>2, StepsExist
  <1>4. f \in [0..N -> Seq(T)] /\ f[0] = <<>>
    BY <1>3 DEF Steps
  <1>5. ASSUME NEW n \in 1..N
        PROVE  f[n] = IF s[n] \in S THEN Append(f[n - 1], s[n]) ELSE f[n - 1]
    <2>1. f[n - 1] \in Seq(T)
      BY <1>4
    <2>2. f[n] = step[n][f[n - 1]]
      BY <1>3 DEF Steps
    <2> QED BY <2>1, <2>2
  <1>6. Rec(f)
    <2>1. ASSUME NEW n \in 0..Len(s)
          PROVE  f[n] = IF n = 0 THEN <<>>
                        ELSE IF s[n] \in S THEN Append(f[n - 1], s[n]) ELSE f[n - 1]
      <3>1. n = 0 \/ n \in 1..N
        BY <1>1
      <3>2. CASE n = 0
        BY <1>4, <3>2
      <3>3. CASE n \in 1..N
        <4>1. n # 0
          BY <3>3
        <4> QED BY <1>5, <3>3, <4>1
      <3> QED BY <3>1, <3>2, <3>3
    <2>2. f = [n \in 0..Len(s) |-> f[n]]
      BY SMTT(30), <1>4
    <2> HIDE DEF step
    <2> QED BY <2>1, <2>2, Zenon
  <1>7. Rec(upTo)
    BY <1>6, Zenon
  <1>8. Only(s, S) = upTo[N]
    BY DEF Only
  <1> HIDE DEF upTo, step
  <1>9. Keeps(upTo, s, S, N)
    <2>1. ASSUME NEW n \in 0..N
          PROVE  upTo[n] = IF n = 0 THEN <<>>
                           ELSE IF s[n] \in S THEN Append(upTo[n - 1], s[n]) ELSE upTo[n - 1]
      BY <1>7
    <2>2. 0 \in 0..N /\ \A n \in 1..N : n \in 0..N /\ n # 0
      BY <1>1
    <2> QED BY <2>1, <2>2 DEF Keeps
  <1>10. Keeps(f, s, S, N)
    BY <1>4, <1>5 DEF Keeps
  <1>11. upTo[N] = f[N]
    <2> HIDE DEF N
    <2> QED BY <1>1, <1>9, <1>10, KeepsOnce
  <1> QED BY <1>4, <1>8, <1>10, <1>11

LEMMA OnlyEmpty ==
  ASSUME NEW S
  PROVE  Only(<<>>, S) = <<>>
  <1>1. <<>> \in Seq(Int) /\ Len(<<>>) = 0
    OBVIOUS
  <1>2. PICK f : Keeps(f, <<>>, S, Len(<<>>)) /\ Only(<<>>, S) = f[Len(<<>>)]
    BY ZenonT(60), <1>1, OnlyIs
  <1>3. f[0] = <<>>
    BY <1>2 DEF Keeps
  <1> QED BY <1>1, <1>2, <1>3

LEMMA OnlyAppend ==
  ASSUME NEW T, NEW s \in Seq(T), NEW c \in T, NEW S
  PROVE  Only(Append(s, c), S) = IF c \in S THEN Append(Only(s, S), c) ELSE Only(s, S)
  <1> DEFINE t == Append(s, c)
             N == Len(s)
  <1>1. t \in Seq(T) /\ Len(t) = N + 1 /\ t[N + 1] = c /\ N \in Nat /\ \A n \in 1..N : t[n] = s[n]
    OBVIOUS
  <1> HIDE DEF t
  <1>2. PICK f \in [0..N -> Seq(T)] : Keeps(f, s, S, N) /\ Only(s, S) = f[N]
    BY OnlyIs
  <1>3. PICK g : Keeps(g, t, S, N + 1) /\ Only(t, S) = g[N + 1]
    BY <1>1, OnlyIs
  <1>4. Keeps(g, t, S, N)
    <2>1. 1..N \subseteq 1..N + 1
      BY <1>1
    <2> QED BY <1>3, <2>1 DEF Keeps
  <1>5. f[N] = g[N]
    <2>1. Keeps(f, s, S, N)
      BY <1>2
    <2> HIDE DEF N
    <2> QED BY <1>1, <1>4, <2>1, KeepsOnce
  <1>6. g[N + 1] = IF t[N + 1] \in S THEN Append(g[N], t[N + 1]) ELSE g[N]
    <2>1. N + 1 \in 1..N + 1 /\ (N + 1) - 1 = N
      BY <1>1
    <2> QED BY <1>3, <2>1 DEF Keeps
  <1> QED BY <1>1, <1>2, <1>3, <1>5, <1>6 DEF t

LEMMA OnlyType ==
  ASSUME NEW T, NEW s \in Seq(T), NEW S
  PROVE  Only(s, S) \in Seq(T)
  <1>1. Len(s) \in 0..Len(s)
    OBVIOUS
  <1> QED BY <1>1, OnlyIs

--------------------------------------------------------------------------------
(* What the symbols of the buffer are.                                     *)

\* Where an encoder is: the number of the program's next byte, not taken modulo Numbers, and the
\* index in the packet.
Points == [pos : Nat, index : 0..Packet - 1]
Point(p, i) == [pos |-> p, index |-> i]

\* A symbol c takes the encoder from a to b: K28, a byte of the program, or one of a null packet,
\* which lies between packets of the program; once a write was cut off, packets may be broken.
Reads(ct, a, c, b) ==
  \/ c = K28 /\ b = a
  \/ c \in Nat /\ c = a.pos % Numbers /\ b = Point(a.pos + 1, (a.index + 1) % Packet)
       /\ (ct \/ a.index = a.pos % Packet)
  \/ c < K28 /\ b = Point(a.pos, (a.index + 1) % Packet)
       /\ (ct \/ (c = Null(a.index) /\ a.pos % Packet = 0))

Runs(ct, s, a, b) ==
  \E f \in [0..Len(s) -> Points] :
    /\ f[0] = a /\ f[Len(s)] = b
    /\ \A i \in 1..Len(s) : Reads(ct, f[i - 1], s[i], f[i])

LEMMA Sizes ==
  /\ {Size, Word, BurstSize, Block, MinFree, Target, Packet, Numbers, FifoSize} \subseteq Nat \ {0}
  /\ Lead \in Nat /\ WordBytes \in 1..Packet - 1 /\ BurstSize >= Packet + Lead
  /\ MaxLoad \in Nat /\ MaxLoad = Size - Word /\ MaxLoad <= Size - 1
  /\ MaxLoad >= MinFree + Target /\ MaxLoad >= Target + Packet + Lead
  /\ FifoSize >= Block + MaxLoad /\ FifoSize >= Block + Target + BurstSize
  /\ Numbers % Packet = 0
  BY AsiTxAssumption DEF MaxLoad

\* The buffer is of whole data words, and so is what is filled of it.
LEMMA WordFits == Word <= MaxLoad
  <1> DEFINE k == Size \div Word
  <1>1. Size \in Nat /\ Word \in Nat \ {0} /\ Size % Word = 0 /\ Size > Word /\ MaxLoad = Size - Word
    BY Sizes, AsiTxAssumption
  <1>2. k \in Int /\ Size = k * Word
    <2>1. k \in Int /\ Size = k * Word + (Size % Word)
      BY <1>1, DivMod
    <2>2. k * Word \in Int
      BY <1>1, <2>1
    <2> QED BY <1>1, <2>1, <2>2
  <1> HIDE DEF k
  <1>3. 1 < k
    <2> SUFFICES ASSUME k <= 1 PROVE FALSE
      BY <1>2
    <2>1. k * Word <= Word
      <3>1. CASE k = 1
        BY <1>1, <3>1
      <3>2. CASE k < 1
        <4>1. k * Word + Word <= 1 * Word
          BY <1>1, <1>2, <3>2, MulLess
        <4>2. k * Word \in Int /\ 1 * Word = Word
          BY <1>1, <1>2
        <4> QED BY <1>1, <4>1, <4>2
      <3> QED BY <1>2, <3>1, <3>2
    <2> QED BY <1>1, <1>2, <2>1
  <1>4. 1 * Word + Word <= k * Word
    BY <1>1, <1>2, <1>3, MulLess
  <1>5. 1 * Word = Word
    BY <1>1
  <1> QED BY <1>1, <1>2, <1>4, <1>5

LEMMA CodesAre ==
  /\ Codes \subseteq Int /\ K28 \in Codes /\ K28 = -1
  /\ \A i \in 0..Packet - 1 : Null(i) \in Codes /\ Null(i) < K28 /\ Null(i) = -2 - i
  /\ \A i \in Int : i % Numbers \in Codes /\ i % Numbers \in Nat
  <1>1. \A i \in Int : i % Numbers \in 0..Numbers - 1
    BY Sizes, DivMod
  <1>2. Codes = (-1 - Packet)..Numbers - 1
    BY Sizes, SMTT(30) DEF Codes, Null
  <1>3. ASSUME NEW i \in 0..Packet - 1
        PROVE  Null(i) \in Codes /\ Null(i) < K28 /\ Null(i) = -2 - i
    <2>1. Packet \in Nat /\ Numbers \in Nat
      BY Sizes
    <2> QED BY <1>2, <2>1 DEF Null, K28
  <1>4. Codes \subseteq Int /\ K28 \in Codes /\ 0..Numbers - 1 \subseteq Codes
    <2>1. Packet \in Nat \ {0} /\ Numbers \in Nat \ {0}
      BY Sizes
    <2> QED BY <1>2, <2>1 DEF K28
  <1>5. 0..Numbers - 1 \subseteq Nat
    BY Sizes
  <1>6. \A i \in Int : i % Numbers \in Codes /\ i % Numbers \in Nat
    BY <1>1, <1>4, <1>5
  <1> QED BY <1>3, <1>4, <1>6 DEF K28

LEMMA RunsEmpty ==
  ASSUME NEW ct, NEW a \in Points
  PROVE  Runs(ct, <<>>, a, a)
  <1> DEFINE f == [n \in 0..0 |-> a]
  <1>1. f \in [0..Len(<<>>) -> Points] /\ f[0] = a /\ f[Len(<<>>)] = a /\ 1..Len(<<>>) = {}
    OBVIOUS
  <1> HIDE DEF f
  <1> QED BY <1>1 DEF Runs

LEMMA RunsNothing ==
  ASSUME NEW ct, NEW a, NEW b, Runs(ct, <<>>, a, b)
  PROVE  b = a
  <1>1. Len(<<>>) = 0
    OBVIOUS
  <1> QED BY <1>1 DEF Runs

LEMMA RunsAppend ==
  ASSUME NEW ct, NEW s \in Seq(Codes), NEW c \in Codes, NEW a, NEW b, NEW d \in Points,
         Runs(ct, s, a, b), Reads(ct, b, c, d)
  PROVE  Runs(ct, Append(s, c), a, d)
  <1> DEFINE N == Len(s)
             t == Append(s, c)
  <1>1. N \in Nat /\ Len(t) = N + 1 /\ t[N + 1] = c /\ \A i \in 1..N : t[i] = s[i]
    OBVIOUS
  <1>2. PICK f \in [0..N -> Points] :
          f[0] = a /\ f[N] = b /\ \A i \in 1..N : Reads(ct, f[i - 1], s[i], f[i])
    BY DEF Runs
  <1> DEFINE g == [n \in 0..N + 1 |-> IF n = N + 1 THEN d ELSE f[n]]
  <1> HIDE DEF N, t
  <1>3. g \in [0..N + 1 -> Points] /\ g[0] = a /\ g[N + 1] = d
    BY <1>1, <1>2
  <1>4. ASSUME NEW i \in 1..N + 1 PROVE Reads(ct, g[i - 1], t[i], g[i])
    <2>1. CASE i = N + 1
      <3>1. i - 1 = N /\ i - 1 \in 0..N + 1 /\ i \in 0..N + 1 /\ i - 1 # N + 1
        BY <1>1, <2>1
      <3>2. g[i - 1] = b /\ g[i] = d /\ t[i] = c
        BY <1>1, <1>2, <2>1, <3>1
      <3> QED BY <3>2
    <2>2. CASE i \in 1..N
      <3>1. i \in 0..N + 1 /\ i - 1 \in 0..N + 1 /\ i # N + 1 /\ i - 1 # N + 1
        BY <1>1, <2>2
      <3>2. g[i - 1] = f[i - 1] /\ g[i] = f[i] /\ t[i] = s[i]
        BY <1>1, <2>2, <3>1
      <3> QED BY <1>2, <2>2, <3>2
    <2> QED BY <1>1, <2>1, <2>2
  <1> HIDE DEF g
  <1>5. \E h \in [0..Len(t) -> Points] :
          h[0] = a /\ h[Len(t)] = d /\ \A i \in 1..Len(t) : Reads(ct, h[i - 1], t[i], h[i])
    BY <1>1, <1>3, <1>4
  <1> QED BY <1>5 DEF Runs, t

LEMMA RunsLast ==
  ASSUME NEW ct, NEW s \in Seq(Codes), NEW c \in Codes, NEW a, NEW d,
         Runs(ct, Append(s, c), a, d)
  PROVE  a \in Points /\ d \in Points /\ \E b \in Points : Runs(ct, s, a, b) /\ Reads(ct, b, c, d)
  <1> DEFINE N == Len(s)
             t == Append(s, c)
  <1>1. N \in Nat /\ Len(t) = N + 1 /\ t[N + 1] = c /\ \A i \in 1..N : t[i] = s[i]
    OBVIOUS
  <1> HIDE DEF t
  <1>2. PICK f \in [0..N + 1 -> Points] :
          f[0] = a /\ f[N + 1] = d /\ \A i \in 1..N + 1 : Reads(ct, f[i - 1], t[i], f[i])
    BY <1>1 DEF Runs, t
  <1> DEFINE g == [n \in 0..N |-> f[n]]
  <1> HIDE DEF N
  <1>3. g \in [0..N -> Points] /\ g[0] = a /\ g[N] = f[N] /\ f[N] \in Points
    BY <1>1, <1>2
  <1>4. ASSUME NEW i \in 1..N PROVE Reads(ct, g[i - 1], s[i], g[i])
    <2>1. i \in 0..N /\ i - 1 \in 0..N /\ i \in 1..N + 1
      BY <1>1
    <2>2. g[i - 1] = f[i - 1] /\ g[i] = f[i] /\ t[i] = s[i]
      BY <1>1, <2>1
    <2> QED BY <1>2, <2>1, <2>2
  <1> HIDE DEF g
  <1>5. Runs(ct, s, a, f[N])
    BY <1>3, <1>4 DEF Runs, N
  <1>6. Reads(ct, f[N], c, d)
    <2>1. N + 1 \in 1..N + 1 /\ (N + 1) - 1 = N
      BY <1>1
    <2> QED BY <1>1, <1>2, <2>1
  <1>7. 0 \in 0..N + 1 /\ N + 1 \in 0..N + 1
    BY <1>1
  <1> QED BY <1>2, <1>3, <1>5, <1>6, <1>7

LEMMA ConcatAppend ==
  ASSUME NEW S, NEW s \in Seq(S), NEW u \in Seq(S), NEW c \in S
  PROVE  s \o Append(u, c) = Append(s \o u, c) /\ s \o u \in Seq(S)
  OBVIOUS

LEMMA RunsConcat ==
  ASSUME NEW ct, NEW s \in Seq(Codes), NEW u \in Seq(Codes), NEW a, NEW b, NEW d,
         Runs(ct, s, a, b), Runs(ct, u, b, d)
  PROVE  Runs(ct, s \o u, a, d)
  <1> DEFINE T == {v \in Seq(Codes) : \A x : Runs(ct, v, b, x) => Runs(ct, s \o v, a, x)}
  <1>1. <<>> \in T
    <2>1. s \o <<>> = s /\ <<>> \in Seq(Codes)
      OBVIOUS
    <2>2. \A x : Runs(ct, <<>>, b, x) => x = b
      BY RunsNothing
    <2> QED BY <2>1, <2>2
  <1>2. ASSUME NEW v \in Seq(Codes), NEW c \in Codes, v \in T PROVE Append(v, c) \in T
    <2> SUFFICES ASSUME NEW x, Runs(ct, Append(v, c), b, x)
                 PROVE  Runs(ct, s \o Append(v, c), a, x)
      <3>1. Append(v, c) \in Seq(Codes)
        OBVIOUS
      <3> QED BY <3>1
    <2>1. PICK y \in Points : Runs(ct, v, b, y) /\ Reads(ct, y, c, x)
      BY RunsLast
    <2>2. x \in Points
      BY RunsLast
    <2>3. Runs(ct, s \o v, a, y)
      BY <1>2, <2>1
    <2>4. s \o v \in Seq(Codes) /\ s \o Append(v, c) = Append(s \o v, c)
      BY ConcatAppend
    <2>5. Runs(ct, Append(s \o v, c), a, x)
      BY <2>1, <2>2, <2>3, <2>4, RunsAppend
    <2> QED BY <2>4, <2>5
  <1>3. Seq(Codes) \subseteq T
    <2> HIDE DEF T
    <2> QED BY <1>1, <1>2, SeqInduction
  <1> QED BY <1>3

LEMMA RunsSplit ==
  ASSUME NEW ct, NEW s \in Seq(Codes), NEW u \in Seq(Codes), NEW a, NEW d,
         Runs(ct, s \o u, a, d)
  PROVE  \E b \in Points : Runs(ct, s, a, b) /\ Runs(ct, u, b, d)
  <1> DEFINE T == {v \in Seq(Codes) : \A x : Runs(ct, s \o v, a, x) =>
                                        \E b \in Points : Runs(ct, s, a, b) /\ Runs(ct, v, b, x)}
  <1>1. <<>> \in T
    <2> SUFFICES ASSUME NEW x, Runs(ct, s \o <<>>, a, x)
                 PROVE  \E b \in Points : Runs(ct, s, a, b) /\ Runs(ct, <<>>, b, x)
      <3>1. <<>> \in Seq(Codes)
        OBVIOUS
      <3> QED BY <3>1
    <2>1. s \o <<>> = s
      OBVIOUS
    <2>2. x \in Points
      <3>1. PICK f \in [0..Len(s) -> Points] : f[Len(s)] = x
        BY <2>1 DEF Runs
      <3>2. Len(s) \in 0..Len(s)
        OBVIOUS
      <3> QED BY <3>1, <3>2
    <2>3. Runs(ct, <<>>, x, x)
      BY <2>2, RunsEmpty
    <2> QED BY <2>1, <2>2, <2>3
  <1>2. ASSUME NEW v \in Seq(Codes), NEW c \in Codes, v \in T PROVE Append(v, c) \in T
    <2> SUFFICES ASSUME NEW x, Runs(ct, s \o Append(v, c), a, x)
                 PROVE  \E b \in Points : Runs(ct, s, a, b) /\ Runs(ct, Append(v, c), b, x)
      <3>1. Append(v, c) \in Seq(Codes)
        OBVIOUS
      <3> QED BY <3>1
    <2>1. s \o v \in Seq(Codes) /\ s \o Append(v, c) = Append(s \o v, c)
      BY ConcatAppend
    <2>2. Runs(ct, Append(s \o v, c), a, x)
      BY <2>1
    <2>3. x \in Points /\ \E y \in Points : Runs(ct, s \o v, a, y) /\ Reads(ct, y, c, x)
      BY <2>1, <2>2, RunsLast
    <2>4. PICK y \in Points : Runs(ct, s \o v, a, y) /\ Reads(ct, y, c, x)
      BY <2>3
    <2>5. PICK b \in Points : Runs(ct, s, a, b) /\ Runs(ct, v, b, y)
      BY <1>2, <2>4
    <2>6. Runs(ct, Append(v, c), b, x)
      BY <2>3, <2>4, <2>5, RunsAppend
    <2> QED BY <2>5, <2>6
  <1>3. Seq(Codes) \subseteq T
    <2> HIDE DEF T
    <2> QED BY <1>1, <1>2, SeqInduction
  <1> QED BY <1>3

LEMMA RunsCut ==
  ASSUME NEW s, NEW a, NEW b, NEW old \in BOOLEAN, NEW ct \in BOOLEAN, old => ct, Runs(old, s, a, b)
  PROVE  Runs(ct, s, a, b)
  <1>1. \A x, c, y : Reads(old, x, c, y) => Reads(ct, x, c, y)
    BY DEF Reads
  <1> QED BY <1>1 DEF Runs

LEMMA RunsPoints ==
  ASSUME NEW ct, NEW s \in Seq(Codes), NEW a, NEW b, Runs(ct, s, a, b)
  PROVE  a \in Points /\ b \in Points
  <1>1. PICK f \in [0..Len(s) -> Points] : f[0] = a /\ f[Len(s)] = b
    BY DEF Runs
  <1>2. 0 \in 0..Len(s) /\ Len(s) \in 0..Len(s)
    OBVIOUS
  <1> QED BY <1>1, <1>2

LEMMA RunsOnK28 ==
  ASSUME NEW ct, NEW s \in Seq(Codes), NEW a \in Points, \A i \in 1..Len(s) : s[i] = K28
  PROVE  Runs(ct, s, a, a)
  <1>1. ASSUME NEW i \in 1..Len(s) PROVE Reads(ct, a, s[i], a)
    BY <1>1 DEF Reads
  <1> DEFINE f == [n \in 0..Len(s) |-> a]
  <1>2. f \in [0..Len(s) -> Points] /\ f[0] = a /\ f[Len(s)] = a
    <2>1. 0 \in 0..Len(s) /\ Len(s) \in 0..Len(s)
      OBVIOUS
    <2> QED BY <2>1
  <1>3. \A i \in 1..Len(s) : f[i - 1] = a /\ f[i] = a
    OBVIOUS
  <1> HIDE DEF f
  <1> QED BY <1>1, <1>2, <1>3 DEF Runs

\* The bytes of s are those of the program from number from on.
Numbered(s, from) == \A i \in 1..Len(s) : s[i] = (from + i - 1) % Numbers

\* The program's bytes that are read are as many as the number goes on, and no more than the symbols.
LEMMA RunsData ==
  ASSUME NEW ct, NEW s \in Seq(Codes), NEW a, NEW b, Runs(ct, s, a, b)
  PROVE  /\ b.pos = a.pos + Len(Data(s)) /\ Len(Data(s)) <= Len(s) /\ Data(s) \in Seq(Codes)
         /\ Numbered(Data(s), a.pos)
  <1> DEFINE P(v, x) ==
        /\ x.pos = a.pos + Len(Data(v)) /\ Len(Data(v)) <= Len(v)
        /\ Numbered(Data(v), a.pos)
      T == {v \in Seq(Codes) : \A x : Runs(ct, v, a, x) => P(v, x)}
  <1>0. a \in Points
    BY RunsPoints
  <1>1. <<>> \in T
    <2>1. Data(<<>>) = <<>> /\ Len(<<>>) = 0 /\ 1..0 = {} /\ <<>> \in Seq(Codes)
      BY OnlyEmpty DEF Data
    <2>2. a.pos + 0 = a.pos
      BY <1>0 DEF Points
    <2>3. \A x : Runs(ct, <<>>, a, x) => x = a
      BY RunsNothing
    <2>4. Numbered(<<>>, a.pos)
      BY <2>1 DEF Numbered
    <2> QED BY <2>1, <2>2, <2>3, <2>4
  <1>2. ASSUME NEW v \in Seq(Codes), NEW c \in Codes, v \in T PROVE Append(v, c) \in T
    <2> SUFFICES ASSUME NEW x, Runs(ct, Append(v, c), a, x) PROVE P(Append(v, c), x)
      <3>1. Append(v, c) \in Seq(Codes)
        OBVIOUS
      <3> QED BY <3>1
    <2>1. PICK y \in Points : Runs(ct, v, a, y) /\ Reads(ct, y, c, x)
      BY RunsLast
    <2>2. P(v, y)
      BY <1>2, <2>1
    <2>3. Data(Append(v, c)) = IF c \in Nat THEN Append(Data(v), c) ELSE Data(v)
      BY OnlyAppend DEF Data
    <2>4. Data(v) \in Seq(Codes) /\ Len(Append(v, c)) = Len(v) + 1
      BY OnlyType DEF Data
    <2>5. y.pos \in Nat /\ a.pos \in Nat /\ Len(Data(v)) \in Nat /\ Len(v) \in Nat
      BY <1>0, <2>1, <2>4 DEF Points
    <2>6. CASE c \in Nat
      <3> DEFINE L == Len(Data(v))
                 w == Append(Data(v), c)
      <3>1. c = y.pos % Numbers /\ x.pos = y.pos + 1
        BY <2>1, <2>6, CodesAre DEF Reads, Point
      <3>2. Data(Append(v, c)) = w /\ Len(w) = L + 1 /\ w[L + 1] = c
            /\ \A i \in 1..L : w[i] = Data(v)[i]
        BY <2>3, <2>4, <2>6
      <3>3. ASSUME NEW i \in 1..L + 1 PROVE w[i] = (a.pos + i - 1) % Numbers
        <4>1. CASE i \in 1..L
          BY <2>2, <3>2, <4>1 DEF Numbered
        <4>2. CASE i = L + 1
          <5>1. a.pos + i - 1 = y.pos
            BY <2>2, <2>5, <4>2
          <5> QED BY <3>1, <3>2, <4>2, <5>1
        <4> QED BY <2>5, <4>1, <4>2
      <3>4. y.pos = a.pos + L /\ L <= Len(v)
        BY <2>2
      <3> HIDE DEF w
      <3>5. L \in Nat
        BY <2>5
      <3> HIDE DEF L
      <3>6. x.pos = a.pos + (L + 1) /\ L + 1 <= Len(v) + 1
        <4>1. x.pos = y.pos + 1
          BY <3>1, Zenon
        <4> QED BY <2>5, <3>4, <3>5, <4>1, SMTT(30)
      <3>7. Numbered(w, a.pos)
        BY <3>2, <3>3 DEF Numbered
      <3> QED BY <2>4, <3>2, <3>6, <3>7
    <2>7. CASE c \notin Nat
      <3>1. x.pos = y.pos
        BY <2>1, <2>7, CodesAre DEF Reads, Point
      <3>2. Data(Append(v, c)) = Data(v)
        BY <2>3, <2>7
      <3> QED BY <2>2, <2>4, <2>5, <3>1, <3>2
    <2> QED BY <2>6, <2>7
  <1>3. Seq(Codes) \subseteq T
    <2> HIDE DEF T
    <2> QED BY <1>1, <1>2, SeqInduction
  <1>4. P(s, b)
    BY <1>3
  <1> QED BY <1>4, OnlyType DEF Data

LEMMA DataOfSymbols ==
  ASSUME NEW s \in Seq(Codes)
  PROVE  Data(Only(s, Int \ {K28})) = Data(s)
  <1> DEFINE Z(v) == Only(v, Int \ {K28})
             T == {v \in Seq(Codes) : Data(Z(v)) = Data(v)}
  <1>1. <<>> \in T
    <2>1. Z(<<>>) = <<>> /\ <<>> \in Seq(Codes)
      BY OnlyEmpty
    <2> QED BY <2>1
  <1>2. ASSUME NEW v \in Seq(Codes), NEW c \in Codes, v \in T PROVE Append(v, c) \in T
    <2>1. Z(Append(v, c)) = IF c \in Int \ {K28} THEN Append(Z(v), c) ELSE Z(v)
      BY OnlyAppend
    <2>2. Data(Append(v, c)) = IF c \in Nat THEN Append(Data(v), c) ELSE Data(v)
      BY OnlyAppend DEF Data
    <2>3. Z(v) \in Seq(Codes)
      BY OnlyType
    <2>4. Data(Append(Z(v), c)) = IF c \in Nat THEN Append(Data(Z(v)), c) ELSE Data(Z(v))
      BY <2>3, OnlyAppend DEF Data
    <2>5. Data(Z(v)) = Data(v) /\ Append(v, c) \in Seq(Codes)
      BY <1>2
    <2>6. c \in Int /\ (c \in Nat => c # K28)
      BY CodesAre
    <2> HIDE DEF Z
    <2>7. Data(Z(Append(v, c))) = Data(Append(v, c))
      <3>1. CASE c \in Nat
        BY <2>1, <2>2, <2>4, <2>5, <2>6, <3>1
      <3>2. CASE c \notin Nat
        BY <2>1, <2>2, <2>4, <2>5, <2>6, <3>2
      <3> QED BY <3>1, <3>2
    <2> QED BY <2>5, <2>7
  <1>3. Seq(Codes) \subseteq T
    <2> HIDE DEF T
    <2> QED BY <1>1, <1>2, SeqInduction
  <1> QED BY <1>3

\* The bytes of null packets among symbols z lie between packets, when z begins at byte pos.
Between(z, pos) ==
  \A i \in 1..Len(z) : z[i] < 0 =>
    /\ (pos + Len(Data(First(z, i - 1)))) % Packet = 0
    /\ (i < Len(z) /\ z[i + 1] >= 0 => z[i] = Null(Packet - 1))

LEMMA BetweenAppend ==
  ASSUME NEW z \in Seq(Codes), NEW c \in Codes, NEW pos, Between(z, pos),
         c < 0 => (pos + Len(Data(z))) % Packet = 0,
         c >= 0 /\ z # <<>> /\ z[Len(z)] < 0 => z[Len(z)] = Null(Packet - 1)
  PROVE  Between(Append(z, c), pos)
  <1> DEFINE N == Len(z)
             w == Append(z, c)
  <1>1. N \in Nat /\ Len(w) = N + 1 /\ w[N + 1] = c /\ \A i \in 1..N : w[i] = z[i]
    OBVIOUS
  <1>2. \A i \in 1..N + 1 : First(w, i - 1) = IF i = N + 1 THEN z ELSE First(z, i - 1)
    <2> TAKE i \in 1..N + 1
    <2>1. Least(i - 1, Len(w)) = i - 1 /\ Least(i - 1, Len(z)) = i - 1
      BY <1>1 DEF Least
    <2>2. SubSeq(w, 1, i - 1) = SubSeq(z, 1, i - 1) /\ SubSeq(z, 1, N) = z
      BY <1>1
    <2> QED BY <1>1, <2>1, <2>2 DEF First
  <1> HIDE DEF w
  <1>3. ASSUME NEW i \in 1..N + 1, w[i] < 0
        PROVE  /\ (pos + Len(Data(First(w, i - 1)))) % Packet = 0
               /\ (i < N + 1 /\ w[i + 1] >= 0 => w[i] = Null(Packet - 1))
    <2>1. CASE i = N + 1
      <3>1. c < 0 /\ First(w, i - 1) = z /\ ~(i < N + 1)
        BY <1>1, <1>2, <1>3, <2>1
      <3> QED BY <3>1
    <2>2. CASE i \in 1..N - 1
      <3>1. i \in 1..N /\ i + 1 \in 1..N /\ i < N /\ i # N + 1
        BY <1>1, <2>2
      <3>2. w[i] = z[i] /\ w[i + 1] = z[i + 1] /\ First(w, i - 1) = First(z, i - 1)
        BY <1>1, <1>2, <3>1
      <3> QED BY <1>3, <3>1, <3>2 DEF Between
    <2>3. CASE i = N
      <3>1. i \in 1..N /\ i # N + 1 /\ z # <<>>
        BY <1>1, <2>3
      <3>2. w[i] = z[N] /\ w[i + 1] = c /\ First(w, i - 1) = First(z, i - 1)
        BY <1>1, <1>2, <2>3, <3>1
      <3>3. (pos + Len(Data(First(z, i - 1)))) % Packet = 0
        BY <1>3, <2>3, <3>1, <3>2 DEF Between
      <3> QED BY <1>3, <3>1, <3>2, <3>3
    <2> QED BY <1>1, <2>1, <2>2, <2>3
  <1> QED BY <1>1, <1>3 DEF Between, w

LEMMA RunsBetween ==
  ASSUME NEW ct \in BOOLEAN, ~ct, NEW s \in Seq(Codes), NEW a, NEW b, Runs(ct, s, a, b)
  PROVE  Between(Only(s, Int \ {K28}), a.pos)
  <1> DEFINE Z(v) == Only(v, Int \ {K28})
             Ends(v, x) == Z(v) # <<>> /\ Z(v)[Len(Z(v))] < 0 =>
                             x.pos % Packet = 0 /\ (x.index = 0 => Z(v)[Len(Z(v))] = Null(Packet - 1))
             P(v, x) == Between(Z(v), a.pos) /\ Ends(v, x)
             T == {v \in Seq(Codes) : \A x : Runs(ct, v, a, x) => P(v, x)}
  <1>1. <<>> \in T
    <2>1. Z(<<>>) = <<>> /\ <<>> \in Seq(Codes) /\ Len(<<>>) = 0 /\ 1..0 = {}
      BY OnlyEmpty
    <2>2. Between(<<>>, a.pos)
      BY <2>1 DEF Between
    <2> QED BY <2>1, <2>2
  <1>2. ASSUME NEW v \in Seq(Codes), NEW c \in Codes, v \in T PROVE Append(v, c) \in T
    <2> SUFFICES ASSUME NEW x, Runs(ct, Append(v, c), a, x) PROVE P(Append(v, c), x)
      <3>1. Append(v, c) \in Seq(Codes)
        OBVIOUS
      <3> QED BY <3>1
    <2>1. PICK y \in Points : Runs(ct, v, a, y) /\ Reads(ct, y, c, x)
      BY RunsLast
    <2>2. P(v, y)
      BY <1>2, <2>1
    <2>3. Z(Append(v, c)) = IF c \in Int \ {K28} THEN Append(Z(v), c) ELSE Z(v)
      BY OnlyAppend
    <2>4. Z(v) \in Seq(Codes) /\ c \in Int
      BY OnlyType, CodesAre
    <2>5. y.pos = a.pos + Len(Data(Z(v)))
      <3>1. y.pos = a.pos + Len(Data(v))
        <4>1. Runs(ct, v, a, y) /\ v \in Seq(Codes)
          BY <2>1
        <4> QED BY <4>1, RunsData
      <3>2. Data(Z(v)) = Data(v)
        BY DataOfSymbols
      <3> HIDE DEF Z
      <3> QED BY <3>1, <3>2
    <2> DEFINE z == Z(v)
    <2> HIDE DEF Z
    <2>6. CASE c = K28
      <3>1. Z(Append(v, c)) = z /\ x = y
        BY <2>1, <2>3, <2>6, CodesAre DEF Reads
      <3> QED BY <2>2, <3>1
    <2>7. ASSUME c # K28
          PROVE  /\ Z(Append(v, c)) = Append(z, c) /\ Z(Append(v, c)) # <<>>
                 /\ Z(Append(v, c))[Len(Z(Append(v, c)))] = c
      <3>1. Append(z, c) # <<>> /\ Append(z, c)[Len(Append(z, c))] = c
        BY <2>4
      <3> QED BY <2>3, <2>4, <2>7, <3>1
    <2>8. CASE c \in Nat
      <3>1. c # K28 /\ ~(c < K28) /\ ~(c < 0) /\ c >= 0
        BY <2>8, CodesAre
      <3>2. c = y.pos % Numbers /\ y.index = y.pos % Packet
        BY <2>1, <3>1 DEF Reads
      <3>3. z # <<>> /\ z[Len(z)] < 0 => z[Len(z)] = Null(Packet - 1)
        BY <2>2, <3>2
      <3>4. Between(Append(z, c), a.pos)
        BY <2>2, <2>4, <3>1, <3>3, BetweenAppend
      <3> QED BY <2>7, <3>1, <3>4
    <2>9. CASE c < K28
      <3>1. c # K28 /\ c < 0 /\ ~(c >= 0)
        BY <2>4, <2>9, CodesAre
      <3>2. c = Null(y.index) /\ y.pos % Packet = 0 /\ x = Point(y.pos, (y.index + 1) % Packet)
        BY <2>1, <2>9, <3>1, CodesAre DEF Reads
      <3>3. Between(Append(z, c), a.pos)
        BY <2>2, <2>4, <2>5, <3>1, <3>2, BetweenAppend
      <3>4. x.pos = y.pos /\ x.index = (y.index + 1) % Packet
        BY <3>2 DEF Point
      <3>5. x.index = 0 => c = Null(Packet - 1)
        <4>1. y.index \in 0..Packet - 1 /\ Packet \in Nat \ {0}
          BY Sizes DEF Points
        <4>2. CASE y.index = Packet - 1
          BY <3>2, <4>2
        <4>3. CASE y.index # Packet - 1
          <5>1. y.index + 1 \in 0..Packet - 1
            BY <4>1, <4>3
          <5>2. x.index = y.index + 1
            BY <3>4, <4>1, <5>1, ModLess
          <5> QED BY <4>1, <5>2
        <4> QED BY <4>2, <4>3
      <3> QED BY <2>7, <3>1, <3>2, <3>3, <3>4, <3>5
    <2> QED BY <2>4, <2>6, <2>8, <2>9, CodesAre
  <1>3. Seq(Codes) \subseteq T
    <2> HIDE DEF T
    <2> QED BY <1>1, <1>2, SeqInduction
  <1> QED BY <1>3

--------------------------------------------------------------------------------
(* The encoder.                                                            *)

\* What a step of the encoder does: nothing more, a byte dropped, a K28, or a byte.
Over(e) == e.in = <<>> \/ e.room = 0
Drops(e) == ~Over(e) /\ e.index = 0 /\ ~IsSync(Head(e.in))
Leads(e) == ~Over(e) /\ ~Drops(e) /\ e.index = 0 /\ e.lead < Lead
Takes(e) == ~Over(e) /\ ~Drops(e) /\ ~Leads(e)

DropOf(e) == [e EXCEPT !.in = Tail(e.in)]
LeadOf(e) == [e EXCEPT !.out = Append(e.out, K28), !.room = e.room - 1, !.lead = e.lead + 1]
TakeOf(e) == [in |-> Tail(e.in), out |-> Append(e.out, Head(e.in)), room |-> e.room - 1,
              index |-> (e.index + 1) % Packet, lead |-> 0]

LEMMA EncodeOnIs ==
  ASSUME NEW e \in Encodings
  PROVE  /\ Over(e) => EncodeOn[e] = e
         /\ Drops(e) => EncodeOn[e] = DropOf(e)
         /\ Leads(e) => EncodeOn[e] = LeadOf(e)
         /\ Takes(e) => EncodeOn[e] = TakeOf(e)
  <1>1. EncodeOn[e] = IF e.in = <<>> \/ e.room = 0 THEN e
                      ELSE IF e.index = 0 /\ ~IsSync(Head(e.in)) THEN [e EXCEPT !.in = Tail(@)]
                      ELSE IF e.index = 0 /\ e.lead < Lead
                      THEN [e EXCEPT !.out = Append(@, K28), !.room = @ - 1, !.lead = @ + 1]
                      ELSE [in |-> Tail(e.in), out |-> Append(e.out, Head(e.in)), room |-> e.room - 1,
                            index |-> (e.index + 1) % Packet, lead |-> 0]
    BY DEF EncodeOn
  <1>2. Over(e) => EncodeOn[e] = e
    BY <1>1, Zenon DEF Over
  <1>3. Drops(e) => EncodeOn[e] = DropOf(e)
    BY <1>1, Zenon DEF Over, Drops, DropOf
  <1>4. Leads(e) => EncodeOn[e] = LeadOf(e)
    BY <1>1, Zenon DEF Over, Drops, Leads, LeadOf
  <1>5. Takes(e) => EncodeOn[e] = TakeOf(e)
    BY <1>1, Zenon DEF Over, Drops, Leads, Takes, TakeOf
  <1> QED BY <1>2, <1>3, <1>4, <1>5

LEMMA StepKinds ==
  ASSUME NEW e
  PROVE  Over(e) \/ Drops(e) \/ Leads(e) \/ Takes(e)
  BY DEF Takes

LEMMA InputOf ==
  ASSUME NEW e \in Encodings, ~Over(e)
  PROVE  /\ Head(e.in) \in Codes /\ Head(e.in) = e.in[1] /\ Tail(e.in) \in Seq(Codes)
         /\ Len(Tail(e.in)) = Len(e.in) - 1 /\ Len(e.in) \in Nat \ {0} /\ e.room \in Nat \ {0}
         /\ \A i \in 1..Len(Tail(e.in)) : Tail(e.in)[i] = e.in[i + 1]
  BY DEF Encodings, Over

LEMMA EncodeOnType ==
  ASSUME NEW e \in Encodings
  PROVE  EncodeOn[e] \in Encodings
  <1>1. CASE Over(e)
    BY <1>1, EncodeOnIs
  <1>2. CASE Drops(e)
    <2>1. Tail(e.in) \in Seq(Codes)
      BY <1>2, InputOf DEF Drops
    <2>2. DropOf(e) \in Encodings
      BY <2>1 DEF DropOf, Encodings
    <2> QED BY <1>2, <2>2, EncodeOnIs
  <1>3. CASE Leads(e)
    <2>1. Append(e.out, K28) \in Seq(Codes)
      BY CodesAre DEF Encodings
    <2>2. e.room - 1 \in Nat
      BY <1>3, InputOf DEF Leads
    <2>3. e.lead + 1 \in 0..Lead
      <3>1. e.lead \in 0..Lead /\ e.lead < Lead /\ Lead \in Nat
        BY <1>3, Sizes DEF Leads, Encodings
      <3> QED BY <3>1
    <2>4. LeadOf(e) \in Encodings
      BY <2>1, <2>2, <2>3 DEF LeadOf, Encodings
    <2> QED BY <1>3, <2>4, EncodeOnIs
  <1>4. CASE Takes(e)
    <2>1. Tail(e.in) \in Seq(Codes) /\ Append(e.out, Head(e.in)) \in Seq(Codes) /\ e.room - 1 \in Nat
      <3>1. Head(e.in) \in Codes /\ e.out \in Seq(Codes) /\ Tail(e.in) \in Seq(Codes)
            /\ e.room \in Nat \ {0}
        BY <1>4, InputOf DEF Takes, Encodings
      <3> QED BY <3>1
    <2>2. (e.index + 1) % Packet \in 0..Packet - 1 /\ 0 \in 0..Lead
      <3>1. e.index + 1 \in Int
        BY DEF Encodings
      <3>2. Packet \in Nat \ {0} /\ Lead \in Nat
        BY Sizes
      <3>3. (e.index + 1) % Packet \in 0..Packet - 1
        BY <3>1, <3>2, DivMod
      <3>4. 0 \in 0..Lead
        BY <3>2
      <3> QED BY <3>3, <3>4
    <2>3. TakeOf(e) \in Encodings
      BY <2>1, <2>2 DEF TakeOf, Encodings
    <2> QED BY <1>4, <2>3, EncodeOnIs
  <1> QED BY <1>1, <1>2, <1>3, <1>4, StepKinds

\* Each step takes a byte or room.
LEMMA EncodeOnGoesOn ==
  ASSUME NEW e \in Encodings, ~Over(e)
  PROVE  /\ EncodeOn[e].room \in Nat /\ Len(EncodeOn[e].in) \in Nat
         /\ Len(EncodeOn[e].in) + EncodeOn[e].room <= Len(e.in) + e.room - 1
  <1> DEFINE f == EncodeOn[e]
  <1>1. f \in Encodings /\ f.room \in Nat /\ Len(f.in) \in Nat
    BY EncodeOnType DEF Encodings
  <1>2. Len(Tail(e.in)) = Len(e.in) - 1 /\ Len(e.in) \in Nat \ {0} /\ e.room \in Nat \ {0}
    BY InputOf
  <1>3. CASE Drops(e)
    <2>1. f.in = Tail(e.in) /\ f.room = e.room
      BY <1>3, EncodeOnIs DEF DropOf, Encodings
    <2> QED BY <1>1, <1>2, <2>1
  <1>4. CASE Leads(e)
    <2>1. f.in = e.in /\ f.room = e.room - 1
      BY <1>4, EncodeOnIs DEF LeadOf, Encodings
    <2> QED BY <1>1, <1>2, <2>1
  <1>5. CASE Takes(e)
    <2>1. f = TakeOf(e)
      BY <1>5, EncodeOnIs
    <2>2. f.in = Tail(e.in) /\ f.room = e.room - 1
      BY <2>1 DEF TakeOf
    <2> QED BY <1>1, <1>2, <2>2
  <1> QED BY <1>3, <1>4, <1>5, StepKinds

Encoding(in, room, index, lead) ==
  [in |-> in, out |-> <<>>, room |-> room, index |-> index, lead |-> lead]

\* What each step keeps is so of the result, and it ends without input or without room.
LEMMA EncodeKeeps ==
  ASSUME NEW in, NEW room, NEW index, NEW lead, NEW P, P \subseteq Encodings,
         Encoding(in, room, index, lead) \in P, \A e \in P : EncodeOn[e] \in P
  PROVE  Encode(in, room, index, lead) \in P /\ Over(Encode(in, room, index, lead))
  <1> DEFINE e0 == Encoding(in, room, index, lead)
             N == Len(in) + room
             Rec(f) == f = [n \in 0..N |-> IF n = 0 THEN e0 ELSE EncodeOn[f[n - 1]]]
             after == CHOOSE f : Rec(f)
             step == [n \in 1..N |-> [e \in Encodings |-> EncodeOn[e]]]
  <1>1. e0 \in Encodings /\ e0.in = in /\ e0.room = room /\ in \in Seq(Codes) /\ room \in Nat /\ N \in Nat
    <2>1. e0 \in Encodings /\ e0.in = in /\ e0.room = room
      BY DEF Encoding
    <2>2. in \in Seq(Codes) /\ room \in Nat
      <3> HIDE DEF e0
      <3> QED BY <2>1 DEF Encodings
    <2> QED BY <2>1, <2>2
  <1>2. Encode(in, room, index, lead) = after[N]
    BY DEF Encode, Encoding
  <1> HIDE DEF e0
  <1>3. step \in [1..N -> [Encodings -> Encodings]]
    <2>1. [e \in Encodings |-> EncodeOn[e]] \in [Encodings -> Encodings]
      BY EncodeOnType
    <2> QED BY <2>1
  <1>4. PICK f : Steps(f, Encodings, e0, step, N)
    <2> HIDE DEF step, N
    <2> QED BY <1>1, <1>3, StepsExist
  <1>5. f \in [0..N -> Encodings] /\ f[0] = e0
    BY <1>4 DEF Steps
  <1>6. ASSUME NEW n \in 1..N PROVE f[n] = EncodeOn[f[n - 1]]
    <2>1. f[n - 1] \in Encodings
      BY <1>1, <1>5
    <2>2. f[n] = step[n][f[n - 1]]
      BY <1>4 DEF Steps
    <2> QED BY <2>1, <2>2
  <1>7. Rec(f)
    <2>1. ASSUME NEW n \in 0..N PROVE f[n] = IF n = 0 THEN e0 ELSE EncodeOn[f[n - 1]]
      <3>1. n = 0 \/ (n \in 1..N /\ n # 0)
        BY <1>1
      <3> QED BY <1>5, <1>6, <3>1
    <2>2. f = [n \in 0..N |-> f[n]]
      BY <1>5
    <2> HIDE DEF step, N
    <2> QED BY <2>1, <2>2, Zenon
  <1>8. Rec(after)
    BY <1>7
  <1> HIDE DEF after, step, N
  <1>9. ASSUME NEW n \in 0..N PROVE after[n] = IF n = 0 THEN e0 ELSE EncodeOn[after[n - 1]]
    BY <1>8
  <1> HIDE DEF Rec
  <1> DEFINE U == {n \in 0..N : /\ after[n] \in P
                                /\ Over(after[n]) \/ Len(after[n].in) + after[n].room + n <= N}
  <1>10. 0 \in U
    <2>1. 0 \in 0..N /\ after[0] = e0
      BY <1>1, <1>9
    <2>2. Len(e0.in) + e0.room + 0 <= N /\ e0 \in P
      BY <1>1 DEF N, e0
    <2> QED BY <2>1, <2>2
  <1>11. ASSUME NEW n \in 0..N - 1, n \in U PROVE n + 1 \in U
    <2>1. n + 1 \in 0..N /\ n + 1 # 0 /\ (n + 1) - 1 = n
      BY <1>1
    <2>2. after[n + 1] = EncodeOn[after[n]]
      BY <1>9, <2>1
    <2> DEFINE e == after[n]
    <2>3. e \in P /\ e \in Encodings /\ (Over(e) \/ Len(e.in) + e.room + n <= N)
      BY <1>11
    <2> HIDE DEF e
    <2>4. EncodeOn[e] \in P
      BY <2>3
    <2>5. Over(EncodeOn[e]) \/ Len(EncodeOn[e].in) + EncodeOn[e].room + (n + 1) <= N
      <3>1. CASE Over(e)
        BY <2>3, <3>1, EncodeOnIs
      <3>2. CASE ~Over(e)
        <4>1. /\ EncodeOn[e].room \in Nat /\ Len(EncodeOn[e].in) \in Nat
              /\ Len(EncodeOn[e].in) + EncodeOn[e].room <= Len(e.in) + e.room - 1
          BY <2>3, <3>2, EncodeOnGoesOn
        <4>2. Len(e.in) \in Nat /\ e.room \in Nat
          BY <2>3 DEF Encodings
        <4>3. Len(e.in) + e.room + n <= N
          BY <2>3, <3>2
        <4> DEFINE a == Len(EncodeOn[e].in)
                   b == EncodeOn[e].room
                   c == Len(e.in)
                   d == e.room
        <4>4. a \in Nat /\ b \in Nat /\ c \in Nat /\ d \in Nat /\ a + b <= c + d - 1 /\ c + d + n <= N
          BY <4>1, <4>2, <4>3
        <4> HIDE DEF a, b, c, d
        <4>5. a + b + (n + 1) <= N
          BY <1>1, <4>4
        <4> QED BY <4>5 DEF a, b
      <3> QED BY <3>1, <3>2
    <2> QED BY <2>1, <2>2, <2>4, <2>5 DEF e
  <1>12. N \in U
    <2>1. N \in 0..N
      BY <1>1
    <2> HIDE DEF U
    <2>2. 0..N \subseteq U
      BY <1>1, <1>10, <1>11, UpTo
    <2> QED BY <2>1, <2>2
  <1> DEFINE r == after[N]
  <1>13. r \in P /\ r \in Encodings /\ (Over(r) \/ Len(r.in) + r.room + N <= N)
    BY <1>12
  <1> HIDE DEF r
  <1>14. Over(r)
    <2>1. Len(r.in) \in Nat /\ r.room \in Nat
      BY <1>13 DEF Encodings
    <2>2. r.room = 0 \/ Over(r)
      BY <1>1, <1>13, <2>1
    <2> QED BY <2>2 DEF Over
  <1> QED BY <1>2, <1>13, <1>14 DEF r

LEMMA EncodingIs ==
  ASSUME NEW in \in Seq(Codes), NEW room \in Nat, NEW index \in 0..Packet - 1, NEW lead \in 0..Lead
  PROVE  /\ Encoding(in, room, index, lead) \in Encodings
         /\ Encoding(in, room, index, lead).in = in /\ Encoding(in, room, index, lead).out = <<>>
         /\ Encoding(in, room, index, lead).room = room
         /\ Encoding(in, room, index, lead).index = index
         /\ Encoding(in, room, index, lead).lead = lead
  BY DEF Encoding, Encodings

LEMMA EncodeNothing ==
  ASSUME NEW in, in = <<>>, NEW room \in Nat, NEW index \in 0..Packet - 1, NEW lead \in 0..Lead
  PROVE  Encode(in, room, index, lead) = Encoding(in, room, index, lead)
  <1> DEFINE e0 == Encoding(in, room, index, lead)
  <1>1. e0 \in Encodings /\ Over(e0)
    <2>1. in \in Seq(Codes)
      OBVIOUS
    <2>2. e0 \in Encodings
      BY <2>1 DEF Encoding, Encodings
    <2>3. e0.in = <<>>
      BY DEF Encoding
    <2> QED BY <2>2, <2>3 DEF Over
  <1>2. EncodeOn[e0] = e0
    BY <1>1, EncodeOnIs
  <1>3. Encode(in, room, index, lead) \in {e0}
    BY <1>1, <1>2, EncodeKeeps
  <1> QED BY <1>3

\* The sync bytes are where packets begin.
LEMMA SyncIs ==
  ASSUME NEW q \in Nat
  PROVE  IsSync(q % Numbers) <=> q % Packet = 0
  <1>1. (q % Numbers) % Packet = q % Packet /\ q % Numbers \in 0..Numbers - 1
    <2>1. Packet \in Nat \ {0} /\ Numbers \in Nat \ {0} /\ Numbers % Packet = 0 /\ q \in Int
      BY Sizes
    <2> QED BY <2>1, ModOfMod, DivMod
  <1>2. q % Numbers # Null(0) /\ q % Numbers >= 0
    BY <1>1, Sizes DEF Null
  <1> QED BY <1>1, <1>2 DEF IsSync

LEMMA ModCode ==
  ASSUME NEW q \in Nat
  PROVE  q % Numbers \in Codes /\ q % Numbers \in Nat
  BY CodesAre

\* The index in its packet of the program's byte q.
InPacket(q) == q % Packet

LEMMA NumberedTail ==
  ASSUME NEW s \in Seq(Codes), s # <<>>, NEW q \in Nat, Numbered(s, q)
  PROVE  Head(s) = q % Numbers /\ Numbered(Tail(s), q + 1)
  <1>1. 1 \in 1..Len(s) /\ Head(s) = s[1]
    OBVIOUS
  <1>2. s[1] = (q + 1 - 1) % Numbers /\ q + 1 - 1 = q
    BY <1>1 DEF Numbered
  <1>3. ASSUME NEW i \in 1..Len(Tail(s)) PROVE Tail(s)[i] = ((q + 1) + i - 1) % Numbers
    <2>1. i + 1 \in 1..Len(s) /\ Tail(s)[i] = s[i + 1]
      OBVIOUS
    <2>2. s[i + 1] = (q + (i + 1) - 1) % Numbers
      BY <2>1 DEF Numbered
    <2>3. q + (i + 1) - 1 = (q + 1) + i - 1
      BY <2>1
    <2> QED BY <2>1, <2>2, <2>3
  <1> QED BY <1>1, <1>2, <1>3 DEF Numbered

\* e has encoded of in, which starts at number m, what there was room for.
ProgramEncoded(ct, in, room, index, m, e) ==
  /\ e \in Encodings /\ Over(e) /\ e.room + Len(e.out) = room
  /\ \E q \in Nat : /\ Runs(ct, e.out, Point(m, index), Point(q, e.index))
                    /\ Numbered(e.in, q) /\ q + Len(e.in) = m + Len(in) /\ e.index = InPacket(q)

\* The program's bytes go out as they are.
LEMMA EncodeProgram ==
  ASSUME NEW ct \in BOOLEAN, NEW in \in Seq(Codes), NEW room \in Nat, NEW index \in 0..Packet - 1,
         NEW lead \in 0..Lead, NEW m \in Nat, Numbered(in, m), index = InPacket(m),
         NEW e, e = Encode(in, room, index, lead)
  PROVE  ProgramEncoded(ct, in, room, index, m, e)
  <1> DEFINE Is(f, q) == /\ Runs(ct, f.out, Point(m, index), Point(q, f.index)) /\ Numbered(f.in, q)
                         /\ q + Len(f.in) = m + Len(in) /\ f.index = InPacket(q)
             P == {f \in Encodings : f.room + Len(f.out) = room /\ \E q \in Nat : Is(f, q)}
             e0 == Encoding(in, room, index, lead)
  <1>1. e0 \in P
    <2>1. /\ e0 \in Encodings /\ e0.in = in /\ e0.out = <<>> /\ e0.room = room /\ e0.index = index
      BY DEF Encoding, Encodings
    <2> HIDE DEF e0
    <2>2. Point(m, index) \in Points /\ Len(<<>>) = 0 /\ room + 0 = room
      BY DEF Point, Points
    <2>3. Runs(ct, <<>>, Point(m, index), Point(m, index))
      BY <2>2, RunsEmpty
    <2>4. Is(e0, m)
      BY <2>1, <2>3
    <2> QED BY <2>1, <2>2, <2>4
  <1>2. ASSUME NEW f \in P PROVE EncodeOn[f] \in P
    <2>1. f \in Encodings /\ f.room + Len(f.out) = room
      OBVIOUS
    <2>2. PICK q \in Nat : Is(f, q)
      OBVIOUS
    <2> DEFINE g == EncodeOn[f]
    <2>3. g \in Encodings
      BY EncodeOnType
    <2>4. f.in \in Seq(Codes) /\ f.out \in Seq(Codes) /\ f.room \in Nat /\ f.index \in 0..Packet - 1
          /\ Len(f.in) \in Nat /\ Len(f.out) \in Nat /\ Packet \in Nat \ {0}
      <3>1. f.in \in Seq(Codes) /\ f.out \in Seq(Codes) /\ f.room \in Nat /\ f.index \in 0..Packet - 1
        BY <2>1 DEF Encodings
      <3>2. Len(f.in) \in Nat /\ Len(f.out) \in Nat
        BY SMTT(30), <3>1
      <3> QED BY <3>1, <3>2, Sizes
    <2>0. /\ Runs(ct, f.out, Point(m, index), Point(q, f.index)) /\ Numbered(f.in, q)
          /\ q + Len(f.in) = m + Len(in) /\ f.index = InPacket(q)
      BY <2>2
    <2>5. CASE Over(f)
      BY <2>5, EncodeOnIs
    <2>6. CASE ~Over(f)
      <3> HIDE DEF Is, P
      <3>1. Head(f.in) = q % Numbers /\ Numbered(Tail(f.in), q + 1)
        BY <2>0, <2>4, <2>6, NumberedTail DEF Over
      <3>2. ~Drops(f)
        BY <2>0, <3>1, SyncIs DEF Drops, InPacket
      <3>3. Point(q, f.index) \in Points /\ Point(q, f.index).pos = q /\ Point(q, f.index).index = f.index
        BY <2>4 DEF Point, Points
      <3>4. CASE Leads(f)
        <4>1. g = LeadOf(f)
          BY <2>1, <3>4, EncodeOnIs
        <4> HIDE DEF g
        <4>2. g.in = f.in /\ g.out = Append(f.out, K28) /\ g.room = f.room - 1 /\ g.index = f.index
          BY <2>1, <4>1 DEF LeadOf, Encodings
        <4>3. Reads(ct, Point(q, f.index), K28, Point(q, f.index))
          BY DEF Reads
        <4>4. Runs(ct, g.out, Point(m, index), Point(q, g.index))
          BY ZenonT(60), <2>0, <2>4, <3>3, <4>2, <4>3, CodesAre, RunsAppend
        <4>5. Is(g, q)
          BY <2>0, <4>2, <4>4 DEF Is
        <4>6. Len(g.out) = Len(f.out) + 1
          BY <2>4, <4>2
        <4>7. g.room + Len(g.out) = room
          BY SMTT(30), <2>1, <2>4, <4>2, <4>6
        <4>8. g \in P
          BY <2>3, <4>5, <4>7 DEF P
        <4> QED BY <4>8 DEF g
      <3>5. CASE Takes(f)
        <4>1. g = TakeOf(f)
          BY <2>1, <3>5, EncodeOnIs
        <4> HIDE DEF g
        <4>2. g.out = Append(f.out, q % Numbers) /\ g.index = (f.index + 1) % Packet
          BY <3>1, <4>1 DEF TakeOf
        <4>0. g.in = Tail(f.in) /\ g.room = f.room - 1
          BY <4>1 DEF TakeOf
        <4>3. g.index = InPacket(q + 1)
          <5>1. q \in Int /\ 1 \in Int /\ Packet \in Nat \ {0}
            BY <2>4
          <5>2. ((q % Packet) + 1) % Packet = (q + 1) % Packet
            BY <5>1, ModMod
          <5> QED BY <2>0, <4>2, <5>2 DEF InPacket
        <4>4. q % Numbers \in Codes /\ q % Numbers \in Nat
          BY ModCode
        <4>5. Reads(ct, Point(q, f.index), q % Numbers, Point(q + 1, (f.index + 1) % Packet))
          BY <2>0, <3>3, <4>4 DEF Reads, InPacket
        <4>6. Point(q + 1, g.index) \in Points
          <5>1. g.index \in 0..Packet - 1
            BY <2>3 DEF Encodings
          <5> QED BY <5>1 DEF Point, Points
        <4>7. Runs(ct, g.out, Point(m, index), Point(q + 1, g.index))
          BY <2>0, <2>4, <4>2, <4>4, <4>5, <4>6, RunsAppend
        <4>8. Len(Tail(f.in)) = Len(f.in) - 1
          BY <2>1, <2>6, InputOf
        <4>9. (q + 1) + Len(g.in) = m + Len(in)
          <5>1. Len(g.in) = Len(f.in) - 1
            BY <4>0, <4>8
          <5>2. q + Len(f.in) = m + Len(in) /\ Len(f.in) \in Nat /\ Len(in) \in Nat
            BY <2>0, <2>4
          <5> DEFINE a == Len(g.in)
                     b == Len(f.in)
                     c == m + Len(in)
          <5>3. a = b - 1 /\ b \in Nat /\ q + b = c
            BY <5>1, <5>2
          <5> HIDE DEF a, b, c
          <5>4. (q + 1) + a = c
            BY <5>3
          <5> QED BY <5>4 DEF a, c
        <4>10. Is(g, q + 1)
          BY <3>1, <4>0, <4>3, <4>7, <4>9 DEF Is
        <4>11. Len(g.out) = Len(f.out) + 1
          BY <2>4, <4>2, <4>4
        <4>12. g.room + Len(g.out) = room
          BY SMTT(30), <2>1, <2>4, <4>0, <4>11
        <4>13. q + 1 \in Nat
          OBVIOUS
        <4>14. g \in P
          BY <2>3, <4>10, <4>12, <4>13 DEF P
        <4> QED BY <4>14 DEF g
      <3> QED BY <2>6, <3>2, <3>4, <3>5, StepKinds
    <2> QED BY <2>5, <2>6
  <1>3. e \in P /\ Over(e)
    <2> HIDE DEF P
    <2>1. P \subseteq Encodings
      BY DEF P
    <2> QED BY <1>1, <1>2, <2>1, EncodeKeeps
  <1> QED BY <1>3 DEF ProgramEncoded

LEMMA NullBytesAre ==
  ASSUME NEW n \in Nat
  PROVE  /\ NullBytes(n) \in Seq(Codes) /\ Len(NullBytes(n)) = n * Packet
         /\ \A i \in 1..Len(NullBytes(n)) :
              NullBytes(n)[i] = Null(InPacket(0 + i - 1)) /\ NullBytes(n)[i] < K28
  <1>1. n * Packet \in Nat
    BY Sizes
  <1>2. \A i \in 1..n * Packet : Null((i - 1) % Packet) \in Codes /\ Null((i - 1) % Packet) < K28
    <2> TAKE i \in 1..n * Packet
    <2>1. i - 1 \in Int /\ Packet \in Nat \ {0}
      BY <1>1, Sizes
    <2>2. (i - 1) % Packet \in 0..Packet - 1
      BY <2>1, DivMod
    <2> QED BY <2>2, CodesAre
  <1>3. NullBytes(n) \in Seq(Codes) /\ Len(NullBytes(n)) = n * Packet
    <2> DEFINE N == n * Packet
    <2>1. N \in Nat
      BY <1>1
    <2>2. NullBytes(n) = [i \in 1..N |-> Null((i - 1) % Packet)]
      BY DEF NullBytes
    <2> HIDE DEF N
    <2>3. NullBytes(n) \in [1..N -> Codes]
      <3>1. \A i \in 1..N : Null((i - 1) % Packet) \in Codes
        BY <1>2 DEF N
      <3> QED BY <2>2, <3>1
    <2> QED BY <2>1, <2>3 DEF N
  <1>4. \A i \in 1..n * Packet : NullBytes(n)[i] = Null((i - 1) % Packet)
    BY DEF NullBytes
  <1>5. \A i \in 1..n * Packet : 0 + i - 1 = i - 1
    BY <1>1
  <1> QED BY <1>2, <1>3, <1>4, <1>5 DEF InPacket

\* The bytes of s are those of null packets from index from on.
NullsFrom(s, from) == \A i \in 1..Len(s) : s[i] = Null(InPacket(from + i - 1))

LEMMA NullsTail ==
  ASSUME NEW s \in Seq(Codes), s # <<>>, NEW from \in 0..Packet - 1, NullsFrom(s, from)
  PROVE  Head(s) = Null(from) /\ NullsFrom(Tail(s), InPacket(from + 1))
  <1>1. 1 \in 1..Len(s) /\ Head(s) = s[1] /\ Packet \in Nat \ {0} /\ from \in Int
    BY Sizes
  <1>2. s[1] = Null(InPacket(from + 1 - 1)) /\ from + 1 - 1 = from
    BY <1>1 DEF NullsFrom
  <1>3. InPacket(from) = from
    BY <1>1, ModLess DEF InPacket
  <1>4. ASSUME NEW i \in 1..Len(Tail(s))
        PROVE  Tail(s)[i] = Null(InPacket(InPacket(from + 1) + i - 1))
    <2>1. i + 1 \in 1..Len(s) /\ Tail(s)[i] = s[i + 1]
      OBVIOUS
    <2>2. s[i + 1] = Null(InPacket(from + (i + 1) - 1))
      BY <2>1 DEF NullsFrom
    <2>3. from + (i + 1) - 1 = (from + 1) + (i - 1) /\ i - 1 \in Int /\ from + 1 \in Int
      BY <1>1, <2>1
    <2>4. (((from + 1) % Packet) + (i - 1)) % Packet = ((from + 1) + (i - 1)) % Packet
      BY <1>1, <2>3, ModMod
    <2>5. (from + 1) % Packet \in Int
      BY <1>1, <2>3, DivMod
    <2> DEFINE c == (from + 1) % Packet
    <2>6. c + i - 1 = c + (i - 1)
      <3>1. c \in Int
        BY <2>5
      <3> HIDE DEF c
      <3> QED BY <3>1, <2>1
    <2>7. InPacket(InPacket(from + 1) + i - 1) = InPacket(from + (i + 1) - 1)
      BY <2>3, <2>4, <2>6, Zenon DEF InPacket, c
    <2> QED BY <2>1, <2>2, <2>7
  <1> QED BY <1>1, <1>2, <1>3, <1>4 DEF NullsFrom

\* What is left of a packet begun, and the room k packets and that take.
Rest(index) == IF index = 0 THEN 0 ELSE Packet - index

\* e has encoded nulls, with no byte of the program.
NullsEncoded(ct, room, index, m, e) ==
  /\ e \in Encodings /\ e.room + Len(e.out) = room
  /\ Runs(ct, e.out, Point(m, index), Point(m, e.index))

\* Null packets go out whole when there is room for them.
LEMMA EncodeNulls ==
  ASSUME NEW ct \in BOOLEAN, NEW n \in Nat, NEW room \in Nat, NEW lead \in 0..Lead,
         NEW m \in Nat, InPacket(m) = 0, n * (Packet + Lead) <= room,
         NEW e, e = Encode(NullBytes(n), room, 0, lead)
  PROVE  NullsEncoded(ct, room, 0, m, e) /\ e.in = <<>> /\ e.index = 0
  <1> DEFINE Left(f, k) == /\ Len(f.in) = k * Packet + Rest(f.index)
                           /\ f.room + (IF f.index = 0 THEN f.lead ELSE 0)
                                >= k * (Packet + Lead) + Rest(f.index)
             P == {f \in Encodings :
                     /\ f.room + Len(f.out) = room
                     /\ Runs(ct, f.out, Point(m, 0), Point(m, f.index))
                     /\ NullsFrom(f.in, f.index)
                     /\ \E k \in Nat : Left(f, k)}
             e0 == Encoding(NullBytes(n), room, 0, lead)
  <1>0. /\ Packet \in Nat \ {0, 1} /\ Lead \in Nat /\ 0 \in 0..Packet - 1
        /\ \A i \in 0..Packet - 1 : Rest(i) \in Nat
    <2>1. Packet \in Nat \ {0, 1} /\ Lead \in Nat
      BY Sizes
    <2> QED BY <2>1 DEF Rest
  <1>1. e0 \in P
    <2>1. NullBytes(n) \in Seq(Codes) /\ Len(NullBytes(n)) = n * Packet /\ NullsFrom(NullBytes(n), 0)
      BY NullBytesAre DEF NullsFrom
    <2>2. /\ e0 \in Encodings /\ e0.in = NullBytes(n) /\ e0.out = <<>> /\ e0.room = room
          /\ e0.index = 0 /\ e0.lead = lead
      BY <1>0, <2>1, EncodingIs
    <2> HIDE DEF e0
    <2>3. Point(m, 0) \in Points /\ Len(<<>>) = 0 /\ room + 0 = room
      BY <1>0 DEF Point, Points
    <2>4. Runs(ct, <<>>, Point(m, 0), Point(m, 0))
      BY <2>3, RunsEmpty
    <2>5. Left(e0, n)
      <3>1. Rest(0) = 0 /\ n * Packet \in Nat /\ n * (Packet + Lead) \in Nat
        BY <1>0 DEF Rest
      <3>2. Len(e0.in) = n * Packet + Rest(e0.index)
        BY <2>1, <2>2, <3>1
      <3>3. room + lead >= n * (Packet + Lead) + 0
        BY <1>0, <3>1
      <3> QED BY <2>2, <3>1, <3>2, <3>3
    <2> QED BY <2>1, <2>2, <2>3, <2>4, <2>5
  <1>2. ASSUME NEW f \in P PROVE EncodeOn[f] \in P
    <2>1. /\ f \in Encodings /\ f.room + Len(f.out) = room
          /\ Runs(ct, f.out, Point(m, 0), Point(m, f.index)) /\ NullsFrom(f.in, f.index)
      OBVIOUS
    <2>2. PICK k \in Nat : Left(f, k)
      OBVIOUS
    <2>3. /\ Len(f.in) = k * Packet + Rest(f.index)
          /\ f.room + (IF f.index = 0 THEN f.lead ELSE 0) >= k * (Packet + Lead) + Rest(f.index)
      BY <2>2
    <2> DEFINE g == EncodeOn[f]
    <2>4. g \in Encodings
      BY EncodeOnType
    <2>5. f.in \in Seq(Codes) /\ f.out \in Seq(Codes) /\ f.room \in Nat /\ f.index \in 0..Packet - 1
          /\ f.lead \in 0..Lead
      BY <2>1 DEF Encodings
    <2>6. Len(f.in) \in Nat /\ Len(f.out) \in Nat
      BY <2>5
    <2>7. CASE Over(f)
      BY <2>7, EncodeOnIs
    <2>8. CASE ~Over(f)
      <3> HIDE DEF P
      <3>1. Head(f.in) = Null(f.index) /\ NullsFrom(Tail(f.in), InPacket(f.index + 1))
        BY <2>1, <2>5, <2>8, NullsTail DEF Over
      <3>2. ~Drops(f)
        BY <3>1 DEF Drops, IsSync
      <3>3. /\ Point(m, f.index) \in Points /\ Point(m, f.index).pos = m
            /\ Point(m, f.index).index = f.index
        BY <2>5 DEF Point, Points
      <3>4. CASE Leads(f)
        <4>1. g = LeadOf(f)
          BY <2>1, <3>4, EncodeOnIs
        <4> HIDE DEF g
        <4>2. /\ g.in = f.in /\ g.out = Append(f.out, K28) /\ g.room = f.room - 1
              /\ g.index = f.index /\ g.lead = f.lead + 1
          BY <2>1, <4>1 DEF LeadOf, Encodings
        <4>3. Reads(ct, Point(m, f.index), K28, Point(m, f.index))
          BY DEF Reads
        <4>4. Runs(ct, g.out, Point(m, 0), Point(m, g.index))
          BY ZenonT(60), <2>1, <2>5, <3>3, <4>2, <4>3, CodesAre, RunsAppend
        <4>5. Len(g.out) = Len(f.out) + 1
          BY <2>5, <4>2
        <4>0. g.room = f.room - 1 /\ g.lead = f.lead + 1 /\ f.room \in Nat /\ f.lead \in Nat
          BY <1>0, <2>5, <4>2
        <4>6. g.room + Len(g.out) = room
          BY SMTT(30), <2>1, <2>6, <4>0, <4>5
        <4>7. f.index = 0
          BY <3>4 DEF Leads
        <4>8. g.room + g.lead = f.room + f.lead
          BY <4>0
        <4>9. Left(g, k)
          BY <2>3, <4>2, <4>7, <4>8
        <4>10. g \in P
          <5> HIDE DEF Left
          <5> QED BY <2>1, <2>4, <4>2, <4>4, <4>6, <4>9 DEF P
        <4> QED BY <4>10 DEF g
      <3>5. CASE Takes(f)
        <4>1. g = TakeOf(f)
          BY <2>1, <3>5, EncodeOnIs
        <4> HIDE DEF g
        <4>2. /\ g.in = Tail(f.in) /\ g.out = Append(f.out, Null(f.index)) /\ g.room = f.room - 1
              /\ g.index = InPacket(f.index + 1) /\ g.lead = 0
          BY <3>1, <4>1 DEF TakeOf, InPacket
        <4>3. Reads(ct, Point(m, f.index), Null(f.index), Point(m, g.index))
          BY <2>5, <3>3, <4>2, CodesAre DEF Reads, InPacket
        <4>4. Point(m, g.index) \in Points
          <5>1. g.index \in 0..Packet - 1
            BY <2>4 DEF Encodings, g
          <5> QED BY <5>1 DEF Point, Points
        <4>5. Runs(ct, g.out, Point(m, 0), Point(m, g.index))
          BY SMTT(30), <2>1, <2>5, <4>2, <4>3, <4>4, CodesAre, RunsAppend
        <4>6. Len(g.in) = Len(f.in) - 1
          BY <2>1, <2>8, <4>2, InputOf
        <4>7. Null(f.index) \in Codes
          BY <2>5, CodesAre
        <4>8. Len(g.out) = Len(f.out) + 1
          BY <2>5, <4>2, <4>7
        <4>9. g.room + Len(g.out) = room
          BY SMTT(30), <2>1, <2>5, <2>6, <4>2, <4>8
        <4>10. NullsFrom(g.in, g.index)
          BY <3>1, <4>2
        <4>11. \E j \in Nat : Left(g, j)
          <5> DEFINE kp == k * Packet
                     kd == k * (Packet + Lead)
                     i == f.index
          <5>1. kp \in Nat /\ kd \in Nat
            BY <1>0
          <5>2. /\ Len(f.in) = kp + Rest(i) /\ f.room + (IF i = 0 THEN f.lead ELSE 0) >= kd + Rest(i)
            BY <2>3
          <5>3. Len(f.in) \in Nat \ {0} /\ f.room \in Nat \ {0} /\ i \in 0..Packet - 1
            BY <2>1, <2>5, <2>8, InputOf
          <5>4. CASE i = 0
            <6>1. g.index = 1
              <7>1. i + 1 \in 0..Packet - 1
                BY <1>0, <5>4
              <7>2. InPacket(i + 1) = 1
                BY <1>0, <5>4, <7>1, ModLess DEF InPacket
              <7> QED BY <4>2, <7>2
            <6>2. f.lead = Lead
              BY <1>0, <2>5, <3>5, <5>4 DEF Takes, Leads, Drops
            <6>3. Rest(i) = 0 /\ Rest(g.index) = Packet - 1
              BY <1>0, <5>4, <6>1 DEF Rest
            <6>4. kp >= 1
              BY <5>1, <5>2, <5>3, <6>3
            <6>5. k >= 1 /\ k - 1 \in Nat
              BY <1>0, <6>4
            <6>6. (k - 1) * Packet = kp - Packet /\ (k - 1) * (Packet + Lead) = kd - (Packet + Lead)
              BY <1>0, SMT
            <6>7. Len(g.in) = kp - 1 /\ g.room = f.room - 1 /\ f.room + Lead >= kd
              <7>1. Len(g.in) = Len(f.in) - 1 /\ g.room = f.room - 1
                BY <4>2, <4>6
              <7>2. Len(f.in) = kp + Rest(i) /\ f.room + f.lead >= kd + Rest(i)
                BY <5>2, <5>4
              <7> HIDE DEF kp, kd, i
              <7> QED BY <1>0, <5>1, <5>3, <6>2, <6>3, <7>1, <7>2
            <6> HIDE DEF kp, kd, i
            <6>8. Len(g.in) = (kp - Packet) + Rest(g.index)
              BY <1>0, <5>1, <6>3, <6>7
            <6>9. g.room + 0 >= (kd - (Packet + Lead)) + Rest(g.index)
              BY SMTT(30), <1>0, <5>1, <5>3, <6>3, <6>7
            <6>10. Left(g, k - 1)
              BY <6>1, <6>6, <6>8, <6>9
            <6> HIDE DEF Left
            <6> QED BY <6>5, <6>10
          <5>5. CASE i \in 1..Packet - 2
            <6>1. g.index = i + 1 /\ g.index # 0
              <7>1. i + 1 \in 0..Packet - 1 /\ i + 1 # 0
                BY <1>0, <5>5
              <7>2. InPacket(i + 1) = i + 1
                BY <1>0, <7>1, ModLess DEF InPacket
              <7> QED BY <4>2, <7>1, <7>2
            <6>2. Rest(i) = Packet - i /\ Rest(g.index) = Packet - i - 1 /\ i # 0
              BY <1>0, <5>5, <6>1 DEF Rest
            <6>3. Len(g.in) = kp + Rest(g.index)
              <7> HIDE DEF kp, kd
              <7> QED BY SMTT(30), <1>0, <4>6, <5>1, <5>2, <5>3, <6>2
            <6>4. g.room + 0 >= kd + Rest(g.index)
              <7>1. g.room = f.room - 1 /\ f.room + 0 >= kd + Rest(i)
                BY <4>2, <5>2, <6>2
              <7> DEFINE x == g.room
                         y == f.room
                         z == Rest(g.index)
              <7>2. x = y - 1 /\ y \in Nat /\ y + 0 >= kd + (z + 1)
                <8>1. Rest(i) = z + 1
                  BY <1>0, <5>3, <6>2
                <8> QED BY <5>3, <7>1, <8>1
              <7>3. z \in Nat
                <8>1. Packet - i - 1 \in Nat
                  <9> HIDE DEF i
                  <9> QED BY <1>0, <5>5
                <8> QED BY <6>2, <8>1
              <7> HIDE DEF kp, kd, x, y, z
              <7>4. x + 0 >= kd + z
                BY <5>1, <7>2, <7>3
              <7> QED BY <7>4 DEF x, z
            <6>5. Left(g, k)
              BY <6>1, <6>3, <6>4
            <6> HIDE DEF Left
            <6> QED BY <6>5
          <5>6. CASE i = Packet - 1
            <6>1. g.index = 0
              <7>1. i + 1 = Packet
                BY <1>0, <5>6
              <7>2. Packet % Packet = 0
                <8>1. Packet = 1 * Packet + 0
                  BY <1>0
                <8> QED BY <1>0, <8>1, ModIs
              <7>3. InPacket(i + 1) = 0
                BY <7>1, <7>2 DEF InPacket
              <7> QED BY <4>2, <7>3
            <6>2. Rest(i) = 1 /\ Rest(g.index) = 0 /\ i # 0
              BY <1>0, <5>6, <6>1 DEF Rest
            <6>3. Len(g.in) = kp + Rest(g.index)
              <7> HIDE DEF kp, kd
              <7> QED BY <1>0, <4>6, <5>1, <5>2, <5>3, <6>2
            <6>4. g.room + g.lead >= kd + Rest(g.index)
              <7> HIDE DEF kp, kd
              <7> QED BY SMTT(30), <1>0, <4>2, <5>1, <5>2, <5>3, <6>2
            <6>5. Left(g, k)
              BY <6>1, <6>3, <6>4
            <6> HIDE DEF Left
            <6> QED BY <6>5
          <5> QED BY <1>0, <5>3, <5>4, <5>5, <5>6
        <4>12. g \in P
          <5> HIDE DEF Left
          <5> QED BY <2>4, <4>5, <4>9, <4>10, <4>11 DEF P, g
        <4> QED BY <4>12 DEF g
      <3> QED BY <2>8, <3>2, <3>4, <3>5, StepKinds
    <2> QED BY <2>7, <2>8
  <1>3. e \in P /\ Over(e)
    <2> HIDE DEF P
    <2>1. P \subseteq Encodings
      BY DEF P
    <2> QED BY <1>1, <1>2, <2>1, EncodeKeeps
  <1>4. PICK k \in Nat : Left(e, k)
    BY <1>3
  <1>5. /\ e \in Encodings /\ e.room + Len(e.out) = room
        /\ Runs(ct, e.out, Point(m, 0), Point(m, e.index))
    BY <1>3
  <1>6. e.in \in Seq(Codes) /\ e.room \in Nat /\ e.index \in 0..Packet - 1 /\ e.lead \in 0..Lead
    BY <1>5 DEF Encodings
  <1> DEFINE kp == k * Packet
             kd == k * (Packet + Lead)
  <1>7. kp \in Nat /\ kd \in Nat /\ (k # 0 => kp >= Packet /\ kd >= Packet + Lead)
    BY <1>0
  <1>8. /\ Len(e.in) = kp + Rest(e.index)
        /\ e.room + (IF e.index = 0 THEN e.lead ELSE 0) >= kd + Rest(e.index)
    BY <1>4
  <1>9. k = 0 => kp = 0 /\ kd = 0
    BY <1>0
  <1> HIDE DEF kp, kd, P, Left
  <1>10. e.index = 0 => Rest(e.index) = 0
    BY DEF Rest
  <1>11. e.index # 0 => Rest(e.index) >= 1
    BY <1>0, <1>6 DEF Rest
  <1>12. Rest(e.index) \in Nat
    BY <1>0, <1>6
  <1>13. e.in = <<>>
    <2> SUFFICES ASSUME e.in # <<>> PROVE FALSE
      OBVIOUS
    <2>1. e.room = 0 /\ Len(e.in) >= 1
      BY <1>3, <1>6 DEF Over
    <2>2. e.index = 0
      <3> SUFFICES ASSUME e.index # 0 PROVE FALSE
        OBVIOUS
      <3>1. 0 + 0 >= kd + Rest(e.index) /\ Rest(e.index) >= 1
        BY <1>8, <1>11, <2>1
      <3> QED BY <1>7, <1>12, <3>1
    <2>3. k # 0
      BY <1>8, <1>9, <1>10, <2>1, <2>2
    <2> QED BY SMTT(30), <1>0, <1>6, <1>7, <1>8, <1>10, <2>1, <2>2, <2>3
  <1>14. e.index = 0
    <2>1. Len(e.in) = 0
      BY <1>13
    <2>2. Rest(e.index) = 0
      BY <1>7, <1>8, <1>12, <2>1
    <2> QED BY <1>11, <2>2
  <1> QED BY <1>5, <1>13, <1>14 DEF NullsEncoded

\* Whatever is left of a null packet goes out without a byte of the program, once a write was cut off.
LEMMA EncodeCut ==
  ASSUME NEW ct \in BOOLEAN, ct, NEW in \in Seq(Codes), \A i \in 1..Len(in) : in[i] < K28,
         NEW room \in Nat, NEW index \in 0..Packet - 1, NEW lead \in 0..Lead, NEW m \in Nat,
         NEW e, e = Encode(in, room, index, lead)
  PROVE  NullsEncoded(ct, room, index, m, e)
  <1> DEFINE P == {f \in Encodings :
                     /\ f.room + Len(f.out) = room
                     /\ Runs(ct, f.out, Point(m, index), Point(m, f.index))
                     /\ \A i \in 1..Len(f.in) : f.in[i] < K28}
             e0 == Encoding(in, room, index, lead)
  <1>1. e0 \in P
    <2>1. /\ e0 \in Encodings /\ e0.in = in /\ e0.out = <<>> /\ e0.room = room /\ e0.index = index
      BY DEF Encoding, Encodings
    <2> HIDE DEF e0
    <2>2. Point(m, index) \in Points /\ Len(<<>>) = 0 /\ room + 0 = room
      BY DEF Point, Points
    <2>3. Runs(ct, <<>>, Point(m, index), Point(m, index))
      BY <2>2, RunsEmpty
    <2> QED BY <2>1, <2>2, <2>3
  <1>2. ASSUME NEW f \in P PROVE EncodeOn[f] \in P
    <2>1. /\ f \in Encodings /\ f.room + Len(f.out) = room
          /\ Runs(ct, f.out, Point(m, index), Point(m, f.index))
      OBVIOUS
    <2>2. \A i \in 1..Len(f.in) : f.in[i] < K28
      OBVIOUS
    <2> DEFINE g == EncodeOn[f]
    <2>3. g \in Encodings
      BY EncodeOnType
    <2>4. f.in \in Seq(Codes) /\ f.out \in Seq(Codes) /\ f.room \in Nat /\ f.index \in 0..Packet - 1
      BY <2>1 DEF Encodings
    <2>5. Len(f.in) \in Nat /\ Len(f.out) \in Nat
      BY <2>4
    <2>6. CASE Over(f)
      BY <2>6, EncodeOnIs
    <2>7. CASE ~Over(f)
      <3> HIDE DEF P
      <3>1. /\ Head(f.in) \in Codes /\ Head(f.in) = f.in[1] /\ Len(Tail(f.in)) = Len(f.in) - 1
            /\ \A i \in 1..Len(Tail(f.in)) : Tail(f.in)[i] = f.in[i + 1]
            /\ f.room \in Nat \ {0} /\ Len(f.in) \in Nat \ {0}
        BY <2>1, <2>7, InputOf
      <3>2. Head(f.in) < K28 /\ \A i \in 1..Len(Tail(f.in)) : Tail(f.in)[i] < K28
        <4>1. 1 \in 1..Len(f.in) /\ \A i \in 1..Len(Tail(f.in)) : i + 1 \in 1..Len(f.in)
          BY <3>1
        <4> QED BY <2>2, <3>1, <4>1
      <3>3. /\ Point(m, f.index) \in Points /\ Point(m, f.index).pos = m
            /\ Point(m, f.index).index = f.index
        BY <2>4 DEF Point, Points
      <3>4. CASE Drops(f)
        <4>1. g = DropOf(f)
          BY <2>1, <3>4, EncodeOnIs
        <4> HIDE DEF g
        <4>2. g.in = Tail(f.in) /\ g.out = f.out /\ g.room = f.room /\ g.index = f.index
          BY <2>1, <4>1 DEF DropOf, Encodings
        <4>3. g \in P
          BY <2>1, <2>3, <3>2, <4>2 DEF P, g
        <4> QED BY <4>3 DEF g
      <3>5. CASE Leads(f)
        <4>1. g = LeadOf(f)
          BY <2>1, <3>5, EncodeOnIs
        <4> HIDE DEF g
        <4>2. g.in = f.in /\ g.out = Append(f.out, K28) /\ g.index = f.index
          BY <2>1, <4>1 DEF LeadOf, Encodings
        <4>3. g.room = f.room - 1
          BY <2>1, <4>1 DEF LeadOf, Encodings
        <4>4. Reads(ct, Point(m, f.index), K28, Point(m, f.index))
          BY DEF Reads
        <4>5. Runs(ct, g.out, Point(m, index), Point(m, g.index))
          BY <2>1, <2>4, <3>3, <4>2, <4>4, CodesAre, RunsAppend
        <4>6. Len(g.out) = Len(f.out) + 1
          BY <2>4, <4>2
        <4>7. g.room + Len(g.out) = room
          BY SMTT(30), <2>1, <2>4, <2>5, <4>3, <4>6
        <4>8. g \in P
          BY <2>2, <2>3, <4>2, <4>5, <4>7 DEF P, g
        <4> QED BY <4>8 DEF g
      <3>6. CASE Takes(f)
        <4>1. g = TakeOf(f)
          BY <2>1, <3>6, EncodeOnIs
        <4> HIDE DEF g
        <4>2. g.in = Tail(f.in) /\ g.out = Append(f.out, Head(f.in)) /\ g.index = InPacket(f.index + 1)
          BY <4>1 DEF TakeOf, InPacket
        <4>3. g.room = f.room - 1
          BY <4>1 DEF TakeOf
        <4>4. Reads(ct, Point(m, f.index), Head(f.in), Point(m, g.index))
          BY <3>2, <3>3, <4>2 DEF Reads, InPacket
        <4>5. Point(m, g.index) \in Points
          <5>1. g.index \in 0..Packet - 1
            BY <2>3 DEF Encodings, g
          <5> QED BY <5>1 DEF Point, Points
        <4>6. Runs(ct, g.out, Point(m, index), Point(m, g.index))
          BY <2>1, <2>4, <3>1, <4>2, <4>4, <4>5, RunsAppend
        <4>7. Len(g.out) = Len(f.out) + 1
          BY <2>4, <3>1, <4>2
        <4>8. g.room + Len(g.out) = room
          BY SMTT(30), <2>1, <2>4, <2>5, <4>3, <4>7
        <4>9. g \in P
          <5> HIDE DEF g
          <5>1. g \in Encodings
            BY <2>3 DEF g
          <5> QED BY <3>2, <4>2, <4>6, <4>8, <5>1 DEF P
        <4> QED BY <4>9 DEF g
      <3> QED BY <3>4, <3>5, <3>6, <2>7, StepKinds
    <2> QED BY <2>6, <2>7
  <1>3. e \in P
    <2> HIDE DEF P
    <2>1. P \subseteq Encodings
      BY DEF P
    <2> QED BY <1>1, <1>2, <2>1, EncodeKeeps
  <1> QED BY <1>3 DEF NullsEncoded

--------------------------------------------------------------------------------
(* The ring.                                                               *)

LEMMA ModRound ==
  ASSUME NEW n \in Nat \ {0}, NEW a \in n..2 * n - 1
  PROVE  a % n = a - n
  OBVIOUS

\* The place d further than r.
LEMMA PlaceAt ==
  ASSUME NEW n \in Nat \ {0}, NEW r \in 0..n - 1, NEW d \in 0..n
  PROVE  (r + d) % n = IF r + d < n THEN r + d ELSE r + d - n
  <1>1. CASE r + d < n
    BY <1>1, ModLess
  <1>2. CASE r + d >= n
    <2>1. r + d \in n..2 * n - 1
      BY <1>2
    <2>2. (r + d) % n = r + d - n
      BY <2>1, ModRound
    <2> QED BY <1>2, <2>2
  <1> QED BY <1>1, <1>2

\* The distance from place r on to place o.
LEMMA FarFrom ==
  ASSUME NEW n \in Nat \ {0}, NEW r \in 0..n - 1, NEW o \in 0..n - 1
  PROVE  (o + n - r) % n = IF r <= o THEN o - r ELSE o + n - r
  <1>1. CASE r <= o
    <2>1. o + n - r \in n..2 * n - 1
      BY <1>1
    <2>2. (o + n - r) % n = o + n - r - n
      BY <2>1, ModRound
    <2> QED BY <1>1, <2>2
  <1>2. CASE ~(r <= o)
    BY <1>2, ModLess
  <1> QED BY <1>1, <1>2

\* Place o, seen from r, without remainders.
Ahead(n, r, o) == IF r <= o THEN o - r ELSE o + n - r
Place(n, r, d) == IF r + d < n THEN r + d ELSE r + d - n

LEMMA PlaceAhead ==
  ASSUME NEW n \in Nat \ {0}, NEW r \in 0..n - 1, NEW o \in 0..n - 1
  PROVE  /\ Ahead(n, r, o) \in 0..n - 1 /\ Place(n, r, Ahead(n, r, o)) = o
         /\ \A d \in 0..n - 1 : /\ Place(n, r, d) \in 0..n - 1 /\ Ahead(n, r, Place(n, r, d)) = d
  BY DEF Ahead, Place

\* Going on by e from d ahead, and back.
LEMMA AheadMore ==
  ASSUME NEW n \in Nat \ {0}, NEW r \in 0..n - 1, NEW o \in 0..n - 1, NEW e \in 0..n - 1,
         Ahead(n, r, o) + e <= n - 1
  PROVE  Ahead(n, r, Place(n, o, e)) = Ahead(n, r, o) + e
  BY DEF Ahead, Place

LEMMA AheadLess ==
  ASSUME NEW n \in Nat \ {0}, NEW r \in 0..n - 1, NEW o \in 0..n - 1, NEW e \in 0..Ahead(n, r, o)
  PROVE  /\ Ahead(n, Place(n, r, e), o) = Ahead(n, r, o) - e
         /\ \A i \in 0..n - 1 : e + i <= n - 1 => Place(n, Place(n, r, e), i) = Place(n, r, e + i)
  BY DEF Ahead, Place

\* The place d ahead of r, seen from o.
LEMMA AheadOf ==
  ASSUME NEW n \in Nat \ {0}, NEW r \in 0..n - 1, NEW o \in 0..n - 1, NEW d \in 0..n - 1
  PROVE  Ahead(n, o, Place(n, r, d)) =
           IF d < Ahead(n, r, o) THEN n - Ahead(n, r, o) + d ELSE d - Ahead(n, r, o)
  BY DEF Ahead, Place

LEMMA RealLoadIs ==
  ASSUME NEW x, NEW c, x.at \in Slots, c.r \in Slots
  PROVE  RealLoad(x, c) = Ahead(Size, c.r, x.at) /\ RealLoad(x, c) \in 0..Size - 1
  <1>1. Size \in Nat \ {0} /\ x.at \in 0..Size - 1 /\ c.r \in 0..Size - 1
    BY Sizes DEF Slots
  <1>2. RealLoad(x, c) = Ahead(Size, c.r, x.at)
    BY <1>1, FarFrom DEF RealLoad, Ahead
  <1> QED BY ZenonT(60), <1>1, <1>2, PlaceAhead

LEMMA InBufferIs ==
  ASSUME NEW x, NEW c, x.at \in Slots, c.r \in Slots, NEW rg \in [Slots -> Codes]
  PROVE  /\ InBuffer(x, c, rg) \in Seq(Codes) /\ Len(InBuffer(x, c, rg)) = RealLoad(x, c)
         /\ \A i \in 1..RealLoad(x, c) : InBuffer(x, c, rg)[i] = rg[Place(Size, c.r, i - 1)]
  <1> DEFINE l == RealLoad(x, c)
             b == InBuffer(x, c, rg)
  <1>1. Size \in Nat \ {0} /\ c.r \in 0..Size - 1 /\ l \in 0..Size - 1
    BY Sizes, RealLoadIs DEF Slots
  <1>2. b = [i \in 1..l |-> rg[(c.r + i - 1) % Size]]
    BY DEF InBuffer
  <1> HIDE DEF l, b
  <1>3. ASSUME NEW i \in 1..l
        PROVE  (c.r + i - 1) % Size = Place(Size, c.r, i - 1) /\ Place(Size, c.r, i - 1) \in Slots
    <2>1. i - 1 \in 0..Size /\ i - 1 \in 0..Size - 1 /\ c.r + i - 1 = c.r + (i - 1)
      BY <1>1
    <2>2. (c.r + (i - 1)) % Size = Place(Size, c.r, i - 1)
      BY <1>1, <2>1, PlaceAt DEF Place
    <2> QED BY <1>1, <2>1, <2>2, PlaceAhead DEF Slots
  <1>4. \A i \in 1..l : b[i] = rg[Place(Size, c.r, i - 1)] /\ b[i] \in Codes
    BY <1>2, <1>3
  <1>5. b \in Seq(Codes) /\ Len(b) = l
    <2>1. b \in [1..l -> Codes] /\ l \in Nat
      BY <1>1, <1>2, <1>3
    <2> QED BY <2>1
  <1> QED BY <1>4, <1>5 DEF l, b

\* Side u is side s with symbols committed, for the card at c.
Extends(u, s, c, symbols) ==
  /\ u \in Sides
  /\ u.tx = [s.tx EXCEPT !.at = u.tx.at, !.committed = u.tx.committed]
  /\ RealLoad(u.tx, c) = RealLoad(s.tx, c) + Len(symbols)
  /\ RealLoad(u.tx, c) <= u.tx.committed
  /\ InBuffer(u.tx, c, u.ring) = InBuffer(s.tx, c, s.ring) \o symbols

\* What is committed comes behind what the buffer has.
LEMMA CommitAppends ==
  ASSUME NEW s \in Sides, NEW c, c.r \in Slots, NEW symbols \in Seq(Codes),
         RealLoad(s.tx, c) + Len(symbols) <= MaxLoad, RealLoad(s.tx, c) <= s.tx.committed,
         NEW u, u = Commit(s, symbols)
  PROVE  Extends(u, s, c, symbols)
  <1> DEFINE x == s.tx
             y == u.tx
             l == RealLoad(x, c)
             L == Len(symbols)
  <1>1. /\ x \in TxSides /\ s.ring \in [Slots -> Codes] /\ x.at \in 0..Size - 1 /\ x.committed \in 0..Size
        /\ Size \in Nat \ {0} /\ c.r \in 0..Size - 1 /\ Slots = 0..Size - 1
        /\ L \in Nat /\ MaxLoad \in Nat /\ MaxLoad <= Size - 1
    <2>1. x \in TxSides /\ s.ring \in [Slots -> Codes]
      BY DEF Sides
    <2>2. x.at \in Slots /\ x.committed \in 0..Size
      BY <2>1 DEF TxSides
    <2>3. L \in Nat
      OBVIOUS
    <2> QED BY <2>1, <2>2, <2>3, Sizes DEF Slots
  <1>2. l = Ahead(Size, c.r, x.at) /\ l \in 0..Size - 1
    BY <1>1, RealLoadIs
  <1>3. l + L <= Size - 1 /\ L \in 0..Size - 1 /\ L \in 0..Size
    BY <1>1, <1>2
  <1>4. y.at = (x.at + L) % Size /\ y.committed = Least(x.committed + L, Size)
        /\ y = [x EXCEPT !.at = (x.at + L) % Size, !.committed = Least(x.committed + L, Size)]
    BY <1>1 DEF Commit, TxSides
  <1>5. y.at = Place(Size, x.at, L)
    BY <1>1, <1>3, <1>4, PlaceAt DEF Place
  <1>6. y.at \in 0..Size - 1
    BY <1>1, <1>3, <1>5 DEF Place
  <1>7. y.committed \in 0..Size
    BY <1>1, <1>4 DEF Least
  <1>8. y = [x EXCEPT !.at = y.at, !.committed = y.committed]
    BY <1>4
  <1>9. y \in TxSides
    BY <1>1, <1>6, <1>7, <1>8 DEF TxSides
  <1>10. RealLoad(y, c) = l + L
    <2>1. RealLoad(y, c) = Ahead(Size, c.r, y.at)
      BY <1>1, <1>6, RealLoadIs
    <2> QED BY <1>1, <1>2, <1>3, <1>5, <2>1, AheadMore
  <1>11. RealLoad(y, c) <= y.committed
    BY <1>1, <1>2, <1>3, <1>4, <1>10 DEF Least
  <1> DEFINE at(k) == ((k + Size - x.at) % Size) + 1
  <1>12. u.ring = [k \in Slots |-> IF at(k) <= L THEN symbols[at(k)] ELSE s.ring[k]]
    BY DEF Commit
  <1>13. ASSUME NEW k \in Slots
         PROVE  at(k) = Ahead(Size, x.at, k) + 1 /\ Ahead(Size, x.at, k) \in 0..Size - 1
    <2>1. k \in 0..Size - 1
      BY <1>1
    <2>2. (k + Size - x.at) % Size = Ahead(Size, x.at, k)
      BY <1>1, <2>1, FarFrom DEF Ahead
    <2> QED BY <1>1, <2>1, <2>2, PlaceAhead
  <1> HIDE DEF at
  <1>14. u.ring \in [Slots -> Codes]
    <2>1. ASSUME NEW k \in Slots PROVE (IF at(k) <= L THEN symbols[at(k)] ELSE s.ring[k]) \in Codes
      <3>1. CASE at(k) <= L
        <4>1. at(k) \in 1..L
          <5> DEFINE j == Ahead(Size, x.at, k)
          <5>1. at(k) = j + 1 /\ j \in 0..Size - 1
            BY <1>13
          <5> HIDE DEF j, L
          <5> QED BY <1>1, <3>1, <5>1
        <4> QED BY <3>1, <4>1
      <3>2. CASE ~(at(k) <= L)
        BY <1>1, <3>2
      <3> QED BY <3>1, <3>2
    <2> QED BY <1>12, <2>1
  <1>15. u \in Sides
    <2>1. u = [tx |-> u.tx, ring |-> u.ring]
      BY DEF Commit
    <2> QED BY <1>9, <1>14, <2>1 DEF Sides
  <1> DEFINE b == InBuffer(x, c, s.ring)
             d == InBuffer(y, c, u.ring)
  <1>16. /\ b \in Seq(Codes) /\ Len(b) = l /\ \A i \in 1..l : b[i] = s.ring[Place(Size, c.r, i - 1)]
    BY <1>1, InBufferIs
  <1>17. /\ d \in Seq(Codes) /\ Len(d) = l + L
         /\ \A i \in 1..l + L : d[i] = u.ring[Place(Size, c.r, i - 1)]
    <2>1. y.at \in Slots /\ c.r \in Slots /\ u.ring \in [Slots -> Codes]
      BY <1>1, <1>6, <1>14
    <2> DEFINE n == RealLoad(y, c)
    <2> HIDE DEF y
    <2>2. /\ d \in Seq(Codes) /\ Len(d) = n
          /\ \A i \in 1..n : d[i] = u.ring[Place(Size, c.r, i - 1)]
      BY <2>1, InBufferIs
    <2>3. n = l + L
      BY <1>10
    <2> HIDE DEF d, n, l, L
    <2> QED BY <2>2, <2>3
  <1> HIDE DEF b, d, x, y, l
  <1>18. ASSUME NEW i \in 1..l + L PROVE d[i] = (b \o symbols)[i]
    <2> DEFINE k == Place(Size, c.r, i - 1)
    <2>1. i - 1 \in 0..Size - 1
      BY <1>1, <1>2, <1>3
    <2>2. k \in Slots /\ k \in 0..Size - 1
      BY <1>1, <2>1, PlaceAhead
    <2>3. Ahead(Size, x.at, k) = IF i - 1 < l THEN Size - l + (i - 1) ELSE i - 1 - l
      BY <1>1, <1>2, <2>1, AheadOf
    <2>4. d[i] = u.ring[k]
      BY <1>17
    <2> HIDE DEF k
    <2>5. at(k) = (IF i - 1 < l THEN Size - l + (i - 1) ELSE i - 1 - l) + 1
      BY <1>13, <2>2, <2>3
    <2>6. u.ring[k] = IF at(k) <= L THEN symbols[at(k)] ELSE s.ring[k]
      BY <1>12, <2>2
    <2>7. CASE i \in 1..l
      <3>1. ~(at(k) <= L)
        BY SMTT(30), <1>1, <1>2, <1>3, <2>5, <2>7
      <3>2. d[i] = b[i]
        BY <1>16, <2>4, <2>6, <2>7, <3>1 DEF k
      <3> QED BY <1>16, <2>7, <3>2
    <2>8. CASE i \in l + 1..l + L
      <3>1. at(k) = i - l /\ i - l \in 1..L
        BY SMTT(30), <1>1, <1>2, <2>5, <2>8
      <3>2. d[i] = symbols[i - l]
        <4>1. at(k) <= L
          BY <1>1, <3>1
        <4> QED BY <2>4, <2>6, <3>1, <4>1
      <3> QED BY SMTT(30), <1>1, <1>2, <1>16, <2>8, <3>1, <3>2
    <2>9. i \in 1..l \/ i \in l + 1..l + L
      <3> HIDE DEF L
      <3> QED BY <1>1, <1>2
    <2> QED BY <2>7, <2>8, <2>9
  <1>19. d = b \o symbols
    <2>1. b \o symbols \in Seq(Codes) /\ Len(b \o symbols) = l + L
      BY SMTT(30), <1>16
    <2> HIDE DEF L
    <2> QED BY <1>17, <1>18, <2>1
  <1> QED BY <1>8, <1>10, <1>11, <1>15, <1>19 DEF Extends, b, d, x, y, l

\* The card's state: the burst FIFO holds whole data words.
Cards == {c \in [r : Slots, stale : Slots \cup {-1}, burst : 0..BurstSize] : \E k \in Nat : c.burst = k * Word}

LEMMA TimesMost ==
  ASSUME NEW n \in Nat \ {0}, NEW x \in Nat, NEW w \in Nat, w <= x \div n
  PROVE  x \div n \in Nat /\ w * n <= x /\ w * n \in Nat
  <1> DEFINE q == x \div n
  <1>1. q \in Int /\ x % n \in 0..n - 1 /\ x = q * n + (x % n)
    BY DivMod
  <1>2. q \in Nat
    BY SMT
  <1> HIDE DEF q
  <1>3. q * n \in Int /\ w * n \in Nat
    BY <1>2
  <1>4. q * n <= x
    <2> DEFINE m == x % n
    <2>1. m \in Nat /\ x = q * n + m
      BY <1>1
    <2> HIDE DEF m
    <2> QED BY <1>3, <2>1
  <1>5. w * n <= q * n
    <2>1. CASE w = q
      BY <1>3, <2>1
    <2>2. CASE w < q
      <3>1. w * n + n <= q * n
        BY <1>2, <2>2, MulLess
      <3> QED BY <1>3, <3>1
    <2>3. w <= q
      BY DEF q
    <2> QED BY <1>2, <2>1, <2>2, <2>3
  <1> QED BY <1>2, <1>3, <1>4, <1>5 DEF q

\* The words the card takes: of the buffer, and there is room for them.
LEMMA WordsTaken ==
  ASSUME NEW x, x.at \in Slots, NEW c \in Cards,
         NEW n, n = Words(x, c) * Word
  PROVE  n \in 0..RealLoad(x, c) /\ c.burst + n \in 0..BurstSize /\ \E k \in Nat : c.burst + n = k * Word
  <1> DEFINE l == RealLoad(x, c)
             free == BurstSize - c.burst
             w == Words(x, c)
  <1>1. /\ c.r \in Slots /\ c.burst \in 0..BurstSize /\ Word \in Nat \ {0} /\ BurstSize \in Nat
    BY Sizes DEF Cards
  <1>2. l \in Nat
    BY <1>1, RealLoadIs, Sizes
  <1>3. free \in Nat
    BY <1>1
  <1>4. w = Least(l \div Word, free \div Word)
    BY DEF Words
  <1> HIDE DEF l, free, w
  <1>5. l \div Word \in Nat /\ free \div Word \in Nat
    BY <1>1, <1>2, <1>3, SMT
  <1>6. w \in Nat /\ w <= l \div Word /\ w <= free \div Word
    <2> DEFINE a == l \div Word
               b == free \div Word
    <2>1. a \in Nat /\ b \in Nat /\ w = Least(a, b)
      BY <1>4, <1>5
    <2> HIDE DEF a, b
    <2>2. w \in Nat /\ w <= a /\ w <= b
      BY <2>1 DEF Least
    <2> QED BY <2>2 DEF a, b
  <1>7. n = w * Word
    BY DEF w
  <1>8. n \in Nat /\ n <= l /\ n <= free
    BY <1>1, <1>2, <1>3, <1>6, <1>7, TimesMost
  <1>9. PICK k \in Nat : c.burst = k * Word
    BY DEF Cards
  <1>10. c.burst + n = (k + w) * Word /\ k + w \in Nat
    BY <1>1, <1>6, <1>7, <1>9, SMT
  <1>11. n \in 0..l
    BY <1>2, <1>8
  <1>12. c.burst + n \in 0..BurstSize
    BY <1>1, <1>8 DEF free
  <1> QED BY <1>10, <1>11, <1>12 DEF l

LEMMA SplitAt ==
  ASSUME NEW S, NEW s \in Seq(S), NEW n \in 0..Len(s)
  PROVE  /\ First(s, n) \in Seq(S) /\ Without(s, n) \in Seq(S) /\ First(s, n) \o Without(s, n) = s
         /\ Len(Without(s, n)) = Len(s) - n /\ \A i \in 1..Len(s) - n : Without(s, n)[i] = s[n + i]
  <1>1. Least(n, Len(s)) = n
    BY DEF Least
  <1>2. First(s, n) = SubSeq(s, 1, n) /\ Without(s, n) = SubSeq(s, n + 1, Len(s))
    BY <1>1 DEF First, Without
  <1>3. First(s, n) \in Seq(S) /\ Without(s, n) \in Seq(S) /\ Len(First(s, n)) = n
        /\ Len(Without(s, n)) = Len(s) - n
    BY <1>2
  <1>4. \A i \in 1..Len(s) - n : Without(s, n)[i] = s[n + i]
    BY <1>2
  <1>5. First(s, n) \o Without(s, n) = s
    <2> DEFINE u == First(s, n) \o Without(s, n)
    <2>1. u \in Seq(S) /\ Len(u) = Len(s)
      BY <1>3
    <2>2. ASSUME NEW i \in 1..Len(s) PROVE u[i] = s[i]
      <3>1. CASE i \in 1..n
        <4>1. u[i] = First(s, n)[i]
          BY <1>3, <3>1
        <4>2. SubSeq(s, 1, n)[i] = s[i]
          BY <3>1
        <4> HIDE DEF u
        <4> QED BY <1>2, <4>1, <4>2
      <3>2. CASE i \in n + 1..Len(s)
        <4>1. i - n \in 1..Len(s) - n /\ n + (i - n) = i
          BY <3>2
        <4>2. u[i] = Without(s, n)[i - n]
          BY <1>3, <3>2
        <4> QED BY <1>4, <4>1, <4>2
      <3>3. i \in 1..n \/ i \in n + 1..Len(s)
        OBVIOUS
      <3> QED BY <3>1, <3>2, <3>3
    <2> HIDE DEF u
    <2>3. u = s
      BY <2>1, <2>2
    <2> QED BY <2>3 DEF u
  <1> QED BY <1>3, <1>4, <1>5

\* The buffer loses what the card takes, and keeps the rest.
LEMMA RefillTakes ==
  ASSUME NEW x, x.at \in Slots, NEW c \in Cards, NEW rg \in [Slots -> Codes], Refill(x, c, rg)
  PROVE  /\ card' \in Cards /\ ring' \in [Slots -> Codes]
         /\ \E n \in 0..RealLoad(x, c) :
              /\ RealLoad(x, card') = RealLoad(x, c) - n
              /\ InBuffer(x, card', ring') = Without(InBuffer(x, c, rg), n)
              /\ gone' = (gone + Len(Data(First(InBuffer(x, c, rg), n)))) % Numbers
  <1> DEFINE n == Words(x, c) * Word
             l == RealLoad(x, c)
             b == InBuffer(x, c, rg)
             d == card'
  <1>1. /\ card' = [c EXCEPT !.r = (c.r + n) % Size, !.burst = c.burst + n,
                             !.stale = IF x.committed > 0 /\ "stale" \notin Liberties THEN -1 ELSE c.stale]
        /\ gone' = (gone + Len(Data(First(b, n)))) % Numbers
        /\ ring' = [s \in Slots |-> IF (s + Size - d.r) % Size < RealLoad(x, d) THEN rg[s] ELSE K28]
    BY DEF Refill
  <1>2. /\ c.r \in 0..Size - 1 /\ c.stale \in Slots \cup {-1} /\ Size \in Nat \ {0} /\ Slots = 0..Size - 1
        /\ x.at \in 0..Size - 1
    BY Sizes DEF Cards, Slots
  <1>3. n \in 0..l /\ c.burst + n \in 0..BurstSize /\ \E k \in Nat : c.burst + n = k * Word
    BY WordsTaken
  <1>4. l = Ahead(Size, c.r, x.at) /\ l \in 0..Size - 1
    BY <1>2, RealLoadIs
  <1>5. n \in 0..Size - 1 /\ n \in 0..Size
    <2> HIDE DEF n, l
    <2> QED BY <1>2, <1>3, <1>4
  <1>6. /\ b \in Seq(Codes) /\ Len(b) = l /\ \A i \in 1..l : b[i] = rg[Place(Size, c.r, i - 1)]
    BY <1>2, InBufferIs
  <1> HIDE DEF n, l, b
  <1>7. d.r = Place(Size, c.r, n)
    <2>1. d.r = (c.r + n) % Size
      BY <1>1 DEF Cards
    <2> QED BY <1>2, <1>5, <2>1, PlaceAt DEF Place
  <1>8. d.r \in Slots /\ d.r \in 0..Size - 1
    BY <1>2, <1>5, <1>7 DEF Place
  <1>9. d \in Cards
    <2>1. c \in [r : Slots, stale : Slots \cup {-1}, burst : 0..BurstSize]
      BY DEF Cards
    <2>2. (c.r + n) % Size \in Slots
      <3>1. d.r = (c.r + n) % Size
        BY <1>1, <2>1
      <3> QED BY <1>8, <3>1
    <2>3. d \in [r : Slots, stale : Slots \cup {-1}, burst : 0..BurstSize] /\ d.burst = c.burst + n
      BY <1>1, <1>2, <1>3, <2>1, <2>2
    <2> QED BY <1>3, <2>3 DEF Cards
  <1> HIDE DEF d
  <1>10. RealLoad(x, d) = l - n
    <2>1. RealLoad(x, d) = Ahead(Size, d.r, x.at)
      BY <1>2, <1>8, RealLoadIs
    <2> QED BY <1>2, <1>3, <1>4, <1>7, <2>1, AheadLess
  <1>11. ring' \in [Slots -> Codes]
    <2>1. \A s \in Slots : (IF (s + Size - d.r) % Size < RealLoad(x, d) THEN rg[s] ELSE K28) \in Codes
      BY CodesAre
    <2> QED BY <1>1, <2>1 DEF d
  <1> DEFINE e == InBuffer(x, d, ring')
  <1>12. /\ e \in Seq(Codes) /\ Len(e) = l - n
         /\ \A i \in 1..l - n : e[i] = ring'[Place(Size, d.r, i - 1)]
    BY <1>2, <1>8, <1>10, <1>11, InBufferIs
  <1> HIDE DEF e
  <1>13. ASSUME NEW i \in 1..l - n PROVE e[i] = b[n + i]
    <2> DEFINE s == Place(Size, d.r, i - 1)
    <2>1. i - 1 \in 0..Size - 1 /\ n + (i - 1) <= Size - 1 /\ n + i \in 1..l /\ n + i - 1 = n + (i - 1)
          /\ i - 1 < l - n
      BY <1>2, <1>3, <1>4
    <2>2. s \in 0..Size - 1 /\ Ahead(Size, d.r, s) = i - 1
      BY <1>2, <1>8, <2>1, PlaceAhead
    <2>3. s = Place(Size, c.r, n + i - 1)
      BY SMTT(30), <1>2, <1>3, <1>4, <1>7, <2>1, AheadLess
    <2> HIDE DEF s
    <2>4. (s + Size - d.r) % Size = i - 1
      BY <1>2, <1>8, <2>2, FarFrom DEF Ahead
    <2>5. ring'[s] = rg[s]
      <3>1. s \in Slots
        BY <1>2, <2>2
      <3>2. ring'[s] = IF (s + Size - d.r) % Size < RealLoad(x, d) THEN rg[s] ELSE K28
        BY <1>1, <3>1 DEF d
      <3> QED BY <1>10, <2>1, <2>4, <3>2
    <2>6. e[i] = ring'[s]
      BY <1>12 DEF s
    <2>7. b[n + i] = rg[Place(Size, c.r, n + i - 1)]
      <3> DEFINE j == n + i
      <3>1. j \in 1..l
        BY <2>1
      <3>2. b[j] = rg[Place(Size, c.r, j - 1)]
        BY <1>6, <3>1
      <3>3. j - 1 = n + (i - 1)
        BY <1>2, <1>3, <1>4, <2>1
      <3> QED BY <3>2, <3>3, Zenon
    <2> QED BY <2>3, <2>5, <2>6, <2>7
  <1>14. e = Without(b, n)
    <2>1. n \in 0..Len(b)
      BY <1>3, <1>6
    <2>2. /\ Without(b, n) \in Seq(Codes) /\ Len(Without(b, n)) = l - n
          /\ \A i \in 1..l - n : Without(b, n)[i] = b[n + i]
      BY ZenonT(60), <1>6, <2>1, SplitAt
    <2> QED BY <1>12, <1>13, <2>2
  <1> QED BY <1>1, <1>3, <1>9, <1>10, <1>11, <1>14 DEF b, d, e, l

--------------------------------------------------------------------------------
(* A side and its stream.                                                  *)

\* Side s, with the card at c, has the program's bytes from number g on, up to t, of which those from m
\* on are in the FIFO; numbers are not taken modulo Numbers.  The buffer is within its limits, the
\* encoder is where its last symbol says and, unless a write was cut off and there is nothing more to
\* encode, where the next byte belongs.
Carries(ct, s, c, g, t) ==
  /\ s \in Sides /\ RealLoad(s.tx, c) <= MaxLoad /\ RealLoad(s.tx, c) <= s.tx.committed
  /\ Len(s.tx.fifo) <= FifoSize /\ s.tx.held <= FifoSize
  /\ \E m \in Nat, p \in 0..Packet - 1 :
       /\ Runs(ct, InBuffer(s.tx, c, s.ring), Point(g, p), Point(m, s.tx.index))
       /\ Numbered(s.tx.fifo, m) /\ t = m + Len(s.tx.fifo)
       /\ (~ct \/ s.tx.fifo # <<>>) => s.tx.index = InPacket(m)

LEMMA SideTypes ==
  ASSUME NEW s \in Sides
  PROVE  /\ s.tx \in TxSides /\ s.ring \in [Slots -> Codes]
         /\ s.tx.control \in {"idle", "hold", "send"} /\ s.tx.fifo \in Seq(Codes) /\ s.tx.held \in Nat
         /\ s.tx.at \in Slots /\ s.tx.committed \in 0..Size /\ s.tx.stuff \in BOOLEAN
         /\ s.tx.index \in 0..Packet - 1 /\ s.tx.lead \in 0..Lead /\ Len(s.tx.fifo) \in Nat
         /\ s = Side(s.tx, s.ring)
  <1>1. s.tx \in TxSides /\ s.ring \in [Slots -> Codes] /\ s = Side(s.tx, s.ring)
    BY DEF Sides, Side
  <1>2. s.tx.fifo \in Seq(Codes)
    BY <1>1 DEF TxSides
  <1>3. Len(s.tx.fifo) \in Nat
    BY <1>2
  <1> QED BY <1>1, <1>2, <1>3 DEF TxSides

LEMMA SideIs ==
  ASSUME NEW x, NEW rg
  PROVE  Side(x, rg).tx = x /\ Side(x, rg).ring = rg
  BY DEF Side

LEMMA PointIs ==
  ASSUME NEW a \in Points
  PROVE  a = Point(a.pos, a.index) /\ a.pos \in Nat /\ a.index \in 0..Packet - 1
  BY DEF Points, Point

LEMMA PointParts ==
  ASSUME NEW p, NEW i
  PROVE  Point(p, i).pos = p /\ Point(p, i).index = i
  BY DEF Point

\* What the card takes goes on in the number, and the rest stays as it is.
LEMMA RefillCarries ==
  ASSUME NEW ct \in BOOLEAN, NEW s, NEW c \in Cards, NEW g \in Nat, NEW t, Carries(ct, s, c, g, t),
         g % Numbers = gone, Refill(s.tx, c, s.ring), tx' = s.tx
  PROVE  /\ card' \in Cards
         /\ \E h \in Nat : h >= g /\ h % Numbers = gone' /\ Carries(ct, Side(tx', ring'), card', h, t)
  <1> DEFINE x == s.tx
             b == InBuffer(x, c, s.ring)
             u == Side(x, ring')
  <1>1. s \in Sides /\ RealLoad(x, c) <= MaxLoad /\ RealLoad(x, c) <= x.committed
        /\ Len(x.fifo) <= FifoSize /\ x.held <= FifoSize
    BY DEF Carries
  <1>2. x \in TxSides /\ x.at \in Slots /\ x.committed \in 0..Size /\ s.ring \in [Slots -> Codes]
    BY <1>1, SideTypes
  <1>3. c.r \in Slots
    BY DEF Cards
  <1>4. PICK m \in Nat, p \in 0..Packet - 1 :
          /\ Runs(ct, b, Point(g, p), Point(m, x.index))
          /\ Numbered(x.fifo, m) /\ t = m + Len(x.fifo)
          /\ (~ct \/ x.fifo # <<>>) => x.index = InPacket(m)
    BY DEF Carries
  <1>5. card' \in Cards /\ ring' \in [Slots -> Codes]
    BY <1>2, RefillTakes
  <1>6. PICK n \in 0..RealLoad(x, c) :
          /\ RealLoad(x, card') = RealLoad(x, c) - n
          /\ InBuffer(x, card', ring') = Without(b, n)
          /\ gone' = (gone + Len(Data(First(b, n)))) % Numbers
    BY <1>2, RefillTakes
  <1>7. b \in Seq(Codes) /\ Len(b) = RealLoad(x, c) /\ RealLoad(x, c) \in 0..Size - 1
    BY <1>2, <1>3, InBufferIs, RealLoadIs
  <1> HIDE DEF b
  <1>8. /\ First(b, n) \in Seq(Codes) /\ Without(b, n) \in Seq(Codes)
        /\ First(b, n) \o Without(b, n) = b
    <2>1. n \in 0..Len(b)
      BY <1>7
    <2> QED BY <1>7, <2>1, SplitAt
  <1>9. PICK a \in Points : /\ Runs(ct, First(b, n), Point(g, p), a)
                            /\ Runs(ct, Without(b, n), a, Point(m, x.index))
    BY <1>4, <1>8, RunsSplit
  <1> DEFINE L == Len(Data(First(b, n)))
             h == a.pos
  <1>10. L \in Nat /\ h = g + L
    <2>1. a.pos = Point(g, p).pos + L /\ Data(First(b, n)) \in Seq(Codes)
      BY <1>8, <1>9, RunsData
    <2> QED BY <2>1, PointParts
  <1>11. h \in Nat /\ a.index \in 0..Packet - 1 /\ a = Point(h, a.index)
    BY PointIs
  <1>12. h % Numbers = gone'
    <2>1. gone' = ((g % Numbers) + L) % Numbers
      BY <1>6
    <2>2. Numbers \in Nat \ {0} /\ L \in Int /\ g \in Int
      BY <1>10, Sizes
    <2> HIDE DEF L, h
    <2>3. ((g % Numbers) + L) % Numbers = (g + L) % Numbers
      BY <2>2, ModMod
    <2> QED BY <1>10, <2>1, <2>3
  <1>13. h >= g
    <2> HIDE DEF L, h
    <2> QED BY <1>10
  <1>14. Runs(ct, InBuffer(x, card', ring'), Point(h, a.index), Point(m, x.index))
    BY <1>6, <1>9, <1>11
  <1>15. u \in Sides /\ u.tx = x /\ u.ring = ring'
    BY <1>2, <1>5 DEF Side, Sides
  <1>16. RealLoad(x, card') <= MaxLoad /\ RealLoad(x, card') <= x.committed
    <2>1. RealLoad(x, c) \in Nat /\ MaxLoad \in Nat /\ x.committed \in Nat
      <3>1. Size \in Nat /\ MaxLoad \in Nat
        BY Sizes
      <3>2. RealLoad(x, c) \in Nat
        BY <1>7, <3>1
      <3>3. x.committed \in Nat
        BY <1>2, <3>1
      <3> QED BY <3>1, <3>2, <3>3
    <2>2. RealLoad(x, card') <= RealLoad(x, c) /\ RealLoad(x, card') \in Nat
      BY <1>6, <2>1
    <2> QED BY <1>1, <2>1, <2>2
  <1> HIDE DEF u, h
  <1>17. Carries(ct, u, card', h, t)
    BY <1>1, <1>4, <1>11, <1>14, <1>15, <1>16 DEF Carries
  <1> QED BY <1>5, <1>11, <1>12, <1>13, <1>17 DEF u

\* With the liberties left out the load is the real one.
LEMMA LoadIs ==
  ASSUME Liberties = {}, NEW ct, NEW s, NEW c \in Cards, NEW g, NEW t, Carries(ct, s, c, g, t),
         s.tx.control # "idle"
  PROVE  DmaBufferLoad(s.tx, c) = RealLoad(s.tx, c) /\ RealLoad(s.tx, c) \in 0..MaxLoad
  <1> DEFINE x == s.tx
             l == RealLoad(x, c)
             off == ReadOffset(x, c)
             free == (off + MaxLoad + Size - x.at) % Size
  <1>1. /\ l <= MaxLoad /\ l <= x.committed /\ x.at \in 0..Size - 1 /\ x.committed \in 0..Size
        /\ c.r \in 0..Size - 1 /\ c.stale \in (0..Size - 1) \cup {-1} /\ Size \in Nat \ {0}
        /\ MaxLoad \in Nat /\ MaxLoad <= Size - 1 /\ x.at \in Slots /\ c.r \in Slots
    <2>1. s \in Sides /\ l <= MaxLoad /\ l <= x.committed
      BY DEF Carries
    <2> QED BY <2>1, SideTypes, Sizes DEF Cards, Slots
  <1>2. l = Ahead(Size, c.r, x.at) /\ l \in 0..Size - 1
    BY <1>1, RealLoadIs
  <1>3. l \in 0..MaxLoad
    BY <1>1, <1>2
  <1>4. DmaBufferLoad(x, c) = IF free > MaxLoad THEN 0 ELSE Least(MaxLoad - free, x.committed)
    BY DEF DmaBufferLoad
  <1>5. off \in 0..Size - 1 /\ (off = c.r \/ x.committed = 0)
    BY <1>1 DEF ReadOffset
  <1>6. free \in 0..Size - 1
    <2>1. off + MaxLoad + Size - x.at \in Int
      BY <1>1, <1>5
    <2> QED BY <1>1, <2>1, DivMod
  <1>7. CASE off = c.r
    <2> DEFINE y == off + MaxLoad + Size - x.at
    <2>1. y = (IF c.r <= x.at THEN 1 ELSE 2) * Size + (MaxLoad - l)
      BY <1>1, <1>2, <1>7 DEF Ahead
    <2>2. y \in Int /\ MaxLoad - l \in 0..Size - 1
      BY <1>1, <1>3, <1>5
    <2> HIDE DEF y, l
    <2>3. y % Size = MaxLoad - l
      <3> DEFINE k == IF c.r <= x.at THEN 1 ELSE 2
                 z == MaxLoad - l
      <3>1. k \in Int /\ y = k * Size + z /\ z \in 0..Size - 1
        BY <2>1, <2>2
      <3> HIDE DEF k, z
      <3>2. y % Size = z
        BY <1>1, <2>2, <3>1, ModIs
      <3> QED BY <3>2 DEF z
    <2>4. free = MaxLoad - l
      BY <2>3 DEF y
    <2> HIDE DEF free
    <2>5. ~(free > MaxLoad) /\ MaxLoad - free = l
      BY <1>1, <1>3, <2>4
    <2> QED BY <1>1, <1>3, <1>4, <2>5 DEF Least, l
  <1>8. CASE x.committed = 0
    <2>1. l = 0
      BY <1>1, <1>3, <1>8
    <2> HIDE DEF free, l
    <2>2. (IF free > MaxLoad THEN 0 ELSE Least(MaxLoad - free, x.committed)) = 0
      BY <1>1, <1>6, <1>8 DEF Least
    <2> QED BY <1>3, <1>4, <2>1, <2>2 DEF l
  <1> QED BY <1>5, <1>7, <1>8

\* Side s once the symbols of e are committed.
Encoded(s, e) == [Commit(s, e.out) EXCEPT !.tx.index = e.index, !.tx.lead = e.lead]

LEMMA EncodeIntoIs ==
  ASSUME NEW s, NEW in, NEW free, NEW e \in Encodings,
         e = Encode(in, free, s.tx.index, s.tx.lead)
  PROVE  EncodeInto(s, in, free) = [side |-> Encoded(s, e), in |-> e.in]
  <1> DEFINE f == [d \in Encodings |->
                     [side |-> [Commit(s, d.out) EXCEPT !.tx.index = d.index, !.tx.lead = d.lead],
                      in |-> d.in]]
  <1>1. EncodeInto(s, in, free) = f[e]
    BY DEF EncodeInto
  <1>2. f[e] = [side |-> Encoded(s, e), in |-> e.in]
    BY DEF Encoded
  <1> QED BY <1>1, <1>2

\* Side w is side s with the symbols of e and its index, for the card at c.
Encodes(w, s, c, e) ==
  /\ w \in Sides /\ w.tx.index = e.index /\ w.tx.control = s.tx.control
  /\ w.tx.fifo = s.tx.fifo /\ w.tx.held = s.tx.held /\ w.tx.stuff = s.tx.stuff
  /\ RealLoad(w.tx, c) = RealLoad(s.tx, c) + Len(e.out)
  /\ RealLoad(w.tx, c) <= w.tx.committed
  /\ InBuffer(w.tx, c, w.ring) = InBuffer(s.tx, c, s.ring) \o e.out

LEMMA EncodedIs ==
  ASSUME NEW s \in Sides, NEW c, c.r \in Slots, NEW e \in Encodings,
         RealLoad(s.tx, c) + Len(e.out) <= MaxLoad, RealLoad(s.tx, c) <= s.tx.committed,
         NEW w, w = Encoded(s, e)
  PROVE  Encodes(w, s, c, e)
  <1> DEFINE u == Commit(s, e.out)
             o == e.out
  <1>1. e.out \in Seq(Codes) /\ e.index \in 0..Packet - 1 /\ e.lead \in 0..Lead
    BY DEF Encodings
  <1>2. /\ u \in Sides
        /\ u.tx = [s.tx EXCEPT !.at = u.tx.at, !.committed = u.tx.committed]
        /\ RealLoad(u.tx, c) = RealLoad(s.tx, c) + Len(e.out)
        /\ RealLoad(u.tx, c) <= u.tx.committed
        /\ InBuffer(u.tx, c, u.ring) = InBuffer(s.tx, c, s.ring) \o e.out
    <2>1. o \in Seq(Codes) /\ u = Commit(s, o) /\ RealLoad(s.tx, c) + Len(o) <= MaxLoad
      BY <1>1
    <2> HIDE DEF u, o
    <2>2. /\ u \in Sides
          /\ u.tx = [s.tx EXCEPT !.at = u.tx.at, !.committed = u.tx.committed]
          /\ RealLoad(u.tx, c) = RealLoad(s.tx, c) + Len(o)
          /\ RealLoad(u.tx, c) <= u.tx.committed
          /\ InBuffer(u.tx, c, u.ring) = InBuffer(s.tx, c, s.ring) \o o
      <3>1. c.r \in Slots /\ RealLoad(s.tx, c) <= s.tx.committed
        OBVIOUS
      <3>2. Extends(u, s, c, o)
        BY <2>1, <3>1, CommitAppends
      <3> QED BY <3>2 DEF Extends
    <2> QED BY <2>2 DEF o
  <1>3. w = [u EXCEPT !.tx.index = e.index, !.tx.lead = e.lead]
    BY DEF Encoded
  <1> HIDE DEF u
  <1>4. /\ w = [tx |-> [u.tx EXCEPT !.index = e.index, !.lead = e.lead], ring |-> u.ring]
        /\ w.tx = [u.tx EXCEPT !.index = e.index, !.lead = e.lead] /\ w.ring = u.ring
    BY <1>2, <1>3 DEF Sides
  <1>5. s.tx \in TxSides /\ u.tx \in TxSides /\ u.ring \in [Slots -> Codes]
    BY <1>2, SideTypes
  <1>6. w.tx \in TxSides /\ w.tx.at = u.tx.at /\ w.tx.committed = u.tx.committed
        /\ w.tx.index = e.index
    BY <1>1, <1>4, <1>5 DEF TxSides
  <1>7. w.tx.control = s.tx.control /\ w.tx.fifo = s.tx.fifo /\ w.tx.held = s.tx.held
        /\ w.tx.stuff = s.tx.stuff
    <2>1. w.tx.control = u.tx.control /\ w.tx.fifo = u.tx.fifo /\ w.tx.held = u.tx.held
          /\ w.tx.stuff = u.tx.stuff
      BY <1>4, <1>5 DEF TxSides
    <2>2. u.tx.control = s.tx.control /\ u.tx.fifo = s.tx.fifo /\ u.tx.held = s.tx.held
          /\ u.tx.stuff = s.tx.stuff
      BY <1>2, <1>5 DEF TxSides
    <2> QED BY <2>1, <2>2
  <1>8. w \in Sides
    BY <1>4, <1>5, <1>6 DEF Sides
  <1>9. RealLoad(w.tx, c) = RealLoad(u.tx, c)
    BY <1>6 DEF RealLoad
  <1>10. InBuffer(w.tx, c, w.ring) = InBuffer(u.tx, c, u.ring)
    BY <1>4, <1>9 DEF InBuffer
  <1> QED BY <1>2, <1>6, <1>7, <1>8, <1>9, <1>10 DEF Encodes

\* The last data word is filled.
LEMMA FillCarries ==
  ASSUME NEW ct \in BOOLEAN, NEW s, NEW c \in Cards, NEW g \in Nat, NEW t, Carries(ct, s, c, g, t),
         NEW l, l = RealLoad(s.tx, c), l \in 1..Word - 1,
         NEW w, w = Commit(s, [i \in 1..Word - l |-> K28])
  PROVE  /\ Carries(ct, w, c, g, t) /\ RealLoad(w.tx, c) = Word
         /\ w.tx.control = s.tx.control /\ w.tx.fifo = s.tx.fifo /\ w.tx.held = s.tx.held
         /\ w.tx.stuff = s.tx.stuff
  <1> DEFINE x == s.tx
             b == InBuffer(x, c, s.ring)
             k == [i \in 1..Word - l |-> K28]
  <1>1. /\ s \in Sides /\ RealLoad(x, c) <= x.committed /\ Len(x.fifo) <= FifoSize /\ x.held <= FifoSize
        /\ x \in TxSides /\ x.at \in Slots /\ s.ring \in [Slots -> Codes] /\ c.r \in Slots
        /\ x.index \in 0..Packet - 1
    BY SideTypes DEF Carries, Cards
  <1>2. PICK m \in Nat, p \in 0..Packet - 1 :
          /\ Runs(ct, b, Point(g, p), Point(m, x.index))
          /\ Numbered(x.fifo, m) /\ t = m + Len(x.fifo)
          /\ (~ct \/ x.fifo # <<>>) => x.index = InPacket(m)
    BY DEF Carries
  <1>3. /\ k \in Seq(Codes) /\ Len(k) = Word - l /\ l + Len(k) = Word
        /\ \A i \in 1..Len(k) : k[i] = K28
    <2>1. Word - l \in Nat /\ Word \in Nat /\ l \in Nat
      <3>1. Word \in Nat \ {0}
        BY Sizes
      <3> QED BY <3>1
    <2>2. k \in [1..Word - l -> Codes]
      BY CodesAre
    <2>3. k \in Seq(Codes) /\ Len(k) = Word - l
      BY <2>1, <2>2
    <2> QED BY <2>1, <2>3
  <1> HIDE DEF k
  <1>4. /\ w \in Sides
        /\ w.tx = [x EXCEPT !.at = w.tx.at, !.committed = w.tx.committed]
        /\ RealLoad(w.tx, c) = Word
        /\ RealLoad(w.tx, c) <= w.tx.committed
        /\ InBuffer(w.tx, c, w.ring) = b \o k
    <2>1. w = Commit(s, k) /\ RealLoad(x, c) + Len(k) <= MaxLoad
      BY <1>3, WordFits DEF k
    <2> HIDE DEF b
    <2>2. /\ w \in Sides
          /\ w.tx = [s.tx EXCEPT !.at = w.tx.at, !.committed = w.tx.committed]
          /\ RealLoad(w.tx, c) = RealLoad(s.tx, c) + Len(k)
          /\ RealLoad(w.tx, c) <= w.tx.committed
          /\ InBuffer(w.tx, c, w.ring) = InBuffer(s.tx, c, s.ring) \o k
      <3>1. s \in Sides /\ c.r \in Slots /\ RealLoad(s.tx, c) <= s.tx.committed /\ k \in Seq(Codes)
        BY <1>1, <1>3
      <3>2. Extends(w, s, c, k)
        BY <2>1, <3>1, CommitAppends
      <3> QED BY <3>2 DEF Extends
    <2> QED BY <1>3, <2>2 DEF b
  <1>5. /\ w.tx.control = x.control /\ w.tx.fifo = x.fifo /\ w.tx.held = x.held
        /\ w.tx.stuff = x.stuff /\ w.tx.index = x.index
    BY <1>1, <1>4 DEF TxSides
  <1>6. Runs(ct, b \o k, Point(g, p), Point(m, x.index))
    <2>1. b \in Seq(Codes) /\ Point(m, x.index) \in Points
      BY <1>1, InBufferIs DEF Point, Points
    <2>2. Runs(ct, k, Point(m, x.index), Point(m, x.index))
      BY <1>3, <2>1, RunsOnK28
    <2> HIDE DEF b
    <2> QED BY <1>2, <1>3, <2>1, <2>2, RunsConcat
  <1> HIDE DEF b
  <1>7. Carries(ct, w, c, g, t)
    BY <1>1, <1>2, <1>4, <1>5, <1>6, WordFits DEF Carries
  <1> QED BY <1>4, <1>5, <1>7

\* Side w carries the stream, and is side s with the symbols of e in its buffer and f in its FIFO.
CarriesOn(ct, w, c, g, t, s, e, f) ==
  /\ Carries(ct, w, c, g, t) /\ RealLoad(w.tx, c) = RealLoad(s.tx, c) + Len(e.out)
  /\ w.tx.control = s.tx.control /\ w.tx.fifo = f /\ w.tx.held = s.tx.held
  /\ w.tx.stuff = s.tx.stuff

\* What is encoded goes on where the stream is, and f is what the FIFO then holds.
LEMMA EncodedCarries ==
  ASSUME NEW ct \in BOOLEAN, NEW s \in Sides, NEW c \in Cards, NEW g \in Nat, NEW t,
         NEW m \in Nat, NEW p \in 0..Packet - 1, NEW q \in Nat,
         RealLoad(s.tx, c) <= s.tx.committed, s.tx.held <= FifoSize,
         Runs(ct, InBuffer(s.tx, c, s.ring), Point(g, p), Point(m, s.tx.index)),
         NEW e \in Encodings, RealLoad(s.tx, c) + Len(e.out) <= MaxLoad,
         Runs(ct, e.out, Point(m, s.tx.index), Point(q, e.index)),
         NEW f \in Seq(Codes), Len(f) <= FifoSize, Numbered(f, q), t = q + Len(f),
         ~ct \/ f # <<>> => e.index = InPacket(q),
         NEW w, w = [Encoded(s, e) EXCEPT !.tx.fifo = f]
  PROVE  CarriesOn(ct, w, c, g, t, s, e, f)
  <1> DEFINE v == Encoded(s, e)
             b == InBuffer(s.tx, c, s.ring)
  <1>1. c.r \in Slots
    BY DEF Cards
  <1>2. /\ v \in Sides /\ v.tx.index = e.index /\ v.tx.control = s.tx.control
        /\ v.tx.fifo = s.tx.fifo /\ v.tx.held = s.tx.held /\ v.tx.stuff = s.tx.stuff
        /\ RealLoad(v.tx, c) = RealLoad(s.tx, c) + Len(e.out)
        /\ RealLoad(v.tx, c) <= v.tx.committed
        /\ InBuffer(v.tx, c, v.ring) = b \o e.out
    <2>1. Encodes(v, s, c, e)
      BY <1>1, EncodedIs
    <2> QED BY <2>1 DEF Encodes
  <1>3. w = [v EXCEPT !.tx.fifo = f]
    OBVIOUS
  <1> HIDE DEF v
  <1>4. /\ v.tx \in TxSides /\ v.ring \in [Slots -> Codes]
        /\ w = [tx |-> [v.tx EXCEPT !.fifo = f], ring |-> v.ring]
    BY <1>2, <1>3 DEF Sides
  <1>5. /\ w.tx \in TxSides /\ w.ring = v.ring /\ w.tx.fifo = f
        /\ w.tx.at = v.tx.at /\ w.tx.committed = v.tx.committed /\ w.tx.index = v.tx.index
        /\ w.tx.control = v.tx.control /\ w.tx.held = v.tx.held /\ w.tx.stuff = v.tx.stuff
    <2>1. w.tx = [v.tx EXCEPT !.fifo = f] /\ w.ring = v.ring /\ v.tx \in TxSides
      BY <1>4
    <2> DEFINE y == w.tx
               z == v.tx
    <2>2. y = [z EXCEPT !.fifo = f] /\ z \in TxSides /\ f \in Seq(Codes)
      BY <2>1
    <2> HIDE DEF y, z
    <2>3. y \in TxSides /\ y.fifo = f /\ y.at = z.at /\ y.committed = z.committed
          /\ y.index = z.index /\ y.control = z.control /\ y.held = z.held /\ y.stuff = z.stuff
      BY <2>2 DEF TxSides
    <2> QED BY <2>1, <2>3 DEF y, z
  <1>6. w \in Sides
    BY <1>4, <1>5 DEF Sides
  <1>7. RealLoad(w.tx, c) = RealLoad(v.tx, c)
    BY <1>5 DEF RealLoad
  <1>8. InBuffer(w.tx, c, w.ring) = b \o e.out
    <2>1. InBuffer(w.tx, c, w.ring) = InBuffer(v.tx, c, v.ring)
      BY <1>5, <1>7 DEF InBuffer
    <2> QED BY <1>2, <2>1
  <1>9. Runs(ct, b \o e.out, Point(g, p), Point(q, e.index))
    <2>1. b \in Seq(Codes) /\ e.out \in Seq(Codes)
      BY <1>1, SideTypes, InBufferIs DEF Encodings
    <2>2. Runs(ct, b, Point(g, p), Point(m, s.tx.index))
      OBVIOUS
    <2> HIDE DEF b
    <2> QED BY <2>1, <2>2, RunsConcat
  <1> HIDE DEF b
  <1>10. Runs(ct, InBuffer(w.tx, c, w.ring), Point(g, p), Point(q, w.tx.index))
    BY <1>2, <1>5, <1>8, <1>9
  <1>11. RealLoad(w.tx, c) = RealLoad(s.tx, c) + Len(e.out) /\ RealLoad(w.tx, c) <= w.tx.committed
         /\ w.tx.held <= FifoSize /\ w.tx.index = e.index
    BY <1>2, <1>5, <1>7
  <1>12. Carries(ct, w, c, g, t)
    BY <1>5, <1>6, <1>10, <1>11 DEF Carries
  <1> QED BY <1>2, <1>5, <1>11, <1>12 DEF CarriesOn

\* Side w carries the stream as side s does, as far as a call can tell.
CarriesFor(ct, w, g, t, s) ==
  /\ Carries(ct, w, card, g, t)
  /\ w.tx.control = s.tx.control /\ w.tx.held = s.tx.held /\ w.tx.stuff = s.tx.stuff

\* Encoding what the FIFO holds: the FIFO is empty then, unless the target is reached.
LEMMA EncodeFifoCarries ==
  ASSUME Liberties = {}, NEW ct \in BOOLEAN, NEW s, card \in Cards, NEW g \in Nat, NEW t,
         Carries(ct, s, card, g, t), s.tx.control # "idle",
         NEW w, w = EncodeFifo(s)
  PROVE  /\ CarriesFor(ct, w, g, t, s)
         /\ RealLoad(w.tx, card) < Target => w.tx.fifo = <<>>
         /\ RealLoad(s.tx, card) + Len(s.tx.fifo) >= Target => RealLoad(w.tx, card) >= Target
  <1> DEFINE x == s.tx
             l == RealLoad(x, card)
             f == x.fifo
  <1>1. DmaBufferLoad(x, card) = l /\ l \in 0..MaxLoad
    BY LoadIs
  <1>2. /\ s \in Sides /\ RealLoad(x, card) <= x.committed /\ Len(f) <= FifoSize /\ x.held <= FifoSize
        /\ f \in Seq(Codes) /\ Len(f) \in Nat
        /\ x.index \in 0..Packet - 1 /\ x.lead \in 0..Lead
    BY SideTypes DEF Carries
  <1>3. /\ MaxLoad \in Nat /\ MinFree \in Nat \ {0} /\ Target \in Nat \ {0} /\ Word \in Nat \ {0}
        /\ MaxLoad >= MinFree + Target
    BY Sizes
  <1>4. PICK m \in Nat, p \in 0..Packet - 1 :
          /\ Runs(ct, InBuffer(x, card, s.ring), Point(g, p), Point(m, x.index))
          /\ Numbered(f, m) /\ t = m + Len(f)
          /\ (~ct \/ f # <<>>) => x.index = InPacket(m)
    BY DEF Carries
  <1>5. CASE l > 0 /\ l < Word /\ f = <<>>
    <2>1. w = Commit(s, [i \in 1..Word - l |-> K28])
      BY <1>1, <1>5 DEF EncodeFifo
    <2>2. l \in 1..Word - 1
      BY <1>1, <1>3, <1>5
    <2>3. /\ Carries(ct, w, card, g, t) /\ RealLoad(w.tx, card) = Word
          /\ w.tx.control = s.tx.control /\ w.tx.fifo = s.tx.fifo /\ w.tx.held = s.tx.held
          /\ w.tx.stuff = s.tx.stuff
      BY <2>1, <2>2, FillCarries
    <2>4. Len(f) = 0
      BY <1>5
    <2> HIDE DEF l, f
    <2>5. l + Len(f) >= Target => RealLoad(w.tx, card) >= Target
      BY <1>3, <2>2, <2>3, <2>4
    <2> QED BY <1>5, <2>3, <2>5 DEF CarriesFor, l, f
  <1>6. CASE ~(l > 0 /\ l < Word /\ f = <<>>) /\ MaxLoad - l < MinFree
    <2>1. w = s
      BY <1>1, <1>6 DEF EncodeFifo
    <2> HIDE DEF l, f
    <2>2. l >= Target /\ ~(l < Target)
      BY <1>1, <1>3, <1>6
    <2> QED BY <2>1, <2>2 DEF CarriesFor, l
  <1>7. CASE ~(l > 0 /\ l < Word /\ f = <<>>) /\ ~(MaxLoad - l < MinFree)
    <2> DEFINE free == MaxLoad - l
               e == Encode(f, free, x.index, x.lead)
    <2>1. free \in Nat
      <3> HIDE DEF l
      <3> QED BY <1>1, <1>3
    <2>2. \E q \in Nat :
            /\ e \in Encodings /\ Over(e) /\ e.room + Len(e.out) = free
            /\ Runs(ct, e.out, Point(m, x.index), Point(q, e.index))
            /\ Numbered(e.in, q) /\ q + Len(e.in) = m + Len(f)
            /\ ~ct \/ e.in # <<>> => e.index = InPacket(q)
      <3>1. CASE f = <<>>
        <4>1. e = Encoding(f, free, x.index, x.lead)
          BY <1>2, <2>1, <3>1, EncodeNothing
        <4>2. e \in Encodings /\ e.in = f /\ e.out = <<>> /\ e.room = free /\ e.index = x.index
          BY <1>2, <2>1, <4>1, EncodingIs
        <4>3. Point(m, x.index) \in Points
          BY <1>2 DEF Point, Points
        <4>4. Runs(ct, e.out, Point(m, x.index), Point(m, e.index))
          BY <4>2, <4>3, RunsEmpty
        <4>5. e.room + Len(e.out) = free
          BY <2>1, <4>2
        <4>6. Over(e)
          BY <3>1, <4>2 DEF Over
        <4> HIDE DEF e, f
        <4> QED BY <1>4, <3>1, <4>2, <4>4, <4>5, <4>6
      <3>2. CASE f # <<>>
        <4>1. /\ f \in Seq(Codes) /\ free \in Nat /\ x.index \in 0..Packet - 1 /\ x.lead \in 0..Lead
              /\ Numbered(f, m) /\ x.index = InPacket(m) /\ e = Encode(f, free, x.index, x.lead)
          BY <1>2, <1>4, <2>1, <3>2
        <4> HIDE DEF e, f, free, x
        <4>2. /\ e \in Encodings /\ Over(e) /\ e.room + Len(e.out) = free
              /\ \E q \in Nat : /\ Runs(ct, e.out, Point(m, x.index), Point(q, e.index))
                                /\ Numbered(e.in, q) /\ q + Len(e.in) = m + Len(f)
                                /\ e.index = InPacket(q)
          <5>1. ProgramEncoded(ct, f, free, x.index, m, e)
            BY <4>1, EncodeProgram
          <5> QED BY <5>1 DEF ProgramEncoded
        <4> QED BY <4>2
      <3> QED BY <3>1, <3>2
    <2>3. w = [Encoded(s, e) EXCEPT !.tx.fifo = e.in]
      <3>1. e \in Encodings
        BY <2>2
      <3> DEFINE d == EncodeInto(s, f, free)
      <3>2. d = [side |-> Encoded(s, e), in |-> e.in]
        BY <3>1, EncodeIntoIs
      <3> HIDE DEF e, d
      <3>3. Encoded(s, e) \in Sides /\ e.in \in Seq(Codes)
        <4>1. RealLoad(x, card) + Len(e.out) <= MaxLoad
          <5>1. e.room \in Nat /\ e.out \in Seq(Codes)
            BY <3>1 DEF Encodings
          <5>2. e.room + Len(e.out) = free /\ Len(e.out) \in Nat
            BY <2>2, <5>1
          <5> HIDE DEF l
          <5>3. l + Len(e.out) <= MaxLoad
            BY SMTT(30), <1>1, <1>3, <5>1, <5>2
          <5> QED BY <5>3 DEF l
        <4>2. card.r \in Slots
          BY DEF Cards
        <4>3. Encoded(s, e) \in Sides
          <5>1. Encodes(Encoded(s, e), s, card, e)
            BY <1>2, <3>1, <4>1, <4>2, EncodedIs
          <5> QED BY <5>1 DEF Encodes
        <4> QED BY <3>1, <4>3 DEF Encodings
      <3>4. d \in [side : Sides, in : Seq(Codes)]
        BY <3>2, <3>3
      <3> DEFINE taken == [h \in [side : Sides, in : Seq(Codes)] |-> [h.side EXCEPT !.tx.fifo = h.in]]
      <3>5. w = taken[d]
        BY <1>1, <1>7 DEF EncodeFifo, d
      <3>6. w = [d.side EXCEPT !.tx.fifo = d.in]
        BY <3>4, <3>5
      <3> QED BY <3>2, <3>6
    <2>4. PICK q \in Nat :
            /\ e \in Encodings /\ Over(e) /\ e.room + Len(e.out) = free
            /\ Runs(ct, e.out, Point(m, x.index), Point(q, e.index))
            /\ Numbered(e.in, q) /\ q + Len(e.in) = m + Len(f)
            /\ ~ct \/ e.in # <<>> => e.index = InPacket(q)
      BY <2>2
    <2> HIDE DEF e
    <2>5. e.room \in Nat /\ e.out \in Seq(Codes) /\ e.in \in Seq(Codes) /\ Len(e.out) \in Nat
          /\ Len(e.in) \in Nat /\ e.index \in 0..Packet - 1
      BY <2>4 DEF Encodings
    <2>6. q - m <= Len(e.out) /\ q >= m
      <3>1. Point(q, e.index).pos = Point(m, x.index).pos + Len(Data(e.out))
            /\ Len(Data(e.out)) <= Len(e.out) /\ Data(e.out) \in Seq(Codes)
        BY <2>4, <2>5, RunsData
      <3>2. q = m + Len(Data(e.out)) /\ Len(Data(e.out)) \in Nat
        BY <3>1, PointParts
      <3> QED BY <2>5, <3>1, <3>2
    <2>7. l + Len(e.out) <= MaxLoad /\ Len(e.in) <= FifoSize /\ t = q + Len(e.in)
      <3>1. FifoSize \in Nat \ {0}
        BY Sizes
      <3>2. t = m + Len(f) /\ q + Len(e.in) = m + Len(f) /\ e.room + Len(e.out) = MaxLoad - l
        BY <1>4, <2>4
      <3>3. Len(f) <= FifoSize /\ Len(f) \in Nat /\ e.room \in Nat /\ Len(e.out) \in Nat
            /\ Len(e.in) \in Nat
        BY <1>2, <2>5
      <3> DEFINE lf == Len(f)
                 li == Len(e.in)
                 lo == Len(e.out)
                 n == e.room
      <3>4. /\ t = m + lf /\ q + li = m + lf /\ n + lo = MaxLoad - l /\ lf <= FifoSize /\ lf \in Nat
            /\ n \in Nat /\ lo \in Nat /\ li \in Nat /\ q >= m
        BY <2>6, <3>2, <3>3
      <3> HIDE DEF l, lf, li, lo, n
      <3>5. l + lo <= MaxLoad /\ li <= FifoSize /\ t = q + li
        BY <1>1, <1>3, <3>1, <3>4
      <3> QED BY <3>5 DEF li, lo
    <2>8. /\ Carries(ct, w, card, g, t) /\ RealLoad(w.tx, card) = RealLoad(s.tx, card) + Len(e.out)
          /\ w.tx.control = s.tx.control /\ w.tx.fifo = e.in /\ w.tx.held = s.tx.held
          /\ w.tx.stuff = s.tx.stuff
      <3> DEFINE h == e.in
      <3>1. /\ Runs(ct, InBuffer(s.tx, card, s.ring), Point(g, p), Point(m, s.tx.index))
            /\ Runs(ct, e.out, Point(m, s.tx.index), Point(q, e.index))
            /\ RealLoad(s.tx, card) + Len(e.out) <= MaxLoad
            /\ RealLoad(s.tx, card) <= s.tx.committed /\ s.tx.held <= FifoSize
        BY <1>2, <1>4, <2>4, <2>7
      <3>2. /\ h \in Seq(Codes) /\ Len(h) <= FifoSize /\ Numbered(h, q) /\ t = q + Len(h)
            /\ ~ct \/ h # <<>> => e.index = InPacket(q)
            /\ w = [Encoded(s, e) EXCEPT !.tx.fifo = h]
        BY <2>3, <2>4, <2>5, <2>7
      <3>3. s \in Sides /\ e \in Encodings
        BY <1>2, <2>4
      <3> HIDE DEF h
      <3>4. /\ Carries(ct, w, card, g, t) /\ RealLoad(w.tx, card) = RealLoad(s.tx, card) + Len(e.out)
            /\ w.tx.control = s.tx.control /\ w.tx.fifo = h /\ w.tx.held = s.tx.held
            /\ w.tx.stuff = s.tx.stuff
        <4>1. CarriesOn(ct, w, card, g, t, s, e, h)
          BY <3>1, <3>2, <3>3, EncodedCarries
        <4> QED BY <4>1 DEF CarriesOn
      <3> QED BY <3>4 DEF h
    <2>9. e.in = <<>> \/ l + Len(e.out) = MaxLoad
      <3>1. e.in = <<>> \/ e.room = 0
        BY <2>4 DEF Over
      <3> HIDE DEF l, f
      <3> QED BY SMTT(30), <1>1, <1>3, <2>4, <2>5, <3>1
    <2>10. l + Len(f) >= Target => l + Len(e.out) >= Target
      <3>1. CASE e.in = <<>>
        <4>1. Len(e.in) = 0
          BY <3>1
        <4> HIDE DEF l, f
        <4> QED BY <1>1, <1>2, <1>3, <2>4, <2>5, <2>6, <4>1
      <3>2. CASE l + Len(e.out) = MaxLoad
        <4> HIDE DEF l, f
        <4> QED BY <1>3, <3>2
      <3> QED BY <2>9, <3>1, <3>2
    <2>11. l + Len(e.out) < Target => e.in = <<>>
      <3> HIDE DEF l, f
      <3> QED BY <1>3, <2>9
    <2> QED BY <2>8, <2>10, <2>11 DEF CarriesFor
  <1> QED BY <1>5, <1>6, <1>7

LEMMA Products ==
  ASSUME NEW a \in Int, NEW b \in Int, NEW c \in Int
  PROVE  a * c \in Int /\ (a + b - 1) * c = a * c + b * c - c
  OBVIOUS

LEMMA TimesLess ==
  ASSUME NEW a \in Int, NEW b \in Int, NEW c \in Nat \ {0}, a <= b
  PROVE  a * c <= b * c
  <1>1. CASE a = b
    <2>1. a * c = b * c /\ a * c \in Int
      BY <1>1
    <2> DEFINE A == a * c
               B == b * c
    <2>2. A = B /\ A \in Int
      BY <2>1
    <2> HIDE DEF A, B
    <2>3. A <= B
      BY <2>2
    <2> QED BY <2>3 DEF A, B
  <1>2. CASE a < b
    <2>1. a * c + c <= b * c /\ a * c \in Int /\ b * c \in Int
      BY <1>2, MulLess
    <2> DEFINE A == a * c
               B == b * c
    <2>2. A + c <= B /\ A \in Int /\ B \in Int
      BY <2>1
    <2> HIDE DEF A, B
    <2>3. A <= B
      BY <2>2
    <2> QED BY <2>3 DEF A, B
  <1> QED BY <1>1, <1>2

LEMMA TimesCancel ==
  ASSUME NEW a \in Int, NEW b \in Int, NEW c \in Nat \ {0}, a * c < b * c + c
  PROVE  a <= b
  <1>1. ASSUME b < a PROVE FALSE
    <2>1. b * c + c <= a * c
      BY <1>1, MulLess
    <2> DEFINE A == a * c
               B == b * c
    <2>2. B + c <= A /\ A < B + c /\ A \in Int /\ B \in Int
      BY <2>1
    <2> HIDE DEF A, B
    <2> QED BY <2>2
  <1> QED BY <1>1

\* As many whole packets as fill the gap take less than a packet more than it.
LEMMA PacketsFitIn ==
  ASSUME NEW P \in Nat \ {0}, NEW Q \in Nat \ {0}, NEW d \in Nat, NEW b \in Nat, NEW n \in Nat,
         b * Q <= d * P, n * P <= b + P - 1
  PROVE  n * Q <= d + Q
  <1>1. (n * P) * Q <= (b + P - 1) * Q
    <2>1. n * P \in Int /\ b + P - 1 \in Int
      OBVIOUS
    <2> DEFINE y == n * P
               z == b + P - 1
    <2>2. y \in Int /\ z \in Int /\ y <= z
      BY <2>1
    <2> HIDE DEF y, z
    <2>3. y * Q <= z * Q
      BY <2>2, TimesLess
    <2> QED BY <2>3 DEF y, z
  <1>2. (b + P - 1) * Q = b * Q + P * Q - Q
    BY Products
  <1>3. (n * P) * Q = (n * Q) * P
    OBVIOUS
  <1>4. (d + Q) * P = d * P + P * Q
    OBVIOUS
  <1>5. n * Q \in Int /\ d + Q \in Int
    OBVIOUS
  <1>6. (n * Q) * P < (d + Q) * P + P
    <2> DEFINE A == (n * Q) * P
               B == b * Q
               D == d * P
               E == P * Q
               F == (b + P - 1) * Q
               G == (d + Q) * P
    <2>1. /\ A <= F /\ F = B + E - Q /\ B <= D /\ G = D + E
          /\ A \in Int /\ B \in Int /\ D \in Int /\ E \in Int /\ F \in Int /\ G \in Int
      BY <1>1, <1>2, <1>3, <1>4
    <2> HIDE DEF A, B, D, E, F, G
    <2>2. A < G + P
      BY <2>1
    <2> QED BY <2>2 DEF A, G
  <1> DEFINE N == n * Q
  <1>7. N \in Int /\ N * P < (d + Q) * P + P
    BY <1>5, <1>6
  <1> HIDE DEF N
  <1>8. N <= d + Q
    BY <1>5, <1>7, TimesCancel
  <1> QED BY <1>8 DEF N

LEMMA PacketsFit ==
  ASSUME NEW P \in Nat \ {0}, NEW Q \in Nat \ {0}, NEW d \in Nat,
         NEW b, b = (d * P) \div Q, NEW n, n = (b + P - 1) \div P
  PROVE  b \in Nat /\ n \in Nat /\ n * Q <= d + Q
  <1> DEFINE y == d * P
             z == b + P - 1
  <1>1. y \in Nat
    OBVIOUS
  <1>2. b = y \div Q /\ n = z \div P
    OBVIOUS
  <1> HIDE DEF y
  <1>3. b \in Nat /\ b <= y \div Q
    BY <1>1, <1>2
  <1>4. b * Q <= y
    BY <1>1, <1>3, TimesMost
  <1>5. z \in Nat
    BY <1>3
  <1> HIDE DEF z
  <1>6. n \in Nat /\ n <= z \div P
    BY <1>2, <1>5
  <1>7. n * P <= z
    BY <1>5, <1>6, TimesMost
  <1>8. b * Q <= d * P /\ n * P <= b + P - 1
    BY <1>4, <1>7 DEF y, z
  <1> QED BY <1>3, <1>6, <1>8, PacketsFitIn

--------------------------------------------------------------------------------
(* Stuffing, and a round of the converter.                                 *)

\* Stuffing starts when the FIFO is empty, between packets unless a write was cut off, and keeps
\* the stream.
LEMMA StuffCarries ==
  ASSUME Liberties = {}, NEW ct \in BOOLEAN, NEW s, card \in Cards, NEW g \in Nat, NEW t \in Nat,
         Carries(ct, s, card, g, t), s.tx.control # "idle",
         RealLoad(s.tx, card) < Target => s.tx.fifo = <<>> /\ (ct \/ InPacket(t) = 0),
         NEW w, w = Stuff(s)
  PROVE  CarriesFor(ct, w, g, t, s)
  <1> DEFINE x == s.tx
             l == RealLoad(x, card)
  <1>1. DmaBufferLoad(x, card) = l /\ l \in 0..MaxLoad
    BY LoadIs
  <1>2. /\ s \in Sides /\ RealLoad(x, card) <= x.committed /\ x.held <= FifoSize
        /\ x.fifo \in Seq(Codes) /\ Len(x.fifo) <= FifoSize
        /\ x.index \in 0..Packet - 1 /\ x.lead \in 0..Lead
    BY SideTypes DEF Carries
  <1>3. /\ MaxLoad \in Nat /\ Target \in Nat \ {0} /\ Packet \in Nat \ {0} /\ Lead \in Nat
        /\ FifoSize \in Nat \ {0} /\ MaxLoad >= Target + Packet + Lead
    BY Sizes
  <1>4. PICK m \in Nat, p \in 0..Packet - 1 :
          /\ Runs(ct, InBuffer(x, card, s.ring), Point(g, p), Point(m, x.index))
          /\ Numbered(x.fifo, m) /\ t = m + Len(x.fifo)
          /\ (~ct \/ x.fifo # <<>>) => x.index = InPacket(m)
    BY DEF Carries
  <1>5. CASE l >= Target
    <2>1. w = s
      BY <1>1, <1>5 DEF Stuff
    <2> QED BY <2>1 DEF CarriesFor
  <1>6. CASE ~(l >= Target)
    <2> DEFINE d == Target - l
               b == BytesInSymbols(d)
               n == CeilDiv(b, Packet)
               Q == Packet + Lead
               free == MaxLoad - l
               nulls == NullBytes(n)
               e == Encode(nulls, free, x.index, x.lead)
    <2>1. d \in Nat /\ free \in Nat /\ d + Q <= free /\ Q \in Nat \ {0}
      <3> HIDE DEF l
      <3> QED BY SMTT(30), <1>1, <1>3, <1>6
    <2>2. b = (d * Packet) \div Q /\ n = (b + Packet - 1) \div Packet
      BY DEF BytesInSymbols, CeilDiv
    <2> HIDE DEF d, b, n, Q
    <2>3. n \in Nat /\ n * Q <= d + Q
      BY <1>3, <2>1, <2>2, PacketsFit
    <2>4. n * (Packet + Lead) <= free
      <3> DEFINE N == n * Q
      <3>1. N \in Nat /\ N <= d + Q
        BY <2>1, <2>3
      <3> HIDE DEF N, free
      <3>2. N <= free
        BY <2>1, <3>1
      <3> QED BY <3>2 DEF N, Q
    <2>5. nulls \in Seq(Codes) /\ \A i \in 1..Len(nulls) : nulls[i] < K28
      BY <2>3, NullBytesAre
    <2>6. x.fifo = <<>> /\ (ct \/ InPacket(t) = 0) /\ m = t
      <3>1. x.fifo = <<>> /\ (ct \/ InPacket(t) = 0)
        <4> HIDE DEF l
        <4>1. l < Target
          BY <1>1, <1>3, <1>6
        <4> QED BY <4>1 DEF l
      <3>2. Len(x.fifo) = 0
        BY <3>1
      <3> QED BY <1>4, <3>1, <3>2
    <2>7. NullsEncoded(ct, free, x.index, m, e)
      <3>1. e = Encode(nulls, free, x.index, x.lead)
        OBVIOUS
      <3>2. CASE ct
        <4> HIDE DEF nulls, free, e
        <4> QED BY <1>2, <2>1, <2>5, <3>1, <3>2, EncodeCut
      <3>3. CASE ~ct
        <4>1. x.index = 0 /\ InPacket(m) = 0
          BY <1>4, <2>6, <3>3
        <4>2. e = Encode(NullBytes(n), free, 0, x.lead)
          BY <4>1
        <4> HIDE DEF nulls, free, e
        <4>3. NullsEncoded(ct, free, 0, m, e)
          BY <1>2, <2>1, <2>3, <2>4, <4>1, <4>2, EncodeNulls
        <4> QED BY <4>1, <4>3
      <3> QED BY <3>2, <3>3
    <2>8. w = EncodeInto(s, nulls, free).side
      BY <1>1, <1>6 DEF Stuff, n, b, d
    <2>9. w = Encoded(s, e)
      <3>1. e \in Encodings
        BY <2>7 DEF NullsEncoded
      <3> DEFINE u == EncodeInto(s, nulls, free)
      <3>2. u = [side |-> Encoded(s, e), in |-> e.in]
        BY <3>1, EncodeIntoIs
      <3> HIDE DEF u, e
      <3>3. u.side = Encoded(s, e)
        BY <3>2
      <3> QED BY <2>8, <3>3 DEF u
    <2> HIDE DEF e, nulls
    <2>10. /\ e \in Encodings /\ e.room + Len(e.out) = free /\ e.room \in Nat /\ Len(e.out) \in Nat
           /\ Runs(ct, e.out, Point(m, x.index), Point(m, e.index))
      <3>1. e \in Encodings /\ e.room + Len(e.out) = free
            /\ Runs(ct, e.out, Point(m, x.index), Point(m, e.index))
        BY <2>7 DEF NullsEncoded
      <3>2. e.room \in Nat /\ e.out \in Seq(Codes)
        BY <3>1 DEF Encodings
      <3>3. Len(e.out) \in Nat
        BY <3>2
      <3> QED BY <3>1, <3>2, <3>3
    <2>11. l + Len(e.out) <= MaxLoad
      <3> DEFINE lo == Len(e.out)
                 k == e.room
      <3>1. k + lo = MaxLoad - l /\ k \in Nat /\ lo \in Nat
        BY <2>10
      <3> HIDE DEF l, lo, k
      <3>2. l + lo <= MaxLoad
        BY <1>1, <1>3, <3>1
      <3> QED BY <3>2 DEF lo
    <2> DEFINE f == x.fifo
    <2>12. ~ct \/ f # <<>> => e.index = InPacket(m)
      <3>1. CASE ~ct
        <4>1. e.index = 0
          <5>1. x.index = 0 /\ InPacket(m) = 0
            BY <1>4, <2>6, <3>1
          <5>2. e = Encode(NullBytes(n), free, 0, x.lead)
            BY <5>1 DEF e, nulls
          <5> HIDE DEF free
          <5> QED BY <1>2, <2>1, <2>3, <2>4, <5>1, <5>2, EncodeNulls
        <4> QED BY <2>6, <3>1, <4>1
      <3>2. CASE ct
        BY <2>6, <3>2
      <3> QED BY <3>1, <3>2
    <2>13. w = [w EXCEPT !.tx.fifo = f] /\ w.tx.fifo = f
      <3>1. card.r \in Slots
        BY DEF Cards
      <3>2. w \in Sides /\ w.tx.fifo = f
        <4>1. /\ RealLoad(s.tx, card) + Len(e.out) <= MaxLoad /\ s \in Sides /\ e \in Encodings
              /\ RealLoad(s.tx, card) <= s.tx.committed
          BY <1>2, <2>10, <2>11
        <4>2. Encodes(w, s, card, e)
          BY <2>9, <3>1, <4>1, EncodedIs
        <4> QED BY <4>2 DEF Encodes
      <3>3. w.tx = [w.tx EXCEPT !.fifo = f]
        BY <3>2, SideTypes DEF TxSides
      <3>4. w = [tx |-> w.tx, ring |-> w.ring]
        BY <3>2, SideTypes DEF Side
      <3> QED BY <3>2, <3>3, <3>4
    <2>14. w = [Encoded(s, e) EXCEPT !.tx.fifo = f]
      BY <2>9, <2>13
    <2>15. f \in Seq(Codes) /\ Len(f) <= FifoSize /\ Numbered(f, m) /\ t = m + Len(f)
      BY <1>2, <1>4
    <2>16. /\ Runs(ct, InBuffer(s.tx, card, s.ring), Point(g, p), Point(m, s.tx.index))
           /\ Runs(ct, e.out, Point(m, s.tx.index), Point(m, e.index))
           /\ RealLoad(s.tx, card) + Len(e.out) <= MaxLoad
           /\ RealLoad(s.tx, card) <= s.tx.committed /\ s.tx.held <= FifoSize
           /\ s \in Sides /\ e \in Encodings
      BY <1>2, <1>4, <2>10, <2>11
    <2> HIDE DEF f
    <2>17. CarriesOn(ct, w, card, g, t, s, e, f)
      BY <2>12, <2>14, <2>15, <2>16, EncodedCarries
    <2> QED BY <2>17 DEF CarriesOn, CarriesFor
  <1> QED BY <1>5, <1>6

\* A round of the converter keeps the stream, when a packet half written leaves no gap to fill.
LEMMA PassCarries ==
  ASSUME Liberties = {}, NEW ct \in BOOLEAN, NEW s, card \in Cards, NEW g \in Nat, NEW t \in Nat,
         Carries(ct, s, card, g, t), s.tx.control # "idle",
         RealLoad(s.tx, card) + Len(s.tx.fifo) >= Target \/ ct \/ InPacket(t) = 0,
         NEW w, w = Pass(s)
  PROVE  CarriesFor(ct, w, g, t, s)
  <1> DEFINE u == EncodeFifo(s)
  <1>1. /\ CarriesFor(ct, u, g, t, s)
        /\ RealLoad(u.tx, card) < Target => u.tx.fifo = <<>>
        /\ RealLoad(s.tx, card) + Len(s.tx.fifo) >= Target => RealLoad(u.tx, card) >= Target
    BY EncodeFifoCarries
  <1>2. Carries(ct, u, card, g, t) /\ u.tx.control = s.tx.control /\ u \in Sides
    BY <1>1 DEF CarriesFor, Carries
  <1>3. w = IF Stuffs THEN Stuff(u) ELSE u
    <2> DEFINE stuffed == [e \in Sides |-> IF Stuffs THEN Stuff(e) ELSE e]
    <2>1. w = stuffed[u]
      BY DEF Pass
    <2> HIDE DEF u
    <2> QED BY <1>2, <2>1
  <1> HIDE DEF u
  <1>4. RealLoad(u.tx, card) < Target => u.tx.fifo = <<>> /\ (ct \/ InPacket(t) = 0)
    <2>1. RealLoad(u.tx, card) \in Nat /\ Target \in Nat
      <3>1. RealLoad(u.tx, card) \in 0..MaxLoad
        BY <1>2, LoadIs
      <3>2. Target \in Nat \ {0} /\ MaxLoad \in Nat
        BY Sizes
      <3> QED BY <3>1, <3>2
    <2>2. RealLoad(u.tx, card) < Target => ~(RealLoad(u.tx, card) >= Target)
      BY <2>1
    <2> QED BY <1>1, <2>2
  <1>5. CASE Stuffs
    <2> DEFINE v == Stuff(u)
    <2>1. CarriesFor(ct, v, g, t, u)
      BY <1>2, <1>4, StuffCarries
    <2>2. w = v
      BY <1>3, <1>5
    <2> QED BY <1>1, <2>1, <2>2 DEF CarriesFor
  <1>6. CASE ~Stuffs
    BY <1>1, <1>3, <1>6
  <1> QED BY <1>5, <1>6

--------------------------------------------------------------------------------
(* Writing.                                                                *)

\* Side y carries what side x does, and n bytes more.
CarriesMore(ct, y, x, rg, c, g, t, n) ==
  Carries(ct, Side(y, rg), c, g, t + n) /\ y.control = x.control

\* What is appended goes on in the number.
LEMMA AppendCarries ==
  ASSUME NEW ct \in BOOLEAN, ~ct, NEW x, NEW rg, NEW c \in Cards, NEW g \in Nat, NEW t \in Nat,
         Carries(ct, Side(x, rg), c, g, t), NEW n \in Nat, NEW from \in Int,
         from % Numbers = t % Numbers, n <= FifoSize - Len(x.fifo),
         x.control = "hold" => n <= FifoSize - x.held,
         NEW y, y = AppendToFifo(x, n, from)
  PROVE  CarriesMore(ct, y, x, rg, c, g, t, n)
  <1> DEFINE s == Side(x, rg)
             f == x.fifo
             a == [i \in 1..n |-> (from + i - 1) % Numbers]
  <1>1. s.tx = x /\ s.ring = rg
    BY SideIs
  <1>2. PICK m \in Nat, p \in 0..Packet - 1 :
          /\ Runs(ct, InBuffer(x, c, rg), Point(g, p), Point(m, x.index))
          /\ Numbered(f, m) /\ t = m + Len(f)
          /\ (~ct \/ f # <<>>) => x.index = InPacket(m)
    BY <1>1 DEF Carries
  <1>3. /\ s \in Sides /\ RealLoad(x, c) <= MaxLoad /\ RealLoad(x, c) <= x.committed
        /\ Len(f) <= FifoSize /\ x.held <= FifoSize
    BY <1>1 DEF Carries
  <1>4. /\ x \in TxSides /\ rg \in [Slots -> Codes] /\ f \in Seq(Codes) /\ Len(f) \in Nat /\ x.held \in Nat
    BY <1>1, <1>3, SideTypes
  <1>5. FifoSize \in Nat
    <2>1. FifoSize \in Nat \ {0}
      BY Sizes
    <2> QED BY <2>1
  <1>6. ASSUME NEW i \in 1..n PROVE a[i] = (t + i - 1) % Numbers /\ a[i] \in Codes
    <2>1. a[i] = (from + i - 1) % Numbers
      OBVIOUS
    <2>2. Numbers \in Nat \ {0}
      BY Sizes
    <2> DEFINE d == i - 1
    <2>3. d \in Int /\ t \in Int /\ t + d \in Int
      OBVIOUS
    <2> HIDE DEF d, a
    <2>4. (from + d) % Numbers = (t + d) % Numbers
      BY <2>2, <2>3, ModSame
    <2>5. (t + d) % Numbers \in Codes
      BY <2>3, CodesAre
    <2> QED BY <2>1, <2>4, <2>5 DEF d
  <1>7. a \in Seq(Codes) /\ Len(a) = n
    <2>1. a \in [1..n -> Codes]
      <3> DEFINE h(i) == (from + i - 1) % Numbers
      <3>1. a = [i \in 1..n |-> h(i)]
        OBVIOUS
      <3>2. \A i \in 1..n : a[i] \in Codes
        BY <1>6
      <3> HIDE DEF h
      <3>3. \A i \in 1..n : h(i) \in Codes
        BY <3>1, <3>2
      <3> HIDE DEF a
      <3> QED BY <3>1, <3>3
    <2> HIDE DEF a
    <2> QED BY <2>1
  <1>8. y = [x EXCEPT !.fifo = f \o a, !.held = IF x.control = "hold" THEN x.held + n ELSE x.held]
    BY <1>4 DEF AppendToFifo, TxSides
  <1> HIDE DEF a
  <1>9. f \o a \in Seq(Codes) /\ Len(f \o a) = Len(f) + n
    <2>1. f \in Seq(Codes) /\ a \in Seq(Codes)
      BY <1>4, <1>7
    <2> HIDE DEF f
    <2>2. f \o a \in Seq(Codes) /\ Len(f \o a) = Len(f) + Len(a)
      BY <2>1
    <2> QED BY <1>7, <2>2
  <1>10. (IF x.control = "hold" THEN x.held + n ELSE x.held) \in Nat
         /\ (IF x.control = "hold" THEN x.held + n ELSE x.held) <= FifoSize
    BY SMTT(30), <1>3, <1>4, <1>5
  <1>11. /\ y \in TxSides /\ y.fifo = f \o a /\ y.held \in Nat /\ y.held <= FifoSize /\ y.at = x.at
         /\ y.committed = x.committed /\ y.index = x.index /\ y.control = x.control
    <2> DEFINE h == IF x.control = "hold" THEN x.held + n ELSE x.held
               b == f \o a
    <2>1. y = [x EXCEPT !.fifo = b, !.held = h] /\ h \in Nat /\ h <= FifoSize /\ b \in Seq(Codes)
      BY <1>8, <1>9, <1>10
    <2> HIDE DEF h, b
    <2>2. y \in TxSides /\ y.fifo = b /\ y.held = h /\ y.at = x.at
          /\ y.committed = x.committed /\ y.index = x.index /\ y.control = x.control
      BY <1>4, <2>1 DEF TxSides
    <2> QED BY <2>1, <2>2 DEF b
  <1> DEFINE z == Side(y, rg)
  <1>12. z \in Sides /\ z.tx = y /\ z.ring = rg
    BY <1>4, <1>11 DEF Side, Sides
  <1>13. RealLoad(y, c) = RealLoad(x, c) /\ InBuffer(y, c, rg) = InBuffer(x, c, rg)
    BY <1>11 DEF RealLoad, InBuffer
  <1>14. Len(y.fifo) <= FifoSize /\ t + n = m + Len(y.fifo)
    <2>1. Len(y.fifo) = Len(f) + n
      BY <1>9, <1>11
    <2> DEFINE L == Len(f)
    <2>2. L \in Nat /\ n <= FifoSize - L /\ t = m + L /\ Len(y.fifo) = L + n
      BY <1>2, <1>4, <2>1
    <2> HIDE DEF L
    <2> QED BY <1>5, <2>2
  <1>15. Numbered(y.fifo, m)
    <2> SUFFICES ASSUME NEW i \in 1..Len(y.fifo) PROVE y.fifo[i] = (m + i - 1) % Numbers
      BY DEF Numbered
    <2> DEFINE L == Len(f)
    <2>1. L \in Nat /\ i \in 1..L + n /\ t = m + L
      BY <1>2, <1>4, <1>9, <1>11
    <2>2. CASE i \in 1..L
      <3>1. y.fifo[i] = f[i]
        BY <1>4, <1>7, <1>11, <2>2
      <3> QED BY <1>2, <2>2, <3>1 DEF Numbered
    <2>3. CASE i \in L + 1..L + n
      <3>1. y.fifo[i] = a[i - L]
        BY <1>4, <1>7, <1>11, <2>1, <2>3
      <3>2. i - L \in 1..n /\ t + (i - L) - 1 = m + i - 1 /\ t + ((i - L) - 1) = m + (i - 1)
        <4> HIDE DEF L
        <4> QED BY <2>1, <2>3
      <3> DEFINE k == i - L
      <3>3. y.fifo[i] = a[k] /\ k \in 1..n /\ t + (k - 1) = m + (i - 1)
        BY <3>1, <3>2
      <3> HIDE DEF k
      <3>4. a[k] = (t + k - 1) % Numbers
        BY <1>6, <3>3
      <3> QED BY <3>3, <3>4, Zenon
    <2> HIDE DEF L
    <2>4. i \in 1..L \/ i \in L + 1..L + n
      BY <2>1
    <2> QED BY <2>2, <2>3, <2>4
  <1>16. Carries(ct, z, c, g, t + n)
    <2>1. /\ Runs(ct, InBuffer(z.tx, c, z.ring), Point(g, p), Point(m, z.tx.index))
          /\ Numbered(z.tx.fifo, m) /\ t + n = m + Len(z.tx.fifo)
          /\ (~ct \/ z.tx.fifo # <<>>) => z.tx.index = InPacket(m)
      BY <1>2, <1>11, <1>12, <1>13, <1>14, <1>15
    <2>2. RealLoad(z.tx, c) <= MaxLoad /\ RealLoad(z.tx, c) <= z.tx.committed
          /\ Len(z.tx.fifo) <= FifoSize /\ z.tx.held <= FifoSize
      BY <1>3, <1>11, <1>12, <1>13, <1>14
    <2> HIDE DEF z
    <2> QED BY <1>12, <2>1, <2>2 DEF Carries
  <1> QED BY <1>11, <1>16 DEF CarriesMore

\* What each block of a write keeps is so of the result.
LEMMA WriteBlocksKeep ==
  ASSUME NEW x, NEW left \in Nat, NEW from, NEW P, P \subseteq Writings,
         [tx |-> x, left |-> left, to |-> from + left] \in P, \A w \in P : WriteBlock[w] \in P
  PROVE  WriteBlocks(x, left, from) \in P
  <1> DEFINE w0 == [tx |-> x, left |-> left, to |-> from + left]
             N == CeilDiv(left, Block)
             Rec(f) == f = [n \in 0..N |-> IF n = 0 THEN w0 ELSE WriteBlock[f[n - 1]]]
             after == CHOOSE f : Rec(f)
             step == [n \in 1..N |-> [w \in P |-> WriteBlock[w]]]
  <1>1. N \in Nat
    <2>1. Block \in Nat \ {0} /\ left + Block - 1 \in Nat
      <3>1. Block \in Nat \ {0}
        BY Sizes
      <3> QED BY <3>1
    <2> DEFINE y == left + Block - 1
    <2>2. y \in Nat /\ N = y \div Block
      BY <2>1 DEF CeilDiv
    <2> HIDE DEF y, N
    <2> QED BY <2>1, <2>2
  <1>2. WriteBlocks(x, left, from) = after[N]
    BY DEF WriteBlocks
  <1> HIDE DEF N
  <1>3. w0 \in P
    OBVIOUS
  <1> HIDE DEF w0
  <1>4. step \in [1..N -> [P -> P]]
    <2>1. [w \in P |-> WriteBlock[w]] \in [P -> P]
      OBVIOUS
    <2> QED BY <2>1
  <1>5. PICK f : Steps(f, P, w0, step, N)
    <2> HIDE DEF step
    <2> QED BY <1>1, <1>3, <1>4, StepsExist
  <1>6. f \in [0..N -> P] /\ f[0] = w0
    BY <1>5 DEF Steps
  <1>7. ASSUME NEW n \in 1..N PROVE f[n] = WriteBlock[f[n - 1]]
    <2>1. f[n - 1] \in P
      BY <1>1, <1>6
    <2>2. f[n] = step[n][f[n - 1]]
      BY <1>5 DEF Steps
    <2> QED BY <2>1, <2>2
  <1>8. Rec(f)
    <2>1. ASSUME NEW n \in 0..N PROVE f[n] = IF n = 0 THEN w0 ELSE WriteBlock[f[n - 1]]
      <3>1. n = 0 \/ (n \in 1..N /\ n # 0)
        BY <1>1
      <3> QED BY <1>6, <1>7, <3>1
    <2>2. f = [n \in 0..N |-> f[n]]
      BY <1>6
    <2> HIDE DEF step
    <2> QED BY <2>1, <2>2, Zenon
  <1>9. Rec(after)
    BY <1>8
  <1> HIDE DEF after, step
  <1>10. ASSUME NEW n \in 0..N PROVE after[n] = IF n = 0 THEN w0 ELSE WriteBlock[after[n - 1]]
    BY <1>9
  <1> HIDE DEF Rec
  <1> DEFINE U == {n \in 0..N : after[n] \in P}
  <1>11. 0 \in U
    <2>1. 0 \in 0..N
      BY <1>1
    <2> QED BY <1>3, <1>10, <2>1
  <1>12. ASSUME NEW n \in 0..N - 1, n \in U PROVE n + 1 \in U
    <2>1. n + 1 \in 0..N /\ n + 1 # 0 /\ (n + 1) - 1 = n
      BY <1>1
    <2>2. after[n + 1] = WriteBlock[after[n]]
      BY <1>10, <2>1
    <2> QED BY <1>12, <2>1, <2>2
  <1>13. N \in U
    <2>1. N \in 0..N
      BY <1>1
    <2> HIDE DEF U
    <2>2. 0..N \subseteq U
      BY <1>1, <1>11, <1>12, UpTo
    <2> QED BY <2>1, <2>2
  <1> QED BY <1>2, <1>13

\* A write that has carried on: what is left of it is all the stream lacks.
WritesOn(ct, w, x, rg, g, t, left) ==
  /\ w.left \in 0..left /\ w.tx.control = x.control
  /\ Carries(ct, Side(w.tx, rg), card, g, t + left - w.left)

\* Blocks go as far as there is room for them, and lie side by side.
LEMMA WriteBlocksCarry ==
  ASSUME NEW ct \in BOOLEAN, ~ct, NEW x, NEW rg, card \in Cards, NEW g \in Nat, NEW t \in Nat,
         Carries(ct, Side(x, rg), card, g, t), NEW left \in Nat, NEW from \in Nat,
         from % Numbers = t % Numbers, x.control # "idle",
         NEW w, w = WriteBlocks(x, left, from)
  PROVE  WritesOn(ct, w, x, rg, g, t, left)
  <1> DEFINE On(v) == WritesOn(ct, v, x, rg, g, t, left) /\ v.to = from + left
             P == {v \in Writings : On(v)}
             w0 == [tx |-> x, left |-> left, to |-> from + left]
  <1>1. w0 \in P
    <2>1. Side(x, rg) \in Sides
      BY DEF Carries
    <2>2. x \in TxSides
      BY <2>1, SideTypes, SideIs
    <2>3. w0 \in Writings /\ w0.tx = x /\ w0.left = left /\ w0.to = from + left
      BY <2>2 DEF Writings
    <2>4. t + left - left = t /\ left \in 0..left
      OBVIOUS
    <2> HIDE DEF w0
    <2> QED BY <2>3, <2>4 DEF WritesOn
  <1>2. ASSUME NEW v \in P PROVE WriteBlock[v] \in P
    <2>1. v \in Writings /\ On(v)
      BY <1>2
    <2>2. v.tx \in TxSides /\ v.left \in Nat /\ v.to \in Nat
      BY <2>1 DEF Writings
    <2> DEFINE n == Least(v.left, Block)
    <2>3. n \in Nat /\ n <= v.left
      <3>1. Block \in Nat \ {0}
        BY Sizes
      <3> QED BY <2>2, <3>1 DEF Least
    <2>4. CASE v.left = 0 \/ ~HasRoom(v.tx, n)
      <3>1. WriteBlock[v] = v
        BY <2>1, <2>4 DEF WriteBlock
      <3> QED BY <3>1
    <2>5. CASE ~(v.left = 0 \/ ~HasRoom(v.tx, n))
      <3> DEFINE at == v.to - v.left
                 y == AppendToFifo(v.tx, n, at)
                 u == [v EXCEPT !.tx = y, !.left = v.left - n]
                 k == t + left - v.left
      <3>1. WriteBlock[v] = u
        BY <2>1, <2>5 DEF WriteBlock
      <3>2. /\ v.left \in 0..left /\ v.tx.control = x.control /\ v.to = from + left
            /\ Carries(ct, Side(v.tx, rg), card, g, k)
        BY <2>1 DEF WritesOn
      <3>3. k \in Nat /\ at \in Nat /\ k = t + (left - v.left) /\ at = from + (left - v.left)
            /\ left - v.left \in Int
        BY <3>2
      <3>4. at % Numbers = k % Numbers
        <4> DEFINE d == left - v.left
        <4>1. Numbers \in Nat \ {0} /\ d \in Int /\ at = from + d /\ k = t + d
              /\ from \in Int /\ t \in Int
          BY <3>3, Sizes
        <4> HIDE DEF d, at, k
        <4>2. (from + d) % Numbers = (t + d) % Numbers
          BY <4>1, ModSame
        <4> QED BY <4>1, <4>2
      <3>5. n <= FifoSize - Len(v.tx.fifo) /\ (v.tx.control = "hold" => n <= FifoSize - v.tx.held)
        <4>1. n <= FifoSize - Len(v.tx.fifo) /\ n <= FifoSize - ReportedFifoLoad(v.tx, card)
          BY <2>5 DEF HasRoom
        <4>2. v.tx.control = "hold" => ReportedFifoLoad(v.tx, card) = v.tx.held
          BY DEF ReportedFifoLoad
        <4> QED BY <4>1, <4>2
      <3>6. CarriesMore(ct, y, v.tx, rg, card, g, k, n)
        <4> HIDE DEF k, at, n
        <4>1. y = AppendToFifo(v.tx, n, at)
          OBVIOUS
        <4>2. at \in Int
          BY <3>3
        <4> HIDE DEF y
        <4> QED BY <2>3, <3>2, <3>3, <3>4, <3>5, <4>1, <4>2, AppendCarries
      <3>7. Carries(ct, Side(y, rg), card, g, k + n) /\ y.control = x.control /\ y \in TxSides
        <4>1. Carries(ct, Side(y, rg), card, g, k + n) /\ y.control = x.control
          BY <3>2, <3>6 DEF CarriesMore
        <4>2. Side(y, rg) \in Sides
          BY <4>1 DEF Carries
        <4> HIDE DEF y
        <4> QED BY <4>1, <4>2, SideTypes, SideIs
      <3> HIDE DEF y
      <3>8. v.left - n \in Nat /\ v.left - n \in 0..left /\ k + n = t + left - (v.left - n)
        <4> HIDE DEF n
        <4> QED BY <2>2, <2>3, <3>2
      <3> HIDE DEF n
      <3>9. u \in Writings /\ u.tx = y /\ u.left = v.left - n /\ u.to = v.to
        BY <2>1, <3>7, <3>8 DEF Writings
      <3> HIDE DEF u, k
      <3>10. On(u)
        BY <3>2, <3>7, <3>8, <3>9 DEF WritesOn
      <3> QED BY <3>1, <3>9, <3>10
    <2> QED BY <2>4, <2>5
  <1>3. w \in P
    <2>1. P \subseteq Writings
      OBVIOUS
    <2> HIDE DEF P
    <2> QED BY <1>1, <1>2, <2>1, WriteBlocksKeep
  <1> QED BY <1>3

--------------------------------------------------------------------------------
(* What the load tells.                                                     *)

LEMMA BytesInSymbolsIs ==
  ASSUME NEW x \in Nat
  PROVE  /\ BytesInSymbols(x) \in Nat /\ BytesInSymbols(x) <= x
         /\ x >= Packet + Lead => BytesInSymbols(x) >= Packet
  <1> DEFINE Q == Packet + Lead
             y == x * Packet
             b == y \div Q
  <1>1. Packet \in Nat \ {0} /\ Lead \in Nat
    BY Sizes
  <1>2. Q \in Nat \ {0} /\ y \in Nat
    BY <1>1
  <1>3. BytesInSymbols(x) = b
    BY DEF BytesInSymbols
  <1> HIDE DEF y
  <1>4. b \in Nat
    <2> HIDE DEF Q
    <2> QED BY <1>2
  <1>5. y = b * Q + (y % Q) /\ y % Q \in 0..Q - 1
    <2> HIDE DEF Q
    <2> QED BY <1>2, DivMod
  <1> HIDE DEF b
  <1>6. b * Q <= y /\ y < b * Q + Q
    <2> DEFINE B == b * Q
               r == y % Q
    <2>1. B \in Nat /\ y = B + r /\ r \in 0..Q - 1
      BY <1>2, <1>4, <1>5
    <2> HIDE DEF B, r, Q
    <2>2. B <= y /\ y < B + Q
      BY <1>2, <2>1
    <2> QED BY <2>2 DEF B
  <1>7. b <= x
    <2>1. b * Q = b * Packet + b * Lead
      BY <1>1, <1>4
    <2>2. b * Lead \in Nat /\ b * Packet \in Nat /\ x * Packet \in Nat
      BY <1>1, <1>4
    <2>3. b * Packet < x * Packet + Packet
      <3> DEFINE A == b * Packet
                 B == b * Lead
                 C == b * Q
                 D == x * Packet
      <3>1. C = A + B /\ A \in Nat /\ B \in Nat /\ D \in Nat /\ C <= D
        BY <1>6, <2>1, <2>2 DEF y
      <3> HIDE DEF A, B, C, D
      <3>2. A < D + Packet
        BY <1>1, <3>1
      <3> QED BY <3>2 DEF A, D
    <2>4. b \in Int /\ x \in Int
      BY <1>4
    <2> QED BY <1>1, <2>3, <2>4, TimesCancel
  <1>8. ASSUME x >= Q PROVE b >= Packet
    <2>1. Q * Packet <= x * Packet
      BY <1>1, <1>2, <1>8, TimesLess
    <2>2. Q * Packet = Packet * Q /\ Packet * Q \in Int
      BY <1>1, <1>2
    <2>3. Packet * Q < b * Q + Q
      <3> DEFINE A == Packet * Q
                 B == b * Q
      <3>1. A <= y /\ y < B + Q /\ A \in Int /\ B \in Int
        BY <1>2, <1>4, <1>6, <2>1, <2>2 DEF y
      <3> HIDE DEF A, B, Q
      <3>2. A < B + Q
        BY <1>2, <3>1
      <3> QED BY <3>2 DEF A, B
    <2>4. Packet \in Int /\ b \in Int
      BY <1>1, <1>4
    <2> HIDE DEF Q
    <2>5. Packet <= b
      BY <1>2, <2>3, <2>4, TimesCancel
    <2> QED BY <1>1, <1>4, <2>5
  <1> QED BY <1>3, <1>4, <1>7, <1>8

LEMMA ReportedIs ==
  ASSUME Liberties = {}, NEW ct, NEW s, NEW c \in Cards, NEW g, NEW t, Carries(ct, s, c, g, t),
         s.tx.control = "send"
  PROVE  /\ ReportedFifoLoad(s.tx, c) =
              Least(Len(s.tx.fifo) + (IF RealLoad(s.tx, c) >= Word
                                      THEN BytesInSymbols(RealLoad(s.tx, c) + BurstSize) ELSE 0),
                    FifoSize)
         /\ ReportedFifoLoad(s.tx, c) \in Nat /\ ReportedFifoLoad(s.tx, c) <= FifoSize
         /\ RealLoad(s.tx, c) \in Nat /\ Len(s.tx.fifo) \in Nat
  <1> DEFINE l == RealLoad(s.tx, c)
             b == IF l >= Word THEN BytesInSymbols(l + BurstSize) ELSE 0
             L == Len(s.tx.fifo)
  <1>1. DmaBufferLoad(s.tx, c) = l /\ l \in 0..MaxLoad
    <2>1. s.tx.control # "idle"
      OBVIOUS
    <2> QED BY <2>1, LoadIs
  <1>2. s \in Sides /\ L \in Nat
    <2>1. s \in Sides
      BY DEF Carries
    <2> QED BY <2>1, SideTypes
  <1>3. MaxLoad \in Nat /\ BurstSize \in Nat \ {0} /\ FifoSize \in Nat \ {0} /\ Word \in Nat \ {0}
    BY Sizes
  <1>4. ReportedFifoLoad(s.tx, c) = Least(L + b, FifoSize)
    BY <1>1 DEF ReportedFifoLoad
  <1> HIDE DEF l, L
  <1>5. l \in Nat /\ l + BurstSize \in Nat
    BY <1>1, <1>3
  <1>6. b \in Nat
    BY <1>5, BytesInSymbolsIs
  <1> HIDE DEF b
  <1>7. Least(L + b, FifoSize) \in Nat /\ Least(L + b, FifoSize) <= FifoSize
    BY <1>2, <1>3, <1>6 DEF Least
  <1> QED BY <1>2, <1>4, <1>5, <1>7 DEF l, b, L

\* A FIFO without room for a block, and the buffer, hold the target.
LEMMA NoRoomIsTarget ==
  ASSUME Liberties = {}, NEW ct, NEW s, card \in Cards, NEW g, NEW t, Carries(ct, s, card, g, t),
         s.tx.control = "send", NEW n \in Nat, n <= Block, ~HasRoom(s.tx, n)
  PROVE  RealLoad(s.tx, card) + Len(s.tx.fifo) >= Target
  <1> DEFINE l == RealLoad(s.tx, card)
             b == IF l >= Word THEN BytesInSymbols(l + BurstSize) ELSE 0
             L == Len(s.tx.fifo)
             k == ReportedFifoLoad(s.tx, card)
  <1>1. k = Least(L + b, FifoSize) /\ k \in Nat /\ l \in Nat /\ L \in Nat
    BY ReportedIs
  <1>2. ~(n <= FifoSize - L /\ n <= FifoSize - k)
    BY DEF HasRoom
  <1>3. /\ BurstSize \in Nat \ {0} /\ FifoSize \in Nat \ {0} /\ Block \in Nat \ {0} /\ Target \in Nat \ {0}
        /\ FifoSize >= Block + Target + BurstSize
    BY Sizes
  <1> HIDE DEF l, L, k
  <1>4. b \in Nat /\ b <= l + BurstSize
    <2>1. l + BurstSize \in Nat
      BY <1>1, <1>3
    <2> QED BY <1>1, <1>3, <2>1, BytesInSymbolsIs
  <1> HIDE DEF b
  <1>5. k <= L + b
    BY <1>1, <1>3, <1>4 DEF Least
  <1>6. l + L >= Target
    BY <1>1, <1>2, <1>3, <1>4, <1>5
  <1> QED BY <1>6 DEF l, L

\* A load of a data word's bytes or less leaves less than two data words of the program's bytes.
LEMMA LittleIsLeft ==
  ASSUME Liberties = {}, NEW ct, NEW s, NEW c \in Cards, NEW g \in Nat, NEW t \in Nat,
         Carries(ct, s, c, g, t), s.tx.control = "send", ReportedFifoLoad(s.tx, c) <= WordBytes
  PROVE  t - g < Word + WordBytes
  <1> DEFINE l == RealLoad(s.tx, c)
             b == IF l >= Word THEN BytesInSymbols(l + BurstSize) ELSE 0
             L == Len(s.tx.fifo)
             z == InBuffer(s.tx, c, s.ring)
  <1>1. ReportedFifoLoad(s.tx, c) = Least(L + b, FifoSize) /\ l \in Nat /\ L \in Nat
    BY ReportedIs
  <1>2. /\ BurstSize \in Nat \ {0} /\ FifoSize \in Nat \ {0} /\ Block \in Nat \ {0} /\ Target \in Nat \ {0}
        /\ FifoSize >= Block + Target + BurstSize /\ BurstSize >= Packet + Lead
        /\ WordBytes \in 1..Packet - 1 /\ Packet \in Nat \ {0} /\ Lead \in Nat /\ Word \in Nat \ {0}
    BY Sizes
  <1>3. PICK m \in Nat, p \in 0..Packet - 1 :
          /\ Runs(ct, z, Point(g, p), Point(m, s.tx.index)) /\ t = m + L
    BY DEF Carries
  <1>4. z \in Seq(Codes) /\ Len(z) = l
    <2>1. s \in Sides /\ c.r \in Slots
      BY DEF Carries, Cards
    <2> QED BY <2>1, SideTypes, InBufferIs
  <1> DEFINE D == Len(Data(z))
  <1>5. m = g + D /\ D <= l /\ D \in Nat
    <2>1. /\ Point(m, s.tx.index).pos = Point(g, p).pos + Len(Data(z))
          /\ Len(Data(z)) <= Len(z) /\ Data(z) \in Seq(Codes)
      <3> HIDE DEF z
      <3> QED BY <1>3, <1>4, RunsData
    <2> QED BY <1>4, <2>1, PointParts
  <1> HIDE DEF l, L, z, D
  <1>6. /\ b \in Nat
        /\ l >= Word => b >= Packet
    <2>1. l + BurstSize \in Nat /\ l + BurstSize >= Packet + Lead
      BY <1>1, <1>2
    <2> QED BY <1>1, <1>2, <2>1, BytesInSymbolsIs
  <1> HIDE DEF b
  <1>7. L + b <= WordBytes
    BY <1>1, <1>2, <1>6 DEF Least
  <1>8. l < Word
    BY <1>1, <1>2, <1>6, <1>7
  <1>9. t = m + L
    BY <1>3
  <1> QED BY <1>1, <1>2, <1>5, <1>6, <1>7, <1>8, <1>9

--------------------------------------------------------------------------------
(* The inductive invariant.                                                 *)

Calls ==
  [at : {"none", "drained", "release"}] \cup [at : {"join"}, then : {"hold", "idle", "release"}]
    \cup [at : {"detach"}, wait : BOOLEAN] \cup [at : {"drain"}, burst : BOOLEAN]

Types ==
  /\ card \in Cards /\ call \in Calls /\ converter \in {"none", "runs", "stopping"}
  /\ write \in Nat /\ cut \in BOOLEAN

\* What a write in progress has left, of the stream the side has.
Unwritten == IF tx.control = "idle" THEN 0 ELSE write

\* The wait of a detach has seen a small load.
LittleLeft == call = Draining(TRUE) \/ call = Drained

\* The stream: the card is at byte g of it, the program at byte t.
StreamAt(g, t) ==
  /\ g % Numbers = gone /\ t % Numbers = next
  /\ Carries(cut, Side(tx, ring), card, g, t)
  /\ ~cut => InPacket(t + Unwritten) = 0
  /\ LittleLeft => t - g < Word + WordBytes

Stream == \E g \in Nat, t \in Nat : StreamAt(g, t)

\* The order of the calls: the thread runs only in send, and a detach goes on to wait or to stop only
\* without a write, which is cut off for nothing but a detach.
Order ==
  /\ converter = "runs" => tx.control = "send"
  /\ call.at = "drain" => tx.control = "send"
  /\ cut => write = 0 /\ Detaches /\ tx.control # "idle"
  /\ call.at \in {"drain", "drained", "release"} => write = 0
  /\ (call.at = "join" /\ call.then = "release") => write = 0

IInv == Types /\ Stream /\ Order

LEMMA CarriesLike ==
  ASSUME NEW ct, NEW s, NEW c, NEW g, NEW t, Carries(ct, s, c, g, t), NEW d, d.r = c.r,
         NEW y \in TxSides, y.fifo = s.tx.fifo, y.at = s.tx.at, y.committed = s.tx.committed,
         y.index = s.tx.index, y.held <= FifoSize
  PROVE  Carries(ct, Side(y, s.ring), d, g, t)
  <1> DEFINE z == Side(y, s.ring)
  <1>1. z.tx = y /\ z.ring = s.ring
    BY SideIs
  <1>2. s \in Sides
    BY DEF Carries
  <1>3. z \in Sides
    BY <1>2, SideTypes DEF Side, Sides
  <1>4. RealLoad(y, d) = RealLoad(s.tx, c) /\ InBuffer(y, d, s.ring) = InBuffer(s.tx, c, s.ring)
    BY DEF RealLoad, InBuffer
  <1>5. RealLoad(z.tx, d) = RealLoad(s.tx, c) /\ InBuffer(z.tx, d, z.ring) = InBuffer(s.tx, c, s.ring)
        /\ z.tx.fifo = s.tx.fifo /\ z.tx.committed = s.tx.committed /\ z.tx.index = s.tx.index
        /\ z.tx.held <= FifoSize
    BY <1>1, <1>4
  <1> HIDE DEF z
  <1>6. Carries(ct, z, d, g, t)
    BY <1>3, <1>5 DEF Carries
  <1> QED BY <1>6 DEF z

\* A side set up anew.
Anew(stuff) ==
  [control |-> "idle", fifo |-> <<>>, held |-> 0, at |-> 0, committed |-> 0, stuff |-> stuff,
   index |-> 0, lead |-> 0]

LEMMA AnewIs ==
  /\ NewTx = Anew(FALSE)
  /\ \A stuff \in BOOLEAN : [NewTx EXCEPT !.stuff = stuff] = Anew(stuff)
  BY DEF NewTx, Anew

\* It carries nothing.
LEMMA FreshCarries ==
  ASSUME NEW ct, NEW stuff \in BOOLEAN, NEW x, x = Anew(stuff), NEW rg, rg = [k \in Slots |-> K28]
  PROVE  Carries(ct, Side(x, rg), Stopped, 0, 0) /\ Stopped \in Cards /\ InPacket(0) = 0
  <1> DEFINE s == Side(x, rg)
  <1>1. /\ Size \in Nat \ {0} /\ Packet \in Nat \ {0} /\ FifoSize \in Nat \ {0} /\ MaxLoad \in Nat
        /\ BurstSize \in Nat \ {0} /\ Lead \in Nat /\ Word \in Nat \ {0}
    BY Sizes
  <1>2. /\ x.control = "idle" /\ x.fifo = <<>> /\ x.held = 0 /\ x.at = 0 /\ x.committed = 0
        /\ x.stuff = stuff /\ x.index = 0 /\ x.lead = 0
        /\ x = [control |-> "idle", fifo |-> <<>>, held |-> 0, at |-> 0, committed |-> 0,
                stuff |-> stuff, index |-> 0, lead |-> 0]
    BY DEF Anew
  <1>3. 0 \in Slots /\ rg \in [Slots -> Codes] /\ Stopped.r = 0 /\ x.at \in Slots /\ Stopped.r \in Slots
    BY <1>1, <1>2, CodesAre DEF Slots, Stopped
  <1>4. x \in TxSides
    <2>1. <<>> \in Seq(Codes) /\ 0 \in 0..Size /\ 0 \in 0..Packet - 1 /\ 0 \in 0..Lead
      BY <1>1
    <2> QED BY <1>2, <1>3, <2>1 DEF TxSides
  <1>5. s \in Sides /\ s.tx = x /\ s.ring = rg
    BY <1>3, <1>4 DEF Side, Sides
  <1>6. RealLoad(x, Stopped) = 0
    <2>1. RealLoad(x, Stopped) = Ahead(Size, 0, 0)
      BY <1>2, <1>3, RealLoadIs
    <2> QED BY <1>1, <2>1 DEF Ahead
  <1>7. InBuffer(x, Stopped, rg) = <<>>
    <2> DEFINE b == InBuffer(x, Stopped, rg)
    <2>1. b \in Seq(Codes) /\ Len(b) = 0
      BY <1>3, <1>6, InBufferIs
    <2> HIDE DEF b
    <2>2. b = <<>>
      BY <2>1
    <2> QED BY <2>2 DEF b
  <1>8. InPacket(0) = 0
    BY <1>1, ModLess DEF InPacket
  <1>9. Stopped \in Cards
    <2>1. \E k \in Nat : Stopped.burst = k * Word
      <3>1. Stopped.burst = 0 * Word
        BY <1>1 DEF Stopped
      <3> QED BY <3>1
    <2>2. Stopped \in [r : Slots, stale : Slots \cup {-1}, burst : 0..BurstSize]
      BY <1>1, <1>3 DEF Stopped
    <2> QED BY <2>1, <2>2 DEF Cards
  <1>10. Point(0, 0) \in Points
    BY <1>1 DEF Point, Points
  <1>11. Runs(ct, InBuffer(x, Stopped, rg), Point(0, 0), Point(0, x.index))
    BY <1>2, <1>7, <1>10, RunsEmpty
  <1>12. Numbered(x.fifo, 0) /\ Len(x.fifo) = 0
    BY <1>2 DEF Numbered
  <1>13. Carries(ct, s, Stopped, 0, 0)
    <2>0. RealLoad(s.tx, Stopped) = 0 /\ s.tx.committed = 0 /\ Len(s.tx.fifo) = 0 /\ s.tx.held = 0
      BY <1>2, <1>5, <1>6, <1>12
    <2>1. RealLoad(s.tx, Stopped) <= MaxLoad /\ RealLoad(s.tx, Stopped) <= s.tx.committed
          /\ Len(s.tx.fifo) <= FifoSize /\ s.tx.held <= FifoSize
      <3> HIDE DEF s
      <3> QED BY <1>1, <2>0
    <2>2. 0 \in Nat /\ 0 \in 0..Packet - 1 /\ 0 = 0 + Len(s.tx.fifo)
      <3> HIDE DEF s
      <3> QED BY <1>1, <2>0
    <2>3. /\ Runs(ct, InBuffer(s.tx, Stopped, s.ring), Point(0, 0), Point(0, s.tx.index))
          /\ Numbered(s.tx.fifo, 0) /\ s.tx.index = InPacket(0)
      BY <1>2, <1>5, <1>8, <1>11, <1>12
    <2> HIDE DEF s
    <2> QED BY <1>5, <2>1, <2>2, <2>3 DEF Carries
  <1> QED BY <1>8, <1>9, <1>13

LEMMA CarriesCut ==
  ASSUME NEW old \in BOOLEAN, NEW ct \in BOOLEAN, old => ct, NEW s, NEW c, NEW g, NEW t,
         Carries(old, s, c, g, t)
  PROVE  Carries(ct, s, c, g, t)
  <1>1. PICK m \in Nat, p \in 0..Packet - 1 :
          /\ Runs(old, InBuffer(s.tx, c, s.ring), Point(g, p), Point(m, s.tx.index))
          /\ Numbered(s.tx.fifo, m) /\ t = m + Len(s.tx.fifo)
          /\ (~old \/ s.tx.fifo # <<>>) => s.tx.index = InPacket(m)
    BY DEF Carries
  <1>2. Runs(ct, InBuffer(s.tx, c, s.ring), Point(g, p), Point(m, s.tx.index))
    BY <1>1, RunsCut
  <1>3. (~ct \/ s.tx.fifo # <<>>) => s.tx.index = InPacket(m)
    BY <1>1
  <1> QED BY <1>1, <1>2, <1>3 DEF Carries

THEOREM InvariantAtFirst == Init => IInv
  <1> SUFFICES ASSUME Init PROVE IInv
    OBVIOUS
  <1>1. /\ tx = NewTx /\ ring = [s \in Slots |-> K28] /\ card = Stopped
        /\ converter = "none" /\ write = 0 /\ call = NoCall
        /\ next = 0 /\ gone = 0 /\ cut = FALSE
    BY DEF Init
  <1>2. tx = Anew(FALSE) /\ tx.control = "idle"
    BY <1>1, AnewIs DEF NewTx
  <1>3. Carries(cut, Side(tx, ring), card, 0, 0) /\ card \in Cards /\ InPacket(0) = 0
    <2>1. Carries(cut, Side(tx, ring), Stopped, 0, 0) /\ Stopped \in Cards /\ InPacket(0) = 0
      BY <1>1, <1>2, FreshCarries
    <2> QED BY <1>1, <2>1
  <1>4. call \in Calls /\ call.at = "none" /\ ~LittleLeft
    BY <1>1 DEF NoCall, Calls, LittleLeft, Draining, Drained
  <1>5. Types
    BY <1>1, <1>3, <1>4 DEF Types
  <1>6. 0 % Numbers = 0
    <2>1. Numbers \in Nat \ {0}
      BY Sizes
    <2> QED BY <2>1, ModLess
  <1>7. Unwritten = 0
    BY <1>2 DEF Unwritten
  <1>8. StreamAt(0, 0)
    BY <1>1, <1>3, <1>4, <1>6, <1>7 DEF StreamAt
  <1>9. Stream
    BY <1>8 DEF Stream
  <1>10. Order
    BY <1>1, <1>4 DEF Order
  <1> QED BY <1>5, <1>9, <1>10 DEF IInv

\* A step that leaves the buffer and the FIFO.
LEMMA StreamStays ==
  ASSUME Stream, ring' = ring, next' = next, gone' = gone, cut' = cut, card'.r = card.r,
         tx' \in TxSides, tx'.fifo = tx.fifo, tx'.at = tx.at, tx'.committed = tx.committed,
         tx'.index = tx.index, tx'.held <= FifoSize,
         Unwritten' = Unwritten, LittleLeft' => LittleLeft
  PROVE  Stream'
  <1>1. PICK g \in Nat, t \in Nat : StreamAt(g, t)
    BY DEF Stream
  <1> DEFINE s == Side(tx, ring)
  <1>2. s.tx = tx /\ s.ring = ring /\ Carries(cut, s, card, g, t)
    BY <1>1, SideIs DEF StreamAt
  <1> HIDE DEF s
  <1>3. Carries(cut, Side(tx', s.ring), card', g, t)
    BY <1>2, CarriesLike
  <1>4. StreamAt(g, t)'
    BY <1>1, <1>2, <1>3 DEF StreamAt
  <1> QED BY <1>4 DEF Stream

\* A step that sets the side up anew.
LEMMA StreamAnew ==
  ASSUME NEW stuff \in BOOLEAN, tx' = Anew(stuff), ring' = [k \in Slots |-> K28], card' = Stopped,
         next' = 0, gone' = 0, cut' = FALSE, ~LittleLeft'
  PROVE  Stream' /\ card' \in Cards
  <1> DEFINE rg == [k \in Slots |-> K28]
             x == Anew(stuff)
  <1>1. Carries(cut', Side(x, rg), Stopped, 0, 0) /\ Stopped \in Cards /\ InPacket(0) = 0
    BY FreshCarries
  <1>2. 0 % Numbers = 0
    <2>1. Numbers \in Nat \ {0}
      BY Sizes
    <2> QED BY <2>1, ModLess
  <1>3. Unwritten' = 0
    BY DEF Unwritten, Anew
  <1> HIDE DEF rg, x
  <1>4. tx' = x /\ ring' = rg
    BY DEF rg, x
  <1>5. Carries(cut', Side(tx', ring'), card', 0, 0)
    BY <1>1, <1>4
  <1>6. StreamAt(0, 0)'
    BY <1>1, <1>2, <1>3, <1>5 DEF StreamAt
  <1> QED BY <1>1, <1>6 DEF Stream

\* A step after which the card takes what it can.
LEMMA StreamTaken ==
  ASSUME NEW w, NEW c \in Cards, NEW g \in Nat, NEW t \in Nat, cut \in BOOLEAN, cut' = cut,
         Carries(cut, w, c, g, t), g % Numbers = gone, t % Numbers = next',
         Refill(w.tx, c, w.ring), tx' = w.tx, ~cut => InPacket(t + Unwritten') = 0,
         LittleLeft' => t - g < Word + WordBytes
  PROVE  Stream' /\ card' \in Cards
  <1>1. /\ card' \in Cards
        /\ \E h \in Nat : h >= g /\ h % Numbers = gone' /\ Carries(cut, Side(tx', ring'), card', h, t)
    BY RefillCarries
  <1>2. PICK h \in Nat : h >= g /\ h % Numbers = gone' /\ Carries(cut, Side(tx', ring'), card', h, t)
    BY <1>1
  <1>3. LittleLeft' => t - h < Word + WordBytes
    <2>1. Word \in Nat \ {0} /\ WordBytes \in 1..Packet - 1 /\ Packet \in Nat \ {0}
      BY Sizes
    <2>2. t - h <= t - g
      BY <1>2
    <2>3. ASSUME t - g < Word + WordBytes PROVE t - h < Word + WordBytes
      BY <2>1, <2>2, <2>3
    <2> QED BY <2>3
  <1>4. StreamAt(h, t)'
    BY <1>2, <1>3 DEF StreamAt
  <1> QED BY <1>1, <1>4 DEF Stream

LEMMA StateTypes ==
  ASSUME IInv
  PROVE  /\ tx \in TxSides /\ ring \in [Slots -> Codes]
         /\ tx.control \in {"idle", "hold", "send"} /\ tx.fifo \in Seq(Codes) /\ tx.held \in Nat
         /\ tx.stuff \in BOOLEAN /\ tx.held <= FifoSize /\ Len(tx.fifo) <= FifoSize
  <1>1. PICK g \in Nat, t \in Nat : StreamAt(g, t)
    BY DEF IInv, Stream
  <1> DEFINE s == Side(tx, ring)
  <1>2. s \in Sides /\ s.tx = tx /\ s.ring = ring /\ s.tx.held <= FifoSize /\ Len(s.tx.fifo) <= FifoSize
    BY <1>1, SideIs DEF StreamAt, Carries
  <1> HIDE DEF s
  <1> QED BY <1>2, SideTypes

\* A step of a call that leaves the side, the card and the write.
LEMMA ThenKeeps ==
  ASSUME IInv, UNCHANGED <<tx, ring, card, write, next, gone, cut>>,
         call' \in Calls, converter' \in {"none", "runs", "stopping"},
         LittleLeft' => LittleLeft, Order'
  PROVE  IInv'
  <1>1. /\ tx' = tx /\ ring' = ring /\ card' = card /\ write' = write /\ next' = next /\ gone' = gone
        /\ cut' = cut
    OBVIOUS
  <1>2. Types'
    BY <1>1 DEF IInv, Types
  <1>3. Unwritten' = Unwritten
    BY <1>1 DEF Unwritten
  <1>4. tx' \in TxSides /\ tx'.held <= FifoSize
    BY <1>1, StateTypes
  <1>5. Stream'
    BY <1>1, <1>3, <1>4, StreamStays DEF IInv
  <1> QED BY <1>2, <1>5 DEF IInv

LEMMA CallKinds ==
  /\ NoCall \in Calls /\ NoCall.at = "none"
  /\ \A then \in {"hold", "idle", "release"} :
       Joining(then) \in Calls /\ Joining(then).at = "join" /\ Joining(then).then = then
  /\ \A wait \in BOOLEAN : Detaching(wait) \in Calls /\ Detaching(wait).at = "detach"
  /\ \A burst \in BOOLEAN :
       Draining(burst) \in Calls /\ Draining(burst).at = "drain" /\ Draining(burst).burst = burst
  /\ Drained \in Calls /\ Drained.at = "drained"
  /\ Releasing \in Calls /\ Releasing.at = "release"
  BY DEF NoCall, Joining, Detaching, Draining, Drained, Releasing, Calls

\* The call of a small load: the wait goes on, or has ended by itself.
LEMMA LittleLeftIs ==
  LittleLeft => call.at = "drained" \/ (call.at = "drain" /\ call.burst)
  BY CallKinds DEF LittleLeft

LEMMA LittleLeftOf ==
  ASSUME call \in Calls, call.at = "drained" \/ (call.at = "drain" /\ call.burst)
  PROVE  LittleLeft
  BY DEF LittleLeft, Calls, Draining, Drained

LEMMA ExitKeeps ==
  ASSUME IInv, Exit
  PROVE  IInv'
  <1>1. /\ converter' = "none" /\ call' = call /\ tx' = tx /\ write' = write /\ cut' = cut
        /\ UNCHANGED <<tx, ring, card, write, next, gone, cut>>
    BY DEF Exit
  <1>2. call' \in Calls /\ (LittleLeft' => LittleLeft)
    BY <1>1 DEF IInv, Types, LittleLeft
  <1>3. Order'
    BY <1>1 DEF IInv, Order, Detaches
  <1> QED BY <1>1, <1>2, <1>3, ThenKeeps

LEMMA HoldToSendKeeps ==
  ASSUME IInv, HoldToSend
  PROVE  IInv'
  <1>1. /\ call = NoCall /\ tx.control = "hold" /\ ring' = ring /\ card' = card /\ write' = write
        /\ next' = next /\ gone' = gone /\ cut' = cut
    BY DEF HoldToSend
  <1>2. ~cut
    BY <1>1, CallKinds DEF IInv, Order, Detaches
  <1>3. CASE converter' = "runs" /\ call' = NoCall /\ tx' = [tx EXCEPT !.control = "send", !.held = 0]
    <2>1. /\ tx' \in TxSides /\ tx'.control = "send" /\ tx'.fifo = tx.fifo /\ tx'.at = tx.at
          /\ tx'.committed = tx.committed /\ tx'.index = tx.index /\ tx'.held = 0
      BY <1>3, StateTypes DEF TxSides
    <2>2. 0 <= FifoSize
      <3>1. FifoSize \in Nat \ {0}
        BY Sizes
      <3> QED BY <3>1
    <2>3. call'.at = "none" /\ call' \in Calls /\ ~LittleLeft' /\ Unwritten' = Unwritten
      BY <1>1, <1>3, <2>1, CallKinds, LittleLeftIs DEF Unwritten, LittleLeft
    <2>4. Stream'
      BY <1>1, <2>1, <2>2, <2>3, StreamStays DEF IInv
    <2>5. Types'
      BY <1>1, <1>3, <2>3 DEF IInv, Types
    <2>6. Order'
      BY <1>1, <1>2, <2>1, <2>3 DEF Order
    <2> QED BY <2>4, <2>5, <2>6 DEF IInv
  <1>4. CASE converter' = "stopping" /\ call' = Joining("hold") /\ UNCHANGED tx
    <2>1. call'.at = "join" /\ call'.then = "hold" /\ call' \in Calls
      BY <1>4, CallKinds
    <2>2. ~LittleLeft'
      BY <1>4, CallKinds DEF LittleLeft
    <2>3. Order'
      BY <1>1, <1>2, <1>4, <2>1 DEF Order
    <2> QED BY <1>1, <1>4, <2>1, <2>2, <2>3, ThenKeeps
  <1> QED BY <1>3, <1>4 DEF HoldToSend

LEMMA IdleToHoldKeeps ==
  ASSUME IInv, IdleToHold
  PROVE  IInv'
  <1>1. /\ call = NoCall /\ tx.control = "idle" /\ write = 0 /\ tx' = [tx EXCEPT !.control = "hold"]
        /\ ring' = ring /\ converter' = converter /\ write' = write /\ call' = call /\ next' = next
        /\ gone' = gone /\ cut' = cut
    BY DEF IdleToHold
  <1>2. PICK k \in Slots \cup {-1} : card' = [card EXCEPT !.stale = k]
    BY DEF IdleToHold
  <1>3. card' \in Cards /\ card'.r = card.r
    BY <1>2 DEF IInv, Types, Cards
  <1>4. /\ tx' \in TxSides /\ tx'.control = "hold" /\ tx'.fifo = tx.fifo /\ tx'.at = tx.at
        /\ tx'.committed = tx.committed /\ tx'.index = tx.index /\ tx'.held <= FifoSize
    BY <1>1, StateTypes DEF TxSides
  <1>5. call.at = "none" /\ (LittleLeft' => LittleLeft) /\ Unwritten' = Unwritten
    BY <1>1, <1>4, CallKinds DEF Unwritten, LittleLeft
  <1>6. Stream'
    BY <1>1, <1>3, <1>4, <1>5, StreamStays DEF IInv
  <1>7. Types'
    BY <1>1, <1>3 DEF IInv, Types
  <1>8. Order'
    BY <1>1, <1>4, <1>5 DEF IInv, Order, Detaches
  <1> QED BY <1>6, <1>7, <1>8 DEF IInv

LEMMA SetTxModeKeeps ==
  ASSUME IInv, SetTxMode
  PROVE  IInv'
  <1>1. /\ tx' = [tx EXCEPT !.stuff = ~tx.stuff] /\ card' = card
        /\ ring' = ring /\ converter' = converter /\ write' = write /\ call' = call /\ next' = next
        /\ gone' = gone /\ cut' = cut
    BY DEF SetTxMode
  <1>2. /\ tx' \in TxSides /\ tx'.control = tx.control /\ tx'.fifo = tx.fifo /\ tx'.at = tx.at
        /\ tx'.committed = tx.committed /\ tx'.index = tx.index /\ tx'.held <= FifoSize
    BY <1>1, StateTypes DEF TxSides
  <1>3. (LittleLeft' => LittleLeft) /\ Unwritten' = Unwritten
    BY <1>1, <1>2 DEF Unwritten, LittleLeft
  <1>4. Stream'
    BY <1>1, <1>2, <1>3, StreamStays DEF IInv
  <1>5. Types'
    BY <1>1 DEF IInv, Types
  <1>6. Order'
    BY <1>1, <1>2 DEF IInv, Order, Detaches
  <1> QED BY <1>4, <1>5, <1>6 DEF IInv

LEMMA CardSettlesKeeps ==
  ASSUME IInv, CardSettles
  PROVE  IInv'
  <1>1. /\ card' = [card EXCEPT !.stale = -1] /\ tx' = tx
        /\ ring' = ring /\ converter' = converter /\ write' = write /\ call' = call /\ next' = next
        /\ gone' = gone /\ cut' = cut
    BY DEF CardSettles
  <1>2. card' \in Cards /\ card'.r = card.r
    BY <1>1 DEF IInv, Types, Cards
  <1>3. (LittleLeft' => LittleLeft) /\ Unwritten' = Unwritten
    BY <1>1 DEF Unwritten, LittleLeft
  <1>4. tx' \in TxSides /\ tx'.held <= FifoSize
    BY <1>1, StateTypes
  <1>5. Stream'
    BY <1>1, <1>2, <1>3, <1>4, StreamStays DEF IInv
  <1>6. Types'
    BY <1>1, <1>2 DEF IInv, Types
  <1>7. Order'
    BY <1>1 DEF IInv, Order, Detaches
  <1> QED BY <1>5, <1>6, <1>7 DEF IInv

\* Leaving send for then; a stop leaves it without a write.
LEMMA SendToHoldKeeps ==
  ASSUME Liberties = {}, IInv, tx.control = "send", NEW then \in {"hold", "idle", "release"},
         SendToHold(then), then = "release" => write = 0, then # "release" => ~cut
  PROVE  IInv'
  <1> DEFINE k == ReportedFifoLoad(tx, card)
  <1>1. /\ tx' = [tx EXCEPT !.held = k, !.control = "hold"]
        /\ converter' = "stopping" /\ call' = Joining(then)
        /\ ring' = ring /\ card' = card /\ write' = write /\ next' = next /\ gone' = gone /\ cut' = cut
    BY DEF SendToHold
  <1>2. k \in Nat /\ k <= FifoSize
    <2>1. PICK g \in Nat, t \in Nat : StreamAt(g, t)
      BY DEF IInv, Stream
    <2> DEFINE s == Side(tx, ring)
    <2>2. Carries(cut, s, card, g, t) /\ s.tx = tx /\ card \in Cards
      BY <2>1, SideIs DEF StreamAt, IInv, Types
    <2> HIDE DEF s
    <2>3. ReportedFifoLoad(s.tx, card) \in Nat /\ ReportedFifoLoad(s.tx, card) <= FifoSize
      BY <2>2, ReportedIs
    <2> QED BY <2>2, <2>3
  <1> HIDE DEF k
  <1>3. /\ tx' \in TxSides /\ tx'.control = "hold" /\ tx'.fifo = tx.fifo /\ tx'.at = tx.at
        /\ tx'.committed = tx.committed /\ tx'.index = tx.index /\ tx'.held <= FifoSize
    BY <1>1, <1>2, StateTypes DEF TxSides
  <1>4. call'.at = "join" /\ call'.then = then /\ call' \in Calls /\ Unwritten' = Unwritten
    BY <1>1, <1>3, CallKinds DEF Unwritten
  <1>5. ~LittleLeft'
    BY <1>1, CallKinds DEF LittleLeft
  <1>6. Stream'
    BY <1>1, <1>3, <1>4, <1>5, StreamStays DEF IInv
  <1>7. Types'
    BY <1>1, <1>4 DEF IInv, Types
  <1>8. Order'
    BY <1>1, <1>3, <1>4 DEF IInv, Order, Detaches
  <1> QED BY <1>6, <1>7, <1>8 DEF IInv

\* Setting the side up anew, with no call and no thread.
LEMMA AnewKeeps ==
  ASSUME IInv, NEW stuff \in BOOLEAN, tx' = Anew(stuff), ring' = [k \in Slots |-> K28],
         card' = Stopped, next' = 0, gone' = 0, cut' = FALSE, call' = NoCall, write' = write,
         converter' = converter, converter # "runs"
  PROVE  IInv'
  <1>1. call'.at = "none" /\ call' \in Calls /\ ~LittleLeft'
    BY CallKinds DEF LittleLeft
  <1>2. Stream' /\ card' \in Cards
    BY <1>1, StreamAnew
  <1>3. Types'
    BY <1>1, <1>2 DEF IInv, Types
  <1>4. Order'
    BY <1>1 DEF Order
  <1> QED BY <1>2, <1>3, <1>4 DEF IInv

LEMMA HoldToIdleKeeps ==
  ASSUME IInv, HoldToIdle, call' = NoCall, write' = write, converter' = converter, converter # "runs"
  PROVE  IInv'
  <1>1. tx.stuff \in BOOLEAN
    BY StateTypes
  <1>2. tx' = Anew(tx.stuff)
    BY <1>1, AnewIs DEF HoldToIdle
  <1>3. ring' = [k \in Slots |-> K28] /\ card' = Stopped /\ next' = 0 /\ gone' = 0 /\ cut' = FALSE
    BY DEF HoldToIdle
  <1> QED BY <1>1, <1>2, <1>3, AnewKeeps

LEMMA ReleaseKeeps ==
  ASSUME IInv, Release, converter # "runs"
  PROVE  IInv'
  <1> DEFINE stuff == FALSE
  <1>1. tx' = Anew(stuff) /\ stuff \in BOOLEAN
    BY AnewIs DEF Release
  <1>2. /\ ring' = [k \in Slots |-> K28] /\ card' = Stopped /\ next' = 0 /\ gone' = 0 /\ cut' = FALSE
        /\ call' = NoCall /\ write' = write /\ converter' = converter
    BY DEF Release
  <1> HIDE DEF stuff
  <1> QED BY <1>1, <1>2, AnewKeeps

LEMMA StopKeeps ==
  ASSUME Liberties = {}, IInv, Stop, write = 0
  PROVE  IInv'
  <1>1. CASE tx.control = "send"
    <2> DEFINE then == "release"
    <2>1. SendToHold(then) /\ then \in {"hold", "idle", "release"} /\ then = "release"
      BY <1>1 DEF Stop
    <2> HIDE DEF then
    <2> QED BY <1>1, <2>1, SendToHoldKeeps
  <1>2. CASE tx.control # "send"
    <2>1. Release /\ converter # "runs"
      BY <1>2 DEF Stop, IInv, Order
    <2> QED BY <2>1, ReleaseKeeps
  <1> QED BY <1>1, <1>2

LEMMA SetTxControlKeeps ==
  ASSUME Liberties = {}, IInv, NEW to \in {"hold", "idle"}, SetTxControl(to)
  PROVE  IInv'
  <1>1. call = NoCall /\ ~cut
    BY CallKinds DEF SetTxControl, IInv, Order, Detaches
  <1>2. CASE tx.control = "send" /\ SendToHold(to)
    BY <1>1, <1>2, SendToHoldKeeps
  <1>3. CASE tx.control = "hold" /\ HoldToIdle /\ UNCHANGED <<converter, write, call>>
    <2>1. converter # "runs"
      BY <1>3 DEF IInv, Order
    <2> QED BY <1>1, <1>3, <2>1, HoldToIdleKeeps
  <1> QED BY <1>2, <1>3 DEF SetTxControl

LEMMA JoinEndsKeeps ==
  ASSUME IInv, JoinEnds
  PROVE  IInv'
  <1>1. call.at = "join" /\ converter = "none" /\ converter # "runs"
    BY DEF JoinEnds
  <1>2. CASE call.then = "hold"
    <2>1. call' = NoCall /\ UNCHANGED <<tx, ring, card, converter, write, next, gone, cut>>
      BY <1>2 DEF JoinEnds
    <2>2. ~cut
      BY <1>1, <1>2 DEF IInv, Order, Detaches
    <2>3. call'.at = "none" /\ call' \in Calls /\ ~LittleLeft'
      BY <2>1, CallKinds DEF LittleLeft
    <2>4. Order'
      BY <1>1, <2>1, <2>2, <2>3 DEF Order
    <2>5. converter' \in {"none", "runs", "stopping"}
      BY <1>1, <2>1
    <2> QED BY <2>1, <2>3, <2>4, <2>5, ThenKeeps
  <1>3. CASE call.then = "idle"
    <2>1. HoldToIdle /\ call' = NoCall /\ write' = write /\ converter' = converter
      BY <1>3 DEF JoinEnds
    <2> QED BY <1>1, <2>1, HoldToIdleKeeps
  <1>4. CASE call.then # "hold" /\ call.then # "idle"
    <2>1. Release
      BY <1>4 DEF JoinEnds
    <2> QED BY <1>1, <2>1, ReleaseKeeps
  <1> QED BY <1>2, <1>3, <1>4

\* A detach goes from one of its steps to the next.
LEMMA DetachStepKeeps ==
  ASSUME IInv, NEW at \in Calls, Then(at), at.at \in {"detach", "drain", "release"},
         at.at = "drain" => ~at.burst /\ tx.control = "send",
         at.at \in {"drain", "release"} => write = 0
  PROVE  IInv'
  <1>1. /\ call' = at /\ UNCHANGED <<tx, ring, card, write, next, gone, cut>>
        /\ tx' = tx /\ converter' = converter /\ write' = write /\ cut' = cut
    BY DEF Then
  <1>2. call' \in Calls /\ converter' \in {"none", "runs", "stopping"}
    BY <1>1 DEF IInv, Types
  <1>3. ~LittleLeft'
    BY <1>1, CallKinds DEF LittleLeft
  <1>4. Order'
    BY <1>1 DEF IInv, Order, Detaches
  <1> QED BY <1>1, <1>2, <1>3, <1>4, ThenKeeps

LEMMA GoOnKeeps ==
  ASSUME Liberties = {}, IInv, NEW wait \in BOOLEAN, GoOn(wait), write = 0
  PROVE  IInv'
  <1>1. CASE wait /\ tx.control = "send"
    <2> DEFINE burst == FALSE
               at == Draining(burst)
    <2>1. Then(at) /\ burst \in BOOLEAN /\ ~burst
      BY <1>1 DEF GoOn
    <2> HIDE DEF burst
    <2>2. at \in Calls /\ at.at = "drain" /\ ~at.burst
      BY <2>1, CallKinds
    <2> HIDE DEF at
    <2> QED BY <1>1, <2>1, <2>2, DetachStepKeeps
  <1>2. CASE ~(wait /\ tx.control = "send")
    <2>1. Stop
      BY <1>2 DEF GoOn
    <2> QED BY <2>1, StopKeeps
  <1> QED BY <1>1, <1>2

LEMMA DetachKeeps ==
  ASSUME Liberties = {}, IInv, NEW wait \in BOOLEAN, Detach(wait)
  PROVE  IInv'
  <1>1. CASE write > 0
    <2> DEFINE at == Detaching(wait)
    <2>1. Then(at) /\ at \in Calls /\ at.at = "detach"
      BY <1>1, CallKinds DEF Detach
    <2> HIDE DEF at
    <2> QED BY <2>1, DetachStepKeeps
  <1>2. CASE ~(write > 0)
    <2>1. GoOn(wait) /\ write = 0
      BY <1>2 DEF Detach, IInv, Types
    <2> QED BY <2>1, GoOnKeeps
  <1> QED BY <1>1, <1>2

LEMMA DetachGoesOnKeeps ==
  ASSUME Liberties = {}, IInv, DetachGoesOn
  PROVE  IInv'
  <1>1. call.at = "detach" /\ write = 0 /\ GoOn(call.wait)
    BY DEF DetachGoesOn
  <1>2. call.wait \in BOOLEAN
    BY <1>1 DEF IInv, Types, Calls
  <1> DEFINE wait == call.wait
  <1>3. GoOn(wait) /\ wait \in BOOLEAN
    BY <1>1, <1>2
  <1> HIDE DEF wait
  <1> QED BY <1>1, <1>3, GoOnKeeps

LEMMA DetachGivesUpKeeps ==
  ASSUME IInv, DetachGivesUp
  PROVE  IInv'
  <1>1. /\ write > 0 /\ call' = NoCall /\ UNCHANGED <<tx, ring, card, write, next, gone, cut>>
        /\ tx' = tx /\ converter' = converter /\ write' = write /\ cut' = cut
    BY DEF DetachGivesUp, Then
  <1>2. ~cut
    BY <1>1 DEF IInv, Order, Types
  <1>3. call'.at = "none" /\ call' \in Calls /\ ~LittleLeft'
    BY <1>1, CallKinds DEF LittleLeft
  <1>4. Order' /\ converter' \in {"none", "runs", "stopping"}
    BY <1>1, <1>2, <1>3 DEF IInv, Types, Order
  <1> QED BY <1>1, <1>3, <1>4, ThenKeeps

LEMMA DrainGivesUpKeeps ==
  ASSUME IInv, DrainGivesUp
  PROVE  IInv'
  <1> DEFINE at == Releasing
  <1>1. Then(at) /\ at \in Calls /\ at.at = "release" /\ write = 0
    BY CallKinds DEF DrainGivesUp, IInv, Order
  <1> HIDE DEF at
  <1> QED BY <1>1, DetachStepKeeps

LEMMA DetachStopsKeeps ==
  ASSUME Liberties = {}, IInv, DetachStops
  PROVE  IInv'
  <1>1. Stop /\ write = 0
    BY DEF DetachStops, IInv, Order
  <1> QED BY <1>1, StopKeeps

LEMMA DrainKeeps ==
  ASSUME Liberties = {}, IInv, Drain
  PROVE  IInv'
  <1> DEFINE burst == call.burst \/ ReportedFifoLoad(tx, card) <= WordBytes
             at == IF burst /\ card.burst <= Word THEN Drained ELSE Draining(burst)
  <1>1. call.at = "drain" /\ Then(at)
    BY DEF Drain
  <1>2. /\ call' = at /\ ring' = ring /\ card' = card /\ next' = next /\ gone' = gone
        /\ tx' = tx /\ converter' = converter /\ write' = write /\ cut' = cut
    BY <1>1 DEF Then
  <1>3. call \in Calls /\ call.burst \in BOOLEAN /\ card \in Cards /\ tx.control = "send" /\ write = 0
    BY <1>1 DEF IInv, Types, Order, Calls
  <1>4. burst \in BOOLEAN
    BY <1>3
  <1>5. PICK g \in Nat, t \in Nat : StreamAt(g, t)
    BY DEF IInv, Stream
  <1>6. ASSUME burst PROVE t - g < Word + WordBytes
    <2>1. CASE call.burst
      <3>1. LittleLeft
        BY <1>1, <1>3, <2>1, LittleLeftOf
      <3> QED BY <1>5, <3>1 DEF StreamAt
    <2>2. CASE ReportedFifoLoad(tx, card) <= WordBytes
      <3> DEFINE s == Side(tx, ring)
      <3>1. Carries(cut, s, card, g, t) /\ s.tx = tx
        BY <1>5, SideIs DEF StreamAt
      <3> HIDE DEF s
      <3> QED BY <1>3, <2>2, <3>1, LittleIsLeft
    <2> QED BY <1>6, <2>1, <2>2
  <1> HIDE DEF burst
  <1>7. /\ at \in Calls /\ at.at \in {"drain", "drained"}
        /\ at.at = "drained" \/ (at.at = "drain" /\ at.burst) => burst
    BY <1>4, CallKinds
  <1> HIDE DEF at
  <1>8. call' \in Calls /\ call'.at \in {"drain", "drained"} /\ (LittleLeft' => burst)
    <2>1. LittleLeft' => call'.at = "drained" \/ (call'.at = "drain" /\ call'.burst)
      BY CallKinds DEF LittleLeft
    <2> QED BY <1>2, <1>7, <2>1
  <1>9. Unwritten' = Unwritten
    BY <1>2 DEF Unwritten
  <1>10. StreamAt(g, t)'
    <2>1. /\ g % Numbers = gone' /\ t % Numbers = next'
          /\ Carries(cut, Side(tx, ring), card, g, t) /\ (~cut' => InPacket(t + Unwritten') = 0)
      BY <1>2, <1>5, <1>9 DEF StreamAt
    <2>2. Carries(cut', Side(tx', ring'), card', g, t)
      BY <1>2, <2>1
    <2> QED BY <1>6, <1>8, <2>1, <2>2 DEF StreamAt
  <1>11. Types'
    BY <1>2, <1>8 DEF IInv, Types
  <1>12. Order'
    BY <1>1, <1>2, <1>3, <1>8 DEF IInv, Order, Detaches
  <1> QED BY <1>10, <1>11, <1>12 DEF IInv, Stream

LEMMA WriteEndsKeeps ==
  ASSUME IInv, WriteEnds
  PROVE  IInv'
  <1>1. /\ write > 0 /\ (Detaches \/ tx.control = "idle") /\ write' = 0 /\ cut' = (tx.control # "idle")
        /\ ring' = ring /\ card' = card /\ next' = next /\ gone' = gone
        /\ tx' = tx /\ converter' = converter /\ call' = call
    BY DEF WriteEnds
  <1>2. cut \in BOOLEAN /\ ~cut /\ cut' \in BOOLEAN
    BY <1>1 DEF IInv, Types, Order
  <1>3. PICK g \in Nat, t \in Nat : StreamAt(g, t)
    BY DEF IInv, Stream
  <1>4. Carries(cut', Side(tx', ring'), card', g, t)
    <2>1. Carries(cut, Side(tx, ring), card, g, t)
      BY <1>3 DEF StreamAt
    <2> DEFINE new == cut'
               s == Side(tx, ring)
    <2>2. new \in BOOLEAN /\ (cut => new)
      BY <1>2
    <2> HIDE DEF new, s
    <2>3. Carries(new, s, card, g, t)
      BY <1>2, <2>1, <2>2, CarriesCut DEF s
    <2> QED BY <1>1, <2>3 DEF new, s
  <1>5. ~cut' => Unwritten' = 0 /\ Unwritten = 0
    BY <1>1 DEF Unwritten
  <1>6. ~cut' => InPacket(t + Unwritten') = 0
    <2>1. InPacket(t + Unwritten) = 0
      BY <1>2, <1>3 DEF StreamAt
    <2> QED BY <1>5, <2>1
  <1>7. LittleLeft' => t - g < Word + WordBytes
    BY <1>1, <1>3 DEF StreamAt, LittleLeft
  <1>8. StreamAt(g, t)'
    BY <1>1, <1>3, <1>4, <1>6, <1>7 DEF StreamAt
  <1>9. Types'
    BY <1>1, <1>2 DEF IInv, Types
  <1>10. Order'
    BY <1>1 DEF IInv, Order, Detaches
  <1> QED BY <1>8, <1>9, <1>10 DEF IInv, Stream

\* A word less in the burst FIFO.
LEMMA WordSent ==
  ASSUME card \in Cards, card.burst > 0
  PROVE  /\ [card EXCEPT !.burst = card.burst - Word] \in Cards
         /\ [card EXCEPT !.burst = card.burst - Word].r = card.r
  <1>1. /\ card \in [r : Slots, stale : Slots \cup {-1}, burst : 0..BurstSize]
        /\ \E k \in Nat : card.burst = k * Word
    BY DEF Cards
  <1>2. PICK k \in Nat : card.burst = k * Word
    BY <1>1
  <1>3. Word \in Nat \ {0} /\ BurstSize \in Nat \ {0} /\ card.burst \in 0..BurstSize
    BY <1>1, Sizes
  <1>4. k # 0
    <2>1. 0 * Word = 0
      BY <1>3
    <2> QED BY <1>2, <2>1
  <1> DEFINE j == k - 1
             b == card.burst - Word
  <1>5. j \in Nat
    BY <1>4
  <1>6. b = j * Word
    <2>1. k = j + 1
      BY <1>5
    <2> HIDE DEF j
    <2>2. (j + 1) * Word = j * Word + Word
      BY <1>3, <1>5
    <2>3. j * Word \in Nat
      BY <1>3, <1>5
    <2> DEFINE B == j * Word
    <2>4. card.burst = B + Word /\ B \in Nat
      BY <1>2, <2>1, <2>2, <2>3
    <2> HIDE DEF B
    <2>5. b = B
      BY <1>3, <2>4
    <2> QED BY <2>5 DEF B
  <1>7. b \in 0..BurstSize
    <2>1. j * Word \in Nat
      BY <1>3, <1>5
    <2> HIDE DEF j
    <2>2. b \in Nat
      BY <1>6, <2>1
    <2> QED BY <1>3, <2>2
  <1> HIDE DEF b, j
  <1>8. [card EXCEPT !.burst = b] \in [r : Slots, stale : Slots \cup {-1}, burst : 0..BurstSize]
        /\ [card EXCEPT !.burst = b].burst = b /\ [card EXCEPT !.burst = b].r = card.r
    BY <1>1, <1>7
  <1>9. [card EXCEPT !.burst = b] \in Cards
    BY <1>5, <1>6, <1>8 DEF Cards
  <1> QED BY <1>8, <1>9 DEF b

LEMMA CardSendsKeeps ==
  ASSUME IInv, CardSends
  PROVE  IInv'
  <1> DEFINE c == [card EXCEPT !.burst = card.burst - Word]
             s == Side(tx, ring)
  <1>1. /\ card.burst > 0 /\ Refill(tx, c, ring) /\ next' = next
        /\ tx' = tx /\ converter' = converter /\ call' = call /\ write' = write /\ cut' = cut
    BY DEF CardSends
  <1>2. card \in Cards /\ cut \in BOOLEAN
    BY DEF IInv, Types
  <1>3. c \in Cards /\ c.r = card.r
    BY <1>1, <1>2, WordSent
  <1>4. PICK g \in Nat, t \in Nat : StreamAt(g, t)
    BY DEF IInv, Stream
  <1>5. s.tx = tx /\ s.ring = ring
    BY SideIs
  <1>6. tx \in TxSides /\ tx.held <= FifoSize
    BY StateTypes
  <1> HIDE DEF c
  <1>7. Carries(cut, s, c, g, t)
    <2>1. Carries(cut, s, card, g, t)
      BY <1>4 DEF StreamAt
    <2>2. s = Side(tx, s.ring)
      BY <1>5
    <2> HIDE DEF s
    <2>3. Carries(cut, Side(tx, s.ring), c, g, t)
      BY <1>3, <1>5, <1>6, <2>1, CarriesLike
    <2> QED BY <2>2, <2>3
  <1> HIDE DEF s
  <1>8. /\ g % Numbers = gone /\ t % Numbers = next' /\ (~cut => InPacket(t + Unwritten') = 0)
        /\ (LittleLeft' => t - g < Word + WordBytes)
    <2>1. Unwritten' = Unwritten /\ (LittleLeft' => LittleLeft)
      BY <1>1 DEF Unwritten, LittleLeft
    <2> QED BY <1>1, <1>4, <2>1 DEF StreamAt
  <1>9. Stream' /\ card' \in Cards
    <2>1. Refill(s.tx, c, s.ring) /\ tx' = s.tx
      BY <1>1, <1>5
    <2> QED BY <1>1, <1>2, <1>3, <1>7, <1>8, <2>1, StreamTaken
  <1>10. Types'
    BY <1>1, <1>9 DEF IInv, Types
  <1>11. Order'
    BY <1>1 DEF IInv, Order, Detaches
  <1> QED BY <1>9, <1>10, <1>11 DEF IInv

LEMMA ConvertKeeps ==
  ASSUME Liberties = {}, IInv, Convert
  PROVE  IInv'
  <1> DEFINE s == Side(tx, ring)
             w == Pass(s)
  <1>1. /\ converter = "runs" /\ InTime /\ Becomes(w) /\ next' = next
        /\ converter' = converter /\ call' = call /\ write' = write /\ cut' = cut
    BY DEF Convert
  <1>2. card \in Cards /\ cut \in BOOLEAN /\ write \in Nat /\ tx.control = "send"
    BY <1>1 DEF IInv, Types, Order
  <1>3. PICK g \in Nat, t \in Nat : StreamAt(g, t)
    BY DEF IInv, Stream
  <1>4. s.tx = tx /\ s.ring = ring /\ Carries(cut, s, card, g, t)
    BY <1>3, SideIs DEF StreamAt
  <1> HIDE DEF s
  <1>5. RealLoad(s.tx, card) + Len(s.tx.fifo) >= Target \/ cut \/ InPacket(t) = 0
    <2>1. CASE cut \/ write = 0
      <3>1. write = 0 => Unwritten = 0
        BY DEF Unwritten
      <3>2. cut \/ InPacket(t + Unwritten) = 0
        BY <1>3 DEF StreamAt
      <3>3. t + 0 = t
        OBVIOUS
      <3> QED BY <2>1, <3>1, <3>2, <3>3
    <2>2. CASE write # 0
      <3> DEFINE n == Least(write, Block)
      <3>1. ~HasRoom(s.tx, n)
        <4>1. "late" \notin Liberties
          OBVIOUS
        <4> QED BY <1>1, <1>4, <2>2, <4>1 DEF InTime
      <3>2. n \in Nat /\ n <= Block
        <4>1. Block \in Nat \ {0}
          BY Sizes
        <4> QED BY <1>2, <4>1 DEF Least
      <3> HIDE DEF n
      <3> QED BY <1>2, <1>4, <3>1, <3>2, NoRoomIsTarget
    <2> QED BY <2>1, <2>2
  <1>6. CarriesFor(cut, w, g, t, s)
    <2>1. s.tx.control # "idle"
      BY <1>2, <1>4
    <2> QED BY <1>2, <1>4, <1>5, <2>1, PassCarries
  <1> HIDE DEF w
  <1>7. Carries(cut, w, card, g, t) /\ w.tx.control = "send"
    BY <1>2, <1>4, <1>6 DEF CarriesFor
  <1>8. tx' = w.tx /\ Refill(w.tx, card, w.ring)
    BY <1>1 DEF Becomes
  <1>9. /\ g % Numbers = gone /\ t % Numbers = next' /\ (~cut => InPacket(t + Unwritten') = 0)
        /\ (LittleLeft' => t - g < Word + WordBytes)
    <2>1. Unwritten' = Unwritten /\ (LittleLeft' => LittleLeft)
      BY <1>1, <1>2, <1>7, <1>8 DEF Unwritten, LittleLeft
    <2> QED BY <1>1, <1>3, <2>1 DEF StreamAt
  <1>10. Stream' /\ card' \in Cards
    BY <1>1, <1>2, <1>7, <1>8, <1>9, StreamTaken
  <1>11. Types'
    BY <1>1, <1>10 DEF IInv, Types
  <1>12. Order'
    BY <1>1, <1>2, <1>7, <1>8 DEF IInv, Order, Detaches
  <1> QED BY <1>10, <1>11, <1>12 DEF IInv

\* What a write appends goes on in the stream, whatever is encoded at its end.
LEMMA AppendedKeeps ==
  ASSUME Liberties = {}, IInv, ~cut, ~Detaches, NEW x, NEW rg, x.control = tx.control,
         tx.control # "idle", NEW g \in Nat, NEW t \in Nat, g % Numbers = gone, t % Numbers = next,
         NEW n \in Nat, InPacket(t + n) = 0, NEW w, WritesOn(cut, w, x, rg, g, t, n),
         Appended(w, rg, n), converter' = converter, call' = call, cut' = cut
  PROVE  IInv'
  <1> DEFINE s == Side(w.tx, rg)
             v == IF w.left = 0 /\ w.tx.control = "hold" THEN EncodeFifo(s) ELSE s
             T == t + n - w.left
  <1>1. write' = w.left /\ next' = (next + n - w.left) % Numbers /\ Becomes(v)
    BY DEF Appended
  <1>2. w.left \in 0..n /\ w.tx.control = tx.control /\ Carries(cut, s, card, g, T) /\ s.tx = w.tx
    BY SideIs DEF WritesOn
  <1>3. card \in Cards /\ cut \in BOOLEAN
    BY DEF IInv, Types
  <1>4. T \in Nat /\ T + w.left = t + n /\ T = t + (n - w.left) /\ n - w.left \in Int /\ w.left \in Nat
    BY <1>2
  <1> HIDE DEF s, T
  <1>5. Carries(cut, v, card, g, T) /\ v.tx.control = tx.control
    <2>1. CASE w.left = 0 /\ w.tx.control = "hold"
      <3> DEFINE u == EncodeFifo(s)
      <3>1. CarriesFor(cut, u, g, T, s)
        <4>1. s.tx.control # "idle"
          BY <1>2
        <4> QED BY <1>2, <1>3, <1>4, <4>1, EncodeFifoCarries
      <3>2. v = u
        BY <2>1
      <3> HIDE DEF u
      <3> QED BY <1>2, <3>1, <3>2 DEF CarriesFor
    <2>2. CASE ~(w.left = 0 /\ w.tx.control = "hold")
      BY <1>2, <2>2
    <2> QED BY <2>1, <2>2
  <1> HIDE DEF v
  <1>6. tx' = v.tx /\ Refill(v.tx, card, v.ring)
    BY <1>1 DEF Becomes
  <1>7. T % Numbers = next'
    <2> DEFINE d == n - w.left
    <2>1. next' = ((t % Numbers) + d) % Numbers
      BY <1>1
    <2>2. Numbers \in Nat \ {0} /\ t \in Int /\ d \in Int /\ T = t + d
      BY <1>4, Sizes
    <2> HIDE DEF d
    <2>3. ((t % Numbers) + d) % Numbers = (t + d) % Numbers
      BY <2>2, ModMod
    <2> QED BY <2>1, <2>2, <2>3
  <1>8. InPacket(T + Unwritten') = 0
    <2>1. Unwritten' = w.left
      BY <1>1, <1>5, <1>6 DEF Unwritten
    <2> QED BY <1>4, <2>1
  <1>9. ~LittleLeft'
    <2>1. ~LittleLeft
      BY LittleLeftIs DEF Detaches
    <2> QED BY <2>1 DEF LittleLeft
  <1>10. Stream' /\ card' \in Cards
    BY <1>3, <1>4, <1>5, <1>6, <1>7, <1>8, <1>9, StreamTaken
  <1>11. Types'
    BY <1>1, <1>4, <1>10 DEF IInv, Types
  <1>12. Order'
    BY <1>5, <1>6 DEF IInv, Order, Detaches
  <1> QED BY <1>10, <1>11, <1>12 DEF IInv

LEMMA NumberIs ==
  ASSUME NEW t \in Nat, t % Numbers = next
  PROVE  next \in Nat /\ next % Numbers = t % Numbers
  <1>1. Numbers \in Nat \ {0}
    BY Sizes
  <1>2. t % Numbers \in 0..Numbers - 1
    BY <1>1, DivMod
  <1> DEFINE k == t % Numbers
  <1>3. k \in 0..Numbers - 1 /\ next = k
    BY <1>2
  <1> HIDE DEF k
  <1>4. k % Numbers = k /\ k \in Nat
    BY <1>1, <1>3, ModLess
  <1>5. next % Numbers = k /\ next \in Nat
    BY <1>3, <1>4
  <1> QED BY <1>5 DEF k

LEMMA WriteKeeps ==
  ASSUME Liberties = {}, IInv, NEW n \in Writes, Write(n)
  PROVE  IInv'
  <1> DEFINE y == AppendToFifo(tx, n, next)
             w == IF HasRoom(tx, n) THEN [tx |-> y, left |-> 0] ELSE WriteBlocks(tx, n, next)
  <1>1. /\ write = 0 /\ tx.control # "idle" /\ ~Detaches /\ Appended(w, ring, n)
        /\ converter' = converter /\ call' = call /\ cut' = cut
    BY DEF Write
  <1>2. ~cut /\ cut \in BOOLEAN /\ card \in Cards
    BY <1>1 DEF IInv, Types, Order
  <1>3. n \in Nat /\ n % Packet = 0
    <2>1. "parts" \notin Liberties
      OBVIOUS
    <2> QED BY <2>1, AsiTxAssumption
  <1>4. PICK g \in Nat, t \in Nat : StreamAt(g, t)
    BY DEF IInv, Stream
  <1>5. /\ g % Numbers = gone /\ t % Numbers = next /\ Carries(cut, Side(tx, ring), card, g, t)
        /\ InPacket(t) = 0
    <2>1. Unwritten = 0 /\ t + 0 = t
      BY <1>1 DEF Unwritten
    <2>2. InPacket(t + Unwritten) = 0
      BY <1>2, <1>4 DEF StreamAt
    <2> QED BY <1>4, <2>1, <2>2 DEF StreamAt
  <1>6. next \in Nat /\ next % Numbers = t % Numbers
    BY <1>5, NumberIs
  <1>7. InPacket(t + n) = 0
    <2>1. Packet \in Nat \ {0} /\ t \in Int /\ n \in Int
      BY <1>3, Sizes
    <2>2. ((t % Packet) + n) % Packet = (t + n) % Packet
      BY <2>1, ModMod
    <2>3. t % Packet = 0 /\ 0 + n = n
      BY <1>3, <1>5 DEF InPacket
    <2> QED BY <1>3, <2>2, <2>3 DEF InPacket
  <1> HIDE DEF y
  <1>8. WritesOn(cut, w, tx, ring, g, t, n)
    <2>1. CASE HasRoom(tx, n)
      <3>1. n <= FifoSize - Len(tx.fifo) /\ (tx.control = "hold" => n <= FifoSize - tx.held)
        <4>1. n <= FifoSize - Len(tx.fifo) /\ n <= FifoSize - ReportedFifoLoad(tx, card)
          BY <2>1 DEF HasRoom
        <4>2. tx.control = "hold" => ReportedFifoLoad(tx, card) = tx.held
          BY DEF ReportedFifoLoad
        <4> QED BY <4>1, <4>2
      <3>2. CarriesMore(cut, y, tx, ring, card, g, t, n)
        <4>1. y = AppendToFifo(tx, n, next) /\ next \in Int
          BY <1>6 DEF y
        <4> QED BY <1>2, <1>3, <1>5, <1>6, <3>1, <4>1, AppendCarries
      <3>3. w.tx = y /\ w.left = 0
        BY <2>1
      <3> HIDE DEF w
      <3>4. t + n - w.left = t + n /\ w.left \in 0..n
        BY <1>3, <3>3
      <3> QED BY <3>2, <3>3, <3>4 DEF WritesOn, CarriesMore
    <2>2. CASE ~HasRoom(tx, n)
      <3>1. w = WriteBlocks(tx, n, next)
        BY <2>2
      <3> HIDE DEF w
      <3> QED BY <1>1, <1>2, <1>3, <1>5, <1>6, <3>1, WriteBlocksCarry
    <2> QED BY <2>1, <2>2
  <1> HIDE DEF w
  <1> DEFINE x == tx
  <1>9. x.control = tx.control /\ WritesOn(cut, w, x, ring, g, t, n)
    BY <1>8
  <1> HIDE DEF x
  <1> QED BY <1>1, <1>2, <1>3, <1>5, <1>7, <1>9, AppendedKeeps

LEMMA WriteLooksKeeps ==
  ASSUME Liberties = {}, IInv, WriteLooks
  PROVE  IInv'
  <1> DEFINE s0 == Side(tx, ring)
             s == IF tx.control = "hold" THEN EncodeFifo(s0) ELSE s0
             x == s.tx
             w == WriteBlocks(x, write, next)
  <1>1. /\ write > 0 /\ tx.control # "idle" /\ ~Detaches /\ Appended(w, s.ring, write)
        /\ converter' = converter /\ call' = call /\ cut' = cut
    BY DEF WriteLooks
  <1>2. ~cut /\ cut \in BOOLEAN /\ card \in Cards /\ write \in Nat
    BY <1>1 DEF IInv, Types, Order
  <1>3. PICK g \in Nat, t \in Nat : StreamAt(g, t)
    BY DEF IInv, Stream
  <1>4. /\ g % Numbers = gone /\ t % Numbers = next /\ Carries(cut, s0, card, g, t)
        /\ InPacket(t + write) = 0 /\ s0.tx = tx
    <2>1. Unwritten = write
      BY <1>1 DEF Unwritten
    <2> QED BY <1>2, <1>3, <2>1, SideIs DEF StreamAt
  <1>5. next \in Nat /\ next % Numbers = t % Numbers
    BY <1>4, NumberIs
  <1> HIDE DEF s0
  <1>6. Carries(cut, s, card, g, t) /\ x.control = tx.control
    <2>1. CASE tx.control = "hold"
      <3> DEFINE u == EncodeFifo(s0)
      <3>1. CarriesFor(cut, u, g, t, s0)
        <4>1. s0.tx.control # "idle"
          BY <1>1, <1>4
        <4> QED BY <1>2, <1>4, <4>1, EncodeFifoCarries
      <3>2. s = u
        BY <2>1
      <3> HIDE DEF u
      <3> QED BY <1>4, <3>1, <3>2 DEF CarriesFor
    <2>2. CASE tx.control # "hold"
      BY <1>4, <2>2
    <2> QED BY <2>1, <2>2
  <1> DEFINE rg == s.ring
  <1>7. Carries(cut, Side(x, rg), card, g, t)
    <2>1. s \in Sides
      BY <1>6 DEF Carries
    <2>2. s = Side(x, rg)
      <3> HIDE DEF s
      <3> QED BY <2>1, SideTypes
    <2> QED BY <1>6, <2>2
  <1>8. w = WriteBlocks(x, write, next) /\ Appended(w, rg, write) /\ x.control # "idle"
    BY <1>1, <1>6
  <1> HIDE DEF w, x, rg, s
  <1> DEFINE n == write
  <1>9. n \in Nat /\ w = WriteBlocks(x, n, next) /\ Appended(w, rg, n) /\ InPacket(t + n) = 0
    BY <1>2, <1>4, <1>8
  <1> HIDE DEF n
  <1>10. WritesOn(cut, w, x, rg, g, t, n)
    BY <1>2, <1>4, <1>5, <1>7, <1>8, <1>9, WriteBlocksCarry
  <1> QED BY <1>1, <1>2, <1>4, <1>6, <1>9, <1>10, AppendedKeeps

LEMMA NextKeeps == Liberties = {} /\ IInv /\ [Next]_vars => IInv'
  <1> SUFFICES ASSUME Liberties = {}, IInv, [Next]_vars PROVE IInv'
    OBVIOUS
  <1>1. CASE CardSends \/ CardSettles \/ Convert \/ Exit
    BY <1>1, CardSendsKeeps, CardSettlesKeeps, ConvertKeeps, ExitKeeps
  <1>2. CASE (\E n \in Writes : Write(n)) \/ WriteEnds \/ WriteLooks
    BY <1>2, WriteKeeps, WriteEndsKeeps, WriteLooksKeeps
  <1>3. CASE IdleToHold \/ HoldToSend \/ (\E to \in {"hold", "idle"} : SetTxControl(to)) \/ SetTxMode
    BY <1>3, IdleToHoldKeeps, HoldToSendKeeps, SetTxControlKeeps, SetTxModeKeeps
  <1>4. CASE JoinEnds
    BY <1>4, JoinEndsKeeps
  <1>5. CASE (\E wait \in BOOLEAN : Detach(wait)) \/ DetachGoesOn \/ DetachGivesUp
    BY <1>5, DetachKeeps, DetachGoesOnKeeps, DetachGivesUpKeeps
  <1>6. CASE Drain \/ DrainGivesUp \/ DetachStops
    BY <1>6, DrainKeeps, DrainGivesUpKeeps, DetachStopsKeeps
  <1>7. CASE UNCHANGED vars
    <2>1. /\ UNCHANGED <<tx, ring, card, write, next, gone, cut>> /\ tx' = tx /\ write' = write
          /\ converter' = converter /\ call' = call /\ cut' = cut
      BY <1>7 DEF vars
    <2>2. call' \in Calls /\ converter' \in {"none", "runs", "stopping"} /\ (LittleLeft' => LittleLeft)
      BY <2>1 DEF IInv, Types, LittleLeft
    <2>3. Order'
      BY <2>1 DEF IInv, Order, Detaches
    <2> QED BY <2>1, <2>2, <2>3, ThenKeeps
  <1> QED BY <1>1, <1>2, <1>3, <1>4, <1>5, <1>6, <1>7 DEF Next

\* With the card and the program in time, IInv holds in every state.
THEOREM Invariance == Liberties = {} => (Spec => []IInv)
  <1> SUFFICES ASSUME Liberties = {} PROVE Spec => []IInv
    OBVIOUS
  <1>1. IInv /\ [Next]_vars => IInv'
    BY NextKeeps
  <1> QED BY <1>1, InvariantAtFirst, PTL DEF Spec

--------------------------------------------------------------------------------
(* What follows.                                                           *)

\* The side, its buffer and the card are what the code's types hold: offsets lie in the buffer, the
\* FIFOs within their sizes, and the burst FIFO has whole words.
THEOREM TypeCorrect ==
  Liberties = {} => (Spec => [](Types /\ tx \in TxSides /\ ring \in [Slots -> Codes]))
  <1> SUFFICES ASSUME Liberties = {}
               PROVE Spec => [](Types /\ tx \in TxSides /\ ring \in [Slots -> Codes])
    OBVIOUS
  <1>1. IInv => Types /\ tx \in TxSides /\ ring \in [Slots -> Codes]
    BY StateTypes DEF IInv
  <1> QED BY <1>1, Invariance, PTL

\* What the buffer and the FIFO hold, told from where the card and the program are in the stream.
LEMMA OnTheirWayIs ==
  ASSUME NEW g \in Nat, NEW t \in Nat, StreamAt(g, t), card \in Cards
  PROVE  /\ Numbered(OnTheirWay, g) /\ Len(OnTheirWay) \in Nat /\ t = g + Len(OnTheirWay)
         /\ OnTheirWay \in Seq(Codes)
  <1> DEFINE z == InBuffer(tx, card, ring)
             d == Data(z)
             f == tx.fifo
             D == Len(d)
             F == Len(f)
  <1>1. Side(tx, ring) \in Sides /\ Side(tx, ring).tx = tx /\ Side(tx, ring).ring = ring
        /\ Carries(cut, Side(tx, ring), card, g, t)
    BY SideIs DEF StreamAt, Carries
  <1>2. PICK m \in Nat, p \in 0..Packet - 1 :
          /\ Runs(cut, z, Point(g, p), Point(m, tx.index)) /\ Numbered(f, m) /\ t = m + F
    BY <1>1 DEF Carries
  <1>3. f \in Seq(Codes) /\ F \in Nat
    BY <1>1, SideTypes
  <1>4. z \in Seq(Codes)
    <2>1. tx.at \in Slots /\ ring \in [Slots -> Codes] /\ card.r \in Slots
      BY <1>1, SideTypes DEF Cards
    <2> QED BY <2>1, InBufferIs
  <1> HIDE DEF z
  <1>5. m = g + D /\ d \in Seq(Codes) /\ Numbered(d, g) /\ D \in Nat
    <2>1. /\ Point(m, tx.index).pos = Point(g, p).pos + Len(Data(z)) /\ Data(z) \in Seq(Codes)
          /\ Numbered(Data(z), Point(g, p).pos)
      BY <1>2, <1>4, RunsData
    <2> QED BY <2>1, PointParts
  <1>6. OnTheirWay = d \o f
    BY <1>4, DataOfSymbols DEF OnTheirWay, Symbols, z
  <1> HIDE DEF d, f
  <1>7. d \o f \in Seq(Codes) /\ Len(d \o f) = D + F
    BY <1>3, <1>5
  <1>8. ASSUME NEW i \in 1..D + F PROVE (d \o f)[i] = (g + i - 1) % Numbers
    <2>1. CASE i \in 1..D
      <3>1. (d \o f)[i] = d[i]
        BY <1>3, <1>5, <2>1
      <3> QED BY <1>5, <2>1, <3>1 DEF Numbered
    <2>2. CASE i \in D + 1..D + F
      <3> DEFINE k == i - D
      <3>1. (d \o f)[i] = f[i - D]
        BY <1>3, <1>5, <2>2
      <3>2. k \in 1..F /\ m + (k - 1) = g + (i - 1)
        <4> HIDE DEF D, F
        <4> QED BY <1>3, <1>5, <2>2
      <3>3. (d \o f)[i] = f[k]
        BY <3>1
      <3> HIDE DEF k
      <3>4. f[k] = (m + k - 1) % Numbers
        BY <1>2, <3>2 DEF Numbered
      <3> QED BY <3>2, <3>3, <3>4, Zenon
    <2>3. i \in 1..D \/ i \in D + 1..D + F
      <3> HIDE DEF D, F
      <3> QED BY <1>3, <1>5
    <2> QED BY <2>1, <2>2, <2>3
  <1>9. Numbered(OnTheirWay, g)
    BY <1>6, <1>7, <1>8 DEF Numbered
  <1>10. t = g + (D + F) /\ D + F \in Nat
    <2> HIDE DEF D, F
    <2> QED BY <1>2, <1>3, <1>5
  <1> QED BY <1>6, <1>7, <1>9, <1>10

\* The bytes written reach the card each once and in order, and the FIFO keeps to its size, whatever
\* the writes, the stops and the detaches do beside the converter (DtAsiTx.c:123-163, 953-968).
THEOREM BytesOnTheirWayHolds == Liberties = {} => (Spec => []BytesOnTheirWay)
  <1> SUFFICES ASSUME Liberties = {} PROVE Spec => []BytesOnTheirWay
    OBVIOUS
  <1>1. IInv => BytesOnTheirWay
    <2> SUFFICES ASSUME IInv PROVE BytesOnTheirWay
      OBVIOUS
    <2>1. PICK g \in Nat, t \in Nat : StreamAt(g, t)
      BY DEF IInv, Stream
    <2> DEFINE s == OnTheirWay
               L == Len(s)
    <2>2. /\ Numbered(s, g) /\ L \in Nat /\ t = g + L /\ s \in Seq(Codes)
      BY <2>1, OnTheirWayIs DEF IInv, Types
    <2>3. g % Numbers = gone /\ t % Numbers = next
      BY <2>1 DEF StreamAt
    <2>4. Numbers \in Nat \ {0} /\ g \in Int
      BY Sizes
    <2> HIDE DEF s
    <2>5. ASSUME NEW i \in DOMAIN s PROVE s[i] = (gone + i - 1) % Numbers
      <3>1. i \in 1..L
        BY <2>2
      <3>2. s[i] = (g + i - 1) % Numbers
        BY <2>2, <3>1 DEF Numbered
      <3> DEFINE d == i - 1
      <3>3. d \in Int
        BY <2>2, <3>1
      <3> HIDE DEF d
      <3>4. ((g % Numbers) + d) % Numbers = (g + d) % Numbers
        BY <2>4, <3>3, ModMod
      <3>5. (gone + d) % Numbers = (g + d) % Numbers
        BY <2>3, <3>4
      <3> QED BY <3>2, <3>5 DEF d
    <2>6. (gone + L) % Numbers = next
      <3> HIDE DEF L
      <3>1. L \in Int
        BY <2>2
      <3>2. ((g % Numbers) + L) % Numbers = (g + L) % Numbers
        BY <2>4, <3>1, ModMod
      <3> QED BY <2>2, <2>3, <3>2
    <2>7. Len(tx.fifo) <= FifoSize /\ tx.held <= FifoSize
      BY StateTypes
    <2> QED BY <2>5, <2>6, <2>7 DEF BytesOnTheirWay, s
  <1> QED BY <1>1, Invariance, PTL

\* The null packets of stuffing are whole and lie between packets of the program, though the
\* converter stuffs while a write waits with a packet half written (DtAsiTx.c:263-307).
THEOREM NullsBetweenPacketsHolds == Liberties = {} => (Spec => []NullsBetweenPackets)
  <1> SUFFICES ASSUME Liberties = {} PROVE Spec => []NullsBetweenPackets
    OBVIOUS
  <1>1. IInv => NullsBetweenPackets
    <2> SUFFICES ASSUME IInv, ~cut PROVE NullsBetweenPackets
      BY DEF NullsBetweenPackets
    <2>1. PICK g \in Nat, t \in Nat : StreamAt(g, t)
      BY DEF IInv, Stream
    <2> DEFINE b == InBuffer(tx, card, ring)
               z == Symbols
    <2>2. PICK m \in Nat, p \in 0..Packet - 1 : Runs(cut, b, Point(g, p), Point(m, tx.index))
      BY <2>1, SideIs DEF StreamAt, Carries
    <2>3. b \in Seq(Codes) /\ cut \in BOOLEAN /\ g % Numbers = gone
      <3>1. tx.at \in Slots /\ ring \in [Slots -> Codes] /\ card.r \in Slots
        BY StateTypes DEF TxSides, IInv, Types, Cards
      <3>2. b \in Seq(Codes)
        BY <3>1, InBufferIs
      <3> QED BY <2>1, <3>2 DEF IInv, Types, StreamAt
    <2> HIDE DEF b
    <2>4. z \in Seq(Codes) /\ Between(z, g)
      <3>1. Only(b, Int \ {K28}) \in Seq(Codes) /\ Between(Only(b, Int \ {K28}), Point(g, p).pos)
        BY <2>2, <2>3, OnlyType, RunsBetween
      <3> QED BY <3>1, PointParts DEF Symbols, b
    <2> HIDE DEF z
    <2>5. ASSUME NEW i \in DOMAIN z, z[i] < 0
          PROVE  /\ (gone + Len(Data(First(z, i - 1)))) % Packet = 0
                 /\ (i < Len(z) /\ z[i + 1] >= 0 => z[i] = Null(Packet - 1))
      <3> DEFINE D == Len(Data(First(z, i - 1)))
      <3>1. i \in 1..Len(z) /\ i - 1 \in 0..Len(z)
        BY <2>4
      <3>2. (g + D) % Packet = 0 /\ (i < Len(z) /\ z[i + 1] >= 0 => z[i] = Null(Packet - 1))
        BY <2>4, <2>5, <3>1 DEF Between
      <3>3. D \in Nat
        <4> DEFINE y == First(z, i - 1)
        <4>1. y \in Seq(Codes)
          BY <2>4, <3>1, SplitAt
        <4> HIDE DEF y
        <4>2. Data(y) \in Seq(Codes)
          BY <4>1, OnlyType DEF Data
        <4>3. Len(Data(y)) \in Nat
          BY <4>2
        <4> QED BY <4>3 DEF y
      <3> HIDE DEF D
      <3>4. (gone + D) % Packet = (g + D) % Packet
        <4>1. Numbers \in Nat \ {0} /\ Packet \in Nat \ {0} /\ Numbers % Packet = 0
          BY Sizes
        <4>2. (g % Numbers) % Packet = g % Packet
          <5>1. g \in Int
            OBVIOUS
          <5> QED BY <4>1, <5>1, ModOfMod
        <4> DEFINE k == g % Numbers
        <4>3. k \in Int /\ g \in Int /\ D \in Int
          BY <3>3, <4>1, DivMod
        <4>4. gone = k /\ k % Packet = g % Packet
          BY <2>3, <4>2
        <4> HIDE DEF k
        <4>5. (k + D) % Packet = (g + D) % Packet
          <5>1. Packet \in Nat \ {0} /\ k % Packet = g % Packet
            BY <4>1, <4>4
          <5> QED BY <4>3, <5>1, ModSame
        <4> QED BY <4>4, <4>5
      <3> QED BY <3>2, <3>4 DEF D
    <2> QED BY <2>5 DEF NullsBetweenPackets, z
  <1> QED BY <1>1, Invariance, PTL

\* A detach whose wait ended by itself leaves of the program's bytes less than two data words
\* (DtAsiTx.c:1004-1026).
THEOREM DrainLeavesAWordHolds == Liberties = {} => (Spec => []DrainLeavesAWord)
  <1> SUFFICES ASSUME Liberties = {} PROVE Spec => []DrainLeavesAWord
    OBVIOUS
  <1>1. IInv => DrainLeavesAWord
    <2> SUFFICES ASSUME IInv, call.at = "drained" PROVE Len(OnTheirWay) < Word + WordBytes
      BY DEF DrainLeavesAWord
    <2>1. PICK g \in Nat, t \in Nat : StreamAt(g, t)
      BY DEF IInv, Stream
    <2> DEFINE L == Len(OnTheirWay)
    <2>2. L \in Nat /\ t = g + L
      BY <2>1, OnTheirWayIs DEF IInv, Types
    <2>3. t - g < Word + WordBytes
      <3>1. LittleLeft
        BY LittleLeftOf DEF IInv, Types
      <3> QED BY <2>1, <3>1 DEF StreamAt
    <2> HIDE DEF L
    <2>4. t - g = L
      BY <2>2
    <2> QED BY <2>3, <2>4 DEF L
  <1> QED BY <1>1, Invariance, PTL
===============================================================================
