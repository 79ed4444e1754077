------------------------------ MODULE AvTx_proofs ------------------------------
(***************************************************************************)
(* The FIFO of AvTx keeps its invariants for any pool, queue, buffer and   *)
(* packets, and however often the driver refuses a write offset.           *)
(***************************************************************************)
EXTENDS AvTx, TLAPS

-------------------------------------------------------------------------------
(* Offsets.                                                                *)

LEMMA ModLess ==
  ASSUME NEW n \in Nat \ {0}, NEW a \in 0..n - 1
  PROVE  a % n = a
  OBVIOUS

LEMMA ModOver ==
  ASSUME NEW n \in Nat \ {0}, NEW a \in n..2 * n - 1
  PROVE  a % n = a - n
  OBVIOUS

\* The offset a distance further on, round the end of the buffer.
LEMMA Onward ==
  ASSUME NEW n \in Nat \ {0}, NEW a \in 0..n - 1, NEW d \in 0..n
  PROVE  (a + d) % n = IF a + d < n THEN a + d ELSE a + d - n
  <1>1. CASE a + d < n
    BY <1>1, ModLess
  <1>2. CASE a + d >= n
    <2>1. a + d \in n..2 * n - 1
      BY <1>2
    <2>2. (a + d) % n = a + d - n
      BY <2>1, ModOver
    <2> QED BY <1>2, <2>2
  <1> QED BY <1>1, <1>2

\* The distance from one offset on to another, as the code computes it.
LEMMA Distance ==
  ASSUME NEW n \in Nat \ {0}, NEW a \in 0..n - 1, NEW b \in 0..n - 1
  PROVE  (b + n - a) % n = IF a <= b THEN b - a ELSE b + n - a
  <1>1. CASE a <= b
    <2>1. b + n - a \in n..2 * n - 1
      BY <1>1
    <2>2. (b + n - a) % n = b + n - a - n
      BY <2>1, ModOver
    <2> QED BY <1>1, <2>2
  <1>2. CASE ~(a <= b)
    BY <1>2, ModLess
  <1> QED BY <1>1, <1>2

\* The words free when l of n lie from r on, up to o, and one is kept free.
LEMMA WordsFree ==
  ASSUME NEW n \in Nat \ {0}, NEW r \in 0..n - 1, NEW l \in 0..n - 1, NEW o \in 0..n - 1,
         o = IF r + l < n THEN r + l ELSE r + l - n
  PROVE  (r + n - 1 - o) % n = n - 1 - l
  <1>1. CASE r + l < n
    <2>1. r + n - 1 - o = n - 1 - l /\ n - 1 - l \in 0..n - 1
      BY <1>1
    <2> QED BY <2>1, ModLess
  <1>2. CASE ~(r + l < n)
    <2>1. o = r + l - n
      BY <1>2
    <2>2. r + n - 1 - o = n + n - 1 - l
      BY <2>1
    <2>3. n + n - 1 - l \in n..2 * n - 1
      OBVIOUS
    <2>4. (n + n - 1 - l) % n = n + n - 1 - l - n
      BY <2>3, ModOver
    <2> QED BY <2>2, <2>4
  <1> QED BY <1>1, <1>2

\* The i-th place from r on, seen from o, which is l further than r.
LEMMA PlaceFrom ==
  ASSUME NEW n \in Nat \ {0}, NEW r \in 0..n - 1, NEW l \in 0..n - 1, NEW o \in 0..n - 1,
         o = IF r + l < n THEN r + l ELSE r + l - n,
         NEW i \in 1..n - 1
  PROVE  /\ i <= l => (r + i - 1) % n = (o + (n - 1 - l + i)) % n
         /\ i > l => (r + i - 1) % n = (o + (i - l - 1)) % n
  <1>1. (r + (i - 1)) % n = IF r + (i - 1) < n THEN r + (i - 1) ELSE r + (i - 1) - n
    <2>1. i - 1 \in 0..n
      OBVIOUS
    <2> QED BY <2>1, Onward
  <1>2. r + i - 1 = r + (i - 1)
    OBVIOUS
  <1>3. ASSUME i <= l
        PROVE  (r + i - 1) % n = (o + (n - 1 - l + i)) % n
    <2>1. n - 1 - l + i \in 0..n
      BY <1>3
    <2>2. (o + (n - 1 - l + i)) % n = IF o + (n - 1 - l + i) < n THEN o + (n - 1 - l + i)
                                      ELSE o + (n - 1 - l + i) - n
      BY <2>1, Onward
    <2>3. (IF o + (n - 1 - l + i) < n THEN o + (n - 1 - l + i) ELSE o + (n - 1 - l + i) - n)
            = IF r + (i - 1) < n THEN r + (i - 1) ELSE r + (i - 1) - n
      <3>1. CASE r + l < n
        BY <1>3, <3>1
      <3>2. CASE ~(r + l < n)
        BY <1>3, <3>2
      <3> QED BY <3>1, <3>2
    <2> QED BY <1>1, <1>2, <2>2, <2>3
  <1>4. ASSUME i > l
        PROVE  (r + i - 1) % n = (o + (i - l - 1)) % n
    <2>1. i - l - 1 \in 0..n
      BY <1>4
    <2>2. (o + (i - l - 1)) % n = IF o + (i - l - 1) < n THEN o + (i - l - 1)
                                  ELSE o + (i - l - 1) - n
      BY <2>1, Onward
    <2>3. (IF o + (i - l - 1) < n THEN o + (i - l - 1) ELSE o + (i - l - 1) - n)
            = IF r + (i - 1) < n THEN r + (i - 1) ELSE r + (i - 1) - n
      <3>1. CASE r + l < n
        BY <1>4, <3>1
      <3>2. CASE ~(r + l < n)
        BY <1>4, <3>2
      <3> QED BY <3>1, <3>2
    <2> QED BY <1>1, <1>2, <2>2, <2>3
  <1> QED BY <1>3, <1>4

\* The distance after s more.
LEMMA Further ==
  ASSUME NEW n \in Nat \ {0}, NEW r \in 0..n - 1, NEW l \in 0..n - 1, NEW o \in 0..n - 1,
         o = IF r + l < n THEN r + l ELSE r + l - n,
         NEW s \in 1..n - 1, l + s <= n - 1
  PROVE  (o + s) % n \in 0..n - 1 /\ (((o + s) % n) + n - r) % n = l + s
  <1> DEFINE p == (o + s) % n
  <1>1. p = IF o + s < n THEN o + s ELSE o + s - n
    <2>1. s \in 0..n
      OBVIOUS
    <2> QED BY <2>1, Onward
  <1> HIDE DEF p
  <1>2. p \in 0..n - 1
    BY <1>1
  <1>3. (p + n - r) % n = IF r <= p THEN p - r ELSE p + n - r
    BY <1>2, Distance
  <1>4. (IF r <= p THEN p - r ELSE p + n - r) = l + s
    <2>1. CASE r + l < n
      BY <1>1, <2>1
    <2>2. CASE ~(r + l < n)
      BY <1>1, <2>2
    <2> QED BY <2>1, <2>2
  <1> QED BY <1>2, <1>3, <1>4 DEF p

\* The distance once the first place is left.
LEMMA Nearer ==
  ASSUME NEW n \in Nat \ {0}, NEW r \in 0..n - 1, NEW o \in 0..n - 1, r # o,
         NEW q, q = (r + 1) % n
  PROVE  q \in 0..n - 1 /\ (o + n - q) % n = ((o + n - r) % n) - 1
  <1>1. q = IF r + 1 < n THEN r + 1 ELSE r + 1 - n
    <2>1. 1 \in 0..n
      OBVIOUS
    <2> QED BY <2>1, Onward
  <1>2. q \in 0..n - 1
    BY <1>1
  <1>3. (o + n - q) % n = IF q <= o THEN o - q ELSE o + n - q
    BY <1>2, Distance
  <1>4. (o + n - r) % n = IF r <= o THEN o - r ELSE o + n - r
    BY Distance
  <1>5. (IF q <= o THEN o - q ELSE o + n - q) = (IF r <= o THEN o - r ELSE o + n - r) - 1
    BY <1>1, <1>2
  <1> QED BY <1>2, <1>3, <1>4, <1>5

\* The places after the first are those from the next on, and none is the first.
LEMMA PlacesAfter ==
  ASSUME NEW n \in Nat \ {0}, NEW r \in 0..n - 1, NEW i \in 1..n - 1
  PROVE  /\ (((r + 1) % n) + i - 1) % n = (r + (i + 1) - 1) % n
         /\ (r + (i + 1) - 1) % n # r /\ (r + (i + 1) - 1) % n \in 0..n - 1
  <1> DEFINE q == (r + 1) % n
  <1>1. q = IF r + 1 < n THEN r + 1 ELSE r + 1 - n
    <2>1. 1 \in 0..n
      OBVIOUS
    <2> QED BY <2>1, Onward
  <1> HIDE DEF q
  <1>2. (r + i) % n = IF r + i < n THEN r + i ELSE r + i - n
    <2>1. i \in 0..n
      OBVIOUS
    <2> QED BY <2>1, Onward
  <1>3. (q + (i - 1)) % n = IF q + (i - 1) < n THEN q + (i - 1) ELSE q + (i - 1) - n
    <2>1. q \in 0..n - 1 /\ i - 1 \in 0..n
      BY <1>1
    <2> QED BY <2>1, Onward
  <1>4. (IF q + (i - 1) < n THEN q + (i - 1) ELSE q + (i - 1) - n)
          = IF r + i < n THEN r + i ELSE r + i - n
    BY <1>1
  <1>5. q + i - 1 = q + (i - 1) /\ r + (i + 1) - 1 = r + i
    BY <1>1
  <1>6. (IF r + i < n THEN r + i ELSE r + i - n) \in 0..n - 1
        /\ (IF r + i < n THEN r + i ELSE r + i - n) # r
    OBVIOUS
  <1> QED BY <1>2, <1>3, <1>4, <1>5, <1>6 DEF q

-------------------------------------------------------------------------------
(* The invariant.                                                          *)

\* The thread has a frame while it waits or sends, and there is none before a start.
HandInv ==
  /\ (hand # None) <=> thread \in {"waiting", "sending"}
  /\ ~started => thread = "none"

\* The words there is room for: those the card has not taken, and those of the frame that
\* are to come, leave one word free, and the card was told of no more than was written.
RoomInv ==
  /\ way \in Seq([frame : Frames, n : Int])
  /\ DOMAIN ring = 0..Size - 1
  /\ Len(way) + (IF thread = "sending" THEN left ELSE 0) <= Size - 1
  /\ (known + Size - read) % Size <= Len(way)

Inv == TypeOK /\ FramesHaveOnePlace /\ WordsAreKept /\ HandInv /\ RoomInv

PoolInv == TypeOK /\ FramesHaveOnePlace /\ HandInv
PipeInv == TypeOK /\ WordsAreKept /\ RoomInv /\ HandInv

LEMMA InitInv == Init => Inv
  <1> SUFFICES ASSUME Init PROVE Inv
    OBVIOUS
  <1> USE AvTxAssumption DEF Init
  <1>1. TypeOK
    <2>1. CallTypes /\ ThreadTypes
      BY DEF CallTypes, ThreadTypes
    <2>2. PoolTypes
      BY DEF PoolTypes
    <2>3. PipeTypes
      BY DEF PipeTypes
    <2> QED BY <2>1, <2>2, <2>3 DEF TypeOK
  <1>2. FramesHaveOnePlace
    BY DEF FramesHaveOnePlace, Queued, Held
  <1>3. WordsAreKept
    <2>1. (0 + Size - 0) % Size = 0
      BY Distance
    <2> QED BY <2>1 DEF WordsAreKept
  <1>4. HandInv
    BY DEF HandInv
  <1>5. RoomInv
    <2>1. (0 + Size - 0) % Size = 0
      BY Distance
    <2> QED BY <2>1 DEF RoomInv
  <1> QED BY <1>1, <1>2, <1>3, <1>4, <1>5 DEF Inv

-------------------------------------------------------------------------------
(* The pool and the queue.                                                 *)

\* The queue without its first frame.
LEMMA TailOfQueue ==
  ASSUME NEW q \in Seq(Frames), q # <<>>,
         \A i, j \in DOMAIN q : q[i] = q[j] => i = j
  PROVE  /\ Head(q) \in Frames /\ Tail(q) \in Seq(Frames) /\ Len(Tail(q)) <= Len(q)
         /\ {q[i] : i \in DOMAIN q} = {Head(q)} \union {Tail(q)[i] : i \in DOMAIN Tail(q)}
         /\ Head(q) \notin {Tail(q)[i] : i \in DOMAIN Tail(q)}
         /\ \A i, j \in DOMAIN Tail(q) : Tail(q)[i] = Tail(q)[j] => i = j
  <1> DEFINE t == Tail(q)
  <1>1. Len(q) \in Nat \ {0} /\ DOMAIN q = 1..Len(q) /\ Head(q) = q[1] /\ q[1] \in Frames
    OBVIOUS
  <1>2. t \in Seq(Frames) /\ Len(t) = Len(q) - 1 /\ DOMAIN t = 1..Len(q) - 1
    OBVIOUS
  <1>3. \A i \in DOMAIN t : i + 1 \in DOMAIN q /\ t[i] = q[i + 1]
    BY <1>1, <1>2
  <1>4. \A i \in DOMAIN q : i = 1 \/ (i - 1 \in DOMAIN t /\ q[i] = t[i - 1])
    BY <1>1, <1>2, <1>3
  <1>5. Head(q) \notin {t[i] : i \in DOMAIN t}
    <2> SUFFICES ASSUME NEW i \in DOMAIN t, t[i] = Head(q) PROVE FALSE
      OBVIOUS
    <2>1. q[i + 1] = q[1] /\ i + 1 \in DOMAIN q /\ 1 \in DOMAIN q
      BY <1>1, <1>3
    <2>2. i + 1 = 1
      BY <2>1
    <2> QED BY <1>2, <2>2
  <1>6. \A i, j \in DOMAIN t : t[i] = t[j] => i = j
    <2> SUFFICES ASSUME NEW i \in DOMAIN t, NEW j \in DOMAIN t, t[i] = t[j] PROVE i = j
      OBVIOUS
    <2>1. i + 1 = j + 1
      BY <1>3
    <2> QED BY <1>2, <2>1
  <1>7. {q[i] : i \in DOMAIN q} \subseteq {Head(q)} \union {t[i] : i \in DOMAIN t}
    <2> SUFFICES ASSUME NEW i \in DOMAIN q PROVE q[i] \in {Head(q)} \union {t[j] : j \in DOMAIN t}
      OBVIOUS
    <2>1. CASE i = 1
      BY <1>1, <2>1
    <2>2. CASE i - 1 \in DOMAIN t /\ q[i] = t[i - 1]
      BY <2>2
    <2> QED BY <1>4, <2>1, <2>2
  <1>8. {Head(q)} \union {t[i] : i \in DOMAIN t} \subseteq {q[i] : i \in DOMAIN q}
    BY <1>1, <1>3
  <1> QED BY <1>1, <1>2, <1>5, <1>6, <1>7, <1>8

\* The queue with a frame more.
LEMMA AppendToQueue ==
  ASSUME NEW q \in Seq(Frames), NEW frame \in Frames, frame \notin {q[i] : i \in DOMAIN q},
         \A i, j \in DOMAIN q : q[i] = q[j] => i = j
  PROVE  LET a == Append(q, frame)
         IN /\ a \in Seq(Frames) /\ Len(a) = Len(q) + 1
            /\ {a[i] : i \in DOMAIN a} = {q[i] : i \in DOMAIN q} \union {frame}
            /\ \A i, j \in DOMAIN a : a[i] = a[j] => i = j
  <1> DEFINE a == Append(q, frame)
  <1>1. Len(q) \in Nat /\ DOMAIN q = 1..Len(q)
    OBVIOUS
  <1>2. a \in Seq(Frames) /\ Len(a) = Len(q) + 1 /\ DOMAIN a = 1..Len(q) + 1
    OBVIOUS
  <1>3. a[Len(q) + 1] = frame /\ \A i \in DOMAIN q : i \in DOMAIN a /\ a[i] = q[i]
    BY <1>1, <1>2
  <1>4. \A i \in DOMAIN a : i = Len(q) + 1 \/ i \in DOMAIN q
    BY <1>1, <1>2
  <1>5. {a[i] : i \in DOMAIN a} \subseteq {q[i] : i \in DOMAIN q} \union {frame}
    BY <1>3, <1>4
  <1>6. {q[i] : i \in DOMAIN q} \union {frame} \subseteq {a[i] : i \in DOMAIN a}
    BY <1>1, <1>2, <1>3
  <1>7. \A i, j \in DOMAIN a : a[i] = a[j] => i = j
    BY <1>1, <1>3, <1>4
  <1> QED BY <1>2, <1>5, <1>6, <1>7

\* Emptying the queue into the pool.
LEMMA QueueCleared ==
  ASSUME TypeOK, FramesHaveOnePlace, ClearQueue, UNCHANGED <<hand, lent, all>>
  PROVE  PoolTypes' /\ FramesHaveOnePlace'
  <1>1. Queued' = {} /\ Held' = Held
    BY DEF ClearQueue, Queued, Held
  <1>2. Queued \subseteq Frames
    BY DEF TypeOK, PoolTypes, Queued
  <1>3. PoolTypes'
    BY <1>2, AvTxAssumption DEF TypeOK, PoolTypes, ClearQueue
  <1>4. all' = free' \union lent' \union Queued' \union Held'
    BY <1>1 DEF ClearQueue, FramesHaveOnePlace
  <1>5. /\ free' \intersect (lent' \union Queued' \union Held') = {}
        /\ lent' \intersect (Queued' \union Held') = {}
    BY <1>1 DEF ClearQueue, FramesHaveOnePlace
  <1>6. \A i, j \in DOMAIN queue' : queue'[i] = queue'[j] => i = j
    BY DEF ClearQueue
  <1> QED BY <1>1, <1>3, <1>4, <1>5, <1>6 DEF FramesHaveOnePlace

\* The thread's frame goes back to the pool.
LEMMA FrameReturned ==
  ASSUME TypeOK, FramesHaveOnePlace, hand # None, Return(hand), hand' = None,
         UNCHANGED <<all, lent, queue>>
  PROVE  PoolTypes' /\ FramesHaveOnePlace'
  <1>1. Held = {hand} /\ Held' = {} /\ Queued' = Queued /\ hand \in Frames
    BY DEF Held, Queued, TypeOK, ThreadTypes
  <1>2. hand \in all /\ hand \notin free \union lent \union Queued
    BY <1>1 DEF FramesHaveOnePlace
  <1>3. free' = free \union {hand}
    BY <1>2 DEF Return
  <1>4. PoolTypes'
    BY <1>1, <1>3 DEF TypeOK, PoolTypes
  <1>5. all' = free' \union lent' \union Queued' \union Held'
    BY <1>1, <1>3 DEF FramesHaveOnePlace
  <1>6. /\ free' \intersect (lent' \union Queued' \union Held') = {}
        /\ lent' \intersect (Queued' \union Held') = {}
    BY <1>1, <1>2, <1>3 DEF FramesHaveOnePlace
  <1> QED BY <1>1, <1>4, <1>5, <1>6 DEF FramesHaveOnePlace

\* What does not touch the frames.
LEMMA FramesStay ==
  ASSUME TypeOK, FramesHaveOnePlace, UNCHANGED <<poolVars, hand>>
  PROVE  PoolTypes' /\ FramesHaveOnePlace'
  BY DEF TypeOK, PoolTypes, FramesHaveOnePlace, Queued, Held, poolVars

LEMMA PopKeepsPool ==
  ASSUME PoolInv, Pop
  PROVE  PoolTypes' /\ FramesHaveOnePlace'
  <1> USE DEF PoolInv
  <1>1. hand = None /\ Held = {}
    BY DEF Pop, HandInv, Held
  <1>2. queue \in Seq(Frames) /\ queue # <<>> /\ Len(queue) <= MaxSize
    BY DEF Pop, TypeOK, PoolTypes
  <1>3. \A i, j \in DOMAIN queue : queue[i] = queue[j] => i = j
    BY DEF FramesHaveOnePlace
  <1>4. /\ hand' \in Frames /\ queue' \in Seq(Frames) /\ Len(queue') <= Len(queue)
        /\ Queued = {hand'} \union Queued' /\ hand' \notin Queued'
        /\ \A i, j \in DOMAIN queue' : queue'[i] = queue'[j] => i = j
    BY <1>2, <1>3, TailOfQueue DEF Pop, Queued
  <1>5. Held' = {hand'}
    BY <1>4, AvTxAssumption DEF Held
  <1>6. PoolTypes'
    <2>1. Len(queue') \in Nat /\ Len(queue) \in Nat
      BY <1>2, <1>4
    <2> QED BY <1>2, <1>4, <2>1, AvTxAssumption DEF Pop, TypeOK, PoolTypes
  <1>7. free' = free /\ lent' = lent /\ all' = all
    BY DEF Pop
  <1> QED BY <1>1, <1>4, <1>5, <1>6, <1>7 DEF FramesHaveOnePlace

LEMMA GetKeepsPool ==
  ASSUME PoolInv, GetFromMemPool
  PROVE  PoolTypes' /\ FramesHaveOnePlace'
  <1> USE DEF PoolInv
  <1>1. PICK frame \in IF free # {} THEN free ELSE Frames \ all :
          free' = free \ {frame} /\ all' = all \union {frame} /\ lent' = lent \union {frame}
    BY DEF GetFromMemPool
  <1>2. Queued' = Queued /\ Held' = Held /\ queue' = queue
    BY DEF GetFromMemPool, Queued, Held, threadVars
  <1>3. frame \in Frames /\ frame \notin lent \union Queued \union Held
    BY <1>1 DEF FramesHaveOnePlace, TypeOK, PoolTypes
  <1>4. PoolTypes'
    BY <1>1, <1>2, <1>3 DEF TypeOK, PoolTypes
  <1>5. all' = free' \union lent' \union Queued' \union Held'
    BY <1>1, <1>2 DEF FramesHaveOnePlace
  <1>6. /\ free' \intersect (lent' \union Queued' \union Held') = {}
        /\ lent' \intersect (Queued' \union Held') = {}
    BY <1>1, <1>2, <1>3 DEF FramesHaveOnePlace
  <1> QED BY <1>2, <1>4, <1>5, <1>6 DEF FramesHaveOnePlace

LEMMA WriteKeepsPool ==
  ASSUME PoolInv, Write
  PROVE  PoolTypes' /\ FramesHaveOnePlace'
  <1> USE DEF PoolInv
  <1>1. PICK frame \in lent :
          IF Len(queue) < MaxSize
          THEN queue' = Append(queue, frame) /\ lent' = lent \ {frame} /\ UNCHANGED free
          ELSE Full(frame)
    BY DEF Write
  <1>2. all' = all /\ hand' = hand /\ Held' = Held
    BY DEF Write, threadVars, Held
  <1>3. CASE ~(Len(queue) < MaxSize)
    <2>1. UNCHANGED <<poolVars, hand>>
      BY <1>1, <1>2, <1>3 DEF Full, poolVars
    <2> QED BY <2>1, FramesStay
  <1>4. CASE Len(queue) < MaxSize
    <2>1. queue' = Append(queue, frame) /\ lent' = lent \ {frame} /\ free' = free
      BY <1>1, <1>4
    <2>2. /\ queue \in Seq(Frames) /\ frame \in Frames /\ frame \notin Queued
          /\ frame \notin free \union Held
      BY DEF TypeOK, PoolTypes, FramesHaveOnePlace
    <2>3. \A i, j \in DOMAIN queue : queue[i] = queue[j] => i = j
      BY DEF FramesHaveOnePlace
    <2>4. /\ queue' \in Seq(Frames) /\ Len(queue') = Len(queue) + 1
          /\ Queued' = Queued \union {frame}
          /\ \A i, j \in DOMAIN queue' : queue'[i] = queue'[j] => i = j
      BY <2>1, <2>2, <2>3, AppendToQueue DEF Queued
    <2>5. PoolTypes'
      <3>1. Len(queue) \in Nat /\ Len(queue) + 1 <= MaxSize
        BY <1>4, <2>2, AvTxAssumption
      <3> QED BY <1>2, <2>1, <2>4, <3>1 DEF TypeOK, PoolTypes
    <2>6. all' = free' \union lent' \union Queued' \union Held'
      BY <1>2, <2>1, <2>4 DEF FramesHaveOnePlace
    <2>7. /\ free' \intersect (lent' \union Queued' \union Held') = {}
          /\ lent' \intersect (Queued' \union Held') = {}
          /\ Queued' \intersect Held' = {}
      BY <1>2, <2>1, <2>2, <2>4 DEF FramesHaveOnePlace
    <2> QED BY <2>4, <2>5, <2>6, <2>7 DEF FramesHaveOnePlace
  <1> QED BY <1>3, <1>4

LEMMA JoinKeepsPool ==
  ASSUME PoolInv, JoinEnds, Joined
  PROVE  PoolTypes' /\ FramesHaveOnePlace'
  <1> USE DEF PoolInv
  <1>1. hand = None /\ hand' = hand /\ UNCHANGED <<lent, all>>
    BY DEF JoinEnds, Joined, HandInv
  <1>2. CASE call = "detach"
    BY <1>1, <1>2, QueueCleared DEF JoinEnds
  <1>3. CASE call # "detach"
    BY <1>1, <1>3, FramesStay DEF JoinEnds, poolVars
  <1> QED BY <1>2, <1>3

\* Every step keeps the frames in their places.
LEMMA NextKeepsPool ==
  ASSUME PoolInv, Next
  PROVE  PoolTypes' /\ FramesHaveOnePlace'
  <1> USE DEF PoolInv
  <1>1. CASE Pop
    BY <1>1, PopKeepsPool
  <1>2. CASE GiveUp \/ EndFrame
    BY <1>2, FrameReturned DEF GiveUp, EndFrame, HandInv
  <1>3. CASE FindRoom \/ Poll \/ SendPacket \/ Exit
    BY <1>3, FramesStay DEF FindRoom, Poll, SendPacket, Exit, vars, threadVars
  <1>4. CASE CardTakes \/ Attach \/ \E which \in {"stop", "detach"} : Stop(which)
    BY <1>4, FramesStay DEF CardTakes, Attach, Stop, threadVars
  <1>5. CASE Clear \/ Start \/ StartFails
    BY <1>5, QueueCleared DEF Clear, Start, StartFails, threadVars
  <1>6. CASE GetFromMemPool
    BY <1>6, GetKeepsPool
  <1>7. CASE Write
    BY <1>7, WriteKeepsPool
  <1>8. CASE JoinEnds
    BY <1>8, JoinKeepsPool DEF JoinEnds
  <1> QED BY <1>1, <1>2, <1>3, <1>4, <1>5, <1>6, <1>7, <1>8 DEF Next, AvTxThread

-------------------------------------------------------------------------------
(* The thread and the calls.                                               *)

LEMMA NextKeepsThread ==
  ASSUME PoolInv, Next
  PROVE  ThreadTypes' /\ CallTypes' /\ HandInv'
  <1> USE DEF PoolInv, TypeOK, ThreadTypes, CallTypes, HandInv
  <1>1. CASE Pop
    <2>1. hand' \in Frames
      BY <1>1 DEF Pop, PoolTypes
    <2> QED BY <1>1, <2>1, AvTxAssumption DEF Pop, callVars
  <1>2. CASE FindRoom
    <2>1. hand \in Frames
      BY <1>2 DEF FindRoom
    <2>2. left' \in Nat
      BY <1>2, <2>1, AvTxAssumption DEF FindRoom
    <2> QED BY <1>2, <2>2 DEF FindRoom, callVars
  <1>3. CASE GiveUp \/ EndFrame \/ Exit
    BY <1>3 DEF GiveUp, EndFrame, Exit, callVars
  <1>4. CASE SendPacket
    <2>1. left' \in Nat
      BY <1>4, AvTxAssumption DEF SendPacket
    <2> QED BY <1>4, <2>1 DEF SendPacket, callVars
  <1>5. CASE Poll \/ CardTakes \/ Clear \/ GetFromMemPool \/ Write
    BY <1>5 DEF Poll, CardTakes, Clear, GetFromMemPool, Write, vars, threadVars, callVars
  <1>6. CASE Attach \/ StartFails
    BY <1>6 DEF Attach, StartFails, threadVars
  <1>7. CASE Start
    BY <1>7 DEF Start
  <1>8. CASE \E which \in {"stop", "detach"} : Stop(which)
    BY <1>8 DEF Stop, threadVars
  <1>9. CASE JoinEnds
    BY <1>9 DEF JoinEnds
  <1> QED BY <1>1, <1>2, <1>3, <1>4, <1>5, <1>6, <1>7, <1>8, <1>9 DEF Next, AvTxThread

-------------------------------------------------------------------------------
(* The buffer.                                                             *)

\* What the distances say of the offsets.
LEMMA Offsets ==
  ASSUME PipeInv
  PROVE  /\ Len(way) \in 0..Size - 1 /\ DOMAIN way = 1..Len(way)
         /\ offset = IF read + Len(way) < Size THEN read + Len(way) ELSE read + Len(way) - Size
         /\ (known + Size - read) % Size
              = IF read <= known THEN known - read ELSE known + Size - read
  <1>0. /\ Size \in Nat \ {0} /\ left \in Nat
        /\ offset \in 0..Size - 1 /\ known \in 0..Size - 1 /\ read \in 0..Size - 1
    BY AvTxAssumption DEF PipeInv, TypeOK, PipeTypes, ThreadTypes
  <1>1. Len(way) \in Nat /\ DOMAIN way = 1..Len(way) /\ Len(way) <= Size - 1
    <2>1. way \in Seq([frame : Frames, n : Int])
      BY DEF PipeInv, RoomInv
    <2>2. Len(way) \in Nat /\ DOMAIN way = 1..Len(way)
      BY <2>1
    <2>3. Len(way) + (IF thread = "sending" THEN left ELSE 0) <= Size - 1
      BY DEF PipeInv, RoomInv
    <2> QED BY <1>0, <2>2, <2>3
  <1>2. (offset + Size - read) % Size = IF read <= offset THEN offset - read ELSE offset + Size - read
    BY <1>0, Distance
  <1>3. Len(way) = (offset + Size - read) % Size
    BY DEF PipeInv, WordsAreKept
  <1>4. (known + Size - read) % Size = IF read <= known THEN known - read ELSE known + Size - read
    BY <1>0, Distance
  <1> QED BY <1>0, <1>1, <1>2, <1>3, <1>4

\* There is room when FreeBytes says so.
LEMMA FreeBytesIsRoom ==
  ASSUME PipeInv
  PROVE  FreeBytes = Size - 1 - Len(way)
  <1> DEFINE l == Len(way)
  <1>1. /\ Size \in Nat \ {0} /\ offset \in 0..Size - 1 /\ read \in 0..Size - 1
        /\ l \in 0..Size - 1
        /\ offset = IF read + l < Size THEN read + l ELSE read + l - Size
    BY Offsets, AvTxAssumption DEF PipeInv, TypeOK, PipeTypes
  <1> HIDE DEF l
  <1>2. (read + Size - 1 - offset) % Size = Size - 1 - l
    BY <1>1, WordsFree
  <1> QED BY <1>2 DEF FreeBytes, l

\* A packet is written from the offset on, round the end, and nothing else is.
LEMMA PacketWritten ==
  ASSUME PipeTypes, NEW size \in 1..Size - 1, size <= MaxPacket
  PROVE  /\ DOMAIN Written(size) = 0..Size - 1
         /\ \A i \in 1..size : Written(size)[(offset + (i - 1)) % Size] = Word(i)
         /\ \A d \in size..Size - 1 :
              Written(size)[(offset + d) % Size] = ring[(offset + d) % Size]
  <1>0. /\ Size \in Nat \ {0} /\ MaxPacket \in Nat \ {0} /\ offset \in 0..Size - 1
    BY AvTxAssumption DEF PipeTypes
  <1> DEFINE toEnd == IF Size - offset < size THEN Size - offset ELSE size
  <1>1. Written(size) = [j \in 0..Size - 1 |->
                           CASE j \in offset..offset + toEnd - 1 -> Word(j - offset + 1)
                             [] j \in 0..size - toEnd - 1 -> Word(j + toEnd + 1)
                             [] OTHER -> ring[j]]
    <2>1. toEnd = IF Size - offset < MaxPacket /\ Size - offset < size THEN Size - offset ELSE size
      BY <1>0
    <2> QED BY <2>1 DEF Written
  <1> HIDE DEF toEnd
  <1>2. toEnd \in 1..size /\ (toEnd = size \/ toEnd = Size - offset) /\ offset + toEnd <= Size
        /\ (toEnd # size => offset + size > Size)
    BY <1>0 DEF toEnd
  <1>3. ASSUME NEW i \in 1..size
        PROVE  Written(size)[(offset + (i - 1)) % Size] = Word(i)
    <2> DEFINE j == (offset + (i - 1)) % Size
    <2>1. j = IF offset + (i - 1) < Size THEN offset + (i - 1) ELSE offset + (i - 1) - Size
      <3>1. i - 1 \in 0..Size
        BY <1>0
      <3> QED BY <1>0, <3>1, Onward
    <2>2. CASE i <= toEnd
      <3>1. j = offset + (i - 1)
        BY <1>0, <1>2, <2>1, <2>2
      <3>2. /\ j \in offset..offset + toEnd - 1 /\ j \in 0..Size - 1 /\ j - offset + 1 = i
            /\ ~(j \in 0..size - toEnd - 1)
        BY <1>0, <1>2, <2>2, <3>1
      <3> HIDE DEF j
      <3>3. Written(size)[j] = Word(j - offset + 1)
        BY <1>1, <3>2
      <3> QED BY <3>2, <3>3 DEF j
    <2>3. CASE i > toEnd
      <3>1. j = i - 1 - toEnd
        BY <1>0, <1>2, <2>1, <2>3
      <3>2. /\ j \in 0..size - toEnd - 1 /\ j \in 0..Size - 1 /\ j + toEnd + 1 = i
            /\ ~(j \in offset..offset + toEnd - 1)
        BY <1>0, <1>2, <2>3, <3>1
      <3>3. Written(size)[j] = Word(j + toEnd + 1)
        BY <1>1, <3>2
      <3> QED BY <3>2, <3>3
    <2> QED BY <1>2, <2>2, <2>3
  <1>4. ASSUME NEW d \in size..Size - 1
        PROVE  Written(size)[(offset + d) % Size] = ring[(offset + d) % Size]
    <2> DEFINE j == (offset + d) % Size
    <2>1. j = IF offset + d < Size THEN offset + d ELSE offset + d - Size
      <3>1. d \in 0..Size
        BY <1>0
      <3> QED BY <1>0, <3>1, Onward
    <2>2. /\ j \in 0..Size - 1
          /\ j \notin offset..offset + toEnd - 1 /\ j \notin 0..size - toEnd - 1
      BY <1>0, <1>2, <2>1
    <2> QED BY <1>1, <2>2
  <1> QED BY <1>1, <1>3, <1>4

\* A word on its way lies as far before the offset as there are words after it.
LEMMA PlaceOfWord ==
  ASSUME PipeInv, NEW i \in 1..Size - 1
  PROVE  /\ i <= Len(way) =>
              (read + i - 1) % Size = (offset + (Size - 1 - Len(way) + i)) % Size
         /\ i > Len(way) =>
              (read + i - 1) % Size = (offset + (i - Len(way) - 1)) % Size
  <1> DEFINE l == Len(way)
  <1>1. /\ Size \in Nat \ {0} /\ offset \in 0..Size - 1 /\ read \in 0..Size - 1
        /\ l \in 0..Size - 1
        /\ offset = IF read + l < Size THEN read + l ELSE read + l - Size
    BY Offsets, AvTxAssumption DEF PipeInv, TypeOK, PipeTypes
  <1> HIDE DEF l
  <1>2. /\ i <= l => (read + i - 1) % Size = (offset + (Size - 1 - l + i)) % Size
        /\ i > l => (read + i - 1) % Size = (offset + (i - l - 1)) % Size
    BY <1>1, PlaceFrom
  <1> QED BY <1>2 DEF l

\* What neither the writer nor the card does leaves the buffer as it is.
LEMMA BufferStays ==
  ASSUME PipeInv, UNCHANGED pipeVars,
         (thread' = "sending" => thread = "sending" /\ left' = left)
  PROVE  PipeTypes' /\ WordsAreKept' /\ RoomInv'
  <1>1. Len(way) \in 0..Size - 1 /\ left \in Nat /\ Size \in Nat
    BY Offsets, AvTxAssumption DEF PipeInv, TypeOK, ThreadTypes
  <1>2. PipeTypes' /\ WordsAreKept'
    BY DEF PipeInv, TypeOK, PipeTypes, WordsAreKept, pipeVars
  <1>3. Len(way') + (IF thread' = "sending" THEN left' ELSE 0) <= Size - 1
    <2>1. Len(way) + (IF thread = "sending" THEN left ELSE 0) <= Size - 1 /\ way' = way
      BY DEF PipeInv, RoomInv, pipeVars
    <2> QED BY <1>1, <2>1
  <1> QED BY <1>2, <1>3 DEF PipeInv, RoomInv, pipeVars

LEMMA FindRoomKeepsBuffer ==
  ASSUME PipeInv, FindRoom
  PROVE  PipeTypes' /\ WordsAreKept' /\ RoomInv'
  <1>1. UNCHANGED pipeVars /\ FreeBytes >= Shape[hand].need /\ left' = Shape[hand].words
    BY DEF FindRoom
  <1>2. PipeTypes' /\ WordsAreKept'
    BY <1>1 DEF PipeInv, TypeOK, PipeTypes, WordsAreKept, pipeVars
  <1>3. Len(way) \in 0..Size - 1 /\ Size \in Nat
    BY Offsets, AvTxAssumption DEF PipeInv
  <1>4. Len(way') + left' <= Size - 1
    <2>1. hand \in Frames
      BY DEF PipeInv, HandInv, TypeOK, ThreadTypes, FindRoom
    <2>2. Shape[hand].words \in Nat /\ Shape[hand].need \in Nat
          /\ Shape[hand].words <= Shape[hand].need
      BY <2>1, AvTxAssumption
    <2>3. FreeBytes = Size - 1 - Len(way)
      BY FreeBytesIsRoom
    <2>4. way' = way
      BY <1>1 DEF pipeVars
    <2> QED BY <1>1, <1>3, <2>2, <2>3, <2>4
  <1>5. thread' = "sending"
    BY DEF FindRoom
  <1> QED BY <1>1, <1>2, <1>4, <1>5 DEF PipeInv, RoomInv, pipeVars

\* A write offset the driver is given, or refuses, stays one of what was written.
LEMMA FlushTells ==
  ASSUME PipeTypes, NEW packets \in Nat, NEW to \in 0..Size - 1, Flush(packets, to)
  PROVE  (known' = known \/ known' = to) /\ known' \in 0..Size - 1 /\ failures' \in 0..FlushFailures
  BY AvTxAssumption DEF Flush, SetTxWriteOffset, PipeTypes

LEMMA EndFrameKeepsBuffer ==
  ASSUME PipeInv, EndFrame
  PROVE  PipeTypes' /\ WordsAreKept' /\ RoomInv'
  <1>1. /\ UNCHANGED <<ring, offset, read, way>> /\ unflushed' = 0 /\ Flush(unflushed, offset)
        /\ thread' = "ready"
    BY DEF EndFrame
  <1>2. /\ Size \in Nat \ {0} /\ offset \in 0..Size - 1 /\ read \in 0..Size - 1
        /\ unflushed \in Nat /\ FlushEvery \in Nat \ {0} /\ PipeTypes
    BY AvTxAssumption DEF PipeInv, TypeOK, PipeTypes
  <1>3. (known' = known \/ known' = offset) /\ known' \in 0..Size - 1 /\ failures' \in 0..FlushFailures
    BY <1>1, <1>2, FlushTells
  <1>4. PipeTypes'
    BY <1>1, <1>2, <1>3 DEF PipeTypes
  <1>5. WordsAreKept'
    BY <1>1 DEF PipeInv, WordsAreKept
  <1>6. (known' + Size - read') % Size <= Len(way')
    <2>1. CASE known' = known
      BY <1>1, <2>1 DEF PipeInv, RoomInv
    <2>2. CASE known' = offset
      <3>1. (known' + Size - read') % Size = Len(way')
        BY <1>1, <2>2 DEF PipeInv, WordsAreKept
      <3>2. Len(way') \in Nat
        BY <1>1, Offsets
      <3> QED BY <3>1, <3>2
    <2> QED BY <1>3, <2>1, <2>2
  <1>7. Len(way') + (IF thread' = "sending" THEN left' ELSE 0) <= Size - 1
    BY <1>1, <1>2, Offsets
  <1> QED BY <1>1, <1>4, <1>5, <1>6, <1>7 DEF PipeInv, RoomInv

\* One sequence after another.
LEMMA Joining ==
  ASSUME NEW S, NEW w \in Seq(S), NEW p \in Seq(S)
  PROVE  /\ w \o p \in Seq(S) /\ Len(w \o p) = Len(w) + Len(p)
         /\ \A i \in 1..Len(w) : (w \o p)[i] = w[i]
         /\ \A i \in 1..Len(p) : (w \o p)[Len(w) + i] = p[i]
  OBVIOUS

\* A packet of a frame that is being sent.
LEMMA PacketKeepsBuffer ==
  ASSUME PipeInv, SendPacket
  PROVE  PipeTypes' /\ WordsAreKept' /\ RoomInv'
  <1>1. PICK size \in 1..MaxPacket :
          /\ size <= left /\ left' = left - size /\ ring' = Written(size)
          /\ way' = way \o [i \in 1..size |-> Word(i)] /\ offset' = NextOffset(size)
          /\ IF unflushed + 1 >= FlushEvery
             THEN unflushed' = 0 /\ Flush(unflushed + 1, offset')
             ELSE unflushed' = unflushed + 1 /\ UNCHANGED <<known, failures>>
    BY DEF SendPacket
  <1>2. thread = "sending" /\ thread' = "sending" /\ read' = read
    BY DEF SendPacket
  <1> DEFINE l == Len(way)
  <1> DEFINE packet == [i \in 1..size |-> Word(i)]
  <1>3. /\ Size \in Nat \ {0} /\ MaxPacket \in Nat \ {0} /\ FlushEvery \in Nat \ {0}
        /\ offset \in 0..Size - 1 /\ read \in 0..Size - 1 /\ known \in 0..Size - 1
        /\ unflushed \in 0..FlushEvery - 1 /\ left \in Nat /\ PipeTypes
    BY AvTxAssumption DEF PipeInv, TypeOK, PipeTypes, ThreadTypes
  <1>4. /\ l \in 0..Size - 1 /\ DOMAIN way = 1..l
        /\ offset = IF read + l < Size THEN read + l ELSE read + l - Size
    BY Offsets
  <1>5. l + left <= Size - 1
    BY <1>2 DEF PipeInv, RoomInv
  <1>6. size \in 1..Size - 1 /\ size <= MaxPacket /\ l + size <= Size - 1
    BY <1>1, <1>3, <1>4, <1>5
  <1>7. /\ way' \in Seq([frame : Frames, n : Int]) /\ Len(way') = l + size
        /\ DOMAIN way' = 1..l + size
        /\ \A i \in 1..l : way'[i] = way[i]
        /\ \A i \in 1..size : way'[l + i] = Word(i)
    <2>1. hand \in Frames
      BY <1>2 DEF PipeInv, HandInv, TypeOK, ThreadTypes
    <2>2. Shape[hand].words \in Nat
      BY <2>1, AvTxAssumption
    <2>3. \A i \in 1..size : Word(i) \in [frame : Frames, n : Int]
      BY <1>3, <1>6, <2>1, <2>2 DEF Word
    <2>4. packet \in Seq([frame : Frames, n : Int]) /\ Len(packet) = size
          /\ \A i \in 1..size : packet[i] = Word(i)
      BY <1>6, <2>3
    <2>5. way \in Seq([frame : Frames, n : Int])
      BY DEF PipeInv, RoomInv
    <2>6. way' = way \o packet
      BY <1>1
    <2> DEFINE S == [frame : Frames, n : Int]
    <2>7. way \in Seq(S) /\ packet \in Seq(S)
      BY <2>4, <2>5
    <2> HIDE DEF packet, S
    <2>8. /\ way \o packet \in Seq(S) /\ Len(way \o packet) = Len(way) + Len(packet)
          /\ \A i \in 1..Len(way) : (way \o packet)[i] = way[i]
          /\ \A i \in 1..Len(packet) : (way \o packet)[Len(way) + i] = packet[i]
      BY <2>7, Joining
    <2>9. /\ way' \in Seq([frame : Frames, n : Int]) /\ Len(way') = l + size
          /\ (\A i \in 1..l : way'[i] = way[i]) /\ \A i \in 1..size : way'[l + i] = packet[i]
      BY <2>4, <2>6, <2>8 DEF S
    <2>10. Len(way') = l + size => DOMAIN way' = 1..l + size
      BY <2>9
    <2> QED BY <2>4, <2>9, <2>10
  <1> HIDE DEF l
  <1>8. offset' \in 0..Size - 1 /\ (offset' + Size - read') % Size = Len(way')
    <2>1. /\ Size \in Nat \ {0} /\ read \in 0..Size - 1 /\ l \in 0..Size - 1
          /\ offset \in 0..Size - 1 /\ size \in 1..Size - 1 /\ l + size <= Size - 1
          /\ offset = IF read + l < Size THEN read + l ELSE read + l - Size
      BY <1>3, <1>4, <1>6
    <2>2. /\ (offset + size) % Size \in 0..Size - 1
          /\ (((offset + size) % Size) + Size - read) % Size = l + size
      BY <2>1, Further
    <2> QED BY <1>1, <1>2, <1>7, <2>2 DEF NextOffset
  <1>9. /\ DOMAIN ring' = 0..Size - 1
        /\ \A i \in 1..size : ring'[(offset + (i - 1)) % Size] = Word(i)
        /\ \A d \in size..Size - 1 : ring'[(offset + d) % Size] = ring[(offset + d) % Size]
    BY <1>1, <1>3, <1>6, PacketWritten
  <1>10. ASSUME NEW i \in DOMAIN way'
         PROVE  ring'[(read' + i - 1) % Size] = way'[i]
    <2>1. i \in 1..Size - 1
      BY <1>3, <1>4, <1>6, <1>7
    <2>2. CASE i <= l
      <3>1. (read + i - 1) % Size = (offset + (Size - 1 - l + i)) % Size
        BY <2>1, <2>2, PlaceOfWord DEF l
      <3>2. Size - 1 - l + i \in size..Size - 1
        BY <1>3, <1>4, <1>6, <2>1, <2>2
      <3>3. ring'[(read + i - 1) % Size] = ring[(read + i - 1) % Size]
        BY <1>9, <3>1, <3>2
      <3>4. i \in DOMAIN way
        BY <1>4, <2>1, <2>2
      <3>5. ring[(read + i - 1) % Size] = way[i]
        BY <3>4 DEF PipeInv, WordsAreKept
      <3> QED BY <1>2, <1>4, <1>7, <3>3, <3>4, <3>5
    <2>3. CASE i > l
      <3> DEFINE k == i - l
      <3>1. k \in 1..size /\ i - l - 1 = k - 1 /\ i = l + k
        BY <1>4, <1>6, <1>7, <2>1, <2>3
      <3>2. (read + i - 1) % Size = (offset + (i - l - 1)) % Size
        BY <2>1, <2>3, PlaceOfWord DEF l
      <3> HIDE DEF k
      <3>3. ring'[(read + i - 1) % Size] = Word(k)
        BY <1>9, <3>1, <3>2
      <3>4. way'[i] = Word(k)
        BY <1>7, <3>1
      <3> QED BY <1>2, <3>3, <3>4
    <2> QED BY <1>4, <2>1, <2>2, <2>3
  <1>11. (known' = known \/ known' = offset') /\ known' \in 0..Size - 1
         /\ failures' \in 0..FlushFailures /\ unflushed' \in 0..FlushEvery - 1
    <2>1. CASE unflushed + 1 >= FlushEvery
      <3>1. unflushed' = 0 /\ Flush(unflushed + 1, offset')
        BY <1>1, <2>1
      <3>2. unflushed + 1 \in Nat
        BY <1>3
      <3>3. (known' = known \/ known' = offset') /\ known' \in 0..Size - 1
            /\ failures' \in 0..FlushFailures
        BY <1>3, <1>8, <3>1, <3>2, FlushTells
      <3> QED BY <1>3, <3>1, <3>3
    <2>2. CASE ~(unflushed + 1 >= FlushEvery)
      <3>1. unflushed' = unflushed + 1 /\ known' = known /\ failures' = failures
        BY <1>1, <2>2
      <3> QED BY <1>3, <2>2, <3>1 DEF PipeTypes
    <2> QED BY <2>1, <2>2
  <1>12. (known' + Size - read') % Size <= Len(way')
    <2>1. CASE known' = known
      <3>1. (known + Size - read) % Size <= l
        BY DEF PipeInv, RoomInv, l
      <3>2. (known + Size - read) % Size \in Int
        BY <1>3, Distance
      <3> QED BY <1>2, <1>4, <1>6, <1>7, <2>1, <3>1, <3>2
    <2>2. CASE known' = offset'
      <3>1. (known' + Size - read') % Size = Len(way')
        BY <1>8, <2>2
      <3>2. Len(way') \in Int
        BY <1>4, <1>6, <1>7
      <3> QED BY <3>1, <3>2
    <2> QED BY <1>11, <2>1, <2>2
  <1>13. Len(way') + (IF thread' = "sending" THEN left' ELSE 0) <= Size - 1
    BY <1>1, <1>2, <1>3, <1>4, <1>5, <1>6, <1>7 DEF l
  <1>14. PipeTypes'
    BY <1>2, <1>3, <1>8, <1>11 DEF PipeTypes
  <1>15. WordsAreKept'
    BY <1>8, <1>10 DEF WordsAreKept
  <1> QED BY <1>7, <1>9, <1>12, <1>13, <1>14, <1>15 DEF RoomInv

\* The card takes a word.
LEMMA CardKeepsBuffer ==
  ASSUME PipeInv, CardTakes
  PROVE  PipeTypes' /\ WordsAreKept' /\ RoomInv'
  <1>1. /\ read # known /\ read' = (read + 1) % Size /\ way' = Tail(way)
        /\ ring' = [ring EXCEPT ![read] = None]
        /\ UNCHANGED <<offset, known, unflushed, failures, thread, left>>
    BY DEF CardTakes, threadVars
  <1>2. /\ Size \in Nat \ {0} /\ offset \in 0..Size - 1 /\ read \in 0..Size - 1
        /\ known \in 0..Size - 1 /\ left \in Nat
    BY AvTxAssumption DEF PipeInv, TypeOK, PipeTypes, ThreadTypes
  <1>3. /\ Len(way) \in 0..Size - 1 /\ DOMAIN way = 1..Len(way)
        /\ way \in Seq([frame : Frames, n : Int])
    BY Offsets DEF PipeInv, RoomInv
  <1>4. /\ (known + Size - read) % Size <= Len(way) /\ (offset + Size - read) % Size = Len(way)
        /\ DOMAIN ring = 0..Size - 1
    BY DEF PipeInv, RoomInv, WordsAreKept
  <1>5. /\ read' \in 0..Size - 1
        /\ (known + Size - read') % Size = ((known + Size - read) % Size) - 1
    <2>1. /\ Size \in Nat \ {0} /\ read \in 0..Size - 1 /\ known \in 0..Size - 1 /\ read # known
          /\ read' = (read + 1) % Size
      BY <1>1, <1>2
    <2> QED BY <2>1, Nearer
  <1>6. (known + Size - read) % Size \in 1..Size - 1
    BY <1>1, <1>2, Distance
  <1>7. Len(way) \in 1..Size - 1 /\ read # offset
    <2>1. Len(way) # 0
      BY <1>3, <1>4, <1>6
    <2>2. (offset + Size - read) % Size # 0
      BY <1>4, <2>1
    <2>3. (offset + Size - offset) % Size = 0
      BY <1>2, Distance
    <2> QED BY <1>3, <2>1, <2>2, <2>3
  <1>8. (offset + Size - read') % Size = Len(way) - 1
    <2>1. /\ Size \in Nat \ {0} /\ read \in 0..Size - 1 /\ offset \in 0..Size - 1 /\ read # offset
          /\ read' = (read + 1) % Size
      BY <1>1, <1>2, <1>7
    <2>2. (offset + Size - read') % Size = ((offset + Size - read) % Size) - 1
      BY <2>1, Nearer
    <2> QED BY <1>4, <2>2
  <1>9. /\ way' \in Seq([frame : Frames, n : Int]) /\ Len(way') = Len(way) - 1
        /\ DOMAIN way' = 1..Len(way) - 1
        /\ \A i \in 1..Len(way) - 1 : way'[i] = way[i + 1]
    <2>1. way # <<>>
      BY <1>7
    <2> QED BY <1>1, <1>3, <2>1
  <1>10. ASSUME NEW i \in DOMAIN way'
         PROVE  ring'[(read' + i - 1) % Size] = way'[i]
    <2>1. i \in 1..Size - 1 /\ i + 1 \in 1..Len(way)
      BY <1>2, <1>3, <1>9
    <2>2. /\ (((read + 1) % Size) + i - 1) % Size = (read + (i + 1) - 1) % Size
          /\ (read + (i + 1) - 1) % Size # read /\ (read + (i + 1) - 1) % Size \in 0..Size - 1
      BY <1>2, <2>1, PlacesAfter
    <2>3. ring'[(read + (i + 1) - 1) % Size] = ring[(read + (i + 1) - 1) % Size]
      BY <1>1, <1>4, <2>2
    <2>4. ring[(read + (i + 1) - 1) % Size] = way[i + 1]
      BY <1>3, <2>1 DEF PipeInv, WordsAreKept
    <2>5. way'[i] = way[i + 1]
      BY <1>9
    <2> QED BY <1>1, <2>2, <2>3, <2>4, <2>5
  <1>11. Len(way') + (IF thread' = "sending" THEN left' ELSE 0) <= Size - 1
    <2>1. Len(way) + (IF thread = "sending" THEN left ELSE 0) <= Size - 1
      BY DEF PipeInv, RoomInv
    <2> QED BY <1>1, <1>2, <1>3, <1>9, <2>1
  <1>12. (known' + Size - read') % Size <= Len(way')
    BY <1>1, <1>3, <1>4, <1>5, <1>6, <1>9
  <1>13. PipeTypes'
    BY <1>1, <1>5 DEF PipeInv, TypeOK, PipeTypes
  <1>14. WordsAreKept'
    BY <1>1, <1>8, <1>9, <1>10 DEF WordsAreKept
  <1> QED BY <1>1, <1>4, <1>9, <1>11, <1>12, <1>13, <1>14 DEF RoomInv

\* A stop empties the buffer.
LEMMA JoinKeepsBuffer ==
  ASSUME JoinEnds
  PROVE  PipeTypes' /\ WordsAreKept' /\ RoomInv'
  <1>1. /\ ring' = [j \in 0..Size - 1 |-> None] /\ way' = <<>> /\ thread' = "none"
        /\ offset' = 0 /\ known' = 0 /\ read' = 0 /\ unflushed' = 0 /\ failures' = 0
    BY DEF JoinEnds
  <1>2. Size \in Nat \ {0} /\ FlushEvery \in Nat \ {0} /\ FlushFailures \in Nat
    BY AvTxAssumption
  <1>3. (0 + Size - 0) % Size = 0
    BY <1>2, Distance
  <1>4. PipeTypes'
    BY <1>1, <1>2 DEF PipeTypes
  <1>5. WordsAreKept'
    BY <1>1, <1>3 DEF WordsAreKept
  <1>6. RoomInv'
    BY <1>1, <1>2, <1>3 DEF RoomInv
  <1> QED BY <1>4, <1>5, <1>6

\* Every step keeps the words in their places.
LEMMA NextKeepsBuffer ==
  ASSUME PipeInv, Next
  PROVE  PipeTypes' /\ WordsAreKept' /\ RoomInv'
  <1>1. CASE Pop \/ GiveUp \/ Poll \/ Exit
    <2>1. CASE Pop \/ GiveUp \/ Exit
      BY <2>1, BufferStays DEF Pop, GiveUp, Exit
    <2>2. CASE Poll
      <3>1. UNCHANGED pipeVars /\ thread' = thread /\ left' = left
        BY <2>2 DEF Poll, vars, threadVars
      <3> QED BY <3>1, BufferStays
    <2> QED BY <1>1, <2>1, <2>2
  <1>2. CASE FindRoom
    BY <1>2, FindRoomKeepsBuffer
  <1>3. CASE SendPacket
    BY <1>3, PacketKeepsBuffer
  <1>4. CASE EndFrame
    BY <1>4, EndFrameKeepsBuffer
  <1>5. CASE CardTakes
    BY <1>5, CardKeepsBuffer
  <1>6. CASE Attach \/ Clear \/ GetFromMemPool \/ Write \/ StartFails
             \/ \E which \in {"stop", "detach"} : Stop(which)
    BY <1>6, BufferStays DEF Attach, Clear, GetFromMemPool, Write, StartFails, Stop, threadVars
  <1>7. CASE Start
    BY <1>7, BufferStays DEF Start
  <1>8. CASE JoinEnds
    BY <1>8, JoinKeepsBuffer
  <1> QED BY <1>1, <1>2, <1>3, <1>4, <1>5, <1>6, <1>7, <1>8 DEF Next, AvTxThread

-------------------------------------------------------------------------------
(* The theorems.                                                           *)

LEMMA StepInv == Inv /\ [Next]_vars => Inv'
  <1> SUFFICES ASSUME Inv, [Next]_vars PROVE Inv'
    OBVIOUS
  <1>1. PoolInv /\ PipeInv
    BY DEF Inv, PoolInv, PipeInv
  <1>2. CASE Next
    <2>1. PoolTypes' /\ FramesHaveOnePlace'
      BY <1>1, <1>2, NextKeepsPool
    <2>2. ThreadTypes' /\ CallTypes' /\ HandInv'
      BY <1>1, <1>2, NextKeepsThread
    <2>3. PipeTypes' /\ WordsAreKept' /\ RoomInv'
      BY <1>1, <1>2, NextKeepsBuffer
    <2> QED BY <2>1, <2>2, <2>3 DEF Inv, TypeOK
  <1>3. CASE UNCHANGED vars
    BY <1>3 DEF Inv, TypeOK, CallTypes, ThreadTypes, PoolTypes, PipeTypes, FramesHaveOnePlace,
                Queued, Held, WordsAreKept, HandInv, RoomInv,
                vars, callVars, threadVars, poolVars, pipeVars
  <1> QED BY <1>2, <1>3

\* The invariant holds in every state.
THEOREM Invariance == Spec => []Inv
  BY InitInv, StepInv, PTL DEF Spec

\* The variables keep their types, for any number of frames and any size of the buffer.
THEOREM TypeCorrect == Spec => []TypeOK
  <1>1. Inv => TypeOK
    BY DEF Inv
  <1> QED BY <1>1, Invariance, PTL

\* Every frame of the pool is in one place: none is lost, none is sent while the program
\* has it, and none is given out while it waits or is sent.
THEOREM FramesAreInOnePlace == Spec => []FramesHaveOnePlace
  <1>1. Inv => FramesHaveOnePlace
    BY DEF Inv
  <1> QED BY <1>1, Invariance, PTL

\* What the thread wrote lies in the buffer, in order, until the card has taken it,
\* whatever the sizes of packets and buffer and however often the driver refuses an offset.
THEOREM NoWordIsOverwritten == Spec => []WordsAreKept
  <1>1. Inv => WordsAreKept
    BY DEF Inv
  <1> QED BY <1>1, Invariance, PTL
===============================================================================
