----------------------------- MODULE SdiRx_proofs -----------------------------
(***************************************************************************)
(* Proofs about SdiRx, for every size of the ring, of the frames and of    *)
(* their lines, and every fault: the card and the reads share the ring, a  *)
(* frame of level B is two fields that follow each other, and frames that  *)
(* were lost for want of room were flagged.                                *)
(***************************************************************************)
EXTENDS SdiRx, FiniteSetTheorems, SequenceTheorems, TLAPS

--------------------------------------------------------------------------------
(* The least of a set of numbers.                                          *)

\* The sets of the members up to one of them have a smallest.
LEMMA MinIsLeast ==
  ASSUME NEW S, S \subseteq Nat, S # {}
  PROVE  Min(S) \in S /\ \A n \in S : Min(S) <= n
  <1> DEFINE Below(m) == S \cap 0..m
             T == {Below(m) : m \in S}
             R == StrictSubsetOrdering(Nat)
  <1>1. \A m \in S : Below(m) \in FiniteSubsetsOf(Nat)
    <2>1. ASSUME NEW m \in S PROVE IsFiniteSet(Below(m))
      <3>1. IsFiniteSet(0..m)
        BY FS_Interval
      <3> QED BY <3>1, FS_Subset
    <2> QED BY <2>1 DEF FiniteSubsetsOf
  <1>2. T \subseteq FiniteSubsetsOf(Nat) /\ T # {}
    BY <1>1
  <1>3. IsWellFoundedOn(R, FiniteSubsetsOf(Nat))
    BY FS_StrictSubsetOrderingWellFounded
  <1> HIDE DEF R
  <1>4. PICK X \in T : \A Y \in T : ~(<<Y, X>> \in R)
    BY <1>2, <1>3, WFMin
  <1>5. PICK m \in S : X = Below(m)
    BY <1>4
  <1>6. ASSUME NEW n \in S, n < m PROVE FALSE
    <2>1. Below(n) \in T /\ Below(n) \subseteq X /\ Below(n) # X /\ X \subseteq Nat
      BY <1>5, <1>6
    <2>2. <<Below(n), X>> \in R
      BY <2>1 DEF R, StrictSubsetOrdering
    <2> QED BY <1>4, <2>1, <2>2
  <1>7. \A n \in S : m <= n
    BY <1>6
  <1> QED BY <1>7 DEF Min

--------------------------------------------------------------------------------
(* Places in the ring, and how far one lies after another.                 *)

On(r, o) == (r + o) % Size
Off(a, r) == (a + Size - r) % Size

\* Where the last line of a frame starts.
Last == (Lines - 1) * Stride + 1

LEMMA Constants ==
  /\ Size \in Nat \ {0} /\ Ids \in Nat \ {0} /\ Stride \in Nat \ {0} /\ Lines \in Nat
  /\ CodedSize \in Nat /\ Last \in Nat /\ LineUnits \in Nat
  /\ Last >= 1 /\ Last < CodedSize /\ LineUnits - Stride + 1 = Last
  /\ LineUnits = CodedSize - 1 /\ (Lines - 1) * Stride \in Nat
  /\ Size >= 2 * CodedSize + 2
  /\ Quarters \in Nat \ {0} /\ Ids > 2 /\ Ids % 2 = 0
  <1> USE SdiRxAssumption
  <1>1. Lines * Stride \in Nat /\ (Lines - 1) * Stride \in Nat
    OBVIOUS
  <1>2. (Lines - 1) * Stride = Lines * Stride - Stride
    OBVIOUS
  <1>3. Size \in Nat \ {0} /\ Ids \in Nat \ {0} /\ Stride \in Nat \ {0} /\ Lines \in Nat
    BY <1>1 DEF MaxLoad, CodedSize, LineUnits
  <1> QED BY <1>1, <1>2, <1>3 DEF MaxLoad, CodedSize, LineUnits, Last

LEMMA OnIs ==
  ASSUME NEW r \in Slots, NEW o \in 0..Size
  PROVE  On(r, o) = (IF r + o < Size THEN r + o ELSE r + o - Size) /\ On(r, o) \in Slots
  BY Constants DEF On, Slots

LEMMA OnZero ==
  ASSUME NEW r \in Slots
  PROVE  On(r, 0) = r
  BY Constants DEF On, Slots

LEMMA OffIs ==
  ASSUME NEW a \in Slots, NEW r \in Slots
  PROVE  /\ Off(a, r) = (IF a >= r THEN a - r ELSE a - r + Size)
         /\ Off(a, r) \in 0..Size - 1
  <1>1. CASE a >= r
    <2>1. a + Size - r = (a - r) + Size /\ a - r \in 0..Size - 1
      BY <1>1, Constants DEF Slots
    <2> QED BY <1>1, <2>1, Constants DEF Off, Slots
  <1>2. CASE ~(a >= r)
    <2>1. a + Size - r \in 0..Size - 1
      BY <1>2, Constants DEF Slots
    <2> QED BY <1>2, <2>1, Constants DEF Off, Slots
  <1> QED BY <1>1, <1>2

LEMMA OffOfOn ==
  ASSUME NEW r \in Slots, NEW o \in 0..Size - 1
  PROVE  Off(On(r, o), r) = o
  <1> DEFINE a == On(r, o)
  <1>1. a = (IF r + o < Size THEN r + o ELSE r + o - Size) /\ a \in Slots
    BY OnIs, Constants
  <1> HIDE DEF a
  <1>2. Off(a, r) = (IF a >= r THEN a - r ELSE a - r + Size)
    BY <1>1, OffIs
  <1>3. Off(a, r) = o
    BY <1>1, <1>2, Constants DEF Slots
  <1> QED BY <1>3 DEF a

LEMMA OnOfOff ==
  ASSUME NEW r \in Slots, NEW a \in Slots
  PROVE  On(r, Off(a, r)) = a
  <1> DEFINE o == Off(a, r)
  <1>1. o = (IF a >= r THEN a - r ELSE a - r + Size) /\ o \in 0..Size - 1
    BY OffIs
  <1> HIDE DEF o
  <1>2. On(r, o) = (IF r + o < Size THEN r + o ELSE r + o - Size)
    BY <1>1, OnIs, Constants
  <1>3. On(r, o) = a
    BY <1>1, <1>2, Constants DEF Slots
  <1> QED BY <1>3 DEF o

LEMMA OnOfOn ==
  ASSUME NEW r \in Slots, NEW m \in Nat, NEW n \in Nat, m + n <= Size
  PROVE  On(On(r, m), n) = On(r, m + n)
  <1> DEFINE a == On(r, m)
  <1>1. a = (IF r + m < Size THEN r + m ELSE r + m - Size) /\ a \in Slots
    BY OnIs, Constants
  <1> HIDE DEF a
  <1>2. On(a, n) = (IF a + n < Size THEN a + n ELSE a + n - Size)
    BY <1>1, OnIs, Constants
  <1> DEFINE o == m + n
  <1>3. On(r, o) = (IF r + o < Size THEN r + o ELSE r + o - Size)
    <2>1. o \in 0..Size
      BY Constants
    <2> HIDE DEF o
    <2> QED BY <2>1, OnIs
  <1>4. On(a, n) = On(r, o)
    BY <1>1, <1>2, <1>3, Constants DEF Slots
  <1> QED BY <1>4 DEF a

\* Of places in order: r, then a, then w.
LEMMA OffBetween ==
  ASSUME NEW r \in Slots, NEW a \in Slots, NEW w \in Slots, Off(a, r) <= Off(w, r)
  PROVE  Off(w, a) = Off(w, r) - Off(a, r)
  <1>1. Off(a, r) = (IF a >= r THEN a - r ELSE a - r + Size)
    BY OffIs
  <1>2. Off(w, r) = (IF w >= r THEN w - r ELSE w - r + Size)
    BY OffIs
  <1>3. Off(w, a) = (IF w >= a THEN w - a ELSE w - a + Size)
    BY OffIs
  <1> QED BY <1>1, <1>2, <1>3, Constants DEF Slots

LEMMA OffTurned ==
  ASSUME NEW a \in Slots, NEW b \in Slots, Off(a, b) > 0
  PROVE  Off(b, a) + Off(a, b) = Size
  <1>1. Off(a, b) = (IF a >= b THEN a - b ELSE a - b + Size)
    BY OffIs
  <1>2. Off(b, a) = (IF b >= a THEN b - a ELSE b - a + Size)
    BY OffIs
  <1> QED BY <1>1, <1>2, Constants DEF Slots

LEMMA OffOfMoved ==
  ASSUME NEW r \in Slots, NEW w \in Slots, NEW n \in 0..Off(w, r)
  PROVE  Off(w, On(r, n)) = Off(w, r) - n
  <1>0. Off(w, r) \in 0..Size - 1
    BY OffIs
  <1>1. n \in 0..Size - 1 /\ n \in 0..Size
    BY <1>0, Constants
  <1>2. On(r, n) \in Slots /\ Off(On(r, n), r) = n
    BY <1>1, OnIs, OffOfOn
  <1>3. Off(w, On(r, n)) = Off(w, r) - Off(On(r, n), r)
    BY <1>0, <1>1, <1>2, OffBetween
  <1> QED BY <1>2, <1>3

LEMMA BeforeIs ==
  ASSUME NEW a \in Slots
  PROVE  (a + Size - 1) % Size = IF a = 0 THEN Size - 1 ELSE a - 1
  BY Constants DEF Slots

LEMMA OnBefore ==
  ASSUME NEW r \in Slots, NEW n \in 0..Size - 1, NEW o \in 0..Size, o = n + 1
  PROVE  On(r, n) = (On(r, o) + Size - 1) % Size
  <1> DEFINE a == On(r, o)
             b == On(r, n)
  <1>1. n \in 0..Size
    BY Constants
  <1>2. a = (IF r + o < Size THEN r + o ELSE r + o - Size) /\ a \in Slots
    BY OnIs
  <1>3. b = (IF r + n < Size THEN r + n ELSE r + n - Size) /\ b \in Slots
    BY <1>1, OnIs
  <1> HIDE DEF a, b
  <1>4. (a + Size - 1) % Size = IF a = 0 THEN Size - 1 ELSE a - 1
    BY <1>2, BeforeIs
  <1>5. b = IF a = 0 THEN Size - 1 ELSE a - 1
    BY <1>2, <1>3, Constants DEF Slots
  <1>6. b = (a + Size - 1) % Size
    BY <1>4, <1>5
  <1> QED BY <1>6 DEF a, b

LEMMA OffOfFilled ==
  ASSUME NEW r \in Slots, NEW w \in Slots, NEW n \in Nat, Off(w, r) + n <= Size - 1
  PROVE  On(w, n) \in Slots /\ Off(On(w, n), r) = Off(w, r) + n
  <1>0. Off(w, r) = (IF w >= r THEN w - r ELSE w - r + Size) /\ Off(w, r) \in 0..Size - 1
    BY OffIs
  <1> DEFINE a == On(w, n)
  <1>1. a = (IF w + n < Size THEN w + n ELSE w + n - Size) /\ a \in Slots
    <2>1. n \in 0..Size
      BY <1>0, Constants
    <2> QED BY <2>1, OnIs
  <1> HIDE DEF a
  <1>2. Off(a, r) = (IF a >= r THEN a - r ELSE a - r + Size)
    BY <1>1, OffIs
  <1>3. Off(a, r) = Off(w, r) + n
    BY <1>0, <1>1, <1>2, Constants DEF Slots
  <1> QED BY <1>1, <1>3 DEF a

\* Of the place before r.
LEMMA OffOfBefore ==
  ASSUME NEW r \in Slots, NEW w \in Slots
  PROVE  /\ (r + Size - 1) % Size \in Slots
         /\ Off(w, r) + 1 < Size => Off(w, (r + Size - 1) % Size) = Off(w, r) + 1
         /\ Off(w, r) + 1 = Size => Off(w, (r + Size - 1) % Size) = 0
         /\ Off(r, (r + Size - 1) % Size) = 1
  <1> DEFINE b == (r + Size - 1) % Size
  <1>1. b = (IF r = 0 THEN Size - 1 ELSE r - 1) /\ b \in Slots
    BY Constants DEF Slots
  <1> HIDE DEF b
  <1>2. Off(w, r) = (IF w >= r THEN w - r ELSE w - r + Size)
    BY OffIs
  <1>3. Off(w, b) = (IF w >= b THEN w - b ELSE w - b + Size)
    BY <1>1, OffIs
  <1>4. Off(r, b) = (IF r >= b THEN r - b ELSE r - b + Size)
    BY <1>1, OffIs
  <1>5. /\ b \in Slots
        /\ Off(w, r) + 1 < Size => Off(w, b) = Off(w, r) + 1
        /\ Off(w, r) + 1 = Size => Off(w, b) = 0
        /\ Off(r, b) = 1
    BY <1>1, <1>2, <1>3, <1>4, Constants DEF Slots
  <1> QED BY <1>5 DEF b

--------------------------------------------------------------------------------
(* The inductive invariant.                                                *)

UnitIds == 0..Ids - 1
Units == [id : UnitIds, part : Int]
Cards ==
  [run : BOOLEAN, w : Slots, r : Slots, quarter : 0..Quarters, num : UnitIds,
   insync : BOOLEAN, dropped : BOOLEAN]
Shots == [id : -1..Ids - 1, whole : BOOLEAN, torn : BOOLEAN, stale : BOOLEAN]
Sides ==
  [std : Standards, run : BOOLEAN, r : Slots, w : Slots, insync : BOOLEAN, expected : UnitIds,
   last : UnitIds, latched : BOOLEAN, lent : -1..Ids - 1, held : BOOLEAN,
   arrival : -1..Ids - 1, picture : Shots]
Places ==
  {Idle, Waiting, SawOutOfSync} \cup [at : {"look"}, count : 2..3]
  \cup [at : {"copy"}, count : 1..3, buffer : {0, 1}, letGo : BOOLEAN]
Histories == [since : UnitIds, lost : SUBSET UnitIds, started : BOOLEAN, excused : BOOLEAN]

TypeInv ==
  /\ card \in Cards /\ ring \in [Slots -> Units] /\ rx \in Sides
  /\ pc \in Places /\ hist \in Histories

\* The unit at offset o from place r.
UnitAt(rg, r, o) == rg[On(r, o)]

\* k units before a unit u of a frame's lines is that frame's unit that belongs there: the
\* header's k is u.part, whatever became of the header.
Before(u, v, k) ==
  v.id = u.id /\ (k < u.part => v.part = u.part - k) /\ (k = u.part => v.part <= 0)
Joins(rg, r, o, u) == \A k \in Nat : k >= 1 /\ k <= u.part /\ k <= o
                                     => Before(u, UnitAt(rg, r, o - k), k)

\* What the card holds is frames in order, each from its header on as far as it goes.
Chained(rg, c) == \A o \in Nat : o < RingLoad(c) => Joins(rg, c.r, o, UnitAt(rg, c.r, o))

\* What the card writes next goes on with the frame.
Goes(rg, c) ==
  c.insync /\ ~c.dropped /\ c.quarter < Quarters
  => Joins(rg, c.r, RingLoad(c), Unit(c.num, Upto(c.quarter) * Stride + 1))

\* What the side may read is the card's, but for the unit that keeps a full ring from looking
\* empty.
Inside(x, c) == Off(x.r, c.r) + RingLoad(x) <= RingLoad(c) /\ Off(x.r, c.r) <= 1

\* There is a frame at the read offset.
FrameAt(rg, x) ==
  /\ x.insync /\ RingLoad(x) >= CodedSize
  /\ UnitAt(rg, x.r, 0).part = Header /\ UnitAt(rg, x.r, 0).id = x.expected
  /\ UnitAt(rg, x.r, Last).part = Last

RunInv == card.run = rx.run /\ (rx.run => Inside(rx, card))

WhereInv ==
  /\ pc.at \in {"look", "copy"} => rx.run /\ rx.lent = None
  /\ rx.lent # None => rx.run /\ pc = Idle
  /\ pc.at = "copy" => FrameAt(ring, rx)
  /\ rx.lent # None => FrameAt(ring, rx) /\ rx.lent = rx.expected
  /\ ~Mixed /\ rx.lent # None => ~rx.held

\* While a field 1 is held, the frame that is expected is the one after it, and the picture is
\* its own unless it is stale.  The picture stays while a read into the second buffer is under
\* way, though the field is no longer held; then the look has let it go.
SecondBuffer == pc.at = "copy" /\ pc.buffer = 1
HeldInv ==
  /\ rx.held => /\ rx.std = "b" /\ rx.insync /\ rx.arrival >= 0
                /\ ~Mixed => rx.expected = (rx.arrival + 1) % Ids
                /\ rx.picture.stale \/ rx.picture.id = rx.arrival
  /\ rx.held \/ SecondBuffer => FieldOf(rx.picture.id) = 1
  /\ SecondBuffer => rx.held \/ pc.letGo
  /\ rx.picture.whole

\* What is known of the frames since the last that was read: either all is in order, or the
\* flag or one of the excuses says it is not.
Clean(x, h) == x.insync /\ x.last = h.since /\ x.expected = (h.since + 1) % Ids
KnownOf(x, h) == x.run => x.latched \/ h.started \/ h.excused \/ Clean(x, h)

OutInv ==
  /\ \A i \in DOMAIN out.pictures : out.pictures[i].whole
  /\ ~Mixed => FieldsFollow
  /\ OverflowIsNoted

IInv ==
  /\ TypeInv /\ Chained(ring, card) /\ Goes(ring, card)
  /\ RunInv /\ WhereInv /\ HeldInv /\ KnownOf(rx, hist) /\ OutInv

--------------------------------------------------------------------------------
(* What the helpers do to a side.                                          *)

LEMMA SkipIs ==
  ASSUME NEW x \in Sides, NEW n \in 0..Size
  PROVE  /\ Skip(x, n) \in Sides /\ Skip(x, n) = [x EXCEPT !.r = On(x.r, n)]
  <1>1. x.r \in Slots
    BY DEF Sides
  <1>2. On(x.r, n) \in Slots
    BY <1>1, OnIs
  <1>3. Skip(x, n) = [x EXCEPT !.r = On(x.r, n)]
    BY DEF Skip, On
  <1>4. [x EXCEPT !.r = On(x.r, n)] \in Sides
    BY <1>2, Zenon DEF Sides
  <1> QED BY <1>3, <1>4

LEMMA OverflowedIs ==
  ASSUME NEW x \in Sides
  PROVE  Overflowed(x) \in Sides
  <1>1. TRUE \in BOOLEAN
    OBVIOUS
  <1> QED BY <1>1, Zenon DEF Sides, Overflowed

LEMMA OutOfSyncIs ==
  ASSUME NEW x \in Sides
  PROVE  OutOfSync(x) \in Sides
  <1>1. FALSE \in BOOLEAN /\ 0 \in UnitIds
    BY Constants DEF UnitIds
  <1> QED BY <1>1, Zenon DEF Sides, OutOfSync

LEMMA SettledIs ==
  ASSUME NEW x \in Sides
  PROVE  Settled(x) \in Sides
  <1>1. x.r \in Slots
    BY DEF Sides
  <1> QED BY <1>1, Zenon DEF Sides, Settled

LEMMA SyncedIs ==
  ASSUME NEW x \in Sides, card \in Cards
  PROVE  Synced(x) \in Sides
  <1>1. card.w \in Slots
    BY DEF Cards
  <1> QED BY <1>1, Zenon DEF Sides, Synced

\* A side that has passed the frame with this ID.
Finished(x, id) ==
  /\ x \in Sides /\ x.r = On(rx.r, CodedSize) /\ x.w = rx.w
  /\ x.std = rx.std /\ x.run = rx.run /\ x.insync = rx.insync /\ x.lent = rx.lent
  /\ x.held = rx.held /\ x.arrival = rx.arrival /\ x.picture = rx.picture
  /\ x.last = id /\ x.expected = (id + 1) % Ids

LEMMA FinishFrameIs ==
  ASSUME rx \in Sides, NEW id \in UnitIds, NEW x, x = FinishFrame(id)
  PROVE  Finished(x, id)
  <1> DEFINE e == (id + 1) % Ids
             y == Skip(rx, CodedSize)
             r == On(rx.r, CodedSize)
  <1>1. CodedSize \in 0..Size /\ e \in UnitIds /\ FALSE \in BOOLEAN
    BY Constants DEF UnitIds
  <1>2. y \in Sides /\ y = [rx EXCEPT !.r = r]
    BY <1>1, SkipIs
  <1>3. x = [y EXCEPT !.expected = e, !.last = id, !.latched = FALSE]
    BY DEF FinishFrame
  <1> HIDE DEF y, e, r
  <1>4. x \in Sides
    BY <1>1, <1>2, <1>3, Zenon DEF Sides
  <1>5. /\ y.r = r /\ y.w = rx.w
        /\ y.std = rx.std /\ y.run = rx.run /\ y.insync = rx.insync /\ y.lent = rx.lent
        /\ y.held = rx.held /\ y.arrival = rx.arrival /\ y.picture = rx.picture
    BY <1>2 DEF Sides
  <1>6. /\ x.r = y.r /\ x.w = y.w
        /\ x.std = y.std /\ x.run = y.run /\ x.insync = y.insync /\ x.lent = y.lent
        /\ x.held = y.held /\ x.arrival = y.arrival /\ x.picture = y.picture
        /\ x.last = id /\ x.expected = e
    BY <1>2, <1>3 DEF Sides
  <1> QED BY <1>4, <1>5, <1>6 DEF e, r, Finished

\* What is read at a place from the read offset.
LEMMA AtIs ==
  ASSUME NEW x \in Sides, NEW o
  PROVE  At(x, o) = UnitAt(ring, x.r, o)
  BY DEF At, UnitAt, On

\* A side with the write offset of the card has the rest of what the card holds.
LEMMA LoadIs ==
  ASSUME NEW x \in Sides
  PROVE  RingLoad(x) = Off(x.w, x.r) /\ RingLoad(x) \in 0..Size - 1
  BY OffIs DEF RingLoad, Off, Sides

LEMMA CardLoadIs ==
  ASSUME NEW c \in Cards
  PROVE  RingLoad(c) = Off(c.w, c.r) /\ RingLoad(c) \in 0..Size - 1
  BY OffIs DEF RingLoad, Off, Cards

--------------------------------------------------------------------------------
(* What is in the ring, seen from another place.                           *)

LEMMA UnitAtMoved ==
  ASSUME NEW rg, NEW r \in Slots, NEW m \in Nat, NEW n \in Nat, m + n <= Size
  PROVE  UnitAt(rg, On(r, m), n) = UnitAt(rg, r, m + n)
  BY OnOfOn DEF UnitAt

LEMMA UnitAtIs ==
  ASSUME NEW rg \in [Slots -> Units], NEW r \in Slots, NEW o \in 0..Size
  PROVE  /\ UnitAt(rg, r, o) \in Units
         /\ UnitAt(rg, r, o).id \in UnitIds /\ UnitAt(rg, r, o).part \in Int
  <1>1. On(r, o) \in Slots
    BY OnIs
  <1>2. rg[On(r, o)] \in Units
    BY <1>1
  <1> QED BY <1>2 DEF UnitAt, Units

LEMMA JoinsMoved ==
  ASSUME NEW rg, NEW rg2, NEW r, NEW r2, NEW m \in Nat, NEW o \in Nat, NEW u, u.part \in Int,
         \A n \in Nat : n < o => UnitAt(rg2, r2, n) = UnitAt(rg, r, m + n),
         Joins(rg, r, m + o, u)
  PROVE  Joins(rg2, r2, o, u)
  <1> SUFFICES ASSUME NEW k \in Nat, k >= 1, k <= u.part, k <= o
               PROVE  Before(u, UnitAt(rg2, r2, o - k), k)
    BY DEF Joins
  <1>1. Before(u, UnitAt(rg, r, (m + o) - k), k)
    BY DEF Joins
  <1>2. o - k \in Nat /\ o - k < o /\ m + (o - k) = (m + o) - k
    OBVIOUS
  <1> QED BY <1>1, <1>2

\* A card that gives m units back holds what it held from there on.
LEMMA ChainMoved ==
  ASSUME NEW rg \in [Slots -> Units], NEW rg2, NEW c \in Cards, NEW c2 \in Cards,
         NEW m \in Nat, m <= RingLoad(c), RingLoad(c2) = RingLoad(c) - m,
         c2.num = c.num, c2.quarter = c.quarter, c2.insync = c.insync, c2.dropped = c.dropped,
         \A o \in Nat : o < RingLoad(c2) => UnitAt(rg2, c2.r, o) = UnitAt(rg, c.r, m + o),
         Chained(rg, c), Goes(rg, c)
  PROVE  Chained(rg2, c2) /\ Goes(rg2, c2)
  <1>0. RingLoad(c) \in 0..Size - 1 /\ c.r \in Slots /\ RingLoad(c2) \in Nat
    BY CardLoadIs DEF Cards
  <1>1. Chained(rg2, c2)
    <2> SUFFICES ASSUME NEW o \in Nat, o < RingLoad(c2)
                 PROVE  Joins(rg2, c2.r, o, UnitAt(rg2, c2.r, o))
      BY DEF Chained
    <2>1. m + o \in Nat /\ m + o < RingLoad(c) /\ m + o \in 0..Size
      BY <1>0, Constants
    <2>2. Joins(rg, c.r, m + o, UnitAt(rg, c.r, m + o))
      BY <2>1 DEF Chained
    <2>3. UnitAt(rg2, c2.r, o) = UnitAt(rg, c.r, m + o)
      OBVIOUS
    <2>4. UnitAt(rg, c.r, m + o).part \in Int
      BY <1>0, <2>1, UnitAtIs
    <2>5. \A n \in Nat : n < o => UnitAt(rg2, c2.r, n) = UnitAt(rg, c.r, m + n)
      BY <1>0
    <2> QED BY <2>2, <2>3, <2>4, <2>5, JoinsMoved
  <1>2. Goes(rg2, c2)
    <2> DEFINE u == Unit(c.num, Upto(c.quarter) * Stride + 1)
    <2>1. SUFFICES ASSUME c.insync, ~c.dropped, c.quarter < Quarters
                   PROVE  Joins(rg2, c2.r, RingLoad(c2), u)
      BY DEF Goes
    <2>2. Joins(rg, c.r, m + RingLoad(c2), u)
      <3>1. Joins(rg, c.r, RingLoad(c), u)
        BY <2>1 DEF Goes
      <3>2. m + RingLoad(c2) = RingLoad(c)
        BY <1>0
      <3> QED BY <3>1, <3>2
    <2>3. u.part \in Int
      <3>1. c.quarter \in Nat
        BY Constants DEF Cards
      <3>2. Upto(c.quarter) \in Int
        BY <3>1, Constants DEF Upto
      <3> QED BY <3>2, Constants DEF Unit
    <2> QED BY <1>0, <2>2, <2>3, JoinsMoved, ZenonT(60)
  <1> QED BY <1>1, <1>2

LEMMA InsideIs ==
  ASSUME NEW rg, NEW x \in Sides, NEW c \in Cards, Inside(x, c)
  PROVE  /\ Off(x.r, c.r) \in 0..1 /\ On(c.r, Off(x.r, c.r)) = x.r
         /\ \A o \in Nat : o <= RingLoad(x)
              => UnitAt(rg, x.r, o) = UnitAt(rg, c.r, Off(x.r, c.r) + o)
  <1> DEFINE d == Off(x.r, c.r)
  <1>1. x.r \in Slots /\ c.r \in Slots
    BY DEF Sides, Cards
  <1>2. d \in 0..Size - 1 /\ d <= 1 /\ On(c.r, d) = x.r
    BY <1>1, OffIs, OnOfOff DEF Inside
  <1>3. d + RingLoad(x) <= Size
    <2>1. RingLoad(c) \in 0..Size - 1 /\ RingLoad(x) \in 0..Size - 1
      BY LoadIs, CardLoadIs
    <2> QED BY <2>1, <1>2, Constants DEF Inside
  <1>4. ASSUME NEW o \in Nat, o <= RingLoad(x)
        PROVE  UnitAt(rg, x.r, o) = UnitAt(rg, c.r, d + o)
    <2>1. RingLoad(x) \in Nat
      BY LoadIs
    <2> HIDE DEF d
    <2>2. UnitAt(rg, On(c.r, d), o) = UnitAt(rg, c.r, d + o)
      BY <1>1, <1>2, <1>3, <1>4, <2>1, UnitAtMoved, Constants
    <2> QED BY <1>2, <2>2
  <1> QED BY <1>2, <1>4

\* A frame at the read offset is whole up to its last line.
LEMMA FrameIsWhole ==
  ASSUME TypeInv, Chained(ring, card), Inside(rx, card), FrameAt(ring, rx)
  PROVE  /\ PictureAt(rx).whole /\ PictureAt(rx).id = rx.expected
         /\ PictureAt(rx) \in Shots
  <1> DEFINE d == Off(rx.r, card.r)
             U(o) == UnitAt(ring, card.r, d + o)
             u == U(Last)
             id == At(rx, 0).id
  <1>1. rx \in Sides /\ card \in Cards /\ ring \in [Slots -> Units] /\ card.r \in Slots
        /\ rx.r \in Slots
    BY DEF TypeInv, Cards, Sides
  <1>2. RingLoad(rx) \in 0..Size - 1 /\ RingLoad(card) \in 0..Size - 1
    BY <1>1, LoadIs, CardLoadIs
  <1>3. d \in 0..1 /\ d + RingLoad(rx) <= RingLoad(card) /\ RingLoad(rx) >= CodedSize
    BY <1>1, InsideIs DEF Inside, FrameAt
  <1>4. \A o \in 0..Last : At(rx, o) = U(o)
    <2>1. ASSUME NEW o \in 0..Last PROVE At(rx, o) = U(o)
      <3>1. o \in Nat /\ o <= RingLoad(rx)
        BY <1>2, <1>3, Constants
      <3>2. At(rx, o) = UnitAt(ring, rx.r, o)
        BY <1>1, AtIs
      <3>3. UnitAt(ring, rx.r, o) = UnitAt(ring, card.r, Off(rx.r, card.r) + o)
        BY <1>1, <3>1, InsideIs
      <3> QED BY <3>2, <3>3
    <2> QED BY <2>1
  <1>5. /\ At(rx, 0).part = 0 /\ id = rx.expected /\ At(rx, Last).part = Last
    <2>1. At(rx, 0) = UnitAt(ring, rx.r, 0) /\ At(rx, Last) = UnitAt(ring, rx.r, Last)
      BY <1>1, AtIs
    <2> QED BY <2>1 DEF FrameAt, Header
  <1>6. Joins(ring, card.r, d + Last, u)
    <2>1. d + Last \in Nat /\ d + Last < RingLoad(card)
      BY <1>2, <1>3, Constants
    <2> QED BY <2>1 DEF Chained
  <1>7. u.part = Last /\ U(0).part = 0 /\ U(0).id = id
    <2>1. Last \in 0..Last /\ 0 \in 0..Last
      BY Constants
    <2> QED BY <1>4, <1>5, <2>1
  <1>8. \A p \in 0..Last : U(p) \in Units
    <2>1. ASSUME NEW p \in 0..Last PROVE U(p) \in Units
      <3>1. d + p \in 0..Size
        BY <1>3, Constants
      <3> QED BY <1>1, <3>1, UnitAtIs
    <2> QED BY <2>1
  <1>9. \A p \in 0..Last - 1 :
          U(p).id = u.id /\ (p > 0 => U(p).part = p)
    <2>1. ASSUME NEW p \in 0..Last - 1
          PROVE  U(p).id = u.id /\ (p > 0 => U(p).part = p)
      <3>1. Last - p \in Nat /\ Last - p >= 1 /\ Last - p <= u.part /\ Last - p <= d + Last
            /\ (d + Last) - (Last - p) = d + p
        BY <1>3, <1>7, Constants
      <3>2. Before(u, UnitAt(ring, card.r, (d + Last) - (Last - p)), Last - p)
        BY <1>6, <3>1 DEF Joins
      <3>3. Before(u, U(p), Last - p)
        BY <3>1, <3>2
      <3>4. (Last - p < Last) = (p > 0) /\ Last - (Last - p) = p
        BY Constants
      <3> HIDE DEF u, U, d
      <3> QED BY <1>7, <3>3, <3>4 DEF Before
    <2> QED BY <2>1
  <1>10. u.id = id
    <2>1. 0 \in 0..Last - 1
      BY Constants
    <2> HIDE DEF u, U, d, id
    <2> QED BY <1>7, <1>9, <2>1
  <1>11. ASSUME NEW p \in 0..Last
         PROVE  At(rx, p) = Unit(id, p)
    <2>1. U(p).id = id /\ U(p).part = p
      <3> HIDE DEF U, d, id
      <3>1. CASE p = Last
        BY <3>1, <1>7, <1>10
      <3>2. CASE p # Last
        <4>1. p \in 0..Last - 1
          BY <3>2, Constants
        <4> QED BY <4>1, <1>7, <1>9, <1>10
      <3> QED BY <3>1, <3>2
    <2>2. U(p) \in Units
      BY <1>8
    <2>3. U(p) = Unit(id, p)
      <3> HIDE DEF U, d, id
      <3> QED BY <2>1, <2>2 DEF Units, Unit
    <2> QED BY <1>4, <2>3
  <1>12. PictureAt(rx).whole /\ PictureAt(rx).id = id
    <2>1. LineUnits - Stride + 1 = Last
      BY Constants
    <2> HIDE DEF id
    <2>2. PictureAt(rx).whole = \A p \in 0..Last : At(rx, p) = Unit(At(rx, 0).id, p)
      BY <2>1 DEF PictureAt
    <2> QED BY <1>11, <2>2 DEF id, PictureAt
  <1>13. PictureAt(rx) \in Shots
    <2>1. rx.expected \in UnitIds
      BY <1>1 DEF Sides
    <2>2. id \in -1..Ids - 1
      BY <1>5, <2>1, Constants DEF UnitIds
    <2> HIDE DEF id
    <2>3. /\ PictureAt(rx) = [id |-> PictureAt(rx).id, whole |-> PictureAt(rx).whole,
                             torn |-> PictureAt(rx).torn, stale |-> PictureAt(rx).stale]
          /\ {PictureAt(rx).whole, PictureAt(rx).torn, PictureAt(rx).stale} \subseteq BOOLEAN
      BY Zenon DEF PictureAt
    <2> QED BY <1>12, <2>2, <2>3 DEF Shots
  <1> QED BY <1>5, <1>12, <1>13

--------------------------------------------------------------------------------
(* The driver is told of the read offset: the card keeps what the side has *)
(* not passed, and the unit before when there is nothing more.              *)

LEMMA TellIs ==
  ASSUME TypeInv, card.run, Chained(ring, card), Goes(ring, card),
         NEW STATE x, x \in Sides, Off(x.r, card.r) + RingLoad(x) <= RingLoad(card),
         RingLoad(x) > 0 \/ Off(x.r, card.r) >= 1,
         Tell(x)
  PROVE  /\ card' \in Cards /\ card'.run /\ ring' \in [Slots -> Units]
         /\ Chained(ring', card') /\ Goes(ring', card')
         /\ Off(x.r, card'.r) + RingLoad(x) <= RingLoad(card') /\ Off(x.r, card'.r) <= 1
         /\ \A o \in Nat : o < RingLoad(x) => UnitAt(ring', x.r, o) = UnitAt(ring, x.r, o)
  <1> DEFINE d == Off(x.r, card.r)
             e == RingLoad(x)
             L == RingLoad(card)
             told == Told(x)
             m == IF e > 0 THEN d ELSE d - 1
  <1>1. /\ card \in Cards /\ ring \in [Slots -> Units]
        /\ card.r \in Slots /\ card.w \in Slots /\ x.r \in Slots
    BY DEF TypeInv, Cards, Sides
  <1>2. d \in 0..Size - 1 /\ e \in 0..Size - 1 /\ L \in 0..Size - 1 /\ d + e <= L
    BY <1>1, LoadIs, CardLoadIs, OffIs
  <1>3. L = Off(card.w, card.r) /\ Off(card.w, x.r) = L - d
    <2>1. L = Off(card.w, card.r)
      BY <1>1, CardLoadIs
    <2>2. d <= L
      BY <1>2, Constants
    <2> QED BY <1>1, <2>1, <2>2, OffBetween
  <1>4. /\ m \in 0..Size - 1 /\ m <= d /\ d - m <= 1
        /\ told \in Slots /\ Off(card.w, told) = L - m /\ L - m > 0
        /\ Off(x.r, told) = d - m /\ told = On(card.r, m)
    <2>1. CASE e > 0
      <3>1. told = x.r /\ m = d
        BY <2>1 DEF Told
      <3>2. Off(x.r, x.r) = 0
        <4>1. Off(x.r, x.r) = IF x.r >= x.r THEN x.r - x.r ELSE x.r - x.r + Size
          BY <1>1, OffIs
        <4>2. x.r \in Nat
          BY <1>1, Constants DEF Slots
        <4> QED BY <4>1, <4>2
      <3>3. On(card.r, d) = x.r
        BY <1>1, OnOfOff
      <3> HIDE DEF m, told, d, e, L
      <3> QED BY <1>1, <1>2, <1>3, <2>1, <3>1, <3>2, <3>3, Constants DEF d
    <2>2. CASE e = 0
      <3>1. told = (x.r + Size - 1) % Size /\ m = d - 1
        BY <2>2 DEF Told
      <3>2. d >= 1
        BY <2>2
      <3>3. Off(card.w, x.r) + 1 < Size
        BY <1>2, <1>3, <3>2, Constants
      <3>4. told \in Slots /\ Off(card.w, told) = L - d + 1 /\ Off(x.r, told) = 1
        <4> HIDE DEF told, L, d
        <4> QED BY <1>1, <1>3, <3>1, <3>3, OffOfBefore
      <3>5. On(card.r, d) = x.r
        BY <1>1, OnOfOff
      <3>6. told = On(card.r, d - 1)
        <4> DEFINE n == d - 1
        <4>1. n \in 0..Size - 1 /\ d = n + 1 /\ d \in 0..Size
          BY <1>2, <3>2, Constants
        <4> HIDE DEF n, d, told
        <4>2. On(card.r, n) = (On(card.r, d) + Size - 1) % Size
          BY <1>1, <4>1, OnBefore
        <4> QED BY <3>1, <3>5, <4>1, <4>2 DEF n
      <3> HIDE DEF m, told, d, e, L
      <3> QED BY <1>2, <3>1, <3>2, <3>4, <3>6, Constants
    <2> QED BY <1>2, <2>1, <2>2, Constants
  <1>5. card' = [card EXCEPT !.r = told]
    <2>1. (card.w + Size - told) % Size > 0
      BY <1>4 DEF Off
    <2> HIDE DEF told
    <2>2. card' = UpdateReadOffset(card, told)
      BY DEF Tell, told
    <2> QED BY <2>1, <2>2 DEF UpdateReadOffset
  <1>6. card' \in Cards
    <2>1. told \in Slots
      BY <1>4
    <2> HIDE DEF told
    <2> QED BY <1>1, <1>5, <2>1, Zenon DEF Cards
  <1>7. /\ card'.r = told /\ card'.w = card.w /\ card'.run = card.run /\ card'.num = card.num
        /\ card'.quarter = card.quarter /\ card'.insync = card.insync
        /\ card'.dropped = card.dropped
    BY <1>1, <1>5 DEF Cards
  <1>8. RingLoad(card') = L - m
    BY <1>4, <1>6, <1>7 DEF RingLoad, Off
  <1>9. ring' = [s \in Slots |-> IF Off(s, told) < L - m THEN ring[s] ELSE Unit(0, Blank)]
    <2>1. ring' = [s \in Slots |-> IF (s + Size - card'.r) % Size < RingLoad(card')
                                   THEN ring[s] ELSE Unit(0, Blank)]
      BY DEF Tell, Kept
    <2> HIDE DEF told, L, m
    <2> QED BY <1>7, <1>8, <2>1 DEF Off
  <1>10. ring' \in [Slots -> Units]
    <2>1. Unit(0, Blank) \in Units
      BY Constants DEF Units, Unit, Blank, UnitIds
    <2> QED BY <1>1, <1>9, <2>1
  <1> HIDE DEF m, told, d, e, L
  <1>11. ASSUME NEW o \in Nat, o < L - m
         PROVE  /\ UnitAt(ring', told, o) = UnitAt(ring, told, o)
                /\ UnitAt(ring', told, o) = UnitAt(ring, card.r, m + o)
    <2>1. o \in 0..Size - 1 /\ o \in 0..Size /\ m + o <= Size /\ m \in Nat
      BY <1>2, <1>4, <1>11, Constants
    <2>2. On(told, o) \in Slots /\ Off(On(told, o), told) = o
      BY <1>4, <2>1, OnIs, OffOfOn
    <2>3. ring'[On(told, o)] = ring[On(told, o)]
      BY <1>9, <1>11, <2>2
    <2>4. UnitAt(ring, On(card.r, m), o) = UnitAt(ring, card.r, m + o)
      BY <1>1, <2>1, UnitAtMoved
    <2> QED BY <1>4, <2>3, <2>4 DEF UnitAt
  <1>12. Chained(ring', card') /\ Goes(ring', card')
    <2>1. m \in Nat /\ m <= RingLoad(card) /\ RingLoad(card') = RingLoad(card) - m
      BY <1>2, <1>4, <1>8, Constants DEF L
    <2>2. \A o \in Nat : o < RingLoad(card')
                       => UnitAt(ring', card'.r, o) = UnitAt(ring, card.r, m + o)
      BY <1>7, <1>8, <1>11
    <2> QED BY <1>1, <1>6, <1>7, <2>1, <2>2, ChainMoved
  <1>13. Off(x.r, card'.r) = d - m /\ d - m + e <= L - m
    BY <1>2, <1>4, <1>7, Constants
  <1>14. ASSUME NEW o \in Nat, o < e
         PROVE  UnitAt(ring', x.r, o) = UnitAt(ring, x.r, o)
    <2> DEFINE q == d - m
    <2>1. q \in Nat /\ q + o \in Nat /\ q + o < L - m /\ q + o <= Size
      BY <1>2, <1>4, <1>14, Constants
    <2>2. On(told, q) = x.r
      BY <1>1, <1>4, OnOfOff
    <2> HIDE DEF q
    <2>3. \A rg : UnitAt(rg, x.r, o) = UnitAt(rg, told, q + o)
      BY <1>4, <2>1, <2>2, UnitAtMoved
    <2>4. UnitAt(ring', told, q + o) = UnitAt(ring, told, q + o)
      BY <1>11, <2>1
    <2>5. UnitAt(ring', x.r, o) = UnitAt(ring', told, q + o)
      BY <2>3
    <2>6. UnitAt(ring, x.r, o) = UnitAt(ring, told, q + o)
      BY <2>3
    <2> QED BY <2>4, <2>5, <2>6
  <1>15. card'.run
    BY <1>7
  <1>16. Off(x.r, card'.r) + RingLoad(x) <= RingLoad(card') /\ Off(x.r, card'.r) <= 1
    BY <1>4, <1>8, <1>13 DEF e
  <1> QED BY <1>6, <1>10, <1>12, <1>14, <1>15, <1>16 DEF e

--------------------------------------------------------------------------------
(* What the card writes at an event.                                       *)

LEMMA UptoIs ==
  ASSUME NEW q \in Nat
  PROVE  Upto(q) \in Int /\ Upto(q) <= Upto(q + 1) /\ Upto(0) = 0
  <1> DEFINE a == Lines * q + Quarters - 1
             b == Lines * (q + 1) + Quarters - 1
             x == a \div Quarters
             y == b \div Quarters
  <1>1. Lines * q \in Nat /\ Lines * (q + 1) = Lines * q + Lines /\ Lines * 0 = 0
    BY Constants
  <1>2. a \in Nat /\ b \in Nat /\ a <= b /\ x \in Int /\ y \in Int
    BY <1>1, Constants
  <1>3. Quarters * x <= a /\ b < Quarters * (y + 1)
    <2> HIDE DEF a, b
    <2> QED BY <1>2, Constants
  <1>4. x <= y
    <2> SUFFICES ASSUME x >= y + 1 PROVE FALSE
      BY <1>2
    <2> HIDE DEF x, y, a, b
    <2>1. Quarters * x >= Quarters * (y + 1)
      BY <1>2, Constants
    <2> QED BY <1>2, <1>3, <2>1, Constants
  <1>5. (Lines * 0 + Quarters - 1) \div Quarters = 0
    <2>1. Lines * 0 + Quarters - 1 = Quarters - 1 /\ Quarters - 1 \in Nat
          /\ Quarters - 1 < Quarters
      BY <1>1, Constants
    <2> QED BY <2>1, Constants
  <1> QED BY <1>2, <1>4, <1>5 DEF Upto

\* What c, with its frame started if one begins, writes.
EventUnits(c, begins, fault) ==
  (IF begins THEN HeaderOf(c, fault) ELSE <<>>)
  \o (IF begins /\ RingFree(c) = 0 /\ c.insync THEN <<>> ELSE LinesOf(c))

\* The part of the unit before the first line unit.
BaseOf(c, begins) == IF begins THEN -1 ELSE Upto(c.quarter) * Stride

LEMMA LinesAre ==
  ASSUME NEW c \in Cards, c.quarter < Quarters, c.insync, ~c.dropped
  PROVE  /\ LinesOf(c) \in Seq(Units)
         /\ Upto(c.quarter) * Stride \in Int /\ Upto(c.quarter + 1) * Stride \in Int
         /\ Len(LinesOf(c)) = Upto(c.quarter + 1) * Stride - Upto(c.quarter) * Stride
         /\ \A p \in 1..Len(LinesOf(c)) :
              LinesOf(c)[p] = Unit(c.num, Upto(c.quarter) * Stride + p)
  <1> DEFINE before == Upto(c.quarter) * Stride
             after == Upto(c.quarter + 1) * Stride
             n == after - before
             s == [p \in 1..n |-> Unit(c.num, before + p)]
  <1>1. c.quarter \in Nat /\ c.quarter + 1 \in Nat /\ c.num \in UnitIds
    BY Constants DEF Cards
  <1>2. Upto(c.quarter) \in Int /\ Upto(c.quarter + 1) \in Int
        /\ Upto(c.quarter) <= Upto(c.quarter + 1)
    BY <1>1, UptoIs
  <1>3. before \in Int /\ after \in Int /\ before <= after /\ n \in Nat
    BY <1>2, Constants
  <1>4. LinesOf(c) = s
    BY DEF LinesOf
  <1> HIDE DEF n, before, after
  <1>5. \A p \in 1..n : s[p] = Unit(c.num, before + p) /\ s[p] \in Units
    <2>1. ASSUME NEW p \in 1..n PROVE Unit(c.num, before + p) \in Units
      BY <1>1, <1>3 DEF Unit, Units
    <2> QED BY <2>1
  <1>6. s \in Seq(Units) /\ Len(s) = n
    <2>1. s \in [1..n -> Units]
      BY <1>5
    <2> HIDE DEF s
    <2>2. s \in Seq(Units)
      BY <1>3, <2>1, SeqDef
    <2> QED BY <1>3, <2>1, <2>2, LenProperties
  <1> HIDE DEF s
  <1>7. \A p \in 1..Len(LinesOf(c)) : LinesOf(c)[p] = Unit(c.num, before + p)
    BY <1>4, <1>5, <1>6
  <1>8. LinesOf(c) \in Seq(Units) /\ Len(LinesOf(c)) = n
    BY <1>4, <1>6
  <1> QED BY <1>3, <1>7, <1>8 DEF n, before, after

LEMMA FittingIs ==
  ASSUME NEW c \in Cards, NEW units \in Seq(Units)
  PROVE  /\ Len(Fitting(c, units)) \in Nat /\ Len(Fitting(c, units)) <= Len(units)
         /\ RingLoad(c) + Len(Fitting(c, units)) <= Size - 1
         /\ \A j \in 1..Len(Fitting(c, units)) :
              Fitting(c, units)[j] = units[j] /\ units[j] \in Units
         /\ Len(Fitting(c, units)) < Len(units)
              => RingLoad(c) + Len(Fitting(c, units)) = Size - 1
  <1> DEFINE free == RingFree(c)
             n == Min({Len(units), free})
  <1>1. RingLoad(c) \in 0..Size - 1
    BY CardLoadIs
  <1>2. free \in Nat /\ free = Size - 1 - RingLoad(c)
    BY <1>1, Constants DEF RingFree, CardLoad
  <1>3. Len(units) \in Nat
    BY LenProperties
  <1>4. n \in Nat /\ n <= Len(units) /\ n <= free /\ (n = Len(units) \/ n = free)
    <2> DEFINE S == {Len(units), free}
    <2>1. S \subseteq Nat /\ S # {}
      BY <1>2, <1>3
    <2>2. Min(S) \in S /\ \A m \in S : Min(S) <= m
      BY <2>1, MinIsLeast
    <2> QED BY <1>2, <1>3, <2>2
  <1>5. Fitting(c, units) = SubSeq(units, 1, n)
    BY DEF Fitting
  <1> HIDE DEF n
  <1>6. \A j \in 1..n : units[j] \in Units
    BY <1>3, <1>4, ElementOfSeq
  <1>7. /\ SubSeq(units, 1, n) \in Seq(Units)
        /\ Len(SubSeq(units, 1, n)) = (IF 1 <= n THEN n - 1 + 1 ELSE 0)
        /\ \A j \in 1..n - 1 + 1 : SubSeq(units, 1, n)[j] = units[1 + j - 1]
    BY <1>4, <1>6, SubSeqProperties
  <1>8. Len(Fitting(c, units)) = n
    BY <1>4, <1>5, <1>7
  <1>9. \A j \in 1..n : Fitting(c, units)[j] = units[j]
    <2>1. ASSUME NEW j \in 1..n PROVE Fitting(c, units)[j] = units[j]
      <3>1. j \in 1..n - 1 + 1 /\ 1 + j - 1 = j
        BY <1>4
      <3> QED BY <1>5, <1>7, <3>1
    <2> QED BY <2>1
  <1>10. RingLoad(c) + n <= Size - 1 /\ (n < Len(units) => RingLoad(c) + n = Size - 1)
    BY <1>1, <1>2, <1>3, <1>4, Constants
  <1> QED BY <1>4, <1>6, <1>8, <1>9, <1>10

LEMMA WriteIs ==
  ASSUME ring \in [Slots -> Units], NEW c \in Cards, NEW units \in Seq(Units), NEW n,
         n = Len(Fitting(c, units))
  PROVE  /\ Advanced(c, units) \in Cards
         /\ Advanced(c, units).run = c.run /\ Advanced(c, units).r = c.r
         /\ Advanced(c, units).num = c.num /\ Advanced(c, units).quarter = c.quarter
         /\ Advanced(c, units).insync = c.insync
         /\ Advanced(c, units).dropped <=> c.dropped \/ n < Len(units)
         /\ RingLoad(Advanced(c, units)) = RingLoad(c) + n
         /\ Written(c, units) \in [Slots -> Units]
         /\ \A o \in Nat : o < RingLoad(c)
              => UnitAt(Written(c, units), c.r, o) = UnitAt(ring, c.r, o)
         /\ \A j \in 1..n : UnitAt(Written(c, units), c.r, RingLoad(c) + j - 1) = units[j]
  <1> DEFINE L == RingLoad(c)
             put == Fitting(c, units)
             rg == Written(c, units)
  <1>1. c.r \in Slots /\ c.w \in Slots
    BY DEF Cards
  <1>2. L \in 0..Size - 1 /\ L = Off(c.w, c.r)
    BY CardLoadIs
  <1>3. /\ n \in Nat /\ L + n <= Size - 1
        /\ \A j \in 1..n : put[j] = units[j] /\ units[j] \in Units
    BY FittingIs
  <1>4. n \in 0..Size
    BY <1>2, <1>3, Constants
  <1>5. On(c.w, n) \in Slots /\ Off(On(c.w, n), c.r) = L + n
    BY <1>1, <1>2, <1>3, OffOfFilled
  <1>6. Advanced(c, units) = [c EXCEPT !.w = On(c.w, n), !.dropped = @ \/ n < Len(units)]
    BY DEF Advanced, On
  <1>7. Advanced(c, units) \in Cards
    <2> DEFINE b == c.dropped \/ n < Len(units)
    <2>1. Advanced(c, units) = [c EXCEPT !.w = On(c.w, n), !.dropped = b]
      BY <1>6
    <2>2. b \in BOOLEAN
      BY Zenon DEF Cards
    <2> HIDE DEF b
    <2> QED BY <1>5, <2>1, <2>2, Zenon DEF Cards
  <1>8. RingLoad(Advanced(c, units)) = L + n
    <2>1. Advanced(c, units).w = On(c.w, n) /\ Advanced(c, units).r = c.r
      BY <1>6 DEF Cards
    <2> QED BY <1>5, <2>1 DEF RingLoad, Off
  <1>9. rg = [s \in Slots |-> IF Off(s, c.w) + 1 <= n THEN put[Off(s, c.w) + 1] ELSE ring[s]]
    BY DEF Written, Off
  <1> HIDE DEF rg, put, L
  <1>10. rg \in [Slots -> Units]
    <2>1. ASSUME NEW s \in Slots PROVE rg[s] \in Units
      <3>1. Off(s, c.w) \in 0..Size - 1
        BY <1>1, OffIs
      <3>2. CASE Off(s, c.w) + 1 <= n
        <4>1. Off(s, c.w) + 1 \in 1..n
          BY <1>3, <3>1, <3>2, Constants
        <4> QED BY <1>3, <1>9, <3>2, <4>1
      <3>3. CASE ~(Off(s, c.w) + 1 <= n)
        BY <1>9, <3>3
      <3> QED BY <3>2, <3>3
    <2> QED BY <1>9, <2>1
  <1>11. ASSUME NEW o \in Nat, o < L
         PROVE  UnitAt(rg, c.r, o) = UnitAt(ring, c.r, o)
    <2> DEFINE s == On(c.r, o)
    <2>1. o \in 0..Size - 1 /\ o \in 0..Size
      BY <1>2, <1>11, Constants
    <2>2. s \in Slots /\ Off(s, c.r) = o
      BY <1>1, <2>1, OnIs, OffOfOn
    <2> HIDE DEF s
    <2>3. Off(c.w, s) = L - o
      <3>1. Off(s, c.r) <= Off(c.w, c.r)
        BY <1>2, <1>11, <2>1, <2>2, Constants
      <3> QED BY <1>1, <1>2, <2>2, <3>1, OffBetween
    <2>4. Off(s, c.w) + Off(c.w, s) = Size
      <3>1. Off(c.w, s) > 0
        <4>1. L - o > 0
          BY <1>2, <1>11, Constants
        <4> QED BY <2>3, <4>1
      <3> QED BY <1>1, <2>2, <3>1, OffTurned
    <2>5. Off(s, c.w) \in 0..Size - 1
      BY <1>1, <2>2, OffIs
    <2>6. ~(Off(s, c.w) + 1 <= n)
      BY <1>2, <1>3, <1>11, <2>1, <2>3, <2>4, <2>5, Constants, SMTT(30)
    <2>7. rg[s] = ring[s]
      BY <1>9, <2>2, <2>6
    <2> QED BY <2>7 DEF UnitAt, s
  <1>12. ASSUME NEW j \in 1..n
         PROVE  UnitAt(rg, c.r, L + j - 1) = units[j]
    <2> DEFINE o == L + j - 1
               s == On(c.r, o)
    <2>1. o \in 0..Size - 1 /\ o \in 0..Size /\ o - L = j - 1 /\ o >= L
      BY <1>2, <1>3, Constants
    <2> HIDE DEF o
    <2>2. s \in Slots /\ Off(s, c.r) = o
      BY <1>1, <2>1, OnIs, OffOfOn
    <2> HIDE DEF s
    <2>3. Off(s, c.w) = j - 1
      <3>1. Off(c.w, c.r) <= Off(s, c.r)
        BY <1>2, <2>1, <2>2
      <3>2. Off(s, c.w) = Off(s, c.r) - Off(c.w, c.r)
        BY <1>1, <2>2, <3>1, OffBetween
      <3> QED BY <1>2, <2>1, <2>2, <3>2
    <2>4. Off(s, c.w) + 1 = j /\ j <= n
      BY <1>3, <2>3
    <2>5. rg[s] = put[j]
      BY <1>9, <2>2, <2>4
    <2>6. rg[s] = units[j]
      BY <1>3, <2>5
    <2> QED BY <2>6 DEF UnitAt, s, o
  <1>13. /\ Advanced(c, units).run = c.run /\ Advanced(c, units).r = c.r
         /\ Advanced(c, units).num = c.num /\ Advanced(c, units).quarter = c.quarter
         /\ Advanced(c, units).insync = c.insync
         /\ Advanced(c, units).dropped <=> c.dropped \/ n < Len(units)
    <2> DEFINE b == c.dropped \/ n < Len(units)
    <2>1. Advanced(c, units) = [c EXCEPT !.w = On(c.w, n), !.dropped = b]
      BY <1>6
    <2> HIDE DEF b
    <2>2. /\ Advanced(c, units).run = c.run /\ Advanced(c, units).r = c.r
          /\ Advanced(c, units).num = c.num /\ Advanced(c, units).quarter = c.quarter
          /\ Advanced(c, units).insync = c.insync /\ Advanced(c, units).dropped = b
      BY <2>1 DEF Cards
    <2> QED BY <2>2 DEF b
  <1> QED BY <1>7, <1>8, <1>10, <1>11, <1>12, <1>13 DEF rg, L

\* Units past the header of a frame are as their number says.
Placed(c, begins, units) ==
  \A j \in 1..Len(units) : IF begins /\ j = 1 THEN units[j].part <= 0 /\ units[j].id = c.num
                           ELSE units[j] = Unit(c.num, BaseOf(c, begins) + j)

LEMMA UnitsAre ==
  ASSUME NEW c \in Cards, NEW begins \in BOOLEAN, NEW fault, c.quarter < Quarters,
         begins => c.quarter = 0 /\ ~c.dropped,
         NEW units, units = EventUnits(c, begins, fault)
  PROVE  /\ units \in Seq(Units)
         /\ ~c.insync \/ c.dropped => Len(units) = 0
         /\ c.insync /\ ~c.dropped
            => /\ BaseOf(c, begins) \in Int /\ Placed(c, begins, units)
               /\ \/ Len(units) + BaseOf(c, begins) = Upto(c.quarter + 1) * Stride
                  \/ begins /\ RingFree(c) = 0 /\ Len(units) = 1
  <1> DEFINE head == IF begins THEN HeaderOf(c, fault) ELSE <<>>
             lines == IF begins /\ RingFree(c) = 0 /\ c.insync THEN <<>> ELSE LinesOf(c)
             part == CASE fault = "sync" -> BadSync [] fault = "format" -> BadFormat
                       [] OTHER -> Header
  <1>0. <<>> \in Seq(Units) /\ Len(<<>>) = 0
    BY EmptySeq
  <1>1. units = head \o lines
    BY DEF EventUnits
  <1>2. CASE ~c.insync \/ c.dropped
    <2>1. head = <<>> /\ lines = <<>>
      BY <1>2 DEF HeaderOf, LinesOf
    <2> HIDE DEF head, lines
    <2>2. units \in Seq(Units) /\ Len(units) = 0 + 0
      BY <1>0, <1>1, <2>1, ConcatProperties
    <2> QED BY <1>2, <2>2
  <1>3. CASE c.insync /\ ~c.dropped
    <2>1. part \in {0, -1, -2}
      BY DEF Header, BadFormat, BadSync
    <2>2. c.num \in UnitIds /\ c.quarter \in Nat
      BY Constants DEF Cards
    <2>3. begins => head = <<Unit(c.num, part)>>
      BY <1>3 DEF HeaderOf
    <2> HIDE DEF part
    <2>4. /\ Unit(c.num, part) \in Units /\ Unit(c.num, part).part <= 0
          /\ Unit(c.num, part).id = c.num
      BY <2>1, <2>2 DEF Unit, Units
    <2>5. /\ head \in Seq(Units) /\ Len(head) = (IF begins THEN 1 ELSE 0)
          /\ begins => head[1].part <= 0 /\ head[1].id = c.num
      <3>1. CASE begins
        <4> DEFINE u == Unit(c.num, part)
        <4>1. head = <<u>>
          BY <2>3, <3>1
        <4>2. u \in Units /\ u.part <= 0 /\ u.id = c.num
          BY <2>4
        <4> HIDE DEF u, head
        <4> QED BY <3>1, <4>1, <4>2
      <3>2. CASE ~begins
        BY <1>0, <3>2
      <3> QED BY <3>1, <3>2
    <2>6. /\ LinesOf(c) \in Seq(Units)
          /\ Upto(c.quarter) * Stride \in Int /\ Upto(c.quarter + 1) * Stride \in Int
          /\ Len(LinesOf(c)) = Upto(c.quarter + 1) * Stride - Upto(c.quarter) * Stride
          /\ \A p \in 1..Len(LinesOf(c)) :
               LinesOf(c)[p] = Unit(c.num, Upto(c.quarter) * Stride + p)
      BY <1>3, LinesAre
    <2>7. (lines = <<>> /\ begins /\ RingFree(c) = 0) \/ lines = LinesOf(c)
      OBVIOUS
    <2>8. lines \in Seq(Units)
      BY <1>0, <2>6
    <2> HIDE DEF head, lines
    <2>9. /\ units \in Seq(Units) /\ Len(units) = Len(head) + Len(lines)
          /\ \A j \in 1..Len(head) + Len(lines) :
               units[j] = IF j <= Len(head) THEN head[j] ELSE lines[j - Len(head)]
      <3>1. head \in Seq(Units)
        BY <2>5
      <3>2. /\ head \o lines \in Seq(Units) /\ Len(head \o lines) = Len(head) + Len(lines)
            /\ \A j \in 1..Len(head) + Len(lines) :
                 (head \o lines)[j] = IF j <= Len(head) THEN head[j] ELSE lines[j - Len(head)]
        BY <2>8, <3>1, ConcatProperties, Zenon
      <3> QED BY <1>1, <3>2
    <2> DEFINE base == BaseOf(c, begins)
               before == Upto(c.quarter) * Stride
               after == Upto(c.quarter + 1) * Stride
    <2>10. base \in Int /\ base = before - Len(head)
      <3>1. CASE begins
        <4>1. Upto(c.quarter) = 0
          BY <3>1, <2>2, UptoIs
        <4>2. before = 0
          BY <4>1, Constants
        <4> QED BY <3>1, <2>5, <4>2 DEF BaseOf
      <3>2. CASE ~begins
        BY <3>2, <2>5, <2>6 DEF BaseOf
      <3> QED BY <3>1, <3>2
    <2>11. /\ before \in Int /\ after \in Int /\ Len(head) \in Nat /\ Len(lines) \in Nat
      BY <2>5, <2>6, <2>8, LenProperties
    <2>12. \A p \in 1..Len(lines) : lines[p] = Unit(c.num, before + p)
      <3>1. CASE lines = <<>>
        BY <3>1, <1>0
      <3>2. CASE lines = LinesOf(c)
        BY <3>2, <2>6
      <3> QED BY <2>7, <3>1, <3>2
    <2>13. /\ \/ Len(lines) = after - before
              \/ begins /\ RingFree(c) = 0 /\ Len(lines) = 0
      BY <1>0, <2>6, <2>7
    <2> HIDE DEF base, before, after
    <2>14. ASSUME NEW j \in 1..Len(units)
           PROVE  IF begins /\ j = 1 THEN units[j].part <= 0 /\ units[j].id = c.num
                  ELSE units[j] = Unit(c.num, base + j)
      <3>1. units[j] = IF j <= Len(head) THEN head[j] ELSE lines[j - Len(head)]
        BY <2>9
      <3>2. CASE j <= Len(head)
        <4>1. begins /\ j = 1
          BY <2>5, <3>2
        <4> QED BY <2>5, <3>1, <3>2, <4>1
      <3>3. CASE ~(j <= Len(head))
        <4> DEFINE p == j - Len(head)
        <4>1. p \in 1..Len(lines) /\ ~(begins /\ j = 1) /\ before + p = base + j
          BY <2>5, <2>9, <2>10, <2>11, <3>3
        <4> HIDE DEF p
        <4>2. units[j] = lines[p]
          BY <3>1, <3>3 DEF p
        <4>3. lines[p] = Unit(c.num, before + p)
          BY <2>12, <4>1
        <4> QED BY <4>1, <4>2, <4>3
      <3> QED BY <3>2, <3>3
    <2>15. \/ Len(units) + base = after
           \/ begins /\ RingFree(c) = 0 /\ Len(units) = 1
      BY <2>5, <2>9, <2>10, <2>11, <2>13
    <2> QED BY <1>3, <2>9, <2>10, <2>14, <2>15 DEF base, after, Placed
  <1> QED BY <1>2, <1>3

\* What is written at an event goes on with the frame, and so does what comes after it.
LEMMA EventJoins ==
  ASSUME ring \in [Slots -> Units], NEW c \in Cards, NEW begins \in BOOLEAN, NEW fault,
         c.quarter < Quarters, c.insync, ~c.dropped, begins => c.quarter = 0,
         ~begins => Goes(ring, c),
         NEW units, units = EventUnits(c, begins, fault),
         NEW n, n = Len(Fitting(c, units)),
         NEW j \in 1..n + 1, ~(begins /\ j = 1)
  PROVE  Joins(Written(c, units), c.r, RingLoad(c) + j - 1, Unit(c.num, BaseOf(c, begins) + j))
  <1> DEFINE L == RingLoad(c)
             rg == Written(c, units)
             base == BaseOf(c, begins)
             before == Upto(c.quarter) * Stride
             u == Unit(c.num, base + j)
  <1>1. units \in Seq(Units)
    BY UnitsAre
  <1>2. /\ base \in Int
        /\ \A i \in 1..Len(units) : IF begins /\ i = 1
                                    THEN units[i].part <= 0 /\ units[i].id = c.num
                                    ELSE units[i] = Unit(c.num, base + i)
    <2>1. BaseOf(c, begins) \in Int /\ Placed(c, begins, units)
      BY UnitsAre
    <2> QED BY <2>1 DEF Placed
  <1>3. n \in Nat /\ n <= Len(units) /\ L \in 0..Size - 1 /\ Len(units) \in Nat
    BY <1>1, FittingIs, CardLoadIs, LenProperties
  <1>4. \A o \in Nat : o < L => UnitAt(rg, c.r, o) = UnitAt(ring, c.r, o)
    BY <1>1, WriteIs
  <1>5. \A i \in 1..n : UnitAt(rg, c.r, L + i - 1) = units[i]
    BY <1>1, WriteIs
  <1>6. begins => base = -1
    BY DEF BaseOf
  <1>7. ~begins => base = before /\ Joins(ring, c.r, L, Unit(c.num, before + 1))
    BY DEF BaseOf, Goes
  <1> HIDE DEF L, rg, base, before
  <1>8. u.part = base + j /\ u.id = c.num
    BY DEF Unit
  <1>9. SUFFICES ASSUME NEW k \in Nat, k >= 1, k <= base + j, k <= L + j - 1
                 PROVE  Before(u, UnitAt(rg, c.r, (L + j - 1) - k), k)
    BY <1>8 DEF Joins, L, rg, base
  <1> HIDE DEF u
  <1>10. CASE k < j
    <2> DEFINE i == j - k
    <2>1. i \in 1..n /\ i \in 1..Len(units) /\ (L + j - 1) - k = L + i - 1
      BY <1>3, <1>9, <1>10, Constants
    <2>2. UnitAt(rg, c.r, (L + j - 1) - k) = units[i]
      BY <1>5, <2>1
    <2>3. CASE begins /\ i = 1
      <3>1. units[i].part <= 0 /\ units[i].id = c.num
        BY <1>2, <2>1, <2>3
      <3>2. ~(k < base + j)
        BY <1>6, <1>9, <2>3
      <3> HIDE DEF i
      <3> QED BY <1>8, <2>2, <3>1, <3>2 DEF Before
    <2>4. CASE ~(begins /\ i = 1)
      <3>1. units[i] = Unit(c.num, base + i)
        BY <1>2, <2>1, <2>4
      <3>2. units[i].id = c.num /\ units[i].part = base + j - k
        BY <1>2, <3>1 DEF Unit
      <3> HIDE DEF i
      <3> QED BY <1>2, <1>8, <1>9, <2>2, <3>2 DEF Before
    <2> QED BY <2>3, <2>4
  <1>11. CASE ~(k < j)
    <2> DEFINE m == k - j + 1
    <2>1. ~begins
      BY <1>2, <1>3, <1>6, <1>9, <1>11
    <2>2. base = before /\ Joins(ring, c.r, L, Unit(c.num, before + 1))
      BY <1>7, <2>1
    <2>3. /\ m \in Nat /\ m >= 1 /\ m <= before + 1 /\ m <= L
          /\ (L + j - 1) - k = L - m /\ L - m \in Nat /\ L - m < L
      BY <1>2, <1>3, <1>9, <1>11, <2>2, Constants
    <2>4. Unit(c.num, before + 1).part = before + 1 /\ Unit(c.num, before + 1).id = c.num
      BY DEF Unit
    <2>5. Before(Unit(c.num, before + 1), UnitAt(ring, c.r, L - m), m)
      BY <2>2, <2>3, <2>4 DEF Joins
    <2>6. UnitAt(rg, c.r, (L + j - 1) - k) = UnitAt(ring, c.r, L - m)
      BY <1>4, <2>3
    <2>7. /\ k < base + j => m < before + 1
          /\ k = base + j => m = before + 1
          /\ before + 1 - m = base + j - k
      BY <1>2, <1>3, <1>9, <2>2
    <2> HIDE DEF m
    <2> DEFINE v == UnitAt(ring, c.r, L - m)
    <2>8. /\ v.id = c.num
          /\ m < before + 1 => v.part = before + 1 - m
          /\ m = before + 1 => v.part <= 0
      BY <1>2, <2>2, <2>3, <2>4, <2>5 DEF Before
    <2> HIDE DEF v
    <2>9. (k < base + j => v.part = base + j - k) /\ (k = base + j => v.part <= 0)
      BY <2>7, <2>8
    <2>10. Before(u, v, k)
      BY <1>2, <1>9, <1>8, <2>8, <2>9 DEF Before
    <2> QED BY <2>6, <2>10 DEF v
  <1> QED BY <1>10, <1>11

\* After an event the card still holds frames in order, and the frame still goes on.
LEMMA EventKeeps ==
  ASSUME ring \in [Slots -> Units], NEW c \in Cards, NEW begins \in BOOLEAN, NEW fault,
         c.quarter < Quarters, begins => c.quarter = 0 /\ ~c.dropped,
         ~begins => Goes(ring, c), Chained(ring, c),
         NEW units, units = EventUnits(c, begins, fault)
  PROVE  /\ Chained(Written(c, units), Advanced(c, units))
         /\ Advanced(c, units).insync /\ ~Advanced(c, units).dropped
            => Joins(Written(c, units), c.r, RingLoad(Advanced(c, units)),
                     Unit(c.num, Upto(c.quarter + 1) * Stride + 1))
  <1> DEFINE n == Len(Fitting(c, units))
             c1 == Advanced(c, units)
             rg == Written(c, units)
             L == RingLoad(c)
  <1>1. units \in Seq(Units) /\ Len(units) \in Nat
    BY UnitsAre, LenProperties
  <1>2. n \in Nat /\ n <= Len(units) /\ L \in 0..Size - 1 /\ L + n <= Size - 1
        /\ (n < Len(units) => L + n = Size - 1) /\ \A j \in 1..n : units[j] \in Units
    BY <1>1, FittingIs, CardLoadIs
  <1>3. /\ RingLoad(c1) = L + n
        /\ \A o \in Nat : o < L => UnitAt(rg, c.r, o) = UnitAt(ring, c.r, o)
        /\ \A i \in 1..n : UnitAt(rg, c.r, L + i - 1) = units[i]
    BY <1>1, WriteIs
  <1>4. /\ c1.r = c.r /\ c1.insync = c.insync
        /\ c1.dropped <=> c.dropped \/ n < Len(units)
    BY <1>1, WriteIs
  <1> HIDE DEF n, c1, rg, L
  <1>5. ASSUME NEW o \in Nat, o < RingLoad(c1)
        PROVE  Joins(rg, c1.r, o, UnitAt(rg, c1.r, o))
    <2>1. CASE o < L
      <3>1. Joins(ring, c.r, 0 + o, UnitAt(ring, c.r, o))
        BY <2>1 DEF Chained, L
      <3>2. \A m \in Nat : m < o => UnitAt(rg, c.r, m) = UnitAt(ring, c.r, 0 + m)
        BY <1>2, <1>3, <2>1
      <3>3. UnitAt(rg, c.r, o) = UnitAt(ring, c.r, o)
        BY <1>3, <2>1
      <3>4. UnitAt(ring, c.r, o).part \in Int
        <4>1. o \in 0..Size /\ c.r \in Slots
          BY <1>2, <2>1, Constants DEF Cards
        <4> QED BY <4>1, UnitAtIs
      <3>5. Joins(rg, c.r, o, UnitAt(ring, c.r, o))
        BY <3>1, <3>2, <3>4, JoinsMoved
      <3> QED BY <1>4, <3>3, <3>5
    <2>2. CASE ~(o < L)
      <3> DEFINE j == o - L + 1
      <3>1. j \in 1..n /\ j \in 1..n + 1 /\ j \in 1..Len(units) /\ L + j - 1 = o
        BY <1>1, <1>2, <1>3, <1>5, <2>2, Constants
      <3>2. c.insync /\ ~c.dropped
        <4>1. Len(units) # 0
          BY <1>1, <3>1
        <4> QED BY <4>1, UnitsAre
      <3>3. UnitAt(rg, c.r, o) = units[j]
        BY <1>3, <3>1
      <3>6. Placed(c, begins, units)
        BY <3>2, UnitsAre
      <3> HIDE DEF j
      <3>4. CASE begins /\ j = 1
        <4>1. units[j].part <= 0
          BY <3>1, <3>4, <3>6 DEF Placed
        <4>2. units[j].part \in Int
          BY <1>2, <3>1 DEF Units
        <4>3. Joins(rg, c.r, o, units[j])
          BY <4>1, <4>2 DEF Joins
        <4> QED BY <1>4, <3>3, <4>3
      <3>5. CASE ~(begins /\ j = 1)
        <4>1. units[j] = Unit(c.num, BaseOf(c, begins) + j)
          BY <3>1, <3>5, <3>6 DEF Placed
        <4>2. Joins(rg, c.r, L + j - 1, Unit(c.num, BaseOf(c, begins) + j))
          BY <3>1, <3>2, <3>5, EventJoins DEF n, L, rg
        <4> QED BY <1>4, <3>1, <3>3, <4>1, <4>2
      <3> QED BY <3>4, <3>5
    <2> QED BY <2>1, <2>2
  <1>6. ASSUME c1.insync, ~c1.dropped
        PROVE  Joins(rg, c.r, RingLoad(c1), Unit(c.num, Upto(c.quarter + 1) * Stride + 1))
    <2>1. c.insync /\ ~c.dropped /\ n = Len(units)
      BY <1>1, <1>2, <1>4, <1>6
    <2>2. ~(begins /\ RingFree(c) = 0 /\ Len(units) = 1)
      <3>1. RingFree(c) = 0 => L >= Size - 1
        BY <1>2, Constants DEF RingFree, CardLoad, L
      <3> QED BY <1>2, <2>1, <3>1, Constants
    <2>3. BaseOf(c, begins) \in Int
          /\ Len(units) + BaseOf(c, begins) = Upto(c.quarter + 1) * Stride
      BY <2>1, <2>2, UnitsAre
    <2> DEFINE j == n + 1
    <2>4. j \in 1..n + 1 /\ L + j - 1 = RingLoad(c1)
          /\ BaseOf(c, begins) + j = Upto(c.quarter + 1) * Stride + 1
      BY <1>2, <1>3, <2>1, <2>3, Constants
    <2>5. ~(begins /\ j = 1)
      <3>1. SUFFICES ASSUME begins, n = 0 PROVE FALSE
        BY <1>2
      <3>2. BaseOf(c, begins) = -1
        BY <3>1 DEF BaseOf
      <3>3. c.quarter = 0 /\ Upto(0) = 0 /\ Upto(0) <= Upto(0 + 1) /\ Upto(0 + 1) \in Int
        BY <3>1, UptoIs
      <3>4. Upto(0 + 1) * Stride >= 0
        BY <3>3, Constants
      <3>5. Upto(c.quarter + 1) * Stride >= 0
        BY <3>3, <3>4
      <3>6. Len(units) = 0
        BY <2>1, <3>1
      <3> QED BY <2>3, <3>2, <3>5, <3>6
    <2> HIDE DEF j
    <2>6. Joins(rg, c.r, L + j - 1, Unit(c.num, BaseOf(c, begins) + j))
      BY <2>1, <2>4, <2>5, EventJoins DEF n, L, rg
    <2> QED BY <2>4, <2>6
  <1> QED BY <1>5, <1>6 DEF Chained, c1, rg

--------------------------------------------------------------------------------
(* The side finds a frame.                                                 *)

\* What becomes of a side while a frame is looked for: it only moves on in the ring, loses
\* its sync and the field held with it, or finds that frames were lost.
SeekKeeps(x, y) ==
  /\ y \in Sides /\ y.std = x.std /\ y.run = x.run /\ y.last = x.last /\ y.lent = x.lent
  /\ y.arrival = x.arrival /\ y.picture = x.picture /\ y.w = x.w
  /\ x.latched => y.latched

LEMMA GivenUpIs ==
  ASSUME NEW x \in Sides
  PROVE  /\ SeekKeeps(x, OutOfSync(x)) /\ OutOfSync(x).r = x.r
         /\ ~OutOfSync(x).insync /\ ~OutOfSync(x).held
         /\ SeekKeeps(x, Overflowed(x)) /\ Overflowed(x).r = x.r
         /\ Overflowed(x).latched /\ Overflowed(x).insync = x.insync
         /\ Overflowed(x).held = x.held /\ Overflowed(x).expected = x.expected
  <1>1. OutOfSync(x) \in Sides /\ Overflowed(x) \in Sides
    BY OutOfSyncIs, OverflowedIs
  <1>2. SeekKeeps(x, OutOfSync(x)) /\ OutOfSync(x).r = x.r
        /\ ~OutOfSync(x).insync /\ ~OutOfSync(x).held
    BY <1>1 DEF OutOfSync, Sides, SeekKeeps
  <1>3. SeekKeeps(x, Overflowed(x)) /\ Overflowed(x).r = x.r
        /\ Overflowed(x).latched /\ Overflowed(x).insync = x.insync
        /\ Overflowed(x).held = x.held /\ Overflowed(x).expected = x.expected
    BY <1>1 DEF Overflowed, Sides, SeekKeeps
  <1> QED BY <1>2, <1>3

LEMMA SeekTwice ==
  ASSUME NEW x, NEW y, NEW z, SeekKeeps(x, y), SeekKeeps(y, z)
  PROVE  SeekKeeps(x, z)
  BY Zenon DEF SeekKeeps

\* What a search gives: the side has moved n units on.
SearchGives(x, f, n) ==
  /\ SeekKeeps(x, f.rx) /\ f.rx.r = On(x.r, n) /\ RingLoad(f.rx) = RingLoad(x) - n
  /\ f.tell => n > 0 \/ RingLoad(f.rx) > 0
  /\ ~f.tell => n = 0
  /\ f.found => FrameAt(ring, f.rx)
  /\ f.rx.held => x.held

LEMMA SearchIs ==
  ASSUME ring \in [Slots -> Units], NEW x \in Sides, NEW from \in Nat, from <= RingLoad(x)
  PROVE  \E n \in 0..RingLoad(x) : n >= from /\ SearchGives(x, Search(x, from), n)
  <1> DEFINE heads == {o \in from..RingLoad(x) - 1 : At(x, o).part = Header}
             stops == {o \in heads : o + CodedSize > RingLoad(x) \/ LinesInPlace(x, o)}
             upto == IF stops = {} THEN RingLoad(x) ELSE Min(stops)
             cut == \E o \in heads : o < upto
             z == IF cut THEN OutOfSync(Overflowed(x)) ELSE x
             y == Skip(z, upto)
             f == Search(x, from)
             N == RingLoad(x)
  <1>1. N \in 0..Size - 1 /\ N \in Nat /\ N <= Size /\ x.r \in Slots /\ N = Off(x.w, x.r)
    <2>1. N \in 0..Size - 1 /\ N = Off(x.w, x.r)
      BY LoadIs
    <2> QED BY <2>1, Constants DEF Sides
  <1>2. /\ f.rx = IF stops = {} THEN y ELSE [y EXCEPT !.insync = TRUE, !.expected = At(y, 0).id]
        /\ f.found <=> stops # {} /\ upto + CodedSize <= N
        /\ f.tell <=> upto > 0 \/ stops # {}
    BY DEF Search
  <1>3. upto \in 0..N /\ upto >= from /\ (stops # {} => upto \in stops)
    <2>1. stops \subseteq Nat /\ \A o \in stops : o >= from /\ o < N
      BY <1>1
    <2>2. CASE stops = {}
      BY <1>1, <2>2
    <2>3. CASE stops # {}
      <3> HIDE DEF stops
      <3>1. Min(stops) \in stops
        BY <2>1, <2>3, MinIsLeast
      <3>2. upto = Min(stops)
        BY <2>3
      <3> HIDE DEF upto, N
      <3>3. upto \in stops
        BY <3>1, <3>2
      <3>4. upto \in Nat /\ upto >= from /\ upto < N
        BY <2>1, <3>3 DEF N
      <3> QED BY <1>1, <3>3, <3>4
    <2> QED BY <2>2, <2>3
  <1>4. stops # {} => /\ upto < N /\ At(x, upto).part = Header
                      /\ upto + CodedSize <= N => LinesInPlace(x, upto)
    <2>1. ASSUME stops # {}
          PROVE  /\ upto < N /\ At(x, upto).part = Header
                 /\ upto + CodedSize <= N => LinesInPlace(x, upto)
      <3> DEFINE p == upto
      <3>1. p \in stops /\ p \in 0..N
        BY <1>3, <2>1
      <3> HIDE DEF p
      <3>2. /\ p < N /\ At(x, p).part = Header
            /\ p + CodedSize <= N => LinesInPlace(x, p)
        BY <1>1, <3>1, Constants
      <3> QED BY <3>2 DEF p
    <2> QED BY <2>1
  <1> HIDE DEF f, upto, stops, N, cut
  <1>5. SeekKeeps(x, z) /\ z.r = x.r /\ (z.held => x.held) /\ z \in Sides
    <2>1. CASE cut
      <3> DEFINE v == Overflowed(x)
      <3>1. z = OutOfSync(v)
        BY <2>1
      <3>2. v \in Sides /\ SeekKeeps(x, v) /\ v.r = x.r
        BY GivenUpIs, OverflowedIs
      <3> HIDE DEF v, z
      <3>3. SeekKeeps(v, z) /\ z.r = v.r /\ ~z.held
        BY <3>1, <3>2, GivenUpIs
      <3>4. SeekKeeps(x, z)
        BY <3>2, <3>3, SeekTwice
      <3> QED BY <3>2, <3>3, <3>4 DEF SeekKeeps
    <2>2. CASE ~cut
      BY <2>2 DEF SeekKeeps
    <2> QED BY <2>1, <2>2
  <1> HIDE DEF z
  <1>6. upto \in 0..Size /\ On(x.r, upto) \in Slots
    <2>1. upto \in 0..Size
      BY <1>1, <1>3, Constants
    <2> QED BY <1>1, <2>1, OnIs
  <1>7. y \in Sides /\ y = [z EXCEPT !.r = On(x.r, upto)]
    BY <1>5, <1>6, SkipIs
  <1> HIDE DEF y
  <1>8. At(y, 0).id \in UnitIds
    <2>1. At(y, 0) = UnitAt(ring, y.r, 0) /\ y.r \in Slots /\ 0 \in 0..Size
      BY <1>7, AtIs, Constants DEF Sides
    <2> QED BY <2>1, UnitAtIs
  <1>9. SeekKeeps(x, f.rx) /\ f.rx.r = On(x.r, upto) /\ (f.rx.held => x.held)
        /\ (stops # {} => f.rx.insync /\ f.rx.expected = At(y, 0).id)
    <2>1. SeekKeeps(x, y) /\ y.r = On(x.r, upto) /\ (y.held => x.held)
      BY <1>5, <1>7 DEF Sides, SeekKeeps
    <2>2. CASE stops = {}
      BY <1>2, <2>1, <2>2
    <2>3. CASE stops # {}
      <3> DEFINE id == At(y, 0).id
                 v == [y EXCEPT !.insync = TRUE, !.expected = id]
      <3>1. f.rx = v
        BY <1>2, <2>3
      <3>2. id \in UnitIds /\ TRUE \in BOOLEAN
        BY <1>8
      <3> HIDE DEF id
      <3>3. v \in Sides
        BY <1>7, <3>2, Zenon DEF Sides
      <3>4. SeekKeeps(x, v) /\ v.r = y.r /\ v.held = y.held /\ v.insync /\ v.expected = id
        BY <1>7, <2>1, <3>3 DEF SeekKeeps, Sides
      <3> QED BY <2>1, <3>1, <3>4 DEF id
    <2> QED BY <2>2, <2>3
  <1>10. RingLoad(f.rx) = N - upto
    <2>1. f.rx \in Sides /\ f.rx.w = x.w
      BY <1>9 DEF SeekKeeps
    <2>2. RingLoad(f.rx) = Off(x.w, On(x.r, upto))
      BY <1>9, <2>1, LoadIs
    <2>3. x.w \in Slots /\ upto \in 0..Off(x.w, x.r)
      BY <1>1, <1>3 DEF Sides
    <2> QED BY <1>1, <2>2, <2>3, OffOfMoved
  <1>11. ASSUME f.found
         PROVE  FrameAt(ring, f.rx)
    <2>1. stops # {} /\ upto + CodedSize <= N
      BY <1>2, <1>11
    <2>2. f.rx.insync /\ f.rx.expected = At(y, 0).id /\ RingLoad(f.rx) >= CodedSize
      BY <1>1, <1>3, <1>9, <1>10, <2>1, Constants
    <2>3. \A o \in Nat : upto + o <= Size => UnitAt(ring, f.rx.r, o) = At(x, upto + o)
      <3>1. ASSUME NEW o \in Nat, upto + o <= Size
            PROVE  UnitAt(ring, f.rx.r, o) = At(x, upto + o)
        <4>1. UnitAt(ring, On(x.r, upto), o) = UnitAt(ring, x.r, upto + o)
          BY <1>1, <1>6, <3>1, UnitAtMoved, Constants
        <4>2. At(x, upto + o) = UnitAt(ring, x.r, upto + o)
          BY AtIs
        <4> QED BY <1>9, <4>1, <4>2
      <3> QED BY <3>1
    <2>4. UnitAt(ring, f.rx.r, 0) = At(x, upto) /\ At(y, 0) = UnitAt(ring, f.rx.r, 0)
      <3>1. upto + 0 = upto /\ upto + 0 <= Size /\ 0 \in Nat
        BY <1>6, Constants
      <3>2. UnitAt(ring, f.rx.r, 0) = At(x, upto + 0)
        BY <2>3, <3>1
      <3>3. y.r = f.rx.r
        BY <1>5, <1>7, <1>9 DEF Sides
      <3>4. At(y, 0) = UnitAt(ring, y.r, 0)
        BY <1>7, AtIs
      <3> QED BY <3>1, <3>2, <3>3, <3>4
    <2>5. UnitAt(ring, f.rx.r, Last).part = Last
      <3>1. upto + 1 + (Lines - 1) * Stride = upto + Last
            /\ (Lines - 1) * Stride + 1 = Last /\ Last \in Nat /\ upto + Last <= Size
        BY <1>1, <1>6, <2>1, Constants DEF Last
      <3>2. LinesInPlace(x, upto)
        BY <1>4, <2>1
      <3>3. At(x, upto + Last).part = Last
        BY <3>1, <3>2 DEF LinesInPlace
      <3>4. UnitAt(ring, f.rx.r, Last) = At(x, upto + Last)
        BY <2>3, <3>1
      <3> QED BY <3>3, <3>4
    <2> QED BY <1>4, <2>1, <2>2, <2>4, <2>5 DEF FrameAt
  <1>12. (f.tell => upto > 0 \/ RingLoad(f.rx) > 0) /\ (~f.tell => upto = 0)
    BY <1>1, <1>2, <1>3, <1>4, <1>10
  <1>13. SearchGives(x, f, upto)
    BY <1>9, <1>10, <1>11, <1>12 DEF SearchGives, N
  <1> QED BY <1>3, <1>13 DEF f, N

\* How far one frame ID is after another.
LEMMA DistanceIs ==
  ASSUME NEW a \in UnitIds, NEW b \in UnitIds
  PROVE  /\ Distance(a, b) = (IF b >= a THEN b - a ELSE b - a + Ids)
         /\ Distance(a, b) \in UnitIds
  <1>1. CASE b >= a
    <2>1. b + Ids - a = (b - a) + Ids /\ b - a \in 0..Ids - 1
      BY <1>1, Constants DEF UnitIds
    <2> QED BY <1>1, <2>1, Constants DEF Distance, UnitIds
  <1>2. CASE ~(b >= a)
    <2>1. b + Ids - a \in 0..Ids - 1
      BY <1>2, Constants DEF UnitIds
    <2> QED BY <1>2, <2>1, Constants DEF Distance, UnitIds
  <1> QED BY <1>1, <1>2

LEMMA NextIdIs ==
  ASSUME NEW a \in UnitIds
  PROVE  (a + 1) % Ids = (IF a = Ids - 1 THEN 0 ELSE a + 1) /\ (a + 1) % Ids \in UnitIds
  BY Constants DEF UnitIds

LEMMA DistanceFromNext ==
  ASSUME NEW a \in UnitIds, NEW b \in UnitIds, NEW e, e = (a + 1) % Ids
  PROVE  /\ Distance(a, b) = (Distance(e, b) + 1) % Ids
         /\ Distance(a, e) = 1
  <1> DEFINE d == Distance(e, b)
  <1>1. e = (IF a = Ids - 1 THEN 0 ELSE a + 1) /\ e \in UnitIds
    BY NextIdIs
  <1>2. Distance(a, b) = (IF b >= a THEN b - a ELSE b - a + Ids)
    BY DistanceIs
  <1>3. d = (IF b >= e THEN b - e ELSE b - e + Ids) /\ d \in UnitIds
    BY <1>1, DistanceIs
  <1> HIDE DEF d
  <1>4. (d + 1) % Ids = (IF d = Ids - 1 THEN 0 ELSE d + 1)
    BY <1>3, NextIdIs
  <1>5. Distance(a, b) = (d + 1) % Ids
    BY <1>1, <1>2, <1>3, <1>4, Constants DEF UnitIds
  <1>6. Distance(a, e) = (IF e >= a THEN e - a ELSE e - a + Ids)
    BY <1>1, DistanceIs
  <1>7. Distance(a, e) = 1
    BY <1>1, <1>6, Constants DEF UnitIds
  <1> QED BY <1>5, <1>7 DEF d

\* What looking for a frame gives, beside what is known of the frames since the last.
FoundGives(f) ==
  /\ SeekKeeps(Synced(rx), f.rx)
  /\ Off(f.rx.r, card.r) + RingLoad(f.rx) <= RingLoad(card)
  /\ f.tell => RingLoad(f.rx) > 0 \/ Off(f.rx.r, card.r) >= 1
  /\ ~f.tell => f.rx.r = rx.r
  /\ f.found => FrameAt(ring, f.rx)
  /\ f.rx.held => rx.held /\ f.rx.insync /\ f.rx.expected = rx.expected

\* The side's part of the ring, with the write offset of the card.
LEMMA SyncedHas ==
  ASSUME TypeInv, Inside(rx, card)
  PROVE  /\ Synced(rx) \in Sides /\ Synced(rx) = [rx EXCEPT !.w = card.w]
         /\ Off(rx.r, card.r) \in 0..1
         /\ RingLoad(Synced(rx)) = RingLoad(card) - Off(rx.r, card.r)
         /\ RingLoad(Synced(rx)) = Off(card.w, rx.r)
         /\ RingLoad(Synced(rx)) \in 0..Size - 1
  <1>1. rx \in Sides /\ card \in Cards /\ card.w \in Slots /\ card.r \in Slots /\ rx.r \in Slots
    BY DEF TypeInv, Cards, Sides
  <1>2. Synced(rx) \in Sides
    BY <1>1, SyncedIs
  <1>3. Synced(rx).w = card.w /\ Synced(rx).r = rx.r
    BY <1>1 DEF Synced, Sides
  <1>4. RingLoad(Synced(rx)) = Off(card.w, rx.r) /\ RingLoad(Synced(rx)) \in 0..Size - 1
    BY <1>2, <1>3, LoadIs
  <1>5. Off(rx.r, card.r) \in 0..1
    BY <1>1, InsideIs
  <1>6. Off(rx.r, card.r) <= Off(card.w, card.r) /\ RingLoad(card) = Off(card.w, card.r)
    <2>1. RingLoad(rx) \in 0..Size - 1 /\ RingLoad(card) \in 0..Size - 1
          /\ RingLoad(card) = Off(card.w, card.r)
      BY <1>1, LoadIs, CardLoadIs
    <2> QED BY <1>5, <2>1, Constants DEF Inside
  <1>7. Off(card.w, rx.r) = Off(card.w, card.r) - Off(rx.r, card.r)
    BY <1>1, <1>6, OffBetween
  <1> QED BY <1>2, <1>4, <1>5, <1>6, <1>7 DEF Synced

LEMMA SearchFinds ==
  ASSUME TypeInv, Inside(rx, card),
         NEW z, SeekKeeps(Synced(rx), z), z.r = rx.r, ~z.held,
         NEW from \in Nat, from <= RingLoad(z)
  PROVE  /\ FoundGives(Search(z, from)) /\ SeekKeeps(z, Search(z, from).rx)
         /\ ~Search(z, from).rx.held
  <1> DEFINE f == Search(z, from)
             d == Off(rx.r, card.r)
  <1>1. ring \in [Slots -> Units] /\ z \in Sides /\ rx \in Sides /\ card \in Cards
        /\ rx.r \in Slots /\ card.r \in Slots
    BY DEF TypeInv, SeekKeeps, Sides, Cards
  <1>2. PICK n \in 0..RingLoad(z) : SearchGives(z, f, n)
    BY <1>1, SearchIs
  <1> HIDE DEF f
  <1>3. /\ d \in 0..1 /\ RingLoad(Synced(rx)) = RingLoad(card) - d
        /\ RingLoad(Synced(rx)) \in 0..Size - 1 /\ RingLoad(Synced(rx)) = Off(card.w, rx.r)
    BY SyncedHas
  <1>4. RingLoad(z) = RingLoad(Synced(rx))
    <2>1. z.w = card.w
      BY <1>1 DEF SeekKeeps, Synced, Sides
    <2> QED BY <1>1, <1>3, <2>1, LoadIs
  <1>5. Off(f.rx.r, card.r) = d + n /\ RingLoad(f.rx) = RingLoad(card) - d - n
    <2>1. RingLoad(card) \in 0..Size - 1
      BY <1>1, CardLoadIs
    <2>2. d \in Nat /\ n \in Nat /\ d + n \in 0..Size - 1 /\ d + n <= Size
      BY <1>2, <1>3, <1>4, <2>1, Constants
    <2>3. On(card.r, d) = rx.r
      BY <1>1, OnOfOff
    <2> HIDE DEF d
    <2>4. On(rx.r, n) = On(card.r, d + n)
      BY <1>1, <2>2, <2>3, OnOfOn
    <2>5. Off(On(card.r, d + n), card.r) = d + n
      BY <1>1, <2>2, OffOfOn
    <2>6. f.rx.r = On(rx.r, n) /\ RingLoad(f.rx) = RingLoad(z) - n
      BY <1>2 DEF SearchGives
    <2> QED BY <1>3, <1>4, <2>1, <2>2, <2>4, <2>5, <2>6
  <1>6. SeekKeeps(Synced(rx), f.rx) /\ SeekKeeps(z, f.rx) /\ ~f.rx.held
    BY <1>2, SeekTwice DEF SearchGives
  <1>7. /\ f.tell => n > 0 \/ RingLoad(f.rx) > 0
        /\ ~f.tell => n = 0 /\ f.rx.r = On(rx.r, n)
        /\ f.found => FrameAt(ring, f.rx)
    BY <1>2 DEF SearchGives
  <1>8. ~f.tell => f.rx.r = rx.r
    <2>1. On(rx.r, 0) = rx.r
      BY <1>1, OnZero
    <2> QED BY <1>7, <2>1
  <1>9. /\ Off(f.rx.r, card.r) + RingLoad(f.rx) <= RingLoad(card)
        /\ f.tell => RingLoad(f.rx) > 0 \/ Off(f.rx.r, card.r) >= 1
    <2>1. RingLoad(card) \in 0..Size - 1
      BY <1>1, CardLoadIs
    <2>2. n \in Nat
      BY <1>2
    <2> HIDE DEF d
    <2> QED BY <1>3, <1>5, <1>7, <2>1, <2>2, Constants
  <1> QED BY <1>6, <1>7, <1>8, <1>9 DEF FoundGives, f

LEMMA FindFrameIs ==
  ASSUME TypeInv, rx.run, Inside(rx, card), HeldInv, KnownOf(rx, hist)
  PROVE  /\ FoundGives(FindFrame)
         /\ KnownOf(FindFrame.rx, Looked)
  <1> DEFINE s == Synced(rx)
             x == Noticed(s)
             h == At(x, 0)
             N == RingLoad(x)
             f == FindFrame
             d == Off(rx.r, card.r)
             y1 == OutOfSync(x)
             y2 == OutOfSync(NoteLostFrames(x, h.id))
             y3 == OutOfSync(Overflowed(x))
             unread == rx.insync /\ RingLoad(s) >= CodedSize /\ At(s, 0).part # Header
  <1>1. /\ ring \in [Slots -> Units] /\ rx \in Sides /\ card \in Cards /\ hist \in Histories
        /\ rx.r \in Slots /\ card.r \in Slots
    BY DEF TypeInv, Sides, Cards
  <1>2. /\ s \in Sides /\ s = [rx EXCEPT !.w = card.w]
        /\ d \in 0..1 /\ RingLoad(s) = RingLoad(card) - d /\ RingLoad(s) \in 0..Size - 1
    BY SyncedHas
  <1>3. /\ s.r = rx.r /\ s.insync = rx.insync /\ s.held = rx.held /\ s.expected = rx.expected
        /\ s.latched = rx.latched /\ s.last = rx.last /\ s.run = rx.run
    BY <1>1, <1>2 DEF Sides
  <1> HIDE DEF s
  <1>4. /\ SeekKeeps(s, x) /\ x.r = rx.r /\ x.insync = rx.insync /\ x.held = rx.held
        /\ x.expected = rx.expected
    <2>1. CASE x = s
      BY <1>2, <1>3, <2>1 DEF SeekKeeps
    <2>2. CASE x = Overflowed(s)
      <3> DEFINE v == Overflowed(s)
      <3>1. /\ SeekKeeps(s, v) /\ v.r = s.r /\ v.insync = s.insync /\ v.held = s.held
            /\ v.expected = s.expected
        BY <1>2, GivenUpIs
      <3>2. x = v
        BY <2>2
      <3> HIDE DEF v, x
      <3> QED BY <1>3, <3>1, <3>2
    <2> QED BY <2>1, <2>2 DEF Noticed
  <1>5. x \in Sides /\ x.last = rx.last /\ x.run = rx.run /\ (rx.latched => x.latched)
        /\ x.w = s.w
    BY <1>3, <1>4 DEF SeekKeeps
  <1>6. N = RingLoad(s) /\ N \in 0..Size - 1
    BY <1>2, <1>3, <1>4, <1>5 DEF RingLoad
  <1>7. /\ Looked.started = hist.started /\ Looked.since = hist.since
        /\ Looked.excused <=> hist.excused \/ unread
    <2> DEFINE b == hist.excused \/ unread
    <2>1. Looked = [hist EXCEPT !.excused = b]
      BY DEF Looked, s
    <2> HIDE DEF b
    <2>2. Looked.started = hist.started /\ Looked.since = hist.since /\ Looked.excused = b
      BY <1>1, <2>1 DEF Histories
    <2> QED BY <2>2 DEF b
  <1>8. unread <=> rx.insync /\ N >= CodedSize /\ h.part # Header
    <2>1. At(s, 0) = UnitAt(ring, rx.r, 0)
      BY <1>2, <1>3, AtIs
    <2>2. h = UnitAt(ring, rx.r, 0)
      BY <1>4, <1>5, AtIs
    <2> QED BY <1>6, <2>1, <2>2
  <1>9. f = CASE ~x.insync -> Search(x, 0)
              [] x.insync /\ N < CodedSize -> [rx |-> x, found |-> FALSE, tell |-> FALSE]
              [] OTHER ->
                   IF h.part \notin {Header, BadFormat} THEN Search(y1, 0)
                   ELSE IF h.id # x.expected THEN Search(y2, 0)
                   ELSE IF h.part = BadFormat THEN Search(y1, 0)
                   ELSE IF LinesInPlace(x, 0) THEN [rx |-> x, found |-> TRUE, tell |-> FALSE]
                   ELSE Search(y3, 1)
    BY DEF FindFrame, s
  <1>10. SeekKeeps(s, y1) /\ y1.r = rx.r /\ ~y1.held /\ SeekKeeps(x, y1)
    <2>1. SeekKeeps(x, y1) /\ y1.r = x.r /\ ~y1.held
      BY <1>5, GivenUpIs
    <2> QED BY <1>4, <2>1, SeekTwice
  <1>11. SeekKeeps(s, y3) /\ y3.r = rx.r /\ ~y3.held /\ y3.latched
    <2> DEFINE v == Overflowed(x)
    <2>1. SeekKeeps(x, v) /\ v.r = x.r /\ v.latched /\ v \in Sides
      BY <1>5, GivenUpIs, OverflowedIs
    <2> HIDE DEF v
    <2>2. SeekKeeps(v, OutOfSync(v)) /\ OutOfSync(v).r = v.r /\ ~OutOfSync(v).held
      BY <2>1, GivenUpIs
    <2>3. y3 = OutOfSync(v)
      BY DEF v
    <2> HIDE DEF y3
    <2>4. SeekKeeps(s, y3)
      BY <1>4, <2>1, <2>2, <2>3, SeekTwice
    <2> QED BY <1>4, <2>1, <2>2, <2>3, <2>4 DEF SeekKeeps
  <1>12. SeekKeeps(s, y2) /\ y2.r = rx.r /\ ~y2.held
         /\ (NoteLostFrames(x, h.id) = Overflowed(x) => y2.latched)
    <2> HIDE DEF h
    <2>1. CASE NoteLostFrames(x, h.id) = Overflowed(x)
      BY <1>11, <2>1
    <2>2. CASE NoteLostFrames(x, h.id) # Overflowed(x)
      <3>1. NoteLostFrames(x, h.id) = x
        BY <2>2 DEF NoteLostFrames
      <3> QED BY <1>10, <2>2, <3>1
    <2> QED BY <2>1, <2>2
  <1>13. \A z : SeekKeeps(s, z) /\ z.r = rx.r => RingLoad(z) = N
    BY <1>2, <1>3, <1>5, <1>6 DEF SeekKeeps, RingLoad
  <1> HIDE DEF y1, y2, y3, f, x, h, N, unread, d
  \* What a search from z gives.
  <1>14. ASSUME NEW z, SeekKeeps(s, z), z.r = rx.r, ~z.held,
                NEW from \in Nat, from <= N, f = Search(z, from)
         PROVE  /\ FoundGives(f) /\ f.rx.run = z.run
                /\ z.latched => f.rx.latched
    <2>1. from <= RingLoad(z)
      BY <1>13, <1>14
    <2>2. FoundGives(Search(z, from)) /\ SeekKeeps(z, Search(z, from).rx)
      BY <1>14, <2>1, SearchFinds DEF s
    <2> QED BY <1>14, <2>2 DEF SeekKeeps
  \* What staying gives.
  <1>15. ASSUME NEW found \in BOOLEAN, f = [rx |-> x, found |-> found, tell |-> FALSE],
                found => FrameAt(ring, x), rx.insync
         PROVE  FoundGives(f)
    <2>1. f.rx = x /\ f.found = found /\ ~f.tell
      BY <1>15
    <2>2. Off(rx.r, card.r) + RingLoad(x) <= RingLoad(card)
      <3>1. RingLoad(card) \in 0..Size - 1
        BY <1>1, CardLoadIs
      <3> QED BY <1>2, <1>6, <3>1, Constants DEF N, d
    <2> QED BY <1>4, <1>15, <2>1, <2>2 DEF FoundGives, s
  <1>16. CASE ~rx.insync
    <2>1. f = Search(x, 0) /\ ~x.held
      BY <1>4, <1>9, <1>16 DEF HeldInv
    <2>2. 0 \in Nat /\ 0 <= N
      BY <1>6
    <2>3. FoundGives(f) /\ f.rx.run = x.run /\ (x.latched => f.rx.latched)
      BY <1>4, <1>14, <2>1, <2>2
    <2>4. rx.latched \/ hist.started \/ hist.excused
      BY <1>16 DEF KnownOf, Clean
    <2>5. KnownOf(f.rx, Looked)
      BY <1>5, <1>7, <2>3, <2>4 DEF KnownOf
    <2> QED BY <2>3, <2>5 DEF f
  <1>17. CASE rx.insync /\ N < CodedSize
    <2>1. f = [rx |-> x, found |-> FALSE, tell |-> FALSE]
      BY <1>4, <1>9, <1>17
    <2>2. FoundGives(f)
      BY <1>15, <1>17, <2>1
    <2>3. KnownOf(f.rx, Looked)
      BY <1>4, <1>5, <1>7, <1>17, <2>1 DEF KnownOf, Clean
    <2> QED BY <2>2, <2>3 DEF f
  <1>18. CASE rx.insync /\ ~(N < CodedSize)
    <2>0. N \in Nat /\ CodedSize \in Nat /\ CodedSize >= 1 /\ N >= CodedSize
      BY <1>6, <1>18, Constants
    <2>1. f = IF h.part \notin {Header, BadFormat} THEN Search(y1, 0)
              ELSE IF h.id # x.expected THEN Search(y2, 0)
              ELSE IF h.part = BadFormat THEN Search(y1, 0)
              ELSE IF LinesInPlace(x, 0) THEN [rx |-> x, found |-> TRUE, tell |-> FALSE]
              ELSE Search(y3, 1)
      BY <1>4, <1>9, <1>18
    <2>2. CASE f = Search(y1, 0) /\ h.part # Header
      <3>1. 0 \in Nat /\ 0 <= N
        BY <1>6
      <3>2. FoundGives(f)
        BY <1>10, <1>14, <2>2, <3>1
      <3>3. Looked.excused
        BY <1>7, <1>8, <1>18, <2>0, <2>2
      <3> QED BY <3>2, <3>3 DEF KnownOf, f
    <2>3. CASE f = Search(y2, 0) /\ h.id # x.expected
      <3>1. 0 \in Nat /\ 0 <= N
        BY <1>6
      <3>2. FoundGives(f) /\ f.rx.run = y2.run /\ (y2.latched => f.rx.latched)
        BY <1>12, <1>14, <2>3, <3>1
      <3>3. y2.run = rx.run /\ (rx.latched => y2.latched)
        BY <1>3, <1>12 DEF SeekKeeps
      <3>4. ASSUME Clean(rx, hist) PROVE y2.latched
        <4>1. h.id \in UnitIds
          <5>1. h = UnitAt(ring, x.r, 0) /\ x.r \in Slots /\ 0 \in 0..Size
            BY <1>1, <1>4, <1>5, AtIs, Constants DEF h
          <5> QED BY <1>1, <5>1, UnitAtIs
        <4>2. hist.since \in UnitIds
          BY <1>1 DEF Histories
        <4>3. x.last = hist.since /\ x.expected = (hist.since + 1) % Ids
          BY <1>4, <1>5, <3>4 DEF Clean
        <4>4. Distance(x.last, h.id) = (Distance(x.expected, h.id) + 1) % Ids
          BY <4>1, <4>2, <4>3, DistanceFromNext
        <4> QED BY <1>12, <4>4 DEF NoteLostFrames
      <3>5. KnownOf(f.rx, Looked)
        BY <1>7, <3>2, <3>3, <3>4 DEF KnownOf
      <3> QED BY <3>2, <3>5 DEF f
    <2>4. CASE f = [rx |-> x, found |-> TRUE, tell |-> FALSE] /\ LinesInPlace(x, 0)
               /\ h.part = Header /\ h.id = x.expected
      <3>1. FrameAt(ring, x)
        <4>1. 0 + 1 + (Lines - 1) * Stride = Last /\ (Lines - 1) * Stride + 1 = Last
          BY Constants DEF Last
        <4>2. At(x, Last).part = Last
          BY <2>4, <4>1 DEF LinesInPlace
        <4>3. At(x, Last) = UnitAt(ring, x.r, Last) /\ At(x, 0) = UnitAt(ring, x.r, 0)
          BY <1>5, AtIs
        <4> QED BY <1>4, <1>18, <2>0, <2>4, <4>2, <4>3 DEF FrameAt, h, N
      <3>2. FoundGives(f)
        BY <1>15, <1>18, <2>4, <3>1
      <3>3. KnownOf(f.rx, Looked)
        BY <1>4, <1>5, <1>7, <1>18, <2>4 DEF KnownOf, Clean
      <3> QED BY <3>2, <3>3 DEF f
    <2>5. CASE f = Search(y3, 1)
      <3>1. 1 \in Nat /\ 1 <= N
        BY <2>0
      <3>2. FoundGives(f) /\ f.rx.latched
        BY <1>11, <1>14, <2>5, <3>1
      <3> QED BY <3>2 DEF KnownOf, f
    <2>6. \/ f = Search(y1, 0) /\ h.part # Header
          \/ f = Search(y2, 0) /\ h.id # x.expected
          \/ f = [rx |-> x, found |-> TRUE, tell |-> FALSE] /\ LinesInPlace(x, 0)
             /\ h.part = Header /\ h.id = x.expected
          \/ f = Search(y3, 1)
      BY <2>1 DEF Header, BadFormat
    <2> QED BY <2>2, <2>3, <2>4, <2>5, <2>6
  <1> QED BY <1>16, <1>17, <1>18

--------------------------------------------------------------------------------
(* What the actions have in common.                                        *)

LEMMA FrameKept ==
  ASSUME NEW rg, NEW rg2, NEW x \in Sides, FrameAt(rg, x),
         \A o \in Nat : o < RingLoad(x) => UnitAt(rg2, x.r, o) = UnitAt(rg, x.r, o)
  PROVE  FrameAt(rg2, x)
  <1>1. RingLoad(x) \in 0..Size - 1 /\ RingLoad(x) >= CodedSize
    BY LoadIs DEF FrameAt
  <1>2. 0 \in Nat /\ 0 < RingLoad(x) /\ Last \in Nat /\ Last < RingLoad(x)
    BY <1>1, Constants
  <1>3. UnitAt(rg2, x.r, 0) = UnitAt(rg, x.r, 0) /\ UnitAt(rg2, x.r, Last) = UnitAt(rg, x.r, Last)
    BY <1>2
  <1> QED BY <1>3 DEF FrameAt

\* A side that takes the ring to be empty.
LEMMA InsideSettled ==
  ASSUME NEW x \in Sides, NEW c \in Cards, x.w = x.r,
         Off(x.r, c.r) <= 1, Off(x.r, c.r) <= RingLoad(c)
  PROVE  Inside(x, c)
  <1>1. x.r \in Slots /\ c.r \in Slots
    BY DEF Sides, Cards
  <1>2. RingLoad(x) = 0
    <2>1. RingLoad(x) = Off(x.r, x.r)
      BY LoadIs
    <2>2. Off(x.r, x.r) = IF x.r >= x.r THEN x.r - x.r ELSE x.r - x.r + Size
      BY <1>1, OffIs
    <2>3. x.r \in Nat
      BY <1>1, Constants DEF Slots
    <2> QED BY <2>1, <2>2, <2>3
  <1>3. Off(x.r, c.r) \in 0..Size - 1
    BY <1>1, OffIs
  <1> QED BY <1>2, <1>3, Constants DEF Inside

LEMMA SettledInside ==
  ASSUME NEW x \in Sides, NEW c \in Cards, Inside(x, c)
  PROVE  Settled(x) \in Sides /\ Inside(Settled(x), c)
  <1>1. /\ Settled(x) \in Sides /\ Settled(x).r = x.r /\ Settled(x).w = x.r
    BY SettledIs DEF Settled, Sides
  <1>2. Off(x.r, c.r) <= 1 /\ Off(x.r, c.r) <= RingLoad(c)
    <2>1. RingLoad(x) \in 0..Size - 1 /\ RingLoad(c) \in 0..Size - 1
      BY LoadIs, CardLoadIs
    <2>2. Off(x.r, c.r) \in 0..1
      BY InsideIs
    <2> QED BY <2>1, <2>2, Constants DEF Inside
  <1> QED BY <1>1, <1>2, InsideSettled

\* The card and the ring after a look for a frame.
LEMMA LookIs ==
  ASSUME TypeInv, card.run, Inside(rx, card), Chained(ring, card), Goes(ring, card),
         NEW STATE f, FoundGives(f),
         IF f.tell THEN Tell(f.rx) ELSE UNCHANGED <<card, ring>>
  PROVE  /\ card' \in Cards /\ card'.run /\ ring' \in [Slots -> Units]
         /\ Chained(ring', card') /\ Goes(ring', card')
         /\ Inside(f.rx, card') /\ f.rx \in Sides
         /\ f.found => FrameAt(ring', f.rx)
  <1>1. /\ f.rx \in Sides /\ card \in Cards /\ ring \in [Slots -> Units]
        /\ Off(f.rx.r, card.r) + RingLoad(f.rx) <= RingLoad(card)
        /\ f.found => FrameAt(ring, f.rx)
    BY DEF TypeInv, FoundGives, SeekKeeps
  <1>2. CASE f.tell
    <2>1. Tell(f.rx) /\ (RingLoad(f.rx) > 0 \/ Off(f.rx.r, card.r) >= 1)
      BY <1>2 DEF FoundGives
    <2> DEFINE x == f.rx
    <2>2. /\ x \in Sides /\ Off(x.r, card.r) + RingLoad(x) <= RingLoad(card)
          /\ Tell(x) /\ (RingLoad(x) > 0 \/ Off(x.r, card.r) >= 1)
      BY <1>1, <2>1
    <2> HIDE DEF x
    <2>3. /\ card' \in Cards /\ card'.run /\ ring' \in [Slots -> Units]
          /\ Chained(ring', card') /\ Goes(ring', card')
          /\ Off(x.r, card'.r) + RingLoad(x) <= RingLoad(card') /\ Off(x.r, card'.r) <= 1
          /\ \A o \in Nat : o < RingLoad(x) => UnitAt(ring', x.r, o) = UnitAt(ring, x.r, o)
      BY <2>2, TellIs
    <2>4. Inside(x, card')
      BY <2>3 DEF Inside
    <2>5. FrameAt(ring, x) => FrameAt(ring', x)
      BY <2>2, <2>3, FrameKept
    <2> QED BY <1>1, <2>3, <2>4, <2>5 DEF x
  <1>3. CASE ~f.tell
    <2>1. card' = card /\ ring' = ring /\ f.rx.r = rx.r
      BY <1>3 DEF FoundGives
    <2>2. Inside(f.rx, card)
      BY <1>1, <2>1 DEF Inside
    <2> QED BY <1>1, <2>1, <2>2
  <1> QED BY <1>2, <1>3

\* The card and the ring after a frame was passed.
LEMMA PassIs ==
  ASSUME TypeInv, card.run, Inside(rx, card), Chained(ring, card), Goes(ring, card),
         FrameAt(ring, rx),
         NEW STATE x, x \in Sides, x.r = On(rx.r, CodedSize), x.w = rx.w, Tell(x)
  PROVE  /\ card' \in Cards /\ card'.run /\ ring' \in [Slots -> Units]
         /\ Chained(ring', card') /\ Goes(ring', card') /\ Inside(x, card')
  <1> DEFINE d == Off(rx.r, card.r)
  <1>1. /\ rx \in Sides /\ card \in Cards /\ rx.r \in Slots /\ card.r \in Slots /\ rx.w \in Slots
    BY DEF TypeInv, Sides, Cards
  <1>2. /\ d \in 0..1 /\ On(card.r, d) = rx.r /\ d + RingLoad(rx) <= RingLoad(card)
        /\ RingLoad(rx) \in 0..Size - 1 /\ RingLoad(rx) >= CodedSize
        /\ RingLoad(card) \in 0..Size - 1 /\ RingLoad(rx) = Off(rx.w, rx.r)
    BY <1>1, InsideIs, LoadIs, CardLoadIs DEF Inside, FrameAt
  <1> HIDE DEF d
  <1>3. RingLoad(x) = RingLoad(rx) - CodedSize
    <2>1. CodedSize \in 0..Off(rx.w, rx.r)
      BY <1>2, Constants
    <2>2. Off(rx.w, On(rx.r, CodedSize)) = Off(rx.w, rx.r) - CodedSize
      BY <1>1, <2>1, OffOfMoved
    <2> QED BY <1>2, <2>2, LoadIs
  <1>4. Off(x.r, card.r) = d + CodedSize
    <2>1. d \in Nat /\ CodedSize \in Nat /\ d + CodedSize \in 0..Size - 1
          /\ d + CodedSize <= Size
      BY <1>2, Constants
    <2>2. On(rx.r, CodedSize) = On(card.r, d + CodedSize)
      BY <1>1, <1>2, <2>1, OnOfOn
    <2> QED BY <1>1, <2>1, <2>2, OffOfOn
  <1>5. Off(x.r, card.r) + RingLoad(x) <= RingLoad(card) /\ Off(x.r, card.r) >= 1
    BY <1>2, <1>3, <1>4, Constants
  <1>6. /\ card' \in Cards /\ card'.run /\ ring' \in [Slots -> Units]
        /\ Chained(ring', card') /\ Goes(ring', card')
        /\ Off(x.r, card'.r) + RingLoad(x) <= RingLoad(card') /\ Off(x.r, card'.r) <= 1
    BY <1>5, TellIs
  <1> QED BY <1>6 DEF Inside

LEMMA NothingOutIs ==
  ASSUME out' = NothingOut
  PROVE  OutInv'
  BY DEF OutInv, NothingOut, FieldsFollow, OverflowIsNoted

\* What is known where a frame with the ID that is expected is read.
LEMMA NotedIs ==
  ASSUME TypeInv, rx.run, KnownOf(rx, hist), NEW id, id = rx.expected,
         NEW arrival, NEW pictures
  PROVE  LET o == Delivered(id, arrival, pictures) IN o.lost => o.noted \/ o.started \/ o.excused
  <1> DEFINE o == Delivered(id, arrival, pictures)
  <1>1. /\ o.noted = rx.latched /\ o.started = hist.started /\ o.excused = hist.excused
        /\ o.lost = \E n \in hist.lost :
              Distance(hist.since, n) \in 1..Distance(hist.since, id) - 1
    BY DEF Delivered
  <1> HIDE DEF o
  <1>2. SUFFICES ASSUME Clean(rx, hist) PROVE ~o.lost
    BY <1>1 DEF KnownOf, o
  <1>3. hist.since \in UnitIds
    BY DEF TypeInv, Histories
  <1>4. Distance(hist.since, id) = 1
    BY <1>2, <1>3, DistanceFromNext DEF Clean
  <1> QED BY <1>1, <1>4

\* What is known right after a frame is read.
LEMMA SinceIs ==
  ASSUME TypeInv, NEW id \in UnitIds
  PROVE  /\ Since(id) \in Histories
         /\ \A y : y.insync /\ y.last = id /\ y.expected = (id + 1) % Ids
              => KnownOf(y, Since(id))
  <1> DEFINE lost == {n \in hist.lost : Distance(hist.since, n) > Distance(hist.since, id)}
  <1>1. lost \in SUBSET UnitIds
    BY DEF TypeInv, Histories
  <1> HIDE DEF lost
  <1>2. Since(id) = [since |-> id, started |-> FALSE, excused |-> FALSE, lost |-> lost]
    BY DEF Since, lost
  <1> QED BY <1>1, <1>2 DEF Histories, KnownOf, Clean

--------------------------------------------------------------------------------
(* The steps keep the invariant.                                           *)

LEMMA InitHolds ==
  ASSUME Init
  PROVE  IInv
  <1>1. PICK std \in Standards : rx = NewRx(std)
    BY DEF Init
  <1>2. card = Stopped(0) /\ ring = [s \in Slots |-> Unit(0, Blank)]
        /\ pc = Idle /\ out = NothingOut /\ hist = NoHistory(0)
    BY DEF Init
  <1>3. 0 \in UnitIds /\ 0 \in Slots /\ -1 \in -1..Ids - 1 /\ Quarters \in 0..Quarters
    BY Constants DEF UnitIds, Slots
  <1>4. card \in Cards
    BY <1>2, <1>3 DEF Stopped, Cards
  <1>5. Unit(0, Blank) \in Units
    BY <1>3 DEF Unit, Units, Blank
  <1>6. ring \in [Slots -> Units]
    BY <1>2, <1>5
  <1>7. NoPicture \in Shots
    BY <1>3 DEF NoPicture, Shots
  <1>8. rx \in Sides
    BY <1>1, <1>3, <1>7 DEF NewRx, Sides, None
  <1>9. pc \in Places /\ hist \in Histories
    BY <1>2, <1>3 DEF Places, NoHistory, Histories
  <1>10. RingLoad(card) = 0
    BY <1>2, Constants DEF RingLoad, Stopped
  <1>11. Chained(ring, card) /\ Goes(ring, card)
    BY <1>2, <1>10, Constants DEF Chained, Goes, Stopped
  <1>12. RunInv
    BY <1>1, <1>2 DEF RunInv, Stopped, NewRx
  <1>13. WhereInv
    BY <1>1, <1>2 DEF WhereInv, NewRx, Idle
  <1>14. HeldInv
    BY <1>1, <1>2 DEF HeldInv, SecondBuffer, NewRx, NoPicture, Idle
  <1>15. KnownOf(rx, hist)
    BY <1>1 DEF KnownOf, NewRx
  <1>16. OutInv
    BY <1>2 DEF OutInv, NothingOut, FieldsFollow, OverflowIsNoted
  <1> QED BY <1>4, <1>6, <1>8, <1>9, <1>11, <1>12, <1>13, <1>14, <1>15, <1>16
          DEF IInv, TypeInv

LEMMA CardEventKeeps ==
  ASSUME IInv, NEW fault \in Faults, CardEvent(fault)
  PROVE  IInv'
  <1> DEFINE begins == card.quarter = Quarters
             c0 == IF begins THEN Started(card, fault) ELSE card
             units == EventUnits(c0, begins, fault)
             c1 == Advanced(c0, units)
             ends == c1.quarter = Quarters - 1
             rg == Written(c0, units)
  <1>1. /\ card \in Cards /\ ring \in [Slots -> Units] /\ rx \in Sides /\ pc \in Places
        /\ hist \in Histories /\ card.run /\ rx' = rx /\ rx.run
        /\ Chained(ring, card) /\ Goes(ring, card) /\ Inside(rx, card)
    BY DEF IInv, TypeInv, CardEvent, RunInv
  <1>2. /\ card' = [c1 EXCEPT !.quarter = @ + 1, !.insync = @ /\ ~ends,
                              !.dropped = @ /\ ~ends]
        /\ ring' = rg /\ out' = NothingOut
        /\ pc' = IF pc # Waiting THEN pc
                 ELSE IF c1.insync /\ ~c1.dropped THEN Idle ELSE SawOutOfSync
        /\ hist' = [hist EXCEPT !.lost = IF c1.dropped THEN @ \cup {c1.num} ELSE @]
    BY DEF CardEvent, EventUnits
  <1>3. /\ c0 \in Cards /\ c0.quarter < Quarters
        /\ begins => c0.quarter = 0 /\ ~c0.dropped
        /\ ~begins => c0 = card
        /\ c0.w = card.w /\ c0.r = card.r /\ c0.run = card.run
    <2>1. CASE ~begins
      <3>1. card.quarter \in 0..Quarters
        BY <1>1 DEF Cards
      <3>2. c0 = card /\ card.quarter # Quarters
        BY <2>1
      <3>3. ~begins
        BY <2>1
      <3>4. card.quarter < Quarters
        BY <3>1, <3>2, Constants
      <3> HIDE DEF c0, begins
      <3> QED BY <1>1, <3>2, <3>3, <3>4
    <2>2. CASE begins
      <3> DEFINE num == (card.num + (IF fault = "skip" THEN 2 ELSE 1)) % Ids
                 sync == fault # "unsynced"
      <3>1. c0 = [card EXCEPT !.num = num, !.quarter = 0, !.dropped = FALSE, !.insync = sync]
        BY <2>2 DEF Started
      <3>2. num \in UnitIds /\ 0 \in 0..Quarters /\ FALSE \in BOOLEAN /\ sync \in BOOLEAN
        <4>1. card.num \in Nat
          BY <1>1, Constants DEF Cards, UnitIds
        <4> QED BY <4>1, Constants DEF UnitIds
      <3> HIDE DEF num, sync, c0
      <3>3. c0 \in Cards
        BY <1>1, <3>1, <3>2, Zenon DEF Cards
      <3>4. /\ c0.quarter = 0 /\ ~c0.dropped
            /\ c0.w = card.w /\ c0.r = card.r /\ c0.run = card.run
        BY <1>1, <3>1 DEF Cards
      <3> QED BY <2>2, <3>3, <3>4, Constants
    <2> QED BY <2>1, <2>2
  <1>4. RingLoad(c0) = RingLoad(card) /\ Chained(ring, c0) /\ (~begins => Goes(ring, c0))
    <2>1. RingLoad(c0) = RingLoad(card)
      BY <1>3 DEF RingLoad
    <2> HIDE DEF c0
    <2> QED BY <1>1, <1>3, <2>1 DEF Chained
  <1>5. begins \in BOOLEAN
    OBVIOUS
  <1> HIDE DEF c0, begins
  <1>6. units \in Seq(Units)
    BY <1>3, <1>5, UnitsAre
  <1>7. /\ c1 \in Cards /\ c1.run = c0.run /\ c1.r = c0.r /\ c1.num = c0.num
        /\ c1.quarter = c0.quarter /\ RingLoad(c1) >= RingLoad(card)
        /\ rg \in [Slots -> Units]
        /\ \A o \in Nat : o < RingLoad(card) => UnitAt(rg, card.r, o) = UnitAt(ring, card.r, o)
    <2> DEFINE n == Len(Fitting(c0, units))
    <2>1. n \in Nat /\ n = Len(Fitting(c0, units))
      BY <1>3, <1>6, FittingIs
    <2> HIDE DEF n
    <2>2. /\ c1 \in Cards /\ c1.run = c0.run /\ c1.r = c0.r /\ c1.num = c0.num
          /\ c1.quarter = c0.quarter /\ RingLoad(c1) = RingLoad(c0) + n
          /\ rg \in [Slots -> Units]
          /\ \A o \in Nat : o < RingLoad(c0) => UnitAt(rg, c0.r, o) = UnitAt(ring, c0.r, o)
      <3> DEFINE us == units
      <3>1. us \in Seq(Units) /\ n = Len(Fitting(c0, us)) /\ c0 \in Cards
        BY <1>3, <1>6, <2>1
      <3> HIDE DEF us
      <3>2. /\ Advanced(c0, us) \in Cards
            /\ Advanced(c0, us).run = c0.run /\ Advanced(c0, us).r = c0.r
            /\ Advanced(c0, us).num = c0.num /\ Advanced(c0, us).quarter = c0.quarter
            /\ RingLoad(Advanced(c0, us)) = RingLoad(c0) + n
            /\ Written(c0, us) \in [Slots -> Units]
            /\ \A o \in Nat : o < RingLoad(c0)
                 => UnitAt(Written(c0, us), c0.r, o) = UnitAt(ring, c0.r, o)
        BY <1>1, <3>1, WriteIs
      <3> QED BY <3>2 DEF us
    <2>3. RingLoad(card) \in 0..Size - 1
      BY <1>1, CardLoadIs
    <2> HIDE DEF c1, rg
    <2> QED BY <1>3, <1>4, <2>1, <2>2, <2>3, Constants
  <1>8. /\ Chained(rg, c1)
        /\ c1.insync /\ ~c1.dropped
           => Joins(rg, c0.r, RingLoad(c1), Unit(c0.num, Upto(c0.quarter + 1) * Stride + 1))
    BY <1>1, <1>3, <1>4, <1>5, EventKeeps
  <1> HIDE DEF units, rg, c1
  <1>9. /\ card' \in Cards /\ card'.run /\ card'.w = c1.w /\ card'.r = card.r
        /\ card'.num = c1.num /\ card'.quarter = c1.quarter + 1
        /\ card'.insync => c1.insync /\ ~ends
        /\ ~card'.dropped => ~c1.dropped \/ ends
    <2> DEFINE b == c1.insync /\ ~ends
               e == c1.dropped /\ ~ends
               q == c1.quarter + 1
    <2>1. card' = [c1 EXCEPT !.quarter = q, !.insync = b, !.dropped = e]
      BY <1>2
    <2>2. q \in 0..Quarters /\ b \in BOOLEAN /\ e \in BOOLEAN
      <3>1. c1.quarter \in Nat /\ c1.quarter < Quarters
        BY <1>3, <1>7, Constants DEF Cards
      <3>2. b \in BOOLEAN /\ e \in BOOLEAN
        BY <1>7, Zenon DEF Cards
      <3> QED BY <3>1, <3>2, Constants
    <2> HIDE DEF q, b, e
    <2>3. card' \in Cards
      BY <1>7, <2>1, <2>2, Zenon DEF Cards
    <2>4. /\ card'.run = c1.run /\ card'.w = c1.w /\ card'.r = c1.r /\ card'.num = c1.num
          /\ card'.quarter = q /\ card'.insync = b /\ card'.dropped = e
      BY <1>7, <2>1 DEF Cards
    <2> QED BY <1>1, <1>3, <1>7, <2>3, <2>4 DEF q, b, e
  <1>10. RingLoad(card') = RingLoad(c1)
    BY <1>3, <1>7, <1>9 DEF RingLoad
  <1>11. Chained(ring', card') /\ Goes(ring', card')
    <2>1. Chained(ring', card')
      BY <1>2, <1>3, <1>7, <1>8, <1>9, <1>10 DEF Chained
    <2>2. Goes(ring', card')
      <3>1. SUFFICES ASSUME card'.insync, ~card'.dropped
                     PROVE  Joins(rg, card'.r, RingLoad(card'),
                                  Unit(card'.num, Upto(card'.quarter) * Stride + 1))
        BY <1>2 DEF Goes
      <3>2. c1.insync /\ ~c1.dropped
        BY <1>9, <3>1
      <3> QED BY <1>3, <1>7, <1>8, <1>9, <1>10, <3>2
    <2> QED BY <2>1, <2>2
  <1>12. \A o \in Nat : o < RingLoad(rx) => UnitAt(ring', rx.r, o) = UnitAt(ring, rx.r, o)
    <2> DEFINE d == Off(rx.r, card.r)
    <2>1. d \in 0..1 /\ d + RingLoad(rx) <= RingLoad(card)
          /\ \A rr : \A o \in Nat : o <= RingLoad(rx)
               => UnitAt(rr, rx.r, o) = UnitAt(rr, card.r, d + o)
      BY <1>1, InsideIs DEF Inside
    <2> HIDE DEF d
    <2>2. RingLoad(rx) \in 0..Size - 1 /\ RingLoad(card) \in 0..Size - 1
      BY <1>1, LoadIs, CardLoadIs
    <2>3. ASSUME NEW o \in Nat, o < RingLoad(rx)
          PROVE  UnitAt(ring', rx.r, o) = UnitAt(ring, rx.r, o)
      <3>1. d + o \in Nat /\ d + o < RingLoad(card) /\ o <= RingLoad(rx)
        BY <2>1, <2>2, <2>3, Constants
      <3>2. UnitAt(ring', rx.r, o) = UnitAt(ring', card.r, d + o)
        BY <2>1, <3>1
      <3>3. UnitAt(ring, rx.r, o) = UnitAt(ring, card.r, d + o)
        BY <2>1, <3>1
      <3> QED BY <1>2, <1>7, <3>1, <3>2, <3>3
    <2> QED BY <2>3
  <1>13. hist' \in Histories /\ hist'.started = hist.started /\ hist'.excused = hist.excused
         /\ hist'.since = hist.since
    <2> DEFINE lost == IF c1.dropped THEN hist.lost \cup {c1.num} ELSE hist.lost
    <2>1. hist' = [hist EXCEPT !.lost = lost]
      BY <1>2
    <2>2. lost \in SUBSET UnitIds
      BY <1>1, <1>7 DEF Histories, Cards
    <2> HIDE DEF lost
    <2> QED BY <1>1, <2>1, <2>2 DEF Histories
  <1>14. pc' \in Places /\ (pc' = pc \/ (pc = Waiting /\ pc' \in {Idle, SawOutOfSync}))
    BY <1>1, <1>2 DEF Places
  <1>15. TypeInv'
    BY <1>1, <1>2, <1>7, <1>9, <1>13, <1>14 DEF TypeInv
  <1>16. RunInv'
    <2>1. Inside(rx, card')
      <3>1. RingLoad(rx) \in 0..Size - 1 /\ RingLoad(card) \in 0..Size - 1
            /\ RingLoad(card') \in 0..Size - 1
        BY <1>1, <1>9, LoadIs, CardLoadIs
      <3>2. Off(rx.r, card.r) \in 0..1
        BY <1>1, InsideIs
      <3> QED BY <1>1, <1>7, <1>9, <1>10, <3>1, <3>2, Constants DEF Inside
    <2> QED BY <1>1, <1>9, <2>1 DEF RunInv
  <1>17. WhereInv'
    <2>1. WhereInv
      BY DEF IInv
    <2>2. FrameAt(ring, rx) => FrameAt(ring', rx)
      BY <1>1, <1>12, FrameKept
    <2> QED BY <1>1, <1>14, <2>1, <2>2 DEF WhereInv, Idle, Waiting, SawOutOfSync
  <1>18. HeldInv' /\ KnownOf(rx, hist)' /\ OutInv'
    <2>1. HeldInv'
      <3>1. SecondBuffer' => SecondBuffer /\ pc' = pc
        BY <1>14 DEF SecondBuffer, Idle, SawOutOfSync
      <3> QED BY <1>1, <3>1 DEF IInv, HeldInv
    <2>2. KnownOf(rx, hist)'
      BY <1>1, <1>13 DEF IInv, KnownOf, Clean
    <2>3. OutInv'
      BY <1>2, NothingOutIs
    <2> QED BY <2>1, <2>2, <2>3
  <1> QED BY <1>11, <1>15, <1>16, <1>17, <1>18 DEF IInv

LEMMA LookedIs ==
  ASSUME TypeInv
  PROVE  Looked \in Histories
  <1> DEFINE b == hist.excused \/ (rx.insync /\ RingLoad(Synced(rx)) >= CodedSize
                                   /\ At(Synced(rx), 0).part # Header)
  <1>1. Looked = [hist EXCEPT !.excused = b]
    BY DEF Looked
  <1>2. hist \in Histories /\ rx \in Sides
    BY DEF TypeInv
  <1>3. b \in BOOLEAN
    BY <1>2, Zenon DEF Histories, Sides
  <1> HIDE DEF b
  <1> QED BY <1>1, <1>2, <1>3 DEF Histories

LEMMA LookToCopyKeeps ==
  ASSUME IInv, LookToCopy
  PROVE  IInv'
  <1> DEFINE f == FindFrame
             count == IF pc = Idle THEN 1 ELSE pc.count
             letGo == rx.held /\ ~f.rx.held
             copying == Copying(count, BufferFor(rx), letGo)
  <1>1. /\ card \in Cards /\ ring \in [Slots -> Units] /\ rx \in Sides /\ pc \in Places
        /\ hist \in Histories /\ card.run /\ rx.run /\ rx.lent = None
        /\ Chained(ring, card) /\ Goes(ring, card) /\ Inside(rx, card)
        /\ TypeInv /\ HeldInv /\ KnownOf(rx, hist) /\ pc.at \in {"idle", "look"}
    BY DEF IInv, TypeInv, LookToCopy, RunInv
  <1>2. /\ rx' = IF f.found THEN f.rx ELSE Settled(f.rx)
        /\ IF f.tell THEN Tell(f.rx) ELSE UNCHANGED <<card, ring>>
        /\ pc' \in IF f.found THEN {copying} ELSE NoFrame
        /\ hist' = Looked /\ out' = NothingOut
    BY DEF LookToCopy
  <1>3. FoundGives(f) /\ KnownOf(f.rx, Looked)
    BY <1>1, FindFrameIs
  <1> HIDE DEF f
  <1>4. /\ card' \in Cards /\ card'.run /\ ring' \in [Slots -> Units]
        /\ Chained(ring', card') /\ Goes(ring', card')
        /\ Inside(f.rx, card') /\ f.rx \in Sides
        /\ f.found => FrameAt(ring', f.rx)
    BY <1>1, <1>2, <1>3, LookIs
  <1>5. Settled(f.rx) \in Sides /\ Inside(Settled(f.rx), card')
    BY <1>4, SettledInside
  <1>6. /\ f.rx.std = rx.std /\ f.rx.run = rx.run /\ f.rx.lent = rx.lent
        /\ f.rx.arrival = rx.arrival /\ f.rx.picture = rx.picture
        /\ f.rx.held => rx.held /\ f.rx.insync /\ f.rx.expected = rx.expected
    <2>1. /\ Synced(rx).std = rx.std /\ Synced(rx).run = rx.run /\ Synced(rx).lent = rx.lent
          /\ Synced(rx).arrival = rx.arrival /\ Synced(rx).picture = rx.picture
      BY <1>1 DEF Synced, Sides
    <2> QED BY <1>3, <2>1 DEF FoundGives, SeekKeeps
  <1>7. /\ rx' \in Sides /\ Inside(rx', card')
        /\ rx'.std = rx.std /\ rx'.run /\ rx'.lent = None
        /\ rx'.arrival = rx.arrival /\ rx'.picture = rx.picture
        /\ rx'.held => rx.held /\ rx'.insync /\ rx'.expected = rx.expected
        /\ rx'.insync = f.rx.insync /\ rx'.last = f.rx.last /\ rx'.expected = f.rx.expected
        /\ rx'.latched = f.rx.latched
        /\ f.found => FrameAt(ring', rx')
    <2>1. CASE f.found
      BY <1>1, <1>2, <1>4, <1>6, <2>1
    <2>2. CASE ~f.found
      <3>1. rx' = [f.rx EXCEPT !.w = f.rx.r]
        BY <1>2, <2>2 DEF Settled
      <3>2. rx' \in Sides /\ Inside(rx', card')
        BY <1>2, <1>5, <2>2
      <3> QED BY <1>1, <1>4, <1>6, <2>2, <3>1, <3>2 DEF Sides
    <2> QED BY <2>1, <2>2
  <1>8. /\ pc' \in Places /\ pc'.at # "look"
        /\ pc'.at = "copy" => f.found /\ pc' = copying
    <2>1. count \in 1..3 /\ BufferFor(rx) \in {0, 1} /\ letGo \in BOOLEAN
      BY <1>1 DEF BufferFor, Places, Idle, Waiting, SawOutOfSync
    <2>2. copying \in Places /\ copying.at = "copy"
      BY <2>1 DEF Copying, Places
    <2> HIDE DEF copying
    <2>3. CASE f.found
      BY <1>2, <2>2, <2>3
    <2>4. CASE ~f.found
      BY <1>1, <1>2, <2>4 DEF NoFrame, Places, Idle, Waiting
    <2> QED BY <2>3, <2>4
  <1>9. hist' \in Histories
    BY <1>1, <1>2, LookedIs
  <1>10. WhereInv'
    BY <1>7, <1>8 DEF WhereInv
  <1>11. HeldInv'
    <2>1. SecondBuffer' => /\ rx.held /\ pc'.letGo = (rx.held /\ ~f.rx.held)
                           /\ rx' = f.rx
      <3>1. SecondBuffer' => f.found /\ pc' = copying /\ copying.buffer = 1
        BY <1>8 DEF SecondBuffer
      <3> QED BY <1>2, <3>1 DEF Copying, BufferFor
    <2>2. SecondBuffer' => rx'.held \/ pc'.letGo
      BY <2>1
    <2> QED BY <1>1, <1>7, <2>1, <2>2 DEF HeldInv
  <1>12. KnownOf(rx, hist)'
    BY <1>1, <1>2, <1>3, <1>6, <1>7 DEF KnownOf, Clean
  <1>13. OutInv'
    BY <1>2, NothingOutIs
  <1> QED BY <1>4, <1>7, <1>8, <1>9, <1>10, <1>11, <1>12, <1>13 DEF IInv, TypeInv, RunInv

LEMMA LendFrameKeeps ==
  ASSUME IInv, LendFrame
  PROVE  IInv'
  <1> DEFINE f == FindFrame
             id == At(f.rx, 0).id
  <1>1. /\ card \in Cards /\ ring \in [Slots -> Units] /\ rx \in Sides /\ pc = Idle
        /\ hist \in Histories /\ card.run /\ rx.run /\ rx.lent = None /\ (Mixed \/ ~rx.held)
        /\ Chained(ring, card) /\ Goes(ring, card) /\ Inside(rx, card)
        /\ TypeInv /\ HeldInv /\ KnownOf(rx, hist)
    BY DEF IInv, TypeInv, LendFrame, RunInv
  <1>2. /\ rx' = IF f.found THEN [f.rx EXCEPT !.lent = id] ELSE Settled(f.rx)
        /\ IF f.tell THEN Tell(f.rx) ELSE UNCHANGED <<card, ring>>
        /\ pc' \in IF f.found THEN {Idle} ELSE NoFrame
        /\ hist' = Looked /\ out' = NothingOut
    BY DEF LendFrame
  <1>3. FoundGives(f) /\ KnownOf(f.rx, Looked)
    BY <1>1, FindFrameIs
  <1> HIDE DEF f
  <1>4. /\ card' \in Cards /\ card'.run /\ ring' \in [Slots -> Units]
        /\ Chained(ring', card') /\ Goes(ring', card')
        /\ Inside(f.rx, card') /\ f.rx \in Sides
        /\ f.found => FrameAt(ring', f.rx)
    BY <1>1, <1>2, <1>3, LookIs
  <1>5. Settled(f.rx) \in Sides /\ Inside(Settled(f.rx), card')
    BY <1>4, SettledInside
  <1>6. /\ f.rx.std = rx.std /\ f.rx.run = rx.run /\ f.rx.lent = rx.lent
        /\ f.rx.arrival = rx.arrival /\ f.rx.picture = rx.picture
        /\ f.rx.held => rx.held /\ f.rx.insync /\ f.rx.expected = rx.expected
    <2>1. /\ Synced(rx).std = rx.std /\ Synced(rx).run = rx.run /\ Synced(rx).lent = rx.lent
          /\ Synced(rx).arrival = rx.arrival /\ Synced(rx).picture = rx.picture
      BY <1>1 DEF Synced, Sides
    <2> QED BY <1>3, <2>1 DEF FoundGives, SeekKeeps
  <1>7. f.found => id = f.rx.expected /\ id \in UnitIds
    <2>1. id = UnitAt(ring, f.rx.r, 0).id
      BY <1>4, AtIs
    <2>2. f.rx.expected \in UnitIds
      BY <1>4 DEF Sides
    <2> QED BY <1>3, <2>1, <2>2 DEF FoundGives, FrameAt
  <1> HIDE DEF id
  <1>8. /\ rx' \in Sides /\ Inside(rx', card')
        /\ rx'.std = rx.std /\ rx'.run
        /\ rx'.arrival = rx.arrival /\ rx'.picture = rx.picture
        /\ rx'.held => rx.held /\ rx'.insync /\ rx'.expected = rx.expected
        /\ rx'.insync = f.rx.insync /\ rx'.last = f.rx.last /\ rx'.expected = f.rx.expected
        /\ rx'.latched = f.rx.latched
        /\ rx'.lent # None => /\ f.found /\ FrameAt(ring', rx')
                             /\ rx'.lent = rx'.expected
    <2>1. CASE f.found
      <3>1. rx' = [f.rx EXCEPT !.lent = id]
        BY <1>2, <2>1
      <3>2. id \in -1..Ids - 1
        BY <1>7, <2>1, Constants DEF UnitIds
      <3>3. rx' \in Sides
        BY <1>4, <3>1, <3>2, Zenon DEF Sides
      <3>4. /\ rx'.r = f.rx.r /\ rx'.w = f.rx.w /\ rx'.insync = f.rx.insync
            /\ rx'.expected = f.rx.expected /\ rx'.std = f.rx.std /\ rx'.run = f.rx.run
            /\ rx'.arrival = f.rx.arrival /\ rx'.picture = f.rx.picture
            /\ rx'.held = f.rx.held /\ rx'.last = f.rx.last /\ rx'.latched = f.rx.latched
            /\ rx'.lent = id
        BY <1>4, <3>1 DEF Sides
      <3>5. RingLoad(rx') = RingLoad(f.rx)
        BY <3>4 DEF RingLoad
      <3>6. Inside(rx', card')
        BY <1>4, <3>4, <3>5 DEF Inside
      <3>7. FrameAt(ring', rx')
        BY <1>4, <2>1, <3>4, <3>5 DEF FrameAt
      <3> QED BY <1>1, <1>6, <1>7, <2>1, <3>3, <3>4, <3>6, <3>7
    <2>2. CASE ~f.found
      <3>1. rx' = [f.rx EXCEPT !.w = f.rx.r]
        BY <1>2, <2>2 DEF Settled
      <3>2. rx' \in Sides /\ Inside(rx', card')
        BY <1>2, <1>5, <2>2
      <3> QED BY <1>1, <1>4, <1>6, <2>2, <3>1, <3>2 DEF Sides
    <2> QED BY <2>1, <2>2
  <1>9. /\ pc' \in {Idle, Waiting} /\ (f.found => pc' = Idle)
    BY <1>1, <1>2 DEF NoFrame
  <1>10. pc' \in Places /\ pc'.at \notin {"look", "copy"}
    BY <1>9 DEF Places, Idle, Waiting
  <1>11. hist' \in Histories
    BY <1>1, <1>2, LookedIs
  <1>12. WhereInv'
    BY <1>1, <1>8, <1>9, <1>10 DEF WhereInv
  <1>13. HeldInv'
    BY <1>1, <1>8, <1>10 DEF HeldInv, SecondBuffer
  <1>14. KnownOf(rx, hist)'
    BY <1>1, <1>2, <1>3, <1>6, <1>8 DEF KnownOf, Clean
  <1>15. OutInv'
    BY <1>2, NothingOutIs
  <1> QED BY <1>4, <1>8, <1>10, <1>11, <1>12, <1>13, <1>14, <1>15 DEF IInv, TypeInv, RunInv

\* A frame at the read offset is read, and its place given back.
LEMMA ReadIs ==
  ASSUME IInv, rx.run, FrameAt(ring, rx), NEW STATE id, id = rx.expected,
         NEW STATE x, x = FinishFrame(id)
  PROVE  /\ id \in UnitIds
         /\ PictureAt(rx).whole /\ PictureAt(rx).id = id /\ PictureAt(rx) \in Shots
         /\ Finished(x, id) /\ x.run /\ x.insync
  <1>1. /\ rx \in Sides /\ card \in Cards /\ TypeInv /\ Chained(ring, card) /\ Inside(rx, card)
    BY DEF IInv, TypeInv, RunInv
  <1>2. id \in UnitIds
    BY <1>1 DEF Sides
  <1>3. /\ PictureAt(rx).whole /\ PictureAt(rx).id = id /\ PictureAt(rx) \in Shots
    BY <1>1, FrameIsWhole
  <1>4. Finished(x, id)
    BY <1>1, <1>2, FinishFrameIs
  <1> QED BY <1>2, <1>3, <1>4 DEF FrameAt, Finished

LEMMA PassedIs ==
  ASSUME IInv, rx.run, FrameAt(ring, rx), NEW STATE id, id = rx.expected,
         NEW STATE x, x \in Sides, x.r = FinishFrame(id).r, x.w = rx.w, Tell(x),
         NEW STATE y, y \in Sides, y.r = x.r, y.w = x.r
  PROVE  /\ card' \in Cards /\ card'.run /\ ring' \in [Slots -> Units]
         /\ Chained(ring', card') /\ Goes(ring', card') /\ Inside(y, card')
  <1>1. /\ rx \in Sides /\ card \in Cards /\ TypeInv /\ card.run
        /\ Chained(ring, card) /\ Goes(ring, card) /\ Inside(rx, card)
    BY DEF IInv, TypeInv, RunInv
  <1>2. id \in UnitIds
    BY <1>1 DEF Sides
  <1>3. x.r = On(rx.r, CodedSize)
    BY <1>1, <1>2, FinishFrameIs DEF Finished
  <1>4. /\ card' \in Cards /\ card'.run /\ ring' \in [Slots -> Units]
        /\ Chained(ring', card') /\ Goes(ring', card') /\ Inside(x, card')
    BY <1>1, <1>3, PassIs
  <1>5. Settled(x) \in Sides /\ Inside(Settled(x), card')
    BY <1>4, SettledInside
  <1>6. Settled(x).r = y.r /\ Settled(x).w = y.w
    BY DEF Settled, Sides
  <1>7. Inside(y, card')
    BY <1>5, <1>6 DEF Inside, RingLoad
  <1> QED BY <1>4, <1>7

LEMMA FinishCopyKeeps ==
  ASSUME IInv, FinishCopy
  PROVE  IInv'
  <1> DEFINE picture == PictureAt(rx)
             id == rx.expected
             x == FinishFrame(id)
  <1>1. /\ rx \in Sides /\ TypeInv /\ WhereInv /\ HeldInv /\ KnownOf(rx, hist) /\ RunInv
        /\ pc.at = "copy" /\ rx.std = "a"
    BY DEF IInv, TypeInv, FinishCopy
  <1>2. rx.run /\ rx.lent = None /\ FrameAt(ring, rx)
    BY <1>1 DEF WhereInv
  <1>3. /\ id \in UnitIds /\ picture.whole /\ picture.id = id /\ picture \in Shots
        /\ Finished(x, id) /\ x.run /\ x.insync
    BY <1>2, ReadIs
  <1>4. /\ rx' = Settled(FinishFrame(picture.id)) /\ Tell(FinishFrame(picture.id)) /\ pc' = Idle
        /\ out' = Delivered(picture.id, picture.id, <<picture>>)
        /\ hist' = Since(picture.id)
    BY DEF FinishCopy
  <1> HIDE DEF picture
  <1>5. /\ rx' = Settled(x) /\ Tell(x)
        /\ out' = Delivered(id, id, <<picture>>) /\ hist' = Since(id)
    BY <1>3, <1>4
  <1> HIDE DEF id
  <1>7. /\ Settled(x) \in Sides /\ Settled(x).r = x.r /\ Settled(x).w = x.r
        /\ Settled(x).std = x.std /\ Settled(x).run = x.run /\ Settled(x).insync = x.insync
        /\ Settled(x).lent = x.lent /\ Settled(x).held = x.held
        /\ Settled(x).arrival = x.arrival /\ Settled(x).picture = x.picture
        /\ Settled(x).last = x.last /\ Settled(x).expected = x.expected
    <2> HIDE DEF x
    <2> QED BY <1>3, SettledIs DEF Settled, Sides, Finished
  <1>8. /\ card' \in Cards /\ card'.run /\ ring' \in [Slots -> Units]
        /\ Chained(ring', card') /\ Goes(ring', card') /\ Inside(rx', card')
    <2> DEFINE y == Settled(x)
    <2>1. y \in Sides /\ y.r = x.r /\ y.w = x.r /\ rx' = y
      BY <1>5, <1>7
    <2>2. x.r = FinishFrame(id).r /\ id = rx.expected
      BY DEF id
    <2> HIDE DEF y, x
    <2>3. /\ card' \in Cards /\ card'.run /\ ring' \in [Slots -> Units]
          /\ Chained(ring', card') /\ Goes(ring', card') /\ Inside(y, card')
      BY <1>2, <1>3, <1>5, <2>1, <2>2, PassedIs DEF Finished
    <2> QED BY <2>1, <2>3
  <1> HIDE DEF x
  <1>9. /\ rx' \in Sides /\ rx'.std = "a" /\ rx'.run /\ rx'.insync /\ rx'.lent = None
        /\ rx'.held = rx.held /\ rx'.picture = rx.picture
        /\ rx'.last = id /\ rx'.expected = (id + 1) % Ids
    BY <1>1, <1>2, <1>3, <1>5, <1>7 DEF Finished
  <1>10. pc' \in Places /\ pc'.at = "idle"
    BY <1>4 DEF Places, Idle
  <1>11. hist' \in Histories /\ KnownOf(rx, hist)'
    <2>1. Since(id) \in Histories
      BY <1>1, <1>3, SinceIs
    <2>2. KnownOf(rx', Since(id))
      BY <1>1, <1>3, <1>9, SinceIs
    <2> QED BY <1>5, <2>1, <2>2
  <1>12. WhereInv'
    BY <1>9, <1>10 DEF WhereInv
  <1>13. HeldInv'
    BY <1>1, <1>9, <1>10 DEF HeldInv, SecondBuffer
  <1>14. OutInv'
    <2>1. out'.pictures = <<picture>>
      BY <1>5 DEF Delivered
    <2>2. \A i \in DOMAIN out'.pictures : out'.pictures[i].whole
      BY <1>3, <2>1
    <2>3. Len(out'.pictures) # 2
      BY <2>1
    <2>4. out'.lost => out'.noted \/ out'.started \/ out'.excused
      BY <1>1, <1>2, <1>5, NotedIs DEF id
    <2> QED BY <2>2, <2>3, <2>4 DEF OutInv, FieldsFollow, OverflowIsNoted
  <1> QED BY <1>8, <1>9, <1>10, <1>11, <1>12, <1>13, <1>14 DEF IInv, TypeInv, RunInv

\* A side that differs from another at most in the field that is held.
ButForField(z, y) ==
  /\ z \in Sides /\ z.r = y.r /\ z.w = y.w
  /\ z.std = y.std /\ z.run = y.run /\ z.insync = y.insync /\ z.lent = y.lent
  /\ z.last = y.last /\ z.expected = y.expected

\* The same picture, but for whether it is stale.
Kin(p, q, stale) == p.id = q.id /\ p.whole = q.whole /\ p.stale = stale

LEMMA StaleIs ==
  ASSUME NEW q \in Shots, NEW stale \in BOOLEAN
  PROVE  /\ [q EXCEPT !.stale = stale] \in Shots
         /\ Kin([q EXCEPT !.stale = stale], q, stale)
  BY DEF Shots, Kin

\* A field 1 is held from here on, its picture in the first buffer or, where a read into the
\* second lost its field 1, the picture that is there.
LEMMA FirstFieldIs ==
  ASSUME NEW y \in Sides, NEW place, place.buffer \in {0, 1}, place.letGo \in BOOLEAN,
         NEW p \in Shots, NEW id \in UnitIds, p.id = id,
         NEW z, z = FirstField(y, place, p)
  PROVE  /\ ButForField(z, y) /\ z.arrival = id
         /\ z.picture = p \/ (~y.held /\ place.buffer = 1 /\ Kin(z.picture, y.picture, place.letGo))
  <1> DEFINE old == [y.picture EXCEPT !.stale = place.letGo]
             q == IF y.held \/ place.buffer = 0 THEN p ELSE old
  <1>1. z = [y EXCEPT !.picture = q, !.held = TRUE, !.arrival = id]
    BY DEF FirstField
  <1>2. y.picture \in Shots /\ id \in -1..Ids - 1
    BY Constants DEF Sides, UnitIds
  <1>3. old \in Shots /\ Kin(old, y.picture, place.letGo)
    BY <1>2, StaleIs
  <1> HIDE DEF old
  <1>4. /\ q \in Shots /\ TRUE \in BOOLEAN
        /\ q = p \/ (~y.held /\ place.buffer = 1 /\ Kin(q, y.picture, place.letGo))
    BY <1>3
  <1> HIDE DEF q
  <1>5. z \in Sides
    BY <1>1, <1>2, <1>4, Zenon DEF Sides
  <1>6. /\ z.r = y.r /\ z.w = y.w
        /\ z.std = y.std /\ z.run = y.run /\ z.insync = y.insync /\ z.lent = y.lent
        /\ z.last = y.last /\ z.expected = y.expected
        /\ z.arrival = id /\ z.picture = q
    BY <1>1 DEF Sides
  <1> QED BY <1>4, <1>5, <1>6 DEF ButForField

LetGo(y) == [y EXCEPT !.held = FALSE, !.arrival = -1, !.picture = NoPicture]

LEMMA NoFieldIs ==
  ASSUME NEW y \in Sides
  PROVE  ButForField(LetGo(y), y) /\ ~LetGo(y).held /\ LetGo(y).picture = NoPicture
  <1> DEFINE a == -1
             z == LetGo(y)
  <1>1. NoPicture \in Shots /\ FALSE \in BOOLEAN /\ a \in -1..Ids - 1
    BY Constants DEF NoPicture, Shots
  <1>2. z = [y EXCEPT !.held = FALSE, !.arrival = a, !.picture = NoPicture]
    BY DEF LetGo
  <1> HIDE DEF a, z
  <1>3. z \in Sides
    BY <1>1, <1>2, Zenon DEF Sides
  <1>4. /\ z.r = y.r /\ z.w = y.w
        /\ z.std = y.std /\ z.run = y.run /\ z.insync = y.insync /\ z.lent = y.lent
        /\ z.last = y.last /\ z.expected = y.expected
        /\ ~z.held /\ z.picture = NoPicture
    BY <1>2 DEF Sides
  <1> QED BY <1>3, <1>4 DEF ButForField, z

\* A settled side has the rest of its fields as they were.
LEMMA SettledHas ==
  ASSUME NEW x \in Sides, NEW y, y = Settled(x)
  PROVE  /\ y \in Sides /\ y.r = x.r /\ y.w = x.r
         /\ y.std = x.std /\ y.run = x.run /\ y.insync = x.insync /\ y.lent = x.lent
         /\ y.held = x.held /\ y.arrival = x.arrival /\ y.picture = x.picture
         /\ y.last = x.last /\ y.expected = x.expected
  BY SettledIs DEF Settled, Sides

LEMMA FinishPictureKeeps ==
  ASSUME IInv, FinishPicture
  PROVE  IInv'
  <1> DEFINE picture == PictureAt(rx)
             id == rx.expected
             x == FinishFrame(id)
             y == Settled(x)
             pair == FieldOf(id) = 2 /\ x.held
  <1>1. /\ rx \in Sides /\ TypeInv /\ WhereInv /\ HeldInv /\ KnownOf(rx, hist) /\ RunInv
        /\ pc \in Places /\ pc.at = "copy" /\ rx.std = "b"
    BY DEF IInv, TypeInv, FinishPicture
  <1>2. rx.run /\ rx.lent = None /\ FrameAt(ring, rx)
    BY <1>1 DEF WhereInv
  <1>3. /\ id \in UnitIds /\ picture.whole /\ picture.id = id /\ picture \in Shots
        /\ Finished(x, id) /\ x.run /\ x.insync
    BY <1>2, ReadIs
  <1>4. /\ Tell(FinishFrame(picture.id))
        /\ FieldOf(picture.id) = 1
             => rx' = FirstField(Settled(FinishFrame(picture.id)), pc, picture)
        /\ FieldOf(picture.id) # 1
             => rx' = [Settled(FinishFrame(picture.id)) EXCEPT !.held = FALSE, !.arrival = -1,
                                                                !.picture = NoPicture]
    BY DEF FinishPicture
  <1>5. LET p == FieldOf(picture.id) = 2 /\ FinishFrame(picture.id).held IN
        /\ out' = Delivered(picture.id, IF p THEN FinishFrame(picture.id).arrival ELSE -1,
                            IF p THEN <<FinishFrame(picture.id).picture, picture>> ELSE <<>>)
        /\ pc' \in IF p THEN {Idle}
                   ELSE IF pc.count < 3 THEN {Looking(pc.count + 1)} ELSE NoFrame
        /\ hist' = Since(picture.id)
    BY DEF FinishPicture
  <1> HIDE DEF picture
  <1>6. /\ Tell(x) /\ hist' = Since(id)
        /\ FieldOf(id) = 1 => rx' = FirstField(y, pc, picture)
        /\ FieldOf(id) # 1 => rx' = [y EXCEPT !.held = FALSE, !.arrival = -1,
                                              !.picture = NoPicture]
    BY <1>3, <1>4, <1>5
  <1>7. /\ out' = Delivered(id, IF pair THEN x.arrival ELSE -1,
                            IF pair THEN <<x.picture, picture>> ELSE <<>>)
        /\ pc' \in IF pair THEN {Idle}
                   ELSE IF pc.count < 3 THEN {Looking(pc.count + 1)} ELSE NoFrame
    BY <1>3, <1>5
  <1>8. x.r = FinishFrame(id).r /\ id = rx.expected
    OBVIOUS
  <1> HIDE DEF id, x
  <1>9. /\ y \in Sides /\ y.r = x.r /\ y.w = x.r
        /\ y.std = x.std /\ y.run = x.run /\ y.insync = x.insync /\ y.lent = x.lent
        /\ y.held = x.held /\ y.arrival = x.arrival /\ y.picture = x.picture
        /\ y.last = x.last /\ y.expected = x.expected
    BY <1>3, SettledHas DEF Finished
  <1> HIDE DEF y
  <1>10. /\ x.std = "b" /\ x.lent = None /\ x.last = id /\ x.expected = (id + 1) % Ids
         /\ x.arrival = rx.arrival /\ x.picture = rx.picture
    BY <1>1, <1>2, <1>3 DEF Finished
  <1>11. x.held = rx.held
    BY <1>3 DEF Finished
  <1>12. pc.buffer \in {0, 1} /\ pc.letGo \in BOOLEAN /\ pc.count \in 1..3
    BY <1>1 DEF Places, Idle, Waiting, SawOutOfSync
  <1> DEFINE z == rx'
  <1>13. /\ z \in Sides /\ z.r = x.r /\ z.w = x.r
         /\ z.std = "b" /\ z.run /\ z.insync /\ z.lent = None
         /\ z.last = id /\ z.expected = (id + 1) % Ids
         /\ FieldOf(id) = 1 => /\ z.arrival = id
                               /\ \/ z.picture = picture
                                  \/ /\ ~rx.held /\ pc.buffer = 1
                                     /\ Kin(z.picture, rx.picture, pc.letGo)
         /\ FieldOf(id) # 1 => ~z.held /\ z.picture = NoPicture
    <2>1. CASE FieldOf(id) = 1
      <3> DEFINE v == FirstField(y, pc, picture)
      <3>1. z = v
        BY <1>6, <2>1
      <3>2. /\ ButForField(v, y) /\ v.arrival = id
            /\ v.picture = picture \/ (~y.held /\ pc.buffer = 1 /\ Kin(v.picture, y.picture, pc.letGo))
        BY <1>3, <1>9, <1>12, FirstFieldIs
      <3> HIDE DEF z, v
      <3>3. y.held = rx.held
        BY <1>9, <1>11
      <3> QED BY <1>3, <1>9, <1>10, <2>1, <3>1, <3>2, <3>3 DEF ButForField
    <2>2. CASE FieldOf(id) # 1
      <3> DEFINE v == LetGo(y)
      <3>1. z = v
        BY <1>6, <2>2 DEF LetGo
      <3>2. ButForField(v, y) /\ ~v.held /\ v.picture = NoPicture
        BY <1>9, NoFieldIs
      <3> HIDE DEF z, v
      <3> QED BY <1>3, <1>9, <1>10, <2>2, <3>1, <3>2 DEF ButForField
    <2> QED BY <2>1, <2>2
  <1>14. /\ card' \in Cards /\ card'.run /\ ring' \in [Slots -> Units]
         /\ Chained(ring', card') /\ Goes(ring', card') /\ Inside(rx', card')
    <2>1. z \in Sides /\ z.r = x.r /\ z.w = x.r /\ x \in Sides /\ x.w = rx.w
      BY <1>3, <1>13 DEF Finished
    <2>2. x.r = FinishFrame(id).r /\ id = rx.expected
      BY <1>8
    <2> HIDE DEF z
    <2>3. /\ card' \in Cards /\ card'.run /\ ring' \in [Slots -> Units]
          /\ Chained(ring', card') /\ Goes(ring', card') /\ Inside(z, card')
      BY <1>2, <1>6, <2>1, <2>2, PassedIs
    <2> QED BY <2>3 DEF z
  <1>15. pc' \in Places /\ pc'.at # "copy"
    <2>1. CASE pair
      BY <1>7, <2>1 DEF Places, Idle
    <2>2. CASE ~pair /\ pc.count < 3
      <3>1. pc' = Looking(pc.count + 1) /\ pc.count + 1 \in 2..3
        BY <1>7, <1>12, <2>2
      <3> QED BY <3>1 DEF Looking, Places
    <2>3. CASE ~pair /\ ~(pc.count < 3)
      BY <1>7, <2>3 DEF Places, NoFrame, Idle, Waiting
    <2> QED BY <2>1, <2>2, <2>3
  <1>16. hist' \in Histories /\ KnownOf(rx, hist)'
    <2>1. Since(id) \in Histories
      BY <1>1, <1>3, SinceIs
    <2>2. KnownOf(rx', Since(id))
      BY <1>1, <1>3, <1>13, SinceIs
    <2> QED BY <1>6, <2>1, <2>2
  <1>17. WhereInv'
    BY <1>13, <1>15 DEF WhereInv
  <1>18. HeldInv'
    <2>1. ~SecondBuffer'
      BY <1>15 DEF SecondBuffer
    <2>2. CASE FieldOf(id) = 1
      <3>1. /\ FieldOf(z.picture.id) = 1 /\ z.picture.whole
            /\ z.picture.stale \/ z.picture.id = z.arrival
        <4>1. CASE z.picture = picture
          BY <1>3, <1>13, <2>2, <4>1
        <4>2. CASE ~rx.held /\ pc.buffer = 1 /\ Kin(z.picture, rx.picture, pc.letGo)
          <5>1. SecondBuffer
            BY <1>1, <4>2 DEF SecondBuffer
          <5> QED BY <1>1, <4>2, <5>1 DEF HeldInv, Kin
        <4> QED BY <1>13, <2>2, <4>1, <4>2
      <3>2. z.std = "b" /\ z.insync /\ z.arrival >= 0 /\ z.expected = (z.arrival + 1) % Ids
        BY <1>3, <1>13, <2>2, Constants DEF UnitIds
      <3> QED BY <2>1, <3>1, <3>2 DEF HeldInv
    <2>3. CASE FieldOf(id) # 1
      BY <1>13, <2>1, <2>3 DEF HeldInv, NoPicture
    <2> QED BY <2>2, <2>3
  <1>19. OutInv'
    <2> DEFINE pictures == IF pair THEN <<x.picture, picture>> ELSE <<>>
               arrival == IF pair THEN x.arrival ELSE -1
    <2>1. out' = Delivered(id, arrival, pictures)
      BY <1>7
    <2>2. pair => /\ pictures = <<rx.picture, picture>> /\ arrival = rx.arrival /\ rx.held
      BY <1>10, <1>11
    <2>3. ~pair => pictures = <<>>
      OBVIOUS
    <2> HIDE DEF pair, pictures, arrival
    <2>4. out'.pictures = pictures /\ out'.arrival = arrival
      BY <2>1 DEF Delivered
    <2>5. \A i \in DOMAIN out'.pictures : out'.pictures[i].whole
      <3>1. CASE pair
        <4>1. rx.picture.whole
          BY <1>1 DEF HeldInv
        <4> QED BY <1>3, <2>2, <2>4, <3>1, <4>1
      <3>2. CASE ~pair
        BY <2>3, <2>4, <3>2
      <3> QED BY <3>1, <3>2
    <2>6. out'.lost => out'.noted \/ out'.started \/ out'.excused
      BY <1>1, <1>2, <1>8, <2>1, NotedIs
    <2>7. ~Mixed => FieldsFollow'
      <3>0. ~pair => Len(out'.pictures) # 2
        BY <2>3, <2>4
      <3>1. SUFFICES ASSUME ~Mixed, pair PROVE FieldsFollow'
        BY <3>0 DEF FieldsFollow
      <3>2. /\ FieldOf(rx.picture.id) = 1 /\ id = (rx.arrival + 1) % Ids
            /\ rx.picture.stale \/ rx.picture.id = rx.arrival
        BY <1>1, <1>8, <2>2, <3>1 DEF HeldInv
      <3>3. out'.pictures[1] = rx.picture /\ out'.pictures[2] = picture
            /\ out'.arrival = rx.arrival
        BY <2>2, <2>4, <3>1
      <3> QED BY <1>3, <3>2, <3>3 DEF FieldsFollow
    <2> QED BY <2>5, <2>6, <2>7 DEF OutInv, OverflowIsNoted
  <1> QED BY <1>13, <1>14, <1>15, <1>16, <1>17, <1>18, <1>19 DEF IInv, TypeInv, RunInv

LEMMA ReturnFrameKeeps ==
  ASSUME IInv, ReturnFrame
  PROVE  IInv'
  <1> DEFINE picture == PictureAt(rx)
             id == rx.expected
             x == FinishFrame(id)
             back == [x EXCEPT !.lent = None]
             z == Settled(back)
  <1>1. /\ rx \in Sides /\ TypeInv /\ WhereInv /\ HeldInv /\ KnownOf(rx, hist) /\ RunInv
        /\ pc = Idle /\ rx.lent # None
    BY DEF IInv, TypeInv, ReturnFrame
  <1>2. rx.run /\ rx.lent = id /\ FrameAt(ring, rx) /\ (~Mixed => ~rx.held)
    BY <1>1 DEF WhereInv
  <1>3. /\ id \in UnitIds /\ picture.whole /\ picture.id = id /\ picture \in Shots
        /\ Finished(x, id) /\ x.run /\ x.insync
    BY <1>2, ReadIs
  <1>4. /\ rx' = z /\ Tell(back) /\ pc' = pc
        /\ out' = Delivered(id, id, <<picture>>) /\ hist' = Since(id)
    BY <1>2 DEF ReturnFrame
  <1>5. x.r = FinishFrame(id).r /\ id = rx.expected
    OBVIOUS
  <1> HIDE DEF picture, id, x
  <1>6. back = [x EXCEPT !.lent = None] /\ x \in Sides
    BY <1>3 DEF Finished
  <1>7. back \in Sides
    <2> DEFINE none == None
    <2>1. none \in -1..Ids - 1 /\ back = [x EXCEPT !.lent = none]
      BY <1>6, Constants DEF None
    <2> HIDE DEF none, back
    <2> QED BY <1>6, <2>1, Zenon DEF Sides
  <1>8. /\ back.r = x.r /\ back.w = x.w /\ back.std = x.std /\ back.run = x.run
        /\ back.insync = x.insync /\ back.lent = None
        /\ back.held = x.held /\ back.arrival = x.arrival /\ back.picture = x.picture
        /\ back.last = x.last /\ back.expected = x.expected
    BY <1>6 DEF Sides
  <1> HIDE DEF back
  <1>9. /\ z \in Sides /\ z.r = back.r /\ z.w = back.r
        /\ z.std = back.std /\ z.run = back.run /\ z.insync = back.insync /\ z.lent = back.lent
        /\ z.held = back.held /\ z.arrival = back.arrival /\ z.picture = back.picture
        /\ z.last = back.last /\ z.expected = back.expected
    BY <1>7, SettledHas
  <1> HIDE DEF z
  <1>10. /\ card' \in Cards /\ card'.run /\ ring' \in [Slots -> Units]
         /\ Chained(ring', card') /\ Goes(ring', card') /\ Inside(rx', card')
    <2>1. back.r = FinishFrame(id).r /\ back.w = rx.w
      BY <1>3, <1>5, <1>8 DEF Finished
    <2>2. Inside(z, card') /\ card' \in Cards /\ card'.run /\ ring' \in [Slots -> Units]
          /\ Chained(ring', card') /\ Goes(ring', card')
      BY <1>2, <1>4, <1>5, <1>7, <1>9, <2>1, PassedIs
    <2> QED BY <1>4, <2>2
  <1>11. z.run /\ z.insync /\ z.lent = None
    BY <1>3, <1>8, <1>9
  <1>12. /\ z.std = rx.std /\ z.arrival = rx.arrival /\ z.picture = rx.picture
         /\ z.last = id /\ z.expected = (id + 1) % Ids
    BY <1>3, <1>8, <1>9 DEF Finished
  <1>13. z.held = rx.held
    BY <1>3, <1>8, <1>9 DEF Finished
  <1>14. pc' \in Places /\ pc' = Idle /\ pc'.at = "idle"
    BY <1>1, <1>4 DEF Places, Idle
  <1>15. hist' \in Histories /\ KnownOf(rx, hist)'
    <2>1. Since(id) \in Histories
      BY <1>1, <1>3, SinceIs
    <2>2. KnownOf(z, Since(id))
      BY <1>1, <1>3, <1>11, <1>12, SinceIs
    <2> QED BY <1>4, <2>1, <2>2
  <1>16. WhereInv'
    BY <1>4, <1>11, <1>14 DEF WhereInv
  <1>17. HeldInv'
    BY <1>1, <1>2, <1>4, <1>11, <1>12, <1>13, <1>14 DEF HeldInv, SecondBuffer
  <1>18. OutInv'
    <2>1. out'.pictures = <<picture>>
      BY <1>4 DEF Delivered
    <2>2. \A i \in DOMAIN out'.pictures : out'.pictures[i].whole
      BY <1>3, <2>1
    <2>3. Len(out'.pictures) # 2
      BY <2>1
    <2>4. out'.lost => out'.noted \/ out'.started \/ out'.excused
      BY <1>1, <1>2, <1>4, <1>5, NotedIs
    <2> QED BY <2>2, <2>3, <2>4 DEF OutInv, FieldsFollow, OverflowIsNoted
  <1> QED BY <1>4, <1>9, <1>10, <1>14, <1>15, <1>16, <1>17, <1>18, <1>11
          DEF IInv, TypeInv, RunInv

LEMMA StaysPut ==
  ASSUME NEW rg \in [Slots -> Units], NEW rg2, NEW c \in Cards, NEW c2 \in Cards,
         c2.r = c.r, c2.w = c.w,
         c2.num = c.num, c2.quarter = c.quarter, c2.insync = c.insync, c2.dropped = c.dropped,
         \A o \in Nat : o < RingLoad(c) => UnitAt(rg2, c.r, o) = UnitAt(rg, c.r, o),
         Chained(rg, c), Goes(rg, c)
  PROVE  Chained(rg2, c2) /\ Goes(rg2, c2)
  <1>1. RingLoad(c2) = RingLoad(c)
    BY DEF RingLoad
  <1>2. RingLoad(c) \in Nat /\ RingLoad(c2) = RingLoad(c) - 0 /\ 0 <= RingLoad(c)
    BY <1>1, CardLoadIs
  <1>3. \A o \in Nat : o < RingLoad(c2) => UnitAt(rg2, c2.r, o) = UnitAt(rg, c.r, 0 + o)
    BY <1>1
  <1> QED BY <1>2, <1>3, ChainMoved

LEMMA WaitTimesOutKeeps ==
  ASSUME IInv, WaitTimesOut
  PROVE  IInv'
  <1>1. /\ pc = Waiting /\ pc' = Idle /\ out' = NothingOut
        /\ card' = card /\ ring' = ring /\ rx' = rx /\ hist' = hist
    BY DEF WaitTimesOut
  <1>2. Chained(ring, card)' /\ Goes(ring, card)'
    BY <1>1 DEF IInv
  <1>3. TypeInv' /\ RunInv' /\ KnownOf(rx, hist)'
    BY <1>1 DEF IInv, TypeInv, RunInv, Places
  <1>4. WhereInv' /\ HeldInv'
    BY <1>1 DEF IInv, WhereInv, HeldInv, SecondBuffer, Idle, Waiting
  <1>5. OutInv'
    BY <1>1, NothingOutIs
  <1> QED BY <1>2, <1>3, <1>4, <1>5 DEF IInv

LEMMA KeptIs ==
  ASSUME NEW rg \in [Slots -> Units], NEW c \in Cards
  PROVE  /\ Kept(c, rg) \in [Slots -> Units]
         /\ \A o \in Nat : o < RingLoad(c) => UnitAt(Kept(c, rg), c.r, o) = UnitAt(rg, c.r, o)
  <1>1. Unit(0, Blank) \in Units
    BY Constants DEF Unit, Units, UnitIds, Blank
  <1>2. Kept(c, rg) \in [Slots -> Units]
    BY <1>1 DEF Kept
  <1>3. ASSUME NEW o \in Nat, o < RingLoad(c)
        PROVE  UnitAt(Kept(c, rg), c.r, o) = UnitAt(rg, c.r, o)
    <2> DEFINE s == On(c.r, o)
    <2>1. c.r \in Slots /\ RingLoad(c) \in 0..Size - 1
      BY CardLoadIs DEF Cards
    <2>2. o \in 0..Size - 1 /\ o \in 0..Size
      BY <1>3, <2>1, Constants
    <2>3. s \in Slots /\ Off(s, c.r) = o
      BY <2>1, <2>2, OnIs, OffOfOn
    <2> HIDE DEF s
    <2>4. (s + Size - c.r) % Size < RingLoad(c)
      BY <1>3, <2>3 DEF Off
    <2>5. Kept(c, rg)[s] = rg[s]
      BY <2>3, <2>4 DEF Kept
    <2> QED BY <2>5 DEF UnitAt, s
  <1> QED BY <1>2, <1>3

LEMMA DiscardAllIs ==
  ASSUME rx \in Sides, card \in Cards
  PROVE  LET x == DiscardAll IN
         /\ x \in Sides /\ x.r = card.w /\ x.w = card.w /\ x.run = rx.run /\ x.lent = rx.lent
         /\ ~x.held /\ x.picture = rx.picture
         /\ RingLoad(Synced(rx)) = Off(card.w, rx.r)
  <1> DEFINE o == OutOfSync(rx)
             y == Synced(o)
             n == RingLoad(y)
             x == Skip(y, n)
  <1>1. o \in Sides
    BY OutOfSyncIs
  <1>2. /\ o.r = rx.r /\ o.run = rx.run /\ o.lent = rx.lent /\ ~o.held
        /\ o.picture = rx.picture
    BY DEF OutOfSync, Sides
  <1> HIDE DEF o
  <1>3. y \in Sides
    BY <1>1, SyncedIs
  <1>4. /\ y.r = o.r /\ y.w = card.w /\ y.run = o.run /\ y.lent = o.lent /\ y.held = o.held
        /\ y.picture = o.picture
    BY <1>1 DEF Synced, Sides
  <1> HIDE DEF y
  <1>5. n = Off(card.w, rx.r) /\ n \in 0..Size - 1
    BY <1>2, <1>3, <1>4, LoadIs
  <1>6. rx.r \in Slots /\ card.w \in Slots
    BY DEF Sides, Cards
  <1>7. On(y.r, n) = card.w
    BY <1>2, <1>4, <1>5, <1>6, OnOfOff
  <1> HIDE DEF n
  <1>8. x \in Sides /\ x = [y EXCEPT !.r = On(y.r, n)]
    <2>1. n \in 0..Size
      BY <1>5, Constants
    <2> QED BY <1>3, <2>1, SkipIs
  <1>9. /\ x.r = card.w /\ x.w = y.w /\ x.run = y.run /\ x.lent = y.lent /\ x.held = y.held
        /\ x.picture = y.picture
    <2> HIDE DEF x
    <2> QED BY <1>3, <1>7, <1>8 DEF Sides
  <1>10. RingLoad(Synced(rx)) = Off(card.w, rx.r)
    <2>1. Synced(rx) \in Sides /\ Synced(rx).w = card.w /\ Synced(rx).r = rx.r
      BY SyncedIs DEF Synced, Sides
    <2> QED BY <2>1, LoadIs
  <1>11. DiscardAll = x
    BY DEF DiscardAll, x, n, y, o
  <1> HIDE DEF x
  <1>12. /\ x.w = card.w /\ x.run = rx.run /\ x.lent = rx.lent /\ ~x.held
         /\ x.picture = rx.picture
    BY <1>2, <1>4, <1>9
  <1> QED BY <1>8, <1>9, <1>10, <1>11, <1>12

LEMMA AfterWaitKeeps ==
  ASSUME IInv, AfterWait
  PROVE  IInv'
  <1> DEFINE x == DiscardAll
             load == RingLoad(Synced(rx))
             z == Settled(x)
  <1>1. /\ rx \in Sides /\ card \in Cards /\ ring \in [Slots -> Units] /\ hist \in Histories
        /\ TypeInv /\ WhereInv /\ HeldInv /\ RunInv /\ Chained(ring, card) /\ Goes(ring, card)
        /\ pc = SawOutOfSync
    BY DEF IInv, TypeInv, AfterWait
  <1>2. /\ pc' = Idle /\ rx' = z
        /\ load > 0 => Tell(x)
        /\ ~(load > 0) => card' = card /\ ring' = ring
        /\ hist' = [hist EXCEPT !.excused = TRUE] /\ out' = NothingOut
    BY DEF AfterWait
  <1>3. /\ x \in Sides /\ x.r = card.w /\ x.w = card.w /\ x.run = rx.run /\ x.lent = rx.lent
        /\ ~x.held /\ x.picture = rx.picture /\ load = Off(card.w, rx.r)
    BY <1>1, DiscardAllIs
  <1> HIDE DEF x, load
  <1>4. /\ z \in Sides /\ z.r = card.w /\ z.w = card.w /\ z.run = rx.run /\ z.lent = rx.lent
        /\ ~z.held /\ z.picture = rx.picture
    BY <1>3, SettledHas
  <1> HIDE DEF z
  <1>5. rx.lent = None
    BY <1>1 DEF WhereInv, SawOutOfSync, Idle
  <1>6. card.w \in Slots /\ card.r \in Slots /\ rx.r \in Slots
    BY <1>1 DEF Cards, Sides
  <1>7. RingLoad(card) = Off(card.w, card.r) /\ RingLoad(card) \in 0..Size - 1
    BY <1>1, CardLoadIs
  <1>8. /\ card' \in Cards /\ ring' \in [Slots -> Units]
        /\ Chained(ring', card') /\ Goes(ring', card')
        /\ card'.run = rx.run /\ (rx.run => Inside(z, card'))
    <2>1. CASE rx.run
      <3>1. card.run /\ Inside(rx, card)
        BY <1>1, <2>1 DEF RunInv
      <3>2. /\ Off(rx.r, card.r) \in 0..1 /\ load = RingLoad(card) - Off(rx.r, card.r)
            /\ load = Off(card.w, rx.r) /\ load \in 0..Size - 1
        BY <1>1, <3>1, SyncedHas DEF load
      <3>3. CASE load > 0
        <4>1. RingLoad(x) = 0
          <5>1. RingLoad(x) = Off(card.w, card.w)
            BY <1>3, LoadIs
          <5>2. Off(card.w, card.w)
                = IF card.w >= card.w THEN card.w - card.w ELSE card.w - card.w + Size
            BY <1>6, OffIs
          <5>3. card.w \in Nat
            BY <1>6, Constants DEF Slots
          <5> QED BY <5>1, <5>2, <5>3
        <4>2. Off(x.r, card.r) = RingLoad(card) /\ Off(x.r, card.r) >= 1
              /\ Off(x.r, card.r) + RingLoad(x) <= RingLoad(card)
          BY <1>3, <1>7, <3>2, <3>3, <4>1
        <4>3. /\ card' \in Cards /\ card'.run /\ ring' \in [Slots -> Units]
              /\ Chained(ring', card') /\ Goes(ring', card')
              /\ Off(x.r, card'.r) + RingLoad(x) <= RingLoad(card') /\ Off(x.r, card'.r) <= 1
          BY <1>1, <1>2, <1>3, <3>1, <3>3, <4>2, TellIs
        <4>4. Off(z.r, card'.r) <= 1 /\ Off(z.r, card'.r) <= RingLoad(card')
          <5>1. x.r \in Slots /\ card'.r \in Slots
            BY <1>3, <4>3 DEF Sides, Cards
          <5>2. Off(x.r, card'.r) \in 0..Size - 1 /\ RingLoad(card') \in 0..Size - 1
            BY <4>3, <5>1, OffIs, CardLoadIs
          <5> QED BY <1>3, <1>4, <4>1, <4>3, <5>2, Constants
        <4>5. Inside(z, card')
          BY <1>4, <4>3, <4>4, InsideSettled
        <4> QED BY <2>1, <4>3, <4>5
      <3>4. CASE ~(load > 0)
        <4>1. card' = card /\ ring' = ring
          BY <1>2, <3>4
        <4>2. load = 0 /\ RingLoad(card) = Off(rx.r, card.r)
          BY <1>7, <3>2, <3>4, Constants
        <4>3. Off(z.r, card.r) <= 1 /\ Off(z.r, card.r) <= RingLoad(card)
          BY <1>4, <1>7, <3>2, <4>2
        <4>4. Inside(z, card)
          BY <1>1, <1>4, <4>3, InsideSettled
        <4> QED BY <1>1, <2>1, <3>1, <4>1, <4>4
      <3> QED BY <3>3, <3>4
    <2>2. CASE ~rx.run
      <3>1. ~card.run /\ card.run = rx.run
        BY <1>1, <2>2 DEF RunInv
      <3>2. CASE load > 0
        <4>1. card' = card /\ ring' = Kept(card, ring)
          BY <1>2, <3>1, <3>2 DEF Tell, UpdateReadOffset
        <4>2. /\ Kept(card, ring) \in [Slots -> Units]
              /\ \A o \in Nat : o < RingLoad(card)
                   => UnitAt(Kept(card, ring), card.r, o) = UnitAt(ring, card.r, o)
          BY <1>1, KeptIs
        <4> DEFINE rg == Kept(card, ring)
        <4> HIDE DEF rg
        <4>3. Chained(rg, card) /\ Goes(rg, card)
          BY <1>1, <4>2, StaysPut DEF rg
        <4> QED BY <1>1, <2>2, <3>1, <4>1, <4>2, <4>3 DEF rg
      <3>3. CASE ~(load > 0)
        BY <1>1, <1>2, <2>2, <3>1, <3>3
      <3> QED BY <3>2, <3>3
    <2> QED BY <2>1, <2>2
  <1>9. pc' \in Places /\ pc'.at = "idle"
    BY <1>2 DEF Places, Idle
  <1>10. hist' \in Histories /\ hist'.excused
    BY <1>1, <1>2 DEF Histories
  <1>11. WhereInv'
    BY <1>2, <1>4, <1>5, <1>9 DEF WhereInv
  <1>12. HeldInv'
    BY <1>1, <1>2, <1>4, <1>9 DEF HeldInv, SecondBuffer
  <1>13. KnownOf(rx, hist)'
    BY <1>10 DEF KnownOf
  <1>14. OutInv'
    BY <1>2, NothingOutIs
  <1> QED BY <1>2, <1>4, <1>8, <1>9, <1>10, <1>11, <1>12, <1>13, <1>14
          DEF IInv, TypeInv, RunInv

LEMMA StoppingIs ==
  ASSUME rx \in Sides
  PROVE  LET x == Stopping(rx) IN
         /\ x \in Sides /\ ~x.run /\ x.lent = None
         /\ x.std = rx.std /\ x.insync = rx.insync /\ x.expected = rx.expected
         /\ x.held = rx.held /\ x.arrival = rx.arrival /\ x.picture = rx.picture
  <1> DEFINE none == None
             y == [rx EXCEPT !.run = FALSE, !.lent = none]
             x == Settled(y)
  <1>1. none \in -1..Ids - 1 /\ FALSE \in BOOLEAN /\ none = None
    BY Constants DEF None
  <1> HIDE DEF none
  <1>2. y \in Sides
    BY <1>1, Zenon DEF Sides
  <1>3. /\ ~y.run /\ y.lent = None
        /\ y.std = rx.std /\ y.insync = rx.insync /\ y.expected = rx.expected
        /\ y.held = rx.held /\ y.arrival = rx.arrival /\ y.picture = rx.picture
    BY <1>1 DEF Sides
  <1>4. Stopping(rx) = x
    BY <1>1 DEF Stopping
  <1> HIDE DEF y
  <1>5. /\ x \in Sides /\ x.run = y.run /\ x.lent = y.lent
        /\ x.std = y.std /\ x.insync = y.insync /\ x.expected = y.expected
        /\ x.held = y.held /\ x.arrival = y.arrival /\ x.picture = y.picture
    BY <1>2, SettledHas
  <1> HIDE DEF x
  <1> QED BY <1>3, <1>4, <1>5

\* The card halts, with what it has.
LEMMA CardHalts ==
  ASSUME card \in Cards, ring \in [Slots -> Units], Chained(ring, card), Goes(ring, card),
         card' = [card EXCEPT !.run = FALSE], ring' = ring
  PROVE  /\ card' \in Cards /\ ~card'.run /\ ring' \in [Slots -> Units]
         /\ Chained(ring', card') /\ Goes(ring', card')
  <1> DEFINE c == card'
  <1>1. c = [card EXCEPT !.run = FALSE]
    OBVIOUS
  <1> HIDE DEF c
  <1>2. FALSE \in BOOLEAN
    OBVIOUS
  <1>3. c \in Cards
    BY <1>1, <1>2, Zenon DEF Cards
  <1>4. /\ ~c.run /\ c.r = card.r /\ c.w = card.w /\ c.num = card.num
        /\ c.quarter = card.quarter /\ c.insync = card.insync /\ c.dropped = card.dropped
    BY <1>1 DEF Cards
  <1>5. Chained(ring, c) /\ Goes(ring, c)
    BY <1>3, <1>4, StaysPut
  <1> QED BY <1>3, <1>4, <1>5 DEF c

LEMMA StopKeeps ==
  ASSUME IInv, Stop
  PROVE  IInv'
  <1> DEFINE x == Stopping(rx)
  <1>1. /\ rx \in Sides /\ card \in Cards /\ ring \in [Slots -> Units] /\ hist \in Histories
        /\ pc \in Places /\ HeldInv /\ Chained(ring, card) /\ Goes(ring, card)
    BY DEF IInv, TypeInv
  <1>2. /\ pc.at \in {"idle", "wait", "out"} /\ rx' = x /\ card' = [card EXCEPT !.run = FALSE]
        /\ out' = NothingOut /\ ring' = ring /\ pc' = pc /\ hist' = hist
    BY DEF Stop, LockFree
  <1>3. /\ x \in Sides /\ ~x.run /\ x.lent = None
        /\ x.std = rx.std /\ x.insync = rx.insync /\ x.expected = rx.expected
        /\ x.held = rx.held /\ x.arrival = rx.arrival /\ x.picture = rx.picture
    BY <1>1, StoppingIs
  <1> HIDE DEF x
  <1>4. /\ card' \in Cards /\ ~card'.run /\ ring' \in [Slots -> Units]
        /\ Chained(ring', card') /\ Goes(ring', card')
    BY <1>1, <1>2, CardHalts
  <1>5. WhereInv'
    BY <1>2, <1>3 DEF WhereInv
  <1>6. HeldInv'
    BY <1>1, <1>2, <1>3 DEF HeldInv, SecondBuffer
  <1>7. RunInv' /\ KnownOf(rx, hist)'
    <2>1. card'.run \in BOOLEAN /\ rx'.run \in BOOLEAN
      BY <1>2, <1>3, <1>4 DEF Cards, Sides
    <2> QED BY <1>2, <1>3, <1>4, <2>1, Zenon DEF RunInv, KnownOf
  <1>8. OutInv'
    BY <1>2, NothingOutIs
  <1> QED BY <1>1, <1>2, <1>3, <1>4, <1>5, <1>6, <1>7, <1>8 DEF IInv, TypeInv

LEMMA StartKeeps ==
  ASSUME IInv, Start
  PROVE  IInv'
  <1> DEFINE o == OutOfSync(rx)
             none == None
             x == [o EXCEPT !.run = TRUE, !.lent = none, !.r = 0, !.w = 0]
             c == [card EXCEPT !.run = TRUE, !.w = 0, !.r = 0, !.quarter = Quarters]
  <1>1. /\ rx \in Sides /\ card \in Cards /\ ring \in [Slots -> Units]
        /\ pc \in Places /\ HeldInv
    BY DEF IInv, TypeInv
  <1>2. /\ pc.at \in {"idle", "wait", "out"} /\ rx' = x /\ card' = c
        /\ ring' = Kept(c, ring) /\ hist' = NoHistory(card.num)
        /\ out' = NothingOut /\ pc' = pc
    BY DEF Start, LockFree
  <1>3. /\ 0 \in Slots /\ none \in -1..Ids - 1 /\ TRUE \in BOOLEAN /\ Quarters \in 0..Quarters
        /\ none = None
    BY Constants DEF Slots, None
  <1> HIDE DEF none
  <1>4. o \in Sides /\ ~o.held /\ o.picture = rx.picture
    <2>1. o \in Sides
      BY <1>1, OutOfSyncIs
    <2>2. ~o.held /\ o.picture = rx.picture
      BY <1>1 DEF OutOfSync, Sides
    <2> QED BY <2>1, <2>2
  <1> HIDE DEF o
  <1>5. x \in Sides
    BY <1>3, <1>4, Zenon DEF Sides
  <1>6. x.run /\ x.lent = None /\ x.r = 0 /\ x.w = 0 /\ ~x.held /\ x.picture = rx.picture
    BY <1>3, <1>4 DEF Sides
  <1>7. c \in Cards
    BY <1>1, <1>3, Zenon DEF Cards
  <1>8. c.run /\ c.r = 0 /\ c.w = 0 /\ c.quarter = Quarters
    BY <1>1 DEF Cards
  <1> HIDE DEF x, c
  <1>9. RingLoad(c) = 0 /\ RingLoad(x) = 0 /\ Off(x.r, c.r) = 0
    BY <1>6, <1>8, Constants DEF RingLoad, Off
  <1>10. Inside(x, c)
    BY <1>9 DEF Inside
  <1>11. Chained(ring', c) /\ Goes(ring', c)
    BY <1>8, <1>9, Constants DEF Chained, Goes
  <1>12. ring' \in [Slots -> Units]
    BY <1>1, <1>2, <1>7, KeptIs
  <1>13. hist' \in Histories /\ hist'.started
    BY <1>1, <1>2 DEF NoHistory, Histories, Cards
  <1>14. WhereInv'
    BY <1>2, <1>6 DEF WhereInv
  <1>15. HeldInv'
    BY <1>1, <1>2, <1>6 DEF HeldInv, SecondBuffer
  <1>16. RunInv' /\ KnownOf(rx, hist)'
    BY <1>2, <1>6, <1>8, <1>10, <1>13 DEF RunInv, KnownOf
  <1>17. OutInv'
    BY <1>2, NothingOutIs
  <1> QED BY <1>1, <1>2, <1>5, <1>7, <1>11, <1>12, <1>13, <1>14, <1>15, <1>16, <1>17
          DEF IInv, TypeInv

LEMMA ClearFifoKeeps ==
  ASSUME IInv, ClearFifo
  PROVE  IInv'
  <1> DEFINE s == IF rx.run THEN Stopping(rx) ELSE rx
             o == OutOfSync(s)
             x == [o EXCEPT !.latched = FALSE]
  <1>1. /\ rx \in Sides /\ card \in Cards /\ ring \in [Slots -> Units] /\ hist \in Histories
        /\ pc \in Places /\ HeldInv /\ WhereInv /\ Chained(ring, card) /\ Goes(ring, card)
    BY DEF IInv, TypeInv
  <1>2. /\ pc.at \in {"idle", "wait", "out"} /\ rx' = x /\ card' = [card EXCEPT !.run = FALSE]
        /\ out' = NothingOut /\ ring' = ring /\ pc' = pc /\ hist' = hist
    BY DEF ClearFifo, LockFree
  <1>3. s \in Sides /\ ~s.run /\ s.lent = None /\ s.picture = rx.picture
    <2>1. CASE rx.run
      BY <1>1, <2>1, StoppingIs
    <2>2. CASE ~rx.run
      BY <1>1, <2>2 DEF WhereInv
    <2> QED BY <2>1, <2>2
  <1> HIDE DEF s
  <1>4. o \in Sides
    BY <1>3, OutOfSyncIs
  <1>5. o.run = s.run /\ o.lent = s.lent /\ ~o.held /\ o.picture = s.picture
    BY <1>3 DEF OutOfSync, Sides
  <1> HIDE DEF o
  <1>6. FALSE \in BOOLEAN
    OBVIOUS
  <1>7. x \in Sides
    BY <1>4, <1>6, Zenon DEF Sides
  <1>8. x.run = o.run /\ x.lent = o.lent /\ x.held = o.held /\ x.picture = o.picture
    BY <1>4 DEF Sides
  <1> HIDE DEF x
  <1>9. ~x.run /\ x.lent = None /\ ~x.held /\ x.picture = rx.picture
    BY <1>3, <1>5, <1>8
  <1>10. /\ card' \in Cards /\ ~card'.run /\ ring' \in [Slots -> Units]
         /\ Chained(ring', card') /\ Goes(ring', card')
    BY <1>1, <1>2, CardHalts
  <1>11. WhereInv'
    BY <1>2, <1>9 DEF WhereInv
  <1>12. HeldInv'
    BY <1>1, <1>2, <1>9 DEF HeldInv, SecondBuffer
  <1>13. RunInv' /\ KnownOf(rx, hist)'
    <2>1. card'.run \in BOOLEAN /\ rx'.run \in BOOLEAN
      BY <1>2, <1>7, <1>10 DEF Cards, Sides
    <2> QED BY <1>2, <1>9, <1>10, <2>1, Zenon DEF RunInv, KnownOf
  <1>14. OutInv'
    BY <1>2, NothingOutIs
  <1> QED BY <1>1, <1>2, <1>7, <1>10, <1>11, <1>12, <1>13, <1>14 DEF IInv, TypeInv

LEMMA GetFifoLoadKeeps ==
  ASSUME IInv, GetFifoLoad
  PROVE  IInv'
  <1> DEFINE x == Synced(rx)
  <1>1. /\ rx \in Sides /\ card \in Cards /\ HeldInv /\ WhereInv /\ RunInv /\ TypeInv
        /\ rx.lent # None
    BY DEF IInv, TypeInv, GetFifoLoad
  <1>2. /\ rx' = x /\ out' = NothingOut
        /\ card' = card /\ ring' = ring /\ pc' = pc /\ hist' = hist
    BY DEF GetFifoLoad
  <1>3. rx.run /\ pc = Idle /\ FrameAt(ring, rx) /\ rx.lent = rx.expected /\ Inside(rx, card)
    BY <1>1 DEF WhereInv, RunInv
  <1>4. /\ x \in Sides /\ Off(rx.r, card.r) \in 0..1
        /\ RingLoad(x) = RingLoad(card) - Off(rx.r, card.r)
    BY <1>1, <1>3, SyncedHas
  <1>5. RingLoad(rx) \in 0..Size - 1 /\ RingLoad(card) \in 0..Size - 1
    BY <1>1, LoadIs, CardLoadIs
  <1>6. RingLoad(x) >= RingLoad(rx) /\ Off(rx.r, card.r) + RingLoad(x) <= RingLoad(card)
    BY <1>3, <1>4, <1>5, Constants DEF Inside
  <1>7. /\ x.r = rx.r /\ x.std = rx.std /\ x.lent = rx.lent /\ x.expected = rx.expected
        /\ x.last = rx.last /\ x.arrival = rx.arrival /\ x.picture = rx.picture
    BY <1>1 DEF Synced, Sides
  <1>8. x.run = rx.run /\ x.insync = rx.insync
    BY <1>1 DEF Synced, Sides
  <1>9. x.held = rx.held /\ x.latched = rx.latched
    BY <1>1 DEF Synced, Sides
  <1> HIDE DEF x
  <1>10. Inside(x, card)
    BY <1>4, <1>6, <1>7 DEF Inside
  <1>11. FrameAt(ring, x)
    BY <1>3, <1>4, <1>5, <1>6, <1>7, <1>8, Constants DEF FrameAt
  <1>12. TypeInv' /\ Chained(ring, card)' /\ Goes(ring, card)'
    BY <1>2, <1>4 DEF IInv, TypeInv
  <1>13. RunInv'
    BY <1>1, <1>2, <1>8, <1>10 DEF RunInv
  <1>14. WhereInv'
    BY <1>1, <1>2, <1>3, <1>7, <1>8, <1>9, <1>11 DEF WhereInv, Idle
  <1>15. HeldInv'
    BY <1>1, <1>2, <1>7, <1>8, <1>9 DEF HeldInv, SecondBuffer
  <1>16. KnownOf(rx, hist)'
    BY <1>2, <1>7, <1>8, <1>9 DEF IInv, KnownOf, Clean
  <1>17. OutInv'
    BY <1>2, NothingOutIs
  <1> QED BY <1>12, <1>13, <1>14, <1>15, <1>16, <1>17 DEF IInv

LEMMA ApplyIoConfigKeeps ==
  ASSUME IInv, NEW std \in Standards, ApplyIoConfig(std)
  PROVE  IInv'
  <1> DEFINE none == None
             n == NewRx(std)
             x == [n EXCEPT !.expected = rx.expected, !.last = rx.last, !.latched = rx.latched]
             c == Stopped(card.num)
  <1>1. /\ rx \in Sides /\ card \in Cards /\ hist \in Histories /\ pc \in Places
        /\ rx.expected \in UnitIds /\ rx.last \in UnitIds /\ rx.latched \in BOOLEAN
        /\ card.num \in UnitIds
    BY DEF IInv, TypeInv, Sides, Cards
  <1>2. /\ pc.at \in {"idle", "wait", "out"} /\ rx' = x /\ card' = c
        /\ ring' = [s \in Slots |-> Unit(0, Blank)]
        /\ out' = NothingOut /\ pc' = pc /\ hist' = hist
    BY DEF ApplyIoConfig, LockFree
  <1>3. 0 \in UnitIds /\ 0 \in Slots /\ -1 \in -1..Ids - 1 /\ Quarters \in 0..Quarters
    BY Constants DEF UnitIds, Slots
  <1>4. NoPicture \in Shots
    BY <1>3 DEF NoPicture, Shots
  <1>5. n \in Sides
    BY <1>3, <1>4 DEF NewRx, Sides, None
  <1>6. ~n.run /\ n.lent = None /\ ~n.held /\ n.picture = NoPicture
    BY DEF NewRx
  <1> HIDE DEF n
  <1>7. x \in Sides
    BY <1>1, <1>5, Zenon DEF Sides
  <1>8. ~x.run /\ x.lent = None /\ ~x.held /\ x.picture = NoPicture
    BY <1>5, <1>6 DEF Sides
  <1> HIDE DEF x
  <1>9. c \in Cards /\ ~c.run /\ c.r = 0 /\ c.w = 0 /\ c.quarter = Quarters
    BY <1>1, <1>3 DEF Stopped, Cards
  <1> HIDE DEF c
  <1>10. RingLoad(c) = 0
    BY <1>9, Constants DEF RingLoad
  <1>11. Chained(ring', c) /\ Goes(ring', c)
    BY <1>9, <1>10, Constants DEF Chained, Goes
  <1>12. ring' \in [Slots -> Units]
    <2>1. Unit(0, Blank) \in Units
      BY <1>3 DEF Unit, Units, Blank
    <2> QED BY <1>2, <2>1
  <1>13. WhereInv'
    BY <1>2, <1>8 DEF WhereInv
  <1>14. HeldInv'
    BY <1>2, <1>8 DEF HeldInv, SecondBuffer, NoPicture
  <1>15. RunInv' /\ KnownOf(rx, hist)'
    <2>1. c.run \in BOOLEAN /\ x.run \in BOOLEAN
      BY <1>7, <1>9 DEF Cards, Sides
    <2> QED BY <1>2, <1>8, <1>9, <2>1, Zenon DEF RunInv, KnownOf
  <1>16. OutInv'
    BY <1>2, NothingOutIs
  <1> QED BY <1>1, <1>2, <1>7, <1>9, <1>11, <1>12, <1>13, <1>14, <1>15, <1>16
          DEF IInv, TypeInv

LEMMA StepKeeps ==
  ASSUME IInv, [Next]_vars
  PROVE  IInv'
  <1>1. ASSUME NEW fault \in Faults, CardEvent(fault) PROVE IInv'
    BY <1>1, CardEventKeeps
  <1>2. ASSUME LookToCopy PROVE IInv'
    BY <1>2, LookToCopyKeeps
  <1>3. ASSUME FinishCopy PROVE IInv'
    BY <1>3, FinishCopyKeeps
  <1>4. ASSUME FinishPicture PROVE IInv'
    BY <1>4, FinishPictureKeeps
  <1>5. ASSUME LendFrame PROVE IInv'
    BY <1>5, LendFrameKeeps
  <1>6. ASSUME ReturnFrame PROVE IInv'
    BY <1>6, ReturnFrameKeeps
  <1>7. ASSUME WaitTimesOut PROVE IInv'
    BY <1>7, WaitTimesOutKeeps
  <1>8. ASSUME AfterWait PROVE IInv'
    BY <1>8, AfterWaitKeeps
  <1>9. ASSUME Stop PROVE IInv'
    BY <1>9, StopKeeps
  <1>10. ASSUME Start PROVE IInv'
    BY <1>10, StartKeeps
  <1>11. ASSUME ClearFifo PROVE IInv'
    BY <1>11, ClearFifoKeeps
  <1>12. ASSUME GetFifoLoad PROVE IInv'
    BY <1>12, GetFifoLoadKeeps
  <1>13. ASSUME NEW std \in Standards, ApplyIoConfig(std) PROVE IInv'
    BY <1>13, ApplyIoConfigKeeps
  <1>14. ASSUME UNCHANGED vars PROVE IInv'
    BY <1>14 DEF vars, IInv, TypeInv, RunInv, WhereInv, HeldInv, SecondBuffer, OutInv,
                 FieldsFollow, OverflowIsNoted
  <1> QED BY <1>1, <1>2, <1>3, <1>4, <1>5, <1>6, <1>7, <1>8, <1>9, <1>10, <1>11, <1>12, <1>13,
             <1>14 DEF Next

LEMMA InvHolds == Spec => []IInv
  BY InitHolds, StepKeeps, PTL DEF Spec

--------------------------------------------------------------------------------
(* What follows from the invariant.                                        *)

LEMMA PiecesAreWhole ==
  ASSUME IInv
  PROVE  FramesAreInOnePiece
  <1>1. \A i \in DOMAIN out.pictures : out.pictures[i].whole
    BY DEF IInv, OutInv
  <1>2. ASSUME rx.lent # None
        PROVE  rx.run /\ pc = Idle /\ PictureAt(rx).whole /\ PictureAt(rx).id = rx.lent
    <2>1. rx.run /\ pc = Idle /\ FrameAt(ring, rx) /\ rx.lent = rx.expected
      BY <1>2 DEF IInv, WhereInv
    <2>2. TypeInv /\ Chained(ring, card) /\ Inside(rx, card)
      BY <2>1 DEF IInv, RunInv
    <2>3. PictureAt(rx).whole /\ PictureAt(rx).id = rx.expected
      BY <2>1, <2>2, FrameIsWhole
    <2> QED BY <2>1, <2>3
  <1> QED BY <1>1, <1>2 DEF FramesAreInOnePiece

LEMMA RoomIsLeft ==
  ASSUME IInv
  PROVE  CardHasRoom
  <1> DEFINE d == Off(rx.r, card.r)
             left == RingLoad([r |-> rx.r, w |-> card.w])
             load == RingLoad(card)
  <1>1. SUFFICES ASSUME rx.run PROVE RingFree(card) + left + 1 >= CardLoad
    BY DEF CardHasRoom
  <1>2. TypeInv /\ Inside(rx, card) /\ card \in Cards
    BY <1>1 DEF IInv, RunInv, TypeInv
  <1>3. d \in 0..1 /\ left = load - d
    <2>1. left = Off(card.w, rx.r)
      BY DEF RingLoad, Off
    <2> QED BY <1>2, <2>1, SyncedHas
  <1>4. load \in 0..Size - 1
    BY <1>2, CardLoadIs
  <1>5. RingFree(card) = Size - 1 - load
    <2>1. RingFree(card) = IF load >= Size - 1 THEN 0 ELSE Size - 1 - load
      BY DEF RingFree, CardLoad
    <2> HIDE DEF load
    <2> QED BY <1>4, <2>1, Constants
  <1> HIDE DEF load, left, d
  <1> QED BY <1>3, <1>4, <1>5, Constants DEF CardLoad

--------------------------------------------------------------------------------
(* The theorems.                                                           *)

\* Every variable stays within its type.  The IDs are those of 16 bits, the places those of the
\* ring (DtSdiRx.c:190-260).
THEOREM TypeCorrect == Spec => []TypeInv
  <1>1. IInv => TypeInv
    BY DEF IInv
  <1> QED BY <1>1, InvHolds, PTL

\* What a read delivers, and what is lent, is one frame, its units in order up to its last line,
\* however the card writes on, drops lines or is cut short (DtSdiRx.c:808-826); and the card has
\* the room the channel has given back, but for a unit (DtSdiRx.c:430-441).
THEOREM RingIsSharedHolds == Spec => []RingIsShared
  <1>1. IInv => RingIsShared
    BY PiecesAreWhole, RoomIsLeft DEF RingIsShared
  <1> QED BY <1>1, InvHolds, PTL

\* Field 2 of a frame of level B comes right after the field 1 whose arrival time is given, and
\* the frame's other picture is that field 1 (DtSdiRx.c:959-972), or an earlier one where the
\* look for that field 1 let the earlier one go with the second buffer already chosen
\* (DtSdiRx.c:983).  A program does not borrow a frame while a read has held a field 1.
THEOREM FieldsFollowHolds ==
  ASSUME ~Mixed
  PROVE  Spec => []FieldsFollow
  <1>1. IInv => FieldsFollow
    BY DEF IInv, OutInv
  <1> QED BY <1>1, InvHolds, PTL

\* Where frames the card had no room for are missing between two that are read, the overflow
\* flag was set, receiving started anew, or a header or an event gave frames up (cdtapi.h,
\* DTAPI_RX_FIFO_OVF).
THEOREM OverflowIsNotedHolds == Spec => []OverflowIsNoted
  <1>1. IInv => OverflowIsNoted
    BY DEF IInv, OutInv
  <1> QED BY <1>1, InvHolds, PTL
===============================================================================
