----------------------------- MODULE SdiTx_proofs -----------------------------
(***************************************************************************)
(* Proofs about SdiTx, for every number of threads, frames, lines and IDs: *)
(* types, that the calls and the channel's thread keep apart, that unsent  *)
(* frames are counted, that a part and a lent frame keep their place, and  *)
(* that every committed frame is whole.                                    *)
(*                                                                         *)
(* Assumed of the program, where a theorem says so: a call that changes    *)
(* the control state or detaches starts when the other has returned, and   *)
(* no AcquireFrame waits across a stop and a restart; and of the driver,   *)
(* that it does not refuse the offset of a black frame put before a part.  *)
(***************************************************************************)
EXTENDS SdiTx, FiniteSetTheorems, TLAPS

\* What the program must keep to, see Liberties.
CallsInTurn == "overlap" \notin Liberties /\ "restart" \notin Liberties
BlackIsAccepted == "refusal" \notin Liberties

--------------------------------------------------------------------------------
(* Places and IDs go round.                                                *)

LEMMA RoundBack ==
  ASSUME NEW n \in Nat \ {0}, NEW a \in 0..n - 1, NEW i \in 0..n
  PROVE  (a - i) % n = IF i <= a THEN a - i ELSE a - i + n
  OBVIOUS

LEMMA RoundOn ==
  ASSUME NEW n \in Nat \ {0}, NEW a \in 0..n - 1
  PROVE  (a + 1) % n = IF a + 1 = n THEN 0 ELSE a + 1
  OBVIOUS

LEMMA RoundIn ==
  ASSUME NEW n \in Nat \ {0}, NEW a \in Int
  PROVE  a % n \in 0..n - 1
  OBVIOUS

\* Going so far back and forth again.
LEMMA RoundTrip ==
  ASSUME NEW n \in Nat \ {0}, NEW a \in 0..n - 1, NEW d \in 0..n - 1
  PROVE  (a - ((a - d) % n)) % n = d
  <1>1. (a - d) % n = IF d <= a THEN a - d ELSE a - d + n
    BY RoundBack
  <1>2. CASE d <= a
    BY <1>1, <1>2, RoundBack
  <1>3. CASE ~(d <= a)
    <2>1. (a - (a - d + n)) % n = d
      BY <1>3, RoundBack
    <2> QED BY <1>1, <1>3, <2>1
  <1> QED BY <1>2, <1>3

\* The place before the next one, and the ones further back.
LEMMA BackFromNext ==
  ASSUME NEW n \in Nat \ {0}, NEW a \in 0..n - 1, NEW i \in 1..n
  PROVE  /\ i = 1 => (((a + 1) % n) - i) % n = a
         /\ i > 1 => (((a + 1) % n) - i) % n = (a - (i - 1)) % n
  <1>1. (a + 1) % n = IF a + 1 = n THEN 0 ELSE a + 1
    BY RoundOn
  <1>2. (a + 1) % n \in 0..n - 1
    BY <1>1
  <1>3. (((a + 1) % n) - i) % n
          = IF i <= (a + 1) % n THEN ((a + 1) % n) - i ELSE ((a + 1) % n) - i + n
    BY <1>2, RoundBack, SMTT(30)
  <1>4. (a - (i - 1)) % n = IF i - 1 <= a THEN a - (i - 1) ELSE a - (i - 1) + n
    BY RoundBack
  <1> QED BY <1>1, <1>3, <1>4
--------------------------------------------------------------------------------
(* The side.                                                               *)

\* A frame being written has room, and as many lines as its stage says.
PartRoom(x) ==
  /\ x.stage = "search" => ~x.reserved
  /\ x.stage = "lines" => x.lines < Lines
  /\ x.stage = "padding" => x.reserved /\ x.lines = Lines
  /\ ~x.reserved => x.lines = 0
  /\ x.reserved => Free(x) >= 1

\* A lent frame has room, in a lending run, and nothing else is written in that run.
LentRoom(x) ==
  /\ x.lending => x.stage = "search"
  /\ x.lent # {} => x.lending /\ x.lent = {x.at} /\ Free(x) >= 1
  /\ x.built => x.lent # {}

\* An idle side holds nothing.
Rests(x) == x.control = "idle" => x.stage = "search" /\ ~x.lending /\ x.load = 0 /\ x.card = 0

\* The IDs of the frames the card has not sent follow that of the frame going out: until the
\* first event, and from then on but for the one or two frames of the last event.
Counted(x) ==
  x.control # "idle" =>
    /\ x.load + x.card >= 0
    /\ ~x.first => Unsent(x) = x.load + x.card + (IF x.gone THEN 1 ELSE 0)
    /\ x.first => x.gone /\ Unsent(x) - x.load - x.card \in 1..2

RoomInv(x) == x \in Sides /\ PartRoom(x) /\ LentRoom(x) /\ Rests(x) /\ Counted(x)

\* The part, and the lent frame, are where the next frame goes.
PartPlace(x) == x.reserved => x.ring[x.at].id = x.next /\ x.ring[x.at].lines = x.lines
LentPlace(x) ==
  /\ x.lent # {} => x.ring[x.at].id = x.next
  /\ x.built => x.ring[x.at].lines = Lines

WholeAt(x, i) ==
  LET frame == x.ring[(x.at - i) % Frames] IN
  frame.lines = Lines /\ frame.id = (x.next - i) % Ids

PlaceInv(x) == PartPlace(x) /\ LentPlace(x) /\ \A i \in 1..x.load : WholeAt(x, i)

SideInv(x) == RoomInv(x) /\ (BlackIsAccepted => PlaceInv(x))

\* The variables of a writer that are of no concern to it.
SameRun(x, y) ==
  /\ y.control = x.control /\ y.lending = x.lending
  /\ y.std = x.std

LEMMA Constants ==
  /\ Frames \in Nat \ {0} /\ Frames >= 2 /\ Lines \in Nat \ {0} /\ CardFrames \in Nat \ {0}
  /\ Ids \in Nat \ {0} /\ Ids > Frames + CardFrames + 2
  BY SdiTxAssumption

LEMMA Zero == 0 \in 0..Lines /\ 0 \in 0..Ids - 1 /\ 0 \in Slots /\ 0 \in 0..Frames
            /\ 0 \in -1..CardFrames
  BY Constants DEF Slots

LEMMA FreshHolds ==
  ASSUME NEW std \in Standards
  PROVE  SideInv(Fresh(std)) /\ Fresh(std).control = "idle"
  <1>1. Fresh(std) \in Sides
    BY Constants DEF Fresh, Sides, Slots, Nothing, Picture
  <1>2. Fresh(std).control = "idle" /\ Fresh(std).load = 0 /\ Fresh(std).card = 0
        /\ Fresh(std).stage = "search" /\ ~Fresh(std).reserved /\ Fresh(std).lines = 0
        /\ ~Fresh(std).lending /\ Fresh(std).lent = {} /\ ~Fresh(std).built
    BY DEF Fresh
  <1>3. RoomInv(Fresh(std))
    BY <1>1, <1>2 DEF RoomInv, PartRoom, LentRoom, Rests, Counted
  <1>4. PlaceInv(Fresh(std))
    BY <1>2 DEF PlaceInv, PartPlace, LentPlace
  <1> QED BY <1>2, <1>3, <1>4 DEF SideInv

LEMMA ForgetHolds ==
  ASSUME NEW x, SideInv(x), NEW y, y = ForgetPartialFrame(x)
  PROVE  SideInv(y) /\ SameRun(x, y) /\ y.stage = "search" /\ y.lent = x.lent
         /\ y.next = x.next /\ y.load = x.load /\ ~y.reserved
  <1>1. x \in Sides
    BY DEF SideInv, RoomInv
  <1>2. y \in Sides
    BY <1>1, Zero, Zenon DEF Sides, ForgetPartialFrame
  <1>3. y.stage = "search" /\ ~y.reserved /\ y.lines = 0
        /\ y.control = x.control /\ y.lending = x.lending /\ y.std = x.std
        /\ y.lent = x.lent /\ y.built = x.built /\ y.at = x.at /\ y.next = x.next
        /\ y.first = x.first /\ y.sending = x.sending /\ y.ring = x.ring /\ y.load = x.load
        /\ y.card = x.card /\ y.gone = x.gone
    BY <1>1 DEF Sides, ForgetPartialFrame
  <1>4. RoomInv(y)
    BY <1>2, <1>3 DEF SideInv, RoomInv, PartRoom, LentRoom, Rests, Counted, Free, Unsent
  <1>5. PlaceInv(x) => PlaceInv(y)
    BY <1>3 DEF PlaceInv, PartPlace, LentPlace, WholeAt
  <1> QED BY <1>3, <1>4, <1>5 DEF SideInv, SameRun

LEMMA StartHolds ==
  ASSUME NEW x, SideInv(x), x.control # "idle", ~x.lending, NEW y, y = StartFrame(x)
  PROVE  SideInv(y) /\ SameRun(x, y) /\ y.stage = "lines" /\ y.lent = {} /\ ~y.reserved
         /\ y.next = x.next
  <1>1. x \in Sides /\ x.lent = {} /\ ~x.built
    BY DEF SideInv, RoomInv, LentRoom
  <1>2. y \in Sides
    BY <1>1, Zero, Zenon DEF Sides, StartFrame
  <1>3. y.stage = "lines" /\ ~y.reserved /\ y.lines = 0
        /\ y.control = x.control /\ y.lending = x.lending /\ y.std = x.std
        /\ y.lent = x.lent /\ y.built = x.built /\ y.at = x.at /\ y.next = x.next
        /\ y.first = x.first /\ y.sending = x.sending /\ y.ring = x.ring /\ y.load = x.load
        /\ y.card = x.card /\ y.gone = x.gone
    BY <1>1 DEF Sides, StartFrame
  <1>4. RoomInv(y)
    BY <1>1, <1>2, <1>3, Constants
       DEF SideInv, RoomInv, PartRoom, LentRoom, Rests, Counted, Free, Unsent
  <1>5. PlaceInv(x) => PlaceInv(y)
    BY <1>1, <1>3 DEF PlaceInv, PartPlace, LentPlace, WholeAt
  <1> QED BY <1>1, <1>3, <1>4, <1>5 DEF SideInv, SameRun

LEMMA EndLendingHolds ==
  ASSUME NEW x, SideInv(x), NEW y, y = EndLending(x)
  PROVE  SideInv(y) /\ y.control = x.control /\ y.lent = {} /\ ~y.lending /\ y.next = x.next
         /\ y.stage = x.stage
  <1>1. x \in Sides
    BY DEF SideInv, RoomInv
  <1>2. y \in Sides
    BY <1>1, Zenon DEF Sides, EndLending
  <1>3. ~y.lending /\ y.lent = {} /\ ~y.built
        /\ y.control = x.control /\ y.stage = x.stage /\ y.reserved = x.reserved
        /\ y.lines = x.lines /\ y.at = x.at /\ y.next = x.next
        /\ y.first = x.first /\ y.sending = x.sending /\ y.ring = x.ring /\ y.load = x.load
        /\ y.card = x.card /\ y.gone = x.gone
    BY <1>1 DEF Sides, EndLending
  <1>4. RoomInv(y)
    BY <1>2, <1>3 DEF SideInv, RoomInv, PartRoom, LentRoom, Rests, Counted, Free, Unsent
  <1>5. PlaceInv(x) => PlaceInv(y)
    BY <1>3 DEF PlaceInv, PartPlace, LentPlace, WholeAt
  <1> QED BY <1>3, <1>4, <1>5 DEF SideInv

LEMMA RingHas ==
  ASSUME NEW x \in Sides
  PROVE  /\ x.ring \in [Slots -> [id : 0..Ids - 1, lines : 0..Lines, field : 0..2]]
         /\ x.at \in Slots /\ x.at \in 0..Frames - 1 /\ x.at \in Nat
         /\ x.next \in 0..Ids - 1 /\ x.next \in Nat
         /\ x.load \in 0..Frames /\ x.load \in Nat /\ x.card \in Int /\ x.card <= CardFrames
         /\ x.lines \in 0..Lines /\ x.lines \in Nat /\ x.sending \in 0..Ids - 1
  <1>1. x.ring \in [Slots -> [id : 0..Ids - 1, lines : 0..Lines, field : 0..2]]
        /\ x.at \in Slots /\ x.next \in 0..Ids - 1 /\ x.load \in 0..Frames
        /\ x.card \in -1..CardFrames /\ x.lines \in 0..Lines /\ x.sending \in 0..Ids - 1
    BY DEF Sides
  <1>2. x.at \in 0..Frames - 1 /\ x.at \in Nat
    <2>1. x.at \in 0..Frames - 1
      BY <1>1 DEF Slots
    <2> QED BY ONLY <2>1, Constants
  <1>3. x.next \in Nat
    <2>1. x.next \in 0..Ids - 1
      BY <1>1
    <2> QED BY ONLY <2>1, Constants
  <1>4. x.load \in Nat
    <2>1. x.load \in 0..Frames
      BY <1>1
    <2> QED BY ONLY <2>1, Constants
  <1>5. x.card \in Int /\ x.card <= CardFrames
    <2>1. x.card \in -1..CardFrames
      BY <1>1
    <2> QED BY ONLY <2>1, Constants
  <1>6. x.lines \in Nat
    <2>1. x.lines \in 0..Lines
      BY <1>1
    <2> QED BY ONLY <2>1, Constants
  <1> QED BY <1>1, <1>2, <1>3, <1>4, <1>5, <1>6, Zenon

\* A frame behind the write offset lies elsewhere.
LEMMA BehindIsElsewhere ==
  ASSUME NEW x \in Sides, NEW i \in 1..Frames - 1
  PROVE  (x.at - i) % Frames \in Slots /\ (x.at - i) % Frames # x.at
  <1>1. x.at \in 0..Frames - 1
    BY RingHas
  <1>2. (x.at - i) % Frames = IF i <= x.at THEN x.at - i ELSE x.at - i + Frames
    BY <1>1, Constants, RoundBack, SMTT(30)
  <1> QED BY <1>1, <1>2, Constants DEF Slots

\* What lies elsewhere stays whole when only the place at the write offset changes.
LEMMA WholeStays ==
  ASSUME NEW x \in Sides, NEW y, x.load <= Frames - 1, \A i \in 1..x.load : WholeAt(x, i),
         y.at = x.at, y.next = x.next, y.load = x.load,
         \A s \in Slots \ {x.at} : y.ring[s] = x.ring[s]
  PROVE  \A i \in 1..y.load : WholeAt(y, i)
  <1> SUFFICES ASSUME NEW i \in 1..x.load PROVE WholeAt(y, i)
    OBVIOUS
  <1>1. i \in 1..Frames - 1
    BY RingHas, Constants
  <1>2. y.ring[(x.at - i) % Frames] = x.ring[(x.at - i) % Frames]
    BY <1>1, BehindIsElsewhere
  <1>3. WholeAt(x, i)
    OBVIOUS
  <1> QED BY <1>2, <1>3 DEF WholeAt

LEMMA ReserveHolds ==
  ASSUME NEW x, SideInv(x), x.control # "idle", ~x.lending, x.stage = "lines", ~x.reserved,
         Free(x) >= 1, NEW field \in 0..2, NEW y, y = ReserveRoom(x, field)
  PROVE  SideInv(y) /\ SameRun(x, y) /\ y.stage = "lines" /\ y.reserved /\ y.lent = {}
         /\ y.next = x.next /\ y.lines = 0
  <1>1. x \in Sides /\ x.lent = {} /\ ~x.built /\ x.lines = 0
    BY DEF SideInv, RoomInv, LentRoom, PartRoom
  <1> DEFINE ring == [x.ring EXCEPT ![x.at] = Picture(x.next, 0, field)]
  <1>2. Picture(x.next, 0, field) \in [id : 0..Ids - 1, lines : 0..Lines, field : 0..2]
    BY <1>1, RingHas, Zero DEF Picture
  <1>3. ring \in [Slots -> [id : 0..Ids - 1, lines : 0..Lines, field : 0..2]]
    BY <1>1, <1>2, RingHas
  <1>4. y = [x EXCEPT !.reserved = TRUE, !.ring = ring]
    BY DEF ReserveRoom
  <1>5. ring[x.at].id = x.next /\ ring[x.at].lines = 0
    BY <1>1, RingHas DEF Picture
  <1>6. \A s \in Slots \ {x.at} : ring[s] = x.ring[s]
    BY <1>1, RingHas
  <1> HIDE DEF ring
  <1>7. y \in Sides
    <2>1. x \in Sides
      BY <1>1
    <2> QED BY <1>3, <1>4, <2>1, Zenon DEF Sides
  <1>8. y.stage = "lines" /\ y.reserved /\ y.lines = 0 /\ y.ring = ring
        /\ y.control = x.control /\ y.lending = x.lending /\ y.std = x.std
        /\ y.lent = x.lent /\ y.built = x.built /\ y.at = x.at /\ y.next = x.next
        /\ y.first = x.first /\ y.sending = x.sending /\ y.load = x.load
        /\ y.card = x.card /\ y.gone = x.gone
    BY <1>1, <1>4 DEF Sides
  <1>9. RoomInv(y)
    BY <1>1, <1>7, <1>8, Constants
       DEF SideInv, RoomInv, PartRoom, LentRoom, Rests, Counted, Free, Unsent
  <1>10. ASSUME PlaceInv(x) PROVE PlaceInv(y)
    <2>1. x.load <= Frames - 1
      BY <1>1, RingHas, Constants DEF Free
    <2>2. \A i \in 1..y.load : WholeAt(y, i)
      BY <1>1, <1>6, <1>8, <1>10, <2>1, WholeStays DEF PlaceInv
    <2> QED BY <1>1, <1>5, <1>8, <2>2 DEF PlaceInv, PartPlace, LentPlace
  <1> QED BY <1>1, <1>8, <1>9, <1>10 DEF SideInv, SameRun

LEMMA EncodeHolds ==
  ASSUME NEW x, SideInv(x), x.stage = "lines", x.reserved, NEW n \in Nat, x.lines + n <= Lines,
         NEW y, y = EncodeLines(x, n)
  PROVE  SideInv(y) /\ SameRun(x, y) /\ y.stage \in {"lines", "padding"} /\ y.lent = {}
         /\ y.next = x.next
  <1>1. x \in Sides /\ x.lent = {} /\ ~x.built /\ ~x.lending /\ Free(x) >= 1
        /\ x.control # "idle" /\ x.lines < Lines
    BY DEF SideInv, RoomInv, LentRoom, PartRoom, Rests
  <1> DEFINE lines == IF x.ring[x.at].lines = x.lines THEN x.ring[x.at].lines + n ELSE 0
             ring == [x.ring EXCEPT ![x.at].lines = lines]
             stage == IF x.lines + n = Lines THEN "padding" ELSE "lines"
             sum == x.lines + n
  <1>2. lines \in 0..Lines /\ sum \in 0..Lines
    BY <1>1, RingHas, Zero, Constants
  <1>3. y = [x EXCEPT !.lines = sum, !.stage = stage, !.ring = ring]
    BY DEF EncodeLines
  <1>4. ring[x.at].id = x.ring[x.at].id /\ ring[x.at].lines = lines
        /\ (x.ring[x.at].lines = x.lines => lines = sum)
    BY <1>1, RingHas
  <1>5. \A s \in Slots \ {x.at} : ring[s] = x.ring[s]
    BY <1>1, RingHas
  <1>6. stage \in {"search", "lines", "padding"} /\ stage # "search"
    OBVIOUS
  <1>7. stage = "lines" => sum < Lines
    BY <1>2, Constants
  <1>8. stage = "padding" => sum = Lines
    OBVIOUS
  <1> HIDE DEF lines
  <1>9. ring \in [Slots -> [id : 0..Ids - 1, lines : 0..Lines, field : 0..2]]
    BY <1>1, <1>2, RingHas
  <1> HIDE DEF ring, stage, sum
  <1>10. y \in Sides
    BY <1>1, <1>2, <1>3, <1>6, <1>9, ZenonT(60) DEF Sides
  <1>11. y.stage = stage /\ y.reserved /\ y.lines = sum /\ y.ring = ring
        /\ y.control = x.control /\ y.lending = x.lending /\ y.std = x.std
        /\ y.lent = x.lent /\ y.built = x.built /\ y.at = x.at /\ y.next = x.next
        /\ y.first = x.first /\ y.sending = x.sending /\ y.load = x.load
        /\ y.card = x.card /\ y.gone = x.gone
    BY <1>1, <1>3 DEF Sides
  <1>12. PartRoom(y)
    BY <1>1, <1>6, <1>7, <1>8, <1>11 DEF PartRoom, Free
  <1>13. RoomInv(y)
    BY <1>1, <1>10, <1>11, <1>12 DEF SideInv, RoomInv, LentRoom, Rests, Counted, Free, Unsent
  <1>14. ASSUME PlaceInv(x) PROVE PlaceInv(y)
    <2>1. x.load <= Frames - 1
      BY <1>1, RingHas, Constants DEF Free
    <2>2. \A i \in 1..y.load : WholeAt(y, i)
      BY <1>1, <1>5, <1>11, <1>14, <2>1, WholeStays DEF PlaceInv
    <2>3. y.ring[y.at].id = y.next /\ y.ring[y.at].lines = y.lines
      BY <1>4, <1>11, <1>14 DEF PlaceInv, PartPlace
    <2> QED BY <1>1, <1>11, <2>2, <2>3 DEF PlaceInv, PartPlace, LentPlace
  <1> QED BY <1>1, <1>6, <1>11, <1>13, <1>14 DEF SideInv, SameRun

LEMMA FromNext ==
  ASSUME NEW n \in Nat \ {0}, NEW a \in 0..n - 1, NEW s \in 0..n - 1, (a - s) % n < n - 1
  PROVE  (((a + 1) % n) - s) % n = ((a - s) % n) + 1
  <1>1. (a + 1) % n = IF a + 1 = n THEN 0 ELSE a + 1
    BY RoundOn
  <1>2. (a - s) % n = IF s <= a THEN a - s ELSE a - s + n
    BY RoundBack
  <1>3. (((a + 1) % n) - s) % n
          = IF s <= (a + 1) % n THEN ((a + 1) % n) - s ELSE ((a + 1) % n) - s + n
    <2>1. (a + 1) % n \in 0..n - 1
      BY <1>1
    <2> QED BY <2>1, RoundBack
  <1> QED BY <1>1, <1>2, <1>3

LEMMA NextIn ==
  ASSUME NEW x \in Sides
  PROVE  (x.at + 1) % Frames \in Slots /\ (x.next + 1) % Ids \in 0..Ids - 1
  <1>1. x.at + 1 \in Int /\ x.next + 1 \in Int
    BY RingHas
  <1>2. Frames \in Nat \ {0} /\ Ids \in Nat \ {0}
    BY Constants
  <1>3. (x.at + 1) % Frames \in 0..Frames - 1 /\ (x.next + 1) % Ids \in 0..Ids - 1
    BY <1>1, <1>2, RoundIn
  <1> QED BY <1>3 DEF Slots

LEMMA UnsentIn ==
  ASSUME NEW x \in Sides
  PROVE  /\ (IF x.first THEN x.sending ELSE 0) \in 0..Ids - 1
         /\ Unsent(x) \in 0..Ids - 1 /\ Unsent(x) \in Nat
  <1> DEFINE s == IF x.first THEN x.sending ELSE 0
  <1>1. s \in 0..Ids - 1 /\ x.next \in 0..Ids - 1
    BY RingHas, Zero
  <1> HIDE DEF s
  <1>2. x.next - s \in Int /\ Ids \in Nat \ {0}
    BY <1>1, Constants
  <1>3. (x.next - s) % Ids \in 0..Ids - 1
    BY <1>2, RoundIn
  <1>4. Unsent(x) = (x.next - s) % Ids
    BY DEF Unsent, s
  <1>5. Unsent(x) \in 0..Ids - 1
    BY <1>3, <1>4
  <1> QED BY <1>1, <1>5 DEF s

\* The frame at the write offset joins those the card may take.
LEMMA CommitRoom ==
  ASSUME NEW x, RoomInv(x), x.control # "idle", x.lent = {},
         Free(x) >= 1, x.reserved => Free(x) >= 2, NEW y, y = CommitFrame(x)
  PROVE  /\ RoomInv(y) /\ SameRun(x, y) /\ y.stage = x.stage /\ y.lent = {} /\ ~y.built
         /\ y.reserved = x.reserved /\ y.lines = x.lines /\ y.ring = x.ring
         /\ y.at = (x.at + 1) % Frames /\ y.next = (x.next + 1) % Ids /\ y.load = x.load + 1
  <1>1. x \in Sides
    BY DEF RoomInv
  <1>2. ~x.built /\ x.lent = {}
    BY DEF RoomInv, LentRoom
  <1> DEFINE at == (x.at + 1) % Frames
             next == (x.next + 1) % Ids
             load == x.load + 1
  <1>3. at \in Slots /\ next \in 0..Ids - 1
    BY <1>1, NextIn
  <1>4. load \in 0..Frames /\ load = x.load + 1
    BY <1>1, RingHas, Constants DEF Free
  <1>5. y = [x EXCEPT !.at = at, !.next = next, !.load = load]
    BY DEF CommitFrame
  <1>6. Unsent(x) <= x.load + x.card + 2
    BY <1>1, RingHas, UnsentIn DEF RoomInv, Counted
  <1>7. x.load + x.card + 2 < Ids - 1
    BY <1>1, <1>4, RingHas, Constants
  <1> DEFINE s == IF x.first THEN x.sending ELSE 0
  <1>8. s \in 0..Ids - 1 /\ Unsent(x) = (x.next - s) % Ids
    BY <1>1, UnsentIn DEF Unsent
  <1>9. (next - s) % Ids = Unsent(x) + 1
    <2> HIDE DEF s
    <2>1. Unsent(x) \in Nat /\ x.load \in Nat /\ x.card \in Int /\ Ids \in Nat \ {0}
          /\ x.next \in 0..Ids - 1
      BY <1>1, UnsentIn, RingHas, Constants
    <2>2. (x.next - s) % Ids < Ids - 1
      BY <1>6, <1>7, <1>8, <2>1
    <2>3. (((x.next + 1) % Ids) - s) % Ids = ((x.next - s) % Ids) + 1
      BY <1>8, <2>1, <2>2, FromNext
    <2> QED BY <1>8, <2>3
  <1> HIDE DEF at, next, load
  <1>10. y \in Sides
    BY <1>1, <1>3, <1>4, <1>5, ZenonT(60) DEF Sides
  <1>11. y.at = at /\ y.next = next /\ y.load = load
        /\ y.stage = x.stage /\ y.reserved = x.reserved /\ y.lines = x.lines /\ y.ring = x.ring
        /\ y.control = x.control /\ y.lending = x.lending /\ y.std = x.std
        /\ y.lent = x.lent /\ y.built = x.built /\ y.first = x.first /\ y.sending = x.sending
        /\ y.card = x.card /\ y.gone = x.gone
    BY <1>1, <1>5 DEF Sides
  <1>12. Unsent(y) = Unsent(x) + 1
    BY <1>9, <1>11 DEF Unsent
  <1>13. Unsent(x) \in Nat
    BY <1>1, UnsentIn
  <1>14. Counted(y)
    BY <1>1, <1>4, <1>11, <1>12, <1>13, RingHas, SMTT(30) DEF RoomInv, Counted
  <1>15. PartRoom(y)
    BY <1>1, <1>4, <1>11, RingHas, Constants DEF RoomInv, PartRoom, Free
  <1>16. LentRoom(y) /\ Rests(y)
    BY <1>2, <1>11 DEF RoomInv, LentRoom, Rests
  <1> QED BY <1>2, <1>10, <1>11, <1>14, <1>15, <1>16 DEF RoomInv, SameRun, at, next, load

\* If it is whole it stays so there.
LEMMA CommitWhole ==
  ASSUME NEW x \in Sides, NEW y \in Sides, \A i \in 1..x.load : WholeAt(x, i), y.ring = x.ring,
         y.at = (x.at + 1) % Frames, y.next = (x.next + 1) % Ids, y.load = x.load + 1,
         x.ring[x.at].lines = Lines, x.ring[x.at].id = x.next
  PROVE  \A i \in 1..y.load : WholeAt(y, i)
  <1> SUFFICES ASSUME NEW i \in 1..y.load PROVE WholeAt(y, i)
    OBVIOUS
  <1>1. i \in 1..Frames /\ i \in 1..Ids /\ x.load \in Nat /\ i \in Nat
    BY RingHas, Constants
  <1>2. Frames \in Nat \ {0} /\ Ids \in Nat \ {0} /\ x.at \in 0..Frames - 1 /\ x.next \in 0..Ids - 1
    BY RingHas, Constants
  <1>3. /\ i = 1 => (((x.at + 1) % Frames) - i) % Frames = x.at
        /\ i > 1 => (((x.at + 1) % Frames) - i) % Frames = (x.at - (i - 1)) % Frames
    BY <1>1, <1>2, BackFromNext, ZenonT(60)
  <1>4. /\ i = 1 => (((x.next + 1) % Ids) - i) % Ids = x.next
        /\ i > 1 => (((x.next + 1) % Ids) - i) % Ids = (x.next - (i - 1)) % Ids
    BY <1>1, <1>2, BackFromNext, ZenonT(60)
  <1>5. CASE i = 1
    <2>1. (y.at - i) % Frames = x.at /\ (y.next - i) % Ids = x.next
      BY <1>5, <1>3, <1>4
    <2> QED BY <2>1 DEF WholeAt
  <1>6. CASE i > 1
    <2>1. (y.at - i) % Frames = (x.at - (i - 1)) % Frames
          /\ (y.next - i) % Ids = (x.next - (i - 1)) % Ids
      BY <1>6, <1>3, <1>4
    <2>2. i - 1 \in 1..x.load
      BY <1>1, <1>6
    <2>3. WholeAt(x, i - 1)
      BY <2>2
    <2> QED BY <2>1, <2>3 DEF WholeAt
  <1> QED BY <1>1, <1>5, <1>6

LEMMA ForgetCommitted ==
  ASSUME NEW x \in Sides
  PROVE  ForgetPartialFrame(CommitFrame(x)) = CommitFrame(ForgetPartialFrame(x))
  BY ZenonT(60) DEF ForgetPartialFrame, CommitFrame, Sides

\* A frame is committed when its lines are all there.
LEMMA PartCommitted ==
  ASSUME NEW x, SideInv(x), x.stage = "padding", NEW y, y = ForgetPartialFrame(CommitFrame(x))
  PROVE  SideInv(y) /\ SameRun(x, y) /\ y.stage = "search" /\ y.lent = {} /\ ~y.lending
         /\ y.next = (x.next + 1) % Ids
  <1>1. x \in Sides /\ x.reserved /\ x.lines = Lines /\ Free(x) >= 1 /\ x.control # "idle"
        /\ x.lent = {} /\ ~x.lending /\ ~x.built
    BY DEF SideInv, RoomInv, PartRoom, LentRoom, Rests
  <1> DEFINE z == ForgetPartialFrame(x)
  <1>2. y = CommitFrame(z)
    BY <1>1, ForgetCommitted
  <1>3. SideInv(z) /\ SameRun(x, z) /\ z.stage = "search" /\ z.lent = x.lent
        /\ z.next = x.next /\ z.load = x.load /\ ~z.reserved
    BY ForgetHolds
  <1>4. z.ring = x.ring /\ z.at = x.at
    BY <1>1 DEF ForgetPartialFrame, Sides
  <1> HIDE DEF z
  <1>5. RoomInv(z) /\ z.control # "idle" /\ z.lent = {} /\ Free(z) >= 1
    BY <1>1, <1>3 DEF SideInv, SameRun, Free
  <1>6. /\ RoomInv(y) /\ SameRun(z, y) /\ y.stage = z.stage /\ y.lent = {} /\ ~y.built
        /\ y.reserved = z.reserved /\ y.lines = z.lines /\ y.ring = z.ring
        /\ y.at = (z.at + 1) % Frames /\ y.next = (z.next + 1) % Ids /\ y.load = z.load + 1
    BY <1>2, <1>3, <1>5, CommitRoom
  <1>7. ASSUME PlaceInv(x), PlaceInv(z) PROVE PlaceInv(y)
    <2>1. z.ring[z.at].lines = Lines /\ z.ring[z.at].id = z.next
      BY <1>1, <1>3, <1>4, <1>7 DEF PlaceInv, PartPlace
    <2>2. z \in Sides /\ y \in Sides
      BY <1>5, <1>6 DEF RoomInv
    <2>3. \A i \in 1..y.load : WholeAt(y, i)
      BY <1>6, <1>7, <2>1, <2>2, CommitWhole DEF PlaceInv
    <2> QED BY <1>3, <1>6, <2>3 DEF PlaceInv, PartPlace, LentPlace
  <1> QED BY <1>1, <1>3, <1>6, <1>7 DEF SideInv, SameRun

\* The lent frame is dropped, or committed as the program built it.
LEMMA LentDropped ==
  ASSUME NEW x, SideInv(x), NEW y, y = [x EXCEPT !.lent = {}, !.built = FALSE]
  PROVE  SideInv(y) /\ SameRun(x, y) /\ y.lent = {} /\ ~y.built /\ y.stage = x.stage
         /\ y.at = x.at /\ y.ring = x.ring /\ y.next = x.next /\ y.load = x.load
         /\ y.reserved = x.reserved
  <1>1. x \in Sides
    BY DEF SideInv, RoomInv
  <1>2. y \in Sides
    BY <1>1, Zenon DEF Sides
  <1>3. y.lent = {} /\ ~y.built /\ y.lending = x.lending /\ y.std = x.std
        /\ y.control = x.control /\ y.stage = x.stage /\ y.reserved = x.reserved
        /\ y.lines = x.lines /\ y.at = x.at /\ y.next = x.next
        /\ y.first = x.first /\ y.sending = x.sending /\ y.ring = x.ring /\ y.load = x.load
        /\ y.card = x.card /\ y.gone = x.gone
    BY <1>1 DEF Sides
  <1>4. RoomInv(y)
    BY <1>2, <1>3 DEF SideInv, RoomInv, PartRoom, LentRoom, Rests, Counted, Free, Unsent
  <1>5. PlaceInv(x) => PlaceInv(y)
    BY <1>3 DEF PlaceInv, PartPlace, LentPlace, WholeAt
  <1> QED BY <1>3, <1>4, <1>5 DEF SideInv, SameRun

LEMMA LentCommitted ==
  ASSUME NEW x, SideInv(x), x.lent # {}, x.built,
         NEW y, y = CommitFrame([x EXCEPT !.lent = {}, !.built = FALSE])
  PROVE  SideInv(y) /\ SameRun(x, y) /\ y.stage = x.stage /\ y.lent = {}
  <1> DEFINE z == [x EXCEPT !.lent = {}, !.built = FALSE]
  <1>1. x \in Sides /\ ~x.reserved /\ Free(x) >= 1 /\ x.control # "idle"
    BY DEF SideInv, RoomInv, PartRoom, LentRoom, Rests
  <1>2. SideInv(z) /\ SameRun(x, z) /\ z.lent = {} /\ ~z.built /\ z.stage = x.stage
        /\ z.at = x.at /\ z.ring = x.ring /\ z.next = x.next /\ z.load = x.load
        /\ z.reserved = x.reserved
    BY LentDropped
  <1>3. y = CommitFrame(z)
    OBVIOUS
  <1> HIDE DEF z
  <1>4. RoomInv(z) /\ z.control # "idle" /\ Free(z) >= 1 /\ ~z.reserved
    BY <1>1, <1>2 DEF SideInv, SameRun, Free
  <1>5. /\ RoomInv(y) /\ SameRun(z, y) /\ y.stage = z.stage /\ y.lent = {} /\ ~y.built
        /\ y.reserved = z.reserved /\ y.lines = z.lines /\ y.ring = z.ring
        /\ y.at = (z.at + 1) % Frames /\ y.next = (z.next + 1) % Ids /\ y.load = z.load + 1
    BY <1>2, <1>3, <1>4, CommitRoom
  <1>6. ASSUME PlaceInv(x), PlaceInv(z) PROVE PlaceInv(y)
    <2>1. z.ring[z.at].lines = Lines /\ z.ring[z.at].id = z.next
      BY <1>2, <1>6 DEF PlaceInv, LentPlace
    <2>2. z \in Sides /\ y \in Sides
      BY <1>4, <1>5 DEF RoomInv
    <2>3. \A i \in 1..y.load : WholeAt(y, i)
      BY <1>5, <1>6, <2>1, <2>2, CommitWhole DEF PlaceInv
    <2> QED BY <1>4, <1>5, <2>3 DEF PlaceInv, PartPlace, LentPlace
  <1> QED BY <1>2, <1>5, <1>6 DEF SideInv, SameRun

LEMMA MakeRoomHolds ==
  ASSUME NEW x, SideInv(x), NEW y, y = MakeRoom(x)
  PROVE  SideInv(y) /\ SameRun(x, y) /\ y.lent = x.lent /\ y.load = x.load /\ y.next = x.next
         /\ (y.reserved => Free(y) >= 2) /\ y.stage \in {x.stage, "search"}
  <1>1. CASE y = ForgetPartialFrame(x)
    BY <1>1, ForgetHolds
  <1>2. CASE y = x /\ ~(x.reserved /\ Free(x) < 2)
    <2>1. x \in Sides
      BY DEF SideInv, RoomInv
    <2>2. x.reserved => Free(x) >= 2
      BY <1>2, <2>1, RingHas, Constants DEF Free
    <2> QED BY <1>2, <2>2 DEF SameRun
  <1> QED BY <1>1, <1>2 DEF MakeRoom

\* The black frame takes the place at the write offset, and the part moves on.
LEMMA PutBlackHolds ==
  ASSUME NEW x, SideInv(x), x.lent = {}, Free(x) >= 1, x.reserved => Free(x) >= 2,
         NEW y, y = PutBlack(x)
  PROVE  /\ RoomInv(y) /\ SameRun(x, y) /\ y.stage = x.stage /\ y.lent = {}
         /\ y.at = x.at /\ y.next = x.next /\ y.load = x.load
         /\ y.reserved = x.reserved /\ y.lines = x.lines
         /\ y.ring[x.at].lines = Lines /\ y.ring[x.at].id = x.next
         /\ PlaceInv(x) =>
              /\ \A i \in 1..y.load : WholeAt(y, i)
              /\ x.reserved => /\ y.ring[(x.at + 1) % Frames].id = (x.next + 1) % Ids
                               /\ y.ring[(x.at + 1) % Frames].lines = x.lines
  <1>1. x \in Sides
    BY DEF SideInv, RoomInv
  <1> DEFINE black == BlackPicture(x)
             moved == [x.ring[x.at] EXCEPT !.id = (x.next + 1) % Ids]
             place == (x.at + 1) % Frames
             ring == [s \in Slots |-> IF s = x.at THEN black
                                      ELSE IF x.reserved /\ s = place THEN moved
                                      ELSE x.ring[s]]
             Pictures == [id : 0..Ids - 1, lines : 0..Lines, field : 0..2]
  <1>2. black \in Pictures /\ black.lines = Lines /\ black.id = x.next
    BY <1>1, RingHas, Constants DEF BlackPicture, Picture
  <1>3. x.ring \in [Slots -> Pictures] /\ x.at \in Slots
    BY <1>1, RingHas
  <1>4. moved \in Pictures /\ moved.id = (x.next + 1) % Ids /\ moved.lines = x.ring[x.at].lines
    <2>1. x.ring[x.at] \in Pictures
      BY <1>3
    <2>2. (x.next + 1) % Ids \in 0..Ids - 1
      BY <1>1, NextIn
    <2> QED BY <2>1, <2>2
  <1>5. y = [x EXCEPT !.ring = ring]
    BY DEF PutBlack
  <1>6. place \in Slots /\ place # x.at
    <2>1. x.at \in 0..Frames - 1
      BY <1>1, RingHas
    <2>2. place = IF x.at + 1 = Frames THEN 0 ELSE x.at + 1
      BY <2>1, Constants, RoundOn
    <2> QED BY <2>1, <2>2, Constants DEF Slots
  <1> HIDE DEF black, moved, place, Pictures
  <1>7. ring \in [Slots -> Pictures]
    BY <1>2, <1>3, <1>4
  <1>8. ring[x.at] = black /\ (x.reserved => ring[place] = moved)
        /\ \A s \in Slots : s # x.at /\ ~(x.reserved /\ s = place) => ring[s] = x.ring[s]
    BY <1>3, <1>6
  <1> HIDE DEF ring
  <1>9. y \in Sides
    BY <1>1, <1>5, <1>7, ZenonT(60) DEF Sides, Pictures
  <1>10. y.ring = ring /\ y.stage = x.stage /\ y.reserved = x.reserved /\ y.lines = x.lines
        /\ y.at = x.at /\ y.next = x.next /\ y.load = x.load
        /\ y.control = x.control /\ y.lending = x.lending /\ y.std = x.std
        /\ y.lent = x.lent /\ y.built = x.built /\ y.first = x.first /\ y.sending = x.sending
        /\ y.card = x.card /\ y.gone = x.gone
    BY <1>1, <1>5 DEF Sides
  <1>11. RoomInv(y)
    BY <1>9, <1>10 DEF SideInv, RoomInv, PartRoom, LentRoom, Rests, Counted, Free, Unsent
  <1>12. ASSUME PlaceInv(x), NEW i \in 1..x.load PROVE WholeAt(y, i)
    <2>1. i \in 1..Frames - 1
      BY <1>1, RingHas, Constants DEF Free
    <2>2. (x.at - i) % Frames \in Slots /\ (x.at - i) % Frames # x.at
      BY <1>1, <2>1, BehindIsElsewhere
    <2>3. x.reserved => (x.at - i) % Frames # place
      <3> SUFFICES ASSUME x.reserved PROVE (x.at - i) % Frames # place
        OBVIOUS
      <3>1. i <= Frames - 2 /\ i \in 0..Frames /\ x.at \in 0..Frames - 1
        BY <1>1, <2>1, RingHas, Constants DEF Free
      <3>2. (x.at - i) % Frames = IF i <= x.at THEN x.at - i ELSE x.at - i + Frames
        BY <3>1, RoundBack, Constants
      <3>3. place = IF x.at + 1 = Frames THEN 0 ELSE x.at + 1
        BY <3>1, RoundOn, Constants DEF place
      <3> QED BY <2>1, <3>1, <3>2, <3>3, Constants
    <2>4. y.ring[(x.at - i) % Frames] = x.ring[(x.at - i) % Frames]
      BY <1>8, <1>10, <2>2, <2>3
    <2>5. WholeAt(x, i)
      BY <1>12 DEF PlaceInv
    <2> QED BY <1>10, <2>4, <2>5 DEF WholeAt
  <1>13. ASSUME PlaceInv(x), x.reserved
         PROVE  y.ring[place].id = (x.next + 1) % Ids /\ y.ring[place].lines = x.lines
    BY <1>4, <1>8, <1>10, <1>13 DEF PlaceInv, PartPlace
  <1> QED BY <1>2, <1>8, <1>10, <1>11, <1>12, <1>13 DEF SameRun, place

LEMMA InsertBlackHolds ==
  ASSUME NEW x, SideInv(x), x.control # "idle", ~x.lending, NEW y \in InsertBlack(x)
  PROVE  SideInv(y) /\ SameRun(x, y) /\ y.lent = {} /\ y.stage \in {x.stage, "search"}
  <1>1. CASE Free(x) < 1
    BY <1>1 DEF InsertBlack, SameRun, SideInv, RoomInv, LentRoom
  <1>2. CASE ~(Free(x) < 1)
    <2> DEFINE z == MakeRoom(x)
               p == PutBlack(z)
    <2>1. x \in Sides /\ x.lent = {}
      BY DEF SideInv, RoomInv, LentRoom
    <2>2. Free(x) >= 1
      BY <1>2, <2>1, RingHas, Constants DEF Free
    <2>3. SideInv(z) /\ SameRun(x, z) /\ z.lent = {} /\ z.load = x.load
          /\ (z.reserved => Free(z) >= 2) /\ z.stage \in {x.stage, "search"}
      BY <2>1, MakeRoomHolds
    <2>4. y = CommitFrame(p) \/ (y = p /\ (p.reserved => "refusal" \in Liberties))
      BY <1>2 DEF InsertBlack
    <2> HIDE DEF z
    <2>5. Free(z) >= 1
      BY <2>2, <2>3 DEF Free
    <2>6. p = PutBlack(z)
      OBVIOUS
    <2> HIDE DEF p
    <2>7. /\ RoomInv(p) /\ SameRun(z, p) /\ p.stage = z.stage /\ p.lent = {}
          /\ p.at = z.at /\ p.next = z.next /\ p.load = z.load
          /\ p.reserved = z.reserved /\ p.lines = z.lines
          /\ p.ring[z.at].lines = Lines /\ p.ring[z.at].id = z.next
          /\ PlaceInv(z) =>
               /\ \A i \in 1..p.load : WholeAt(p, i)
               /\ z.reserved => /\ p.ring[(z.at + 1) % Frames].id = (z.next + 1) % Ids
                                /\ p.ring[(z.at + 1) % Frames].lines = z.lines
      BY <2>3, <2>5, <2>6, PutBlackHolds
    <2>8. ~p.built
      BY <2>7 DEF RoomInv, LentRoom
    <2>9. CASE y = CommitFrame(p)
      <3>1. p.control # "idle" /\ Free(p) >= 1 /\ (p.reserved => Free(p) >= 2)
        BY <2>3, <2>5, <2>7 DEF SameRun, Free
      <3>2. /\ RoomInv(y) /\ SameRun(p, y) /\ y.stage = p.stage /\ y.lent = {} /\ ~y.built
            /\ y.reserved = p.reserved /\ y.lines = p.lines /\ y.ring = p.ring
            /\ y.at = (p.at + 1) % Frames /\ y.next = (p.next + 1) % Ids /\ y.load = p.load + 1
        BY <2>7, <2>9, <3>1, CommitRoom
      <3>3. ASSUME PlaceInv(z) PROVE PlaceInv(y)
        <4>1. p \in Sides /\ y \in Sides
          BY <2>7, <3>2 DEF RoomInv
        <4>2. \A i \in 1..y.load : WholeAt(y, i)
          BY <2>7, <3>2, <3>3, <4>1, CommitWhole
        <4> QED BY <2>7, <3>2, <3>3, <4>2 DEF PlaceInv, PartPlace, LentPlace
      <3> QED BY <2>3, <2>7, <3>2, <3>3 DEF SideInv, SameRun
    <2>10. CASE y = p /\ (p.reserved => "refusal" \in Liberties)
      <3>1. ASSUME BlackIsAccepted, PlaceInv(z) PROVE PlaceInv(y)
        BY <2>7, <2>8, <2>10, <3>1 DEF PlaceInv, PartPlace, LentPlace, BlackIsAccepted
      <3> QED BY <2>3, <2>7, <2>10, <3>1 DEF SideInv, SameRun
    <2> QED BY <2>4, <2>9, <2>10
  <1> QED BY <1>1, <1>2

LEMMA HoldHolds ==
  ASSUME NEW x, SideInv(x), x.control = "idle", NEW y, y = IdleToHold(x)
  PROVE  SideInv(y) /\ y.control = "hold" /\ y.stage = "search" /\ ~y.lending /\ y.lent = {}
         /\ y.std = x.std
  <1>1. x \in Sides
    BY DEF SideInv, RoomInv
  <1>2. ~x.lending /\ x.load = 0 /\ x.card = 0 /\ x.lent = {} /\ ~x.built
    BY DEF SideInv, RoomInv, Rests, LentRoom
  <1>3. y \in Sides
    BY <1>1, Zero, ZenonT(60) DEF Sides, IdleToHold, ForgetPartialFrame
  <1>4. y.control = "hold" /\ y.stage = "search" /\ ~y.reserved /\ y.lines = 0
        /\ y.lending = x.lending /\ y.std = x.std /\ y.lent = x.lent /\ y.built = x.built
        /\ y.at = 0 /\ y.next = 0 /\ ~y.first /\ y.load = x.load /\ y.card = x.card /\ ~y.gone
    BY <1>1 DEF Sides, IdleToHold, ForgetPartialFrame
  <1>5. Unsent(y) = 0
    <2>1. (0 - 0) % Ids = 0
      BY Constants, Zero, RoundBack
    <2> QED BY <1>4, <2>1 DEF Unsent
  <1>6. RoomInv(y)
    BY <1>2, <1>3, <1>4, <1>5 DEF RoomInv, PartRoom, LentRoom, Rests, Counted
  <1>7. PlaceInv(y)
    BY <1>2, <1>4 DEF PlaceInv, PartPlace, LentPlace
  <1> QED BY <1>2, <1>4, <1>6, <1>7 DEF SideInv

LEMMA IdleHolds ==
  ASSUME NEW x, SideInv(x), NEW y, y = HoldToIdle(x)
  PROVE  SideInv(y) /\ y.control = "idle" /\ y.stage = "search" /\ y.lent = {} /\ ~y.lending
  <1> DEFINE ring == [s \in Slots |-> Nothing]
             part == ForgetPartialFrame(x)
             z == EndLending(part)
  <1>1. SideInv(part) /\ part.stage = "search"
    BY ForgetHolds
  <1>2. SideInv(z) /\ z.lent = {} /\ ~z.lending /\ z.stage = part.stage
    BY <1>1, EndLendingHolds
  <1>3. y = [z EXCEPT !.control = "idle", !.ring = ring, !.load = 0, !.card = 0]
    BY DEF HoldToIdle
  <1>4. ring \in [Slots -> [id : 0..Ids - 1, lines : 0..Lines, field : 0..2]]
    BY Constants DEF Nothing, Picture
  <1> HIDE DEF ring, part, z
  <1>5. z \in Sides
    BY <1>2 DEF SideInv, RoomInv
  <1>6. y \in Sides
    BY <1>3, <1>4, <1>5, Zero, ZenonT(60) DEF Sides
  <1>7. y.control = "idle" /\ y.load = 0 /\ y.card = 0 /\ y.stage = z.stage
        /\ y.reserved = z.reserved /\ y.lines = z.lines
        /\ y.lending = z.lending /\ y.lent = z.lent /\ y.built = z.built
    BY <1>3, <1>5 DEF Sides
  <1>8. ~y.reserved /\ ~y.built
    BY <1>1, <1>2, <1>7 DEF SideInv, RoomInv, PartRoom, LentRoom
  <1>9. RoomInv(y)
    BY <1>1, <1>2, <1>6, <1>7, <1>8 DEF SideInv, RoomInv, PartRoom, LentRoom, Rests, Counted
  <1>10. PlaceInv(y)
    BY <1>7, <1>8, <1>2 DEF PlaceInv, PartPlace, LentPlace
  <1> QED BY <1>1, <1>2, <1>7, <1>9, <1>10 DEF SideInv

\* After an event the frames not sent are those of the card and the one going out.
LEMMA NoteHolds ==
  ASSUME NEW x, SideInv(x), x.gone, NEW y, y = NoteEvent(x)
  PROVE  SideInv(y) /\ SameRun(x, y) /\ y.lent = x.lent /\ y.stage = x.stage /\ y.next = x.next
  <1>1. x \in Sides
    BY DEF SideInv, RoomInv
  <1>2. x.next \in 0..Ids - 1 /\ x.load \in 0..Frames /\ x.card \in Int /\ x.card <= CardFrames
        /\ x.next \in Int /\ x.load \in Int
    BY <1>1, RingHas
  <1>3. Going(x) \in 0..Ids - 1
    <2>1. x.next - x.load - x.card - 1 \in Int /\ Ids \in Nat \ {0}
      BY <1>2, Constants
    <2> QED BY <2>1, RoundIn DEF Going
  <1>4. y = [x EXCEPT !.first = TRUE, !.sending = Going(x)]
    BY DEF NoteEvent
  <1>5. y \in Sides
    BY <1>1, <1>3, <1>4, ZenonT(60) DEF Sides
  <1>6. y.first /\ y.sending = Going(x)
        /\ y.control = x.control /\ y.stage = x.stage /\ y.reserved = x.reserved
        /\ y.lines = x.lines /\ y.at = x.at /\ y.next = x.next /\ y.ring = x.ring
        /\ y.lending = x.lending /\ y.std = x.std /\ y.lent = x.lent /\ y.built = x.built
        /\ y.load = x.load /\ y.card = x.card /\ y.gone = x.gone
    BY <1>1, <1>4 DEF Sides
  <1>7. ASSUME x.control # "idle" PROVE Unsent(y) = x.load + x.card + 1
    <2> DEFINE d == x.load + x.card + 1
    <2>1. d \in 0..Ids - 1
      BY <1>2, <1>7, Constants DEF SideInv, RoomInv, Counted
    <2>2. x.next - x.load - x.card - 1 = x.next - d
      BY <1>2
    <2> HIDE DEF d
    <2>3. (x.next - ((x.next - d) % Ids)) % Ids = d
      BY <1>2, <2>1, Constants, RoundTrip
    <2>4. Unsent(y) = (x.next - Going(x)) % Ids
      BY <1>6 DEF Unsent
    <2> QED BY <2>2, <2>3, <2>4 DEF Going, d
  <1>8. Counted(y)
    BY <1>2, <1>6, <1>7 DEF SideInv, RoomInv, Counted
  <1>9. PartRoom(y) /\ LentRoom(y) /\ Rests(y)
    BY <1>6 DEF SideInv, RoomInv, PartRoom, LentRoom, Rests, Free
  <1>10. PlaceInv(x) => PlaceInv(y)
    BY <1>6 DEF PlaceInv, PartPlace, LentPlace, WholeAt
  <1> QED BY <1>5, <1>6, <1>8, <1>9, <1>10 DEF SideInv, RoomInv, SameRun

LEMMA AllowedHolds ==
  ASSUME NEW x, SideInv(x), NEW allowed \in BOOLEAN, NEW y, y = [x EXCEPT !.allowed = allowed]
  PROVE  SideInv(y) /\ SameRun(x, y) /\ y.lent = x.lent /\ y.stage = x.stage /\ y.next = x.next
  <1>1. x \in Sides
    BY DEF SideInv, RoomInv
  <1>2. y \in Sides
    BY <1>1, Zenon DEF Sides
  <1>3. y.control = x.control /\ y.stage = x.stage /\ y.reserved = x.reserved
        /\ y.lines = x.lines /\ y.at = x.at /\ y.next = x.next /\ y.ring = x.ring
        /\ y.lending = x.lending /\ y.std = x.std /\ y.lent = x.lent /\ y.built = x.built
        /\ y.first = x.first /\ y.sending = x.sending
        /\ y.load = x.load /\ y.card = x.card /\ y.gone = x.gone
    BY <1>1 DEF Sides
  <1>4. RoomInv(y)
    BY <1>2, <1>3 DEF SideInv, RoomInv, PartRoom, LentRoom, Rests, Counted, Free, Unsent
  <1>5. PlaceInv(x) => PlaceInv(y)
    BY <1>3 DEF PlaceInv, PartPlace, LentPlace, WholeAt
  <1> QED BY <1>3, <1>4, <1>5 DEF SideInv, SameRun

\* Starting, and stopping without going idle.
LEMMA ControlHolds ==
  ASSUME NEW x, SideInv(x), x.control # "idle", NEW control \in {"hold", "send"},
         NEW y, y = [x EXCEPT !.control = control]
  PROVE  SideInv(y) /\ y.control = control /\ y.lent = x.lent /\ y.stage = x.stage
         /\ y.next = x.next /\ y.lending = x.lending
  <1>1. x \in Sides
    BY DEF SideInv, RoomInv
  <1>2. control \in {"idle", "hold", "send"} /\ control # "idle"
    OBVIOUS
  <1>3. y \in Sides
    BY <1>1, <1>2, Zenon DEF Sides
  <1>4. y.control = control /\ y.stage = x.stage /\ y.reserved = x.reserved
        /\ y.lines = x.lines /\ y.at = x.at /\ y.next = x.next /\ y.ring = x.ring
        /\ y.lending = x.lending /\ y.lent = x.lent /\ y.built = x.built
        /\ y.first = x.first /\ y.sending = x.sending
        /\ y.load = x.load /\ y.card = x.card /\ y.gone = x.gone
    BY <1>1 DEF Sides
  <1>5. RoomInv(y)
    BY <1>2, <1>3, <1>4
       DEF SideInv, RoomInv, PartRoom, LentRoom, Rests, Counted, Free, Unsent
  <1>6. PlaceInv(x) => PlaceInv(y)
    BY <1>4 DEF PlaceInv, PartPlace, LentPlace, WholeAt
  <1> QED BY <1>4, <1>5, <1>6 DEF SideInv

LEMMA StdHolds ==
  ASSUME NEW x, SideInv(x), NEW std \in Standards, NEW y, y = [x EXCEPT !.std = std]
  PROVE  SideInv(y) /\ y.control = x.control /\ y.lent = x.lent /\ y.stage = x.stage
         /\ y.next = x.next /\ y.lending = x.lending
  <1>1. x \in Sides
    BY DEF SideInv, RoomInv
  <1>2. y \in Sides
    BY <1>1, Zenon DEF Sides
  <1>3. y.control = x.control /\ y.stage = x.stage /\ y.reserved = x.reserved
        /\ y.lines = x.lines /\ y.at = x.at /\ y.next = x.next /\ y.ring = x.ring
        /\ y.lending = x.lending /\ y.lent = x.lent /\ y.built = x.built
        /\ y.first = x.first /\ y.sending = x.sending
        /\ y.load = x.load /\ y.card = x.card /\ y.gone = x.gone
    BY <1>1 DEF Sides
  <1>4. RoomInv(y)
    BY <1>2, <1>3 DEF SideInv, RoomInv, PartRoom, LentRoom, Rests, Counted, Free, Unsent
  <1>5. PlaceInv(x) => PlaceInv(y)
    BY <1>3 DEF PlaceInv, PartPlace, LentPlace, WholeAt
  <1> QED BY <1>3, <1>4, <1>5 DEF SideInv

\* A frame is lent where the next one goes.
LEMMA LendHolds ==
  ASSUME NEW x, SideInv(x), x.lending, Free(x) >= 1, x.lent = {}, NEW y, y = Lend(x)
  PROVE  SideInv(y) /\ SameRun(x, y) /\ y.stage = "search" /\ y.next = x.next
  <1>1. x \in Sides
    BY DEF SideInv, RoomInv
  <1>2. x.stage = "search" /\ ~x.built /\ ~x.reserved /\ x.lines = 0 /\ x.control # "idle"
    BY DEF SideInv, RoomInv, LentRoom, PartRoom, Rests
  <1> DEFINE ring == [x.ring EXCEPT ![x.at] = Picture(x.next, 0, 0)]
             lent == {x.at}
  <1>3. Picture(x.next, 0, 0) \in [id : 0..Ids - 1, lines : 0..Lines, field : 0..2]
    BY <1>1, RingHas, Zero DEF Picture
  <1>4. ring \in [Slots -> [id : 0..Ids - 1, lines : 0..Lines, field : 0..2]]
    BY <1>1, <1>3, RingHas
  <1>5. y = [x EXCEPT !.lent = lent, !.built = FALSE, !.ring = ring]
    BY DEF Lend
  <1>6. ring[x.at].id = x.next /\ \A s \in Slots \ {x.at} : ring[s] = x.ring[s]
    BY <1>1, RingHas DEF Picture
  <1>7. lent \in SUBSET Slots /\ lent # {} /\ lent = {x.at}
    BY <1>1, RingHas
  <1> HIDE DEF ring, lent
  <1>8. y \in Sides
    BY <1>1, <1>4, <1>5, <1>7, ZenonT(60) DEF Sides
  <1>9. y.lent = lent /\ ~y.built /\ y.ring = ring /\ y.stage = x.stage
        /\ y.reserved = x.reserved /\ y.lines = x.lines
        /\ y.control = x.control /\ y.lending = x.lending /\ y.std = x.std
        /\ y.at = x.at /\ y.next = x.next
        /\ y.first = x.first /\ y.sending = x.sending /\ y.load = x.load
        /\ y.card = x.card /\ y.gone = x.gone
    BY <1>1, <1>5, ZenonT(60) DEF Sides
  <1>10. RoomInv(y)
    BY <1>2, <1>7, <1>8, <1>9
       DEF SideInv, RoomInv, PartRoom, LentRoom, Rests, Counted, Free, Unsent
  <1>11. ASSUME PlaceInv(x) PROVE PlaceInv(y)
    <2>1. x.load <= Frames - 1
      BY <1>1, RingHas, Constants DEF Free
    <2>2. \A i \in 1..y.load : WholeAt(y, i)
      BY <1>1, <1>6, <1>9, <1>11, <2>1, WholeStays DEF PlaceInv
    <2> QED BY <1>2, <1>6, <1>9, <2>2 DEF PlaceInv, PartPlace, LentPlace
  <1> QED BY <1>2, <1>9, <1>10, <1>11 DEF SideInv, SameRun

\* A lending run starts where nothing is being written.
LEMMA LendingHolds ==
  ASSUME NEW x, SideInv(x), x.control # "idle", x.stage = "search", x.lent = {},
         NEW y, y = [x EXCEPT !.lending = TRUE]
  PROVE  SideInv(y) /\ y.lending /\ y.control = x.control /\ y.stage = "search" /\ y.lent = {}
         /\ y.next = x.next /\ y.std = x.std /\ y.load = x.load
  <1>1. x \in Sides
    BY DEF SideInv, RoomInv
  <1>2. y \in Sides
    BY <1>1, Zenon DEF Sides
  <1>3. y.lending /\ y.control = x.control /\ y.stage = x.stage /\ y.reserved = x.reserved
        /\ y.lines = x.lines /\ y.at = x.at /\ y.next = x.next /\ y.ring = x.ring
        /\ y.std = x.std /\ y.lent = x.lent /\ y.built = x.built
        /\ y.first = x.first /\ y.sending = x.sending
        /\ y.load = x.load /\ y.card = x.card /\ y.gone = x.gone
    BY <1>1 DEF Sides
  <1>4. RoomInv(y)
    BY <1>2, <1>3 DEF SideInv, RoomInv, PartRoom, LentRoom, Rests, Counted, Free, Unsent
  <1>5. PlaceInv(x) => PlaceInv(y)
    BY <1>3 DEF PlaceInv, PartPlace, LentPlace, WholeAt
  <1> QED BY <1>3, <1>4, <1>5 DEF SideInv

BuiltSide(x) ==
  [x EXCEPT !.built = TRUE,
            !.ring = [s \in Slots |-> IF s \in x.lent THEN [@[s] EXCEPT !.lines = Lines]
                                      ELSE @[s]]]

LEMMA BuildHolds ==
  ASSUME NEW x, SideInv(x), x.lent # {}, NEW y, y = BuiltSide(x)
  PROVE  SideInv(y) /\ SameRun(x, y) /\ y.stage = x.stage /\ y.next = x.next
         /\ y.lent = x.lent
  <1>1. x \in Sides
    BY DEF SideInv, RoomInv
  <1>2. x.lent = {x.at} /\ ~x.reserved /\ Free(x) >= 1
    BY DEF SideInv, RoomInv, LentRoom, PartRoom
  <1> DEFINE Pictures == [id : 0..Ids - 1, lines : 0..Lines, field : 0..2]
             ring == [s \in Slots |-> IF s \in x.lent THEN [x.ring[s] EXCEPT !.lines = Lines]
                                      ELSE x.ring[s]]
  <1>3. x.ring \in [Slots -> Pictures] /\ x.at \in Slots
    BY <1>1, RingHas
  <1>4. Lines \in 0..Lines
    BY Constants
  <1>5. ASSUME NEW s \in Slots
        PROVE  /\ [x.ring[s] EXCEPT !.lines = Lines] \in Pictures
               /\ [x.ring[s] EXCEPT !.lines = Lines].lines = Lines
               /\ [x.ring[s] EXCEPT !.lines = Lines].id = x.ring[s].id
    <2>1. x.ring[s] \in Pictures
      BY <1>3
    <2> QED BY <1>4, <2>1
  <1>6. ring \in [Slots -> Pictures]
    <2> HIDE DEF Pictures
    <2> QED BY <1>3, <1>5
  <1>7. y = [x EXCEPT !.built = TRUE, !.ring = ring]
    BY DEF BuiltSide
  <1>8. ring[x.at].lines = Lines /\ ring[x.at].id = x.ring[x.at].id
        /\ \A s \in Slots \ {x.at} : ring[s] = x.ring[s]
    BY <1>2, <1>3, <1>5
  <1> HIDE DEF ring
  <1>9. y \in Sides
    BY <1>1, <1>6, <1>7, ZenonT(60) DEF Sides, Pictures
  <1>10. y.built /\ y.ring = ring /\ y.lent = x.lent /\ y.stage = x.stage
        /\ y.reserved = x.reserved /\ y.lines = x.lines
        /\ y.control = x.control /\ y.lending = x.lending /\ y.std = x.std
        /\ y.at = x.at /\ y.next = x.next
        /\ y.first = x.first /\ y.sending = x.sending /\ y.load = x.load
        /\ y.card = x.card /\ y.gone = x.gone
    BY <1>1, <1>7 DEF Sides
  <1>11. RoomInv(y)
    BY <1>9, <1>10
       DEF SideInv, RoomInv, PartRoom, LentRoom, Rests, Counted, Free, Unsent
  <1>12. ASSUME PlaceInv(x) PROVE PlaceInv(y)
    <2>1. x.load <= Frames - 1
      BY <1>1, <1>2, RingHas, Constants DEF Free
    <2>2. \A i \in 1..y.load : WholeAt(y, i)
      BY <1>1, <1>8, <1>10, <1>12, <2>1, WholeStays DEF PlaceInv
    <2>3. y.ring[y.at].id = y.next /\ y.ring[y.at].lines = Lines /\ ~y.reserved
      BY <1>2, <1>8, <1>10, <1>12 DEF PlaceInv, LentPlace
    <2> QED BY <2>2, <2>3 DEF PlaceInv, PartPlace, LentPlace
  <1> QED BY <1>10, <1>11, <1>12 DEF SideInv, SameRun

\* Different distances behind, different places.
LEMMA FurtherIsElsewhere ==
  ASSUME NEW n \in Nat \ {0}, NEW a \in 0..n - 1, NEW i \in 0..n - 1, NEW l \in 1..n, i < l,
         i > 0 \/ l < n
  PROVE  (a - i) % n # (a - l) % n
  <1> DEFINE p == (a - i) % n
             q == (a - l) % n
  <1>1. p = IF i <= a THEN a - i ELSE a - i + n
    <2>1. i \in 0..n
      OBVIOUS
    <2> QED BY <2>1, RoundBack
  <1>2. q = IF l <= a THEN a - l ELSE a - l + n
    BY RoundBack
  <1> HIDE DEF p, q
  <1>3. n \in Int /\ a \in Int /\ i \in Int /\ l \in Int /\ (i > 0 \/ l < n) /\ l <= n /\ i >= 0
    OBVIOUS
  <1>4. p # q
    BY <1>1, <1>2, <1>3
  <1> QED BY <1>4 DEF p, q

TakenSide(x) ==
  [x EXCEPT !.load = @ - 1, !.card = @ + 1, !.ring[(x.at - x.load) % Frames] = Nothing]

\* The card takes the frame furthest behind the write offset.
LEMMA TakesHolds ==
  ASSUME NEW x, SideInv(x), x.control # "idle", x.load > 0, x.card < CardFrames,
         NEW y, y = TakenSide(x)
  PROVE  SideInv(y) /\ SameRun(x, y) /\ y.stage = x.stage /\ y.next = x.next /\ y.lent = x.lent
  <1>1. x \in Sides
    BY DEF SideInv, RoomInv
  <1> DEFINE last == (x.at - x.load) % Frames
             load == x.load - 1
             card == x.card + 1
             ring == [x.ring EXCEPT ![last] = Nothing]
             Pictures == [id : 0..Ids - 1, lines : 0..Lines, field : 0..2]
  <1>2. x.ring \in [Slots -> Pictures] /\ x.at \in 0..Frames - 1 /\ x.load \in 1..Frames
        /\ x.next \in 0..Ids - 1
    BY <1>1, RingHas, Constants
  <1>3. x.at \in Int /\ (x.at - 0) % Frames = x.at /\ Frames \in Nat \ {0} /\ 0 \in 0..Frames
    <2>1. x.at \in Int /\ Frames \in Nat \ {0} /\ 0 \in 0..Frames
      BY <1>2, Constants
    <2>2. (x.at - 0) % Frames = x.at - 0
      BY <1>2, <2>1, RoundBack
    <2> QED BY <2>1, <2>2
  <1>4. x.card \in -1..CardFrames
    BY <1>1 DEF Sides
  <1>5. load \in 0..Frames /\ card \in -1..CardFrames /\ load = x.load - 1 /\ card = x.card + 1
    BY <1>2, <1>4, Constants
  <1>6. y = [x EXCEPT !.load = load, !.card = card, !.ring = ring]
    BY DEF TakenSide
  <1>7. Nothing \in Pictures
    BY Zero, Constants DEF Nothing, Picture
  <1>8. ring \in [Slots -> Pictures]
    <2> HIDE DEF Pictures, last
    <2> QED BY <1>2, <1>7
  <1>9. \A s \in Slots : s # last => ring[s] = x.ring[s]
    BY <1>2
  <1>10. x.load < Frames => last # x.at
    <2>1. 0 \in 0..Frames - 1 /\ 0 < x.load
      BY <1>2, Constants
    <2>2. x.load < Frames => (x.at - 0) % Frames # (x.at - x.load) % Frames
      BY <1>2, <1>3, <2>1, FurtherIsElsewhere
    <2> QED BY <1>3, <2>2
  <1>11. ASSUME NEW i \in 1..load PROVE (x.at - i) % Frames # last /\ (x.at - i) % Frames \in Slots
    <2>1. i \in 0..Frames - 1 /\ i < x.load /\ i > 0 /\ i \in 1..Frames - 1
      BY <1>2, Constants
    <2>2. (x.at - i) % Frames # (x.at - x.load) % Frames
      BY <1>2, <1>3, <2>1, FurtherIsElsewhere
    <2>3. (x.at - i) % Frames \in Slots
      BY <1>1, <2>1, BehindIsElsewhere
    <2> QED BY <2>2, <2>3
  <1> HIDE DEF ring, load, card, last
  <1>12. y \in Sides
    BY <1>1, <1>5, <1>6, <1>8, ZenonT(60) DEF Sides, Pictures
  <1>13. y.load = load /\ y.card = card /\ y.ring = ring /\ y.lent = x.lent /\ y.stage = x.stage
        /\ y.reserved = x.reserved /\ y.lines = x.lines
        /\ y.control = x.control /\ y.lending = x.lending /\ y.std = x.std
        /\ y.at = x.at /\ y.next = x.next /\ y.built = x.built
        /\ y.first = x.first /\ y.sending = x.sending /\ y.gone = x.gone
    BY <1>1, <1>6 DEF Sides
  <1>14. Unsent(y) = Unsent(x) /\ Unsent(x) \in Nat
    BY <1>1, <1>13, UnsentIn DEF Unsent
  <1>15. Counted(y)
    BY <1>2, <1>4, <1>5, <1>13, <1>14 DEF SideInv, RoomInv, Counted
  <1>16. PartRoom(y) /\ LentRoom(y) /\ Rests(y)
    BY <1>2, <1>5, <1>13, Constants DEF SideInv, RoomInv, PartRoom, LentRoom, Rests, Free
  <1>17. ASSUME PlaceInv(x) PROVE PlaceInv(y)
    <2>1. x.reserved \/ x.lent # {} => last # x.at
      BY <1>2, <1>10, Constants DEF SideInv, RoomInv, PartRoom, LentRoom, Free
    <2>2. x.reserved \/ x.lent # {} => y.ring[y.at] = x.ring[x.at]
      BY <1>2, <1>9, <1>13, <2>1 DEF Slots
    <2>3. x.built => x.lent # {}
      BY DEF SideInv, RoomInv, LentRoom
    <2>4. ASSUME NEW i \in 1..y.load PROVE WholeAt(y, i)
      <3>1. i \in 1..load /\ i \in 1..x.load
        BY <1>2, <1>5, <1>13
      <3>2. WholeAt(x, i) /\ y.ring[(x.at - i) % Frames] = x.ring[(x.at - i) % Frames]
        BY <1>9, <1>11, <1>13, <1>17, <3>1 DEF PlaceInv
      <3> QED BY <1>13, <3>2 DEF WholeAt
    <2> QED BY <1>13, <1>17, <2>2, <2>3, <2>4 DEF PlaceInv, PartPlace, LentPlace
  <1> QED BY <1>12, <1>13, <1>15, <1>16, <1>17 DEF SideInv, RoomInv, SameRun

\* A frame starts going out: at most one has done so that no event told of.
LEMMA SendsHolds ==
  ASSUME NEW x, SideInv(x), x.card >= 0, x.load + x.card > 0, x.control = "send",
         (Unsent(x) - x.load - x.card) % Ids <= (IF x.first THEN 1 ELSE 0),
         NEW y, y = [x EXCEPT !.card = @ - 1, !.gone = TRUE]
  PROVE  SideInv(y) /\ SameRun(x, y) /\ y.stage = x.stage /\ y.next = x.next /\ y.lent = x.lent
  <1>1. x \in Sides
    BY DEF SideInv, RoomInv
  <1> DEFINE card == x.card - 1
  <1>2. x.card \in -1..CardFrames /\ x.load \in Nat
    BY <1>1, RingHas DEF Sides
  <1>3. card \in -1..CardFrames /\ card = x.card - 1
    BY <1>2, Constants
  <1>4. y = [x EXCEPT !.card = card, !.gone = TRUE]
    OBVIOUS
  <1> HIDE DEF card
  <1>5. y \in Sides
    BY <1>1, <1>3, <1>4, ZenonT(60) DEF Sides
  <1>6. y.load = x.load /\ y.card = card /\ y.ring = x.ring /\ y.lent = x.lent
        /\ y.stage = x.stage /\ y.reserved = x.reserved /\ y.lines = x.lines
        /\ y.control = x.control /\ y.lending = x.lending /\ y.std = x.std
        /\ y.at = x.at /\ y.next = x.next /\ y.built = x.built
        /\ y.first = x.first /\ y.sending = x.sending /\ y.gone
    BY <1>1, <1>4 DEF Sides
  <1> DEFINE out == Unsent(x) - x.load - x.card
  <1>7. Unsent(y) = Unsent(x) /\ Unsent(x) \in Nat
    BY <1>1, <1>6, UnsentIn DEF Unsent
  <1>8. out \in 0..2 /\ (~x.first => out \in 0..1)
    BY <1>2, <1>7 DEF SideInv, RoomInv, Counted
  <1>9. out % Ids = out
    <2> HIDE DEF out
    <2>1. Ids > 2 /\ Ids \in Nat \ {0} /\ 0 \in 0..Ids
      BY Constants
    <2>2. out \in 0..Ids - 1
      BY <1>8, <2>1
    <2>3. (out - 0) % Ids = out - 0
      BY <2>1, <2>2, RoundBack
    <2> QED BY <2>2, <2>3
  <1>10. out <= IF x.first THEN 1 ELSE 0
    BY <1>9
  <1>11. Counted(y)
    BY <1>2, <1>3, <1>6, <1>7, <1>8, <1>10 DEF SideInv, RoomInv, Counted
  <1>12. PartRoom(y) /\ LentRoom(y) /\ Rests(y)
    BY <1>6 DEF SideInv, RoomInv, PartRoom, LentRoom, Rests, Free
  <1>13. PlaceInv(x) => PlaceInv(y)
    BY <1>6 DEF PlaceInv, PartPlace, LentPlace, WholeAt
  <1> QED BY <1>5, <1>6, <1>11, <1>12, <1>13 DEF SideInv, RoomInv, SameRun
--------------------------------------------------------------------------------
(* The calls.                                                              *)

Pictures == {"only", "fill1", "first", "fill2", "second"}
Writers == [kind : {"bytes", "frame"}, picture : Pictures]

\* Where a thread is, by its place p.
Controls(p) == p.at \in {"pause", "join", "drain"}
Detaches(p) == p.at \in {"pause", "drain"} \/ (p.at = "join" /\ p.goal \in {"drain", "release"})
Waits(p) == p.at \in Writes \cup {"skip"}

\* What a write is about to work on.
WriterFor(p, x) ==
  /\ p.at = "skip" => x.stage = "padding"
  /\ p.at \in Writes => IF p.kind = "lend"
                        THEN /\ p.at = "room" /\ x.stage = "search"
                             /\ x.lending \/ x.control = "idle"
                        ELSE ~x.lending

\* What a step of the write of thread t leaves, in a run that lends or does not.
Leaves(t, lending) ==
  /\ UNCHANGED <<attached, waitingDetaches, thread>>
  /\ SideInv(tx') /\ tx'.control = tx.control /\ tx'.lending = lending
  /\ lending => tx'.next = tx.next
  /\ \/ writing' = FALSE /\ pc' = [pc EXCEPT ![t] = Idle]
     \/ /\ writing' = TRUE /\ tx'.lent = {}
        /\ \E p \in Places : pc' = [pc EXCEPT ![t] = p] /\ Waits(p) /\ WriterFor(p, tx')

LEMMA FinishLeaves ==
  ASSUME NEW t \in Threads, NEW STATE x, SideInv(x), x.control = tx.control,
         x.lending => x.next = tx.next, Finish(t, x)
  PROVE  Leaves(t, x.lending)
  BY DEF Finish, Leaves

LEMMA PassLeaves ==
  ASSUME NEW t \in Threads, NEW STATE x, SideInv(x), x.control = tx.control, ~x.lending,
         NEW w \in Writers, NEW place \in Writes, Pass(t, x, place, w)
  PROVE  Leaves(t, FALSE)
  <1>1. x.lent = {} /\ x \in Sides
    BY DEF SideInv, RoomInv, LentRoom
  <1> DEFINE p == At(place, w)
  <1>2. p \in Places /\ p.at = place /\ p.kind # "lend"
    BY DEF At, Places, Writers, Pictures
  <1>3. Waits(p) /\ WriterFor(p, x)
    BY <1>2 DEF Waits, WriterFor, Writes
  <1>4. x.lending = FALSE
    BY <1>1 DEF Sides
  <1> QED BY <1>1, <1>2, <1>3, <1>4 DEF Pass, Leaves

LEMMA GiveUpLeaves ==
  ASSUME NEW t \in Threads, NEW STATE x, SideInv(x), x.control = tx.control, x.lent = {},
         x.lending => x.next = tx.next, NEW w, GiveUp(t, w, x)
  PROVE  Leaves(t, x.lending)
  <1> DEFINE y == ForgetPartialFrame(x)
  <1>1. SideInv(y) /\ y.control = x.control /\ y.lending = x.lending /\ y.next = x.next
    BY ForgetHolds DEF SameRun
  <1>2. CASE Finish(t, y)
    <2> HIDE DEF y
    <2> QED BY <1>1, <1>2, FinishLeaves
  <1>3. CASE Finish(t, x)
    BY <1>3, FinishLeaves
  <1> QED BY <1>2, <1>3 DEF GiveUp

LEMMA EncodeLeaves ==
  ASSUME NEW t \in Threads, NEW STATE x, SideInv(x), x.control = tx.control, ~x.lending,
         x.stage = "lines", NEW w \in Writers, Encode(t, w, x)
  PROVE  Leaves(t, FALSE)
  <1>1. x \in Sides /\ x.lent = {} /\ x.control # "idle" /\ x.lines < Lines
        /\ (~x.reserved => x.lines = 0)
    BY DEF SideInv, RoomInv, LentRoom, PartRoom, Rests
  <1>2. x.lending = FALSE /\ x.lines \in Nat /\ Lines \in Nat
    BY <1>1, Constants, RingHas DEF Sides
  <1>3. CASE x.reserved
    <2>1. PICK n \in 1..Lines - x.lines : Pass(t, EncodeLines(x, n), "gap", w)
      BY <1>3 DEF Encode
    <2> DEFINE y == EncodeLines(x, n)
    <2>2. n \in Nat /\ x.lines + n <= Lines
      BY <1>2, <2>1
    <2>3. SideInv(y) /\ SameRun(x, y)
      BY <1>3, <2>2, EncodeHolds
    <2> HIDE DEF y
    <2>4. Pass(t, y, "gap", w)
      BY <2>1 DEF y
    <2> QED BY <2>3, <2>4, PassLeaves DEF SameRun, Writes
  <1>4. CASE ~x.reserved /\ GiveUp(t, w, x)
    BY <1>1, <1>2, <1>4, GiveUpLeaves
  <1>5. CASE ~x.reserved /\ Pass(t, x, "room", w)
    BY <1>5, PassLeaves DEF Writes
  <1>6. ASSUME ~x.reserved, Free(x) >= 1, NEW n \in 0..1,
               Pass(t, EncodeLines(ReserveRoom(x, FieldOf(w.picture)), n), "gap", w)
        PROVE  Leaves(t, FALSE)
    <2> DEFINE z == ReserveRoom(x, FieldOf(w.picture))
               y == EncodeLines(z, n)
    <2>1. FieldOf(w.picture) \in 0..2
      BY DEF FieldOf
    <2>2. SideInv(z) /\ SameRun(x, z) /\ z.stage = "lines" /\ z.reserved /\ z.lines = 0
      BY <1>1, <1>6, <2>1, ReserveHolds
    <2> HIDE DEF z
    <2>3. n \in Nat /\ z.lines + n <= Lines
      BY <2>2, Constants
    <2>4. SideInv(y) /\ SameRun(z, y)
      BY <2>2, <2>3, EncodeHolds
    <2> HIDE DEF y
    <2>5. Pass(t, y, "gap", w)
      BY <1>6 DEF y, z
    <2> QED BY <2>2, <2>4, <2>5, PassLeaves DEF SameRun, Writes
  <1>7. CASE ~x.reserved
    <2>1. \/ GiveUp(t, w, x)
          \/ Pass(t, x, "room", w)
          \/ /\ Free(x) >= 1
             /\ \E n \in IF w.kind = "bytes" THEN 0..1 ELSE {1} :
                  Pass(t, EncodeLines(ReserveRoom(x, FieldOf(w.picture)), n), "gap", w)
      BY <1>7 DEF Encode
    <2>2. ASSUME Free(x) >= 1,
                 NEW n \in IF w.kind = "bytes" THEN 0..1 ELSE {1},
                 Pass(t, EncodeLines(ReserveRoom(x, FieldOf(w.picture)), n), "gap", w)
          PROVE  Leaves(t, FALSE)
      <3>1. n \in 0..1
        OBVIOUS
      <3> QED BY <1>6, <1>7, <2>2, <3>1
    <2> QED BY <1>4, <1>5, <1>7, <2>1, <2>2
  <1> QED BY <1>3, <1>7

LEMMA PictureLeaves ==
  ASSUME NEW t \in Threads, NEW STATE x, SideInv(x), x.control = tx.control, ~x.lending,
         NEW w \in Writers, WritePicture(t, w, x)
  PROVE  Leaves(t, FALSE)
  <1>1. x \in Sides /\ x.lent = {} /\ x.lending = FALSE
    BY DEF SideInv, RoomInv, LentRoom, Sides
  <1> DEFINE y == ForgetPartialFrame(x)
             z == StartFrame(x)
  <1>2. CASE Finish(t, y)
    <2>1. SideInv(y) /\ SameRun(x, y) /\ y.lent = x.lent
      BY ForgetHolds
    <2> HIDE DEF y
    <2> QED BY <1>1, <1>2, <2>1, FinishLeaves DEF SameRun
  <1>3. CASE x.stage = "lines" /\ Encode(t, w, x)
    BY <1>3, EncodeLeaves
  <1>4. CASE tx.control # "idle" /\ Encode(t, w, z)
    <2>1. SideInv(z) /\ SameRun(x, z) /\ z.stage = "lines"
      BY <1>4, StartHolds
    <2> HIDE DEF z
    <2> QED BY <1>1, <1>4, <2>1, EncodeLeaves DEF SameRun
  <1> QED BY <1>2, <1>3, <1>4 DEF WritePicture, Cancelled

LEMMA BytesLeave ==
  ASSUME NEW t \in Threads, NEW STATE x, SideInv(x), x.control = tx.control, ~x.lending,
         x.control # "idle", NEW w \in Writers, WriteBytes(t, w, x)
  PROVE  Leaves(t, FALSE)
  <1>1. x \in Sides /\ x.lent = {} /\ x.lending = FALSE
    BY DEF SideInv, RoomInv, LentRoom, Sides
  <1> DEFINE z == StartFrame(x)
  <1>2. SideInv(z) /\ SameRun(x, z) /\ z.stage = "lines" /\ z.lent = {}
    BY <1>1, StartHolds
  <1>3. CASE Finish(t, x)
    BY <1>1, <1>3, FinishLeaves
  <1>4. CASE x.stage = "lines" /\ Encode(t, w, x)
    BY <1>4, EncodeLeaves
  <1> HIDE DEF z
  <1>5. CASE Finish(t, z)
    BY <1>1, <1>2, <1>5, FinishLeaves DEF SameRun
  <1>6. CASE Encode(t, w, z)
    BY <1>1, <1>2, <1>6, EncodeLeaves DEF SameRun
  <1> QED BY <1>3, <1>4, <1>5, <1>6 DEF WriteBytes, z

\* The place at the write offset is committed when the frame there is complete.
LEMMA Completed ==
  ASSUME SideInv(tx), tx.stage = "padding",
         NEW STATE x, x = ForgetPartialFrame(CommitFrame(tx))
  PROVE  SideInv(x) /\ SameRun(tx, x) /\ x.lent = {} /\ ~x.lending /\ x.control # "idle"
         /\ x.stage = "search"
  <1>1. tx.control # "idle"
    BY DEF SideInv, RoomInv, Rests
  <1> QED BY <1>1, PartCommitted DEF SameRun

LEMMA RefusedLeaves ==
  ASSUME NEW t \in Threads, SideInv(tx), tx.lent = {}, ~tx.lending,
         Finish(t, ForgetPartialFrame(tx))
  PROVE  Leaves(t, FALSE)
  <1> DEFINE y == ForgetPartialFrame(tx)
  <1>1. SideInv(y) /\ SameRun(tx, y) /\ y.lent = tx.lent
    BY ForgetHolds
  <1>2. tx.lending = FALSE
    BY DEF SideInv, RoomInv, Sides
  <1>3. Finish(t, y)
    OBVIOUS
  <1> HIDE DEF y
  <1> QED BY <1>1, <1>2, <1>3, FinishLeaves DEF SameRun

LEMMA CommitLeaves ==
  ASSUME NEW t \in Threads, SideInv(tx), tx.stage = "padding", NEW w \in Writers,
         CommitPicture(t, w)
  PROVE  Leaves(t, FALSE)
  <1> DEFINE x == ForgetPartialFrame(CommitFrame(tx))
             next == NextPicture(w.picture, x.next % 2 = 1)
             v == [w EXCEPT !.picture = next]
  <1>1. SideInv(x) /\ SameRun(tx, x) /\ x.lent = {} /\ ~x.lending
    BY Completed
  <1>2. tx.lent = {} /\ ~tx.lending /\ x.lending = FALSE
    BY <1>1 DEF SideInv, RoomInv, LentRoom, SameRun, Sides
  <1>3. next \in Pictures \cup {"none"}
    BY DEF NextPicture, Pictures
  <1> HIDE DEF next
  <1>4. next # "none" => v \in Writers
    BY <1>3 DEF Writers
  <1>5. \/ Finish(t, ForgetPartialFrame(tx))
        \/ IF next = "none" THEN Finish(t, x) ELSE WritePicture(t, v, x)
    BY DEF CommitPicture, next
  <1> HIDE DEF x, v
  <1>6. CASE Finish(t, ForgetPartialFrame(tx))
    BY <1>2, <1>6, RefusedLeaves
  <1>7. CASE Finish(t, x)
    BY <1>1, <1>2, <1>7, FinishLeaves DEF SameRun
  <1>8. CASE next # "none" /\ WritePicture(t, v, x)
    BY <1>1, <1>4, <1>8, PictureLeaves DEF SameRun
  <1> QED BY <1>5, <1>6, <1>7, <1>8

LEMMA PaddingLeaves ==
  ASSUME NEW t \in Threads, SideInv(tx), tx.stage = "padding", NEW w \in Writers,
         TakePadding(t, w)
  PROVE  Leaves(t, FALSE)
  <1> DEFINE x == ForgetPartialFrame(CommitFrame(tx))
  <1>1. SideInv(x) /\ SameRun(tx, x) /\ x.lent = {} /\ ~x.lending /\ x.control # "idle"
    BY Completed
  <1>2. tx.lent = {} /\ ~tx.lending /\ tx.lending = FALSE
    BY <1>1 DEF SideInv, RoomInv, LentRoom, SameRun, Sides
  <1>3. \/ Finish(t, ForgetPartialFrame(tx))
        \/ WriteBytes(t, w, x)
        \/ /\ pc' = [pc EXCEPT ![t] = Skipping] /\ writing' = TRUE
           /\ UNCHANGED <<attached, waitingDetaches, tx, thread>>
    BY DEF TakePadding
  <1> HIDE DEF x
  <1>4. CASE Finish(t, ForgetPartialFrame(tx))
    BY <1>2, <1>4, RefusedLeaves
  <1>5. CASE WriteBytes(t, w, x)
    BY <1>1, <1>5, BytesLeave DEF SameRun
  <1>6. CASE /\ pc' = [pc EXCEPT ![t] = Skipping] /\ writing' = TRUE
             /\ UNCHANGED <<attached, waitingDetaches, tx, thread>>
    <2>1. Skipping \in Places /\ Waits(Skipping) /\ WriterFor(Skipping, tx')
      BY <1>6 DEF Places, Skipping, Waits, WriterFor, Writes
    <2> QED BY <1>2, <1>6, <2>1 DEF Leaves
  <1> QED BY <1>3, <1>4, <1>5, <1>6
--------------------------------------------------------------------------------
(* The invariant.                                                          *)

TypeInv ==
  /\ attached \in BOOLEAN /\ writing \in BOOLEAN /\ stopRequested \in BOOLEAN
  /\ keeper \subseteq Keepers /\ running \subseteq Keepers
  /\ pc \in [Threads -> Places]

\* One call changes the control state or detaches at a time, and finds its side.
TurnInv ==
  /\ \A t, u \in Threads : Controls(pc[t]) /\ Controls(pc[u]) => t = u
  /\ \A t \in Threads : Controls(pc[t]) => attached
  /\ waitingDetaches = IF \E t \in Threads : Detaches(pc[t]) THEN 1 ELSE 0

\* The thread that keeps the signal, when the call that may stop it is at p.
KeeperFor(p, control) ==
  /\ \A k, l \in running \cup keeper : k = l
  /\ p.at = "join" =>
       keeper = {} /\ stopRequested /\ running \subseteq {p.keeper} /\ control = "send"
  /\ p.at = "drain" => running = {} /\ keeper = {} /\ ~stopRequested /\ control = "send"
  /\ p.at \notin {"join", "drain"} =>
       running = keeper /\ ~stopRequested /\ (control = "send" <=> keeper # {})

KeeperInv ==
  /\ \A t \in Threads : Controls(pc[t]) => KeeperFor(pc[t], tx.control)
  /\ (\A t \in Threads : ~Controls(pc[t])) => KeeperFor(Idle, tx.control)
  /\ ~attached => tx.control = "idle"

\* One write is in progress, over a side that is there and lends nothing.
WriteInv ==
  /\ writing <=> \E t \in Threads : Waits(pc[t])
  /\ \A t, u \in Threads : Waits(pc[t]) /\ Waits(pc[u]) => t = u
  /\ writing => attached /\ tx.lent = {}
  /\ \A t \in Threads : WriterFor(pc[t], tx)
  /\ \A t \in Threads : pc[t].at # "pause" /\ Detaches(pc[t]) => ~writing
  /\ \A t \in Threads : pc[t].at = "drain" => ~tx.lending

Inv == TypeInv /\ SideInv(tx) /\ TurnInv /\ KeeperInv /\ WriteInv

LEMMA PlacesAt ==
  ASSUME NEW p \in Places
  PROVE  /\ p.at \in {"idle", "skip", "pause", "join", "drain", "room", "gap"}
         /\ p.at = "pause" => p.mode \in Modes
         /\ p.at = "join" => p.keeper \in Keepers /\ p.goal \in {"hold", "idle", "drain", "release"}
         /\ p.at = "drain" => p.black \in BOOLEAN
         /\ p.at \in Writes => p.kind \in {"bytes", "frame", "lend"} /\ p.picture \in Pictures
         /\ p.at = "idle" => p = Idle
  BY DEF Places, Idle, Skipping, Writes, Pictures

LEMMA IdlePlace == Idle \in Places /\ ~Controls(Idle) /\ ~Detaches(Idle) /\ ~Waits(Idle)
                   /\ Idle.at = "idle"
  BY DEF Places, Idle, Controls, Detaches, Waits, Writes

\* What thread t does when it writes leaves the invariant.
LEMMA LeavesInv ==
  ASSUME Inv, NEW t \in Threads, NEW lending, Leaves(t, lending),
         Waits(pc[t]) \/ (pc[t] = Idle /\ ~writing),
         pc[t] = Idle => waitingDetaches = 0 /\ attached
  PROVE  Inv'
  <1>1. PICK p \in Places : /\ pc' = [pc EXCEPT ![t] = p]
                            /\ p = Idle \/ Waits(p)
                            /\ Waits(p) => writing' = TRUE /\ tx'.lent = {} /\ WriterFor(p, tx')
                            /\ p = Idle => writing' = FALSE
    <2>1. CASE writing' = FALSE /\ pc' = [pc EXCEPT ![t] = Idle]
      BY <2>1, IdlePlace
    <2>2. CASE /\ writing' = TRUE /\ tx'.lent = {}
               /\ \E p \in Places : pc' = [pc EXCEPT ![t] = p] /\ Waits(p) /\ WriterFor(p, tx')
      <3>1. PICK p \in Places : pc' = [pc EXCEPT ![t] = p] /\ Waits(p) /\ WriterFor(p, tx')
        BY <2>2
      <3>2. p # Idle
        BY <3>1, IdlePlace
      <3> QED BY <2>2, <3>1, <3>2
    <2> QED BY <2>1, <2>2 DEF Leaves
  <1>2. pc' \in [Threads -> Places] /\ pc'[t] = p /\ \A u \in Threads \ {t} : pc'[u] = pc[u]
    BY <1>1 DEF Inv, TypeInv
  <1>3. TypeInv'
    BY <1>1, <1>2 DEF Inv, TypeInv, Leaves, thread
  <1>4. ~Controls(pc[t]) /\ ~Controls(p) /\ ~Detaches(pc[t]) /\ ~Detaches(p)
    BY <1>1, IdlePlace DEF Waits, Controls, Detaches, Writes
  <1>5. \A u \in Threads : /\ Controls(pc'[u]) <=> Controls(pc[u])
                           /\ Detaches(pc'[u]) <=> Detaches(pc[u])
                           /\ Controls(pc[u]) => pc'[u] = pc[u]
                           /\ Detaches(pc[u]) => pc'[u] = pc[u]
    BY <1>2, <1>4
  <1>6. UNCHANGED <<attached, waitingDetaches, thread>> /\ tx'.control = tx.control
    BY DEF Leaves
  <1>7. TurnInv'
    BY <1>5, <1>6 DEF Inv, TurnInv
  <1>8. KeeperInv'
    BY <1>5, <1>6 DEF Inv, KeeperInv, KeeperFor, thread
  <1>9. \A u \in Threads \ {t} : ~Waits(pc[u])
    BY DEF Inv, WriteInv
  <1>10. writing' <=> \E u \in Threads : Waits(pc'[u])
    BY <1>1, <1>2, <1>9, IdlePlace
  <1>11. \A u, v \in Threads : Waits(pc'[u]) /\ Waits(pc'[v]) => u = v
    BY <1>2, <1>9
  <1>12. writing' => attached' /\ tx'.lent = {}
    BY <1>1, <1>6, IdlePlace DEF Inv, WriteInv
  <1>13. ASSUME NEW u \in Threads PROVE WriterFor(pc'[u], tx')
    <2>1. CASE u = t
      BY <1>1, <1>2, <2>1, IdlePlace DEF WriterFor, Writes
    <2>2. CASE u # t
      BY <1>2, <1>9, <2>2 DEF WriterFor, Waits
    <2> QED BY <2>1, <2>2
  <1>14. ASSUME NEW u \in Threads, pc'[u].at # "pause", Detaches(pc'[u]) PROVE FALSE
    <2>1. Detaches(pc[u]) /\ pc[u].at # "pause"
      BY <1>5, <1>14
    <2>2. ~writing
      BY <2>1 DEF Inv, WriteInv
    <2>3. waitingDetaches # 0
      BY <2>1 DEF Inv, TurnInv
    <2>4. pc[t] = Idle
      BY <2>2 DEF Inv, WriteInv
    <2> QED BY <2>3, <2>4
  <1>15. \A u \in Threads : pc'[u].at # "drain"
    BY <1>14 DEF Detaches
  <1>16. WriteInv'
    BY <1>10, <1>11, <1>12, <1>13, <1>14, <1>15 DEF WriteInv
  <1> QED BY <1>3, <1>7, <1>8, <1>16 DEF Inv, Leaves

\* In a lending run only the frame lent goes, see OnlyTheLentFrameGoes.
LentGoes == tx.lending /\ tx'.lending /\ tx'.next # tx.next => tx.lent # {} /\ tx.built

LEMMA LeavesGoes ==
  ASSUME NEW t, NEW lending, Leaves(t, lending)
  PROVE  LentGoes
  BY DEF Leaves, LentGoes

\* A write that starts.
LEMMA StartOfWrite ==
  ASSUME Inv, NEW t \in Threads, MayCall(t), ~writing, ~Cancelled, ~tx.lending, Leaves(t, FALSE)
  PROVE  Inv' /\ LentGoes
  <1>1. pc[t] = Idle /\ attached /\ waitingDetaches = 0
    BY DEF MayCall, Cancelled, Inv, TurnInv
  <1> QED BY <1>1, LeavesInv, LeavesGoes

LEMMA WriteHolds ==
  ASSUME Inv, NEW t \in Threads, Write(t)
  PROVE  Inv' /\ LentGoes
  <1> DEFINE w == Writer("bytes", "only")
  <1>1. w \in Writers
    BY DEF Writer, Writers, Pictures
  <1>2. tx.control # "idle" /\ ~tx.lending /\ SideInv(tx) /\ MayCall(t) /\ ~writing /\ ~Cancelled
    BY DEF Write, Cancelled, Inv
  <1>3. IF tx.stage = "padding" THEN TakePadding(t, w) ELSE WriteBytes(t, w, tx)
    BY DEF Write
  <1> HIDE DEF w
  <1>4. Leaves(t, FALSE)
    BY <1>1, <1>2, <1>3, PaddingLeaves, BytesLeave
  <1> QED BY <1>2, <1>4, StartOfWrite

LEMMA WriteFrameHolds ==
  ASSUME Inv, NEW t \in Threads, WriteFrame(t)
  PROVE  Inv' /\ LentGoes
  <1> DEFINE w == Writer("frame", FirstPicture(tx))
  <1>1. w \in Writers
    BY DEF Writer, Writers, Pictures, FirstPicture
  <1>2. ~tx.lending /\ SideInv(tx) /\ MayCall(t) /\ ~writing /\ ~Cancelled
    BY DEF WriteFrame, Inv
  <1>3. WritePicture(t, w, tx)
    BY DEF WriteFrame
  <1> HIDE DEF w
  <1>4. Leaves(t, FALSE)
    BY <1>1, <1>2, <1>3, PictureLeaves
  <1> QED BY <1>2, <1>4, StartOfWrite

\* Of a write in progress.
LEMMA WriteInProgress ==
  ASSUME Inv, NEW t \in Threads, pc[t].at \in Writes
  PROVE  /\ Waits(pc[t]) /\ pc[t] # Idle /\ writing /\ attached /\ tx.lent = {}
         /\ IF pc[t].kind = "lend"
            THEN pc[t].at = "room" /\ tx.stage = "search" /\ (tx.lending \/ tx.control = "idle")
            ELSE Writer(pc[t].kind, pc[t].picture) \in Writers /\ ~tx.lending
  <1>1. Waits(pc[t]) /\ pc[t] # Idle
    BY IdlePlace DEF Waits, Writes
  <1>2. pc[t] \in Places
    BY DEF Inv, TypeInv
  <1>3. WriterFor(pc[t], tx)
    BY DEF Inv, WriteInv
  <1>4. pc[t].kind # "lend" => Writer(pc[t].kind, pc[t].picture) \in Writers
    BY <1>2, PlacesAt DEF Writer, Writers
  <1> QED BY <1>1, <1>3, <1>4 DEF Inv, WriteInv, WriterFor

LEMMA NextLineHolds ==
  ASSUME Inv, NEW t \in Threads, NextLine(t)
  PROVE  Inv' /\ LentGoes
  <1> DEFINE w == Writer(pc[t].kind, pc[t].picture)
  <1>1. pc[t].at = "gap" /\ pc[t].at \in Writes
    BY DEF NextLine, Writes
  <1>2. w \in Writers /\ ~tx.lending /\ Waits(pc[t]) /\ pc[t] # Idle /\ tx.lent = {}
    BY <1>1, WriteInProgress
  <1>3. SideInv(tx) /\ tx.lending = FALSE
    BY <1>2 DEF Inv, SideInv, RoomInv, Sides
  <1>4. IF w.kind = "frame"
        THEN IF tx.stage = "padding" THEN CommitPicture(t, w) ELSE WritePicture(t, w, tx)
        ELSE IF Cancelled THEN Finish(t, tx)
        ELSE IF tx.stage = "padding" THEN TakePadding(t, w) ELSE WriteBytes(t, w, tx)
    BY DEF NextLine
  <1> HIDE DEF w
  <1>5. CASE CommitPicture(t, w) /\ tx.stage = "padding"
    BY <1>2, <1>3, <1>5, CommitLeaves, LeavesInv, LeavesGoes
  <1>6. CASE WritePicture(t, w, tx)
    BY <1>2, <1>3, <1>6, PictureLeaves, LeavesInv, LeavesGoes
  <1>7. CASE Finish(t, tx)
    <2>1. Leaves(t, tx.lending)
      BY <1>3, <1>7, FinishLeaves
    <2> QED BY <1>2, <2>1, LeavesInv, LeavesGoes
  <1>8. CASE TakePadding(t, w) /\ tx.stage = "padding"
    BY <1>2, <1>3, <1>8, PaddingLeaves, LeavesInv, LeavesGoes
  <1>9. CASE ~Cancelled /\ WriteBytes(t, w, tx)
    BY <1>2, <1>3, <1>9, BytesLeave, LeavesInv, LeavesGoes DEF Cancelled
  <1> QED BY <1>4, <1>5, <1>6, <1>7, <1>8, <1>9

LEMMA WaitFailsHolds ==
  ASSUME Inv, NEW t \in Threads, pc[t].at \in Writes, NEW w, GiveUp(t, w, tx)
  PROVE  Inv' /\ LentGoes
  <1>1. Waits(pc[t]) /\ pc[t] # Idle /\ tx.lent = {} /\ SideInv(tx)
    BY WriteInProgress DEF Inv
  <1>2. Leaves(t, tx.lending)
    BY <1>1, GiveUpLeaves
  <1> QED BY <1>1, <1>2, LeavesInv, LeavesGoes

LEMMA FindRoomHolds ==
  ASSUME Inv, NEW t \in Threads, FindRoom(t)
  PROVE  Inv' /\ LentGoes
  <1> DEFINE w == Writer(pc[t].kind, pc[t].picture)
  <1>1. pc[t].at = "room" /\ pc[t].at \in Writes /\ w.kind = pc[t].kind
    BY DEF FindRoom, Writes, Writer
  <1>2. Waits(pc[t]) /\ pc[t] # Idle /\ tx.lent = {} /\ SideInv(tx)
    BY <1>1, WriteInProgress DEF Inv
  <1>3. IF w.kind = "lend" THEN tx.lending \/ tx.control = "idle"
                           ELSE w \in Writers /\ ~tx.lending
    BY <1>1, WriteInProgress
  <1>4. \/ Cancelled /\ GiveUp(t, w, tx)
        \/ /\ ~Cancelled /\ Free(tx) >= 1
           /\ IF w.kind = "lend" THEN Finish(t, Lend(tx))
              ELSE IF tx.stage = "lines" /\ ~tx.reserved THEN Encode(t, w, tx)
              ELSE Pass(t, tx, "gap", w)
    BY DEF FindRoom
  <1> HIDE DEF w
  <1>5. CASE GiveUp(t, w, tx)
    BY <1>1, <1>5, WaitFailsHolds
  <1>6. CASE ~Cancelled /\ Free(tx) >= 1 /\ w.kind = "lend" /\ Finish(t, Lend(tx))
    <2> DEFINE y == Lend(tx)
    <2>1. SideInv(y) /\ SameRun(tx, y) /\ y.next = tx.next
      BY <1>2, <1>3, <1>6, LendHolds DEF Cancelled
    <2>2. Finish(t, y)
      BY <1>6
    <2> HIDE DEF y
    <2>3. Leaves(t, y.lending)
      BY <2>1, <2>2, FinishLeaves DEF SameRun
    <2> QED BY <1>2, <2>3, LeavesInv, LeavesGoes
  <1>7. CASE w.kind # "lend" /\ tx.stage = "lines" /\ Encode(t, w, tx)
    BY <1>2, <1>3, <1>7, EncodeLeaves, LeavesInv, LeavesGoes
  <1>8. CASE w.kind # "lend" /\ Pass(t, tx, "gap", w)
    BY <1>2, <1>3, <1>8, PassLeaves, LeavesInv, LeavesGoes DEF Writes
  <1> QED BY <1>4, <1>5, <1>6, <1>7, <1>8

LEMMA AcquireFrameHolds ==
  ASSUME Inv, NEW t \in Threads, AcquireFrame(t)
  PROVE  Inv' /\ LentGoes
  <1> DEFINE x == [tx EXCEPT !.lending = TRUE]
  <1>1. MayCall(t) /\ ~writing /\ ~Cancelled /\ tx.lent = {} /\ tx.stage = "search"
        /\ tx.control # "idle" /\ SideInv(tx) /\ waitingDetaches = 0 /\ attached /\ pc[t] = Idle
    BY DEF AcquireFrame, Cancelled, MayCall, Inv, TurnInv
  <1>2. SideInv(x) /\ x.lending /\ x.control = tx.control /\ x.stage = "search" /\ x.lent = {}
        /\ x.next = tx.next /\ x.std = tx.std
    BY <1>1, LendingHolds
  <1>3. x.lending = TRUE
    BY <1>2 DEF SideInv, RoomInv, Sides
  <1>4. \/ Finish(t, x)
        \/ Free(x) >= 1 /\ Finish(t, Lend(x))
        \/ Pass(t, x, "room", Writer("lend", "only"))
    BY DEF AcquireFrame
  <1> HIDE DEF x
  <1>5. CASE Finish(t, x)
    BY <1>1, <1>2, <1>5, FinishLeaves, LeavesInv, LeavesGoes
  <1>6. CASE Free(x) >= 1 /\ Finish(t, Lend(x))
    <2> DEFINE y == Lend(x)
    <2>1. SideInv(y) /\ SameRun(x, y) /\ y.next = x.next
      BY <1>2, <1>6, LendHolds
    <2>2. Finish(t, y)
      BY <1>6
    <2> HIDE DEF y
    <2>3. Leaves(t, y.lending)
      BY <1>2, <2>1, <2>2, FinishLeaves DEF SameRun
    <2> QED BY <1>1, <2>3, LeavesInv, LeavesGoes
  <1>7. CASE Pass(t, x, "room", Writer("lend", "only"))
    <2> DEFINE p == At("room", Writer("lend", "only"))
    <2>1. p \in Places /\ p.at = "room" /\ p.kind = "lend"
      BY DEF At, Writer, Places, Writes, Pictures
    <2>2. Waits(p) /\ WriterFor(p, x)
      BY <1>2, <2>1 DEF Waits, WriterFor, Writes
    <2>3. Leaves(t, TRUE)
      BY <1>2, <1>3, <1>7, <2>1, <2>2 DEF Pass, Leaves
    <2> QED BY <1>1, <2>3, LeavesInv, LeavesGoes
  <1> QED BY <1>4, <1>5, <1>6, <1>7

LEMMA WriterStays ==
  ASSUME NEW p, NEW x, NEW y, WriterFor(p, x), y.control = x.control, y.lending = x.lending,
         y.stage = x.stage \/ (y.stage = "search" /\ p.at # "skip")
  PROVE  WriterFor(p, y)
  BY DEF WriterFor, Writes

\* A step of the one call that changes the control state or detaches, or of none.
LEMMA ControlStep ==
  ASSUME Inv, NEW t \in Threads, \A u \in Threads \ {t} : ~Controls(pc[u]), ~Waits(pc[t]),
         NEW p \in Places, ~Waits(p), pc' = [pc EXCEPT ![t] = p],
         attached' \in BOOLEAN, writing' = writing, stopRequested' \in BOOLEAN,
         keeper' \subseteq Keepers, running' \subseteq Keepers,
         SideInv(tx'), Controls(p) => attached',
         waitingDetaches' = (IF Detaches(p) THEN 1 ELSE 0),
         KeeperFor(p, tx.control)', attached' \/ tx'.control = "idle",
         \A u \in Threads \ {t} : WriterFor(pc[u], tx'),
         writing => attached' /\ tx'.lent = {},
         p.at # "pause" /\ Detaches(p) => ~writing,
         p.at = "drain" => ~tx'.lending
  PROVE  Inv'
  <1>1. pc' \in [Threads -> Places] /\ pc'[t] = p /\ \A u \in Threads \ {t} : pc'[u] = pc[u]
    BY DEF Inv, TypeInv
  <1>2. TypeInv'
    BY <1>1 DEF Inv, TypeInv
  <1>3. \A u \in Threads : Detaches(pc[u]) => Controls(pc[u])
    BY DEF Detaches, Controls
  <1>4. \A u \in Threads \ {t} : ~Controls(pc'[u]) /\ ~Detaches(pc'[u])
    BY <1>1, <1>3
  <1>5. TurnInv'
    BY <1>1, <1>4 DEF TurnInv
  <1>6. ~Controls(p) => KeeperFor(Idle, tx.control)'
    BY IdlePlace DEF KeeperFor, Controls
  <1>7. (\A u \in Threads : ~Controls(pc'[u])) => ~Controls(p)
    BY <1>1
  <1>8. KeeperInv'
    BY <1>1, <1>4, <1>6, <1>7 DEF KeeperInv
  <1>9. \A u \in Threads : /\ Waits(pc'[u]) <=> Waits(pc[u])
                           /\ Waits(pc[u]) => u # t
    BY <1>1
  <1>10. WriterFor(p, tx')
    BY DEF WriterFor, Waits, Writes
  <1>11. \A u \in Threads : WriterFor(pc'[u], tx')
    BY <1>1, <1>10
  <1>12. \A u \in Threads : pc'[u].at = "drain" => ~tx'.lending
    BY <1>1, <1>4 DEF Controls
  <1>13. \A u \in Threads : pc'[u].at # "pause" /\ Detaches(pc'[u]) => ~writing'
    BY <1>1, <1>4
  <1>14. /\ writing' <=> \E u \in Threads : Waits(pc'[u])
         /\ \A u, v \in Threads : Waits(pc'[u]) /\ Waits(pc'[v]) => u = v
    BY <1>1, <1>9 DEF Inv, WriteInv
  <1>15. WriteInv'
    BY <1>11, <1>12, <1>13, <1>14 DEF WriteInv
  <1> QED BY <1>2, <1>5, <1>8, <1>15 DEF Inv

\* When no write is in progress there is none to disturb.
LEMMA NoWriter ==
  ASSUME Inv, ~writing, NEW x
  PROVE  \A u \in Threads : ~Waits(pc[u]) /\ WriterFor(pc[u], x)
  BY DEF Inv, WriteInv, Waits, WriterFor, Writes

\* The thread that keeps the signal is as the call at p, if one is, has it.
LEMMA KeeperIs ==
  ASSUME Inv, NEW t \in Threads, \A u \in Threads \ {t} : ~Controls(pc[u])
  PROVE  /\ KeeperFor(pc[t], tx.control)
         /\ waitingDetaches = (IF Detaches(pc[t]) THEN 1 ELSE 0)
         /\ pc[t] \in Places
  <1>1. ASSUME Controls(pc[t]) PROVE KeeperFor(pc[t], tx.control)
    BY <1>1 DEF Inv, KeeperInv
  <1>2. ASSUME ~Controls(pc[t]) PROVE KeeperFor(pc[t], tx.control)
    <2>1. KeeperFor(Idle, tx.control)
      BY <1>2 DEF Inv, KeeperInv
    <2> QED BY <1>2, <2>1, IdlePlace DEF KeeperFor, Controls
  <1>3. \A u \in Threads : Detaches(pc[u]) => Controls(pc[u])
    BY DEF Detaches, Controls
  <1> QED BY <1>1, <1>2, <1>3 DEF Inv, TurnInv, TypeInv

\* In turn, no other call that changes the control state is in progress.
LEMMA InTurn ==
  ASSUME Inv, NEW t \in Threads, (CallsInTurn /\ MayControl(t)) \/ Controls(pc[t])
  PROVE  \A u \in Threads \ {t} : ~Controls(pc[u])
  <1>1. CASE CallsInTurn /\ MayControl(t)
    BY <1>1 DEF CallsInTurn, MayControl, InControl, Controls
  <1>2. CASE Controls(pc[t])
    BY <1>2 DEF Inv, TurnInv
  <1> QED BY <1>1, <1>2

LEMMA ReleaseHolds ==
  ASSUME Inv, NEW t \in Threads, \A u \in Threads \ {t} : ~Controls(pc[u]), ~writing,
         keeper = {}, running = {}, stopRequested' = FALSE, Release(t, 1)
  PROVE  Inv' /\ LentGoes
  <1>1. SideInv(tx') /\ tx'.control = "idle" /\ tx'.lending = FALSE
    BY FreshHolds DEF Release, Standards, Fresh
  <1>2. attached' = FALSE /\ waitingDetaches' = 0 /\ pc' = [pc EXCEPT ![t] = Idle]
        /\ writing' = writing /\ keeper' = keeper /\ running' = running
    BY DEF Release
  <1>3. KeeperFor(Idle, tx.control)'
    BY <1>1, <1>2, IdlePlace DEF KeeperFor
  <1>4. \A u \in Threads : ~Waits(pc[u]) /\ WriterFor(pc[u], tx')
    BY NoWriter
  <1>5. Inv'
    BY <1>1, <1>2, <1>3, <1>4, IdlePlace, ControlStep
  <1> QED BY <1>1, <1>5 DEF LentGoes

LEMMA DrainFromHolds ==
  ASSUME Inv, NEW t \in Threads, \A u \in Threads \ {t} : ~Controls(pc[u]), ~writing, attached,
         keeper = {}, running = {}, stopRequested' = FALSE,
         NEW STATE x, SideInv(x), x.control = "send", ~x.lending, NEW STATE black, black \in BOOLEAN,
         DrainFrom(t, 1, x, black)
  PROVE  Inv' /\ LentGoes
  <1>1. CASE Release(t, 1)
    BY <1>1, ReleaseHolds
  <1>2. ASSUME NEW b \in BOOLEAN, tx' \in InsertBlack(x) \/ tx' = x,
               pc' = [pc EXCEPT ![t] = Draining(b)], waitingDetaches' = 1,
               UNCHANGED <<attached, writing, keeper, running>>
        PROVE  Inv' /\ LentGoes
    <2> DEFINE p == Draining(b)
    <2>1. p \in Places /\ p.at = "drain" /\ Detaches(p) /\ ~Waits(p)
      BY DEF Draining, Places, Detaches, Waits, Writes
    <2> HIDE DEF p
    <2>2. SideInv(tx') /\ tx'.control = "send" /\ ~tx'.lending
      <3>1. CASE tx' \in InsertBlack(x)
        BY <3>1, InsertBlackHolds DEF SameRun
      <3>2. CASE tx' = x
        BY <3>2
      <3> QED BY <1>2, <3>1, <3>2
    <2>3. KeeperFor(p, tx.control)'
      BY <1>2, <2>1, <2>2 DEF KeeperFor
    <2>4. \A u \in Threads : ~Waits(pc[u]) /\ WriterFor(pc[u], tx')
      BY NoWriter
    <2>5. pc' = [pc EXCEPT ![t] = p] /\ attached' /\ attached' \in BOOLEAN
          /\ keeper' \subseteq Keepers /\ running' \subseteq Keepers
          /\ writing' = writing /\ stopRequested' \in BOOLEAN
      BY <1>2 DEF p, Inv, TypeInv
    <2>6. Inv'
      BY <1>2, <2>1, <2>2, <2>3, <2>4, <2>5, ControlStep
    <2> QED BY <2>2, <2>6 DEF LentGoes
  <1>3. CASE x.next # 0
    <2>1. \E b \in BOOLEAN : /\ tx' \in InsertBlack(x) \/ tx' = x
                             /\ pc' = [pc EXCEPT ![t] = Draining(b)]
      BY <1>3 DEF DrainFrom
    <2>2. waitingDetaches' = 1 /\ UNCHANGED <<attached, writing, keeper, running>>
      BY <1>3 DEF DrainFrom
    <2> QED BY <1>2, <2>1, <2>2
  <1> QED BY <1>1, <1>3 DEF DrainFrom

LEMMA SideIsTyped == ASSUME Inv PROVE tx \in Sides /\ SideInv(tx)
  BY DEF Inv, SideInv, RoomInv

\* A stop tells the thread, and goes to wait for it.
LEMMA SignalHolds ==
  ASSUME Inv, NEW t \in Threads, \A u \in Threads \ {t} : ~Controls(pc[u]), ~Waits(pc[t]),
         pc[t].at \notin {"join", "drain"}, tx.control = "send", attached,
         NEW goal \in {"hold", "idle", "drain", "release"}, StopSignalKeeper(t, goal),
         UNCHANGED <<attached, writing>>,
         waitingDetaches' = (IF goal \in {"drain", "release"} THEN 1 ELSE 0),
         goal \in {"drain", "release"} => ~writing
  PROVE  Inv' /\ LentGoes
  <1>1. PICK k \in keeper : pc' = [pc EXCEPT ![t] = Joining(k, goal)]
    BY DEF StopSignalKeeper
  <1> DEFINE p == Joining(k, goal)
  <1>2. k \in Keepers
    BY DEF Inv, TypeInv
  <1>3. p \in Places /\ p.at = "join" /\ p.keeper = k /\ p.goal = goal
    BY <1>2 DEF Joining, Places
  <1> HIDE DEF p
  <1>4. stopRequested' = TRUE /\ keeper' = {} /\ running' = running /\ tx' = tx
    BY DEF StopSignalKeeper
  <1>5. running = keeper /\ \A l \in keeper : l = k
    BY KeeperIs DEF KeeperFor
  <1>6. KeeperFor(p, tx.control)'
    BY <1>3, <1>4, <1>5 DEF KeeperFor
  <1>7. Controls(p) /\ ~Waits(p) /\ (Detaches(p) <=> goal \in {"drain", "release"})
    BY <1>3 DEF Controls, Waits, Writes, Detaches
  <1>8. SideInv(tx') /\ tx' = tx /\ (\A u \in Threads : WriterFor(pc[u], tx'))
        /\ (writing => tx'.lent = {})
    BY <1>4 DEF Inv, WriteInv
  <1>9. /\ attached' \in BOOLEAN /\ stopRequested' \in BOOLEAN /\ keeper' \subseteq Keepers
        /\ running' \subseteq Keepers /\ attached' /\ writing' = writing
    BY <1>4 DEF Inv, TypeInv
  <1>10. waitingDetaches' = (IF Detaches(p) THEN 1 ELSE 0)
    BY <1>7
  <1>11. pc' = [pc EXCEPT ![t] = p]
    BY <1>1 DEF p
  <1>12. Inv'
    BY <1>3, <1>6, <1>7, <1>8, <1>9, <1>10, <1>11, ControlStep
  <1> QED BY <1>8, <1>12 DEF LentGoes

LEMMA LetGoHolds ==
  ASSUME Inv, NEW t \in Threads, \A u \in Threads \ {t} : ~Controls(pc[u]), ~Waits(pc[t]),
         pc[t].at \notin {"join", "drain"}, ~writing, attached, NEW STATE mode, LetGo(t, 1, mode)
  PROVE  Inv' /\ LentGoes
  <1>1. CASE tx.control = "send" /\ keeper # {}
    <2> DEFINE goal == IF mode = "sent" THEN "drain" ELSE "release"
    <2>1. goal \in {"drain", "release"}
      OBVIOUS
    <2>2. StopSignalKeeper(t, goal) /\ waitingDetaches' = 1 /\ UNCHANGED <<attached, writing>>
      BY <1>1 DEF LetGo
    <2> HIDE DEF goal
    <2> QED BY <1>1, <2>1, <2>2, SignalHolds
  <1>2. CASE ~(tx.control = "send" /\ keeper # {})
    <2>1. running = keeper /\ ~stopRequested /\ (tx.control = "send" <=> keeper # {})
      BY KeeperIs DEF KeeperFor
    <2>2. Release(t, 1) /\ stopRequested' = stopRequested
      BY <1>2, <2>1 DEF LetGo
    <2>3. stopRequested' = FALSE
      BY <2>1, <2>2 DEF Inv, TypeInv
    <2> QED BY <1>2, <2>1, <2>2, <2>3, ReleaseHolds
  <1> QED BY <1>1, <1>2

\* A call that leaves the side and the thread alone.
LEMMA AsideHolds ==
  ASSUME Inv, NEW t \in Threads, \A u \in Threads \ {t} : ~Controls(pc[u]), ~Waits(pc[t]),
         pc[t].at \notin {"join", "drain"}, NEW p \in Places, p.at \in {"idle", "pause"},
         attached, pc' = [pc EXCEPT ![t] = p], UNCHANGED <<attached, writing, tx, thread>>,
         waitingDetaches' = (IF p.at = "pause" THEN 1 ELSE 0)
  PROVE  Inv' /\ LentGoes
  <1>1. KeeperFor(p, tx.control)'
    BY KeeperIs DEF KeeperFor, thread
  <1>2. ~Waits(p) /\ (Detaches(p) <=> p.at = "pause")
    BY DEF Waits, Writes, Detaches
  <1>3. /\ attached' \in BOOLEAN /\ stopRequested' \in BOOLEAN /\ keeper' \subseteq Keepers
        /\ running' \subseteq Keepers /\ attached' /\ writing' = writing /\ tx' = tx
    BY DEF Inv, TypeInv, thread
  <1>4. SideInv(tx') /\ (\A u \in Threads : WriterFor(pc[u], tx')) /\ (writing => tx'.lent = {})
    BY <1>3 DEF Inv, WriteInv
  <1>5. waitingDetaches' = (IF Detaches(p) THEN 1 ELSE 0)
    BY <1>2
  <1>6. p.at # "drain" /\ ~(p.at # "pause" /\ Detaches(p))
    BY <1>2
  <1>7. Inv'
    BY <1>1, <1>2, <1>3, <1>4, <1>5, <1>6, ControlStep
  <1> QED BY <1>3, <1>7 DEF LentGoes

LEMMA DetachHolds ==
  ASSUME Inv, CallsInTurn, NEW t \in Threads, NEW mode \in Modes, Detach(t, mode)
  PROVE  Inv' /\ LentGoes
  <1>1. pc[t] = Idle /\ attached /\ ~Waits(pc[t]) /\ pc[t].at = "idle" /\ ~Detaches(pc[t])
        /\ MayControl(t)
    BY IdlePlace DEF Detach, MayControl, MayCall
  <1>2. \A u \in Threads \ {t} : ~Controls(pc[u])
    BY <1>1, InTurn
  <1>3. waitingDetaches = 0
    BY <1>1, <1>2, KeeperIs
  <1>4. CASE writing
    <2> DEFINE p == Pausing(mode)
    <2>1. p \in Places /\ p.at = "pause"
      BY DEF Pausing, Places
    <2>2. pc' = [pc EXCEPT ![t] = p] /\ waitingDetaches' = 1
          /\ UNCHANGED <<attached, writing, tx, thread>>
      BY <1>3, <1>4 DEF Detach
    <2> HIDE DEF p
    <2> QED BY <1>1, <1>2, <2>1, <2>2, AsideHolds
  <1>5. CASE ~writing
    <2>1. LetGo(t, 1, mode)
      BY <1>3, <1>5 DEF Detach
    <2> QED BY <1>1, <1>2, <1>5, <2>1, LetGoHolds
  <1> QED BY <1>4, <1>5

\* A detach, or the detach of a free, that pauses.
LEMMA AtPause ==
  ASSUME Inv, NEW t \in Threads, pc[t].at = "pause"
  PROVE  /\ \A u \in Threads \ {t} : ~Controls(pc[u])
         /\ attached /\ waitingDetaches = 1 /\ ~Waits(pc[t])
  <1>1. Controls(pc[t]) /\ Detaches(pc[t]) /\ ~Waits(pc[t])
    BY DEF Controls, Detaches, Waits, Writes
  <1>2. \A u \in Threads \ {t} : ~Controls(pc[u])
    BY <1>1, InTurn
  <1> QED BY <1>1, <1>2, KeeperIs DEF Inv, TurnInv

LEMMA GiveUpDetachHolds ==
  ASSUME Inv, NEW t \in Threads, GiveUpDetach(t)
  PROVE  Inv' /\ LentGoes
  <1>1. pc[t].at = "pause"
    BY DEF GiveUpDetach
  <1>2. pc' = [pc EXCEPT ![t] = Idle] /\ waitingDetaches' = 0
        /\ UNCHANGED <<attached, writing, tx, thread>>
    BY <1>1, AtPause DEF GiveUpDetach
  <1> QED BY <1>1, <1>2, AtPause, IdlePlace, AsideHolds

LEMMA PauseEndsHolds ==
  ASSUME Inv, NEW t \in Threads, PauseEnds(t)
  PROVE  Inv' /\ LentGoes
  <1>1. pc[t].at = "pause"
    BY DEF PauseEnds
  <1>2. attached /\ ~writing /\ waitingDetaches = 1
    BY <1>1, AtPause DEF PauseEnds
  <1>3. LetGo(t, 1, pc[t].mode)
    BY <1>2 DEF PauseEnds
  <1> QED BY <1>1, <1>2, <1>3, AtPause, LetGoHolds

\* A call that is over at once, or for which a stop or a join ends.
LEMMA EndsIdle ==
  ASSUME Inv, NEW t \in Threads, \A u \in Threads \ {t} : ~Controls(pc[u]), ~Waits(pc[t]),
         pc' = [pc EXCEPT ![t] = Idle], waitingDetaches' = 0, attached' = TRUE, writing' = writing,
         keeper' \subseteq Keepers, running' = keeper', stopRequested' = FALSE,
         \A k, l \in keeper' : k = l,
         SideInv(tx'), tx'.control = "send" <=> keeper' # {},
         \A u \in Threads \ {t} : WriterFor(pc[u], tx'), writing => tx'.lent = {}
  PROVE  Inv'
  <1>1. KeeperFor(Idle, tx.control)'
    BY IdlePlace DEF KeeperFor
  <1> QED BY <1>1, IdlePlace, ControlStep

\* A call that is over at once finds the thread as the control state says.
LEMMA StartsIdle ==
  ASSUME Inv, NEW t \in Threads, \A u \in Threads \ {t} : ~Controls(pc[u]), pc[t] = Idle
  PROVE  /\ running = keeper /\ stopRequested = FALSE /\ (tx.control = "send" <=> keeper # {})
         /\ waitingDetaches = 0 /\ ~Waits(pc[t]) /\ pc[t].at = "idle"
         /\ pc = [pc EXCEPT ![t] = Idle]
         /\ \A k, l \in keeper : k = l
         /\ keeper \subseteq Keepers
  <1>1. KeeperFor(Idle, tx.control) /\ waitingDetaches = 0
    BY KeeperIs, IdlePlace
  <1>2. stopRequested \in BOOLEAN /\ keeper \subseteq Keepers
        /\ pc = [pc EXCEPT ![t] = Idle]
    BY DEF Inv, TypeInv
  <1> QED BY <1>1, <1>2, IdlePlace DEF KeeperFor

LEMMA NoSkip ==
  ASSUME LockFree
  PROVE  \A u \in Threads : pc[u].at # "skip"
  BY DEF LockFree

LEMMA AttachHolds ==
  ASSUME Inv, NEW t \in Threads, Attach(t)
  PROVE  Inv' /\ LentGoes
  <1>1. PICK std \in Standards : tx' = Fresh(std)
    BY DEF Attach
  <1>2. SideInv(tx') /\ tx'.control = "idle" /\ tx'.lending = FALSE
    BY <1>1, FreshHolds DEF Fresh
  <1>3. pc[t] = Idle /\ ~attached /\ ~writing
    BY DEF Attach, Inv, WriteInv
  <1>4. \A u \in Threads \ {t} : ~Controls(pc[u])
    BY <1>3 DEF Inv, TurnInv
  <1>5. tx.control = "idle"
    BY <1>3 DEF Inv, KeeperInv
  <1>6. keeper = {} /\ running = {} /\ stopRequested = FALSE /\ waitingDetaches = 0
        /\ ~Waits(pc[t]) /\ pc = [pc EXCEPT ![t] = Idle]
    BY <1>3, <1>4, <1>5, StartsIdle
  <1>7. \A u \in Threads : WriterFor(pc[u], tx')
    BY <1>3, NoWriter
  <1>8. attached' = TRUE /\ UNCHANGED <<waitingDetaches, writing, thread, pc>>
    BY DEF Attach
  <1>9. Inv'
    BY <1>2, <1>3, <1>4, <1>6, <1>7, <1>8, EndsIdle DEF thread
  <1> QED BY <1>2, <1>9 DEF LentGoes

LEMMA ApplyIoConfigHolds ==
  ASSUME Inv, CallsInTurn, LockFree, NEW t \in Threads, ApplyIoConfig(t)
  PROVE  Inv' /\ LentGoes
  <1>1. pc[t] = Idle /\ attached /\ MayControl(t) /\ tx.control = "idle"
    BY DEF ApplyIoConfig, MayControl, MayCall
  <1>2. \A u \in Threads \ {t} : ~Controls(pc[u])
    BY <1>1, InTurn
  <1>3. keeper = {} /\ running = {} /\ stopRequested = FALSE /\ waitingDetaches = 0
        /\ ~Waits(pc[t]) /\ pc = [pc EXCEPT ![t] = Idle]
    BY <1>1, <1>2, StartsIdle
  <1>4. PICK std \in Standards : tx' = [EndLending(ForgetPartialFrame(tx)) EXCEPT !.std = std]
    BY DEF ApplyIoConfig
  <1> DEFINE y == ForgetPartialFrame(tx)
             z == EndLending(y)
  <1>5. SideInv(y) /\ y.control = "idle" /\ y.stage = "search"
    BY <1>1, ForgetHolds DEF SameRun, Inv
  <1>6. SideInv(z) /\ z.control = "idle" /\ z.stage = "search" /\ z.lent = {} /\ ~z.lending
    BY <1>5, EndLendingHolds
  <1>7. tx' = [z EXCEPT !.std = std]
    BY <1>4
  <1> HIDE DEF y, z
  <1>8. SideInv(tx') /\ tx'.control = "idle" /\ tx'.stage = "search" /\ tx'.lent = {}
        /\ ~tx'.lending
    BY <1>6, <1>7, StdHolds
  <1>9. \A u \in Threads : WriterFor(pc[u], tx')
    BY <1>8, NoSkip DEF WriterFor, Inv, WriteInv
  <1>10. UNCHANGED <<channel, thread, pc>>
    BY DEF ApplyIoConfig
  <1>11. attached = TRUE
    BY <1>1 DEF Inv, TypeInv
  <1>12. Inv'
    BY <1>2, <1>3, <1>8, <1>9, <1>10, <1>11, EndsIdle DEF thread, channel
  <1> QED BY <1>8, <1>12 DEF LentGoes

LEMMA HoldStepHolds ==
  ASSUME Inv, CallsInTurn, LockFree, NEW t \in Threads, Hold(t)
  PROVE  Inv' /\ LentGoes
  <1>1. pc[t] = Idle /\ attached /\ MayControl(t) /\ tx.control = "idle"
    BY DEF Hold, MayControl, MayCall
  <1>2. \A u \in Threads \ {t} : ~Controls(pc[u])
    BY <1>1, InTurn
  <1>3. keeper = {} /\ running = {} /\ stopRequested = FALSE /\ waitingDetaches = 0
        /\ ~Waits(pc[t]) /\ pc = [pc EXCEPT ![t] = Idle]
    BY <1>1, <1>2, StartsIdle
  <1>4. tx' = IdleToHold(tx) /\ UNCHANGED <<channel, thread, pc>>
    BY DEF Hold
  <1>5. SideInv(tx') /\ tx'.control = "hold" /\ tx'.stage = "search" /\ ~tx'.lending
        /\ tx'.lent = {}
    BY <1>1, <1>4, HoldHolds DEF Inv
  <1>6. \A u \in Threads : pc[u].at = "room" => pc[u].kind # "lend"
    BY DEF Hold, CallsInTurn
  <1>7. \A u \in Threads : WriterFor(pc[u], tx')
    BY <1>5, <1>6, NoSkip DEF WriterFor, Inv, WriteInv
  <1>8. attached = TRUE
    BY <1>1 DEF Inv, TypeInv
  <1>9. Inv'
    BY <1>2, <1>3, <1>4, <1>5, <1>7, <1>8, EndsIdle DEF thread, channel
  <1> QED BY <1>5, <1>9 DEF LentGoes

LEMMA HoldToSendHolds ==
  ASSUME Inv, CallsInTurn, LockFree, NEW t \in Threads, HoldToSend(t)
  PROVE  Inv' /\ LentGoes
  <1>1. pc[t] = Idle /\ attached /\ MayControl(t) /\ tx.control = "hold"
    BY DEF HoldToSend, MayControl, MayCall
  <1>2. \A u \in Threads \ {t} : ~Controls(pc[u])
    BY <1>1, InTurn
  <1>3. keeper = {} /\ running = {} /\ stopRequested = FALSE /\ waitingDetaches = 0
        /\ ~Waits(pc[t]) /\ pc = [pc EXCEPT ![t] = Idle]
    BY <1>1, <1>2, StartsIdle
  <1>4. NewKeeper \in Keepers
    BY <1>3 DEF HoldToSend, NewKeeper
  <1>5. tx' = [tx EXCEPT !.control = "send"] /\ UNCHANGED <<channel, pc>>
        /\ keeper' = {NewKeeper} /\ running' = {NewKeeper} /\ stopRequested' = FALSE
    BY <1>3 DEF HoldToSend
  <1>6. SideInv(tx') /\ tx'.control = "send" /\ tx'.lent = tx.lent /\ tx'.stage = tx.stage
        /\ tx'.next = tx.next /\ tx'.lending = tx.lending
    BY <1>1, <1>5, ControlHolds DEF Inv
  <1>7. \A u \in Threads : WriterFor(pc[u], tx')
    BY <1>1, <1>6 DEF WriterFor, Inv, WriteInv
  <1>8. attached = TRUE /\ (writing => tx'.lent = {})
    BY <1>1, <1>6 DEF Inv, TypeInv, WriteInv
  <1> HIDE DEF NewKeeper
  <1>9. Inv'
    BY <1>2, <1>3, <1>4, <1>5, <1>6, <1>7, <1>8, EndsIdle DEF channel
  <1> QED BY <1>6, <1>9 DEF LentGoes

\* The channel goes idle or holds, which leaves the writes that wait something to find.
LEMMA StoppedSide ==
  ASSUME Inv, LockFree,
         tx' = HoldToIdle(tx) \/ (tx.control = "send" /\ tx' = [tx EXCEPT !.control = "hold"])
  PROVE  /\ SideInv(tx') /\ tx'.control # "send"
         /\ \A u \in Threads : WriterFor(pc[u], tx')
         /\ writing => tx'.lent = {}
         /\ LentGoes
  <1>1. CASE tx' = HoldToIdle(tx)
    <2>1. SideInv(tx') /\ tx'.control = "idle" /\ tx'.stage = "search" /\ tx'.lent = {}
          /\ ~tx'.lending
      BY <1>1, IdleHolds DEF Inv
    <2>2. \A u \in Threads : WriterFor(pc[u], tx')
      BY <2>1, NoSkip DEF WriterFor, Inv, WriteInv
    <2> QED BY <2>1, <2>2 DEF LentGoes
  <1>2. CASE tx.control = "send" /\ tx' = [tx EXCEPT !.control = "hold"]
    <2>1. SideInv(tx') /\ tx'.control = "hold" /\ tx'.lent = tx.lent /\ tx'.stage = tx.stage
          /\ tx'.next = tx.next /\ tx'.lending = tx.lending
      BY <1>2, ControlHolds DEF Inv
    <2>2. \A u \in Threads : WriterFor(pc[u], tx')
      BY <1>2, <2>1 DEF WriterFor, Inv, WriteInv
    <2> QED BY <2>1, <2>2 DEF Inv, WriteInv, LentGoes
  <1> QED BY <1>1, <1>2

LEMMA StopHolds ==
  ASSUME Inv, CallsInTurn, LockFree, NEW t \in Threads, NEW goal \in {"hold", "idle"},
         Stop(t, goal)
  PROVE  Inv' /\ LentGoes
  <1>1. pc[t] = Idle /\ attached /\ MayControl(t) /\ UNCHANGED channel
    BY DEF Stop, MayControl, MayCall
  <1>2. \A u \in Threads \ {t} : ~Controls(pc[u])
    BY <1>1, InTurn
  <1>3. running = keeper /\ stopRequested = FALSE /\ (tx.control = "send" <=> keeper # {})
        /\ waitingDetaches = 0 /\ ~Waits(pc[t]) /\ pc[t].at = "idle"
        /\ pc = [pc EXCEPT ![t] = Idle]
    BY <1>1, <1>2, StartsIdle
  <1>4. CASE tx.control = "send" /\ StopSignalKeeper(t, goal)
    BY <1>1, <1>2, <1>3, <1>4, SignalHolds DEF channel
  <1>5. CASE tx.control # "send" /\ tx' = HoldToIdle(tx) /\ UNCHANGED <<thread, pc>>
    <2>1. /\ SideInv(tx') /\ tx'.control # "send"
          /\ \A u \in Threads : WriterFor(pc[u], tx')
          /\ writing => tx'.lent = {}
          /\ LentGoes
      BY <1>5, StoppedSide
    <2>2. attached = TRUE
      BY <1>1 DEF Inv, TypeInv
    <2>3. keeper' = {} /\ running' = {} /\ stopRequested' = FALSE /\ attached' = TRUE
          /\ waitingDetaches' = 0 /\ writing' = writing /\ pc' = [pc EXCEPT ![t] = Idle]
      BY <1>1, <1>3, <1>5, <2>2 DEF channel, thread
    <2>4. Inv'
      BY <1>2, <1>3, <2>1, <2>3, EndsIdle
    <2> QED BY <2>1, <2>4
  <1> QED BY <1>3, <1>4, <1>5 DEF Stop

\* A join, or a wait until all is sent: the only call that changes the control state.
LEMMA AtJoin ==
  ASSUME Inv, NEW t \in Threads, pc[t].at \in {"join", "drain"}
  PROVE  /\ \A u \in Threads \ {t} : ~Controls(pc[u])
         /\ attached = TRUE /\ ~Waits(pc[t]) /\ keeper = {} /\ tx.control = "send"
         /\ pc[t].at = "join" => stopRequested /\ running \subseteq {pc[t].keeper}
         /\ pc[t].at = "drain" => running = {} /\ stopRequested = FALSE /\ ~tx.lending
                                  /\ pc[t].black \in BOOLEAN
         /\ Detaches(pc[t]) => waitingDetaches = 1 /\ ~writing
         /\ ~Detaches(pc[t]) => waitingDetaches = 0
         /\ pc[t].at = "join" => pc[t].goal \in {"hold", "idle", "drain", "release"}
  <1>1. Controls(pc[t]) /\ ~Waits(pc[t])
    BY DEF Controls, Waits, Writes
  <1>2. \A u \in Threads \ {t} : ~Controls(pc[u])
    BY <1>1, InTurn
  <1>3. KeeperFor(pc[t], tx.control) /\ pc[t] \in Places
        /\ waitingDetaches = (IF Detaches(pc[t]) THEN 1 ELSE 0)
    BY <1>2, KeeperIs
  <1>4. attached = TRUE /\ stopRequested \in BOOLEAN
    BY <1>1 DEF Inv, TypeInv, TurnInv
  <1>5. Detaches(pc[t]) => ~writing
    BY DEF Inv, WriteInv
  <1>6. pc[t].at = "drain" => ~tx.lending
    BY DEF Inv, WriteInv
  <1> QED BY <1>1, <1>2, <1>3, <1>4, <1>5, <1>6, PlacesAt DEF KeeperFor

LEMMA JoinEndsHolds ==
  ASSUME Inv, LockFree, NEW t \in Threads, JoinEnds(t)
  PROVE  Inv' /\ LentGoes
  <1>1. pc[t].at = "join" /\ pc[t].keeper \notin running /\ stopRequested' = FALSE
    BY DEF JoinEnds
  <1>2. /\ \A u \in Threads \ {t} : ~Controls(pc[u])
        /\ attached = TRUE /\ ~Waits(pc[t]) /\ keeper = {} /\ running = {} /\ tx.control = "send"
        /\ Detaches(pc[t]) => waitingDetaches = 1 /\ ~writing
        /\ ~Detaches(pc[t]) => waitingDetaches = 0
        /\ pc[t].goal \in {"hold", "idle", "drain", "release"}
    BY <1>1, AtJoin
  <1>3. CASE pc[t].goal = "drain"
    <2> DEFINE y == ForgetPartialFrame(tx)
               x == EndLending(y)
               black == tx.next # 0
    <2>1. waitingDetaches = 1 /\ ~writing
      BY <1>1, <1>2, <1>3 DEF Detaches
    <2>2. StartDrain(t, 1)
      BY <1>1, <1>3, <2>1 DEF JoinEnds
    <2>3. SideInv(y) /\ y.control = "send" /\ y.stage = "search"
      BY <1>2, ForgetHolds DEF SameRun, Inv
    <2>4. SideInv(x) /\ x.control = "send" /\ ~x.lending
      BY <2>3, EndLendingHolds
    <2>5. DrainFrom(t, 1, x, black) /\ black \in BOOLEAN
      BY <2>2 DEF StartDrain
    <2> HIDE DEF x, y, black
    <2> QED BY <1>1, <1>2, <2>1, <2>4, <2>5, DrainFromHolds
  <1>4. CASE pc[t].goal = "release"
    <2>1. waitingDetaches = 1 /\ ~writing
      BY <1>1, <1>2, <1>4 DEF Detaches
    <2>2. Release(t, 1)
      BY <1>1, <1>4, <2>1 DEF JoinEnds
    <2> QED BY <1>1, <1>2, <2>1, <2>2, ReleaseHolds
  <1>5. CASE pc[t].goal \notin {"drain", "release"}
    <2>1. /\ tx' = HoldToIdle(tx) \/ tx' = [tx EXCEPT !.control = "hold"]
          /\ pc' = [pc EXCEPT ![t] = Idle] /\ UNCHANGED <<channel, keeper, running>>
      BY <1>5 DEF JoinEnds
    <2>2. /\ SideInv(tx') /\ tx'.control # "send"
          /\ \A u \in Threads : WriterFor(pc[u], tx')
          /\ writing => tx'.lent = {}
          /\ LentGoes
      BY <1>2, <2>1, StoppedSide
    <2>3. waitingDetaches = 0
      BY <1>1, <1>2, <1>5 DEF Detaches
    <2>4. keeper' = {} /\ running' = {} /\ attached' = TRUE /\ waitingDetaches' = 0
          /\ writing' = writing
      BY <1>2, <2>1, <2>3 DEF channel
    <2>5. Inv'
      BY <1>1, <1>2, <2>1, <2>2, <2>4, EndsIdle
    <2> QED BY <2>2, <2>5
  <1> QED BY <1>3, <1>4, <1>5

LEMMA DrainLooksHolds ==
  ASSUME Inv, NEW t \in Threads, DrainLooks(t)
  PROVE  Inv' /\ LentGoes
  <1>1. pc[t].at = "drain" /\ stopRequested' = stopRequested
    BY DEF DrainLooks
  <1>2. /\ \A u \in Threads \ {t} : ~Controls(pc[u])
        /\ attached = TRUE /\ keeper = {} /\ running = {} /\ tx.control = "send" /\ ~tx.lending
        /\ waitingDetaches = 1 /\ ~writing /\ stopRequested' = FALSE /\ pc[t].black \in BOOLEAN
    BY <1>1, AtJoin DEF Detaches
  <1>3. CASE tx.gone /\ DrainFrom(t, 1, NoteEvent(tx), pc[t].black)
    <2> DEFINE x == NoteEvent(tx)
    <2>1. SideInv(x) /\ SameRun(tx, x)
      BY <1>3, NoteHolds DEF Inv
    <2>2. DrainFrom(t, 1, x, pc[t].black)
      BY <1>3
    <2> HIDE DEF x
    <2> QED BY <1>1, <1>2, <2>1, <2>2, DrainFromHolds DEF SameRun
  <1>4. CASE Release(t, 1)
    BY <1>2, <1>4, ReleaseHolds
  <1>5. CASE DrainFrom(t, 1, tx, pc[t].black)
    BY <1>2, <1>5, DrainFromHolds DEF Inv
  <1> QED BY <1>2, <1>3, <1>4, <1>5 DEF DrainLooks

LEMMA DrainGivesUpHolds ==
  ASSUME Inv, NEW t \in Threads, DrainGivesUp(t)
  PROVE  Inv' /\ LentGoes
  <1>1. pc[t].at = "drain" /\ stopRequested' = stopRequested
    BY DEF DrainGivesUp
  <1>2. /\ \A u \in Threads \ {t} : ~Controls(pc[u])
        /\ keeper = {} /\ running = {} /\ waitingDetaches = 1 /\ ~writing
        /\ stopRequested' = FALSE
    BY <1>1, AtJoin DEF Detaches
  <1> QED BY <1>2, ReleaseHolds DEF DrainGivesUp

\* A step that changes nothing but the side, and it as little as the calls can bear.
LEMMA SideStep ==
  ASSUME Inv, UNCHANGED <<channel, keeper, stopRequested, pc>>,
         running' = running \/ (stopRequested /\ running' \subseteq running),
         SideInv(tx'), SameRun(tx, tx'), writing => tx'.lent = {},
         tx'.stage = tx.stage \/ (tx'.stage = "search" /\ LockFree)
  PROVE  Inv'
  <1>1. attached' = attached /\ writing' = writing /\ waitingDetaches' = waitingDetaches
        /\ keeper' = keeper /\ stopRequested' = stopRequested /\ pc' = pc
        /\ running' \subseteq running
    BY DEF channel
  <1>2. TypeInv' /\ TurnInv'
    BY <1>1 DEF Inv, TypeInv, TurnInv
  <1>3. tx'.control = tx.control /\ tx'.lending = tx.lending
    BY DEF SameRun
  <1>4. ASSUME NEW p, KeeperFor(p, tx.control)
        PROVE  KeeperFor(p, tx.control)'
    BY <1>1, <1>3, <1>4 DEF KeeperFor
  <1>5. KeeperInv'
    <2>1. ASSUME NEW u \in Threads, Controls(pc'[u])
          PROVE  KeeperFor(pc[u], tx.control)'
      <3>1. KeeperFor(pc[u], tx.control)
        BY <1>1, <2>1 DEF Inv, KeeperInv
      <3> QED BY <1>1, <1>3, <3>1 DEF KeeperFor
    <2>2. ASSUME \A u \in Threads : ~Controls(pc'[u])
          PROVE  KeeperFor(Idle, tx.control)'
      <3>1. KeeperFor(Idle, tx.control)
        BY <1>1, <2>2 DEF Inv, KeeperInv
      <3> QED BY <1>4, <3>1
    <2>3. ~attached' => tx'.control = "idle"
      BY <1>1, <1>3 DEF Inv, KeeperInv
    <2> QED BY <2>1, <2>2, <2>3 DEF KeeperInv
  <1>6. \A u \in Threads : WriterFor(pc'[u], tx')
    BY <1>1, <1>3, NoSkip, WriterStays DEF Inv, WriteInv
  <1>7. \A u \in Threads : pc'[u].at = "drain" => ~tx'.lending
    BY <1>1, <1>3 DEF Inv, WriteInv
  <1>8. WriteInv'
    BY <1>1, <1>6, <1>7 DEF Inv, WriteInv
  <1> QED BY <1>2, <1>5, <1>8 DEF Inv

LEMMA NotedHolds ==
  ASSUME SideInv(tx), NEW x \in Noted
  PROVE  SideInv(x) /\ SameRun(tx, x) /\ x.lent = tx.lent /\ x.stage = tx.stage
         /\ x.next = tx.next
  <1>1. CASE x = [tx EXCEPT !.allowed = @ \/ tx.first]
    <2> DEFINE allowed == tx.allowed \/ tx.first
    <2>1. allowed \in BOOLEAN
      OBVIOUS
    <2>2. x = [tx EXCEPT !.allowed = allowed]
      BY <1>1
    <2> HIDE DEF allowed
    <2> QED BY <2>1, <2>2, AllowedHolds
  <1>2. ASSUME NEW late \in BOOLEAN, tx.gone,
               x = [NoteEvent(tx) EXCEPT !.allowed = @ \/ Going(tx) # 0 \/ late]
        PROVE  SideInv(x) /\ SameRun(tx, x) /\ x.lent = tx.lent /\ x.stage = tx.stage
               /\ x.next = tx.next
    <2> DEFINE y == NoteEvent(tx)
               allowed == y.allowed \/ Going(tx) # 0 \/ late
    <2>1. SideInv(y) /\ SameRun(tx, y) /\ y.lent = tx.lent /\ y.stage = tx.stage
          /\ y.next = tx.next
      BY <1>2, NoteHolds
    <2>2. allowed \in BOOLEAN
      OBVIOUS
    <2>3. x = [y EXCEPT !.allowed = allowed]
      BY <1>2
    <2> HIDE DEF y, allowed
    <2>4. SideInv(x) /\ SameRun(y, x) /\ x.lent = y.lent /\ x.stage = y.stage
          /\ x.next = y.next
      BY <2>1, <2>2, <2>3, AllowedHolds
    <2> QED BY <2>1, <2>4 DEF SameRun
  <1>3. \/ x = [tx EXCEPT !.allowed = @ \/ tx.first]
        \/ tx.gone /\ \E late \in BOOLEAN :
             x = [NoteEvent(tx) EXCEPT !.allowed = @ \/ Going(tx) # 0 \/ late]
    BY DEF Noted
  <1> QED BY <1>1, <1>2, <1>3

\* The thread notes events, and puts in a black frame when no write goes on and none is lent.
LEMMA KeeperLooksHolds ==
  ASSUME Inv, LockFree, NEW k \in Keepers, KeeperLooks(k)
  PROVE  Inv' /\ LentGoes
  <1>1. k \in running /\ attached /\ UNCHANGED <<channel, keeper, stopRequested, pc>>
    BY DEF KeeperLooks
  <1>2. SideInv(tx)
    BY DEF Inv
  <1>3. tx.control # "idle"
    <2>1. CASE \E u \in Threads : Controls(pc[u])
      <3>1. PICK u \in Threads : KeeperFor(pc[u], tx.control)
        BY <2>1 DEF Inv, KeeperInv
      <3> QED BY <1>1, <3>1 DEF KeeperFor
    <2>2. CASE ~\E u \in Threads : Controls(pc[u])
      <3>1. KeeperFor(Idle, tx.control)
        BY <2>2 DEF Inv, KeeperInv
      <3> QED BY <1>1, <3>1, IdlePlace DEF KeeperFor
    <2> QED BY <2>1, <2>2
  <1>4. CASE stopRequested
    <2>1. tx' = tx /\ running' \subseteq running
      BY <1>4 DEF KeeperLooks
    <2>2. SameRun(tx, tx') /\ (writing => tx'.lent = {})
      BY <2>1 DEF SameRun, Inv, WriteInv
    <2>3. Inv'
      BY <1>1, <1>2, <1>4, <2>1, <2>2, SideStep
    <2> QED BY <2>1, <2>3 DEF LentGoes
  <1>5. CASE ~stopRequested
    <2>1. PICK x \in Noted : tx' \in {x} \cup IF NeedsBlack(x) THEN InsertBlack(x) ELSE {}
      BY <1>5 DEF KeeperLooks
    <2>2. SideInv(x) /\ SameRun(tx, x) /\ x.lent = tx.lent /\ x.stage = tx.stage
          /\ x.next = tx.next
      BY <1>2, NotedHolds
    <2>3. CASE tx' = x
      <3>1. writing => tx'.lent = {}
        BY <2>2, <2>3 DEF Inv, WriteInv
      <3>2. Inv'
        BY <1>1, <1>5, <2>2, <2>3, <3>1, SideStep DEF KeeperLooks
      <3> QED BY <2>2, <2>3, <3>2 DEF LentGoes
    <2>4. CASE ~x.lending /\ tx' \in InsertBlack(x)
      <3>1. SideInv(tx') /\ SameRun(x, tx') /\ tx'.lent = {}
            /\ tx'.stage \in {x.stage, "search"}
        BY <1>3, <2>2, <2>4, InsertBlackHolds DEF SameRun
      <3>2. SameRun(tx, tx') /\ ~tx'.lending /\ (tx'.stage = tx.stage \/ tx'.stage = "search")
        BY <2>2, <2>4, <3>1 DEF SameRun
      <3>3. Inv'
        BY <1>1, <1>5, <3>1, <3>2, SideStep DEF KeeperLooks
      <3> QED BY <3>2, <3>3 DEF LentGoes
    <2> QED BY <2>1, <2>3, <2>4 DEF NeedsBlack
  <1> QED BY <1>4, <1>5

\* The program and the card work on the side alone.
LEMMA ProgramAndCard ==
  ASSUME Inv, UNCHANGED <<channel, thread, pc>>, SideInv(tx'), SameRun(tx, tx'),
         tx'.stage = tx.stage, tx'.lent \in {{}, tx.lent}
  PROVE  Inv'
  <1>1. writing => tx'.lent = {}
    BY DEF Inv, WriteInv
  <1> QED BY <1>1, SideStep DEF thread

LEMMA CommitLentHolds ==
  ASSUME Inv, NEW t \in Threads, CommitLentFrame(t)
  PROVE  Inv' /\ LentGoes
  <1>1. tx.lent # {} /\ tx.built /\ UNCHANGED <<channel, thread, pc>> /\ SideInv(tx)
    BY DEF CommitLentFrame, Inv
  <1>2. \/ tx' = CommitFrame([tx EXCEPT !.lent = {}, !.built = FALSE])
        \/ tx' = [tx EXCEPT !.lent = {}, !.built = FALSE]
    BY DEF CommitLentFrame
  <1>3. SideInv(tx') /\ SameRun(tx, tx') /\ tx'.stage = tx.stage /\ tx'.lent = {}
    <2>1. CASE tx' = CommitFrame([tx EXCEPT !.lent = {}, !.built = FALSE])
      BY <1>1, <2>1, LentCommitted, Zenon
    <2>2. CASE tx' = [tx EXCEPT !.lent = {}, !.built = FALSE]
      BY <1>1, <2>2, LentDropped, Zenon
    <2> QED BY <1>2, <2>1, <2>2
  <1> QED BY <1>1, <1>3, ProgramAndCard DEF LentGoes

LEMMA BuildStepHolds ==
  ASSUME Inv, NEW t \in Threads, Build(t)
  PROVE  Inv' /\ LentGoes
  <1>1. tx.lent # {} /\ UNCHANGED <<channel, thread, pc>> /\ SideInv(tx)
        /\ tx' = BuiltSide(tx)
    BY DEF Build, BuiltSide, Inv
  <1>2. SideInv(tx') /\ SameRun(tx, tx') /\ tx'.stage = tx.stage /\ tx'.next = tx.next
        /\ tx'.lent = tx.lent
    BY <1>1, BuildHolds
  <1> QED BY <1>1, <1>2, ProgramAndCard DEF LentGoes

LEMMA CardTakesHolds ==
  ASSUME Inv, CardTakes
  PROVE  Inv' /\ LentGoes
  <1>1. tx.control # "idle" /\ tx.load > 0 /\ tx.card < CardFrames
        /\ UNCHANGED <<channel, thread, pc>> /\ SideInv(tx) /\ tx' = TakenSide(tx)
    BY DEF CardTakes, TakenSide, Inv
  <1>2. SideInv(tx') /\ SameRun(tx, tx') /\ tx'.stage = tx.stage /\ tx'.next = tx.next
        /\ tx'.lent = tx.lent
    BY <1>1, TakesHolds
  <1> QED BY <1>1, <1>2, ProgramAndCard DEF LentGoes

LEMMA CardSendsHolds ==
  ASSUME Inv, CardSends
  PROVE  Inv' /\ LentGoes
  <1>1. /\ tx.control = "send" /\ tx.card >= 0 /\ tx.load + tx.card > 0
        /\ (Unsent(tx) - tx.load - tx.card) % Ids <= (IF tx.first THEN 1 ELSE 0)
        /\ UNCHANGED <<channel, thread, pc>> /\ SideInv(tx)
        /\ tx' = [tx EXCEPT !.card = @ - 1, !.gone = TRUE]
    BY DEF CardSends, Inv
  <1>2. SideInv(tx') /\ SameRun(tx, tx') /\ tx'.stage = tx.stage /\ tx'.next = tx.next
        /\ tx'.lent = tx.lent
    BY <1>1, SendsHolds, Zenon
  <1> QED BY <1>1, <1>2, ProgramAndCard DEF LentGoes

--------------------------------------------------------------------------------
(* The theorems.                                                           *)

LEMMA InitInv == Init => Inv
  <1> SUFFICES ASSUME Init PROVE Inv
    OBVIOUS
  <1>1. SideInv(tx) /\ tx.control = "idle" /\ ~tx.lending /\ tx.lent = {}
    BY FreshHolds DEF Init, Standards, Fresh
  <1>2. \A t \in Threads : pc[t] = Idle
    BY DEF Init
  <1>3. TypeInv
    BY IdlePlace DEF Init, TypeInv
  <1>4. TurnInv
    BY <1>2, IdlePlace DEF Init, TurnInv
  <1>5. KeeperInv
    BY <1>1, <1>2, IdlePlace DEF Init, KeeperInv, KeeperFor
  <1>6. \A t \in Threads : WriterFor(pc[t], tx) /\ pc[t].at = "idle"
    BY <1>2, IdlePlace DEF WriterFor, Writes
  <1>7. WriteInv
    BY <1>2, <1>6, IdlePlace DEF Init, WriteInv
  <1> QED BY <1>1, <1>3, <1>4, <1>5, <1>7 DEF Inv

LEMMA StepInv ==
  ASSUME CallsInTurn, Inv, [Next]_vars
  PROVE  Inv' /\ LentGoes
  <1>1. CASE UNCHANGED vars
    BY <1>1 DEF vars, channel, thread, Inv, TypeInv, TurnInv, KeeperInv, KeeperFor, WriteInv,
                LentGoes
  <1>2. CASE CardTakes
    BY <1>2, CardTakesHolds
  <1>3. CASE CardSends
    BY <1>3, CardSendsHolds
  <1>4. ASSUME NEW t \in Threads, Build(t) PROVE Inv' /\ LentGoes
    BY <1>4, BuildStepHolds
  <1>5. ASSUME LockFree, NEW k \in Keepers, KeeperLooks(k) PROVE Inv' /\ LentGoes
    BY <1>5, KeeperLooksHolds
  <1>6. ASSUME LockFree, NEW t \in Threads,
               Attach(t) \/ ApplyIoConfig(t) \/ Hold(t) \/ HoldToSend(t)
        PROVE  Inv' /\ LentGoes
    BY <1>6, AttachHolds, ApplyIoConfigHolds, HoldStepHolds, HoldToSendHolds
  <1>7. ASSUME LockFree, NEW t \in Threads, NEW goal \in {"hold", "idle"}, Stop(t, goal)
        PROVE  Inv' /\ LentGoes
    BY <1>7, StopHolds
  <1>8. ASSUME LockFree, NEW t \in Threads, NEW mode \in Modes, Detach(t, mode)
        PROVE  Inv' /\ LentGoes
    BY <1>8, DetachHolds
  <1>9. ASSUME LockFree, NEW t \in Threads,
               GiveUpDetach(t) \/ PauseEnds(t) \/ JoinEnds(t) \/ DrainLooks(t) \/ DrainGivesUp(t)
        PROVE  Inv' /\ LentGoes
    BY <1>9, GiveUpDetachHolds, PauseEndsHolds, JoinEndsHolds, DrainLooksHolds, DrainGivesUpHolds
  <1>10. ASSUME LockFree, NEW t \in Threads, Write(t) \/ WriteFrame(t) \/ NextLine(t) \/ FindRoom(t)
         PROVE  Inv' /\ LentGoes
    BY <1>10, WriteHolds, WriteFrameHolds, NextLineHolds, FindRoomHolds
  <1>11. ASSUME NEW t \in Threads, WaitFails(t) PROVE Inv' /\ LentGoes
    <2>1. pc[t].at \in Writes
      BY <1>11 DEF WaitFails, Writes
    <2>2. PICK w : GiveUp(t, w, tx)
      BY <1>11 DEF WaitFails
    <2> QED BY <2>1, <2>2, WaitFailsHolds
  <1>12. ASSUME NEW t \in Threads, AcquireFrame(t) \/ CommitLentFrame(t)
         PROVE  Inv' /\ LentGoes
    BY <1>12, AcquireFrameHolds, CommitLentHolds
  <1>13. Next \/ UNCHANGED vars
    OBVIOUS
  <1> QED BY <1>1, <1>2, <1>3, <1>4, <1>5, <1>6, <1>7, <1>8, <1>9, <1>10, <1>11, <1>12, <1>13
          DEF Next

LEMMA AlwaysInv == ASSUME CallsInTurn PROVE Spec => []Inv
  <1>1. Inv /\ [Next]_vars => Inv'
    BY StepInv
  <1> QED BY InitInv, <1>1, PTL DEF Spec

\* What the invariant says, in terms of the properties.
LEMMA InvTypes == Inv => TypeOK
  <1> SUFFICES ASSUME Inv PROVE TypeOK
    OBVIOUS
  <1>1. IsFiniteSet(Threads)
    BY SdiTxAssumption
  <1>2. Cardinality(Threads) \in Nat /\ (Threads # {} => Cardinality(Threads) # 0)
    BY <1>1, FS_CardinalityType, FS_EmptySet
  <1>3. waitingDetaches \in 0..Cardinality(Threads)
    <2>1. CASE \E t \in Threads : Detaches(pc[t])
      <3>1. waitingDetaches = 1 /\ Threads # {}
        BY <2>1 DEF Inv, TurnInv
      <3> QED BY <1>2, <3>1
    <2>2. CASE ~\E t \in Threads : Detaches(pc[t])
      <3>1. waitingDetaches = 0
        BY <2>2 DEF Inv, TurnInv
      <3> QED BY <1>2, <3>1
    <2> QED BY <2>1, <2>2
  <1> QED BY <1>3, SideIsTyped DEF Inv, TypeInv, TypeOK

LEMMA AtMostOne ==
  ASSUME NEW S, \A a, b \in S : a = b
  PROVE  Cardinality(S) <= 1
  <1>1. CASE S = {}
    BY <1>1, FS_EmptySet
  <1>2. CASE S # {}
    <2>1. PICK a : S = {a}
      BY <1>2
    <2> QED BY <2>1, FS_Singleton
  <1> QED BY <1>1, <1>2

LEMMA InvApart == Inv => CallsKeepApart
  <1> SUFFICES ASSUME Inv PROVE CallsKeepApart
    OBVIOUS
  <1> DEFINE joining == {t \in Threads : pc[t].at = "join"}
             waiting == {t \in Threads : pc[t].at \in Writes \cup {"skip"}}
  <1>1. PICK p : /\ KeeperFor(p, tx.control)
                 /\ \/ \E t \in Threads : p = pc[t] /\ Controls(p)
                    \/ p = Idle /\ \A t \in Threads : ~Controls(pc[t])
    BY DEF Inv, KeeperInv
  <1>2. \A t \in Threads : Controls(pc[t]) => pc[t] = p
    BY <1>1 DEF Inv, TurnInv
  <1>3. \A t \in Threads : pc[t].at \in {"join", "drain"} => Controls(pc[t])
    BY DEF Controls
  <1>4. p.at \in {"join", "drain"} => \E t \in Threads : pc[t] = p
    BY <1>1, IdlePlace
  <1>5. OneKeeper
    <2>1. Cardinality(running) <= 1
      BY <1>1, AtMostOne DEF KeeperFor
    <2>2. joining = {} => running = keeper /\ ~stopRequested
      BY <1>1, <1>4 DEF KeeperFor
    <2>3. tx.control = "send" <=> keeper # {} \/ \E t \in Threads : pc[t].at \in {"join", "drain"}
      BY <1>1, <1>2, <1>3, <1>4 DEF KeeperFor
    <2>4. (\E t \in Threads : pc[t].at = "drain") => running = {}
      BY <1>1, <1>2, <1>3 DEF KeeperFor
    <2> QED BY <2>1, <2>2, <2>3, <2>4 DEF OneKeeper
  <1>6. CallFindsItsSide
    <2>1. \A t \in Threads : pc[t].at \in Writes => Waits(pc[t])
      BY DEF Waits
    <2> QED BY <1>3, <2>1 DEF CallFindsItsSide, Inv, TurnInv, WriteInv
  <1>7. OneWrite
    <2>1. \A a, b \in waiting : a = b
      BY DEF Inv, WriteInv, Waits
    <2>2. Cardinality(waiting) <= 1
      BY <2>1, AtMostOne
    <2>3. writing <=> \E t \in Threads : pc[t].at \in Writes \cup {"skip"}
      BY DEF Inv, WriteInv, Waits
    <2> QED BY <2>2, <2>3 DEF OneWrite
  <1> QED BY <1>5, <1>6, <1>7 DEF CallsKeepApart

LEMMA InvUnsent == Inv => UnsentIsNoLess
  <1> SUFFICES ASSUME Inv, tx.control # "idle"
               PROVE  tx.load + tx.card + (IF tx.gone THEN 1 ELSE 0) <= Unsent(tx)
    BY DEF UnsentIsNoLess
  <1>1. Counted(tx) /\ tx \in Sides
    BY DEF Inv, SideInv, RoomInv
  <1>2. tx.load \in Int /\ tx.card \in Int /\ Unsent(tx) \in Int
    BY <1>1, RingHas, UnsentIn
  <1> QED BY <1>1, <1>2 DEF Counted

LEMMA InvWhole == BlackIsAccepted /\ Inv => CommittedFramesAreWhole
  BY DEF Inv, SideInv, PlaceInv, WholeAt, CommittedFramesAreWhole

LEMMA InvPlace == BlackIsAccepted /\ Inv => PartHasItsRoom /\ LentFrameKeepsItsPlace
  <1> SUFFICES ASSUME BlackIsAccepted, Inv PROVE PartHasItsRoom /\ LentFrameKeepsItsPlace
    OBVIOUS
  <1>1. PartRoom(tx) /\ LentRoom(tx) /\ Rests(tx) /\ PartPlace(tx) /\ LentPlace(tx)
    BY DEF Inv, SideInv, RoomInv, PlaceInv
  <1>2. PartHasItsRoom
    BY <1>1 DEF PartRoom, LentRoom, Rests, PartPlace, PartHasItsRoom
  <1>3. LentFrameKeepsItsPlace
    BY <1>1 DEF LentRoom, LentPlace, LentFrameKeepsItsPlace, Inv, WriteInv
  <1> QED BY <1>2, <1>3

\* The variables have their types: at most one detach waits, whatever the number of threads,
\* and the side's counts and offsets stay in their ranges.
THEOREM TypeCorrect == ASSUME CallsInTurn PROVE Spec => []TypeOK
  BY AlwaysInv, InvTypes, PTL

\* One thread keeps the signal, one write is in progress, and no call that has let go of the
\* lock loses its side (DtSdiTx.c:489, DtOutpChannel.c:167-169).
THEOREM CallsKeepApartHolds == ASSUME CallsInTurn PROVE Spec => []CallsKeepApart
  BY AlwaysInv, InvApart, PTL

\* The count of unsent frames never falls below what the card has (DtSdiTx.c:281-290).
THEOREM UnsentIsNoLessHolds == ASSUME CallsInTurn PROVE Spec => []UnsentIsNoLess
  BY AlwaysInv, InvUnsent, PTL

\* Every frame the card may take is whole and has the ID of its place, black frames and parts
\* that move for them included (DtSdiTx.c:338-344).
THEOREM CommittedFramesAreWholeHolds ==
  ASSUME CallsInTurn, BlackIsAccepted
  PROVE  Spec => []CommittedFramesAreWhole
  <1>1. Inv => CommittedFramesAreWhole
    BY InvWhole
  <1> QED BY AlwaysInv, <1>1, PTL

\* A part and a lent frame keep their place at the write offset, and in a lending run nothing
\* but the program's frame goes (DtSdiTx.c:144, 150-156).
THEOREM WorkKeepsItsPlaceHolds ==
  ASSUME CallsInTurn, BlackIsAccepted
  PROVE  Spec => WorkKeepsItsPlace
  <1>1. Inv => PartHasItsRoom /\ LentFrameKeepsItsPlace
    BY InvPlace
  <1>2. Inv /\ [Next]_vars
        => [tx.lending /\ tx'.lending /\ tx'.next # tx.next => tx.lent # {} /\ tx.built]_vars
    BY StepInv DEF LentGoes
  <1>3. Spec => OnlyTheLentFrameGoes
    BY AlwaysInv, <1>2, PTL DEF Spec, OnlyTheLentFrameGoes
  <1> QED BY AlwaysInv, <1>1, <1>3, PTL DEF WorkKeepsItsPlace
===============================================================================
