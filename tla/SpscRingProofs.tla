--------------------------- MODULE SpscRingProofs ---------------------------
(***************************************************************************)
(* Theorems about SpscRing, for any size of the ring, any place where      *)
(* positions wrap, and batches of any size.                                *)
(*                                                                         *)
(* What the positions are never matters, only how far they are apart: the  *)
(* distances below are at most Size, so they fit below Wrap, and a slot is *)
(* known by its distance from the tail's.                                  *)
(***************************************************************************)
EXTENDS SpscRing, SequenceTheorems, TLAPS

(* The elements published and not given back; those of them the consumer   *)
(* knows of; and those the producer has to reckon with.                    *)
Published == Minus(atomic_head, atomic_tail)
Seen      == Minus(cons_head, atomic_tail)
Reckoned  == Minus(atomic_head, prod_tail)

(* The producer constructs no more than fits behind what it reckons with.  *)
ProducerInv ==
  /\ pc["producer"] \in {"idle", "count", "loadTail", "construct", "storeHead"}
  /\ pc["producer"] \in {"idle", "count", "loadTail"} => built = 0
  /\ pc["producer"] = "loadTail" => left >= 1
  /\ pc["producer"] = "construct" => left >= 1 /\ Reckoned + built + left <= Size
  /\ pc["producer"] = "storeHead" => left = 0 /\ built >= 1
  /\ Published <= Reckoned /\ Reckoned + built <= Size

(* The slots the consumer is at: the first range goes on from the tail's,  *)
(* up to the end of the ring when there is a second; the second starts at  *)
(* slot 0 when the first is destroyed.                                     *)
FirstRange ==
  /\ at = Slot(atomic_tail) + used
  /\ more # NoRange => /\ Slot(atomic_tail) + used + run = Size
                       /\ used + run + more <= Seen

SecondRange ==
  /\ at = Slot(atomic_tail) + used - Size
  /\ Slot(atomic_tail) + gone >= Size
  /\ more = NoRange

AtRest == pc["consumer"] \in {"idle", "count", "loadHead", "destroyed"}
AtWork == pc["consumer"] \in {"consume", "consumeOne", "destroy", "storeTail"}

ConsumerInv ==
  /\ AtRest \/ AtWork
  /\ AtRest => run = 0 /\ more = NoRange /\ used = 0 /\ gone = 0
  /\ AtWork => /\ FirstRange \/ SecondRange
               /\ at + run <= Size
               /\ gone <= used /\ used + run <= Seen
               /\ used + run >= 1
  /\ pc["consumer"] = "consumeOne" => used + run = 1
  /\ pc["consumer"] = "storeTail" => gone = used
  /\ got # None => pc["consumer"] \in {"consume", "consumeOne"} /\ gone < used
  /\ Seen <= Published

(* The destructor runs alone, pops something with each batch, and is done  *)
(* when the ring is empty.                                                 *)
DrainInv ==
  /\ draining => /\ pc["producer"] = "idle" /\ pc["other"] = "idle"
                 /\ pc["consumer"] # "count"
  /\ pc["consumer"] = "destroyed" => draining /\ Published = 0
  /\ draining /\ pc["consumer"] \in {"destroy", "storeTail"} => used >= 1

(* While one of the owners counts, its own position stays.                 *)
CountInv ==
  /\ pc["other"] \in {"idle", "count"}
  /\ pc["producer"] = "count" => head_seen["producer"] = atomic_head
  /\ pc["consumer"] = "count" =>
       Minus(head_seen["consumer"], atomic_tail) <= Published

SInv == TypeOK /\ ProducerInv /\ ConsumerInv /\ DrainInv /\ CountInv

(* How far a slot is from the tail's, and what lives at that distance.     *)
Distance(i) == IF Slot(atomic_tail) <= i THEN i - Slot(atomic_tail)
                                         ELSE i - Slot(atomic_tail) + Size

Live == \A i \in Slots :
          buff[i] # None <=> gone <= Distance(i) /\ Distance(i) < Published + built

IInv == SInv /\ Live

-----------------------------------------------------------------------------
(* Adding to nothing, with the first summand known by name only.           *)
LEMMA NoneMore ==
  ASSUME NEW m, NEW n \in Nat, m = 0
  PROVE  m + n = n
OBVIOUS

(* Remainders.                                                             *)

Rem(p, n) == p % n
Number(n, k, r) == n * k + r

LEMMA QuotientRemainder ==
  ASSUME NEW n \in Nat \ {0}, NEW p \in Int
  PROVE  /\ p = n * (p \div n) + (p % n)
         /\ p \div n \in Int
         /\ p % n \in 0 .. n - 1
OBVIOUS

(* Multiples of n less than n apart are the same.                          *)
LEMMA SameMultiple ==
  ASSUME NEW n \in Nat \ {0}, NEW k \in Int, NEW l \in Int,
         n * k - n * l \in 1 - n .. n - 1
  PROVE  k = l
<1>1. ASSUME NEW d \in Int, n * d > 0 PROVE n * d >= n
  BY <1>1
<1>2. ASSUME NEW d \in Int, n * d < 0 PROVE n * d <= 0 - n
  BY <1>2
<1>3. n * (k - l) = n * k - n * l /\ k - l \in Int
  OBVIOUS
<1>4. n * (k - l) = 0
  BY <1>1, <1>2, <1>3
<1>5. QED
  BY <1>4

LEMMA Remainder ==
  ASSUME NEW n \in Nat \ {0}, NEW k \in Int, NEW r \in 0 .. n - 1
  PROVE  Rem(Number(n, k, r), n) = r
<1> DEFINE p == Number(n, k, r)
           l == p \div n
           m == p % n
<1>1. p \in Int /\ p = n * k + r
  BY DEF Number
<1> HIDE DEF p
<1>2. p = n * l + m /\ l \in Int /\ m \in 0 .. n - 1
  BY <1>1, QuotientRemainder
<1> HIDE DEF l, m
<1>3. n * k \in Int /\ n * l \in Int
  BY <1>2
<1>4. n * k - n * l \in 1 - n .. n - 1
  BY <1>1, <1>2, <1>3
<1>5. k = l
  BY <1>2, <1>4, SameMultiple
<1>6. m = r
  BY <1>1, <1>2, <1>3, <1>5
<1>7. QED
  BY <1>6 DEF m, p, Rem

(* A number less than two rounds above or one below needs one subtraction. *)
LEMMA NearRemainder ==
  ASSUME NEW n \in Nat \ {0}, NEW p \in Int, 0 - n <= p, p < 2 * n
  PROVE  Rem(p, n) = IF p < 0 THEN p + n ELSE IF p < n THEN p ELSE p - n
<1>1. ASSUME NEW k \in Int, NEW r \in 0 .. n - 1, p = n * k + r
      PROVE  Rem(p, n) = r
  <2>1. p = Number(n, k, r)
    BY <1>1 DEF Number
  <2>2. Rem(Number(n, k, r), n) = r
    BY Remainder
  <2>3. QED
    BY <2>1, <2>2
<1>2. CASE p < 0
  <2>1. p + n \in 0 .. n - 1 /\ p = n * (0 - 1) + (p + n)
    BY <1>2
  <2>2. Rem(p, n) = p + n
    BY <1>1, <2>1
  <2>3. QED
    BY <1>2, <2>2
<1>3. CASE 0 <= p /\ p < n
  <2>1. p \in 0 .. n - 1 /\ p = n * 0 + p
    BY <1>3
  <2>2. Rem(p, n) = p
    BY <1>1, <2>1
  <2>3. QED
    BY <1>3, <2>2
<1>4. CASE n <= p
  <2>1. p - n \in 0 .. n - 1 /\ p = n * 1 + (p - n)
    BY <1>4
  <2>2. Rem(p, n) = p - n
    BY <1>1, <2>1
  <2>3. QED
    BY <1>4, <2>2
<1>5. QED
  BY <1>2, <1>3, <1>4

-----------------------------------------------------------------------------
(* Positions and slots.                                                    *)

(* Wrap is full rounds, two at least.                                      *)
LEMMA Rounds == \E r \in Nat : r >= 2 /\ Wrap = Size * r
<1>1. Size \in Nat \ {0} /\ Wrap \in Nat \ {0} /\ Wrap > Size /\ Wrap % Size = 0
  BY SizeAssumption, WrapAssumption
<1> DEFINE r == Wrap \div Size
<1>2. Wrap = Size * r + 0 /\ r \in Int
  BY <1>1, QuotientRemainder
<1> HIDE DEF r
<1>3. Size * r = Wrap
  BY <1>1, <1>2
<1>4. r >= 2
  BY <1>1, <1>2, <1>3
<1>5. QED
  BY <1>1, <1>2, <1>3, <1>4

LEMMA Sizes == Size \in Nat \ {0} /\ Wrap \in Nat \ {0} /\ 2 * Size <= Wrap
<1>1. Size \in Nat \ {0} /\ Wrap \in Nat \ {0}
  BY SizeAssumption, WrapAssumption
<1>2. PICK r \in Nat : r >= 2 /\ Wrap = Size * r
  BY Rounds
<1>3. Size * r >= Size * 2
  BY <1>1, <1>2
<1>4. QED
  BY <1>1, <1>2, <1>3

LEMMA PlusValue ==
  ASSUME NEW p \in Positions, NEW n \in 0 .. Size
  PROVE  /\ Plus(p, n) = IF p + n < Wrap THEN p + n ELSE p + n - Wrap
         /\ Plus(p, n) \in Positions
<1> DEFINE z == p + n
<1>0. Plus(p, n) = Rem(z, Wrap)
  BY DEF Plus, Rem
<1>1. p \in Int /\ n \in Int /\ 0 <= p /\ z \in Int /\ 0 <= z /\ z < 2 * Wrap
  BY Sizes DEF Positions
<1> HIDE DEF z
<1>2. Rem(z, Wrap) = IF z < Wrap THEN z ELSE z - Wrap
  BY <1>1, NearRemainder, Sizes
<1>3. Rem(z, Wrap) \in Positions
  BY <1>1, <1>2, Sizes DEF Positions
<1>4. Plus(p, n) = Rem(z, Wrap) /\ z = p + n
  BY <1>0 DEF z
<1>5. QED
  BY <1>1, <1>2, <1>3, <1>4, Sizes

LEMMA MinusValue ==
  ASSUME NEW p \in Positions, NEW q \in Positions
  PROVE  /\ Minus(p, q) = IF q <= p THEN p - q ELSE p - q + Wrap
         /\ Minus(p, q) \in Positions
<1> DEFINE z == p - q
<1>1. /\ p \in Int /\ q \in Int /\ z \in Int /\ 0 - Wrap <= z /\ z < Wrap
      /\ z < 0 <=> ~(q <= p)
  BY Sizes DEF Positions
<1> HIDE DEF z
<1>2. Rem(z, Wrap) = IF z < 0 THEN z + Wrap ELSE z
  BY <1>1, NearRemainder, Sizes
<1>3. Rem(z, Wrap) \in Positions
  BY <1>1, <1>2, Sizes DEF Positions
<1>4. Rem(z, Wrap) = IF q <= p THEN z ELSE z + Wrap
  BY <1>1, <1>2
<1>5. QED
  BY <1>3, <1>4 DEF Minus, z, Rem

(* Moving the first position away, the second towards it, or one of them   *)
(* to the other.                                                           *)
LEMMA MinusPlus ==
  ASSUME NEW p \in Positions, NEW q \in Positions, NEW n \in 0 .. Size,
         Minus(p, q) + n < Wrap
  PROVE  Minus(Plus(p, n), q) = Minus(p, q) + n
<1>1. Plus(p, n) \in Positions /\ Plus(p, n) = IF p + n < Wrap THEN p + n ELSE p + n - Wrap
  BY PlusValue
<1>2. Minus(Plus(p, n), q) =
        IF q <= Plus(p, n) THEN Plus(p, n) - q ELSE Plus(p, n) - q + Wrap
  BY <1>1, MinusValue
<1>3. Minus(p, q) = IF q <= p THEN p - q ELSE p - q + Wrap
  BY MinusValue
<1>4. QED
  BY <1>1, <1>2, <1>3, Sizes DEF Positions

LEMMA MinusPlusSecond ==
  ASSUME NEW p \in Positions, NEW q \in Positions, NEW n \in 0 .. Size,
         n <= Minus(p, q)
  PROVE  Minus(p, Plus(q, n)) = Minus(p, q) - n
<1>1. Plus(q, n) \in Positions /\ Plus(q, n) = IF q + n < Wrap THEN q + n ELSE q + n - Wrap
  BY PlusValue
<1>2. Minus(p, Plus(q, n)) =
        IF Plus(q, n) <= p THEN p - Plus(q, n) ELSE p - Plus(q, n) + Wrap
  BY <1>1, MinusValue
<1>3. Minus(p, q) = IF q <= p THEN p - q ELSE p - q + Wrap
  BY MinusValue
<1>4. QED
  BY <1>1, <1>2, <1>3, Sizes DEF Positions

LEMMA MinusSame ==
  ASSUME NEW p \in Positions
  PROVE  Minus(p, p) = 0
BY MinusValue DEF Positions

LEMMA PlusMinus ==
  ASSUME NEW p \in Positions, NEW q \in Positions, Minus(p, q) <= Size
  PROVE  Plus(q, Minus(p, q)) = p
<1>1. Minus(p, q) = IF q <= p THEN p - q ELSE p - q + Wrap
  BY MinusValue
<1> DEFINE n == Minus(p, q)
<1>2. n \in 0 .. Size /\ n = IF q <= p THEN p - q ELSE p - q + Wrap
  BY <1>1, Sizes DEF Positions
<1> HIDE DEF n
<1>3. Plus(q, n) = IF q + n < Wrap THEN q + n ELSE q + n - Wrap
  BY <1>2, PlusValue
<1>4. Plus(q, n) = p
  BY <1>2, <1>3, Sizes DEF Positions
<1>5. QED
  BY <1>4 DEF n

LEMMA SlotType ==
  ASSUME NEW p \in Positions
  PROVE  Slot(p) \in Slots
BY Sizes, QuotientRemainder DEF Slot, Slots, Positions

(* The slots go round as the positions do, since Wrap is full rounds.      *)
LEMMA SlotPlus ==
  ASSUME NEW p \in Positions, NEW n \in 0 .. Size
  PROVE  Slot(Plus(p, n)) = IF Slot(p) + n < Size THEN Slot(p) + n
                                                 ELSE Slot(p) + n - Size
<1> DEFINE k == p \div Size
           s == p % Size
           w == IF Slot(p) + n < Size THEN Slot(p) + n ELSE Slot(p) + n - Size
           j == IF Slot(p) + n < Size THEN k ELSE k + 1
<1>1. p = Size * k + s /\ k \in Int /\ s \in 0 .. Size - 1 /\ Slot(p) = s
  BY Sizes, QuotientRemainder DEF Positions, Slot
<1>2. PICK r \in Nat : Wrap = Size * r
  BY Rounds
<1> HIDE DEF s, k
<1>3. j \in Int /\ w \in 0 .. Size - 1 /\ p + n \in Int
  BY <1>1, Sizes DEF Positions
<1>4. p + n = Size * j + w
  <2>1. Size * (k + 1) = Size * k + Size
    BY <1>1, Sizes
  <2>2. QED
    BY <1>1, <2>1, Sizes
<1> HIDE DEF j, w
<1>5. p + n - Wrap = Size * (j - r) + w /\ j - r \in Int
  <2> DEFINE x == Size * j
             y == Size * r
             z == Size * (j - r)
  <2>1. z = x - y /\ x \in Int /\ y \in Int
    BY <1>2, <1>3, Sizes
  <2>2. p + n = x + w /\ Wrap = y
    BY <1>2, <1>4
  <2> HIDE DEF x, y, z
  <2>3. p + n - Wrap = z + w
    BY <1>1, <1>3, <2>1, <2>2, Sizes DEF Positions
  <2>4. QED
    BY <1>2, <1>3, <2>3 DEF z
<1>6. Plus(p, n) = p + n \/ Plus(p, n) = p + n - Wrap
  BY PlusValue
<1>7. Plus(p, n) = Number(Size, j, w) \/ Plus(p, n) = Number(Size, j - r, w)
  BY <1>4, <1>5, <1>6 DEF Number
<1>8. Rem(Plus(p, n), Size) = w
  BY <1>3, <1>5, <1>7, Remainder, Sizes
<1>9. QED
  BY <1>8 DEF Slot, w, Rem

-----------------------------------------------------------------------------
(* The invariant's structure: everything but the elements.                 *)

LEMMA DistanceTypes ==
  ASSUME TypeOK
  PROVE  /\ Published \in Positions /\ Seen \in Positions /\ Reckoned \in Positions
         /\ Slot(atomic_tail) \in 0 .. Size - 1
         /\ atomic_head \in Positions /\ atomic_tail \in Positions
         /\ prod_tail \in Positions /\ cons_head \in Positions
<1>1. /\ atomic_head \in Positions /\ atomic_tail \in Positions
      /\ prod_tail \in Positions /\ cons_head \in Positions
  BY DEF TypeOK
<1>2. QED
  BY <1>1, MinusValue, SlotType DEF Published, Seen, Reckoned, Slots

(* Two threads stay where they are when the third one moves.               *)
LEMMA Moves ==
  ASSUME TypeOK, NEW t \in Threads, NEW l, GoTo(t, l)
  PROVE  pc'[t] = l /\ \A u \in Threads : u # t => pc'[u] = pc[u]
BY DEF GoTo, TypeOK

LEMMA InitIInv == Init => IInv
<1> SUFFICES ASSUME Init PROVE IInv
  OBVIOUS
<1>1. 0 \in Positions
  BY Sizes DEF Positions
<1>2. Published = 0 /\ Seen = 0 /\ Reckoned = 0
  BY <1>1, MinusSame DEF Init, Published, Seen, Reckoned
<1>3. TypeOK
  <2>1. /\ {atomic_head, prod_tail, atomic_tail, cons_head, count} \subseteq Positions
        /\ head_seen \in [Threads -> Positions]
    BY <1>1 DEF Init
  <2>2. /\ left \in 0 .. Size + 1 /\ built \in 0 .. Size
        /\ {at, run, used, gone} \subseteq 0 .. Size
    BY Sizes DEF Init
  <2>3. QED
    BY <2>1, <2>2 DEF Init, TypeOK
<1>4. ProducerInv
  BY <1>2, Sizes DEF Init, ProducerInv, Threads
<1>5. ConsumerInv
  BY <1>2 DEF Init, ConsumerInv, AtRest, AtWork, Threads
<1>6. DrainInv /\ CountInv
  BY DEF Init, DrainInv, CountInv, Threads
<1>7. Live
  <2>1. ASSUME NEW i \in Slots PROVE Distance(i) >= 0 /\ buff[i] = None
    BY <1>1, <1>3, DistanceTypes, Sizes DEF Distance, Slots, Init
  <2>2. QED
    BY <1>2, <2>1, Sizes DEF Live, Distance, Slots, Init, Slot
<1>8. QED
  BY <1>3, <1>4, <1>5, <1>6, <1>7 DEF IInv, SInv

(* A step of the producer that publishes nothing.                          *)
LEMMA ProducerStays ==
  ASSUME SInv,
         UNCHANGED <<atomic_head, atomic_tail, cons_head, consumer, counter, draining>>,
         pc["producer"] # "count", pc'["producer"] # "count",
         draining => pc'["producer"] = "idle",
         pc'["consumer"] = pc["consumer"], pc'["other"] = pc["other"]
  PROVE  ConsumerInv' /\ DrainInv' /\ CountInv'
<1>1. Published' = Published /\ Seen' = Seen
  BY DEF Published, Seen
<1>2. ConsumerInv'
  BY <1>1 DEF SInv, ConsumerInv, AtRest, AtWork, FirstRange, SecondRange, consumer
<1>3. DrainInv'
  BY <1>1 DEF SInv, DrainInv, consumer
<1>4. CountInv'
  BY <1>1 DEF SInv, CountInv, counter
<1>5. QED
  BY <1>2, <1>3, <1>4

LEMMA BeginPushSInv ==
  ASSUME SInv, NEW n \in 1 .. Size + 1, BeginPush(n)
  PROVE  SInv'
<1>1. /\ pc["producer"] = "idle" /\ pc'["producer"] \in {"loadTail", "construct"}
      /\ pc'["consumer"] = pc["consumer"] /\ pc'["other"] = pc["other"]
      /\ pc'["producer"] = "construct" => ~(Size - Reckoned < n)
      /\ left' = n /\ ~draining
      /\ UNCHANGED <<ring, built, consumer, counter, draining>>
  BY Moves DEF SInv, BeginPush, Threads, Free, Reckoned
<1>2. Published' = Published /\ Reckoned' = Reckoned
  BY <1>1 DEF Published, Reckoned, ring
<1>3. TypeOK'
  BY <1>1, Sizes DEF SInv, TypeOK, BeginPush, GoTo, ring, consumer, counter
<1>4. ProducerInv'
  BY <1>1, <1>2, DistanceTypes, Sizes DEF SInv, ProducerInv, Positions
<1>5. QED
  BY <1>1, <1>3, <1>4, ProducerStays DEF SInv, ring

LEMMA LoadTailSInv ==
  ASSUME SInv, LoadTail
  PROVE  SInv'
<1>1. /\ pc["producer"] = "loadTail"
      /\ pc'["producer"] = IF left' = 0 THEN "idle" ELSE "construct"
      /\ pc'["consumer"] = pc["consumer"] /\ pc'["other"] = pc["other"]
      /\ prod_tail' = atomic_tail /\ left' = Least(left, Size - Published)
      /\ UNCHANGED <<atomic_head, atomic_tail, cons_head, buff, built, consumer,
                     counter, draining>>
  BY Moves DEF SInv, LoadTail, Threads, Free, Published
<1>2. Published' = Published /\ Reckoned' = Published
  BY <1>1 DEF Published, Reckoned
<1>3. left' \in 0 .. Size /\ left' <= Size - Published
  BY <1>1, DistanceTypes, Sizes DEF SInv, ProducerInv, TypeOK, Least, Positions
<1>4. TypeOK'
  BY <1>1, <1>3, Sizes DEF SInv, TypeOK, LoadTail, GoTo, consumer, counter
<1>5. ProducerInv'
  BY <1>1, <1>2, <1>3, DistanceTypes, Sizes DEF SInv, ProducerInv, Positions
<1>6. ~draining
  BY <1>1 DEF SInv, DrainInv
<1>7. QED
  BY <1>1, <1>4, <1>5, <1>6, ProducerStays DEF SInv

LEMMA ConstructSInv ==
  ASSUME SInv, NEW v \in Values, Construct(v)
  PROVE  SInv'
<1>1. /\ pc["producer"] = "construct"
      /\ pc'["producer"] = IF left' = 0 THEN "storeHead" ELSE "construct"
      /\ pc'["consumer"] = pc["consumer"] /\ pc'["other"] = pc["other"]
      /\ built' = built + 1 /\ left' = left - 1
      /\ UNCHANGED <<atomic_head, prod_tail, atomic_tail, cons_head, consumer,
                     counter, draining>>
  BY Moves DEF SInv, Construct, Threads
<1>2. Published' = Published /\ Reckoned' = Reckoned
  BY <1>1 DEF Published, Reckoned
<1>3. /\ left >= 1 /\ Reckoned + built + left <= Size /\ Reckoned \in Nat
      /\ left \in Nat /\ built \in Nat
  BY <1>1, DistanceTypes DEF SInv, ProducerInv, TypeOK, Positions
<1>4. TypeOK'
  <2>1. left' \in 0 .. Size + 1 /\ built' \in 0 .. Size
    BY <1>1, <1>3, Sizes
  <2>2. buff' \in [Slots -> Values \cup {None}] /\ pc' = [pc EXCEPT !["producer"] = pc'["producer"]]
    BY <1>1 DEF SInv, TypeOK, Construct, GoTo, Threads
  <2>3. QED
    BY <1>1, <2>1, <2>2 DEF SInv, TypeOK, consumer, counter
<1>5. ProducerInv'
  BY <1>1, <1>2, <1>3, DistanceTypes, Sizes DEF SInv, ProducerInv, Positions
<1>6. ~draining
  BY <1>1 DEF SInv, DrainInv
<1>7. QED
  BY <1>1, <1>4, <1>5, <1>6, ProducerStays DEF SInv

LEMMA ConstructThrowsSInv ==
  ASSUME SInv, ConstructThrows
  PROVE  SInv'
<1>1. /\ pc["producer"] = "construct" /\ pc'["producer"] = "idle"
      /\ pc'["consumer"] = pc["consumer"] /\ pc'["other"] = pc["other"]
      /\ built = 0 /\ left' = 0
      /\ UNCHANGED <<ring, built, consumer, counter, draining>>
  BY Moves DEF SInv, ConstructThrows, Threads
<1>2. Published' = Published /\ Reckoned' = Reckoned
  BY <1>1 DEF Published, Reckoned, ring
<1>3. TypeOK'
  BY <1>1, Sizes DEF SInv, TypeOK, ConstructThrows, GoTo, ring, consumer, counter
<1>4. ProducerInv'
  BY <1>1, <1>2, DistanceTypes, Sizes DEF SInv, ProducerInv, Positions
<1>5. QED
  BY <1>1, <1>3, <1>4, ProducerStays DEF SInv, ring

LEMMA StoreHeadSInv ==
  ASSUME SInv, StoreHead
  PROVE  /\ SInv'
         /\ Published' = Published + built /\ built' = 0
<1>1. /\ pc["producer"] = "storeHead" /\ pc'["producer"] = "idle"
      /\ pc'["consumer"] = pc["consumer"] /\ pc'["other"] = pc["other"]
      /\ atomic_head' = Plus(atomic_head, built) /\ built' = 0
      /\ UNCHANGED <<prod_tail, atomic_tail, cons_head, buff, left, consumer,
                     counter, draining>>
  BY Moves DEF SInv, StoreHead, Threads
<1>2. /\ built \in 0 .. Size /\ Reckoned + built <= Size /\ Published <= Reckoned
      /\ Published \in Positions /\ Reckoned \in Positions /\ Seen \in Positions
      /\ atomic_head \in Positions /\ atomic_tail \in Positions /\ prod_tail \in Positions
      /\ ~draining
  BY <1>1, DistanceTypes DEF SInv, TypeOK, ProducerInv, DrainInv
<1>3. /\ Published' = Published + built /\ Reckoned' = Reckoned + built /\ Seen' = Seen
      /\ atomic_head' \in Positions
  <2>1. Published + built < Wrap /\ Reckoned + built < Wrap
    BY <1>2, Sizes DEF Positions
  <2>2. /\ Minus(Plus(atomic_head, built), atomic_tail) = Published + built
        /\ Minus(Plus(atomic_head, built), prod_tail) = Reckoned + built
    BY <1>2, <2>1, MinusPlus DEF Published, Reckoned
  <2>3. QED
    BY <1>1, <1>2, <2>2, PlusValue DEF Published, Reckoned, Seen
<1>4. TypeOK'
  BY <1>1, <1>3, Sizes DEF SInv, TypeOK, StoreHead, GoTo, consumer, counter
<1>5. ProducerInv'
  BY <1>1, <1>2, <1>3, Sizes DEF SInv, ProducerInv, Positions
<1>6. ConsumerInv'
  BY <1>1, <1>2, <1>3 DEF SInv, ConsumerInv, AtRest, AtWork, FirstRange, SecondRange, consumer,
     Positions
<1>7. DrainInv'
  BY <1>1, <1>2 DEF SInv, DrainInv, consumer
<1>8. CountInv'
  <2>1. pc["consumer"] = "count" => Minus(head_seen["consumer"], atomic_tail) \in Nat
    BY <1>2, MinusValue DEF SInv, TypeOK, Threads, Positions
  <2>2. QED
    BY <1>1, <1>2, <1>3, <2>1 DEF SInv, CountInv, counter, Positions
<1>9. QED
  BY <1>1, <1>3, <1>4, <1>5, <1>6, <1>7, <1>8 DEF SInv

(* A step of the consumer that gives nothing back.                         *)
LEMMA ConsumerStays ==
  ASSUME SInv,
         UNCHANGED <<atomic_head, prod_tail, atomic_tail, producer, counter, draining>>,
         pc["consumer"] # "count", pc'["consumer"] # "count",
         pc'["producer"] = pc["producer"], pc'["other"] = pc["other"]
  PROVE  /\ ProducerInv' /\ CountInv'
         /\ Published' = Published
         /\ (pc'["consumer"] # "destroyed" /\
             (draining /\ pc'["consumer"] \in {"destroy", "storeTail"} => used' >= 1))
              => DrainInv'
<1>1. Published' = Published /\ Reckoned' = Reckoned
  BY DEF Published, Reckoned
<1>2. ProducerInv'
  BY <1>1 DEF SInv, ProducerInv, producer
<1>3. CountInv'
  BY <1>1 DEF SInv, CountInv, counter
<1>4. QED
  BY <1>1, <1>2, <1>3 DEF SInv, DrainInv

(* The facts about the ring that the consumer's steps need.                *)
LEMMA RingFacts ==
  ASSUME SInv
  PROVE  /\ Published \in 0 .. Size /\ Seen \in 0 .. Size /\ Seen <= Published
         /\ Reckoned \in 0 .. Size /\ Published <= Reckoned
         /\ Slot(atomic_tail) \in 0 .. Size - 1
         /\ atomic_head \in Positions /\ atomic_tail \in Positions
         /\ prod_tail \in Positions /\ cons_head \in Positions
         /\ Size \in Nat \ {0}
         /\ at \in 0 .. Size /\ run \in 0 .. Size /\ used \in 0 .. Size
         /\ gone \in 0 .. Size /\ built \in 0 .. Size
         /\ more \in {NoRange} \cup 0 .. Size
<1>1. /\ Published \in Positions /\ Seen \in Positions /\ Reckoned \in Positions
      /\ Slot(atomic_tail) \in 0 .. Size - 1
      /\ atomic_head \in Positions /\ atomic_tail \in Positions
      /\ prod_tail \in Positions /\ cons_head \in Positions
  BY DistanceTypes DEF SInv
<1>2. /\ at \in 0 .. Size /\ run \in 0 .. Size /\ used \in 0 .. Size
      /\ gone \in 0 .. Size /\ built \in 0 .. Size
      /\ more \in {NoRange} \cup 0 .. Size
  BY DEF SInv, TypeOK
<1>3. Published <= Reckoned /\ Reckoned + built <= Size /\ Seen <= Published
  BY DEF SInv, ProducerInv, ConsumerInv
<1>4. QED
  BY <1>1, <1>2, <1>3, Sizes DEF Positions

(* The ranges that a call starts with.                                     *)
LEMMA RangesFacts ==
  ASSUME SInv, NEW batch \in BOOLEAN, NEW avail \in 1 .. Size, Ranges(batch, avail)
  PROVE  /\ at' = Slot(atomic_tail) /\ run' >= 1
         /\ at' \in 0 .. Size /\ run' \in 0 .. Size
         /\ more' \in {NoRange} \cup 0 .. Size
         /\ at' + run' <= Size /\ run' <= avail
         /\ ~batch => run' = 1
         /\ more' # NoRange => at' + run' = Size /\ run' + more' <= avail
         /\ pc' = [pc EXCEPT !["consumer"] = IF batch THEN "consume" ELSE "consumeOne"]
<1> DEFINE s == Slot(atomic_tail)
           end == Slot(Plus(atomic_tail, avail))
<1>1. s \in 0 .. Size - 1 /\ Size \in Nat \ {0} /\ atomic_tail \in Positions
  BY RingFacts
<1>2. avail \in 0 .. Size
  BY <1>1
<1>3. end = IF s + avail < Size THEN s + avail ELSE s + avail - Size
  BY <1>1, <1>2, SlotPlus
<1>4. /\ at' = s
      /\ run' = IF ~batch THEN 1 ELSE IF end > s THEN avail ELSE Size - s
      /\ more' = IF batch /\ end <= s THEN end ELSE NoRange
      /\ pc' = [pc EXCEPT !["consumer"] = IF batch THEN "consume" ELSE "consumeOne"]
  BY DEF Ranges, GoTo
<1> HIDE DEF s, end
<1>5. /\ run' >= 1 /\ run' \in 0 .. Size /\ at' \in 0 .. Size
      /\ at' + run' <= Size /\ run' <= avail
      /\ ~batch => run' = 1
  BY <1>1, <1>3, <1>4
<1>6. /\ more' \in {NoRange} \cup 0 .. Size
      /\ more' # NoRange => at' + run' = Size /\ run' + more' <= avail
  <2>1. CASE batch /\ end <= s
    <3>1. ~(s + avail < Size) /\ end = s + avail - Size
      BY <1>1, <1>3, <2>1
    <3>2. more' = end /\ run' = Size - s
      BY <1>1, <1>3, <1>4, <2>1, <3>1
    <3>3. QED
      BY <1>1, <1>4, <3>1, <3>2
  <2>2. CASE ~(batch /\ end <= s)
    BY <1>4, <2>2
  <2>3. QED
    BY <2>1, <2>2
<1>7. QED
  BY <1>4, <1>5, <1>6 DEF s

LEMMA CallBegins ==
  ASSUME FirstRange', AtWork', ~AtRest', used' = 0, gone' = 0, got' = None,
         at' + run' <= Size, used' + run' >= 1, used' + run' <= Seen',
         pc'["consumer"] # "storeTail",
         pc'["consumer"] = "consumeOne" => used' + run' = 1,
         Seen' <= Published'
  PROVE  ConsumerInv'
<1>1. gone' <= used'
  OBVIOUS
<1>2. QED
  BY <1>1, Zenon DEF ConsumerInv

LEMMA BeginConsumeSInv ==
  ASSUME SInv, NEW batch \in BOOLEAN, BeginConsume(batch)
  PROVE  SInv'
<1>1. /\ pc["consumer"] = "idle" /\ Seen # 0 /\ Ranges(batch, Seen)
      /\ UNCHANGED <<ring, producer, used, gone, got, counter, draining>>
  BY DEF BeginConsume, Seen
<1>2. Seen \in 1 .. Size /\ Seen <= Published
  BY <1>1, RingFacts
<1>3. /\ at' = Slot(atomic_tail) /\ run' >= 1
      /\ at' \in 0 .. Size /\ run' \in 0 .. Size
      /\ more' \in {NoRange} \cup 0 .. Size
      /\ at' + run' <= Size /\ run' <= Seen
      /\ ~batch => run' = 1
      /\ more' # NoRange => at' + run' = Size /\ run' + more' <= Seen
      /\ pc' = [pc EXCEPT !["consumer"] = IF batch THEN "consume" ELSE "consumeOne"]
  BY <1>1, <1>2, RangesFacts
<1>4. /\ pc'["consumer"] = IF batch THEN "consume" ELSE "consumeOne"
      /\ pc'["producer"] = pc["producer"] /\ pc'["other"] = pc["other"]
  BY <1>3, Moves DEF SInv, Threads, GoTo
<1>5. used = 0 /\ gone = 0 /\ got = None /\ used' = 0 /\ gone' = 0 /\ got' = None
  BY <1>1 DEF SInv, ConsumerInv, AtRest
<1>6. TypeOK'
  BY <1>1, <1>3 DEF SInv, TypeOK, ring, producer, counter
<1>7. ProducerInv' /\ CountInv' /\ DrainInv' /\ Published' = Published /\ Seen' = Seen
  BY <1>1, <1>4, ConsumerStays DEF ring, Seen
<1>8. ConsumerInv'
  <2>1. atomic_tail' = atomic_tail /\ Slot(atomic_tail) \in 0 .. Size - 1
    BY <1>1, RingFacts DEF ring
  <2>2. FirstRange'
    BY <1>2, <1>3, <1>5, <1>7, <2>1 DEF FirstRange
  <2>3. AtWork' /\ ~AtRest' /\ (pc'["consumer"] = "consumeOne" => run' = 1)
        /\ pc'["consumer"] # "storeTail"
    BY <1>3, <1>4 DEF AtRest, AtWork
  <2>4. used' + run' >= 1 /\ used' + run' <= Seen' /\ (run' = 1 => used' + run' = 1)
    <3>1. run' \in Nat /\ used' = 0
      BY <1>3, <1>5, Sizes
    <3>2. used' + run' = run'
      BY <3>1, NoneMore
    <3>3. run' >= 1 /\ run' <= Seen'
      BY <1>3, <1>7
    <3>4. QED
      BY <3>2, <3>3, Zenon
  <2>5. QED
    BY <1>2, <1>3, <1>5, <1>7, <2>2, <2>3, <2>4, CallBegins
<1>9. QED
  BY <1>6, <1>7, <1>8 DEF SInv

LEMMA BeginConsumeEmptySInv ==
  ASSUME SInv, BeginConsumeEmpty
  PROVE  SInv'
<1>1. /\ pc["consumer"] = "idle" /\ pc'["consumer"] = "loadHead"
      /\ pc'["producer"] = pc["producer"] /\ pc'["other"] = pc["other"]
      /\ UNCHANGED <<ring, producer, consumer, counter, draining>>
  BY Moves DEF SInv, BeginConsumeEmpty, Threads
<1>2. TypeOK'
  BY <1>1 DEF SInv, TypeOK, BeginConsumeEmpty, GoTo, ring, producer, consumer, counter
<1>3. ProducerInv' /\ CountInv' /\ DrainInv' /\ Published' = Published /\ Seen' = Seen
  BY <1>1, ConsumerStays DEF ring, Seen
<1>4. ConsumerInv'
  BY <1>1, <1>3 DEF SInv, ConsumerInv, AtRest, AtWork, consumer
<1>5. QED
  BY <1>2, <1>3, <1>4 DEF SInv

LEMMA LoadHeadSInv ==
  ASSUME SInv, NEW batch \in BOOLEAN, LoadHead(batch)
  PROVE  SInv'
<1>1. /\ pc["consumer"] = "loadHead" /\ cons_head' = atomic_head
      /\ UNCHANGED <<atomic_head, prod_tail, atomic_tail, buff, producer, used,
                     gone, got, counter, draining>>
      /\ \/ Published = 0 /\ GoTo("consumer", AfterCall(0)) /\ UNCHANGED <<at, run, more>>
         \/ Published # 0 /\ Ranges(batch, Published)
  BY DEF LoadHead, Published
<1>2. used = 0 /\ gone = 0 /\ got = None /\ used' = 0 /\ gone' = 0 /\ got' = None
  BY <1>1 DEF SInv, ConsumerInv, AtRest
<1>3. Published \in 0 .. Size /\ Seen' = Published /\ Published' = Published
  BY <1>1, RingFacts DEF Seen, Published
<1>4. atomic_head \in Positions
  BY RingFacts
<1>5. CASE Published = 0
  <2>1. /\ pc'["consumer"] = IF draining THEN "destroyed" ELSE "idle"
        /\ pc' = [pc EXCEPT !["consumer"] = pc'["consumer"]]
        /\ pc'["producer"] = pc["producer"] /\ pc'["other"] = pc["other"]
        /\ UNCHANGED <<at, run, more>>
    <3>1. GoTo("consumer", AfterCall(0)) /\ UNCHANGED <<at, run, more>>
      BY <1>1, <1>5
    <3>2. pc'["consumer"] = AfterCall(0)
      BY <3>1, Moves DEF SInv, Threads
    <3>3. QED
      BY <3>1, <3>2, Moves DEF SInv, Threads, AfterCall, IsLast, GoTo
  <2>2. TypeOK'
    BY <1>1, <1>4, <2>1 DEF SInv, TypeOK, producer, counter
  <2>3. ProducerInv' /\ CountInv'
    BY <1>1, <2>1, ConsumerStays
  <2>4. DrainInv'
    BY <1>1, <1>3, <1>5, <2>1 DEF SInv, DrainInv
  <2>5. ConsumerInv'
    BY <1>1, <1>2, <1>3, <1>5, <2>1 DEF SInv, ConsumerInv, AtRest, AtWork
  <2>6. QED
    BY <2>2, <2>3, <2>4, <2>5 DEF SInv
<1>6. CASE Published # 0
  <2>1. Published \in 1 .. Size
    BY <1>3, <1>6
  <2>2. /\ at' = Slot(atomic_tail) /\ run' >= 1
        /\ at' \in 0 .. Size /\ run' \in 0 .. Size
        /\ more' \in {NoRange} \cup 0 .. Size
        /\ at' + run' <= Size /\ run' <= Published
        /\ ~batch => run' = 1
        /\ more' # NoRange => at' + run' = Size /\ run' + more' <= Published
        /\ pc' = [pc EXCEPT !["consumer"] = IF batch THEN "consume" ELSE "consumeOne"]
    BY <1>1, <1>6, <2>1, RangesFacts
  <2>3. /\ pc'["consumer"] = IF batch THEN "consume" ELSE "consumeOne"
        /\ pc'["producer"] = pc["producer"] /\ pc'["other"] = pc["other"]
    BY <2>2, Moves DEF SInv, Threads, GoTo
  <2>4. TypeOK'
    BY <1>1, <1>4, <2>2 DEF SInv, TypeOK, producer, counter
  <2>5. ProducerInv' /\ CountInv' /\ DrainInv'
    BY <1>1, <2>3, ConsumerStays
  <2>6. ConsumerInv'
    <3>1. atomic_tail' = atomic_tail /\ Slot(atomic_tail) \in 0 .. Size - 1
      BY <1>1, RingFacts
    <3>2. FirstRange'
      BY <1>2, <1>3, <2>1, <2>2, <3>1 DEF FirstRange
    <3>3. AtWork' /\ ~AtRest' /\ (pc'["consumer"] = "consumeOne" => run' = 1)
          /\ pc'["consumer"] # "storeTail"
      BY <2>2, <2>3 DEF AtRest, AtWork
    <3>4. used' + run' >= 1 /\ used' + run' <= Seen' /\ (run' = 1 => used' + run' = 1)
      <4>1. run' \in Nat /\ used' = 0
        BY <1>2, <2>2, Sizes
      <4>2. used' + run' = run'
        BY <4>1, NoneMore
      <4>3. run' >= 1 /\ run' <= Seen'
        BY <1>3, <2>2
      <4>4. QED
        BY <4>2, <4>3, Zenon
    <3>5. QED
      <4>1. Seen' <= Published'
        BY <1>3
      <4>2. QED
        BY <1>2, <2>2, <3>2, <3>3, <3>4, <4>1, CallBegins
  <2>7. QED
    BY <2>4, <2>5, <2>6 DEF SInv
<1>7. QED
  BY <1>5, <1>6

LEMMA TakeSInv ==
  ASSUME SInv, Take
  PROVE  SInv'
<1>1. /\ pc["consumer"] \in {"consume", "consumeOne"} /\ run > 0 /\ got = None
      /\ got' = buff[at] /\ at' = at + 1 /\ run' = run - 1 /\ used' = used + 1
      /\ UNCHANGED <<ring, pc, producer, more, gone, counter, draining>>
  BY DEF Take, Consuming
<1>2. /\ FirstRange \/ SecondRange
      /\ at + run <= Size /\ gone <= used /\ used + run <= Seen
      /\ pc["consumer"] = "consumeOne" => used + run = 1
      /\ Seen <= Published
  BY <1>1 DEF SInv, ConsumerInv, AtWork
<1>3. /\ at \in Nat /\ run \in Nat /\ used \in Nat /\ gone \in Nat /\ Size \in Nat
      /\ Seen \in 0 .. Size /\ Slot(atomic_tail) \in Nat
  BY RingFacts
<1>4. TypeOK'
  <2>1. at \in Slots
    BY <1>1, <1>2, <1>3 DEF Slots
  <2>2. got' \in Values \cup {None}
    BY <1>1, <2>1 DEF SInv, TypeOK
  <2>3. at' \in 0 .. Size /\ run' \in 0 .. Size /\ used' \in 0 .. Size
    BY <1>1, <1>2, <1>3
  <2>4. QED
    BY <1>1, <2>2, <2>3 DEF SInv, TypeOK, ring, producer, counter
<1>5. ProducerInv' /\ CountInv' /\ DrainInv' /\ Published' = Published /\ Seen' = Seen
  BY <1>1, ConsumerStays DEF ring, Seen
<1>6. FirstRange' \/ SecondRange'
  <2>1. atomic_tail' = atomic_tail
    BY <1>1 DEF ring
  <2>2. CASE FirstRange
    BY <1>1, <1>3, <1>5, <2>1, <2>2 DEF FirstRange
  <2>3. CASE SecondRange
    BY <1>1, <1>3, <2>1, <2>3 DEF SecondRange
  <2>4. QED
    BY <1>2, <2>2, <2>3
<1>7. ConsumerInv'
  <2>1. /\ at' + run' <= Size /\ gone' < used' /\ gone' <= used'
        /\ used' + run' <= Seen' /\ used' + run' >= 1
        /\ pc["consumer"] = "consumeOne" => used' + run' = 1
    BY <1>1, <1>2, <1>3, <1>5
  <2>2. Seen' <= Published' /\ pc' = pc
    BY <1>1, <1>2, <1>5
  <2>3. QED
    BY <1>1, <1>6, <2>1, <2>2 DEF ConsumerInv, AtRest, AtWork
<1>8. QED
  BY <1>4, <1>5, <1>7 DEF SInv

LEMMA FinishSInv ==
  ASSUME SInv, Finish
  PROVE  SInv'
<1>1. /\ pc["consumer"] \in {"consume", "consumeOne"} /\ got' = None
      /\ UNCHANGED <<ring, pc, producer, at, run, more, used, gone, counter, draining>>
  BY DEF Finish, Consuming
<1>2. TypeOK'
  BY <1>1 DEF SInv, TypeOK, ring, producer, counter
<1>3. ProducerInv' /\ CountInv' /\ DrainInv' /\ Published' = Published /\ Seen' = Seen
  BY <1>1, ConsumerStays DEF ring, Seen
<1>4. ConsumerInv'
  BY <1>1, <1>3 DEF SInv, ConsumerInv, AtRest, AtWork, FirstRange, SecondRange, ring
<1>5. QED
  BY <1>2, <1>3, <1>4 DEF SInv

LEMMA ReturnSInv ==
  ASSUME SInv, Return
  PROVE  SInv'
<1>1. /\ pc["consumer"] \in {"consume", "consumeOne"} /\ got = None
      /\ draining => run = 0 \/ used = DrainBatch
      /\ pc'["consumer"] = "destroy"
      /\ pc'["producer"] = pc["producer"] /\ pc'["other"] = pc["other"]
      /\ UNCHANGED <<ring, producer, consumer, counter, draining>>
  BY Moves DEF SInv, Return, Consuming, Full, Threads
<1>2. TypeOK'
  BY <1>1 DEF SInv, TypeOK, Return, GoTo, ring, producer, consumer, counter
<1>3. used + run >= 1 /\ used \in Nat /\ run \in Nat
  BY <1>1, RingFacts DEF SInv, ConsumerInv, AtWork
<1>4. draining => used >= 1
  BY <1>1, <1>3, DrainBatchAssumption, Sizes
<1>5. ProducerInv' /\ CountInv' /\ DrainInv' /\ Published' = Published /\ Seen' = Seen
  BY <1>1, <1>4, ConsumerStays DEF ring, Seen, consumer
<1>6. ConsumerInv'
  BY <1>1, <1>5 DEF SInv, ConsumerInv, AtRest, AtWork, FirstRange, SecondRange, ring, consumer
<1>7. QED
  BY <1>2, <1>5, <1>6 DEF SInv

(* A call that ends without giving anything back.                          *)
LEMMA CallEnds ==
  ASSUME SInv, pc["consumer"] \in {"consume", "consumeOne"}, got = None,
         NoRanges, GoTo("consumer", "idle"),
         UNCHANGED <<ring, producer, got, counter, draining>>
  PROVE  SInv'
<1>1. /\ pc'["consumer"] = "idle"
      /\ pc'["producer"] = pc["producer"] /\ pc'["other"] = pc["other"]
      /\ at' = 0 /\ run' = 0 /\ more' = NoRange /\ used' = 0 /\ gone' = 0 /\ got' = None
  BY Moves DEF SInv, NoRanges, Threads
<1>2. TypeOK'
  <2>1. at' \in 0 .. Size /\ run' \in 0 .. Size /\ used' \in 0 .. Size /\ gone' \in 0 .. Size
    BY <1>1, Sizes
  <2>2. QED
    BY <1>1, <2>1 DEF SInv, TypeOK, GoTo, ring, producer, counter
<1>3. ProducerInv' /\ CountInv' /\ DrainInv' /\ Published' = Published /\ Seen' = Seen
  BY <1>1, ConsumerStays DEF ring, Seen
<1>4. ConsumerInv'
  BY <1>1, <1>3 DEF SInv, ConsumerInv, AtRest, AtWork
<1>5. QED
  BY <1>2, <1>3, <1>4 DEF SInv

LEMMA RefuseSInv ==
  ASSUME SInv, Refuse
  PROVE  SInv'
<1>1. pc["consumer"] = "consumeOne" /\ run = 1
  BY DEF Refuse
<1>2. got = None
  <2>1. used + run = 1 /\ (got # None => gone < used)
    BY <1>1 DEF SInv, ConsumerInv
  <2>2. used \in Nat /\ gone \in Nat
    BY RingFacts
  <2>3. QED
    BY <1>1, <2>1, <2>2
<1>3. QED
  BY <1>1, <1>2, CallEnds DEF Refuse

LEMMA ThrowSInv ==
  ASSUME SInv, Throw
  PROVE  SInv'
BY CallEnds DEF Throw, Consuming

LEMMA DestroyOneSInv ==
  ASSUME SInv, DestroyOne
  PROVE  /\ SInv'
         /\ at - (used - gone) \in Slots
<1>1. /\ pc["consumer"] = "destroy" /\ gone < used
      /\ buff' = [buff EXCEPT ![at - (used - gone)] = None] /\ gone' = gone + 1
      /\ UNCHANGED <<atomic_head, prod_tail, atomic_tail, cons_head, pc, producer,
                     at, run, more, used, got, counter, draining>>
  BY DEF DestroyOne
<1>2. /\ FirstRange \/ SecondRange
      /\ at + run <= Size /\ gone <= used /\ used + run <= Seen /\ used + run >= 1
      /\ Seen <= Published /\ got = None
  BY <1>1 DEF SInv, ConsumerInv, AtWork
<1>3. /\ at \in Nat /\ run \in Nat /\ used \in 0 .. Size /\ gone \in Nat /\ Size \in Nat
      /\ Seen \in 0 .. Size /\ Slot(atomic_tail) \in 0 .. Size - 1
  BY RingFacts
<1>4. at - (used - gone) \in Slots
  <2>1. CASE FirstRange
    BY <1>1, <1>2, <1>3, <2>1 DEF FirstRange, Slots
  <2>2. CASE SecondRange
    BY <1>1, <1>2, <1>3, <2>2 DEF SecondRange, Slots
  <2>3. QED
    BY <1>2, <2>1, <2>2
<1>5. TypeOK'
  <2>1. gone' \in 0 .. Size
    BY <1>1, <1>3
  <2>2. buff' \in [Slots -> Values \cup {None}]
    BY <1>1 DEF SInv, TypeOK
  <2>3. QED
    BY <1>1, <2>1, <2>2 DEF SInv, TypeOK, producer, counter
<1>6. ProducerInv' /\ CountInv' /\ DrainInv' /\ Published' = Published /\ Seen' = Seen
  <2>1. Seen' = Seen
    BY <1>1 DEF Seen
  <2>2. draining => used' >= 1
    BY <1>1 DEF SInv, DrainInv
  <2>3. QED
    BY <1>1, <2>1, <2>2, ConsumerStays
<1>7. FirstRange' \/ SecondRange'
  <2>1. CASE FirstRange
    BY <1>1, <1>6, <2>1 DEF FirstRange
  <2>2. CASE SecondRange
    BY <1>1, <1>3, <2>2 DEF SecondRange
  <2>3. QED
    BY <1>2, <2>1, <2>2
<1>8. ConsumerInv'
  <2>1. gone' <= used
    BY <1>1, <1>3
  <2>2. QED
    BY <1>1, <1>2, <1>6, <1>7, <2>1 DEF ConsumerInv, AtRest, AtWork
<1>9. QED
  BY <1>4, <1>5, <1>6, <1>8 DEF SInv

LEMMA EndRangeSInv ==
  ASSUME SInv, EndRange
  PROVE  SInv'
<1>1. /\ pc["consumer"] = "destroy" /\ gone = used
      /\ UNCHANGED <<ring, producer, used, gone, got, counter, draining>>
      /\ IF LastRange
         THEN GoTo("consumer", "storeTail") /\ UNCHANGED <<at, run, more>>
         ELSE /\ GoTo("consumer", "consume")
              /\ at' = 0 /\ run' = more /\ more' = NoRange
  BY DEF EndRange
<1>2. /\ FirstRange \/ SecondRange
      /\ at + run <= Size /\ gone <= used /\ used + run <= Seen /\ used + run >= 1
      /\ Seen <= Published /\ got = None
  BY <1>1 DEF SInv, ConsumerInv, AtWork
<1>3. /\ at \in Nat /\ run \in Nat /\ used \in 0 .. Size /\ gone \in Nat /\ Size \in Nat \ {0}
      /\ Seen \in 0 .. Size /\ Slot(atomic_tail) \in 0 .. Size - 1
      /\ more \in {NoRange} \cup 0 .. Size
  BY RingFacts
<1>4. CASE LastRange
  <2>1. /\ pc'["consumer"] = "storeTail"
        /\ pc'["producer"] = pc["producer"] /\ pc'["other"] = pc["other"]
        /\ pc' = [pc EXCEPT !["consumer"] = "storeTail"]
        /\ UNCHANGED <<at, run, more>>
    BY <1>1, <1>4, Moves DEF SInv, Threads, GoTo
  <2>2. TypeOK'
    BY <1>1, <2>1 DEF SInv, TypeOK, ring, producer, counter
  <2>3. draining => used' >= 1
    BY <1>1 DEF SInv, DrainInv
  <2>4. ProducerInv' /\ CountInv' /\ DrainInv' /\ Published' = Published /\ Seen' = Seen
    BY <1>1, <2>1, <2>3, ConsumerStays DEF ring, Seen
  <2>5. ConsumerInv'
    BY <1>1, <1>2, <2>1, <2>4 DEF ConsumerInv, AtRest, AtWork, FirstRange, SecondRange, ring
  <2>6. QED
    BY <2>2, <2>4, <2>5 DEF SInv
<1>5. CASE ~LastRange
  <2>1. /\ pc'["consumer"] = "consume"
        /\ pc'["producer"] = pc["producer"] /\ pc'["other"] = pc["other"]
        /\ pc' = [pc EXCEPT !["consumer"] = "consume"]
        /\ at' = 0 /\ run' = more /\ more' = NoRange
    BY <1>1, <1>5, Moves DEF SInv, Threads, GoTo
  <2>2. run = 0 /\ more # NoRange /\ more \in 0 .. Size
    BY <1>3, <1>5 DEF LastRange
  <2>3. /\ at = Slot(atomic_tail) + used
        /\ Slot(atomic_tail) + used + run = Size
        /\ used + run + more <= Seen
    BY <1>2, <2>2 DEF FirstRange, SecondRange
  <2>4. used + more <= Seen /\ Slot(atomic_tail) + used = Size /\ used >= 1
    BY <1>3, <2>2, <2>3
  <2>5. TypeOK'
    <3>1. at' \in 0 .. Size /\ run' \in 0 .. Size
      BY <1>3, <2>1, <2>2
    <3>2. QED
      BY <1>1, <2>1, <3>1 DEF SInv, TypeOK, ring, producer, counter
  <2>6. ProducerInv' /\ CountInv' /\ DrainInv' /\ Published' = Published /\ Seen' = Seen
    BY <1>1, <2>1, ConsumerStays DEF ring, Seen
  <2>7. SecondRange'
    <3>1. 0 = Slot(atomic_tail) + used - Size /\ Slot(atomic_tail) + gone >= Size
      BY <1>1, <1>3, <2>4
    <3>2. QED
      BY <1>1, <2>1, <3>1 DEF SecondRange, ring
  <2>8. ConsumerInv'
    <3>1. used + more >= 1 /\ 0 + more <= Size
      BY <1>3, <2>2, <2>4
    <3>2. QED
      BY <1>1, <1>2, <2>1, <2>4, <2>6, <2>7, <3>1 DEF ConsumerInv, AtRest, AtWork
  <2>9. QED
    BY <2>5, <2>6, <2>8 DEF SInv
<1>6. QED
  BY <1>4, <1>5

LEMMA StoreTailSInv ==
  ASSUME SInv, StoreTail
  PROVE  /\ SInv'
         /\ Published' = Published - used /\ used <= Published /\ gone = used
         /\ gone' = 0 /\ used' = 0
<1>1. /\ pc["consumer"] = "storeTail" /\ NoRanges
      /\ atomic_tail' = Plus(atomic_tail, used)
      /\ GoTo("consumer", AfterCall(used))
      /\ UNCHANGED <<atomic_head, prod_tail, cons_head, buff, producer, got, counter, draining>>
  BY DEF StoreTail, Consumed
<1>2. /\ used <= Seen /\ Seen <= Published /\ got = None /\ gone = used
      /\ used \in 0 .. Size
  <2>1. /\ used + run <= Seen /\ Seen <= Published /\ gone = used /\ got = None
    BY <1>1 DEF SInv, ConsumerInv, AtWork
  <2>2. used \in 0 .. Size /\ run \in 0 .. Size /\ Seen \in 0 .. Size /\ Size \in Nat
    BY RingFacts
  <2>3. QED
    BY <2>1, <2>2
<1>3. /\ Published \in 0 .. Size /\ Seen \in 0 .. Size /\ Reckoned \in 0 .. Size
      /\ atomic_head \in Positions /\ atomic_tail \in Positions /\ cons_head \in Positions
      /\ Size \in Nat
  BY RingFacts
<1>4. /\ Published' = Published - used /\ Seen' = Seen - used /\ Reckoned' = Reckoned
      /\ atomic_tail' \in Positions
  <2>1. /\ used <= Minus(atomic_head, atomic_tail) /\ used <= Minus(cons_head, atomic_tail)
    BY <1>2, <1>3 DEF Published, Seen
  <2>2. /\ Minus(atomic_head, Plus(atomic_tail, used)) = Minus(atomic_head, atomic_tail) - used
        /\ Minus(cons_head, Plus(atomic_tail, used)) = Minus(cons_head, atomic_tail) - used
    BY <1>2, <1>3, <2>1, MinusPlusSecond
  <2>3. QED
    BY <1>1, <1>2, <1>3, <2>2, PlusValue DEF Published, Seen, Reckoned
<1>5. /\ draining => used >= 1
  BY <1>1 DEF SInv, DrainInv
<1>6. /\ pc'["consumer"] = "idle" /\ pc' = [pc EXCEPT !["consumer"] = "idle"]
      /\ pc'["producer"] = pc["producer"] /\ pc'["other"] = pc["other"]
  <2>1. AfterCall(used) = "idle"
    BY <1>5 DEF AfterCall, IsLast
  <2>2. GoTo("consumer", "idle")
    BY <1>1, <2>1
  <2>3. QED
    BY <2>2, Moves DEF SInv, Threads, GoTo
<1>7. at' = 0 /\ run' = 0 /\ more' = NoRange /\ used' = 0 /\ gone' = 0
  BY <1>1 DEF NoRanges
<1>8. TypeOK'
  <2>1. at' \in 0 .. Size /\ run' \in 0 .. Size /\ used' \in 0 .. Size /\ gone' \in 0 .. Size
    BY <1>7, Sizes
  <2>2. QED
    BY <1>1, <1>4, <1>6, <1>7, <2>1 DEF SInv, TypeOK, producer, counter
<1>9. ProducerInv'
  <2>1. Published' <= Reckoned'
    BY <1>2, <1>3, <1>4 DEF SInv, ProducerInv
  <2>2. QED
    BY <1>1, <1>4, <1>6, <2>1 DEF SInv, ProducerInv, producer
<1>10. ConsumerInv'
  <2>1. Seen' <= Published'
    BY <1>2, <1>3, <1>4
  <2>2. QED
    BY <1>1, <1>2, <1>6, <1>7, <2>1 DEF ConsumerInv, AtRest, AtWork
<1>11. DrainInv' /\ CountInv'
  BY <1>1, <1>6 DEF SInv, DrainInv, CountInv, counter
<1>12. used <= Published
  BY <1>2, <1>3
<1>13. QED
  BY <1>2, <1>4, <1>7, <1>8, <1>9, <1>10, <1>11, <1>12 DEF SInv

-----------------------------------------------------------------------------
LEMMA CountLoadHeadSInv ==
  ASSUME SInv, NEW t \in CountCallers, CountLoadHead(t)
  PROVE  SInv'
<1>1. t \in Threads
  BY CallersAssumption
<1>2. /\ pc[t] = "idle" /\ ~draining /\ pc'[t] = "count"
      /\ \A u \in Threads : u # t => pc'[u] = pc[u]
      /\ head_seen' = [head_seen EXCEPT ![t] = atomic_head]
      /\ UNCHANGED <<ring, producer, consumer, count, draining>>
  BY <1>1, Moves DEF SInv, CountLoadHead
<1>3. Published' = Published /\ Seen' = Seen /\ Reckoned' = Reckoned /\ atomic_tail' = atomic_tail
  BY <1>2 DEF Published, Seen, Reckoned, ring
<1>4. "producer" \in Threads /\ "consumer" \in Threads /\ "other" \in Threads
  BY DEF Threads
<1>5. TypeOK'
  <2>1. head_seen' \in [Threads -> Positions]
    BY <1>2, DistanceTypes DEF SInv, TypeOK
  <2>2. QED
    BY <1>2, <2>1 DEF SInv, TypeOK, CountLoadHead, GoTo, ring, producer, consumer
<1>6. ProducerInv'
  BY <1>1, <1>2, <1>3, <1>4 DEF SInv, ProducerInv, producer
<1>7. ConsumerInv'
  BY <1>1, <1>2, <1>3, <1>4 DEF SInv, ConsumerInv, AtRest, AtWork, FirstRange, SecondRange, consumer
<1>8. DrainInv'
  BY <1>1, <1>2, <1>3, <1>4 DEF SInv, DrainInv
<1>9. CountInv'
  <2>1. pc'["other"] \in {"idle", "count"}
    BY <1>1, <1>2, <1>4 DEF SInv, CountInv
  <2>2. \A u \in Threads : head_seen'[u] = IF u = t THEN atomic_head ELSE head_seen[u]
    BY <1>1, <1>2 DEF SInv, TypeOK
  <2>3. pc'["producer"] = "count" => head_seen'["producer"] = atomic_head'
    BY <1>1, <1>2, <1>4, <2>2 DEF SInv, CountInv, ring
  <2>4. Minus(atomic_head, atomic_tail) <= Published
    BY RingFacts DEF Published
  <2>5. pc'["consumer"] = "count" => Minus(head_seen'["consumer"], atomic_tail) <= Published
    BY <1>1, <1>2, <1>4, <2>2, <2>4 DEF SInv, CountInv
  <2>6. QED
    BY <1>3, <2>1, <2>3, <2>5 DEF CountInv
<1>10. QED
  BY <1>5, <1>6, <1>7, <1>8, <1>9 DEF SInv

LEMMA CountLoadTailSInv ==
  ASSUME SInv, NEW t \in CountCallers, CountLoadTail(t)
  PROVE  SInv'
<1>1. t \in Threads
  BY CallersAssumption
<1>2. /\ pc[t] = "count" /\ pc'[t] = "idle"
      /\ \A u \in Threads : u # t => pc'[u] = pc[u]
      /\ head_seen' = [head_seen EXCEPT ![t] = 0]
      /\ count' \in {Minus(head_seen[t], atomic_tail),
                     Minus(Size, Minus(head_seen[t], atomic_tail))}
      /\ UNCHANGED <<ring, producer, consumer, draining>>
  BY <1>1, Moves DEF SInv, CountLoadTail, Elements, Vacant
<1>3. Published' = Published /\ Seen' = Seen /\ Reckoned' = Reckoned /\ atomic_tail' = atomic_tail
  BY <1>2 DEF Published, Seen, Reckoned, ring
<1>4. "producer" \in Threads /\ "consumer" \in Threads /\ "other" \in Threads
  BY DEF Threads
<1>5. TypeOK'
  <2>1. head_seen' \in [Threads -> Positions]
    <3>1. 0 \in Positions
      BY Sizes DEF Positions
    <3>2. QED
      BY <1>2, <3>1 DEF SInv, TypeOK
  <2>2. count' \in Positions
    <3>1. head_seen[t] \in Positions /\ atomic_tail \in Positions /\ Size \in Positions
      BY <1>1, RingFacts, Sizes DEF SInv, TypeOK, Positions
    <3>2. QED
      BY <1>2, <3>1, MinusValue
  <2>3. QED
    BY <1>2, <2>1, <2>2 DEF SInv, TypeOK, CountLoadTail, GoTo, ring, producer, consumer
<1>6. ProducerInv'
  BY <1>1, <1>2, <1>3, <1>4 DEF SInv, ProducerInv, producer
<1>7. ConsumerInv'
  <2>1. CASE t = "consumer"
    BY <1>2, <1>3, <2>1 DEF SInv, ConsumerInv, AtRest, AtWork, consumer
  <2>2. CASE t # "consumer"
    BY <1>2, <1>3, <1>4, <2>2 DEF SInv, ConsumerInv, AtRest, AtWork, FirstRange, SecondRange,
       consumer
  <2>3. QED
    BY <2>1, <2>2
<1>8. DrainInv'
  <2>1. /\ pc'["producer"] \in {pc["producer"], "idle"}
        /\ pc'["other"] \in {pc["other"], "idle"}
        /\ pc'["consumer"] \in {pc["consumer"], "idle"}
    BY <1>2, <1>4
  <2>2. QED
    BY <1>2, <1>3, <2>1 DEF SInv, DrainInv, consumer
<1>9. CountInv'
  BY <1>1, <1>2, <1>3, <1>4 DEF SInv, CountInv, TypeOK, ring
<1>10. QED
  BY <1>5, <1>6, <1>7, <1>8, <1>9 DEF SInv

LEMMA DestructorSInv ==
  ASSUME SInv, Destructor
  PROVE  SInv'
<1>1. /\ ~draining /\ \A t \in Threads : pc[t] = "idle"
      /\ draining' = TRUE /\ UNCHANGED <<ring, pc, producer, consumer, counter>>
  BY DEF Destructor
<1>2. Published' = Published /\ Seen' = Seen /\ Reckoned' = Reckoned
  BY <1>1 DEF Published, Seen, Reckoned, ring
<1>3. pc["producer"] = "idle" /\ pc["consumer"] = "idle" /\ pc["other"] = "idle"
  BY <1>1 DEF Threads
<1>4. TypeOK' /\ ProducerInv'
  BY <1>1, <1>2 DEF SInv, TypeOK, ProducerInv, ring, producer, consumer, counter
<1>5. ConsumerInv' /\ DrainInv' /\ CountInv'
  BY <1>1, <1>2, <1>3 DEF SInv, ConsumerInv, AtRest, AtWork, DrainInv, CountInv, consumer, counter
<1>6. QED
  BY <1>4, <1>5 DEF SInv

LEMMA NewRingSInv ==
  ASSUME SInv, NewRing
  PROVE  SInv' /\ Published = 0 /\ Published' = 0 /\ built = 0 /\ gone = 0
<1>1. /\ pc["consumer"] = "destroyed" /\ pc'["consumer"] = "idle"
      /\ pc'["producer"] = pc["producer"] /\ pc'["other"] = pc["other"]
      /\ atomic_head' = 0 /\ prod_tail' = 0 /\ atomic_tail' = 0 /\ cons_head' = 0
      /\ draining' = FALSE /\ UNCHANGED <<buff, producer, consumer, counter>>
  BY Moves DEF SInv, NewRing, Threads
<1>2. Published' = 0 /\ Seen' = 0 /\ Reckoned' = 0
  <2>1. 0 \in Positions
    BY Sizes DEF Positions
  <2>2. QED
    BY <1>1, <2>1, MinusSame DEF Published, Seen, Reckoned
<1>3. Published = 0 /\ pc["producer"] = "idle" /\ pc["other"] = "idle" /\ built = 0 /\ gone = 0
  BY <1>1 DEF SInv, DrainInv, ProducerInv, ConsumerInv, AtRest
<1>4. TypeOK'
  <2>1. {atomic_head', prod_tail', atomic_tail', cons_head', count'} \subseteq Positions
    BY <1>1, Sizes DEF SInv, TypeOK, Positions, counter
  <2>2. QED
    BY <1>1, <2>1 DEF SInv, TypeOK, NewRing, GoTo, producer, consumer, counter
<1>5. ProducerInv'
  BY <1>1, <1>2, <1>3, Sizes DEF ProducerInv, producer
<1>6. ConsumerInv'
  BY <1>1, <1>2 DEF SInv, ConsumerInv, AtRest, AtWork, consumer
<1>7. DrainInv' /\ CountInv'
  BY <1>1, <1>3 DEF DrainInv, CountInv
<1>8. QED
  BY <1>2, <1>3, <1>4, <1>5, <1>6, <1>7 DEF SInv

LEMMA NextSInv == SInv /\ [Next]_vars => SInv'
<1> SUFFICES ASSUME SInv, [Next]_vars PROVE SInv'
  OBVIOUS
<1>1. CASE ProducerStep
  BY <1>1, BeginPushSInv, LoadTailSInv, ConstructSInv, ConstructThrowsSInv, StoreHeadSInv
     DEF ProducerStep
<1>2. CASE ConsumerStep
  BY <1>2, BeginConsumeEmptySInv, BeginConsumeSInv, LoadHeadSInv, TakeSInv, FinishSInv,
     ReturnSInv, RefuseSInv, ThrowSInv, DestroyOneSInv, EndRangeSInv, StoreTailSInv
     DEF ConsumerStep
<1>3. CASE \E t \in CountCallers : CountLoadHead(t) \/ CountLoadTail(t)
  BY <1>3, CountLoadHeadSInv, CountLoadTailSInv
<1>4. CASE Destructor \/ NewRing
  BY <1>4, DestructorSInv, NewRingSInv
<1>5. CASE UNCHANGED vars
  <2>1. Published' = Published /\ Seen' = Seen /\ Reckoned' = Reckoned
    BY <1>5 DEF vars, ring, Published, Seen, Reckoned
  <2>2. TypeOK'
    BY <1>5 DEF SInv, TypeOK, vars, ring, producer, consumer, counter
  <2>3. ProducerInv' /\ DrainInv' /\ CountInv'
    BY <1>5, <2>1 DEF SInv, ProducerInv, DrainInv, CountInv, vars, ring, producer, consumer, counter
  <2>4. ConsumerInv'
    BY <1>5, <2>1 DEF SInv, ConsumerInv, AtRest, AtWork, FirstRange, SecondRange, vars, ring, consumer
  <2>5. QED
    BY <2>2, <2>3, <2>4 DEF SInv
<1>6. QED
  BY <1>1, <1>2, <1>3, <1>4, <1>5 DEF Next

(* The positions, their cached copies and the ranges fit together, for any *)
(* function that throws anywhere.                                          *)
THEOREM Structure == Spec => []SInv
<1>1. Init => SInv
  BY InitIInv DEF IInv
<1>2. QED
  BY <1>1, NextSInv, PTL DEF Spec

(* Positions stay below Wrap, slots and counts inside the ring.            *)
THEOREM TypeCorrect == Spec => []TypeOK
<1>1. SInv => TypeOK
  BY DEF SInv
<1>2. QED
  BY <1>1, Structure, PTL

(* Neither side ever trusts its cached copy of the other's position too    *)
(* far: the producer sees at most the free slots there are, the consumer   *)
(* at most the elements.                                                   *)
THEOREM CachesAreConservative == Spec => []CachesConservative
<1>1. SInv => CachesConservative
  <2> SUFFICES ASSUME SInv PROVE CachesConservative
    OBVIOUS
  <2>1. /\ Published \in 0 .. Size /\ Seen <= Published /\ Reckoned \in 0 .. Size
        /\ Published <= Reckoned /\ Size \in Nat
    BY RingFacts
  <2>2. Reckoned \in Published .. Size
    BY <2>1
  <2>3. QED
    BY <2>1, <2>2 DEF CachesConservative, Published, Seen, Reckoned
<1>2. QED
  BY <1>1, Structure, PTL

(* The two threads whose counts are right.                                   *)
OwnersCount == CountCallers \subseteq {"producer", "consumer"}

LEMMA OwnersCountRight ==
  OwnersCount => (SInv /\ CountInRange /\ [Next]_vars => CountInRange')
<1> SUFFICES ASSUME OwnersCount, SInv, CountInRange, [Next]_vars PROVE CountInRange'
  OBVIOUS
<1>1. ASSUME NEW t \in CountCallers, CountLoadTail(t) PROVE CountInRange'
  <2> DEFINE elements == Minus(head_seen[t], atomic_tail)
  <2>1. pc[t] = "count" /\ count' \in {elements, Minus(Size, elements)}
    BY <1>1 DEF CountLoadTail, Elements, Vacant
  <2>2. t \in {"producer", "consumer"}
    BY DEF OwnersCount
  <2>3. /\ Published \in 0 .. Size /\ atomic_tail \in Positions /\ Size \in Nat \ {0}
        /\ head_seen[t] \in Positions /\ Size \in Positions
    BY <2>2, RingFacts, Sizes DEF SInv, TypeOK, Threads, Positions
  <2>4. elements \in Positions /\ elements <= Published
    <3>1. CASE t = "producer"
      <4>1. elements = Published
        BY <2>1, <3>1 DEF SInv, CountInv, Published
      <4>2. elements \in Positions
        BY <2>3, MinusValue
      <4> HIDE DEF elements
      <4>3. QED
        BY <2>3, <4>1, <4>2
    <3>2. CASE t = "consumer"
      BY <2>1, <2>3, <3>2, MinusValue DEF SInv, CountInv
    <3>3. QED
      BY <2>2, <3>1, <3>2
  <2> HIDE DEF elements
  <2>5. elements \in 0 .. Size
    BY <2>3, <2>4 DEF Positions
  <2>6. Minus(Size, elements) = Size - elements
    BY <2>3, <2>4, <2>5, MinusValue
  <2>7. elements <= Size /\ Minus(Size, elements) <= Size
    BY <2>3, <2>5, <2>6
  <2>8. QED
    BY <2>1, <2>7 DEF CountInRange
<1>2. ASSUME UNCHANGED count PROVE CountInRange'
  BY <1>2 DEF CountInRange
<1>3. CASE ProducerStep
  BY <1>2, <1>3 DEF ProducerStep, BeginPush, LoadTail, Construct, ConstructThrows, StoreHead, counter
<1>4. CASE ConsumerStep
  BY <1>2, <1>4 DEF ConsumerStep, BeginConsumeEmpty, BeginConsume, LoadHead, Take, Finish, Return,
     Refuse, Throw, DestroyOne, EndRange, StoreTail, counter
<1>5. CASE \E t \in CountCallers : CountLoadHead(t) \/ CountLoadTail(t)
  BY <1>1, <1>2, <1>5 DEF CountLoadHead
<1>6. CASE Destructor \/ NewRing \/ UNCHANGED vars
  BY <1>2, <1>6 DEF Destructor, NewRing, vars, counter
<1>7. QED
  BY <1>3, <1>4, <1>5, <1>6 DEF Next

(* The counts are in the ring's range when only its two owners count, each *)
(* of which keeps one of the two positions still; a third thread's are not.*)
THEOREM OwnersCountInRange == OwnersCount => (Spec => []CountInRange)
<1> SUFFICES ASSUME OwnersCount PROVE Spec => []CountInRange
  OBVIOUS
<1>1. Init => CountInRange
  BY Sizes DEF Init, CountInRange
<1>2. SInv /\ CountInRange /\ [Next]_vars => CountInRange'
  BY OwnersCountRight
<1>3. QED
  BY <1>1, <1>2, Structure, PTL DEF Spec

-----------------------------------------------------------------------------
(* The elements.                                                           *)

(* A function that throws on the second range leaves destroyed elements in *)
(* the ring; what follows is for functions that do not.                    *)
FirstOnly == ThrowsIn \subseteq {"first"}

LEMMA DistanceType ==
  ASSUME SInv, NEW i \in Slots
  PROVE  Distance(i) \in 0 .. Size - 1
<1>1. Slot(atomic_tail) \in 0 .. Size - 1 /\ i \in 0 .. Size - 1 /\ Size \in Nat
  BY RingFacts DEF Slots
<1>2. QED
  BY <1>1 DEF Distance

(* The slot at a distance.                                                 *)
Ahead(k) == IF Slot(atomic_tail) + k < Size THEN Slot(atomic_tail) + k
                                            ELSE Slot(atomic_tail) + k - Size

LEMMA AheadDistance ==
  ASSUME SInv
  PROVE  /\ \A k \in 0 .. Size - 1 : Ahead(k) \in Slots /\ Distance(Ahead(k)) = k
         /\ \A i \in Slots : Ahead(Distance(i)) = i
         /\ \A k \in 0 .. Size : Slot(Plus(atomic_tail, k)) = Ahead(k)
<1>1. Slot(atomic_tail) \in 0 .. Size - 1 /\ atomic_tail \in Positions /\ Size \in Nat \ {0}
  BY RingFacts
<1>2. ASSUME NEW k \in 0 .. Size - 1 PROVE Ahead(k) \in Slots /\ Distance(Ahead(k)) = k
  BY <1>1 DEF Ahead, Distance, Slots
<1>3. ASSUME NEW i \in Slots PROVE Ahead(Distance(i)) = i
  BY <1>1 DEF Ahead, Distance, Slots
<1>4. ASSUME NEW k \in 0 .. Size PROVE Slot(Plus(atomic_tail, k)) = Ahead(k)
  BY <1>1, SlotPlus DEF Ahead
<1>5. QED
  BY <1>2, <1>3, <1>4

(* A slot counted from another position.                                   *)
LEMMA AheadFrom ==
  ASSUME SInv, NEW j \in 0 .. Size, NEW k \in 0 .. Size, j + k <= Size
  PROVE  Slot(Plus(Plus(atomic_tail, j), k)) = Ahead(j + k)
<1>1. Slot(atomic_tail) \in 0 .. Size - 1 /\ atomic_tail \in Positions /\ Size \in Nat \ {0}
  BY RingFacts
<1> DEFINE p == Plus(atomic_tail, j)
<1>2. p \in Positions
  BY <1>1, PlusValue
<1>3. Slot(p) = IF Slot(atomic_tail) + j < Size THEN Slot(atomic_tail) + j
                                                 ELSE Slot(atomic_tail) + j - Size
  BY <1>1, SlotPlus
<1> HIDE DEF p
<1>4. Slot(Plus(p, k)) = IF Slot(p) + k < Size THEN Slot(p) + k ELSE Slot(p) + k - Size
  BY <1>2, SlotPlus
<1>5. QED
  <2> SUFFICES Slot(Plus(p, k)) = Ahead(j + k)
    BY DEF p
  <2>1. QED
    BY <1>1, <1>3, <1>4 DEF Ahead

LEMMA HeadFromTail ==
  ASSUME SInv
  PROVE  atomic_head = Plus(atomic_tail, Published)
<1>1. Minus(atomic_head, atomic_tail) <= Size /\ atomic_head \in Positions /\ atomic_tail \in Positions
  BY RingFacts DEF Published
<1>2. QED
  BY <1>1, PlusMinus DEF Published

LEMMA LiveKept ==
  ASSUME SInv, Live, UNCHANGED <<buff, atomic_tail, gone>>, Published' + built' = Published + built
  PROVE  Live'
<1>1. ASSUME NEW i PROVE Distance(i)' = Distance(i)
  BY DEF Distance
<1>2. ASSUME NEW i \in Slots
      PROVE  (buff[i] # None <=> gone <= Distance(i) /\ Distance(i) < Published + built)'
  BY <1>1 DEF Live
<1>3. QED
  BY <1>2 DEF Live

LEMMA ConstructLive ==
  ASSUME SInv, Live, NEW v \in Values, Construct(v)
  PROVE  Live'
<1>1. /\ buff' = [buff EXCEPT ![Slot(Plus(atomic_head, built))] = v] /\ built' = built + 1
      /\ UNCHANGED <<atomic_head, atomic_tail, gone>>
  BY DEF Construct, consumer
<1>2. /\ Published \in 0 .. Size /\ built \in 0 .. Size /\ Published + built < Size
      /\ gone \in 0 .. Size /\ gone <= Published + built /\ Size \in Nat
  <2>1. left >= 1 /\ Reckoned + built + left <= Size /\ Published <= Reckoned
    BY DEF SInv, ProducerInv, Construct
  <2>2. left \in Nat
    BY Sizes DEF SInv, TypeOK
  <2>3. gone <= used /\ used <= Seen
    BY RingFacts DEF SInv, ConsumerInv
  <2>4. QED
    BY <2>1, <2>2, <2>3, RingFacts
<1>3. Slot(Plus(atomic_head, built)) = Ahead(Published + built)
  BY <1>2, HeadFromTail, AheadFrom
<1>4. Published' = Published
  BY <1>1 DEF Published
<1> DEFINE d == Published + built
<1>5. /\ Ahead(d) \in Slots /\ Distance(Ahead(d)) = d /\ d \in 0 .. Size - 1
  BY <1>2, AheadDistance
<1>6. ASSUME NEW i \in Slots
      PROVE  buff'[i] # None <=> gone <= Distance(i) /\ Distance(i) < d + 1
  <2>1. Distance(i) \in Nat /\ (Distance(i) = d <=> i = Ahead(d))
    BY <1>5, AheadDistance, DistanceType
  <2>2. CASE i = Ahead(d)
    <3>1. buff'[i] = v /\ v # None
      BY <1>1, <1>3, <1>6, <2>2, NoneAssumption DEF SInv, TypeOK
    <3>2. QED
      BY <1>2, <2>1, <2>2, <3>1
  <2>3. CASE i # Ahead(d)
    <3>1. buff'[i] = buff[i]
      BY <1>1, <1>3, <1>6, <2>3 DEF SInv, TypeOK
    <3>2. Distance(i) < d + 1 <=> Distance(i) < d
      BY <1>2, <2>1, <2>3
    <3>3. QED
      BY <3>1, <3>2 DEF Live
  <2>4. QED
    BY <2>2, <2>3
<1>7. d + 1 = Published' + built' /\ gone' = gone
  BY <1>1, <1>2, <1>4
<1>8. ASSUME NEW i PROVE Distance(i)' = Distance(i)
  BY <1>1 DEF Distance
<1> HIDE DEF d
<1>9. QED
  BY <1>6, <1>7, <1>8 DEF Live

LEMMA DestroyOneLive ==
  ASSUME SInv, Live, DestroyOne
  PROVE  Live'
<1> DEFINE x == at - (used - gone)
<1>1. /\ pc["consumer"] = "destroy" /\ gone < used
      /\ buff' = [buff EXCEPT ![x] = None] /\ gone' = gone + 1
      /\ UNCHANGED <<atomic_head, atomic_tail, built>>
  BY DEF DestroyOne, producer
<1>2. /\ at \in Nat /\ used \in 0 .. Size /\ gone \in Nat /\ Size \in Nat
      /\ Slot(atomic_tail) \in 0 .. Size - 1
      /\ Published \in Nat /\ built \in Nat
  BY RingFacts
<1>3. x \in Slots
  BY DestroyOneSInv
<1>4. Distance(x) = gone
  <2>1. FirstRange \/ SecondRange
    BY <1>1 DEF SInv, ConsumerInv, AtWork
  <2>2. CASE FirstRange
    BY <1>1, <1>2, <1>3, <2>2 DEF FirstRange, Distance, Slots
  <2>3. CASE SecondRange
    BY <1>1, <1>2, <1>3, <2>3 DEF SecondRange, Distance, Slots
  <2>4. QED
    BY <2>1, <2>2, <2>3
<1>5. Published' = Published
  BY <1>1 DEF Published
<1> HIDE DEF x
<1>6. ASSUME NEW i \in Slots
      PROVE  buff'[i] # None <=> gone + 1 <= Distance(i) /\ Distance(i) < Published + built
  <2>1. Distance(i) \in Nat /\ (Distance(i) = gone <=> i = x)
    BY <1>3, <1>4, AheadDistance, DistanceType
  <2>2. CASE i = x
    <3>1. buff'[i] = None
      BY <1>1, <1>3, <2>2 DEF SInv, TypeOK
    <3>2. QED
      BY <1>2, <2>1, <2>2, <3>1
  <2>3. CASE i # x
    <3>1. buff'[i] = buff[i]
      BY <1>1, <1>6, <2>3 DEF SInv, TypeOK
    <3>2. gone + 1 <= Distance(i) <=> gone <= Distance(i)
      BY <1>2, <2>1, <2>3
    <3>3. QED
      BY <3>1, <3>2 DEF Live
  <2>4. QED
    BY <2>2, <2>3
<1>7. ASSUME NEW i PROVE Distance(i)' = Distance(i)
  BY <1>1 DEF Distance
<1>8. QED
  BY <1>1, <1>5, <1>6, <1>7 DEF Live

LEMMA StoreTailLive ==
  ASSUME SInv, Live, StoreTail
  PROVE  Live'
<1>1. /\ Published' = Published - used /\ used <= Published /\ gone = used
      /\ gone' = 0 /\ UNCHANGED <<buff, built>>
      /\ atomic_tail' = Plus(atomic_tail, used)
  BY StoreTailSInv DEF StoreTail, Consumed, producer
<1>2. /\ used \in 0 .. Size /\ Size \in Nat \ {0} /\ built \in Nat
      /\ Slot(atomic_tail) \in 0 .. Size - 1 /\ atomic_tail \in Positions
      /\ Published \in Nat /\ Published + built <= Size
  <2>1. Published <= Reckoned /\ Reckoned + built <= Size
    BY DEF SInv, ProducerInv
  <2>2. QED
    BY <2>1, RingFacts
<1> DEFINE s == Slot(atomic_tail)
           r == Slot(Plus(atomic_tail, used))
<1>3. r = IF s + used < Size THEN s + used ELSE s + used - Size
  BY <1>2, SlotPlus
<1>4. ASSUME NEW i \in Slots
      PROVE  Distance(i)' = IF used <= Distance(i) THEN Distance(i) - used
                                                   ELSE Distance(i) + Size - used
  <2>1. Distance(i)' = IF r <= i THEN i - r ELSE i - r + Size
    BY <1>1 DEF Distance
  <2>2. Distance(i) = IF s <= i THEN i - s ELSE i - s + Size
    BY DEF Distance
  <2>3. i \in 0 .. Size - 1 /\ s \in 0 .. Size - 1
    BY <1>2 DEF Slots
  <2> HIDE DEF s, r
  <2>4. (IF r <= i THEN i - r ELSE i - r + Size) =
          IF used <= Distance(i) THEN Distance(i) - used ELSE Distance(i) + Size - used
    BY <1>2, <1>3, <2>2, <2>3
  <2>5. QED
    BY <2>1, <2>4, Zenon
<1>5. ASSUME NEW i \in Slots
      PROVE  (buff[i] # None <=> gone <= Distance(i) /\ Distance(i) < Published + built)'
  <2>1. Distance(i) \in 0 .. Size - 1
    BY DistanceType
  <2>2. buff[i] # None <=> used <= Distance(i) /\ Distance(i) < Published + built
    BY <1>1 DEF Live
  <2> DEFINE d == Distance(i)
             e == IF used <= d THEN d - used ELSE d + Size - used
  <2>3. buff[i] # None <=> 0 <= e /\ e < Published - used + built
    <3> HIDE DEF d
    <3>1. CASE used <= d
      BY <1>2, <2>1, <2>2, <3>1 DEF d
    <3>2. CASE ~(used <= d)
      BY <1>1, <1>2, <2>1, <2>2, <3>2 DEF d
    <3>3. QED
      BY <3>1, <3>2
  <2>4. Distance(i)' = e
    BY <1>4
  <2> HIDE DEF d, e
  <2>5. QED
    BY <1>1, <2>3, <2>4
<1>6. QED
  BY <1>5 DEF Live

LEMMA NewRingLive ==
  ASSUME SInv, Live, NewRing
  PROVE  Live'
<1>1. /\ Published = 0 /\ Published' = 0 /\ built = 0 /\ built' = 0 /\ gone = 0 /\ gone' = 0
      /\ UNCHANGED buff
  BY NewRingSInv DEF NewRing, producer, consumer
<1>2. ASSUME NEW i \in Slots PROVE buff[i] = None
  BY <1>1, <1>2, DistanceType, Sizes DEF Live
<1>3. Slot(0) \in 0 .. Size - 1 /\ atomic_tail' = 0
  BY SlotType, Sizes DEF Positions, Slots, NewRing
<1>4. ASSUME NEW i \in Slots PROVE ~(Distance(i)' < 0 + 0)
  <2>1. Distance(i)' = IF Slot(0) <= i THEN i - Slot(0) ELSE i - Slot(0) + Size
    BY <1>3 DEF Distance
  <2>2. i \in 0 .. Size - 1 /\ Size \in Nat
    BY Sizes DEF Slots
  <2>3. QED
    BY <1>3, <2>1, <2>2
<1>5. QED
  BY <1>1, <1>2, <1>4 DEF Live

(* The steps that construct and destroy nothing and give nothing back.     *)
LEMMA OthersLive ==
  ASSUME SInv, Live, FirstOnly,
         \/ \E n \in 1 .. Size + 1 : BeginPush(n)
         \/ LoadTail \/ ConstructThrows \/ StoreHead
         \/ BeginConsumeEmpty
         \/ \E batch \in BOOLEAN : BeginConsume(batch) \/ LoadHead(batch)
         \/ Take \/ Finish \/ Return \/ Refuse \/ Throw \/ EndRange
         \/ \E t \in CountCallers : CountLoadHead(t) \/ CountLoadTail(t)
         \/ Destructor
         \/ UNCHANGED vars
  PROVE  Live'
<1>1. Published \in 0 .. Size /\ built \in 0 .. Size /\ Size \in Nat
  BY RingFacts
<1>2. ASSUME UNCHANGED <<buff, atomic_head, atomic_tail, built, gone>>
      PROVE  Live'
  <2>1. Published' = Published
    BY <1>2 DEF Published
  <2>2. QED
    BY <1>2, <2>1, LiveKept
<1>3. CASE \/ \E n \in 1 .. Size + 1 : BeginPush(n)
           \/ LoadTail \/ ConstructThrows
  BY <1>2, <1>3 DEF BeginPush, LoadTail, ConstructThrows, ring, consumer
<1>4. CASE StoreHead
  <2>1. Published' = Published + built /\ built' = 0
    BY <1>4, StoreHeadSInv
  <2>2. Published' + built' = Published + built
    BY <1>1, <2>1
  <2>3. UNCHANGED <<buff, atomic_tail, gone>>
    BY <1>4 DEF StoreHead, consumer
  <2>4. QED
    BY <2>2, <2>3, LiveKept
<1>5. CASE \/ BeginConsumeEmpty
           \/ \E batch \in BOOLEAN : BeginConsume(batch) \/ LoadHead(batch)
           \/ Take \/ Finish \/ Return \/ EndRange
  BY <1>2, <1>5 DEF BeginConsumeEmpty, BeginConsume, LoadHead, Take, Finish, Return, EndRange,
     ring, producer, consumer
<1>6. CASE Refuse
  <2>1. used + run = 1 /\ gone <= used /\ run = 1
    BY <1>6 DEF Refuse, SInv, ConsumerInv, AtWork
  <2>2. gone = 0
    BY <2>1, RingFacts
  <2>3. QED
    BY <1>2, <1>6, <2>2 DEF Refuse, NoRanges, ring, producer
<1>7. CASE Throw
  <2>1. gone = 0
    BY <1>7 DEF Throw, FirstOnly
  <2>2. QED
    BY <1>2, <1>7, <2>1 DEF Throw, NoRanges, ring, producer
<1>8. CASE \E t \in CountCallers : CountLoadHead(t) \/ CountLoadTail(t)
  BY <1>2, <1>8 DEF CountLoadHead, CountLoadTail, ring, producer, consumer
<1>9. CASE Destructor \/ UNCHANGED vars
  BY <1>2, <1>9 DEF Destructor, vars, ring, producer, consumer
<1>10. QED
  BY <1>3, <1>4, <1>5, <1>6, <1>7, <1>8, <1>9

LEMMA NextIInv == FirstOnly => (IInv /\ [Next]_vars => IInv')
<1> SUFFICES ASSUME FirstOnly, IInv, [Next]_vars PROVE IInv'
  OBVIOUS
<1>1. SInv /\ Live
  BY DEF IInv
<1>2. SInv'
  BY <1>1, NextSInv
<1> SUFFICES Live'
  BY <1>2 DEF IInv
<1>3. CASE ProducerStep
  BY <1>1, <1>3, OthersLive, ConstructLive DEF ProducerStep
<1>4. CASE ConsumerStep
  BY <1>1, <1>4, OthersLive, DestroyOneLive, StoreTailLive DEF ConsumerStep
<1>5. CASE (\E t \in CountCallers : CountLoadHead(t) \/ CountLoadTail(t)) \/ Destructor
  BY <1>1, <1>5, OthersLive
<1>6. CASE NewRing
  BY <1>1, <1>6, NewRingLive
<1>7. CASE UNCHANGED vars
  BY <1>1, <1>7, OthersLive
<1>8. QED
  BY <1>3, <1>4, <1>5, <1>6, <1>7 DEF Next

(* The inductive invariant.                                                *)
THEOREM Invariance == FirstOnly => (Spec => []IInv)
<1> SUFFICES ASSUME FirstOnly PROVE Spec => []IInv
  OBVIOUS
<1>1. IInv /\ [Next]_vars => IInv'
  BY NextIInv
<1>2. QED
  BY <1>1, InitIInv, PTL DEF Spec

LEMMA LivesWhereItShould ==
  ASSUME IInv
  PROVE  ElementLifetime
<1> DEFINE first == Plus(atomic_tail, gone)
           alive == Minus(atomic_head, first) + built
<1>1. /\ SInv /\ Live
      /\ Published \in 0 .. Size /\ built \in 0 .. Size /\ gone \in 0 .. Size
      /\ atomic_head \in Positions /\ atomic_tail \in Positions /\ Size \in Nat \ {0}
  BY RingFacts DEF IInv
<1>2. gone <= Published /\ Published + built <= Size
  <2>1. Published <= Reckoned /\ Reckoned + built <= Size
    BY <1>1 DEF SInv, ProducerInv
  <2>2. gone <= Seen
    <3>1. gone = 0 \/ (gone <= used /\ used + run <= Seen)
      BY <1>1 DEF SInv, ConsumerInv
    <3>2. QED
      BY <1>1, <3>1, RingFacts
  <2>3. QED
    BY <1>1, <2>1, <2>2, RingFacts
<1>3. alive = Published - gone + built
  BY <1>1, <1>2, MinusPlusSecond DEF Published
<1>4. \A k \in 0 .. alive - 1 : Slot(Plus(first, k)) = Ahead(gone + k)
  <2> SUFFICES ASSUME NEW k \in 0 .. alive - 1
               PROVE  Slot(Plus(Plus(atomic_tail, gone), k)) = Ahead(gone + k)
    OBVIOUS
  <2>1. k \in 0 .. Size /\ gone + k <= Size
    BY <1>1, <1>2, <1>3
  <2>2. QED
    BY <1>1, <2>1, AheadFrom
<1> HIDE DEF first, alive
<1>5. ASSUME NEW i \in Slots, buff[i] # None
      PROVE  \E k \in 0 .. alive - 1 : i = Slot(Plus(first, k))
  <2>1. /\ gone <= Distance(i) /\ Distance(i) < Published + built
        /\ Distance(i) \in Nat /\ Ahead(Distance(i)) = i
    BY <1>1, <1>5, AheadDistance, DistanceType DEF Live
  <2>2. Distance(i) - gone \in 0 .. alive - 1 /\ gone + (Distance(i) - gone) = Distance(i)
    BY <1>1, <1>3, <2>1
  <2>3. i = Slot(Plus(first, Distance(i) - gone))
    BY <1>4, <2>1, <2>2
  <2>4. QED
    BY <2>2, <2>3
<1>6. ASSUME NEW k \in 0 .. alive - 1
      PROVE  Slot(Plus(first, k)) \in {i \in Slots : buff[i] # None}
  <2>1. gone + k \in 0 .. Size - 1 /\ gone <= gone + k /\ gone + k < Published + built
    BY <1>1, <1>2, <1>3
  <2>2. Ahead(gone + k) \in Slots /\ Distance(Ahead(gone + k)) = gone + k
    BY <1>1, <2>1, AheadDistance
  <2>3. QED
    BY <1>1, <1>4, <2>1, <2>2 DEF Live
<1>7. {i \in Slots : buff[i] # None} = {Slot(Plus(first, k)) : k \in 0 .. alive - 1}
  BY <1>5, <1>6
<1>8. QED
  BY <1>7 DEF ElementLifetime, first, alive

(* Elements live exactly from the consumer's next to destroy to the last   *)
(* the producer constructed, for batches and ranges of any size, when the  *)
(* function does not throw on a second range.                              *)
THEOREM ElementsLive == FirstOnly => (Spec => []ElementLifetime)
<1> SUFFICES ASSUME FirstOnly PROVE Spec => []ElementLifetime
  OBVIOUS
<1>1. Spec => []IInv
  BY Invariance
<1>2. IInv => ElementLifetime
  BY LivesWhereItShould
<1>3. QED
  BY <1>1, <1>2, PTL

-----------------------------------------------------------------------------
(* Refinement of BoundedQueue: a push takes effect when the head is stored *)
(* and a pop when the function is given the element.                       *)

Queue == [i \in 1 .. Minus(atomic_head, NextPos) |-> buff[Slot(Plus(NextPos, i - 1))]]
Taken == [c \in {"consumer"} |-> got]

(* What waits is alive, from the consumer's next element on.               *)
Waits ==
  /\ Queue \in Seq(Values) /\ Len(Queue) = Published - used
  /\ Published \in 0 .. Size /\ used \in 0 .. Published
  /\ \A k \in used .. Published - 1 : Queue[k - used + 1] = buff[Ahead(k)]

LEMMA ElementsWait == IInv => Waits
<1> SUFFICES ASSUME IInv PROVE Waits
  OBVIOUS
<1>1. /\ SInv /\ Live /\ Size \in Nat \ {0}
      /\ Published \in 0 .. Size /\ built \in Nat /\ gone \in 0 .. Size
      /\ atomic_head \in Positions /\ atomic_tail \in Positions /\ used \in 0 .. Size
      /\ buff \in [Slots -> Values \cup {None}]
  BY RingFacts DEF IInv, SInv, TypeOK
<1>2. used <= Published /\ gone <= used
  <2>1. (used = 0 /\ gone = 0) \/ (gone <= used /\ used + run <= Seen)
    BY <1>1 DEF SInv, ConsumerInv
  <2>2. QED
    BY <1>1, <2>1, RingFacts
<1>3. Minus(atomic_head, NextPos) = Published - used
  BY <1>1, <1>2, MinusPlusSecond DEF NextPos, Published
<1>4. ASSUME NEW i \in 1 .. Published - used
      PROVE  /\ Slot(Plus(NextPos, i - 1)) = Ahead(used + i - 1)
             /\ buff[Ahead(used + i - 1)] \in Values
  <2>1. /\ i - 1 \in 0 .. Size /\ used + (i - 1) <= Size
        /\ used + (i - 1) = used + i - 1
        /\ used + i - 1 \in 0 .. Size - 1
        /\ gone <= used + i - 1 /\ used + i - 1 < Published + built
    BY <1>1, <1>2
  <2>2. Slot(Plus(Plus(atomic_tail, used), i - 1)) = Ahead(used + (i - 1))
    BY <1>1, <2>1, AheadFrom
  <2>3. Ahead(used + i - 1) \in Slots /\ Distance(Ahead(used + i - 1)) = used + i - 1
    BY <1>1, <2>1, AheadDistance
  <2>4. buff[Ahead(used + i - 1)] # None
    BY <1>1, <2>1, <2>3 DEF Live
  <2>5. QED
    BY <1>1, <2>1, <2>2, <2>3, <2>4 DEF NextPos
<1>5. Queue = [i \in 1 .. Published - used |-> buff[Ahead(used + i - 1)]]
  BY <1>3, <1>4 DEF Queue
<1>6. Queue \in [1 .. Published - used -> Values]
  BY <1>4, <1>5
<1>7. Published - used \in Nat
  BY <1>1, <1>2
<1>8. Queue \in Seq(Values) /\ Len(Queue) = Published - used
  BY <1>6, <1>7
<1>9. ASSUME NEW k \in used .. Published - 1 PROVE Queue[k - used + 1] = buff[Ahead(k)]
  <2>1. k - used + 1 \in 1 .. Published - used /\ used + (k - used + 1) - 1 = k
    BY <1>1, <1>2
  <2>2. QED
    BY <1>5, <2>1
<1>10. QED
  BY <1>1, <1>2, <1>8, <1>9 DEF Waits

LEMMA TailFunction ==
  ASSUME NEW S, NEW s \in Seq(S), s # <<>>, NEW r \in Seq(S), Len(r) = Len(s) - 1,
         \A i \in 1 .. Len(r) : r[i] = s[i + 1]
  PROVE  r = Tail(s)
<1>1. /\ Tail(s) \in Seq(S) /\ Len(Tail(s)) = Len(s) - 1
      /\ \A i \in 1 .. Len(s) - 1 : Tail(s)[i] = s[i + 1]
  BY HeadTailProperties
<1>2. QED
  BY <1>1, SeqEqual

LEMMA ConcatFunction ==
  ASSUME NEW S, NEW s \in Seq(S), NEW t \in Seq(S), NEW r \in Seq(S),
         Len(r) = Len(s) + Len(t),
         \A i \in 1 .. Len(r) : r[i] = IF i <= Len(s) THEN s[i] ELSE t[i - Len(s)]
  PROVE  r = s \o t
<1>1. /\ s \o t \in Seq(S) /\ Len(s \o t) = Len(s) + Len(t)
      /\ \A i \in 1 .. Len(r) : (s \o t)[i] = IF i <= Len(s) THEN s[i] ELSE t[i - Len(s)]
  BY ConcatProperties
<1>2. QED
  BY <1>1, SeqEqual

(* A step that publishes, takes and destroys nothing that waits.           *)
LEMMA QueueKept ==
  ASSUME Waits, Waits', Published' - used' = Published - used,
         \A k \in used .. Published - 1 :
           buff[Ahead(k)] = Queue'[k - used + 1]
  PROVE  Queue' = Queue
<1>1. /\ Queue \in Seq(Values) /\ Queue' \in Seq(Values)
      /\ Len(Queue) = Published - used /\ Len(Queue') = Published - used
      /\ Published \in Nat /\ used \in Nat
  <2>1. Len(Queue) = Published - used /\ Len(Queue') = Published' - used'
    BY DEF Waits
  <2>2. Published \in 0 .. Size /\ used \in 0 .. Published
    BY DEF Waits
  <2>3. Queue \in Seq(Values) /\ Queue' \in Seq(Values)
    BY DEF Waits
  <2>4. QED
    BY <2>1, <2>2, <2>3, Sizes
<1>2. ASSUME NEW i \in 1 .. Len(Queue) PROVE Queue'[i] = Queue[i]
  <2>1. used + i - 1 \in used .. Published - 1 /\ (used + i - 1) - used + 1 = i
    BY <1>1
  <2>2. Queue[i] = buff[Ahead(used + i - 1)] /\ Queue'[i] = buff[Ahead(used + i - 1)]
    BY <2>1 DEF Waits
  <2>3. QED
    BY <2>2
<1>3. QED
  BY <1>1, <1>2, SeqEqual

LEMMA SameBuff ==
  ASSUME UNCHANGED <<atomic_head, atomic_tail, used, buff>>
  PROVE  Queue' = Queue
BY DEF Queue, NextPos

LEMMA StoreHeadRefines ==
  ASSUME IInv, Waits, Waits', StoreHead
  PROVE  BQ!Next
<1>1. /\ SInv /\ Live /\ Published' = Published + built
      /\ UNCHANGED <<atomic_tail, used, buff, got>>
  BY StoreHeadSInv DEF IInv, StoreHead, consumer
<1>2. /\ built \in 1 .. Size /\ Published + built <= Size /\ gone <= used /\ Size \in Nat \ {0}
      /\ Published \in 0 .. Size /\ used \in 0 .. Published /\ gone \in 0 .. Size
      /\ buff \in [Slots -> Values \cup {None}]
  <2>1. built >= 1 /\ Published <= Reckoned /\ Reckoned + built <= Size
    BY <1>1 DEF SInv, ProducerInv, StoreHead
  <2>2. gone <= used
    BY <1>1, RingFacts DEF SInv, ConsumerInv
  <2>3. QED
    BY <1>1, <2>1, <2>2, RingFacts DEF Waits, SInv, TypeOK
<1> DEFINE vs == [i \in 1 .. built |-> buff[Ahead(Published + i - 1)]]
<1>3. ASSUME NEW i \in 1 .. built PROVE buff[Ahead(Published + i - 1)] \in Values
  <2>1. /\ Published + i - 1 \in 0 .. Size - 1
        /\ gone <= Published + i - 1 /\ Published + i - 1 < Published + built
    BY <1>2
  <2>2. Ahead(Published + i - 1) \in Slots /\ Distance(Ahead(Published + i - 1)) = Published + i - 1
    BY <1>1, <2>1, AheadDistance
  <2>3. buff[Ahead(Published + i - 1)] # None
    BY <1>1, <2>1, <2>2 DEF Live
  <2>4. QED
    BY <1>2, <2>2, <2>3
<1>4. vs \in [1 .. built -> Values]
  BY <1>3
<1>5. \A i \in 1 .. built : vs[i] = buff[Ahead(Published + i - 1)]
  OBVIOUS
<1> HIDE DEF vs
<1>6. vs \in Seq(Values) /\ Len(vs) = built
  <2>1. built \in Nat
    BY <1>2
  <2>2. QED
    BY <1>4, <2>1
<1>7. /\ Queue \in Seq(Values) /\ Len(Queue) = Published - used
      /\ Queue' \in Seq(Values) /\ Len(Queue') = Len(Queue) + built
  BY <1>1, <1>2 DEF Waits
<1>8. ASSUME NEW i \in 1 .. Len(Queue')
      PROVE  Queue'[i] = IF i <= Len(Queue) THEN Queue[i] ELSE vs[i - Len(Queue)]
  <2>1. PICK k \in used .. (Published + built) - 1 : k - used + 1 = i
    <3>1. used + i - 1 \in used .. (Published + built) - 1 /\ (used + i - 1) - used + 1 = i
      BY <1>2, <1>7
    <3>2. QED
      BY <3>1
  <2>2. \A j : Ahead(j)' = Ahead(j)
    BY <1>1 DEF Ahead
  <2>3. Queue'[i] = buff[Ahead(k)]
    <3>1. used' .. Published' - 1 = used .. (Published + built) - 1
      BY <1>1, Zenon
    <3>2. \A j \in used' .. Published' - 1 : Queue'[j - used' + 1] = buff'[Ahead(j)']
      BY DEF Waits
    <3>3. Queue'[k - used' + 1] = buff'[Ahead(k)']
      BY <2>1, <3>1, <3>2, Zenon
    <3>4. k - used' + 1 = i /\ buff'[Ahead(k)'] = buff[Ahead(k)]
      BY <1>1, <2>1, <2>2
    <3>5. QED
      BY <3>3, <3>4
  <2>4. CASE i <= Len(Queue)
    <3>1. k \in used .. Published - 1
      BY <1>2, <1>7, <2>1, <2>4
    <3>2. QED
      BY <2>1, <2>3, <2>4, <3>1 DEF Waits
  <2>5. CASE ~(i <= Len(Queue))
    <3>1. i - Len(Queue) \in 1 .. built /\ Published + (i - Len(Queue)) - 1 = k
      BY <1>2, <1>7, <2>1, <2>5
    <3>2. QED
      BY <1>5, <2>3, <2>5, <3>1
  <2>6. QED
    BY <2>4, <2>5
<1>9. Queue' = Queue \o vs
  BY <1>6, <1>7, <1>8, ConcatFunction
<1>10. Len(Queue) + Len(vs) <= Size
  BY <1>2, <1>6, <1>7
<1>11. BQ!Push(vs)
  BY <1>1, <1>9, <1>10 DEF BQ!Push, Queue, Taken
<1>12. QED
  BY <1>2, <1>4, <1>11 DEF BQ!Next

LEMMA TakeRefines ==
  ASSUME IInv, Waits, Waits', Take
  PROVE  BQ!Next
<1>1. /\ SInv /\ run > 0 /\ got = None /\ got' = buff[at] /\ used' = used + 1
      /\ pc["consumer"] \in {"consume", "consumeOne"}
      /\ UNCHANGED <<atomic_head, atomic_tail, buff>>
  BY DEF IInv, Take, Consuming, ring
<1>2. /\ Published' = Published /\ \A j : Ahead(j)' = Ahead(j)
  BY <1>1 DEF Published, Ahead
<1>3. /\ FirstRange \/ SecondRange
      /\ at + run <= Size /\ gone <= used /\ used + run <= Published
      /\ run \in Nat /\ used \in Nat /\ at \in Nat /\ Published \in Nat /\ Size \in Nat \ {0}
      /\ gone \in Nat /\ Slot(atomic_tail) \in 0 .. Size - 1 /\ Published <= Size
  <2>1. FirstRange \/ SecondRange
    BY <1>1 DEF SInv, ConsumerInv, AtWork
  <2>2. at + run <= Size /\ gone <= used /\ used + run <= Seen
    BY <1>1 DEF SInv, ConsumerInv, AtWork
  <2>3. QED
    BY <1>1, <2>1, <2>2, RingFacts
<1>4. at = Ahead(used)
  <2>1. CASE FirstRange
    BY <1>1, <1>3, <2>1 DEF FirstRange, Ahead
  <2>2. CASE SecondRange
    BY <1>1, <1>3, <2>2 DEF SecondRange, Ahead
  <2>3. QED
    BY <1>3, <2>1, <2>2
<1>5. /\ Queue \in Seq(Values) /\ Len(Queue) = Published - used /\ Len(Queue) >= 1
      /\ Queue' \in Seq(Values) /\ Len(Queue') = Len(Queue) - 1
  <2>1. /\ Queue \in Seq(Values) /\ Len(Queue) = Published - used
        /\ Queue' \in Seq(Values) /\ Len(Queue') = Published - (used + 1)
    BY <1>1, <1>2 DEF Waits
  <2>2. QED
    BY <1>1, <1>3, <2>1
<1>6. Queue # <<>> /\ Head(Queue) = Queue[1]
  BY <1>5
<1>7. Queue[1] = buff[at]
  <2>1. used \in used .. Published - 1 /\ used - used + 1 = 1
    BY <1>1, <1>3
  <2>2. QED
    BY <1>4, <2>1 DEF Waits
<1>8. ASSUME NEW i \in 1 .. Len(Queue') PROVE Queue'[i] = Queue[i + 1]
  <2> DEFINE k == used + i
  <2>1. /\ k \in used .. Published - 1 /\ k - used + 1 = i + 1
        /\ k \in used + 1 .. Published - 1 /\ k - (used + 1) + 1 = i
    BY <1>3, <1>5
  <2> HIDE DEF k
  <2>2. Queue[i + 1] = buff[Ahead(k)]
    BY <2>1 DEF Waits
  <2>3. Queue'[i] = buff[Ahead(k)]
    BY <1>1, <1>2, <2>1 DEF Waits
  <2>4. QED
    BY <2>2, <2>3
<1>9. Queue' = Tail(Queue)
  BY <1>5, <1>6, <1>8, TailFunction
<1>10. /\ Taken["consumer"] = None
       /\ Taken' = [Taken EXCEPT !["consumer"] = Head(Queue)]
  BY <1>1, <1>6, <1>7 DEF Taken
<1>11. BQ!Pop("consumer")
  BY <1>6, <1>9, <1>10 DEF BQ!Pop, Queue, Taken
<1>12. QED
  BY <1>11 DEF BQ!Next

LEMMA FinishRefines ==
  ASSUME Finish
  PROVE  BQ!Next
<1>1. got # None /\ got' = None /\ UNCHANGED <<atomic_head, atomic_tail, used, buff>>
  BY DEF Finish, ring
<1>2. Queue' = Queue
  BY <1>1, SameBuff
<1>3. Taken["consumer"] # None /\ Taken' = [Taken EXCEPT !["consumer"] = None]
  BY <1>1 DEF Taken
<1>4. BQ!Deliver("consumer")
  BY <1>2, <1>3 DEF BQ!Deliver, Queue, Taken
<1>5. QED
  BY <1>4 DEF BQ!Next

LEMMA ConstructRefines ==
  ASSUME IInv, Waits, Waits', NEW v \in Values, Construct(v)
  PROVE  Queue' = Queue /\ Taken' = Taken
<1>1. /\ SInv /\ buff \in [Slots -> Values \cup {None}]
      /\ buff' = [buff EXCEPT ![Slot(Plus(atomic_head, built))] = v]
      /\ UNCHANGED <<atomic_head, atomic_tail, used, got>>
  BY DEF IInv, SInv, TypeOK, Construct, consumer
<1>2. /\ Published' = Published /\ \A j : Ahead(j)' = Ahead(j)
  BY <1>1 DEF Published, Ahead
<1>3. /\ Published \in 0 .. Size /\ built \in 0 .. Size /\ Published + built < Size
      /\ used \in 0 .. Published /\ Size \in Nat
  <2>1. left >= 1 /\ Reckoned + built + left <= Size /\ Published <= Reckoned
    BY <1>1 DEF SInv, ProducerInv, Construct
  <2>2. left \in Nat
    BY <1>1, Sizes DEF SInv, TypeOK
  <2>3. used \in 0 .. Published
    BY DEF Waits
  <2>4. QED
    BY <1>1, <2>1, <2>2, <2>3, RingFacts
<1>4. Slot(Plus(atomic_head, built)) = Ahead(Published + built)
  BY <1>1, <1>3, HeadFromTail, AheadFrom
<1>5. ASSUME NEW k \in used .. Published - 1
      PROVE  buff[Ahead(k)] = Queue'[k - used + 1]
  <2>1. k \in 0 .. Size - 1 /\ Published + built \in 0 .. Size - 1 /\ k # Published + built
    BY <1>3
  <2>2. Ahead(k) \in Slots /\ Ahead(k) # Ahead(Published + built)
    BY <1>1, <2>1, AheadDistance
  <2>3. buff'[Ahead(k)] = buff[Ahead(k)]
    BY <1>1, <1>4, <2>2
  <2>4. Queue'[k - used + 1] = buff'[Ahead(k)]
    BY <1>1, <1>2 DEF Waits
  <2>5. QED
    BY <2>3, <2>4
<1>6. QED
  BY <1>1, <1>2, <1>5, QueueKept DEF Taken

LEMMA DestroyOneRefines ==
  ASSUME IInv, Waits, Waits', DestroyOne
  PROVE  Queue' = Queue /\ Taken' = Taken
<1> DEFINE x == at - (used - gone)
<1>1. /\ SInv /\ gone < used /\ buff \in [Slots -> Values \cup {None}]
      /\ buff' = [buff EXCEPT ![x] = None]
      /\ pc["consumer"] = "destroy"
      /\ UNCHANGED <<atomic_head, atomic_tail, used, got>>
  BY DEF IInv, SInv, TypeOK, DestroyOne
<1>2. /\ Published' = Published /\ \A j : Ahead(j)' = Ahead(j)
  BY <1>1 DEF Published, Ahead
<1>3. /\ Published \in 0 .. Size /\ used \in 0 .. Published /\ gone \in Nat /\ Size \in Nat
      /\ at \in Nat /\ Slot(atomic_tail) \in 0 .. Size - 1
  BY <1>1, RingFacts DEF Waits
<1>4. x = Ahead(gone)
  <2>1. FirstRange \/ SecondRange
    BY <1>1 DEF SInv, ConsumerInv, AtWork
  <2>2. x \in Slots
    BY <1>1, DestroyOneSInv
  <2>3. CASE FirstRange
    BY <1>1, <1>3, <2>2, <2>3 DEF FirstRange, Ahead, Slots
  <2>4. CASE SecondRange
    BY <1>1, <1>3, <2>2, <2>4 DEF SecondRange, Ahead, Slots
  <2>5. QED
    BY <2>1, <2>3, <2>4
<1> HIDE DEF x
<1>5. ASSUME NEW k \in used .. Published - 1
      PROVE  buff[Ahead(k)] = Queue'[k - used + 1]
  <2>1. k \in 0 .. Size - 1 /\ gone \in 0 .. Size - 1 /\ k # gone
    BY <1>1, <1>3
  <2>2. Ahead(k) \in Slots /\ Ahead(k) # Ahead(gone)
    BY <1>1, <2>1, AheadDistance
  <2>3. buff'[Ahead(k)] = buff[Ahead(k)]
    BY <1>1, <1>4, <2>2
  <2>4. Queue'[k - used + 1] = buff'[Ahead(k)]
    BY <1>1, <1>2 DEF Waits
  <2>5. QED
    BY <2>3, <2>4
<1>6. QED
  BY <1>1, <1>2, <1>5, QueueKept DEF Taken

LEMMA StoreTailRefines ==
  ASSUME IInv, StoreTail
  PROVE  Queue' = Queue /\ Taken' = Taken
<1>1. /\ atomic_tail' = Plus(atomic_tail, used) /\ used' = 0
      /\ UNCHANGED <<atomic_head, buff, got>>
  BY DEF StoreTail, Consumed, NoRanges
<1>2. NextPos' = NextPos
  <2>1. NextPos \in Positions
    BY RingFacts, PlusValue DEF IInv, NextPos
  <2>2. Plus(NextPos, 0) = NextPos
    BY <2>1, PlusValue, Sizes DEF Positions
  <2>3. QED
    BY <1>1, <2>2 DEF NextPos
<1>3. QED
  BY <1>1, <1>2 DEF Queue, Taken

LEMMA CallEndsRefines ==
  ASSUME IInv, FirstOnly, Refuse \/ Throw
  PROVE  Queue' = Queue /\ Taken' = Taken
<1>1. used' = 0 /\ UNCHANGED <<atomic_head, atomic_tail, buff, got>>
  BY DEF Refuse, Throw, NoRanges, ring
<1>2. used = 0
  <2>1. CASE Refuse
    <3>1. used + run = 1 /\ run = 1
      BY <2>1 DEF IInv, SInv, ConsumerInv, Refuse
    <3>2. QED
      BY <3>1, RingFacts DEF IInv
  <2>2. CASE Throw
    BY <2>2 DEF Throw, FirstOnly
  <2>3. QED
    BY <2>1, <2>2
<1>3. QED
  BY <1>1, <1>2, SameBuff DEF Taken

LEMMA NewRingRefines ==
  ASSUME IInv, Waits, Waits', NewRing
  PROVE  Queue' = Queue /\ Taken' = Taken
<1>1. /\ Published = 0 /\ Published' = 0 /\ UNCHANGED <<used, got>>
  BY NewRingSInv DEF IInv, NewRing, consumer
<1>2. used = 0
  BY <1>1 DEF Waits
<1>3. /\ Queue \in Seq(Values) /\ Len(Queue) = 0
      /\ Queue' \in Seq(Values) /\ Len(Queue') = 0
  BY <1>1, <1>2 DEF Waits
<1>4. Queue = <<>> /\ Queue' = <<>>
  BY <1>3
<1>5. QED
  BY <1>1, <1>4 DEF Taken

LEMMA OthersRefine ==
  ASSUME \/ \E n \in 1 .. Size + 1 : BeginPush(n)
         \/ LoadTail \/ ConstructThrows
         \/ BeginConsumeEmpty
         \/ \E batch \in BOOLEAN : BeginConsume(batch) \/ LoadHead(batch)
         \/ Return \/ EndRange
         \/ \E t \in CountCallers : CountLoadHead(t) \/ CountLoadTail(t)
         \/ Destructor
         \/ UNCHANGED vars
  PROVE  Queue' = Queue /\ Taken' = Taken
<1>1. UNCHANGED <<atomic_head, atomic_tail, used, buff, got>>
  BY DEF BeginPush, LoadTail, ConstructThrows, BeginConsumeEmpty, BeginConsume, LoadHead, Return,
     EndRange, CountLoadHead, CountLoadTail, Destructor, vars, ring, consumer
<1>2. QED
  BY <1>1, SameBuff DEF Taken

LEMMA NextRefines ==
  FirstOnly => (IInv /\ Waits /\ Waits' /\ [Next]_vars => [BQ!Next]_<<Queue, Taken>>)
<1> SUFFICES ASSUME FirstOnly, IInv, Waits, Waits', [Next]_vars
             PROVE  BQ!Next \/ UNCHANGED <<Queue, Taken>>
  OBVIOUS
<1>1. CASE ProducerStep
  BY <1>1, StoreHeadRefines, ConstructRefines, OthersRefine DEF ProducerStep
<1>2. CASE ConsumerStep
  BY <1>2, TakeRefines, FinishRefines, DestroyOneRefines, StoreTailRefines, CallEndsRefines,
     OthersRefine DEF ConsumerStep
<1>3. CASE NewRing
  BY <1>3, NewRingRefines
<1>4. CASE \/ \E t \in CountCallers : CountLoadHead(t) \/ CountLoadTail(t)
           \/ Destructor \/ UNCHANGED vars
  BY <1>4, OthersRefine
<1>5. QED
  BY <1>1, <1>2, <1>3, <1>4 DEF Next

(* The ring is a bounded queue, for any size, any place where positions    *)
(* wrap and batches of any size: a batch appears all at once, and elements *)
(* are taken once each in the order of the pushes, when the function does  *)
(* not throw on a second range.                                            *)
THEOREM Refinement == FirstOnly => (Spec => Contract)
<1> SUFFICES ASSUME FirstOnly PROVE Spec => Contract
  OBVIOUS
<1>1. Init => BQ!Init
  <2> SUFFICES ASSUME Init PROVE BQ!Init
    OBVIOUS
  <2>1. IInv /\ Waits
    BY InitIInv, ElementsWait
  <2>2. 0 \in Positions
    BY Sizes DEF Positions
  <2>3. Published = 0 /\ used = 0
    BY <2>2, MinusSame DEF Init, Published
  <2>4. Queue \in Seq(Values) /\ Len(Queue) = 0
    BY <2>1, <2>3 DEF Waits
  <2>5. Queue = <<>>
    BY <2>4
  <2>6. Taken = [c \in {"consumer"} |-> None]
    BY DEF Init, Taken
  <2>7. QED
    BY <2>5, <2>6 DEF BQ!Init, Queue, Taken
<1>2. IInv /\ Waits /\ Waits' /\ [Next]_vars => [BQ!Next]_<<Queue, Taken>>
  BY NextRefines
<1>3. IInv => Waits
  BY ElementsWait
<1>4. Spec => []IInv
  BY Invariance
<1>5. QED
  BY <1>1, <1>2, <1>3, <1>4, PTL DEF Spec, Contract, BQ!Spec, Queue, Taken
=============================================================================
