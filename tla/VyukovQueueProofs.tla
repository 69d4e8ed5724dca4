-------------------------- MODULE VyukovQueueProofs --------------------------
(***************************************************************************)
(* Theorems about VyukovQueue, for any size of the ring, any producers and *)
(* consumers and any number of calls.                                      *)
(*                                                                         *)
(* The positions that matter at a time are fewer than Size apart, so each  *)
(* has a cell of its own, and the cell's number says what goes on at that  *)
(* position: nothing yet, a push, an element that waits, or a pop.         *)
(***************************************************************************)
EXTENDS VyukovQueue, Integers, SequenceTheorems, TLAPS

Pushes(t) == pc[t] \in {"construct", "pushDone"}
Pops(t)   == pc[t] \in {"consume", "popDone"}

(* Who pushes is a producer that has an element, who pops is a consumer.   *)
Roles ==
  \A t \in Threads :
    /\ pc[t] \in {"pushSeq", "pushReload", "pushCas", "construct", "pushDone"} =>
         t \in Producers /\ val[t] \in Values
    /\ pc[t] \in {"popSeq", "popReload", "popCas", "consume", "popDone"} =>
         t \in Consumers

Window == pop_pos <= push_pos /\ push_pos <= pop_pos + Size

(* A position that was read is not ahead of the ring's, behind it when     *)
(* somebody was faster, and when it is still the ring's then what the      *)
(* cell's number told is still true.                                       *)
PositionsRead ==
  \A t \in Threads :
    /\ pc[t] \in {"pushSeq", "pushReload", "pushCas"} => pos[t] <= push_pos
    /\ pc[t] \in {"popSeq", "popReload", "popCas"} => pos[t] <= pop_pos
    /\ pc[t] = "pushReload" => pos[t] < push_pos
    /\ pc[t] = "popReload" => pos[t] < pop_pos
    /\ pc[t] = "pushCas" /\ pos[t] = push_pos => seq[Cell(pos[t])] = pos[t]
    /\ pc[t] = "popCas" /\ pos[t] = pop_pos => seq[Cell(pos[t])] = pos[t] + 1

(* A position is claimed by one push and by one pop.                       *)
ClaimedOnce ==
  \A t, u \in Threads : /\ Pushes(t) /\ Pushes(u) /\ pos[t] = pos[u] => t = u
                        /\ Pops(t) /\ Pops(u) /\ pos[t] = pos[u] => t = u

(* What a thread that has claimed a position finds in its cell.            *)
PushersCells ==
  \A t \in Threads : Pushes(t) =>
    /\ pop_pos <= pos[t] /\ pos[t] < push_pos
    /\ seq[Cell(pos[t])] = pos[t]
    /\ data[Cell(pos[t])] = IF pc[t] = "construct" THEN None ELSE val[t]

PoppersCells ==
  \A t \in Threads : Pops(t) =>
    /\ pos[t] < pop_pos /\ push_pos <= pos[t] + Size
    /\ seq[Cell(pos[t])] = pos[t] + 1
    /\ pc[t] = "consume" => data[Cell(pos[t])] \in Values
    /\ pc[t] = "popDone" => data[Cell(pos[t])] = None /\ val[t] \in Values

(* A position between the two is being pushed or has its element, and one  *)
(* from the second to the end of the ring is being popped since the round  *)
(* before or is free.                                                      *)
Waiting ==
  \A p \in Nat : pop_pos <= p /\ p < push_pos =>
    \/ \E t \in Threads : Pushes(t) /\ pos[t] = p
    \/ seq[Cell(p)] = p + 1 /\ data[Cell(p)] \in Values

Vacant ==
  \A p \in Nat : push_pos <= p /\ p < pop_pos + Size =>
    \/ \E t \in Threads : Pops(t) /\ pos[t] + Size = p
    \/ seq[Cell(p)] = p /\ data[Cell(p)] = None

(* A cell's number never falls behind a position that was claimed.         *)
Behind ==
  \A p \in Nat : /\ p < push_pos => seq[Cell(p)] >= p
                 /\ p < pop_pos => seq[Cell(p)] >= p + 1

Ring == Window /\ ClaimedOnce /\ PushersCells /\ PoppersCells /\ Waiting /\ Vacant
IInv == TypeOK /\ Roles /\ PositionsRead /\ Ring /\ Behind

-----------------------------------------------------------------------------
(* Positions and cells.                                                    *)

LEMMA QuotientRemainder ==
  ASSUME NEW p \in Nat
  PROVE  /\ p = Size * (p \div Size) + (p % Size)
         /\ p \div Size \in Nat
         /\ p % Size \in 0 .. Size - 1
BY SizeAssumption

(* Multiples of Size less than Size apart are the same.                    *)
LEMMA SameMultiple ==
  ASSUME NEW k \in Int, NEW l \in Int,
         Size * k - Size * l \in 1 - Size .. Size - 1
  PROVE  k = l
<1>1. ASSUME NEW d \in Int, Size * d > 0 PROVE Size * d >= Size
  BY <1>1, SizeAssumption
<1>2. ASSUME NEW d \in Int, Size * d < 0 PROVE Size * d <= 0 - Size
  BY <1>2, SizeAssumption
<1>3. Size * (k - l) = Size * k - Size * l /\ k - l \in Int
  BY SizeAssumption
<1>4. Size * (k - l) = 0
  BY <1>1, <1>2, <1>3, SizeAssumption
<1>5. QED
  BY <1>4, SizeAssumption

LEMMA CellsAscend ==
  ASSUME NEW p \in Nat, NEW q \in Nat, p < q, q < p + Size
  PROVE  Cell(p) # Cell(q)
<1> SUFFICES ASSUME p % Size = q % Size PROVE FALSE
  BY DEF Cell
<1> DEFINE k == p \div Size
           l == q \div Size
           m == p % Size
<1>1. /\ p = Size * k + m /\ q = Size * l + m
      /\ k \in Nat /\ l \in Nat /\ m \in Nat
  BY QuotientRemainder
<1> HIDE DEF k, l, m
<1>2. k = l
  BY <1>1, SameMultiple, SizeAssumption
<1>3. QED
  BY <1>1, <1>2

(* Positions less than Size apart have different cells.                    *)
LEMMA CellsApart ==
  ASSUME NEW p \in Nat, NEW q \in Nat, p # q, q < p + Size, p < q + Size
  PROVE  Cell(p) # Cell(q)
<1>1. CASE p < q
  BY <1>1, CellsAscend
<1>2. CASE q < p
  BY <1>2, CellsAscend
<1>3. QED
  BY <1>1, <1>2

(* A position has the cell of the same position of the next round.         *)
LEMMA NextRound ==
  ASSUME NEW p \in Nat
  PROVE  Cell(p + Size) = Cell(p)
<1> DEFINE k == p \div Size
           l == (p + Size) \div Size
           m == p % Size
           n == (p + Size) % Size
<1>1. /\ p = Size * k + m /\ p + Size = Size * l + n
      /\ k \in Nat /\ l \in Nat
      /\ m \in 0 .. Size - 1 /\ n \in 0 .. Size - 1
  <2>1. p + Size \in Nat
    BY SizeAssumption
  <2>2. p = Size * k + m /\ k \in Nat /\ m \in 0 .. Size - 1
    BY QuotientRemainder
  <2>3. p + Size = Size * l + n /\ l \in Nat /\ n \in 0 .. Size - 1
    BY <2>1, QuotientRemainder
  <2>4. QED
    BY <2>2, <2>3
<1> HIDE DEF k, l, m, n
<1>2. Size * (k + 1) = Size * k + Size /\ k + 1 \in Int
  BY <1>1, SizeAssumption
<1>3. k + 1 = l
  BY <1>1, <1>2, SameMultiple, SizeAssumption
<1>4. n = m
  BY <1>1, <1>2, <1>3, SizeAssumption
<1>5. QED
  BY <1>4 DEF n, m, Cell

LEMMA CellType ==
  ASSUME NEW p \in Nat
  PROVE  Cell(p) \in Cells
BY QuotientRemainder DEF Cell, Cells

(* The first Size positions are the cells themselves.                      *)
LEMMA FirstRound ==
  ASSUME NEW p \in Nat, p < Size
  PROVE  Cell(p) = p
BY SizeAssumption DEF Cell

-----------------------------------------------------------------------------
(* What the invariant says of the cells at the two positions of the ring,  *)
(* and of the cells that different threads work on.                        *)

(* The cell that the next push wants.                                      *)
LEMMA AtHead ==
  ASSUME TypeOK, Ring
  PROVE  /\ seq[Cell(push_pos)] <= push_pos
         /\ seq[Cell(push_pos)] = push_pos =>
              /\ push_pos < pop_pos + Size
              /\ data[Cell(push_pos)] = None
              /\ \A u \in Threads : Pops(u) => pos[u] + Size # push_pos
         /\ seq[Cell(push_pos)] < push_pos =>
              \/ push_pos = pop_pos + Size
              \/ \E u \in Threads : Pops(u) /\ pos[u] + Size = push_pos
<1> USE SizeAssumption
<1>1. push_pos \in Nat /\ pop_pos \in Nat /\ \A u \in Threads : pos[u] \in Nat
  BY DEF TypeOK
<1>2. CASE push_pos = pop_pos + Size
  <2>1. Cell(push_pos) = Cell(pop_pos)
    BY <1>1, <1>2, NextRound
  <2>2. seq[Cell(pop_pos)] \in {pop_pos, pop_pos + 1}
    BY <1>1, <1>2 DEF Ring, Waiting, PushersCells
  <2>3. QED
    BY <1>1, <1>2, <2>1, <2>2
<1>3. CASE push_pos < pop_pos + Size
  <2>1. ASSUME NEW u \in Threads, Pops(u), pos[u] + Size = push_pos
        PROVE  seq[Cell(push_pos)] = pos[u] + 1
    BY <1>1, <2>1, NextRound DEF Ring, PoppersCells
  <2>2. \/ \E u \in Threads : Pops(u) /\ pos[u] + Size = push_pos
        \/ seq[Cell(push_pos)] = push_pos /\ data[Cell(push_pos)] = None
    BY <1>1, <1>3 DEF Ring, Vacant
  <2>3. QED
    BY <1>1, <1>3, <2>1, <2>2
<1>4. QED
  BY <1>1, <1>2, <1>3 DEF Ring, Window

(* The cell that the next pop wants.                                       *)
LEMMA AtTail ==
  ASSUME TypeOK, Ring
  PROVE  /\ seq[Cell(pop_pos)] <= pop_pos + 1
         /\ seq[Cell(pop_pos)] = pop_pos + 1 =>
              /\ pop_pos < push_pos
              /\ data[Cell(pop_pos)] \in Values
              /\ \A u \in Threads : Pushes(u) => pos[u] # pop_pos
         /\ seq[Cell(pop_pos)] < pop_pos + 1 =>
              \/ pop_pos = push_pos
              \/ \E u \in Threads : Pushes(u) /\ pos[u] = pop_pos
<1> USE SizeAssumption
<1>1. push_pos \in Nat /\ pop_pos \in Nat /\ \A u \in Threads : pos[u] \in Nat
  BY DEF TypeOK
<1>2. CASE pop_pos < push_pos
  <2>1. ASSUME NEW u \in Threads, Pushes(u), pos[u] = pop_pos
        PROVE  seq[Cell(pop_pos)] = pop_pos
    BY <2>1 DEF Ring, PushersCells
  <2>2. \/ \E u \in Threads : Pushes(u) /\ pos[u] = pop_pos
        \/ seq[Cell(pop_pos)] = pop_pos + 1 /\ data[Cell(pop_pos)] \in Values
    BY <1>1, <1>2 DEF Ring, Waiting
  <2>3. QED
    BY <1>1, <1>2, <2>1, <2>2
<1>3. CASE pop_pos = push_pos
  <2>1. ASSUME NEW u \in Threads, Pops(u), pos[u] + Size = pop_pos
        PROVE  seq[Cell(pop_pos)] = pos[u] + 1
    BY <1>1, <2>1, NextRound DEF Ring, PoppersCells
  <2>2. \/ \E u \in Threads : Pops(u) /\ pos[u] + Size = pop_pos
        \/ seq[Cell(pop_pos)] = pop_pos
    BY <1>1, <1>3 DEF Ring, Vacant
  <2>3. QED
    BY <1>1, <1>3, <2>1, <2>2
<1>4. QED
  BY <1>1, <1>2, <1>3 DEF Ring, Window

(* Nobody else has the cell of a thread that pushes.                       *)
LEMMA PusherAlone ==
  ASSUME TypeOK, Ring, NEW t \in Threads, Pushes(t)
  PROVE  /\ pos[t] \in Nat /\ Cell(pos[t]) \in Cells
         /\ \A u \in Threads \ {t} :
              Pushes(u) \/ Pops(u) => Cell(pos[u]) # Cell(pos[t])
         /\ \A p \in Nat : pop_pos <= p /\ p < pop_pos + Size /\ p # pos[t] =>
              Cell(p) # Cell(pos[t])
<1> USE SizeAssumption
<1>1. push_pos \in Nat /\ pop_pos \in Nat /\ \A u \in Threads : pos[u] \in Nat
  BY DEF TypeOK
<1>2. pop_pos <= pos[t] /\ pos[t] < push_pos /\ push_pos <= pop_pos + Size
  BY DEF Ring, PushersCells, Window
<1>3. ASSUME NEW u \in Threads \ {t}, Pushes(u)
      PROVE  Cell(pos[u]) # Cell(pos[t])
  <2>1. pop_pos <= pos[u] /\ pos[u] < push_pos /\ pos[u] # pos[t]
    BY <1>3 DEF Ring, PushersCells, ClaimedOnce
  <2>2. QED
    BY <1>1, <1>2, <2>1, CellsApart
<1>4. ASSUME NEW u \in Threads, Pops(u)
      PROVE  Cell(pos[u]) # Cell(pos[t])
  <2>1. pos[u] < pop_pos /\ push_pos <= pos[u] + Size
    BY <1>4 DEF Ring, PoppersCells
  <2>2. QED
    BY <1>1, <1>2, <2>1, CellsApart
<1>5. ASSUME NEW p \in Nat, pop_pos <= p, p < pop_pos + Size, p # pos[t]
      PROVE  Cell(p) # Cell(pos[t])
  BY <1>1, <1>2, <1>5, CellsApart
<1>6. QED
  BY <1>1, <1>3, <1>4, <1>5, CellType

(* Nobody else has the cell of a thread that pops.                         *)
LEMMA PopperAlone ==
  ASSUME TypeOK, Ring, NEW t \in Threads, Pops(t)
  PROVE  /\ pos[t] \in Nat /\ Cell(pos[t]) \in Cells
         /\ \A u \in Threads \ {t} :
              Pushes(u) \/ Pops(u) => Cell(pos[u]) # Cell(pos[t])
         /\ \A p \in Nat : pop_pos <= p /\ p < pop_pos + Size /\ p # pos[t] + Size =>
              Cell(p) # Cell(pos[t])
         /\ Cell(pos[t] + Size) = Cell(pos[t])
<1> USE SizeAssumption
<1>1. push_pos \in Nat /\ pop_pos \in Nat /\ \A u \in Threads : pos[u] \in Nat
  BY DEF TypeOK
<1>2. /\ pos[t] < pop_pos /\ push_pos <= pos[t] + Size /\ pop_pos <= push_pos
      /\ Cell(pos[t] + Size) = Cell(pos[t])
  BY <1>1, NextRound DEF Ring, PoppersCells, Window
<1>3. ASSUME NEW u \in Threads \ {t}, Pops(u)
      PROVE  Cell(pos[u]) # Cell(pos[t])
  <2>1. pos[u] < pop_pos /\ push_pos <= pos[u] + Size /\ pos[u] # pos[t]
    BY <1>3 DEF Ring, PoppersCells, ClaimedOnce
  <2>2. QED
    BY <1>1, <1>2, <2>1, CellsApart
<1>4. ASSUME NEW u \in Threads, Pushes(u)
      PROVE  Cell(pos[u]) # Cell(pos[t])
  BY <1>4, PusherAlone DEF Pushes, Pops
<1>5. ASSUME NEW p \in Nat, pop_pos <= p, p < pop_pos + Size, p # pos[t] + Size
      PROVE  Cell(p) # Cell(pos[t])
  <2>1. pos[t] + Size \in Nat
    BY <1>1
  <2>2. Cell(p) # Cell(pos[t] + Size)
    BY <1>1, <1>2, <1>5, <2>1, CellsApart
  <2>3. QED
    BY <1>2, <2>2
<1>6. QED
  BY <1>1, <1>2, <1>3, <1>4, <1>5, CellType

-----------------------------------------------------------------------------
(* Steps.  A step changes what one thread is at.                           *)

OnlyThread(t) ==
  \A u \in Threads \ {t} : pc'[u] = pc[u] /\ pos'[u] = pos[u] /\ val'[u] = val[u]

(* A step of a thread that has no claim before or after it and leaves the  *)
(* ring alone.                                                             *)
LEMMA RingKept ==
  ASSUME TypeOK, Ring, Behind, NEW t \in Threads, OnlyThread(t),
         UNCHANGED <<cells, push_pos, pop_pos>>,
         ~Pushes(t), ~Pops(t), ~Pushes(t)', ~Pops(t)'
  PROVE  Ring' /\ Behind'
<1>1. \A u \in Threads : /\ (Pushes(u)' <=> Pushes(u)) /\ (Pops(u)' <=> Pops(u))
                         /\ Pushes(u) \/ Pops(u) =>
                              pc'[u] = pc[u] /\ pos'[u] = pos[u] /\ val'[u] = val[u]
  BY DEF OnlyThread, Pushes, Pops
<1>2. Window' /\ ClaimedOnce' /\ Behind'
  BY <1>1 DEF Ring, Window, ClaimedOnce, Behind, cells
<1>3. PushersCells' /\ PoppersCells'
  BY <1>1 DEF Ring, PushersCells, PoppersCells, cells
<1>4. Waiting' /\ Vacant'
  BY <1>1 DEF Ring, Waiting, Vacant, cells
<1>5. QED
  BY <1>2, <1>3, <1>4 DEF Ring

(* What the other threads have read stays true as long as no cell's number *)
(* changes and the positions do not go back.                               *)
LEMMA OthersRead ==
  ASSUME TypeOK, PositionsRead, NEW t \in Threads, OnlyThread(t),
         seq' = seq, push_pos' = push_pos, pop_pos' = pop_pos,
         NEW u \in Threads \ {t}
  PROVE  /\ pc'[u] \in {"pushSeq", "pushReload", "pushCas"} => pos'[u] <= push_pos'
         /\ pc'[u] \in {"popSeq", "popReload", "popCas"} => pos'[u] <= pop_pos'
         /\ pc'[u] = "pushReload" => pos'[u] < push_pos'
         /\ pc'[u] = "popReload" => pos'[u] < pop_pos'
         /\ pc'[u] = "pushCas" /\ pos'[u] = push_pos' => seq'[Cell(pos'[u])] = pos'[u]
         /\ pc'[u] = "popCas" /\ pos'[u] = pop_pos' => seq'[Cell(pos'[u])] = pos'[u] + 1
BY DEF PositionsRead, OnlyThread

LEMMA InitIInv == Init => IInv
<1> SUFFICES ASSUME Init PROVE IInv
  OBVIOUS
<1> USE SizeAssumption DEF Init
<1>1. TypeOK
  BY DEF TypeOK, Cells
<1>2. Roles /\ PositionsRead /\ Behind
  BY DEF Roles, PositionsRead, Behind
<1>3. Window /\ ClaimedOnce /\ PushersCells /\ PoppersCells /\ Waiting
  BY DEF Window, ClaimedOnce, PushersCells, PoppersCells, Waiting, Pushes, Pops
<1>4. Vacant
  <2> SUFFICES ASSUME NEW p \in Nat, p < pop_pos + Size
               PROVE  seq[Cell(p)] = p /\ data[Cell(p)] = None
    BY DEF Vacant
  <2>1. Cell(p) = p /\ p \in Cells
    BY FirstRound DEF Cells
  <2>2. QED
    BY <2>1
<1>5. QED
  BY <1>1, <1>2, <1>3, <1>4 DEF IInv, Ring

LEMMA PushIInv ==
  ASSUME IInv, NEW t \in Producers, NEW v \in Values, Push(t, v)
  PROVE  IInv'
<1> USE DEF IInv
<1>1. t \in Threads
  BY DEF Threads
<1>2. TypeOK' /\ OnlyThread(t)
  BY <1>1 DEF TypeOK, Push, GoTo, OnlyThread, cells
<1>3. Roles'
  BY <1>1 DEF TypeOK, Roles, Push, GoTo
<1>4. PositionsRead'
  BY <1>1, <1>2, OthersRead DEF TypeOK, PositionsRead, Push, GoTo, cells
<1>5. Ring' /\ Behind'
  BY <1>1, <1>2, RingKept DEF TypeOK, Push, GoTo, Pushes, Pops, cells
<1>6. QED
  BY <1>2, <1>3, <1>4, <1>5

LEMMA PushLoadSeqIInv ==
  ASSUME IInv, NEW t \in Producers, PushLoadSeq(t)
  PROVE  IInv'
<1> USE DEF IInv
<1>1. t \in Threads
  BY DEF Threads
<1>2. TypeOK' /\ OnlyThread(t)
  BY <1>1 DEF TypeOK, PushLoadSeq, Turn, Return, GoTo, OnlyThread, cells
<1>3. Roles'
  BY <1>1 DEF TypeOK, Roles, PushLoadSeq, Turn, Return, GoTo
<1>4. PositionsRead'
  <2>1. pos[t] <= push_pos /\ pos[t] \in Nat /\ push_pos \in Nat
    BY <1>1 DEF TypeOK, PositionsRead, PushLoadSeq
  <2>2. seq[Cell(pos[t])] > pos[t] => pos[t] # push_pos
    <3>1. seq[Cell(push_pos)] <= push_pos /\ seq[Cell(push_pos)] \in Nat
      BY <2>1, AtHead, CellType DEF TypeOK
    <3>2. QED
      BY <2>1, <3>1
  <2>3. CASE seq[Cell(pos[t])] = pos[t] /\ GoTo(t, "pushCas") /\ UNCHANGED <<pos, val>>
    BY <1>1, <1>2, <2>1, <2>3, OthersRead
    DEF TypeOK, PositionsRead, PushLoadSeq, GoTo, cells
  <2>4. CASE seq[Cell(pos[t])] > pos[t] /\ GoTo(t, "pushReload") /\ UNCHANGED <<pos, val>>
    BY <1>1, <1>2, <2>1, <2>2, <2>4, OthersRead
    DEF TypeOK, PositionsRead, PushLoadSeq, GoTo, cells
  <2>5. CASE Return(t)
    BY <1>1, <1>2, <2>5, OthersRead
    DEF TypeOK, PositionsRead, PushLoadSeq, Return, GoTo, cells
  <2>6. QED
    BY <2>3, <2>4, <2>5 DEF PushLoadSeq, Turn
<1>5. Ring' /\ Behind'
  BY <1>1, <1>2, RingKept DEF TypeOK, PushLoadSeq, Turn, Return, GoTo, Pushes, Pops, cells
<1>6. QED
  BY <1>2, <1>3, <1>4, <1>5

LEMMA PushReloadIInv ==
  ASSUME IInv, NEW t \in Producers, PushReload(t)
  PROVE  IInv'
<1> USE DEF IInv
<1>1. t \in Threads
  BY DEF Threads
<1>2. TypeOK' /\ OnlyThread(t)
  BY <1>1 DEF TypeOK, PushReload, Retry, GoTo, OnlyThread, cells
<1>3. Roles'
  BY <1>1 DEF TypeOK, Roles, PushReload, Retry, GoTo
<1>4. PositionsRead'
  BY <1>1, <1>2, OthersRead DEF TypeOK, PositionsRead, PushReload, Retry, GoTo, cells
<1>5. Ring' /\ Behind'
  BY <1>1, <1>2, RingKept DEF TypeOK, PushReload, Retry, GoTo, Pushes, Pops, cells
<1>6. QED
  BY <1>2, <1>3, <1>4, <1>5

LEMMA PushCasIInv ==
  ASSUME IInv, NEW t \in Producers, PushCas(t)
  PROVE  IInv'
<1> USE DEF IInv
<1>1. t \in Threads
  BY DEF Threads
<1>2. CASE Retry(t, push_pos, "pushSeq") /\ UNCHANGED push_pos
  <2>1. TypeOK' /\ OnlyThread(t)
    BY <1>1, <1>2 DEF TypeOK, PushCas, Retry, GoTo, OnlyThread, cells
  <2>2. Roles'
    BY <1>1, <1>2 DEF TypeOK, Roles, PushCas, Retry, GoTo
  <2>3. PositionsRead'
    BY <1>1, <1>2, <2>1, OthersRead
    DEF TypeOK, PositionsRead, PushCas, Retry, GoTo, cells
  <2>4. Ring' /\ Behind'
    BY <1>1, <1>2, <2>1, RingKept DEF TypeOK, PushCas, Retry, GoTo, Pushes, Pops, cells
  <2>5. QED
    BY <2>1, <2>2, <2>3, <2>4
<1>3. CASE /\ push_pos = pos[t] /\ push_pos' = pos[t] + 1
           /\ GoTo(t, "construct") /\ UNCHANGED <<pos, val>>
  <2> USE <1>1, <1>3 DEF PushCas, GoTo, cells
  <2>1. /\ push_pos \in Nat /\ pop_pos \in Nat /\ pop_pos <= push_pos
        /\ pos[t] = push_pos /\ push_pos' = push_pos + 1
        /\ seq' = seq /\ data' = data /\ pop_pos' = pop_pos /\ pos' = pos /\ val' = val
        /\ \A u \in Threads : pos[u] \in Nat
        /\ Size \in Nat /\ Size >= 2
    BY SizeAssumption DEF TypeOK
  <2>2. /\ seq[Cell(push_pos)] = push_pos
        /\ push_pos < pop_pos + Size
        /\ data[Cell(push_pos)] = None
        /\ \A u \in Threads : Pops(u) => pos[u] + Size # push_pos
    BY AtHead DEF PositionsRead
  <2>3. /\ pc'[t] = "construct"
        /\ \A u \in Threads \ {t} : pc'[u] = pc[u]
    BY DEF TypeOK
  <2>4. /\ Pushes(t)' /\ ~Pushes(t) /\ ~Pops(t)' /\ ~Pops(t)
        /\ \A u \in Threads \ {t} : (Pushes(u)' <=> Pushes(u)) /\ (Pops(u)' <=> Pops(u))
    BY <2>3 DEF Pushes, Pops
  <2>5. TypeOK'
    BY <2>1 DEF TypeOK
  <2>6. Roles'
    BY <2>1, <2>3 DEF Roles
  <2>7. PositionsRead'
    BY <2>1, <2>3 DEF PositionsRead
  <2>8. Window' /\ Behind'
    BY <2>1, <2>2 DEF Ring, Window, Behind
  <2>9. ClaimedOnce'
    BY <2>1, <2>4 DEF Ring, ClaimedOnce, PushersCells
  <2>10. PushersCells'
    BY <2>1, <2>2, <2>3, <2>4 DEF Ring, PushersCells, Window
  <2>11. PoppersCells'
    BY <2>1, <2>2, <2>3, <2>4 DEF Ring, PoppersCells
  <2>12. Waiting' /\ Vacant'
    BY <2>1, <2>4 DEF Ring, Waiting, Vacant
  <2>13. QED
    BY <2>5, <2>6, <2>7, <2>8, <2>9, <2>10, <2>11, <2>12 DEF Ring
<1>4. QED
  BY <1>2, <1>3 DEF PushCas

LEMMA ConstructIInv ==
  ASSUME IInv, NEW t \in Producers, Construct(t)
  PROVE  IInv'
<1> USE DEF IInv
<1>1. t \in Threads /\ Pushes(t)
  BY DEF Threads, Construct, Pushes
<1>2. /\ pos[t] \in Nat /\ Cell(pos[t]) \in Cells /\ val[t] \in Values
      /\ \A u \in Threads \ {t} : Pushes(u) \/ Pops(u) => Cell(pos[u]) # Cell(pos[t])
      /\ \A p \in Nat : pop_pos <= p /\ p < pop_pos + Size /\ p # pos[t] =>
           Cell(p) # Cell(pos[t])
  BY <1>1, PusherAlone DEF Roles, Construct
<1>3. /\ push_pos \in Nat /\ pop_pos \in Nat /\ push_pos <= pop_pos + Size
      /\ seq' = seq /\ push_pos' = push_pos /\ pop_pos' = pop_pos
      /\ pos' = pos /\ val' = val
      /\ pop_pos <= pos[t] /\ pos[t] < push_pos
  BY <1>1 DEF TypeOK, Ring, Window, PushersCells, Construct
<1>4. /\ pc'[t] = "pushDone"
      /\ \A u \in Threads \ {t} : pc'[u] = pc[u]
      /\ \A u \in Threads : (Pushes(u)' <=> Pushes(u)) /\ (Pops(u)' <=> Pops(u))
  BY <1>1 DEF TypeOK, Construct, GoTo, Pushes, Pops
<1>5. /\ data'[Cell(pos[t])] = val[t]
      /\ \A i \in Cells : i # Cell(pos[t]) => data'[i] = data[i]
  BY <1>2 DEF TypeOK, Construct
<1>6. TypeOK'
  BY <1>1, <1>2 DEF TypeOK, Construct, GoTo
<1>7. Roles' /\ PositionsRead'
  BY <1>3, <1>4, Zenon DEF Roles, PositionsRead, Construct
<1>8. Window' /\ ClaimedOnce' /\ Behind'
  BY <1>3, <1>4 DEF Ring, Window, ClaimedOnce, Behind
<1>9. \A u \in Threads : pos[u] \in Nat /\ Cell(pos[u]) \in Cells
  BY CellType DEF TypeOK
<1>10. PushersCells' /\ PoppersCells'
  BY <1>1, <1>2, <1>3, <1>4, <1>5, <1>9 DEF Ring, PushersCells, PoppersCells, Pops
<1>11. Waiting'
  BY <1>1, <1>2, <1>3, <1>4, <1>5, CellType DEF Ring, Waiting
<1>12. Vacant'
  <2> SUFFICES ASSUME NEW p \in Nat, push_pos <= p, p < pop_pos + Size,
                      ~ \E u \in Threads : Pops(u) /\ pos[u] + Size = p
               PROVE  seq[Cell(p)] = p /\ data'[Cell(p)] = None
    BY <1>3, <1>4 DEF Vacant
  <2>1. pop_pos <= p /\ p # pos[t]
    BY <1>3 DEF Ring, Window
  <2>2. Cell(p) # Cell(pos[t]) /\ Cell(p) \in Cells
    BY <1>2, <2>1, CellType
  <2>3. QED
    BY <1>5, <2>2 DEF Ring, Vacant
<1>13. QED
  BY <1>6, <1>7, <1>8, <1>10, <1>11, <1>12 DEF Ring

LEMMA PushDoneIInv ==
  ASSUME IInv, NEW t \in Producers, PushDone(t)
  PROVE  IInv'
<1> USE DEF IInv
<1>1. t \in Threads /\ Pushes(t) /\ pc[t] = "pushDone"
  BY DEF Threads, PushDone, Pushes
<1>2. /\ pos[t] \in Nat /\ Cell(pos[t]) \in Cells
      /\ \A u \in Threads \ {t} : Pushes(u) \/ Pops(u) => Cell(pos[u]) # Cell(pos[t])
      /\ \A p \in Nat : pop_pos <= p /\ p < pop_pos + Size /\ p # pos[t] =>
           Cell(p) # Cell(pos[t])
  BY <1>1, PusherAlone
<1>3. /\ push_pos \in Nat /\ pop_pos \in Nat
      /\ pop_pos <= push_pos /\ push_pos <= pop_pos + Size
      /\ data' = data /\ push_pos' = push_pos /\ pop_pos' = pop_pos
      /\ pop_pos <= pos[t] /\ pos[t] < push_pos
      /\ seq[Cell(pos[t])] = pos[t]
      /\ data[Cell(pos[t])] = val[t] /\ val[t] \in Values
  BY <1>1 DEF TypeOK, Ring, Window, PushersCells, PushDone, Roles
<1>4. /\ pc'[t] = "idle" /\ ~Pushes(t)' /\ ~Pops(t)' /\ ~Pops(t)
      /\ OnlyThread(t)
      /\ \A u \in Threads \ {t} : (Pushes(u)' <=> Pushes(u)) /\ (Pops(u)' <=> Pops(u))
  BY <1>1 DEF TypeOK, PushDone, Return, GoTo, Pushes, Pops, OnlyThread
<1>5. /\ seq'[Cell(pos[t])] = pos[t] + 1
      /\ \A i \in Cells : i # Cell(pos[t]) => seq'[i] = seq[i]
  BY <1>2 DEF TypeOK, PushDone, Filled
<1>6. TypeOK'
  BY <1>1, <1>2 DEF TypeOK, PushDone, Return, GoTo, Filled
<1>7. Roles'
  BY <1>4 DEF Roles, OnlyThread
<1>8. \A u \in Threads : pos[u] \in Nat /\ Cell(pos[u]) \in Cells /\ seq[Cell(pos[u])] \in Nat
  BY CellType DEF TypeOK
<1>9. PositionsRead'
  <2> SUFFICES ASSUME NEW u \in Threads \ {t}
               PROVE  /\ pc[u] = "pushCas" /\ pos[u] = push_pos => seq'[Cell(pos[u])] = pos[u]
                      /\ pc[u] = "popCas" /\ pos[u] = pop_pos => seq'[Cell(pos[u])] = pos[u] + 1
    BY <1>3, <1>4 DEF PositionsRead, OnlyThread
  <2>1. CASE pc[u] = "pushCas" /\ pos[u] = push_pos
    <3>1. seq[Cell(push_pos)] = push_pos
      BY <2>1 DEF PositionsRead
    <3>2. Cell(push_pos) # Cell(pos[t])
      BY <1>2, <1>3, <3>1, AtHead
    <3>3. QED
      BY <1>3, <1>5, <2>1, <3>1, <3>2, CellType
  <2>2. CASE pc[u] = "popCas" /\ pos[u] = pop_pos
    <3>1. seq[Cell(pop_pos)] = pop_pos + 1
      BY <2>2 DEF PositionsRead
    <3>2. pop_pos # pos[t]
      BY <1>1, <3>1, AtTail
    <3>3. Cell(pop_pos) # Cell(pos[t])
      BY <1>2, <1>3, <3>2, SizeAssumption
    <3>4. QED
      BY <1>3, <1>5, <2>2, <3>1, <3>3, CellType
  <2>3. QED
    BY <2>1, <2>2
<1>10. Window' /\ ClaimedOnce'
  BY <1>3, <1>4 DEF Ring, Window, ClaimedOnce, OnlyThread
<1>11. PushersCells' /\ PoppersCells'
  BY <1>2, <1>3, <1>4, <1>5, <1>8 DEF Ring, PushersCells, PoppersCells, OnlyThread
<1>12. Waiting'
  <2> SUFFICES ASSUME NEW p \in Nat, pop_pos <= p, p < push_pos
               PROVE  \/ \E u \in Threads : Pushes(u)' /\ pos'[u] = p
                      \/ seq'[Cell(p)] = p + 1 /\ data[Cell(p)] \in Values
    BY <1>3 DEF Waiting
  <2>1. CASE p = pos[t]
    BY <1>3, <1>5, <2>1
  <2>2. CASE p # pos[t]
    <3>1. Cell(p) # Cell(pos[t]) /\ Cell(p) \in Cells
      BY <1>2, <1>3, <2>2, CellType, SizeAssumption
    <3>2. \/ \E u \in Threads : Pushes(u) /\ pos[u] = p
          \/ seq[Cell(p)] = p + 1 /\ data[Cell(p)] \in Values
      BY DEF Ring, Waiting
    <3>3. QED
      BY <1>4, <1>5, <2>2, <3>1, <3>2 DEF OnlyThread
  <2>3. QED
    BY <2>1, <2>2
<1>13. Vacant'
  <2> SUFFICES ASSUME NEW p \in Nat, push_pos <= p, p < pop_pos + Size
               PROVE  \/ \E u \in Threads : Pops(u)' /\ pos'[u] + Size = p
                      \/ seq'[Cell(p)] = p /\ data[Cell(p)] = None
    BY <1>3 DEF Vacant
  <2>1. Cell(p) # Cell(pos[t]) /\ Cell(p) \in Cells
    BY <1>2, <1>3, CellType
  <2>2. \/ \E u \in Threads : Pops(u) /\ pos[u] + Size = p
        \/ seq[Cell(p)] = p /\ data[Cell(p)] = None
    BY DEF Ring, Vacant
  <2>3. QED
    BY <1>4, <1>5, <2>1, <2>2 DEF OnlyThread
<1>14. Behind'
  <2> SUFFICES ASSUME NEW p \in Nat
               PROVE  seq'[Cell(p)] >= seq[Cell(p)] /\ seq'[Cell(p)] \in Nat
    BY <1>3, CellType DEF Behind, TypeOK
  <2>1. Cell(p) \in Cells /\ seq[Cell(p)] \in Nat
    BY CellType DEF TypeOK
  <2>2. QED
    BY <1>2, <1>3, <1>5, <2>1
<1>15. QED
  BY <1>6, <1>7, <1>9, <1>10, <1>11, <1>12, <1>13, <1>14 DEF Ring

LEMMA PopIInv ==
  ASSUME IInv, NEW t \in Consumers, Pop(t)
  PROVE  IInv'
<1> USE DEF IInv
<1>1. t \in Threads
  BY DEF Threads
<1>2. TypeOK' /\ OnlyThread(t)
  BY <1>1 DEF TypeOK, Pop, GoTo, OnlyThread, cells
<1>3. Roles'
  BY <1>1 DEF TypeOK, Roles, Pop, GoTo
<1>4. PositionsRead'
  BY <1>1, <1>2, OthersRead DEF TypeOK, PositionsRead, Pop, GoTo, cells
<1>5. Ring' /\ Behind'
  BY <1>1, <1>2, RingKept DEF TypeOK, Pop, GoTo, Pushes, Pops, cells
<1>6. QED
  BY <1>2, <1>3, <1>4, <1>5

LEMMA PopLoadSeqIInv ==
  ASSUME IInv, NEW t \in Consumers, PopLoadSeq(t)
  PROVE  IInv'
<1> USE DEF IInv
<1>1. t \in Threads
  BY DEF Threads
<1>2. TypeOK' /\ OnlyThread(t)
  BY <1>1 DEF TypeOK, PopLoadSeq, Turn, Return, GoTo, OnlyThread, cells
<1>3. Roles'
  BY <1>1 DEF TypeOK, Roles, PopLoadSeq, Turn, Return, GoTo
<1>4. PositionsRead'
  <2>1. pos[t] <= pop_pos /\ pos[t] \in Nat /\ pop_pos \in Nat
    BY <1>1 DEF TypeOK, PositionsRead, PopLoadSeq
  <2>2. seq[Cell(pos[t])] > pos[t] + 1 => pos[t] # pop_pos
    <3>1. seq[Cell(pop_pos)] <= pop_pos + 1 /\ seq[Cell(pop_pos)] \in Nat
      BY <2>1, AtTail, CellType DEF TypeOK
    <3>2. QED
      BY <2>1, <3>1
  <2>3. CASE seq[Cell(pos[t])] = pos[t] + 1 /\ GoTo(t, "popCas") /\ UNCHANGED <<pos, val>>
    BY <1>1, <1>2, <2>1, <2>3, OthersRead
    DEF TypeOK, PositionsRead, PopLoadSeq, GoTo, cells
  <2>4. CASE seq[Cell(pos[t])] > pos[t] + 1 /\ GoTo(t, "popReload") /\ UNCHANGED <<pos, val>>
    BY <1>1, <1>2, <2>1, <2>2, <2>4, OthersRead
    DEF TypeOK, PositionsRead, PopLoadSeq, GoTo, cells
  <2>5. CASE Return(t)
    BY <1>1, <1>2, <2>5, OthersRead
    DEF TypeOK, PositionsRead, PopLoadSeq, Return, GoTo, cells
  <2>6. QED
    BY <2>3, <2>4, <2>5 DEF PopLoadSeq, Turn, PopTurn
<1>5. Ring' /\ Behind'
  BY <1>1, <1>2, RingKept DEF TypeOK, PopLoadSeq, Turn, Return, GoTo, Pushes, Pops, cells
<1>6. QED
  BY <1>2, <1>3, <1>4, <1>5

LEMMA PopReloadIInv ==
  ASSUME IInv, NEW t \in Consumers, PopReload(t)
  PROVE  IInv'
<1> USE DEF IInv
<1>1. t \in Threads
  BY DEF Threads
<1>2. TypeOK' /\ OnlyThread(t)
  BY <1>1 DEF TypeOK, PopReload, Retry, GoTo, OnlyThread, cells
<1>3. Roles'
  BY <1>1 DEF TypeOK, Roles, PopReload, Retry, GoTo
<1>4. PositionsRead'
  BY <1>1, <1>2, OthersRead DEF TypeOK, PositionsRead, PopReload, Retry, GoTo, cells
<1>5. Ring' /\ Behind'
  BY <1>1, <1>2, RingKept DEF TypeOK, PopReload, Retry, GoTo, Pushes, Pops, cells
<1>6. QED
  BY <1>2, <1>3, <1>4, <1>5

LEMMA PopCasIInv ==
  ASSUME IInv, NEW t \in Consumers, PopCas(t)
  PROVE  IInv'
<1> USE DEF IInv
<1>1. t \in Threads
  BY DEF Threads
<1>2. CASE Retry(t, pop_pos, "popSeq") /\ UNCHANGED pop_pos
  <2>1. TypeOK' /\ OnlyThread(t)
    BY <1>1, <1>2 DEF TypeOK, PopCas, Retry, GoTo, OnlyThread, cells
  <2>2. Roles'
    BY <1>1, <1>2 DEF TypeOK, Roles, PopCas, Retry, GoTo
  <2>3. PositionsRead'
    BY <1>1, <1>2, <2>1, OthersRead
    DEF TypeOK, PositionsRead, PopCas, Retry, GoTo, cells
  <2>4. Ring' /\ Behind'
    BY <1>1, <1>2, <2>1, RingKept DEF TypeOK, PopCas, Retry, GoTo, Pushes, Pops, cells
  <2>5. QED
    BY <2>1, <2>2, <2>3, <2>4
<1>3. CASE /\ pop_pos = pos[t] /\ pop_pos' = pos[t] + 1
           /\ GoTo(t, "consume") /\ UNCHANGED <<pos, val>>
  <2> USE <1>1, <1>3 DEF PopCas, GoTo, cells
  <2>1. /\ push_pos \in Nat /\ pop_pos \in Nat /\ push_pos <= pop_pos + Size
        /\ pos[t] = pop_pos /\ pop_pos' = pop_pos + 1
        /\ seq' = seq /\ data' = data /\ push_pos' = push_pos /\ pos' = pos /\ val' = val
        /\ \A u \in Threads : pos[u] \in Nat
        /\ Size \in Nat /\ Size >= 2
    BY SizeAssumption DEF TypeOK, Ring, Window
  <2>2. /\ seq[Cell(pop_pos)] = pop_pos + 1
        /\ pop_pos < push_pos
        /\ data[Cell(pop_pos)] \in Values
        /\ \A u \in Threads : Pushes(u) => pos[u] # pop_pos
    BY AtTail DEF PositionsRead
  <2>3. /\ pc'[t] = "consume"
        /\ \A u \in Threads \ {t} : pc'[u] = pc[u]
    BY DEF TypeOK
  <2>4. /\ Pops(t)' /\ ~Pops(t) /\ ~Pushes(t)' /\ ~Pushes(t)
        /\ \A u \in Threads \ {t} : (Pushes(u)' <=> Pushes(u)) /\ (Pops(u)' <=> Pops(u))
    BY <2>3 DEF Pushes, Pops
  <2>5. TypeOK'
    BY <2>1, <2>2 DEF TypeOK
  <2>6. Roles'
    BY <2>1, <2>3 DEF Roles
  <2>7. PositionsRead'
    BY <2>1, <2>3 DEF PositionsRead
  <2>8. Window' /\ Behind'
    BY <2>1, <2>2 DEF Ring, Window, Behind
  <2>9. ClaimedOnce'
    BY <2>1, <2>4 DEF Ring, ClaimedOnce, PoppersCells
  <2>10. PushersCells'
    BY <2>1, <2>2, <2>3, <2>4 DEF Ring, PushersCells
  <2>11. PoppersCells'
    BY <2>1, <2>2, <2>3, <2>4 DEF Ring, PoppersCells
  <2>12. Waiting'
    BY <2>1, <2>4 DEF Ring, Waiting
  <2>13. Vacant'
    BY <2>1, <2>4 DEF Ring, Vacant
  <2>14. QED
    BY <2>5, <2>6, <2>7, <2>8, <2>9, <2>10, <2>11, <2>12, <2>13 DEF Ring
<1>4. QED
  BY <1>2, <1>3 DEF PopCas

LEMMA ConsumeIInv ==
  ASSUME IInv, NEW t \in Consumers, Consume(t)
  PROVE  IInv'
<1> USE DEF IInv
<1>1. t \in Threads /\ Pops(t) /\ pc[t] = "consume"
  BY DEF Threads, Consume, Pops
<1>2. /\ pos[t] \in Nat /\ Cell(pos[t]) \in Cells
      /\ \A u \in Threads \ {t} : Pushes(u) \/ Pops(u) => Cell(pos[u]) # Cell(pos[t])
      /\ \A p \in Nat : pop_pos <= p /\ p < pop_pos + Size /\ p # pos[t] + Size =>
           Cell(p) # Cell(pos[t])
  BY <1>1, PopperAlone
<1>3. /\ push_pos \in Nat /\ pop_pos \in Nat
      /\ pop_pos <= push_pos /\ push_pos <= pop_pos + Size
      /\ seq' = seq /\ push_pos' = push_pos /\ pop_pos' = pop_pos /\ pos' = pos
      /\ pos[t] < pop_pos /\ push_pos <= pos[t] + Size
      /\ data[Cell(pos[t])] \in Values
  BY <1>1 DEF TypeOK, Ring, Window, PoppersCells, Consume
<1>4. /\ pc'[t] = "popDone" /\ val'[t] = data[Cell(pos[t])]
      /\ OnlyThread(t)
      /\ \A u \in Threads : (Pushes(u)' <=> Pushes(u)) /\ (Pops(u)' <=> Pops(u))
  BY <1>1 DEF TypeOK, Consume, GoTo, Pushes, Pops, OnlyThread
<1>5. /\ data'[Cell(pos[t])] = None
      /\ \A i \in Cells : i # Cell(pos[t]) => data'[i] = data[i]
  BY <1>2 DEF TypeOK, Consume
<1>6. TypeOK'
  BY <1>1, <1>2, <1>3 DEF TypeOK, Consume, GoTo
<1>7. Roles' /\ PositionsRead'
  BY <1>1, <1>3, <1>4, Zenon DEF Roles, PositionsRead, OnlyThread
<1>8. Window' /\ ClaimedOnce' /\ Behind'
  BY <1>3, <1>4 DEF Ring, Window, ClaimedOnce, Behind
<1>9. \A u \in Threads : pos[u] \in Nat /\ Cell(pos[u]) \in Cells
  BY CellType DEF TypeOK
<1>10. PushersCells' /\ PoppersCells'
  BY <1>1, <1>2, <1>3, <1>4, <1>5, <1>9
  DEF Ring, PushersCells, PoppersCells, Pushes, OnlyThread
<1>11. Waiting'
  <2> SUFFICES ASSUME NEW p \in Nat, pop_pos <= p, p < push_pos
               PROVE  Cell(p) # Cell(pos[t]) /\ Cell(p) \in Cells
    BY <1>3, <1>4, <1>5 DEF Ring, Waiting
  <2>1. p # pos[t] + Size /\ p < pop_pos + Size
    BY <1>2, <1>3, SizeAssumption
  <2>2. QED
    BY <1>2, <2>1, CellType
<1>12. Vacant'
  <2> SUFFICES ASSUME NEW p \in Nat, push_pos <= p, p < pop_pos + Size,
                      ~ \E u \in Threads : Pops(u) /\ pos[u] + Size = p
               PROVE  seq[Cell(p)] = p /\ data'[Cell(p)] = None
    BY <1>3, <1>4 DEF Vacant
  <2>1. pop_pos <= p /\ p # pos[t] + Size
    BY <1>1, <1>3
  <2>2. Cell(p) # Cell(pos[t]) /\ Cell(p) \in Cells
    BY <1>2, <2>1, CellType
  <2>3. QED
    BY <1>5, <2>2 DEF Ring, Vacant
<1>13. QED
  BY <1>6, <1>7, <1>8, <1>10, <1>11, <1>12 DEF Ring

LEMMA PopDoneIInv ==
  ASSUME IInv, NEW t \in Consumers, PopDone(t)
  PROVE  IInv'
<1> USE DEF IInv
<1>1. t \in Threads /\ Pops(t) /\ pc[t] = "popDone"
  BY DEF Threads, PopDone, Pops
<1>2. /\ pos[t] \in Nat /\ Cell(pos[t]) \in Cells
      /\ \A u \in Threads \ {t} : Pushes(u) \/ Pops(u) => Cell(pos[u]) # Cell(pos[t])
      /\ \A p \in Nat : pop_pos <= p /\ p < pop_pos + Size /\ p # pos[t] + Size =>
           Cell(p) # Cell(pos[t])
      /\ Cell(pos[t] + Size) = Cell(pos[t])
  BY <1>1, PopperAlone
<1>3. /\ push_pos \in Nat /\ pop_pos \in Nat
      /\ pop_pos <= push_pos /\ push_pos <= pop_pos + Size
      /\ data' = data /\ push_pos' = push_pos /\ pop_pos' = pop_pos
      /\ pos[t] < pop_pos /\ push_pos <= pos[t] + Size
      /\ seq[Cell(pos[t])] = pos[t] + 1
      /\ data[Cell(pos[t])] = None
      /\ Size \in Nat /\ Size >= 2
  BY <1>1, SizeAssumption DEF TypeOK, Ring, Window, PoppersCells, PopDone
<1>4. /\ pc'[t] = "idle" /\ ~Pushes(t)' /\ ~Pops(t)' /\ ~Pushes(t)
      /\ OnlyThread(t)
      /\ \A u \in Threads \ {t} : (Pushes(u)' <=> Pushes(u)) /\ (Pops(u)' <=> Pops(u))
  BY <1>1 DEF TypeOK, PopDone, Return, GoTo, Pushes, Pops, OnlyThread
<1>5. /\ seq'[Cell(pos[t])] = pos[t] + Size
      /\ \A i \in Cells : i # Cell(pos[t]) => seq'[i] = seq[i]
  BY <1>2 DEF TypeOK, PopDone, Freed
<1>6. TypeOK'
  BY <1>1, <1>2, <1>3 DEF TypeOK, PopDone, Return, GoTo, Freed
<1>7. Roles'
  BY <1>4 DEF Roles, OnlyThread
<1>8. \A u \in Threads : pos[u] \in Nat /\ Cell(pos[u]) \in Cells /\ seq[Cell(pos[u])] \in Nat
  BY CellType DEF TypeOK
<1>9. PositionsRead'
  <2> SUFFICES ASSUME NEW u \in Threads \ {t}
               PROVE  /\ pc[u] = "pushCas" /\ pos[u] = push_pos => seq'[Cell(pos[u])] = pos[u]
                      /\ pc[u] = "popCas" /\ pos[u] = pop_pos => seq'[Cell(pos[u])] = pos[u] + 1
    BY <1>3, <1>4 DEF PositionsRead, OnlyThread
  <2>1. CASE pc[u] = "pushCas" /\ pos[u] = push_pos
    <3>1. seq[Cell(push_pos)] = push_pos
      BY <2>1 DEF PositionsRead
    <3>2. push_pos # pos[t] + Size /\ push_pos < pop_pos + Size
      BY <1>1, <3>1, AtHead
    <3>3. Cell(push_pos) # Cell(pos[t])
      BY <1>2, <1>3, <3>2
    <3>4. QED
      BY <1>3, <1>5, <2>1, <3>1, <3>3, CellType
  <2>2. CASE pc[u] = "popCas" /\ pos[u] = pop_pos
    <3>1. seq[Cell(pop_pos)] = pop_pos + 1
      BY <2>2 DEF PositionsRead
    <3>2. pop_pos < push_pos
      BY <3>1, AtTail
    <3>3. Cell(pop_pos) # Cell(pos[t])
      BY <1>2, <1>3, <3>2
    <3>4. QED
      BY <1>3, <1>5, <2>2, <3>1, <3>3, CellType
  <2>3. QED
    BY <2>1, <2>2
<1>10. Window' /\ ClaimedOnce'
  BY <1>3, <1>4 DEF Ring, Window, ClaimedOnce, OnlyThread
<1>11. PushersCells' /\ PoppersCells'
  BY <1>2, <1>3, <1>4, <1>5, <1>8 DEF Ring, PushersCells, PoppersCells, OnlyThread
<1>12. Waiting'
  <2> SUFFICES ASSUME NEW p \in Nat, pop_pos <= p, p < push_pos
               PROVE  \/ \E u \in Threads : Pushes(u)' /\ pos'[u] = p
                      \/ seq'[Cell(p)] = p + 1 /\ data[Cell(p)] \in Values
    BY <1>3 DEF Waiting
  <2>1. Cell(p) # Cell(pos[t]) /\ Cell(p) \in Cells
    BY <1>2, <1>3, CellType
  <2>2. \/ \E u \in Threads : Pushes(u) /\ pos[u] = p
        \/ seq[Cell(p)] = p + 1 /\ data[Cell(p)] \in Values
    BY DEF Ring, Waiting
  <2>3. QED
    BY <1>4, <1>5, <2>1, <2>2 DEF OnlyThread
<1>13. Vacant'
  <2> SUFFICES ASSUME NEW p \in Nat, push_pos <= p, p < pop_pos + Size
               PROVE  \/ \E u \in Threads : Pops(u)' /\ pos'[u] + Size = p
                      \/ seq'[Cell(p)] = p /\ data[Cell(p)] = None
    BY <1>3 DEF Vacant
  <2>1. CASE p = pos[t] + Size
    BY <1>2, <1>3, <1>5, <2>1
  <2>2. CASE p # pos[t] + Size
    <3>1. Cell(p) # Cell(pos[t]) /\ Cell(p) \in Cells
      BY <1>2, <1>3, <2>2, CellType
    <3>2. \/ \E u \in Threads : Pops(u) /\ pos[u] + Size = p
          \/ seq[Cell(p)] = p /\ data[Cell(p)] = None
      BY DEF Ring, Vacant
    <3>3. QED
      BY <1>4, <1>5, <2>2, <3>1, <3>2 DEF OnlyThread
  <2>3. QED
    BY <2>1, <2>2
<1>14. Behind'
  <2> SUFFICES ASSUME NEW p \in Nat
               PROVE  seq'[Cell(p)] >= seq[Cell(p)] /\ seq'[Cell(p)] \in Nat
    BY <1>3, CellType DEF Behind, TypeOK
  <2>1. Cell(p) \in Cells /\ seq[Cell(p)] \in Nat
    BY CellType DEF TypeOK
  <2>2. QED
    BY <1>2, <1>3, <1>5, <2>1
<1>15. QED
  BY <1>6, <1>7, <1>9, <1>10, <1>11, <1>12, <1>13, <1>14 DEF Ring

LEMMA NextIInv == IInv /\ [Next]_vars => IInv'
<1> SUFFICES ASSUME IInv, [Next]_vars PROVE IInv'
  OBVIOUS
<1>1. CASE UNCHANGED vars
  BY <1>1 DEF vars, cells, IInv, TypeOK, Roles, PositionsRead, Ring, Window,
     ClaimedOnce, PushersCells, PoppersCells, Waiting, Vacant, Behind, Pushes, Pops
<1>2. ASSUME NEW t \in Producers, NEW v \in Values, Push(t, v)
      PROVE  IInv'
  BY <1>2, PushIInv
<1>3. ASSUME NEW t \in Producers, PushStep(t)
      PROVE  IInv'
  BY <1>3, PushLoadSeqIInv, PushReloadIInv, PushCasIInv, ConstructIInv, PushDoneIInv
  DEF PushStep
<1>4. ASSUME NEW t \in Consumers, Pop(t) \/ PopStep(t)
      PROVE  IInv'
  BY <1>4, PopIInv, PopLoadSeqIInv, PopReloadIInv, PopCasIInv, ConsumeIInv, PopDoneIInv
  DEF PopStep
<1>5. QED
  BY <1>1, <1>2, <1>3, <1>4 DEF Next

-----------------------------------------------------------------------------
(* The invariant holds in every state that is reached.                     *)
THEOREM Invariance == Spec => []IInv
<1>1. Init => IInv
  BY InitIInv
<1>2. IInv /\ [Next]_vars => IInv'
  BY NextIInv
<1>3. QED
  BY <1>1, <1>2, PTL DEF Spec

(* Every variable stays in its type.                                       *)
THEOREM TypeCorrect == Spec => []TypeOK
<1>1. IInv => TypeOK
  BY DEF IInv
<1>2. QED
  BY <1>1, Invariance, PTL

(* Placement new never constructs over a living element, and no consumer   *)
(* is handed a dead one, however long a thread is delayed.                 *)
THEOREM ElementsLive == Spec => []ElementLifetime
<1>1. IInv => ElementLifetime
  BY NoneAssumption DEF IInv, Ring, PushersCells, PoppersCells, Pushes, Pops, ElementLifetime
<1>2. QED
  BY <1>1, Invariance, PTL

(* A thread that goes round its loop does so because of another's progress.*)
THEOREM RetriesMeanProgress == Spec => []RetryMeansProgress
<1>1. IInv => RetryMeansProgress
  BY DEF IInv, TypeOK, PositionsRead, RetryMeansProgress
<1>2. QED
  BY <1>1, Invariance, PTL

(* The assertion of the destructor never fires.                            *)
THEOREM DestructorAssertionHolds == Spec => []DestructorAssertion
<1>1. IInv => DestructorAssertion
  <2> SUFFICES ASSUME IInv, Quiescent, NEW p \in pop_pos .. push_pos - 1
               PROVE  seq[Cell(p)] = p + 1 /\ data[Cell(p)] # None
    BY DEF DestructorAssertion
  <2>1. p \in Nat /\ pop_pos <= p /\ p < push_pos
    BY DEF IInv, TypeOK
  <2>2. \A t \in Threads : ~Pushes(t)
    BY DEF Quiescent, Pushes
  <2>3. QED
    BY <2>1, <2>2, NoneAssumption DEF IInv, Ring, Waiting
<1>2. QED
  BY <1>1, Invariance, PTL

(* A push fails only while the ring is full, up to an element whose pop    *)
(* has been claimed and not finished.                                      *)
THEOREM FullVerdictHolds == Spec => FullVerdict
<1>1. ASSUME IInv, [Next]_vars, NEW t \in Producers, pc[t] = "pushSeq", pc'[t] = "idle"
      PROVE  \/ push_pos - pop_pos = Size
             \/ push_pos >= Size /\ Popping(push_pos - Size) # {}
  <2> USE <1>1 DEF IInv
  <2>1. t \in Threads /\ pos[t] \in Nat /\ push_pos \in Nat /\ pop_pos \in Nat
    BY DEF TypeOK, Threads
  <2>2. seq[Cell(pos[t])] < pos[t]
    <3>1. PushLoadSeq(t)
      BY <2>1 DEF Next, vars, PushStep, PopStep, Push, PushLoadSeq, PushReload, PushCas,
         Construct, PushDone, Pop, PopLoadSeq, PopReload, PopCas, Consume, PopDone,
         Turn, Retry, Return, GoTo, TypeOK
    <3>2. QED
      BY <2>1, <3>1 DEF PushLoadSeq, Turn, GoTo, TypeOK
  <2>3. pos[t] = push_pos
    <3>1. pos[t] <= push_pos /\ seq[Cell(pos[t])] \in Nat
      BY <2>1, CellType DEF PositionsRead, TypeOK
    <3>2. QED
      BY <2>1, <2>2, <3>1 DEF Behind
  <2>4. \/ push_pos = pop_pos + Size
        \/ \E u \in Threads : Pops(u) /\ pos[u] + Size = push_pos
    BY <2>2, <2>3, AtHead
  <2>5. CASE push_pos = pop_pos + Size
    BY <2>1, <2>5, SizeAssumption
  <2>6. ASSUME NEW u \in Threads, Pops(u), pos[u] + Size = push_pos
        PROVE  push_pos >= Size /\ Popping(push_pos - Size) # {}
    <3>1. pos[u] \in Nat /\ pos[u] = push_pos - Size /\ u \in Consumers
      BY <2>1, <2>6, SizeAssumption DEF TypeOK, Roles, Pops
    <3>2. u \in Popping(push_pos - Size)
      BY <2>6, <3>1 DEF Popping, Pops
    <3>3. QED
      BY <2>1, <3>1, <3>2, SizeAssumption
  <2>7. QED
    BY <2>4, <2>5, <2>6
<1>2. IInv /\ [Next]_vars => [\A t \in Producers : pc[t] = "pushSeq" /\ pc'[t] = "idle" =>
         \/ push_pos - pop_pos = Size
         \/ push_pos >= Size /\ Popping(push_pos - Size) # {}]_vars
  BY <1>1
<1>3. QED
  BY <1>2, Invariance, PTL DEF Spec, FullVerdict

(* A pop fails only while the queue is empty, up to an element whose push  *)
(* has been claimed and not finished.                                      *)
THEOREM EmptyVerdictHolds == Spec => EmptyVerdict
<1>1. ASSUME IInv, [Next]_vars, NEW t \in Consumers, pc[t] = "popSeq", pc'[t] = "idle"
      PROVE  push_pos = pop_pos \/ Pushing(pop_pos) # {}
  <2> USE <1>1 DEF IInv
  <2>1. t \in Threads /\ pos[t] \in Nat /\ push_pos \in Nat /\ pop_pos \in Nat
    BY DEF TypeOK, Threads
  <2>2. seq[Cell(pos[t])] < pos[t] + 1
    <3>1. PopLoadSeq(t)
      BY <2>1 DEF Next, vars, PushStep, PopStep, Push, PushLoadSeq, PushReload, PushCas,
         Construct, PushDone, Pop, PopLoadSeq, PopReload, PopCas, Consume, PopDone,
         Turn, Retry, Return, GoTo, TypeOK
    <3>2. QED
      BY <2>1, <3>1 DEF PopLoadSeq, Turn, PopTurn, GoTo, TypeOK
  <2>3. pos[t] = pop_pos
    <3>1. pos[t] <= pop_pos /\ seq[Cell(pos[t])] \in Nat
      BY <2>1, CellType DEF PositionsRead, TypeOK
    <3>2. QED
      BY <2>1, <2>2, <3>1 DEF Behind
  <2>4. \/ pop_pos = push_pos
        \/ \E u \in Threads : Pushes(u) /\ pos[u] = pop_pos
    BY <2>2, <2>3, AtTail
  <2>5. ASSUME NEW u \in Threads, Pushes(u), pos[u] = pop_pos
        PROVE  Pushing(pop_pos) # {}
    BY <2>5 DEF Pushing, Pushes, Roles
  <2>6. QED
    BY <2>4, <2>5
<1>2. IInv /\ [Next]_vars => [\A t \in Consumers : pc[t] = "popSeq" /\ pc'[t] = "idle" =>
         push_pos = pop_pos \/ Pushing(pop_pos) # {}]_vars
  BY <1>1
<1>3. QED
  BY <1>2, Invariance, PTL DEF Spec, EmptyVerdict
-----------------------------------------------------------------------------
(* Refinement of BoundedQueue: a push takes effect when it claims its      *)
(* position and a pop when it claims its own.                              *)

Queue == [i \in 1 .. push_pos - pop_pos |-> ElementAt(pop_pos + i - 1)]
Taken == [c \in Consumers |->
            CASE pc[c] = "consume" -> data[Cell(pos[c])]
              [] pc[c] = "popDone" -> val[c]
              [] OTHER -> None]

(* The element of a position that waits is its pusher's until the cell has *)
(* the number that lets it be popped.                                      *)
Elements ==
  \A p \in Nat : pop_pos <= p /\ p < push_pos =>
    /\ ElementAt(p) \in Values
    /\ \A t \in Threads : Pushes(t) /\ pos[t] = p => ElementAt(p) = val[t]
    /\ (\A t \in Threads : ~(Pushes(t) /\ pos[t] = p)) => ElementAt(p) = data[Cell(p)]

LEMMA ElementsWait == IInv => Elements
<1> SUFFICES ASSUME IInv, NEW p \in Nat, pop_pos <= p, p < push_pos
             PROVE  /\ ElementAt(p) \in Values
                    /\ \A t \in Threads : Pushes(t) /\ pos[t] = p => ElementAt(p) = val[t]
                    /\ (\A t \in Threads : ~(Pushes(t) /\ pos[t] = p)) =>
                         ElementAt(p) = data[Cell(p)]
  BY DEF Elements
<1>1. \A t \in Threads : Pushes(t) => t \in Producers /\ val[t] \in Values
  BY DEF IInv, Roles, Pushes
<1>2. ASSUME NEW t \in Threads, Pushes(t), pos[t] = p
      PROVE  ElementAt(p) = val[t]
  <2>1. \A u \in Pushing(p) : u = t
    BY <1>2 DEF Pushing, Pushes, IInv, Ring, ClaimedOnce, Threads
  <2>2. t \in Pushing(p)
    BY <1>1, <1>2 DEF Pushing, Pushes
  <2>3. CASE pc[t] = "construct"
    BY <2>1, <2>2, <2>3 DEF ElementAt
  <2>4. CASE pc[t] # "construct"
    <3>1. data[Cell(p)] = val[t]
      BY <1>2, <2>4 DEF IInv, Ring, PushersCells
    <3>2. QED
      BY <2>1, <2>4, <3>1 DEF ElementAt
  <2>5. QED
    BY <2>3, <2>4
<1>3. ASSUME \A t \in Threads : ~(Pushes(t) /\ pos[t] = p)
      PROVE  ElementAt(p) = data[Cell(p)] /\ data[Cell(p)] \in Values
  <2>1. Pushing(p) = {}
    BY <1>3 DEF Pushing, Pushes, Threads
  <2>2. QED
    BY <1>3, <2>1 DEF ElementAt, IInv, Ring, Waiting
<1>4. QED
  BY <1>1, <1>2, <1>3

(* What the abstract queue's steps are, of the queue and of what the       *)
(* consumers have.                                                         *)
LEMMA QueueType ==
  ASSUME IInv, Elements
  PROVE  /\ push_pos - pop_pos \in 0 .. Size
         /\ Queue \in Seq(Values)
         /\ Len(Queue) = push_pos - pop_pos
<1>1. push_pos \in Nat /\ pop_pos \in Nat /\ push_pos - pop_pos \in 0 .. Size
  BY SizeAssumption DEF IInv, TypeOK, Ring, Window
<1>2. \A i \in 1 .. push_pos - pop_pos : ElementAt(pop_pos + i - 1) \in Values
  <2> SUFFICES ASSUME NEW i \in 1 .. push_pos - pop_pos
               PROVE  ElementAt(pop_pos + i - 1) \in Values
    OBVIOUS
  <2>1. pop_pos + i - 1 \in Nat /\ pop_pos <= pop_pos + i - 1 /\ pop_pos + i - 1 < push_pos
    BY <1>1
  <2>2. QED
    BY <2>1 DEF Elements
<1>3. Queue \in [1 .. push_pos - pop_pos -> Values]
  BY <1>2 DEF Queue
<1>4. QED
  BY <1>1, <1>3

LEMMA TailFunction ==
  ASSUME NEW S, NEW s \in Seq(S), s # <<>>
  PROVE  Tail(s) = [i \in 1 .. Len(s) - 1 |-> s[i + 1]]
<1>1. /\ Tail(s) \in Seq(S) /\ Len(Tail(s)) = Len(s) - 1
      /\ \A i \in 1 .. Len(s) - 1 : Tail(s)[i] = s[i + 1]
  BY HeadTailProperties
<1>2. Len(s) - 1 \in Nat
  BY <1>1
<1>3. ASSUME NEW r \in Seq(S) PROVE r \in [1 .. Len(r) -> S]
  BY <1>3
<1>4. Tail(s) \in [1 .. Len(s) - 1 -> S]
  BY <1>1, <1>3
<1>5. QED
  BY <1>1, <1>4

LEMMA AbstractPush ==
  ASSUME NEW v \in Values, Len(Queue) + 1 <= Size, Queue' = Queue \o <<v>>, Taken' = Taken
  PROVE  BQ!Next
<1>1. <<v>> \in [1 .. 1 -> Values] /\ Len(<<v>>) = 1
  OBVIOUS
<1>2. BQ!Push(<<v>>)
  BY <1>1 DEF BQ!Push, Queue, Taken
<1>3. QED
  BY <1>1, <1>2 DEF BQ!Next

LEMMA AbstractPop ==
  ASSUME NEW t \in Consumers, Queue # <<>>, Taken[t] = None,
         Taken' = [Taken EXCEPT ![t] = Head(Queue)], Queue' = Tail(Queue)
  PROVE  BQ!Next
BY DEF BQ!Next, BQ!Pop, Queue, Taken

LEMMA AbstractDeliver ==
  ASSUME NEW t \in Consumers, Taken[t] # None,
         Taken' = [Taken EXCEPT ![t] = None], Queue' = Queue
  PROVE  BQ!Next
BY DEF BQ!Next, BQ!Deliver, Queue, Taken

(* A step that claims nothing leaves the queue alone when no element of it *)
(* changes.                                                                *)
LEMMA QueueKept ==
  ASSUME push_pos' = push_pos, pop_pos' = pop_pos, TypeOK,
         \A p \in Nat : pop_pos <= p /\ p < push_pos => ElementAt(p)' = ElementAt(p)
  PROVE  Queue' = Queue
<1>1. push_pos \in Nat /\ pop_pos \in Nat
  BY DEF TypeOK
<1>2. \A i \in 1 .. push_pos - pop_pos :
        ElementAt(pop_pos + i - 1)' = ElementAt(pop_pos + i - 1)
  BY <1>1
<1>3. QED
  BY <1>2 DEF Queue
(* A step that leaves alone what the other consumers were given.           *)
LEMMA OthersGiven ==
  ASSUME NEW t \in Threads, OnlyThread(t),
         \A u \in Consumers \ {t} : pc[u] = "consume" =>
           data'[Cell(pos[u])] = data[Cell(pos[u])]
  PROVE  \A u \in Consumers \ {t} : Taken'[u] = Taken[u]
BY DEF Taken, OnlyThread, Threads

(* A step that changes no cell and claims nothing is none of the abstract  *)
(* queue's.                                                                *)
LEMMA NoClaim ==
  ASSUME IInv, Elements, Elements', NEW t \in Threads, OnlyThread(t),
         UNCHANGED <<data, push_pos, pop_pos>>,
         Pops(t) => t \notin Consumers, ~Pops(t)', ~Pushes(t)',
         Pushes(t) => data[Cell(pos[t])] = val[t]
  PROVE  Queue' = Queue /\ Taken' = Taken
<1>1. push_pos \in Nat /\ pop_pos \in Nat /\ TypeOK
  BY DEF IInv, TypeOK
<1>2. \A u \in Threads \ {t} : (Pushes(u)' <=> Pushes(u)) /\ pos'[u] = pos[u] /\ val'[u] = val[u]
  BY DEF OnlyThread, Pushes
<1>3. ASSUME NEW p \in Nat, pop_pos <= p, p < push_pos
      PROVE  ElementAt(p)' = ElementAt(p)
  <2>1. CASE \E u \in Threads \ {t} : Pushes(u) /\ pos[u] = p
    <3>1. PICK u \in Threads \ {t} : Pushes(u) /\ pos[u] = p
      BY <2>1
    <3>2. ElementAt(p) = val[u] /\ ElementAt(p)' = val'[u]
      BY <1>2, <1>3, <3>1 DEF Elements
    <3>3. QED
      BY <1>2, <3>2
  <2>2. CASE ~ \E u \in Threads \ {t} : Pushes(u) /\ pos[u] = p
    <3>1. ElementAt(p)' = data'[Cell(p)]
      BY <1>2, <1>3, <2>2 DEF Elements
    <3>2. ElementAt(p) = data[Cell(p)]
      BY <1>3, <2>2 DEF Elements
    <3>3. QED
      BY <3>1, <3>2
  <2>3. QED
    BY <2>1, <2>2
<1>4. Queue' = Queue
  BY <1>1, <1>3, QueueKept
<1>5. Taken' = Taken
  BY DEF Taken, OnlyThread, Pops, Threads
<1>6. QED
  BY <1>4, <1>5

LEMMA PushRefines ==
  ASSUME IInv, Elements, Elements', NEW t \in Producers,
         \/ \E v \in Values : Push(t, v)
         \/ PushLoadSeq(t) \/ PushReload(t)
         \/ PushCas(t) /\ push_pos' = push_pos
         \/ PushDone(t)
  PROVE  Queue' = Queue /\ Taken' = Taken
<1>1. t \in Threads
  BY DEF Threads
<1>2. UNCHANGED <<data, push_pos, pop_pos>>
  BY DEF Push, PushLoadSeq, PushReload, PushCas, PushDone, cells
<1>3. OnlyThread(t)
  BY <1>1 DEF OnlyThread, Push, PushLoadSeq, PushReload, PushCas, PushDone, Turn, Retry,
     Return, GoTo, IInv, TypeOK
<1>4. ~Pops(t) /\ ~Pops(t)' /\ ~Pushes(t)'
  BY <1>1, <1>2 DEF Pops, Pushes, Push, PushLoadSeq, PushReload, PushCas, PushDone, Turn,
     Retry, Return, GoTo, IInv, TypeOK
<1>5. Pushes(t) => data[Cell(pos[t])] = val[t]
  BY <1>1 DEF Pushes, Push, PushLoadSeq, PushReload, PushCas, PushDone, IInv, Ring,
     PushersCells
<1>6. QED
  BY <1>1, <1>2, <1>3, <1>4, <1>5, NoClaim

LEMMA PopRefines ==
  ASSUME IInv, Elements, Elements', NEW t \in Consumers,
         \/ Pop(t) \/ PopLoadSeq(t) \/ PopReload(t)
         \/ PopCas(t) /\ pop_pos' = pop_pos
  PROVE  Queue' = Queue /\ Taken' = Taken
<1>1. t \in Threads
  BY DEF Threads
<1>2. UNCHANGED <<data, push_pos, pop_pos>>
  BY DEF Pop, PopLoadSeq, PopReload, PopCas, cells
<1>3. OnlyThread(t)
  BY <1>1 DEF OnlyThread, Pop, PopLoadSeq, PopReload, PopCas, Turn, Retry, Return, GoTo,
     IInv, TypeOK
<1>4. ~Pops(t) /\ ~Pops(t)' /\ ~Pushes(t)' /\ ~Pushes(t)
  BY <1>1, <1>2 DEF Pops, Pushes, Pop, PopLoadSeq, PopReload, PopCas, Turn, Retry, Return,
     GoTo, IInv, TypeOK
<1>5. QED
  BY <1>1, <1>2, <1>3, <1>4, NoClaim

LEMMA ConstructRefines ==
  ASSUME IInv, Elements, Elements', NEW t \in Producers, Construct(t)
  PROVE  Queue' = Queue /\ Taken' = Taken
<1>1. t \in Threads /\ Pushes(t) /\ ~Pops(t) /\ TypeOK /\ Ring
  BY DEF Threads, Construct, Pushes, Pops, IInv
<1>2. /\ push_pos' = push_pos /\ pop_pos' = pop_pos /\ pos' = pos /\ val' = val
      /\ pc[t] = "construct" /\ pc'[t] = "pushDone"
      /\ OnlyThread(t)
      /\ \A u \in Threads : Pushes(u)' <=> Pushes(u)
  BY <1>1 DEF Construct, GoTo, TypeOK, OnlyThread, Pushes
<1>3. \A i \in Cells : i # Cell(pos[t]) => data'[i] = data[i]
  BY <1>1 DEF Construct, TypeOK
<1>4. ASSUME NEW p \in Nat, pop_pos <= p, p < push_pos
      PROVE  ElementAt(p)' = ElementAt(p)
  <2>1. CASE \E u \in Threads : Pushes(u) /\ pos[u] = p
    BY <1>2, <1>4, <2>1 DEF Elements
  <2>2. CASE \A u \in Threads : ~(Pushes(u) /\ pos[u] = p)
    <3>1. Cell(p) \in Cells /\ Cell(p) # Cell(pos[t])
      <4>1. p < pop_pos + Size /\ p # pos[t]
        BY <1>1, <1>4, <2>2, SizeAssumption DEF Ring, Window, TypeOK
      <4>2. QED
        BY <1>1, <1>4, <4>1, PusherAlone, CellType
    <3>2. ElementAt(p)' = data'[Cell(p)] /\ ElementAt(p) = data[Cell(p)]
      BY <1>2, <1>4, <2>2 DEF Elements
    <3>3. QED
      BY <1>3, <3>1, <3>2
  <2>3. QED
    BY <2>1, <2>2
<1>5. Queue' = Queue
  BY <1>1, <1>2, <1>4, QueueKept
<1>6. \A u \in Consumers \ {t} : pc[u] = "consume" =>
        data'[Cell(pos[u])] = data[Cell(pos[u])]
  <2>1. \A u \in Threads : pos[u] \in Nat /\ Cell(pos[u]) \in Cells
    BY <1>1, CellType DEF TypeOK
  <2>2. QED
    BY <1>1, <1>3, <2>1, PusherAlone DEF Pops, Threads
<1>7. Taken' = Taken
  <2>1. \A u \in Consumers \ {t} : Taken'[u] = Taken[u]
    BY <1>1, <1>2, <1>6, OthersGiven
  <2>2. t \in Consumers => Taken'[t] = Taken[t]
    BY <1>2 DEF Taken
  <2>3. QED
    BY <2>1, <2>2 DEF Taken
<1>8. QED
  BY <1>5, <1>7

LEMMA ConsumeRefines ==
  ASSUME IInv, Elements, Elements', NEW t \in Consumers, Consume(t)
  PROVE  Queue' = Queue /\ Taken' = Taken
<1>1. t \in Threads /\ Pops(t) /\ TypeOK /\ Ring
  BY DEF Threads, Consume, Pops, IInv
<1>2. /\ push_pos' = push_pos /\ pop_pos' = pop_pos /\ pos' = pos
      /\ pc[t] = "consume" /\ pc'[t] = "popDone" /\ val'[t] = data[Cell(pos[t])]
      /\ OnlyThread(t)
      /\ \A u \in Threads : (Pushes(u)' <=> Pushes(u)) /\ (Pushes(u) => val'[u] = val[u])
  BY <1>1 DEF Consume, GoTo, TypeOK, OnlyThread, Pushes
<1>3. \A i \in Cells : i # Cell(pos[t]) => data'[i] = data[i]
  BY <1>1 DEF Consume, TypeOK
<1>4. ASSUME NEW p \in Nat, pop_pos <= p, p < push_pos
      PROVE  ElementAt(p)' = ElementAt(p)
  <2>1. CASE \E u \in Threads : Pushes(u) /\ pos[u] = p
    BY <1>2, <1>4, <2>1 DEF Elements
  <2>2. CASE \A u \in Threads : ~(Pushes(u) /\ pos[u] = p)
    <3>1. Cell(p) \in Cells /\ Cell(p) # Cell(pos[t])
      <4>1. p < pop_pos + Size /\ p # pos[t] + Size
        BY <1>1, <1>4, SizeAssumption DEF Ring, Window, PoppersCells, TypeOK
      <4>2. QED
        BY <1>1, <1>4, <4>1, PopperAlone, CellType
    <3>2. ElementAt(p)' = data'[Cell(p)] /\ ElementAt(p) = data[Cell(p)]
      BY <1>2, <1>4, <2>2 DEF Elements
    <3>3. QED
      BY <1>3, <3>1, <3>2
  <2>3. QED
    BY <2>1, <2>2
<1>5. Queue' = Queue
  BY <1>1, <1>2, <1>4, QueueKept
<1>6. \A u \in Consumers \ {t} : pc[u] = "consume" =>
        data'[Cell(pos[u])] = data[Cell(pos[u])]
  <2>1. \A u \in Threads : pos[u] \in Nat /\ Cell(pos[u]) \in Cells
    BY <1>1, CellType DEF TypeOK
  <2>2. QED
    BY <1>1, <1>3, <2>1, PopperAlone DEF Pops, Threads
<1>7. Taken' = Taken
  <2>1. \A u \in Consumers \ {t} : Taken'[u] = Taken[u]
    BY <1>1, <1>2, <1>6, OthersGiven
  <2>2. Taken'[t] = Taken[t]
    BY <1>2 DEF Taken
  <2>3. QED
    BY <2>1, <2>2 DEF Taken
<1>8. QED
  BY <1>5, <1>7

LEMMA OneMore ==
  ASSUME NEW S, NEW s \in Seq(S), NEW e, NEW n, n = Len(s) + 1
  PROVE  [i \in 1 .. n |-> IF i <= Len(s) THEN s[i] ELSE e] = s \o <<e>>
<1> DEFINE T == S \cup {e}
           f == [i \in 1 .. n |-> IF i <= Len(s) THEN s[i] ELSE e]
<1>1. s \in Seq(T) /\ <<e>> \in Seq(T) /\ Len(<<e>>) = 1 /\ <<e>>[1] = e
  OBVIOUS
<1>2. n \in Nat /\ \A i \in 1 .. n : IF i <= Len(s) THEN s[i] \in T ELSE e \in T
  OBVIOUS
<1>3. f \in Seq(T) /\ Len(f) = n
  BY <1>2
<1>4. /\ s \o <<e>> \in Seq(T) /\ Len(s \o <<e>>) = n
      /\ \A i \in 1 .. n : (s \o <<e>>)[i] = IF i <= Len(s) THEN s[i] ELSE <<e>>[i - Len(s)]
  BY <1>1, ConcatProperties
<1>5. \A i \in 1 .. n : f[i] = (s \o <<e>>)[i]
  <2> SUFFICES ASSUME NEW i \in 1 .. n PROVE f[i] = (s \o <<e>>)[i]
    OBVIOUS
  <2>1. ~(i <= Len(s)) => i - Len(s) = 1
    OBVIOUS
  <2>2. QED
    BY <1>1, <1>4, <2>1
<1> HIDE DEF f
<1>6. f = s \o <<e>>
  BY <1>3, <1>4, <1>5, SeqEqual
<1>7. QED
  BY <1>6 DEF f

LEMMA PushCasRefines ==
  ASSUME IInv, Elements, Elements', NEW t \in Producers, PushCas(t), push_pos' # push_pos,
         IInv'
  PROVE  BQ!Next
<1>1. t \in Threads /\ ~Pushes(t) /\ TypeOK
  BY DEF Threads, PushCas, Pushes, IInv
<1>2. /\ pos[t] = push_pos /\ push_pos' = push_pos + 1 /\ pop_pos' = pop_pos
      /\ UNCHANGED <<cells, pos, val>>
      /\ pc[t] = "pushCas" /\ pc'[t] = "construct" /\ Pushes(t)'
      /\ OnlyThread(t)
      /\ \A u \in Threads \ {t} : Pushes(u)' <=> Pushes(u)
  BY <1>1 DEF PushCas, Retry, GoTo, TypeOK, OnlyThread, Pushes, cells
<1>3. push_pos \in Nat /\ pop_pos \in Nat /\ pop_pos <= push_pos /\ val[t] \in Values
  BY <1>1, <1>2 DEF TypeOK, IInv, Roles
<1>4. ASSUME NEW p \in Nat, pop_pos <= p, p < push_pos
      PROVE  ElementAt(p)' = ElementAt(p)
  <2>1. p < push_pos' /\ p # pos[t]
    BY <1>2, <1>3, <1>4
  <2>2. CASE \E u \in Threads : Pushes(u) /\ pos[u] = p
    BY <1>1, <1>2, <1>4, <2>1, <2>2 DEF Elements
  <2>3. CASE \A u \in Threads : ~(Pushes(u) /\ pos[u] = p)
    <3>1. ElementAt(p) = data[Cell(p)]
      BY <1>4, <2>3 DEF Elements
    <3>2. ElementAt(p)' = data'[Cell(p)]
      BY <1>2, <1>4, <2>1, <2>3 DEF Elements
    <3>3. QED
      BY <1>2, <3>1, <3>2 DEF cells
  <2>4. QED
    BY <2>2, <2>3
<1>5. ASSUME NEW p \in Nat, p = push_pos
      PROVE  ElementAt(p)' = val[t]
  <2>1. pop_pos' <= p /\ p < push_pos' /\ pos'[t] = p /\ val'[t] = val[t]
    BY <1>2, <1>3, <1>5
  <2>2. QED
    BY <1>1, <1>2, <2>1 DEF Elements
<1>6. /\ Queue \in Seq(Values) /\ Len(Queue) = push_pos - pop_pos
      /\ push_pos + 1 - pop_pos \in 0 .. Size
  <2>1. Window' /\ Size \in Nat
    BY SizeAssumption DEF IInv, Ring
  <2>2. QED
    BY <1>2, <1>3, <2>1, QueueType DEF Window
<1>7. \A i \in 1 .. push_pos + 1 - pop_pos :
        ElementAt(pop_pos + i - 1)' = IF i <= Len(Queue) THEN Queue[i] ELSE val[t]
  <2> SUFFICES ASSUME NEW i \in 1 .. push_pos + 1 - pop_pos
               PROVE  ElementAt(pop_pos + i - 1)' = IF i <= Len(Queue) THEN Queue[i] ELSE val[t]
    OBVIOUS
  <2>1. CASE i <= push_pos - pop_pos
    <3>1. pop_pos + i - 1 \in Nat /\ pop_pos <= pop_pos + i - 1 /\ pop_pos + i - 1 < push_pos
      BY <1>3, <2>1
    <3>2. Queue[i] = ElementAt(pop_pos + i - 1)
      BY <1>3, <2>1 DEF Queue
    <3>3. QED
      BY <1>2, <1>4, <1>6, <2>1, <3>1, <3>2
  <2>2. CASE i = push_pos + 1 - pop_pos
    <3>1. pop_pos + i - 1 = push_pos /\ pop_pos' + i - 1 = push_pos
      BY <1>2, <1>3, <2>2
    <3>2. ~(i <= Len(Queue))
      BY <1>3, <1>6, <2>2
    <3>3. ElementAt(pop_pos + i - 1)' = val[t]
      BY <1>3, <1>5, <3>1
    <3>4. QED
      BY <3>2, <3>3
  <2>3. QED
    BY <1>3, <2>1, <2>2
<1>8. Queue' = Queue \o <<val[t]>>
  <2>1. Queue' = [i \in 1 .. push_pos + 1 - pop_pos |->
                    IF i <= Len(Queue) THEN Queue[i] ELSE val[t]]
    <3>1. Queue' = [i \in 1 .. push_pos' - pop_pos' |-> ElementAt(pop_pos + i - 1)']
      BY DEF Queue
    <3>2. ASSUME NEW i \in 1 .. push_pos + 1 - pop_pos
          PROVE  ElementAt(pop_pos + i - 1)' = IF i <= Len(Queue) THEN Queue[i] ELSE val[t]
      BY <1>7
    <3>3. push_pos' - pop_pos' = push_pos + 1 - pop_pos
      BY <1>2, <1>3
    <3>4. QED
      BY <3>1, <3>2, <3>3
  <2>2. push_pos + 1 - pop_pos = Len(Queue) + 1
    BY <1>3, <1>6
  <2>3. QED
    BY <1>6, <2>1, <2>2, OneMore
<1>9. Taken' = Taken
  <2>1. \A u \in Consumers \ {t} : Taken'[u] = Taken[u]
    BY <1>1, <1>2, OthersGiven DEF cells
  <2>2. t \in Consumers => Taken'[t] = Taken[t]
    BY <1>2 DEF Taken
  <2>3. QED
    BY <2>1, <2>2 DEF Taken
<1>10. QED
  BY <1>3, <1>6, <1>8, <1>9, AbstractPush

LEMMA PopCasRefines ==
  ASSUME IInv, Elements, Elements', NEW t \in Consumers, PopCas(t), pop_pos' # pop_pos
  PROVE  BQ!Next
<1>1. t \in Threads /\ TypeOK /\ Ring
  BY DEF Threads, PopCas, IInv
<1>2. /\ pos[t] = pop_pos /\ pop_pos' = pop_pos + 1 /\ push_pos' = push_pos
      /\ UNCHANGED <<cells, pos, val>>
      /\ pc[t] = "popCas" /\ pc'[t] = "consume"
      /\ OnlyThread(t)
      /\ \A u \in Threads : Pushes(u)' <=> Pushes(u)
  BY <1>1 DEF PopCas, Retry, GoTo, TypeOK, OnlyThread, Pushes, cells
<1>3. /\ push_pos \in Nat /\ pop_pos \in Nat /\ pop_pos < push_pos
      /\ data[Cell(pop_pos)] \in Values
      /\ \A u \in Threads : Pushes(u) => pos[u] # pop_pos
  BY <1>1, <1>2, AtTail DEF TypeOK, IInv, PositionsRead
<1>4. ASSUME NEW p \in Nat, pop_pos < p, p < push_pos
      PROVE  ElementAt(p)' = ElementAt(p)
  <2>1. pop_pos <= p /\ pop_pos' <= p /\ p < push_pos'
    BY <1>2, <1>3, <1>4
  <2>2. CASE \E u \in Threads : Pushes(u) /\ pos[u] = p
    BY <1>2, <1>4, <2>1, <2>2 DEF Elements
  <2>3. CASE \A u \in Threads : ~(Pushes(u) /\ pos[u] = p)
    <3>1. ElementAt(p) = data[Cell(p)]
      BY <1>4, <2>1, <2>3 DEF Elements
    <3>2. ElementAt(p)' = data'[Cell(p)]
      BY <1>2, <2>1, <2>3 DEF Elements
    <3>3. QED
      BY <1>2, <3>1, <3>2 DEF cells
  <2>4. QED
    BY <2>2, <2>3
<1>5. /\ Queue \in Seq(Values) /\ Len(Queue) = push_pos - pop_pos
      /\ push_pos - pop_pos \in Nat
  BY QueueType, SizeAssumption
<1>6. Queue # <<>> /\ Queue[1] = data[Cell(pop_pos)]
  <2>1. ElementAt(pop_pos) = data[Cell(pop_pos)]
    BY <1>3 DEF Elements
  <2>2. 1 \in 1 .. push_pos - pop_pos /\ pop_pos + 1 - 1 = pop_pos
    BY <1>3
  <2>3. Queue[1] = ElementAt(pop_pos)
    BY <2>2 DEF Queue
  <2>4. QED
    BY <1>5, <2>1, <2>2, <2>3
<1>7. Queue' = Tail(Queue)
  <2>1. ASSUME NEW i \in 1 .. push_pos - pop_pos - 1, NEW p \in Nat, p = pop_pos + i
        PROVE  ElementAt(p)' = Queue[i + 1]
    <3>1. /\ pop_pos < p /\ p < push_pos
          /\ i + 1 \in 1 .. push_pos - pop_pos /\ pop_pos + (i + 1) - 1 = p
      BY <1>3, <2>1
    <3>2. Queue[i + 1] = ElementAt(p)
      BY <3>1 DEF Queue
    <3>3. QED
      BY <1>4, <3>1, <3>2
  <2>2. push_pos' - pop_pos' = push_pos - pop_pos - 1
    BY <1>2, <1>3
  <2>3. Queue' = [i \in 1 .. push_pos - pop_pos - 1 |-> Queue[i + 1]]
    <3>1. Queue' = [i \in 1 .. push_pos' - pop_pos' |-> ElementAt(pop_pos + i - 1)']
      BY DEF Queue
    <3>2. ASSUME NEW i \in 1 .. push_pos - pop_pos - 1
          PROVE  ElementAt(pop_pos + i - 1)' = Queue[i + 1]
      <4>1. pop_pos' + i - 1 = pop_pos + i /\ pop_pos + i \in Nat
        BY <1>2, <1>3
      <4>2. QED
        BY <2>1, <4>1
    <3>3. QED
      BY <2>2, <3>1, <3>2
  <2>4. Tail(Queue) = [i \in 1 .. push_pos - pop_pos - 1 |-> Queue[i + 1]]
    BY <1>5, <1>6, TailFunction
  <2>5. QED
    BY <2>3, <2>4
<1>8. Taken[t] = None /\ Taken' = [Taken EXCEPT ![t] = Head(Queue)]
  <2>1. \A u \in Consumers \ {t} : Taken'[u] = Taken[u]
    BY <1>1, <1>2, OthersGiven DEF cells
  <2>2. Taken[t] = None /\ Taken'[t] = data[Cell(pop_pos)]
    BY <1>2 DEF Taken, cells
  <2>3. Head(Queue) = data[Cell(pop_pos)]
    BY <1>5, <1>6
  <2>4. QED
    BY <2>1, <2>2, <2>3 DEF Taken
<1>9. QED
  BY <1>6, <1>7, <1>8, AbstractPop

LEMMA PopDoneRefines ==
  ASSUME IInv, Elements, Elements', NEW t \in Consumers, PopDone(t)
  PROVE  BQ!Next
<1>1. t \in Threads /\ Pops(t) /\ ~Pushes(t) /\ TypeOK
  BY DEF Threads, PopDone, Pops, Pushes, IInv
<1>2. /\ UNCHANGED <<data, push_pos, pop_pos>>
      /\ pc[t] = "popDone" /\ pc'[t] = "idle"
      /\ OnlyThread(t)
      /\ \A u \in Threads : (Pushes(u)' <=> Pushes(u)) /\
                            (Pushes(u) => pos'[u] = pos[u] /\ val'[u] = val[u])
  BY <1>1 DEF PopDone, Return, GoTo, TypeOK, OnlyThread, Pushes
<1>3. ASSUME NEW p \in Nat, pop_pos <= p, p < push_pos
      PROVE  ElementAt(p)' = ElementAt(p)
  <2>1. CASE \E u \in Threads : Pushes(u) /\ pos[u] = p
    BY <1>2, <1>3, <2>1 DEF Elements
  <2>2. CASE \A u \in Threads : ~(Pushes(u) /\ pos[u] = p)
    <3>1. ElementAt(p) = data[Cell(p)]
      BY <1>3, <2>2 DEF Elements
    <3>2. ElementAt(p)' = data'[Cell(p)]
      BY <1>2, <1>3, <2>2 DEF Elements
    <3>3. QED
      BY <1>2, <3>1, <3>2
  <2>3. QED
    BY <2>1, <2>2
<1>4. Queue' = Queue
  BY <1>1, <1>2, <1>3, QueueKept
<1>5. \A u \in Consumers \ {t} : Taken'[u] = Taken[u]
  BY <1>1, <1>2, OthersGiven
<1>6. Taken[t] # None /\ Taken'[t] = None
  <2>1. val[t] \in Values
    BY <1>1, <1>2 DEF IInv, Ring, PoppersCells
  <2>2. QED
    BY <1>2, <2>1, NoneAssumption DEF Taken
<1>7. Taken' = [Taken EXCEPT ![t] = None]
  BY <1>5, <1>6 DEF Taken
<1>8. QED
  BY <1>4, <1>6, <1>7, AbstractDeliver

LEMMA NextRefines ==
  IInv /\ IInv' /\ Elements /\ Elements' /\ [Next]_vars => BQ!Next \/ UNCHANGED <<Queue, Taken>>
<1> SUFFICES ASSUME IInv, IInv', Elements, Elements', [Next]_vars
             PROVE  BQ!Next \/ UNCHANGED <<Queue, Taken>>
  OBVIOUS
<1>1. CASE UNCHANGED vars
  BY <1>1 DEF vars, cells, Queue, Taken, ElementAt, Pushing
<1>2. ASSUME NEW t \in Producers, (\E v \in Values : Push(t, v)) \/ PushStep(t)
      PROVE  BQ!Next \/ UNCHANGED <<Queue, Taken>>
  <2>1. CASE PushCas(t) /\ push_pos' # push_pos
    BY <2>1, PushCasRefines
  <2>2. CASE Construct(t)
    BY <2>2, ConstructRefines
  <2>3. QED
    BY <1>2, <2>1, <2>2, PushRefines DEF PushStep
<1>3. ASSUME NEW t \in Consumers, Pop(t) \/ PopStep(t)
      PROVE  BQ!Next \/ UNCHANGED <<Queue, Taken>>
  <2>1. CASE PopCas(t) /\ pop_pos' # pop_pos
    BY <2>1, PopCasRefines
  <2>2. CASE Consume(t)
    BY <2>2, ConsumeRefines
  <2>3. CASE PopDone(t)
    BY <2>3, PopDoneRefines
  <2>4. QED
    BY <1>3, <2>1, <2>2, <2>3, PopRefines DEF PopStep
<1>4. QED
  BY <1>1, <1>2, <1>3 DEF Next

(* The queue is linearizable, for any size, any threads and any number of  *)
(* calls: elements are popped once each, in the order in which the pushes  *)
(* claimed their positions, by the consumer that claimed the position.     *)
THEOREM Refinement == Spec => Contract
<1>1. Init => BQ!Init
  <2> SUFFICES ASSUME Init PROVE BQ!Init
    OBVIOUS
  <2>1. push_pos - pop_pos = 0
    BY DEF Init
  <2>2. Queue = <<>>
    BY <2>1 DEF Queue
  <2>3. Taken = [c \in Consumers |-> None]
    BY DEF Init, Taken, Threads
  <2>4. QED
    BY <2>2, <2>3 DEF BQ!Init, Queue, Taken
<1>2. IInv /\ IInv' /\ Elements /\ Elements' /\ [Next]_vars =>
        BQ!Next \/ UNCHANGED <<Queue, Taken>>
  BY NextRefines
<1>3. IInv /\ IInv' /\ Elements /\ Elements' /\ [Next]_vars => [BQ!Next]_<<Queue, Taken>>
  BY <1>2
<1>4. IInv => Elements
  BY ElementsWait
<1>5. QED
  BY <1>1, <1>3, <1>4, Invariance, PTL DEF Spec, Contract, BQ!Spec, Queue, Taken
=============================================================================
