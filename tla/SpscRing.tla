------------------------------ MODULE SpscRing ------------------------------
(***************************************************************************)
(* freak::par::spsc_ring: a ring that one thread fills and one thread      *)
(* empties.  Each of the two owns one of the two positions and keeps a     *)
(* cached copy of the other's, which it refreshes only when the copy says  *)
(* that it cannot go on.                                                   *)
(*                                                                         *)
(* Positions are unsigned integers that wrap, at Wrap here and at 2^64 in  *)
(* the program.  One action is one atomic operation, or one access to an   *)
(* element.  The destructor empties the ring with batch pops; afterwards   *)
(* another ring may be made in the same memory.                            *)
(***************************************************************************)
EXTENDS Integers

CONSTANTS Size,           \* the number of elements, a power of 2
          Wrap,           \* where positions wrap, a larger power of 2
          Values,         \* the elements
          None,           \* a slot without a living element
          CountCallers,   \* the threads that count the elements
          DrainBatch,     \* the elements the destructor pops at once
          ThrowsIn        \* the ranges in which the function may throw

ASSUME SizeAssumption == Size \in Nat \ {0}
ASSUME WrapAssumption == Wrap \in Nat /\ Wrap > Size /\ Wrap % Size = 0
ASSUME NoneAssumption == None \notin Values
ASSUME DrainBatchAssumption == DrainBatch \in 1 .. Size
ASSUME ThrowsInAssumption == ThrowsIn \subseteq {"first", "second"}

Threads   == {"producer", "consumer", "other"}
Slots     == 0 .. Size - 1
Positions == 0 .. Wrap - 1
NoRange   == -1

ASSUME CallersAssumption == CountCallers \subseteq Threads

VARIABLES
  atomic_head, prod_tail,   \* the producer's position and its cached copy
  atomic_tail, cons_head,   \* the consumer's position and its cached copy
  buff,                     \* the slots
  pc,                       \* what a thread does next
  left,                     \* producer: elements still to construct
  built,                    \* producer: elements constructed, not published
  at,                       \* consumer: the slot the function is at
  run, more,                \* consumer: slots left in this range, in the next
  used, gone,               \* consumer: elements consumed and destroyed, of
                            \* those the stored tail still counts
  got,                      \* consumer: the element the function works on
  head_seen,                \* count_pop_slots: the head it has loaded
  count,                    \* the last result of count_pop_slots or
                            \* count_push_slots
  draining                  \* does the destructor run

producer == <<left, built>>
consumer == <<at, run, more, used, gone, got>>
counter  == <<head_seen, count>>
ring     == <<atomic_head, prod_tail, atomic_tail, cons_head, buff>>
vars     == <<ring, pc, producer, consumer, counter, draining>>

TypeOK ==
  /\ {atomic_head, prod_tail, atomic_tail, cons_head, count} \subseteq Positions
  /\ buff \in [Slots -> Values \cup {None}]
  /\ pc \in [Threads -> {"idle", "loadTail", "construct", "storeHead",
                         "loadHead", "consume", "consumeOne", "destroy",
                         "storeTail", "count", "destroyed"}]
  /\ left \in 0 .. Size + 1 /\ built \in 0 .. Size
  /\ {at, run, used, gone} \subseteq 0 .. Size
  /\ more \in {NoRange} \cup 0 .. Size
  /\ got \in Values \cup {None}
  /\ head_seen \in [Threads -> Positions]
  /\ draining \in BOOLEAN

Init ==
  /\ atomic_head = 0 /\ prod_tail = 0 /\ atomic_tail = 0 /\ cons_head = 0
  /\ buff = [i \in Slots |-> None]
  /\ pc = [t \in Threads |-> "idle"]
  /\ left = 0 /\ built = 0
  /\ at = 0 /\ run = 0 /\ more = NoRange /\ used = 0 /\ gone = 0 /\ got = None
  /\ head_seen = [t \in Threads |-> 0] /\ count = 0
  /\ draining = FALSE

(* Mutant: a position that does not wrap.                                  *)
PlusUnwrapped(p, n) == p + n
Plus(p, n) == (p + n) % Wrap

Minus(p, q) == (p - q) % Wrap
Slot(p)     == p % Size
Least(m, n) == IF m < n THEN m ELSE n
GoTo(t, l)  == pc' = [pc EXCEPT ![t] = l]

-----------------------------------------------------------------------------
(* try_push of n elements; the single try_push is the same with n = 1.     *)

(* Mutant: room for one element too many.                                  *)
FreeOneMore(tail) == Size + 1 - Minus(atomic_head, tail)
Free(tail) == Size - Minus(atomic_head, tail)

BeginPush(n) ==
  /\ pc["producer"] = "idle"
  /\ IF Free(prod_tail) < n
     THEN left' = n /\ GoTo("producer", "loadTail")
     ELSE left' = n /\ GoTo("producer", "construct")
  /\ ~draining
  /\ UNCHANGED <<ring, built, consumer, counter, draining>>

LoadTail ==
  /\ pc["producer"] = "loadTail"
  /\ prod_tail' = atomic_tail
  /\ left' = Least(left, Free(atomic_tail))
  /\ GoTo("producer", IF left' = 0 THEN "idle" ELSE "construct")
  /\ UNCHANGED <<atomic_head, atomic_tail, cons_head, buff, built, consumer,
                 counter, draining>>

Construct(v) ==
  /\ pc["producer"] = "construct"
  /\ buff' = [buff EXCEPT ![Slot(Plus(atomic_head, built))] = v]
  /\ built' = built + 1
  /\ left' = left - 1
  /\ GoTo("producer", IF left' = 0 THEN "storeHead" ELSE "construct")
  /\ UNCHANGED <<atomic_head, prod_tail, atomic_tail, cons_head, consumer,
                 counter, draining>>

(* The constructor of a single element throws (the batch try_push requires *)
(* one that does not).                                                     *)
ConstructThrows ==
  /\ pc["producer"] = "construct"
  /\ left = 1 /\ built = 0
  /\ left' = 0
  /\ GoTo("producer", "idle")
  /\ UNCHANGED <<ring, built, consumer, counter, draining>>

StoreHead ==
  /\ pc["producer"] = "storeHead"
  /\ atomic_head' = Plus(atomic_head, built)
  /\ built' = 0
  /\ GoTo("producer", "idle")
  /\ UNCHANGED <<prod_tail, atomic_tail, cons_head, buff, left, consumer,
                 counter, draining>>

-----------------------------------------------------------------------------
(* try_consume: the single one hands one element to the function, the      *)
(* batch one all the elements the cached head shows, in one range of slots *)
(* or, when they reach the end of the ring, in two, of which the second    *)
(* may be empty.                                                           *)

Ranges(batch, avail) ==
  LET beg == Slot(atomic_tail)
      end == Slot(Plus(atomic_tail, avail))
  IN /\ at' = beg
     /\ run' = IF ~batch THEN 1 ELSE IF end > beg THEN avail ELSE Size - beg
     /\ more' = IF batch /\ end <= beg THEN end ELSE NoRange
     /\ GoTo("consumer", IF batch THEN "consume" ELSE "consumeOne")

NoRanges == at' = 0 /\ run' = 0 /\ more' = NoRange /\ used' = 0 /\ gone' = 0

BeginConsume(batch) ==
  LET avail == Minus(cons_head, atomic_tail)
  IN /\ pc["consumer"] = "idle"
     /\ draining => batch
     /\ avail # 0
     /\ Ranges(batch, avail)
     /\ UNCHANGED <<ring, producer, used, gone, got, counter, draining>>

BeginConsumeEmpty ==
  /\ pc["consumer"] = "idle"
  /\ Minus(cons_head, atomic_tail) = 0
  /\ GoTo("consumer", "loadHead")
  /\ UNCHANGED <<ring, producer, consumer, counter, draining>>

(* The destructor's loop ends with the call that pops nothing.             *)
(* Mutant: with the first that pops less than it might.                    *)
IsLastShort(popped) == popped < DrainBatch
IsLast(popped) == popped = 0

AfterCall(popped) == IF draining /\ IsLast(popped) THEN "destroyed" ELSE "idle"

LoadHead(batch) ==
  LET avail == Minus(atomic_head, atomic_tail)
  IN /\ pc["consumer"] = "loadHead"
     /\ draining => batch
     /\ cons_head' = atomic_head
     /\ \/ avail = 0 /\ GoTo("consumer", AfterCall(0)) /\ UNCHANGED <<at, run, more>>
        \/ avail # 0 /\ Ranges(batch, avail)
     /\ UNCHANGED <<atomic_head, prod_tail, atomic_tail, buff, producer, used,
                    gone, got, counter, draining>>

(* The function takes the next element and is done with it.  It may stop   *)
(* early; the destructor's stops when it has its fill.                     *)
Consuming == pc["consumer"] \in {"consume", "consumeOne"}
Full == draining /\ used = DrainBatch

Take ==
  /\ Consuming
  /\ run > 0 /\ got = None /\ ~Full
  /\ got' = buff[at]
  /\ at' = at + 1 /\ run' = run - 1 /\ used' = used + 1
  /\ UNCHANGED <<ring, pc, producer, more, gone, counter, draining>>

Finish ==
  /\ Consuming
  /\ got # None
  /\ got' = None
  /\ UNCHANGED <<ring, pc, producer, at, run, more, used, gone, counter, draining>>

Return ==
  /\ Consuming
  /\ got = None
  /\ pc["consumer"] = "consumeOne" => run = 0
  /\ draining => run = 0 \/ Full
  /\ GoTo("consumer", "destroy")
  /\ UNCHANGED <<ring, producer, consumer, counter, draining>>

(* The single call's function returns false: the element stays.            *)
Refuse ==
  /\ pc["consumer"] = "consumeOne"
  /\ run = 1
  /\ NoRanges
  /\ GoTo("consumer", "idle")
  /\ UNCHANGED <<ring, producer, got, counter, draining>>

(* The function throws, out of either call, before it takes an element of  *)
(* its range.                                                              *)
Throw ==
  /\ Consuming /\ ~draining
  /\ got = None /\ used = gone
  /\ (IF gone = 0 THEN "first" ELSE "second") \in ThrowsIn
  /\ NoRanges
  /\ GoTo("consumer", "idle")
  /\ UNCHANGED <<ring, producer, got, counter, draining>>

(* The consumed elements of a range are destroyed after the function has   *)
(* returned; the second range starts at slot 0, and is looked at when all  *)
(* of the first was consumed.                                              *)
DestroyOne ==
  /\ pc["consumer"] = "destroy"
  /\ gone < used
  /\ buff' = [buff EXCEPT ![at - (used - gone)] = None]
  /\ gone' = gone + 1
  /\ UNCHANGED <<atomic_head, prod_tail, atomic_tail, cons_head, pc, producer,
                 at, run, more, used, got, counter, draining>>

(* Mutant: the second range even after a part of the first only.           *)
NoNextRange == more = NoRange
LastRange == run > 0 \/ more = NoRange

EndRange ==
  /\ pc["consumer"] = "destroy"
  /\ gone = used
  /\ IF LastRange
     THEN GoTo("consumer", "storeTail") /\ UNCHANGED <<at, run, more>>
     ELSE /\ GoTo("consumer", "consume")
          /\ at' = 0 /\ run' = more /\ more' = NoRange
  /\ UNCHANGED <<ring, producer, used, gone, got, counter, draining>>

Consumed == used

StoreTail ==
  /\ pc["consumer"] = "storeTail"
  /\ atomic_tail' = Plus(atomic_tail, Consumed)
  /\ NoRanges
  /\ GoTo("consumer", AfterCall(Consumed))
  /\ UNCHANGED <<atomic_head, prod_tail, cons_head, buff, producer, got,
                 counter, draining>>

-----------------------------------------------------------------------------
(* The destructor, when nobody uses the ring any more, and the next ring.  *)

Destructor ==
  /\ ~draining
  /\ \A t \in Threads : pc[t] = "idle"
  /\ draining' = TRUE
  /\ UNCHANGED <<ring, pc, producer, consumer, counter>>

NewRing ==
  /\ pc["consumer"] = "destroyed"
  /\ atomic_head' = 0 /\ prod_tail' = 0 /\ atomic_tail' = 0 /\ cons_head' = 0
  /\ draining' = FALSE
  /\ GoTo("consumer", "idle")
  /\ UNCHANGED <<buff, producer, consumer, counter>>

-----------------------------------------------------------------------------
(* count_pop_slots: the head first, then the tail.                         *)

(* Mutant: the difference is taken the other way round.                    *)
Lacking(head, tail) == Minus(tail, head)
Elements(head, tail) == Minus(head, tail)

Vacant(elements) == Minus(Size, elements)

CountLoadHead(t) ==
  /\ pc[t] = "idle"
  /\ ~draining
  /\ head_seen' = [head_seen EXCEPT ![t] = atomic_head]
  /\ GoTo(t, "count")
  /\ UNCHANGED <<ring, producer, consumer, count, draining>>

CountLoadTail(t) ==
  LET elements == Elements(head_seen[t], atomic_tail)
  IN /\ pc[t] = "count"
     /\ count' \in {elements, Vacant(elements)}
     /\ head_seen' = [head_seen EXCEPT ![t] = 0]
     /\ GoTo(t, "idle")
     /\ UNCHANGED <<ring, producer, consumer, draining>>

-----------------------------------------------------------------------------
ProducerStep ==
  \/ \E n \in 1 .. Size + 1 : BeginPush(n)
  \/ LoadTail
  \/ \E v \in Values : Construct(v)
  \/ ConstructThrows
  \/ StoreHead

ConsumerStep ==
  \/ BeginConsumeEmpty
  \/ \E batch \in BOOLEAN : BeginConsume(batch) \/ LoadHead(batch)
  \/ Take
  \/ Finish
  \/ Return
  \/ Refuse
  \/ Throw
  \/ DestroyOne
  \/ EndRange
  \/ StoreTail

Next ==
  \/ ProducerStep
  \/ ConsumerStep
  \/ \E t \in CountCallers : CountLoadHead(t) \/ CountLoadTail(t)
  \/ Destructor
  \/ NewRing

Spec == Init /\ [][Next]_vars

(* The destructor's loop runs on.                                          *)
FairSpec == Spec /\ WF_vars(draining /\ ConsumerStep)

-----------------------------------------------------------------------------
(* Properties.                                                             *)

(* The elements wait from the next one the consumer will look at to the    *)
(* last one that was published.                                            *)
NextPos == Plus(atomic_tail, used)

(* The ring is a queue of Size elements, whatever the ranges and batches   *)
(* and wherever the positions wrap; a batch appears all at once.           *)
BQ == INSTANCE BoundedQueue WITH
        Capacity <- Size,
        Batch <- Size,
        Consumers <- {"consumer"},
        queue <- [i \in 1 .. Minus(atomic_head, NextPos) |->
                    buff[Slot(Plus(NextPos, i - 1))]],
        taken <- [c \in {"consumer"} |-> got]
Contract == BQ!Spec

(* The slots where an element lives are those from the consumer's next     *)
(* element to destroy to the last the producer has constructed: nothing is *)
(* constructed over a living element, destroyed twice or never.            *)
ElementLifetime ==
  LET first == Plus(atomic_tail, gone)
      alive == Minus(atomic_head, first) + built
  IN {i \in Slots : buff[i] # None} = {Slot(Plus(first, k)) : k \in 0 .. alive - 1}

(* A cached position is stale on the safe side only: the producer sees at  *)
(* most the free slots there are, the consumer at most the elements.       *)
CachesConservative ==
  /\ Minus(atomic_head, prod_tail) \in Minus(atomic_head, atomic_tail) .. Size
  /\ Minus(cons_head, atomic_tail) <= Minus(atomic_head, atomic_tail)

(* count_pop_slots and count_push_slots return what the ring can have.     *)
CountInRange == count <= Size

(* The destructor returns, and leaves no element alive, however stale the  *)
(* cached head was when it began.                                          *)
DestructorEmpties ==
  draining ~> pc["consumer"] = "destroyed" /\ (\A i \in Slots : buff[i] = None)
=============================================================================
