----------------------------- MODULE VyukovQueue -----------------------------
(***************************************************************************)
(* freak::par::vyukov_mpmc_queue: a bounded queue of cells in a ring.  A   *)
(* cell's sequence number says whose turn it is: pos for the push at       *)
(* position pos, pos + 1 for the pop, pos + Size for the push of the next  *)
(* round.  A thread reads a position, then that cell's number, then tries  *)
(* to claim the position, and only then touches the element.               *)
(*                                                                         *)
(* One action is one atomic operation, or one access to an element.        *)
(***************************************************************************)
EXTENDS Naturals

CONSTANTS Size,        \* the number of cells, a power of 2
          Producers,   \* the threads that push
          Consumers,   \* the threads that pop
          Values,      \* the elements
          None,        \* a cell without a living element
          MaxPos       \* bound: no push begins at this position or later

ASSUME SizeAssumption == Size \in Nat /\ Size >= 2
ASSUME NoneAssumption == None \notin Values
ASSUME MaxPosAssumption == MaxPos \in Nat

Threads == Producers \cup Consumers
Cells == 0 .. Size - 1
Cell(p) == p % Size    \* pos & pos_mask_

VARIABLES
  seq,        \* cells_[i].seq_
  data,       \* cells_[i].u_.data_
  push_pos,   \* push_pos_
  pop_pos,    \* pop_pos_
  pc,         \* what a thread does next
  pos,        \* the position it has read or claimed
  val         \* the element it pushes, or has popped

cells == <<seq, data>>
vars  == <<cells, push_pos, pop_pos, pc, pos, val>>

TypeOK ==
  /\ seq \in [Cells -> Nat]
  /\ data \in [Cells -> Values \cup {None}]
  /\ push_pos \in Nat
  /\ pop_pos \in 0 .. push_pos
  /\ pc \in [Threads -> {"idle", "pushSeq", "pushReload", "pushCas", "construct",
                         "pushDone", "popSeq", "popReload", "popCas", "consume",
                         "popDone"}]
  /\ pos \in [Threads -> Nat]
  /\ val \in [Threads -> Values \cup {None}]

Init ==
  /\ seq = [i \in Cells |-> i]
  /\ data = [i \in Cells |-> None]
  /\ push_pos = 0
  /\ pop_pos = 0
  /\ pc = [t \in Threads |-> "idle"]
  /\ pos = [t \in Threads |-> 0]
  /\ val = [t \in Threads |-> None]

GoTo(t, l) == pc' = [pc EXCEPT ![t] = l]

Return(t) ==
  /\ GoTo(t, "idle")
  /\ pos' = [pos EXCEPT ![t] = 0]
  /\ val' = [val EXCEPT ![t] = None]

(* The three-way comparison of a cell's number with the one the thread     *)
(* needs: its turn, somebody was faster, or the cell is still in use.      *)
Turn(t, need, own, reload) ==
  LET s == seq[Cell(pos[t])]
  IN \/ s = need /\ GoTo(t, own) /\ UNCHANGED <<pos, val>>
     \/ s > need /\ GoTo(t, reload) /\ UNCHANGED <<pos, val>>
     \/ s < need /\ Return(t)

(* compare_exchange_weak on a position: on failure, which may be spurious, *)
(* the thread has the current position and looks at its cell again.        *)
Retry(t, p, l) ==
  /\ pos' = [pos EXCEPT ![t] = p]
  /\ GoTo(t, l)
  /\ UNCHANGED val

-----------------------------------------------------------------------------
(* try_push                                                                *)

Push(t, v) ==
  /\ pc[t] = "idle"
  /\ push_pos < MaxPos
  /\ pos' = [pos EXCEPT ![t] = push_pos]
  /\ val' = [val EXCEPT ![t] = v]
  /\ GoTo(t, "pushSeq")
  /\ UNCHANGED <<cells, push_pos, pop_pos>>

PushLoadSeq(t) ==
  /\ pc[t] = "pushSeq"
  /\ Turn(t, pos[t], "pushCas", "pushReload")
  /\ UNCHANGED <<cells, push_pos, pop_pos>>

PushReload(t) ==
  /\ pc[t] = "pushReload"
  /\ Retry(t, push_pos, "pushSeq")
  /\ UNCHANGED <<cells, push_pos, pop_pos>>

PushCas(t) ==
  /\ pc[t] = "pushCas"
  /\ \/ /\ push_pos = pos[t]
        /\ push_pos' = pos[t] + 1
        /\ GoTo(t, "construct")
        /\ UNCHANGED <<pos, val>>
     \/ /\ Retry(t, push_pos, "pushSeq")
        /\ UNCHANGED push_pos
  /\ UNCHANGED <<cells, pop_pos>>

Construct(t) ==
  /\ pc[t] = "construct"
  /\ data' = [data EXCEPT ![Cell(pos[t])] = val[t]]
  /\ GoTo(t, "pushDone")
  /\ UNCHANGED <<seq, push_pos, pop_pos, pos, val>>

(* Mutant: the number that the cell had before.                            *)
NotFilled(p) == p
Filled(p) == p + 1

PushDone(t) ==
  /\ pc[t] = "pushDone"
  /\ seq' = [seq EXCEPT ![Cell(pos[t])] = Filled(pos[t])]
  /\ Return(t)
  /\ UNCHANGED <<data, push_pos, pop_pos>>

-----------------------------------------------------------------------------
(* try_pop_fn                                                              *)

Pop(t) ==
  /\ pc[t] = "idle"
  /\ pos' = [pos EXCEPT ![t] = pop_pos]
  /\ GoTo(t, "popSeq")
  /\ UNCHANGED <<cells, push_pos, pop_pos, val>>

(* Mutant: the pop's turn is mistaken for the push's.                      *)
PushTurn(p) == p
PopTurn(p) == p + 1

PopLoadSeq(t) ==
  /\ pc[t] = "popSeq"
  /\ Turn(t, PopTurn(pos[t]), "popCas", "popReload")
  /\ UNCHANGED <<cells, push_pos, pop_pos>>

PopReload(t) ==
  /\ pc[t] = "popReload"
  /\ Retry(t, pop_pos, "popSeq")
  /\ UNCHANGED <<cells, push_pos, pop_pos>>

PopCas(t) ==
  /\ pc[t] = "popCas"
  /\ \/ /\ pop_pos = pos[t]
        /\ pop_pos' = pos[t] + 1
        /\ GoTo(t, "consume")
        /\ UNCHANGED <<pos, val>>
     \/ /\ Retry(t, pop_pos, "popSeq")
        /\ UNCHANGED pop_pos
  /\ UNCHANGED <<cells, push_pos>>

(* The function gets the element, which is then destroyed.                 *)
Consume(t) ==
  /\ pc[t] = "consume"
  /\ val' = [val EXCEPT ![t] = data[Cell(pos[t])]]
  /\ data' = [data EXCEPT ![Cell(pos[t])] = None]
  /\ GoTo(t, "popDone")
  /\ UNCHANGED <<seq, push_pos, pop_pos, pos>>

(* Mutants: the mask is taken for the size, or the size for the mask.      *)
FreedTooLow(p) == p + Size - 1
FreedTooHigh(p) == p + Size + 1
Freed(p) == p + Size    \* pos + 1 + pos_mask_

PopDone(t) ==
  /\ pc[t] = "popDone"
  /\ seq' = [seq EXCEPT ![Cell(pos[t])] = Freed(pos[t])]
  /\ Return(t)
  /\ UNCHANGED <<data, push_pos, pop_pos>>

-----------------------------------------------------------------------------
PushStep(t) ==
  PushLoadSeq(t) \/ PushReload(t) \/ PushCas(t) \/ Construct(t) \/ PushDone(t)

PopStep(t) ==
  PopLoadSeq(t) \/ PopReload(t) \/ PopCas(t) \/ Consume(t) \/ PopDone(t)

Next ==
  \/ \E t \in Producers : (\E v \in Values : Push(t, v)) \/ PushStep(t)
  \/ \E t \in Consumers : Pop(t) \/ PopStep(t)

Spec == Init /\ [][Next]_vars

-----------------------------------------------------------------------------
(* Properties.                                                             *)

Pushing(p) == {t \in Producers : pc[t] \in {"construct", "pushDone"} /\ pos[t] = p}
Popping(p) == {t \in Consumers : pc[t] \in {"consume", "popDone"} /\ pos[t] = p}

(* The element of a claimed position, constructed or about to be.          *)
ElementAt(p) ==
  IF \E t \in Pushing(p) : pc[t] = "construct"
  THEN val[CHOOSE t \in Pushing(p) : pc[t] = "construct"]
  ELSE data[Cell(p)]

(* The queue is linearizable: a push takes effect when it claims its       *)
(* position, a pop when it claims its own, and no other step changes what  *)
(* waits in the queue or what a consumer was given.                        *)
BQ == INSTANCE BoundedQueue WITH
        Capacity <- Size,
        Batch <- 1,
        queue <- [i \in 1 .. push_pos - pop_pos |-> ElementAt(pop_pos + i - 1)],
        taken <- [c \in Consumers |->
                    CASE pc[c] = "consume" -> data[Cell(pos[c])]
                      [] pc[c] = "popDone" -> val[c]
                      [] OTHER -> None]
Contract == BQ!Spec

(* Placement new never constructs over a living element, and no consumer   *)
(* is handed a dead one.                                                   *)
ElementLifetime ==
  \A t \in Threads : /\ pc[t] = "construct" => data[Cell(pos[t])] = None
                     /\ pc[t] = "consume" => data[Cell(pos[t])] # None

(* A push that fails has really met a full ring, although it may have read *)
(* its position long ago: at that moment the oldest cell is in use.        *)
FullVerdict ==
  [][\A t \in Producers : pc[t] = "pushSeq" /\ pc'[t] = "idle" =>
       \/ push_pos - pop_pos = Size
       \/ push_pos >= Size /\ Popping(push_pos - Size) # {}]_vars

(* A pop that fails found nothing it could take: at that moment the queue  *)
(* has no element or its head is still being pushed.                       *)
EmptyVerdict ==
  [][\A t \in Consumers : pc[t] = "popSeq" /\ pc'[t] = "idle" =>
       push_pos = pop_pos \/ Pushing(pop_pos) # {}]_vars

(* A thread goes round its loop only because another one made progress     *)
(* (or the exchange failed spuriously): nobody spins on a stalled thread.  *)
RetryMeansProgress ==
  \A t \in Threads : /\ pc[t] = "pushReload" => push_pos > pos[t]
                     /\ pc[t] = "popReload" => pop_pos > pos[t]

(* The destructor's assertion (vyukov_mpmc_queue.hpp:75): when no call is  *)
(* under way, every element between the positions is there to destroy.     *)
Quiescent == \A t \in Threads : pc[t] = "idle"
DestructorAssertion ==
  Quiescent => \A p \in pop_pos .. push_pos - 1 :
                 seq[Cell(p)] = p + 1 /\ data[Cell(p)] # None
=============================================================================
