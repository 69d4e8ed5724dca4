---------------------------- MODULE BoundedQueue ----------------------------
(***************************************************************************)
(* What a bounded queue promises the threads that share it: an element     *)
(* that was pushed is popped by one consumer, in the order of the pushes,  *)
(* and stays that consumer's until it is done with it; at most Capacity    *)
(* elements wait.                                                          *)
(***************************************************************************)
EXTENDS Naturals, Sequences

CONSTANTS Capacity,    \* how many elements may wait
          Batch,       \* how many elements one push may add at once
          Values,
          Consumers,
          None

VARIABLES queue,   \* the elements that wait, the oldest first
          taken    \* taken[c]: the element consumer c has popped and not used

TypeOK ==
  /\ queue \in Seq(Values) /\ Len(queue) <= Capacity
  /\ taken \in [Consumers -> Values \cup {None}]

Init ==
  /\ queue = <<>>
  /\ taken = [c \in Consumers |-> None]

Push(vs) ==
  /\ Len(queue) + Len(vs) <= Capacity
  /\ queue' = queue \o vs
  /\ UNCHANGED taken

Pop(c) ==
  /\ queue # <<>>
  /\ taken[c] = None
  /\ taken' = [taken EXCEPT ![c] = Head(queue)]
  /\ queue' = Tail(queue)

Deliver(c) ==
  /\ taken[c] # None
  /\ taken' = [taken EXCEPT ![c] = None]
  /\ UNCHANGED queue

Next ==
  \/ \E n \in 1 .. Batch : \E vs \in [1 .. n -> Values] : Push(vs)
  \/ \E c \in Consumers : Pop(c) \/ Deliver(c)

Spec == Init /\ [][Next]_<<queue, taken>>
=============================================================================
