---------------------------- MODULE AtomicObjects ----------------------------
(***************************************************************************)
(* What an object paired with its lock promises: threads that share such   *)
(* objects see whole values only, and every operation on them, also one    *)
(* on two objects, happens at one moment (synchronized.hpp:57-58).         *)
(***************************************************************************)
CONSTANTS Objects, Threads, Values, None

VARIABLES value,   \* the value of each object
          seen     \* what a thread has read last, as parts, and not yet used

Whole(v) == <<v, v>>

Init ==
  /\ value \in [Objects -> Values]
  /\ seen = [t \in Threads |-> None]

Set(o, v) ==
  /\ value' = [value EXCEPT ![o] = v]
  /\ UNCHANGED seen

Assign(l, r) == Set(l, value[r])

(* What is left in the object that was moved from is any value.            *)
Move(l, r, v) ==
  /\ value' = [value EXCEPT ![l] = value[r], ![r] = v]
  /\ UNCHANGED seen

Swap(l, r) == Move(l, r, value[l])

Copy(t, o) ==
  /\ seen' = [seen EXCEPT ![t] = Whole(value[o])]
  /\ UNCHANGED value

Use(t) ==
  /\ seen' = [seen EXCEPT ![t] = None]
  /\ UNCHANGED value

Next ==
  \/ \E o \in Objects, v \in Values : Set(o, v)
  \/ \E l, r \in Objects : \/ Assign(l, r)
                           \/ \E v \in Values : Move(l, r, v)
                           \/ Swap(l, r)
  \/ \E t \in Threads : (\E o \in Objects : Copy(t, o)) \/ Use(t)

Spec == Init /\ [][Next]_<<value, seen>>
=============================================================================
