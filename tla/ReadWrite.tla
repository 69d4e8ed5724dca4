------------------------------ MODULE ReadWrite ------------------------------
(***************************************************************************)
(* freak::par::read_write: two copies of a value.  Readers count           *)
(* themselves into the copy that read_idx_ names and read it without a     *)
(* lock; a writer, alone under a mutex, changes the other copy and, when   *)
(* its guard is released, publishes it by flipping the index between two   *)
(* waits for readers.                                                      *)
(*                                                                         *)
(* Every shared access is a sequentially consistent read-modify-write or   *)
(* store, or a load whose value the code rechecks, so one action is one    *)
(* atomic operation on one memory.  A copy is abstracted to the changes    *)
(* that were made to it: the client changes a part of the value once under *)
(* a write guard, or not at all, and a thread has one guard at a time.     *)
(***************************************************************************)
EXTENDS Naturals, FiniteSets

CONSTANTS Threads,     \* each may read and write
          None,        \* wr_mut_ is free
          MaxWrites    \* bound: how many write guards are taken

ASSUME ThreadsAssumption == IsFiniteSet(Threads)
ASSUME NoneAssumption == None \notin Threads
ASSUME MaxWritesAssumption == MaxWrites \in Nat

Copies == {0, 1}

VARIABLES
  read_idx,    \* read_idx_: the copy that readers take
  rdrs_cnt,    \* rdrs_cnt_: the readers counted into each copy
  data,        \* data_: the changes made to each copy
  wr_mut,      \* the holder of wr_mut_
  pc,          \* where a thread is
  ri,          \* the index it has loaded
  moved,       \* has it a guard that was moved from and still exists
  published,   \* ghost: the last write guard whose flip has happened
  changed,     \* ghost: the write guards under which a change was made
  late,        \* ghost: the reader counted itself in after a flip
  floor        \* ghost: the guard that was published when it loaded the index

shared == <<read_idx, rdrs_cnt, data, wr_mut, published, changed>>
vars   == <<shared, pc, ri, moved, late, floor>>

TypeOK ==
  /\ read_idx \in Copies
  /\ rdrs_cnt \in [Copies -> Nat]
  /\ data \in [Copies -> SUBSET (1 .. MaxWrites)]
  /\ wr_mut \in Threads \cup {None}
  /\ published \in 0 .. MaxWrites
  /\ changed \subseteq 1 .. MaxWrites
  /\ pc \in [Threads -> {"idle", "count", "reading", "writing", "waitNext",
                         "flip", "waitPrev", "unlock"}]
  /\ ri \in [Threads -> Copies]
  /\ moved \in [Threads -> BOOLEAN]
  /\ late \in [Threads -> BOOLEAN]
  /\ floor \in [Threads -> 0 .. MaxWrites]

(* Whether the constructor gave both copies the same value is not told.    *)
Init ==
  /\ read_idx = 0
  /\ rdrs_cnt = [c \in Copies |-> 0]
  /\ data = [c \in Copies |-> {}]
  /\ wr_mut = None
  /\ published = 0
  /\ changed = {}
  /\ pc = [t \in Threads |-> "idle"]
  /\ ri = [t \in Threads |-> 0]
  /\ moved = [t \in Threads |-> FALSE]
  /\ late = [t \in Threads |-> FALSE]
  /\ floor = [t \in Threads |-> 0]

GoTo(t, l) == pc' = [pc EXCEPT ![t] = l]

-----------------------------------------------------------------------------
(* read(): the index is loaded first and the reader counted in second.     *)

Read(t) ==
  /\ pc[t] = "idle"
  /\ ri' = [ri EXCEPT ![t] = read_idx]
  /\ floor' = [floor EXCEPT ![t] = published]
  /\ GoTo(t, "count")
  /\ UNCHANGED <<shared, moved, late>>

CountIn(t) ==
  /\ pc[t] = "count"
  /\ rdrs_cnt' = [rdrs_cnt EXCEPT ![ri[t]] = @ + 1]
  /\ late' = [late EXCEPT ![t] = ri[t] # read_idx]
  /\ GoTo(t, "reading")
  /\ UNCHANGED <<read_idx, data, wr_mut, published, changed, ri, moved, floor>>

(* The destructor of the read guard: the counter it captured, not the one  *)
(* of the copy that is current by now.                                     *)
(* Mutant: the counter of the current copy.                                *)
CurrentCopy(t) == read_idx
CountedCopy(t) == ri[t]

ReleaseRead(t) ==
  /\ pc[t] = "reading"
  /\ rdrs_cnt' = [rdrs_cnt EXCEPT ![CountedCopy(t)] = @ - 1]
  /\ ri' = [ri EXCEPT ![t] = 0]
  /\ late' = [late EXCEPT ![t] = FALSE]
  /\ floor' = [floor EXCEPT ![t] = 0]
  /\ GoTo(t, "idle")
  /\ UNCHANGED <<read_idx, data, wr_mut, published, changed, moved>>

-----------------------------------------------------------------------------
(* write(): the index cannot change while the mutex is held, so its load   *)
(* is part of the step that takes the mutex.                               *)

(* Mutant: the copy that readers take is the one that is written.          *)
SameCopy(i) == i
OtherCopy(i) == 1 - i

Write(t) ==
  /\ pc[t] = "idle"
  /\ wr_mut = None
  /\ published < MaxWrites
  /\ wr_mut' = t
  /\ ri' = [ri EXCEPT ![t] = read_idx]
  /\ GoTo(t, "writing")
  /\ UNCHANGED <<read_idx, rdrs_cnt, data, published, changed, moved, late, floor>>

(* The client's last access through the guard, which it then gives up.     *)
Modify(t) ==
  /\ pc[t] = "writing"
  /\ \/ /\ data' = [data EXCEPT ![OtherCopy(ri[t])] = @ \cup {published + 1}]
        /\ changed' = changed \cup {published + 1}
     \/ UNCHANGED <<data, changed>>
  /\ GoTo(t, "waitNext")
  /\ UNCHANGED <<read_idx, rdrs_cnt, wr_mut, published, ri, moved, late, floor>>

(* The destructor of the write guard.                                      *)
NoReaders(c) == rdrs_cnt[c] = 0

WaitNext(t) ==
  /\ pc[t] = "waitNext"
  /\ NoReaders(1 - ri[t])
  /\ GoTo(t, "flip")
  /\ UNCHANGED <<shared, ri, moved, late, floor>>

Flip(t) ==
  /\ pc[t] = "flip"
  /\ read_idx' = 1 - ri[t]
  /\ published' = published + 1
  /\ GoTo(t, "waitPrev")
  /\ UNCHANGED <<rdrs_cnt, data, wr_mut, changed, ri, moved, late, floor>>

(* Mutant: the wait after the flip is for the copy just published.         *)
PublishedCopy(t) == 1 - ri[t]
PreviousCopy(t) == ri[t]

WaitPrev(t) ==
  /\ pc[t] = "waitPrev"
  /\ NoReaders(PreviousCopy(t))
  /\ GoTo(t, "unlock")
  /\ UNCHANGED <<shared, ri, moved, late, floor>>

Unlock(t) ==
  /\ pc[t] = "unlock"
  /\ wr_mut' = None
  /\ ri' = [ri EXCEPT ![t] = 0]
  /\ GoTo(t, "idle")
  /\ UNCHANGED <<read_idx, rdrs_cnt, data, published, changed, moved, late, floor>>

-----------------------------------------------------------------------------
(* A guard is moved to another one and later destroyed: a guard that was   *)
(* moved from has no data_ and its destructor does nothing.                *)

MoveGuard(t) ==
  /\ pc[t] \in {"reading", "writing"}
  /\ ~moved[t]
  /\ moved' = [moved EXCEPT ![t] = TRUE]
  /\ UNCHANGED <<shared, pc, ri, late, floor>>

(* Mutant: the guard that was moved from keeps data_.                      *)
HasDataStill(t) == pc[t] = "reading"
HasData(t) == FALSE

DropMoved(t) ==
  /\ moved[t]
  /\ moved' = [moved EXCEPT ![t] = FALSE]
  /\ rdrs_cnt' = IF HasData(t) THEN [rdrs_cnt EXCEPT ![CountedCopy(t)] = @ - 1]
                              ELSE rdrs_cnt
  /\ UNCHANGED <<read_idx, data, wr_mut, published, changed, pc, ri, late, floor>>

-----------------------------------------------------------------------------
ReleaseWrite(t) == WaitNext(t) \/ Flip(t) \/ WaitPrev(t) \/ Unlock(t)

Next ==
  \E t \in Threads :
    \/ Read(t)
    \/ CountIn(t)
    \/ ReleaseRead(t)
    \/ Write(t)
    \/ Modify(t)
    \/ ReleaseWrite(t)
    \/ MoveGuard(t)
    \/ DropMoved(t)

(* Guards are given up, and a function that is entered runs to its end.    *)
Fairness ==
  \A t \in Threads : /\ WF_vars(CountIn(t))
                     /\ WF_vars(ReleaseRead(t))
                     /\ WF_vars(Modify(t))
                     /\ WF_vars(ReleaseWrite(t))

Spec == Init /\ [][Next]_vars
FairSpec == Spec /\ Fairness

-----------------------------------------------------------------------------
(* Properties.                                                             *)

Overlap(r, t) ==
  pc[r] = "reading" /\ pc[t] = "writing" /\ ri[r] = OtherCopy(ri[t])

(* What the waits are for (read_write.hpp:106-109): no writer writes to    *)
(* the copy a reader is reading.                                           *)
NoReaderWriterOverlap == \A r, t \in Threads : ~Overlap(r, t)

(* The part of it the code achieves: a reader that counted itself in       *)
(* before the next flip is never written under, however many writers       *)
(* follow each other.                                                      *)
OnTimeReadersSafe == \A r, t \in Threads : Overlap(r, t) => late[r]

(* A read sees the change that was published when it began, also when it   *)
(* is stalled between its two steps across several writes.                 *)
ReadsFresh ==
  \A r \in Threads :
    pc[r] = "reading" /\ floor[r] \in changed => floor[r] \in data[ri[r]]

(* The two copies drift apart: each has the changes made under every other *)
(* write guard and lacks those between, so a change to a part of the value *)
(* is gone with the next flip, whether or not that writer changes anything.*)
EveryOtherChange ==
  \A c \in Copies : data[c] = {w \in changed : w % 2 = c}

(* A reader is counted in one copy exactly, however its guard is moved and *)
(* in whatever order the guards are destroyed.                             *)
CountsMatchGuards ==
  \A c \in Copies :
    rdrs_cnt[c] = Cardinality({r \in Threads : pc[r] = "reading" /\ ri[r] = c})

(* The release of a write guard ends, however readers keep coming.         *)
ReleaseReturns ==
  \A t \in Threads :
    pc[t] \in {"waitNext", "flip", "waitPrev", "unlock"} ~> pc[t] = "idle"
=============================================================================
