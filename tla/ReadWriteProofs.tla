--------------------------- MODULE ReadWriteProofs ---------------------------
(***************************************************************************)
(* Theorems about ReadWrite, for any threads and any number of writes.     *)
(*                                                                         *)
(* The index alternates with every write guard, so the guards alternate    *)
(* between the copies; and a reader that was counted in before a flip is   *)
(* still waited for when the writer that flips gives up the mutex.         *)
(***************************************************************************)
EXTENDS ReadWrite, FiniteSetTheorems, TLAPS

(* The thread that has a write guard, or is in its destructor.             *)
HasMutex(t)  == pc[t] \in {"writing", "waitNext", "flip", "waitPrev", "unlock"}
WillFlip(t)  == pc[t] \in {"writing", "waitNext", "flip"}
Reading(c)   == {r \in Threads : pc[r] = "reading" /\ ri[r] = c}

WriterAlone == \A t \in Threads : HasMutex(t) => wr_mut = t

WriterIndex ==
  \A t \in Threads : WillFlip(t) => ri[t] = read_idx /\ published < MaxWrites

IndexParity == read_idx = published % 2

ReaderIndex ==
  \A r \in Threads : pc[r] \in {"count", "reading"} => ri[r] = floor[r] % 2

(* A reader counted in on time has the current copy, or the previous one   *)
(* as long as the writer waits for its readers.                            *)
OnTimeReaders ==
  \A r \in Threads : pc[r] = "reading" /\ ~late[r] =>
    \/ ri[r] = read_idx
    \/ \E t \in Threads : pc[t] = "waitPrev" /\ ri[t] = ri[r]

IndexInv == WriterAlone /\ WriterIndex /\ IndexParity /\ ReaderIndex
IInv == TypeOK /\ IndexInv /\ CountsMatchGuards /\ EveryOtherChange /\ OnTimeReaders

-----------------------------------------------------------------------------
(* The guards' numbers alternate.                                          *)
LEMMA Parity ==
  ASSUME NEW n \in Nat
  PROVE  n % 2 \in Copies /\ (n + 1) % 2 = 1 - (n % 2)
BY SMT DEF Copies

(* There are finitely many readers, as there are threads.                  *)
LEMMA ReadingFinite ==
  ASSUME NEW c
  PROVE  IsFiniteSet(Reading(c)) /\ Cardinality(Reading(c)) \in Nat
<1>1. Reading(c) \subseteq Threads
  BY DEF Reading
<1>2. IsFiniteSet(Reading(c))
  BY <1>1, ThreadsAssumption, FS_Subset
<1>3. QED
  BY <1>2, FS_CardinalityType

LEMMA CountsAreReading ==
  CountsMatchGuards <=> \A c \in Copies : rdrs_cnt[c] = Cardinality(Reading(c))
BY DEF CountsMatchGuards, Reading

(* A step that neither starts nor ends a read leaves the counts alone.     *)
LEMMA CountsKept ==
  ASSUME CountsMatchGuards, rdrs_cnt' = rdrs_cnt,
         \A r \in Threads : /\ pc'[r] = "reading" <=> pc[r] = "reading"
                            /\ pc[r] = "reading" => ri'[r] = ri[r]
  PROVE  CountsMatchGuards'
<1>1. ASSUME NEW c \in Copies
      PROVE  {r \in Threads : pc'[r] = "reading" /\ ri'[r] = c}
               = {r \in Threads : pc[r] = "reading" /\ ri[r] = c}
  OBVIOUS
<1>2. QED
  BY <1>1 DEF CountsMatchGuards

(* A step that touches neither the mutex nor the copies and moves only one *)
(* thread, which is no writer before or after it, keeps the copies' parity *)
(* and the writer's index.                                                 *)
LEMMA ReaderKeepsWriters ==
  ASSUME TypeOK, IndexInv, EveryOtherChange, NEW t \in Threads,
         UNCHANGED <<read_idx, data, wr_mut, published, changed>>,
         ~HasMutex(t), ~HasMutex(t)',
         \A s \in Threads \ {t} : pc'[s] = pc[s] /\ ri'[s] = ri[s]
  PROVE  WriterAlone' /\ WriterIndex' /\ IndexParity' /\ EveryOtherChange'
<1>1. WriterAlone' /\ WriterIndex'
  BY DEF IndexInv, WriterAlone, WriterIndex, HasMutex, WillFlip
<1>2. IndexParity' /\ EveryOtherChange'
  BY DEF IndexInv, IndexParity, EveryOtherChange
<1>3. QED
  BY <1>1, <1>2

-----------------------------------------------------------------------------
(* One lemma per action: it keeps the invariant.                           *)

LEMMA InitIInv == Init => IInv
<1> SUFFICES ASSUME Init PROVE IInv
  OBVIOUS
<1>1. TypeOK
  BY MaxWritesAssumption DEF Init, TypeOK, Copies
<1>2. IndexInv
  BY SMT DEF Init, IndexInv, WriterAlone, WriterIndex, IndexParity, ReaderIndex,
         HasMutex, WillFlip
<1>3. CountsMatchGuards
  <2>1. ASSUME NEW c \in Copies
        PROVE  {r \in Threads : pc[r] = "reading" /\ ri[r] = c} = {}
    BY DEF Init
  <2>2. QED
    BY <2>1, FS_EmptySet DEF Init, CountsMatchGuards
<1>4. EveryOtherChange /\ OnTimeReaders
  BY DEF Init, EveryOtherChange, OnTimeReaders
<1>5. QED
  BY <1>1, <1>2, <1>3, <1>4 DEF IInv

LEMMA ReadIInv ==
  ASSUME IInv, NEW t \in Threads, Read(t)
  PROVE  IInv'
<1> USE DEF IInv
<1>1. TypeOK'
  BY DEF TypeOK, Read, GoTo, shared
<1>2. WriterAlone' /\ WriterIndex' /\ IndexParity' /\ EveryOtherChange'
  BY ReaderKeepsWriters DEF TypeOK, Read, GoTo, shared, HasMutex
<1>3. ReaderIndex'
  BY DEF IndexInv, IndexParity, ReaderIndex, TypeOK, Read, GoTo, shared
<1>4. CountsMatchGuards'
  BY CountsKept DEF TypeOK, Read, GoTo, shared
<1>5. OnTimeReaders'
  BY DEF OnTimeReaders, TypeOK, Read, GoTo, shared
<1>6. QED
  BY <1>1, <1>2, <1>3, <1>4, <1>5 DEF IndexInv

LEMMA CountInIInv ==
  ASSUME IInv, NEW t \in Threads, CountIn(t)
  PROVE  IInv'
<1> USE DEF IInv
<1>1. TypeOK'
  BY DEF TypeOK, CountIn, GoTo
<1>2. WriterAlone' /\ WriterIndex' /\ IndexParity' /\ EveryOtherChange'
  BY ReaderKeepsWriters DEF TypeOK, CountIn, GoTo, HasMutex
<1>3. ReaderIndex'
  BY DEF IndexInv, ReaderIndex, TypeOK, CountIn, GoTo
<1>4. CountsMatchGuards'
  <2>1. ASSUME NEW c \in Copies
        PROVE  rdrs_cnt'[c] = Cardinality(Reading(c)')
    <3>1. rdrs_cnt[c] = Cardinality(Reading(c))
      BY CountsAreReading
    <3>2. CASE c = ri[t]
      <4>1. t \notin Reading(c) /\ Reading(c)' = Reading(c) \cup {t}
        BY <3>2 DEF Reading, TypeOK, CountIn, GoTo
      <4>2. Cardinality(Reading(c)') = Cardinality(Reading(c)) + 1
        BY <4>1, ReadingFinite, FS_AddElement
      <4>3. QED
        BY <3>1, <3>2, <4>2 DEF TypeOK, CountIn
    <3>3. CASE c # ri[t]
      <4>1. Reading(c)' = Reading(c)
        BY <3>3 DEF Reading, TypeOK, CountIn, GoTo
      <4>2. QED
        BY <3>1, <3>3, <4>1 DEF TypeOK, CountIn
    <3>4. QED
      BY <3>2, <3>3
  <2>2. QED
    BY <2>1 DEF CountsMatchGuards, Reading
<1>5. OnTimeReaders'
  BY DEF OnTimeReaders, TypeOK, CountIn, GoTo
<1>6. QED
  BY <1>1, <1>2, <1>3, <1>4, <1>5 DEF IndexInv

LEMMA ReleaseReadIInv ==
  ASSUME IInv, NEW t \in Threads, ReleaseRead(t)
  PROVE  IInv'
<1> USE DEF IInv
<1>1. \A c \in Copies : rdrs_cnt'[c] = Cardinality(Reading(c)')
  <2> SUFFICES ASSUME NEW c \in Copies PROVE rdrs_cnt'[c] = Cardinality(Reading(c)')
    OBVIOUS
  <2>1. rdrs_cnt[c] = Cardinality(Reading(c))
    BY CountsAreReading
  <2>2. CASE c = ri[t]
    <3>1. t \in Reading(c) /\ Reading(c)' = Reading(c) \ {t}
      BY <2>2 DEF Reading, TypeOK, ReleaseRead, GoTo
    <3>2. Cardinality(Reading(c)') = Cardinality(Reading(c)) - 1
      BY <3>1, ReadingFinite, FS_RemoveElement
    <3>3. QED
      BY <2>1, <2>2, <3>2 DEF TypeOK, ReleaseRead, CountedCopy
  <2>3. CASE c # ri[t]
    <3>1. Reading(c)' = Reading(c)
      BY <2>3 DEF Reading, TypeOK, ReleaseRead, GoTo
    <3>2. QED
      BY <2>1, <2>3, <3>1 DEF TypeOK, ReleaseRead, CountedCopy
  <2>4. QED
    BY <2>2, <2>3
<1>2. CountsMatchGuards'
  BY <1>1 DEF CountsMatchGuards, Reading
<1>3. TypeOK'
  <2>1. \A c \in Copies : Cardinality(Reading(c)') \in Nat
    <3>1. ASSUME NEW c PROVE IsFiniteSet(Reading(c)')
      <4>1. Reading(c)' \subseteq Threads
        BY DEF Reading
      <4>2. QED
        BY <4>1, ThreadsAssumption, FS_Subset
    <3>2. QED
      BY <3>1, FS_CardinalityType
  <2>2. rdrs_cnt' \in [Copies -> Nat]
    <3>1. \A c \in Copies : rdrs_cnt'[c] \in Nat
      BY <1>1, <2>1
    <3>2. rdrs_cnt' = [c \in Copies |-> rdrs_cnt'[c]]
      BY DEF TypeOK, ReleaseRead
    <3>3. QED
      BY <3>1, <3>2
  <2>3. /\ ri' \in [Threads -> Copies]
        /\ floor' \in [Threads -> 0 .. MaxWrites]
    BY MaxWritesAssumption DEF TypeOK, ReleaseRead, Copies
  <2>4. QED
    BY <2>2, <2>3 DEF TypeOK, ReleaseRead, GoTo
<1>4. WriterAlone' /\ WriterIndex' /\ IndexParity' /\ EveryOtherChange'
  BY ReaderKeepsWriters DEF TypeOK, ReleaseRead, GoTo, HasMutex
<1>5. ReaderIndex'
  BY DEF IndexInv, ReaderIndex, TypeOK, ReleaseRead, GoTo
<1>6. OnTimeReaders'
  BY DEF OnTimeReaders, TypeOK, ReleaseRead, GoTo
<1>7. QED
  BY <1>2, <1>3, <1>4, <1>5, <1>6 DEF IndexInv

LEMMA WriteIInv ==
  ASSUME IInv, NEW t \in Threads, Write(t)
  PROVE  IInv'
<1> USE DEF IInv
<1>1. TypeOK'
  BY DEF TypeOK, Write, GoTo
<1>2. IndexInv'
  <2>1. \A s \in Threads : ~HasMutex(s)
    BY NoneAssumption DEF IndexInv, WriterAlone, Write
  <2>2. WriterAlone' /\ WriterIndex'
    BY <2>1 DEF TypeOK, WriterAlone, WriterIndex, HasMutex, WillFlip, Write, GoTo
  <2>3. IndexParity' /\ ReaderIndex'
    BY DEF IndexInv, IndexParity, ReaderIndex, TypeOK, Write, GoTo
  <2>4. QED
    BY <2>2, <2>3 DEF IndexInv
<1>3. CountsMatchGuards'
  BY CountsKept DEF TypeOK, Write, GoTo
<1>4. EveryOtherChange'
  BY DEF EveryOtherChange, Write
<1>5. OnTimeReaders'
  BY DEF OnTimeReaders, TypeOK, Write, GoTo
<1>6. QED
  BY <1>1, <1>2, <1>3, <1>4, <1>5

LEMMA ModifyIInv ==
  ASSUME IInv, NEW t \in Threads, Modify(t)
  PROVE  IInv'
<1> USE DEF IInv
<1>1. /\ published \in Nat /\ published + 1 \in 1 .. MaxWrites
      /\ ri[t] = published % 2
      /\ OtherCopy(ri[t]) = (published + 1) % 2 /\ OtherCopy(ri[t]) \in Copies
  <2>1. published \in Nat /\ published < MaxWrites /\ ri[t] = published % 2
    BY MaxWritesAssumption
    DEF TypeOK, IndexInv, WriterIndex, IndexParity, WillFlip, Modify
  <2>2. published + 1 \in 1 .. MaxWrites
    BY <2>1, MaxWritesAssumption
  <2>3. OtherCopy(ri[t]) = (published + 1) % 2
    BY <2>1, Parity DEF OtherCopy
  <2>4. OtherCopy(ri[t]) \in Copies
    BY DEF TypeOK, OtherCopy, Copies
  <2>5. QED
    BY <2>1, <2>2, <2>3, <2>4
<1>2. TypeOK'
  <2>1. /\ data' \in [Copies -> SUBSET (1 .. MaxWrites)]
        /\ changed' \subseteq 1 .. MaxWrites
    <3>1. CASE UNCHANGED <<data, changed>>
      BY <3>1 DEF TypeOK
    <3>2. CASE /\ data' = [data EXCEPT ![OtherCopy(ri[t])] = @ \cup {published + 1}]
               /\ changed' = changed \cup {published + 1}
      <4>1. changed' \subseteq 1 .. MaxWrites
        BY <1>1, <3>2 DEF TypeOK
      <4>2. data[OtherCopy(ri[t])] \cup {published + 1} \in SUBSET (1 .. MaxWrites)
        BY <1>1 DEF TypeOK
      <4>3. QED
        BY <3>2, <4>1, <4>2 DEF TypeOK
    <3>3. QED
      BY <3>1, <3>2 DEF Modify
  <2>2. QED
    BY <2>1 DEF TypeOK, Modify, GoTo
<1>3. IndexInv'
  <2>1. WriterAlone' /\ WriterIndex'
    BY DEF TypeOK, IndexInv, WriterAlone, WriterIndex, HasMutex, WillFlip, Modify, GoTo
  <2>2. IndexParity' /\ ReaderIndex'
    BY DEF IndexInv, IndexParity, ReaderIndex, TypeOK, Modify, GoTo
  <2>3. QED
    BY <2>1, <2>2 DEF IndexInv
<1>4. CountsMatchGuards'
  BY CountsKept DEF TypeOK, Modify, GoTo
<1>5. EveryOtherChange'
  <2>1. CASE UNCHANGED <<data, changed>>
    BY <2>1 DEF EveryOtherChange
  <2>2. CASE /\ data' = [data EXCEPT ![OtherCopy(ri[t])] = @ \cup {published + 1}]
             /\ changed' = changed \cup {published + 1}
    <3> SUFFICES ASSUME NEW c \in Copies
                 PROVE  data'[c] = {w \in changed' : w % 2 = c}
      BY DEF EveryOtherChange
    <3>1. data[c] = {w \in changed : w % 2 = c}
      BY DEF EveryOtherChange
    <3>2. data'[c] = IF c = OtherCopy(ri[t]) THEN data[c] \cup {published + 1}
                                             ELSE data[c]
      BY <1>1, <2>2 DEF TypeOK
    <3>3. CASE c = OtherCopy(ri[t])
      BY <1>1, <2>2, <3>1, <3>2, <3>3, Zenon
    <3>4. CASE c # OtherCopy(ri[t])
      BY <1>1, <2>2, <3>1, <3>2, <3>4, Zenon
    <3>5. QED
      BY <3>3, <3>4
  <2>3. QED
    BY <2>1, <2>2 DEF Modify
<1>6. OnTimeReaders'
  BY DEF OnTimeReaders, TypeOK, Modify, GoTo
<1>7. QED
  BY <1>2, <1>3, <1>4, <1>5, <1>6

LEMMA WaitNextIInv ==
  ASSUME IInv, NEW t \in Threads, WaitNext(t)
  PROVE  IInv'
<1> USE DEF IInv
<1>1. TypeOK'
  BY DEF TypeOK, WaitNext, GoTo, shared
<1>2. IndexInv'
  BY DEF TypeOK, IndexInv, WriterAlone, WriterIndex, IndexParity, ReaderIndex,
         HasMutex, WillFlip, WaitNext, GoTo, shared
<1>3. CountsMatchGuards'
  BY CountsKept DEF TypeOK, WaitNext, GoTo, shared
<1>4. EveryOtherChange' /\ OnTimeReaders'
  BY DEF EveryOtherChange, OnTimeReaders, TypeOK, WaitNext, GoTo, shared
<1>5. QED
  BY <1>1, <1>2, <1>3, <1>4

LEMMA FlipIInv ==
  ASSUME IInv, NEW t \in Threads, Flip(t)
  PROVE  IInv'
<1> USE DEF IInv
<1>1. /\ published \in Nat /\ published + 1 \in 0 .. MaxWrites
      /\ ri[t] = read_idx /\ wr_mut = t
      /\ read_idx' = (published + 1) % 2 /\ read_idx' \in Copies
  <2>1. /\ published \in Nat /\ published < MaxWrites
        /\ ri[t] = published % 2 /\ ri[t] = read_idx /\ wr_mut = t
    BY MaxWritesAssumption
    DEF TypeOK, IndexInv, WriterAlone, WriterIndex, IndexParity, HasMutex, WillFlip, Flip
  <2>2. published + 1 \in 0 .. MaxWrites
    BY <2>1, MaxWritesAssumption
  <2>3. read_idx' = (published + 1) % 2
    BY <2>1, Parity DEF Flip
  <2>4. read_idx' \in Copies
    BY DEF TypeOK, Flip, Copies
  <2>5. QED
    BY <2>1, <2>2, <2>3, <2>4
<1>2. \A s \in Threads \ {t} : ~HasMutex(s)
  BY <1>1 DEF IndexInv, WriterAlone
<1>3. TypeOK'
  BY <1>1 DEF TypeOK, Flip, GoTo
<1>4. IndexInv'
  <2>1. WriterAlone'
    BY DEF TypeOK, IndexInv, WriterAlone, HasMutex, Flip, GoTo
  <2>2. WriterIndex'
    BY <1>2 DEF TypeOK, WriterIndex, HasMutex, WillFlip, Flip, GoTo
  <2>3. IndexParity' /\ ReaderIndex'
    BY <1>1 DEF IndexInv, IndexParity, ReaderIndex, TypeOK, Flip, GoTo
  <2>4. QED
    BY <2>1, <2>2, <2>3 DEF IndexInv
<1>5. CountsMatchGuards'
  BY CountsKept DEF TypeOK, Flip, GoTo
<1>6. EveryOtherChange'
  BY DEF EveryOtherChange, Flip
<1>7. OnTimeReaders'
  <2> SUFFICES ASSUME NEW r \in Threads, pc'[r] = "reading", ~late'[r]
               PROVE  \E s \in Threads : pc'[s] = "waitPrev" /\ ri'[s] = ri'[r]
    BY DEF OnTimeReaders
  <2>1. pc[r] = "reading" /\ ~late[r]
    BY DEF TypeOK, Flip, GoTo
  <2>2. \A s \in Threads : pc[s] # "waitPrev"
    BY <1>2 DEF HasMutex, Flip
  <2>3. ri[r] = ri[t]
    BY <1>1, <2>1, <2>2 DEF OnTimeReaders
  <2>4. QED
    BY <2>3 DEF TypeOK, Flip, GoTo
<1>8. QED
  BY <1>3, <1>4, <1>5, <1>6, <1>7

LEMMA WaitPrevIInv ==
  ASSUME IInv, NEW t \in Threads, WaitPrev(t)
  PROVE  IInv'
<1> USE DEF IInv
<1>1. TypeOK'
  BY DEF TypeOK, WaitPrev, GoTo, shared
<1>2. IndexInv'
  BY DEF TypeOK, IndexInv, WriterAlone, WriterIndex, IndexParity, ReaderIndex,
         HasMutex, WillFlip, WaitPrev, GoTo, shared
<1>3. CountsMatchGuards'
  BY CountsKept DEF TypeOK, WaitPrev, GoTo, shared
<1>4. EveryOtherChange'
  BY DEF EveryOtherChange, WaitPrev, shared
<1>5. OnTimeReaders'
  <2>1. Reading(ri[t]) = {}
    <3>1. Cardinality(Reading(ri[t])) = 0
      BY CountsAreReading DEF TypeOK, WaitPrev, NoReaders, PreviousCopy
    <3>2. QED
      BY <3>1, ReadingFinite, FS_EmptySet
  <2>2. \A r \in Threads : pc[r] = "reading" => ri[r] # ri[t]
    BY <2>1 DEF Reading
  <2>3. QED
    BY <2>2 DEF OnTimeReaders, TypeOK, WaitPrev, GoTo, shared
<1>6. QED
  BY <1>1, <1>2, <1>3, <1>4, <1>5

LEMMA UnlockIInv ==
  ASSUME IInv, NEW t \in Threads, Unlock(t)
  PROVE  IInv'
<1> USE DEF IInv
<1>1. TypeOK'
  BY DEF TypeOK, Unlock, GoTo, Copies
<1>2. IndexInv'
  <2>1. \A s \in Threads \ {t} : ~HasMutex(s)
    BY DEF IndexInv, WriterAlone, HasMutex, Unlock
  <2>2. WriterAlone' /\ WriterIndex'
    BY <2>1 DEF TypeOK, WriterAlone, WriterIndex, HasMutex, WillFlip, Unlock, GoTo
  <2>3. IndexParity' /\ ReaderIndex'
    BY DEF IndexInv, IndexParity, ReaderIndex, TypeOK, Unlock, GoTo
  <2>4. QED
    BY <2>2, <2>3 DEF IndexInv
<1>3. CountsMatchGuards'
  BY CountsKept DEF TypeOK, Unlock, GoTo
<1>4. EveryOtherChange' /\ OnTimeReaders'
  BY DEF EveryOtherChange, OnTimeReaders, TypeOK, Unlock, GoTo
<1>5. QED
  BY <1>1, <1>2, <1>3, <1>4

(* Moving a guard, and destroying the one it was moved from, touch nothing *)
(* that the invariant is about.                                            *)
LEMMA GuardsMovedIInv ==
  ASSUME IInv, NEW t \in Threads, MoveGuard(t) \/ DropMoved(t)
  PROVE  IInv'
<1>1. UNCHANGED <<read_idx, rdrs_cnt, data, wr_mut, published, changed, pc, ri,
                  late, floor>>
  BY DEF MoveGuard, DropMoved, HasData, shared
<1>2. moved' \in [Threads -> BOOLEAN]
  BY DEF IInv, TypeOK, MoveGuard, DropMoved
<1>3. TypeOK' /\ IndexInv'
  BY <1>1, <1>2 DEF IInv, TypeOK, IndexInv, WriterAlone, WriterIndex, IndexParity,
     ReaderIndex, HasMutex, WillFlip
<1>4. CountsMatchGuards' /\ EveryOtherChange' /\ OnTimeReaders'
  BY <1>1 DEF IInv, CountsMatchGuards, EveryOtherChange, OnTimeReaders
<1>5. QED
  BY <1>3, <1>4 DEF IInv

LEMMA NextIInv == IInv /\ [Next]_vars => IInv'
<1> SUFFICES ASSUME IInv, [Next]_vars PROVE IInv'
  OBVIOUS
<1>1. CASE UNCHANGED vars
  BY <1>1 DEF vars, shared, IInv, TypeOK, IndexInv, WriterAlone, WriterIndex,
     IndexParity, ReaderIndex, HasMutex, WillFlip, CountsMatchGuards,
     EveryOtherChange, OnTimeReaders
<1>2. ASSUME NEW t \in Threads,
             \/ Read(t) \/ CountIn(t) \/ ReleaseRead(t) \/ Write(t) \/ Modify(t)
             \/ ReleaseWrite(t) \/ MoveGuard(t) \/ DropMoved(t)
      PROVE  IInv'
  BY <1>2, ReadIInv, CountInIInv, ReleaseReadIInv, WriteIInv, ModifyIInv,
     WaitNextIInv, FlipIInv, WaitPrevIInv, UnlockIInv, GuardsMovedIInv
  DEF ReleaseWrite
<1>3. QED
  BY <1>1, <1>2 DEF Next

-----------------------------------------------------------------------------
(* The invariant holds in every state that is reached.                     *)
THEOREM Invariance == Spec => []IInv
<1>1. Init => IInv
  BY InitIInv
<1>2. IInv /\ [Next]_vars => IInv'
  BY NextIInv
<1>3. QED
  BY <1>1, <1>2, PTL DEF Spec

(* Every variable stays in its type; the counters, unsigned in the code,   *)
(* never go below 0.                                                       *)
THEOREM TypeCorrect == Spec => []TypeOK
<1>1. IInv => TypeOK
  BY DEF IInv
<1>2. QED
  BY <1>1, Invariance, PTL

(* Whatever the number of writers that follow each other, a reader that    *)
(* read() counted in before the next flip is not written under.            *)
THEOREM OnTimeReadersAreSafe == Spec => []OnTimeReadersSafe
<1>1. IInv => OnTimeReadersSafe
  <2> SUFFICES ASSUME IInv, NEW r \in Threads, NEW t \in Threads, Overlap(r, t),
                      ~late[r]
               PROVE  FALSE
    BY DEF OnTimeReadersSafe
  <2>1. ri[t] = read_idx /\ read_idx \in Copies /\ wr_mut = t
    BY DEF IInv, TypeOK, IndexInv, WriterAlone, WriterIndex, HasMutex, WillFlip, Overlap
  <2>2. ri[r] # read_idx
    BY <2>1 DEF Overlap, OtherCopy, Copies
  <2>3. PICK s \in Threads : pc[s] = "waitPrev"
    BY <2>2 DEF IInv, OnTimeReaders, Overlap
  <2>4. s = t
    BY <2>1, <2>3 DEF IInv, IndexInv, WriterAlone, HasMutex
  <2>5. QED
    BY <2>3, <2>4 DEF Overlap
<1>2. QED
  BY <1>1, Invariance, PTL

(* A stalled reader sees the change that was published when read() loaded  *)
(* the index, however many writes come before it counts itself in.         *)
THEOREM ReadsAreFresh == Spec => []ReadsFresh
<1>1. IInv => ReadsFresh
  <2> SUFFICES ASSUME IInv, NEW r \in Threads, pc[r] = "reading",
                      floor[r] \in changed
               PROVE  floor[r] \in data[ri[r]]
    BY DEF ReadsFresh
  <2>1. ri[r] = floor[r] % 2 /\ ri[r] \in Copies
    BY DEF IInv, TypeOK, IndexInv, ReaderIndex
  <2>2. data[ri[r]] = {w \in changed : w % 2 = ri[r]}
    BY <2>1 DEF IInv, EveryOtherChange
  <2>3. QED
    BY <2>1, <2>2
<1>2. QED
  BY <1>1, Invariance, PTL

(* Each copy has exactly the changes of every other write guard.           *)
THEOREM CopiesAlternate == Spec => []EveryOtherChange
<1>1. IInv => EveryOtherChange
  BY DEF IInv
<1>2. QED
  BY <1>1, Invariance, PTL

(* rdrs_cnt_ is the number of readers in each copy, however their guards   *)
(* are moved.                                                              *)
THEOREM CountsAreExact == Spec => []CountsMatchGuards
<1>1. IInv => CountsMatchGuards
  BY DEF IInv
<1>2. QED
  BY <1>1, Invariance, PTL
=============================================================================
