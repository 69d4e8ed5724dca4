-------------------------- MODULE AllocationProofs --------------------------
(***************************************************************************)
(* Theorems about the allocator wrappers, for all blocks, resources and    *)
(* owners and any bounds: a block in use has one owner or one running      *)
(* call, every element is constructed and destroyed once, and each         *)
(* resource gets back what it has handed out, whatever constructors throw  *)
(* and however calls run inside one another.                               *)
(***************************************************************************)
EXTENDS Allocation, FiniteSetTheorems, SequenceTheorems, WellFoundedInduction, TLAPS

-----------------------------------------------------------------------------
(* The inductive invariant.                                                *)

Index == 0 .. MaxCount - 1
Call == [op : {"construct", "destroy"}, for : Owners, ptr : Blocks,
         res : Resources, cnt : Counts, todo : Counts, at : Counts,
         from : Owners]
Owned == [ptr : Blocks \cup {Null}, res : Resources \cup {Null}, cnt : Counts]

Typed ==
  /\ storage \in [Blocks -> {Unused} \cup [res : Resources, cnt : Counts]]
  /\ lives \in [Blocks -> [Index -> Int]]
  /\ owner \in [Owners -> Owned]
  /\ calls \in Seq(Call)

(* What the deleter of g would tell the resource is what the resource      *)
(* knows of the block of o.                                                *)
Fits(o, g) == storage[owner[o].ptr] = [res |-> owner[g].res, cnt |-> CountOf(g)]

WorksOn(c) == {c.for, c.from}

(* A running call: its block is in use, as large as the call thinks.  The  *)
(* owner whose deleter is taken over last has no block, and the deleter is *)
(* the one for the block that the other owner has got already.             *)
CallFits(c) ==
  /\ storage[c.ptr] = [res |-> c.res, cnt |-> c.cnt]
  /\ c.at <= c.todo /\ c.todo <= c.cnt
  /\ c.op = "construct" => /\ c.todo = c.cnt /\ c.from = c.for
                           /\ c.for \notin Arrays => c.cnt = 1
  /\ c.for \in Arrays <=> c.from \in Arrays
  /\ owner[c.from].ptr = Null
  /\ owner[c.for].ptr # Null => Fits(c.for, c.from)

CallsFit == \A i \in DOMAIN calls : CallFits(calls[i])

(* Calls inside one another work on different owners.                      *)
CallsApart ==
  \A i, j \in DOMAIN calls :
    i # j => /\ WorksOn(calls[i]) \cap WorksOn(calls[j]) = {}
             /\ calls[i].ptr # calls[j].ptr

Busy(o) == \E i \in DOMAIN calls : o \in WorksOn(calls[i])

(* An owner that no call works on has the deleter for its block.           *)
OwnersFit == \A o \in Owners : owner[o].ptr # Null /\ ~Busy(o) => Fits(o, o)

(* Blocks are not shared, those that somebody has are in use and those in  *)
(* use somebody has.                                                       *)
OwnersApart ==
  \A o \in Owners : owner[o].ptr # Null =>
    /\ storage[owner[o].ptr] # Unused
    /\ \A g \in Owners : owner[g].ptr = owner[o].ptr => g = o
    /\ \A i \in DOMAIN calls : calls[i].ptr # owner[o].ptr

NoLeak ==
  \A b \in Blocks : storage[b] # Unused =>
    \/ \E o \in Owners : owner[o].ptr = b
    \/ \E i \in DOMAIN calls : calls[i].ptr = b

(* Which elements live: none of a free block, all of an owner's, and those *)
(* a call has made or has yet to destroy.                                  *)
CallAlive(c, i) == IF c.op = "construct" THEN i < c.at ELSE c.at <= i /\ i < c.todo

LiveAt(b) ==
  \A i \in Index :
    /\ storage[b] = Unused => lives[b][i] = 0
    /\ \A o \in Owners : owner[o].ptr = b =>
         lives[b][i] = IF i < storage[b].cnt THEN 1 ELSE 0
    /\ \A k \in DOMAIN calls : calls[k].ptr = b =>
         lives[b][i] = IF CallAlive(calls[k], i) THEN 1 ELSE 0

Live == \A b \in Blocks : LiveAt(b)

Structure == CallsFit /\ CallsApart /\ OwnersFit /\ OwnersApart /\ NoLeak
IInv == Typed /\ Structure /\ Live

-----------------------------------------------------------------------------
(* What the properties need of the invariant.                              *)

LEMMA BlocksNotNull == \A b \in Blocks : b # Null
BY NullAssumption

LEMMA UsedBlocks ==
  ASSUME NEW r \in Resources, NEW n
  PROVE  [res |-> r, cnt |-> n] # Unused
<1>1. r # Null
  BY NullAssumption
<1>2. QED
  BY <1>1 DEF Unused

LEMMA CallsUse ==
  ASSUME Typed, CallsFit, NEW i \in DOMAIN calls
  PROVE  calls[i] \in Call /\ storage[calls[i].ptr] # Unused
<1>1. calls[i] \in Call
  BY DEF Typed
<1>2. storage[calls[i].ptr] = [res |-> calls[i].res, cnt |-> calls[i].cnt]
  BY DEF CallsFit, CallFits
<1>3. QED
  BY <1>1, <1>2, UsedBlocks DEF Call

LEMMA OneOwnerHolds == IInv => OneOwner
<1> SUFFICES ASSUME IInv, NEW b \in Blocks
             PROVE  Cardinality({o \in Owners : owner[o].ptr = b})
                      + Cardinality({i \in DOMAIN calls : calls[i].ptr = b})
                    = (IF storage[b] = Unused THEN 0 ELSE 1)
  BY DEF OneOwner
<1> DEFINE O == {o \in Owners : owner[o].ptr = b}
           C == {i \in DOMAIN calls : calls[i].ptr = b}
<1>1. Typed /\ CallsFit /\ CallsApart /\ OwnersApart /\ NoLeak /\ b # Null
  BY BlocksNotNull DEF IInv, Structure
<1>2. CASE storage[b] = Unused
  <2>1. O = {}
    BY <1>1, <1>2 DEF OwnersApart
  <2>2. C = {}
    BY <1>1, <1>2, CallsUse
  <2>3. Cardinality(O) = 0 /\ Cardinality(C) = 0
    BY <2>1, <2>2, FS_EmptySet
  <2>4. QED
    BY <1>2, <2>3
<1>3. CASE storage[b] # Unused /\ \E o \in Owners : owner[o].ptr = b
  <2>1. PICK o \in Owners : owner[o].ptr = b
    BY <1>3
  <2>2. O = {o} /\ C = {}
    BY <1>1, <2>1 DEF OwnersApart
  <2>3. Cardinality(O) = 1 /\ Cardinality(C) = 0
    BY <2>2, FS_EmptySet, FS_Singleton
  <2>4. QED
    BY <1>3, <2>3
<1>4. CASE storage[b] # Unused /\ ~\E o \in Owners : owner[o].ptr = b
  <2>1. PICK i \in DOMAIN calls : calls[i].ptr = b
    BY <1>1, <1>4 DEF NoLeak
  <2>2. O = {} /\ C = {i}
    BY <1>1, <1>4, <2>1 DEF CallsApart
  <2>3. Cardinality(O) = 0 /\ Cardinality(C) = 1
    BY <2>2, FS_EmptySet, FS_Singleton
  <2>4. QED
    BY <1>4, <2>3
<1>5. QED
  BY <1>2, <1>3, <1>4

LEMMA LifetimesHold == IInv => LifetimesRespected
<1> SUFFICES ASSUME IInv, NEW b \in Blocks, NEW i \in Index
             PROVE  lives[b][i] = IF i \in AliveIn(b) THEN 1 ELSE 0
  BY DEF LifetimesRespected, Index
<1>1. /\ Typed /\ CallsFit /\ CallsApart /\ OwnersApart /\ NoLeak /\ Live
      /\ b # Null
  BY BlocksNotNull DEF IInv, Structure
<1>2. i \in AliveIn(b) <=>
        \/ \E o \in Owners : owner[o].ptr = b /\ i < storage[b].cnt
        \/ \E k \in DOMAIN calls : calls[k].ptr = b /\ CallAlive(calls[k], i)
  <2>1. ASSUME NEW k \in DOMAIN calls
        PROVE  CallAlive(calls[k], i) <=>
                 IF calls[k].op = "construct" THEN i < calls[k].at
                 ELSE i \in calls[k].at .. calls[k].todo - 1
    <3>1. calls[k].at \in Nat /\ calls[k].todo \in Nat /\ i \in Nat
      BY <1>1, CallsUse, MaxCountAssumption DEF Call, Counts, Index
    <3>2. QED
      BY <3>1 DEF CallAlive
  <2>2. QED
    BY <2>1 DEF AliveIn, Index
<1>3. CASE storage[b] = Unused
  <2>1. ~\E o \in Owners : owner[o].ptr = b
    BY <1>1, <1>3 DEF OwnersApart
  <2>2. ~\E k \in DOMAIN calls : calls[k].ptr = b
    BY <1>1, <1>3, CallsUse
  <2>3. QED
    BY <1>1, <1>2, <1>3, <2>1, <2>2 DEF Live, LiveAt
<1>4. CASE \E o \in Owners : owner[o].ptr = b
  <2>1. PICK o \in Owners : owner[o].ptr = b
    BY <1>4
  <2>2. ~\E k \in DOMAIN calls : calls[k].ptr = b
    BY <1>1, <2>1 DEF OwnersApart
  <2>3. QED
    BY <1>1, <1>2, <2>1, <2>2 DEF Live, LiveAt
<1>5. CASE (~\E o \in Owners : owner[o].ptr = b) /\ \E k \in DOMAIN calls : calls[k].ptr = b
  <2>1. PICK k \in DOMAIN calls : calls[k].ptr = b
    BY <1>5
  <2>2. \A l \in DOMAIN calls : calls[l].ptr = b => l = k
    BY <1>1, <2>1 DEF CallsApart
  <2>3. QED
    BY <1>1, <1>2, <1>5, <2>1, <2>2 DEF Live, LiveAt
<1>6. QED
  BY <1>1, <1>3, <1>4, <1>5 DEF NoLeak

-----------------------------------------------------------------------------
(* The stack of calls.                                                     *)

LEMMA Pushed ==
  ASSUME NEW S, NEW s \in Seq(S), NEW c \in S, NEW t, t = <<c>> \o s
  PROVE  /\ t \in Seq(S)
         /\ 1 \in DOMAIN t /\ t[1] = c
         /\ \A i \in DOMAIN s : i \in Nat \ {0} /\ i + 1 \in DOMAIN t /\ t[i + 1] = s[i]
         /\ \A i \in DOMAIN t : i # 1 => i - 1 \in DOMAIN s /\ t[i] = s[i - 1] /\ i \in Nat
<1>1. <<c>> \in Seq(S) /\ Len(<<c>>) = 1 /\ <<c>>[1] = c
  OBVIOUS
<1>2. /\ t \in Seq(S) /\ Len(t) = 1 + Len(s)
      /\ \A i \in 1 .. 1 + Len(s) : t[i] = IF i <= 1 THEN <<c>>[i] ELSE s[i - 1]
  BY <1>1, ConcatProperties
<1>3. Len(s) \in Nat /\ DOMAIN s = 1 .. Len(s) /\ DOMAIN t = 1 .. Len(s) + 1
  BY <1>2
<1>4. QED
  BY <1>1, <1>2, <1>3

LEMMA Popped ==
  ASSUME NEW S, NEW s \in Seq(S), s # <<>>, NEW t, t = Tail(s)
  PROVE  /\ t \in Seq(S)
         /\ 1 \in DOMAIN s /\ s[1] \in S
         /\ \A i \in DOMAIN t : i \in Nat \ {0} /\ i + 1 \in DOMAIN s /\ t[i] = s[i + 1]
         /\ \A i \in DOMAIN s : i # 1 => i - 1 \in DOMAIN t /\ s[i] = t[i - 1] /\ i \in Nat
<1>1. /\ t \in Seq(S) /\ Len(t) = Len(s) - 1
      /\ \A i \in 1 .. Len(t) : t[i] = s[i + 1]
      /\ s[1] \in S
  BY HeadTailProperties
<1>2. Len(s) \in Nat /\ Len(s) >= 1 /\ DOMAIN s = 1 .. Len(s) /\ DOMAIN t = 1 .. Len(s) - 1
  BY <1>1, EmptySeq
<1>3. QED
  BY <1>1, <1>2

LEMMA Replaced ==
  ASSUME NEW S, NEW s \in Seq(S), s # <<>>, NEW c \in S, NEW t, t = <<c>> \o Tail(s)
  PROVE  /\ t \in Seq(S)
         /\ DOMAIN t = DOMAIN s /\ 1 \in DOMAIN s /\ t[1] = c
         /\ \A i \in DOMAIN s : i # 1 => t[i] = s[i]
<1> DEFINE r == Tail(s)
<1>1. /\ r \in Seq(S) /\ 1 \in DOMAIN s
      /\ \A i \in DOMAIN r : i \in Nat \ {0} /\ i + 1 \in DOMAIN s /\ r[i] = s[i + 1]
      /\ \A i \in DOMAIN s : i # 1 => i - 1 \in DOMAIN r /\ s[i] = r[i - 1] /\ i \in Nat
  BY Popped
<1> HIDE DEF r
<1>2. /\ t \in Seq(S)
      /\ 1 \in DOMAIN t /\ t[1] = c
      /\ \A i \in DOMAIN r : i \in Nat \ {0} /\ i + 1 \in DOMAIN t /\ t[i + 1] = r[i]
      /\ \A i \in DOMAIN t : i # 1 => i - 1 \in DOMAIN r /\ t[i] = r[i - 1] /\ i \in Nat
  BY <1>1, Pushed DEF r
<1>3. \A i \in DOMAIN s : i # 1 => i \in DOMAIN t /\ t[i] = s[i]
  <2> SUFFICES ASSUME NEW i \in DOMAIN s, i # 1 PROVE i \in DOMAIN t /\ t[i] = s[i]
    OBVIOUS
  <2>1. i - 1 \in DOMAIN r /\ s[i] = r[i - 1] /\ i \in Nat
    BY <1>1
  <2>2. (i - 1) + 1 = i
    BY <2>1
  <2>3. QED
    BY <1>2, <2>1, <2>2
<1>4. \A i \in DOMAIN t : i \in DOMAIN s
  <2> SUFFICES ASSUME NEW i \in DOMAIN t, i # 1 PROVE i \in DOMAIN s
    BY <1>1
  <2>1. i - 1 \in DOMAIN r /\ i \in Nat
    BY <1>2
  <2>2. (i - 1) + 1 = i
    BY <2>1
  <2>3. QED
    BY <1>1, <2>1, <2>2
<1>5. QED
  BY <1>1, <1>2, <1>3, <1>4

-----------------------------------------------------------------------------
(* What a step that changes the stack, and the owners that its call works  *)
(* on, leaves alone.                                                       *)

LEMMA CallFitsKept ==
  ASSUME NEW c, CallFits(c),
         owner'[c.for] = owner[c.for], owner'[c.from] = owner[c.from],
         storage'[c.ptr] = storage[c.ptr],
         owner[c.for].ptr # Null =>
           storage'[owner[c.for].ptr] = storage[owner[c.for].ptr]
  PROVE  CallFits(c)'
BY DEF CallFits, Fits, CountOf

LEMMA PushKeeps ==
  ASSUME Typed, Structure, NEW c \in Call, calls' = <<c>> \o calls,
         \A o \in WorksOn(c) : ~Busy(o),
         \A o \in Owners : o \notin WorksOn(c) => owner'[o] = owner[o],
         \A b \in Blocks : storage[b] # Unused => storage'[b] = storage[b],
         \A i \in DOMAIN calls : calls[i].ptr # c.ptr,
         CallFits(c)'
  PROVE  /\ calls' \in Seq(Call) /\ CallsFit' /\ CallsApart' /\ OwnersFit'
         /\ \A i \in DOMAIN calls' :
              calls'[i] = c \/ \E j \in DOMAIN calls : calls'[i] = calls[j]
         /\ \A j \in DOMAIN calls : \E i \in DOMAIN calls' : calls'[i] = calls[j]
         /\ \E i \in DOMAIN calls' : calls'[i] = c
<1> DEFINE t == calls'
<1>1. calls \in Seq(Call) /\ CallsFit /\ CallsApart /\ OwnersFit /\ OwnersApart
  BY DEF Typed, Structure
<1>2. /\ t \in Seq(Call) /\ 1 \in DOMAIN t /\ t[1] = c
      /\ \A i \in DOMAIN calls : i \in Nat \ {0} /\ i + 1 \in DOMAIN t /\ t[i + 1] = calls[i]
      /\ \A i \in DOMAIN t : i # 1 => i - 1 \in DOMAIN calls /\ t[i] = calls[i - 1]
                                      /\ i \in Nat
  BY <1>1, Pushed
<1>3. ASSUME NEW i \in DOMAIN calls
      PROVE  /\ calls[i] \in Call /\ CallFits(calls[i])
             /\ calls[i].for # c.for /\ calls[i].for # c.from
             /\ calls[i].from # c.for /\ calls[i].from # c.from
             /\ calls[i].ptr # c.ptr
  BY <1>1 DEF CallsFit, Busy, WorksOn
<1>4. ASSUME NEW i \in DOMAIN calls, NEW d, d = calls[i]
      PROVE  CallFits(d)'
  <2>1. /\ d \in Call /\ CallFits(d) /\ d.for \in Owners /\ d.from \in Owners
        /\ d.for \notin WorksOn(c) /\ d.from \notin WorksOn(c)
    BY <1>3, <1>4 DEF Call, WorksOn
  <2>2. owner'[d.for] = owner[d.for] /\ owner'[d.from] = owner[d.from]
    BY <2>1
  <2>3. d.ptr \in Blocks /\ storage'[d.ptr] = storage[d.ptr]
    BY <1>1, <1>4, <2>1, CallsUse DEF Call
  <2>4. owner[d.for].ptr # Null => storage'[owner[d.for].ptr] = storage[owner[d.for].ptr]
    BY <1>1, <2>1 DEF OwnersApart, Typed, Owned
  <2>5. QED
    BY <2>1, <2>2, <2>3, <2>4, CallFitsKept
<1>5. CallsFit'
  <2> SUFFICES ASSUME NEW i \in DOMAIN t, NEW d, d = t[i] PROVE CallFits(d)'
    BY DEF CallsFit, CallFits
  <2>1. CASE i = 1
    <3>1. d = c
      BY <1>2, <2>1
    <3>2. QED
      BY <3>1 DEF CallFits
  <2>2. CASE i # 1
    <3>1. i - 1 \in DOMAIN calls /\ d = calls[i - 1]
      BY <1>2, <2>2
    <3>2. QED
      BY <1>4, <3>1
  <2>3. QED
    BY <2>1, <2>2
<1>6. CallsApart'
  <2> SUFFICES ASSUME NEW i \in DOMAIN t, NEW j \in DOMAIN t, i # j
               PROVE  WorksOn(t[i]) \cap WorksOn(t[j]) = {} /\ t[i].ptr # t[j].ptr
    BY DEF CallsApart, WorksOn
  <2>1. CASE i = 1
    <3>1. t[i] = c /\ j - 1 \in DOMAIN calls /\ t[j] = calls[j - 1]
      BY <1>2, <2>1
    <3>2. QED
      BY <1>3, <3>1 DEF WorksOn
  <2>2. CASE j = 1
    <3>1. t[j] = c /\ i - 1 \in DOMAIN calls /\ t[i] = calls[i - 1]
      BY <1>2, <2>2
    <3>2. QED
      BY <1>3, <3>1 DEF WorksOn
  <2>3. CASE i # 1 /\ j # 1
    <3>1. /\ i - 1 \in DOMAIN calls /\ t[i] = calls[i - 1]
          /\ j - 1 \in DOMAIN calls /\ t[j] = calls[j - 1]
          /\ i - 1 # j - 1
      BY <1>2, <2>3
    <3>2. QED
      BY <1>1, <3>1 DEF CallsApart
  <2>4. QED
    BY <2>1, <2>2, <2>3
<1>7. /\ \A i \in DOMAIN t : t[i] = c \/ \E j \in DOMAIN calls : t[i] = calls[j]
      /\ \A j \in DOMAIN calls : \E i \in DOMAIN t : t[i] = calls[j]
      /\ \E i \in DOMAIN t : t[i] = c
  BY <1>2
<1>8. OwnersFit'
  <2> SUFFICES ASSUME NEW o \in Owners, owner'[o].ptr # Null, ~Busy(o)'
               PROVE  Fits(o, o)'
    BY DEF OwnersFit
  <2>1. o \notin WorksOn(c) /\ ~Busy(o)
    BY <1>7 DEF Busy, WorksOn
  <2>2. owner'[o] = owner[o] /\ Fits(o, o)
    BY <1>1, <2>1 DEF OwnersFit
  <2>3. storage'[owner[o].ptr] = storage[owner[o].ptr]
    BY <1>1, <2>2 DEF OwnersApart, Typed, Owned
  <2>4. QED
    BY <2>2, <2>3 DEF Fits, CountOf
<1>9. QED
  BY <1>2, <1>5, <1>6, <1>7, <1>8

LEMMA ReplaceKeeps ==
  ASSUME Typed, Structure, calls # <<>>, NEW c \in Call,
         calls' = <<c>> \o Tail(calls),
         UNCHANGED <<storage, owner>>,
         c.for = calls[1].for, c.from = calls[1].from, c.ptr = calls[1].ptr,
         c.res = calls[1].res, c.cnt = calls[1].cnt,
         c.at <= c.todo, c.todo <= c.cnt,
         c.op = "construct" => calls[1].op = "construct" /\ c.todo = c.cnt
  PROVE  /\ calls' \in Seq(Call) /\ Structure'
         /\ DOMAIN calls' = DOMAIN calls /\ 1 \in DOMAIN calls /\ calls'[1] = c
         /\ \A i \in DOMAIN calls : i # 1 => calls'[i] = calls[i]
<1> DEFINE t == calls'
<1>1. calls \in Seq(Call) /\ CallsFit /\ CallsApart /\ OwnersFit /\ OwnersApart /\ NoLeak
  BY DEF Typed, Structure
<1>2. /\ t \in Seq(Call)
      /\ DOMAIN t = DOMAIN calls /\ 1 \in DOMAIN calls /\ t[1] = c
      /\ \A i \in DOMAIN calls : i # 1 => t[i] = calls[i]
  <2> DEFINE s == calls
  <2>1. s \in Seq(Call) /\ s # <<>> /\ t = <<c>> \o Tail(s)
    BY <1>1
  <2> HIDE DEF s, t
  <2>2. /\ t \in Seq(Call)
        /\ DOMAIN t = DOMAIN s /\ 1 \in DOMAIN s /\ t[1] = c
        /\ \A i \in DOMAIN s : i # 1 => t[i] = s[i]
    BY <2>1, Replaced
  <2>3. QED
    BY <2>2 DEF s
<1>3. \A i \in DOMAIN t : /\ WorksOn(t[i]) = WorksOn(calls[i])
                          /\ t[i].ptr = calls[i].ptr
  BY <1>2 DEF WorksOn
<1>4. CallsFit'
  <2> SUFFICES ASSUME NEW i \in DOMAIN t, NEW d, d = t[i] PROVE CallFits(d)'
    BY DEF CallsFit, CallFits
  <2>1. CallFits(calls[i])
    BY <1>1, <1>2 DEF CallsFit
  <2>2. CASE i = 1
    <3>1. d = c
      BY <1>2, <2>2
    <3>2. CallFits(calls[1])
      BY <2>1, <2>2
    <3>3. QED
      BY <3>1, <3>2 DEF CallFits, Fits, CountOf
  <2>3. CASE i # 1
    <3>1. d = calls[i]
      BY <1>2, <2>3
    <3>2. QED
      BY <2>1, <3>1, CallFitsKept
  <2>4. QED
    BY <2>2, <2>3
<1>5. CallsApart'
  <2> SUFFICES ASSUME NEW i \in DOMAIN t, NEW j \in DOMAIN t, i # j
               PROVE  WorksOn(t[i]) \cap WorksOn(t[j]) = {} /\ t[i].ptr # t[j].ptr
    BY DEF CallsApart, WorksOn
  <2>1. QED
    BY <1>1, <1>2, <1>3 DEF CallsApart
<1>6. OwnersFit'
  <2> SUFFICES ASSUME NEW o \in Owners, owner'[o].ptr # Null, ~Busy(o)'
               PROVE  Fits(o, o)'
    BY DEF OwnersFit
  <2>1. ~Busy(o)
    BY <1>2, <1>3 DEF Busy, WorksOn
  <2>2. QED
    BY <1>1, <2>1 DEF OwnersFit, Fits, CountOf
<1>7. OwnersApart' /\ NoLeak'
  <2>1. DOMAIN t = DOMAIN calls /\ \A i \in DOMAIN calls : t[i].ptr = calls[i].ptr
    BY <1>2, <1>3
  <2> HIDE DEF t
  <2>2. OwnersApart'
    BY <1>1, <2>1 DEF OwnersApart, t
  <2>3. NoLeak'
    <3> SUFFICES ASSUME NEW b \in Blocks, storage[b] # Unused,
                        ~\E o \in Owners : owner[o].ptr = b
                 PROVE  \E i \in DOMAIN t : t[i].ptr = b
      BY DEF NoLeak, t
    <3>1. PICK i \in DOMAIN calls : calls[i].ptr = b
      BY <1>1 DEF NoLeak
    <3>2. QED
      BY <2>1, <3>1
  <2>4. QED
    BY <2>2, <2>3
<1>8. QED
  BY <1>2, <1>4, <1>5, <1>6, <1>7 DEF Structure

LEMMA PopKeeps ==
  ASSUME Typed, Structure, calls # <<>>, calls' = Tail(calls),
         NEW h, h = calls[1],
         \A o \in Owners : o # h.for => owner'[o] = owner[o],
         \A b \in Blocks : b # h.ptr => storage'[b] = storage[b],
         owner'[h.for].ptr # Null => Fits(h.for, h.for)'
  PROVE  /\ calls' \in Seq(Call) /\ CallsFit' /\ CallsApart' /\ OwnersFit'
         /\ \A i \in DOMAIN calls' :
              /\ calls'[i].ptr # h.ptr
              /\ \E j \in DOMAIN calls : calls'[i] = calls[j]
         /\ \A j \in DOMAIN calls :
              calls[j] = h \/ \E i \in DOMAIN calls' : calls'[i] = calls[j]
<1> DEFINE t == calls'
<1>1. calls \in Seq(Call) /\ CallsFit /\ CallsApart /\ OwnersFit /\ OwnersApart
  BY DEF Typed, Structure
<1>2. /\ t \in Seq(Call) /\ 1 \in DOMAIN calls /\ h \in Call
      /\ \A i \in DOMAIN t : i \in Nat \ {0} /\ i + 1 \in DOMAIN calls /\ t[i] = calls[i + 1]
      /\ \A i \in DOMAIN calls : i # 1 => i - 1 \in DOMAIN t /\ calls[i] = t[i - 1]
  BY <1>1, Popped
<1>3. CallFits(h)
  BY <1>1, <1>2 DEF CallsFit
<1>4. ASSUME NEW i \in DOMAIN calls, i # 1
      PROVE  /\ calls[i].for # h.for /\ calls[i].from # h.for
             /\ calls[i].ptr # h.ptr
  <2>1. /\ WorksOn(calls[i]) \cap WorksOn(calls[1]) = {}
        /\ calls[i].ptr # calls[1].ptr
    BY <1>1, <1>2, <1>4 DEF CallsApart
  <2>2. QED
    BY <2>1 DEF WorksOn
<1>5. /\ \A i \in DOMAIN t :
           t[i].ptr # h.ptr /\ \E j \in DOMAIN calls : j # 1 /\ t[i] = calls[j]
      /\ \A j \in DOMAIN calls : j = 1 \/ \E i \in DOMAIN t : t[i] = calls[j]
  <2>1. ASSUME NEW i \in DOMAIN t
        PROVE  t[i].ptr # h.ptr /\ \E j \in DOMAIN calls : j # 1 /\ t[i] = calls[j]
    <3>1. i + 1 \in DOMAIN calls /\ i + 1 # 1 /\ t[i] = calls[i + 1]
      BY <1>2
    <3>2. QED
      BY <1>4, <3>1
  <2>2. QED
    BY <1>2, <2>1
<1>6. CallsFit'
  <2> SUFFICES ASSUME NEW i \in DOMAIN t, NEW d, d = t[i] PROVE CallFits(d)'
    BY DEF CallsFit, CallFits
  <2>1. PICK j \in DOMAIN calls : j # 1 /\ d = calls[j]
    BY <1>5
  <2>2. /\ d \in Call /\ CallFits(d) /\ d.ptr # h.ptr
        /\ d.for # h.for /\ d.from # h.for
    BY <1>1, <1>4, <2>1 DEF CallsFit
  <2>3. owner'[d.for] = owner[d.for] /\ owner'[d.from] = owner[d.from]
    BY <2>2 DEF Call
  <2>4. storage'[d.ptr] = storage[d.ptr]
    BY <2>2 DEF Call
  <2>5. owner[d.for].ptr # Null => storage'[owner[d.for].ptr] = storage[owner[d.for].ptr]
    BY <1>1, <1>2, <2>2 DEF OwnersApart, Typed, Owned, Call
  <2>6. QED
    BY <2>2, <2>3, <2>4, <2>5, CallFitsKept
<1>7. CallsApart'
  <2> SUFFICES ASSUME NEW i \in DOMAIN t, NEW j \in DOMAIN t, i # j
               PROVE  WorksOn(t[i]) \cap WorksOn(t[j]) = {} /\ t[i].ptr # t[j].ptr
    BY DEF CallsApart, WorksOn
  <2>1. /\ i + 1 \in DOMAIN calls /\ t[i] = calls[i + 1]
        /\ j + 1 \in DOMAIN calls /\ t[j] = calls[j + 1]
        /\ i + 1 # j + 1
    BY <1>2
  <2>2. QED
    BY <1>1, <2>1 DEF CallsApart
<1>8. OwnersFit'
  <2> SUFFICES ASSUME NEW o \in Owners, owner'[o].ptr # Null, ~Busy(o)'
               PROVE  Fits(o, o)'
    BY DEF OwnersFit
  <2>1. CASE o = h.for
    BY <2>1
  <2>2. CASE o # h.for
    <3>1. owner'[o] = owner[o] /\ o # h.from
      BY <1>3, <2>2 DEF CallFits
    <3>2. ~Busy(o)
      <4> SUFFICES ASSUME NEW i \in DOMAIN calls, o \in WorksOn(calls[i]) PROVE FALSE
        BY DEF Busy
      <4>1. i # 1
        BY <2>2, <3>1 DEF WorksOn
      <4>2. PICK j \in DOMAIN t : t[j] = calls[i]
        BY <1>5, <4>1
      <4>3. QED
        BY <4>2 DEF Busy, WorksOn
    <3>3. Fits(o, o)
      BY <1>1, <3>1, <3>2 DEF OwnersFit
    <3>4. storage'[owner[o].ptr] = storage[owner[o].ptr]
      <4>1. owner[o].ptr \in Blocks
        BY <3>1 DEF Typed, Owned
      <4>2. owner[o].ptr # h.ptr
        BY <1>1, <1>2, <3>1 DEF OwnersApart
      <4>3. QED
        BY <4>1, <4>2
    <3>5. QED
      BY <3>1, <3>3, <3>4 DEF Fits, CountOf
  <2>3. QED
    BY <2>1, <2>2
<1>9. /\ \A i \in DOMAIN t : t[i].ptr # h.ptr /\ \E j \in DOMAIN calls : t[i] = calls[j]
      /\ \A j \in DOMAIN calls : calls[j] = h \/ \E i \in DOMAIN t : t[i] = calls[j]
  BY <1>5
<1>10. t \in Seq(Call)
  BY <1>2
<1>11. QED
  BY <1>6, <1>7, <1>8, <1>9, <1>10

(* A step that is about one block changes nothing in the others.           *)
LEMMA LiveElsewhere ==
  ASSUME Live, NEW p \in Blocks,
         \A b \in Blocks : b # p => storage'[b] = storage[b] /\ lives'[b] = lives[b],
         \A o \in Owners : owner'[o].ptr \in Blocks \ {p} =>
           \E g \in Owners : owner[g].ptr = owner'[o].ptr,
         \A i \in DOMAIN calls' : calls'[i].ptr # p =>
           \E j \in DOMAIN calls : calls'[i] = calls[j],
         LiveAt(p)'
  PROVE  Live'
<1> SUFFICES ASSUME NEW b \in Blocks, b # p PROVE LiveAt(b)'
  BY DEF Live, LiveAt, CallAlive
<1> SUFFICES ASSUME NEW i \in Index
    PROVE  /\ storage'[b] = Unused => lives'[b][i] = 0
           /\ \A o \in Owners : owner'[o].ptr = b =>
                lives'[b][i] = IF i < storage'[b].cnt THEN 1 ELSE 0
           /\ \A k \in DOMAIN calls' : calls'[k].ptr = b =>
                lives'[b][i] = IF CallAlive(calls'[k], i) THEN 1 ELSE 0
  BY DEF LiveAt, CallAlive
<1>1. /\ storage[b] = Unused => lives[b][i] = 0
      /\ \A o \in Owners : owner[o].ptr = b =>
           lives[b][i] = IF i < storage[b].cnt THEN 1 ELSE 0
      /\ \A k \in DOMAIN calls : calls[k].ptr = b =>
           lives[b][i] = IF CallAlive(calls[k], i) THEN 1 ELSE 0
  BY DEF Live, LiveAt
<1>2. storage'[b] = storage[b] /\ lives'[b] = lives[b]
  OBVIOUS
<1>3. ASSUME NEW o \in Owners, owner'[o].ptr = b
      PROVE  lives'[b][i] = IF i < storage'[b].cnt THEN 1 ELSE 0
  <2>1. PICK g \in Owners : owner[g].ptr = b
    BY <1>3
  <2>2. QED
    BY <1>1, <1>2, <2>1
<1>4. ASSUME NEW k \in DOMAIN calls', calls'[k].ptr = b
      PROVE  lives'[b][i] = IF CallAlive(calls'[k], i) THEN 1 ELSE 0
  <2>1. PICK j \in DOMAIN calls : calls'[k] = calls[j]
    BY <1>4
  <2>2. QED
    BY <1>1, <1>2, <1>4, <2>1
<1>5. QED
  BY <1>1, <1>2, <1>3, <1>4

-----------------------------------------------------------------------------
(* Each action keeps the invariant.                                        *)

LEMMA InitIInv == AllocInit => IInv
<1> SUFFICES ASSUME AllocInit PROVE IInv
  OBVIOUS
<1>1. 0 \in Counts
  BY MaxCountAssumption DEF Counts
<1>2. Typed
  BY <1>1 DEF AllocInit, Typed, Owned, Index, Call
<1>3. calls = <<>> /\ DOMAIN calls = {}
  BY DEF AllocInit
<1>4. \A o \in Owners : owner[o].ptr = Null
  BY DEF AllocInit
<1>5. \A b \in Blocks : storage[b] = Unused /\ \A i \in Index : lives[b][i] = 0
  BY DEF AllocInit, Index
<1>6. Structure
  BY <1>3, <1>4, <1>5 DEF Structure, CallsFit, CallsApart, OwnersFit, OwnersApart, NoLeak
<1>7. Live
  BY <1>3, <1>4, <1>5, BlocksNotNull DEF Live, LiveAt
<1>8. QED
  BY <1>2, <1>6, <1>7 DEF IInv

LEMMA NewIInv ==
  ASSUME IInv, NEW o \in Owners, NEW r \in Resources, NEW n \in Counts,
         New(o, r, n), o \notin Arrays => n = 1
  PROVE  IInv'
<1>1. /\ Typed /\ Structure /\ Live
      /\ CallsFit /\ OwnersApart /\ NoLeak
  BY DEF IInv, Structure
<1>2. PICK b \in Blocks :
        /\ storage[b] = Unused
        /\ storage' = [storage EXCEPT ![b] = [res |-> r, cnt |-> n]]
        /\ calls' = <<[op |-> "construct", for |-> o, ptr |-> b, res |-> r,
                       cnt |-> n, todo |-> n, at |-> 0, from |-> o]>> \o calls
  BY DEF New, Allocate
<1>3. ~Busy(o) /\ owner[o].ptr = Null /\ lives' = lives /\ owner' = owner
  BY DEF New, MayCall, Busy, WorksOn
<1> DEFINE c == [op |-> "construct", for |-> o, ptr |-> b, res |-> r,
                 cnt |-> n, todo |-> n, at |-> 0, from |-> o]
<1>4. /\ c \in Call /\ c.op = "construct" /\ c.for = o /\ c.from = o /\ c.ptr = b
      /\ c.res = r /\ c.cnt = n /\ c.todo = n /\ c.at = 0
      /\ calls' = <<c>> \o calls
  BY <1>2, MaxCountAssumption DEF Call, Counts
<1> HIDE DEF c
<1>5. /\ storage' \in [Blocks -> {Unused} \cup [res : Resources, cnt : Counts]]
      /\ storage'[b] = [res |-> r, cnt |-> n]
      /\ \A a \in Blocks : a # b => storage'[a] = storage[a]
  BY <1>1, <1>2 DEF Typed
<1>6. CallFits(c)'
  <2>1. n \in Nat
    BY MaxCountAssumption DEF Counts
  <2>2. QED
    BY <1>3, <1>4, <1>5, <2>1 DEF CallFits
<1>7. \A i \in DOMAIN calls : calls[i].ptr # b
  BY <1>1, <1>2, CallsUse
<1>8. /\ calls' \in Seq(Call) /\ CallsFit' /\ CallsApart' /\ OwnersFit'
      /\ \A i \in DOMAIN calls' :
           calls'[i] = c \/ \E j \in DOMAIN calls : calls'[i] = calls[j]
      /\ \A j \in DOMAIN calls : \E i \in DOMAIN calls' : calls'[i] = calls[j]
      /\ \E i \in DOMAIN calls' : calls'[i] = c
  <2>1. \A w \in WorksOn(c) : ~Busy(w)
    BY <1>3, <1>4 DEF WorksOn
  <2>2. /\ \A a \in Blocks : storage[a] # Unused => storage'[a] = storage[a]
        /\ \A g \in Owners : g \notin WorksOn(c) => owner'[g] = owner[g]
        /\ \A i \in DOMAIN calls : calls[i].ptr # c.ptr
    BY <1>2, <1>3, <1>4, <1>5, <1>7
  <2>3. QED
    BY <1>1, <1>4, <1>6, <2>1, <2>2, PushKeeps
<1>9. Typed'
  BY <1>1, <1>3, <1>5, <1>8 DEF Typed
<1>10. \A g \in Owners : owner[g].ptr # b
  BY <1>1, <1>2, BlocksNotNull DEF OwnersApart
<1>11. OwnersApart'
  <2> SUFFICES ASSUME NEW g \in Owners, owner[g].ptr # Null
               PROVE  /\ storage'[owner[g].ptr] # Unused
                      /\ \A h \in Owners : owner[h].ptr = owner[g].ptr => h = g
                      /\ \A i \in DOMAIN calls' : calls'[i].ptr # owner[g].ptr
    BY <1>3 DEF OwnersApart
  <2>1. owner[g].ptr \in Blocks /\ owner[g].ptr # b
    BY <1>1, <1>10 DEF Typed, Owned
  <2>2. /\ storage[owner[g].ptr] # Unused
        /\ \A h \in Owners : owner[h].ptr = owner[g].ptr => h = g
        /\ \A i \in DOMAIN calls : calls[i].ptr # owner[g].ptr
    BY <1>1 DEF OwnersApart
  <2>3. \A i \in DOMAIN calls' : calls'[i].ptr # owner[g].ptr
    BY <1>4, <1>8, <2>1, <2>2
  <2>4. storage'[owner[g].ptr] # Unused
    BY <1>5, <2>1, <2>2
  <2>5. QED
    BY <2>2, <2>3, <2>4
<1>12. NoLeak'
  <2> SUFFICES ASSUME NEW a \in Blocks, storage'[a] # Unused,
                      ~\E g \in Owners : owner[g].ptr = a
               PROVE  \E i \in DOMAIN calls' : calls'[i].ptr = a
    BY <1>3 DEF NoLeak
  <2>1. CASE a = b
    BY <1>4, <1>8, <2>1
  <2>2. CASE a # b
    <3>1. PICK j \in DOMAIN calls : calls[j].ptr = a
      BY <1>1, <1>5, <2>2 DEF NoLeak
    <3>2. QED
      BY <1>8, <3>1
  <2>3. QED
    BY <2>1, <2>2
<1>13. LiveAt(b)'
  <2> SUFFICES ASSUME NEW i \in Index
      PROVE  /\ storage'[b] = Unused => lives[b][i] = 0
             /\ \A g \in Owners : owner[g].ptr = b =>
                  lives[b][i] = IF i < storage'[b].cnt THEN 1 ELSE 0
             /\ \A k \in DOMAIN calls' : calls'[k].ptr = b =>
                  lives[b][i] = IF CallAlive(calls'[k], i) THEN 1 ELSE 0
    BY <1>3 DEF LiveAt, CallAlive
  <2>1. lives[b][i] = 0
    BY <1>1, <1>2 DEF Live, LiveAt
  <2>2. ~CallAlive(c, i)
    BY <1>4, MaxCountAssumption DEF CallAlive, Index
  <2>3. \A k \in DOMAIN calls' : calls'[k].ptr = b => calls'[k] = c
    BY <1>7, <1>8
  <2>4. QED
    BY <1>10, <2>1, <2>2, <2>3
<1>14. Live'
  BY <1>1, <1>3, <1>4, <1>5, <1>8, <1>13, LiveElsewhere
<1>15. QED
  BY <1>8, <1>9, <1>11, <1>12, <1>14 DEF IInv, Structure

LEMMA RunningCall ==
  ASSUME Typed, Structure, calls # <<>>
  PROVE  /\ Running = calls[1] /\ 1 \in DOMAIN calls
         /\ Running \in Call /\ CallFits(Running)
         /\ Running.at \in Nat /\ Running.todo \in Nat /\ Running.cnt \in 0 .. MaxCount
         /\ storage[Running.ptr] # Unused
         /\ \A o \in Owners : owner[o].ptr # Running.ptr
<1>1. calls \in Seq(Call) /\ CallsFit /\ OwnersApart
  BY DEF Typed, Structure
<1>2. Running = calls[1] /\ 1 \in DOMAIN calls
  BY <1>1, EmptySeq DEF Running
<1>3. Running \in Call /\ CallFits(Running) /\ storage[Running.ptr] # Unused
  BY <1>1, <1>2, CallsUse DEF CallsFit
<1>4. \A o \in Owners : owner[o].ptr # Running.ptr
  BY <1>1, <1>2, <1>3, BlocksNotNull DEF OwnersApart, Call
<1>5. QED
  BY <1>2, <1>3, <1>4, MaxCountAssumption DEF Call, Counts

(* The running call goes on; its elements live as it says.                 *)
LEMMA ReplaceIInv ==
  ASSUME IInv, calls # <<>>, NEW c \in Call,
         calls' = <<c>> \o Tail(calls),
         UNCHANGED <<storage, owner>>,
         c.for = Running.for, c.from = Running.from, c.ptr = Running.ptr,
         c.res = Running.res, c.cnt = Running.cnt,
         c.at <= c.todo, c.todo <= c.cnt,
         c.op = "construct" => Running.op = "construct" /\ c.todo = c.cnt,
         lives' \in [Blocks -> [Index -> Int]],
         \A b \in Blocks : b # c.ptr => lives'[b] = lives[b],
         \A i \in Index : lives'[c.ptr][i] = IF CallAlive(c, i) THEN 1 ELSE 0
  PROVE  IInv'
<1>1. Typed /\ Structure /\ Live /\ CallsApart
  BY DEF IInv, Structure
<1>2. /\ Running = calls[1] /\ 1 \in DOMAIN calls /\ Running.ptr \in Blocks
      /\ storage[Running.ptr] # Unused
      /\ \A o \in Owners : owner[o].ptr # Running.ptr
  BY <1>1, RunningCall DEF Call
<1>3. /\ calls' \in Seq(Call) /\ Structure'
      /\ DOMAIN calls' = DOMAIN calls /\ calls'[1] = c
      /\ \A i \in DOMAIN calls : i # 1 => calls'[i] = calls[i]
  BY <1>1, <1>2, ReplaceKeeps
<1>4. Typed'
  BY <1>1, <1>3 DEF Typed
<1>5. \A k \in DOMAIN calls' : calls'[k].ptr = c.ptr => calls'[k] = c
  BY <1>1, <1>2, <1>3 DEF CallsApart
<1>6. LiveAt(c.ptr)'
  <2> DEFINE p == c.ptr
  <2> SUFFICES ASSUME NEW i \in Index
      PROVE  /\ storage[p] = Unused => lives'[p][i] = 0
             /\ \A o \in Owners : owner[o].ptr = p =>
                  lives'[p][i] = IF i < storage[p].cnt THEN 1 ELSE 0
             /\ \A k \in DOMAIN calls' : calls'[k].ptr = p =>
                  lives'[p][i] = IF CallAlive(calls'[k], i) THEN 1 ELSE 0
    BY DEF LiveAt, CallAlive
  <2>1. QED
    BY <1>2, <1>5
<1>7. Live'
  <2>1. c.ptr \in Blocks
    BY <1>2
  <2>2. \A i \in DOMAIN calls' : calls'[i].ptr # c.ptr =>
          \E j \in DOMAIN calls : calls'[i] = calls[j]
    BY <1>3
  <2>3. QED
    BY <1>1, <1>6, <2>1, <2>2, LiveElsewhere
<1>8. QED
  BY <1>3, <1>4, <1>7 DEF IInv

LEMMA RunningLive ==
  ASSUME IInv, calls # <<>>, NEW i \in Index
  PROVE  lives[Running.ptr][i] = IF CallAlive(Running, i) THEN 1 ELSE 0
<1>1. Running = calls[1] /\ 1 \in DOMAIN calls /\ Running.ptr \in Blocks
  BY RunningCall DEF IInv, Call
<1>2. QED
  BY <1>1 DEF IInv, Live, LiveAt

LEMMA ConstructIInv == IInv /\ Construct => IInv'
<1> SUFFICES ASSUME IInv, Construct PROVE IInv'
  OBVIOUS
<1> DEFINE d == Running
           c == [d EXCEPT !.at = @ + 1]
<1>1. /\ Typed /\ Structure /\ calls # <<>> /\ d.op = "construct" /\ d.at < d.todo
      /\ lives' = [lives EXCEPT ![d.ptr][d.at] = @ + 1]
      /\ calls' = <<c>> \o Tail(calls)
      /\ UNCHANGED <<storage, owner>>
  BY DEF Construct, Advance, IInv
<1>2. /\ d \in Call /\ CallFits(d)
      /\ d.at \in Nat /\ d.todo \in Nat /\ d.cnt \in 0 .. MaxCount
  BY <1>1, RunningCall
<1>3. \A i \in Index : lives[d.ptr][i] = IF CallAlive(d, i) THEN 1 ELSE 0
  BY <1>1, RunningLive
<1> HIDE DEF d
<1>4. d.at + 1 <= d.todo /\ d.todo = d.cnt /\ d.at \in Index /\ d.at + 1 \in Counts
  BY <1>1, <1>2, MaxCountAssumption DEF CallFits, Index, Counts
<1>5. /\ c \in Call /\ c.op = "construct" /\ c.for = d.for /\ c.from = d.from
      /\ c.ptr = d.ptr /\ c.res = d.res /\ c.cnt = d.cnt /\ c.todo = d.todo
      /\ c.at = d.at + 1
  BY <1>1, <1>2, <1>4 DEF Call
<1> HIDE DEF c
<1>6. /\ lives' \in [Blocks -> [Index -> Int]]
      /\ \A b \in Blocks : b # d.ptr => lives'[b] = lives[b]
      /\ \A i \in Index : lives'[d.ptr][i] = IF i = d.at THEN lives[d.ptr][i] + 1
                                                         ELSE lives[d.ptr][i]
  BY <1>1, <1>2, <1>4 DEF Typed, Call
<1>7. \A i \in Index : lives'[c.ptr][i] = IF CallAlive(c, i) THEN 1 ELSE 0
  <2> SUFFICES ASSUME NEW i \in Index
               PROVE  lives'[c.ptr][i] = IF CallAlive(c, i) THEN 1 ELSE 0
    OBVIOUS
  <2>1. i \in Nat
    BY MaxCountAssumption DEF Index
  <2>2. CallAlive(d, i) <=> i < d.at
    BY <1>1 DEF CallAlive
  <2>3. CallAlive(c, i) <=> i < d.at + 1
    BY <1>5 DEF CallAlive
  <2>4. QED
    BY <1>2, <1>3, <1>5, <1>6, <2>1, <2>2, <2>3
<1>8. c.at <= c.todo /\ c.todo <= c.cnt /\ c.todo = c.cnt
  BY <1>2, <1>4, <1>5
<1>9. \A x \in Blocks : x # c.ptr => lives'[x] = lives[x]
  BY <1>5, <1>6
<1>10. /\ lives' \in [Blocks -> [Index -> Int]]
       /\ calls # <<>> /\ calls' = <<c>> \o Tail(calls) /\ UNCHANGED <<storage, owner>>
       /\ d.op = "construct"
  BY <1>1, <1>6
<1>11. QED
  BY <1>5, <1>7, <1>8, <1>9, <1>10, ReplaceIInv DEF d

LEMMA DestroyAtIInv == IInv /\ DestroyAt => IInv'
<1> SUFFICES ASSUME IInv, DestroyAt PROVE IInv'
  OBVIOUS
<1> DEFINE d == Running
           c == [d EXCEPT !.at = @ + 1]
<1>1. /\ Typed /\ Structure /\ calls # <<>> /\ d.op = "destroy" /\ d.at < d.todo
      /\ lives' = [lives EXCEPT ![d.ptr][d.at] = @ - 1]
      /\ calls' = <<c>> \o Tail(calls)
      /\ UNCHANGED <<storage, owner>>
  BY DEF DestroyAt, Advance, IInv
<1>2. /\ d \in Call /\ CallFits(d)
      /\ d.at \in Nat /\ d.todo \in Nat /\ d.cnt \in 0 .. MaxCount
  BY <1>1, RunningCall
<1>3. \A i \in Index : lives[d.ptr][i] = IF CallAlive(d, i) THEN 1 ELSE 0
  BY <1>1, RunningLive
<1> HIDE DEF d
<1>4. d.at + 1 <= d.todo /\ d.todo <= d.cnt /\ d.at \in Index /\ d.at + 1 \in Counts
  BY <1>1, <1>2, MaxCountAssumption DEF CallFits, Index, Counts
<1>5. /\ c \in Call /\ c.op = "destroy" /\ c.for = d.for /\ c.from = d.from
      /\ c.ptr = d.ptr /\ c.res = d.res /\ c.cnt = d.cnt /\ c.todo = d.todo
      /\ c.at = d.at + 1
  BY <1>1, <1>2, <1>4 DEF Call
<1> HIDE DEF c
<1>6. /\ lives' \in [Blocks -> [Index -> Int]]
      /\ \A b \in Blocks : b # d.ptr => lives'[b] = lives[b]
      /\ \A i \in Index : lives'[d.ptr][i] = IF i = d.at THEN lives[d.ptr][i] - 1
                                                         ELSE lives[d.ptr][i]
  BY <1>1, <1>2, <1>4 DEF Typed, Call
<1>7. \A i \in Index : lives'[c.ptr][i] = IF CallAlive(c, i) THEN 1 ELSE 0
  <2> SUFFICES ASSUME NEW i \in Index
               PROVE  lives'[c.ptr][i] = IF CallAlive(c, i) THEN 1 ELSE 0
    OBVIOUS
  <2>1. i \in Nat
    BY MaxCountAssumption DEF Index
  <2>2. CallAlive(d, i) <=> d.at <= i /\ i < d.todo
    BY <1>1 DEF CallAlive
  <2>3. CallAlive(c, i) <=> d.at + 1 <= i /\ i < d.todo
    BY <1>5 DEF CallAlive
  <2>4. QED
    BY <1>1, <1>2, <1>3, <1>5, <1>6, <2>1, <2>2, <2>3
<1>8. c.at <= c.todo /\ c.todo <= c.cnt
  BY <1>2, <1>4, <1>5
<1>9. \A x \in Blocks : x # c.ptr => lives'[x] = lives[x]
  BY <1>5, <1>6
<1>10. /\ lives' \in [Blocks -> [Index -> Int]]
       /\ calls # <<>> /\ calls' = <<c>> \o Tail(calls) /\ UNCHANGED <<storage, owner>>
  BY <1>1, <1>6
<1>11. QED
  BY <1>5, <1>7, <1>8, <1>9, <1>10, ReplaceIInv DEF d

LEMMA ThrowIInv == IInv /\ Throw => IInv'
<1> SUFFICES ASSUME IInv, Throw PROVE IInv'
  OBVIOUS
<1> DEFINE d == Running
           c == [d EXCEPT !.op = "destroy", !.todo = d.at, !.at = 0]
<1>1. /\ Typed /\ Structure /\ calls # <<>> /\ d.op = "construct" /\ d.at < d.todo
      /\ calls' = <<c>> \o Tail(calls)
      /\ UNCHANGED <<storage, lives, owner>>
  BY DEF Throw, RollBack, IInv
<1>2. /\ d \in Call /\ CallFits(d) /\ d.ptr \in Blocks
      /\ d.at \in Nat /\ d.todo \in Nat /\ d.cnt \in 0 .. MaxCount
  BY <1>1, RunningCall DEF Call
<1>3. \A i \in Index : lives[d.ptr][i] = IF CallAlive(d, i) THEN 1 ELSE 0
  BY <1>1, RunningLive
<1> HIDE DEF d
<1>4. d.at <= d.cnt /\ d.at \in Counts /\ 0 \in Counts
  BY <1>1, <1>2, MaxCountAssumption DEF CallFits, Counts
<1>5. /\ c \in Call /\ c.op = "destroy" /\ c.for = d.for /\ c.from = d.from
      /\ c.ptr = d.ptr /\ c.res = d.res /\ c.cnt = d.cnt /\ c.todo = d.at
      /\ c.at = 0
  BY <1>2, <1>4 DEF Call
<1> HIDE DEF c
<1>6. \A i \in Index : lives'[c.ptr][i] = IF CallAlive(c, i) THEN 1 ELSE 0
  <2> SUFFICES ASSUME NEW i \in Index
               PROVE  lives'[c.ptr][i] = IF CallAlive(c, i) THEN 1 ELSE 0
    OBVIOUS
  <2>1. i \in Nat
    BY MaxCountAssumption DEF Index
  <2>2. CallAlive(d, i) <=> i < d.at
    BY <1>1 DEF CallAlive
  <2>3. CallAlive(c, i) <=> 0 <= i /\ i < d.at
    BY <1>5 DEF CallAlive
  <2>4. QED
    BY <1>1, <1>3, <1>5, <2>1, <2>2, <2>3
<1>7. lives' \in [Blocks -> [Index -> Int]]
  BY <1>1 DEF Typed
<1>8. c.at <= c.todo /\ c.todo <= c.cnt
  BY <1>2, <1>4, <1>5
<1>9. QED
  BY <1>1, <1>5, <1>6, <1>7, <1>8, ReplaceIInv DEF d

LEMMA AllocateUniqueIInv == IInv /\ AllocateUnique => IInv'
<1> SUFFICES ASSUME IInv, AllocateUnique, NEW h, h = Running PROVE IInv'
  OBVIOUS
<1> DEFINE o == h.for
           w == [DeleterFor(o, h.res, h.cnt) EXCEPT !.ptr = h.ptr]
<1>1. /\ Typed /\ Structure /\ Live /\ calls # <<>> /\ h.op = "construct" /\ h.at = h.todo
      /\ owner' = [owner EXCEPT ![o] = w]
      /\ calls' = Tail(calls)
      /\ UNCHANGED <<storage, lives>>
      /\ OwnersApart /\ NoLeak /\ CallsApart
  BY DEF AllocateUnique, IInv, Structure
<1>2. /\ h \in Call /\ CallFits(h) /\ h = calls[1] /\ 1 \in DOMAIN calls
      /\ h.at \in Nat /\ h.todo \in Nat /\ h.cnt \in 0 .. MaxCount
      /\ storage[h.ptr] # Unused
      /\ \A g \in Owners : owner[g].ptr # h.ptr
  BY <1>1, RunningCall
<1>3. \A i \in Index : lives[h.ptr][i] = IF CallAlive(h, i) THEN 1 ELSE 0
  BY <1>1, RunningLive
<1>4. o \in Owners /\ h.ptr \in Blocks /\ h.res \in Resources /\ h.ptr # Null
  BY <1>2, BlocksNotNull DEF Call
<1>5. /\ h.todo = h.cnt /\ h.from = o
      /\ o \notin Arrays => h.cnt = 1
      /\ owner[o].ptr = Null /\ storage[h.ptr] = [res |-> h.res, cnt |-> h.cnt]
  BY <1>1, <1>2 DEF CallFits
<1>6. /\ w \in Owned /\ w.ptr = h.ptr /\ w.res = h.res
      /\ w.cnt = IF o \in Arrays THEN h.cnt ELSE 0
  BY <1>2, <1>4, MaxCountAssumption DEF DeleterFor, Owned, Counts
<1> HIDE DEF w
<1>7. /\ owner' \in [Owners -> Owned] /\ owner'[o] = w
      /\ \A g \in Owners : g # o => owner'[g] = owner[g]
  BY <1>1, <1>4, <1>6 DEF Typed
<1>8. Fits(o, o)'
  BY <1>1, <1>5, <1>6, <1>7 DEF Fits, CountOf
<1>9. /\ calls' \in Seq(Call) /\ CallsFit' /\ CallsApart' /\ OwnersFit'
      /\ \A i \in DOMAIN calls' :
           /\ calls'[i].ptr # h.ptr
           /\ \E j \in DOMAIN calls : calls'[i] = calls[j]
      /\ \A j \in DOMAIN calls :
           calls[j] = h \/ \E i \in DOMAIN calls' : calls'[i] = calls[j]
  <2>1. \A b \in Blocks : b # h.ptr => storage'[b] = storage[b]
    BY <1>1
  <2>2. QED
    BY <1>1, <1>2, <1>7, <1>8, <2>1, PopKeeps
<1>10. Typed'
  BY <1>1, <1>7, <1>9 DEF Typed
<1>11. OwnersApart'
  <2> SUFFICES ASSUME NEW g \in Owners, owner'[g].ptr # Null
               PROVE  /\ storage[owner'[g].ptr] # Unused
                      /\ \A k \in Owners : owner'[k].ptr = owner'[g].ptr => k = g
                      /\ \A i \in DOMAIN calls' : calls'[i].ptr # owner'[g].ptr
    BY <1>1 DEF OwnersApart
  <2>1. CASE g = o
    BY <1>2, <1>6, <1>7, <1>9, <2>1
  <2>2. CASE g # o
    <3>1. owner'[g].ptr = owner[g].ptr /\ owner[g].ptr # h.ptr
      BY <1>2, <1>7, <2>2
    <3>2. \A i \in DOMAIN calls' : calls'[i].ptr # owner'[g].ptr
      BY <1>1, <1>9, <3>1 DEF OwnersApart
    <3>3. \A k \in Owners : owner'[k].ptr = owner'[g].ptr => k = g
      BY <1>1, <1>6, <1>7, <3>1 DEF OwnersApart
    <3>4. storage[owner'[g].ptr] # Unused
      BY <1>1, <3>1 DEF OwnersApart
    <3>5. QED
      BY <3>2, <3>3, <3>4
  <2>3. QED
    BY <2>1, <2>2
<1>12. NoLeak'
  <2> SUFFICES ASSUME NEW a \in Blocks, storage[a] # Unused,
                      ~\E g \in Owners : owner'[g].ptr = a
               PROVE  \E i \in DOMAIN calls' : calls'[i].ptr = a
    BY <1>1 DEF NoLeak
  <2>1. a # h.ptr
    BY <1>4, <1>6, <1>7
  <2>2. ~\E g \in Owners : owner[g].ptr = a
    <3>1. owner[o].ptr # a
      BY <1>5, BlocksNotNull
    <3>2. QED
      BY <1>7, <3>1
  <2>3. PICK j \in DOMAIN calls : calls[j].ptr = a
    BY <1>1, <2>2 DEF NoLeak
  <2>4. QED
    BY <1>9, <2>1, <2>3
<1>13. LiveAt(h.ptr)'
  <2> SUFFICES ASSUME NEW i \in Index
               PROVE  lives[h.ptr][i] = IF i < storage[h.ptr].cnt THEN 1 ELSE 0
    BY <1>1, <1>2, <1>9 DEF LiveAt
  <2>1. CallAlive(h, i) <=> i < h.cnt
    BY <1>1, <1>5 DEF CallAlive
  <2>2. QED
    BY <1>3, <1>5, <2>1
<1>14. Live'
  <2>1. \A g \in Owners : owner'[g].ptr \in Blocks \ {h.ptr} =>
          \E k \in Owners : owner[k].ptr = owner'[g].ptr
    BY <1>6, <1>7
  <2>2. QED
    BY <1>1, <1>4, <1>9, <1>13, <2>1, LiveElsewhere
<1>15. QED
  BY <1>9, <1>10, <1>11, <1>12, <1>14 DEF IInv, Structure

LEMMA GiveBackIInv == IInv /\ GiveBack => IInv'
<1> SUFFICES ASSUME IInv, GiveBack, NEW h, h = Running PROVE IInv'
  OBVIOUS
<1> DEFINE o == h.for
<1>1. /\ Typed /\ Structure /\ Live /\ calls # <<>> /\ h.op = "destroy" /\ h.at = h.todo
      /\ storage' = [storage EXCEPT ![h.ptr] = Unused]
      /\ owner' = [owner EXCEPT ![o] = [owner[h.from] EXCEPT !.ptr = owner[o].ptr]]
      /\ calls' = Tail(calls)
      /\ lives' = lives
      /\ OwnersApart /\ NoLeak /\ CallsApart
  BY DEF GiveBack, Deallocate, IInv, Structure
<1>2. /\ h \in Call /\ CallFits(h) /\ h = calls[1] /\ 1 \in DOMAIN calls
      /\ h.at \in Nat /\ h.todo \in Nat
      /\ \A g \in Owners : owner[g].ptr # h.ptr
  BY <1>1, RunningCall
<1>3. \A i \in Index : lives[h.ptr][i] = IF CallAlive(h, i) THEN 1 ELSE 0
  BY <1>1, RunningLive
<1>4. o \in Owners /\ h.from \in Owners /\ h.ptr \in Blocks
  BY <1>2 DEF Call
<1>5. owner[o] \in Owned /\ owner[h.from] \in Owned
  BY <1>1, <1>4 DEF Typed
<1>6. /\ owner' \in [Owners -> Owned]
      /\ owner'[o].ptr = owner[o].ptr
      /\ owner'[o].res = owner[h.from].res
      /\ owner'[o].cnt = owner[h.from].cnt
      /\ \A g \in Owners : g # o => owner'[g] = owner[g]
  BY <1>1, <1>4, <1>5 DEF Typed, Owned
<1>7. \A g \in Owners : owner'[g].ptr = owner[g].ptr
  BY <1>6
<1>8. /\ storage' \in [Blocks -> {Unused} \cup [res : Resources, cnt : Counts]]
      /\ storage'[h.ptr] = Unused
      /\ \A b \in Blocks : b # h.ptr => storage'[b] = storage[b]
  BY <1>1, <1>4 DEF Typed
<1>9. ASSUME owner'[o].ptr # Null PROVE Fits(o, o)'
  <2>1. Fits(o, h.from) /\ (o \in Arrays <=> h.from \in Arrays)
    BY <1>2, <1>6, <1>9 DEF CallFits
  <2>2. storage'[owner[o].ptr] = storage[owner[o].ptr]
    BY <1>2, <1>4, <1>5, <1>6, <1>8, <1>9 DEF Owned
  <2>3. QED
    BY <1>6, <2>1, <2>2 DEF Fits, CountOf
<1>10. /\ calls' \in Seq(Call) /\ CallsFit' /\ CallsApart' /\ OwnersFit'
       /\ \A i \in DOMAIN calls' :
            /\ calls'[i].ptr # h.ptr
            /\ \E j \in DOMAIN calls : calls'[i] = calls[j]
       /\ \A j \in DOMAIN calls :
            calls[j] = h \/ \E i \in DOMAIN calls' : calls'[i] = calls[j]
  BY <1>1, <1>2, <1>6, <1>8, <1>9, PopKeeps
<1>11. Typed'
  BY <1>1, <1>6, <1>8, <1>10 DEF Typed
<1>12. OwnersApart'
  <2> SUFFICES ASSUME NEW g \in Owners, owner[g].ptr # Null
               PROVE  /\ storage'[owner[g].ptr] # Unused
                      /\ \A k \in Owners : owner[k].ptr = owner[g].ptr => k = g
                      /\ \A i \in DOMAIN calls' : calls'[i].ptr # owner[g].ptr
    BY <1>7 DEF OwnersApart
  <2>1. owner[g].ptr \in Blocks
    BY <1>1 DEF Typed, Owned
  <2>2. storage'[owner[g].ptr] = storage[owner[g].ptr]
    BY <1>2, <1>8, <2>1
  <2>3. QED
    BY <1>1, <1>10, <2>2 DEF OwnersApart
<1>13. NoLeak'
  <2> SUFFICES ASSUME NEW a \in Blocks, storage'[a] # Unused,
                      ~\E g \in Owners : owner[g].ptr = a
               PROVE  \E i \in DOMAIN calls' : calls'[i].ptr = a
    BY <1>7 DEF NoLeak
  <2>1. a # h.ptr /\ storage[a] # Unused
    BY <1>8
  <2>2. PICK j \in DOMAIN calls : calls[j].ptr = a
    BY <1>1, <2>1 DEF NoLeak
  <2>3. QED
    BY <1>10, <2>1, <2>2
<1>14. LiveAt(h.ptr)'
  <2> SUFFICES ASSUME NEW i \in Index PROVE lives[h.ptr][i] = 0
    BY <1>1, <1>2, <1>7, <1>10 DEF LiveAt
  <2>1. ~CallAlive(h, i)
    BY <1>1, <1>2, MaxCountAssumption DEF CallAlive, Index
  <2>2. QED
    BY <1>3, <2>1
<1>15. Live'
  BY <1>1, <1>4, <1>7, <1>8, <1>10, <1>14, LiveElsewhere
<1>16. QED
  BY <1>10, <1>11, <1>12, <1>13, <1>15 DEF IInv, Structure

(* An owner's deleter is called for the block it had: it begins with all   *)
(* of its elements alive.                                                  *)
LEMMA DeleteIInv ==
  ASSUME IInv, NEW o \in Owners, NEW g \in Owners, ~Busy(o), ~Busy(g),
         owner[o].ptr # Null, o \in Arrays <=> g \in Arrays,
         Delete(o, g), UNCHANGED <<storage, lives>>,
         owner' \in [Owners -> Owned],
         \A k \in Owners : k \notin {o, g} => owner'[k] = owner[k],
         owner'[g] = [owner[g] EXCEPT !.ptr = Null],
         o # g => owner'[o].ptr = owner[g].ptr
  PROVE  IInv'
<1>1. /\ Typed /\ Structure /\ Live
      /\ OwnersApart /\ OwnersFit /\ NoLeak
  BY DEF IInv, Structure
<1>2. PICK c : c = [op |-> "destroy", for |-> o, ptr |-> owner[o].ptr,
                    res |-> owner[o].res, cnt |-> CountOf(o), todo |-> CountOf(o),
                    at |-> 0, from |-> g]
  OBVIOUS
<1>3. calls' = <<c>> \o calls
  BY <1>2 DEF Delete
<1>4. PICK p \in Blocks : p = owner[o].ptr
  BY <1>1 DEF Typed, Owned
<1>5. /\ storage[p] = [res |-> owner[o].res, cnt |-> CountOf(o)]
      /\ storage[p] # Unused
      /\ \A k \in Owners : owner[k].ptr = p => k = o
      /\ \A i \in DOMAIN calls : calls[i].ptr # p
  BY <1>1, <1>4 DEF OwnersFit, Fits, OwnersApart
<1>6. CountOf(o) \in Counts /\ CountOf(o) \in Nat /\ 0 \in Counts
  BY <1>1, MaxCountAssumption DEF CountOf, Typed, Owned, Counts
<1>7. owner[o].res \in Resources
  <2>1. storage[p] \in [res : Resources, cnt : Counts]
    BY <1>1, <1>5 DEF Typed
  <2>2. QED
    BY <1>5, <2>1
<1>8. /\ c \in Call /\ c.op = "destroy" /\ c.for = o /\ c.from = g /\ c.ptr = p
      /\ c.res = owner[o].res /\ c.cnt = CountOf(o) /\ c.todo = CountOf(o) /\ c.at = 0
  BY <1>2, <1>4, <1>6, <1>7 DEF Call
<1>9. owner'[g].ptr = Null /\ owner'[g].res = owner[g].res /\ owner'[g].cnt = owner[g].cnt
  BY <1>1 DEF Typed, Owned
<1>10. CallFits(c)'
  <2>1. owner'[o].ptr # Null => Fits(o, g)'
    <3>1. SUFFICES ASSUME owner'[o].ptr # Null PROVE Fits(o, g)'
      OBVIOUS
    <3>2. o # g /\ owner'[o].ptr = owner[g].ptr /\ owner[g].ptr # Null
      BY <1>9, <3>1
    <3>3. Fits(g, g)
      BY <1>1, <3>2 DEF OwnersFit
    <3>4. QED
      BY <1>9, <3>2, <3>3 DEF Fits, CountOf
  <2>2. /\ storage'[p] = [res |-> c.res, cnt |-> c.cnt]
        /\ c.at <= c.todo /\ c.todo <= c.cnt
    BY <1>5, <1>6, <1>8
  <2>3. QED
    BY <1>8, <1>9, <2>1, <2>2 DEF CallFits
<1>11. /\ calls' \in Seq(Call) /\ CallsFit' /\ CallsApart' /\ OwnersFit'
       /\ \A i \in DOMAIN calls' :
            calls'[i] = c \/ \E j \in DOMAIN calls : calls'[i] = calls[j]
       /\ \A j \in DOMAIN calls : \E i \in DOMAIN calls' : calls'[i] = calls[j]
       /\ \E i \in DOMAIN calls' : calls'[i] = c
  <2>1. WorksOn(c) = {o, g}
    BY <1>8 DEF WorksOn
  <2>2. \A w \in WorksOn(c) : ~Busy(w)
    BY <2>1
  <2>3. \A k \in Owners : k \notin WorksOn(c) => owner'[k] = owner[k]
    BY <2>1
  <2>4. /\ \A b \in Blocks : storage[b] # Unused => storage'[b] = storage[b]
        /\ \A i \in DOMAIN calls : calls[i].ptr # c.ptr
    BY <1>5, <1>8
  <2>5. c \in Call
    BY <1>8
  <2>6. QED
    BY <1>1, <1>3, <1>10, <2>2, <2>3, <2>4, <2>5, PushKeeps
<1>12. Typed'
  BY <1>1, <1>11 DEF Typed
<1>13. ASSUME NEW k \in Owners, owner'[k].ptr # Null
       PROVE  /\ owner'[k].ptr # p
              /\ k # g
              /\ owner'[k].ptr = IF k = o THEN owner[g].ptr ELSE owner[k].ptr
  <2>1. k # g
    BY <1>9, <1>13
  <2>2. owner'[k].ptr = IF k = o THEN owner[g].ptr ELSE owner[k].ptr
    BY <2>1
  <2>3. QED
    BY <1>5, <2>1, <2>2
<1>14. OwnersApart'
  <2> SUFFICES ASSUME NEW k \in Owners, owner'[k].ptr # Null
               PROVE  /\ storage[owner'[k].ptr] # Unused
                      /\ \A l \in Owners : owner'[l].ptr = owner'[k].ptr => l = k
                      /\ \A i \in DOMAIN calls' : calls'[i].ptr # owner'[k].ptr
    BY DEF OwnersApart
  <2> DEFINE was(l) == IF l = o THEN g ELSE l
  <2>1. /\ owner'[k].ptr = owner[was(k)].ptr /\ was(k) \in Owners
        /\ owner'[k].ptr # p
    BY <1>13
  <2>2. ASSUME NEW l \in Owners, owner'[l].ptr = owner'[k].ptr PROVE l = k
    <3>1. owner'[l].ptr = owner[was(l)].ptr /\ was(l) \in Owners /\ l # g /\ k # g
      BY <1>13, <2>2
    <3>2. was(l) = was(k)
      BY <1>1, <2>1, <2>2, <3>1 DEF OwnersApart
    <3>3. QED
      BY <3>1, <3>2
  <2>3. storage[owner'[k].ptr] # Unused
    BY <1>1, <2>1 DEF OwnersApart
  <2>4. ASSUME NEW i \in DOMAIN calls' PROVE calls'[i].ptr # owner'[k].ptr
    BY <1>1, <1>8, <1>11, <2>1 DEF OwnersApart
  <2>5. QED
    BY <2>2, <2>3, <2>4
<1>15. NoLeak'
  <2> SUFFICES ASSUME NEW a \in Blocks, storage[a] # Unused,
                      ~\E k \in Owners : owner'[k].ptr = a
               PROVE  \E i \in DOMAIN calls' : calls'[i].ptr = a
    BY DEF NoLeak
  <2>1. CASE a = p
    BY <1>8, <1>11, <2>1
  <2>2. CASE a # p
    <3>1. ~\E k \in Owners : owner[k].ptr = a
      <4> SUFFICES ASSUME NEW k \in Owners, owner[k].ptr = a PROVE FALSE
        OBVIOUS
      <4>1. k # o
        BY <1>4, <2>2
      <4>2. k = g
        BY <4>1
      <4>3. QED
        BY <4>1, <4>2
    <3>2. PICK j \in DOMAIN calls : calls[j].ptr = a
      BY <1>1, <3>1 DEF NoLeak
    <3>3. QED
      BY <1>11, <3>2
  <2>3. QED
    BY <2>1, <2>2
<1>16. LiveAt(p)'
  <2> SUFFICES ASSUME NEW i \in Index
      PROVE  /\ storage[p] = Unused => lives[p][i] = 0
             /\ \A k \in Owners : owner'[k].ptr = p =>
                  lives[p][i] = IF i < storage[p].cnt THEN 1 ELSE 0
             /\ \A k \in DOMAIN calls' : calls'[k].ptr = p =>
                  lives[p][i] = IF CallAlive(calls'[k], i) THEN 1 ELSE 0
    BY DEF LiveAt, CallAlive
  <2>1. lives[p][i] = IF i < CountOf(o) THEN 1 ELSE 0
    BY <1>1, <1>4, <1>5 DEF Live, LiveAt
  <2>2. CallAlive(c, i) <=> i < CountOf(o)
    BY <1>6, <1>8, MaxCountAssumption DEF CallAlive, Index
  <2>3. \A k \in DOMAIN calls' : calls'[k].ptr = p => calls'[k] = c
    BY <1>5, <1>11
  <2>4. \A k \in Owners : owner'[k].ptr # p
    BY <1>13, BlocksNotNull
  <2>5. QED
    BY <1>5, <2>1, <2>2, <2>3, <2>4
<1>17. Live'
  <2>1. \A k \in Owners : owner'[k].ptr \in Blocks \ {p} =>
          \E l \in Owners : owner[l].ptr = owner'[k].ptr
    BY <1>13, BlocksNotNull
  <2>2. \A i \in DOMAIN calls' : calls'[i].ptr # p =>
          \E j \in DOMAIN calls : calls'[i] = calls[j]
    BY <1>8, <1>11
  <2>3. \A b \in Blocks : b # p => storage'[b] = storage[b] /\ lives'[b] = lives[b]
    OBVIOUS
  <2>4. QED
    BY <1>1, <1>16, <2>1, <2>2, <2>3, LiveElsewhere
<1>18. QED
  BY <1>11, <1>12, <1>14, <1>15, <1>17 DEF IInv, Structure

LEMMA ResetIInv ==
  ASSUME IInv, NEW o \in Owners, Reset(o)
  PROVE  IInv'
<1>1. /\ Typed /\ ~Busy(o) /\ owner[o].ptr # Null /\ Delete(o, o)
      /\ owner' = [owner EXCEPT ![o].ptr = Null]
      /\ UNCHANGED <<storage, lives>>
  BY DEF Reset, MayCall, Busy, WorksOn, IInv
<1>2. /\ owner' \in [Owners -> Owned]
      /\ \A k \in Owners : k # o => owner'[k] = owner[k]
      /\ owner'[o] = [owner[o] EXCEPT !.ptr = Null]
  BY <1>1 DEF Typed, Owned
<1>3. QED
  BY <1>1, <1>2, DeleteIInv

LEMMA MoveIntoIInv ==
  ASSUME IInv, NEW o \in Owners, NEW g \in Owners, MoveInto(o, g)
  PROVE  IInv'
<1>1. /\ o # g /\ (o \in Arrays <=> g \in Arrays) /\ ~Busy(o) /\ ~Busy(g)
      /\ UNCHANGED <<storage, lives>>
  BY DEF MoveInto, MayCall, Busy, WorksOn
<1>2. /\ Typed /\ Structure /\ Live
      /\ OwnersApart /\ OwnersFit /\ NoLeak /\ CallsFit /\ CallsApart
  BY DEF IInv, Structure
<1>3. CASE owner[o].ptr # Null
  <2>1. owner' = [owner EXCEPT ![o].ptr = owner[g].ptr, ![g].ptr = Null] /\ Delete(o, g)
    BY <1>3 DEF MoveInto
  <2>2. /\ owner' \in [Owners -> Owned]
        /\ \A k \in Owners : k \notin {o, g} => owner'[k] = owner[k]
        /\ owner'[g] = [owner[g] EXCEPT !.ptr = Null]
        /\ owner'[o].ptr = owner[g].ptr
    <3>1. owner \in [Owners -> Owned] /\ owner[g] \in Owned /\ owner[o] \in Owned
      BY <1>2 DEF Typed
    <3>2. /\ [owner[g] EXCEPT !.ptr = Null] \in Owned
          /\ [owner[o] EXCEPT !.ptr = owner[g].ptr] \in Owned
          /\ [owner[o] EXCEPT !.ptr = owner[g].ptr].ptr = owner[g].ptr
      BY <3>1 DEF Owned
    <3>3. /\ owner'[g] = [owner[g] EXCEPT !.ptr = Null]
          /\ owner'[o] = [owner[o] EXCEPT !.ptr = owner[g].ptr]
          /\ \A k \in Owners : k \notin {o, g} => owner'[k] = owner[k]
          /\ DOMAIN owner' = Owners
      BY <1>1, <2>1, <3>1
    <3>4. \A k \in Owners : owner'[k] \in Owned
      BY <3>1, <3>2, <3>3
    <3>5. owner' = [k \in Owners |-> owner'[k]]
      BY <2>1, <3>1
    <3>6. QED
      BY <3>2, <3>3, <3>4, <3>5
  <2>3. QED
    BY <1>1, <1>3, <2>1, <2>2, DeleteIInv
<1>4. CASE owner[o].ptr = Null
  <2>1. /\ owner' = [owner EXCEPT ![o] = owner[g], ![g].ptr = Null]
        /\ calls' = calls
    BY <1>4 DEF MoveInto
  <2>2. /\ owner' \in [Owners -> Owned]
        /\ \A k \in Owners : k \notin {o, g} => owner'[k] = owner[k]
        /\ owner'[g].ptr = Null
        /\ owner'[o] = owner[g]
    BY <1>1, <1>2, <2>1 DEF Typed, Owned
  <2>3. Typed'
    BY <1>1, <1>2, <2>1, <2>2 DEF Typed
  <2>4. ASSUME NEW i \in DOMAIN calls
        PROVE  /\ calls[i].for \in Owners /\ calls[i].from \in Owners
               /\ o \notin WorksOn(calls[i]) /\ g \notin WorksOn(calls[i])
               /\ CallFits(calls[i])
    <3>1. calls[i] \in Call /\ CallFits(calls[i])
      BY <1>2, CallsUse DEF CallsFit
    <3>2. QED
      BY <1>1, <3>1 DEF Busy, Call
  <2>5. CallsFit'
    <3> SUFFICES ASSUME NEW i \in DOMAIN calls, NEW d, d = calls[i] PROVE CallFits(d)'
      BY <2>1 DEF CallsFit, CallFits
    <3>1. /\ CallFits(d) /\ owner'[d.for] = owner[d.for] /\ owner'[d.from] = owner[d.from]
      BY <2>2, <2>4 DEF WorksOn
    <3>2. QED
      BY <1>1, <3>1, CallFitsKept
  <2>6. CallsApart'
    BY <1>2, <2>1 DEF CallsApart, WorksOn
  <2>7. OwnersFit'
    <3> SUFFICES ASSUME NEW k \in Owners, owner'[k].ptr # Null, ~Busy(k)'
                 PROVE  Fits(k, k)'
      BY DEF OwnersFit
    <3>1. ~Busy(k) /\ k # g
      BY <2>1, <2>2 DEF Busy, WorksOn
    <3>2. CASE k = o
      <4>1. Fits(g, g)
        BY <1>1, <1>2, <2>2, <3>2 DEF OwnersFit
      <4>2. QED
        BY <1>1, <2>2, <3>2, <4>1 DEF Fits, CountOf
    <3>3. CASE k # o
      <4>1. owner'[k] = owner[k] /\ Fits(k, k)
        BY <1>2, <2>2, <3>1, <3>3 DEF OwnersFit
      <4>2. QED
        BY <1>1, <4>1 DEF Fits, CountOf
    <3>4. QED
      BY <3>2, <3>3
  <2> DEFINE was(l) == IF l = o THEN g ELSE l
  <2>8. ASSUME NEW k \in Owners, owner'[k].ptr # Null
        PROVE  k # g /\ was(k) \in Owners /\ owner'[k].ptr = owner[was(k)].ptr
    BY <2>2, <2>8
  <2>9. OwnersApart'
    <3> SUFFICES ASSUME NEW k \in Owners, owner'[k].ptr # Null
                 PROVE  /\ storage[owner'[k].ptr] # Unused
                        /\ \A l \in Owners : owner'[l].ptr = owner'[k].ptr => l = k
                        /\ \A i \in DOMAIN calls : calls[i].ptr # owner'[k].ptr
      BY <1>1, <2>1 DEF OwnersApart
    <3>1. k # g /\ was(k) \in Owners /\ owner'[k].ptr = owner[was(k)].ptr
      BY <2>8
    <3>2. ASSUME NEW l \in Owners, owner'[l].ptr = owner'[k].ptr PROVE l = k
      <4>1. l # g /\ was(l) \in Owners /\ owner'[l].ptr = owner[was(l)].ptr
        BY <2>8, <3>2
      <4>2. was(l) = was(k)
        BY <1>2, <3>1, <3>2, <4>1 DEF OwnersApart
      <4>3. QED
        BY <3>1, <4>1, <4>2
    <3>3. QED
      BY <1>2, <3>1, <3>2 DEF OwnersApart
  <2>10. ASSUME NEW a \in Blocks, NEW k \in Owners, owner[k].ptr = a
         PROVE  \E l \in Owners : owner'[l].ptr = a
    <3>1. CASE k = g
      BY <2>2, <2>10, <3>1
    <3>2. CASE k # g
      <4>1. k # o
        BY <1>4, <2>10, BlocksNotNull
      <4>2. QED
        BY <2>2, <2>10, <3>2, <4>1
    <3>3. QED
      BY <3>1, <3>2
  <2>11. NoLeak'
    BY <1>1, <1>2, <2>1, <2>10 DEF NoLeak
  <2>12. Live'
    <3> SUFFICES ASSUME NEW b \in Blocks, NEW i \in Index
        PROVE  /\ storage[b] = Unused => lives[b][i] = 0
               /\ \A k \in Owners : owner'[k].ptr = b =>
                    lives[b][i] = IF i < storage[b].cnt THEN 1 ELSE 0
               /\ \A k \in DOMAIN calls : calls[k].ptr = b =>
                    lives[b][i] = IF CallAlive(calls[k], i) THEN 1 ELSE 0
      <4>1. SUFFICES ASSUME NEW b \in Blocks PROVE LiveAt(b)'
        BY DEF Live
      <4>2. QED
        BY <1>1, <2>1 DEF LiveAt, CallAlive
    <3>1. \A k \in Owners : owner'[k].ptr = b => \E l \in Owners : owner[l].ptr = b
      BY <2>8, BlocksNotNull
    <3>2. QED
      BY <1>2, <3>1 DEF Live, LiveAt
  <2>13. QED
    BY <2>3, <2>5, <2>6, <2>7, <2>9, <2>11, <2>12 DEF IInv, Structure
<1>5. QED
  BY <1>3, <1>4

LEMMA NextIInv == IInv /\ [AllocNext]_allocVars => IInv'
<1> SUFFICES ASSUME IInv, [AllocNext]_allocVars PROVE IInv'
  OBVIOUS
<1>1. ASSUME NEW o \in Owners, NEW r \in Resources, NewOne(o, r) PROVE IInv'
  <2>1. o \in Singles /\ New(o, r, 1) /\ 1 \in Counts
    BY <1>1, MaxCountAssumption DEF NewOne, Counts
  <2>2. QED
    BY <2>1, NewIInv
<1>2. ASSUME NEW o \in Owners, NEW r \in Resources, NEW n \in Counts, NewArray(o, r, n)
      PROVE  IInv'
  BY <1>2, NewIInv DEF NewArray
<1>3. CASE Construct \/ AllocateUnique \/ Throw \/ DestroyAt \/ GiveBack
  BY <1>3, ConstructIInv, AllocateUniqueIInv, ThrowIInv, DestroyAtIInv, GiveBackIInv
<1>4. CASE \E o \in Owners : Reset(o) \/ \E g \in Owners : MoveInto(o, g)
  BY <1>4, ResetIInv, MoveIntoIInv
<1>5. CASE UNCHANGED allocVars
  BY <1>5 DEF allocVars, IInv, Typed, Structure, CallsFit, CallFits, CallsApart, WorksOn,
     OwnersFit, Busy, Fits, CountOf, OwnersApart, NoLeak, Live, LiveAt, CallAlive
<1>6. QED
  BY <1>1, <1>2, <1>3, <1>4, <1>5 DEF AllocNext

-----------------------------------------------------------------------------
(* Induction, as a fact about sets of numbers.                             *)

(* Every set of natural numbers that is not empty has a least one.         *)
LEMMA LeastNumber ==
  ASSUME NEW T, T \subseteq Nat, T # {}
  PROVE  \E x \in T : \A y \in T : x <= y
<1> DEFINE less == {p \in Nat \X Nat : p[1] < p[2]}
<1>1. IsWellFoundedOn(less, Nat)
  BY NatLessThanWellFounded, Zenon DEF OpToRel
<1> SUFFICES ASSUME NEW r, r = less PROVE \E x \in T : \A y \in T : x <= y
  OBVIOUS
<1> HIDE DEF less
<1>2. IsWellFoundedOn(r, Nat)
  BY <1>1
<1>3. PICK x \in T : \A y \in T : <<y, x>> \notin r
  BY <1>2, WFMin, Zenon
<1>4. ASSUME NEW y \in T PROVE x <= y
  <2>1. <<y, x>> \notin r /\ x \in Nat /\ y \in Nat
    BY <1>3
  <2>2. ~ (y < x)
    BY <2>1 DEF less
  <2>3. QED
    BY <2>1, <2>2
<1>5. QED
  BY <1>3, <1>4

(* A set with 0 and with the successor of each of its numbers has them all.*)
LEMMA InductionOnSets ==
  ASSUME NEW S, 0 \in S, \A n \in Nat : n \in S => n + 1 \in S
  PROVE  Nat \subseteq S
<1> SUFFICES ASSUME Nat \ S # {} PROVE FALSE
  OBVIOUS
<1>1. PICK x \in Nat \ S : \A y \in Nat \ S : x <= y
  BY LeastNumber
<1>2. x # 0 /\ x - 1 \in Nat
  BY <1>1
<1>3. x - 1 \in S
  BY <1>1, <1>2
<1>4. QED
  BY <1>1, <1>2, <1>3

-----------------------------------------------------------------------------
(* The elements of a finite set of blocks: MapThenSumSet adds up the       *)
(* counts by taking out one block after another.                           *)

Pick(s) == CHOOSE b \in s : TRUE
PickedFirst(st, sum, s) ==
  IF s = {} THEN 0 ELSE st[Pick(s)].cnt + sum[s \ {Pick(s)}]
Sums(st, T) == CHOOSE sum : sum = [s \in SUBSET T |-> PickedFirst(st, sum, s)]
Elements(st, T) == MapThenSumSet(LAMBDA b : st[b].cnt, T)

(* sum[s] is what it should be for all the sets s of blocks of T.          *)
AddsUp(st, sum, T) == \A s \in SUBSET T : sum[s] = PickedFirst(st, sum, s)

LEMMA ElementsAreSums ==
  ASSUME NEW st, NEW T
  PROVE  Elements(st, T) = Sums(st, T)[T]
BY DEF Elements, MapThenSumSet, MapThenFoldSet, Sums, PickedFirst, Pick

LEMMA SmallerSet ==
  ASSUME NEW T, IsFiniteSet(T), NEW s \in SUBSET T, NEW y \in s
  PROVE  /\ s \ {y} \in SUBSET T
         /\ Cardinality(s) \in Nat \ {0}
         /\ Cardinality(s \ {y}) = Cardinality(s) - 1
<1>1. IsFiniteSet(s)
  BY FS_Subset
<1>2. Cardinality(s \ {y}) = Cardinality(s) - 1 /\ IsFiniteSet(s \ {y})
  BY <1>1, FS_RemoveElement
<1>3. Cardinality(s) \in Nat /\ Cardinality(s \ {y}) \in Nat
  BY <1>1, <1>2, FS_CardinalityType
<1>4. QED
  BY <1>2, <1>3

LEMMA PickFrom ==
  ASSUME NEW s, s # {}
  PROVE  Pick(s) \in s
BY Zenon DEF Pick

LEMMA SumsExist ==
  ASSUME NEW st, NEW T, IsFiniteSet(T)
  PROVE  \E sum : sum = [s \in SUBSET T |-> PickedFirst(st, sum, s)]
<1> DEFINE upTo(n) == {s \in SUBSET T : Cardinality(s) <= n}
           good(n, sum) == sum = [s \in upTo(n) |-> PickedFirst(st, sum, s)]
           S == {n \in Nat : \E sum : good(n, sum)}
<1>1. \A s \in SUBSET T : IsFiniteSet(s) /\ Cardinality(s) \in Nat
  BY FS_Subset, FS_CardinalityType
<1>2. 0 \in S
  <2>1. \A s \in upTo(0) : s = {}
    BY <1>1, FS_EmptySet
  <2> DEFINE sum == [s \in upTo(0) |-> 0]
  <2>2. good(0, sum)
    BY <2>1 DEF PickedFirst
  <2>3. QED
    BY <2>2
<1>3. ASSUME NEW n \in Nat, n \in S PROVE n + 1 \in S
  <2>1. PICK sum : good(n, sum)
    BY <1>3
  <2> DEFINE more == [s \in upTo(n + 1) |->
                        IF s \in upTo(n) THEN sum[s] ELSE PickedFirst(st, sum, s)]
  <2>2. ASSUME NEW s \in upTo(n + 1) PROVE more[s] = PickedFirst(st, more, s)
    <3>1. more[s] = PickedFirst(st, sum, s)
      <4>1. more[s] = IF s \in upTo(n) THEN sum[s] ELSE PickedFirst(st, sum, s)
        OBVIOUS
      <4>2. s \in upTo(n) => sum[s] = PickedFirst(st, sum, s)
        BY <2>1
      <4>3. QED
        BY <4>1, <4>2
    <3>2. CASE s = {}
      BY <3>1, <3>2 DEF PickedFirst
    <3>3. CASE s # {}
      <4>1. Pick(s) \in s
        BY <3>3, PickFrom
      <4>2. /\ s \ {Pick(s)} \in SUBSET T
            /\ Cardinality(s) \in Nat
            /\ Cardinality(s \ {Pick(s)}) = Cardinality(s) - 1
        BY <4>1, SmallerSet
      <4>3. s \ {Pick(s)} \in upTo(n) /\ s \ {Pick(s)} \in upTo(n + 1)
        BY <4>2
      <4>4. more[s \ {Pick(s)}] = sum[s \ {Pick(s)}]
        BY <4>3
      <4>5. QED
        BY <3>1, <4>4 DEF PickedFirst
    <3>4. QED
      BY <3>2, <3>3
  <2> HIDE DEF upTo
  <2>3. good(n + 1, more)
    BY <2>2
  <2>4. \E sum1 : good(n + 1, sum1)
    <3> HIDE DEF more, good
    <3>1. QED
      BY <2>3
  <2>5. QED
    BY <2>4
<1>4. Cardinality(T) \in S
  <2> HIDE DEF S
  <2>1. QED
    BY <1>2, <1>3, FS_CardinalityType, InductionOnSets
<1>5. upTo(Cardinality(T)) = SUBSET T
  BY <1>1, FS_Subset
<1>6. PICK sum : good(Cardinality(T), sum)
  BY <1>4
<1>7. QED
  BY <1>5, <1>6

LEMMA SumsAddUp ==
  ASSUME NEW st, NEW T, IsFiniteSet(T)
  PROVE  AddsUp(st, Sums(st, T), T)
<1> DEFINE good(sum) == sum = [s \in SUBSET T |-> PickedFirst(st, sum, s)]
<1>1. \E sum : good(sum)
  BY SumsExist
<1> SUFFICES ASSUME NEW total, total = Sums(st, T) PROVE AddsUp(st, total, T)
  OBVIOUS
<1>2. Sums(st, T) = CHOOSE sum : good(sum)
  BY DEF Sums
<1>3. good(total)
  <2> HIDE DEF good
  <2>1. QED
    BY <1>1, <1>2, Zenon
<1>4. QED
  BY <1>3 DEF AddsUp

(* What adds up the same counts gives the same sums.                       *)
LEMMA SumsAgree ==
  ASSUME NEW st, NEW su, NEW F, NEW G, NEW T, IsFiniteSet(T),
         AddsUp(st, F, T), AddsUp(su, G, T), \A b \in T : st[b].cnt = su[b].cnt
  PROVE  \A s \in SUBSET T : F[s] = G[s]
<1> DEFINE S == {n \in Nat : \A s \in SUBSET T : Cardinality(s) = n => F[s] = G[s]}
<1>1. \A s \in SUBSET T : IsFiniteSet(s) /\ Cardinality(s) \in Nat
  BY FS_Subset, FS_CardinalityType
<1>2. 0 \in S
  <2>1. ASSUME NEW s \in SUBSET T, Cardinality(s) = 0 PROVE F[s] = G[s]
    <3>1. s = {}
      BY <1>1, <2>1, FS_EmptySet
    <3>2. QED
      BY <3>1 DEF AddsUp, PickedFirst
  <2>2. QED
    BY <2>1
<1>3. ASSUME NEW n \in Nat, n \in S PROVE n + 1 \in S
  <2>1. ASSUME NEW s \in SUBSET T, Cardinality(s) = n + 1 PROVE F[s] = G[s]
    <3>1. s # {}
      BY <2>1, FS_EmptySet
    <3>2. Pick(s) \in s
      BY <3>1, PickFrom
    <3>3. /\ s \ {Pick(s)} \in SUBSET T
          /\ Cardinality(s \ {Pick(s)}) = n
      BY <2>1, <3>2, SmallerSet
    <3>4. F[s \ {Pick(s)}] = G[s \ {Pick(s)}]
      BY <1>3, <3>3
    <3>5. st[Pick(s)].cnt = su[Pick(s)].cnt
      BY <3>2
    <3>6. QED
      BY <3>1, <3>4, <3>5 DEF AddsUp, PickedFirst
  <2>2. QED
    BY <2>1
<1>4. Nat \subseteq S
  <2> HIDE DEF S
  <2>1. QED
    BY <1>2, <1>3, InductionOnSets
<1>5. QED
  BY <1>1, <1>4

(* The block that is taken out first does not matter.                      *)
LEMMA AnyFirst ==
  ASSUME NEW st, NEW F, NEW T, IsFiniteSet(T), AddsUp(st, F, T),
         \A b \in T : st[b].cnt \in Nat
  PROVE  \A s \in SUBSET T :
           F[s] \in Nat /\ \A b \in s : F[s] = st[b].cnt + F[s \ {b}]
<1> DEFINE fine(s) == F[s] \in Nat /\ \A b \in s : F[s] = st[b].cnt + F[s \ {b}]
           S == {n \in Nat : \A s \in SUBSET T : Cardinality(s) <= n => fine(s)}
<1>1. \A s \in SUBSET T : IsFiniteSet(s) /\ Cardinality(s) \in Nat
  BY FS_Subset, FS_CardinalityType
<1>2. fine({})
  <2>1. F[{}] = 0
    BY DEF AddsUp, PickedFirst
  <2>2. QED
    BY <2>1
<1>3. 0 \in S
  <2>1. ASSUME NEW s \in SUBSET T, Cardinality(s) <= 0 PROVE fine(s)
    <3>1. s = {}
      BY <1>1, <2>1, FS_EmptySet
    <3>2. QED
      BY <3>1, <1>2
  <2>2. QED
    BY <2>1
<1>4. ASSUME NEW n \in Nat, n \in S PROVE n + 1 \in S
  <2>1. ASSUME NEW s \in SUBSET T, Cardinality(s) <= n + 1, s # {} PROVE fine(s)
    <3> SUFFICES ASSUME NEW x, x = Pick(s) PROVE fine(s)
      OBVIOUS
    <3>1. x \in s
      BY <2>1, PickFrom
    <3>2. F[s] = st[x].cnt + F[s \ {x}]
      BY <2>1 DEF AddsUp, PickedFirst
    <3>3. ASSUME NEW b \in s
          PROVE  s \ {b} \in SUBSET T /\ Cardinality(s \ {b}) <= n /\ fine(s \ {b})
      <4>1. /\ s \ {b} \in SUBSET T /\ Cardinality(s) \in Nat
            /\ Cardinality(s \ {b}) = Cardinality(s) - 1
        BY SmallerSet
      <4>2. Cardinality(s \ {b}) <= n
        BY <2>1, <4>1
      <4>3. QED
        BY <1>4, <4>1, <4>2
    <3>4. F[s] \in Nat
      <4>1. F[s \ {x}] \in Nat /\ st[x].cnt \in Nat
        BY <3>1, <3>3
      <4>2. QED
        BY <3>2, <4>1
    <3>5. ASSUME NEW b \in s, b # x PROVE F[s] = st[b].cnt + F[s \ {b}]
      <4>1. F[s \ {x}] = st[b].cnt + F[(s \ {x}) \ {b}]
        BY <3>1, <3>3, <3>5
      <4>2. F[s \ {b}] = st[x].cnt + F[(s \ {b}) \ {x}]
        BY <3>1, <3>3, <3>5
      <4>3. (s \ {x}) \ {b} = (s \ {b}) \ {x}
        OBVIOUS
      <4>4. F[(s \ {x}) \ {b}] \in Nat
        <5>1. s \ {x} \in SUBSET T /\ Cardinality(s \ {x}) <= n
          BY <3>1, <3>3
        <5>2. /\ (s \ {x}) \ {b} \in SUBSET T /\ Cardinality(s \ {x}) \in Nat
              /\ Cardinality((s \ {x}) \ {b}) = Cardinality(s \ {x}) - 1
          BY <3>5, <5>1, SmallerSet
        <5>3. Cardinality((s \ {x}) \ {b}) <= n
          BY <5>1, <5>2
        <5>4. QED
          BY <1>4, <5>2, <5>3
      <4>5. st[b].cnt \in Nat /\ st[x].cnt \in Nat
        BY <3>1
      <4>6. F[s] = st[x].cnt + (st[b].cnt + F[(s \ {x}) \ {b}])
        BY <3>2, <4>1, Zenon
      <4>7. F[s \ {b}] = st[x].cnt + F[(s \ {x}) \ {b}]
        BY <4>2, <4>3, Zenon
      <4> SUFFICES ASSUME NEW i \in Nat, NEW j \in Nat, NEW k \in Nat,
                          i = st[x].cnt, j = st[b].cnt, k = F[(s \ {x}) \ {b}]
                   PROVE  F[s] = st[b].cnt + F[s \ {b}]
        BY <4>4, <4>5, Zenon
      <4>8. i + (j + k) = j + (i + k)
        OBVIOUS
      <4>9. QED
        BY <4>6, <4>7, <4>8, Zenon
    <3>6. QED
      BY <3>2, <3>4, <3>5
  <2>2. \A s \in SUBSET T : Cardinality(s) <= n + 1 => fine(s)
    BY <1>2, <2>1
  <2>3. QED
    BY <2>2
<1>5. Nat \subseteq S
  <2> HIDE DEF S
  <2>1. QED
    BY <1>3, <1>4, InductionOnSets
<1>6. ASSUME NEW s \in SUBSET T PROVE fine(s)
  <2>1. Cardinality(s) \in S /\ Cardinality(s) <= Cardinality(s)
    BY <1>1, <1>5
  <2>2. QED
    BY <2>1
<1>7. QED
  BY <1>6

-----------------------------------------------------------------------------
(* What the books need of the sums.                                        *)

LEMMA NoElements ==
  ASSUME NEW st
  PROVE  Elements(st, {}) = 0
<1>1. AddsUp(st, Sums(st, {}), {})
  BY SumsAddUp, FS_EmptySet
<1>2. QED
  BY <1>1, ElementsAreSums DEF AddsUp, PickedFirst

LEMMA ElementsCounted ==
  ASSUME NEW st, NEW T, IsFiniteSet(T), \A b \in T : st[b].cnt \in Nat
  PROVE  Elements(st, T) \in Nat
<1>1. AddsUp(st, Sums(st, T), T)
  BY SumsAddUp
<1>2. T \in SUBSET T
  OBVIOUS
<1>3. Sums(st, T)[T] \in Nat
  BY <1>1, <1>2, AnyFirst
<1>4. QED
  BY <1>3, ElementsAreSums

LEMMA SameElements ==
  ASSUME NEW st, NEW su, NEW T, IsFiniteSet(T), \A b \in T : st[b].cnt = su[b].cnt
  PROVE  Elements(st, T) = Elements(su, T)
<1>1. AddsUp(st, Sums(st, T), T) /\ AddsUp(su, Sums(su, T), T)
  BY SumsAddUp
<1>2. Sums(st, T)[T] = Sums(su, T)[T]
  BY <1>1, SumsAgree
<1>3. QED
  BY <1>2, ElementsAreSums

(* One block more has its elements more.                                   *)
LEMMA OneBlockMore ==
  ASSUME NEW st, NEW T, IsFiniteSet(T), \A b \in T : st[b].cnt \in Nat, NEW y \in T
  PROVE  Elements(st, T) = st[y].cnt + Elements(st, T \ {y})
<1> DEFINE U == T \ {y}
<1>1. AddsUp(st, Sums(st, T), T)
  BY SumsAddUp
<1>2. AddsUp(st, Sums(st, U), U) /\ IsFiniteSet(U)
  BY SumsAddUp, FS_Subset
<1>3. AddsUp(st, Sums(st, T), U)
  BY <1>1 DEF AddsUp
<1>4. Sums(st, T)[U] = Sums(st, U)[U]
  <2>1. \A s \in SUBSET U : Sums(st, T)[s] = Sums(st, U)[s]
    BY <1>2, <1>3, SumsAgree
  <2>2. QED
    BY <2>1
<1>5. T \in SUBSET T
  OBVIOUS
<1>6. Sums(st, T)[T] = st[y].cnt + Sums(st, T)[U]
  BY <1>1, <1>5, AnyFirst
<1>7. QED
  BY <1>4, <1>6, ElementsAreSums

-----------------------------------------------------------------------------
(* The books: a resource has handed out the blocks that are marked as its, *)
(* finitely many, with the elements that are marked there.                 *)

Of(st, r) == {b \in Blocks : st[b].res = r}
Marked == [Blocks -> {Unused} \cup [res : Resources, cnt : Counts]]
Outstanding == [Resources -> [blocks : Nat, elements : Nat]]
Entry(st, r) == [blocks |-> Cardinality(Of(st, r)), elements |-> Elements(st, Of(st, r))]

Books ==
  /\ outstanding \in Outstanding
  /\ \A r \in Resources : IsFiniteSet(Of(storage, r))
  /\ \A r \in Resources : outstanding[r] = Entry(storage, r)

LEMMA BooksBalanceHolds == Books => BooksBalance
BY DEF Books, BooksBalance, Entry, Elements, Of

(* One block more on the books of r, and of nobody else.                   *)
LEMMA BlockOnBooks ==
  ASSUME NEW st \in Marked, NEW su \in Marked, NEW b \in Blocks,
         NEW r \in Resources, NEW n \in Counts,
         st[b] = Unused, su[b] = [res |-> r, cnt |-> n],
         \A c \in Blocks \ {b} : st[c] = su[c],
         \A q \in Resources : IsFiniteSet(Of(st, q))
  PROVE  \A q \in Resources :
           /\ IsFiniteSet(Of(su, q))
           /\ Entry(st, q) \in [blocks : Nat, elements : Nat]
           /\ Entry(su, q) =
                [blocks |-> Entry(st, q).blocks + (IF q = r THEN 1 ELSE 0),
                 elements |-> Entry(st, q).elements + (IF q = r THEN n ELSE 0)]
<1> SUFFICES ASSUME NEW q \in Resources
    PROVE  /\ IsFiniteSet(Of(su, q))
           /\ Entry(st, q) \in [blocks : Nat, elements : Nat]
           /\ Entry(su, q) =
                [blocks |-> Entry(st, q).blocks + (IF q = r THEN 1 ELSE 0),
                 elements |-> Entry(st, q).elements + (IF q = r THEN n ELSE 0)]
  OBVIOUS
<1> DEFINE U == Of(st, q)
           V == Of(su, q)
<1>1. /\ \A c \in Blocks : st[c].cnt \in Nat /\ su[c].cnt \in Nat
      /\ n \in Nat /\ q # Null /\ b \notin U
  <2>1. q # Null /\ Unused.res = Null /\ Unused.cnt = 0
    BY NullAssumption DEF Unused
  <2>2. Counts \subseteq Nat
    BY MaxCountAssumption DEF Counts
  <2>3. \A x \in {Unused} \cup [res : Resources, cnt : Counts] : x.cnt \in Nat
    BY <2>1, <2>2
  <2>4. QED
    BY <2>1, <2>2, <2>3 DEF Marked, Of
<1>2. IsFiniteSet(U) /\ Cardinality(U) \in Nat /\ Elements(st, U) \in Nat
  <2>1. \A c \in U : st[c].cnt \in Nat
    BY <1>1 DEF Of
  <2>2. QED
    BY <2>1, FS_CardinalityType, ElementsCounted
<1>3. Elements(su, U) = Elements(st, U)
  <2>1. \A c \in U : st[c].cnt = su[c].cnt
    BY <1>1 DEF Of
  <2>2. QED
    BY <1>2, <2>1, SameElements
<1>4. CASE q = r
  <2>1. V = U \cup {b}
    BY <1>1, <1>4 DEF Of
  <2>2. IsFiniteSet(V) /\ Cardinality(V) = Cardinality(U) + 1
    BY <1>1, <1>2, <2>1, FS_AddElement
  <2>3. Elements(su, V) = n + Elements(su, V \ {b})
    <3>1. b \in V /\ \A c \in V : su[c].cnt \in Nat
      BY <1>1, <2>1 DEF Of
    <3>2. su[b].cnt = n
      OBVIOUS
    <3>3. QED
      BY <2>2, <3>1, <3>2, OneBlockMore
  <2>4. V \ {b} = U
    BY <1>1, <2>1
  <2>5. Elements(su, V) = Elements(st, U) + n
    <3>1. Elements(su, V \ {b}) = Elements(st, U)
      BY <1>3, <2>4, Zenon
    <3>2. Elements(su, V) = n + Elements(st, U)
      BY <2>3, <3>1, Zenon
    <3>3. QED
      BY <1>1, <1>2, <3>2
  <2>6. QED
    BY <1>2, <1>4, <2>2, <2>5 DEF Entry
<1>5. CASE q # r
  <2>1. V = U
    BY <1>1, <1>5 DEF Of
  <2>2. QED
    BY <1>2, <1>3, <1>5, <2>1 DEF Entry
<1>6. QED
  BY <1>4, <1>5

LEMMA AllocateBooks ==
  ASSUME IInv, Books, NEW b \in Blocks, NEW r \in Resources, NEW n \in Counts,
         Allocate(b, r, n)
  PROVE  Books'
<1>1. /\ storage \in Marked
      /\ storage[b] = Unused
      /\ storage' = [storage EXCEPT ![b] = [res |-> r, cnt |-> n]]
      /\ outstanding' = [outstanding EXCEPT
                           ![r] = [blocks |-> @.blocks + 1, elements |-> @.elements + n]]
  BY DEF Allocate, IInv, Typed, Marked
<1>2. storage' \in Marked /\ storage'[b] = [res |-> r, cnt |-> n]
      /\ \A c \in Blocks \ {b} : storage[c] = storage'[c]
  BY <1>1 DEF Marked
<1>3. /\ \A q \in Resources : IsFiniteSet(Of(storage, q))
      /\ \A q \in Resources : outstanding[q] = Entry(storage, q)
      /\ outstanding \in Outstanding
  BY DEF Books
<1>4. \A q \in Resources :
        /\ IsFiniteSet(Of(storage', q))
        /\ Entry(storage, q) \in [blocks : Nat, elements : Nat]
        /\ Entry(storage', q) =
             [blocks |-> Entry(storage, q).blocks + (IF q = r THEN 1 ELSE 0),
              elements |-> Entry(storage, q).elements + (IF q = r THEN n ELSE 0)]
  <2> SUFFICES ASSUME NEW st, NEW su, st = storage, su = storage'
      PROVE  \A q \in Resources :
               /\ IsFiniteSet(Of(su, q))
               /\ Entry(st, q) \in [blocks : Nat, elements : Nat]
               /\ Entry(su, q) =
                    [blocks |-> Entry(st, q).blocks + (IF q = r THEN 1 ELSE 0),
                     elements |-> Entry(st, q).elements + (IF q = r THEN n ELSE 0)]
    OBVIOUS
  <2>1. /\ st \in Marked /\ su \in Marked
        /\ st[b] = Unused /\ su[b] = [res |-> r, cnt |-> n]
        /\ \A c \in Blocks \ {b} : st[c] = su[c]
        /\ \A q \in Resources : IsFiniteSet(Of(st, q))
    BY <1>1, <1>2, <1>3
  <2>2. QED
    BY <2>1, BlockOnBooks
<1>5. n \in Nat
  BY MaxCountAssumption DEF Counts
<1>6. ASSUME NEW q \in Resources PROVE outstanding'[q] = Entry(storage', q)
  <2>1. CASE q = r
    <3>1. outstanding'[q] = [blocks |-> outstanding[q].blocks + 1,
                             elements |-> outstanding[q].elements + n]
      BY <1>1, <1>3, <2>1 DEF Outstanding
    <3>2. QED
      BY <1>3, <1>4, <2>1, <3>1
  <2>2. CASE q # r
    <3>1. outstanding'[q] = outstanding[q]
      BY <1>1, <1>3, <2>2 DEF Outstanding
    <3>2. Entry(storage', q) = [blocks |-> Entry(storage, q).blocks,
                                elements |-> Entry(storage, q).elements]
      BY <1>4, <2>2
    <3>3. QED
      BY <1>3, <1>4, <3>1, <3>2
  <2>3. QED
    BY <2>1, <2>2
<1>7. outstanding' \in Outstanding
  BY <1>1, <1>3, <1>5 DEF Outstanding
<1>8. QED
  BY <1>4, <1>6, <1>7 DEF Books

LEMMA DeallocateBooks ==
  ASSUME IInv, Books, NEW b \in Blocks, NEW r \in Resources, NEW n \in Counts,
         storage[b] = [res |-> r, cnt |-> n], Deallocate(b, r, n)
  PROVE  Books'
<1>1. /\ storage \in Marked
      /\ storage' = [storage EXCEPT ![b] = Unused]
      /\ outstanding' = [outstanding EXCEPT
                           ![r] = [blocks |-> @.blocks - 1, elements |-> @.elements - n]]
  BY DEF Deallocate, IInv, Typed, Marked
<1>2. storage' \in Marked /\ storage'[b] = Unused
      /\ \A c \in Blocks \ {b} : storage'[c] = storage[c]
  BY <1>1 DEF Marked
<1>3. /\ \A q \in Resources : IsFiniteSet(Of(storage, q))
      /\ \A q \in Resources : outstanding[q] = Entry(storage, q)
      /\ outstanding \in Outstanding
  BY DEF Books
<1>4. ASSUME NEW q \in Resources PROVE IsFiniteSet(Of(storage', q))
  <2>1. Of(storage', q) \subseteq Of(storage, q)
    <3>1. Unused.res # q
      BY NullAssumption DEF Unused
    <3>2. QED
      BY <1>2, <3>1 DEF Of
  <2>2. QED
    BY <1>3, <2>1, FS_Subset
<1>5. \A q \in Resources :
        /\ Entry(storage', q) \in [blocks : Nat, elements : Nat]
        /\ Entry(storage, q) =
             [blocks |-> Entry(storage', q).blocks + (IF q = r THEN 1 ELSE 0),
              elements |-> Entry(storage', q).elements + (IF q = r THEN n ELSE 0)]
  <2> SUFFICES ASSUME NEW st, NEW su, st = storage', su = storage
      PROVE  \A q \in Resources :
               /\ Entry(st, q) \in [blocks : Nat, elements : Nat]
               /\ Entry(su, q) =
                    [blocks |-> Entry(st, q).blocks + (IF q = r THEN 1 ELSE 0),
                     elements |-> Entry(st, q).elements + (IF q = r THEN n ELSE 0)]
    OBVIOUS
  <2>1. /\ st \in Marked /\ su \in Marked
        /\ st[b] = Unused /\ su[b] = [res |-> r, cnt |-> n]
        /\ \A c \in Blocks \ {b} : st[c] = su[c]
        /\ \A q \in Resources : IsFiniteSet(Of(st, q))
    BY <1>1, <1>2, <1>4
  <2>2. QED
    BY <2>1, BlockOnBooks
<1>6. n \in Nat
  BY MaxCountAssumption DEF Counts
<1>7. ASSUME NEW q \in Resources PROVE outstanding'[q] = Entry(storage', q)
  <2>1. CASE q = r
    <3>1. outstanding'[q] = [blocks |-> outstanding[q].blocks - 1,
                             elements |-> outstanding[q].elements - n]
      BY <1>1, <1>3, <2>1 DEF Outstanding
    <3>2. outstanding[q] = [blocks |-> Entry(storage', q).blocks + 1,
                            elements |-> Entry(storage', q).elements + n]
      BY <1>3, <1>5, <2>1
    <3>3. QED
      BY <1>5, <1>6, <3>1, <3>2
  <2>2. CASE q # r
    <3>1. outstanding'[q] = outstanding[q]
      BY <1>1, <1>3, <2>2 DEF Outstanding
    <3>2. Entry(storage, q) = [blocks |-> Entry(storage', q).blocks,
                               elements |-> Entry(storage', q).elements]
      BY <1>5, <2>2
    <3>3. QED
      BY <1>3, <1>5, <3>1, <3>2
  <2>3. QED
    BY <2>1, <2>2
<1>8. outstanding' \in Outstanding
  <2>1. outstanding'[r] \in [blocks : Nat, elements : Nat]
    BY <1>5, <1>7
  <2>2. \A q \in Resources : outstanding'[q] \in [blocks : Nat, elements : Nat]
    BY <1>5, <1>7
  <2>3. outstanding' = [q \in Resources |-> outstanding'[q]]
    BY <1>1, <1>3 DEF Outstanding
  <2>4. QED
    BY <2>2, <2>3 DEF Outstanding
<1>9. QED
  BY <1>4, <1>7, <1>8 DEF Books

LEMMA InitBooks == AllocInit => Books
<1> SUFFICES ASSUME AllocInit PROVE Books
  OBVIOUS
<1>1. \A r \in Resources : Of(storage, r) = {}
  BY NullAssumption DEF AllocInit, Of, Unused
<1>2. IsFiniteSet({}) /\ Cardinality({}) = 0
  BY FS_EmptySet
<1>3. \A r \in Resources : Entry(storage, r) = [blocks |-> 0, elements |-> 0]
  BY <1>1, <1>2, NoElements DEF Entry
<1>4. /\ outstanding \in Outstanding
      /\ \A r \in Resources : outstanding[r] = [blocks |-> 0, elements |-> 0]
  BY DEF AllocInit, Outstanding
<1>5. QED
  BY <1>1, <1>2, <1>3, <1>4 DEF Books

LEMMA NextBooks == IInv /\ Books /\ [AllocNext]_allocVars => Books'
<1> SUFFICES ASSUME IInv, Books, [AllocNext]_allocVars PROVE Books'
  OBVIOUS
<1>1. ASSUME NEW o \in Owners, NEW r \in Resources, NewOne(o, r) PROVE Books'
  <2>1. 1 \in Counts
    BY MaxCountAssumption DEF Counts
  <2>2. PICK b \in Blocks : Allocate(b, r, 1)
    BY <1>1 DEF NewOne, New
  <2>3. QED
    BY <2>1, <2>2, AllocateBooks
<1>2. ASSUME NEW o \in Owners, NEW r \in Resources, NEW n \in Counts, NewArray(o, r, n)
      PROVE  Books'
  <2>1. PICK b \in Blocks : Allocate(b, r, n)
    BY <1>2 DEF NewArray, New
  <2>2. QED
    BY <2>1, AllocateBooks
<1>3. CASE GiveBack
  <2>1. calls # <<>> /\ Deallocate(Running.ptr, Running.res, Running.cnt)
    BY <1>3 DEF GiveBack
  <2>2. Running \in Call /\ CallFits(Running)
    BY <2>1, RunningCall DEF IInv
  <2>3. storage[Running.ptr] = [res |-> Running.res, cnt |-> Running.cnt]
    BY <2>2 DEF CallFits
  <2>4. Running.ptr \in Blocks /\ Running.res \in Resources /\ Running.cnt \in Counts
    BY <2>2 DEF Call
  <2>5. QED
    BY <2>1, <2>3, <2>4, DeallocateBooks
<1>4. ASSUME UNCHANGED <<storage, outstanding>> PROVE Books'
  BY <1>4, Zenon DEF Books
<1>5. CASE Construct \/ AllocateUnique \/ Throw \/ DestroyAt
  BY <1>4, <1>5 DEF Construct, AllocateUnique, Throw, DestroyAt
<1>6. CASE \E o \in Owners : Reset(o) \/ \E g \in Owners : MoveInto(o, g)
  BY <1>4, <1>6 DEF Reset, MoveInto
<1>7. CASE UNCHANGED allocVars
  BY <1>4, <1>7 DEF allocVars
<1>8. QED
  BY <1>1, <1>2, <1>3, <1>5, <1>6, <1>7 DEF AllocNext

-----------------------------------------------------------------------------
(* The theorems.                                                           *)

(* The inductive invariant holds in every reachable state.                 *)
THEOREM Invariance == AllocSpec => []IInv
BY InitIInv, NextIInv, PTL DEF AllocSpec

(* Every block in use has exactly one owner or running call, whatever      *)
(* constructors throw, and however calls nest and owners are moved over    *)
(* one another (allocator_new, allocator_delete and both deleters).        *)
THEOREM BlocksHaveOneOwner == AllocSpec => []OneOwner
BY Invariance, OneOwnerHolds, PTL

(* Every element is constructed once, and destroyed once before its block  *)
(* goes back, also those made before a constructor throws.                 *)
THEOREM ElementsLiveOnce == AllocSpec => []LifetimesRespected
BY Invariance, LifetimesHold, PTL
(* Every resource has handed out what is marked as its, in blocks and in   *)
(* elements: each block goes back to where it came from, with the count it *)
(* was asked for, whoever owned it in between and whichever deleter it     *)
(* went through.                                                           *)
THEOREM BooksAlwaysBalance == AllocSpec => []BooksBalance
<1>1. AllocSpec => []Books
  BY InitBooks, NextBooks, Invariance, PTL DEF AllocSpec
<1>2. QED
  BY <1>1, BooksBalanceHolds, PTL

(* The variables of Allocation keep their types: no resource ever gets     *)
(* back more than it has handed out.                                       *)
THEOREM TypeCorrect == AllocSpec => []AllocTypeOK
<1>1. IInv /\ Books => AllocTypeOK
  BY DEF IInv, Typed, Books, Outstanding, AllocTypeOK, Index, Call, Owned
<1>2. AllocSpec => []Books
  BY InitBooks, NextBooks, Invariance, PTL DEF AllocSpec
<1>3. QED
  BY <1>1, <1>2, Invariance, PTL
=============================================================================
