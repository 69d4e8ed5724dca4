-------------------------- MODULE SynchronizedProofs --------------------------
(***************************************************************************)
(* Theorems about Synchronized, for any threads, objects and values.       *)
(*                                                                         *)
(* A thread waits only for an object with a higher address than those it   *)
(* has locked, and in the body of a function it has locked what it works   *)
(* on: everything else follows from these two.                             *)
(***************************************************************************)
EXTENDS Synchronized, TLAPS

Readings == {"copy", "view"}
Binaries == {"assign", "move", "swap"}
Bodies   == Readings \cup Binaries \cup {"set", "modify"}

(* What a thread still wants lies above what it has, in other variables.   *)
WantsAscend ==
  \A t \in Threads :
    /\ wants[t] # {} => pc[t] = "lock"
    /\ \A g \in guards[t], w \in wants[t] : g.obj < w.obj /\ g.slot # w.slot
    /\ \A v, w \in wants[t] : v.slot = w.slot \/ v.obj = w.obj => v = w

(* A function locks, or has locked, the objects that it works on, and      *)
(* exclusively those that it changes.                                      *)
Covers(t, o, exclusive) ==
  \E g \in guards[t] \cup wants[t] :
    g.obj = o /\ (exclusive => g.mode = "unique")

BodiesCovered ==
  \A t \in Threads : pc[t] \in {"lock", "body"} =>
    /\ call[t].op \in Bodies \cup {"guard"}
    /\ pc[t] = "body" => call[t].op \in Bodies
    /\ pc[t] = "lock" =>
         /\ call[t].part = 1
         /\ call[t].op = "guard" => \A v, w \in wants[t] : v = w
    /\ call[t].op \in Bodies => Covers(t, call[t].left, call[t].op \notin Readings)
    /\ call[t].op \in Binaries =>
         /\ Covers(t, call[t].right, call[t].op # "assign")
         /\ call[t].left # call[t].right

(* Between the two parts of a change.                                      *)
Midway(t) == pc[t] = "body" /\ call[t].part = 2

Writes(t, o) ==
  \/ call[t].op \in Bodies \ Readings /\ o = call[t].left
  \/ call[t].op \in {"move", "swap"} /\ o = call[t].right

Accesses(t, o) ==
  \/ call[t].op \in Bodies /\ o = call[t].left
  \/ call[t].op \in Binaries /\ o = call[t].right

(* An object has two different parts only while it is being changed, and   *)
(* then its first part is the new one.                                     *)
PartsAgree ==
  \A o \in Objects :
    (\A t \in Threads : ~(Midway(t) /\ Writes(t, o))) => data[1][o] = data[2][o]

MidwayParts ==
  \A t \in Threads : Midway(t) =>
    LET c == call[t]
    IN /\ c.op \in Binaries => data[1][c.left] = data[2][c.right]
       /\ c.op = "move" => data[1][c.right] = c.val
       /\ c.op = "swap" => data[1][c.right] = data[2][c.left]
       /\ c.op \in {"set", "modify"} => data[1][c.left] = c.val
       /\ c.op \in Readings => c.val = data[2][c.left]

LockInv == TypeOK /\ WantsAscend /\ LocksMatchGuards /\ BodiesCovered
IInv    == LockInv /\ PartsAgree /\ MidwayParts

-----------------------------------------------------------------------------
(* What the client passes and the model's defaults have their types.       *)
LEMMA Defaults == AnyObject \in Objects /\ AnyValue \in Values /\ NoCall \in Calls
<1>1. AnyObject \in Objects
  BY ObjectsAssumption DEF AnyObject
<1>2. AnyValue \in Values
  BY ValuesAssumption DEF AnyValue
<1>3. QED
  BY <1>1, <1>2 DEF NoCall, Call, Calls, Ops, Parts

(* A thread of LockInv waits in the order of the addresses, so in any set  *)
(* of threads the one that waits for the highest object waits for nobody   *)
(* in the set.                                                             *)
LEMMA OrderPreventsCycles == LockInv => NoWaitCycle
<1> SUFFICES ASSUME LockInv, NEW S \in (SUBSET Threads) \ {{}},
                    \A t \in S : \E u \in S : WaitsFor(t, u)
             PROVE  FALSE
  BY DEF NoWaitCycle
<1> DEFINE Awaited ==
      {o \in Objects : \E t, u \in S : \E g \in wants[t] : \E h \in guards[u] :
                         First(t, g) /\ g.obj = o /\ h.obj = o}
<1>1. \A t \in S : \A g \in wants[t] \cup guards[t] : g.obj \in Objects
  BY DEF LockInv, TypeOK, Guards
<1>2. \A t \in S : \E g \in wants[t] : g.obj \in Awaited
  <2>1. SUFFICES ASSUME NEW t \in S
                 PROVE  \E g \in wants[t] : g.obj \in Awaited
    OBVIOUS
  <2>2. PICK u \in S : WaitsFor(t, u)
    OBVIOUS
  <2>3. PICK g \in wants[t], h \in guards[u] : First(t, g) /\ h.obj = g.obj
    BY <2>2 DEF WaitsFor
  <2>4. QED
    BY <1>1, <2>3
<1>3. PICK m \in Awaited : \A p \in Awaited : p <= m
  <2>1. Awaited # {}
    BY <1>2
  <2>2. Awaited \in SUBSET Objects
    OBVIOUS
  <2>3. QED
    BY <2>1, <2>2, ObjectsAssumption
<1>4. PICK u \in S : \E h \in guards[u] : h.obj = m
  OBVIOUS
<1>5. PICK k \in wants[u] : k.obj \in Awaited
  BY <1>2
<1>6. m < k.obj
  BY <1>4, <1>5 DEF LockInv, WantsAscend
<1>7. k.obj <= m /\ m \in Nat /\ k.obj \in Nat
  BY <1>3, <1>5, ObjectsAssumption
<1>8. QED
  BY <1>6, <1>7

-----------------------------------------------------------------------------
LEMMA InitIInv == Init => IInv
<1> SUFFICES ASSUME Init PROVE IInv
  OBVIOUS
<1> USE DEF Init
<1>1. TypeOK
  BY Defaults DEF TypeOK, Parts
<1>2. WantsAscend /\ BodiesCovered
  BY DEF WantsAscend, BodiesCovered
<1>3. LocksMatchGuards
  BY NoneAssumption DEF LocksMatchGuards, Mine
<1>4. PartsAgree /\ MidwayParts
  BY DEF PartsAgree, MidwayParts, Midway, Parts
<1>5. QED
  BY <1>1, <1>2, <1>3, <1>4 DEF IInv, LockInv

-----------------------------------------------------------------------------
(* Steps that touch neither locks nor data.                                *)

(* A thread enters a function whose locks cover it.                        *)
LEMMA EnterIInv ==
  ASSUME IInv, NEW t \in Threads, NEW c \in Calls, NEW w \in SUBSET Guards,
         Enter(t, c, w),
         c.part = 1,
         \A g \in guards[t] : \A v \in w : g.obj < v.obj /\ g.slot # v.slot,
         \A u, v \in w : u.slot = v.slot \/ u.obj = v.obj => u = v,
         c.op \in Bodies \cup {"guard"},
         c.op = "guard" => \A u, v \in w : u = v,
         c.op \in Bodies =>
           \E g \in w : g.obj = c.left /\ (c.op \notin Readings => g.mode = "unique"),
         c.op \in Binaries =>
           /\ \E g \in w : g.obj = c.right /\ (c.op # "assign" => g.mode = "unique")
           /\ c.left # c.right
  PROVE  IInv'
<1> USE DEF IInv, LockInv, Enter
<1>1. TypeOK'
  BY DEF TypeOK, locks
<1>2. WantsAscend'
  BY DEF WantsAscend, TypeOK
<1>3. LocksMatchGuards'
  BY DEF LocksMatchGuards, Mine, locks
<1>4. BodiesCovered'
  BY DEF BodiesCovered, Covers, TypeOK
<1>5. PartsAgree'
  BY DEF PartsAgree, Midway, Writes, TypeOK
<1>6. MidwayParts'
  BY DEF MidwayParts, Midway, TypeOK
<1>7. QED
  BY <1>1, <1>2, <1>3, <1>4, <1>5, <1>6

LEMMA WithOneIInv ==
  ASSUME IInv, NEW t \in Threads, NEW c \in Calls, NEW m \in Modes,
         WithOne(t, c, m),
         c.part = 1,
         c.op \in {"set", "copy"},
         c.op = "set" => m = "unique"
  PROVE  IInv'
<1> DEFINE w == {Guard(1, c.left, m)}
<1>1. w \in SUBSET Guards
  BY DEF Guard, Guards, Slots, Calls
<1>2. \E g \in w : g.obj = c.left /\ (c.op \notin Readings => g.mode = "unique")
  BY DEF Guard, Readings
<1>3. \A g \in guards[t] : \A v \in w : g.obj < v.obj /\ g.slot # v.slot
  BY DEF WithOne
<1>4. c.op \in Bodies /\ c.op \notin Binaries /\ c.op # "guard"
  BY DEF Bodies, Binaries, Readings
<1>5. Enter(t, c, w)
  BY DEF WithOne
<1> HIDE DEF w
<1>6. \A u, v \in w : u = v
  BY DEF w
<1>7. QED
  BY <1>1, <1>2, <1>3, <1>4, <1>5, <1>6, EnterIInv

LEMMA WithTwoIInv ==
  ASSUME IInv, NEW t \in Threads, NEW c \in Calls, NEW m \in Modes,
         WithTwo(t, c, m),
         c.part = 1,
         c.op \in Binaries,
         c.left # c.right,
         c.op # "assign" => m = "unique"
  PROVE  IInv'
<1> DEFINE w == {Guard(1, c.left, TargetMode), Guard(2, c.right, m)}
<1>1. w \in SUBSET Guards
  BY DEF Guard, Guards, Slots, Calls, TargetMode, Modes
<1>2. \E g \in w : g.obj = c.left /\ g.mode = "unique"
  BY DEF Guard, TargetMode
<1>3. \E g \in w : g.obj = c.right /\ (c.op # "assign" => g.mode = "unique")
  BY DEF Guard
<1>4. \A u, v \in w : u.slot = v.slot \/ u.obj = v.obj => u = v
  BY DEF Guard
<1>5. \A g \in guards[t] : \A v \in w : g.obj < v.obj /\ g.slot # v.slot
  BY DEF WithTwo
<1>6. c.op \in Bodies /\ c.op # "guard"
  BY DEF Bodies, Binaries
<1>7. Enter(t, c, w)
  BY DEF WithTwo
<1> HIDE DEF w
<1>8. QED
  BY <1>1, <1>2, <1>3, <1>4, <1>5, <1>6, <1>7, EnterIInv

LEMMA FunctionIInv ==
  ASSUME IInv, NEW t \in Threads, Function(t)
  PROVE  IInv'
<1>1. ConstMode \in Modes /\ "unique" \in Modes
  BY DEF ConstMode, Modes
<1>2. ASSUME NEW op \in Ops, NEW l \in Objects, NEW r \in Objects, NEW v \in Values
      PROVE  /\ Call(op, l, r, v) \in Calls
             /\ Call(op, l, r, v).op = op
             /\ Call(op, l, r, v).left = l
             /\ Call(op, l, r, v).right = r
             /\ Call(op, l, r, v).part = 1
  BY DEF Call, Calls, Parts
<1>3. ASSUME NEW l \in Objects, NEW r \in Objects, Assign(t, l, r)
      PROVE  IInv'
  <2>1. "assign" \in Ops /\ "assign" \in Binaries
    BY DEF Ops, Binaries
  <2>2. QED
    BY <1>1, <1>2, <1>3, <2>1, Defaults, WithTwoIInv DEF Assign, Distinct
<1>4. ASSUME NEW l \in Objects, NEW r \in Objects, NEW v \in Values,
             MoveAssign(t, l, r, v)
      PROVE  IInv'
  <2>1. "move" \in Ops /\ "move" \in Binaries
    BY DEF Ops, Binaries
  <2>2. QED
    BY <1>1, <1>2, <1>4, <2>1, WithTwoIInv DEF MoveAssign, Distinct
<1>5. ASSUME NEW l \in Objects, NEW r \in Objects, Swap(t, l, r)
      PROVE  IInv'
  <2>1. "swap" \in Ops /\ "swap" \in Binaries
    BY DEF Ops, Binaries
  <2>2. QED
    BY <1>1, <1>2, <1>5, <2>1, Defaults, WithTwoIInv DEF Swap, Distinct
<1>6. ASSUME NEW l \in Objects, NEW v \in Values, Set(t, l, v)
      PROVE  IInv'
  <2>1. "set" \in Ops
    BY DEF Ops
  <2>2. QED
    BY <1>1, <1>2, <1>6, <2>1, WithOneIInv DEF Set
<1>7. ASSUME NEW l \in Objects, Copy(t, l)
      PROVE  IInv'
  <2>1. "copy" \in Ops
    BY DEF Ops
  <2>2. QED
    BY <1>1, <1>2, <1>7, <2>1, Defaults, WithOneIInv DEF Copy
<1>8. QED
  BY <1>3, <1>4, <1>5, <1>6, <1>7 DEF Function

LEMMA KeepGuardIInv ==
  ASSUME IInv, NEW t \in Threads, NEW s \in Slots, NEW o \in Objects,
         NEW m \in Modes, KeepGuard(t, s, o, m)
  PROVE  IInv'
<1> DEFINE c == Call("guard", o, o, AnyValue)
           w == {Guard(s, o, m)}
<1>1. c \in Calls /\ c.op = "guard" /\ c.part = 1
  BY Defaults DEF Call, Calls, Parts, Ops
<1>2. w \in SUBSET Guards
  BY DEF Guard, Guards
<1>3. \A g \in guards[t] : \A v \in w : g.obj < v.obj /\ g.slot # v.slot
  BY DEF KeepGuard, Empty, Guard
<1>4. c.op \notin Bodies /\ c.op \notin Binaries
  BY DEF Bodies, Binaries, Readings, Call
<1>5. Enter(t, c, w)
  BY DEF KeepGuard
<1> HIDE DEF c, w
<1>6. \A u, v \in w : u = v
  BY DEF w
<1>7. QED
  BY <1>1, <1>2, <1>3, <1>4, <1>5, <1>6, EnterIInv

(* A client works on the object of a guard that it keeps.                  *)
LEMMA UseGuardIInv ==
  ASSUME IInv, NEW t \in Threads, NEW g \in guards[t],
         NEW op \in {"modify", "view"}, NEW v \in Values,
         op = "modify" => g.mode = "unique",
         UseGuard(t, g, op, v)
  PROVE  IInv'
<1> USE DEF IInv, LockInv, UseGuard
<1>1. g \in Guards /\ g.obj \in Objects
  BY DEF TypeOK, Guards
<1>2. Call(op, g.obj, g.obj, v) \in Calls
  BY <1>1 DEF Call, Calls, Parts, Ops
<1>3. TypeOK'
  BY <1>2 DEF TypeOK, locks
<1>4. WantsAscend'
  BY DEF WantsAscend, TypeOK
<1>5. LocksMatchGuards'
  BY DEF LocksMatchGuards, Mine, locks
<1>6. op \in Bodies /\ op \notin Binaries /\ (op = "view" <=> op \in Readings)
  BY DEF Bodies, Binaries, Readings
<1>7. BodiesCovered'
  BY <1>6 DEF BodiesCovered, Covers, TypeOK, Call
<1>8. PartsAgree' /\ MidwayParts'
  BY DEF PartsAgree, MidwayParts, Midway, Writes, TypeOK, Call
<1>9. QED
  BY <1>3, <1>4, <1>5, <1>7, <1>8

(* Everything about data that an idle thread's steps with its guards keep. *)
LEMMA SameData ==
  ASSUME PartsAgree, MidwayParts, UNCHANGED <<data, call>>,
         \A t \in Threads : (pc'[t] = "body") <=> (pc[t] = "body")
  PROVE  PartsAgree' /\ MidwayParts'
<1>1. \A t \in Threads : Midway(t)' <=> Midway(t)
  BY DEF Midway
<1>2. \A t \in Threads, o \in Objects : Writes(t, o)' <=> Writes(t, o)
  BY DEF Writes
<1>3. PartsAgree'
  BY <1>1, <1>2 DEF PartsAgree
<1>4. MidwayParts'
  BY <1>1 DEF MidwayParts
<1>5. QED
  BY <1>3, <1>4

(* A guard dies or is moved over: the mutex of its object is unlocked, and *)
(* the guards that the thread has left, G, hold what the others held.      *)
LEMMA ReleaseLocks ==
  ASSUME TypeOK, LocksMatchGuards, NEW t \in Threads, NEW h \in guards[t],
         NEW G \in SUBSET Guards,
         Release(t, h), guards' = [guards EXCEPT ![t] = G],
         \A g \in G : g.obj # h.obj,
         \A f, g \in G : f.obj = g.obj => f = g,
         \A g \in G : \E f \in guards[t] : f.obj = g.obj /\ f.mode = g.mode,
         \A f \in guards[t] :
           f.obj # h.obj => \E g \in G : f.obj = g.obj /\ f.mode = g.mode
  PROVE  /\ LocksMatchGuards'
         /\ owner' \in [Objects -> Threads \cup {None}]
         /\ sharers' \in [Objects -> SUBSET Threads]
<1>1. h \in Guards /\ h.obj \in Objects /\ h.mode \in Modes
  BY DEF TypeOK, Guards
<1>2. /\ owner' = IF h.mode = "unique" THEN [owner EXCEPT ![h.obj] = None] ELSE owner
      /\ sharers' = IF h.mode = "unique" THEN sharers
                    ELSE [sharers EXCEPT ![h.obj] = @ \ {t}]
  BY DEF Release
<1>3. /\ owner' \in [Objects -> Threads \cup {None}]
      /\ sharers' \in [Objects -> SUBSET Threads]
  BY <1>1, <1>2 DEF TypeOK
<1>4. ASSUME NEW o \in Objects, NEW u \in Threads
      PROVE  /\ (owner[o] = u)' <=> (\E g \in Mine(u, o) : g.mode = "unique")'
             /\ (u \in sharers[o])' <=> (\E g \in Mine(u, o) : g.mode = "shared")'
             /\ (\A f, g \in Mine(u, o) : f = g)'
  <2>1. CASE u # t
    <3>1. Mine(u, o)' = Mine(u, o)
      BY <2>1 DEF Mine, TypeOK
    <3>2. owner[o] = u => (h.mode = "unique" => o # h.obj)
      BY <2>1, <1>1 DEF LocksMatchGuards, Mine
    <3>3. (owner'[o] = u <=> owner[o] = u) /\ (u \in sharers'[o] <=> u \in sharers[o])
      BY <2>1, <3>2, <1>1, <1>2, NoneAssumption DEF TypeOK
    <3>4. QED
      BY <3>1, <3>3 DEF LocksMatchGuards
  <2>2. CASE u = t /\ o # h.obj
    <3>1. Mine(t, o)' = {g \in G : g.obj = o}
      BY DEF Mine, TypeOK
    <3>2. \A m \in Modes : (\E g \in Mine(t, o)' : g.mode = m)
                            <=> (\E g \in Mine(t, o) : g.mode = m)
      BY <2>2, <3>1 DEF Mine
    <3>3. owner'[o] = owner[o] /\ sharers'[o] = sharers[o]
      BY <2>2, <1>1, <1>2 DEF TypeOK
    <3>4. QED
      BY <2>2, <3>1, <3>2, <3>3 DEF LocksMatchGuards, Modes
  <2>3. CASE u = t /\ o = h.obj
    <3>1. Mine(t, o)' = {}
      BY <2>3 DEF Mine, TypeOK
    <3>2. h \in Mine(t, o) /\ \A g \in Mine(t, o) : g = h
      BY <2>3 DEF LocksMatchGuards, Mine
    <3>3. owner'[o] # t
      BY <2>3, <3>2, <1>1, <1>2, NoneAssumption DEF TypeOK, LocksMatchGuards, Modes
    <3>4. t \notin sharers'[o]
      BY <2>3, <3>2, <1>1, <1>2 DEF TypeOK, LocksMatchGuards, Modes
    <3>5. QED
      BY <2>3, <3>1, <3>3, <3>4
  <2>4. QED
    BY <2>1, <2>2, <2>3
<1>5. ASSUME NEW o \in Objects, owner'[o] # None
      PROVE  sharers'[o] = {}
  BY <1>1, <1>2, <1>5 DEF LocksMatchGuards, TypeOK
<1>6. LocksMatchGuards'
  BY <1>4, <1>5 DEF LocksMatchGuards
<1>7. QED
  BY <1>3, <1>6

(* A client rearranges its guards between calls: data is untouched, and no *)
(* guard is awaited.                                                       *)
LEMMA IdleIInv ==
  ASSUME IInv, NEW t \in Threads, NEW G \in SUBSET Guards,
         pc[t] = "idle",
         guards' = [guards EXCEPT ![t] = G],
         \A f, g \in G : f.slot = g.slot => f = g,
         LocksMatchGuards',
         owner' \in [Objects -> Threads \cup {None}],
         sharers' \in [Objects -> SUBSET Threads],
         UNCHANGED <<data, wants, pc, call>>,
         seen' \in [Threads -> (Values \X Values) \cup {None}]
  PROVE  IInv'
<1> USE DEF IInv, LockInv
<1>1. TypeOK'
  BY DEF TypeOK
<1>2. WantsAscend'
  <2>1. wants[t] = {}
    BY DEF WantsAscend
  <2>2. \A u \in Threads : u = t \/ guards'[u] = guards[u]
    BY DEF TypeOK
  <2>3. QED
    BY <2>1, <2>2 DEF WantsAscend
<1>3. BodiesCovered'
  <2>1. ASSUME NEW u \in Threads, pc[u] \in {"lock", "body"}
        PROVE  guards'[u] = guards[u]
    BY <2>1 DEF TypeOK
  <2>2. QED
    BY <2>1 DEF BodiesCovered, Covers
<1>4. PartsAgree' /\ MidwayParts'
  BY SameData
<1>5. QED
  BY <1>1, <1>2, <1>3, <1>4

LEMMA MoveGuardIInv ==
  ASSUME IInv, NEW t \in Threads, NEW g \in guards[t], NEW s \in Slots,
         MoveGuard(t, g, s)
  PROVE  IInv'
<1> DEFINE G == (guards[t] \ {g}) \cup {Guard(s, g.obj, g.mode)}
<1>1. TypeOK /\ LocksMatchGuards
  BY DEF IInv, LockInv
<1>2. g \in Guards /\ g.obj \in Objects /\ g.mode \in Modes /\ guards[t] \in SUBSET Guards
  BY <1>1 DEF TypeOK, Guards
<1>3. G \in SUBSET Guards
  BY <1>2 DEF Guard, Guards
<1>4. \A f, h \in G : f.slot = h.slot => f = h
  BY <1>1 DEF MoveGuard, Empty, Guard, TypeOK
<1>5. guards' = [guards EXCEPT ![t] = G]
  BY DEF MoveGuard, Emptied
<1>6. LocksMatchGuards'
  <2>1. \A f, h \in guards[t] : f.obj = h.obj => f = h
    BY <1>1, <1>2 DEF LocksMatchGuards, Mine, Guards
  <2>2. \A f, h \in G : f.obj = h.obj => f = h
    BY <2>1 DEF Guard
  <2>3. ASSUME NEW o, NEW m
        PROVE  (\E h \in G : h.obj = o /\ h.mode = m)
                 <=> (\E h \in guards[t] : h.obj = o /\ h.mode = m)
    <3> DEFINE k == Guard(s, g.obj, g.mode)
    <3>1. k.obj = g.obj /\ k.mode = g.mode
      BY DEF Guard
    <3> HIDE DEF k
    <3>2. \A h : h \in G <=> (h \in guards[t] /\ h # g) \/ h = k
      BY DEF k
    <3>3. QED
      BY <3>1, <3>2
  <2>4. UNCHANGED <<owner, sharers>>
    BY DEF MoveGuard, locks
  <2>5. \A u \in Threads, o \in Objects :
          /\ u # t => Mine(u, o)' = Mine(u, o)
          /\ u = t => Mine(u, o)' = {h \in G : h.obj = o}
    BY <1>1, <1>5 DEF Mine, TypeOK
  <2> HIDE DEF G
  <2>6. ASSUME NEW o \in Objects, NEW m
        PROVE  (\E h \in Mine(t, o)' : h.mode = m) <=> (\E h \in Mine(t, o) : h.mode = m)
    BY <2>3, <2>5 DEF Mine
  <2>7. ASSUME NEW o \in Objects, NEW u \in Threads
        PROVE  /\ (owner[o] = u)' <=> (\E h \in Mine(u, o) : h.mode = "unique")'
               /\ (u \in sharers[o])' <=> (\E h \in Mine(u, o) : h.mode = "shared")'
               /\ (\A f, h \in Mine(u, o) : f = h)'
    <3>1. CASE u = t
      BY <1>1, <2>2, <2>4, <2>5, <2>6, <3>1 DEF LocksMatchGuards
    <3>2. CASE u # t
      BY <1>1, <2>4, <2>5, <3>2 DEF LocksMatchGuards
    <3>3. QED
      BY <3>1, <3>2
  <2>8. QED
    BY <1>1, <2>4, <2>7 DEF LocksMatchGuards
<1> HIDE DEF G
<1>7. pc[t] = "idle" /\ UNCHANGED <<data, owner, sharers, wants, pc, call, seen>>
  BY DEF MoveGuard, locks
<1>8. QED
  BY <1>1, <1>3, <1>4, <1>5, <1>6, <1>7, IdleIInv DEF TypeOK

LEMMA DropIInv ==
  ASSUME IInv, NEW t \in Threads, NEW g \in guards[t], Drop(t, g)
  PROVE  IInv'
<1> DEFINE G == guards[t] \ {g}
<1>1. TypeOK /\ LocksMatchGuards
  BY DEF IInv, LockInv
<1>2. G \in SUBSET Guards /\ g \in Guards
  BY <1>1 DEF TypeOK
<1>3. \A f, h \in guards[t] : (f.obj = h.obj \/ f.slot = h.slot) => f = h
  BY <1>1 DEF LocksMatchGuards, Mine, TypeOK, Guards
<1>4. /\ Release(t, g) /\ guards' = [guards EXCEPT ![t] = G]
      /\ pc[t] = "idle" /\ UNCHANGED <<data, wants, pc, call>>
  BY DEF Drop
<1>5. seen' \in [Threads -> (Values \X Values) \cup {None}]
  BY <1>1 DEF Drop, TypeOK
<1>6. /\ \A h \in G : h.obj # g.obj
      /\ \A h \in G : h \in guards[t]
      /\ \A h \in guards[t] : h.obj # g.obj => h \in G
  BY <1>3
<1> HIDE DEF G
<1>7. /\ LocksMatchGuards'
      /\ owner' \in [Objects -> Threads \cup {None}]
      /\ sharers' \in [Objects -> SUBSET Threads]
  BY <1>1, <1>2, <1>3, <1>4, <1>6, ReleaseLocks
<1>8. QED
  BY <1>2, <1>3, <1>4, <1>5, <1>6, <1>7, IdleIInv

LEMMA MoveGuardOverIInv ==
  ASSUME IInv, NEW t \in Threads, NEW g \in guards[t], NEW h \in guards[t],
         MoveGuardOver(t, g, h)
  PROVE  IInv'
<1> DEFINE k == Guard(h.slot, g.obj, g.mode)
           G == (guards[t] \ {g, h}) \cup (IF g = h THEN {} ELSE {k})
<1>1. TypeOK /\ LocksMatchGuards
  BY DEF IInv, LockInv
<1>2. /\ guards[t] \in SUBSET Guards
      /\ g \in Guards /\ h \in Guards /\ k \in Guards
      /\ k.obj = g.obj /\ k.mode = g.mode /\ k.slot = h.slot
  BY <1>1 DEF TypeOK, Guard, Guards
<1>3. \A e, f \in guards[t] : (e.obj = f.obj \/ e.slot = f.slot) => e = f
  BY <1>1 DEF LocksMatchGuards, Mine, TypeOK, Guards
<1>4. /\ Release(t, h) /\ guards' = [guards EXCEPT ![t] = G]
      /\ pc[t] = "idle" /\ UNCHANGED <<data, wants, pc, call, seen>>
  BY DEF MoveGuardOver, Replaced
<1> HIDE DEF k
<1>5. G \in SUBSET Guards
  BY <1>2
<1>6. \A f : f \in G <=> (f \in guards[t] /\ f # g /\ f # h) \/ (g # h /\ f = k)
  OBVIOUS
<1> HIDE DEF G
<1>7. \A e, f \in G : (e.obj = f.obj \/ e.slot = f.slot) => e = f
  BY <1>2, <1>3, <1>6
<1>8. \A f \in G : f.obj # h.obj
  BY <1>2, <1>3, <1>6
<1>9. \A f \in G : \E e \in guards[t] : e.obj = f.obj /\ e.mode = f.mode
  BY <1>2, <1>6
<1>10. \A e \in guards[t] :
         e.obj # h.obj => \E f \in G : e.obj = f.obj /\ e.mode = f.mode
  BY <1>2, <1>3, <1>6
<1>11. /\ LocksMatchGuards'
       /\ owner' \in [Objects -> Threads \cup {None}]
       /\ sharers' \in [Objects -> SUBSET Threads]
  <2>1. \A e, f \in G : e.obj = f.obj => e = f
    BY <1>7
  <2>2. QED
    BY <1>1, <1>4, <1>5, <1>8, <1>9, <1>10, <2>1, ReleaseLocks, ZenonT(40)
<1>12. QED
  BY <1>1, <1>4, <1>5, <1>7, <1>11, IdleIInv DEF TypeOK

-----------------------------------------------------------------------------
(* The steps inside the functions.                                         *)

(* What is in the body of a function has locked what the function works    *)
(* on, so no other thread is in a body that works on what one changes.     *)
LEMMA Exclusive ==
  ASSUME TypeOK, WantsAscend, LocksMatchGuards, BodiesCovered,
         NEW t \in Threads, NEW u \in Threads, t # u,
         pc[t] = "body", pc[u] = "body",
         NEW o \in Objects, Writes(t, o)
  PROVE  ~Accesses(u, o)
<1> SUFFICES ASSUME Accesses(u, o) PROVE FALSE
  OBVIOUS
<1>1. wants[t] = {} /\ wants[u] = {}
  BY DEF WantsAscend
<1>2. \E g \in guards[t] : g.obj = o /\ g.mode = "unique"
  BY <1>1 DEF Writes, BodiesCovered, Covers, Bodies, Binaries, Readings
<1>3. \E g \in guards[u] : g.obj = o
  BY <1>1 DEF Accesses, BodiesCovered, Covers
<1>4. owner[o] = t /\ sharers[o] = {}
  BY <1>2, NoneAssumption DEF LocksMatchGuards, Mine
<1>5. owner[o] = u \/ u \in sharers[o]
  <2>1. \A g \in guards[u] : g.mode \in {"unique", "shared"}
    BY DEF TypeOK, Guards, Modes
  <2>2. QED
    BY <1>3, <2>1 DEF LocksMatchGuards, Mine
<1>6. QED
  BY <1>4, <1>5

(* A thread outside the body of a function, before and after its step, has *)
(* nothing to do with what is in the middle of a change.                   *)
LEMMA OutsideData ==
  ASSUME TypeOK, PartsAgree, MidwayParts, NEW t \in Threads, UNCHANGED data,
         \A u \in Threads : u # t => pc'[u] = pc[u] /\ call'[u] = call[u],
         ~Midway(t), ~Midway(t)'
  PROVE  PartsAgree' /\ MidwayParts'
<1>1. ASSUME NEW u \in Threads, u # t
      PROVE  /\ Midway(u)' <=> Midway(u)
             /\ call'[u] = call[u]
  BY <1>1 DEF Midway
<1>2. \A u \in Threads, o \in Objects :
        (Midway(u) /\ Writes(u, o))' <=> (Midway(u) /\ Writes(u, o))
  <2>1. ASSUME NEW u \in Threads, NEW o \in Objects, u # t
        PROVE  Writes(u, o)' <=> Writes(u, o)
    BY <1>1, <2>1 DEF Writes
  <2>2. QED
    BY <1>1, <2>1
<1>3. PartsAgree'
  BY <1>2 DEF PartsAgree
<1>4. MidwayParts'
  BY <1>1 DEF MidwayParts
<1>5. QED
  BY <1>3, <1>4

LEMMA LockIInv ==
  ASSUME IInv, NEW t \in Threads, Lock(t)
  PROVE  IInv'
<1>1. TypeOK /\ WantsAscend /\ LocksMatchGuards /\ BodiesCovered
  BY DEF IInv, LockInv
<1>2. PICK g \in wants[t] :
        /\ pc[t] = "lock"
        /\ First(t, g)
        /\ Acquire(t, g)
        /\ guards' = [guards EXCEPT ![t] = @ \cup {g}]
        /\ wants' = [wants EXCEPT ![t] = @ \ {g}]
        /\ pc' = [pc EXCEPT ![t] = IF wants[t] # {g} THEN "lock"
                                   ELSE IF call[t].op = "guard" THEN "idle"
                                   ELSE "body"]
        /\ call' = [call EXCEPT ![t] = IF @.op = "guard" THEN NoCall ELSE @]
        /\ UNCHANGED <<data, seen>>
  BY DEF Lock
<1>3. g \in Guards /\ g.obj \in Objects /\ g.mode \in Modes
  BY <1>1 DEF TypeOK, Guards
<1>4. \A h \in guards[t] : h.obj < g.obj /\ h.obj # g.obj /\ h.slot # g.slot
  <2>1. \A h \in guards[t] : h.obj \in Objects
    BY <1>1 DEF TypeOK, Guards
  <2>2. \A h \in guards[t] : h.obj \in Nat
    BY <2>1, ObjectsAssumption
  <2>3. QED
    BY <1>1, <1>3, <2>2, ObjectsAssumption DEF WantsAscend
<1>5. /\ guards'[t] = guards[t] \cup {g}
      /\ wants'[t] = wants[t] \ {g}
      /\ \A u \in Threads : u # t => /\ guards'[u] = guards[u]
                                     /\ wants'[u] = wants[u]
                                     /\ pc'[u] = pc[u]
                                     /\ call'[u] = call[u]
  BY <1>1, <1>2 DEF TypeOK
<1>6. /\ owner' = IF g.mode = "unique" THEN [owner EXCEPT ![g.obj] = t] ELSE owner
      /\ sharers' = IF g.mode = "unique" THEN sharers
                    ELSE [sharers EXCEPT ![g.obj] = @ \cup {t}]
      /\ owner[g.obj] = None
      /\ g.mode = "unique" => sharers[g.obj] = {}
  BY <1>2 DEF Acquire, Free
<1>7. TypeOK'
  <2>1. /\ owner' \in [Objects -> Threads \cup {None}]
        /\ sharers' \in [Objects -> SUBSET Threads]
    BY <1>1, <1>3, <1>6 DEF TypeOK
  <2>2. /\ guards' \in [Threads -> SUBSET Guards]
        /\ wants' \in [Threads -> SUBSET Guards]
    BY <1>1, <1>2, <1>3 DEF TypeOK
  <2>3. \A u \in Threads : \A e, f \in guards'[u] : e.slot = f.slot => e = f
    BY <1>1, <1>4, <1>5 DEF TypeOK
  <2>4. /\ pc' \in [Threads -> {"idle", "lock", "body", "unlock"}]
        /\ call' \in [Threads -> Calls]
    BY <1>1, <1>2, Defaults DEF TypeOK
  <2>5. QED
    BY <1>1, <1>2, <2>1, <2>2, <2>3, <2>4 DEF TypeOK
<1>8. WantsAscend'
  <2>1. \A w \in wants'[t] : g.obj < w.obj /\ g.slot # w.slot
    <3>1. \A w \in wants[t] : w.obj \in Objects
      BY <1>1 DEF TypeOK, Guards
    <3>2. ASSUME NEW w \in wants[t], w # g
          PROVE  g.obj <= w.obj /\ g.obj # w.obj /\ g.slot # w.slot
      BY <1>1, <1>2, <3>2 DEF WantsAscend, First, ByAddress
    <3>3. \A i \in Nat, j \in Nat : i <= j /\ i # j => i < j
      OBVIOUS
    <3>4. \A w \in wants'[t] : w \in wants[t] /\ w # g
      BY <1>5
    <3>5. QED
      BY <1>3, <3>1, <3>2, <3>3, <3>4, ObjectsAssumption
  <2>2. wants'[t] # {} => pc'[t] = "lock"
    BY <1>1, <1>2, <1>5 DEF TypeOK
  <2>3. QED
    BY <1>1, <1>5, <2>1, <2>2 DEF WantsAscend
<1>9. LocksMatchGuards'
  <2>1. ASSUME NEW o \in Objects, NEW u \in Threads
        PROVE  /\ (owner[o] = u)' <=> (\E h \in Mine(u, o) : h.mode = "unique")'
               /\ (u \in sharers[o])' <=> (\E h \in Mine(u, o) : h.mode = "shared")'
               /\ (\A f, h \in Mine(u, o) : f = h)'
    <3>1. CASE o # g.obj
      <4>1. Mine(u, o)' = Mine(u, o)
        BY <1>5, <3>1 DEF Mine
      <4>2. owner'[o] = owner[o] /\ sharers'[o] = sharers[o]
        BY <1>1, <1>3, <1>6, <3>1 DEF TypeOK
      <4>3. QED
        BY <1>1, <4>1, <4>2 DEF LocksMatchGuards
    <3>2. CASE o = g.obj /\ u # t
      <4>1. Mine(u, o)' = Mine(u, o)
        BY <1>5, <3>2 DEF Mine
      <4>2. owner'[o] # u /\ owner[o] # u
        BY <1>1, <1>3, <1>6, <3>2, NoneAssumption DEF TypeOK
      <4>3. u \in sharers'[o] <=> u \in sharers[o]
        BY <1>1, <1>3, <1>6, <3>2 DEF TypeOK
      <4>4. QED
        BY <1>1, <4>1, <4>2, <4>3 DEF LocksMatchGuards
    <3>3. CASE o = g.obj /\ u = t
      <4>1. Mine(t, o) = {} /\ Mine(t, o)' = {g}
        BY <1>4, <1>5, <3>3 DEF Mine
      <4>2. owner[o] # t /\ t \notin sharers[o]
        BY <1>1, <3>3, <4>1 DEF LocksMatchGuards
      <4>3. owner'[o] = t <=> g.mode = "unique"
        BY <1>1, <1>3, <1>6, <3>3, <4>2 DEF TypeOK
      <4>4. t \in sharers'[o] <=> g.mode = "shared"
        BY <1>1, <1>3, <1>6, <3>3, <4>2 DEF TypeOK, Modes
      <4>5. QED
        BY <3>3, <4>1, <4>3, <4>4
    <3>4. QED
      BY <3>1, <3>2, <3>3
  <2>2. ASSUME NEW o \in Objects, owner'[o] # None
        PROVE  sharers'[o] = {}
    BY <1>1, <1>3, <1>6, <2>2 DEF LocksMatchGuards, TypeOK
  <2>3. QED
    BY <2>1, <2>2 DEF LocksMatchGuards
<1>10. BodiesCovered'
  <2>1. \A u \in Threads : guards'[u] \cup wants'[u] = guards[u] \cup wants[u]
    BY <1>5
  <2>2. \A u \in Threads : \A o, exclusive :
          Covers(u, o, exclusive)' <=> Covers(u, o, exclusive)
    BY <2>1 DEF Covers
  <2>3. CASE call[t].op = "guard"
    <3>1. pc'[t] = "idle"
      BY <1>1, <1>2, <2>3 DEF BodiesCovered, TypeOK
    <3>2. QED
      BY <1>1, <1>5, <2>2, <3>1 DEF BodiesCovered
  <2>4. CASE call[t].op # "guard"
    <3>1. pc'[t] \in {"lock", "body"} /\ call'[t] = call[t]
      BY <1>1, <1>2, <2>4 DEF TypeOK
    <3>2. QED
      BY <1>1, <1>2, <1>5, <2>2, <2>4, <3>1 DEF BodiesCovered
  <2>5. QED
    BY <2>3, <2>4
<1>11. PartsAgree' /\ MidwayParts'
  <2>1. ~Midway(t)
    BY <1>2 DEF Midway
  <2>2. ~Midway(t)'
    BY <1>1, <1>2 DEF Midway, BodiesCovered, TypeOK
  <2>3. QED
    BY <1>1, <1>2, <1>5, <2>1, <2>2, OutsideData DEF IInv
<1>12. QED
  BY <1>7, <1>8, <1>9, <1>10, <1>11 DEF IInv, LockInv

LEMMA UnlockIInv ==
  ASSUME IInv, NEW t \in Threads, Unlock(t)
  PROVE  IInv'
<1>1. TypeOK /\ WantsAscend /\ LocksMatchGuards /\ BodiesCovered
  BY DEF IInv, LockInv
<1>2. PICK g \in guards[t] :
        /\ pc[t] = "unlock"
        /\ Release(t, g)
        /\ guards' = [guards EXCEPT ![t] = @ \ {g}]
        /\ IF guards[t] = {g}
           THEN /\ pc' = [pc EXCEPT ![t] = "idle"]
                /\ seen' = [seen EXCEPT ![t] = None]
           ELSE UNCHANGED <<pc, seen>>
        /\ UNCHANGED <<data, wants, call>>
  BY DEF Unlock
<1> DEFINE G == guards[t] \ {g}
<1>3. G \in SUBSET Guards
  BY <1>1 DEF TypeOK
<1>4. \A f, h \in guards[t] : f.obj = h.obj => f = h
  BY <1>1 DEF LocksMatchGuards, Mine, TypeOK, Guards
<1>5. /\ \A h \in G : h.obj # g.obj
      /\ \A h \in G : h \in guards[t]
      /\ \A h \in guards[t] : h.obj # g.obj => h \in G
  BY <1>4
<1>6. guards' = [guards EXCEPT ![t] = G]
  BY <1>2
<1> HIDE DEF G
<1>7. /\ LocksMatchGuards'
      /\ owner' \in [Objects -> Threads \cup {None}]
      /\ sharers' \in [Objects -> SUBSET Threads]
  BY <1>1, <1>2, <1>3, <1>4, <1>5, <1>6, ReleaseLocks, ZenonT(40)
<1>8. /\ \A u \in Threads : u # t => guards'[u] = guards[u] /\ pc'[u] = pc[u]
      /\ guards'[t] = G
      /\ pc[t] = "unlock" /\ pc'[t] \in {"unlock", "idle"}
  BY <1>1, <1>2, <1>6 DEF TypeOK
<1>9. TypeOK'
  <2>1. /\ guards' \in [Threads -> SUBSET Guards]
        /\ \A u \in Threads : \A e, f \in guards'[u] : e.slot = f.slot => e = f
    BY <1>1, <1>3, <1>5, <1>6 DEF TypeOK
  <2>2. /\ pc' \in [Threads -> {"idle", "lock", "body", "unlock"}]
        /\ seen' \in [Threads -> (Values \X Values) \cup {None}]
    BY <1>1, <1>2 DEF TypeOK
  <2>3. QED
    BY <1>1, <1>2, <1>7, <2>1, <2>2 DEF TypeOK
<1>10. WantsAscend'
  <2>1. wants[t] = {} /\ wants' = wants
    BY <1>1, <1>2 DEF WantsAscend
  <2>2. QED
    BY <1>1, <1>8, <2>1 DEF WantsAscend
<1>11. BodiesCovered'
  BY <1>1, <1>2, <1>8 DEF BodiesCovered, Covers
<1>12. PartsAgree' /\ MidwayParts'
  <2>1. ~Midway(t) /\ ~Midway(t)'
    BY <1>8 DEF Midway
  <2>2. QED
    BY <1>1, <1>2, <1>8, <2>1, OutsideData DEF IInv
<1>13. QED
  BY <1>7, <1>9, <1>10, <1>11, <1>12 DEF IInv, LockInv

(* A step in the body of a function goes on to the next part or leaves.    *)
LEMMA BodyLockInv ==
  ASSUME LockInv, NEW t \in Threads, NEW c \in Calls,
         NEW p \in {"idle", "body", "unlock"},
         pc[t] = "body",
         pc' = [pc EXCEPT ![t] = p],
         call' = [call EXCEPT ![t] = c],
         p = "body" => /\ c.op = call[t].op
                       /\ c.left = call[t].left
                       /\ c.right = call[t].right,
         UNCHANGED <<locks, guards, wants>>,
         data' \in [Parts -> [Objects -> Values]],
         seen' \in [Threads -> (Values \X Values) \cup {None}]
  PROVE  LockInv'
<1> USE DEF LockInv
<1>1. UNCHANGED <<owner, sharers, guards, wants>>
  BY DEF locks
<1>2. TypeOK'
  BY <1>1 DEF TypeOK
<1>3. WantsAscend'
  BY <1>1 DEF WantsAscend, TypeOK
<1>4. LocksMatchGuards'
  BY <1>1 DEF LocksMatchGuards, Mine
<1>5. BodiesCovered'
  BY <1>1 DEF BodiesCovered, Covers, TypeOK
<1>6. QED
  BY <1>2, <1>3, <1>4, <1>5

LEMMA SecondPartType ==
  ASSUME NEW c \in Calls, NEW v \in Values
  PROVE  /\ SecondPart(c, v) \in Calls
         /\ SecondPart(c, v).op = c.op
         /\ SecondPart(c, v).left = c.left
         /\ SecondPart(c, v).right = c.right
         /\ SecondPart(c, v).val = v
         /\ SecondPart(c, v).part = 2
  BY DEF SecondPart, Calls, Parts

(* What a change writes in the part that it is at, and what it leaves.     *)
LEMMA ChangeEffect ==
  ASSUME LockInv, NEW t \in Threads, Change(t)
  PROVE  LET c == call[t]
             d == data[c.part]
             e == data'[c.part]
         IN /\ c \in Calls
            /\ c.op \in Bodies \ Readings
            /\ c.op \in Binaries => c.left # c.right
            /\ data' \in [Parts -> [Objects -> Values]]
            /\ \A p \in Parts : p # c.part => data'[p] = data[p]
            /\ \A o \in Objects : ~Writes(t, o) => e[o] = d[o]
            /\ c.op \in Binaries => e[c.left] = d[c.right]
            /\ c.op = "move" => e[c.right] = c.val
            /\ c.op = "swap" => e[c.right] = d[c.left]
            /\ c.op \in {"set", "modify"} => e[c.left] = c.val
<1> DEFINE c == call[t]
           d == data[c.part]
           e == data'[c.part]
<1>1. TypeOK /\ BodiesCovered /\ pc[t] = "body"
  BY DEF LockInv, Change
<1>2. /\ c \in Calls /\ c.part \in Parts /\ c.val \in Values
      /\ c.left \in Objects /\ c.right \in Objects
      /\ d \in [Objects -> Values]
  BY <1>1 DEF TypeOK, Calls
<1>3. c.op \in Binaries => c.left # c.right
  BY <1>1 DEF BodiesCovered
<1>4. ASSUME NEW f \in [Objects -> Values],
             data' = [data EXCEPT ![c.part] = f]
      PROVE  /\ data' \in [Parts -> [Objects -> Values]]
             /\ \A p \in Parts : p # c.part => data'[p] = data[p]
             /\ e = f
  BY <1>1, <1>2, <1>4 DEF TypeOK
<1> DEFINE Goal == /\ c.op \in Bodies \ Readings
                   /\ data' \in [Parts -> [Objects -> Values]]
                   /\ \A p \in Parts : p # c.part => data'[p] = data[p]
                   /\ \A o \in Objects : ~Writes(t, o) => e[o] = d[o]
                   /\ c.op \in Binaries => e[c.left] = d[c.right]
                   /\ c.op = "move" => e[c.right] = c.val
                   /\ c.op = "swap" => e[c.right] = d[c.left]
                   /\ c.op \in {"set", "modify"} => e[c.left] = c.val
<1> SUFFICES Goal
  BY <1>2, <1>3
<1>5. CASE c.op = "assign"
  <2> DEFINE f == [d EXCEPT ![c.left] = d[c.right]]
  <2>1. f \in [Objects -> Values] /\ data' = [data EXCEPT ![c.part] = f]
    BY <1>2, <1>5 DEF Change
  <2>2. /\ data' \in [Parts -> [Objects -> Values]]
        /\ \A p \in Parts : p # c.part => data'[p] = data[p]
        /\ e = f
    BY <1>4, <2>1
  <2>3. QED
    BY <1>2, <1>5, <2>2 DEF Writes, Bodies, Binaries, Readings
<1>6. CASE c.op = "move"
  <2> DEFINE f == [d EXCEPT ![c.left] = d[c.right], ![c.right] = c.val]
  <2>1. f \in [Objects -> Values] /\ data' = [data EXCEPT ![c.part] = f]
    BY <1>2, <1>6 DEF Change
  <2>2. /\ data' \in [Parts -> [Objects -> Values]]
        /\ \A p \in Parts : p # c.part => data'[p] = data[p]
        /\ e = f
    BY <1>4, <2>1
  <2>3. QED
    BY <1>2, <1>3, <1>6, <2>2 DEF Writes, Bodies, Binaries, Readings
<1>7. CASE c.op = "swap"
  <2> DEFINE f == [d EXCEPT ![c.left] = d[c.right], ![c.right] = d[c.left]]
  <2>1. f \in [Objects -> Values] /\ data' = [data EXCEPT ![c.part] = f]
    BY <1>2, <1>7 DEF Change
  <2>2. /\ data' \in [Parts -> [Objects -> Values]]
        /\ \A p \in Parts : p # c.part => data'[p] = data[p]
        /\ e = f
    BY <1>4, <2>1
  <2>3. QED
    BY <1>2, <1>3, <1>7, <2>2 DEF Writes, Bodies, Binaries, Readings
<1>8. CASE c.op \in {"set", "modify"}
  <2> DEFINE f == [d EXCEPT ![c.left] = c.val]
  <2>1. f \in [Objects -> Values] /\ data' = [data EXCEPT ![c.part] = f]
    BY <1>2, <1>8 DEF Change
  <2>2. /\ data' \in [Parts -> [Objects -> Values]]
        /\ \A p \in Parts : p # c.part => data'[p] = data[p]
        /\ e = f
    BY <1>4, <2>1
  <2>3. QED
    BY <1>2, <1>8, <2>2 DEF Writes, Bodies, Binaries, Readings
<1>9. c.op \in {"assign", "move", "swap", "set", "modify"}
  BY DEF Change
<1> HIDE DEF Goal
<1>10. QED
  BY <1>5, <1>6, <1>7, <1>8, <1>9

LEMMA ChangeIInv ==
  ASSUME IInv, NEW t \in Threads, Change(t)
  PROVE  IInv'
<1> DEFINE c == call[t]
           d == data[c.part]
           e == data'[c.part]
<1>1. /\ LockInv /\ TypeOK /\ WantsAscend /\ LocksMatchGuards /\ BodiesCovered
      /\ PartsAgree /\ MidwayParts
      /\ pc[t] = "body"
  BY DEF IInv, LockInv, Change
<1>2. /\ c \in Calls
      /\ c.op \in Bodies \ Readings
      /\ c.op \in Binaries => c.left # c.right
      /\ data' \in [Parts -> [Objects -> Values]]
      /\ \A p \in Parts : p # c.part => data'[p] = data[p]
      /\ \A o \in Objects : ~Writes(t, o) => e[o] = d[o]
      /\ c.op \in Binaries => e[c.left] = d[c.right]
      /\ c.op = "move" => e[c.right] = c.val
      /\ c.op = "swap" => e[c.right] = d[c.left]
      /\ c.op \in {"set", "modify"} => e[c.left] = c.val
  BY <1>1, ChangeEffect
<1>3. c.left \in Objects /\ c.right \in Objects /\ c.val \in Values /\ c.part \in {1, 2}
  BY <1>2 DEF Calls, Parts
<1>4. ASSUME NEW u \in Threads, u # t
      PROVE  pc'[u] = pc[u] /\ call'[u] = call[u]
  BY <1>1, <1>4 DEF Change, NextPart, TypeOK
<1>5. /\ c.part = 1 => call' = [call EXCEPT ![t] = SecondPart(c, c.val)] /\ pc' = pc
      /\ c.part = 2 => /\ call' = [call EXCEPT ![t] = NoCall]
                       /\ pc' = [pc EXCEPT ![t] = IF c.op = "modify" THEN "idle"
                                                  ELSE "unlock"]
  BY DEF Change, NextPart
<1>6. /\ SecondPart(c, c.val) \in Calls
      /\ SecondPart(c, c.val).op = c.op
      /\ SecondPart(c, c.val).left = c.left
      /\ SecondPart(c, c.val).right = c.right
      /\ SecondPart(c, c.val).val = c.val
      /\ SecondPart(c, c.val).part = 2
  BY <1>2, <1>3, SecondPartType
<1>7. LockInv'
  <2>1. UNCHANGED <<locks, guards, wants, seen>>
    BY DEF Change
  <2>2. CASE c.part = 1
    <3>1. pc' = [pc EXCEPT ![t] = "body"]
      BY <1>1, <1>5, <2>2 DEF TypeOK
    <3>2. QED
      BY <1>1, <1>2, <1>5, <1>6, <2>1, <2>2, <3>1, BodyLockInv, ZenonT(40) DEF TypeOK
  <2>3. CASE c.part = 2
    <3> DEFINE p == IF c.op = "modify" THEN "idle" ELSE "unlock"
    <3>1. p \in {"idle", "body", "unlock"} /\ p # "body"
      OBVIOUS
    <3>2. pc' = [pc EXCEPT ![t] = p] /\ call' = [call EXCEPT ![t] = NoCall]
      BY <1>5, <2>3
    <3> HIDE DEF p
    <3>3. QED
      BY <1>1, <1>2, <2>1, <3>1, <3>2, Defaults, BodyLockInv DEF TypeOK
  <2>4. QED
    BY <1>3, <2>2, <2>3
<1>8. \A u \in Threads, o \in Objects :
        u # t /\ pc[u] = "body" /\ Accesses(u, o) => ~Writes(t, o)
  BY <1>1, Exclusive
<1>9. \A u \in Threads, o \in Objects :
        u # t /\ Midway(u) /\ Writes(u, o) => ~Accesses(t, o)
  BY <1>1, Exclusive DEF Midway
<1>10. ASSUME NEW o \in Objects, ~Writes(t, o)
       PROVE  data'[1][o] = data[1][o] /\ data'[2][o] = data[2][o]
  BY <1>2, <1>3, <1>10 DEF Parts
<1>11. ASSUME NEW u \in Threads, NEW o \in Objects, u # t
       PROVE  (Midway(u) /\ Writes(u, o))' <=> (Midway(u) /\ Writes(u, o))
  BY <1>4, <1>11 DEF Midway, Writes
<1>12. /\ c.part = 1 => /\ ~Midway(t) /\ Midway(t)'
                        /\ call'[t] = SecondPart(c, c.val)
                        /\ \A o \in Objects : Writes(t, o)' <=> Writes(t, o)
       /\ c.part = 2 => Midway(t) /\ ~Midway(t)'
  BY <1>1, <1>5, <1>6 DEF Midway, TypeOK, Writes
<1>13. PartsAgree'
  <2> SUFFICES ASSUME NEW o \in Objects,
                      \A u \in Threads : ~(Midway(u) /\ Writes(u, o))'
               PROVE  data'[1][o] = data'[2][o]
    BY DEF PartsAgree
  <2>1. CASE ~Writes(t, o)
    BY <1>1, <1>10, <1>11, <2>1 DEF PartsAgree
  <2>2. CASE Writes(t, o)
    <3>1. c.part = 2
      BY <1>3, <1>12, <2>2
    <3>2. data'[1] = data[1] /\ Midway(t)
      BY <1>2, <1>12, <3>1 DEF Parts
    <3>3. QED
      BY <1>1, <1>2, <2>2, <3>1, <3>2
      DEF MidwayParts, Writes, Bodies, Binaries, Readings
  <2>3. QED
    BY <2>1, <2>2
<1>14. MidwayParts'
  <2> DEFINE Inside(u) ==
        /\ call[u].op \in Binaries => data[1][call[u].left] = data[2][call[u].right]
        /\ call[u].op = "move" => data[1][call[u].right] = call[u].val
        /\ call[u].op = "swap" => data[1][call[u].right] = data[2][call[u].left]
        /\ call[u].op \in {"set", "modify"} => data[1][call[u].left] = call[u].val
        /\ call[u].op \in Readings => call[u].val = data[2][call[u].left]
  <2>1. ASSUME NEW u \in Threads, u # t, Midway(u)'
        PROVE  Inside(u)'
    <3>1. Midway(u) /\ call'[u] = call[u] /\ call[u] \in Calls
      BY <1>1, <1>4, <2>1 DEF Midway, TypeOK
    <3>2. Inside(u)
      BY <1>1, <3>1 DEF MidwayParts
    <3>3. call[u].op \in Bodies
      BY <1>1, <3>1 DEF Midway, BodiesCovered
    <3>4. /\ data'[1][call[u].left] = data[1][call[u].left]
          /\ data'[2][call[u].left] = data[2][call[u].left]
      <4>1. call[u].left \in Objects /\ ~Writes(t, call[u].left)
        BY <1>8, <2>1, <3>1, <3>3 DEF Accesses, Midway, Calls
      <4>2. QED
        BY <1>10, <4>1
    <3>5. call[u].op \in Binaries =>
            /\ data'[1][call[u].right] = data[1][call[u].right]
            /\ data'[2][call[u].right] = data[2][call[u].right]
      <4>1. SUFFICES ASSUME call[u].op \in Binaries
                     PROVE  call[u].right \in Objects /\ ~Writes(t, call[u].right)
        BY <1>10
      <4>2. QED
        BY <1>8, <2>1, <3>1, <4>1 DEF Accesses, Midway, Calls
    <3>6. QED
      BY <3>1, <3>2, <3>4, <3>5 DEF Binaries
  <2>2. ASSUME Midway(t)'
        PROVE  Inside(t)'
    <3>1. c.part = 1 /\ ~Midway(t)
      BY <1>3, <1>12, <2>2
    <3>2. /\ call'[t].op = c.op /\ call'[t].left = c.left
          /\ call'[t].right = c.right /\ call'[t].val = c.val
      BY <1>6, <1>12, <3>1
    <3>3. data'[2] = data[2]
      BY <1>2, <3>1 DEF Parts
    <3>4. ASSUME NEW o \in Objects, Accesses(t, o)
          PROVE  data[1][o] = data[2][o]
      BY <1>1, <1>9, <3>1, <3>4 DEF PartsAgree
    <3>5. /\ data[1][c.left] = data[2][c.left]
          /\ c.op \in Binaries => data[1][c.right] = data[2][c.right]
      BY <1>2, <1>3, <3>4 DEF Accesses
    <3>6. QED
      BY <1>2, <3>1, <3>2, <3>3, <3>5 DEF Binaries, Readings
  <2>3. \A u \in Threads : Midway(u)' => Inside(u)'
    BY <2>1, <2>2
  <2>4. QED
    BY <2>3 DEF MidwayParts
<1>15. QED
  BY <1>7, <1>13, <1>14 DEF IInv

LEMMA LookFirstIInv ==
  ASSUME IInv, NEW t \in Threads, LookFirst(t)
  PROVE  IInv'
<1> DEFINE c == call[t]
           v == data[1][c.left]
<1>1. /\ LockInv /\ TypeOK /\ WantsAscend /\ LocksMatchGuards /\ BodiesCovered
      /\ PartsAgree /\ MidwayParts
  BY DEF IInv, LockInv
<1>2. /\ pc[t] = "body" /\ c.op \in Readings /\ c.part = 1
      /\ call' = [call EXCEPT ![t] = SecondPart(c, v)]
      /\ UNCHANGED <<data, locks, guards, wants, pc, seen>>
  BY DEF LookFirst, Readings
<1>3. c \in Calls /\ c.left \in Objects
  BY <1>1 DEF TypeOK, Calls
<1>4. v \in Values
  BY <1>1, <1>3 DEF TypeOK, Parts
<1>5. /\ SecondPart(c, v) \in Calls
      /\ SecondPart(c, v).op = c.op
      /\ SecondPart(c, v).left = c.left
      /\ SecondPart(c, v).right = c.right
      /\ SecondPart(c, v).val = v
  BY <1>3, <1>4, SecondPartType
<1>6. pc' = [pc EXCEPT ![t] = "body"]
  BY <1>1, <1>2 DEF TypeOK
<1>7. LockInv'
  BY <1>1, <1>2, <1>5, <1>6, BodyLockInv DEF TypeOK
<1>8. /\ \A u \in Threads : u # t => call'[u] = call[u]
      /\ call'[t] = SecondPart(c, v)
  BY <1>1, <1>2 DEF TypeOK
<1>9. \A u \in Threads, o \in Objects : Writes(u, o)' <=> Writes(u, o)
  BY <1>5, <1>8 DEF Writes
<1>10. \A o \in Objects : ~Writes(t, o)
  BY <1>2 DEF Writes, Readings
<1>11. \A u \in Threads : u # t => (Midway(u)' <=> Midway(u))
  BY <1>2, <1>8 DEF Midway
<1>12. PartsAgree'
  BY <1>1, <1>2, <1>9, <1>10, <1>11 DEF PartsAgree
<1>13. v = data[2][c.left]
  <2>1. \A u \in Threads : ~(Midway(u) /\ Writes(u, c.left))
    <3>1. Accesses(t, c.left)
      BY <1>2 DEF Accesses, Bodies
    <3>2. QED
      BY <1>1, <1>2, <1>3, <1>10, <3>1, Exclusive DEF Midway
  <2>2. QED
    BY <1>1, <1>3, <2>1 DEF PartsAgree
<1>14. MidwayParts'
  <2>1. data' = data
    BY <1>2
  <2>2. ASSUME NEW u \in Threads, u # t, Midway(u)'
        PROVE  call'[u] = call[u] /\ Midway(u)
    BY <1>8, <1>11, <2>2
  <2>3. /\ call'[t].op = c.op /\ call'[t].left = c.left /\ call'[t].val = data[2][c.left]
        /\ c.op \in Readings
    BY <1>2, <1>5, <1>8, <1>13
  <2>4. /\ c.op \notin Binaries /\ c.op # "move" /\ c.op # "swap"
        /\ c.op \notin {"set", "modify"}
    BY <2>3 DEF Readings, Binaries
  <2> SUFFICES ASSUME NEW u \in Threads, Midway(u)'
      PROVE  LET d == call'[u]
             IN /\ d.op \in Binaries => data[1][d.left] = data[2][d.right]
                /\ d.op = "move" => data[1][d.right] = d.val
                /\ d.op = "swap" => data[1][d.right] = data[2][d.left]
                /\ d.op \in {"set", "modify"} => data[1][d.left] = d.val
                /\ d.op \in Readings => d.val = data[2][d.left]
    BY <2>1 DEF MidwayParts
  <2>5. CASE u = t
    BY <2>3, <2>4, <2>5
  <2>6. CASE u # t
    BY <1>1, <2>2, <2>6 DEF MidwayParts
  <2>7. QED
    BY <2>5, <2>6
<1>15. QED
  BY <1>7, <1>12, <1>14 DEF IInv

LEMMA LookSecondIInv ==
  ASSUME IInv, NEW t \in Threads, LookSecond(t)
  PROVE  IInv'
<1> DEFINE c == call[t]
           p == IF c.op = "view" THEN "idle" ELSE "unlock"
<1>1. /\ LockInv /\ TypeOK /\ PartsAgree /\ MidwayParts
  BY DEF IInv, LockInv
<1>2. /\ pc[t] = "body" /\ c.op \in Readings
      /\ seen' = [seen EXCEPT ![t] = <<c.val, data[2][c.left]>>]
      /\ pc' = [pc EXCEPT ![t] = p]
      /\ call' = [call EXCEPT ![t] = NoCall]
      /\ UNCHANGED <<data, locks, guards, wants>>
  BY DEF LookSecond, Readings
<1>3. c.val \in Values /\ data[2][c.left] \in Values
  BY <1>1 DEF TypeOK, Calls, Parts
<1>4. seen' \in [Threads -> (Values \X Values) \cup {None}]
  BY <1>1, <1>2, <1>3 DEF TypeOK
<1>5. p \in {"idle", "body", "unlock"} /\ p # "body"
  OBVIOUS
<1> HIDE DEF p
<1>6. LockInv'
  BY <1>1, <1>2, <1>4, <1>5, Defaults, BodyLockInv DEF TypeOK
<1>7. /\ \A u \in Threads : u # t => pc'[u] = pc[u] /\ call'[u] = call[u]
      /\ ~Midway(t)'
  BY <1>1, <1>2, <1>5 DEF TypeOK, Midway
<1>8. ASSUME NEW u \in Threads, NEW o \in Objects
      PROVE  (Midway(u) /\ Writes(u, o))' <=> (Midway(u) /\ Writes(u, o))
  <2>1. ~Writes(t, o)
    BY <1>2 DEF Writes, Readings
  <2>2. CASE u = t
    BY <1>7, <2>1, <2>2
  <2>3. CASE u # t
    BY <1>7, <2>3 DEF Midway, Writes
  <2>4. QED
    BY <2>2, <2>3
<1>9. PartsAgree'
  BY <1>1, <1>2, <1>8 DEF PartsAgree
<1>10. MidwayParts'
  BY <1>1, <1>2, <1>7 DEF MidwayParts, Midway
<1>11. QED
  BY <1>6, <1>9, <1>10 DEF IInv

-----------------------------------------------------------------------------
LEMMA NextIInv == IInv /\ [Next]_vars => IInv'
<1>1. SUFFICES ASSUME IInv, [Next]_vars PROVE IInv'
  OBVIOUS
<1>2. CASE UNCHANGED vars
  <2>1. UNCHANGED <<data, owner, sharers, guards, wants, pc, call, seen>>
    BY <1>2 DEF vars, locks
  <2>2. LockInv'
    BY <1>1, <2>1
    DEF IInv, LockInv, TypeOK, WantsAscend, LocksMatchGuards, Mine,
        BodiesCovered, Covers
  <2>3. PartsAgree' /\ MidwayParts'
    BY <1>1, <2>1, SameData DEF IInv
  <2>4. QED
    BY <2>2, <2>3 DEF IInv
<1>3. ASSUME NEW t \in Threads, Function(t)
      PROVE  IInv'
  BY <1>1, <1>3, FunctionIInv
<1>4. ASSUME NEW t \in Threads, Client(t)
      PROVE  IInv'
  <2>1. ASSUME NEW s \in Slots, NEW o \in Objects, Write(t, s, o) \/ Read(t, s, o)
        PROVE  IInv'
    <3>1. "unique" \in Modes /\ ConstMode \in Modes
      BY DEF Modes, ConstMode
    <3>2. QED
      BY <1>1, <2>1, <3>1, KeepGuardIInv DEF Write, Read
  <2>2. ASSUME NEW g \in guards[t], NEW v \in Values, Modify(t, g, v)
        PROVE  IInv'
    BY <1>1, <2>2, UseGuardIInv DEF Modify
  <2>3. ASSUME NEW g \in guards[t], View(t, g)
        PROVE  IInv'
    BY <1>1, <2>3, Defaults, UseGuardIInv DEF View
  <2>4. ASSUME NEW g \in guards[t], NEW s \in Slots, MoveGuard(t, g, s)
        PROVE  IInv'
    BY <1>1, <2>4, MoveGuardIInv
  <2>5. ASSUME NEW g \in guards[t], NEW h \in guards[t], MoveGuardOver(t, g, h)
        PROVE  IInv'
    BY <1>1, <2>5, MoveGuardOverIInv
  <2>6. ASSUME NEW g \in guards[t], Drop(t, g)
        PROVE  IInv'
    BY <1>1, <2>6, DropIInv
  <2>7. QED
    BY <1>4, <2>1, <2>2, <2>3, <2>4, <2>5, <2>6 DEF Client
<1>5. ASSUME NEW t \in Threads, Step(t)
      PROVE  IInv'
  BY <1>1, <1>5, LockIInv, ChangeIInv, LookFirstIInv, LookSecondIInv, UnlockIInv
  DEF Step
<1>6. QED
  BY <1>1, <1>2, <1>3, <1>4, <1>5 DEF Next

(* The invariant that carries the rest: locks are taken in order, cover    *)
(* what is worked on, and a change seen half done is somebody's.           *)
THEOREM Invariance == Spec => []IInv
<1>1. Init => IInv
  BY InitIInv
<1>2. IInv /\ [Next]_vars => IInv'
  BY NextIInv
<1>3. QED
  BY <1>1, <1>2, PTL DEF Spec

(* Every variable stays in its type, and a guard variable holds one guard. *)
THEOREM TypeCorrect == Spec => []TypeOK
<1>1. IInv => TypeOK
  BY DEF IInv, LockInv
<1>2. QED
  BY <1>1, Invariance, PTL

(* Whatever objects threads assign, swap and keep guards of, in whatever   *)
(* direction, they never wait for each other in a circle: with_synchronized *)
(* locks the lower address first.                                          *)
THEOREM NoCircularWait == Spec => []NoWaitCycle
<1>1. IInv => NoWaitCycle
  BY OrderPreventsCycles DEF IInv
<1>2. QED
  BY <1>1, Invariance, PTL

(* However guards are moved and dropped, a mutex is locked by the threads  *)
(* that have a guard of it, in the guard's mode, and by no others.         *)
THEOREM LocksAndGuardsAgree == Spec => []LocksMatchGuards
<1>1. IInv => LocksMatchGuards
  BY DEF IInv, LockInv
<1>2. QED
  BY <1>1, Invariance, PTL

-----------------------------------------------------------------------------
(* Refinement: the second part of a change is when the operation happens.  *)

LEMMA ChangeRefines ==
  ASSUME IInv, NEW t \in Threads, Change(t)
  PROVE  [AO!Next]_<<data[2], seen>>
<1> DEFINE c == call[t]
<1>1. TypeOK /\ c.left \in Objects /\ c.right \in Objects /\ c.val \in Values
  BY DEF IInv, LockInv, TypeOK, Calls
<1>2. UNCHANGED seen /\ c.part \in {1, 2}
  BY <1>1 DEF Change, TypeOK, Calls, Parts
<1>3. CASE c.part = 1
  <2>1. data'[2] = data[2]
    BY <1>1, <1>3, ChangeEffect DEF IInv, Parts
  <2>2. QED
    BY <1>2, <2>1
<1>4. CASE c.part = 2
  <2>1. ASSUME NEW f, data' = [data EXCEPT ![2] = f]
        PROVE  data'[2] = f
    BY <1>1, <2>1 DEF TypeOK, Parts
  <2>2. CASE c.op = "assign"
    <3>1. data'[2] = [data[2] EXCEPT ![c.left] = data[2][c.right]]
      BY <1>4, <2>1, <2>2 DEF Change
    <3>2. AO!Assign(c.left, c.right)
      BY <1>2, <3>1 DEF AO!Assign, AO!Set
    <3>3. QED
      BY <1>1, <3>2 DEF AO!Next
  <2>3. CASE c.op = "move"
    <3>1. data'[2] = [data[2] EXCEPT ![c.left] = data[2][c.right], ![c.right] = c.val]
      BY <1>4, <2>1, <2>3 DEF Change
    <3>2. AO!Move(c.left, c.right, c.val)
      BY <1>2, <3>1 DEF AO!Move
    <3>3. QED
      BY <1>1, <3>2 DEF AO!Next
  <2>4. CASE c.op = "swap"
    <3>1. data'[2] = [data[2] EXCEPT ![c.left] = data[2][c.right],
                                    ![c.right] = data[2][c.left]]
      BY <1>4, <2>1, <2>4 DEF Change
    <3>2. AO!Swap(c.left, c.right)
      BY <1>2, <3>1 DEF AO!Swap, AO!Move
    <3>3. QED
      BY <1>1, <3>2 DEF AO!Next
  <2>5. CASE c.op \in {"set", "modify"}
    <3>1. data'[2] = [data[2] EXCEPT ![c.left] = c.val]
      BY <1>4, <2>1, <2>5 DEF Change
    <3>2. AO!Set(c.left, c.val)
      BY <1>2, <3>1 DEF AO!Set
    <3>3. QED
      BY <1>1, <3>2 DEF AO!Next
  <2>6. QED
    BY <2>2, <2>3, <2>4, <2>5 DEF Change
<1>5. QED
  BY <1>2, <1>3, <1>4

LEMMA LookSecondRefines ==
  ASSUME IInv, NEW t \in Threads, LookSecond(t)
  PROVE  [AO!Next]_<<data[2], seen>>
<1> DEFINE c == call[t]
<1>1. c.left \in Objects
  BY DEF IInv, LockInv, TypeOK, Calls
<1>2. c.val = data[2][c.left]
  BY DEF IInv, MidwayParts, Midway, LookSecond, Readings
<1>3. AO!Copy(t, c.left)
  BY <1>2 DEF LookSecond, AO!Copy, AO!Whole
<1>4. QED
  BY <1>1, <1>3 DEF AO!Next

LEMMA NextRefines == IInv /\ [Next]_vars => [AO!Next]_<<data[2], seen>>
<1>1. SUFFICES ASSUME IInv, [Next]_vars PROVE [AO!Next]_<<data[2], seen>>
  OBVIOUS
<1>2. CASE UNCHANGED <<data, seen>>
  BY <1>2
<1>3. ASSUME NEW t \in Threads, UNCHANGED data, seen' = [seen EXCEPT ![t] = None]
      PROVE  [AO!Next]_<<data[2], seen>>
  <2>1. AO!Use(t)
    BY <1>3 DEF AO!Use
  <2>2. QED
    BY <2>1 DEF AO!Next
<1>4. ASSUME NEW t \in Threads, Function(t)
      PROVE  UNCHANGED <<data, seen>>
  BY <1>4
  DEF Function, Assign, MoveAssign, Swap, Set, Copy, WithOne, WithTwo, Enter
<1>5. ASSUME NEW t \in Threads, Client(t)
      PROVE  \/ UNCHANGED <<data, seen>>
             \/ UNCHANGED data /\ seen' = [seen EXCEPT ![t] = None]
  BY <1>5
  DEF Client, Write, Read, KeepGuard, Enter, Modify, View, UseGuard, MoveGuard,
      MoveGuardOver, Drop
<1>6. ASSUME NEW t \in Threads, Lock(t) \/ LookFirst(t) \/ Unlock(t)
      PROVE  \/ UNCHANGED <<data, seen>>
             \/ UNCHANGED data /\ seen' = [seen EXCEPT ![t] = None]
  BY <1>6 DEF Lock, LookFirst, Unlock
<1>7. ASSUME NEW t \in Threads, Step(t)
      PROVE  [AO!Next]_<<data[2], seen>>
  BY <1>1, <1>2, <1>3, <1>6, <1>7, ChangeRefines, LookSecondRefines DEF Step
<1>8. UNCHANGED vars => UNCHANGED <<data, seen>>
  BY DEF vars
<1>9. QED
  BY <1>1, <1>2, <1>3, <1>4, <1>5, <1>7, <1>8 DEF Next

(* Every operation happens at one moment, those on two objects too: what a *)
(* thread copies or views is whole, and no change is seen half done.       *)
THEOREM Refinement == Spec => Contract
<1>1. Init => AO!Init
  <2>1. ASSUME NEW d \in [Objects -> Values], data = [p \in Parts |-> d]
        PROVE  data[2] \in [Objects -> Values]
    BY <2>1 DEF Parts
  <2>2. QED
    BY <2>1 DEF Init, AO!Init
<1>2. IInv /\ [Next]_vars => [AO!Next]_<<data[2], seen>>
  BY NextRefines
<1>3. QED
  BY <1>1, <1>2, Invariance, PTL DEF Spec, Contract, AO!Spec
=============================================================================
