----------------------------- MODULE Synchronized -----------------------------
(***************************************************************************)
(* freak::par::synchronized, an object paired with its mutex, and locked,  *)
(* the guard that its functions return.  A guard locks when it is made,    *)
(* hands the lock over when it is moved and unlocks when it dies.  What    *)
(* works on two objects locks them in the order of their addresses.        *)
(*                                                                         *)
(* A value has two parts, read or written one after the other, so that a   *)
(* value caught in the middle of a change can be told from a whole one.    *)
(* One action is the lock or unlock of a mutex or the access to one part.  *)
(***************************************************************************)
EXTENDS Naturals

CONSTANTS Threads,
          Objects,          \* the synchronized objects, as addresses
          Values,
          None,             \* no thread, nothing seen
          GuardHolders      \* the threads whose clients keep guards

(* Addresses are bounded: of any objects one has the highest.              *)
ASSUME ObjectsAssumption ==
  /\ Objects \subseteq Nat /\ Objects # {}
  /\ \A S \in SUBSET Objects : S # {} => \E o \in S : \A p \in S : p <= o
ASSUME ValuesAssumption == Values # {}
ASSUME NoneAssumption == None \notin Threads /\ None \notin Values \X Values
ASSUME GuardHoldersAssumption == GuardHolders \subseteq Threads

Parts == {1, 2}
Slots == {1, 2}    \* guard1 and guard2, or the client's guard variables
Modes == {"unique", "shared"}
Ops   == {"none", "assign", "move", "swap", "set", "copy", "guard", "modify",
          "view"}

VARIABLES
  data,      \* data[p][o]: the parts of the objects' data_
  owner,     \* the thread that has the object's mutex locked exclusively
  sharers,   \* the threads that have it locked shared
  guards,    \* the guards of a thread that are not empty
  wants,     \* the guards it still has to lock for the function it is in
  pc,        \* what it does next
  call,      \* the function it is in
  seen       \* what it has read

locks == <<owner, sharers>>
vars  == <<data, locks, guards, wants, pc, call, seen>>

Guards == [slot : Slots, obj : Objects, mode : Modes]
Guard(s, o, m) == [slot |-> s, obj |-> o, mode |-> m]

Calls == [op : Ops, left : Objects, right : Objects, val : Values, part : Parts]
Call(op, l, r, v) ==
  [op |-> op, left |-> l, right |-> r, val |-> v, part |-> 1]
AnyObject == CHOOSE o \in Objects : TRUE
AnyValue  == CHOOSE v \in Values : TRUE
NoCall    == Call("none", AnyObject, AnyObject, AnyValue)

TypeOK ==
  /\ data \in [Parts -> [Objects -> Values]]
  /\ owner \in [Objects -> Threads \cup {None}]
  /\ sharers \in [Objects -> SUBSET Threads]
  /\ guards \in [Threads -> SUBSET Guards]
  /\ \A t \in Threads : \A g, h \in guards[t] : g.slot = h.slot => g = h
  /\ wants \in [Threads -> SUBSET Guards]
  /\ pc \in [Threads -> {"idle", "lock", "body", "unlock"}]
  /\ call \in [Threads -> Calls]
  /\ seen \in [Threads -> (Values \X Values) \cup {None}]

Init ==
  /\ \E d \in [Objects -> Values] : data = [p \in Parts |-> d]
  /\ owner = [o \in Objects |-> None]
  /\ sharers = [o \in Objects |-> {}]
  /\ guards = [t \in Threads |-> {}]
  /\ wants = [t \in Threads |-> {}]
  /\ pc = [t \in Threads |-> "idle"]
  /\ call = [t \in Threads |-> NoCall]
  /\ seen = [t \in Threads |-> None]

-----------------------------------------------------------------------------
(* A mutex.                                                                *)

Free(g) ==
  /\ owner[g.obj] = None
  /\ g.mode = "unique" => sharers[g.obj] = {}

Acquire(t, g) ==
  /\ Free(g)
  /\ IF g.mode = "unique"
     THEN owner' = [owner EXCEPT ![g.obj] = t] /\ UNCHANGED sharers
     ELSE sharers' = [sharers EXCEPT ![g.obj] = @ \cup {t}] /\ UNCHANGED owner

Release(t, g) ==
  IF g.mode = "unique"
  THEN owner' = [owner EXCEPT ![g.obj] = None] /\ UNCHANGED sharers
  ELSE sharers' = [sharers EXCEPT ![g.obj] = @ \ {t}] /\ UNCHANGED owner

(* const_locked_t: guards of a const object are shared.  With a mutex that  *)
(* has no shared mode they would be unique, but unique_locked takes no     *)
(* const data: what needs them (Assign, Copy, Read) cannot be compiled.    *)
ConstMode == "shared"

-----------------------------------------------------------------------------
(* The functions of synchronized.  A client calls them holding no guard.   *)

Enter(t, c, w) ==
  /\ pc[t] = "idle"
  /\ pc' = [pc EXCEPT ![t] = "lock"]
  /\ call' = [call EXCEPT ![t] = c]
  /\ wants' = [wants EXCEPT ![t] = w]
  /\ UNCHANGED <<data, locks, guards, seen>>

(* The object that is assigned to.  Mutant: it is locked like a const one.  *)
ConstTarget == ConstMode
TargetMode == "unique"

(* with_synchronized of one object and of two.                             *)
WithOne(t, c, m) == guards[t] = {} /\ Enter(t, c, {Guard(1, c.left, m)})

WithTwo(t, c, m) ==
  /\ guards[t] = {}
  /\ Enter(t, c, {Guard(1, c.left, TargetMode), Guard(2, c.right, m)})

(* this != &arg.  Mutant: the check is missing.                            *)
Unchecked(l, r) == TRUE
Distinct(l, r) == l # r

Assign(t, l, r) ==
  Distinct(l, r) /\ WithTwo(t, Call("assign", l, r, AnyValue), ConstMode)

MoveAssign(t, l, r, v) ==
  Distinct(l, r) /\ WithTwo(t, Call("move", l, r, v), "unique")

Swap(t, l, r) ==
  Distinct(l, r) /\ WithTwo(t, Call("swap", l, r, AnyValue), "unique")

(* operator=(Data) and swap(Data&), where v is the caller's; the move       *)
(* constructor, which leaves any value in the object it takes from.         *)
Set(t, l, v) == WithOne(t, Call("set", l, l, v), "unique")

(* copy(), the copy constructor, operator<<.                               *)
Copy(t, l) == WithOne(t, Call("copy", l, l, AnyValue), ConstMode)

-----------------------------------------------------------------------------
(* Clients that keep the guards of write() and read().  A client that      *)
(* wants a second one takes it in the order of the addresses.              *)

Empty(t, s) == \A g \in guards[t] : g.slot # s

KeepGuard(t, s, o, m) ==
  /\ t \in GuardHolders
  /\ Empty(t, s)
  /\ \A g \in guards[t] : g.obj < o
  /\ Enter(t, Call("guard", o, o, AnyValue), {Guard(s, o, m)})

Write(t, s, o) == KeepGuard(t, s, o, "unique")
Read(t, s, o)  == KeepGuard(t, s, o, ConstMode)

UseGuard(t, g, op, v) ==
  /\ pc[t] = "idle"
  /\ g \in guards[t]
  /\ pc' = [pc EXCEPT ![t] = "body"]
  /\ call' = [call EXCEPT ![t] = Call(op, g.obj, g.obj, v)]
  /\ UNCHANGED <<data, locks, guards, wants, seen>>

Modify(t, g, v) == g.mode = "unique" /\ UseGuard(t, g, "modify", v)
View(t, g)      == UseGuard(t, g, "view", AnyValue)

(* The moved-from guard becomes empty.  Mutant: it does not.               *)
NotEmptied(g) == {}
Emptied(g) == {g}

MoveGuard(t, g, s) ==
  /\ pc[t] = "idle"
  /\ g \in guards[t]
  /\ Empty(t, s)
  /\ guards' = [guards EXCEPT ![t] = (@ \ Emptied(g)) \cup
                                       {Guard(s, g.obj, g.mode)}]
  /\ UNCHANGED <<data, locks, wants, pc, call, seen>>

(* Move assignment unlocks what the target h held; of a guard to itself,   *)
(* it leaves it empty.  Mutant: the lock that h held is kept.              *)
SourceOnly(g, h) == {g}
Replaced(g, h) == {g, h}

MoveGuardOver(t, g, h) ==
  /\ pc[t] = "idle"
  /\ {g, h} \subseteq guards[t]
  /\ Release(t, h)
  /\ guards' = [guards EXCEPT ![t] =
                  (@ \ Replaced(g, h)) \cup
                    IF g = h THEN {} ELSE {Guard(h.slot, g.obj, g.mode)}]
  /\ UNCHANGED <<data, wants, pc, call, seen>>

Drop(t, g) ==
  /\ pc[t] = "idle"
  /\ g \in guards[t]
  /\ Release(t, g)
  /\ guards' = [guards EXCEPT ![t] = @ \ {g}]
  /\ seen' = [seen EXCEPT ![t] = None]
  /\ UNCHANGED <<data, wants, pc, call>>

-----------------------------------------------------------------------------
(* The steps inside the functions.                                         *)

(* The object with the lower address is locked first.  Mutant: the left    *)
(* one.                                                                    *)
ByArgument(g, h) == g.slot <= h.slot
ByAddress(g, h) == g.obj <= h.obj

First(t, g) == g \in wants[t] /\ \A h \in wants[t] : ByAddress(g, h)

Lock(t) ==
  \E g \in wants[t] :
    /\ pc[t] = "lock"
    /\ First(t, g)
    /\ Acquire(t, g)
    /\ guards' = [guards EXCEPT ![t] = @ \cup {g}]
    /\ wants' = [wants EXCEPT ![t] = @ \ {g}]
    /\ pc' = [pc EXCEPT ![t] = IF wants[t] # {g} THEN "lock"
                               ELSE IF call[t].op = "guard" THEN "idle"
                               ELSE "body"]
    /\ call' = [call EXCEPT ![t] = IF @.op = "guard" THEN NoCall ELSE @]
    /\ UNCHANGED <<data, seen>>

(* The access to one part, then to the next.                               *)
SecondPart(c, v) ==
  [op |-> c.op, left |-> c.left, right |-> c.right, val |-> v, part |-> 2]

NextPart(t) ==
  IF call[t].part = 1
  THEN /\ call' = [call EXCEPT ![t] = SecondPart(@, @.val)]
       /\ UNCHANGED pc
  ELSE /\ call' = [call EXCEPT ![t] = NoCall]
       /\ pc' = [pc EXCEPT ![t] = IF call[t].op = "modify" THEN "idle"
                                  ELSE "unlock"]

Change(t) ==
  LET c == call[t]
      d == data[c.part]
  IN /\ pc[t] = "body"
     /\ \/ /\ c.op = "assign"
           /\ data' = [data EXCEPT ![c.part] = [d EXCEPT ![c.left] = d[c.right]]]
        \/ /\ c.op = "move"
           /\ data' = [data EXCEPT ![c.part] =
                         [d EXCEPT ![c.left] = d[c.right], ![c.right] = c.val]]
        \/ /\ c.op = "swap"
           /\ data' = [data EXCEPT ![c.part] =
                         [d EXCEPT ![c.left] = d[c.right],
                                   ![c.right] = d[c.left]]]
        \/ /\ c.op \in {"set", "modify"}
           /\ data' = [data EXCEPT ![c.part] = [d EXCEPT ![c.left] = c.val]]
     /\ NextPart(t)
     /\ UNCHANGED <<locks, guards, wants, seen>>

LookFirst(t) ==
  /\ pc[t] = "body"
  /\ call[t].op \in {"copy", "view"}
  /\ call[t].part = 1
  /\ call' = [call EXCEPT ![t] = SecondPart(@, data[1][@.left])]
  /\ UNCHANGED <<data, locks, guards, wants, pc, seen>>

LookSecond(t) ==
  /\ pc[t] = "body"
  /\ call[t].op \in {"copy", "view"}
  /\ call[t].part = 2
  /\ seen' = [seen EXCEPT ![t] = <<call[t].val, data[2][call[t].left]>>]
  /\ pc' = [pc EXCEPT ![t] = IF call[t].op = "view" THEN "idle" ELSE "unlock"]
  /\ call' = [call EXCEPT ![t] = NoCall]
  /\ UNCHANGED <<data, locks, guards, wants>>

(* The guards die, the last one first.                                     *)
Unlock(t) ==
  \E g \in guards[t] :
    /\ pc[t] = "unlock"
    /\ \A h \in guards[t] : ByAddress(h, g)
    /\ Release(t, g)
    /\ guards' = [guards EXCEPT ![t] = @ \ {g}]
    /\ IF guards[t] = {g}
       THEN /\ pc' = [pc EXCEPT ![t] = "idle"]
            /\ seen' = [seen EXCEPT ![t] = None]
       ELSE UNCHANGED <<pc, seen>>
    /\ UNCHANGED <<data, wants, call>>

-----------------------------------------------------------------------------
Function(t) ==
  \/ \E l, r \in Objects : \/ Assign(t, l, r)
                           \/ \E v \in Values : MoveAssign(t, l, r, v)
                           \/ Swap(t, l, r)
  \/ \E l \in Objects : (\E v \in Values : Set(t, l, v)) \/ Copy(t, l)

Client(t) ==
  \/ \E s \in Slots, o \in Objects : Write(t, s, o) \/ Read(t, s, o)
  \/ \E g \in guards[t] : \/ \E v \in Values : Modify(t, g, v)
                          \/ View(t, g)
                          \/ \E s \in Slots : MoveGuard(t, g, s)
                          \/ \E h \in guards[t] : MoveGuardOver(t, g, h)
                          \/ Drop(t, g)

Step(t) == Lock(t) \/ Change(t) \/ LookFirst(t) \/ LookSecond(t) \/ Unlock(t)

Next == \E t \in Threads : Function(t) \/ Client(t) \/ Step(t)

Spec == Init /\ [][Next]_vars

-----------------------------------------------------------------------------
(* Properties.                                                             *)

(* Threads never wait for each other in a circle (synchronized.hpp:33-34), *)
(* whatever objects they assign and swap in whatever direction: in every   *)
(* set of threads one waits for nobody in the set, not even for itself.    *)
WaitsFor(t, u) ==
  pc[t] = "lock" /\ \E g \in wants[t], h \in guards[u] :
                      First(t, g) /\ h.obj = g.obj
NoWaitCycle ==
  \A S \in (SUBSET Threads) \ {{}} :
    \E t \in S : \A u \in S : ~WaitsFor(t, u)

(* A mutex is held by the thread that has a guard of it and by nobody      *)
(* else, however guards are moved: none is left locked or unlocked twice.  *)
Mine(t, o) == {g \in guards[t] : g.obj = o}
LocksMatchGuards ==
  \A o \in Objects :
    /\ \A t \in Threads :
         /\ owner[o] = t <=> \E g \in Mine(t, o) : g.mode = "unique"
         /\ t \in sharers[o] <=> \E g \in Mine(t, o) : g.mode = "shared"
         /\ \A g, h \in Mine(t, o) : g = h
    /\ owner[o] # None => sharers[o] = {}

(* Operations are atomic, those on two objects too: what they write        *)
(* appears at once, what they read is whole.                               *)
AO == INSTANCE AtomicObjects WITH value <- data[2]
Contract == AO!Spec
=============================================================================
