----------------------------- MODULE Allocation -----------------------------
(***************************************************************************)
(* frk::mem: an object or an array made with an allocator (allocator_new), *)
(* destroyed and given back through the same allocator (allocator_delete), *)
(* and the deleters with which a std::unique_ptr does so by itself         *)
(* (allocate_unique).                                                      *)
(*                                                                         *)
(* Constructors and destructors are the client's code: a constructor may   *)
(* throw, and while either runs it may call these functions again, so the  *)
(* calls form a stack.  An allocation that throws has changed nothing and  *)
(* is a stuttering step.                                                   *)
(***************************************************************************)
EXTENDS Integers, Sequences, FiniteSetsExt

CONSTANTS Blocks,       \* addresses of blocks of memory
          Resources,    \* the memory behind the allocators
          Singles,      \* the owners of one object: unique_ptr<T>
          Arrays,       \* the owners of an array: unique_ptr<T[]>
          Null,         \* no block, no resource
          MaxCount,     \* bound: the elements of an array
          MaxDepth      \* bound: calls running inside one another

ASSUME NullAssumption == Null \notin Blocks \cup Resources
ASSUME OwnersAssumption == Singles \cap Arrays = {}
ASSUME MaxCountAssumption == MaxCount \in Nat \ {0}
ASSUME MaxDepthAssumption == MaxDepth \in Nat

Owners == Singles \cup Arrays
Counts == 0 .. MaxCount

VARIABLES
  storage,       \* the blocks in use: their resource and element count
  outstanding,   \* what each resource has handed out and not got back
  lives,         \* lives[b][i]: constructions less destructions of element i
  owner,         \* an owner's pointer and deleter
  calls          \* the running calls, the innermost first

allocVars == <<storage, outstanding, lives, owner, calls>>

Unused == [res |-> Null, cnt |-> 0]

AllocTypeOK ==
  /\ storage \in [Blocks -> {Unused} \cup [res : Resources, cnt : Counts]]
  /\ outstanding \in [Resources -> [blocks : Nat, elements : Nat]]
  /\ lives \in [Blocks -> [0 .. MaxCount - 1 -> Int]]
  /\ owner \in [Owners -> [ptr : Blocks \cup {Null},
                           res : Resources \cup {Null}, cnt : Counts]]
  /\ calls \in Seq([op : {"construct", "destroy"}, for : Owners, ptr : Blocks,
                    res : Resources, cnt : Counts, todo : Counts, at : Counts,
                    from : Owners])

AllocInit ==
  /\ storage = [b \in Blocks |-> Unused]
  /\ outstanding = [r \in Resources |-> [blocks |-> 0, elements |-> 0]]
  /\ lives = [b \in Blocks |-> [i \in 0 .. MaxCount - 1 |-> 0]]
  /\ owner = [o \in Owners |-> [ptr |-> Null, res |-> Null, cnt |-> 0]]
  /\ calls = <<>>

-----------------------------------------------------------------------------
(* The memory resource, which counts as the tests' resource does.          *)

Allocate(b, r, n) ==
  /\ storage[b] = Unused
  /\ storage' = [storage EXCEPT ![b] = [res |-> r, cnt |-> n]]
  /\ outstanding' = [outstanding EXCEPT
                       ![r] = [blocks |-> @.blocks + 1, elements |-> @.elements + n]]

Deallocate(b, r, n) ==
  /\ storage' = [storage EXCEPT ![b] = Unused]
  /\ outstanding' = [outstanding EXCEPT
                       ![r] = [blocks |-> @.blocks - 1, elements |-> @.elements - n]]

-----------------------------------------------------------------------------
Running == Head(calls)
Advance == calls' = <<[Running EXCEPT !.at = @ + 1]>> \o Tail(calls)

(* A call begins when no other runs, or in the constructor or destructor   *)
(* of an element; an owner that a running call works on is left alone.     *)
MayCall(o) ==
  /\ Len(calls) < MaxDepth
  /\ calls # <<>> => Running.at < Running.todo
  /\ \A i \in DOMAIN calls : o \notin {calls[i].for, calls[i].from}

(* Mutant: an array's deleter counts an element too many.                  *)
DeleterOneMore(o, r, n) ==
  [ptr |-> Null, res |-> r, cnt |-> IF o \in Arrays THEN n + 1 ELSE 0]
DeleterFor(o, r, n) ==
  [ptr |-> Null, res |-> r, cnt |-> IF o \in Arrays THEN n ELSE 0]

(* allocator_new: memory for n elements, then the elements one by one.     *)
New(o, r, n) ==
  /\ MayCall(o)
  /\ owner[o].ptr = Null
  /\ \E b \in Blocks :
       /\ Allocate(b, r, n)
       /\ calls' = <<[op |-> "construct", for |-> o, ptr |-> b, res |-> r,
                      cnt |-> n, todo |-> n, at |-> 0, from |-> o]>> \o calls
  /\ UNCHANGED <<lives, owner>>

NewOne(o, r) == o \in Singles /\ New(o, r, 1)
NewArray(o, r, n) == o \in Arrays /\ New(o, r, n)

Construct ==
  /\ calls # <<>> /\ Running.op = "construct" /\ Running.at < Running.todo
  /\ lives' = [lives EXCEPT ![Running.ptr][Running.at] = @ + 1]
  /\ Advance
  /\ UNCHANGED <<storage, outstanding, owner>>

(* allocate_unique: the pointer and its deleter reach the owner together.  *)
AllocateUnique ==
  /\ calls # <<>> /\ Running.op = "construct" /\ Running.at = Running.todo
  /\ owner' = [owner EXCEPT ![Running.for] =
                 [DeleterFor(Running.for, Running.res, Running.cnt) EXCEPT
                    !.ptr = Running.ptr]]
  /\ calls' = Tail(calls)
  /\ UNCHANGED <<storage, outstanding, lives>>

(* A constructor throws: the elements before it are destroyed (by          *)
(* uninitialized_default_construct_n), then all the memory is given back.  *)
(* Mutants: nothing is undone; only the memory is given back; only the     *)
(* memory of the elements already made is given back.                      *)
NoRollBack(c) == <<>>
MemoryOnly(c) == <<[c EXCEPT !.op = "destroy", !.todo = 0, !.at = 0]>>
PartOfMemory(c) ==
  <<[c EXCEPT !.op = "destroy", !.cnt = c.at, !.todo = c.at, !.at = 0]>>
RollBack(c) == <<[c EXCEPT !.op = "destroy", !.todo = c.at, !.at = 0]>>

Throw ==
  /\ calls # <<>> /\ Running.op = "construct" /\ Running.at < Running.todo
  /\ calls' = RollBack(Running) \o Tail(calls)
  /\ UNCHANGED <<storage, outstanding, lives, owner>>

-----------------------------------------------------------------------------
(* allocator_delete, called by an owner's deleter: the elements one by     *)
(* one, then the memory.                                                   *)

CountOf(o) == IF o \in Arrays THEN owner[o].cnt ELSE 1

Delete(o, g) ==
  calls' = <<[op |-> "destroy", for |-> o, ptr |-> owner[o].ptr,
              res |-> owner[o].res, cnt |-> CountOf(o), todo |-> CountOf(o),
              at |-> 0, from |-> g]>> \o calls

DestroyAt ==
  /\ calls # <<>> /\ Running.op = "destroy" /\ Running.at < Running.todo
  /\ lives' = [lives EXCEPT ![Running.ptr][Running.at] = @ - 1]
  /\ Advance
  /\ UNCHANGED <<storage, outstanding, owner>>

GiveBack ==
  /\ calls # <<>> /\ Running.op = "destroy" /\ Running.at = Running.todo
  /\ Deallocate(Running.ptr, Running.res, Running.cnt)
  /\ owner' = [owner EXCEPT
                 ![Running.for] = [owner[Running.from] EXCEPT !.ptr = owner[Running.for].ptr]]
  /\ calls' = Tail(calls)
  /\ UNCHANGED lives

-----------------------------------------------------------------------------
(* What std::unique_ptr does with the deleters: reset() and the destructor *)
(* clear the pointer first and then call the deleter; a move assignment    *)
(* does the same and takes over the other's deleter last.                  *)

Reset(o) ==
  /\ MayCall(o)
  /\ owner[o].ptr # Null
  /\ Delete(o, o)
  /\ owner' = [owner EXCEPT ![o].ptr = Null]
  /\ UNCHANGED <<storage, outstanding, lives>>

MoveInto(o, g) ==
  /\ o # g /\ (o \in Arrays <=> g \in Arrays)
  /\ MayCall(o) /\ MayCall(g)
  /\ IF owner[o].ptr = Null
     THEN /\ owner' = [owner EXCEPT ![o] = owner[g], ![g].ptr = Null]
          /\ UNCHANGED calls
     ELSE /\ owner' = [owner EXCEPT ![o].ptr = owner[g].ptr, ![g].ptr = Null]
          /\ Delete(o, g)
  /\ UNCHANGED <<storage, outstanding, lives>>

-----------------------------------------------------------------------------
AllocNext ==
  \/ \E o \in Owners, r \in Resources :
       \/ NewOne(o, r)
       \/ \E n \in Counts : NewArray(o, r, n)
  \/ Construct
  \/ AllocateUnique
  \/ Throw
  \/ DestroyAt
  \/ GiveBack
  \/ \E o \in Owners : Reset(o) \/ \E g \in Owners : MoveInto(o, g)

AllocSpec == AllocInit /\ [][AllocNext]_allocVars

-----------------------------------------------------------------------------
(* Properties.                                                             *)

(* A block in use belongs to one owner or to one running call, a block not *)
(* in use to nobody: nothing leaks when a constructor throws, and nothing  *)
(* is given back twice when owners are moved over one another.             *)
OneOwner ==
  \A b \in Blocks :
    Cardinality({o \in Owners : owner[o].ptr = b})
      + Cardinality({i \in DOMAIN calls : calls[i].ptr = b})
    = (IF storage[b] = Unused THEN 0 ELSE 1)

(* The elements alive are those of the owned arrays, all of them, and      *)
(* those the running calls have made or not destroyed yet: each element is *)
(* constructed once and destroyed once before its memory goes back.        *)
AliveIn(b) ==
  {i \in 0 .. MaxCount - 1 :
     \/ \E o \in Owners : owner[o].ptr = b /\ i < storage[b].cnt
     \/ \E k \in DOMAIN calls :
          /\ calls[k].ptr = b
          /\ IF calls[k].op = "construct" THEN i < calls[k].at
             ELSE i \in calls[k].at .. calls[k].todo - 1}

LifetimesRespected ==
  \A b \in Blocks : \A i \in 0 .. MaxCount - 1 :
    lives[b][i] = IF i \in AliveIn(b) THEN 1 ELSE 0

(* Each block goes back to the resource it came from, with the count it    *)
(* was asked for, whoever owned it in between.                             *)
BooksBalance ==
  \A r \in Resources :
    LET used == {b \in Blocks : storage[b].res = r}
    IN outstanding[r] = [blocks |-> Cardinality(used),
                         elements |-> MapThenSumSet(LAMBDA b : storage[b].cnt, used)]
=============================================================================
