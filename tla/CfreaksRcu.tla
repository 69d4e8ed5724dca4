------------------------------ MODULE CfreaksRcu ------------------------------
(***************************************************************************)
(* freak::par::cfreaks_rcu: two-phase user space RCU.  A reader counts     *)
(* itself into one of two positions, the one the parity of the updater     *)
(* version names, and out of the same position when it leaves.  An update  *)
(* waits until the position of the next version is empty, moves the        *)
(* version on and waits until the position of the old version is empty.    *)
(* Any number of threads may update at once.                               *)
(*                                                                         *)
(* One action is one atomic operation of the code.  A Buffered reader's    *)
(* plain store sits in the processor's store buffer (of one entry),        *)
(* visible to the reader alone, until Drain writes it to memory; what the  *)
(* other readers store is in memory at once.                               *)
(***************************************************************************)
EXTENDS Integers, Sequences

CONSTANTS NumThreads,     \* num_threads_: the readers are 0 .. NumThreads-1
          Updaters,       \* the threads that call synchronize()
          Buffered,       \* the readers whose stores are delayed
          MaxNest,        \* bound: how deep read sections nest
          MaxVersion      \* bound: the last updater version

ASSUME NumThreadsAssumption == NumThreads \in Nat \ {0}
ASSUME BufferedAssumption == Buffered \subseteq 0 .. NumThreads - 1
ASSUME MaxNestAssumption == MaxNest \in Nat \ {0}
ASSUME MaxVersionAssumption == MaxVersion \in Nat

Readers   == 0 .. NumThreads - 1
Threads   == Readers \cup Updaters
Positions == {0, 1}

VARIABLES
  updater_version,   \* updater_version_
  state,             \* state[p][r]: the counters, as they are in memory
  buffer,            \* a reader's delayed store: <<>> or <<position, count>>
  held,              \* the tokens of a reader's sections, the outermost first
  pc,                \* the atomic operation a thread is about to do
  call,              \* the locals of the function a thread is in
  entered,           \* ghost: the version when the outermost section's
                     \* count reached the memory
  awaited,           \* ghost: readers inside since before the call began
  unseen,            \* ghost: those of them whose count was still buffered
  alone              \* ghost: no other synchronize() overlapped the call

memory == <<updater_version, state, buffer>>
ghosts == <<entered, awaited, unseen, alone>>
vars   == <<memory, held, pc, call, ghosts>>

NoCall == [ver |-> 0, wait |-> FALSE, nxt |-> 0]

TypeOK ==
  /\ updater_version \in Nat
  /\ state \in [Positions -> [Readers -> Nat]]
  /\ buffer \in [Readers -> {<<>>} \cup (Positions \X Nat)]
  /\ held \in [Readers -> Seq(Positions)]
  /\ pc \in [Threads -> {"idle", "granted", "enter", "older", "overtaken",
                         "flip", "younger", "outrun"}]
  /\ call \in [Threads -> [ver : Nat, wait : BOOLEAN, nxt : 0 .. NumThreads]]
  /\ entered \in [Readers -> Nat]
  /\ {awaited, unseen} \subseteq [Updaters -> SUBSET Readers]
  /\ alone \in [Updaters -> BOOLEAN]

Init ==
  /\ updater_version = 0
  /\ state = [p \in Positions |-> [r \in Readers |-> 0]]
  /\ buffer = [r \in Readers |-> <<>>]
  /\ held = [r \in Readers |-> <<>>]
  /\ pc = [t \in Threads |-> "idle"]
  /\ call = [t \in Threads |-> NoCall]
  /\ entered = [r \in Readers |-> 0]
  /\ awaited = [u \in Updaters |-> {}]
  /\ unseen = [u \in Updaters |-> {}]
  /\ alone = [u \in Updaters |-> FALSE]

Inside(r) == held[r] # <<>>
Resting(t) == pc[t] \in {"idle", "granted"}
Drained(t) == t \in Readers => buffer[t] = <<>>
InMemory(r) == state[held[r][1]][r] > 0    \* the count of a reader inside

(* updater_version_ & 1: the position readers count themselves into.       *)
Pos(v) == v % 2

-----------------------------------------------------------------------------
(* A thread loads its own delayed store; the others load the memory.       *)
Load(t, p, r) ==
  IF t = r /\ buffer[r] # <<>> /\ buffer[r][1] = p THEN buffer[r][2]
                                                   ELSE state[p][r]

Store(r, p, n) ==
  /\ Drained(r)
  /\ IF r \in Buffered
     THEN buffer' = [buffer EXCEPT ![r] = <<p, n>>] /\ UNCHANGED state
     ELSE state' = [state EXCEPT ![p][r] = n] /\ UNCHANGED buffer
  /\ UNCHANGED updater_version

Arrives(r, first) ==
  entered' = IF first THEN [entered EXCEPT ![r] = updater_version] ELSE entered

Drain(r) ==
  /\ ~Drained(r)
  /\ state' = [state EXCEPT ![buffer[r][1]][r] = buffer[r][2]]
  /\ buffer' = [buffer EXCEPT ![r] = <<>>]
  /\ Arrives(r, Len(held[r]) = 1 /\ ~InMemory(r))
  /\ UNCHANGED <<updater_version, held, pc, call, awaited, unseen, alone>>

-----------------------------------------------------------------------------
(* read_lock: a load of the version, then a store to the position it names.*)

ReadLock(r) ==
  /\ Resting(r)
  /\ Len(held[r]) < MaxNest
  /\ pc' = [pc EXCEPT ![r] = "enter"]
  /\ call' = [call EXCEPT ![r] = [NoCall EXCEPT !.ver = updater_version]]
  /\ UNCHANGED <<memory, held, ghosts>>

Enter(r) ==
  LET p == Pos(call[r].ver)
  IN /\ pc[r] = "enter"
     /\ Store(r, p, Load(r, p, r) + 1)
     /\ held' = [held EXCEPT ![r] = Append(@, p)]
     /\ Arrives(r, ~Inside(r) /\ r \notin Buffered)
     /\ pc' = [pc EXCEPT ![r] = "idle"]
     /\ call' = [call EXCEPT ![r] = NoCall]
     /\ UNCHANGED <<awaited, unseen, alone>>

(* read_unlock of the innermost section, as lock_guard scopes nest.        *)
(* Mutant: the position is taken from the version, not from the token.     *)
PositionOfVersion(r) == Pos(updater_version)
PositionOfToken(r) == held[r][Len(held[r])]

ReadUnlock(r) ==
  LET p == PositionOfToken(r)
  IN /\ Resting(r)
     /\ Inside(r)
     /\ Store(r, p, Load(r, p, r) - 1)
     /\ held' = [held EXCEPT ![r] = SubSeq(@, 1, Len(@) - 1)]
     /\ IF Len(held[r]) = 1
        THEN /\ entered' = [entered EXCEPT ![r] = 0]
             /\ awaited' = [u \in Updaters |-> awaited[u] \ {r}]
             /\ unseen' = [u \in Updaters |-> unseen[u] \ {r}]
        ELSE UNCHANGED <<entered, awaited, unseen>>
     /\ UNCHANGED <<pc, call, alone>>

-----------------------------------------------------------------------------
(* synchronize(w).  A reader calls it outside of its sections              *)
(* (cfreaks_rcu.hpp:83-85).                                                *)

Synchronize(u, w) ==
  /\ Resting(u)
  /\ u \in Readers => ~Inside(u)
  /\ updater_version < MaxVersion
  /\ pc' = [pc EXCEPT ![u] = "older"]
  /\ call' = [call EXCEPT ![u] = [NoCall EXCEPT !.ver = updater_version,
                                                !.wait = w]]
  /\ awaited' = [awaited EXCEPT ![u] = {r \in Readers : Inside(r)}]
  /\ unseen' = [unseen EXCEPT ![u] = {r \in Readers : Inside(r) /\ ~InMemory(r)}]
  /\ alone' = [v \in Updaters |->
                 IF v = u THEN \A x \in Updaters \ {u} :
                                 Resting(x) \/ pc[x] = "enter"
                          ELSE alone[v] /\ Resting(v)]
  /\ UNCHANGED <<memory, held, entered>>

GoTo(u, l) ==
  /\ pc' = [pc EXCEPT ![u] = l]
  /\ call' = [call EXCEPT ![u].nxt = 0]

Grant(u) == GoTo(u, "granted") /\ UNCHANGED ghosts

Refuse(u) ==
  /\ pc' = [pc EXCEPT ![u] = "idle"]
  /\ call' = [call EXCEPT ![u] = NoCall]
  /\ awaited' = [awaited EXCEPT ![u] = {}]
  /\ unseen' = [unseen EXCEPT ![u] = {}]
  /\ alone' = [alone EXCEPT ![u] = FALSE]
  /\ UNCHANGED entered

(* readers_done(p): one load per step.  The scan either passes the reader, *)
(* is done with the last one, or gives up at the first count that is not 0.*)
Pass(u, p) ==
  /\ Load(u, p, call[u].nxt) = 0
  /\ call[u].nxt + 1 < NumThreads
  /\ call' = [call EXCEPT ![u].nxt = @ + 1]
  /\ UNCHANGED <<pc, ghosts>>
LastPass(u, p) == Load(u, p, call[u].nxt) = 0 /\ call[u].nxt + 1 = NumThreads
Stuck(u, p)    == Load(u, p, call[u].nxt) # 0

(* Phase 1: the position of the next version must be empty.                *)
(* Mutant: the two phases' positions are mixed up.                         *)
WrongOlderPosition(u) == Pos(call[u].ver)
OlderPosition(u) == Pos(call[u].ver + 1)

ScanOlder(u) ==
  LET p == OlderPosition(u)
  IN /\ pc[u] = "older"
     /\ \/ Pass(u, p)
        \/ LastPass(u, p) /\ GoTo(u, "flip") /\ UNCHANGED ghosts
        \/ Stuck(u, p) /\ GoTo(u, "overtaken") /\ UNCHANGED ghosts
     /\ UNCHANGED <<memory, held>>

Overtaken(u) ==
  LET cv == updater_version
  IN /\ pc[u] = "overtaken"
     /\ \/ cv = call[u].ver + 1 /\ GoTo(u, "flip") /\ UNCHANGED ghosts
        \/ cv \notin {call[u].ver, call[u].ver + 1} /\ Grant(u)
        \/ cv = call[u].ver /\ ~call[u].wait /\ Refuse(u)
        \/ /\ cv = call[u].ver /\ call[u].wait
           /\ GoTo(u, "older") /\ UNCHANGED ghosts
     /\ UNCHANGED <<memory, held>>

(* compare_exchange_strong: a locked instruction, it waits for the         *)
(* caller's own stores.                                                    *)
Flip(u) ==
  /\ pc[u] = "flip"
  /\ Drained(u)
  /\ updater_version' = IF updater_version = call[u].ver THEN call[u].ver + 1
                                                         ELSE updater_version
  /\ GoTo(u, "younger")
  /\ UNCHANGED <<state, buffer, held, ghosts>>

(* Phase 2: the position of the version the call began with must be empty. *)
(* Mutant: the two phases' positions are mixed up.                         *)
WrongYoungerPosition(u) == Pos(call[u].ver + 1)
YoungerPosition(u) == Pos(call[u].ver)

ScanYounger(u) ==
  LET p == YoungerPosition(u)
  IN /\ pc[u] = "younger"
     /\ \/ Pass(u, p)
        \/ LastPass(u, p) /\ Grant(u)
        \/ Stuck(u, p) /\ GoTo(u, "outrun") /\ UNCHANGED ghosts
     /\ UNCHANGED <<memory, held>>

(* Mutant: another updater's progress is not looked at.                    *)
NeverMoves(u) == FALSE
MovedOn(u) == updater_version # call[u].ver + 1
Outrun(u) ==
  /\ pc[u] = "outrun"
  /\ \/ MovedOn(u) /\ Grant(u)
     \/ ~MovedOn(u) /\ GoTo(u, "younger") /\ UNCHANGED ghosts
  /\ UNCHANGED <<memory, held>>

-----------------------------------------------------------------------------
Reader(r) == ReadLock(r) \/ Enter(r) \/ ReadUnlock(r) \/ Drain(r)

SynchronizeStep(u) ==
  ScanOlder(u) \/ Overtaken(u) \/ Flip(u) \/ ScanYounger(u) \/ Outrun(u)

Next ==
  \/ \E r \in Readers : Reader(r)
  \/ \E u \in Updaters : \/ \E w \in BOOLEAN : Synchronize(u, w)
                         \/ SynchronizeStep(u)

(* Threads run the function they are in to its end and stores reach the    *)
(* memory.  The client owes one thing: a reader does not stay inside for   *)
(* ever, however it nests its sections (and while it is inside it is in no *)
(* call that waits).                                                       *)
Fairness ==
  /\ \A r \in Readers : WF_vars(Enter(r)) /\ []<>~Inside(r)
  /\ \A r \in Buffered : WF_vars(Drain(r))
  /\ \A u \in Updaters : WF_vars(SynchronizeStep(u))

Spec == Init /\ [][Next]_vars
FairSpec == Spec /\ Fairness

-----------------------------------------------------------------------------
(* Properties.                                                             *)

(* What synchronize() promises (cfreaks_rcu.hpp:86-89): when it returns    *)
(* true, every reader that was inside when it was called has left.         *)
GracePeriodHolds == \A u \in Updaters : pc[u] = "granted" => awaited[u] = {}

(* The promise for a call no other call overlaps, whatever calls there     *)
(* were before it: readers that took a position long ago and count         *)
(* themselves in only now are waited for as well.  Only a reader whose     *)
(* count had not reached the memory when the call began may be missed.     *)
LoneCallGrace ==
  \A u \in Updaters : pc[u] = "granted" /\ alone[u] => awaited[u] \subseteq unseen[u]

(* What is left of the promise when calls overlap, also on the two short   *)
(* ways out (cfreaks_rcu.cpp:81, 101-103): the readers that were inside    *)
(* under the version the call began with have left.                        *)
CurrentPhaseDrained ==
  \A u \in Updaters : pc[u] = "granted" =>
    \A r \in awaited[u] \ unseen[u] : held[r][1] # Pos(call[u].ver)

(* A section outlives one step of the version, and a second one only if it *)
(* began with a stale position, however many updaters step it; the steps   *)
(* count from the moment the section's count is in memory.                 *)
SectionSpan ==
  \A r \in Readers : Inside(r) /\ InMemory(r) =>
    updater_version <=
      entered[r] + (IF held[r][1] = Pos(entered[r]) THEN 1 ELSE 2)

(* A call to synchronize() returns, with readers entering all the time and *)
(* with other updaters moving the version under it.                        *)
EverySynchronizeReturns ==
  \A u \in Updaters : ~Resting(u) ~> Resting(u)
=============================================================================
