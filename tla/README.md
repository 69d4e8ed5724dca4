# TLA+ models of frklib

frklib is a small C++ library. Its core is `frk/par`: two user-space RCU
implementations, a left-right pair of copies, two lock-free queues and a family
of lock-carrying wrappers. These modules model it, check it with TLC and prove
about it with TLAPS. Two sequential parts are modelled too: `frk/net` (byte
order, addresses and ports) and `frk/mem` (allocator wrappers). The rest is
listed below as not modelled.

File and line numbers are those of the repository; `cfreaks_rcu.cpp` and
`dpdk_rcu.cpp` are under `src/`, the headers under `include/frk/`.

## 1. Inventory

| Component | State | Operations | Interaction |
|---|---|---|---|
| `par/dpdk_rcu` | `current_token_`, `acked_token_`, one counter per reader | `reader_quiescent_state`, `start_update`, `check_quiescent_state`, `synchronize` | readers and updaters share atomics only; a reader may be an updater |
| `par/cfreaks_rcu` | `updater_version_`, two counters per reader | `read_lock`, `read_unlock`, `lock_guard`, `synchronize` | as above; updaters help and overtake each other |
| `par/read_write`, `rw_locked` | two copies, `read_idx_`, two reader counts, `wr_mut_` | `read`, `write`, moving and destroying both guards | readers are lock-free, writers serialised by the mutex |
| `par/vyukov_mpmc_queue` | ring of cells with sequence numbers, `push_pos_`, `pop_pos_` | `try_push`, `try_pop`, `try_pop_fn`, destructor | any number of producers and consumers |
| `par/spsc_ring` | ring, head, tail and a cached copy of each | single and batch `try_push` and `try_consume`, `try_pop`, the counters, the destructor | one producer, one consumer, their functions and constructors may throw |
| `par/orbit_mpmc_ring` | ring, pairs of positions | `try_push`, `try_consume` | unfinished in the source |
| `par/synchronized`, `locked`, `locked_policy` | an object and its lock | construction, copy, assignment, swap, guards, locking of two objects in address order | mutexes, guards that move |
| `net/endian`, `ip_addr`, `ip_addr_port` | values | conversions between native, network and memory order, prefix masks, comparison, text | other machines, through bytes and text |
| `mem/wrappers` | the memory behind the allocators | `allocator_new`, `allocator_delete`, `allocate_unique`, both deleters | the allocator, `std::unique_ptr`, constructors and destructors that call back |
| `algo`, `par/mpl`, `par/cpu` | none | compile-time helpers | none |

Hard behaviours, and what makes each component correct:

* **dpdk_rcu.** Updaters' scans overlap; a scan uses old loads; `acked_token_`
  is written by all updaters without order and can go back; a reader's report
  may be stale and delayed in the store buffer; readers may wait for readers.
  Correct: a granted update has outlived every reader that held a reference when
  it began; waiting ends if readers keep reporting.
* **cfreaks_rcu.** A reader may take a position and be delayed across flips;
  sections nest over different positions; updaters leave early when another one
  moves the version. Correct: `synchronize` returns true only after every reader
  inside at the call has left, and it returns.
* **read_write.** The index is loaded before the reader is counted. Correct: no
  writer touches the copy a reader reads; a reader gets the value published when
  it began or a newer one; releasing a guard ends.
* **Queues.** A thread may be delayed between its position, the cell's number
  and the claim; cached positions are stale; positions wrap; a batch is taken in
  part. Correct: a FIFO queue of bounded size, every element constructed and
  destroyed once, failures that have a cause.
* **synchronized.** Two objects locked in opposite order by two threads; a guard
  moved from. Correct: no deadlock, whole values only.
* **mem.** A constructor throws in the middle of an array; elements own objects
  of their own, so calls nest; owners with different resources and counts are
  moved over one another. Correct: every element is destroyed once, every block
  goes back once, with its count, to where it came from.
* **net.** Nearly every operation converts between the machine's byte order and
  the network's; shifts by the full width; buffers that just fit. Correct: the
  bytes are the same on every machine, and text and comparison agree with them.

`PROJECT.json` lists the hazards line by line with the properties that cover
them.

## 2. Modules

| Module | What it is |
|---|---|
| `GracePeriod` | abstract: what any RCU promises (readers inside, updates awaiting them, grants) |
| `DpdkRcu` | `dpdk_rcu`, one action per atomic operation |
| `DpdkRcuProofs` | TLAPS theorems about `DpdkRcu` |
| `CfreaksRcu` | `cfreaks_rcu`, one action per atomic operation, memory with or without store buffers |
| `CfreaksRcuProofs` | TLAPS theorems about `CfreaksRcu` |
| `ReadWrite` | `read_write` and its guards |
| `ReadWriteProofs` | TLAPS theorems about `ReadWrite` |
| `AtomicObjects` | abstract: what locking an object promises (every operation happens at one moment) |
| `Synchronized` | `synchronized` and the guards `locked` |
| `SynchronizedProofs` | TLAPS theorems about `Synchronized` |
| `BoundedQueue` | abstract: a FIFO queue shared by threads, with elements in the consumers' hands |
| `VyukovQueue` | `vyukov_mpmc_queue` |
| `VyukovQueueProofs` | TLAPS theorems about `VyukovQueue` |
| `SpscRing` | `spsc_ring` |
| `SpscRingProofs` | TLAPS theorems about `SpscRing` |
| `Allocation` | `mem/wrappers.hpp`, with the calls that run inside one another |
| `AllocationProofs` | TLAPS theorems about `Allocation` |
| `Endian`, `IpAddr`, `IpAddrPort` | operators: the conversions, addresses of a type `T`, addresses with ports |
| `Peers` | machines of both byte orders that hand one address and port, of any type, around |
| `Libraries` | `Allocation` and `Peers`; a behaviour uses one of the two |
| `LibrariesProofs` | TLAPS theorems about `Libraries`: byte order, addresses, ports, texts, and those of `AllocationProofs` again |
| `MC...` | the model values and sets of the TLC runs |

`DpdkRcu` implements `GracePeriod`; `VyukovQueue` and `SpscRing` implement
`BoundedQueue`; `Synchronized` implements `AtomicObjects`. The refinement
mappings are the `INSTANCE ... WITH` in each module. `CfreaksRcu` does *not*
implement `GracePeriod` (section 6), so it states the parts of the promise it
keeps.

### How state and steps correspond to the code

`pc[t]` names the next atomic operation of thread `t`, and the locals of its
call are in `call`, `pos`/`val`, `ri` and so on. The name of an action is the
function it starts or the operation it does. Variables marked *ghost* record
history for the properties and are never read by a guard.

**DpdkRcu.** `reader_quiescent_state` is `LoadToken` then `ReportToken`, with
`Drain` for the moment the plain store reaches memory. `start_update` is
`StartUpdate`. `check_quiescent_state` is `CheckQuiescentState` (entry),
`LoadAcked` (the shortcut), one `Scan` step per counter, `StoreAcked`. A waiting
caller stays in `Scan` until the counter it looks at has moved, the others
return false. `synchronize` is `Synchronize`, then the same steps. `Acquire` and
`Release` are the client: a reader takes and drops references between reports
and holds none when it reports. Tokens start at `FirstToken` = 1 and counters at
0 as in the constructor, so a reader that has not reported yet holds up every
update.

**CfreaksRcu.** `read_lock` is `ReadLock` then `Enter`; `read_unlock` is
`ReadUnlock`; `synchronize` is `Synchronize` (which loads the version),
`ScanOlder`/`Overtaken` (phase 1), `Flip`, `ScanYounger`/`Outrun` (phase 2).
`readers_done` is one load per step. The threads in `Buffered` have a store
buffer, which `Drain` empties. After a call that returned true the thread
rests at `granted`, so a property can look at what it returned.

**ReadWrite.** `read()` is `Read` (the index) then `CountIn`; the read guard's
destructor is `ReleaseRead`. `write()` is `Write`, the client's access `Modify`,
the write guard's destructor `WaitNext`, `Flip`, `WaitPrev`, `Unlock`. A copy is
the set of the changes made to it, each named by the number of its write guard;
a client that takes a write guard may also change nothing. `MoveGuard` and
`DropMoved` move a guard and destroy the one it was moved from, in any order
with the other's destruction.

**VyukovQueue.** `try_push` is `Push` (position), `PushLoadSeq` (the three-way
comparison, with the return of false), `PushReload`, `PushCas` (which may also
fail spuriously: `compare_exchange_weak`), `Construct`, `PushDone`; popping
mirrors it. The mapping to the abstract queue places a push at its claim and a
pop at its claim.

**SpscRing.** Producer: `BeginPush` (with the cached tail), `LoadTail`, one
`Construct` per element or `ConstructThrows`, `StoreHead`. Consumer:
`BeginConsume` or `BeginConsumeEmpty` then `LoadHead`; the function's `Take` and
`Finish` of each element, and its `Return`, `Refuse` or `Throw`; `DestroyOne`
for each element it took; `EndRange`, which goes on to the second range or not;
`StoreTail`. `try_pop` and the single `try_consume` are the case `batch =
FALSE`. `Destructor` starts the loop of batch pops of the code's destructor, on
the consumer's steps, and `NewRing` makes the next ring in the same memory.
`count_pop_slots` is `CountLoadHead` then `CountLoadTail`; `count_push_slots` is
the size minus its result.

**Synchronized.** `Assign`, `MoveAssign`, `Swap`, `Set` and `Copy` enter the
functions of that name, with the guards they want in `wants`. `Lock` is the
constructor of a guard (`with_synchronized` decides which one comes first),
`Change`, `LookFirst` and `LookSecond` are the access to the object, one part of
the value at a time, `Unlock` is the destructor of a guard. `Write` and `Read`
return guards that a client keeps, works through (`Modify`, `View`), moves to an
empty variable (`MoveGuard`) or over another guard (`MoveGuardOver`, which
unlocks what that one held) and destroys (`Drop`). The mapping takes the second
part of the data for the value, so an operation happens when it has changed
both parts or read both.

**Allocation.** `calls` is the stack of the calls of `allocator_new` and
`allocator_delete` that are running, because constructors and destructors are
the client's and may call them again. `New` allocates, `Construct` makes one
element, `AllocateUnique` hands pointer and deleter to the owner; `Throw` turns
the running call into the destruction of what was made (`RollBack`). `Reset` and
`MoveInto` are what `std::unique_ptr` does with the deleters; the call they start
runs `DestroyAt` per element and `GiveBack`. `outstanding` is what the tests'
memory resource counts.

**Peers.** One peer travels: `Rebuild` takes it apart into native integers and
makes it again, `Mask` applies a prefix, `Send` carries its `sockaddr` as bytes
to a machine that may have the other byte order, `Relay` does the same with
little-endian numbers, `WriteText` and `Parse` go through text. `type` is the
type of its address, `ip4` or `ip6`, and stays what it was at the start. A text
is its length and what `inet_pton` reads in it. `Masked` has two results for the
prefix of no bits, because the code's shift by the full width is undefined.
Shifts and the weights of bytes are powers; `Power` is defined by recursion
instead of with `^`, of which the provers know nothing.

### Rules the clients follow

They are stated by the headers, or they are the use the code can only be meant
for:

* A dpdk reader reports only when it holds no references, and waits only for a
  token it has itself reported (dpdk_rcu.hpp:86-87); a reader's call of
  `synchronize` comes after a report of the current token (72-73). The passing
  runs let only a non-reader call `synchronize`: a reader that has reported
  before the call waits for itself (section 6). The proofs make no such
  restriction.
* cfreaks sections nest, as `lock_guard` scopes do, and a reader calls
  `synchronize` outside of its sections (cfreaks_rcu.hpp:83-85). `read_unlock`
  takes the innermost token. Unlocking in another order is outside the model and
  would leave a reader counted into a position it did not take first.
* A `read_write` thread has one guard at a time; it may move it. A client that
  overwrites the whole value notices nothing of the two copies. One that changes
  a part of it gets what `EveryOtherChange` says: each copy has the changes of
  every other write guard, so readers lose the last change with the next write
  guard and get it back with the one after. Nothing in the header promises
  otherwise.
* `spsc_ring` has one producer and one consumer thread. Its destructor runs when
  no call is under way. A function that throws or refuses has taken no element
  of its range; it throws only where `ThrowsIn` says, which is the first range in
  the run (section 6 has the second).
* Functions of `mem` are called from anywhere, also from the constructors and
  destructors they run, but not on an owner that a running call works on
  (`MayCall`). An object is deleted as the type it was made as.
* A thread that keeps guards of `synchronized` objects takes them in the order
  of the addresses and calls the other functions without any. The header states
  no rule; without one, two clients that keep guards can deadlock like with any
  mutex.

### Memory

Models are sequentially consistent except for readers' plain stores. Those are
where x86 reorders what this code relies on, so `DpdkRcu` always, and
`CfreaksRcu` for the threads in `Buffered`, keep them in a buffer of one entry: the owner
sees them, the others only after `Drain`. A locked instruction waits for the
caller's buffer. Longer buffers would only delay further stores of the same
thread. Weaker orders (a relaxed load that gives no happens-before) are not
modelled; the one place where this matters is a hazard without a property
(dpdk_rcu.cpp:45). In the queues every store is a release store to a location
its owner writes last and every decision rests on an acquire load, so the order
of the model is the order of the program.

## 3. Runs

| Run | What it shows |
|---|---|
| `dpdk_rcu` | refinement of `GracePeriod`; the acknowledged token never ahead of a reader; a grant covers all older tokens |
| `dpdk_rcu_liveness` | every waiting check returns, with readers that wait for each other |
| `cfreaks_rcu` | the promise for calls that no other call overlaps; what is left of it for overlapping ones; how long a section can last in versions; every `synchronize` returns |
| `cfreaks_rcu_two_updaters` | violation: two overlapping updaters break the promise |
| `cfreaks_rcu_store_buffer` | violation: a delayed store breaks it with one updater |
| `read_write` | readers counted in on time are safe; reads are fresh; what changes each copy has; counts agree with guards however these are moved; releases end |
| `read_write_overlap` | violation: a stalled reader reads what the second writer writes |
| `vyukov_queue` | refinement of `BoundedQueue`; element lifetimes; why calls fail and retry; the destructor's assertion |
| `spsc_ring` | refinement of `BoundedQueue`; element lifetimes; cached positions stale on the safe side; the owners' counts; the destructor ends and leaves nothing alive |
| `spsc_ring_count` | violation: a third thread's count underflows |
| `libraries` | no leak, no double destruction, blocks back to their resource with their count; addresses keep their network on both byte orders, in text and in the ordering |
| `synchronized` | refinement of `AtomicObjects`; no circular wait; locks and guards agree |

Deadlock is checked in every run. Every property of a passing run is broken by
at least one mutant of the code's definitions (`mutants` in `PROJECT.json`).

### Bounds, and why they are enough

* *Two readers* (`NumThreads = 2`): a scan passes one reader and is then delayed
  before the other, which is the only thing a third would repeat. `dpdk_rcu` has
  three updaters, two of them the readers, so that a third party's store to
  `acked_token_` comes between two others'.
* `MaxToken = 3`: tokens 2 and 3, an older and a newer update in flight at once.
  The proofs remove this bound and the previous one for the safety properties.
* `MaxVersion = 3`, `MaxNest = 2` in `cfreaks_rcu`: both positions are used
  twice, a reader's nested sections are in different positions, and a call is
  overtaken by two flips. One reader has a store buffer and the other, which
  also updates, has none, so a buffered store meets the scans of two updaters.
  The proofs remove these bounds for everything but liveness.
  `LoneCallGrace` and `CurrentPhaseDrained` leave out the readers whose count had
  not reached the memory when the call began (*ghost* `unseen`); what happens to
  those is the subject of `cfreaks_rcu_store_buffer`.
* `MaxWrites = 4`, three threads in `read_write`: both copies are changed twice
  while a reader is stalled, with two other writers.
* `Size = 2`, `MaxPos = 4` in `vyukov_queue`: two rounds of the ring, so a
  thread may be a whole round late; producers {a, b} and consumers {b, c, d}
  overlap. Numbers do not wrap; the program's are 64 bits wide. The proofs
  remove the other bounds.
* `Size = 4`, `Wrap = 8` in `spsc_ring`: positions wrap, ranges start and end
  everywhere, and one push asks for one more than there is room for.
  `DrainBatch = 2`: the destructor's pops are smaller than the ring, as they
  are in the code for rings of more than 16. There is no other bound, the state
  space is finite as it is. The proofs hold for every size, wrap and batch.
* `libraries`: two blocks, two resources, an owner of one object and two of
  arrays, arrays of 0 to 2 elements, two calls inside one another: a constructor
  throws at the first or second element while an enclosing one runs, and each
  move has a source and a target of different count and resource. Bytes have two
  bits and addresses two or four bytes; four are longer than a word, so the
  128-bit swap without the builtin (`HasBswap128 = FALSE`) is used. The numbers
  have bytes that differ, and bits on both sides of every prefix. The proofs
  remove all of these bounds: they hold for bytes, words and addresses of the
  program's lengths and for all of its numbers, with the builtin and without.
* Three threads, two objects, two values and a shared mutex in `synchronized`:
  two threads work in opposite directions while the third keeps, moves and drops
  guards of both objects. The other two are symmetric. The proofs remove these
  bounds. With a mutex that has no shared mode, `Assign`, `Copy` and `Read` do not
  exist and the rest is the same.

## 4. Fairness

* A thread that is in a function takes its next step (weak fairness on the
  steps inside functions): threads are scheduled.
* Store buffers drain (weak fairness).
* `DpdkRcu`: a reader drops its references and reports again and again. The
  header says when a reader may report (dpdk_rcu.hpp:65-68); that it keeps doing
  so is what any use of the facility rests on, since an update can be granted
  only by reports. Strong fairness, because a reader that is also an updater may
  do checks in between, which disables the action for a while.
* `CfreaksRcu`: every thread is outside of its sections again and again
  (`[]<>~Inside(r)`); a thread that never leaves holds up every updater, by
  design.
* `ReadWrite`: guards are given up. Nothing is assumed of readers that have not
  come yet: they may arrive for ever.
* `SpscRing`: once the destructor runs, it runs on. Nothing is assumed before.

No operation is ever forced to *start*.

Nothing is assumed or shown about the progress of `Synchronized`: its mutexes
are the caller's, and may be unfair. `NoWaitCycle` says that somebody can go on.

## 5. Proofs

### DpdkRcuProofs

`DpdkRcuProofs` proves, for every `NumThreads >= 1`, every set of updaters and
of callers of `synchronize`, and every `MaxToken`:

* `TypeCorrect`: `Spec => []TypeOK`;
* `AckedTokenSound`: `Spec => []AckedSound`;
* `GrantsCoverOlder`: `Spec => []GrantCoversOlder`;
* `Refinement`: `Spec => Contract`, `DpdkRcu` implements `GracePeriod`.

The assumptions are `NumThreadsAssumption`, `SyncCallersAssumption` and
`MaxTokenAssumption`, which TLC evaluates in the runs of `MCDpdkRcu`.

The properties are not inductive: that `LoadAcked` may grant depends on who
stored `acked_token`, and that depends on what some scan saw, in order, some
time ago. The inductive invariant `IInv` adds

* `CountersBounded`: memory lags behind the reader, the reader behind the token;
* `ReportsFresh`: a report under way comes from a reader that holds nothing and
  does not take its counter back, so counters only grow;
* `HoldersUnreported`: a reader an update still waits for has not reported it;
* `ChecksWellFormed`: where a scan is, according to `pc`;
* `ScannedReached`: the counters a scan has passed have reached its token, and
  bound its running minimum;
* `GrantedReached`: every reader has reported a granted token.

Counters only grow, so `ScannedReached` survives every step of the readers;
when the scan is complete it gives `AckedSound` for the store and
`GrantedReached` for the grant, and with `HoldersUnreported` nobody is awaited.
There is one lemma per action; `Invariance` combines them, and `Refinement`
maps each action to `Enter`, `Leave`, `Begin`, `Grant` or a stutter.

### SynchronizedProofs

`SynchronizedProofs` proves, for all sets of threads, objects, values and guard
holders:

* `TypeCorrect`: `Spec => []TypeOK`;
* `NoCircularWait`: `Spec => []NoWaitCycle`;
* `LocksAndGuardsAgree`: `Spec => []LocksMatchGuards`;
* `Refinement`: `Spec => Contract`, `Synchronized` implements `AtomicObjects`.

The assumptions are that objects are numbers with a highest one in every set
of them, as addresses are (`ObjectsAssumption`), that there is a value
(`ValuesAssumption`) and that `None` is neither a thread nor something read
(`NoneAssumption`). TLC evaluates them in the run of `MCSynchronized`.

The inductive invariant adds to `TypeOK` and `LocksMatchGuards`

* `WantsAscend`: what a thread still wants lies above all that it has locked;
* `BodiesCovered`: the guards that a thread has or wants cover what the function
  it is in works on, exclusively what it changes;
* `PartsAgree` and `MidwayParts`: the two parts of an object differ only while a
  thread changes it, and what that thread has done to the first part.

`WantsAscend` gives `NoWaitCycle` (`OrderPreventsCycles`): in any set of threads
look at the highest object that one of them waits for and another one has
locked. The thread that has it wants only higher ones, so it waits for none of
the set. `BodiesCovered` and `LocksMatchGuards` give `Exclusive`: while one
thread changes an object nobody else works on it. So the steps of one body leave
`MidwayParts` of the others alone, and each second part is one step of
`AtomicObjects`.

### ReadWriteProofs

`ReadWriteProofs` proves, for any finite set of threads and any `MaxWrites`:

* `TypeCorrect`: `Spec => []TypeOK` (the unsigned counters never go below 0);
* `OnTimeReadersAreSafe`: `Spec => []OnTimeReadersSafe`;
* `ReadsAreFresh`: `Spec => []ReadsFresh`;
* `CopiesAlternate`: `Spec => []EveryOtherChange`;
* `CountsAreExact`: `Spec => []CountsMatchGuards`.

The assumptions are `ThreadsAssumption`, `NoneAssumption` and
`MaxWritesAssumption`, evaluated in the runs of `MCReadWrite`. The counters are
cardinalities of sets of readers, hence the finite set of threads. The inductive
invariant adds

* `WriterAlone` and `WriterIndex`: who has a write guard holds the mutex, and
  its index is the current one until it flips it;
* `IndexParity` and `ReaderIndex`: the index is the parity of the write guards
  published, also of those published when a reader loaded it;
* `OnTimeReaders`: a reader that was counted in before a flip has the current
  copy, or the previous one while the writer still waits for its readers.

`OnTimeReaders` is where both waits are used: `Flip` turns readers of the current
copy into readers of the previous one, and `WaitPrev` passes only when the exact
count (`CountsMatchGuards`) says that there are none.

### CfreaksRcuProofs

`CfreaksRcuProofs` proves, for every `NumThreads >= 1`, every set of updaters and
of readers with store buffers, every `MaxNest` and every `MaxVersion`:

* `TypeCorrect`: `Spec => []TypeOK` (the unsigned counters never go below 0);
* `SectionsSpan`: `Spec => []SectionSpan`;
* `LoneCallsAwaitReaders`: `Spec => []LoneCallGrace`;
* `CurrentPhaseDrains`: `Spec => []CurrentPhaseDrained`.

The assumptions are `NumThreadsAssumption`, `BufferedAssumption`,
`MaxNestAssumption` and `MaxVersionAssumption`, evaluated in the runs of
`MCCfreaksRcu`. The first half of the inductive invariant, `MemInv`, is about one
reader and the memory:

* `Counts`: what a reader sees of its counters is the number of the tokens it
  holds for each position, so a counter that a scan finds 0 has no section in
  that position, or one that is not in memory;
* `Hidden`: only the outermost section can be one of the latter kind;
* `EnteredBefore`: no section began in a version to come.

The second half, `CallInv`, is about the calls and adds

* `CallsOutside`: an updater is outside of its sections during a call, and its
  version is not ahead of the ring's;
* `OlderEmpty`: while the version is still a call's, the readers its first scan
  has passed were not in the position of the next version, unless they have come
  since the flip before. This is what makes `SectionSpan` inductive: `Flip`
  steps the version only when every section in the next position has just begun;
* `OwedInside`: whom a call owes the promise has been in one section since
  before the call. With `SectionSpan` this justifies the two short ways out, where
  the version has run away from the call: such a section can no longer be in the
  position the call began with;
* `YoungerEmpty`: the second scan has passed none that it waits for;
* `LoneCall`: during a lone call nobody else moves the version, so both scans
  speak of the positions they name.

There is one lemma for the steps of sections (`SectionStepCallInv`) and one for
the steps of calls; the rest says which steps are of which kind.

### VyukovQueueProofs

`VyukovQueueProofs` proves, for every `Size >= 2` (the code's assertion asks for
as much), all sets of producers, consumers and values, and any `MaxPos`:

* `TypeCorrect`: `Spec => []TypeOK`;
* `ElementsLive`: `Spec => []ElementLifetime`;
* `RetriesMeanProgress`: `Spec => []RetryMeansProgress`;
* `DestructorAssertionHolds`: `Spec => []DestructorAssertion`;
* `FullVerdictHolds` and `EmptyVerdictHolds`: `Spec => FullVerdict`,
  `Spec => EmptyVerdict`;
* `Refinement`: `Spec => Contract`, `VyukovQueue` implements `BoundedQueue`.

The assumptions are `SizeAssumption`, `NoneAssumption` and `MaxPosAssumption`,
evaluated in the run of `MCVyukovQueue`. The argument starts from arithmetic:
positions less than `Size` apart have different cells (`SameMultiple` and the
lemmas after it). The two positions are at most `Size` apart (`Window`), so every
position that matters has a cell of its own, and the invariant can speak of
positions:

* `Waiting`: a position between the two is being pushed by somebody, or its cell
  has its element and the number that lets it be popped;
* `Vacant`: a position from the push position to the end of the window is being
  popped since the round before, or its cell is empty and has its number;
* `ClaimedOnce`, `PushersCells`, `PoppersCells`: a claim is one thread's, and what
  that thread finds in its cell;
* `PositionsRead`: when a position somebody has read is still the ring's, then
  what the cell's number told is still true. This is what the exchange relies on;
* `Behind`: a cell's number never falls behind a claimed position, so a number
  that is ahead of the position read means that the position has moved
  (`RetryMeansProgress`), and one that is behind it is that of a position a round
  ago (the two verdicts).

For the refinement, the queue is what `ElementAt` says of the positions between
the two; `ClaimedOnce` makes its choice of a pusher unique (`ElementsWait`). A
push appends at its exchange, a pop takes the head at its exchange, and every
other step leaves the mapped queue alone.

### SpscRingProofs

`SpscRingProofs` proves, for every `Size`, every `Wrap` that is a multiple of it,
every `DrainBatch` and all values:

* `TypeCorrect`: `Spec => []TypeOK`;
* `CachesAreConservative`: `Spec => []CachesConservative`;
* `OwnersCountInRange`: `OwnersCount => (Spec => []CountInRange)`;
* `ElementsLive`: `FirstOnly => (Spec => []ElementLifetime)`;
* `Refinement`: `FirstOnly => (Spec => Contract)`, `SpscRing` implements
  `BoundedQueue`.

The assumptions are `SizeAssumption`, `WrapAssumption`, `NoneAssumption`,
`DrainBatchAssumption`, `ThrowsInAssumption` and `CallersAssumption`, evaluated in
the runs of `MCSpscRing`. The two hypotheses are the limits of what the code does,
both met by the passing run: `OwnersCount` says that no third thread counts (the
run `spsc_ring_count` shows that its count underflows), `FirstOnly` that
functions do not throw on the second range (section 6 says what happens then).

Positions wrap, so they are not ordered, and the invariant speaks of distances
only: the elements published, those the consumer has seen, and what the producer
reckons with are all at most `Size`, which is less than `Wrap`, so the
differences of the unsigned numbers are the true ones. `Wrap` is whole rounds,
so the slot of a position goes round the ring also where positions wrap; lemmas
about remainders say so. The inductive invariant has two levels:

* `SInv` adds to the types `ProducerInv` (what is constructed fits behind what the
  producer reckons with), `ConsumerInv` (where in the ring the consumer's ranges
  are, `FirstRange` or `SecondRange`, and that they end before what it has seen),
  `DrainInv` (the destructor runs alone and pops something with each batch) and
  `CountInv`. It holds whatever throws, and gives the caches and the counts;
* `Live`: exactly the slots at the distances from the destroyed elements of the
  batch under way to the elements constructed hold an element. It needs
  `FirstOnly`.

For the refinement a batch of pushes takes effect at `StoreHead`, which is a single
step of `BoundedQueue` as well, and each element is popped when the function
takes it, before the tail is stored.

### AllocationProofs

`AllocationProofs` proves, for all sets of blocks, resources and owners, and any
`MaxCount` and `MaxDepth`:

* `BlocksHaveOneOwner`: `AllocSpec => []OneOwner`;
* `ElementsLiveOnce`: `AllocSpec => []LifetimesRespected`;
* `BooksAlwaysBalance`: `AllocSpec => []BooksBalance`;
* `TypeCorrect`: `AllocSpec => []AllocTypeOK`.

They are about `Allocation` by itself; a step of `Libraries` is one of its steps
or leaves its variables alone, so they hold of `Libraries` too (`SpecAllocates`
of `LibrariesProofs`). The proofs use `NullAssumption` and
`MaxCountAssumption`, evaluated in the run of `MCLibraries`.

None of the properties is inductive. A move assignment to an owner that has a
block gives it the other's pointer at once and the other's deleter only when
the call of its own has ended, and in between the elements' destructors run
calls of their own. So the inductive invariant `IInv` says which deleter is the
one for which block at every moment:

* `CallsFit`: a running call's block is in use and as large as the call thinks;
  if its owner has got a new block already, then the deleter of the owner it
  moved from, which has no block itself, is the one for that block;
* `CallsApart`: calls inside one another have different owners and blocks;
* `OwnersFit`: an owner that no call works on has the deleter for its block;
* `OwnersApart` and `NoLeak`: a block is somebody's, and of one only;
* `Live`: which elements live, by how far the call on their block has come.

Calls are a stack, and one lemma per kind of step says what pushing, popping and
changing the innermost one keep (`PushKeeps`, `PopKeeps`, `ReplaceKeeps`); the
elements of other blocks are left alone by all (`LiveElsewhere`).

`Books` adds what the resources know. `BooksBalance` adds up the elements of a
resource's blocks with a fold, and what a fold computes needs an induction. The
library's induction theorems cannot be used, but the one about minimal elements
of well-founded relations can (`WFMin`), and gives an induction over sets of
numbers (`LeastNumber`, `InductionOnSets`). With it the fold's function exists
(`SumsExist`), does not depend on which block is taken out first (`AnyFirst`),
and so a block more on the books is its elements more (`OneBlockMore`,
`BlockOnBooks`). That the sets of blocks in use are finite is part of `Books`:
nothing is assumed of `Blocks`. `CallsFit` does the rest: the call that gives a
block back has the resource and the count that the block is marked with.

### LibrariesProofs

`LibrariesProofs` proves, for bytes and words of any length, any types of
addresses, any numbers, machines of both byte orders and any allocations:

* `LibrariesTypeCorrect`: `Spec => []TypeOK`;
* `NetworksAreKept`: `Spec => []PeersSameNetwork`;
* `TextsAreTakenBack`: `Spec => []PeersTextTakenBack`;
* `PeersAreOrdered`: `Spec => []PeersOrderTotal`;
* `AllocationsAreKept`: `Spec => [](OneOwner /\ LifetimesRespected /\ BooksBalance)`.

Three more are about the operators, whoever calls them: `HalvesAreTheWhole` (the
128-bit swap without the builtin gives what the builtin gives),
`ConversionsUndone` (each conversion is undone by the opposite one) and
`PrefixesCompose` (masking with two prefixes, in either order, is masking with
the shorter).

The assumptions are evaluated in the run of `MCLibraries`, and the program meets
them: bytes have 8 bits and words 8 bytes (`BytesAssumption`); an address has 4
or 16 bytes, and one that is longer than a word has two halves
(`AddrTypesAssumption`); a port has 2 bytes, so it fits a word, and the 8
characters that the formatter's buffer has besides those of the address
(ip_addr_port.hpp) are no fewer than a port has digits (`PortsAssumption`); what
peers are made from fits its type (`NumbersAssumption`). Whether there is the
builtin is not assumed.

The argument goes bottom up:

* *Recursion.* Powers, and the number that bytes in memory are, are functions
  defined by recursion. `InductionOnSets` of `AllocationProofs` gives an
  induction, with it such a function exists and is unique (`Recursion`), and so
  `PowerDef` and `FromMemoryDef` say what its values are.
* *Division.* Quotient and remainder are unique (`DivisionUnique`), and a number
  divided twice is divided by the product (`DivisionTwice`). These are the rules
  for digits, and a number's bytes are its digits to the base `ByteSize`.
* *Memory.* A number is what its image in memory reads as (`NumberReadBack`), and
  bytes are the image of what they read as (`BytesReadBack`). `Swapped` reverses
  the image, in one piece or in two (`SwappedReverses`).
* *Byte order.* The image of a number in network order is the same on every
  machine (`ToNetworkOrder`, `FromNetworkOrder`), and so is what little-endian
  memory carries (`RelayedSame`).
* *Prefixes.* A mask cuts the low bits off (`Cut`, `MaskedCut`), a number cut
  twice is cut at the higher bit (`CutTwice`), and a prefix of no bits gives one
  of the two results that the shift can have (`MaskedEmpty`).

`NetInv` is the inductive invariant. `SameNetwork` by itself is not one: `Parse`
makes the peer of a text written earlier, so the text must be that of the network
known when it was written; and what a port's bytes are says what the port is only
when it is known to fit them. `NetInv` is therefore the types, the same property
of the peer (`PeerIs`) and of the text (`TextIs`). One lemma per action shows
that it is kept, `Ordered` compares any two peers through the numbers their bytes
read as, and `NetInvEnough` gives the four properties.

### Only model-checked

Liveness: `EverySynchronizeReturns`, `WaitReturns`, `ReleaseReturns` and
`DestructorEmpties`. The prover has no rules for fairness. Every safety property
of a passing run is a theorem, two of `SpscRing` with the hypotheses named there.

## 6. Where code and comments disagree

1. `cfreaks_rcu.cpp:80`: a call that finds the version moved by one goes on to
   phase 2, trusting another updater's scan of the next position. That scan may
   be older than this call, and a reader delayed in `read_lock` may have counted
   itself in since (`cfreaks_rcu_two_updaters`). The header's promise (87-89) is
   broken.
2. `cfreaks_rcu.cpp:44`: the increment in `read_lock` is a plain store that
   loads of the section may overtake (`cfreaks_rcu_store_buffer`).
3. `read_write.hpp:92`: `write()` does not wait before handing out the copy.
   Both waits come when a guard is released, so a reader stalled between the
   index and its count reads what a later writer writes (`read_write_overlap`).
   `OnTimeReadersSafe` says that these are the only readers in danger.
4. `spsc_ring.hpp:270` says the counters may be called from any thread. The two
   loads can be separated by a push and a pop, and the difference underflows
   (`spsc_ring_count`). For the two owners it cannot.

Smaller observations, without a run:

* `dpdk_rcu.hpp:72-73` lets a reader call `synchronize` after
  `reader_quiescent_state`, but the call draws a newer token than the one
  reported, so the reader waits for itself.
* The vyukov comments "queue is full" (104) and "queue is empty" (147) hold only
  up to an element another thread is pushing or popping (`FullVerdict`,
  `EmptyVerdict` state the exact conditions).
* `spsc_ring.hpp:222`: when the function throws on the second range, the
  elements of the first were destroyed and the tail is not stored, so they are
  handed out and destroyed again. With `ThrowsIn = {"first", "second"}` TLC finds
  `ElementLifetime` violated. The comment on the size (80-81) speaks of twice the
  given size, which the code does not allocate.
* `operator->` of a `read_write` that is not const (`read_write.hpp:130`) takes a
  write guard, so only looking through it flips the index.
* `synchronized.hpp:67-78` foresees mutexes without a shared mode, but with one
  the const functions do not compile, because `unique_locked` takes no const data
  (158).
* `ip_addr.hpp:93`: a prefix of no bits shifts by the full width, which is
  undefined; x86 leaves the address as it is, a compiler that knows the value may
  clear it. Prefixes longer than the address are not rejected.
* The order of addresses (`ip_addr.hpp:101`) is total, but on little-endian
  machines it is not that of the numbers.
* An owner whose element's destructor gives that same owner a new resource is
  outside the model (`MayCall`): the running deleter would use what was changed.
* `orbit_mpmc_ring`'s functions do not compile when instantiated
  (`compare_exchage_weak`, a const position that is advanced, undeclared names)
  and have no return on success.

## 7. Not modelled

* **orbit_mpmc_ring**: unfinished code; see above. There is no behaviour to
  translate.
* Of `synchronized`: construction from data, which no other thread sees yet, and
  `unsafe_ref`, which takes no lock.
* Of `read_write`: whether the constructor gives both copies the same value.
* Of `vyukov_mpmc_queue`: exceptions; its functions are noexcept, so one that
  is thrown ends the program.
* Of `net`: the characters of a text, which the C library reads and writes, and
  hashing, which has no state and no promise but that equals hash equal.
* **algo, mpl, cpu**: compile-time helpers and calls of the standard library.
* 64-bit wrap of tokens, versions and vyukov positions.

## 8. Plan

In this order.

1. `GracePeriod`, `DpdkRcu`, `CfreaksRcu`: the RCUs. *Done.*
2. `ReadWrite`. *Done.*
3. `BoundedQueue`, `VyukovQueue`, `SpscRing`. *Done.*
4. `DpdkRcuProofs`. *Done.*
5. `AtomicObjects`, `Synchronized`, `SynchronizedProofs`. *Done.*
6. `SpscRing`'s destructor and throwing functions, `ReadWrite`'s moved guards,
   `Allocation`, `Peers`, `Libraries`. *Done.*
7. `ReadWriteProofs`. *Done.*
8. `CfreaksRcuProofs`. *Done.*
9. `VyukovQueueProofs` and `SpscRingProofs`. *Done.*
10. `AllocationProofs`. *Done.*
11. `LibrariesProofs`. *Done.*
