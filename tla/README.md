# Formal models of the COMP 410 course projects

This directory holds TLA+ specifications of the programs in this repository,
TLC configurations that model-check them on small instances, and theorems about
them that the TLA+ proof system (TLAPS) proves for every value of the constants.
Everything is translated from the C sources; docs, comments, tests and handouts
serve as statements of intent that the models are held against.

    tlc -workers 2 -config MCRcuTable_safe.cfg MCRcuTable.tla    # one run
    tlapm RcuTableProofs.tla                                     # the proofs

`PROJECT.json` lists the runs, the source lines each definition stands for,
the hazards, and for each property the bug (a *mutant* of one definition) that
the run finds if it is put into the model.

1. Inventory  2. Modules and code  3. Runs  4. Fairness
5. Proofs  6. What is only model-checked  7. Not modelled  8. Findings  9. Plan

---------------------------------------------------------------------------

## 1. Inventory

The repository is five weekly assignments that share no code. Weeks 3 to 5 are
concurrent user-space programs, and the core of this project; the kernel module
of week 2 is the fourth concurrent one. Paths below are
relative to `src/weekN/examples/...`.

### Week 1: system call profiler (`nullcall.c`)
Reads the clock around system calls and prints statistics. One thread; no
state but the readings. Nothing to model.

### Week 2: a kernel module and two exercises around it
| part | state | operations | hard because |
|---|---|---|---|
| `src/lifecycle.c` | three resources and the count of the live ones | `init_module_model`, `exit_module_model`, four paths of `main` | any acquisition may fail, by plan or for want of memory, and `main` calls exit in its first path whatever init answered |
| `src/copyguard.c` | a 64-byte buffer, its length and the guard behind it; the user's buffer | `kread`, `kwrite`, the four rules, the sweep | the terminator needs a byte; a short write leaves the tail of a longer one |
| `module/procstat.c` | the `/proc` entry, `read_count` and its mutex | `procstat_init`, `procstat_exit`, `procstat_show` with `count_tasks` | tasks change, leave and are freed under a walk; reads count at once; the module goes while it is in use |

Correct if every path of the life cycle ends with nothing held, no copy brings
anything but the data last offered, a walk meets every task that was there all
along and never one that is freed, each read prints its own number, and nobody is
in the module's code once it is gone. The same three files appear twice in the
repository, byte for byte.

### Week 3: a lock-free queue and its baseline
| part | state | operations | hard because |
|---|---|---|---|
| `msqueue.c` | tagged `head`, `tail`; nodes with a tagged `next`; `retries` | `msq_create`, `msq_enqueue`, `msq_dequeue`, `msq_destroy` | every load and CAS of one thread interleaves with those of all others; nodes are freed while others hold their address; a weak CAS may fail for no reason |
| `mutexqueue.c` | `head`, `tail`, `lock`, nodes | `mq_create`, `mq_enqueue`, `mq_dequeue`, `mq_destroy` | nodes are filled before the lock and read and freed after it |
| `aba_stack.c` | a stack, three semaphores | one scripted schedule | a demonstration of ABA; the semaphores admit one order |
| `bench.c`, `test_queue.c` | counters | clients that enqueue and dequeue | they say what order operations are called in |

Correct if linearizable to a FIFO queue, if every value comes out once, no
node is leaked or used after it is gone, and the lock-free one is lock-free.

### Week 4: user-space RCU and a table on top of it
| part | state | operations | hard because |
|---|---|---|---|
| `rcu.c` | a registry of slots with `in_use`, `local_seq`, `seq`, `reads`; its mutex | `rcu_register`, `rcu_unregister`, `rcu_read_lock`, `rcu_read_unlock`, `synchronize_rcu` | the scan sees the slots one after another, without stopping the readers; counters wrap; slots are reused |
| `table.c` (RCU) | `cur`, `latest`, the `update` mutex, the versions | `rt_init`, `rt_lookup`, `rt_update`, `rt_destroy`, `rt_freed` | readers hold a version that is replaced and freed by a waiting updater; updaters contend |
| `table.c` (rwlock) | one version, a rwlock | `rw_init`, `rw_lookup`, `rw_update`, `rw_destroy` | the version is overwritten in place |
| `model/handshake.c`, `orders.h` | the memory, two store buffers, two program counters | one grace period, every execution | stores and loads are reordered on TSO and Arm |
| `bench.c` | the gate `go` with its mutex and condition variable, the threads, per-worker counts | `run_once`, `gate_wait`, `reader`, `writer` | a worker may sleep just as the gate opens; a reader may be late for the 20 ms pause; both tables share one registry over all rounds |
| tests, `tools/orderings.c` | counters | clients | sequential |

The table calls the library: `rt_lookup` wraps its read in a section,
`rt_update` calls `synchronize_rcu` while it holds the update mutex, and
`synchronize_rcu` takes the registry mutex. Correct if a grace period outlasts
every section it must, no lookup sees a freed or half-written version,
nothing leaks, the tables are linearizable, updates end, and the benchmark ends
with exact counts.

### Week 5: a thread pool and what is measured about it
| part | state | operations | hard because |
|---|---|---|---|
| `workload.c` | two bounded rings, each with a mutex and two condition variables; the holder gate; the records; `completed` | `wl_run`: dispatcher (`dispatch_one`, `tq_push`, `tq_close`), workers (`worker_main`, `tq_pop`) | wake-ups can be lost or spurious; the dispatcher blocks on a full queue while a holder keeps the gate; the queues close under sleeping workers |
| `analyze.c` | medians, the window; `waiting`, `busy`, the open episode | `summarize_run`, `invariant_scan` | events on one time stamp, episodes exactly as long as the window, odd and even medians |
| `audit.c`, `tools/windows.c`, tests | loops | run, summarize, print | sequential |

The records a run of the pool leaves are what the analysis reads. Correct if
every task is run once, the run ends, and the scan measures the episodes that
`analyze.h` defines.

---------------------------------------------------------------------------

## 2. Modules and code

| module | models | state and actions |
|---|---|---|
| `Rcu` | `rcu.c` | one variable per field of the registry; each thread has a control state. A shared access is one action: `ReadLock` (the ENTER store), `ReadUnlock` (the EXIT store), `CountRead` (the statistics), `SyncLock`, one `SyncScan` per slot, `SyncUnlock`, `SyncNext`/`SyncPoll` for each recorded slot. `owed` is a history variable: the sections a grace period has to outlast |
| `RcuTable` | `table.c:31-107` | extends `Rcu` and conjoins its actions with those of the table. Each field access of a lookup, each store of an update, `malloc` and `free` is an action |
| `RwTable` | `table.c:109-137` | the same for the baseline, with a rwlock that admits any number of readers or one writer |
| `VersionedTable` | `table.h` | the abstract table: a generation; a lookup answers with the one that is current at some moment of the call. `RcuTable` and `RwTable` both implement it |
| `TableBench` | `bench.c` of week 4 | composes both tables: extends `RwTable`, instantiates `RcuTable` as `Rt` and conjoins their actions with those of main (`run_once`'s rounds, gate, joins, destruction) and of the workers (register, gate, loop, count, return) |
| `Handshake` | `model/handshake.c`, `orders.h` | the tool's state (memory, store buffers, program counters) and its steps; the memory model and the ordering of each site are chosen in the initial state |
| `MSQueue` | `msqueue.c` | each load, CAS, `malloc` and `free` is an action. Threads run client programs (a sequence of operations each, from `bench.c`) |
| `MutexQueue` | `mutexqueue.c` | each access to queue or node is an action, inside and outside the lock |
| `FifoQueue`, `QueueOperations` | `msqueue.h`, `mutexqueue.h` | the abstract FIFO queue; both queues implement it |
| `WorkPool` | `workload.c` | dispatcher and workers; each critical section of a queue is one action, a `pthread_cond_wait` splits it |
| `BoundedQueue` | the comments on `tq_push`/`tq_pop` | the abstract bounded queue that closes and drains; `WorkPool` implements it |
| `Analysis` | `analyze.c` | `summarize_run`, then one action per batch of events of `invariant_scan` |
| `Lifecycle` | `lifecycle.c` | one action per acquisition and release, over any number of resources; `main`'s path is chosen at its start |
| `CopyGuard` | `copyguard.c` | `kwrite`, `kread`, the four rules and the rows of the sweep as actions that may come in any order with any of the lengths |
| `ProcStat` | `procstat.c` | one action per access to the task list, per step of the count, and for load, unload, open and close. The kernel (task list, RCU, procfs) is external: `Fork`, `ChangeState`, `Reap`, `FreeTask` |
| `LinkedLists` | the lists both queues keep in memory | `ListFrom`: the nodes from one on, in the order of their links |
| `RcuTableProofs` (library and RCU table), `TableBenchProofs` (rwlock table and benchmark), `MSQueueProofs`, `MutexQueueProofs`, `LinkedListProofs`, `HandshakeProofs`, `Week5Proofs` (thread pool and analysis), `Week2Proofs` | - | theorems and proofs |
| `MC...` | - | instances for TLC: client programs, symmetry, sets of runs. `MCWeek2` and `MCWeek5` run the programs of a week; which one is chosen in the initial state |

Definitions keep the names of the C functions where there is one. A definition
commented "Mutant" is not part of any specification: it is a
wrong form of the definition that follows it (a dropped guard, a missing reset,
a swapped order) and documents which bug the property would find.

What the models abstract, and why it is sound for the properties:

* **Granularity.** In `Rcu`, `RcuTable` and `MSQueue` every access to memory that
  other threads reach without a lock is a step. Accesses that only the holder of a
  mutex makes are one step with it (`Register`, `Unregister`, the critical
  sections of `WorkPool`), except where something is shared with code outside
  the lock; the updater's stores inside the update mutex are therefore single steps.
* **Memory order.** `Rcu`, `RcuTable` and `MSQueue` are sequentially consistent. For the RCU, what the
  orders of `orders.h` add is the question of `Handshake`, which shows that the orders
  shipped there restore the order that matters (store before load on
  both sides) on the three models the tool knows. Like the tool, it does not move
  a reader's use past its exit.
* **Data.** The 64 values of a version are one field holding the generation
  they were computed from; a torn read is one where it differs from `gen`.
  `rt_lookup` picks a key; the key does not matter then. The values of the queues
  are the identities of the enqueues.
* **Counters** of `Rcu` wrap at `2 * HalfWord` instead of 2^64. The proof needs
  only that the modulus is even. In runs where wrapping is not the question,
  `SectionBound` keeps counters below it. `SectionBound`, `MaxUpdates`,
  `MaxSpurious`, `MaxRetries` are the models' bounds and appear in guards.
* **Memory management.** `malloc` answers with any free address, so addresses
  are reused as soon as they are freed. It may also fail at any moment, whatever is free. A
  failing `malloc` in `rt_update` changes nothing and is a stutter; in
  the queues it is an action, and a queue whose creation fails is one of the initial states (the client
  then makes no call). In `MSQueue` freed memory stays readable: `value` is lost,
  `next`, at byte 16 of the node, survives, as the algorithm assumes. The C
  standard calls the read undefined.
* **Full registry.** `rcu_register` answering NULL changes nothing.
* **Time.** In `WorkPool`, pacing, service times and the length of a hold are
  left to the interleaving, where each may take arbitrarily long. In
  `Analysis` time stamps are integers, a unit being a microsecond;
  arithmetic is exact, medians and the window are kept doubled; the multipliers
  `BUG_MULTIPLIER` and the window's factor are constants, scaled down so
  that small runs fall on both sides of every threshold.
* **The kernel** in `ProcStat` promises what the module relies on, and no more:
  the list of tasks is circular through `init_task`, a fork adds at its end, a
  removed task keeps its `next` and is freed once every reader that was in a
  section at its removal has left it, and its memory may be the next fork's.
  `proc_remove` closes the entry and waits for the calls under way.
* **Bytes** in `CopyGuard` are letters, the fill, the guard and NUL. Memory next to
  the buffer is part of the model, so that a copy that runs past an end shows. The user's buffer is
  `ubuf` in the rule checks and the larger `big` in the sweep (`UBUF_SZ`, `BIG_SZ`).
* **Crash.** A null pointer that `msq_dequeue` dereferences ends the program: nothing happens any more.
* **Records** of `WorkPool` begin "stale": `wl_run` reuses the array of an
  earlier run, so a record that is not reset would pass for a finished one.

---------------------------------------------------------------------------

## 3. Runs

All runs are exhaustive: no state constraint, no simulation. Times are for
two workers.

| run | distinct states | time |
|---|---|---|
| `rcu_wrap` | 3,475,942 | 36 s |
| `table_safe` | 1,320,970 | 53 s |
| `table_live` | 44,802 | 5 s |
| `bench_all` | 730,628 | 120 s |
| `handshake_all` | 58,815 | 3 s |
| `msqueue_bench3` | 588,518 | 127 s |
| `mutexqueue_bench` | 49,627 | 14 s |
| `week2_all` | 525,884 | 18 s |
| `week5_all` | 812,009 | 99 s |
| `rcu_reuse`, `msqueue_reuse`, `msqueue_null` | violations (section 8) | 1-3 s |

**rcu_wrap** - two readers, two updaters, two slots, counters modulo 4, slots
reused without bound. Counters wrap within two sections, the registry can
be full (two readers hold both slots), an updater can be between scan and poll
while its slot changes owner, and the second updater queues on the registry lock.
The state space is finite because everything that counts wraps.
*GracePeriod*: a returning `synchronize_rcu` has outlasted every section that was
running at its call, or that its scan saw. *SlotsOwnedOnce*: no slot is handed out
twice or lost. *CountersAgree*: the published counter is twice the statistics
plus the section under way, which is what makes the statistics believable after
a slot is reused.

**table_safe** - two readers that register and unregister, two updaters with
two updates between them, three addresses (one current, one per updater), so
that a freed address is handed out again while a slow reader still runs.
*NoUseAfterFree*, *NothingLeaked* (after any history exactly the
current version is allocated, and after `rt_destroy` none) and the refinement
*ImplementsVersionedTable*: generations are consecutive, no update is lost and a
lookup answers with a version that was current during the call. *SomebodyGetsOn*: when updates
queue up for the two mutexes and a poll, one of them can go on or a lookup is under way.

**table_live** - one reader that leaves and re-enters once, two updaters with three
updates, no slot reuse and no wrap. *UpdateTerminates*: an update that has
allocated its copy ends, with the update mutex contended. As the reader's sections are finitely many
here, the run cannot tell the poll for the recorded number from one for "even", which a reader that
always re-enters could starve; that difference is what *ExactUnlessLate* (run `bench_all`) is about: its mutant is
the poll for "even".

**bench_all** - the program `bench.c` of week 4 with two readers of two lookups
and a writer of one update, in a warm-up and a trial of the RCU table and one
round of the rwlock table. Three rounds are what it takes for a registry and a
count of freed versions that outlive a round to matter twice and for the table to
change. Two addresses are what one writer needs at once. The counters reach the
modulus. *ExactUnlessLate*: in a round in which all readers registered before one
left, a poll blocks only for the very section the scan recorded. *CountsAreExact*:
no lookup was torn, a round has freed one version per update that found memory, and
it leaves no version and no slot behind; an `rt_update` without memory is included.
*ImplementsVersionedTable*: the rwlock table implements the same abstract table as
the RCU table. *BenchEnds*: no worker sleeps through the opening of the gate, and
main can join everybody.

**handshake_all** - all three memory models and all 243 legal assignments of
orderings to the five sites. *ShippedOrderingsSafe*: the assignment of
`orders.h` is safe on all. *StoreLoadOrderSuffices*: so is every one that orders the
announcement before the dereference and the publication before the scan; nothing
else matters to use-after-free in this model. TLC's deadlock check adds that no execution
is stuck, which is what the tool counts at `handshake.c:268-273`.

**msqueue_bench3** - two threads that enqueue and dequeue as `bench.c`'s workers
do, and one that dequeues first, one spurious failure of the weak CAS, three
addresses that are handed out again the moment they are freed; `malloc` may fail at any
time. The third thread finds the queue empty, or races
the dequeues of the others for one node; every helping path is taken, links go astray, heads come back, and
the program crashes (section 8).
*FreedNodesTakeNoLink*: the CAS that links a node does not succeed on a node that is free, about
to be freed or not filled yet. *SafePointers*: all nodes from the head on are live, the tail is among them, and a
head that has really stayed has a next node. *NothingLeaked* and the refinement *Linearizable*
(an enqueue takes effect at its link, a dequeue at its move of the head; "empty" is answered only if the queue was
empty at some moment of the call) say what holds of the code as it is: both until a link has gone
astray (`astray`), and the second but for an "empty" of a dequeue whose head came back (`CameBack`).
*LockFree*: with no fairness between threads the programs still end. Nothing
that a stopped thread leaves behind can stop the others for ever. *NobodyRetriesInVain* is the
reason, as a property of single steps: a retry means somebody moved on. With the helping step removed, one thread spins on
another's unfinished enqueue. No symmetry is used, as there is a liveness property.

**mutexqueue_bench** - three threads, one for two rounds, two addresses, so that
memory runs out and is reused; `malloc` may also fail at any time, and the creation of the queue. *ListIsWhole*: whenever the mutex is free the tail is
the last node, and what is allocated is what is in the list or in one thread's hands;
nothing leaks. *Linearizable* (a dequeue's value is read, and its node freed, after the lock is
released), *OperationsReturn*.

**week2_all** - three programs that share nothing, in one run. `CopyGuard`: buffers whose sizes stand to each other as in the code (the kernel's no longer than
the user's, that no longer than the sweep's), and lengths from none to the whole of the sweep's buffer, on
each side of every bound in the code. *AllFourRulesHold* (the message of
`copyguard.c:203`), in whatever order the calls come; *CopiesOutTheLatest*: a copy out
brings the beginning of the data last offered and nothing else, and the answer says how
much. `Lifecycle`: the three resources of the code, any of which may also find no
memory. *UnwindsToZero*: what is held is always the first so many, nobody releases
twice, and every path ends with nothing held. `ProcStat`: two readers, two tasks, two
reads per load, so that a task is removed, freed and forked again at the same address
during one walk, and a module is unloaded and loaded again. *NoFreedTask*,
*CountsEveryTaskOnce*, *ReadsAreExact*, *NobodyRunsUnloadedCode*.

**week5_all** - the two programs of week 5, which one is chosen in the initial state. `WorkPool`: each of the three pathologies, three workers (under the
partition, one for the first queue and two for the second), capacity two, five
tasks of which two belong to the partitioned-off class, two holders, a burst in
the middle and one that is cut short by the last task, one spurious wake-up. With
capacity two and five tasks the rings wrap, fill and drain, and the dispatcher waits
for room. *NoLostWakeup*: if a worker sleeps while tasks are in its queue, each of them
has a worker awake and on its way; and the dispatcher waits for room only while there
is none. *EveryTaskInOnePlace*, *NothingLost* (the message of
`audit.c:65-70` is never printed), *HoldStopsThePool*: during a hold a worker starts at
most the one task it had already brought past the gate. *SomebodyRuns*: the wait sets, the gate and the
full queues never make everybody wait, spurious wake-ups not counted. *ImplementsBoundedQueue*,
*PoolReturns* (`wl_run` returns).
`Analysis`: every run of two tasks on five time stamps and three on four,
tasks that never started included, for one to three workers. That covers every
overlap of two tasks, and for three those in which some of the nine events
coincide, which is where the scan could go wrong. *ScanMeasures*: the
number and total length of episodes is what the definition in `analyze.h:44-55` gives,
stated over instants and not over events. *MedianInTheMiddle*: at most half of the tasks that started waited less than
the median, and the rule that is relative to it calls at most half of them bug-length. An index one too low in the median breaks
the second part, one too high the first.

---------------------------------------------------------------------------

## 4. Fairness

* `RcuTable.FairSpec`: weak fairness of each thread once it has begun a lookup
  or an update. No thread is bound to begin one. Weak fairness is all that a
  preemptive scheduler gives to a thread that can run; the mutexes promise no order,
  so a thread waiting for one is only weakly fair too, and gets it because the
  updates of others are finitely many (`MaxUpdates`). With updates that never stop, a
  pthread mutex could starve an updater, and no claim is made.
* `TableBench.FairBenchSpec`: weak fairness of main and of each worker thread,
  from its start to its return; the gate, the mutexes and the rwlock are contended finitely often, because
  the loops of a round are finite. Spurious wake-ups are not fair.
* `MSQueue.LockFreeSpec` (run `msqueue_bench3`; a program that has crashed has ended): weak fairness of the next-state
  relation as a whole, and deliberately no fairness to any
  thread: that is what lock-free means.
* `MutexQueue.FairSpec`, `WorkPool.FairSpec` (in the run, `Week5Spec`): weak fairness of each thread. The
  gate and the mutexes are weakly fair; contention is bounded by the number of tasks.
  Signals wake an arbitrary sleeper. Spurious wake-ups are not fair.

No strong fairness is assumed anywhere. For the rwlock nothing is claimed:
POSIX lets a stream of readers keep a writer out; in `TableBench` the lookups of a
round are finitely many. Week 2 and the handshake have no liveness property.

---------------------------------------------------------------------------

## 5. Proofs

Proved by TLAPS, with no step left out. The assumptions are the named ASSUMEs of
the modules, all of them evaluated by TLC in the runs:

* `ThreadAssumption`, `NobodyAssumption`, `AddrAssumption`, `SlotAssumption`, `NullAssumption`:
  threads, addresses and slots are distinct from the value that stands for none;
  the number of slots is a natural number (none at all included);
* `WordAssumption`: a counter wraps at an even number, as 2^64 is;
* `BoundAssumption`, `UpdateAssumption`, `ReadAssumption`: the bounds are numbers. The
  theorems hold for every bound, so they do not depend on any;
* `WorkerAssumption`, `RoundAssumption`, `TableAssumption`: the benchmark has some number of readers
  and one writer, a slot for each, and at least one lookup and one round. `Reads <= HalfWord` is
  what the C types give: `reads_per_reader` is a `long`, the counters of the registry are
  `unsigned long`s, so that a round's sections take a counter round at most once;
* `HandshakeAssumption`: the models and the orderings are among the three and the 243 that the tool
  knows;
* `ProgramAssumption`, `MemoryAssumption`: a client's program is a sequence of enqueues and
  dequeues, and the addresses are finitely many;
* `TaskAssumption`, `ResourceAssumption`: `init_task` is none of the tasks; the number of
  resources is a natural number;
* `SizeAssumption`, `ByteAssumption`: the kernel's buffer is no longer than the user's, that no longer than
  the sweep's, and no length exceeds the last, as in `copyguard.c` (64, 64 and 512; lengths up to 256); the fill, the
  guard byte, NUL and the letters are different;
* `PoolAssumption`, `PeriodAssumption`: there are at least two workers, a queue has room for at least
  one task, and the periods are positive;
* `RunAssumption`, `ThresholdAssumption`: the records that are analysed have their stamps in order, or
  are of a task that never started; `BUG_MULTIPLIER` (`analyze.h:16`) is at least one.

The sets of threads, tasks and addresses of `Rcu`, the tables and `ProcStat` need
not be finite. No theorem has a hypothesis besides these: in particular those about `MSQueue` let
`malloc` fail, and hand out an address that another thread still holds, at any time. `RunAssumption` is what
`wl_run` leaves (section 7).

### The library (`RcuTableProofs`, first part)
`RcuInv` is the inductive invariant. `GracePeriod` alone is not inductive: that
nothing is owed at the return follows from what is true of owed sections all
along. Its parts:

* `RcuTypeOK`, `SlotsOwnedOnce`, `Registered`: who holds which slot;
* `ParityTellsInside`: the counter of a held slot is odd exactly while its owner
  is inside, also across the wrap (`IncParity`; this is where the even modulus is
  needed);
* `ScannerHoldsRegistry`: no registration happens during a scan;
* `OwedIsPending`: a section that is owed has not been looked at yet, or has
  been recorded with the number its slot still shows and will be polled;
* `PollsASlot`.

Each action has a lemma. `CountersAgree` needs one more invariant (`Uncounted`: case by
case, what a slot's counter shows that its statistics do not) and the arithmetic of
two wraps (`WordSum`, `ShownMoves`). The theorems: `RcuTyped`, `SlotsAreOwnedOnce`,
`CountersAreStatistics` and
**`SynchronizeIsAGracePeriod`**, for any number of readers, updaters and slots, any
history of registrations and any number of wraps. Wrapping cannot make the grace
period short because a section that is owed has not ended, so its counter cannot
have moved at all; a counter that comes round again only makes a poll wait longer.

**`DelaysEndWithReaders`** says that the wait is never for anything but a reader (`OnlyReadersDelay`: whoever has the
registry lock is scanning, and a poll blocks only while the slot's owner of that moment is inside). `DelayInv` is what
it takes on top of `RcuInv`: the counter of a slot that nobody has is even, and what a poll waits to change
was odd when it was recorded. So a poll that blocks stands on an odd counter, whose slot has an owner, who is inside
(`ParityTellsInside`), although it need not be the one the scan saw.

### The table (`RcuTableProofs`, second part)
`TableStepIsRcuStep`: every step of the table is a step of the library or leaves it
alone; so `RcuInv` is an invariant of the table, without being proved again. `TableInv`
adds what the table knows. Its heart is `HeldIsSafe`: a version that a lookup
holds is the current one, or it has been replaced by an updater that has not begun
to wait, or is waiting and owes this very section. With `GracePeriod` at the return
of `synchronize_rcu` the free that follows hits nobody (`FreedIsNotHeld`). The rest
(`AllocatedExactly`, `NewIsOwn`, `HolderProgress`) says who is responsible
for each allocated version. The theorems: `TableTyped`,
**`LookupsAreSafe`** (no use after free), `LookupsAreWhole` (no torn read),
`UpdatesFreeTheOld` (no leak) and **`TableImplements`**: the refinement of
`VersionedTable`. For the refinement, `AnswersAreHeld` turns `TableInv` into: a lookup
past its dereference will answer with the generation it holds; then lookups, updates
and the destruction each map to a step or a stutter.

**`UpdatesGetOn`** (`SomebodyGetsOn`): an updater holds the update mutex while it waits for the registry lock and for
readers, and others queue up behind it. If one waits for the mutex, its holder is an updater that goes on,
or waits in its turn; if that one waits for the registry lock, the lock is with one that scans, which never waits; if it polls,
`DelaysEndWithReaders` names the lookup. Readers take neither lock in a lookup, so nothing waits in a circle.

### The baseline (`TableBenchProofs`, first part)
`Inv`: the lock agrees with the control states, the version is whole unless a
writer is filling it, and what a reader has read stays current until it lets go.
`Typed` and `RwTableImplements`: the same abstract table.

### The benchmark (`TableBenchProofs`, second part)
Nothing is proved again of the tables. `Round` is an instance of `RcuTableProofs` in which
the count of freed versions is `freed - base`, the difference that `run_once` reports: seen from a round,
the count begins at 0, although the program's goes on. Every step of the benchmark is a
step of `Round`, or leaves it alone, or sets a table up (`TablesMove`); so `RcuInv` and
`TableInv` hold in every round (`RoundStep`, `RtInitInv`, `RwInitInv`), also across rounds of
the other table. `BenchInv` adds what the composition knows: a worker is started once and joined
(`StartsOnce`, `JoinsAll`), there is one table at a time, a slot is held only between registration and return, and the
writer's count of updates is that of the freed versions and of the failed ones
(`WriterCounts`). **`CountsExact`** follows.

**`WaitsExactly`** is that `ExactUnlessLate` holds for any number of readers and lookups. It needs
`WaitInv`: the counter in a slot is twice its owner's lookups in this round, and one more inside a
section, or has come round to 0 with the last of them (`CountsItsLookups`); and what a scan has
recorded is at most what the owner has reached, and owed if it is just that, or the owner has
returned and the counter is even for good (`RecordedIsOwners`). The second part is where a late
reader breaks it: a slot taken over begins at 0, below what was recorded.

### The handshake (`HandshakeProofs`)
The theorems give the argument that an enumeration of executions does not: `HandshakeInv` holds on each of the three
models, for any orderings that keep both sides' stores before their loads. No
thread loads what it stores itself, so a load reads memory (`LoadsReadMemory`). A thread that comes to its load has its store in
memory, or in its buffer where it holds the load back (`HeldBack`, a release store before a seq_cst load on "arm"); so once it has
loaded the store is in memory (`LoadsComeAfter`). Thus a reader that still gets the old version has announced itself
before the writer's version was there, and the writer has yet to scan or has recorded it
(`SeenInv`). The ordering of the exit plays no part. **`OrderSuffices`** states this, and `ShippedOrdersSafe` that
`orders.h` is a case of it.

### The thread pool (`Week5Proofs`, first part)
`PoolInv` is the inductive invariant: `PoolTypeOK`; `RingInv` (the two ends of a ring and its
count agree, nothing is closed while there is something to push, a worker has a task from its pop to its
count); `NoLostWakeup`, which is inductive given these; and `HoldInv` (the gate is with whoever is between lock and
unlock, and while it is held nobody who has started a task is past it again). For `NoLostWakeup`
the steps are compared by the workers that are about to pop: a push adds a task and either
wakes one up or finds nobody asleep, a pop takes a task and one of them away, and whoever goes to
sleep or leaves finds the queue empty (`WakingKeeps`, `PushWakes`, `PopsMatch`,
`EmptyIsAwake`). The theorems: **`WakeupsAreNotLost`**, `HoldsStop` and **`RingsAreQueues`**:
the refinement of `BoundedQueue`. For the last, `RingPush` and `RingPop` say of any ring of any
size that a store at its end appends and a load at its head takes the first, also across
the wrap (`Modulus`).

**`TasksAreInOnePlace`** and **`NothingIsLost`** need a second invariant, `TaskInv`, on top of `PoolInv`. The
stamps of a record alone do not tell two copies of a task apart, so `TaskInv` uses the order of the
tasks: a queue holds released tasks of its own in ascending order, and what a worker has comes before all
that is in its queue (`QueuedInv`, `HeldInv`). Hence a task is never twice in the rings, and a pop never
takes what somebody has already (`HeldOnce`). `FoundInv` and `ReleasedInv` say where the pushed and the
other tasks are; `LeavingInv` that a worker leaves only a queue that stays drained; and `completed` is the
number of tasks that have ended and that no worker has. When all workers are joined nothing is in a
ring or in a hand, so every task has ended and been counted. `PushItems` and `PopItems` say what a push and
a pop leave of a ring, place by place.

**`NeverLocksUp`**: until `wl_run` has returned, somebody can go on, spurious wake-ups not counted. If all
waited, nobody would have the gate (its holder never waits, `GateHeld`), so every worker would sleep or have left; none leaves or
sleeps on for good once its queue is closed (`LeavingInv`, `ClosingInv`), so the dispatcher would wait for room in a full
queue with a sleeper, which `NoLostWakeup` excludes. What the theorem leaves to fairness (`PoolReturns`) is
that whoever can go on does.

The proofs are for any number of workers and tasks, any capacity, any
periods and each of the pathologies.

### The queues (`LinkedListProofs`, `MutexQueueProofs`, `MSQueueProofs`)
`ListFrom` is what the abstraction of both queues reads from memory. The prover
cannot instantiate the library's induction theorems; `LeastElement` gets the least element of a set
of numbers from a theorem without an operator parameter (the finite subsets of a set are
well-founded), and with it the recursive function inside `ListFrom` is unfolded: if a sequence of
distinct nodes begins at `first`, each leads to the next and the last to NULL, that sequence is
the list. All other lemmas speak of such sequences.

`MutexQueue`: there is a sequence of distinct allocated nodes from `head` on; `tail` is its last,
or lags by the step in progress; the holder of the mutex is the only one in a critical section;
each thread's node is its own and not in the list; and these are all the memory there is.
A dequeue that is about to answer "empty" has seen the queue empty (`SeenInv`). The theorems:
**`ListIsAlwaysWhole`**, `NodesAreApart` and **`QueueIsLinearizable`**.

`MSQueue`: addresses come back, so nothing a thread has copied can be trusted for being an address; what can be
trusted are the counts of `head` and `tail`, which never go back as long as the queue lives. `QueueInv` is in two parts.

`SoundInv` holds at all times, whatever becomes of freed nodes and even if a link has gone astray. A node is
live if it is allocated and neither unfilled nor passed by the head (`Live`). Links lead from live nodes to live nodes only, two never to the
same (`LinkInv`); a node that a thread has filled and not linked, or is about to free, is that thread's alone (`OwnInv`); and the
links lead from the head to the tail (`WayInv`). A thread's copy of the head or the tail is worth something only
while its count is still that of the original (`Copied`): then what was read from the node behind the
copy still holds (`EnqInv`, `DeqInv`). What a stale enqueue has in its hands is live, or has a link that is not NULL: the
head only passes a node that has a successor, and `free` leaves the link in place. From this: **`PointersAreSafe`** and
`FreedNodesAreNotLinked`.

`WholeInv` holds until a link goes astray (`astray`): the nodes from the head on are a list that ends in a null link, and all
live nodes are on it, except those that threads have filled and not linked. It gives **`NothingIsLeaked`** and **`QueueIsLinearizable`**: a link that
succeeds appends to the abstract queue, a successful move of the head takes its first value (the CAS compares the count, so a head that came back is
noticed there), and every other step, retries and helping included, is invisible. "Empty" is answered after three loads; if the head
has really stayed, the queue was empty when the link was read (`SeenInv`).

What the theorems except is what the code gets wrong (section 8), and no more: each exception is named in the property by a
predicate (`astray`, `CameBack`).

**`RetriesAreNotInVain`** is as much of lock freedom as a proof without fairness can say. `Left` counts the steps a thread needs to
its return: those left of this iteration, and one more iteration if this one is doomed because
what it has loaded has changed. A step that neither begins an operation nor links a node, moves the head or the tail or fails
spuriously lowers `Left` of its thread and raises nobody's. For the thread itself, each way back to the head of a loop
is one from a doomed iteration; the two helping steps are the delicate ones, since their CAS must succeed or have been doomed
(`TailCasFails`). For the others, the only link such a step writes is that of a new node; a thread whose copy of the tail is that address is
doomed already, since the node was not live and had a link (`OthersGetOn`, from `EnqInv`). Links, moves of the head and of the tail are no more than the enqueues begun,
so finitely many operations take finitely many steps, however the threads are scheduled.

### The analysis (`Week5Proofs`, second part)
`MediansAreInTheMiddle`: at least half of a sorted array is at most its median and at least half is no less, whichever of the two
middle elements the code takes or averages (`BelowTheIndex`, `FewAreShort`). **`ScanMeasuresTheEpisodes`**: the loop of
`invariant_scan` counts exactly the episodes that `analyze.h:44-55` defines over instants, and adds up their
lengths, for any run. Its invariant `ScanInv` says where the loop is at a time stamp `T`: the two counters are those of the
pool at `T` (`ScanIsThePool`), the events after `T` are ahead, an open episode began at the stamp where the condition last became true, and the episodes
that are counted are those that have ended by `T`. Between neighbouring stamps nothing changes
(`Crossing`), which is why instants and events agree. The sum of lengths is a fold in the library;
its recursive function is unfolded and shown to be the only one of its kind by taking a smallest
set on which two would differ.

### Week 2 (`Week2Proofs`)
`CopyGuard`: the buffer holds the data last offered, cut to fit and terminated, `kbuf_len` is its length, and
the guard is intact wherever it is armed (`GuardInv`). `RulesHold`: none of the program's own
checks fails for buffers of any size; `CopiesAreExact`: no copy shows a byte of an older write.

`LifeInv` ties `main`'s place to how many resources are held and which pointers lead there; the part that
is easy to overlook is the first path, where exit follows an init that has failed: then every
pointer is NULL. `LoadsUnwind`: `UnwindsToZero` for any number of resources.

`StatInv` has four parts: types; `CallInv` (who is in a call, and that none is when the module is out);
`CountInv` (the mutex and what was loaded under it); and `ListInv`, the heart: a reader in its section stands on a node
that is on the list or kept for it; the list is closed under `next`; a removed task that is kept
for a reader leads to what is safe for that reader; and no two nodes of the list have the same
successor, so that one store removes a task. The theorems: **`WalksAreSafe`**, `ReadsAreCounted` and
`UnloadsAreSafe`, for any number of readers, tasks and reads.

**`WalksAreComplete`** (`CountsEveryTaskOnce`) needs an order: every task on the list, or kept for a
reader, has a ticket that its fork drew, tickets ascend along `next`, and a reader that stands on
a node has met exactly those of the tasks it has to meet whose tickets are no greater. So it meets none twice,
and when it is back at `init_task` none is left; the three counts add up to the total
because each task met is in one of three sets.

---------------------------------------------------------------------------

## 6. What is only model-checked

Out of the prover's reach: the liveness properties (`UpdateTerminates`, `BenchEnds`, `LockFree`, `OperationsReturn`,
`PoolReturns`), which need fairness and ENABLED.

All invariants, action properties and refinements that the passing runs check are theorems (section 5).
Five more are theorems and in no run, because a property of a run is close to each or says more: `OnlyReadersDelay`
(to `SomebodyGetsOn`), `NoTornRead` (to `NoUseAfterFree`), `NodesApart` (to `Linearizable`), `ScanFollowsPool` (to `ScanMeasures`)
and the table's `TypeOK`.
The bounds in section 3 matter for the liveness properties only: more than
three threads in a queue, more than one spurious failure, more
than two readers in the benchmark are not reached by them.

## 7. Not modelled, and why

* Week 1 (`nullcall.c`): one thread that reads the clock around system calls, subtracts and sorts. No
  state but the readings, no order but the program's.
* `aba_stack.c`: three semaphores force one schedule; running it once explores it.
* `bench.c` of week 3, the tests, `audit.c`, `tools/`: only the order in
  which they call the modelled operations matters, and it is the client part of
  the models; rates, timing, CSV files and printing are left out. Of week 4's `bench.c`
  the clock, the median of the trials and the busy loop between updates are left out.
* `rt_init` that fails in the first round of the benchmark (`bench.c:98-101`): the program ends before anything has begun. In later
  rounds it is an action (`InitFails`).
* Records that `wl_run` cannot leave (`RunAssumption`, `AnalysisInit`): `summarize_run` and `invariant_scan` do not check that a started
  record has ended, or that no more tasks run than there are workers; `wl_run`, whose records the programs pass on to
  them, guarantees both (`NothingLost`, one task per worker).
* `bug_fraction` and `violation_fraction` are quotients of numbers that the model has.
* `pthread_create` that fails: the programs do not look at its answer, or end.
* `procstat.mod.c` is generated; `proc_create` that fails changes nothing.
* `pick_shape`/`select_pathology` of week 5 is a choice of the initial state.
* Reordering by compiler and hardware in the lock-free queue: its loads are acquire,
  its CASes release, and `MSQueue` interleaves them as if they were sequentially
  consistent. `Handshake` covers the handshake of week 4 only.
* Scripts that build, run and package.

## 8. Findings

**A slot that changes hands prolongs a grace period** (`rcu_reuse`).
`rcu_register` restarts the counter of a slot at 0 (`rcu.c:38`). If that slot is still
polled by a `synchronize_rcu`, the new owner's first section has number 1 again,
which is what was recorded, and the poll goes on for a section that began long
after. The comment at `rcu.c:151` says the loop waits for "this exact read-side
section". It is a matter of waiting only: the grace period holds
(`SynchronizeIsAGracePeriod` covers reuse). The run is a round of the benchmark itself: a
reader's thread that is later than the 20 ms pause of `bench.c:112` takes over the slot
of one that has finished. `ExactUnlessLate` (run `bench_all`) shows that it takes a late
reader.

**The count of `next` does not protect a reused node** (`msqueue_reuse`).
`msqueue.c:24-25` says that a node freed and allocated again at the same address
still compares unequal "because the count moved on". That is true of
`head` and `tail`, whose counts live as long as the queue. The count of `next`
lives in the node and starts at 0 with it (`msqueue.c:53-54`), so the CAS that links a
node (`msqueue.c:116`) can succeed on a node that has left the queue and come back, filled and not linked yet:
the property `StaleLinkFails` is violated after some twenty steps of two threads. From there on the value that was
linked is out of order, and the model says no more about linearizability. What survives is proved: such a CAS
never succeeds on a free or unfilled node, and the head and the tail stay on live ones.

**A head that came back is dereferenced** (`msqueue_null`). The re-read of the head at `msqueue.c:150` compares pointers, not
counts. Thread A loads the head, node *a*, and the tail, a later node. B dequeues, frees *a*, gets it from `malloc` for its next
enqueue, which sets its `next` to NULL, and dequeues once more: *a* is the head again, and the last node.
A loads *a*'s `next`, which is NULL, finds the head's pointer unchanged and the tail's different, and reads `next.ptr->value` (170).
The comment says that the loop retries "IF the head has changed"; it has changed twice. A comparison of the whole
tagged pointer at line 150 is what `SafePointers` and its theorem need: they hold of every dequeue but one whose head came back.

There is a quieter form of the same: A loads *a* again as the tail, after it has been enqueued for the second
time and while it is the last node, and another value is enqueued before *a* becomes the head again. Line 153 finds head
and tail equal and `next` NULL, and the dequeue returns false, "genuinely empty" (155), though there was a value in the queue at every
moment of the call. That takes three enqueues by the others, more than `msqueue_bench3` has; it is why `Linearizable` and its theorem except the
"empty" of a dequeue whose head came back.

## 9. Plan

In the order in which the modules were, and will be, written:

1. `Rcu`, `RcuTable`, `VersionedTable`, `RwTable` with proofs - done.
2. `Handshake`, `MSQueue`, `MutexQueue`, `FifoQueue` with proofs - done.
3. `WorkPool`, `BoundedQueue`, `Analysis` with proofs - done.
4. `Lifecycle`, `CopyGuard`, `ProcStat` for week 2 with proofs - done.
5. `TableBench`, the composition of week 4, with proofs - done.
6. `MSQueue` with addresses that come back at once: what survives, and what does not - done.
7. Left: weak memory for the queue, whose loads and CASes are taken for sequentially consistent here.
