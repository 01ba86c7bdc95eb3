------------------------------ MODULE WorkPool ------------------------------
(***************************************************************************)
(* The thread pool of week 5 (workload.c): one dispatcher, a fixed set of  *)
(* workers, two bounded queues with a mutex and two condition variables    *)
(* each, and a gate that every task passes.  One of three pathologies is   *)
(* active: a task that holds the gate, bursts of tasks, or a partition of  *)
(* the workers over the two queues.                                        *)
(*                                                                         *)
(* A queue is touched only under its mutex, so each critical section of    *)
(* tq_push, tq_pop and tq_close is one step; a wait on a condition         *)
(* variable splits it in two, and the thread that wakes up tests again.    *)
(* The gate is held across steps.  Time is left to the interleaving: a     *)
(* step may take as long as it likes, which covers pacing, service times   *)
(* and the length of a hold.  Of the three time stamps of a record, `rec`  *)
(* keeps which have been taken.                                            *)
(***************************************************************************)
EXTENDS Integers, FiniteSets

CONSTANTS
    NTasks,         \* WL_TASKS
    Pool,           \* wl_pool_workers: how many workers run
    Capacity,       \* WL_CAPACITY
    NumSizes,       \* WL_NUM_SIZES
    HolderPeriod,   \* WL_HOLDER_PERIOD
    BurstPeriod,    \* WL_BURST_PERIOD
    BurstSize,      \* WL_BURST_SIZE
    MaxSpurious,    \* model bound: wake-ups without a signal
    None            \* no task, no worker

Pathologies == {"blocked_holder", "burst_arrival", "uneven_partition"}

Tasks   == 0 .. NTasks - 1
Workers == 1 .. Pool
Queues  == {0, 1}

ASSUME PoolAssumption == /\ NTasks \in Nat /\ Pool \in Nat \ {0, 1}
                         /\ Capacity \in Nat \ {0}
                         /\ None \notin Tasks \cup Workers
ASSUME PeriodAssumption ==
    {NumSizes, HolderPeriod, BurstPeriod, BurstSize} \subseteq Nat \ {0}
ASSUME BoundAssumption == MaxSpurious \in Nat

VARIABLES
    path,           \* the pathology, fixed by the seed
    slots,          \* each queue's ring of task ids
    head, tail,     \* where the ring is read and written
    count,          \* how many tasks are in it
    closed,         \* tq_close has been called
    gate,           \* the holder of holder_gate, or None
    rec,            \* for each record, the last stamp that was taken
    completed,      \* completed tasks
    dpc,            \* where the dispatcher is in wl_run
    i,              \* its next task
    burstEnd,       \* the task that ends the burst it is in
    wpc,            \* where each worker is in worker_main
    task,           \* the task each worker has popped
    spurious,       \* spurious wake-ups so far
    sinceHold       \* history: the workers that have started a task since
                    \* the present hold began

queueVars      == <<slots, head, tail, count, closed>>
dispatcherVars == <<dpc, i, burstEnd>>
workerVars     == <<wpc, task, gate, completed, sinceHold>>
vars           == <<path, queueVars, rec, dispatcherVars, workerVars, spurious>>

\* dispatch_one: the class of a task decides its shard.
Shard(k) == IF k % NumSizes = NumSizes - 1 THEN 0 ELSE 1

IsHolder(k) == path = "blocked_holder" /\ k % HolderPeriod = 0

\* The queue a task is pushed to, and the queue a worker pops from: only an
\* uneven partition has two.
QueueOf(k) == IF path = "uneven_partition" THEN Shard(k) ELSE 0

WorkerQueue(w) == IF path = "uneven_partition" /\ w > 1 THEN 1 ELSE 0

\* The records still hold what an earlier run of the pool left in them.
Init ==
    /\ path \in Pathologies
    /\ slots = [q \in Queues |-> [j \in 0 .. Capacity - 1 |-> 0]]
    /\ head = [q \in Queues |-> 0]
    /\ tail = [q \in Queues |-> 0]
    /\ count = [q \in Queues |-> 0]
    /\ closed = [q \in Queues |-> FALSE]
    /\ gate = None
    /\ rec = [k \in Tasks |-> "stale"]
    /\ completed = 0
    /\ dpc = "loop" /\ i = 0 /\ burstEnd = 0
    /\ wpc = [w \in Workers |-> "pop"]
    /\ task = [w \in Workers |-> None]
    /\ spurious = 0
    /\ sinceHold = {}

(***************************************************************************)
(* Condition variables.  A signal wakes one of the threads that wait, if   *)
(* any does; a broadcast wakes all of them.                                *)
(***************************************************************************)
Asleep(q) == {w \in Workers : wpc[w] = "asleep" /\ WorkerQueue(w) = q}

\* Mutant: a signal only for the first task of an empty queue.
SignalNotEmptyIfEmpty(q) ==
    \/ (Asleep(q) = {} \/ count[q] # 0) /\ UNCHANGED wpc
    \/ /\ count[q] = 0
       /\ \E w \in Asleep(q) : wpc' = [wpc EXCEPT ![w] = "pop"]

SignalNotEmpty(q) ==
    \/ Asleep(q) = {} /\ UNCHANGED wpc
    \/ \E w \in Asleep(q) : wpc' = [wpc EXCEPT ![w] = "pop"]

BroadcastNotEmpty(q) ==
    wpc' = [w \in Workers |-> IF w \in Asleep(q) THEN "pop" ELSE wpc[w]]

\* Only the dispatcher ever waits for room.
SignalNotFull(q) ==
    dpc' = IF dpc = "full" /\ QueueOf(i) = q THEN "push" ELSE dpc

(***************************************************************************)
(* The dispatcher: wl_run's loop, dispatch_one and tq_push.                *)
(***************************************************************************)
EndOfBurst(k) == IF k + BurstSize > NTasks THEN NTasks ELSE k + BurstSize

\* The record is reset and stamped ready; in a burst the next tasks follow
\* without a look at the period.
Release ==
    /\ dpc = "loop" /\ (i < burstEnd \/ i < NTasks)
    /\ burstEnd' = IF i < burstEnd THEN burstEnd
                   ELSE IF path = "burst_arrival" /\ i % BurstPeriod = 0
                   THEN EndOfBurst(i) ELSE i + 1
    /\ rec' = [rec EXCEPT ![i] = "ready"]
    /\ dpc' = "push"
    /\ UNCHANGED <<path, queueVars, i, workerVars, spurious>>

WaitNotFull ==
    /\ dpc = "push"
    /\ count[QueueOf(i)] = Capacity
    /\ dpc' = "full"
    /\ UNCHANGED <<path, queueVars, rec, i, burstEnd, workerVars, spurious>>

Push ==
    LET q == QueueOf(i) IN
    /\ dpc = "push"
    /\ count[q] # Capacity
    /\ slots' = [slots EXCEPT ![q][tail[q]] = i]
    /\ tail' = [tail EXCEPT ![q] = (@ + 1) % Capacity]
    /\ count' = [count EXCEPT ![q] = @ + 1]
    /\ SignalNotEmpty(q)
    /\ dpc' = "loop"
    /\ i' = i + 1
    /\ UNCHANGED <<path, head, closed, gate, rec, completed, burstEnd, task,
                   spurious, sinceHold>>

Close(q, here, there) ==
    /\ dpc = here
    /\ closed' = [closed EXCEPT ![q] = TRUE]
    /\ BroadcastNotEmpty(q)
    /\ dpc' = there
    /\ UNCHANGED <<path, slots, head, tail, count, gate, rec, completed, i,
                   burstEnd, task, spurious, sinceHold>>

CloseFirst  == i >= burstEnd /\ i >= NTasks /\ Close(0, "loop", "close")
CloseSecond == Close(1, "close", "join")

\* Mutant: one thread is not joined.
JoinAllButOne ==
    /\ dpc = "join"
    /\ \A w \in Workers : w > 1 => wpc[w] = "exited"
    /\ dpc' = "returned"
    /\ UNCHANGED <<path, queueVars, rec, i, burstEnd, workerVars, spurious>>

\* pthread_join of every worker; wl_run returns.
Join ==
    /\ dpc = "join"
    /\ \A w \in Workers : wpc[w] = "exited"
    /\ dpc' = "returned"
    /\ UNCHANGED <<path, queueVars, rec, i, burstEnd, workerVars, spurious>>

(***************************************************************************)
(* A worker: worker_main and tq_pop.                                       *)
(***************************************************************************)
At(w, here, there) == wpc[w] = here /\ wpc' = [wpc EXCEPT ![w] = there]

Sleep(w) ==
    /\ At(w, "pop", "asleep")
    /\ count[WorkerQueue(w)] = 0 /\ ~closed[WorkerQueue(w)]
    /\ UNCHANGED <<path, queueVars, rec, dispatcherVars, task, gate, completed,
                   spurious, sinceHold>>

\* Mutant: the head of the ring stays where it is.
PopKeepingHead(w) ==
    LET q == WorkerQueue(w) IN
    /\ At(w, "pop", "gate")
    /\ count[q] # 0
    /\ task' = [task EXCEPT ![w] = slots[q][head[q]]]
    /\ count' = [count EXCEPT ![q] = @ - 1]
    /\ SignalNotFull(q)
    /\ UNCHANGED <<path, slots, head, tail, closed, gate, rec, completed, i,
                   burstEnd, spurious, sinceHold>>

Pop(w) ==
    LET q == WorkerQueue(w) IN
    /\ At(w, "pop", "gate")
    /\ count[q] # 0
    /\ task' = [task EXCEPT ![w] = slots[q][head[q]]]
    /\ head' = [head EXCEPT ![q] = (@ + 1) % Capacity]
    /\ count' = [count EXCEPT ![q] = @ - 1]
    /\ SignalNotFull(q)
    /\ UNCHANGED <<path, slots, tail, closed, gate, rec, completed, i, burstEnd,
                   spurious, sinceHold>>

\* Mutant: the worker leaves a queue that is closed but not drained.
ExitUndrained(w) ==
    /\ At(w, "pop", "exited")
    /\ closed[WorkerQueue(w)]
    /\ UNCHANGED <<path, queueVars, rec, dispatcherVars, task, gate, completed,
                   spurious, sinceHold>>

\* Mutant: the worker tries again although there is nothing more.
ExitRetried(w) ==
    /\ At(w, "pop", "pop")
    /\ count[WorkerQueue(w)] = 0 /\ closed[WorkerQueue(w)]
    /\ UNCHANGED <<path, queueVars, rec, dispatcherVars, task, gate, completed,
                   spurious, sinceHold>>

\* Closed and drained: the worker's thread ends.
Exit(w) ==
    /\ At(w, "pop", "exited")
    /\ count[WorkerQueue(w)] = 0 /\ closed[WorkerQueue(w)]
    /\ UNCHANGED <<path, queueVars, rec, dispatcherVars, task, gate, completed,
                   spurious, sinceHold>>

\* Mutant: a task does not pass the gate.
GateSkipped(w) ==
    /\ At(w, "gate", "start")
    /\ UNCHANGED <<path, queueVars, rec, dispatcherVars, task, gate, completed,
                   spurious, sinceHold>>

GateLock(w) ==
    /\ At(w, "gate", "gated")
    /\ gate = None
    /\ gate' = w
    /\ UNCHANGED <<path, queueVars, rec, dispatcherVars, task, completed,
                   spurious, sinceHold>>

GateUnlock(w) ==
    /\ At(w, "gated", "start")
    /\ gate' = None
    /\ UNCHANGED <<path, queueVars, rec, dispatcherVars, task, completed,
                   spurious, sinceHold>>

Start(w) ==
    /\ At(w, "start", IF IsHolder(task[w]) THEN "hold" ELSE "work")
    /\ rec' = [rec EXCEPT ![task[w]] = "started"]
    /\ sinceHold' = sinceHold \cup {w}
    /\ UNCHANGED <<path, queueVars, dispatcherVars, task, gate, completed,
                   spurious>>

HoldLock(w) ==
    /\ At(w, "hold", "holding")
    /\ gate = None
    /\ gate' = w
    /\ sinceHold' = {}
    /\ UNCHANGED <<path, queueVars, rec, dispatcherVars, task, completed,
                   spurious>>

HoldUnlock(w) ==
    /\ At(w, "holding", "work")
    /\ gate' = None
    /\ UNCHANGED <<path, queueVars, rec, dispatcherVars, task, completed,
                   spurious, sinceHold>>

End(w) ==
    /\ At(w, "work", "count")
    /\ rec' = [rec EXCEPT ![task[w]] = "ended"]
    /\ UNCHANGED <<path, queueVars, dispatcherVars, task, gate, completed,
                   spurious, sinceHold>>

Count(w) ==
    /\ At(w, "count", "pop")
    /\ completed' = completed + 1
    /\ task' = [task EXCEPT ![w] = None]
    /\ UNCHANGED <<path, queueVars, rec, dispatcherVars, gate, spurious,
                   sinceHold>>

WorkerStep(w) ==
    \/ Sleep(w) \/ Pop(w) \/ Exit(w)
    \/ GateLock(w) \/ GateUnlock(w) \/ Start(w)
    \/ HoldLock(w) \/ HoldUnlock(w) \/ End(w) \/ Count(w)

DispatcherStep ==
    \/ Release \/ WaitNotFull \/ Push
    \/ CloseFirst \/ CloseSecond \/ Join

\* POSIX lets a wait return without a signal.
WakeSpuriously ==
    /\ spurious < MaxSpurious
    /\ spurious' = spurious + 1
    /\ \/ \E w \in Workers : At(w, "asleep", "pop") /\ UNCHANGED dpc
       \/ dpc = "full" /\ dpc' = "push" /\ UNCHANGED wpc
    /\ UNCHANGED <<path, queueVars, rec, i, burstEnd, task, gate, completed,
                   sinceHold>>

Returned == dpc = "returned" /\ UNCHANGED vars

Next ==
    \/ DispatcherStep
    \/ \E w \in Workers : WorkerStep(w)
    \/ WakeSpuriously
    \/ Returned

Spec == Init /\ [][Next]_vars

\* Every thread that can run does; the gate is only weakly fair.
Fairness ==
    /\ WF_vars(DispatcherStep)
    /\ \A w \in Workers : WF_vars(WorkerStep(w))

FairSpec == Spec /\ Fairness

-----------------------------------------------------------------------------
(***************************************************************************)
(* Properties                                                              *)
(***************************************************************************)
\* The tasks in a queue, the oldest first.
Contents(q) ==
    [j \in 1 .. count[q] |-> slots[q][(head[q] + j - 1) % Capacity]]

\* No wake-up is lost (workload.c:114-120, 126-138): if a worker sleeps while
\* tasks are in its queue, then each of them has a worker of its own that is
\* awake and about to pop; and the dispatcher waits for room only while its
\* queue is full.
Popping(q) == {w \in Workers : wpc[w] = "pop" /\ WorkerQueue(w) = q}

NoLostWakeup ==
    /\ \A q \in Queues : Asleep(q) # {} => count[q] <= Cardinality(Popping(q))
    /\ dpc = "full" => count[QueueOf(i)] = Capacity

\* Every task that was released is in exactly one place - with the
\* dispatcher, in one queue, with one worker, or done - and its stamps say
\* which (workload.c:259-298).
Places(k) ==
    (IF dpc \in {"push", "full"} /\ i = k THEN 1 ELSE 0)
    + Cardinality({at \in Queues \X (1 .. Capacity) :
                      /\ at[2] <= count[at[1]]
                      /\ Contents(at[1])[at[2]] = k})
    + Cardinality({w \in Workers : task[w] = k})

EveryTaskInOnePlace ==
    \A k \in Tasks :
        /\ rec[k] = "stale" => k >= i /\ Places(k) = 0
        /\ rec[k] = "ready" => Places(k) = 1
        /\ rec[k] = "started" => \E w \in Workers :
               task[w] = k /\ wpc[w] \in {"hold", "holding", "work"}
        /\ rec[k] = "ended" =>
               \A w \in Workers : task[w] = k => wpc[w] = "count"

\* audit.c:65-70: "completed %u of %u queued tasks -- the substrate lost
\* work ... should not happen".  When wl_run returns every task has been
\* counted once and every record has its three stamps.
NothingLost ==
    dpc = "returned" => /\ completed = NTasks
                        /\ \A k \in Tasks : rec[k] = "ended"

\* workload.c:16-20, 268-269: a task passes the gate before it starts, so
\* once a holder task has the gate each worker starts at most the one task
\* it had already brought past it.
HoldStopsThePool ==
    [][\A w \in Workers :
          Start(w) /\ (\E h \in Workers : wpc[h] = "holding")
              => w \notin sinceHold]_vars

\* The rings and the condition variables implement bounded FIFO queues, and
\* tq_pop answers -1 only "once closed and drained" (workload.c:123).
Holds(w) == CASE wpc[w] = "exited" -> -1
              [] OTHER             -> task[w]

Queue == INSTANCE BoundedQueue WITH
    Empty <- None,
    Drained <- -1,
    queue <- [q \in Queues |-> Contents(q)],
    holds <- [w \in Workers |-> Holds(w)]

ImplementsBoundedQueue == Queue!Spec

\* The program never locks up (workload.c:115, 128, 145-146, 266-272): until
\* wl_run has returned somebody can go on.  The dispatcher waits for room or
\* for a thread to end, a worker for a task or for the gate.
DispatcherWaits ==
    dpc = "full" \/ (dpc = "join" /\ \E w \in Workers : wpc[w] # "exited")

Waits(w) ==
    wpc[w] = "asleep" \/ (wpc[w] \in {"gate", "hold"} /\ gate # None)

SomebodyRuns ==
    dpc # "returned" /\ DispatcherWaits =>
        \E w \in Workers : wpc[w] # "exited" /\ ~Waits(w)

\* wl_run returns: no thread waits for a signal that never comes, and no
\* worker for a gate that is never opened.
RunReturns == <>(dpc = "returned")
=============================================================================
