------------------------------ MODULE ProcStat ------------------------------
(***************************************************************************)
(* The kernel module of week 2 (procstat.c): a /proc entry whose readers   *)
(* walk the kernel's list of tasks under the kernel's RCU read lock and    *)
(* count their own reads under a mutex.                                    *)
(*                                                                         *)
(* The kernel is external, modelled as far as the module relies on it: the *)
(* circular list of tasks, to which a fork adds at the end and from which  *)
(* the reaping of a zombie removes; a task that has been removed keeps its *)
(* `next` and is freed when every reader that was in a read-side section   *)
(* has left it; its memory may be the next fork's.  proc_remove closes the *)
(* entry and then waits for the calls that are under way.                  *)
(***************************************************************************)
EXTENDS Integers, FiniteSets

CONSTANTS
    Readers,        \* processes that read the entry
    Tasks,          \* addresses of task_structs
    Head,           \* init_task, where the list begins and ends
    Nobody,         \* no process
    MaxReads        \* model bound: reads begun while the module is loaded

ASSUME TaskAssumption   == Head \notin Tasks
ASSUME NobodyAssumption == Nobody \notin Readers
ASSUME ReadAssumption   == MaxReads \in Nat

VARIABLES
    state,          \* of each task; "none" while its address is free
    next,           \* the list's pointers
    owes,           \* for each removed task, the readers it is kept for
    inSection,      \* the readers in a read-side section
    module,         \* "out", "in", "leaving"
    entry,          \* is there a /proc/comp410_procstat?
    users,          \* the processes in a call of the entry
    statLock,       \* holder of stat_lock, or Nobody
    readCount,      \* read_count
    pc,             \* where each process is
    t,              \* count_tasks: the pointer
    count,          \* count_tasks: running, sleeping, zombie, total
    tmp, reads,     \* procstat_show: the increment and its result
    stayed,         \* history: tasks on the list since this walk began
    visited,        \* history: tasks this walk has come to
    shows           \* history: increments since the module was loaded

kernelVars == <<state, next, owes, inSection>>
procVars   == <<module, entry, users>>
walkVars   == <<t, count, stayed, visited>>
readVars   == <<statLock, readCount, tmp, reads, shows>>
statVars   == <<kernelVars, procVars, walkVars, readVars, pc>>

NoCount == [running |-> 0, sleeping |-> 0, zombie |-> 0, total |-> 0]

StatInit ==
    /\ state = [k \in Tasks |-> "none"]
    /\ next = [k \in Tasks \cup {Head} |-> Head]
    /\ owes = [k \in Tasks |-> {}]
    /\ inSection = {}
    /\ module = "out" /\ entry = FALSE /\ users = {}
    /\ statLock = Nobody /\ readCount = 0
    /\ pc = [r \in Readers |-> "closed"]
    /\ t = [r \in Readers |-> Head]
    /\ count = [r \in Readers |-> NoCount]
    /\ tmp = [r \in Readers |-> 0] /\ reads = [r \in Readers |-> 0]
    /\ stayed = [r \in Readers |-> {}] /\ visited = [r \in Readers |-> {}]
    /\ shows = 0

(***************************************************************************)
(* The kernel: the list of tasks                                           *)
(***************************************************************************)
OnList == {k \in Tasks : state[k] \in {"running", "sleeping", "zombie"}}

Fork(k) ==
    /\ state[k] = "none"
    /\ state' = [state EXCEPT ![k] = "running"]
    /\ \E last \in OnList \cup {Head} :
          /\ next[last] = Head
          /\ next' = [next EXCEPT ![last] = k, ![k] = Head]
    /\ UNCHANGED <<owes, inSection, procVars, walkVars, readVars, pc>>

ChangeState(k) ==
    /\ \E s \in {"running", "sleeping", "zombie"} :
          /\ <<state[k], s>> \in {<<"running", "sleeping">>,
                                 <<"sleeping", "running">>,
                                 <<"running", "zombie">>}
          /\ state' = [state EXCEPT ![k] = s]
    /\ UNCHANGED <<next, owes, inSection, procVars, walkVars, readVars, pc>>

Reap(k) ==
    /\ state[k] = "zombie"
    /\ state' = [state EXCEPT ![k] = "removed"]
    /\ \E before \in OnList \cup {Head} :
          /\ next[before] = k
          /\ next' = [next EXCEPT ![before] = next[k]]
    /\ owes' = [owes EXCEPT ![k] = inSection]
    /\ stayed' = [r \in Readers |-> stayed[r] \ {k}]
    /\ UNCHANGED <<inSection, procVars, t, count, visited, readVars, pc>>

FreeTask(k) ==
    /\ state[k] = "removed" /\ owes[k] = {}
    /\ state' = [state EXCEPT ![k] = "none"]
    /\ next' = [next EXCEPT ![k] = Head]
    /\ UNCHANGED <<owes, inSection, procVars, walkVars, readVars, pc>>

(***************************************************************************)
(* Load and unload                                                         *)
(***************************************************************************)
\* proc_create may fail; procstat_init then answers -ENOMEM and nothing has
\* changed.
ProcstatInit ==
    /\ module = "out"
    /\ module' = "in" /\ entry' = TRUE
    /\ readCount' = 0 /\ shows' = 0
    /\ UNCHANGED <<kernelVars, users, walkVars, statLock, tmp, reads, pc>>

\* Mutant: the entry is not removed.
ProcstatExitNot ==
    /\ module = "in"
    /\ module' = "out"
    /\ UNCHANGED <<kernelVars, entry, users, walkVars, readVars, pc>>

ProcstatExit ==
    /\ module = "in"
    /\ module' = "leaving" /\ entry' = FALSE
    /\ UNCHANGED <<kernelVars, users, walkVars, readVars, pc>>

\* proc_remove has waited for the calls and closed what was open.
Unloaded ==
    /\ module = "leaving" /\ users = {}
    /\ module' = "out"
    /\ pc' = [r \in Readers |-> "closed"]
    /\ UNCHANGED <<kernelVars, entry, users, walkVars, readVars>>

(***************************************************************************)
(* A process that reads the entry                                          *)
(***************************************************************************)
Goto(r, here, there) == pc[r] = here /\ pc' = [pc EXCEPT ![r] = there]

\* One more in a field of the counts.
Tally(r, field) == count' = [count EXCEPT ![r][field] = @ + 1]

Open(r) ==
    /\ entry /\ Goto(r, "closed", "open")
    /\ UNCHANGED <<kernelVars, procVars, walkVars, readVars>>

Close(r) ==
    /\ entry /\ Goto(r, "open", "closed")
    /\ UNCHANGED <<kernelVars, procVars, walkVars, readVars>>

\* read: procstat_show is called, and count_tasks, which clears the counts.
Read(r) ==
    /\ entry /\ Goto(r, "open", "rcu")
    /\ readCount + Cardinality(users) < MaxReads
    /\ users' = users \cup {r}
    /\ count' = [count EXCEPT ![r] = NoCount]
    /\ UNCHANGED <<kernelVars, module, entry, t, stayed, visited, readVars>>

\* Mutant: the walk is not in a read-side section.
RcuLockNot(r) ==
    /\ Goto(r, "rcu", "next")
    /\ stayed' = [stayed EXCEPT ![r] = OnList]
    /\ UNCHANGED <<kernelVars, procVars, t, count, visited, readVars>>

RcuLock(r) ==
    /\ Goto(r, "rcu", "next")
    /\ inSection' = inSection \cup {r}
    /\ stayed' = [stayed EXCEPT ![r] = OnList]
    /\ UNCHANGED <<state, next, owes, procVars, t, count, visited, readVars>>

\* for_each_process: t = next_task(t), then (*total)++.
NextTask(r) ==
    /\ next[t[r]] # Head /\ Goto(r, "next", "exit_state")
    /\ t' = [t EXCEPT ![r] = next[t[r]]]
    /\ Tally(r, "total")
    /\ visited' = [visited EXCEPT ![r] = @ \cup {next[t[r]]}]
    /\ UNCHANGED <<kernelVars, procVars, stayed, readVars>>

EndOfList(r) ==
    /\ next[t[r]] = Head /\ Goto(r, "next", "unlock")
    /\ t' = [t EXCEPT ![r] = Head]
    /\ UNCHANGED <<kernelVars, procVars, count, stayed, visited, readVars>>

IsZombie(r) == state[t[r]] = "zombie"

\* Mutant: a zombie is looked at a second time.
CountZombieTwice(r) ==
    /\ Goto(r, "exit_state", "state")
    /\ IF IsZombie(r) THEN Tally(r, "zombie") ELSE UNCHANGED count
    /\ UNCHANGED <<kernelVars, procVars, t, stayed, visited, readVars>>

\* t->exit_state and t->__state are read one after the other; a task that has
\* been removed is no zombie any more.
CountZombie(r) ==
    /\ Goto(r, "exit_state", IF IsZombie(r) THEN "next" ELSE "state")
    /\ IF IsZombie(r) THEN Tally(r, "zombie") ELSE UNCHANGED count
    /\ UNCHANGED <<kernelVars, procVars, t, stayed, visited, readVars>>

CountOther(r) ==
    /\ Goto(r, "state", "next")
    /\ Tally(r, IF state[t[r]] = "running" THEN "running" ELSE "sleeping")
    /\ UNCHANGED <<kernelVars, procVars, t, stayed, visited, readVars>>

RcuUnlock(r) ==
    /\ Goto(r, "unlock", "mutex")
    /\ inSection' = inSection \ {r}
    /\ owes' = [k \in Tasks |-> owes[k] \ {r}]
    /\ UNCHANGED <<state, next, procVars, walkVars, readVars>>

\* Mutant: the mutex is not waited for.
MutexLockNot(r) ==
    /\ Goto(r, "mutex", "load")
    /\ statLock' = r
    /\ UNCHANGED <<kernelVars, procVars, walkVars, readCount, tmp, reads, shows>>

MutexLock(r) ==
    /\ statLock = Nobody /\ Goto(r, "mutex", "load")
    /\ statLock' = r
    /\ UNCHANGED <<kernelVars, procVars, walkVars, readCount, tmp, reads, shows>>

\* reads = ++read_count, a load and a store.
LoadCount(r) ==
    /\ Goto(r, "load", "store")
    /\ tmp' = [tmp EXCEPT ![r] = readCount]
    /\ UNCHANGED <<kernelVars, procVars, walkVars, statLock, readCount, reads,
                   shows>>

StoreCount(r) ==
    /\ Goto(r, "store", "mutex_unlock")
    /\ readCount' = tmp[r] + 1
    /\ reads' = [reads EXCEPT ![r] = tmp[r] + 1]
    /\ shows' = shows + 1
    /\ UNCHANGED <<kernelVars, procVars, walkVars, statLock, tmp>>

MutexUnlock(r) ==
    /\ Goto(r, "mutex_unlock", "print")
    /\ statLock' = Nobody
    /\ UNCHANGED <<kernelVars, procVars, walkVars, readCount, tmp, reads, shows>>

\* The five lines are printed; the locals are dead then.
SeqPrintf(r) ==
    /\ Goto(r, "print", "open")
    /\ users' = users \ {r}
    /\ count' = [count EXCEPT ![r] = NoCount]
    /\ visited' = [visited EXCEPT ![r] = {}]
    /\ stayed' = [stayed EXCEPT ![r] = {}]
    /\ tmp' = [tmp EXCEPT ![r] = 0] /\ reads' = [reads EXCEPT ![r] = 0]
    /\ UNCHANGED <<kernelVars, module, entry, t, statLock, readCount, shows>>

CountTasks(r) ==
    \/ RcuLock(r) \/ NextTask(r) \/ EndOfList(r)
    \/ CountZombie(r) \/ CountOther(r) \/ RcuUnlock(r)

ProcstatShow(r) ==
    \/ CountTasks(r)
    \/ MutexLock(r) \/ LoadCount(r) \/ StoreCount(r) \/ MutexUnlock(r)
    \/ SeqPrintf(r)

StatNext ==
    \/ \E k \in Tasks : Fork(k) \/ ChangeState(k) \/ Reap(k) \/ FreeTask(k)
    \/ ProcstatInit \/ ProcstatExit \/ Unloaded
    \/ \E r \in Readers : Open(r) \/ Close(r) \/ Read(r) \/ ProcstatShow(r)

StatSpec == StatInit /\ [][StatNext]_statVars

-----------------------------------------------------------------------------
(***************************************************************************)
(* Properties                                                              *)
(***************************************************************************)
InWalk(r)   == pc[r] \in {"next", "exit_state", "state"}
Showing(r)  == pc[r] \notin {"closed", "open"}
Counted(r)  == Showing(r) /\ ~InWalk(r) /\ pc[r] # "rcu"

\* procstat.c:27-29.  A walk never stands on a task that has been freed,
\* though tasks are removed and their memory used again while it lasts.
NoFreedTask == \A r \in Readers : InWalk(r) /\ t[r] # Head => state[t[r]] # "none"

\* procstat.c:41-49, proc-check.sh.  A walk that has ended has met every task
\* that was there all along, none twice, and the three counts add up to the
\* total.
CountsEveryTaskOnce ==
    \A r \in Readers : Counted(r) =>
        /\ stayed[r] \subseteq visited[r]
        /\ count[r].total = Cardinality(visited[r])
        /\ count[r].total = count[r].running + count[r].sleeping + count[r].zombie

\* procstat.c:22-25.  No read is lost from the count and none has the number
\* of another.
ReadsAreExact ==
    /\ shows = readCount
    /\ \A q, r \in Readers :
          {pc[q], pc[r]} \subseteq {"mutex_unlock", "print"} /\ reads[q] = reads[r]
              => q = r

\* procstat.c:107-109.  The module is gone only when nobody runs its code.
NobodyRunsUnloadedCode ==
    module = "out" => \A r \in Readers : ~Showing(r)
=============================================================================
