----------------------------- MODULE TableBench -----------------------------
(***************************************************************************)
(* The benchmark of week 4 (bench.c): the program that puts the two tables *)
(* together.  main runs a list of rounds.  In a round it sets a table up,  *)
(* starts the readers and one writer, opens a gate for all of them, joins  *)
(* them, reads the count of freed versions and destroys the table.  The    *)
(* registry of rcu.c and the counter of rt_freed() outlive the rounds.     *)
(*                                                                         *)
(* The rwlock table is EXTENDed, the RCU table is an instance whose clash- *)
(* ing variables begin with r.  A worker's steps are those of the tables   *)
(* conjoined with what the worker does in the same step.  What runs under  *)
(* the mutex of the gate is one step.                                      *)
(***************************************************************************)
EXTENDS RwTable, Sequences, FiniteSets

CONSTANTS
    Addrs, MaxReaders, HalfWord, SectionBound, SlotReuse,   \* see RcuTable
    Reads,          \* reads_per_reader
    Updates,        \* updates
    Rounds          \* the `rcu` argument of each run_once, in order

\* The threads are numbered as in run_once's array th[]: readers, then writer.
N       == Cardinality(Readers)
Workers == 0 .. N

ASSUME WorkerAssumption ==
    N \in Nat /\ Readers = 0 .. N - 1 /\ Updaters = {N} /\ N <= MaxReaders
ASSUME RoundAssumption ==
    /\ Reads \in Nat \ {0} /\ Updates \in Nat
    /\ Rounds \in Seq(BOOLEAN) /\ Rounds # << >> /\ Rounds[1]
\* What Rcu and RcuTable assume.  reads_per_reader is a long, and the counters
\* of the registry are unsigned longs: they come round no more than once.
ASSUME TableAssumption ==
    /\ MaxReaders \in Nat /\ HalfWord \in Nat \ {0} /\ Reads <= HalfWord
    /\ SectionBound \in Nat /\ SlotReuse \in BOOLEAN
    /\ Nobody \notin Addrs /\ Addrs # {}

VARIABLES
    inUse, localSeq, seq, reads, registry, syncWaits, slot, rpc, spc, idx,
    waiting, owed,                              \* rcu.c; spc is Rcu's upc
    allocated, rgen, rval, cur, latest, update, freed, ralive, tpc, old, nv,
    rlpc, p, rx, rok,                           \* the RCU table
    mpc,        \* where main is in run_once
    round,      \* which call of run_once
    i,          \* run_once's loop index
    go,         \* g.go
    th,         \* where each worker is
    done,       \* the loop counters j of reader and u of writer
    torn,       \* w[i].torn
    base,       \* run_once's base
    tornReads, freedVersions,   \* what run_once reports: *torn, *freed
    failures,   \* history: updates of this round that found no memory
    late        \* history: a reader of this round registered after another
                \* had left

Rt == INSTANCE RcuTable WITH
    gen <- rgen, val <- rval, alive <- ralive, lpc <- rlpc, x <- rx,
    ok <- rok, upc <- spc

rcuVars     == <<inUse, localSeq, seq, reads, registry, syncWaits, slot, rpc,
                 spc, idx, waiting, owed>>
versionVars == <<allocated, rgen, rval, cur, latest, update, freed, ralive,
                 tpc, old, nv, rlpc, p, rx, rok>>
rtVars      == <<rcuVars, versionVars>>

mainVars   == <<mpc, round, i, base, tornReads, freedVersions>>
workerVars == <<th, done, torn, failures, late>>
benchVars  == <<mainVars, go, workerVars>>
allVars    == <<vars, rtVars, benchVars>>

Rcu == Rounds[round]

\* The beginning of the next round, but for its table.
BeginRound ==
    /\ mpc' = "create" /\ i' = 0 /\ go' = FALSE
    /\ th' = [t \in Workers |-> "none"]
    /\ done' = [t \in Workers |-> 0]
    /\ torn' = [t \in Readers |-> 0]
    /\ base' = freed
    /\ failures' = 0 /\ late' = FALSE
    /\ round' = round + 1
    /\ UNCHANGED <<tornReads, freedVersions>>

\* The first round's rt_init is Rt!Init.
BenchInit ==
    /\ Rt!Init
    /\ gen = 0 /\ val = 0 /\ readers = {} /\ writer = Nobody
    /\ alive = FALSE
    /\ lpc = [r \in Readers |-> "none"]
    /\ x = [r \in Readers |-> 0]
    /\ ok = [r \in Readers |-> TRUE]
    /\ upc = [u \in Updaters |-> "none"]
    /\ mpc = "create" /\ round = 1 /\ i = 0 /\ go = FALSE
    /\ th = [t \in Workers |-> "none"]
    /\ done = [t \in Workers |-> 0]
    /\ torn = [t \in Readers |-> 0]
    /\ base = 0 /\ tornReads = 0 /\ freedVersions = 0
    /\ failures = 0 /\ late = FALSE

(***************************************************************************)
(* main, in run_once                                                       *)
(***************************************************************************)
MainAt(here, there) == mpc = here /\ mpc' = there

\* rt_init allocates the first version.
RtInit ==
    /\ Rounds[round + 1]
    /\ \E v \in Addrs \ allocated :
          /\ allocated' = allocated \cup {v}
          /\ rgen' = [rgen EXCEPT ![v] = 0]
          /\ rval' = [rval EXCEPT ![v] = 0]
          /\ cur' = v /\ latest' = v
    /\ ralive' = TRUE
    /\ UNCHANGED <<vars, rcuVars, update, freed, tpc, old, nv, rlpc, p, rx, rok>>

RwInit ==
    /\ ~Rounds[round + 1]
    /\ alive' = TRUE /\ gen' = 0 /\ val' = 0
    /\ UNCHANGED <<lockVars, lookupVars, upc, rtVars>>

InitTable ==
    /\ mpc = "init"
    /\ RtInit \/ RwInit
    /\ BeginRound

\* "bench: out of memory"
InitFails ==
    /\ MainAt("init", "exit")
    /\ UNCHANGED <<vars, rtVars, round, i, base, tornReads, freedVersions, go,
                   workerVars>>

\* The threads are created one by one, the writer last.
Create ==
    /\ MainAt("create", IF i = N THEN "go" ELSE "create")
    /\ i' = IF i = N THEN 0 ELSE i + 1
    /\ th' = [th EXCEPT ![i] = IF i = N THEN "gate" ELSE "register"]
    /\ UNCHANGED <<vars, rtVars, round, base, tornReads, freedVersions, go,
                   done, torn, failures, late>>

\* Mutant: one of the sleepers is woken.
WokenOne ==
    LET asleep == {t \in Workers : th[t] = "asleep"} IN
    {t \in asleep : \A s \in asleep : t <= s}

\* pthread_cond_broadcast
Woken == {t \in Workers : th[t] = "asleep"}

\* The 20 ms pause before it promises nothing: a worker may still be on its
\* way to the gate, or to the registry.
OpenGate ==
    /\ MainAt("go", "join")
    /\ go' = TRUE
    /\ th' = [t \in Workers |-> IF t \in Woken THEN "gate" ELSE th[t]]
    /\ UNCHANGED <<vars, rtVars, round, i, base, tornReads, freedVersions,
                   done, torn, failures, late>>

\* Mutant: the writer is not waited for.
JoinReaders ==
    /\ MainAt("join", IF i = N THEN "destroy" ELSE "join")
    /\ i # N => th[i] = "exited"
    /\ i' = IF i = N THEN 0 ELSE i + 1
    /\ tornReads' = tornReads + IF i = N THEN 0 ELSE torn[i]
    /\ UNCHANGED <<vars, rtVars, round, base, freedVersions, go, workerVars>>

Join ==
    /\ MainAt("join", IF i = N THEN "destroy" ELSE "join")
    /\ th[i] = "exited"
    /\ i' = IF i = N THEN 0 ELSE i + 1
    /\ tornReads' = tornReads + IF i = N THEN 0 ELSE torn[i]
    /\ UNCHANGED <<vars, rtVars, round, base, freedVersions, go, workerVars>>

DestroyTable ==
    /\ MainAt("destroy", IF round = Len(Rounds) THEN "done" ELSE "init")
    /\ \/ Rcu /\ Rt!Destroy /\ UNCHANGED vars
       \/ ~Rcu /\ Destroy /\ UNCHANGED rtVars
    /\ freedVersions' = IF Rcu THEN freed - base ELSE 0
    /\ UNCHANGED <<round, i, base, tornReads, go, workerVars>>

MainStep ==
    InitTable \/ InitFails \/ Create \/ OpenGate \/ Join \/ DestroyTable

(***************************************************************************)
(* The workers                                                             *)
(***************************************************************************)
WorkerAt(t, here, there) == th[t] = here /\ th' = [th EXCEPT ![t] = there]

\* rcu_register, in a round of the RCU table.
RegisterReader(r) ==
    /\ WorkerAt(r, "register", "gate")
    /\ IF Rcu THEN Rt!Register(r) /\ UNCHANGED versionVars
              ELSE UNCHANGED rtVars
    /\ late' = (late \/ \E q \in Readers : th[q] = "exited")
    /\ UNCHANGED <<vars, mainVars, go, done, torn, failures>>

\* gate_wait: the test of go.
GateWait(t) ==
    /\ WorkerAt(t, "gate", IF go THEN "work" ELSE "asleep")
    /\ UNCHANGED <<vars, rtVars, mainVars, go, done, torn, failures, late>>

WakeSpuriously(t) ==
    /\ WorkerAt(t, "asleep", "gate")
    /\ UNCHANGED <<vars, rtVars, mainVars, go, done, torn, failures, late>>

\* The worker has counted one lookup or one update.
CountOne(t) == done' = [done EXCEPT ![t] = @ + 1]

\* A lookup has answered: torn += !ok.
CountLookup(r, whole) ==
    /\ CountOne(r)
    /\ torn' = IF whole THEN torn ELSE [torn EXCEPT ![r] = @ + 1]

RtLookup(r) ==
    /\ Rcu
    /\ \/ /\ done[r] < Reads
          /\ Rt!LookupLock(r)
          /\ UNCHANGED <<done, torn>>
       \/ /\ \/ Rt!LookupDeref(r) \/ Rt!LookupVal(r) \/ Rt!LookupConsistent(r)
             \/ Rt!CountRead(r) /\ UNCHANGED versionVars
          /\ UNCHANGED <<done, torn>>
       \/ Rt!LookupUnlock(r) /\ CountLookup(r, rok[r])
    /\ UNCHANGED vars

RwLookup(r) ==
    /\ ~Rcu
    /\ \/ /\ done[r] < Reads
          /\ LookupCall(r)
          /\ UNCHANGED <<done, torn>>
       \/ /\ LookupLock(r) \/ LookupVal(r) \/ LookupConsistent(r) \/ LookupUnlock(r)
          /\ UNCHANGED <<done, torn>>
       \/ LookupReturn(r) /\ CountLookup(r, ok[r])
    /\ UNCHANGED rtVars

ReaderWork(r) ==
    /\ th[r] = "work"
    /\ RtLookup(r) \/ RwLookup(r)
    /\ UNCHANGED <<mainVars, go, th, failures, late>>

\* The loop is over: the reader stores w->torn, unregisters and returns.
ReaderReturn(r) ==
    /\ WorkerAt(r, "work", "exited")
    /\ done[r] = Reads /\ lpc[r] = "none"
    /\ IF Rcu THEN Rt!Unregister(r) /\ UNCHANGED versionVars
              ELSE UNCHANGED rtVars
    /\ UNCHANGED <<vars, mainVars, go, done, torn, failures, late>>

RtUpdate(u) ==
    /\ Rcu
    /\ \/ /\ done[u] < Updates
          /\ Rt!UpdateMalloc(u)
          /\ UNCHANGED <<done, failures>>
       \/ /\ \/ Rt!UpdateLock(u) \/ Rt!FillGen(u) \/ Rt!FillVal(u)
             \/ Rt!Publish(u) \/ Rt!SetLatest(u) \/ Rt!UpdateSync(u)
             \/ Rt!InSync(u) \/ Rt!Free(u) \/ Rt!CountFreed(u)
          /\ UNCHANGED <<done, failures>>
       \/ Rt!UpdateUnlock(u) /\ CountOne(u) /\ UNCHANGED failures
    /\ UNCHANGED vars

\* rt_update finds no memory; the writer does not look at what it answers.
RtUpdateFails(u) ==
    /\ Rcu
    /\ done[u] < Updates /\ tpc[u] = "idle"
    /\ CountOne(u)
    /\ failures' = failures + 1
    /\ UNCHANGED <<vars, rtVars>>

RwUpdate(u) ==
    /\ ~Rcu
    /\ \/ done[u] < Updates /\ UpdateCall(u) /\ UNCHANGED done
       \/ UpdateLock(u) /\ UNCHANGED done
       \/ FillGen(u) /\ UNCHANGED done
       \/ FillVal(u) /\ UNCHANGED done
       \/ UpdateUnlock(u) /\ CountOne(u)
    /\ UNCHANGED <<failures, rtVars>>

WriterWork(u) ==
    /\ th[u] = "work"
    /\ RtUpdate(u) \/ RtUpdateFails(u) \/ RwUpdate(u)
    /\ UNCHANGED <<mainVars, go, th, torn, late>>

WriterReturn(u) ==
    /\ WorkerAt(u, "work", "exited")
    /\ done[u] = Updates /\ tpc[u] = "idle" /\ upc[u] = "none"
    /\ UNCHANGED <<vars, rtVars, mainVars, go, done, torn, failures, late>>

ReaderGoesOn(r) ==
    RegisterReader(r) \/ GateWait(r) \/ ReaderWork(r) \/ ReaderReturn(r)

WriterGoesOn(u) == GateWait(u) \/ WriterWork(u) \/ WriterReturn(u)

Ended == mpc \in {"done", "exit"} /\ UNCHANGED allVars

BenchNext ==
    \/ MainStep
    \/ \E r \in Readers : ReaderGoesOn(r)
    \/ \E u \in Updaters : WriterGoesOn(u)
    \/ \E t \in Workers : WakeSpuriously(t)
    \/ Ended

BenchSpec == BenchInit /\ [][BenchNext]_allVars

\* Every thread that can run does.  Nobody need wake up without a reason.
BenchFairness ==
    /\ WF_allVars(MainStep)
    /\ \A r \in Readers : WF_allVars(ReaderGoesOn(r))
    /\ \A u \in Updaters : WF_allVars(WriterGoesOn(u))

FairBenchSpec == BenchSpec /\ BenchFairness

-----------------------------------------------------------------------------
(***************************************************************************)
(* Properties                                                              *)
(***************************************************************************)
\* rcu.c:151, "this exact read-side section": a poll that blocks does so for
\* the section the scan recorded.
WaitsForExactSection == Rt!WaitsForExactSection

\* The same, in a round whose readers all registered before one left, which
\* is what the pause in run_once is for (bench.c:111).
ExactUnlessLate == ~late => WaitsForExactSection

\* bench.c:14-16, "every count in the output is exact".  No lookup of any
\* round was torn.  A round of the RCU table has freed a version per update
\* that found memory, and leaves no version allocated and no slot in use.
CountsAreExact ==
    /\ tornReads = 0
    /\ mpc \in {"init", "done"} =>
          /\ freedVersions = (IF Rcu THEN Updates - failures ELSE 0)
          /\ allocated = {}
          /\ \A s \in Rt!Slots : ~inUse[s]

\* bench.c:93-134.  The benchmark ends: no worker sleeps through the opening
\* of the gate, no update waits for ever, and main can join every thread.
BenchEnds == <>(mpc \in {"done", "exit"})
=============================================================================
