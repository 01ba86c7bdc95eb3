--------------------------- MODULE TableBenchProofs ---------------------------
(***************************************************************************)
(* Proofs about RwTable and TableBench.  The rwlock table, for any number  *)
(* of readers and updaters: its type invariant, and that it implements     *)
(* VersionedTable.  The benchmark, for any number of readers and rounds:   *)
(* its counts are exact, and a poll blocks only for the section that the   *)
(* scan recorded unless a reader was late.                                 *)
(*                                                                         *)
(* Nothing is proved again of the RCU table: a step of the benchmark is a  *)
(* step of RcuTable, or leaves it alone, or sets up a new one, and so its  *)
(* invariants (RcuTableProofs) hold in every round.                        *)
(***************************************************************************)
EXTENDS TableBench, FiniteSetTheorems, TLAPS

-----------------------------------------------------------------------------
(***************************************************************************)
(* The rwlock table.                                                       *)
(***************************************************************************)
\* Who holds the lock is who is between lock and unlock, and a writer is
\* alone.
ReadsUnder(r)  == lpc[r] \in {"val", "gen", "unlock"}
WritesUnder(u) == upc[u] \in {"gen", "val", "unlock"}

LockAgrees ==
    /\ \A r \in Readers : r \in readers <=> ReadsUnder(r)
    /\ \A u \in Updaters : writer = u <=> WritesUnder(u)
    /\ writer = Nobody \/ readers = {}

\* The version is whole except between the two stores of an update.
WholeUnlessFilling == (\A u \in Updaters : upc[u] # "val") => val = gen

\* What a lookup has read is the generation, for as long as it has the lock,
\* so its check succeeds.
ReadIsWhole ==
    \A r \in Readers :
        /\ lpc[r] = "gen" => x[r] = gen
        /\ lpc[r] \in {"unlock", "return"} => ok[r]

Inv == TypeOK /\ LockAgrees /\ WholeUnlessFilling /\ ReadIsWhole

\* rw_init establishes the invariant.
THEOREM InitInv == Init => Inv
BY NobodyAssumption
   DEF Init, Inv, TypeOK, LockAgrees, WholeUnlessFilling, ReadIsWhole,
       ReadsUnder, WritesUnder, LookupPCs, UpdatePCs

\* A step of rw_lookup keeps the invariant.
LEMMA LookupInv ==
    ASSUME Inv, NEW r \in Readers, LookupSteps(r)
    PROVE  Inv'
<1>1. TypeOK'
  <2>1. CASE LookupCall(r)
    BY <2>1 DEF Inv, LookupCall, At, tableVars, lockVars, TypeOK, LookupPCs
  <2>2. CASE LookupLock(r) \/ LookupUnlock(r)
    <3>1. readers' \in SUBSET Readers
      BY <2>2 DEF Inv, LookupLock, LookupUnlock, RdLock, RdUnlock, TypeOK
    <3> QED
      BY <2>2, <3>1 DEF Inv, LookupLock, LookupUnlock, At, RdLock, RdUnlock,
                        tableVars, TypeOK, LookupPCs
  <2>3. CASE LookupVal(r)
    BY <2>3 DEF Inv, LookupVal, At, tableVars, lockVars, TypeOK, LookupPCs
  <2>4. CASE LookupReturn(r)
    BY <2>4 DEF Inv, LookupReturn, At, tableVars, lockVars, TypeOK, LookupPCs
  <2>5. CASE LookupConsistent(r)
    BY <2>5 DEF Inv, LookupConsistent, At, tableVars, lockVars, TypeOK,
                LookupPCs
  <2> QED
    BY <2>1, <2>2, <2>3, <2>4, <2>5 DEF LookupSteps
<1> USE DEF Inv, LookupSteps, LookupCall, LookupLock, LookupVal,
            LookupConsistent, LookupUnlock, LookupReturn, At, RdLock,
            RdUnlock, tableVars, lockVars
<1>2. LockAgrees'
  BY DEF TypeOK, LockAgrees, ReadsUnder, WritesUnder
<1>3. WholeUnlessFilling'
  BY DEF WholeUnlessFilling
<1>4. LookupVal(r) => val = gen
  BY NobodyAssumption
     DEF TypeOK, LockAgrees, WholeUnlessFilling, ReadsUnder, WritesUnder
<1>5. ReadIsWhole'
  BY <1>4 DEF TypeOK, ReadIsWhole
<1> QED
  BY <1>1, <1>2, <1>3, <1>5

\* A step of rw_update keeps the invariant: no lookup has the lock while it
\* changes the version.
LEMMA UpdateInv ==
    ASSUME Inv, NEW u \in Updaters, UpdateSteps(u)
    PROVE  Inv'
<1> USE DEF Inv, UpdateSteps, UpdateCall, UpdateLock, FillGen, FillVal,
            UpdateUnlock, Go, WrLock, WrUnlock, tableVars, lockVars,
            lookupVars
<1>1. TypeOK'
  BY DEF TypeOK, UpdatePCs
<1>2. LockAgrees'
  BY NobodyAssumption DEF TypeOK, LockAgrees, ReadsUnder, WritesUnder
<1>3. WholeUnlessFilling'
  BY NobodyAssumption
     DEF TypeOK, LockAgrees, WholeUnlessFilling, WritesUnder
<1>4. FillGen(u) => \A r \in Readers : lpc[r] # "gen"
  BY NobodyAssumption DEF LockAgrees, ReadsUnder, WritesUnder
<1>5. ReadIsWhole'
  BY <1>4 DEF ReadIsWhole
<1> QED
  BY <1>1, <1>2, <1>3, <1>5

\* rw_destroy, and a step that changes nothing.
LEMMA OtherInv ==
    ASSUME Inv, Destroy \/ UNCHANGED vars
    PROVE  Inv'
BY DEF Inv, Destroy, vars, tableVars, lockVars, lookupVars, TypeOK,
       LockAgrees, WholeUnlessFilling, ReadIsWhole, ReadsUnder, WritesUnder

\* The table keeps the invariant, for any constants.
THEOREM Invariant == Spec => []Inv
<1>1. Inv /\ [Next]_vars => Inv'
  BY LookupInv, UpdateInv, OtherInv DEF Next
<1> QED
  BY <1>1, InitInv, PTL DEF Spec

(***************************************************************************)
(* Every variable keeps its type.                                          *)
(***************************************************************************)
THEOREM Typed == Spec => []TypeOK
<1>1. Inv => TypeOK
  BY DEF Inv
<1> QED
  BY <1>1, Invariant, PTL

-----------------------------------------------------------------------------
(***************************************************************************)
(* Refinement.                                                             *)
(***************************************************************************)
Invisible ==
    gen' = gen /\ \A r \in Readers : AnswerOf(r)' = AnswerOf(r)

\* One answer changes and the others do not: the abstract function is updated.
LEMMA AnswerBecomes ==
    ASSUME NEW r \in Readers, NEW v, AnswerOf(r)' = v,
           \A q \in Readers \ {r} : AnswerOf(q)' = AnswerOf(q)
    PROVE  [q \in Readers |-> AnswerOf(q)'] =
              [[q \in Readers |-> AnswerOf(q)] EXCEPT ![r] = v]
OBVIOUS

\* A step of rw_lookup: reading the value is the abstract lookup, the return
\* is the abstract return.
LEMMA LookupImplements ==
    ASSUME Inv, NEW r \in Readers, LookupSteps(r)
    PROVE  Invisible \/ Abstract!Lookup(r) \/ Abstract!Return(r)
<1>1. gen' = gen
  BY DEF LookupSteps, LookupCall, LookupLock, LookupVal, LookupConsistent,
         LookupUnlock, LookupReturn, tableVars
<1>2. \A q \in Readers \ {r} : AnswerOf(q)' = AnswerOf(q)
  BY DEF Inv, TypeOK, LookupSteps, LookupCall, LookupLock, LookupVal,
         LookupConsistent, LookupUnlock, LookupReturn, At, AnswerOf
<1>3. CASE LookupVal(r)
  <2>1. AnswerOf(r) = Nobody
    BY <1>3 DEF LookupVal, At, AnswerOf
  <2>2. val = gen
    BY <1>3, NobodyAssumption
       DEF LookupVal, At, Inv, TypeOK, LockAgrees, WholeUnlessFilling,
           ReadsUnder, WritesUnder
  <2>3. AnswerOf(r)' = gen
    BY <1>3, <2>2 DEF LookupVal, At, Inv, TypeOK, AnswerOf
  <2> QED
    BY <1>1, <1>2, <2>1, <2>3 DEF Abstract!Lookup
<1>4. CASE LookupReturn(r)
  <2>1. AnswerOf(r) = x[r] /\ x[r] \in Nat
    BY <1>4 DEF LookupReturn, At, Inv, TypeOK, ReadIsWhole, AnswerOf
  <2>2. AnswerOf(r) # Nobody
    BY <2>1, NobodyAssumption
  <2>3. AnswerOf(r)' = Nobody
    BY <1>4 DEF LookupReturn, At, Inv, TypeOK, AnswerOf
  <2>4. [q \in Readers |-> AnswerOf(q)'] =
           [[q \in Readers |-> AnswerOf(q)] EXCEPT ![r] = Nobody]
    BY <1>2, <2>3, AnswerBecomes
  <2> QED
    BY <1>1, <2>2, <2>4 DEF Abstract!Return
<1>5. CASE LookupCall(r) \/ LookupLock(r) \/ LookupConsistent(r)
           \/ LookupUnlock(r)
  <2>1. AnswerOf(r)' = AnswerOf(r)
    BY <1>5
       DEF Inv, TypeOK, ReadIsWhole, LookupCall, LookupLock,
           LookupConsistent, LookupUnlock, At, AnswerOf, tableVars
  <2> QED
    BY <1>1, <1>2, <2>1 DEF Invisible
<1> QED
  BY <1>3, <1>4, <1>5 DEF LookupSteps

\* A step of rw_update: storing the generation is the abstract update.
LEMMA UpdateImplements ==
    ASSUME Inv, NEW u \in Updaters, UpdateSteps(u)
    PROVE  Invisible \/ Abstract!Update
<1>1. \A r \in Readers : AnswerOf(r)' = AnswerOf(r)
  BY DEF UpdateSteps, UpdateCall, UpdateLock, FillGen, FillVal, UpdateUnlock,
         lookupVars, AnswerOf
<1>2. gen' = gen \/ gen' = gen + 1
  BY DEF UpdateSteps, UpdateCall, UpdateLock, FillGen, FillVal, UpdateUnlock,
         tableVars
<1> QED
  BY <1>1, <1>2 DEF Invisible, Abstract!Update

(***************************************************************************)
(* The table under a readers-writer lock implements the abstract versioned *)
(* table of table.h, the one RcuTable implements too.                      *)
(***************************************************************************)
THEOREM RwTableImplements == Spec => ImplementsVersionedTable
<1>1. Init => Abstract!Init
  BY DEF Init, AnswerOf, Abstract!Init
<1>2. Inv /\ [Next]_vars => [Abstract!Next]_(Abstract!tableVars)
  <2> SUFFICES ASSUME Inv, [Next]_vars
               PROVE  [Abstract!Next]_(Abstract!tableVars)
    OBVIOUS
  <2>1. ASSUME Invisible PROVE UNCHANGED Abstract!tableVars
    BY <2>1 DEF Invisible, Abstract!tableVars
  <2>2. ASSUME NEW r \in Readers, LookupSteps(r)
        PROVE  [Abstract!Next]_(Abstract!tableVars)
    BY <2>1, <2>2, LookupImplements DEF Abstract!Next
  <2>3. ASSUME NEW u \in Updaters, UpdateSteps(u)
        PROVE  [Abstract!Next]_(Abstract!tableVars)
    BY <2>1, <2>3, UpdateImplements DEF Abstract!Next
  <2>4. CASE Destroy \/ UNCHANGED vars
    <3>1. Invisible
      BY <2>4 DEF Destroy, vars, tableVars, lookupVars, AnswerOf, Invisible
    <3> QED
      BY <2>1, <3>1
  <2> QED
    BY <2>2, <2>3, <2>4 DEF Next
<1> QED
  BY <1>1, <1>2, Invariant, PTL
     DEF Spec, ImplementsVersionedTable, Abstract!Spec

-----------------------------------------------------------------------------
(***************************************************************************)
(* The benchmark.  Between two reads of rt_freed() in run_once the RCU     *)
(* table is one of RcuTable's whose count of freed versions begins at 0,   *)
(* so that its invariants hold in every round.                             *)
(***************************************************************************)
Round == INSTANCE RcuTableProofs WITH
    gen <- rgen, val <- rval, alive <- ralive, lpc <- rlpc, x <- rx,
    ok <- rok, upc <- spc, freed <- freed - base

MainPCs   == {"create", "go", "join", "destroy", "init", "done", "exit"}
WorkerPCs == {"none", "register", "gate", "asleep", "work", "exited"}

BenchTypeOK ==
    /\ mpc \in MainPCs
    /\ round \in 1 .. Len(Rounds)
    /\ mpc = "init" => round < Len(Rounds)
    /\ i \in Workers
    /\ th \in [Workers -> WorkerPCs]
    /\ done \in [Workers -> Nat]
    /\ base \in Nat /\ freed \in Nat
    /\ failures \in Nat
    /\ late \in BOOLEAN

\* main starts each worker once, and destroys the table when all have
\* returned.
StartsOnce == mpc = "create" => \A t \in Workers : t >= i => th[t] = "none"

JoinsAll ==
    /\ mpc = "go" => i = 0
    /\ mpc = "join" => \A t \in Workers : t < i => th[t] = "exited"
    /\ mpc \in {"destroy", "init", "done"} => \A t \in Workers : th[t] = "exited"

\* Each table is there only in its own rounds.
InRound == mpc \in {"create", "go", "join", "destroy"}

OneTable ==
    /\ ralive => Rcu /\ InRound
    /\ alive => ~Rcu /\ InRound

QuietWithoutTable ==
    ~alive => /\ \A r \in Readers : lpc[r] = "none"
              /\ \A u \in Updaters : upc[u] = "none"

\* A reader has a slot at most between its registration and its return, and
\* in a round of the RCU table only.
SlotsAreGivenBack ==
    \A r \in Readers :
        th[r] \in {"none", "register", "exited"} \/ ~Rcu => slot[r] = Nobody

\* The writer has freed a version for each update that it has counted and
\* that found memory, and for one that it has yet to count.
WriterCounts ==
    \A u \in Updaters :
        /\ th[u] # "work" \/ ~Rcu => tpc[u] = "idle"
        /\ th[u] = "exited" => done[u] = Updates
        /\ Rcu => freed - base + failures =
                    done[u] + (IF tpc[u] = "unlock" THEN 1 ELSE 0)

\* What run_once reports.
ReportsExactly ==
    /\ tornReads = 0
    /\ torn = [r \in Readers |-> 0]
    /\ mpc \in {"init", "done"} =>
          freedVersions = IF Rcu THEN Updates - failures ELSE 0

BenchInv ==
    /\ BenchTypeOK
    /\ Round!RcuInv
    /\ Round!TableInv
    /\ Inv
    /\ StartsOnce
    /\ JoinsAll
    /\ OneTable
    /\ QuietWithoutTable
    /\ SlotsAreGivenBack
    /\ WriterCounts
    /\ ReportsExactly

-----------------------------------------------------------------------------
\* What Rcu and RcuTable assume of their constants holds of the benchmark's.
LEMMA RoundAssumptions ==
    /\ Readers \cap Updaters = {} /\ Nobody \notin Updaters
    /\ MaxReaders \in Nat /\ Nobody \notin 0 .. MaxReaders - 1
    /\ HalfWord \in Nat \ {0}
    /\ SectionBound \in Nat /\ SlotReuse \in BOOLEAN
    /\ Nobody \notin Addrs /\ Addrs # {}
    /\ Nobody \notin Nat
    /\ MaxUpdates \in Nat
BY WorkerAssumption, TableAssumption, NobodyAssumption, BoundAssumption

\* The library's invariant is kept by a step of the table of the round.
LEMMA RoundStep ==
    ASSUME Round!RcuInv, Round!TableInv, [Round!Next]_(Round!vars)
    PROVE  Round!RcuInv' /\ Round!TableInv'
BY RoundAssumptions, Round!RcuNextInv, Round!TableNextInv,
   Round!TableStepIsRcuStep

LEMMA RoundInit == Round!Init => Round!RcuInv /\ Round!TableInv
BY RoundAssumptions, Round!RcuInitInv, Round!TableInitInv DEF Round!Init

(***************************************************************************)
(* A step of the RCU table is a step of the table of the round.            *)
(***************************************************************************)
LEMMA LookupIsRounds ==
    ASSUME UNCHANGED base, NEW r \in Readers
    PROVE  /\ Rt!LookupLock(r) => Round!LookupLock(r)
           /\ Rt!LookupDeref(r) => Round!LookupDeref(r)
           /\ Rt!LookupVal(r) => Round!LookupVal(r)
           /\ Rt!LookupConsistent(r) => Round!LookupConsistent(r)
           /\ Rt!LookupUnlock(r) => Round!LookupUnlock(r)
<1> USE DEF Rt!At, Round!At, Rt!rcuVars, Round!rcuVars, Rt!readerVars,
            Round!readerVars, Rt!syncVars, Round!syncVars, Rt!memVars,
            Round!memVars, Rt!sharedVars, Round!sharedVars, Rt!updaterVars,
            Round!updaterVars
<1>1. Rt!LookupLock(r) => Round!LookupLock(r)
  BY DEF Rt!LookupLock, Round!LookupLock, Rt!ReadLock, Round!ReadLock,
         Rt!Inc, Round!Inc, Rt!WordMod, Round!WordMod
<1>2. Rt!LookupDeref(r) => Round!LookupDeref(r)
  BY DEF Rt!LookupDeref, Round!LookupDeref
<1>3. Rt!LookupVal(r) => Round!LookupVal(r)
  BY DEF Rt!LookupVal, Round!LookupVal
<1>4. Rt!LookupConsistent(r) => Round!LookupConsistent(r)
  BY DEF Rt!LookupConsistent, Round!LookupConsistent
<1>5. Rt!LookupUnlock(r) => Round!LookupUnlock(r)
  BY DEF Rt!LookupUnlock, Round!LookupUnlock, Rt!ReadUnlock,
         Round!ReadUnlock, Rt!Inc, Round!Inc, Rt!WordMod, Round!WordMod
<1> QED
  BY <1>1, <1>2, <1>3, <1>4, <1>5

LEMMA RegistryIsRounds ==
    ASSUME UNCHANGED base, UNCHANGED versionVars, NEW r \in Readers
    PROVE  /\ Rt!Register(r) => Round!OutsideLookup(r)
           /\ Rt!Unregister(r) => Round!OutsideLookup(r)
           /\ Rt!CountRead(r) => Round!OutsideLookup(r)
<1> USE DEF Rt!syncVars, Round!syncVars, Rt!Inc, Round!Inc, Rt!WordMod,
            Round!WordMod
<1>1. UNCHANGED Round!versionVars
  BY DEF versionVars, Round!versionVars, Round!memVars, Round!sharedVars,
         Round!updaterVars, Round!lookupVars
<1>2. Rt!Register(r) => Round!Register(r)
  BY DEF Rt!Register, Round!Register, Rt!MayRegister, Round!MayRegister,
         Rt!Slots, Round!Slots, Rt!Claim, Round!Claim
<1>3. Rt!Unregister(r) => Round!Unregister(r)
  BY DEF Rt!Unregister, Round!Unregister
<1>4. Rt!CountRead(r) => Round!CountRead(r)
  BY DEF Rt!CountRead, Round!CountRead
<1> QED
  BY <1>1, <1>2, <1>3, <1>4 DEF Round!OutsideLookup

\* Both instances count with the same Cardinality.
LEMMA SameCardinality ==
    ASSUME NEW S
    PROVE  Rt!Cardinality(S) = Cardinality(S) /\ Round!Cardinality(S) = Cardinality(S)
BY DEF Rt!Cardinality, Round!Cardinality, Cardinality

LEMMA UpdateIsRounds ==
    ASSUME freed \in Nat, base \in Nat, UNCHANGED base, NEW u \in Updaters
    PROVE  Rt!UpdateSteps(u) => Round!UpdateSteps(u)
<1> USE DEF Rt!Go, Round!Go, Rt!rcuVars, Round!rcuVars, Rt!readerVars,
            Round!readerVars, Rt!syncVars, Round!syncVars, Rt!memVars,
            Round!memVars, Rt!sharedVars, Round!sharedVars, Rt!updaterVars,
            Round!updaterVars, Rt!lookupVars, Round!lookupVars
<1>1. Rt!UpdateMalloc(u) => Round!UpdateMalloc(u)
  <2>1. Rt!Updating = Round!Updating /\ Rt!Updating \subseteq {N}
    BY WorkerAssumption DEF Rt!Updating, Round!Updating
  <2>2. Cardinality(Rt!Updating) \in Nat
    BY <2>1, FS_Singleton, FS_Subset, FS_CardinalityType
  <2>3. /\ Rt!Cardinality(Rt!Updating) = Cardinality(Rt!Updating)
        /\ Round!Cardinality(Round!Updating) = Cardinality(Rt!Updating)
    BY <2>1, SameCardinality
  <2>4. \A c \in Nat : freed + c < MaxUpdates => freed - base + c < MaxUpdates
    BY BoundAssumption
  <2>5. freed + Rt!Cardinality(Rt!Updating) < MaxUpdates
          => freed - base + Round!Cardinality(Round!Updating) < MaxUpdates
    BY ONLY <2>2, <2>3, <2>4
  <2> QED
    BY <2>5 DEF Rt!UpdateMalloc, Round!UpdateMalloc
<1>2. Rt!UpdateLock(u) => Round!UpdateLock(u)
  BY DEF Rt!UpdateLock, Round!UpdateLock
<1>3. /\ Rt!FillGen(u) => Round!FillGen(u)
      /\ Rt!FillVal(u) => Round!FillVal(u)
  BY DEF Rt!FillGen, Round!FillGen, Rt!FillVal, Round!FillVal
<1>4. /\ Rt!Publish(u) => Round!Publish(u)
      /\ Rt!SetLatest(u) => Round!SetLatest(u)
  BY DEF Rt!Publish, Round!Publish, Rt!SetLatest, Round!SetLatest
<1>5. Rt!UpdateSync(u) => Round!UpdateSync(u)
  BY DEF Rt!UpdateSync, Round!UpdateSync, Rt!SyncCall, Round!SyncCall,
         Rt!Inside, Round!Inside
<1>6. Rt!InSync(u) => Round!InSync(u)
  <2>1. Rt!SyncStep(u) => Round!SyncStep(u)
    BY DEF Rt!SyncStep, Round!SyncStep, Rt!SyncLock, Round!SyncLock,
           Rt!SyncScan, Round!SyncScan, Rt!SyncUnlock, Round!SyncUnlock,
           Rt!SyncNext, Round!SyncNext, Rt!SyncPoll, Round!SyncPoll,
           Rt!SyncReturn, Round!SyncReturn, Rt!NoEntries, Round!NoEntries,
           Rt!Slots, Round!Slots, Rt!Odd, Round!Odd, Rt!Inside, Round!Inside,
           Rt!Inc, Round!Inc, Rt!WordMod, Round!WordMod, Rt!StillWaiting,
           Round!StillWaiting
  <2> QED
    BY <2>1 DEF Rt!InSync, Round!InSync, Rt!versionVars, Round!versionVars
<1>7. Rt!Free(u) => Round!Free(u)
  BY DEF Rt!Free, Round!Free, Rt!SyncDone, Round!SyncDone, Rt!Garbage,
         Round!Garbage
<1>8. Rt!CountFreed(u) => Round!CountFreed(u)
  BY DEF Rt!CountFreed, Round!CountFreed
<1>9. Rt!UpdateUnlock(u) => Round!UpdateUnlock(u)
  BY DEF Rt!UpdateUnlock, Round!UpdateUnlock
<1> QED
  BY <1>1, <1>2, <1>3, <1>4, <1>5, <1>6, <1>7, <1>8, <1>9
     DEF Rt!UpdateSteps, Round!UpdateSteps

LEMMA DestroyIsRounds ==
    ASSUME UNCHANGED base, Rt!Destroy
    PROVE  Round!Destroy
BY DEF Rt!Destroy, Round!Destroy, Rt!Updating, Round!Updating, Rt!Inside,
       Round!Inside, Rt!Garbage, Round!Garbage, Rt!rcuVars, Round!rcuVars,
       Rt!readerVars, Round!readerVars, Rt!syncVars, Round!syncVars,
       Rt!updaterVars, Round!updaterVars, Rt!lookupVars, Round!lookupVars

\* Where the RCU table is left alone, that of the round is.
LEMMA RtStutters ==
    ASSUME UNCHANGED rtVars, UNCHANGED base
    PROVE  UNCHANGED Round!vars
BY DEF rtVars, rcuVars, versionVars, Round!vars, Round!rcuVars,
       Round!readerVars, Round!syncVars, Round!versionVars, Round!memVars,
       Round!sharedVars, Round!updaterVars, Round!lookupVars

(***************************************************************************)
(* A step of the benchmark is a step of each table or leaves it alone,     *)
(* unless it sets a table up.                                              *)
(***************************************************************************)
TablesStep == [Round!Next]_(Round!vars) /\ [Next]_vars /\ UNCHANGED base

LEMMA MainMovesTables ==
    ASSUME MainStep
    PROVE  TablesStep \/ InitTable
<1>1. CASE InitFails \/ Create \/ OpenGate \/ Join
  BY <1>1, RtStutters
     DEF InitFails, Create, OpenGate, Join, TablesStep
<1>2. CASE DestroyTable
  <2>1. UNCHANGED base
    BY <1>2 DEF DestroyTable
  <2>2. CASE Rt!Destroy /\ UNCHANGED vars
    BY <2>1, <2>2, DestroyIsRounds DEF TablesStep, Round!Next
  <2>3. CASE Destroy /\ UNCHANGED rtVars
    BY <2>1, <2>3, RtStutters DEF TablesStep, Next
  <2> QED
    BY <1>2, <2>2, <2>3 DEF DestroyTable
<1> QED
  BY <1>1, <1>2 DEF MainStep

LEMMA ReaderMovesTables ==
    ASSUME NEW r \in Readers, ReaderGoesOn(r)
    PROVE  TablesStep
<1>1. UNCHANGED base
  BY DEF ReaderGoesOn, RegisterReader, GateWait, ReaderWork, ReaderReturn,
         mainVars
<1>2. CASE RegisterReader(r) \/ GateWait(r) \/ ReaderReturn(r)
  <2>1. UNCHANGED vars
    BY <1>2 DEF RegisterReader, GateWait, ReaderReturn
  <2>2. \/ UNCHANGED rtVars
        \/ (Rt!Register(r) \/ Rt!Unregister(r)) /\ UNCHANGED versionVars
    BY <1>2 DEF RegisterReader, GateWait, ReaderReturn
  <2> QED
    BY <1>1, <2>1, <2>2, RtStutters, RegistryIsRounds
       DEF TablesStep, Round!Next
<1>3. CASE RtLookup(r)
  <2>1. UNCHANGED vars
    BY <1>3 DEF RtLookup
  <2>2. \/ Rt!LookupLock(r) \/ Rt!LookupDeref(r) \/ Rt!LookupVal(r)
        \/ Rt!LookupConsistent(r) \/ Rt!LookupUnlock(r)
        \/ Rt!CountRead(r) /\ UNCHANGED versionVars
    BY <1>3 DEF RtLookup
  <2>3. Round!LookupSteps(r) \/ Round!OutsideLookup(r)
    BY <1>1, <2>2, LookupIsRounds, RegistryIsRounds DEF Round!LookupSteps
  <2> QED
    BY <1>1, <2>1, <2>3 DEF TablesStep, Round!Next
<1>4. CASE RwLookup(r)
  <2>1. UNCHANGED rtVars /\ LookupSteps(r)
    BY <1>4 DEF RwLookup, LookupSteps
  <2> QED
    BY <1>1, <2>1, RtStutters DEF TablesStep, Next
<1> QED
  BY <1>2, <1>3, <1>4 DEF ReaderGoesOn, ReaderWork

LEMMA WriterMovesTables ==
    ASSUME freed \in Nat, base \in Nat, NEW u \in Updaters, WriterGoesOn(u)
    PROVE  TablesStep
<1>1. UNCHANGED base
  BY DEF WriterGoesOn, GateWait, WriterWork, WriterReturn, mainVars
<1>2. CASE GateWait(u) \/ WriterReturn(u) \/ RtUpdateFails(u)
  <2>1. UNCHANGED vars /\ UNCHANGED rtVars
    BY <1>2 DEF GateWait, WriterReturn, RtUpdateFails
  <2> QED
    BY <1>1, <2>1, RtStutters DEF TablesStep
<1>3. CASE RtUpdate(u)
  <2>1. UNCHANGED vars
    BY <1>3 DEF RtUpdate
  <2>2. Rt!UpdateSteps(u)
    BY <1>3 DEF RtUpdate, Rt!UpdateSteps
  <2> QED
    BY <1>1, <2>1, <2>2, UpdateIsRounds DEF TablesStep, Round!Next
<1>4. CASE RwUpdate(u)
  <2>1. UNCHANGED rtVars /\ UpdateSteps(u)
    BY <1>4 DEF RwUpdate, UpdateSteps
  <2> QED
    BY <1>1, <2>1, RtStutters DEF TablesStep, Next
<1> QED
  BY <1>2, <1>3, <1>4 DEF WriterGoesOn, WriterWork

LEMMA TablesMove ==
    ASSUME freed \in Nat, base \in Nat, [BenchNext]_allVars
    PROVE  TablesStep \/ InitTable
<1>1. ASSUME NEW t \in Workers, WakeSpuriously(t)
      PROVE  TablesStep
  BY <1>1, RtStutters DEF WakeSpuriously, TablesStep, mainVars
<1>2. CASE UNCHANGED allVars
  BY <1>2, RtStutters DEF allVars, benchVars, mainVars, TablesStep
<1> QED
  BY <1>1, <1>2, MainMovesTables, ReaderMovesTables, WriterMovesTables
     DEF BenchNext, Ended

\* rt_init, where no table is and whatever the addresses held before.
LEMMA RtInitInv ==
    ASSUME Round!RcuInv, Round!TableInv, ~ralive, RtInit, BeginRound,
           freed \in Nat
    PROVE  Round!RcuInv' /\ Round!TableInv'
<1> USE DEF RtInit, BeginRound, rcuVars
<1>1. Round!RcuInv'
  <2>1. UNCHANGED Round!rcuVars
    BY DEF Round!rcuVars, Round!readerVars, Round!syncVars
  <2> QED
    BY <2>1, RoundAssumptions, Round!RcuNextInv
<1>2. PICK v \in Addrs \ allocated :
          /\ allocated' = allocated \cup {v}
          /\ rgen' = [rgen EXCEPT ![v] = 0]
          /\ rval' = [rval EXCEPT ![v] = 0]
          /\ cur' = v /\ latest' = v
  OBVIOUS
<1>3. /\ \A u \in Updaters : tpc[u] = "idle"
      /\ \A r \in Readers : rlpc[r] = "none"
  BY DEF Round!TableInv, Round!DestroyedIsQuiet
<1>4. (freed - base)' = 0
  OBVIOUS
<1>5. Round!TableTypeOK'
  BY <1>2, <1>4 DEF Round!TableInv, Round!TableTypeOK, Round!Content
<1>6. Round!PCsAgree'
  BY DEF Round!TableInv, Round!PCsAgree, Round!Inside
<1>7. Round!DestroyedIsQuiet' /\ Round!HeldIsSafe' /\ Round!ReadIsWhole'
  BY <1>3 DEF Round!DestroyedIsQuiet, Round!HeldIsSafe, Round!ReadIsWhole
<1>8. Round!UpdaterInv'
  <2> USE DEF Round!TableInv, Round!TableTypeOK, Round!UpdaterInv
  <2>1. Round!HolderHasMutex'
    BY DEF Round!HolderHasMutex, Round!Holds
  <2>2. allocated = {}
    BY <1>3 DEF Round!AllocatedExactly, Round!OldUnreachable
  <2>3. Round!AllocatedExactly'
    BY <1>2, <1>3, <2>2 DEF Round!AllocatedExactly, Round!OldUnreachable
  <2>4. Round!NewIsOwn'
    BY <1>3 DEF Round!NewIsOwn, Round!BeforePublish
  <2>5. Round!CurIsWhole' /\ Round!NoHolder'
    BY <1>2, <1>4 DEF Round!CurIsWhole, Round!NoHolder
  <2>6. Round!HolderProgress'
    BY <1>3
       DEF Round!HolderProgress, Round!BeforePublish, Round!OldUnreachable,
           Round!Holds
  <2> QED
    BY <2>1, <2>3, <2>4, <2>5, <2>6
<1> QED
  BY <1>1, <1>5, <1>6, <1>7, <1>8 DEF Round!TableInv

\* A round of the rwlock table begins: only the base of the count moves.
LEMMA RwInitInv ==
    ASSUME Round!RcuInv, Round!TableInv, ~ralive, RwInit, BeginRound,
           freed \in Nat
    PROVE  Round!RcuInv' /\ Round!TableInv'
<1> USE DEF RwInit, BeginRound, rtVars, rcuVars, versionVars
<1>1. Round!RcuInv'
  <2>1. UNCHANGED Round!rcuVars
    BY DEF Round!rcuVars, Round!readerVars, Round!syncVars
  <2> QED
    BY <2>1, RoundAssumptions, Round!RcuNextInv
<1>2. /\ \A u \in Updaters : tpc[u] = "idle"
      /\ \A r \in Readers : rlpc[r] = "none"
  BY DEF Round!TableInv, Round!DestroyedIsQuiet
<1>3. (freed - base)' = 0
  OBVIOUS
<1>4. Round!TableTypeOK'
  BY <1>3 DEF Round!TableInv, Round!TableTypeOK
<1>5. /\ Round!PCsAgree' /\ Round!DestroyedIsQuiet'
      /\ Round!HeldIsSafe' /\ Round!ReadIsWhole'
  BY <1>2 DEF Round!TableInv, Round!PCsAgree, Round!Inside,
              Round!DestroyedIsQuiet, Round!HeldIsSafe, Round!ReadIsWhole
<1>6. Round!UpdaterInv'
  BY <1>2 DEF Round!TableInv, Round!UpdaterInv, Round!HolderHasMutex,
              Round!AllocatedExactly, Round!NewIsOwn, Round!CurIsWhole,
              Round!NoHolder, Round!HolderProgress, Round!BeforePublish,
              Round!OldUnreachable, Round!Holds
<1> QED
  BY <1>1, <1>4, <1>5, <1>6 DEF Round!TableInv

\* The rwlock table's invariant when rw_init sets it up, and when rt_init
\* leaves it alone.
LEMMA InitTableKeepsRw ==
    ASSUME Inv, OneTable, QuietWithoutTable, mpc = "init", InitTable
    PROVE  Inv'
<1>1. CASE RtInit
  BY <1>1, OtherInv DEF RtInit
<1>2. CASE RwInit
  <2>1. /\ \A r \in Readers : lpc[r] = "none"
        /\ \A u \in Updaters : upc[u] = "none"
    BY DEF OneTable, QuietWithoutTable, InRound
  <2> QED
    BY <1>2, <2>1
       DEF RwInit, lockVars, lookupVars, Inv, TypeOK, LockAgrees, ReadsUnder,
           WritesUnder, WholeUnlessFilling, ReadIsWhole
<1> QED
  BY <1>1, <1>2 DEF InitTable

\* Every step of the benchmark keeps the invariants of both tables.
LEMMA TablesKept ==
    ASSUME BenchInv, [BenchNext]_allVars
    PROVE  Round!RcuInv' /\ Round!TableInv' /\ Inv'
<1>1. freed \in Nat /\ base \in Nat
  BY DEF BenchInv, BenchTypeOK
<1>2. CASE TablesStep
  <2>1. Round!RcuInv' /\ Round!TableInv'
    BY <1>2, RoundStep DEF TablesStep, BenchInv
  <2>2. Inv'
    BY <1>2, LookupInv, UpdateInv, OtherInv DEF TablesStep, BenchInv, Next
  <2> QED
    BY <2>1, <2>2
<1>3. CASE InitTable
  <2>1. ~ralive
    BY <1>3 DEF BenchInv, OneTable, InRound, InitTable
  <2>2. Round!RcuInv' /\ Round!TableInv'
    BY <1>1, <1>3, <2>1, RtInitInv, RwInitInv DEF BenchInv, InitTable
  <2>3. Inv'
    BY <1>3, InitTableKeepsRw DEF BenchInv, InitTable
  <2> QED
    BY <2>2, <2>3
<1> QED
  BY <1>1, <1>2, <1>3, TablesMove

(***************************************************************************)
(* What is the benchmark's own.                                            *)
(***************************************************************************)
\* Only an update counts a freed version, one at a time.
LEMMA FreedGrows ==
    ASSUME BenchNext, freed \in Nat
    PROVE  freed' \in Nat
<1> USE DEF rtVars, versionVars
<1>1. CASE MainStep
  BY <1>1 DEF MainStep, InitTable, RtInit, RwInit, InitFails, Create,
              OpenGate, Join, DestroyTable, Rt!Destroy
<1>2. ASSUME NEW r \in Readers, ReaderGoesOn(r)
      PROVE  freed' \in Nat
  BY <1>2 DEF ReaderGoesOn, RegisterReader, GateWait, ReaderWork,
              ReaderReturn, RtLookup, RwLookup, Rt!LookupLock,
              Rt!LookupDeref, Rt!LookupVal, Rt!LookupConsistent,
              Rt!LookupUnlock, Rt!sharedVars
<1>3. ASSUME NEW u \in Updaters, WriterGoesOn(u)
      PROVE  freed' \in Nat
  <2>1. CASE RtUpdate(u)
    BY <2>1 DEF RtUpdate, Rt!UpdateMalloc, Rt!UpdateLock, Rt!FillGen,
                Rt!FillVal, Rt!Publish, Rt!SetLatest, Rt!UpdateSync,
                Rt!InSync, Rt!Free, Rt!CountFreed, Rt!UpdateUnlock,
                Rt!sharedVars, Rt!versionVars
  <2> QED
    BY <1>3, <2>1 DEF WriterGoesOn, GateWait, WriterWork, WriterReturn,
                      RtUpdateFails, RwUpdate
<1>4. ASSUME NEW t \in Workers, WakeSpuriously(t)
      PROVE  freed' \in Nat
  BY <1>4 DEF WakeSpuriously
<1>5. CASE Ended
  BY <1>5 DEF Ended, allVars
<1> QED
  BY <1>1, <1>2, <1>3, <1>4, <1>5 DEF BenchNext

\* The threads are numbered from 0, the writer last.
LEMMA Numbers ==
    /\ N \in Nat /\ Workers = 0 .. N /\ N \in Workers
    /\ Readers \subseteq Workers /\ Updaters = {N} /\ N \notin Readers
    /\ Len(Rounds) \in Nat \ {0}
    /\ \A k \in 1 .. Len(Rounds) : Rounds[k] \in BOOLEAN
BY WorkerAssumption, RoundAssumption DEF Workers

LEMMA MainTypes ==
    ASSUME BenchTypeOK, MainStep
    PROVE  BenchTypeOK'
<1> USE DEF BenchTypeOK, MainPCs, WorkerPCs
<1>1. freed' \in Nat
  BY FreedGrows DEF BenchNext
<1>2. CASE InitTable
  <2>1. round' \in 1 .. Len(Rounds)
    BY <1>2, Numbers DEF InitTable, BeginRound
  <2>2. mpc' = "create" /\ i' = 0 /\ base' = freed /\ failures' = 0 /\ late' = FALSE
    BY <1>2 DEF InitTable, BeginRound
  <2>3. /\ th' \in [Workers -> WorkerPCs]
        /\ done' \in [Workers -> Nat]
    BY <1>2 DEF InitTable, BeginRound
  <2>4. 0 \in Workers
    BY Numbers
  <2> QED
    BY <1>1, <2>1, <2>2, <2>3, <2>4
<1>3. CASE InitFails
  BY <1>1, <1>3 DEF InitFails, MainAt, workerVars
<1>4. CASE Create
  BY <1>1, <1>4, Numbers DEF Create, MainAt
<1>5. CASE OpenGate
  BY <1>1, <1>5 DEF OpenGate, MainAt
<1>6. CASE Join
  BY <1>1, <1>6, Numbers DEF Join, MainAt, workerVars
<1>7. CASE DestroyTable
  BY <1>1, <1>7, Numbers DEF DestroyTable, MainAt, workerVars
<1> QED
  BY <1>2, <1>3, <1>4, <1>5, <1>6, <1>7 DEF MainStep

\* A worker's step moves that worker, and its counters.
WorkerMoves(t) ==
    /\ UNCHANGED mainVars /\ UNCHANGED go
    /\ th[t] \notin {"none", "exited"}
    /\ \E there \in WorkerPCs : th' = [th EXCEPT ![t] = there]
    /\ \/ UNCHANGED done
       \/ th[t] = "work" /\ done' = [done EXCEPT ![t] = @ + 1]

LEMMA WorkersMove ==
    ASSUME BenchTypeOK, BenchNext
    PROVE  \/ MainStep
           \/ \E t \in Workers : WorkerMoves(t)
           \/ UNCHANGED allVars
<1>1. ASSUME NEW t \in Workers, GateWait(t) \/ WakeSpuriously(t)
      PROVE  WorkerMoves(t)
  <2>1. \E there \in WorkerPCs : th' = [th EXCEPT ![t] = there]
    BY <1>1 DEF GateWait, WakeSpuriously, WorkerAt, WorkerPCs
  <2> QED
    BY <1>1, <2>1 DEF GateWait, WakeSpuriously, WorkerAt, WorkerMoves
<1>2. ASSUME NEW t \in Workers, th[t] = "work", UNCHANGED th
      PROVE  \E there \in WorkerPCs : th' = [th EXCEPT ![t] = there]
  BY <1>2 DEF BenchTypeOK
<1>3. ASSUME NEW r \in Readers, ReaderGoesOn(r)
      PROVE  WorkerMoves(r)
  <2>1. r \in Workers
    BY Numbers
  <2>2. CASE ReaderWork(r)
    BY <1>2, <2>1, <2>2
       DEF ReaderWork, RtLookup, RwLookup, CountLookup, CountOne, WorkerMoves
  <2>3. CASE RegisterReader(r) \/ ReaderReturn(r)
    <3>1. \E there \in WorkerPCs : th' = [th EXCEPT ![r] = there]
      BY <2>3 DEF RegisterReader, ReaderReturn, WorkerAt, WorkerPCs
    <3> QED
      BY <2>3, <3>1 DEF RegisterReader, ReaderReturn, WorkerAt, WorkerMoves
  <2> QED
    BY <1>1, <1>3, <2>1, <2>2, <2>3 DEF ReaderGoesOn
<1>4. ASSUME NEW u \in Updaters, WriterGoesOn(u)
      PROVE  WorkerMoves(u)
  <2>1. u \in Workers
    BY Numbers
  <2>2. CASE WriterWork(u)
    BY <1>2, <2>1, <2>2
       DEF WriterWork, RtUpdate, RtUpdateFails, RwUpdate, CountOne,
           WorkerMoves
  <2>3. CASE WriterReturn(u)
    <3>1. \E there \in WorkerPCs : th' = [th EXCEPT ![u] = there]
      BY <2>3 DEF WriterReturn, WorkerAt, WorkerPCs
    <3> QED
      BY <2>3, <3>1 DEF WriterReturn, WorkerAt, WorkerMoves
  <2> QED
    BY <1>1, <1>4, <2>1, <2>2, <2>3 DEF WriterGoesOn
<1> QED
  BY <1>1, <1>3, <1>4, Numbers DEF BenchNext, Ended

\* The two histories are what they should be after a worker's step.
LEMMA HistoriesTyped ==
    ASSUME BenchTypeOK, BenchNext
    PROVE  failures' \in Nat /\ late' \in BOOLEAN
<1> USE DEF BenchTypeOK
<1>1. CASE MainStep
  BY <1>1, MainTypes
<1>2. ASSUME NEW t \in Workers, GateWait(t) \/ WakeSpuriously(t)
      PROVE  failures' \in Nat /\ late' \in BOOLEAN
  BY <1>2 DEF GateWait, WakeSpuriously
<1>3. ASSUME NEW r \in Readers, RegisterReader(r) \/ ReaderWork(r) \/ ReaderReturn(r)
      PROVE  failures' \in Nat /\ late' \in BOOLEAN
  BY <1>3 DEF RegisterReader, ReaderWork, ReaderReturn
<1>4. ASSUME NEW u \in Updaters, WriterWork(u) \/ WriterReturn(u)
      PROVE  failures' \in Nat /\ late' \in BOOLEAN
  BY <1>4 DEF WriterWork, WriterReturn, RtUpdate, RtUpdateFails, RwUpdate
<1>5. CASE Ended
  BY <1>5 DEF Ended, allVars, benchVars, workerVars
<1> QED
  BY <1>1, <1>2, <1>3, <1>4, <1>5, Numbers
     DEF BenchNext, ReaderGoesOn, WriterGoesOn

LEMMA TypesKept ==
    ASSUME BenchTypeOK, BenchNext
    PROVE  BenchTypeOK'
<1>1. freed' \in Nat /\ failures' \in Nat /\ late' \in BOOLEAN
  BY FreedGrows, HistoriesTyped DEF BenchTypeOK
<1>2. ASSUME NEW t \in Workers, WorkerMoves(t)
      PROVE  BenchTypeOK'
  BY <1>1, <1>2 DEF BenchTypeOK, WorkerMoves, mainVars
<1>3. CASE UNCHANGED allVars
  BY <1>3 DEF allVars, benchVars, mainVars, workerVars, rtVars, versionVars,
              BenchTypeOK
<1> QED
  BY <1>2, <1>3, MainTypes, WorkersMove

\* A worker is started once and main waits for all of them.
LEMMA StartsAndJoins ==
    ASSUME BenchTypeOK, StartsOnce, JoinsAll, BenchNext
    PROVE  StartsOnce' /\ JoinsAll'
<1> USE DEF StartsOnce, JoinsAll
<1>1. CASE InitTable
  BY <1>1 DEF InitTable, BeginRound
<1>2. CASE InitFails
  BY <1>2 DEF InitFails, MainAt
<1>3. CASE Create
  BY <1>3, Numbers DEF Create, MainAt, BenchTypeOK
<1>4. CASE OpenGate
  BY <1>4, Numbers DEF OpenGate, MainAt
<1>5. CASE Join
  BY <1>5, Numbers DEF Join, MainAt, workerVars, BenchTypeOK
<1>6. CASE DestroyTable
  BY <1>6, Numbers DEF DestroyTable, MainAt, workerVars
<1>7. ASSUME NEW t \in Workers, WorkerMoves(t)
      PROVE  StartsOnce' /\ JoinsAll'
  BY <1>7, Numbers DEF WorkerMoves, mainVars, BenchTypeOK
<1>8. CASE UNCHANGED allVars
  BY <1>8 DEF allVars, benchVars, mainVars, workerVars
<1> QED
  BY <1>1, <1>2, <1>3, <1>4, <1>5, <1>6, <1>7, <1>8, WorkersMove DEF MainStep

\* No worker sets a table up or destroys it.
LEMMA WorkersKeepTables ==
    /\ \A r \in Readers : ReaderGoesOn(r) => UNCHANGED <<ralive, alive>>
    /\ \A u \in Updaters : WriterGoesOn(u) => UNCHANGED <<ralive, alive>>
    /\ \A t \in Workers : WakeSpuriously(t) => UNCHANGED <<ralive, alive>>
<1> USE DEF vars, rtVars, versionVars
<1>1. ASSUME NEW t \in Workers, GateWait(t) \/ WakeSpuriously(t)
      PROVE  UNCHANGED <<ralive, alive>>
  BY <1>1 DEF GateWait, WakeSpuriously
<1>2. ASSUME NEW r \in Readers, RtLookup(r) \/ RwLookup(r)
      PROVE  UNCHANGED <<ralive, alive>>
  BY <1>2 DEF RtLookup, RwLookup, Rt!LookupLock, Rt!LookupDeref,
              Rt!LookupVal, Rt!LookupConsistent, Rt!LookupUnlock,
              Rt!sharedVars, LookupCall, LookupLock, LookupVal,
              LookupConsistent, LookupUnlock, LookupReturn
<1>3. ASSUME NEW u \in Updaters, RtUpdate(u) \/ RwUpdate(u)
      PROVE  UNCHANGED <<ralive, alive>>
  BY <1>3 DEF RtUpdate, RwUpdate, Rt!UpdateMalloc, Rt!UpdateLock, Rt!FillGen,
              Rt!FillVal, Rt!Publish, Rt!SetLatest, Rt!UpdateSync, Rt!InSync,
              Rt!Free, Rt!CountFreed, Rt!UpdateUnlock, Rt!sharedVars,
              Rt!versionVars, UpdateCall, UpdateLock, FillGen, FillVal,
              UpdateUnlock
<1>4. ASSUME NEW r \in Readers, RegisterReader(r) \/ ReaderReturn(r)
      PROVE  UNCHANGED <<ralive, alive>>
  BY <1>4 DEF RegisterReader, ReaderReturn
<1>5. ASSUME NEW u \in Updaters, RtUpdateFails(u) \/ WriterReturn(u)
      PROVE  UNCHANGED <<ralive, alive>>
  BY <1>5 DEF RtUpdateFails, WriterReturn
<1> QED
  BY <1>1, <1>2, <1>3, <1>4, <1>5, Numbers
     DEF ReaderGoesOn, WriterGoesOn, ReaderWork, WriterWork

\* Where the rwlock table is not there, nobody begins a call of it.
LEMMA NoCallWithoutTable ==
    ASSUME QuietWithoutTable, ~alive
    PROVE  /\ \A r \in Readers : ~LookupSteps(r)
           /\ \A u \in Updaters : ~UpdateSteps(u)
<1>1. /\ \A r \in Readers : lpc[r] = "none"
      /\ \A u \in Updaters : upc[u] = "none"
  BY DEF QuietWithoutTable
<1>2. \A r \in Readers : ~LookupSteps(r)
  BY <1>1 DEF LookupSteps, LookupCall, LookupLock, LookupVal,
              LookupConsistent, LookupUnlock, LookupReturn, At
<1>3. \A u \in Updaters : ~UpdateSteps(u)
  BY <1>1 DEF UpdateSteps, UpdateCall, UpdateLock, FillGen, FillVal,
              UpdateUnlock, Go
<1> QED
  BY <1>2, <1>3

LEMMA QuietKept ==
    ASSUME BenchTypeOK, QuietWithoutTable, BenchNext
    PROVE  QuietWithoutTable'
<1> SUFFICES ASSUME ~alive'
             PROVE  /\ \A r \in Readers : lpc'[r] = "none"
                    /\ \A u \in Updaters : upc'[u] = "none"
  BY DEF QuietWithoutTable
<1>1. CASE InitTable
  BY <1>1 DEF InitTable, RtInit, RwInit, vars, lookupVars, QuietWithoutTable
<1>2. CASE Destroy
  BY <1>2 DEF Destroy, lookupVars
<1>3. CASE UNCHANGED vars
  BY <1>3 DEF vars, lookupVars, QuietWithoutTable
<1>4. ASSUME NEW r \in Readers, LookupSteps(r)
      PROVE  FALSE
  <2>1. UNCHANGED alive
    BY <1>4 DEF LookupSteps, LookupCall, LookupLock, LookupVal,
                LookupConsistent, LookupUnlock, LookupReturn
  <2> QED
    BY <1>4, <2>1, NoCallWithoutTable
<1>5. ASSUME NEW u \in Updaters, UpdateSteps(u)
      PROVE  FALSE
  <2>1. UNCHANGED alive
    BY <1>5 DEF UpdateSteps, UpdateCall, UpdateLock, FillGen, FillVal,
                UpdateUnlock
  <2> QED
    BY <1>5, <2>1, NoCallWithoutTable
<1> QED
  BY <1>1, <1>2, <1>3, <1>4, <1>5, TablesMove
     DEF TablesStep, Next, BenchTypeOK

LEMMA OneTableKept ==
    ASSUME BenchTypeOK, OneTable, BenchNext
    PROVE  OneTable'
<1>1. CASE InitTable
  <2>1. mpc' = "create" /\ round' = round + 1
    BY <1>1 DEF InitTable, BeginRound
  <2>2. ~alive /\ ~ralive
    BY <1>1 DEF InitTable, OneTable, InRound
  <2> QED
    BY <1>1, <2>1, <2>2
       DEF InitTable, RtInit, RwInit, vars, rtVars, versionVars, Rcu, InRound,
           OneTable
<1>2. CASE InitFails \/ Create \/ OpenGate \/ Join
  <2>1. UNCHANGED <<ralive, alive, round>>
    BY <1>2 DEF InitFails, Create, OpenGate, Join, vars, rtVars, versionVars
  <2>2. InRound => InRound'
    BY <1>2 DEF InitFails, Create, OpenGate, Join, MainAt, InRound
  <2> QED
    BY <2>1, <2>2 DEF OneTable, Rcu
<1>3. CASE DestroyTable
  <2>1. UNCHANGED round
    BY <1>3 DEF DestroyTable
  <2>2. ~ralive' /\ ~alive'
    BY <1>3 DEF DestroyTable, Rt!Destroy, Destroy, vars, rtVars, versionVars,
                OneTable
  <2> QED
    BY <2>2 DEF OneTable
<1>4. ASSUME UNCHANGED <<ralive, alive, mpc, round>>
      PROVE  OneTable'
  BY <1>4 DEF OneTable, Rcu, InRound
<1>5. ASSUME NEW t \in Workers, WorkerMoves(t)
      PROVE  UNCHANGED <<mpc, round>>
  BY <1>5 DEF WorkerMoves, mainVars
<1>6. CASE UNCHANGED allVars
  BY <1>4, <1>6 DEF allVars, benchVars, mainVars, vars, rtVars, versionVars
<1>7. ASSUME ~MainStep PROVE OneTable'
  <2>1. UNCHANGED <<ralive, alive>> \/ UNCHANGED allVars
    BY <1>7, WorkersKeepTables DEF BenchNext, Ended
  <2>2. UNCHANGED <<mpc, round>> \/ UNCHANGED allVars
    BY <1>5, <1>7, WorkersMove
  <2> QED
    BY <1>4, <1>6, <2>1, <2>2
<1> QED
  BY <1>1, <1>2, <1>3, <1>7 DEF MainStep

\* Only rcu_register and rcu_unregister change who has which slot.
LEMMA SlotsMove ==
    ASSUME BenchNext
    PROVE  \/ UNCHANGED slot
           \/ \E r \in Readers : /\ RegisterReader(r) /\ Rcu
                                 /\ \E s : slot' = [slot EXCEPT ![r] = s]
           \/ \E r \in Readers : ReaderReturn(r)
<1> USE DEF rtVars, rcuVars
<1>1. CASE MainStep
  BY <1>1 DEF MainStep, InitTable, RtInit, RwInit, InitFails, Create,
              OpenGate, Join, DestroyTable, Rt!Destroy, Rt!rcuVars,
              Rt!readerVars
<1>2. ASSUME NEW r \in Readers, ReaderWork(r)
      PROVE  UNCHANGED slot
  BY <1>2 DEF ReaderWork, RtLookup, RwLookup, Rt!LookupLock, Rt!LookupDeref,
              Rt!LookupVal, Rt!LookupConsistent, Rt!LookupUnlock,
              Rt!ReadLock, Rt!ReadUnlock, Rt!CountRead, Rt!rcuVars,
              Rt!readerVars
<1>3. ASSUME NEW r \in Readers, RegisterReader(r)
      PROVE  \/ UNCHANGED slot
             \/ Rcu /\ \E s : slot' = [slot EXCEPT ![r] = s]
  BY <1>3 DEF RegisterReader, Rt!Register
<1>4. ASSUME NEW u \in Updaters, WriterGoesOn(u)
      PROVE  UNCHANGED slot
  <2>1. CASE RtUpdate(u)
    BY <2>1 DEF RtUpdate, Rt!UpdateMalloc, Rt!UpdateLock, Rt!FillGen,
                Rt!FillVal, Rt!Publish, Rt!SetLatest, Rt!UpdateSync,
                Rt!SyncCall, Rt!InSync, Rt!SyncStep, Rt!SyncLock, Rt!SyncScan,
                Rt!SyncUnlock, Rt!SyncNext, Rt!SyncPoll, Rt!SyncReturn,
                Rt!Free, Rt!SyncDone, Rt!CountFreed, Rt!UpdateUnlock,
                Rt!rcuVars, Rt!readerVars
  <2> QED
    BY <1>4, <2>1 DEF WriterGoesOn, GateWait, WriterWork, WriterReturn,
                      RtUpdateFails, RwUpdate
<1>5. ASSUME NEW t \in Workers, GateWait(t) \/ WakeSpuriously(t)
      PROVE  UNCHANGED slot
  BY <1>5 DEF GateWait, WakeSpuriously
<1>6. CASE Ended
  BY <1>6 DEF Ended, allVars
<1> QED
  BY <1>1, <1>2, <1>3, <1>4, <1>5, <1>6, Numbers DEF BenchNext, ReaderGoesOn

\* How the places of readers change: into the loop only from the gate.
LEMMA SlotsKept ==
    ASSUME BenchTypeOK, Round!RcuInv, StartsOnce, JoinsAll,
           SlotsAreGivenBack, BenchNext
    PROVE  SlotsAreGivenBack'
<1> SUFFICES ASSUME NEW r \in Readers,
                    th'[r] \in {"none", "register", "exited"} \/ ~Rcu'
             PROVE  slot'[r] = Nobody
  BY DEF SlotsAreGivenBack
<1>1. /\ th \in [Workers -> WorkerPCs] /\ r \in Workers
      /\ slot \in [Readers -> Round!Slots \cup {Nobody}]
  BY Numbers DEF BenchTypeOK, Round!RcuInv, Round!RcuTypeOK
<1>2. th[r] \in {"none", "register", "exited"} \/ ~Rcu => slot[r] = Nobody
  BY DEF SlotsAreGivenBack
<1>3. CASE InitTable
  BY <1>1, <1>2, <1>3 DEF InitTable, RtInit, RwInit, rtVars, rcuVars, JoinsAll
<1>4. CASE Create
  <2>1. UNCHANGED slot /\ UNCHANGED round /\ th' = [th EXCEPT ![i] = IF i = N THEN "gate" ELSE "register"]
    BY <1>4 DEF Create, rtVars, rcuVars
  <2>2. CASE r = i
    BY <1>2, <1>4, <2>1, <2>2, Numbers DEF Create, MainAt, StartsOnce
  <2> QED
    BY <1>1, <1>2, <2>1, <2>2 DEF Rcu
<1>5. CASE InitFails \/ Join \/ DestroyTable \/ UNCHANGED allVars
  <2>1. UNCHANGED <<slot, th, round>>
    BY <1>5 DEF InitFails, Join, DestroyTable, workerVars, allVars, benchVars,
                mainVars, rtVars, rcuVars, Rt!Destroy, Rt!rcuVars,
                Rt!readerVars
  <2> QED
    BY <1>2, <2>1 DEF Rcu
<1>6. CASE OpenGate
  BY <1>1, <1>2, <1>6 DEF OpenGate, rtVars, rcuVars, Rcu, Woken
<1>7. ASSUME NEW q \in Readers, RegisterReader(q)
      PROVE  slot'[r] = Nobody
  <2>1. UNCHANGED round /\ th[q] = "register" /\ th' = [th EXCEPT ![q] = "gate"]
    BY <1>7 DEF RegisterReader, WorkerAt, mainVars
  <2>2. CASE ~Rcu
    BY <1>2, <1>7, <2>2 DEF RegisterReader, rtVars, rcuVars
  <2>3. CASE Rcu
    <3>1. q # r
      BY <1>1, <2>1, <2>3 DEF Rcu
    <3>2. slot'[r] = slot[r]
      BY <1>1, <1>7, <2>3, <3>1 DEF RegisterReader, Rt!Register
    <3> QED
      BY <1>1, <1>2, <2>1, <3>1, <3>2 DEF Rcu
  <2> QED
    BY <2>2, <2>3
<1>8. ASSUME NEW q \in Readers, ReaderReturn(q)
      PROVE  slot'[r] = Nobody
  <2>1. UNCHANGED round /\ th[q] = "work" /\ th' = [th EXCEPT ![q] = "exited"]
    BY <1>8 DEF ReaderReturn, WorkerAt, mainVars
  <2>2. CASE ~Rcu
    BY <1>2, <1>8, <2>2 DEF ReaderReturn, rtVars, rcuVars
  <2>3. CASE Rcu
    <3>1. slot' = [slot EXCEPT ![q] = Nobody]
      BY <1>8, <2>3 DEF ReaderReturn, Rt!Unregister
    <3> QED
      BY <1>1, <1>2, <2>1, <2>3, <3>1 DEF Rcu
  <2> QED
    BY <2>2, <2>3
<1>9. ASSUME UNCHANGED slot, UNCHANGED round,
             th'[r] \in {th[r], "gate", "asleep", "work"}
      PROVE  slot'[r] = Nobody
  BY <1>2, <1>9 DEF Rcu
<1>10. ASSUME UNCHANGED slot, NEW t \in Workers, GateWait(t) \/ WakeSpuriously(t)
       PROVE  slot'[r] = Nobody
  BY <1>1, <1>9, <1>10 DEF GateWait, WakeSpuriously, WorkerAt, mainVars
<1>11. ASSUME UNCHANGED slot, NEW q \in Readers, ReaderWork(q)
       PROVE  slot'[r] = Nobody
  BY <1>9, <1>11 DEF ReaderWork, mainVars
<1>12. ASSUME UNCHANGED slot, NEW u \in Updaters, WriterWork(u) \/ WriterReturn(u)
       PROVE  slot'[r] = Nobody
  BY <1>1, <1>9, <1>12, Numbers
     DEF WriterWork, WriterReturn, WorkerAt, mainVars
<1>13. CASE UNCHANGED slot
  BY <1>3, <1>4, <1>5, <1>6, <1>7, <1>8, <1>10, <1>11, <1>12, <1>13, Numbers
     DEF BenchNext, MainStep, ReaderGoesOn, WriterGoesOn, Ended
<1> QED
  BY <1>7, <1>8, <1>13, SlotsMove

\* A reader leaves the writer and the count of freed versions alone.
LEMMA ReadersLeaveWriter ==
    ASSUME BenchTypeOK, NEW r \in Readers, ReaderGoesOn(r)
    PROVE  /\ UNCHANGED <<tpc, freed, failures, base, round>>
           /\ th'[N] = th[N] /\ done'[N] = done[N]
<1>1. r # N /\ r \in Workers /\ N \in Workers
  BY Numbers
<1>2. UNCHANGED <<base, round>>
  BY DEF ReaderGoesOn, RegisterReader, GateWait, ReaderWork, ReaderReturn,
         mainVars
<1>3. UNCHANGED <<tpc, freed, failures>>
  BY DEF ReaderGoesOn, RegisterReader, GateWait, ReaderWork, ReaderReturn,
         RtLookup, RwLookup, Rt!LookupLock, Rt!LookupDeref, Rt!LookupVal,
         Rt!LookupConsistent, Rt!LookupUnlock, Rt!sharedVars, Rt!updaterVars,
         rtVars, versionVars
<1>4. th'[N] = th[N] /\ done'[N] = done[N]
  BY <1>1 DEF ReaderGoesOn, RegisterReader, GateWait, ReaderWork,
              ReaderReturn, WorkerAt, RtLookup, RwLookup, CountLookup,
              CountOne, BenchTypeOK
<1> QED
  BY <1>2, <1>3, <1>4

\* The steps of the writer's loop count what they free.
LEMMA WriterWorkCounts ==
    ASSUME BenchTypeOK, Round!TableInv, WriterCounts, NEW u \in Updaters,
           WriterWork(u)
    PROVE  WriterCounts'
<1>1. /\ Updaters = {u} /\ u \in Workers /\ th[u] = "work" /\ done[u] \in Nat
      /\ done \in [Workers -> Nat] /\ tpc \in [Updaters -> Round!UpdatePCs]
  BY Numbers
     DEF BenchTypeOK, WriterWork, Round!TableInv, Round!TableTypeOK
<1>2. UNCHANGED <<th, base, round>>
  BY DEF WriterWork, mainVars
<1>3. freed \in Nat /\ base \in Nat /\ failures \in Nat
  BY DEF BenchTypeOK
<1>4. Rcu => freed - base + failures =
               done[u] + (IF tpc[u] = "unlock" THEN 1 ELSE 0)
  BY DEF WriterCounts
<1>5. SUFFICES /\ ~Rcu => tpc'[u] = "idle"
               /\ Rcu => freed' - base + failures' =
                           done'[u] + (IF tpc'[u] = "unlock" THEN 1 ELSE 0)
  BY <1>1, <1>2 DEF WriterCounts, Rcu
<1>6. CASE RwUpdate(u)
  BY <1>1, <1>6 DEF RwUpdate, rtVars, versionVars, WriterCounts
<1>7. CASE RtUpdateFails(u)
  BY <1>1, <1>3, <1>4, <1>7
     DEF RtUpdateFails, CountOne, rtVars, versionVars
<1>8. CASE RtUpdate(u)
  <2>1. CASE Rt!CountFreed(u) /\ UNCHANGED <<done, failures>>
    BY <1>1, <1>3, <1>4, <1>8, <2>1 DEF RtUpdate, Rt!CountFreed, Rt!Go
  <2>2. CASE Rt!UpdateUnlock(u) /\ CountOne(u) /\ UNCHANGED failures
    BY <1>1, <1>3, <1>4, <1>8, <2>2
       DEF RtUpdate, Rt!UpdateUnlock, Rt!Go, CountOne
  <2>3. CASE /\ \/ Rt!UpdateMalloc(u) \/ Rt!UpdateLock(u) \/ Rt!FillGen(u)
                \/ Rt!FillVal(u) \/ Rt!Publish(u) \/ Rt!SetLatest(u)
                \/ Rt!UpdateSync(u) \/ Rt!InSync(u) \/ Rt!Free(u)
             /\ UNCHANGED <<done, failures>>
    <3>1. UNCHANGED freed /\ tpc[u] # "unlock" /\ tpc'[u] # "unlock"
      BY <1>1, <2>3
         DEF Rt!UpdateMalloc, Rt!UpdateLock, Rt!FillGen, Rt!FillVal,
             Rt!Publish, Rt!SetLatest, Rt!UpdateSync, Rt!InSync, Rt!Free,
             Rt!Go, Rt!sharedVars, Rt!versionVars, Rt!updaterVars
    <3> QED
      BY <1>3, <1>4, <1>8, <2>3, <3>1 DEF RtUpdate
  <2> QED
    BY <1>8, <2>1, <2>2, <2>3 DEF RtUpdate
<1> QED
  BY <1>6, <1>7, <1>8 DEF WriterWork

LEMMA WriterKept ==
    ASSUME BenchTypeOK, Round!TableInv, StartsOnce, JoinsAll, WriterCounts,
           BenchNext
    PROVE  WriterCounts'
<1>1. /\ Updaters = {N} /\ N \in Workers
      /\ th \in [Workers -> WorkerPCs] /\ freed \in Nat
  BY Numbers DEF BenchTypeOK
<1>2. /\ th[N] # "work" \/ ~Rcu => tpc[N] = "idle"
      /\ th[N] = "exited" => done[N] = Updates
      /\ Rcu => freed - base + failures =
                  done[N] + (IF tpc[N] = "unlock" THEN 1 ELSE 0)
  BY <1>1 DEF WriterCounts
<1>3. ASSUME UNCHANGED <<tpc, freed, failures, base, round>>,
             done'[N] = done[N],
             \/ th'[N] = th[N]
             \/ th[N] # "work" /\ th'[N] # "exited"
             \/ done[N] = Updates /\ tpc[N] = "idle"
      PROVE  WriterCounts'
  BY <1>1, <1>2, <1>3 DEF WriterCounts, Rcu
<1>4. CASE InitTable
  <2>1. tpc[N] = "idle"
    BY <1>1, <1>2, <1>4 DEF InitTable, JoinsAll
  <2>2. /\ tpc' = tpc /\ freed' = freed /\ base' = freed /\ failures' = 0
        /\ th'[N] = "none" /\ done'[N] = 0
    BY <1>1, <1>4
       DEF InitTable, RtInit, RwInit, BeginRound, rtVars, versionVars
  <2> QED
    BY <1>1, <2>1, <2>2 DEF WriterCounts
<1>5. CASE InitFails \/ Create \/ OpenGate \/ Join \/ DestroyTable
  <2>1. /\ UNCHANGED <<tpc, freed, failures, base, round>>
        /\ done'[N] = done[N]
    BY <1>5 DEF InitFails, Create, OpenGate, Join, DestroyTable, workerVars,
                rtVars, versionVars, Rt!Destroy, Rt!updaterVars
  <2>2. th'[N] = th[N] \/ (th[N] # "work" /\ th'[N] # "exited")
    <3>1. CASE Create
      BY <1>1, <3>1, Numbers DEF Create, MainAt, StartsOnce, BenchTypeOK
    <3>2. CASE OpenGate
      BY <1>1, <3>2 DEF OpenGate, Woken
    <3> QED
      BY <1>5, <3>1, <3>2 DEF InitFails, Join, DestroyTable, workerVars
  <2> QED
    BY <1>3, <2>1, <2>2
<1>6. ASSUME NEW r \in Readers, ReaderGoesOn(r)
      PROVE  WriterCounts'
  BY <1>3, <1>6, ReadersLeaveWriter
<1>7. ASSUME NEW t \in Workers, GateWait(t) \/ WakeSpuriously(t)
      PROVE  WriterCounts'
  <2>1. /\ UNCHANGED <<tpc, freed, failures, base, round>>
        /\ done'[N] = done[N]
    BY <1>7 DEF GateWait, WakeSpuriously, rtVars, versionVars, mainVars
  <2>2. th'[N] = th[N] \/ (th[N] # "work" /\ th'[N] # "exited")
    <3>1. CASE t = N
      BY <1>1, <1>7, <3>1 DEF GateWait, WakeSpuriously, WorkerAt
    <3>2. CASE t # N
      BY <1>1, <1>7, <3>2 DEF GateWait, WakeSpuriously, WorkerAt
    <3> QED
      BY <3>1, <3>2
  <2> QED
    BY <1>3, <2>1, <2>2
<1>8. ASSUME NEW u \in Updaters, WriterReturn(u)
      PROVE  WriterCounts'
  BY <1>1, <1>3, <1>8
     DEF WriterReturn, WorkerAt, rtVars, versionVars, mainVars
<1>9. CASE UNCHANGED allVars
  BY <1>3, <1>9 DEF allVars, benchVars, mainVars, workerVars, rtVars,
                    versionVars
<1> QED
  BY <1>1, <1>4, <1>5, <1>6, <1>7, <1>8, <1>9, WriterWorkCounts
     DEF BenchNext, MainStep, WriterGoesOn, Ended

\* Once main has joined all workers none of them moves.
LEMMA JoinedIsStill ==
    ASSUME JoinsAll, mpc \in {"destroy", "init", "done"}, NEW t \in Workers
    PROVE  ~WorkerMoves(t)
BY DEF JoinsAll, WorkerMoves

\* No lookup reports a torn read.
LEMMA TornKept ==
    ASSUME BenchTypeOK, Round!TableInv, Inv, ReportsExactly, BenchNext
    PROVE  torn' = [r \in Readers |-> 0]
<1>1. torn = [r \in Readers |-> 0]
  BY DEF ReportsExactly
<1>2. CASE MainStep
  BY <1>1, <1>2
     DEF MainStep, InitTable, BeginRound, InitFails, Create, OpenGate, Join,
         DestroyTable, workerVars
<1>3. ASSUME NEW r \in Readers, ReaderWork(r)
      PROVE  UNCHANGED torn
  <2>1. Rt!LookupUnlock(r) => rok[r]
    BY DEF Rt!LookupUnlock, Rt!At, Round!TableInv, Round!ReadIsWhole
  <2>2. LookupReturn(r) => ok[r]
    BY DEF LookupReturn, At, Inv, ReadIsWhole
  <2> QED
    BY <1>3, <2>1, <2>2 DEF ReaderWork, RtLookup, RwLookup, CountLookup
<1>4. ASSUME NEW r \in Readers, RegisterReader(r) \/ ReaderReturn(r)
      PROVE  UNCHANGED torn
  BY <1>4 DEF RegisterReader, ReaderReturn
<1>5. ASSUME NEW u \in Updaters, WriterWork(u) \/ WriterReturn(u)
      PROVE  UNCHANGED torn
  BY <1>5 DEF WriterWork, WriterReturn
<1>6. ASSUME NEW t \in Workers, GateWait(t) \/ WakeSpuriously(t)
      PROVE  UNCHANGED torn
  BY <1>6 DEF GateWait, WakeSpuriously
<1>7. Ended => UNCHANGED torn
  BY DEF Ended, allVars, benchVars, workerVars
<1> QED
  BY <1>1, <1>2, <1>3, <1>4, <1>5, <1>6, <1>7, Numbers
     DEF BenchNext, ReaderGoesOn, WriterGoesOn

\* What run_once reports, at its end and after.
LEMMA ReportsKept ==
    ASSUME BenchTypeOK, Round!TableInv, Inv, StartsOnce, JoinsAll,
           WriterCounts, ReportsExactly, BenchNext
    PROVE  ReportsExactly'
<1>1. torn = [r \in Readers |-> 0] /\ tornReads = 0
  BY DEF ReportsExactly
<1>2. torn' = [r \in Readers |-> 0]
  BY TornKept
<1>3. ASSUME tornReads' = 0,
             mpc' \in {"init", "done"} =>
                freedVersions' = IF Rcu' THEN Updates - failures' ELSE 0
      PROVE  ReportsExactly'
  BY <1>2, <1>3 DEF ReportsExactly
<1>4. CASE InitTable \/ InitFails \/ Create \/ OpenGate
  BY <1>1, <1>3, <1>4
     DEF InitTable, BeginRound, InitFails, Create, OpenGate, MainAt
<1>5. CASE Join
  <2>1. i # N => i \in Readers
    BY WorkerAssumption DEF BenchTypeOK, Workers
  <2> QED
    BY <1>1, <1>3, <1>5, <2>1 DEF Join, MainAt
<1>6. CASE DestroyTable
  <2>1. N \in Updaters /\ N \in Workers
    BY Numbers
  <2>2. th[N] = "exited"
    BY <1>6, <2>1 DEF DestroyTable, MainAt, JoinsAll
  <2>3. Rcu => freed - base + failures = Updates
    <3>1. tpc[N] = "idle" /\ done[N] = Updates
      BY <2>1, <2>2 DEF WriterCounts
    <3>2. Updates + 0 = Updates
      BY RoundAssumption
    <3> QED
      BY <2>1, <3>1, <3>2 DEF WriterCounts
  <2>4. Rcu => freed - base = Updates - failures
    BY <2>3, RoundAssumption DEF BenchTypeOK
  <2> QED
    BY <1>1, <1>3, <1>6, <2>4 DEF DestroyTable, workerVars, Rcu
<1>7. ASSUME NEW t \in Workers, WorkerMoves(t)
      PROVE  ReportsExactly'
  BY <1>1, <1>3, <1>7, JoinedIsStill DEF WorkerMoves, mainVars
<1>8. CASE UNCHANGED allVars
  BY <1>8 DEF allVars, benchVars, mainVars, workerVars, ReportsExactly, Rcu
<1> QED
  BY <1>4, <1>5, <1>6, <1>7, <1>8, WorkersMove DEF MainStep

-----------------------------------------------------------------------------
\* The benchmark begins with the invariant.
LEMMA BenchInitInv == BenchInit => BenchInv
<1> SUFFICES ASSUME BenchInit PROVE BenchInv
  OBVIOUS
<1> USE DEF BenchInit
<1>1. freed = 0 /\ base = 0
  BY DEF Rt!Init, Rt!TableInit
<1>2. Round!Init
  <2>1. freed - base = 0
    BY <1>1
  <2>2. Round!RcuInit
    BY DEF Rt!Init, Rt!RcuInit, Round!RcuInit, Rt!Slots, Round!Slots,
           Rt!NoEntries, Round!NoEntries
  <2>3. Round!TableInit
    BY <2>1 DEF Rt!Init, Rt!TableInit, Round!TableInit, Rt!Garbage,
                Round!Garbage
  <2> QED
    BY <2>2, <2>3 DEF Round!Init
<1>3. Round!RcuInv /\ Round!TableInv
  BY <1>2, RoundInit
<1>4. Inv
  BY NobodyAssumption
     DEF Inv, TypeOK, LockAgrees, WholeUnlessFilling, ReadIsWhole, ReadsUnder,
         WritesUnder, LookupPCs, UpdatePCs
<1>5. BenchTypeOK
  <2>1. 0 \in Workers /\ 1 \in 1 .. Len(Rounds)
    BY Numbers
  <2> QED
    BY <1>1, <2>1 DEF BenchTypeOK, MainPCs, WorkerPCs
<1>6. StartsOnce /\ JoinsAll /\ QuietWithoutTable
  BY DEF StartsOnce, JoinsAll, QuietWithoutTable
<1>7. OneTable
  BY RoundAssumption DEF OneTable, InRound, Rcu
<1>8. SlotsAreGivenBack
  BY DEF SlotsAreGivenBack, Rt!Init, Rt!RcuInit
<1>9. WriterCounts
  BY <1>1, Numbers DEF WriterCounts, Rt!Init, Rt!TableInit
<1>10. ReportsExactly
  BY DEF ReportsExactly
<1> QED
  BY <1>3, <1>4, <1>5, <1>6, <1>7, <1>8, <1>9, <1>10 DEF BenchInv

LEMMA BenchNextInv == BenchInv /\ [BenchNext]_allVars => BenchInv'
<1> SUFFICES ASSUME BenchInv, [BenchNext]_allVars PROVE BenchInv'
  OBVIOUS
<1>1. CASE BenchNext
  <2>1. BenchTypeOK' /\ StartsOnce' /\ JoinsAll'
    BY <1>1, TypesKept, StartsAndJoins DEF BenchInv
  <2>2. OneTable' /\ QuietWithoutTable'
    BY <1>1, OneTableKept, QuietKept DEF BenchInv
  <2>3. SlotsAreGivenBack' /\ WriterCounts' /\ ReportsExactly'
    BY <1>1, SlotsKept, WriterKept, ReportsKept DEF BenchInv
  <2> QED
    BY <2>1, <2>2, <2>3, TablesKept DEF BenchInv
<1>2. CASE UNCHANGED allVars
  <2>1. Round!RcuInv' /\ Round!TableInv' /\ Inv'
    BY TablesKept
  <2> QED
    BY <1>2, <2>1
       DEF allVars, benchVars, mainVars, workerVars, vars, lookupVars,
           rtVars, rcuVars, versionVars, BenchInv, BenchTypeOK, StartsOnce,
           JoinsAll, OneTable, QuietWithoutTable, InRound, Rcu,
           SlotsAreGivenBack, WriterCounts, ReportsExactly
<1> QED
  BY <1>1, <1>2

(***************************************************************************)
(* The invariant of the benchmark and of both tables in it, for any number *)
(* of readers, lookups, updates and rounds (bench.c:93-134).               *)
(***************************************************************************)
THEOREM BenchInvariant == BenchSpec => []BenchInv
BY BenchInitInv, BenchNextInv, PTL DEF BenchSpec

(***************************************************************************)
(* bench.c:14-16, "every count in the output is exact": no lookup was torn,*)
(* a round of the RCU table has freed one version for each update that     *)
(* found memory, and leaves neither a version nor a slot behind.           *)
(***************************************************************************)
THEOREM CountsExact == BenchSpec => []CountsAreExact
<1>1. ASSUME BenchInv PROVE CountsAreExact
  <2>1. ASSUME mpc \in {"init", "done"}
        PROVE  allocated = {} /\ \A s \in Rt!Slots : ~inUse[s]
    <3>1. ~ralive
      BY <1>1, <2>1 DEF BenchInv, OneTable, InRound
    <3>2. allocated = {}
      BY <1>1, <3>1
         DEF BenchInv, Round!TableInv, Round!TableTypeOK,
             Round!DestroyedIsQuiet, Round!UpdaterInv,
             Round!AllocatedExactly, Round!OldUnreachable
    <3>3. \A r \in Readers : slot[r] = Nobody
      BY <1>1, <2>1, Numbers DEF BenchInv, JoinsAll, SlotsAreGivenBack
    <3>4. Nobody \notin Round!Slots /\ Rt!Slots = Round!Slots
      BY RoundAssumptions DEF Round!Slots, Rt!Slots
    <3> QED
      BY <1>1, <3>2, <3>3, <3>4
         DEF BenchInv, Round!RcuInv, Round!SlotsOwnedOnce
  <2> QED
    BY <1>1, <2>1 DEF BenchInv, ReportsExactly, CountsAreExact
<1> QED
  BY <1>1, BenchInvariant, PTL

-----------------------------------------------------------------------------
(***************************************************************************)
(* The waiting.                                                            *)
(***************************************************************************)
\* The counter of a reader's slot is twice its lookups of this round, and one
\* more in a section; it comes round at most with the last one.
Sections(r) == 2 * done[r] + (IF rpc[r] = "in" THEN 1 ELSE 0)

CountsItsLookups ==
    Rcu => \A r \in Readers :
        /\ th[r] \in {"none", "register", "gate", "asleep"} => done[r] = 0
        /\ done[r] <= Reads /\ (rpc[r] = "in" => done[r] < Reads)
        /\ slot[r] # Nobody =>
              seq[slot[r]] = IF Sections(r) = 2 * HalfWord THEN 0
                                                           ELSE Sections(r)

\* A counter that has been recorded is that of a section of the slot's owner,
\* and owed if it is the present one; or the owner has returned.
Recorded(u, s) == Round!Pending(u, s) /\ Round!Odd(waiting[u][s])

OwnersSection(u, s) ==
    \E r \in Readers : /\ slot[r] = s
                       /\ waiting[u][s] <= Sections(r)
                       /\ waiting[u][s] = Sections(r) => r \in owed[u]

OwnerIsGone(s) ==
    /\ \E r \in Readers : th[r] = "exited"
    /\ ~inUse[s] /\ ~Round!Odd(seq[s])

RecordedIsOwners ==
    ~late => \A u \in Updaters, s \in Round!Slots :
        Recorded(u, s) => OwnersSection(u, s) \/ OwnerIsGone(s)

\* The scan has recorded nothing of the slots that it has yet to look at.
NothingRecordedAhead ==
    \A u \in Updaters, s \in Round!Slots :
        spc[u] = "scan" /\ s >= idx[u] => waiting[u][s] = 0

WaitInv ==
    BenchInv /\ CountsItsLookups /\ RecordedIsOwners /\ NothingRecordedAhead

LEMMA ReadersSlots ==
    ASSUME Round!RcuInv
    PROVE  /\ slot \in [Readers -> Round!Slots \cup {Nobody}]
           /\ seq \in [Round!Slots -> Round!Words]
           /\ localSeq \in [Round!Slots -> Round!Words]
           /\ inUse \in [Round!Slots -> BOOLEAN]
           /\ rpc \in [Readers -> Round!ReaderPCs]
           /\ owed \in [Updaters -> SUBSET Readers]
           /\ waiting \in [Updaters -> [Round!Slots -> Round!Words]]
           /\ idx \in [Updaters -> 0 .. MaxReaders]
           /\ spc \in [Updaters -> Round!UpdaterPCs]
           /\ Nobody \notin Round!Slots
           /\ Round!Slots = 0 .. MaxReaders - 1 /\ Rt!Slots = Round!Slots
           /\ Round!Words \subseteq Nat
           /\ \A q, r \in Readers :
                 slot[q] = slot[r] /\ slot[q] # Nobody => q = r
           /\ \A s \in Round!Slots : inUse[s] <=> \E r \in Readers : slot[r] = s
           /\ \A r \in Readers : rpc[r] \in {"out", "in", "left"} =>
                 slot[r] \in Round!Slots /\ localSeq[slot[r]] = seq[slot[r]]
           /\ \A r \in Readers : slot[r] # Nobody =>
                 (Round!Odd(seq[slot[r]]) <=> rpc[r] = "in")
<1>1. Nobody \notin Round!Slots
  BY RoundAssumptions DEF Round!Slots
<1>2. Rt!Slots = Round!Slots /\ Round!Slots = 0 .. MaxReaders - 1
  BY DEF Rt!Slots, Round!Slots
<1>3. Round!Words \subseteq Nat
  BY TableAssumption DEF Round!Words, Round!WordMod
<1>4. \A r \in Readers : rpc[r] \in {"out", "in", "left"} =>
         slot[r] \in Round!Slots /\ localSeq[slot[r]] = seq[slot[r]]
  BY DEF Round!RcuInv, Round!RcuTypeOK, Round!Registered,
         Round!ParityTellsInside
<1> QED
  BY <1>1, <1>2, <1>3, <1>4
     DEF Round!RcuInv, Round!RcuTypeOK, Round!SlotsOwnedOnce,
         Round!ParityTellsInside, Round!Inside

\* Steps that leave the slots, the counters and the lookups of the readers
\* as they are.
CountsStay ==
    /\ UNCHANGED <<slot, inUse, seq, round>>
    /\ \A r \in Readers : done'[r] = done[r] /\ (rpc'[r] = "in" <=> rpc[r] = "in")

OutsideLoop(r) == th[r] \in {"none", "register", "gate", "asleep"}

LEMMA CountsFrame ==
    ASSUME CountsItsLookups, CountsStay,
           \A r \in Readers : OutsideLoop(r)' => OutsideLoop(r)
    PROVE  CountsItsLookups'
<1>1. \A r \in Readers : Sections(r)' = Sections(r)
  BY DEF CountsStay, Sections
<1>2. Rcu' = Rcu
  BY DEF CountsStay, Rcu
<1> QED
  BY <1>1, <1>2 DEF CountsStay, CountsItsLookups, OutsideLoop

\* Steps that record nothing new and forgive no section.
NothingRecorded ==
    \A u \in Updaters : /\ owed[u] \subseteq owed'[u]
                        /\ \A s \in Round!Slots : Recorded(u, s)' =>
                              Recorded(u, s) /\ waiting'[u][s] = waiting[u][s]

\* A reader that has returned in a round stays so, and what came late did.
ExitsStay ==
    /\ late => late'
    /\ \A r \in Readers : th[r] = "exited" => th'[r] = "exited"

LEMMA RecordedFrame ==
    ASSUME RecordedIsOwners, CountsStay, NothingRecorded, ExitsStay
    PROVE  RecordedIsOwners'
<1> SUFFICES ASSUME ~late', NEW u \in Updaters, NEW s \in Round!Slots,
                    Recorded(u, s)'
             PROVE  (OwnersSection(u, s) \/ OwnerIsGone(s))'
  BY DEF RecordedIsOwners, Round!Slots
<1>1. \A r \in Readers : Sections(r)' = Sections(r)
  BY DEF CountsStay, Sections
<1>2. Recorded(u, s) /\ waiting'[u][s] = waiting[u][s] /\ owed[u] \subseteq owed'[u]
  BY DEF NothingRecorded
<1>3. OwnersSection(u, s) \/ OwnerIsGone(s)
  BY <1>2 DEF RecordedIsOwners, ExitsStay
<1>4. CASE OwnersSection(u, s)
  BY <1>1, <1>2, <1>4 DEF OwnersSection, CountsStay
<1>5. CASE OwnerIsGone(s)
  BY <1>5 DEF OwnerIsGone, CountsStay, ExitsStay, Round!Odd
<1> QED
  BY <1>3, <1>4, <1>5

SyncStays == UNCHANGED <<spc, idx, waiting, owed>>

LEMMA SyncFrame ==
    ASSUME SyncStays
    PROVE  /\ NothingRecorded
           /\ NothingRecordedAhead => NothingRecordedAhead'
           /\ \A u \in Updaters, s \in Round!Slots :
                 /\ Recorded(u, s)' = Recorded(u, s)
                 /\ waiting'[u][s] = waiting[u][s]
BY DEF SyncStays, NothingRecorded, NothingRecordedAhead, Recorded,
       Round!Pending, Round!Odd, Round!Slots

\* Nothing is recorded while the writer is not in synchronize_rcu.
LEMMA IdleRecordsNothing ==
    ASSUME NEW u \in Updaters, spc[u] = "idle"
    PROVE  \A s \in Round!Slots : ~Recorded(u, s)
BY DEF Recorded, Round!Pending

LEMMA OutsideUpdateIdle ==
    ASSUME BenchInv, NEW u \in Updaters, th[u] # "work" \/ ~Rcu
    PROVE  spc[u] = "idle"
BY DEF BenchInv, WriterCounts, Round!TableInv, Round!PCsAgree

(***************************************************************************)
(* Each step of a reader, in a round of the RCU table.                     *)
(***************************************************************************)
WaitsKept == CountsItsLookups' /\ RecordedIsOwners'

LEMMA RegisterWaits ==
    ASSUME WaitInv, Rcu, NEW r \in Readers, RegisterReader(r)
    PROVE  WaitsKept
<1>1. /\ Rt!Register(r) /\ th[r] = "register" /\ th' = [th EXCEPT ![r] = "gate"]
      /\ UNCHANGED <<done, round, spc, idx, waiting, owed>>
      /\ late' = (late \/ \E q \in Readers : th[q] = "exited")
  BY DEF RegisterReader, WorkerAt, mainVars, Rt!Register, Rt!syncVars
<1>2. PICK s \in Round!Slots :
         /\ ~inUse[s]
         /\ seq' = [seq EXCEPT ![s] = 0]
         /\ slot' = [slot EXCEPT ![r] = s]
  BY <1>1, ReadersSlots DEF Rt!Register, Rt!Claim, WaitInv, BenchInv
<1>3. rpc' = [rpc EXCEPT ![r] = "out"]
  BY <1>1 DEF Rt!Register
<1>4. \A q \in Readers : slot[q] # s
  BY <1>2, ReadersSlots DEF WaitInv, BenchInv
<1>5. slot[r] = Nobody /\ done[r] = 0
  BY <1>1 DEF WaitInv, BenchInv, SlotsAreGivenBack, CountsItsLookups
<1>6. \A q \in Readers \ {r} :
         /\ slot'[q] = slot[q] /\ rpc'[q] = rpc[q] /\ Sections(q)' = Sections(q)
         /\ slot[q] \in Round!Slots => seq'[slot[q]] = seq[slot[q]]
  BY <1>1, <1>2, <1>3, <1>4, ReadersSlots DEF WaitInv, BenchInv, Sections
<1>7. /\ slot'[r] = s /\ rpc'[r] = "out" /\ Sections(r)' = 0 /\ seq'[s] = 0
  BY <1>1, <1>2, <1>3, <1>5, ReadersSlots DEF WaitInv, BenchInv, Sections
<1>8. CountsItsLookups'
  <2>1. Rcu' = Rcu
    BY <1>1 DEF Rcu
  <2>2. SUFFICES ASSUME NEW q \in Readers
        PROVE  /\ th'[q] \in {"none", "register", "gate", "asleep"} => done'[q] = 0
               /\ done'[q] <= Reads /\ (rpc'[q] = "in" => done'[q] < Reads)
               /\ slot'[q] # Nobody =>
                     seq'[slot'[q]] = IF Sections(q)' = 2 * HalfWord THEN 0
                                                                ELSE Sections(q)'
    BY DEF CountsItsLookups
  <2>3. CASE q = r
    BY <1>1, <1>5, <1>7, <2>3, RoundAssumption
  <2>4. CASE q # r
    <3>1. th'[q] = th[q]
      BY <1>1, <2>4, Numbers DEF WaitInv, BenchInv, BenchTypeOK
    <3>2. slot[q] # Nobody => slot[q] \in Round!Slots
      BY ReadersSlots DEF WaitInv, BenchInv
    <3> QED
      BY <1>1, <1>6, <2>4, <3>1, <3>2 DEF WaitInv, CountsItsLookups
  <2> QED
    BY <2>3, <2>4
<1>9. RecordedIsOwners'
  <2>1. SUFFICES ASSUME ~late', NEW u \in Updaters, NEW c \in Round!Slots,
                        Recorded(u, c)'
                 PROVE  OwnersSection(u, c)'
    BY DEF RecordedIsOwners, Round!Slots
  <2>2. Recorded(u, c) /\ waiting'[u][c] = waiting[u][c] /\ owed' = owed
    BY <1>1, <2>1, SyncFrame DEF SyncStays
  <2>3. OwnersSection(u, c)
    BY <1>1, <2>1, <2>2 DEF WaitInv, RecordedIsOwners, OwnerIsGone
  <2>4. PICK q \in Readers : /\ slot[q] = c
                             /\ waiting[u][c] <= Sections(q)
                             /\ waiting[u][c] = Sections(q) => q \in owed[u]
    BY <2>3 DEF OwnersSection
  <2>5. q # r
    BY <1>5, <2>4, ReadersSlots DEF WaitInv, BenchInv
  <2> QED
    BY <1>6, <2>2, <2>4, <2>5 DEF OwnersSection
<1> QED
  BY <1>8, <1>9 DEF WaitsKept

\* rcu_unregister: what was recorded of the slot is now of a reader that has
\* gone, whose counter stays even.
LEMMA ReturnWaits ==
    ASSUME WaitInv, Rcu, NEW r \in Readers, ReaderReturn(r)
    PROVE  WaitsKept
<1>1. /\ Rt!Unregister(r) /\ th' = [th EXCEPT ![r] = "exited"]
      /\ UNCHANGED <<done, round, spc, idx, waiting, owed, late, seq>>
  BY DEF ReaderReturn, WorkerAt, mainVars, Rt!Unregister, Rt!syncVars
<1>2. /\ rpc[r] = "out" /\ rpc' = [rpc EXCEPT ![r] = "gone"]
      /\ slot' = [slot EXCEPT ![r] = Nobody]
      /\ inUse' = [inUse EXCEPT ![slot[r]] = FALSE]
  BY <1>1 DEF Rt!Unregister
<1>3. /\ th \in [Workers -> WorkerPCs] /\ r \in Workers /\ Readers \subseteq Workers
  BY Numbers DEF WaitInv, BenchInv, BenchTypeOK
<1>4. \A q \in Readers \ {r} :
         /\ slot'[q] = slot[q] /\ rpc'[q] = rpc[q] /\ Sections(q)' = Sections(q)
         /\ th'[q] = th[q]
  BY <1>1, <1>2, <1>3, ReadersSlots DEF WaitInv, BenchInv, Sections
<1>5. /\ slot'[r] = Nobody /\ rpc'[r] = "gone" /\ th'[r] = "exited"
  BY <1>1, <1>2, <1>3, ReadersSlots DEF WaitInv, BenchInv
<1>6. CountsItsLookups'
  <2>1. Rcu' = Rcu
    BY <1>1 DEF Rcu
  <2>2. SUFFICES ASSUME NEW q \in Readers
        PROVE  /\ th'[q] \in {"none", "register", "gate", "asleep"} => done'[q] = 0
               /\ done'[q] <= Reads /\ (rpc'[q] = "in" => done'[q] < Reads)
               /\ slot'[q] # Nobody =>
                     seq'[slot'[q]] = IF Sections(q)' = 2 * HalfWord THEN 0
                                                                ELSE Sections(q)'
    BY DEF CountsItsLookups
  <2>3. CASE q = r
    BY <1>1, <1>5, <2>3 DEF WaitInv, CountsItsLookups
  <2>4. CASE q # r
    BY <1>1, <1>4, <2>4 DEF WaitInv, CountsItsLookups
  <2> QED
    BY <2>3, <2>4
<1>7. RecordedIsOwners'
  <2>1. SUFFICES ASSUME ~late', NEW u \in Updaters, NEW c \in Round!Slots,
                        Recorded(u, c)'
                 PROVE  (OwnersSection(u, c) \/ OwnerIsGone(c))'
    BY DEF RecordedIsOwners, Round!Slots
  <2>2. Recorded(u, c) /\ waiting'[u][c] = waiting[u][c] /\ owed' = owed
    BY <1>1, <2>1, SyncFrame DEF SyncStays
  <2>3. OwnersSection(u, c) \/ OwnerIsGone(c)
    BY <1>1, <2>1, <2>2 DEF WaitInv, RecordedIsOwners
  <2>4. CASE c = slot[r]
    <3>1. ~inUse'[c]
      BY <1>2, <2>4, ReadersSlots DEF WaitInv, BenchInv
    <3>2. ~Round!Odd(seq'[c])
      BY <1>1, <1>2, <2>4, ReadersSlots DEF WaitInv, BenchInv
    <3> QED
      BY <1>5, <3>1, <3>2 DEF OwnerIsGone, Round!Odd
  <2>5. CASE c # slot[r] /\ OwnersSection(u, c)
    <3>1. PICK q \in Readers : /\ slot[q] = c
                               /\ waiting[u][c] <= Sections(q)
                               /\ waiting[u][c] = Sections(q) => q \in owed[u]
      BY <2>5 DEF OwnersSection
    <3>2. q # r
      BY <2>5, <3>1
    <3> QED
      BY <1>4, <2>2, <3>1, <3>2 DEF OwnersSection
  <2>6. CASE c # slot[r] /\ OwnerIsGone(c)
    <3>1. inUse'[c] = inUse[c] /\ seq'[c] = seq[c]
      BY <1>1, <1>2, <2>6, ReadersSlots DEF WaitInv, BenchInv
    <3> QED
      BY <1>5, <2>6, <3>1 DEF OwnerIsGone, Round!Odd
  <2> QED
    BY <2>3, <2>4, <2>5, <2>6
<1> QED
  BY <1>6, <1>7 DEF WaitsKept

\* A lookup begins or ends: the counter of the reader's slot moves with its
\* sections, and past all that was recorded of it.
LEMMA SectionMoves ==
    ASSUME WaitInv, Rcu, NEW r \in Readers, rpc[r] \in {"out", "in"},
           UNCHANGED <<th, round, late, spc, idx, waiting, slot, inUse>>,
           done[r] < Reads,
           seq' = [seq EXCEPT ![slot[r]] = Rt!Inc(seq[slot[r]])],
           \A q \in Readers \ {r} :
              rpc'[q] = rpc[q] /\ done'[q] = done[q],
           Sections(r)' = Sections(r) + 1,
           done'[r] <= Reads /\ (rpc'[r] = "in" => done'[r] < Reads),
           OutsideLoop(r) => done'[r] = 0,
           \A u \in Updaters : owed[u] \ {r} \subseteq owed'[u]
    PROVE  WaitsKept
<1>1. slot[r] \in Round!Slots /\ seq \in [Round!Slots -> Round!Words]
  BY ReadersSlots DEF WaitInv, BenchInv
<1>2. \A q \in Readers \ {r} :
         /\ Sections(q)' = Sections(q)
         /\ slot[q] # Nobody => seq'[slot[q]] = seq[slot[q]]
  BY <1>1, ReadersSlots DEF WaitInv, BenchInv, Sections
<1>3. Sections(r) \in Nat /\ Sections(r) < 2 * HalfWord
  <2>1. done[r] \in Nat
    BY Numbers DEF WaitInv, BenchInv, BenchTypeOK
  <2>2. Reads \in Nat /\ HalfWord \in Nat /\ Reads <= HalfWord
    BY RoundAssumption, TableAssumption
  <2> QED
    BY <2>1, <2>2 DEF Sections
<1>4. seq[slot[r]] = Sections(r)
  BY <1>1, <1>3, ReadersSlots DEF WaitInv, BenchInv, CountsItsLookups
<1>5. seq'[slot[r]] = IF Sections(r)' = 2 * HalfWord THEN 0 ELSE Sections(r)'
  BY <1>1, <1>3, <1>4, TableAssumption DEF Rt!Inc, Rt!WordMod
<1>6. CountsItsLookups'
  <2>1. Rcu' = Rcu
    BY DEF Rcu
  <2>2. SUFFICES ASSUME NEW q \in Readers
        PROVE  /\ th'[q] \in {"none", "register", "gate", "asleep"} => done'[q] = 0
               /\ done'[q] <= Reads /\ (rpc'[q] = "in" => done'[q] < Reads)
               /\ slot'[q] # Nobody =>
                     seq'[slot'[q]] = IF Sections(q)' = 2 * HalfWord THEN 0
                                                                ELSE Sections(q)'
    BY DEF CountsItsLookups
  <2>3. CASE q = r
    BY <1>5, <2>3 DEF OutsideLoop
  <2>4. CASE q # r
    BY <1>2, <2>4 DEF WaitInv, CountsItsLookups
  <2> QED
    BY <2>3, <2>4
<1>7. RecordedIsOwners'
  <2>1. SUFFICES ASSUME ~late', NEW u \in Updaters, NEW c \in Round!Slots,
                        Recorded(u, c)'
                 PROVE  (OwnersSection(u, c) \/ OwnerIsGone(c))'
    BY DEF RecordedIsOwners, Round!Slots
  <2>2. Recorded(u, c) /\ waiting'[u][c] = waiting[u][c]
    BY <2>1 DEF Recorded, Round!Pending, Round!Odd
  <2>3. OwnersSection(u, c) \/ OwnerIsGone(c)
    BY <2>1, <2>2 DEF WaitInv, RecordedIsOwners
  <2>4. CASE OwnersSection(u, c)
    <3>1. PICK q \in Readers : /\ slot[q] = c
                               /\ waiting[u][c] <= Sections(q)
                               /\ waiting[u][c] = Sections(q) => q \in owed[u]
      BY <2>4 DEF OwnersSection
    <3>2. CASE q = r
      <4>1. waiting[u][c] \in Nat
        <5>1. /\ waiting \in [Updaters -> [Round!Slots -> Round!Words]]
              /\ Round!Words \subseteq Nat
          BY ReadersSlots DEF WaitInv, BenchInv
        <5>2. waiting[u] \in [Round!Slots -> Round!Words]
          BY <5>1
        <5> QED
          BY <5>1, <5>2
      <4>2. waiting[u][c] <= Sections(r)' /\ waiting[u][c] # Sections(r)'
        BY <1>3, <3>1, <3>2, <4>1
      <4> QED
        BY <2>2, <3>1, <3>2, <4>2 DEF OwnersSection
    <3>3. CASE q # r
      BY <1>2, <2>2, <3>1, <3>3 DEF OwnersSection
    <3> QED
      BY <3>2, <3>3
  <2>5. CASE OwnerIsGone(c)
    <3>1. c # slot[r]
      BY <2>5, ReadersSlots DEF OwnerIsGone, WaitInv, BenchInv
    <3>2. seq'[c] = seq[c]
      BY <1>1, <3>1
    <3> QED
      BY <2>5, <3>2 DEF OwnerIsGone, Round!Odd
  <2> QED
    BY <2>3, <2>4, <2>5
<1> QED
  BY <1>6, <1>7 DEF WaitsKept

\* A lookup's steps in the loop of the reader.
LEMMA LookupWaits ==
    ASSUME WaitInv, Rcu, NEW r \in Readers, ReaderWork(r)
    PROVE  WaitsKept
<1>1. /\ th[r] = "work" /\ RtLookup(r)
      /\ UNCHANGED <<th, round, late>>
  BY DEF ReaderWork, RwLookup, mainVars
<1>2. /\ done \in [Workers -> Nat] /\ r \in Workers /\ Readers \subseteq Workers
      /\ rpc \in [Readers -> Round!ReaderPCs]
      /\ owed \in [Updaters -> SUBSET Readers]
  BY Numbers, ReadersSlots DEF WaitInv, BenchInv, BenchTypeOK
<1>3. ~OutsideLoop(r)
  BY <1>1 DEF OutsideLoop
<1>4. \A q \in Readers : rpc[q] \in {"out", "in", "left"} =>
                            localSeq[slot[q]] = seq[slot[q]] /\ slot[q] \in Round!Slots
  BY ReadersSlots DEF WaitInv, BenchInv
<1>5. localSeq \in [Round!Slots -> Round!Words]
  BY ReadersSlots DEF WaitInv, BenchInv
<1>6. CASE Rt!LookupLock(r) /\ done[r] < Reads /\ UNCHANGED done
  <2>1. Rt!ReadLock(r)
    BY <1>6 DEF Rt!LookupLock
  <2>2. /\ rpc[r] = "out" /\ rpc' = [rpc EXCEPT ![r] = "in"]
        /\ UNCHANGED <<spc, idx, waiting, slot, inUse, owed>>
    BY <2>1 DEF Rt!ReadLock, Rt!syncVars
  <2>3. seq' = [seq EXCEPT ![slot[r]] = Rt!Inc(seq[slot[r]])]
    BY <1>4, <1>5, <2>1, <2>2 DEF Rt!ReadLock
  <2>4. Sections(r)' = Sections(r) + 1
    BY <1>2, <1>6, <2>2 DEF Sections
  <2>5. \A q \in Readers \ {r} : rpc'[q] = rpc[q] /\ done'[q] = done[q]
    BY <1>2, <1>6, <2>2
  <2>6. done'[r] <= Reads /\ (rpc'[r] = "in" => done'[r] < Reads)
    BY <1>2, <1>6, RoundAssumption
  <2> QED
    BY <1>1, <1>3, <1>6, <2>2, <2>3, <2>4, <2>5, <2>6, SectionMoves
<1>7. CASE Rt!LookupUnlock(r) /\ CountOne(r)
  <2>1. Rt!ReadUnlock(r)
    BY <1>7 DEF Rt!LookupUnlock
  <2>2. /\ rpc[r] = "in" /\ rpc' = [rpc EXCEPT ![r] = "left"]
        /\ UNCHANGED <<spc, idx, waiting, slot, inUse>>
        /\ owed' = [u \in Updaters |-> owed[u] \ {r}]
    BY <2>1 DEF Rt!ReadUnlock, Rt!syncVars
  <2>3. seq' = [seq EXCEPT ![slot[r]] = Rt!Inc(seq[slot[r]])]
    BY <1>4, <1>5, <2>1, <2>2 DEF Rt!ReadUnlock
  <2>4. done' = [done EXCEPT ![r] = @ + 1]
    BY <1>7 DEF CountOne
  <2>5. Sections(r)' = Sections(r) + 1
    BY <1>2, <2>2, <2>4 DEF Sections
  <2>6. \A q \in Readers \ {r} : rpc'[q] = rpc[q] /\ done'[q] = done[q]
    BY <1>2, <2>2, <2>4
  <2>7. done[r] < Reads
    BY <2>2 DEF WaitInv, CountsItsLookups
  <2>8. done'[r] <= Reads /\ rpc'[r] # "in"
    BY <1>2, <2>2, <2>4, <2>7, RoundAssumption
  <2>9. \A u \in Updaters : owed[u] \ {r} \subseteq owed'[u]
    BY <2>2
  <2> QED
    BY <1>1, <1>3, <2>2, <2>3, <2>5, <2>6, <2>7, <2>8, <2>9, SectionMoves
<1>8. CASE /\ \/ Rt!LookupDeref(r) \/ Rt!LookupVal(r) \/ Rt!LookupConsistent(r)
              \/ Rt!CountRead(r)
           /\ UNCHANGED done
  <2>1. UNCHANGED <<slot, inUse, seq, spc, idx, waiting, owed>>
    BY <1>8 DEF Rt!LookupDeref, Rt!LookupVal, Rt!LookupConsistent,
                Rt!CountRead, Rt!rcuVars, Rt!readerVars, Rt!syncVars
  <2>2. \A q \in Readers : rpc'[q] = "in" <=> rpc[q] = "in"
    BY <1>2, <1>8 DEF Rt!LookupDeref, Rt!LookupVal, Rt!LookupConsistent,
                Rt!CountRead, Rt!rcuVars, Rt!readerVars
  <2>3. CountsStay /\ SyncStays
    BY <1>1, <1>8, <2>1, <2>2 DEF CountsStay, SyncStays
  <2> QED
    BY <1>1, <2>3, CountsFrame, RecordedFrame, SyncFrame
       DEF WaitInv, WaitsKept, OutsideLoop, ExitsStay
<1> QED
  BY <1>1, <1>6, <1>7, <1>8 DEF RtLookup, CountLookup

(***************************************************************************)
(* Each step of the writer, in a round of the RCU table.                   *)
(***************************************************************************)
\* The scan looks at a slot: what it records is the present section of the
\* slot's owner, which it then owes a wait.
LEMMA ScanWaits ==
    ASSUME WaitInv, Rcu, NEW u \in Updaters, Rt!SyncScan(u), CountsStay,
           ExitsStay
    PROVE  RecordedIsOwners' /\ NothingRecordedAhead'
<1> DEFINE s == idx[u]
<1>1. /\ spc[u] = "scan" /\ UNCHANGED spc
      /\ idx' = [idx EXCEPT ![u] = s + 1]
      /\ waiting' = IF inUse[s] /\ Round!Odd(seq[s])
                    THEN [waiting EXCEPT ![u][s] = seq[s]] ELSE waiting
      /\ owed' = [owed EXCEPT ![u] =
                     @ \cup {r \in Readers : Rt!Inside(r) /\ slot[r] = s}]
  BY DEF Rt!SyncScan, Rt!Odd, Round!Odd
<1>2. s \in Round!Slots /\ s \in Nat /\ MaxReaders \in Nat
  BY ReadersSlots, TableAssumption DEF Rt!SyncScan, WaitInv, BenchInv
<1>3. /\ waiting \in [Updaters -> [Round!Slots -> Round!Words]]
      /\ owed \in [Updaters -> SUBSET Readers]
      /\ idx \in [Updaters -> 0 .. MaxReaders]
      /\ Round!Slots = 0 .. MaxReaders - 1
  BY ReadersSlots DEF WaitInv, BenchInv
<1>4. Updaters = {u}
  BY Numbers
<1>5. \A c \in Round!Slots \ {s} : waiting'[u][c] = waiting[u][c]
  BY <1>1, <1>2, <1>3
<1>6. waiting[u][s] = 0
  BY <1>1, <1>2 DEF WaitInv, NothingRecordedAhead
<1>7. NothingRecordedAhead'
  <2>1. SUFFICES ASSUME NEW v \in Updaters, NEW c \in Round!Slots,
                        spc'[v] = "scan", c >= idx'[v]
                 PROVE  waiting'[v][c] = 0
    BY DEF NothingRecordedAhead, Round!Slots
  <2>2. v = u /\ idx'[u] = s + 1
    BY <1>1, <1>3, <1>4
  <2>3. c \in Nat
    BY <1>3
  <2>4. c # s /\ c >= s
    BY <1>2, <2>1, <2>2, <2>3
  <2> QED
    BY <1>1, <1>5, <2>2, <2>4 DEF WaitInv, NothingRecordedAhead
<1>8. RecordedIsOwners'
  <2>1. SUFFICES ASSUME ~late', NEW v \in Updaters, NEW c \in Round!Slots,
                        Recorded(v, c)'
                 PROVE  (OwnersSection(v, c) \/ OwnerIsGone(c))'
    BY DEF RecordedIsOwners, Round!Slots
  <2>2. v = u /\ ~late /\ \A r \in Readers : th[r] = "exited" => th'[r] = "exited"
    BY <1>4, <2>1 DEF ExitsStay
  <2>3. /\ UNCHANGED <<slot, inUse, seq>>
        /\ \A r \in Readers : Sections(r)' = Sections(r)
    BY DEF CountsStay, Sections
  <2>4. owed[u] \subseteq owed'[u]
    BY <1>1, <1>3
  <2>5. CASE c = s
    <3>1. inUse[s] /\ Round!Odd(seq[s]) /\ waiting'[u][s] = seq[s]
      BY <1>1, <1>2, <1>3, <1>6, <2>1, <2>2, <2>5 DEF Recorded, Round!Odd
    <3>2. PICK r \in Readers : slot[r] = s /\ rpc[r] = "in"
      BY <1>2, <3>1, ReadersSlots DEF WaitInv, BenchInv
    <3>3. seq[s] = Sections(r)
      <4>1. seq[s] = IF Sections(r) = 2 * HalfWord THEN 0 ELSE Sections(r)
        BY <1>2, <3>2, ReadersSlots DEF WaitInv, BenchInv, CountsItsLookups
      <4> QED
        BY <3>1, <4>1 DEF Round!Odd
    <3>4. r \in owed'[u]
      BY <1>1, <1>3, <3>2 DEF Rt!Inside
    <3>5. Sections(r) \in Nat
      BY Numbers DEF WaitInv, BenchInv, BenchTypeOK, Sections
    <3> QED
      BY <2>2, <2>3, <2>5, <3>1, <3>2, <3>3, <3>4, <3>5 DEF OwnersSection
  <2>6. CASE c # s
    <3>1. waiting'[u][c] = waiting[u][c]
      BY <1>5, <2>6
    <3>2. Recorded(u, c)
      <4>1. c \in Nat /\ idx'[u] = s + 1
        BY <1>1, <1>3
      <4>2. c < idx'[u] /\ Round!Odd(waiting[u][c])
        BY <1>1, <2>1, <2>2, <3>1 DEF Recorded, Round!Pending, Round!Odd
      <4>3. c < s
        BY <1>2, <2>6, <4>1, <4>2
      <4> QED
        BY <1>1, <4>2, <4>3 DEF Recorded, Round!Pending
    <3>3. OwnersSection(u, c) \/ OwnerIsGone(c)
      BY <2>2, <3>2 DEF WaitInv, RecordedIsOwners
    <3>4. CASE OwnersSection(u, c)
      BY <2>2, <2>3, <2>4, <3>1, <3>4 DEF OwnersSection
    <3>5. CASE OwnerIsGone(c)
      BY <2>2, <2>3, <3>5 DEF OwnerIsGone, Round!Odd
    <3> QED
      BY <3>3, <3>4, <3>5
  <2> QED
    BY <2>5, <2>6
<1> QED
  BY <1>7, <1>8

\* The other steps of synchronize_rcu record nothing.
LEMMA SyncWaits ==
    ASSUME WaitInv, NEW u \in Updaters,
           \/ Rt!SyncCall(u) \/ Rt!SyncLock(u) \/ Rt!SyncUnlock(u)
           \/ Rt!SyncNext(u) \/ Rt!SyncPoll(u) \/ Rt!SyncReturn(u)
           \/ Rt!SyncDone(u)
    PROVE  NothingRecorded /\ NothingRecordedAhead'
<1>1. /\ waiting \in [Updaters -> [Round!Slots -> Round!Words]]
      /\ owed \in [Updaters -> SUBSET Readers]
      /\ idx \in [Updaters -> 0 .. MaxReaders]
      /\ spc \in [Updaters -> Round!UpdaterPCs]
      /\ Round!Slots = 0 .. MaxReaders - 1 /\ Rt!Slots = Round!Slots
  BY ReadersSlots DEF WaitInv, BenchInv
<1>2. Updaters = {u} /\ MaxReaders \in Nat
  BY Numbers, TableAssumption
<1>3. ASSUME NEW c \in Round!Slots, Recorded(u, c)'
      PROVE  Recorded(u, c) /\ waiting'[u][c] = waiting[u][c]
  <2>1. c \in Nat /\ c < MaxReaders
    BY <1>1, <1>2
  <2>2. CASE Rt!SyncCall(u) \/ Rt!SyncDone(u) \/ Rt!SyncReturn(u)
    <3>1. spc'[u] \in {"lock", "idle", "returned"}
      BY <1>1, <2>2 DEF Rt!SyncCall, Rt!SyncDone, Rt!SyncReturn
    <3> QED
      BY <1>3, <3>1 DEF Recorded, Round!Pending
  <2>3. CASE Rt!SyncLock(u)
    <3>1. spc'[u] = "scan" /\ idx'[u] = 0
      BY <1>1, <2>3 DEF Rt!SyncLock
    <3> QED
      BY <1>3, <2>1, <3>1 DEF Recorded, Round!Pending
  <2>4. CASE Rt!SyncUnlock(u)
    <3>1. spc[u] = "scan" /\ idx[u] = MaxReaders /\ UNCHANGED waiting
      BY <2>4 DEF Rt!SyncUnlock
    <3> QED
      BY <1>3, <2>1, <3>1 DEF Recorded, Round!Pending, Round!Odd
  <2>5. CASE Rt!SyncNext(u)
    <3>1. /\ spc[u] = "next" /\ spc'[u] = "poll" /\ UNCHANGED waiting
          /\ idx'[u] \in Nat /\ idx'[u] >= idx[u] /\ idx[u] \in Nat
      BY <1>1, <2>5 DEF Rt!SyncNext
    <3>2. c >= idx'[u] /\ Round!Odd(waiting[u][c])
      BY <1>3, <3>1 DEF Recorded, Round!Pending, Round!Odd
    <3>3. c >= idx[u]
      BY <2>1, <3>1, <3>2
    <3> QED
      BY <3>1, <3>2, <3>3 DEF Recorded, Round!Pending
  <2>6. CASE Rt!SyncPoll(u)
    <3>1. /\ spc[u] = "poll" /\ spc'[u] = "next" /\ UNCHANGED waiting
          /\ idx'[u] = idx[u] + 1 /\ idx[u] \in Nat
      BY <1>1, <2>6 DEF Rt!SyncPoll
    <3>2. c >= idx'[u] /\ Round!Odd(waiting[u][c])
      BY <1>3, <3>1 DEF Recorded, Round!Pending, Round!Odd
    <3>3. c >= idx[u]
      BY <2>1, <3>1, <3>2
    <3> QED
      BY <3>1, <3>2, <3>3 DEF Recorded, Round!Pending
  <2> QED
    BY <2>2, <2>3, <2>4, <2>5, <2>6
<1>4. owed[u] \subseteq owed'[u]
  <2>1. CASE Rt!SyncCall(u)
    <3>1. spc[u] = "idle"
      BY <2>1 DEF Rt!SyncCall
    <3>2. owed[u] = {}
      BY <3>1 DEF WaitInv, BenchInv, Round!RcuInv, Round!OwedIsPending,
                  Round!Pending
    <3> QED
      BY <3>2
  <2> QED
    BY <2>1 DEF Rt!SyncLock, Rt!SyncUnlock, Rt!SyncNext, Rt!SyncPoll,
                Rt!SyncReturn, Rt!SyncDone
<1>5. NothingRecorded
  BY <1>2, <1>3, <1>4 DEF NothingRecorded
<1>6. NothingRecordedAhead'
  <2>1. CASE Rt!SyncLock(u)
    BY <1>1, <1>2, <2>1
       DEF Rt!SyncLock, Rt!NoEntries, NothingRecordedAhead, Round!Slots
  <2>2. ASSUME ~Rt!SyncLock(u)
        PROVE  spc'[u] # "scan"
    BY <1>1, <2>2
       DEF Rt!SyncCall, Rt!SyncUnlock, Rt!SyncNext, Rt!SyncPoll,
           Rt!SyncReturn, Rt!SyncDone
  <2> QED
    BY <1>2, <2>1, <2>2 DEF NothingRecordedAhead
<1> QED
  BY <1>5, <1>6

\* The writer's steps leave the readers as they are.
LEMMA WriterLeavesReaders ==
    ASSUME WaitInv, NEW u \in Updaters, WriterGoesOn(u)
    PROVE  /\ CountsStay /\ ExitsStay
           /\ \A r \in Readers : OutsideLoop(r)' => OutsideLoop(r)
<1>1. /\ Updaters = {N} /\ N \notin Readers /\ Readers \subseteq Workers
      /\ th \in [Workers -> WorkerPCs] /\ done \in [Workers -> Nat]
  BY Numbers DEF WaitInv, BenchInv, BenchTypeOK
<1>2. UNCHANGED <<slot, inUse, seq, round, rpc, late>>
  <2>1. CASE RtUpdate(u)
    BY <2>1 DEF RtUpdate, Rt!UpdateMalloc, Rt!UpdateLock, Rt!FillGen,
                Rt!FillVal, Rt!Publish, Rt!SetLatest, Rt!UpdateSync,
                Rt!SyncCall, Rt!InSync, Rt!SyncStep, Rt!SyncLock, Rt!SyncScan,
                Rt!SyncUnlock, Rt!SyncNext, Rt!SyncPoll, Rt!SyncReturn,
                Rt!Free, Rt!SyncDone, Rt!CountFreed, Rt!UpdateUnlock,
                Rt!rcuVars, Rt!readerVars, WriterGoesOn, GateWait, WriterWork,
                WriterReturn, mainVars
  <2> QED
    BY <2>1 DEF WriterGoesOn, GateWait, WriterWork, WriterReturn,
                RtUpdateFails, RwUpdate, rtVars, rcuVars, mainVars
<1>3. \A r \in Readers : th'[r] = th[r]
  BY <1>1 DEF WriterGoesOn, GateWait, WriterWork, WriterReturn, WorkerAt
<1>4. \A r \in Readers : done'[r] = done[r]
  BY <1>1 DEF WriterGoesOn, GateWait, WriterWork, WriterReturn, RtUpdate,
              RtUpdateFails, RwUpdate, CountOne
<1> QED
  BY <1>2, <1>3, <1>4 DEF CountsStay, ExitsStay, OutsideLoop

LEMMA WriterWaits ==
    ASSUME WaitInv, NEW u \in Updaters, WriterGoesOn(u)
    PROVE  WaitsKept /\ NothingRecordedAhead'
<1>1. CountsStay /\ ExitsStay /\ CountsItsLookups'
  BY WriterLeavesReaders, CountsFrame DEF WaitInv
<1>2. CASE SyncStays
  BY <1>1, <1>2, SyncFrame, RecordedFrame DEF WaitInv, WaitsKept
<1>3. CASE Rcu /\ Rt!SyncScan(u)
  BY <1>1, <1>3, ScanWaits DEF WaitsKept
<1>4. CASE \/ Rt!SyncCall(u) \/ Rt!SyncLock(u) \/ Rt!SyncUnlock(u)
           \/ Rt!SyncNext(u) \/ Rt!SyncPoll(u) \/ Rt!SyncReturn(u)
           \/ Rt!SyncDone(u)
  BY <1>1, <1>4, SyncWaits, RecordedFrame DEF WaitInv, WaitsKept
<1>5. CASE RtUpdate(u)
  <2>1. \/ SyncStays \/ Rt!SyncCall(u) \/ Rt!SyncStep(u) \/ Rt!SyncDone(u)
    BY <1>5 DEF RtUpdate, Rt!UpdateMalloc, Rt!UpdateLock, Rt!FillGen,
                Rt!FillVal, Rt!Publish, Rt!SetLatest, Rt!UpdateSync,
                Rt!InSync, Rt!Free, Rt!CountFreed, Rt!UpdateUnlock,
                Rt!rcuVars, Rt!syncVars, SyncStays
  <2> QED
    BY <1>2, <1>3, <1>4, <1>5, <2>1 DEF RtUpdate, Rt!SyncStep
<1>6. WriterGoesOn(u) /\ ~RtUpdate(u) => SyncStays
  BY DEF WriterGoesOn, GateWait, WriterWork, WriterReturn, RtUpdateFails,
         RwUpdate, rtVars, rcuVars, SyncStays
<1> QED
  BY <1>2, <1>5, <1>6

(***************************************************************************)
(* The other steps of the readers, and those of main.                      *)
(***************************************************************************)
\* Nothing of the registry or of the loops of the readers changes.
LEMMA WaitsFrame ==
    ASSUME WaitInv, CountsStay, SyncStays, ExitsStay,
           \A r \in Readers : OutsideLoop(r)' => OutsideLoop(r)
    PROVE  WaitsKept /\ NothingRecordedAhead'
BY CountsFrame, SyncFrame, RecordedFrame DEF WaitInv, WaitsKept

\* No counter of the RCU table moves in a round of the other.
LEMMA RwRoundWaits ==
    ASSUME WaitInv, ~Rcu, UNCHANGED rtVars, UNCHANGED round
    PROVE  WaitsKept /\ NothingRecordedAhead'
<1>1. SyncStays /\ ~Rcu'
  BY DEF rtVars, rcuVars, SyncStays, Rcu
<1>2. \A u \in Updaters, s \in Round!Slots : ~Recorded(u, s)'
  BY <1>1, OutsideUpdateIdle, IdleRecordsNothing, SyncFrame DEF WaitInv
<1> QED
  BY <1>1, <1>2, SyncFrame
     DEF WaitInv, WaitsKept, CountsItsLookups, RecordedIsOwners, Round!Slots

LEMMA ReaderWaits ==
    ASSUME WaitInv, NEW r \in Readers, ReaderGoesOn(r)
    PROVE  WaitsKept /\ NothingRecordedAhead'
<1>1. UNCHANGED round
  BY DEF ReaderGoesOn, RegisterReader, GateWait, ReaderWork, ReaderReturn,
         mainVars
<1>2. SyncStays \/ ReaderWork(r)
  BY DEF ReaderGoesOn, RegisterReader, GateWait, ReaderReturn, Rt!Register,
         Rt!Unregister, Rt!syncVars, rtVars, rcuVars, SyncStays
<1>3. CASE GateWait(r)
  <2>1. CountsStay /\ SyncStays
    BY <1>3 DEF GateWait, rtVars, rcuVars, mainVars, CountsStay, SyncStays
  <2>2. /\ th \in [Workers -> WorkerPCs] /\ r \in Workers
        /\ Readers \subseteq Workers
    BY Numbers DEF WaitInv, BenchInv, BenchTypeOK
  <2>3. ExitsStay /\ \A q \in Readers : OutsideLoop(q)' => OutsideLoop(q)
    BY <1>3, <2>2 DEF GateWait, WorkerAt, ExitsStay, OutsideLoop
  <2> QED
    BY <2>1, <2>3, WaitsFrame
<1>4. CASE ~Rcu /\ ~GateWait(r)
  <2>1. UNCHANGED rtVars
    BY <1>4 DEF ReaderGoesOn, RegisterReader, ReaderWork, ReaderReturn,
                RtLookup, RwLookup
  <2> QED
    BY <1>1, <1>4, <2>1, RwRoundWaits
<1>5. CASE Rcu /\ ~GateWait(r)
  <2>1. WaitsKept
    BY <1>5, RegisterWaits, LookupWaits, ReturnWaits DEF ReaderGoesOn
  <2>2. UNCHANGED <<spc, idx, waiting>>
    BY <1>2, <1>5 DEF SyncStays, ReaderWork, RtLookup, RwLookup,
         Rt!LookupLock, Rt!LookupDeref, Rt!LookupVal, Rt!LookupConsistent,
         Rt!LookupUnlock, Rt!ReadLock, Rt!ReadUnlock, Rt!CountRead,
         Rt!rcuVars, Rt!syncVars
  <2>3. NothingRecordedAhead'
    BY <2>2 DEF WaitInv, NothingRecordedAhead, Round!Slots
  <2> QED
    BY <2>1, <2>3
<1> QED
  BY <1>3, <1>4, <1>5

LEMMA InitTableWaits ==
    ASSUME WaitInv, InitTable
    PROVE  WaitsKept /\ NothingRecordedAhead'
<1>1. /\ UNCHANGED <<slot, seq, spc, idx, waiting, owed, rpc>>
      /\ th' = [t \in Workers |-> "none"] /\ done' = [t \in Workers |-> 0]
  BY DEF InitTable, RtInit, RwInit, BeginRound, rtVars, rcuVars
<1>2. SyncStays
  BY <1>1 DEF SyncStays
<1>3. \A t \in Workers : th[t] = "exited"
  BY DEF InitTable, WaitInv, BenchInv, JoinsAll
<1>4. \A r \in Readers : slot[r] = Nobody
  BY <1>3, Numbers DEF WaitInv, BenchInv, SlotsAreGivenBack
<1>5. \A u \in Updaters : spc[u] = "idle"
  BY <1>3, Numbers, OutsideUpdateIdle DEF WaitInv
<1>6. RecordedIsOwners'
  BY <1>2, <1>5, IdleRecordsNothing, SyncFrame
     DEF RecordedIsOwners, Round!Slots
<1>7. CountsItsLookups'
  <2>1. \A r \in Readers : rpc[r] # "in"
    BY <1>4, ReadersSlots DEF WaitInv, BenchInv
  <2> QED
    BY <1>1, <1>4, <2>1, Numbers, RoundAssumption DEF CountsItsLookups
<1> QED
  BY <1>2, <1>6, <1>7, SyncFrame DEF WaitInv, WaitsKept

LEMMA MainWaits ==
    ASSUME WaitInv, MainStep
    PROVE  WaitsKept /\ NothingRecordedAhead'
<1>1. /\ th \in [Workers -> WorkerPCs] /\ Readers \subseteq Workers
  BY Numbers DEF WaitInv, BenchInv, BenchTypeOK
<1>2. CASE ~InitTable
  <2>1. UNCHANGED <<slot, inUse, seq, rpc, spc, idx, waiting, owed, round,
                    done, late>>
    BY <1>2 DEF MainStep, InitFails, Create, OpenGate, Join, DestroyTable,
                Rt!Destroy, Rt!rcuVars, Rt!readerVars, Rt!syncVars, rtVars,
                rcuVars, workerVars
  <2>2. ExitsStay /\ \A r \in Readers : OutsideLoop(r)' => OutsideLoop(r)
    <3>1. CASE Create
      <4>1. th[i] = "none" /\ i \in Workers
        BY <3>1, Numbers
           DEF Create, MainAt, WaitInv, BenchInv, BenchTypeOK, StartsOnce
      <4> QED
        BY <1>1, <2>1, <3>1, <4>1 DEF Create, ExitsStay, OutsideLoop
    <3>2. CASE OpenGate
      BY <1>1, <2>1, <3>2 DEF OpenGate, Woken, ExitsStay, OutsideLoop
    <3>3. CASE InitFails \/ Join \/ DestroyTable
      BY <2>1, <3>3 DEF InitFails, Join, DestroyTable, workerVars, ExitsStay,
                        OutsideLoop
    <3> QED
      BY <1>2, <3>1, <3>2, <3>3 DEF MainStep
  <2> QED
    BY <2>1, <2>2, WaitsFrame DEF CountsStay, SyncStays
<1> QED
  BY <1>2, InitTableWaits

LEMMA WaitNextInv == WaitInv /\ [BenchNext]_allVars => WaitInv'
<1> SUFFICES ASSUME WaitInv, [BenchNext]_allVars PROVE WaitInv'
  OBVIOUS
<1>1. BenchInv'
  BY BenchNextInv DEF WaitInv
<1>2. ASSUME NEW t \in Workers, WakeSpuriously(t)
      PROVE  WaitsKept /\ NothingRecordedAhead'
  <2>1. /\ th \in [Workers -> WorkerPCs] /\ Readers \subseteq Workers
    BY Numbers DEF WaitInv, BenchInv, BenchTypeOK
  <2>2. ExitsStay /\ \A q \in Readers : OutsideLoop(q)' => OutsideLoop(q)
    BY <1>2, <2>1 DEF WakeSpuriously, WorkerAt, ExitsStay, OutsideLoop
  <2> QED
    BY <1>2, <2>2, WaitsFrame
       DEF WakeSpuriously, rtVars, rcuVars, mainVars, CountsStay, SyncStays
<1>3. ASSUME UNCHANGED allVars
      PROVE  WaitsKept /\ NothingRecordedAhead'
  <2>1. /\ UNCHANGED <<slot, inUse, seq, rpc, spc, idx, waiting, owed>>
        /\ UNCHANGED <<round, done, late, th>>
    BY <1>3 DEF allVars, benchVars, mainVars, workerVars, rtVars, rcuVars
  <2>2. CountsStay /\ SyncStays
    BY <2>1 DEF CountsStay, SyncStays
  <2>3. ExitsStay /\ \A q \in Readers : OutsideLoop(q)' => OutsideLoop(q)
    BY <2>1 DEF ExitsStay, OutsideLoop
  <2> QED
    BY <2>2, <2>3, WaitsFrame
<1>4. WaitsKept /\ NothingRecordedAhead'
  <2>1. CASE MainStep
    BY <2>1, MainWaits
  <2>2. ASSUME NEW r \in Readers, ReaderGoesOn(r)
        PROVE  WaitsKept /\ NothingRecordedAhead'
    BY <2>2, ReaderWaits
  <2>3. ASSUME NEW u \in Updaters, WriterGoesOn(u)
        PROVE  WaitsKept /\ NothingRecordedAhead'
    BY <2>3, WriterWaits
  <2> QED
    BY <1>2, <1>3, <2>1, <2>2, <2>3 DEF BenchNext, Ended
<1> QED
  BY <1>1, <1>4 DEF WaitInv, WaitsKept

LEMMA WaitInitInv == BenchInit => WaitInv
<1> SUFFICES ASSUME BenchInit PROVE WaitInv
  OBVIOUS
<1>1. /\ spc = [u \in Updaters |-> "idle"]
      /\ slot = [r \in Readers |-> Nobody]
      /\ rpc = [r \in Readers |-> "new"]
  BY DEF BenchInit, Rt!Init, Rt!RcuInit
<1>2. RecordedIsOwners /\ NothingRecordedAhead
  BY <1>1, IdleRecordsNothing DEF RecordedIsOwners, NothingRecordedAhead
<1>3. CountsItsLookups
  <2>1. \A r \in Readers : done[r] = 0 /\ rpc[r] = "new" /\ slot[r] = Nobody
    BY <1>1, Numbers DEF BenchInit
  <2>2. 0 <= Reads
    BY RoundAssumption
  <2> QED
    BY <2>1, <2>2 DEF CountsItsLookups
<1> QED
  BY <1>2, <1>3, BenchInitInv DEF WaitInv

(***************************************************************************)
(* rcu.c:151, "this exact read-side section", as bench.c:93-134 has it: in *)
(* a round in which every reader has registered before one returns, a poll *)
(* that blocks does so for the section that the scan recorded.             *)
(***************************************************************************)
THEOREM WaitsExactly == BenchSpec => []ExactUnlessLate
<1>1. BenchSpec => []WaitInv
  BY WaitInitInv, WaitNextInv, PTL DEF BenchSpec
<1>2. ASSUME WaitInv PROVE ExactUnlessLate
  <2>1. SUFFICES ASSUME ~late, NEW u \in Updaters, NEW s \in Round!Slots,
                        Recorded(u, s), seq[s] = waiting[u][s]
                 PROVE  \E r \in owed[u] : slot[r] = s
    BY ReadersSlots
       DEF ExactUnlessLate, WaitsForExactSection, Rt!WaitsForExactSection,
           Rt!Pending, Rt!Odd, Rt!StillWaiting, Recorded, Round!Pending,
           Round!Odd, WaitInv, BenchInv, Rt!Slots, Round!Slots
  <2>2. ~OwnerIsGone(s)
    BY <2>1 DEF OwnerIsGone, Recorded, Round!Odd
  <2>3. PICK r \in Readers : /\ slot[r] = s
                             /\ waiting[u][s] = Sections(r) => r \in owed[u]
    BY <1>2, <2>1, <2>2 DEF WaitInv, RecordedIsOwners, OwnersSection
  <2>4. Rcu
    <3>1. spc[u] # "idle"
      BY <2>1 DEF Recorded, Round!Pending
    <3> QED
      BY <1>2, <3>1, OutsideUpdateIdle DEF WaitInv
  <2>5. slot[r] # Nobody
    BY <1>2, <2>3, ReadersSlots DEF WaitInv, BenchInv
  <2>6. seq[s] = IF Sections(r) = 2 * HalfWord THEN 0 ELSE Sections(r)
    BY <1>2, <2>3, <2>4, <2>5 DEF WaitInv, CountsItsLookups
  <2>7. seq[s] # 0
    BY <2>1 DEF Recorded, Round!Odd
  <2> QED
    BY <2>1, <2>3, <2>6, <2>7
<1> QED
  BY <1>1, <1>2, PTL

=============================================================================
