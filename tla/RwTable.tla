------------------------------ MODULE RwTable ------------------------------
(***************************************************************************)
(* The baseline table of week 4 (table.c:109-137): one version in place,   *)
(* guarded by a readers-writer lock.  As in RcuTable, the 64 values of a   *)
(* version are one field, the generation they were computed from.          *)
(*                                                                         *)
(* The lock is POSIX's: any number of readers or one writer.  Which of     *)
(* those that wait gets it next is left open, as POSIX leaves it.          *)
(***************************************************************************)
EXTENDS Integers

CONSTANTS
    Readers,        \* threads that look keys up
    Updaters,       \* threads that update
    MaxUpdates,     \* model bound: the generation after which no
                    \* update begins
    Nobody          \* no thread, no generation

ASSUME NobodyAssumption == Nobody \notin Updaters /\ Nobody \notin Nat
ASSUME BoundAssumption  == MaxUpdates \in Nat

VARIABLES
    gen, val,           \* the fields of t->v
    readers, writer,    \* t->lock: who holds it for reading, for writing
    alive,              \* between rw_init and rw_destroy
    lpc, x, ok,         \* rw_lookup: control and locals
    upc                 \* rw_update: control

tableVars  == <<gen, val>>
lockVars   == <<readers, writer>>
lookupVars == <<lpc, x, ok>>
vars       == <<tableVars, lockVars, alive, lookupVars, upc>>

\* What a lookup that saw two generations answers.
Torn == -1

Init ==
    /\ gen = 0 /\ val = 0
    /\ readers = {} /\ writer = Nobody
    /\ alive = TRUE
    /\ lpc = [r \in Readers |-> "none"]
    /\ x = [r \in Readers |-> 0]
    /\ ok = [r \in Readers |-> TRUE]
    /\ upc = [u \in Updaters |-> "none"]

(***************************************************************************)
(* pthread_rwlock                                                          *)
(***************************************************************************)
RdLock(r)   == /\ writer = Nobody
               /\ readers' = readers \cup {r} /\ UNCHANGED writer
RdUnlock(r) == readers' = readers \ {r} /\ UNCHANGED writer
WrLock(u)   == /\ writer = Nobody /\ readers = {}
               /\ writer' = u /\ UNCHANGED readers
WrUnlock(u) == writer' = Nobody /\ UNCHANGED readers

(***************************************************************************)
(* rw_lookup                                                               *)
(***************************************************************************)
At(r, here, there) == lpc[r] = here /\ lpc' = [lpc EXCEPT ![r] = there]

LookupCall(r) ==
    /\ alive
    /\ At(r, "none", "lock")
    /\ UNCHANGED <<tableVars, lockVars, alive, x, ok, upc>>

LookupLock(r) ==
    /\ At(r, "lock", "val")
    /\ RdLock(r)
    /\ UNCHANGED <<tableVars, alive, x, ok, upc>>

LookupVal(r) ==
    /\ At(r, "val", "gen")
    /\ x' = [x EXCEPT ![r] = val]
    /\ UNCHANGED <<tableVars, lockVars, alive, ok, upc>>

LookupConsistent(r) ==
    /\ At(r, "gen", "unlock")
    /\ ok' = [ok EXCEPT ![r] = (x[r] = gen)]
    /\ UNCHANGED <<tableVars, lockVars, alive, x, upc>>

LookupUnlock(r) ==
    /\ At(r, "unlock", "return")
    /\ RdUnlock(r)
    /\ UNCHANGED <<tableVars, alive, x, ok, upc>>

\* The locals are dead once rw_lookup has returned.
LookupReturn(r) ==
    /\ At(r, "return", "none")
    /\ x' = [x EXCEPT ![r] = 0]
    /\ ok' = [ok EXCEPT ![r] = TRUE]
    /\ UNCHANGED <<tableVars, lockVars, alive, upc>>

LookupSteps(r) ==
    \/ LookupCall(r) \/ LookupLock(r) \/ LookupVal(r)
    \/ LookupConsistent(r) \/ LookupUnlock(r) \/ LookupReturn(r)

(***************************************************************************)
(* rw_update: fill(&t->v, t->v.gen + 1) under the lock, the generation     *)
(* first and then the values.                                              *)
(***************************************************************************)
Go(u, here, there) == upc[u] = here /\ upc' = [upc EXCEPT ![u] = there]

UpdateCall(u) ==
    /\ alive
    /\ gen < MaxUpdates
    /\ Go(u, "none", "lock")
    /\ UNCHANGED <<tableVars, lockVars, alive, lookupVars>>

\* Mutant: the lock keeps updates from each other, but not from lookups.
UpdateLockShared(u) ==
    /\ Go(u, "lock", "gen")
    /\ writer = Nobody
    /\ writer' = u
    /\ UNCHANGED <<tableVars, readers, alive, lookupVars>>

UpdateLock(u) ==
    /\ Go(u, "lock", "gen")
    /\ WrLock(u)
    /\ UNCHANGED <<tableVars, alive, lookupVars>>

FillGen(u) ==
    /\ Go(u, "gen", "val")
    /\ gen' = gen + 1
    /\ UNCHANGED <<val, lockVars, alive, lookupVars>>

FillVal(u) ==
    /\ Go(u, "val", "unlock")
    /\ val' = gen
    /\ UNCHANGED <<gen, lockVars, alive, lookupVars>>

UpdateUnlock(u) ==
    /\ Go(u, "unlock", "none")
    /\ WrUnlock(u)
    /\ UNCHANGED <<tableVars, alive, lookupVars>>

UpdateSteps(u) ==
    \/ UpdateCall(u) \/ UpdateLock(u) \/ FillGen(u) \/ FillVal(u)
    \/ UpdateUnlock(u)

\* rw_destroy, when no thread will use the table any more.
Destroy ==
    /\ alive
    /\ \A r \in Readers : lpc[r] = "none"
    /\ \A u \in Updaters : upc[u] = "none"
    /\ alive' = FALSE
    /\ UNCHANGED <<tableVars, lockVars, lookupVars, upc>>

Next ==
    \/ \E r \in Readers : LookupSteps(r)
    \/ \E u \in Updaters : UpdateSteps(u)
    \/ Destroy

Spec == Init /\ [][Next]_vars

-----------------------------------------------------------------------------
(***************************************************************************)
(* Properties                                                              *)
(***************************************************************************)
LookupPCs == {"none", "lock", "val", "gen", "unlock", "return"}
UpdatePCs == {"none", "lock", "gen", "val", "unlock"}

\* The type invariant.
TypeOK ==
    /\ gen \in Nat /\ val \in Nat
    /\ readers \in SUBSET Readers
    /\ writer \in Updaters \cup {Nobody}
    /\ alive \in BOOLEAN
    /\ lpc \in [Readers -> LookupPCs]
    /\ x \in [Readers -> Nat]
    /\ ok \in [Readers -> BOOLEAN]
    /\ upc \in [Updaters -> UpdatePCs]

\* table.h:8-10, table.c:117-132.  The table answers as if updates and
\* lookups were instantaneous, and never with a torn read: the same
\* specification as the RCU table's.  A lookup takes effect when it reads the
\* value, an update when it stores the generation.
AnswerOf(r) ==
    CASE lpc[r] = "gen" -> x[r]
      [] lpc[r] \in {"unlock", "return"} /\ ok[r] -> x[r]
      [] lpc[r] \in {"unlock", "return"} /\ ~ok[r] -> Torn
      [] OTHER -> Nobody

Abstract == INSTANCE VersionedTable WITH
    NoAnswer <- Nobody,
    version <- gen,
    answer <- [r \in Readers |-> AnswerOf(r)]

ImplementsVersionedTable == Abstract!Spec
=============================================================================
