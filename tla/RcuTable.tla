------------------------------ MODULE RcuTable ------------------------------
(***************************************************************************)
(* The read-mostly table of week 4 on top of Rcu (table.c:31-107).  An     *)
(* update copies the latest version, changes the copy, publishes it, waits *)
(* a grace period and frees the old version.  A lookup reads through the   *)
(* published pointer inside a read-side section.                           *)
(*                                                                         *)
(* A version is {gen, val[64]} with val[k] = gen * 64 + k.  The 64 values  *)
(* become one field `val`, the generation they were computed from: a read  *)
(* is consistent when val = gen.  Addresses are finite, and freed ones are *)
(* handed out again by malloc.                                             *)
(*                                                                         *)
(* The actions of Rcu are conjoined with what the table does in the same   *)
(* step, so that every behaviour of this module is one of Rcu's.           *)
(***************************************************************************)
EXTENDS Rcu, FiniteSets

CONSTANTS
    Addrs,          \* addresses malloc can answer with
    MaxUpdates      \* model bound: updates begun

ASSUME AddrAssumption   == Nobody \notin Addrs /\ Addrs # {}
ASSUME NobodyAssumption == Nobody \notin Nat
ASSUME UpdateAssumption == MaxUpdates \in Nat

VARIABLES
    allocated,  \* the addresses that are malloc'ed and not freed
    gen, val,   \* the two fields of the version at each address
    cur,        \* t->cur, the published version
    latest,     \* t->latest, guarded by the update mutex
    update,     \* holder of t->update, or Nobody
    freed,      \* the counter of rt_freed()
    alive,      \* between rt_init and rt_destroy
    tpc,        \* where each updater is in rt_update
    old, nv,    \* rt_update's locals
    lpc,        \* where each reader is in rt_lookup
    p, x, ok    \* rt_lookup's locals v, x and ok

memVars     == <<allocated, gen, val>>
sharedVars  == <<cur, latest, update, freed, alive>>
updaterVars == <<tpc, old, nv>>
lookupVars  == <<lpc, p, x, ok>>
versionVars == <<memVars, sharedVars, updaterVars, lookupVars>>
vars        == <<rcuVars, versionVars>>

\* What a version holds before it is filled and after it is freed.
Garbage == -1

\* rt_init.  `v` is the version it allocates.
TableInit ==
    \E v \in Addrs :
        /\ allocated = {v}
        /\ gen = [a \in Addrs |-> IF a = v THEN 0 ELSE Garbage]
        /\ val = [a \in Addrs |-> IF a = v THEN 0 ELSE Garbage]
        /\ cur = v
        /\ latest = v
        /\ update = Nobody
        /\ freed = 0
        /\ alive = TRUE
        /\ tpc = [u \in Updaters |-> "idle"]
        /\ old = [u \in Updaters |-> Nobody]
        /\ nv = [u \in Updaters |-> Nobody]
        /\ lpc = [r \in Readers |-> "none"]
        /\ p = [r \in Readers |-> Nobody]
        /\ x = [r \in Readers |-> 0]
        /\ ok = [r \in Readers |-> TRUE]

Init == RcuInit /\ TableInit

(***************************************************************************)
(* rt_lookup                                                               *)
(***************************************************************************)
At(r, here, there) == lpc[r] = here /\ lpc' = [lpc EXCEPT ![r] = there]

LookupLock(r) ==
    /\ alive
    /\ At(r, "none", "deref")
    /\ ReadLock(r)
    /\ UNCHANGED <<memVars, sharedVars, updaterVars, p, x, ok>>

LookupDeref(r) ==
    /\ At(r, "deref", "val")
    /\ p' = [p EXCEPT ![r] = cur]
    /\ UNCHANGED <<rcuVars, memVars, sharedVars, updaterVars, x, ok>>

LookupVal(r) ==
    /\ At(r, "val", "gen")
    /\ x' = [x EXCEPT ![r] = val[p[r]]]
    /\ UNCHANGED <<rcuVars, memVars, sharedVars, updaterVars, p, ok>>

LookupConsistent(r) ==
    /\ At(r, "gen", "unlock")
    /\ ok' = [ok EXCEPT ![r] = (x[r] = gen[p[r]])]
    /\ UNCHANGED <<rcuVars, memVars, sharedVars, updaterVars, p, x>>

\* The locals are dead once the section has ended.
LookupUnlock(r) ==
    /\ At(r, "unlock", "none")
    /\ ReadUnlock(r)
    /\ p' = [p EXCEPT ![r] = Nobody]
    /\ x' = [x EXCEPT ![r] = 0]
    /\ ok' = [ok EXCEPT ![r] = TRUE]
    /\ UNCHANGED <<memVars, sharedVars, updaterVars>>

LookupSteps(r) ==
    \/ LookupLock(r) \/ LookupDeref(r) \/ LookupVal(r)
    \/ LookupConsistent(r) \/ LookupUnlock(r)

\* Outside its lookups, and in the count that ends one, a reader does not
\* touch the table.
OutsideLookup(r) ==
    /\ Register(r) \/ Unregister(r) \/ CountRead(r)
    /\ UNCHANGED versionVars

(***************************************************************************)
(* rt_update                                                               *)
(***************************************************************************)
Go(u, here, there) == tpc[u] = here /\ tpc' = [tpc EXCEPT ![u] = there]

Updating == {u \in Updaters : tpc[u] # "idle"}

\* The copy is allocated before the update mutex is taken.  When malloc
\* fails, rt_update returns -1 and nothing has changed.
UpdateMalloc(u) ==
    /\ alive
    /\ freed + Cardinality(Updating) < MaxUpdates
    /\ Go(u, "idle", "lock")
    /\ \E a \in Addrs \ allocated :
          /\ allocated' = allocated \cup {a}
          /\ nv' = [nv EXCEPT ![u] = a]
    /\ UNCHANGED <<rcuVars, gen, val, sharedVars, old, lookupVars>>

\* Lock, old = t->latest, memcpy(nv, old).
UpdateLock(u) ==
    /\ update = Nobody
    /\ Go(u, "lock", "gen")
    /\ update' = u
    /\ old' = [old EXCEPT ![u] = latest]
    /\ gen' = [gen EXCEPT ![nv[u]] = gen[latest]]
    /\ val' = [val EXCEPT ![nv[u]] = val[latest]]
    /\ UNCHANGED <<rcuVars, allocated, cur, latest, freed, alive, nv,
                   lookupVars>>

\* fill(nv, old->gen + 1), which stores the generation and then the values.
FillGen(u) ==
    /\ Go(u, "gen", "val")
    /\ gen' = [gen EXCEPT ![nv[u]] = gen[old[u]] + 1]
    /\ UNCHANGED <<rcuVars, allocated, val, sharedVars, old, nv, lookupVars>>

FillVal(u) ==
    /\ Go(u, "val", "publish")
    /\ val' = [val EXCEPT ![nv[u]] = gen[nv[u]]]
    /\ UNCHANGED <<rcuVars, allocated, gen, sharedVars, old, nv, lookupVars>>

Publish(u) ==
    /\ Go(u, "publish", "latest")
    /\ cur' = nv[u]
    /\ UNCHANGED <<rcuVars, memVars, latest, update, freed, alive, old, nv,
                   lookupVars>>

\* Mutant: the latest version stays the old one.
SetLatestNot(u) ==
    /\ Go(u, "latest", "call")
    /\ UNCHANGED <<rcuVars, memVars, sharedVars, old, nv, lookupVars>>

SetLatest(u) ==
    /\ Go(u, "latest", "call")
    /\ latest' = nv[u]
    /\ UNCHANGED <<rcuVars, memVars, cur, update, freed, alive, old, nv,
                   lookupVars>>

UpdateSync(u) ==
    /\ Go(u, "call", "sync")
    /\ SyncCall(u)
    /\ UNCHANGED <<memVars, sharedVars, old, nv, lookupVars>>

InSync(u) ==
    /\ tpc[u] = "sync"
    /\ SyncStep(u)
    /\ UNCHANGED versionVars

\* Mutant: the old version is never freed.
FreeNot(u) ==
    /\ Go(u, "sync", "count")
    /\ SyncDone(u)
    /\ UNCHANGED <<memVars, sharedVars, old, nv, lookupVars>>

\* The return of synchronize_rcu and free(old).
Free(u) ==
    /\ Go(u, "sync", "count")
    /\ SyncDone(u)
    /\ allocated' = allocated \ {old[u]}
    /\ gen' = [gen EXCEPT ![old[u]] = Garbage]
    /\ val' = [val EXCEPT ![old[u]] = Garbage]
    /\ UNCHANGED <<sharedVars, old, nv, lookupVars>>

CountFreed(u) ==
    /\ Go(u, "count", "unlock")
    /\ freed' = freed + 1
    /\ UNCHANGED <<rcuVars, memVars, cur, latest, update, alive, old, nv,
                   lookupVars>>

\* Mutant: the update mutex stays locked.
UpdateUnlockNot(u) ==
    /\ Go(u, "unlock", "idle")
    /\ old' = [old EXCEPT ![u] = Nobody]
    /\ nv' = [nv EXCEPT ![u] = Nobody]
    /\ UNCHANGED <<rcuVars, memVars, sharedVars, lookupVars>>

\* The locals are dead once rt_update has returned.
UpdateUnlock(u) ==
    /\ Go(u, "unlock", "idle")
    /\ update' = Nobody
    /\ old' = [old EXCEPT ![u] = Nobody]
    /\ nv' = [nv EXCEPT ![u] = Nobody]
    /\ UNCHANGED <<rcuVars, memVars, cur, latest, freed, alive, lookupVars>>

UpdateSteps(u) ==
    \/ UpdateMalloc(u) \/ UpdateLock(u) \/ FillGen(u) \/ FillVal(u)
    \/ Publish(u) \/ SetLatest(u) \/ UpdateSync(u) \/ InSync(u)
    \/ Free(u) \/ CountFreed(u) \/ UpdateUnlock(u)

(***************************************************************************)
(* rt_destroy, called when no reader is inside (table.h:39) and, as in the *)
(* tests and the benchmark, when no thread will use the table again.       *)
(***************************************************************************)
Destroy ==
    /\ alive
    /\ Updating = {}
    /\ \A r \in Readers : ~Inside(r)
    /\ alive' = FALSE
    /\ allocated' = allocated \ {latest}
    /\ gen' = [gen EXCEPT ![latest] = Garbage]
    /\ val' = [val EXCEPT ![latest] = Garbage]
    /\ UNCHANGED <<rcuVars, cur, latest, update, freed, updaterVars,
                   lookupVars>>

Next ==
    \/ \E r \in Readers : LookupSteps(r) \/ OutsideLookup(r)
    \/ \E u \in Updaters : UpdateSteps(u)
    \/ Destroy

Spec == Init /\ [][Next]_vars

(***************************************************************************)
(* Fairness: a thread that has begun a lookup or an update goes on with    *)
(* it.  The mutexes are only weakly fair.                                  *)
(***************************************************************************)
LookupGoesOn(r) ==
    \/ LookupDeref(r) \/ LookupVal(r) \/ LookupConsistent(r) \/ LookupUnlock(r)
    \/ CountRead(r) /\ UNCHANGED versionVars

UpdateGoesOn(u) ==
    \/ UpdateLock(u) \/ FillGen(u) \/ FillVal(u) \/ Publish(u) \/ SetLatest(u)
    \/ UpdateSync(u) \/ InSync(u)
    \/ Free(u) \/ CountFreed(u) \/ UpdateUnlock(u)

Fairness ==
    /\ \A r \in Readers : WF_vars(LookupGoesOn(r))
    /\ \A u \in Updaters : WF_vars(UpdateGoesOn(u))

FairSpec == Spec /\ Fairness

-----------------------------------------------------------------------------
(***************************************************************************)
(* Properties                                                              *)
(***************************************************************************)
LookupPCs == {"none", "deref", "val", "gen", "unlock"}
UpdatePCs == {"idle", "lock", "gen", "val", "publish", "latest", "call",
              "sync", "count", "unlock"}

Content == Nat \cup {Garbage}

\* The type invariant of the table's state.
TableTypeOK ==
    /\ allocated \in SUBSET Addrs
    /\ gen \in [Addrs -> Content]
    /\ val \in [Addrs -> Content]
    /\ cur \in Addrs
    /\ latest \in Addrs
    /\ update \in Updaters \cup {Nobody}
    /\ freed \in Nat
    /\ alive \in BOOLEAN
    /\ tpc \in [Updaters -> UpdatePCs]
    /\ old \in [Updaters -> Addrs \cup {Nobody}]
    /\ nv \in [Updaters -> Addrs \cup {Nobody}]
    /\ lpc \in [Readers -> LookupPCs]
    /\ p \in [Readers -> Addrs \cup {Nobody}]
    /\ x \in [Readers -> Content]
    /\ ok \in [Readers -> BOOLEAN]

TypeOK == RcuTypeOK /\ TableTypeOK

\* table.c:79.  A version is freed only when no reader can still use it: from
\* the dereference to the end of the section it stays allocated.
NoUseAfterFree ==
    \A r \in Readers :
        lpc[r] \in {"val", "gen", "unlock"} => p[r] \in allocated

\* table.h:8-10.  A lookup never reports a torn read.
NoTornRead == \A r \in Readers : lpc[r] = "unlock" => ok[r]

\* table.c:77-79 and the test "50 updates free exactly 50 old versions".
\* Between updates, the only version left is the current one, the counter of
\* freed versions is its generation, and a copy waits for each updater that
\* has allocated one and not got the mutex.  After rt_destroy nothing is left.
NothingLeaked ==
    update = Nobody =>
        /\ allocated = (IF alive THEN {cur} ELSE {})
                         \cup {nv[u] : u \in {v \in Updaters : tpc[v] = "lock"}}
        /\ alive => cur = latest /\ freed = gen[cur]

\* table.c:65, 90.  Updaters queue up for the update mutex behind one that waits
\* for readers and wants the registry lock: still, while an update is under
\* way, some updater can go on, or a lookup is, which nothing delays.
Waits(u) ==
    \/ tpc[u] = "lock" /\ update # Nobody
    \/ tpc[u] = "sync" /\ upc[u] = "lock" /\ registry # Nobody
    \/ tpc[u] = "sync" /\ upc[u] = "poll" /\ StillWaiting(u, idx[u])

SomebodyGetsOn ==
    Updating # {} => \/ \E u \in Updating : ~Waits(u)
                     \/ \E r \in Readers : lpc[r] # "none"

\* Any update that has allocated its copy finishes.
UpdateTerminates == \A u \in Updaters : tpc[u] = "lock" ~> tpc[u] = "idle"

\* table.h: the table answers as if updates and lookups were instantaneous.
\* The linearization points are the dereference and the publication; after
\* rt_destroy the version is the last one there was.
AnswerOf(r) ==
    CASE lpc[r] \in {"val", "gen"} -> gen[p[r]]
      [] lpc[r] = "unlock" /\ ok[r] -> x[r]
      [] lpc[r] = "unlock" /\ ~ok[r] -> Garbage
      [] OTHER -> Nobody

Version == IF alive THEN gen[cur] ELSE freed

Abstract == INSTANCE VersionedTable WITH
    NoAnswer <- Nobody,
    version <- Version,
    answer <- [r \in Readers |-> AnswerOf(r)]

ImplementsVersionedTable == Abstract!Spec
=============================================================================
