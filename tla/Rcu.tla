-------------------------------- MODULE Rcu --------------------------------
(***************************************************************************)
(* The user-space RCU of week 4 (rcu.h, rcu.c): a registry of reader slots *)
(* whose counters are odd inside a read-side section, and synchronize_rcu, *)
(* which looks at every slot once under the registry lock and then, with   *)
(* the lock released, waits for each section it saw to end.                *)
(*                                                                         *)
(* Every atomic access to memory shared without a lock is a step of its    *)
(* own; steps are sequentially consistent (module Handshake asks what the  *)
(* weaker orderings of orders.h would do).  What runs under the registry   *)
(* lock in rcu_register and rcu_unregister is one step: the only location  *)
(* it shares with code outside the lock is `seq`, which it stores once.    *)
(*                                                                         *)
(* Readers and Updaters are threads.  They keep the restrictions of        *)
(* rcu.h:9-12: sections do not nest, no section calls synchronize_rcu, and *)
(* a reader unregisters outside its sections.                              *)
(***************************************************************************)
EXTENDS Integers

CONSTANTS
    Readers,        \* threads that read
    Updaters,       \* threads that call synchronize_rcu
    MaxReaders,     \* RCU_MAX_READERS: the number of registry slots
    HalfWord,       \* an unsigned long counts modulo 2 * HalfWord
    SectionBound,   \* model bound: a section begins only below this counter
    SlotReuse,      \* may a slot be registered after some reader has left?
    Nobody          \* no thread, no slot

ASSUME ThreadAssumption == /\ Readers \cap Updaters = {}
                           /\ Nobody \notin Updaters
ASSUME SlotAssumption   == /\ MaxReaders \in Nat
                           /\ Nobody \notin 0 .. MaxReaders - 1
ASSUME WordAssumption   == HalfWord \in Nat \ {0}
ASSUME BoundAssumption  == SectionBound \in Nat /\ SlotReuse \in BOOLEAN

Slots == 0 .. MaxReaders - 1

WordMod == 2 * HalfWord
Words   == 0 .. WordMod - 1

VARIABLES
    inUse,      \* readers[i].in_use
    localSeq,   \* readers[i].local_seq, the owner's private copy
    seq,        \* readers[i].seq, the counter synchronize_rcu looks at
    reads,      \* readers[i].reads, statistics
    registry,   \* holder of the registry mutex across steps, or Nobody
    syncWaits,  \* sync_waits, statistics
    slot,       \* the rcu_reader * each reader thread holds, or Nobody
    rpc,        \* where each reader is
    upc,        \* where each updater is in synchronize_rcu
    idx,        \* the loop index i of synchronize_rcu
    waiting,    \* the local array waiting[]: the counter recorded for each
                \* slot, 0 (even) when the slot has no entry
    owed        \* history: the readers whose present section the updater has
                \* to outlast - begun before the call, or seen by the scan

readerVars == <<inUse, localSeq, seq, reads, slot, rpc>>
syncVars   == <<upc, idx, waiting>>
rcuVars    == <<readerVars, registry, syncWaits, syncVars, owed>>

Odd(n) == n % 2 = 1

Inc(n) == IF n + 1 = WordMod THEN 0 ELSE n + 1

Inside(r) == rpc[r] = "in"

NoEntries == [s \in Slots |-> 0]

RcuInit ==
    /\ inUse = [s \in Slots |-> FALSE]
    /\ localSeq = [s \in Slots |-> 0]
    /\ seq = [s \in Slots |-> 0]
    /\ reads = [s \in Slots |-> 0]
    /\ registry = Nobody
    /\ syncWaits = 0
    /\ slot = [r \in Readers |-> Nobody]
    /\ rpc = [r \in Readers |-> "new"]
    /\ upc = [u \in Updaters |-> "idle"]
    /\ idx = [u \in Updaters |-> 0]
    /\ waiting = [u \in Updaters |-> NoEntries]
    /\ owed = [u \in Updaters |-> {}]

(***************************************************************************)
(* Registration.  The first free slot, its counters reset.  A full         *)
(* registry answers NULL and changes nothing.                              *)
(***************************************************************************)

\* The client's part: a thread registers when it starts (bench.c), or again and
\* again.
MayRegister(r) ==
    \/ rpc[r] = "new" /\ \A q \in Readers : rpc[q] # "gone"
    \/ rpc[r] \in {"new", "gone"} /\ SlotReuse

\* Mutant: the slot is not marked as in use.
ClaimUnmarked(s) ==
    /\ UNCHANGED inUse
    /\ localSeq' = [localSeq EXCEPT ![s] = 0]
    /\ seq' = [seq EXCEPT ![s] = 0]
    /\ reads' = [reads EXCEPT ![s] = 0]

\* Mutant: the statistics of the previous owner stay.
ClaimKeepingReads(s) ==
    /\ inUse' = [inUse EXCEPT ![s] = TRUE]
    /\ localSeq' = [localSeq EXCEPT ![s] = 0]
    /\ seq' = [seq EXCEPT ![s] = 0]
    /\ UNCHANGED reads

Claim(s) ==
    /\ inUse' = [inUse EXCEPT ![s] = TRUE]
    /\ localSeq' = [localSeq EXCEPT ![s] = 0]
    /\ seq' = [seq EXCEPT ![s] = 0]
    /\ reads' = [reads EXCEPT ![s] = 0]

Register(r) ==
    /\ MayRegister(r)
    /\ registry = Nobody
    /\ \E s \in Slots :
          /\ ~inUse[s]
          /\ \A i \in 0 .. s - 1 : inUse[i]
          /\ Claim(s)
          /\ slot' = [slot EXCEPT ![r] = s]
    /\ rpc' = [rpc EXCEPT ![r] = "out"]
    /\ UNCHANGED <<registry, syncWaits, syncVars, owed>>

Unregister(r) ==
    /\ rpc[r] = "out"
    /\ registry = Nobody
    /\ inUse' = [inUse EXCEPT ![slot[r]] = FALSE]
    /\ slot' = [slot EXCEPT ![r] = Nobody]
    /\ rpc' = [rpc EXCEPT ![r] = "gone"]
    /\ UNCHANGED <<localSeq, seq, reads, registry, syncWaits, syncVars, owed>>

(***************************************************************************)
(* The read path.  rcu_read_unlock makes two atomic stores, the EXIT store *)
(* and then the statistics: two steps.                                     *)
(***************************************************************************)
ReadLock(r) ==
    /\ rpc[r] = "out"
    /\ localSeq[slot[r]] < SectionBound
    /\ localSeq' = [localSeq EXCEPT ![slot[r]] = Inc(@)]
    /\ seq' = [seq EXCEPT ![slot[r]] = localSeq'[slot[r]]]
    /\ rpc' = [rpc EXCEPT ![r] = "in"]
    /\ UNCHANGED <<inUse, reads, slot, registry, syncWaits, syncVars, owed>>

ReadUnlock(r) ==
    /\ rpc[r] = "in"
    /\ localSeq' = [localSeq EXCEPT ![slot[r]] = Inc(@)]
    /\ seq' = [seq EXCEPT ![slot[r]] = localSeq'[slot[r]]]
    /\ rpc' = [rpc EXCEPT ![r] = "left"]
    /\ owed' = [u \in Updaters |-> owed[u] \ {r}]
    /\ UNCHANGED <<inUse, reads, slot, registry, syncWaits, syncVars>>

CountRead(r) ==
    /\ rpc[r] = "left"
    /\ reads' = [reads EXCEPT ![slot[r]] = Inc(@)]
    /\ rpc' = [rpc EXCEPT ![r] = "out"]
    /\ UNCHANGED <<inUse, localSeq, seq, slot, registry, syncWaits, syncVars,
                   owed>>

(***************************************************************************)
(* synchronize_rcu.  The call, the registry lock, one look per slot, the   *)
(* unlock, then for each entry of waiting[] one count and as many polls as *)
(* it takes.                                                               *)
(***************************************************************************)
SyncCall(u) ==
    /\ upc[u] = "idle"
    /\ upc' = [upc EXCEPT ![u] = "lock"]
    /\ owed' = [owed EXCEPT ![u] = {r \in Readers : Inside(r)}]
    /\ UNCHANGED <<readerVars, registry, syncWaits, idx, waiting>>

SyncLock(u) ==
    /\ upc[u] = "lock"
    /\ registry = Nobody
    /\ registry' = u
    /\ upc' = [upc EXCEPT ![u] = "scan"]
    /\ idx' = [idx EXCEPT ![u] = 0]
    /\ waiting' = [waiting EXCEPT ![u] = NoEntries]
    /\ UNCHANGED <<readerVars, syncWaits, owed>>

SyncScan(u) ==
    LET s == idx[u] IN
    /\ upc[u] = "scan"
    /\ s < MaxReaders
    /\ waiting' = IF inUse[s] /\ Odd(seq[s])
                  THEN [waiting EXCEPT ![u][s] = seq[s]]
                  ELSE waiting
    /\ idx' = [idx EXCEPT ![u] = s + 1]
    /\ owed' = [owed EXCEPT ![u] =
                   @ \cup {r \in Readers : Inside(r) /\ slot[r] = s}]
    /\ UNCHANGED <<readerVars, registry, syncWaits, upc>>

\* Mutant: the loop leaves out the last slot.
SyncUnlockEarly(u) ==
    /\ upc[u] = "scan"
    /\ idx[u] = MaxReaders - 1
    /\ registry' = Nobody
    /\ upc' = [upc EXCEPT ![u] = "next"]
    /\ idx' = [idx EXCEPT ![u] = 0]
    /\ UNCHANGED <<readerVars, syncWaits, waiting, owed>>

SyncUnlock(u) ==
    /\ upc[u] = "scan"
    /\ idx[u] = MaxReaders
    /\ registry' = Nobody
    /\ upc' = [upc EXCEPT ![u] = "next"]
    /\ idx' = [idx EXCEPT ![u] = 0]
    /\ UNCHANGED <<readerVars, syncWaits, waiting, owed>>

\* The next entry of waiting[]: the lowest slot from idx on that has one.
SyncNext(u) ==
    /\ upc[u] = "next"
    /\ \E s \in Slots :
          /\ s >= idx[u]
          /\ Odd(waiting[u][s])
          /\ \A i \in idx[u] .. s - 1 : ~Odd(waiting[u][i])
          /\ idx' = [idx EXCEPT ![u] = s]
    /\ upc' = [upc EXCEPT ![u] = "poll"]
    /\ syncWaits' = Inc(syncWaits)
    /\ UNCHANGED <<readerVars, registry, waiting, owed>>

\* Mutant: the poll waits for a counter that is even.
StillWaitingIfOdd(u, s) == Odd(seq[s])

\* Mutant: the poll waits until the counter has passed the recorded one.
StillWaitingUntilPassed(u, s) == seq[s] <= waiting[u][s]

\* A poll that finds the recorded counter unchanged yields and polls again.
StillWaiting(u, s) == seq[s] = waiting[u][s]

SyncPoll(u) ==
    /\ upc[u] = "poll"
    /\ ~StillWaiting(u, idx[u])
    /\ upc' = [upc EXCEPT ![u] = "next"]
    /\ idx' = [idx EXCEPT ![u] = @ + 1]
    /\ UNCHANGED <<readerVars, registry, syncWaits, waiting, owed>>

SyncReturn(u) ==
    /\ upc[u] = "next"
    /\ \A i \in Slots : i >= idx[u] => ~Odd(waiting[u][i])
    /\ upc' = [upc EXCEPT ![u] = "returned"]
    /\ UNCHANGED <<readerVars, registry, syncWaits, idx, waiting, owed>>

\* The caller goes on; module RcuTable says with what.
SyncDone(u) ==
    /\ upc[u] = "returned"
    /\ upc' = [upc EXCEPT ![u] = "idle"]
    /\ UNCHANGED <<readerVars, registry, syncWaits, idx, waiting, owed>>

ReaderStep(r) ==
    \/ Register(r) \/ Unregister(r)
    \/ ReadLock(r) \/ ReadUnlock(r) \/ CountRead(r)

\* The steps inside synchronize_rcu, from the call on.
SyncStep(u) ==
    \/ SyncLock(u) \/ SyncScan(u) \/ SyncUnlock(u)
    \/ SyncNext(u) \/ SyncPoll(u) \/ SyncReturn(u)

RcuNext ==
    \/ \E r \in Readers : ReaderStep(r)
    \/ \E u \in Updaters : SyncStep(u) \/ SyncCall(u) \/ SyncDone(u)

RcuSpec == RcuInit /\ [][RcuNext]_rcuVars

-----------------------------------------------------------------------------
(***************************************************************************)
(* Properties                                                              *)
(***************************************************************************)
ReaderPCs  == {"new", "out", "in", "left", "gone"}
UpdaterPCs == {"idle", "lock", "scan", "next", "poll", "returned"}

\* The type invariant of the library's state.
RcuTypeOK ==
    /\ inUse \in [Slots -> BOOLEAN]
    /\ localSeq \in [Slots -> Words]
    /\ seq \in [Slots -> Words]
    /\ reads \in [Slots -> Words]
    /\ registry \in Updaters \cup {Nobody}
    /\ syncWaits \in Words
    /\ slot \in [Readers -> Slots \cup {Nobody}]
    /\ rpc \in [Readers -> ReaderPCs]
    /\ upc \in [Updaters -> UpdaterPCs]
    /\ idx \in [Updaters -> 0 .. MaxReaders]
    /\ waiting \in [Updaters -> [Slots -> Words]]
    /\ owed \in [Updaters -> SUBSET Readers]

\* rcu.c:106-107.  When synchronize_rcu returns, every section that was
\* running when it was called, or that it saw, has ended - whatever readers
\* registered, left, re-entered or wrapped their counters meanwhile.
GracePeriod ==
    \A u \in Updaters : upc[u] = "returned" => owed[u] = {}

\* Updater u has looked at slot s and has not yet finished waiting for it.
Pending(u, s) ==
    \/ upc[u] = "scan" /\ s < idx[u]
    \/ upc[u] \in {"next", "poll"} /\ s >= idx[u]

\* rcu.c:144-152.  A poll that blocks does so for the very section the scan
\* recorded: a reader that leaves and re-enters at once does not delay the
\* updater.
WaitsForExactSection ==
    \A u \in Updaters, s \in Slots :
        Pending(u, s) /\ Odd(waiting[u][s]) /\ StillWaiting(u, s)
            => \E r \in owed[u] : slot[r] = s

\* rcu.c:109-115, 142-152.  Only a reader inside its section delays anybody for
\* long: the registry lock is kept for a scan and never while its holder waits,
\* and a poll blocks only while the present owner of the slot is inside -
\* whoever that is by now and however far the counters have come.
OnlyReadersDelay ==
    /\ registry # Nobody => upc[registry] = "scan"
    /\ \A u \in Updaters :
          upc[u] = "poll" /\ StillWaiting(u, idx[u])
              => \E r \in Readers : Inside(r) /\ slot[r] = idx[u]

\* Two threads never hold the same slot, a held slot is in use, and only
\* held slots are: rcu_register neither hands out a slot twice nor leaks one.
SlotsOwnedOnce ==
    /\ \A q, r \in Readers : slot[q] = slot[r] /\ slot[q] # Nobody => q = r
    /\ \A s \in Slots : inUse[s] <=> \E r \in Readers : slot[r] = s

\* rcu.h:25-26.  The counter and the statistics agree: two counts per
\* completed section, one more while a section runs or awaits its count.
CountersAgree ==
    \A r \in Readers : slot[r] # Nobody =>
        LET s == slot[r] IN
        seq[s] = (2 * reads[s] + CASE rpc[r] = "in"   -> 1
                                   [] rpc[r] = "left" -> 2
                                   [] OTHER           -> 0) % WordMod
=============================================================================
