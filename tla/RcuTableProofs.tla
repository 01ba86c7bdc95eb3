--------------------------- MODULE RcuTableProofs ---------------------------
(***************************************************************************)
(* Proofs about Rcu and RcuTable, for any number of readers, updaters,     *)
(* slots and addresses and any even width of the counters.  The library:   *)
(* its slots are owned once, synchronize_rcu is a grace period, and the    *)
(* statistics agree with the counters.  The table: it is a behaviour of    *)
(* Rcu, no version is freed under a reader, no lookup is torn, nothing     *)
(* leaks, and it implements VersionedTable.                                *)
(*                                                                         *)
(* The argument has two layers.  The library's invariant says that nothing *)
(* is owed when synchronize_rcu returns; the table's says that a reader    *)
(* holding a version that is no longer current is owed by the updater that *)
(* replaced it.                                                            *)
(***************************************************************************)
EXTENDS RcuTable, TLAPS

-----------------------------------------------------------------------------
(***************************************************************************)
(* The library.                                                            *)
(***************************************************************************)
(***************************************************************************)
(* The inductive invariant.                                                *)
(***************************************************************************)

\* A reader holds a slot exactly while it is registered.
Registered ==
    \A r \in Readers : slot[r] # Nobody <=> rpc[r] \in {"out", "in", "left"}

\* The counter of a held slot is odd exactly while its owner is inside, and
\* the owner's private copy is up to date.
ParityTellsInside ==
    \A r \in Readers : slot[r] # Nobody =>
        /\ localSeq[slot[r]] = seq[slot[r]]
        /\ Odd(seq[slot[r]]) <=> Inside(r)

\* The registry lock is held across steps by the updater that scans.
ScannerHoldsRegistry == \A u \in Updaters : registry = u <=> upc[u] = "scan"

\* An updater that owes a section a wait has not come to its slot yet, or it
\* has recorded the counter that slot still shows and will wait for it.
OwedIsPending ==
    \A u \in Updaters : \A r \in owed[u] :
        /\ Inside(r)
        /\ \/ upc[u] = "lock"
           \/ upc[u] = "scan" /\ slot[r] >= idx[u]
           \/ Pending(u, slot[r]) /\ waiting[u][slot[r]] = seq[slot[r]]

\* A poll looks at a slot: idx has not run past the last one.
PollsASlot == \A u \in Updaters : upc[u] = "poll" => idx[u] \in Slots

RcuInv ==
    /\ RcuTypeOK
    /\ SlotsOwnedOnce
    /\ Registered
    /\ ParityTellsInside
    /\ ScannerHoldsRegistry
    /\ OwedIsPending
    /\ PollsASlot

-----------------------------------------------------------------------------
(***************************************************************************)
(* A counter stays a word and changes parity when it is advanced, even at  *)
(* the wrap: the width of the counters is even.                            *)
(***************************************************************************)
LEMMA IncParity ==
    ASSUME NEW n \in Words
    PROVE  Inc(n) \in Words /\ (Odd(Inc(n)) <=> ~Odd(n))
BY WordAssumption DEF Words, WordMod, Inc, Odd

(***************************************************************************)
(* A registered reader's slot is a slot and in use.                        *)
(***************************************************************************)
LEMMA HeldSlot ==
    ASSUME RcuInv, NEW r \in Readers, slot[r] # Nobody
    PROVE  slot[r] \in Slots /\ inUse[slot[r]]
BY DEF RcuInv, RcuTypeOK, SlotsOwnedOnce

\* The invariant holds initially: no slot is in use and nothing is owed.
THEOREM RcuInitInv == RcuInit => RcuInv
BY SlotAssumption, WordAssumption, ThreadAssumption
   DEF RcuInit, RcuInv, RcuTypeOK, SlotsOwnedOnce, Registered,
       ParityTellsInside, ScannerHoldsRegistry, OwedIsPending, PollsASlot,
       Slots, Words, WordMod, ReaderPCs, UpdaterPCs, NoEntries

-----------------------------------------------------------------------------
(***************************************************************************)
(* Each action keeps the invariant.                                        *)
(***************************************************************************)
LEMMA RegisterInv ==
    ASSUME RcuInv, NEW r \in Readers, Register(r)
    PROVE  RcuInv'
<1> USE DEF RcuInv
<1>1. PICK s \in Slots :
          /\ ~inUse[s]
          /\ inUse' = [inUse EXCEPT ![s] = TRUE]
          /\ localSeq' = [localSeq EXCEPT ![s] = 0]
          /\ seq' = [seq EXCEPT ![s] = 0]
          /\ reads' = [reads EXCEPT ![s] = 0]
          /\ slot' = [slot EXCEPT ![r] = s]
  BY DEF Register, Claim
<1>2. slot[r] = Nobody /\ rpc' = [rpc EXCEPT ![r] = "out"]
  BY DEF Register, MayRegister, Registered
<1>3. /\ UNCHANGED <<registry, syncWaits, syncVars, owed>>
      /\ s # Nobody
      /\ 0 \in Words
  BY SlotAssumption, WordAssumption
     DEF Register, Slots, Words, WordMod
<1>4. \A q \in Readers : slot[q] # s
  BY <1>1 DEF SlotsOwnedOnce
<1>5. RcuTypeOK'
  BY <1>1, <1>2, <1>3 DEF RcuTypeOK, syncVars, ReaderPCs
<1>6. SlotsOwnedOnce'
  <2>1. \A q1, q2 \in Readers :
           slot'[q1] = slot'[q2] /\ slot'[q1] # Nobody => q1 = q2
    BY <1>1, <1>3, <1>4 DEF RcuTypeOK, SlotsOwnedOnce
  <2>2. ASSUME NEW t \in Slots
        PROVE  inUse'[t] <=> \E q \in Readers : slot'[q] = t
    <3>1. CASE t = s
      BY <1>1, <3>1 DEF RcuTypeOK
    <3>2. CASE t # s
      <4>1. inUse'[t] <=> \E q \in Readers : slot[q] = t
        BY <1>1, <3>2 DEF RcuTypeOK, SlotsOwnedOnce
      <4>2. slot[r] # t
        BY <1>2, SlotAssumption DEF Slots
      <4> QED
        BY <1>1, <3>2, <4>1, <4>2 DEF RcuTypeOK
    <3> QED
      BY <3>1, <3>2
  <2> QED
    BY <2>1, <2>2 DEF SlotsOwnedOnce
<1>7. Registered'
  BY <1>1, <1>2, <1>3 DEF RcuTypeOK, Registered
<1>8. ParityTellsInside'
  BY <1>1, <1>2, <1>3, <1>4 DEF RcuTypeOK, ParityTellsInside, Inside, Odd
<1>9. ScannerHoldsRegistry' /\ PollsASlot'
  BY <1>3 DEF ScannerHoldsRegistry, PollsASlot, syncVars
<1>10. OwedIsPending'
  BY <1>1, <1>2, <1>3, <1>4
     DEF RcuTypeOK, OwedIsPending, Inside, Pending, syncVars, MayRegister,
         Register
<1> QED
  BY <1>5, <1>6, <1>7, <1>8, <1>9, <1>10

\* rcu_unregister: a reader outside its section gives its slot back.
LEMMA UnregisterInv ==
    ASSUME RcuInv, NEW r \in Readers, Unregister(r)
    PROVE  RcuInv'
<1> USE DEF RcuInv
<1>1. slot[r] # Nobody
  BY DEF Unregister, Registered
<1>2. slot[r] \in Slots /\ Nobody \notin Slots
  BY <1>1, HeldSlot, SlotAssumption DEF Slots
<1>3. RcuTypeOK'
  BY <1>2 DEF Unregister, RcuTypeOK, syncVars, ReaderPCs
<1>4. SlotsOwnedOnce'
  BY <1>1, <1>2 DEF Unregister, RcuTypeOK, SlotsOwnedOnce
<1>5. Registered' /\ ParityTellsInside'
  BY <1>2 DEF Unregister, RcuTypeOK, Registered, ParityTellsInside, Inside
<1>6. ScannerHoldsRegistry' /\ PollsASlot' /\ OwedIsPending'
  BY DEF Unregister, RcuTypeOK, ScannerHoldsRegistry, PollsASlot,
         OwedIsPending, Inside, Pending, syncVars
<1> QED
  BY <1>3, <1>4, <1>5, <1>6

\* rcu_read_lock: the counter moves on and becomes odd.
LEMMA ReadLockInv ==
    ASSUME RcuInv, NEW r \in Readers, ReadLock(r)
    PROVE  RcuInv'
<1> USE DEF RcuInv
<1>1. slot[r] # Nobody
  BY DEF ReadLock, Registered
<1>2. slot[r] \in Slots /\ localSeq[slot[r]] = seq[slot[r]]
  BY <1>1, HeldSlot DEF ParityTellsInside
<1>3. /\ Inc(seq[slot[r]]) \in Words
      /\ Odd(Inc(seq[slot[r]])) <=> ~Odd(seq[slot[r]])
  BY <1>2, IncParity DEF RcuTypeOK
<1>4. /\ localSeq' = [localSeq EXCEPT ![slot[r]] = Inc(seq[slot[r]])]
      /\ seq' = [seq EXCEPT ![slot[r]] = Inc(seq[slot[r]])]
  BY <1>2 DEF ReadLock, RcuTypeOK
<1>5. RcuTypeOK'
  BY <1>2, <1>3, <1>4 DEF ReadLock, RcuTypeOK, syncVars, ReaderPCs
<1>6. SlotsOwnedOnce' /\ Registered'
  BY DEF ReadLock, RcuTypeOK, SlotsOwnedOnce, Registered
<1>7. ParityTellsInside'
  BY <1>1, <1>2, <1>3, <1>4
     DEF ReadLock, RcuTypeOK, SlotsOwnedOnce, ParityTellsInside, Inside
<1>8. ScannerHoldsRegistry' /\ PollsASlot'
  BY DEF ReadLock, ScannerHoldsRegistry, PollsASlot, syncVars
<1>9. OwedIsPending'
  BY <1>1, <1>2, <1>4
     DEF ReadLock, RcuTypeOK, SlotsOwnedOnce, OwedIsPending, Inside, Pending,
         syncVars, Registered
<1> QED
  BY <1>5, <1>6, <1>7, <1>8, <1>9

\* rcu_read_unlock, the EXIT store: the counter becomes even and no updater
\* owes this section any more.
LEMMA ReadUnlockInv ==
    ASSUME RcuInv, NEW r \in Readers, ReadUnlock(r)
    PROVE  RcuInv'
<1> USE DEF RcuInv
<1>1. slot[r] # Nobody
  BY DEF ReadUnlock, Registered
<1>2. slot[r] \in Slots /\ localSeq[slot[r]] = seq[slot[r]]
  BY <1>1, HeldSlot DEF ParityTellsInside
<1>3. /\ Inc(seq[slot[r]]) \in Words
      /\ Odd(Inc(seq[slot[r]])) <=> ~Odd(seq[slot[r]])
  BY <1>2, IncParity DEF RcuTypeOK
<1>4. /\ localSeq' = [localSeq EXCEPT ![slot[r]] = Inc(seq[slot[r]])]
      /\ seq' = [seq EXCEPT ![slot[r]] = Inc(seq[slot[r]])]
  BY <1>2 DEF ReadUnlock, RcuTypeOK
<1>5. RcuTypeOK'
  BY <1>2, <1>3, <1>4 DEF ReadUnlock, RcuTypeOK, syncVars, ReaderPCs
<1>6. SlotsOwnedOnce' /\ Registered'
  BY DEF ReadUnlock, RcuTypeOK, SlotsOwnedOnce, Registered
<1>7. ParityTellsInside'
  BY <1>1, <1>2, <1>3, <1>4
     DEF ReadUnlock, RcuTypeOK, SlotsOwnedOnce, ParityTellsInside, Inside
<1>8. ScannerHoldsRegistry' /\ PollsASlot'
  BY DEF ReadUnlock, ScannerHoldsRegistry, PollsASlot, syncVars
<1>9. OwedIsPending'
  BY <1>1, <1>2, <1>4
     DEF ReadUnlock, RcuTypeOK, SlotsOwnedOnce, OwedIsPending, Inside, Pending,
         syncVars, Registered
<1> QED
  BY <1>5, <1>6, <1>7, <1>8, <1>9

\* rcu_read_unlock, the statistics.
LEMMA CountReadInv ==
    ASSUME RcuInv, NEW r \in Readers, CountRead(r)
    PROVE  RcuInv'
<1> USE DEF RcuInv
<1>1. slot[r] # Nobody
  BY DEF CountRead, Registered
<1>2. slot[r] \in Slots /\ Inc(reads[slot[r]]) \in Words
  BY <1>1, HeldSlot, IncParity DEF RcuTypeOK
<1>3. RcuTypeOK'
  BY <1>2 DEF CountRead, RcuTypeOK, syncVars, ReaderPCs
<1>4. SlotsOwnedOnce' /\ Registered' /\ ParityTellsInside'
  BY DEF CountRead, RcuTypeOK, SlotsOwnedOnce, Registered, ParityTellsInside,
         Inside
<1>5. ScannerHoldsRegistry' /\ PollsASlot' /\ OwedIsPending'
  BY DEF CountRead, RcuTypeOK, ScannerHoldsRegistry, PollsASlot,
         OwedIsPending, Inside, Pending, syncVars
<1> QED
  BY <1>3, <1>4, <1>5

\* The call of synchronize_rcu owes every section that runs.
LEMMA SyncCallInv ==
    ASSUME RcuInv, NEW u \in Updaters, SyncCall(u)
    PROVE  RcuInv'
<1> USE DEF RcuInv
<1>1. RcuTypeOK'
  BY DEF SyncCall, RcuTypeOK, readerVars, UpdaterPCs
<1>2. SlotsOwnedOnce' /\ Registered' /\ ParityTellsInside'
  BY DEF SyncCall, SlotsOwnedOnce, Registered, ParityTellsInside, Inside,
         readerVars
<1>3. ScannerHoldsRegistry' /\ PollsASlot' /\ OwedIsPending'
  BY DEF SyncCall, RcuTypeOK, ScannerHoldsRegistry, PollsASlot,
         OwedIsPending, Inside, Pending, readerVars
<1> QED
  BY <1>1, <1>2, <1>3

\* synchronize_rcu takes the registry lock and clears waiting[].
LEMMA SyncLockInv ==
    ASSUME RcuInv, NEW u \in Updaters, SyncLock(u)
    PROVE  RcuInv'
<1> USE DEF RcuInv
<1>1. RcuTypeOK'
  BY SlotAssumption, WordAssumption
     DEF SyncLock, RcuTypeOK, readerVars, UpdaterPCs, NoEntries, Words, WordMod
<1>2. SlotsOwnedOnce' /\ Registered' /\ ParityTellsInside'
  BY DEF SyncLock, SlotsOwnedOnce, Registered, ParityTellsInside, Inside,
         readerVars
<1>3. ScannerHoldsRegistry' /\ PollsASlot'
  BY ThreadAssumption DEF SyncLock, RcuTypeOK, ScannerHoldsRegistry, PollsASlot
<1>4. OwedIsPending'
  <2>1. ASSUME NEW v \in Updaters, NEW r \in owed'[v]
        PROVE  /\ Inside(r)'
               /\ \/ upc'[v] = "lock"
                  \/ upc'[v] = "scan" /\ slot'[r] >= idx'[v]
                  \/ /\ Pending(v, slot[r])'
                     /\ waiting'[v][slot'[r]] = seq'[slot'[r]]
    <3>1. r \in owed[v] /\ r \in Readers /\ Inside(r)
      BY DEF SyncLock, OwedIsPending, RcuTypeOK
    <3>2. slot[r] \in Slots
      BY <3>1, HeldSlot DEF Registered, Inside
    <3>3. CASE v = u
      BY <3>1, <3>2, <3>3, SlotAssumption
         DEF SyncLock, RcuTypeOK, readerVars, Inside, Slots
    <3>4. CASE v # u
      BY <3>1, <3>4
         DEF SyncLock, RcuTypeOK, readerVars, Inside, OwedIsPending, Pending
    <3> QED
      BY <3>3, <3>4
  <2> QED
    BY <2>1 DEF OwedIsPending, SyncLock, readerVars, Pending
<1> QED
  BY <1>1, <1>2, <1>3, <1>4

\* synchronize_rcu looks at one slot: what is odd is recorded.
LEMMA SyncScanInv ==
    ASSUME RcuInv, NEW u \in Updaters, SyncScan(u)
    PROVE  RcuInv'
<1> USE DEF RcuInv
<1> DEFINE s == idx[u]
<1>1. s \in Slots /\ s + 1 \in 0 .. MaxReaders
  BY SlotAssumption DEF SyncScan, RcuTypeOK, Slots
<1>2. RcuTypeOK'
  BY <1>1 DEF SyncScan, RcuTypeOK, readerVars, UpdaterPCs
<1>3. SlotsOwnedOnce' /\ Registered' /\ ParityTellsInside'
  BY DEF SyncScan, SlotsOwnedOnce, Registered, ParityTellsInside, Inside,
         readerVars
<1>4. ScannerHoldsRegistry' /\ PollsASlot'
  BY DEF SyncScan, RcuTypeOK, ScannerHoldsRegistry, PollsASlot
<1>5. OwedIsPending'
  <2>1. ASSUME NEW v \in Updaters, NEW r \in owed'[v]
        PROVE  /\ Inside(r)
               /\ \/ upc[v] = "lock"
                  \/ upc[v] = "scan" /\ slot[r] >= idx'[v]
                  \/ /\ Pending(v, slot[r])'
                     /\ waiting'[v][slot[r]] = seq[slot[r]]
    <3>1. r \in Readers /\ Inside(r)
      BY DEF SyncScan, OwedIsPending, RcuTypeOK
    <3>2. slot[r] # Nobody
      BY <3>1 DEF Registered, Inside
    <3>3. slot[r] \in Slots /\ inUse[slot[r]] /\ Odd(seq[slot[r]])
      BY <3>1, <3>2, HeldSlot DEF ParityTellsInside
    <3>4. CASE v = u /\ slot[r] = s
      <4>1. waiting'[u][s] = seq[s]
        BY <1>1, <3>3, <3>4 DEF SyncScan, RcuTypeOK
      <4>2. upc'[u] = "scan" /\ slot'[r] < idx'[u]
        BY <1>1, <3>4 DEF SyncScan, RcuTypeOK, readerVars, Slots
      <4> QED
        BY <3>1, <3>4, <4>1, <4>2 DEF Pending
    <3>5. CASE v = u /\ slot[r] # s
      <4>1. r \in owed[u]
        BY <3>5 DEF SyncScan, RcuTypeOK
      <4>2. /\ upc[u] = "scan"
            /\ \/ slot[r] >= s
               \/ slot[r] < s /\ waiting[u][slot[r]] = seq[slot[r]]
        BY <4>1 DEF SyncScan, OwedIsPending, Pending
      <4>3. waiting'[u][slot[r]] = waiting[u][slot[r]]
        BY <3>5, <3>3 DEF SyncScan, RcuTypeOK
      <4>4. idx'[u] = s + 1 /\ upc'[u] = "scan"
        BY <4>2 DEF SyncScan, RcuTypeOK
      <4> QED
        BY <1>1, <3>1, <3>3, <3>5, <4>2, <4>3, <4>4, SlotAssumption
           DEF SyncScan, Pending, Slots, readerVars
    <3>6. CASE v # u
      BY <3>6 DEF SyncScan, RcuTypeOK, OwedIsPending, Pending, readerVars
    <3> QED
      BY <3>4, <3>5, <3>6
  <2> QED
    BY <2>1 DEF OwedIsPending, SyncScan, readerVars, Pending, Inside
<1> QED
  BY <1>2, <1>3, <1>4, <1>5

\* synchronize_rcu has looked at every slot and releases the lock.
LEMMA SyncUnlockInv ==
    ASSUME RcuInv, NEW u \in Updaters, SyncUnlock(u)
    PROVE  RcuInv'
<1> USE DEF RcuInv
<1>1. RcuTypeOK'
  BY SlotAssumption DEF SyncUnlock, RcuTypeOK, readerVars, UpdaterPCs
<1>2. SlotsOwnedOnce' /\ Registered' /\ ParityTellsInside'
  BY DEF SyncUnlock, SlotsOwnedOnce, Registered, ParityTellsInside, Inside,
         readerVars
<1>3. ScannerHoldsRegistry' /\ PollsASlot'
  BY ThreadAssumption
     DEF SyncUnlock, RcuTypeOK, ScannerHoldsRegistry, PollsASlot
<1>4. OwedIsPending'
  <2>1. ASSUME NEW r \in owed[u]
        PROVE  slot[r] \in Slots /\ waiting[u][slot[r]] = seq[slot[r]]
    <3>1. r \in Readers /\ Inside(r)
      BY DEF OwedIsPending, RcuTypeOK
    <3>2. slot[r] \in Slots
      BY <3>1, HeldSlot DEF Registered, Inside
    <3> QED
      BY <3>2, SlotAssumption DEF SyncUnlock, OwedIsPending, Pending, Slots
  <2> QED
    BY <2>1, SlotAssumption
       DEF SyncUnlock, RcuTypeOK, OwedIsPending, Pending, Inside, readerVars,
           Slots
<1> QED
  BY <1>1, <1>2, <1>3, <1>4

\* synchronize_rcu comes to the next entry of waiting[].
LEMMA SyncNextInv ==
    ASSUME RcuInv, NEW u \in Updaters, SyncNext(u)
    PROVE  RcuInv'
<1> USE DEF RcuInv
<1>1. PICK s \in Slots :
          /\ s >= idx[u]
          /\ \A i \in idx[u] .. s - 1 : ~Odd(waiting[u][i])
          /\ idx' = [idx EXCEPT ![u] = s]
  BY DEF SyncNext
<1>2. RcuTypeOK'
  BY <1>1, SlotAssumption, IncParity
     DEF SyncNext, RcuTypeOK, readerVars, UpdaterPCs, Slots
<1>3. SlotsOwnedOnce' /\ Registered' /\ ParityTellsInside'
  BY DEF SyncNext, SlotsOwnedOnce, Registered, ParityTellsInside, Inside,
         readerVars
<1>4. ScannerHoldsRegistry' /\ PollsASlot'
  BY <1>1 DEF SyncNext, RcuTypeOK, ScannerHoldsRegistry, PollsASlot
<1>5. OwedIsPending'
  <2>1. ASSUME NEW r \in owed[u]
        PROVE  slot[r] >= s /\ waiting[u][slot[r]] = seq[slot[r]]
    <3>1. r \in Readers /\ Inside(r)
      BY DEF OwedIsPending, RcuTypeOK
    <3>2. slot[r] \in Slots /\ Odd(seq[slot[r]])
      BY <3>1, HeldSlot DEF Registered, Inside, ParityTellsInside
    <3>3. slot[r] >= idx[u] /\ waiting[u][slot[r]] = seq[slot[r]]
      BY DEF SyncNext, OwedIsPending, Pending
    <3> QED
      BY <1>1, <3>2, <3>3, SlotAssumption DEF Slots, RcuTypeOK
  <2> QED
    BY <1>1, <2>1
       DEF SyncNext, RcuTypeOK, OwedIsPending, Pending, Inside, readerVars
<1> QED
  BY <1>2, <1>3, <1>4, <1>5

\* A poll that finds another counter: the owner of that slot, if any, is owed
\* nothing there.
LEMMA SyncPollInv ==
    ASSUME RcuInv, NEW u \in Updaters, SyncPoll(u)
    PROVE  RcuInv'
<1> USE DEF RcuInv
<1>1. RcuTypeOK'
  BY SlotAssumption
     DEF SyncPoll, RcuTypeOK, PollsASlot, readerVars, UpdaterPCs, Slots
<1>2. SlotsOwnedOnce' /\ Registered' /\ ParityTellsInside'
  BY DEF SyncPoll, SlotsOwnedOnce, Registered, ParityTellsInside, Inside,
         readerVars
<1>3. ScannerHoldsRegistry' /\ PollsASlot'
  BY DEF SyncPoll, RcuTypeOK, ScannerHoldsRegistry, PollsASlot
<1>4. OwedIsPending'
  <2>1. ASSUME NEW r \in owed[u]
        PROVE  slot[r] >= idx[u] + 1 /\ waiting[u][slot[r]] = seq[slot[r]]
    <3>1. slot[r] >= idx[u] /\ waiting[u][slot[r]] = seq[slot[r]]
      BY DEF SyncPoll, OwedIsPending, Pending
    <3>2. slot[r] # idx[u]
      BY <3>1 DEF SyncPoll, StillWaiting
    <3>3. r \in Readers /\ Inside(r)
      BY DEF OwedIsPending, RcuTypeOK
    <3>4. slot[r] \in Slots
      BY <3>3, HeldSlot DEF Registered, Inside
    <3> QED
      BY <3>1, <3>2, <3>4, SlotAssumption DEF SyncPoll, PollsASlot, Slots
  <2> QED
    BY <2>1
       DEF SyncPoll, RcuTypeOK, OwedIsPending, Pending, Inside, readerVars
<1> QED
  BY <1>1, <1>2, <1>3, <1>4

\* synchronize_rcu returns when no entry is left.
LEMMA SyncReturnInv ==
    ASSUME RcuInv, NEW u \in Updaters, SyncReturn(u)
    PROVE  RcuInv'
<1> USE DEF RcuInv
<1>1. RcuTypeOK'
  BY DEF SyncReturn, RcuTypeOK, readerVars, UpdaterPCs
<1>2. SlotsOwnedOnce' /\ Registered' /\ ParityTellsInside'
  BY DEF SyncReturn, SlotsOwnedOnce, Registered, ParityTellsInside, Inside,
         readerVars
<1>3. ScannerHoldsRegistry' /\ PollsASlot'
  BY DEF SyncReturn, RcuTypeOK, ScannerHoldsRegistry, PollsASlot
<1>4. ASSUME NEW r \in owed[u]
      PROVE  FALSE
  <2>1. slot[r] >= idx[u] /\ waiting[u][slot[r]] = seq[slot[r]]
    BY DEF SyncReturn, OwedIsPending, Pending
  <2>2. r \in Readers /\ Inside(r)
    BY DEF OwedIsPending, RcuTypeOK
  <2>3. slot[r] \in Slots /\ Odd(seq[slot[r]])
    BY <2>2, HeldSlot DEF Registered, Inside, ParityTellsInside
  <2> QED
    BY <2>1, <2>3 DEF SyncReturn
<1>5. OwedIsPending'
  BY <1>4
     DEF SyncReturn, RcuTypeOK, OwedIsPending, Pending, Inside, readerVars
<1> QED
  BY <1>1, <1>2, <1>3, <1>5

\* The caller of synchronize_rcu goes on.
LEMMA SyncDoneInv ==
    ASSUME RcuInv, NEW u \in Updaters, SyncDone(u)
    PROVE  RcuInv'
<1> USE DEF RcuInv
<1>1. RcuTypeOK'
  BY DEF SyncDone, RcuTypeOK, readerVars, UpdaterPCs
<1>2. SlotsOwnedOnce' /\ Registered' /\ ParityTellsInside'
  BY DEF SyncDone, SlotsOwnedOnce, Registered, ParityTellsInside, Inside,
         readerVars
<1>3. ScannerHoldsRegistry' /\ PollsASlot' /\ OwedIsPending'
  BY DEF SyncDone, RcuTypeOK, ScannerHoldsRegistry, PollsASlot,
         OwedIsPending, Inside, Pending, readerVars
<1> QED
  BY <1>1, <1>2, <1>3

\* A step that leaves the library alone.
LEMMA RcuStutterInv ==
    ASSUME RcuInv, UNCHANGED rcuVars
    PROVE  RcuInv'
<1>1. RcuTypeOK' /\ SlotsOwnedOnce' /\ Registered' /\ ParityTellsInside'
  BY DEF RcuInv, rcuVars, readerVars, syncVars, RcuTypeOK, SlotsOwnedOnce,
         Registered, ParityTellsInside, Inside
<1>2. ScannerHoldsRegistry' /\ PollsASlot' /\ OwedIsPending'
  BY DEF RcuInv, rcuVars, readerVars, syncVars, ScannerHoldsRegistry,
         PollsASlot, OwedIsPending, Pending, Inside
<1> QED
  BY <1>1, <1>2 DEF RcuInv

-----------------------------------------------------------------------------
(***************************************************************************)
(* The invariant is inductive.                                             *)
(***************************************************************************)
THEOREM RcuNextInv == RcuInv /\ [RcuNext]_rcuVars => RcuInv'
<1> SUFFICES ASSUME RcuInv, [RcuNext]_rcuVars
             PROVE  RcuInv'
  OBVIOUS
<1>1. ASSUME NEW r \in Readers, ReaderStep(r)
      PROVE  RcuInv'
  BY <1>1, RegisterInv, UnregisterInv, ReadLockInv, ReadUnlockInv,
     CountReadInv DEF ReaderStep
<1>2. ASSUME NEW u \in Updaters, SyncStep(u)
      PROVE  RcuInv'
  BY <1>2, SyncLockInv, SyncScanInv, SyncUnlockInv, SyncNextInv, SyncPollInv,
     SyncReturnInv DEF SyncStep
<1>3. ASSUME NEW u \in Updaters, SyncCall(u) \/ SyncDone(u)
      PROVE  RcuInv'
  BY <1>3, SyncCallInv, SyncDoneInv
<1>4. CASE UNCHANGED rcuVars
  BY <1>4, RcuStutterInv
<1> QED
  BY <1>1, <1>2, <1>3, <1>4 DEF RcuNext

\* The library keeps the invariant, for any constants.
THEOREM RcuInvariant == RcuSpec => []RcuInv
<1>1. RcuInit => RcuInv
  BY RcuInitInv
<1>2. RcuInv /\ [RcuNext]_rcuVars => RcuInv'
  BY RcuNextInv
<1> QED
  BY <1>1, <1>2, PTL DEF RcuSpec

(***************************************************************************)
(* Every variable of the library keeps its type: in particular the loop    *)
(* index of synchronize_rcu stays within readers[] and waiting[].          *)
(***************************************************************************)
THEOREM RcuTyped == RcuSpec => []RcuTypeOK
<1>1. RcuInv => RcuTypeOK
  BY DEF RcuInv
<1> QED
  BY <1>1, RcuInvariant, PTL

(***************************************************************************)
(* rcu_register never gives a slot to two threads and never leaks one      *)
(* (rcu.c:30-53), for any number of threads and slots.                     *)
(***************************************************************************)
THEOREM SlotsAreOwnedOnce == RcuSpec => []SlotsOwnedOnce
<1>1. RcuInv => SlotsOwnedOnce
  BY DEF RcuInv
<1> QED
  BY <1>1, RcuInvariant, PTL

\* At the return no slot is left to wait for, so nothing is owed.
LEMMA NothingOwedOnReturn == RcuInv => GracePeriod
BY DEF RcuInv, RcuTypeOK, OwedIsPending, Pending, GracePeriod

(***************************************************************************)
(* synchronize_rcu is a grace period (rcu.c:106-107): when it returns,     *)
(* every section that ran when it was called has ended, for any number of  *)
(* readers, updaters and slots, even though slots are registered again and *)
(* counters wrap while it waits.                                           *)
(***************************************************************************)
THEOREM SynchronizeIsAGracePeriod == RcuSpec => []GracePeriod
BY NothingOwedOnReturn, RcuInvariant, PTL

-----------------------------------------------------------------------------
(***************************************************************************)
(* Who delays whom.                                                        *)
(***************************************************************************)
\* A slot that nobody has shows an even counter, so that nobody waits for it;
\* what a poll waits for was odd when it was recorded.
DelayInv ==
    /\ \A s \in Slots : ~inUse[s] => ~Odd(seq[s])
    /\ \A u \in Updaters : upc[u] = "poll" => Odd(waiting[u][idx[u]])

LEMMA DelayInitInv == RcuInit => DelayInv
BY DEF RcuInit, DelayInv, Odd

LEMMA ReadersKeepDelayInv ==
    ASSUME RcuInv, DelayInv, NEW r \in Readers, ReaderStep(r)
    PROVE  DelayInv'
<1> USE DEF RcuInv, RcuTypeOK, DelayInv
<1>1. UNCHANGED <<upc, idx, waiting>>
  BY DEF ReaderStep, Register, Unregister, ReadLock, ReadUnlock, CountRead, syncVars
<1>2. ASSUME NEW s \in Slots, ~inUse'[s] PROVE ~Odd(seq'[s])
  <2>1. CASE Register(r)
    BY <1>2, <2>1 DEF Register, Claim
  <2>2. CASE Unregister(r)
    <3>1. slot[r] # Nobody /\ ~Inside(r)
      BY <2>2 DEF Unregister, Registered, Inside
    <3>2. slot[r] \in Slots /\ ~Odd(seq[slot[r]])
      BY <3>1, HeldSlot DEF ParityTellsInside
    <3> QED BY <1>2, <2>2, <3>2 DEF Unregister
  <2>3. CASE ReadLock(r) \/ ReadUnlock(r)
    <3>1. slot[r] # Nobody
      BY <2>3 DEF ReadLock, ReadUnlock, Registered
    <3>2. slot[r] \in Slots /\ inUse[slot[r]] /\ inUse' = inUse
      BY <2>3, <3>1, HeldSlot DEF ReadLock, ReadUnlock
    <3>3. s # slot[r]
      BY <1>2, <3>2
    <3> QED BY <1>2, <2>3, <3>2, <3>3 DEF ReadLock, ReadUnlock
  <2>4. CASE CountRead(r)
    BY <1>2, <2>4 DEF CountRead
  <2> QED BY <2>1, <2>2, <2>3, <2>4 DEF ReaderStep
<1> QED BY <1>1, <1>2

LEMMA UpdatersKeepDelayInv ==
    ASSUME RcuInv, DelayInv, NEW u \in Updaters,
           SyncStep(u) \/ SyncCall(u) \/ SyncDone(u)
    PROVE  DelayInv'
<1> USE DEF RcuInv, RcuTypeOK, DelayInv
<1>1. UNCHANGED <<inUse, seq>>
  BY DEF SyncStep, SyncLock, SyncScan, SyncUnlock, SyncNext, SyncPoll,
         SyncReturn, SyncCall, SyncDone, readerVars
<1>2. ASSUME NEW v \in Updaters, upc'[v] = "poll"
      PROVE  Odd(waiting'[v][idx'[v]])
  <2>1. CASE v # u
    <3>1. upc'[v] = upc[v] /\ idx'[v] = idx[v] /\ waiting'[v] = waiting[v]
      BY <2>1 DEF SyncStep, SyncLock, SyncScan, SyncUnlock, SyncNext, SyncPoll,
                  SyncReturn, SyncCall, SyncDone
    <3> QED BY <1>2, <3>1
  <2>2. CASE v = u
    <3>1. SyncNext(u)
      BY <1>2, <2>2 DEF SyncStep, SyncLock, SyncScan, SyncUnlock, SyncNext,
                  SyncPoll, SyncReturn, SyncCall, SyncDone
    <3>2. Odd(waiting[u][idx'[u]]) /\ waiting' = waiting
      BY <3>1 DEF SyncNext
    <3> QED BY <2>2, <3>2
  <2> QED BY <2>1, <2>2
<1> QED BY <1>1, <1>2

LEMMA DelayNextInv == RcuInv /\ DelayInv /\ [RcuNext]_rcuVars => DelayInv'
<1> SUFFICES ASSUME RcuInv, DelayInv, [RcuNext]_rcuVars PROVE DelayInv'
  OBVIOUS
<1>1. CASE UNCHANGED rcuVars
  BY <1>1 DEF rcuVars, readerVars, syncVars, DelayInv
<1> QED
  BY <1>1, ReadersKeepDelayInv, UpdatersKeepDelayInv DEF RcuNext

\* A poll that blocks has read an odd counter, so the slot has an owner, and
\* the owner is inside.
LEMMA DelaysAreReaders == RcuInv /\ DelayInv => OnlyReadersDelay
<1> SUFFICES ASSUME RcuInv, DelayInv PROVE OnlyReadersDelay
  OBVIOUS
<1> USE DEF RcuInv
<1>1. registry # Nobody => upc[registry] = "scan"
  BY DEF RcuTypeOK, ScannerHoldsRegistry
<1>2. ASSUME NEW u \in Updaters, upc[u] = "poll", StillWaiting(u, idx[u])
      PROVE  \E r \in Readers : Inside(r) /\ slot[r] = idx[u]
  <2>1. idx[u] \in Slots /\ Odd(seq[idx[u]])
    BY <1>2 DEF DelayInv, PollsASlot, StillWaiting
  <2>2. inUse[idx[u]]
    BY <2>1 DEF DelayInv
  <2>3. PICK r \in Readers : slot[r] = idx[u]
    BY <2>1, <2>2 DEF SlotsOwnedOnce
  <2>4. slot[r] # Nobody
    BY <2>1, <2>3, SlotAssumption DEF Slots
  <2> QED BY <2>1, <2>3, <2>4 DEF ParityTellsInside
<1> QED BY <1>1, <1>2 DEF OnlyReadersDelay

\* A synchronize_rcu, and whoever wants the registry, is delayed only by
\* readers that are inside a section, for any number of readers, updaters and
\* slots, with slots that change hands and counters that wrap (rcu.c:101-154).
THEOREM DelaysEndWithReaders == RcuSpec => []OnlyReadersDelay
BY DelayInitInv, DelayNextInv, DelaysAreReaders, RcuInvariant, PTL DEF RcuSpec

-----------------------------------------------------------------------------
(***************************************************************************)
(* The counters and the statistics.                                        *)
(***************************************************************************)
\* What the counter of a slot with n reads shows when d stores of a section
\* have not been counted.
Shown(n, d) == (2 * n + d) % WordMod

\* A sum of two words and one more stays within two wraps.
LEMMA WordSum ==
    ASSUME NEW n \in 0 .. 2 * WordMod
    PROVE  n % WordMod = IF n < WordMod THEN n
                         ELSE IF n < 2 * WordMod THEN n - WordMod ELSE 0
<1>1. WordMod \in Nat \ {0}
  BY WordAssumption DEF WordMod
<1> HIDE DEF WordMod
<1>2. CASE n < WordMod
  BY <1>1, <1>2
<1>3. CASE n \in WordMod .. 2 * WordMod - 1
  BY <1>1, <1>3, SMTT(30)
<1>4. CASE n = 2 * WordMod
  BY <1>1, <1>4, SMTT(30)
<1> QED
  BY <1>1, <1>2, <1>3, <1>4

\* Each store of a section moves the counter on by one; the count of the
\* section stands for both.
LEMMA ShownMoves ==
    ASSUME NEW n \in Words
    PROVE  /\ Shown(0, 0) = 0
           /\ Shown(n, 1) = Inc(Shown(n, 0))
           /\ Shown(n, 2) = Inc(Shown(n, 1))
           /\ Shown(Inc(n), 0) = Shown(n, 2)
<1>1. WordMod \in Nat \ {0, 1} /\ n \in 0 .. WordMod - 1
  BY WordAssumption DEF WordMod, Words
<1>2. /\ 2 * n + 0 \in 0 .. 2 * WordMod /\ 2 * n + 1 \in 0 .. 2 * WordMod
      /\ 2 * n + 2 \in 0 .. 2 * WordMod /\ 2 * Inc(n) + 0 \in 0 .. 2 * WordMod
      /\ 2 * 0 + 0 \in 0 .. 2 * WordMod
  BY <1>1 DEF Inc
<1> HIDE DEF WordMod
<1> QED
  BY <1>1, <1>2, WordSum DEF Shown, Inc

\* CountersAgree, case by case: the stores of a reader that are not counted.
Uncounted ==
    \A r \in Readers : slot[r] # Nobody =>
        /\ rpc[r] = "in" => seq[slot[r]] = Shown(reads[slot[r]], 1)
        /\ rpc[r] = "left" => seq[slot[r]] = Shown(reads[slot[r]], 2)
        /\ rpc[r] \notin {"in", "left"} => seq[slot[r]] = Shown(reads[slot[r]], 0)

LEMMA UncountedKept ==
    ASSUME RcuInv, Uncounted, [RcuNext]_rcuVars
    PROVE  Uncounted'
<1>1. RcuTypeOK /\ SlotsOwnedOnce /\ Registered /\ ParityTellsInside
  BY DEF RcuInv
<1>2. ASSUME NEW r \in Readers, Register(r)
      PROVE  Uncounted'
  <2>1. PICK s \in Slots : /\ ~inUse[s] /\ slot' = [slot EXCEPT ![r] = s]
                           /\ seq' = [seq EXCEPT ![s] = 0]
                           /\ reads' = [reads EXCEPT ![s] = 0]
    BY <1>2 DEF Register, Claim
  <2>2. rpc' = [rpc EXCEPT ![r] = "out"]
    BY <1>2 DEF Register
  <2>3. \A q \in Readers : slot[q] # s
    BY <1>1, <2>1 DEF SlotsOwnedOnce
  <2>4. Shown(0, 0) = 0
    BY ShownMoves, WordAssumption DEF Words, WordMod
  <2>5. /\ slot'[r] = s /\ rpc'[r] = "out" /\ seq'[s] = 0 /\ reads'[s] = 0
    BY <1>1, <2>1, <2>2 DEF RcuTypeOK
  <2>6. \A q \in Readers \ {r} : slot'[q] # Nobody =>
           /\ slot'[q] = slot[q] /\ rpc'[q] = rpc[q]
           /\ seq'[slot[q]] = seq[slot[q]] /\ reads'[slot[q]] = reads[slot[q]]
    BY <1>1, <2>1, <2>2, <2>3 DEF RcuTypeOK
  <2> QED
    BY <2>4, <2>5, <2>6 DEF Uncounted
<1>3. ASSUME NEW r \in Readers, Unregister(r)
      PROVE  Uncounted'
  BY <1>1, <1>3 DEF Unregister, Uncounted, RcuTypeOK
<1>4. ASSUME NEW r \in Readers, ReadLock(r) \/ ReadUnlock(r) \/ CountRead(r)
      PROVE  Uncounted'
  <2> DEFINE s == slot[r]
  <2>1. s \in Slots /\ s # Nobody /\ UNCHANGED slot
    BY <1>1, <1>4 DEF ReadLock, ReadUnlock, CountRead, Registered, RcuTypeOK
  <2>2. seq[s] \in Words /\ reads[s] \in Words /\ localSeq[s] = seq[s]
    BY <1>1, <2>1 DEF RcuTypeOK, ParityTellsInside
  <2>3. \A q \in Readers \ {r} : slot[q] # Nobody => slot[q] # s
    BY <1>1, <2>1 DEF SlotsOwnedOnce
  <2>4. \A q \in Readers \ {r} : slot[q] # Nobody =>
           /\ rpc'[q] = rpc[q]
           /\ seq'[slot[q]] = seq[slot[q]] /\ reads'[slot[q]] = reads[slot[q]]
    BY <1>1, <1>4, <2>1, <2>3
       DEF ReadLock, ReadUnlock, CountRead, RcuTypeOK
  <2>5. /\ rpc'[r] = "in" => seq'[s] = Shown(reads'[s], 1)
        /\ rpc'[r] = "left" => seq'[s] = Shown(reads'[s], 2)
        /\ rpc'[r] \notin {"in", "left"} => seq'[s] = Shown(reads'[s], 0)
    <3>1. CASE ReadLock(r)
      <4>1. rpc[r] = "out" /\ rpc'[r] = "in" /\ reads'[s] = reads[s]
            /\ seq'[s] = Inc(seq[s])
        BY <1>1, <2>1, <2>2, <3>1 DEF ReadLock, RcuTypeOK
      <4> QED
        BY <2>1, <2>2, <4>1, ShownMoves DEF Uncounted
    <3>2. CASE ReadUnlock(r)
      <4>1. rpc[r] = "in" /\ rpc'[r] = "left" /\ reads'[s] = reads[s]
            /\ seq'[s] = Inc(seq[s])
        BY <1>1, <2>1, <2>2, <3>2 DEF ReadUnlock, RcuTypeOK
      <4> QED
        BY <2>1, <2>2, <4>1, ShownMoves DEF Uncounted
    <3>3. CASE CountRead(r)
      <4>1. rpc[r] = "left" /\ rpc'[r] = "out" /\ reads'[s] = Inc(reads[s])
            /\ seq'[s] = seq[s]
        BY <1>1, <2>1, <3>3 DEF CountRead, RcuTypeOK
      <4> QED
        BY <2>1, <2>2, <4>1, ShownMoves DEF Uncounted
    <3> QED
      BY <1>4, <3>1, <3>2, <3>3
  <2> QED
    BY <2>1, <2>4, <2>5 DEF Uncounted
<1>5. CASE UNCHANGED <<slot, rpc, seq, reads>>
  BY <1>5 DEF Uncounted
<1>6. ASSUME NEW u \in Updaters, SyncStep(u) \/ SyncCall(u) \/ SyncDone(u)
      PROVE  UNCHANGED <<slot, rpc, seq, reads>>
  BY <1>6 DEF SyncStep, SyncLock, SyncScan, SyncUnlock, SyncNext, SyncPoll,
             SyncReturn, SyncCall, SyncDone, readerVars
<1>7. UNCHANGED rcuVars => UNCHANGED <<slot, rpc, seq, reads>>
  BY DEF rcuVars, readerVars
<1> QED
  BY <1>2, <1>3, <1>4, <1>5, <1>6, <1>7 DEF RcuNext, ReaderStep

(***************************************************************************)
(* The statistics of a slot are the sections of its present owner, two     *)
(* counts each, modulo the width of a word (rcu.h:25-26, rcu.c:74-89).     *)
(***************************************************************************)
THEOREM CountersAreStatistics == RcuSpec => []CountersAgree
<1>1. RcuInit => Uncounted
  BY DEF RcuInit, Uncounted
<1>2. RcuInv /\ Uncounted /\ [RcuNext]_rcuVars => Uncounted'
  BY UncountedKept
<1>3. Uncounted => CountersAgree
  BY DEF Uncounted, CountersAgree, Shown
<1> QED
  BY <1>1, <1>2, <1>3, RcuInvariant, PTL DEF RcuSpec

-----------------------------------------------------------------------------
(***************************************************************************)
(* The table.                                                              *)
(***************************************************************************)
\* A lookup that is under way is a section; synchronize_rcu runs only in
\* rt_update.
PCsAgree ==
    /\ \A r \in Readers : lpc[r] # "none" <=> Inside(r)
    /\ \A u \in Updaters : upc[u] # "idle" <=> tpc[u] = "sync"

\* The update mutex is held from the lock to the unlock.
Holds(u) == tpc[u] \notin {"idle", "lock"}
HolderHasMutex == \A u \in Updaters : update = u <=> Holds(u)

\* Nothing is under way once the table is destroyed.
DestroyedIsQuiet ==
    ~alive => /\ \A u \in Updaters : tpc[u] = "idle"
              /\ \A r \in Readers : lpc[r] = "none"

\* Before and after an updater publishes.
BeforePublish(u) == tpc[u] \in {"gen", "val", "publish"}
OldUnreachable(u) == tpc[u] \in {"latest", "call", "sync"}

\* Every allocated version is the current one, some updater's new one, or
\* one that its updater has replaced and not freed yet; these are different
\* allocations.
AllocatedExactly ==
    \A a \in Addrs : a \in allocated <=>
        \/ alive /\ a = cur
        \/ \E u \in Updaters : tpc[u] # "idle" /\ a = nv[u]
        \/ \E u \in Updaters : OldUnreachable(u) /\ a = old[u]

NewIsOwn ==
    \A u \in Updaters : tpc[u] # "idle" =>
        /\ nv[u] \in Addrs
        /\ \A v \in Updaters : tpc[v] # "idle" /\ nv[v] = nv[u] => v = u
        /\ tpc[u] = "lock" \/ BeforePublish(u) => nv[u] # cur

\* Where the updater that holds the mutex has got to, and what the versions
\* contain.
CurIsWhole == alive => gen[cur] \in Nat /\ val[cur] = gen[cur]

HolderProgress ==
    \A u \in Updaters :
        /\ BeforePublish(u) => cur = latest /\ old[u] = latest
        /\ tpc[u] \in {"val", "publish"} => gen[nv[u]] = gen[cur] + 1
        /\ tpc[u] = "publish" => val[nv[u]] = gen[nv[u]]
        /\ ~BeforePublish(u) /\ Holds(u) => cur = nv[u]
        /\ tpc[u] = "latest" => latest = old[u]
        /\ tpc[u] \in {"call", "sync", "count", "unlock"} => latest = cur
        /\ OldUnreachable(u) =>
              /\ old[u] \in Addrs
              /\ \A v \in Updaters : tpc[v] # "idle" => nv[v] # old[u]
              /\ gen[old[u]] \in Nat /\ val[old[u]] = gen[old[u]]
        /\ BeforePublish(u) \/ tpc[u] = "unlock" => freed = gen[cur]
        /\ OldUnreachable(u) \/ tpc[u] = "count" => freed + 1 = gen[cur]

NoHolder ==
    update = Nobody => cur = latest /\ (alive => freed = gen[cur])

\* What a lookup may hold: the current version, or one that the updater
\* which replaced it has not begun to wait for, or is waiting for on account
\* of this very section.
HeldIsSafe ==
    \A r \in Readers : lpc[r] \in {"val", "gen", "unlock"} =>
        \/ p[r] = cur
        \/ \E u \in Updaters :
              /\ OldUnreachable(u)
              /\ p[r] = old[u]
              /\ tpc[u] = "sync" => r \in owed[u]

ReadIsWhole ==
    \A r \in Readers :
        /\ lpc[r] \in {"gen", "unlock"} => x[r] = gen[p[r]]
        /\ lpc[r] = "unlock" => ok[r]

\* The conjuncts that only the memory and the updaters matter to.
UpdaterInv ==
    /\ HolderHasMutex
    /\ AllocatedExactly
    /\ NewIsOwn
    /\ CurIsWhole
    /\ HolderProgress
    /\ NoHolder

TableInv ==
    /\ TableTypeOK
    /\ PCsAgree
    /\ DestroyedIsQuiet
    /\ UpdaterInv
    /\ HeldIsSafe
    /\ ReadIsWhole

-----------------------------------------------------------------------------
\* rt_init establishes the invariant.
THEOREM TableInitInv == Init => TableInv
<1> SUFFICES ASSUME Init PROVE TableInv
  OBVIOUS
<1>1. TableTypeOK
  BY AddrAssumption
     DEF Init, TableInit, TableTypeOK, LookupPCs, UpdatePCs, Content, Garbage
<1>2. PCsAgree /\ DestroyedIsQuiet /\ HeldIsSafe /\ ReadIsWhole
  BY DEF Init, RcuInit, TableInit, PCsAgree, DestroyedIsQuiet, HeldIsSafe,
         ReadIsWhole, Inside
<1>3. UpdaterInv
  BY ThreadAssumption
     DEF Init, TableInit, UpdaterInv, HolderHasMutex, AllocatedExactly,
         NewIsOwn, CurIsWhole, HolderProgress, NoHolder, Holds, BeforePublish,
         OldUnreachable
<1> QED
  BY <1>1, <1>2, <1>3 DEF TableInv

(***************************************************************************)
(* The steps of a reader leave memory and updaters alone.                  *)
(***************************************************************************)
LEMMA UpdaterFrame ==
    ASSUME UpdaterInv, UNCHANGED <<memVars, sharedVars, updaterVars>>
    PROVE  UpdaterInv'
BY DEF UpdaterInv, HolderHasMutex, AllocatedExactly, NewIsOwn, CurIsWhole,
       HolderProgress, NoHolder, Holds, BeforePublish, OldUnreachable,
       memVars, sharedVars, updaterVars

(***************************************************************************)
(* A version a lookup holds is allocated, and whole.                       *)
(***************************************************************************)
LEMMA HeldIsAllocated ==
    ASSUME TableInv, NEW r \in Readers, lpc[r] \in {"val", "gen", "unlock"}
    PROVE  /\ p[r] \in allocated /\ p[r] \in Addrs
           /\ gen[p[r]] \in Nat /\ val[p[r]] = gen[p[r]]
<1>1. alive
  BY DEF TableInv, DestroyedIsQuiet
<1>2. CASE p[r] = cur
  BY <1>1, <1>2
     DEF TableInv, TableTypeOK, UpdaterInv, AllocatedExactly, CurIsWhole
<1>3. CASE p[r] # cur
  BY <1>3
     DEF TableInv, UpdaterInv, AllocatedExactly, HolderProgress, HeldIsSafe
<1> QED
  BY <1>2, <1>3

\* rt_lookup enters its section.
LEMMA LookupLockInv ==
    ASSUME RcuInv, TableInv, NEW r \in Readers, LookupLock(r)
    PROVE  TableInv'
<1> USE DEF TableInv
<1>1. TableTypeOK'
  BY DEF LookupLock, At, TableTypeOK, LookupPCs, memVars, sharedVars,
         updaterVars
<1>2. PCsAgree'
  BY DEF LookupLock, At, ReadLock, RcuInv, RcuTypeOK, TableTypeOK, PCsAgree,
         Inside, updaterVars, syncVars
<1>3. DestroyedIsQuiet'
  BY DEF LookupLock, At, DestroyedIsQuiet, sharedVars
<1>4. UpdaterInv'
  BY UpdaterFrame DEF LookupLock
<1>5. HeldIsSafe' /\ ReadIsWhole'
  BY DEF LookupLock, At, ReadLock, TableTypeOK, HeldIsSafe, ReadIsWhole,
         OldUnreachable, memVars, sharedVars, updaterVars
<1> QED
  BY <1>1, <1>2, <1>3, <1>4, <1>5

\* rt_lookup dereferences: what it holds is the current version.
LEMMA LookupDerefInv ==
    ASSUME RcuInv, TableInv, NEW r \in Readers, LookupDeref(r)
    PROVE  TableInv'
<1> USE DEF TableInv
<1>1. TableTypeOK'
  BY DEF LookupDeref, At, TableTypeOK, LookupPCs, memVars, sharedVars,
         updaterVars
<1>2. PCsAgree'
  BY DEF LookupDeref, At, TableTypeOK, PCsAgree, Inside, rcuVars, readerVars,
         syncVars, updaterVars
<1>3. DestroyedIsQuiet'
  BY DEF LookupDeref, At, DestroyedIsQuiet, sharedVars, updaterVars
<1>4. UpdaterInv'
  BY UpdaterFrame DEF LookupDeref
<1>5. HeldIsSafe' /\ ReadIsWhole'
  BY DEF LookupDeref, At, TableTypeOK, HeldIsSafe, ReadIsWhole,
         OldUnreachable, rcuVars, memVars, sharedVars, updaterVars
<1> QED
  BY <1>1, <1>2, <1>3, <1>4, <1>5

\* rt_lookup reads the value of a whole version.
LEMMA LookupValInv ==
    ASSUME RcuInv, TableInv, NEW r \in Readers, LookupVal(r)
    PROVE  TableInv'
<1> USE DEF TableInv
<1>1. gen[p[r]] \in Nat /\ val[p[r]] = gen[p[r]]
  BY HeldIsAllocated DEF LookupVal, At
<1>2. TableTypeOK'
  BY <1>1 DEF LookupVal, At, TableTypeOK, LookupPCs, Content, memVars,
              sharedVars, updaterVars
<1>3. PCsAgree'
  BY DEF LookupVal, At, TableTypeOK, PCsAgree, Inside, rcuVars, readerVars,
         syncVars, updaterVars
<1>4. DestroyedIsQuiet'
  BY DEF LookupVal, At, DestroyedIsQuiet, sharedVars, updaterVars
<1>5. UpdaterInv'
  BY UpdaterFrame DEF LookupVal
<1>6. HeldIsSafe' /\ ReadIsWhole'
  BY <1>1 DEF LookupVal, At, TableTypeOK, HeldIsSafe, ReadIsWhole,
              OldUnreachable, rcuVars, memVars, sharedVars, updaterVars
<1> QED
  BY <1>2, <1>3, <1>4, <1>5, <1>6

\* rt_lookup compares it with the generation of the same version.
LEMMA LookupConsistentInv ==
    ASSUME RcuInv, TableInv, NEW r \in Readers, LookupConsistent(r)
    PROVE  TableInv'
<1> USE DEF TableInv
<1>1. TableTypeOK'
  BY DEF LookupConsistent, At, TableTypeOK, LookupPCs, memVars, sharedVars,
         updaterVars
<1>2. PCsAgree'
  BY DEF LookupConsistent, At, TableTypeOK, PCsAgree, Inside, rcuVars,
         readerVars, syncVars, updaterVars
<1>3. DestroyedIsQuiet'
  BY DEF LookupConsistent, At, DestroyedIsQuiet, sharedVars, updaterVars
<1>4. UpdaterInv'
  BY UpdaterFrame DEF LookupConsistent
<1>5. HeldIsSafe' /\ ReadIsWhole'
  BY DEF LookupConsistent, At, TableTypeOK, HeldIsSafe, ReadIsWhole,
         OldUnreachable, rcuVars, memVars, sharedVars, updaterVars
<1> QED
  BY <1>1, <1>2, <1>3, <1>4, <1>5

\* rt_lookup leaves its section and lets go of the version.
LEMMA LookupUnlockInv ==
    ASSUME RcuInv, TableInv, NEW r \in Readers, LookupUnlock(r)
    PROVE  TableInv'
<1> USE DEF TableInv
<1>1. TableTypeOK'
  BY DEF LookupUnlock, At, TableTypeOK, LookupPCs, Content, memVars,
         sharedVars, updaterVars
<1>2. PCsAgree'
  BY DEF LookupUnlock, At, ReadUnlock, RcuInv, RcuTypeOK, TableTypeOK,
         PCsAgree, Inside, updaterVars, syncVars
<1>3. DestroyedIsQuiet'
  BY DEF LookupUnlock, At, DestroyedIsQuiet, sharedVars, updaterVars
<1>4. UpdaterInv'
  BY UpdaterFrame DEF LookupUnlock
<1>5. HeldIsSafe' /\ ReadIsWhole'
  BY DEF LookupUnlock, At, ReadUnlock, TableTypeOK, HeldIsSafe, ReadIsWhole,
         OldUnreachable, memVars, sharedVars, updaterVars
<1> QED
  BY <1>1, <1>2, <1>3, <1>4, <1>5

\* Registering, unregistering and counting do not touch the table.
LEMMA OutsideLookupInv ==
    ASSUME RcuInv, TableInv, NEW r \in Readers, OutsideLookup(r)
    PROVE  TableInv'
<1> USE DEF TableInv
<1>1. rpc[r] # "in" /\ rpc'[r] # "in"
  BY DEF OutsideLookup, Register, MayRegister, Unregister, CountRead, RcuInv,
         RcuTypeOK
<1>2. /\ \A q \in Readers \ {r} : rpc'[q] = rpc[q]
      /\ upc' = upc /\ owed' = owed
  BY DEF OutsideLookup, Register, Unregister, CountRead, RcuInv, RcuTypeOK,
         syncVars
<1>3. TableTypeOK' /\ DestroyedIsQuiet'
  BY DEF OutsideLookup, TableTypeOK, DestroyedIsQuiet, versionVars, memVars,
         sharedVars, updaterVars, lookupVars
<1>4. PCsAgree'
  BY <1>1, <1>2
     DEF OutsideLookup, PCsAgree, Inside, versionVars, updaterVars, lookupVars
<1>5. UpdaterInv'
  BY UpdaterFrame DEF OutsideLookup, versionVars
<1>6. HeldIsSafe' /\ ReadIsWhole'
  BY <1>2 DEF OutsideLookup, HeldIsSafe, ReadIsWhole, OldUnreachable,
              versionVars, memVars, sharedVars, updaterVars, lookupVars
<1> QED
  BY <1>3, <1>4, <1>5, <1>6

\* rt_update allocates a copy that nobody else holds.
LEMMA UpdateMallocInv ==
    ASSUME RcuInv, TableInv, NEW u \in Updaters, UpdateMalloc(u)
    PROVE  TableInv'
<1> USE DEF TableInv
<1>1. TableTypeOK' /\ DestroyedIsQuiet'
  BY DEF UpdateMalloc, Go, TableTypeOK, DestroyedIsQuiet, UpdatePCs, Content,
         memVars, sharedVars, lookupVars
<1>2. PCsAgree'
  BY DEF UpdateMalloc, Go, RcuInv, RcuTypeOK, TableTypeOK, PCsAgree, Inside,
         rcuVars, readerVars, syncVars, lookupVars
<1>3. UpdaterInv'
  BY AddrAssumption, ThreadAssumption
     DEF UpdateMalloc, Go, TableTypeOK, DestroyedIsQuiet, UpdaterInv,
         HolderHasMutex, AllocatedExactly, NewIsOwn, CurIsWhole,
         HolderProgress, NoHolder, Holds, BeforePublish, OldUnreachable,
         memVars, sharedVars, lookupVars
<1>4. HeldIsSafe' /\ ReadIsWhole'
  BY HeldIsAllocated
     DEF UpdateMalloc, Go, TableTypeOK, UpdaterInv, NewIsOwn, HolderProgress,
         BeforePublish, OldUnreachable, HeldIsSafe, ReadIsWhole, rcuVars,
         memVars, sharedVars, lookupVars
<1> QED
  BY <1>1, <1>2, <1>3, <1>4

\* rt_update takes the mutex and copies the latest version.
LEMMA UpdateLockInv ==
    ASSUME RcuInv, TableInv, NEW u \in Updaters, UpdateLock(u)
    PROVE  TableInv'
<1> USE DEF TableInv
<1>1. TableTypeOK' /\ DestroyedIsQuiet'
  BY DEF UpdateLock, Go, TableTypeOK, DestroyedIsQuiet, UpdatePCs, Content,
         memVars, sharedVars, lookupVars
<1>2. PCsAgree'
  BY DEF UpdateLock, Go, RcuInv, RcuTypeOK, TableTypeOK, PCsAgree, Inside,
         rcuVars, readerVars, syncVars, lookupVars
<1>3. UpdaterInv'
  BY AddrAssumption, ThreadAssumption
     DEF UpdateLock, Go, TableTypeOK, DestroyedIsQuiet, UpdaterInv,
         HolderHasMutex, AllocatedExactly, NewIsOwn, CurIsWhole,
         HolderProgress, NoHolder, Holds, BeforePublish, OldUnreachable,
         memVars, sharedVars, lookupVars
<1>4. HeldIsSafe' /\ ReadIsWhole'
  BY HeldIsAllocated
     DEF UpdateLock, Go, TableTypeOK, UpdaterInv, NewIsOwn, HolderProgress,
         BeforePublish, OldUnreachable, HeldIsSafe, ReadIsWhole, rcuVars,
         memVars, sharedVars, lookupVars
<1> QED
  BY <1>1, <1>2, <1>3, <1>4

\* fill stores the generation of a copy nobody else can see.
LEMMA FillGenInv ==
    ASSUME RcuInv, TableInv, NEW u \in Updaters, FillGen(u)
    PROVE  TableInv'
<1> USE DEF TableInv
<1>0. gen[old[u]] \in Nat /\ gen[old[u]] + 1 \in Nat
  BY DEF FillGen, Go, DestroyedIsQuiet, UpdaterInv, CurIsWhole,
         HolderProgress, BeforePublish
<1>1. TableTypeOK' /\ DestroyedIsQuiet'
  <2>1. gen' \in [Addrs -> Content]
    BY <1>0 DEF FillGen, TableTypeOK, Content
  <2> QED
    BY <2>1 DEF FillGen, Go, TableTypeOK, DestroyedIsQuiet, UpdatePCs,
                sharedVars, lookupVars
<1>2. PCsAgree'
  BY DEF FillGen, Go, RcuInv, RcuTypeOK, TableTypeOK, PCsAgree, Inside,
         rcuVars, readerVars, syncVars, lookupVars
<1>3. UpdaterInv'
  BY AddrAssumption, ThreadAssumption
     DEF FillGen, Go, TableTypeOK, DestroyedIsQuiet, UpdaterInv,
         HolderHasMutex, AllocatedExactly, NewIsOwn, CurIsWhole,
         HolderProgress, NoHolder, Holds, BeforePublish, OldUnreachable,
         memVars, sharedVars, lookupVars
<1>4. HeldIsSafe' /\ ReadIsWhole'
  BY HeldIsAllocated
     DEF FillGen, Go, TableTypeOK, UpdaterInv, NewIsOwn, HolderProgress,
         BeforePublish, OldUnreachable, HeldIsSafe, ReadIsWhole, rcuVars,
         memVars, sharedVars, lookupVars
<1> QED
  BY <1>1, <1>2, <1>3, <1>4

\* fill stores the values: the copy is whole.
LEMMA FillValInv ==
    ASSUME RcuInv, TableInv, NEW u \in Updaters, FillVal(u)
    PROVE  TableInv'
<1> USE DEF TableInv
<1>1. TableTypeOK' /\ DestroyedIsQuiet'
  BY DEF FillVal, Go, TableTypeOK, DestroyedIsQuiet, UpdatePCs, Content,
         memVars, sharedVars, lookupVars
<1>2. PCsAgree'
  BY DEF FillVal, Go, RcuInv, RcuTypeOK, TableTypeOK, PCsAgree, Inside,
         rcuVars, readerVars, syncVars, lookupVars
<1>3. UpdaterInv'
  BY AddrAssumption, ThreadAssumption
     DEF FillVal, Go, TableTypeOK, DestroyedIsQuiet, UpdaterInv,
         HolderHasMutex, AllocatedExactly, NewIsOwn, CurIsWhole,
         HolderProgress, NoHolder, Holds, BeforePublish, OldUnreachable,
         memVars, sharedVars, lookupVars
<1>4. HeldIsSafe' /\ ReadIsWhole'
  BY HeldIsAllocated
     DEF FillVal, Go, TableTypeOK, UpdaterInv, NewIsOwn, HolderProgress,
         BeforePublish, OldUnreachable, HeldIsSafe, ReadIsWhole, rcuVars,
         memVars, sharedVars, lookupVars
<1> QED
  BY <1>1, <1>2, <1>3, <1>4

\* The publication: a held version that was current is the updater's old one.
LEMMA PublishInv ==
    ASSUME RcuInv, TableInv, NEW u \in Updaters, Publish(u)
    PROVE  TableInv'
<1> USE DEF TableInv
<1>1. TableTypeOK' /\ DestroyedIsQuiet'
  BY DEF Publish, Go, TableTypeOK, DestroyedIsQuiet, UpdatePCs,
         UpdaterInv, NewIsOwn, memVars, sharedVars, lookupVars
<1>2. PCsAgree'
  BY DEF Publish, Go, RcuInv, RcuTypeOK, TableTypeOK, PCsAgree, Inside,
         rcuVars, readerVars, syncVars, lookupVars
<1>3. UpdaterInv'
  BY AddrAssumption, ThreadAssumption
     DEF Publish, Go, TableTypeOK, DestroyedIsQuiet, UpdaterInv,
         HolderHasMutex, AllocatedExactly, NewIsOwn, CurIsWhole,
         HolderProgress, NoHolder, Holds, BeforePublish, OldUnreachable,
         memVars, sharedVars, lookupVars
<1>4. HeldIsSafe' /\ ReadIsWhole'
  BY HeldIsAllocated
     DEF Publish, Go, TableTypeOK, UpdaterInv, NewIsOwn, HolderProgress,
         BeforePublish, OldUnreachable, HeldIsSafe, ReadIsWhole, rcuVars,
         memVars, sharedVars, lookupVars
<1> QED
  BY <1>1, <1>2, <1>3, <1>4

\* rt_update records the latest version.
LEMMA SetLatestInv ==
    ASSUME RcuInv, TableInv, NEW u \in Updaters, SetLatest(u)
    PROVE  TableInv'
<1> USE DEF TableInv
<1>1. TableTypeOK' /\ DestroyedIsQuiet'
  BY DEF SetLatest, Go, TableTypeOK, DestroyedIsQuiet, UpdatePCs,
         UpdaterInv, NewIsOwn, memVars, sharedVars, lookupVars
<1>2. PCsAgree'
  BY DEF SetLatest, Go, RcuInv, RcuTypeOK, TableTypeOK, PCsAgree, Inside,
         rcuVars, readerVars, syncVars, lookupVars
<1>3. UpdaterInv'
  BY AddrAssumption, ThreadAssumption
     DEF SetLatest, Go, TableTypeOK, DestroyedIsQuiet, UpdaterInv,
         HolderHasMutex, AllocatedExactly, NewIsOwn, CurIsWhole,
         HolderProgress, NoHolder, Holds, BeforePublish, OldUnreachable,
         memVars, sharedVars, lookupVars
<1>4. HeldIsSafe' /\ ReadIsWhole'
  BY HeldIsAllocated
     DEF SetLatest, Go, TableTypeOK, UpdaterInv, NewIsOwn, HolderProgress,
         BeforePublish, OldUnreachable, HeldIsSafe, ReadIsWhole, rcuVars,
         memVars, sharedVars, lookupVars
<1> QED
  BY <1>1, <1>2, <1>3, <1>4

\* rt_update counts the version it freed.
LEMMA CountFreedInv ==
    ASSUME RcuInv, TableInv, NEW u \in Updaters, CountFreed(u)
    PROVE  TableInv'
<1> USE DEF TableInv
<1>1. TableTypeOK' /\ DestroyedIsQuiet'
  BY DEF CountFreed, Go, TableTypeOK, DestroyedIsQuiet, UpdatePCs, Content,
         memVars, sharedVars, lookupVars
<1>2. PCsAgree'
  BY DEF CountFreed, Go, RcuInv, RcuTypeOK, TableTypeOK, PCsAgree, Inside,
         rcuVars, readerVars, syncVars, lookupVars
<1>3. UpdaterInv'
  BY AddrAssumption, ThreadAssumption
     DEF CountFreed, Go, TableTypeOK, DestroyedIsQuiet, UpdaterInv,
         HolderHasMutex, AllocatedExactly, NewIsOwn, CurIsWhole,
         HolderProgress, NoHolder, Holds, BeforePublish, OldUnreachable,
         memVars, sharedVars, lookupVars
<1>4. HeldIsSafe' /\ ReadIsWhole'
  BY HeldIsAllocated
     DEF CountFreed, Go, TableTypeOK, UpdaterInv, NewIsOwn, HolderProgress,
         BeforePublish, OldUnreachable, HeldIsSafe, ReadIsWhole, rcuVars,
         memVars, sharedVars, lookupVars
<1> QED
  BY <1>1, <1>2, <1>3, <1>4

\* rt_update releases the mutex.
LEMMA UpdateUnlockInv ==
    ASSUME RcuInv, TableInv, NEW u \in Updaters, UpdateUnlock(u)
    PROVE  TableInv'
<1> USE DEF TableInv
<1>1. TableTypeOK' /\ DestroyedIsQuiet'
  BY DEF UpdateUnlock, Go, TableTypeOK, DestroyedIsQuiet, UpdatePCs, Content,
         memVars, sharedVars, lookupVars
<1>2. PCsAgree'
  BY DEF UpdateUnlock, Go, RcuInv, RcuTypeOK, TableTypeOK, PCsAgree, Inside,
         rcuVars, readerVars, syncVars, lookupVars
<1>3. UpdaterInv'
  BY AddrAssumption, ThreadAssumption
     DEF UpdateUnlock, Go, TableTypeOK, DestroyedIsQuiet, UpdaterInv,
         HolderHasMutex, AllocatedExactly, NewIsOwn, CurIsWhole,
         HolderProgress, NoHolder, Holds, BeforePublish, OldUnreachable,
         memVars, sharedVars, lookupVars
<1>4. HeldIsSafe' /\ ReadIsWhole'
  BY HeldIsAllocated
     DEF UpdateUnlock, Go, TableTypeOK, UpdaterInv, NewIsOwn, HolderProgress,
         BeforePublish, OldUnreachable, HeldIsSafe, ReadIsWhole, rcuVars,
         memVars, sharedVars, lookupVars
<1> QED
  BY <1>1, <1>2, <1>3, <1>4

\* The call of synchronize_rcu owes every lookup under way.
LEMMA UpdateSyncInv ==
    ASSUME RcuInv, TableInv, NEW u \in Updaters, UpdateSync(u)
    PROVE  TableInv'
<1> USE DEF TableInv
<1>1. TableTypeOK' /\ DestroyedIsQuiet'
  BY DEF UpdateSync, Go, TableTypeOK, DestroyedIsQuiet, UpdatePCs,
         memVars, sharedVars, lookupVars
<1>2. PCsAgree'
  BY DEF UpdateSync, SyncCall, Go, RcuInv, RcuTypeOK, TableTypeOK, PCsAgree,
         Inside, readerVars, lookupVars
<1>3. UpdaterInv'
  BY DEF UpdateSync, Go, TableTypeOK, UpdaterInv, HolderHasMutex,
         AllocatedExactly, NewIsOwn, CurIsWhole, HolderProgress, NoHolder,
         Holds, BeforePublish, OldUnreachable, memVars, sharedVars
<1>4. HeldIsSafe' /\ ReadIsWhole'
  BY DEF UpdateSync, SyncCall, Go, RcuInv, RcuTypeOK, TableTypeOK, PCsAgree,
         OldUnreachable, HeldIsSafe, ReadIsWhole, memVars, sharedVars,
         lookupVars
<1> QED
  BY <1>1, <1>2, <1>3, <1>4

(***************************************************************************)
(* Inside synchronize_rcu nothing is taken off `owed` but by readers.      *)
(***************************************************************************)
LEMMA SyncStepKeepsOwed ==
    ASSUME RcuInv, NEW u \in Updaters, SyncStep(u)
    PROVE  /\ \A v \in Updaters : owed[v] \subseteq owed'[v]
           /\ rpc' = rpc
           /\ \A v \in Updaters : upc'[v] # "idle" <=> upc[v] # "idle"
BY DEF SyncStep, SyncLock, SyncScan, SyncUnlock, SyncNext, SyncPoll,
       SyncReturn, RcuInv, RcuTypeOK, readerVars

\* A step inside synchronize_rcu.
LEMMA InSyncInv ==
    ASSUME RcuInv, TableInv, NEW u \in Updaters, InSync(u)
    PROVE  TableInv'
<1> USE DEF TableInv
<1>1. TableTypeOK' /\ DestroyedIsQuiet'
  BY DEF InSync, TableTypeOK, DestroyedIsQuiet, versionVars, memVars,
         sharedVars, updaterVars, lookupVars
<1>2. PCsAgree'
  BY SyncStepKeepsOwed
     DEF InSync, PCsAgree, Inside, versionVars, updaterVars, lookupVars
<1>3. UpdaterInv'
  BY UpdaterFrame DEF InSync, versionVars
<1>4. HeldIsSafe' /\ ReadIsWhole'
  BY SyncStepKeepsOwed
     DEF InSync, HeldIsSafe, ReadIsWhole, OldUnreachable, versionVars,
         memVars, sharedVars, updaterVars, lookupVars
<1> QED
  BY <1>1, <1>2, <1>3, <1>4

(***************************************************************************)
(* The step the grace period is for: what is freed, no lookup holds.       *)
(***************************************************************************)
LEMMA FreedIsNotHeld ==
    ASSUME RcuInv, TableInv, NEW u \in Updaters, Free(u)
    PROVE  /\ old[u] \in Addrs /\ old[u] # cur
           /\ \A r \in Readers :
                 lpc[r] \in {"val", "gen", "unlock"} => p[r] = cur
<1> USE DEF TableInv
<1>1. /\ tpc[u] = "sync" /\ upc[u] = "returned"
      /\ old[u] \in Addrs /\ old[u] # cur
      /\ \A v \in Updaters : v # u => ~OldUnreachable(v)
  BY DEF Free, Go, SyncDone, UpdaterInv, NewIsOwn, HolderProgress,
         HolderHasMutex, Holds, BeforePublish, OldUnreachable
<1>2. owed[u] = {}
  BY <1>1, NothingOwedOnReturn DEF GracePeriod
<1> QED
  BY <1>1, <1>2 DEF HeldIsSafe

\* free(old).
LEMMA FreeInv ==
    ASSUME RcuInv, TableInv, NEW u \in Updaters, Free(u)
    PROVE  TableInv'
<1> USE DEF TableInv
<1>1. /\ tpc[u] = "sync"
      /\ tpc' = [tpc EXCEPT ![u] = "count"]
      /\ \A v \in Updaters : v # u => ~OldUnreachable(v)
  BY DEF Free, Go, UpdaterInv, HolderHasMutex, Holds, OldUnreachable
<1>2. old[u] \in Addrs /\ old[u] # cur
  BY FreedIsNotHeld
<1>3. \A r \in Readers : lpc[r] \in {"val", "gen", "unlock"} => p[r] = cur
  BY FreedIsNotHeld
<1>4. TableTypeOK' /\ DestroyedIsQuiet'
  BY <1>1, <1>2
     DEF Free, TableTypeOK, DestroyedIsQuiet, UpdatePCs, Content, sharedVars,
         lookupVars
<1>5. PCsAgree'
  BY <1>1 DEF Free, SyncDone, RcuInv, RcuTypeOK, TableTypeOK, PCsAgree,
              Inside, readerVars, lookupVars
<1>6. UpdaterInv'
  BY <1>1, <1>2, ThreadAssumption
     DEF Free, TableTypeOK, UpdaterInv, HolderHasMutex, AllocatedExactly,
         NewIsOwn, CurIsWhole, HolderProgress, NoHolder, Holds,
         BeforePublish, OldUnreachable, sharedVars
<1>7. HeldIsSafe' /\ ReadIsWhole'
  BY <1>1, <1>2, <1>3
     DEF Free, TableTypeOK, HeldIsSafe, ReadIsWhole, sharedVars, lookupVars
<1> QED
  BY <1>4, <1>5, <1>6, <1>7

\* rt_destroy, when nothing is under way.
LEMMA DestroyInv ==
    ASSUME RcuInv, TableInv, Destroy
    PROVE  TableInv'
<1> USE DEF TableInv
<1>1. /\ \A u \in Updaters : tpc[u] = "idle"
      /\ \A r \in Readers : lpc[r] = "none"
      /\ update = Nobody /\ cur = latest
  BY ThreadAssumption
     DEF Destroy, Updating, PCsAgree, TableTypeOK, UpdaterInv, NoHolder,
         HolderHasMutex, Holds
<1>2. TableTypeOK' /\ DestroyedIsQuiet'
  BY <1>1 DEF Destroy, TableTypeOK, DestroyedIsQuiet, Content, updaterVars,
              lookupVars
<1>3. PCsAgree'
  BY DEF Destroy, PCsAgree, Inside, rcuVars, readerVars, syncVars,
         updaterVars, lookupVars
<1>4. UpdaterInv'
  BY <1>1 DEF Destroy, TableTypeOK, UpdaterInv, HolderHasMutex,
              AllocatedExactly, NewIsOwn, CurIsWhole, HolderProgress,
              NoHolder, Holds, BeforePublish, OldUnreachable, updaterVars
<1>5. HeldIsSafe' /\ ReadIsWhole'
  BY <1>1 DEF Destroy, HeldIsSafe, ReadIsWhole, lookupVars
<1> QED
  BY <1>2, <1>3, <1>4, <1>5

-----------------------------------------------------------------------------
(***************************************************************************)
(* The invariant is inductive, given the library's.                        *)
(***************************************************************************)
LEMMA LookupStepsInv ==
    ASSUME RcuInv, TableInv, NEW r \in Readers, LookupSteps(r)
    PROVE  TableInv'
BY LookupLockInv, LookupDerefInv, LookupValInv, LookupConsistentInv,
   LookupUnlockInv DEF LookupSteps

\* Every step of rt_update keeps the invariant.
LEMMA UpdateStepsInv ==
    ASSUME RcuInv, TableInv, NEW u \in Updaters, UpdateSteps(u)
    PROVE  TableInv'
BY UpdateMallocInv, UpdateLockInv, FillGenInv, FillValInv, PublishInv,
   SetLatestInv, UpdateSyncInv, InSyncInv, FreeInv, CountFreedInv,
   UpdateUnlockInv DEF UpdateSteps

\* A step that leaves table and library alone.
LEMMA TableStutterInv ==
    ASSUME TableInv, UNCHANGED vars
    PROVE  TableInv'
<1> USE DEF TableInv, vars, versionVars
<1>1. TableTypeOK' /\ DestroyedIsQuiet'
  BY DEF TableTypeOK, DestroyedIsQuiet, memVars, sharedVars, updaterVars,
         lookupVars
<1>2. PCsAgree'
  BY DEF PCsAgree, Inside, rcuVars, readerVars, syncVars, updaterVars,
         lookupVars
<1>3. UpdaterInv'
  BY UpdaterFrame
<1>4. HeldIsSafe' /\ ReadIsWhole'
  BY DEF HeldIsSafe, ReadIsWhole, OldUnreachable, rcuVars, memVars,
         sharedVars, updaterVars, lookupVars
<1> QED
  BY <1>1, <1>2, <1>3, <1>4

(***************************************************************************)
(* Every step of the table, stuttering included, keeps its invariant.      *)
(***************************************************************************)
THEOREM TableNextInv == RcuInv /\ TableInv /\ [Next]_vars => TableInv'
BY LookupStepsInv, OutsideLookupInv, UpdateStepsInv, DestroyInv,
   TableStutterInv DEF Next

(***************************************************************************)
(* Every step of the table is a step of the library, or leaves it alone:   *)
(* table.c uses rcu.c only through its functions.                          *)
(***************************************************************************)
THEOREM TableStepIsRcuStep == [Next]_vars => [RcuNext]_rcuVars
<1> SUFFICES ASSUME [Next]_vars PROVE [RcuNext]_rcuVars
  OBVIOUS
<1>1. ASSUME NEW r \in Readers, LookupSteps(r)
      PROVE  [RcuNext]_rcuVars
  BY <1>1 DEF LookupSteps, LookupLock, LookupDeref, LookupVal,
              LookupConsistent, LookupUnlock, RcuNext, ReaderStep
<1>2. ASSUME NEW r \in Readers, OutsideLookup(r)
      PROVE  [RcuNext]_rcuVars
  BY <1>2 DEF OutsideLookup, RcuNext, ReaderStep
<1>3. ASSUME NEW u \in Updaters, UpdateSteps(u)
      PROVE  [RcuNext]_rcuVars
  BY <1>3 DEF UpdateSteps, UpdateMalloc, UpdateLock, FillGen, FillVal,
              Publish, SetLatest, UpdateSync, InSync, Free, CountFreed,
              UpdateUnlock, RcuNext
<1>4. CASE Destroy
  BY <1>4 DEF Destroy
<1>5. CASE UNCHANGED vars
  BY <1>5 DEF vars
<1> QED
  BY <1>1, <1>2, <1>3, <1>4, <1>5 DEF Next

(***************************************************************************)
(* The table keeps both invariants, for any constants.                     *)
(***************************************************************************)
THEOREM TableInvariant == Spec => [](RcuInv /\ TableInv)
<1>1. Init => RcuInv /\ TableInv
  BY RcuInitInv, TableInitInv DEF Init
<1>2. RcuInv /\ TableInv /\ [Next]_vars => (RcuInv /\ TableInv)'
  BY RcuNextInv, TableNextInv, TableStepIsRcuStep
<1> QED
  BY <1>1, <1>2, PTL DEF Spec

(***************************************************************************)
(* The type invariant of library and table.                                *)
(***************************************************************************)
THEOREM TableTyped == Spec => []TypeOK
<1>1. RcuInv /\ TableInv => TypeOK
  BY DEF RcuInv, TableInv, TypeOK
<1> QED
  BY <1>1, TableInvariant, PTL

(***************************************************************************)
(* rt_update never frees a version a lookup is reading (table.c:79), for   *)
(* any number of readers, updaters, slots and addresses.                   *)
(***************************************************************************)
THEOREM LookupsAreSafe == Spec => []NoUseAfterFree
<1>1. TableInv => NoUseAfterFree
  BY HeldIsAllocated DEF NoUseAfterFree
<1> QED
  BY <1>1, TableInvariant, PTL

(***************************************************************************)
(* rt_lookup never reports a torn read (table.h:8-10).                     *)
(***************************************************************************)
THEOREM LookupsAreWhole == Spec => []NoTornRead
<1>1. TableInv => NoTornRead
  BY DEF TableInv, ReadIsWhole, NoTornRead
<1> QED
  BY <1>1, TableInvariant, PTL

(***************************************************************************)
(* rt_update does not lock up, though it waits for readers with the update *)
(* mutex held (table.c:65, 90), for any number of updaters: who waits for  *)
(* the mutex waits for one that can go on, or that waits for the registry  *)
(* lock, which one that scans gives back, or for a lookup.                 *)
(***************************************************************************)
THEOREM UpdatesGetOn == Spec => []SomebodyGetsOn
<1>1. ASSUME RcuInv, TableInv, OnlyReadersDelay PROVE SomebodyGetsOn
  <2> SUFFICES ASSUME NEW u \in Updating, \A v \in Updating : Waits(v)
               PROVE  \E r \in Readers : lpc[r] # "none"
    BY DEF SomebodyGetsOn
  <2>1. PICK v \in Updaters : tpc[v] = "sync" /\ Waits(v)
    <3>1. CASE tpc[u] = "lock" /\ update # Nobody
      <4>1. update \in Updaters /\ Holds(update)
        BY <1>1, <3>1 DEF TableInv, TableTypeOK, UpdaterInv, HolderHasMutex
      <4>2. update \in Updating
        BY <4>1 DEF Holds, Updating
      <4> QED
        BY <4>1, <4>2 DEF Waits, Holds
    <3>2. CASE tpc[u] = "sync"
      BY <3>2 DEF Updating
    <3> QED
      BY <3>1, <3>2 DEF Waits
  <2>2. CASE upc[v] = "lock" /\ registry # Nobody
    <3>1. registry \in Updaters /\ upc[registry] = "scan"
      BY <1>1, <2>2 DEF OnlyReadersDelay, RcuInv, RcuTypeOK
    <3>2. tpc[registry] = "sync"
      BY <1>1, <3>1 DEF TableInv, PCsAgree
    <3> QED
      BY <3>1, <3>2 DEF Waits, Updating
  <2>3. CASE upc[v] = "poll" /\ StillWaiting(v, idx[v])
    <3>1. PICK r \in Readers : Inside(r)
      BY <1>1, <2>3 DEF OnlyReadersDelay
    <3> QED
      BY <1>1, <3>1 DEF TableInv, PCsAgree
  <2> QED
    BY <2>1, <2>2, <2>3 DEF Waits
<1>2. Init => DelayInv
  BY DelayInitInv DEF Init
<1>3. Spec => []DelayInv
  BY <1>2, DelayNextInv, TableStepIsRcuStep, TableInvariant, PTL DEF Spec
<1> QED
  BY <1>1, <1>3, DelaysAreReaders, TableInvariant, PTL

(***************************************************************************)
(* Each update frees exactly the version it replaced (table.c:79, rt_freed *)
(* counts the updates), and rt_destroy frees the last one.                 *)
(***************************************************************************)
THEOREM UpdatesFreeTheOld == Spec => []NothingLeaked
<1>1. ASSUME TableInv PROVE NothingLeaked
  <2> SUFFICES ASSUME update = Nobody PROVE NothingLeaked
    BY DEF NothingLeaked
  <2>1. \A u \in Updaters : tpc[u] \in {"idle", "lock"}
    BY <1>1, ThreadAssumption DEF TableInv, UpdaterInv, HolderHasMutex, Holds
  <2>2. \A a \in Addrs : a \in allocated <=>
            \/ alive /\ a = cur
            \/ \E u \in Updaters : tpc[u] = "lock" /\ a = nv[u]
    BY <1>1, <2>1
       DEF TableInv, UpdaterInv, AllocatedExactly, OldUnreachable
  <2>3. /\ allocated \subseteq Addrs /\ cur \in Addrs
        /\ \A u \in Updaters : tpc[u] = "lock" => nv[u] \in Addrs
    BY <1>1 DEF TableInv, TableTypeOK, UpdaterInv, NewIsOwn
  <2>4. allocated = (IF alive THEN {cur} ELSE {})
                       \cup {nv[u] : u \in {v \in Updaters : tpc[v] = "lock"}}
    BY <2>2, <2>3
  <2> QED
    BY <1>1, <2>4 DEF TableInv, UpdaterInv, NoHolder, NothingLeaked
<1> QED
  BY <1>1, TableInvariant, PTL

-----------------------------------------------------------------------------
(***************************************************************************)
(* Refinement.  The answer of a lookup that has dereferenced is the        *)
(* generation of the version it holds, from there on.                      *)
(***************************************************************************)
Held(r) == lpc[r] \in {"val", "gen", "unlock"}

AnswersAreHeld ==
    \A r \in Readers :
        /\ Held(r) => AnswerOf(r) = gen[p[r]] /\ AnswerOf(r) # Nobody
        /\ ~Held(r) => AnswerOf(r) = Nobody

\* The invariant makes the answers those of the versions held.
LEMMA AnswerIsHeld == TableInv => AnswersAreHeld
<1> SUFFICES ASSUME TableInv, NEW r \in Readers
             PROVE  /\ Held(r) => /\ AnswerOf(r) = gen[p[r]]
                                  /\ AnswerOf(r) # Nobody
                    /\ ~Held(r) => AnswerOf(r) = Nobody
  BY DEF AnswersAreHeld
<1>1. CASE Held(r)
  <2>1. gen[p[r]] \in Nat
    BY <1>1, HeldIsAllocated DEF Held
  <2>2. AnswerOf(r) = gen[p[r]]
    BY <1>1 DEF Held, AnswerOf, TableInv, ReadIsWhole
  <2> QED
    BY <1>1, <2>1, <2>2, NobodyAssumption
<1>2. CASE ~Held(r)
  BY <1>2 DEF Held, AnswerOf
<1> QED
  BY <1>1, <1>2

(***************************************************************************)
(* A step that changes neither what the lookups hold nor the generation of *)
(* a version held leaves their answers alone.                              *)
(***************************************************************************)
LEMMA AnswersKept ==
    ASSUME AnswersAreHeld, AnswersAreHeld',
           UNCHANGED <<lpc, p>>,
           \A r \in Readers : Held(r) => gen'[p[r]] = gen[p[r]]
    PROVE  \A r \in Readers : AnswerOf(r)' = AnswerOf(r)
<1> SUFFICES ASSUME NEW r \in Readers PROVE AnswerOf(r)' = AnswerOf(r)
  OBVIOUS
<1>1. /\ Held(r) => AnswerOf(r) = gen[p[r]]
      /\ ~Held(r) => AnswerOf(r) = Nobody
  BY DEF AnswersAreHeld
<1>2. /\ Held(r)' => AnswerOf(r)' = gen'[p'[r]]
      /\ ~Held(r)' => AnswerOf(r)' = Nobody
  BY DEF AnswersAreHeld
<1>3. Held(r)' <=> Held(r)
  BY DEF Held
<1> QED
  BY <1>1, <1>2, <1>3

\* No step of an updater touches a version a lookup holds.
LEMMA UpdatersKeepHeld ==
    ASSUME RcuInv, TableInv, NEW u \in Updaters, UpdateSteps(u)
    PROVE  \A r \in Readers : Held(r) => gen'[p[r]] = gen[p[r]]
<1> SUFFICES ASSUME NEW r \in Readers, Held(r)
             PROVE  gen'[p[r]] = gen[p[r]]
  OBVIOUS
<1>1. CASE UpdateLock(u) \/ FillGen(u)
  <2>1. p[r] # nv[u]
    BY <1>1
       DEF UpdateLock, FillGen, Go, Held, TableInv, UpdaterInv, NewIsOwn,
           HolderProgress, HeldIsSafe, BeforePublish
  <2> QED
    BY <1>1, <2>1, HeldIsAllocated
       DEF UpdateLock, FillGen, Held, TableInv, TableTypeOK
<1>2. CASE Free(u)
  <2>1. p[r] # old[u]
    BY <1>2, FreedIsNotHeld DEF Held
  <2> QED
    BY <1>2, <2>1, HeldIsAllocated DEF Free, Held, TableInv, TableTypeOK
<1>3. CASE UNCHANGED gen
  BY <1>3
<1> QED
  BY <1>1, <1>2, <1>3
     DEF UpdateSteps, UpdateMalloc, FillVal, Publish, SetLatest, UpdateSync,
         InSync, CountFreed, UpdateUnlock, memVars, versionVars

(***************************************************************************)
(* What each step is to the version and the answers.                       *)
(***************************************************************************)
Invisible ==
    Version' = Version /\ \A r \in Readers : AnswerOf(r)' = AnswerOf(r)

\* One answer changes and the others do not: the abstract function is updated.
LEMMA AnswerBecomes ==
    ASSUME NEW r \in Readers, NEW v, AnswerOf(r)' = v,
           \A q \in Readers \ {r} : AnswerOf(q)' = AnswerOf(q)
    PROVE  [q \in Readers |-> AnswerOf(q)'] =
              [[q \in Readers |-> AnswerOf(q)] EXCEPT ![r] = v]
OBVIOUS

\* A step of rt_lookup: the dereference is the abstract lookup, the end of the
\* section its return, the rest is invisible.
LEMMA LookupImplements ==
    ASSUME TableInv, AnswersAreHeld, AnswersAreHeld',
           NEW r \in Readers, LookupSteps(r)
    PROVE  Invisible \/ Abstract!Lookup(r) \/ Abstract!Return(r)
<1>1. Version' = Version
  BY DEF LookupSteps, LookupLock, LookupDeref, LookupVal, LookupConsistent,
         LookupUnlock, Version, memVars, sharedVars
<1>2. \A q \in Readers \ {r} : AnswerOf(q)' = AnswerOf(q)
  BY DEF LookupSteps, LookupLock, LookupDeref, LookupVal, LookupConsistent,
         LookupUnlock, At, TableInv, TableTypeOK, AnswersAreHeld, Held,
         memVars
<1>3. CASE LookupDeref(r)
  <2>1. AnswerOf(r) = Nobody /\ AnswerOf(r)' = Version
    BY <1>3 DEF LookupDeref, At, TableInv, TableTypeOK, DestroyedIsQuiet,
                AnswersAreHeld, Held, Version, memVars, sharedVars
  <2> QED
    BY <1>1, <1>2, <2>1 DEF Abstract!Lookup
<1>4. CASE LookupUnlock(r)
  <2>1. AnswerOf(r) # Nobody /\ AnswerOf(r)' = Nobody
    BY <1>4 DEF LookupUnlock, At, TableInv, TableTypeOK, AnswersAreHeld, Held
  <2>2. [q \in Readers |-> AnswerOf(q)'] =
           [[q \in Readers |-> AnswerOf(q)] EXCEPT ![r] = Nobody]
    BY <1>2, <2>1, AnswerBecomes
  <2> QED
    BY <1>1, <2>1, <2>2 DEF Abstract!Return
<1>5. CASE LookupLock(r) \/ LookupVal(r) \/ LookupConsistent(r)
  <2>1. AnswerOf(r)' = AnswerOf(r)
    BY <1>5 DEF LookupLock, LookupVal, LookupConsistent, At, TableInv,
                TableTypeOK, AnswersAreHeld, Held, memVars
  <2> QED
    BY <1>1, <1>2, <2>1 DEF Invisible
<1> QED
  BY <1>3, <1>4, <1>5 DEF LookupSteps

\* A step of rt_update: the publication is the abstract update, the rest is
\* invisible.
LEMMA UpdateImplements ==
    ASSUME RcuInv, TableInv, AnswersAreHeld, AnswersAreHeld',
           NEW u \in Updaters, UpdateSteps(u)
    PROVE  Invisible \/ Abstract!Update
<1>1. \A r \in Readers : AnswerOf(r)' = AnswerOf(r)
  <2>1. UNCHANGED <<lpc, p>>
    BY DEF UpdateSteps, UpdateMalloc, UpdateLock, FillGen, FillVal, Publish,
           SetLatest, UpdateSync, InSync, Free, CountFreed, UpdateUnlock,
           lookupVars, versionVars
  <2> QED
    BY <2>1, UpdatersKeepHeld, AnswersKept
<1>2. alive /\ alive' /\ cur \in Addrs
  BY DEF UpdateSteps, UpdateMalloc, UpdateLock, FillGen, FillVal, Publish,
         SetLatest, UpdateSync, InSync, Free, CountFreed, UpdateUnlock, Go,
         TableInv, TableTypeOK, DestroyedIsQuiet, sharedVars, versionVars
<1>3. CASE Publish(u)
  <2>1. Version' = Version + 1
    BY <1>2, <1>3 DEF Publish, Go, TableInv, UpdaterInv, HolderProgress,
                      Version, memVars
  <2> QED
    BY <1>1, <2>1 DEF Abstract!Update
<1>4. CASE UpdateLock(u) \/ FillGen(u)
  <2>1. nv[u] # cur
    BY <1>4 DEF UpdateLock, FillGen, Go, TableInv, UpdaterInv, NewIsOwn,
                BeforePublish
  <2>2. Version' = Version
    BY <1>2, <1>4, <2>1 DEF UpdateLock, FillGen, TableInv, TableTypeOK,
                            Version, sharedVars
  <2> QED
    BY <1>1, <2>2 DEF Invisible
<1>5. CASE Free(u)
  <2>1. Version' = Version
    BY <1>2, <1>5, FreedIsNotHeld
       DEF Free, TableInv, TableTypeOK, Version, sharedVars
  <2> QED
    BY <1>1, <2>1 DEF Invisible
<1>6. CASE UNCHANGED <<gen, cur>>
  BY <1>1, <1>2, <1>6 DEF Invisible, Version
<1> QED
  BY <1>3, <1>4, <1>5, <1>6
     DEF UpdateSteps, UpdateMalloc, FillVal, SetLatest, UpdateSync, InSync,
         CountFreed, UpdateUnlock, memVars, sharedVars, versionVars

\* rt_destroy leaves the last version as the abstract one.
LEMMA DestroyImplements ==
    ASSUME TableInv, AnswersAreHeld, AnswersAreHeld', Destroy
    PROVE  Invisible
<1>1. \A r \in Readers : lpc[r] = "none" /\ lpc'[r] = "none"
  BY DEF Destroy, TableInv, TableTypeOK, PCsAgree, lookupVars
<1>2. update = Nobody
  BY ThreadAssumption
     DEF Destroy, Updating, TableInv, TableTypeOK, UpdaterInv,
         HolderHasMutex, Holds
<1>3. Version' = Version
  BY <1>2 DEF Destroy, TableInv, UpdaterInv, NoHolder, Version
<1> QED
  BY <1>1, <1>3 DEF Invisible, AnswersAreHeld, Held

(***************************************************************************)
(* The table of table.c with RCU implements the abstract versioned table   *)
(* (table.h): lookups and updates behave as if each took effect at once,   *)
(* at the dereference and at the publication.                              *)
(***************************************************************************)
THEOREM TableImplements == Spec => ImplementsVersionedTable
<1>1. Init => Abstract!Init
  BY DEF Init, TableInit, AnswerOf, Version, Abstract!Init
<1>2. RcuInv /\ TableInv /\ TableInv' /\ [Next]_vars
        => [Abstract!Next]_(Abstract!tableVars)
  <2> SUFFICES ASSUME RcuInv, TableInv, TableInv', [Next]_vars
               PROVE  [Abstract!Next]_(Abstract!tableVars)
    OBVIOUS
  <2>1. AnswersAreHeld /\ AnswersAreHeld'
    BY AnswerIsHeld, PTL
  <2>2. ASSUME Invisible PROVE UNCHANGED Abstract!tableVars
    BY <2>2 DEF Invisible, Abstract!tableVars
  <2>3. ASSUME NEW r \in Readers, LookupSteps(r)
        PROVE  [Abstract!Next]_(Abstract!tableVars)
    BY <2>1, <2>2, <2>3, LookupImplements DEF Abstract!Next
  <2>4. ASSUME NEW r \in Readers, OutsideLookup(r)
        PROVE  [Abstract!Next]_(Abstract!tableVars)
    <3>1. Invisible
      BY <2>1, <2>4, AnswersKept
         DEF OutsideLookup, versionVars, memVars, sharedVars, lookupVars,
             Invisible, Version
    <3> QED
      BY <2>2, <3>1
  <2>5. ASSUME NEW u \in Updaters, UpdateSteps(u)
        PROVE  [Abstract!Next]_(Abstract!tableVars)
    BY <2>1, <2>2, <2>5, UpdateImplements DEF Abstract!Next
  <2>6. CASE Destroy
    BY <2>1, <2>2, <2>6, DestroyImplements
  <2>7. CASE UNCHANGED vars
    <3>1. Invisible
      BY <2>1, <2>7, AnswersKept
         DEF vars, versionVars, memVars, sharedVars, lookupVars, Invisible,
             Version
    <3> QED
      BY <2>2, <3>1
  <2> QED
    BY <2>3, <2>4, <2>5, <2>6, <2>7 DEF Next
<1> QED
  BY <1>1, <1>2, TableInvariant, PTL
     DEF Spec, ImplementsVersionedTable, Abstract!Spec
=============================================================================
