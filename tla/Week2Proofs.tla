---------------------------- MODULE Week2Proofs ----------------------------
(***************************************************************************)
(* Proofs about the three programs of week 2, for every value of their     *)
(* constants: the copy guard, the module life cycle and the procstat       *)
(* kernel module.                                                          *)
(***************************************************************************)
EXTENDS CopyGuard, Lifecycle, ProcStat, FiniteSetTheorems, TLAPS

-----------------------------------------------------------------------------
(***************************************************************************)
(* CopyGuard: no order of calls and no length makes a copy leave its       *)
(* buffer or show what is not in it.                                       *)
(***************************************************************************)
\* The four bytes that are not letters are four.
LEMMA BytesDiffer ==
    /\ NUL # GUARD_BYTE /\ NUL # Fill
    /\ \A c \in Letters : c # NUL /\ c # Fill /\ c # NULL
<1>1. \A a, b : IsFiniteSet({a, b}) /\ Cardinality({a, b}) <= 2
  <2> TAKE a, b
  <2>1. IsFiniteSet({a}) /\ Cardinality({a}) = 1
    BY FS_Singleton
  <2>2. {a, b} = {a} \cup {b}
    OBVIOUS
  <2> QED
    BY <2>1, <2>2, FS_AddElement
<1>2. \A a, b, c : Cardinality({a, b, c}) <= 3
  <2> TAKE a, b, c
  <2>1. IsFiniteSet({a, b}) /\ Cardinality({a, b}) <= 2 /\ Cardinality({a, b}) \in Nat
    BY <1>1, FS_CardinalityType
  <2>2. {a, b, c} = {a, b} \cup {c}
    OBVIOUS
  <2> QED
    BY <2>1, <2>2, FS_AddElement
<1>3. ASSUME NUL = GUARD_BYTE PROVE FALSE
  <2>1. {NUL, GUARD_BYTE, Fill, NULL} = {NUL, Fill, NULL}
    BY <1>3
  <2>2. Cardinality({NUL, GUARD_BYTE, Fill, NULL}) <= 3
    BY <2>1, <1>2, Zenon
  <2> QED
    BY <2>2, ByteAssumption
<1>4. ASSUME NUL = Fill PROVE FALSE
  <2>1. {NUL, GUARD_BYTE, Fill, NULL} = {NUL, GUARD_BYTE, NULL}
    BY <1>4
  <2>2. Cardinality({NUL, GUARD_BYTE, Fill, NULL}) <= 3
    BY <2>1, <1>2, Zenon
  <2> QED
    BY <2>2, ByteAssumption
<1> QED
  BY <1>3, <1>4, ByteAssumption

\* The buffer holds the data last offered, cut to fit and terminated, and
\* kbuf_len is its length; under the rules the guard is as it was armed.
KbufInv ==
    /\ armed \in BOOLEAN
    /\ kmem \in [Kmem -> Letters \cup {NUL, GUARD_BYTE}]
    /\ latest \in [letter : Letters \cup {NUL}, length : 0 .. BIG_SZ]
    /\ kbufLen = min(latest.length, KBUF_SZ - 1)
    /\ \A i \in 0 .. kbufLen - 1 : kmem[i] = latest.letter
    /\ latest.length # 0 => latest.letter \in Letters
    /\ armed => \A i \in Guard : kmem[i] = GUARD_BYTE

GuardInv == KbufInv /\ failures = 0 /\ CopiesOutTheLatest

\* The program starts in the invariant.
THEOREM GuardInitInv == GuardInit => GuardInv
BY SizeAssumption
   DEF GuardInit, GuardInv, KbufInv, CopiesOutTheLatest, Kmem, Guard, Ubuf, Big, Offer, min

\* Data stored in the buffer, with its terminator, leaves the guard alone.
LEMMA StoreInv ==
    ASSUME KbufInv, NEW c \in Letters, NEW n \in 0 .. BIG_SZ,
           UNCHANGED armed,
           kmem' = Terminated(c, Bound(n)), kbufLen' = Bound(n),
           latest' = Offer(c, n)
    PROVE  /\ KbufInv'
           /\ armed => \A i \in Guard : kmem'[i] = GUARD_BYTE
           /\ kmem'[Bound(n)] = NUL
           /\ \A i \in 0 .. Bound(n) - 1 : kmem'[i] = c
<1>1. Bound(n) \in 0 .. KBUF_SZ - 1 /\ Bound(n) = min(n, KBUF_SZ - 1)
  BY SizeAssumption DEF Bound, min
<1>2. \A i \in Kmem : kmem'[i] = IF i < Bound(n) THEN c ELSE IF i = Bound(n) THEN NUL ELSE kmem[i]
  BY DEF Terminated
<1>3. \A i \in Guard : i \in Kmem /\ i > Bound(n)
  BY <1>1, SizeAssumption DEF Guard, Kmem
<1>4. \A i \in 0 .. Bound(n) : i \in Kmem
  BY <1>1, SizeAssumption DEF Kmem
<1>5. kmem' \in [Kmem -> Letters \cup {NUL, GUARD_BYTE}]
  BY DEF KbufInv, Terminated
<1>6. kmem'[Bound(n)] = NUL /\ \A i \in 0 .. Bound(n) - 1 : kmem'[i] = c
  BY <1>1, <1>2, <1>4
<1>7. armed => \A i \in Guard : kmem'[i] = GUARD_BYTE
  <2>1. \A i \in Guard : kmem'[i] = kmem[i]
    BY <1>1, <1>2, <1>3, SizeAssumption DEF Guard
  <2> QED
    BY <2>1 DEF KbufInv
<1>8. latest' \in [letter : Letters \cup {NUL}, length : 0 .. BIG_SZ]
      /\ latest'.letter = c /\ latest'.length = n
  BY DEF Offer
<1> QED
  BY <1>1, <1>5, <1>6, <1>7, <1>8 DEF KbufInv

\* kwrite puts the beginning of the buffer into the user's.
LEMMA CopyOut ==
    ASSUME KbufInv', NEW ulen \in 0 .. BIG_SZ,
           ubuf' = KwriteInto([i \in Ubuf |-> Fill], kmem', ulen, kbufLen'),
           drawn' = [of |-> latest', asked |-> ulen,
                     left |-> Kwrite("ubuf", ulen, kbufLen')]
    PROVE  LET n == min(ulen, min(latest'.length, KBUF_SZ - 1)) IN
           /\ n = Clamp(ulen, kbufLen') /\ n \in 0 .. ulen
           /\ ubuf' = [i \in Ubuf |-> IF i < n THEN latest'.letter ELSE Fill]
           /\ drawn'.left = ulen - n
           /\ n # 0 => latest'.letter \in Letters
<1> DEFINE n == min(ulen, min(latest'.length, KBUF_SZ - 1))
<1>1. n = Clamp(ulen, kbufLen') /\ n \in 0 .. ulen /\ n <= kbufLen'
      /\ (n # 0 => latest'.length # 0)
  BY SizeAssumption DEF KbufInv, Clamp, min
<1>2. \A i \in Ubuf : i < n => kmem'[i] = latest'.letter
  BY <1>1, SizeAssumption DEF KbufInv, Ubuf, Big, min
<1>3. drawn'.left = ulen - n
  BY <1>1, ByteAssumption DEF Kwrite
<1> HIDE DEF n
<1>4. ubuf' = [i \in Ubuf |-> IF i < n THEN latest'.letter ELSE Fill]
  BY <1>1, <1>2 DEF KwriteInto
<1>5. n # 0 => latest'.letter \in Letters
  BY <1>1 DEF KbufInv
<1> QED
  BY <1>1, <1>3, <1>4, <1>5 DEF n

\* strlen of terminated letters is their number.
LEMMA StrlenIs ==
    ASSUME NEW c \in Letters, NEW n \in 0 .. KBUF_SZ - 1,
           kmem'[n] = NUL, \A i \in 0 .. n - 1 : kmem'[i] = c
    PROVE  Strlen = n
<1> DEFINE P(m) == /\ m \in Kmem => kmem'[m] = NUL
                   /\ \A i \in 0 .. m - 1 : kmem'[i] # NUL
           K == 0 .. KBUF_SZ + GUARD_SZ
<1>1. n \in K /\ P(n)
  BY SizeAssumption, BytesDiffer
<1>2. \A m \in K : P(m) => m = n
  <2> SUFFICES ASSUME NEW m \in K, P(m), m # n PROVE FALSE
    OBVIOUS
  <2>1. ~(n < m)
    BY SizeAssumption
  <2>2. m < n /\ m \in Kmem
    BY <2>1, SizeAssumption DEF Kmem
  <2> QED
    BY <2>2, BytesDiffer
<1>3. Strlen = CHOOSE m \in K : P(m)
  BY DEF Strlen
<1> HIDE DEF P, K
<1> QED
  BY <1>1, <1>2, <1>3

\* What the sweep counts is what was copied.
LEMMA CountCopiedIs ==
    ASSUME NEW big, NEW c \in Letters, NEW ulen \in 0 .. BIG_SZ, NEW n \in 0 .. ulen,
           ~armed, big = [i \in Ubuf |-> IF i < n THEN c ELSE Fill]
    PROVE  CountCopied(big, ulen) = n
<1> DEFINE P(m) == /\ m < ulen => big[m] = Fill
                   /\ \A i \in 0 .. m - 1 : big[i] # Fill
<1>0. \A i \in 0 .. ulen - 1 : big[i] = IF i < n THEN c ELSE Fill
  BY SizeAssumption DEF Ubuf, Big
<1>1. n \in 0 .. ulen /\ P(n)
  BY <1>0, BytesDiffer
<1>2. \A m \in 0 .. ulen : P(m) => m = n
  <2> SUFFICES ASSUME NEW m \in 0 .. ulen, P(m), m # n PROVE FALSE
    OBVIOUS
  <2>1. ~(n < m)
    BY <1>0
  <2>2. m < n
    BY <2>1
  <2> QED
    BY <2>2, <1>0, BytesDiffer
<1>3. CountCopied(big, ulen) = CHOOSE m \in 0 .. ulen : P(m)
  BY DEF CountCopied
<1> HIDE DEF P
<1> QED
  BY <1>1, <1>2, <1>3

\* Every call keeps the invariant.
THEOREM GuardStepInv == GuardInv /\ [GuardNext]_guardVars => GuardInv'
<1> SUFFICES ASSUME GuardInv, [GuardNext]_guardVars PROVE GuardInv'
  OBVIOUS
<1>1. CASE RefuseNull
  BY <1>1, SizeAssumption
     DEF RefuseNull, Check, Kwrite, GuardInv, KbufInv, CopiesOutTheLatest, Ubuf, Big
<1>2. CASE Prepare
  <2>1. PICK c \in Letters, n \in Lengths \cap 0 .. KBUF_SZ - 1 :
           kmem' = Terminated(c, n) /\ kbufLen' = n /\ latest' = Offer(c, n)
    BY <1>2 DEF Prepare
  <2>2. n \in 0 .. BIG_SZ /\ n = Bound(n)
    BY SizeAssumption DEF Bound, min
  <2>3. KbufInv'
    BY <1>2, <2>1, <2>2, StoreInv DEF Prepare, GuardInv
  <2> QED
    BY <1>2, <2>3 DEF Prepare, GuardInv, CopiesOutTheLatest, Ubuf, Big
<1>3. CASE OverLongRead
  <2>1. KbufInv' /\ UNCHANGED <<armed, kmem, kbufLen, latest, row>> /\ armed
    BY <1>3 DEF OverLongRead, GuardInv, KbufInv
  <2>2. UBUF_SZ \in 0 .. BIG_SZ
    BY SizeAssumption
  <2>3. /\ ubuf' = KwriteInto([i \in Ubuf |-> Fill], kmem', UBUF_SZ, kbufLen')
        /\ drawn' = [of |-> latest', asked |-> UBUF_SZ,
                     left |-> Kwrite("ubuf", UBUF_SZ, kbufLen')]
    BY <1>3, <2>1 DEF OverLongRead
  <2>4. CopiesOutTheLatest'
    BY <2>1, <2>2, <2>3, CopyOut DEF CopiesOutTheLatest, Ubuf, Big
  <2>5. failures' = 0
    <3>1. kbufLen \in 0 .. UBUF_SZ - 1 /\ Clamp(UBUF_SZ, kbufLen) = kbufLen
      BY SizeAssumption DEF GuardInv, KbufInv, Clamp, min
    <3>2. ubuf'[kbufLen] = Fill
      BY <2>1, <2>3, <3>1 DEF KwriteInto, Ubuf, Big
    <3>3. Kwrite("ubuf", UBUF_SZ, kbufLen) = UBUF_SZ - kbufLen
      BY <3>1, ByteAssumption DEF Kwrite
    <3> QED
      BY <1>3, <3>2, <3>3 DEF OverLongRead, Check, GuardInv
  <2> QED
    BY <2>1, <2>4, <2>5 DEF GuardInv
<1>4. CASE Write
  <2>1. PICK c \in Letters, ulen \in Lengths :
          /\ KreadFrom(c, ulen)
          /\ latest' = Offer(c, ulen)
          /\ IF ulen < KBUF_SZ
             THEN Check(Strlen = ulen)
             ELSE Check(/\ GuardIntact
                        /\ kbufLen' = KBUF_SZ - 1
                        /\ Kread(c, ulen) = ulen - (KBUF_SZ - 1))
    BY <1>4 DEF Write
  <2>2. ulen \in 0 .. BIG_SZ
    BY SizeAssumption
  <2>3. /\ KbufInv'
        /\ armed => \A i \in Guard : kmem'[i] = GUARD_BYTE
        /\ kmem'[Bound(ulen)] = NUL
        /\ \A i \in 0 .. Bound(ulen) - 1 : kmem'[i] = c
    BY <1>4, <2>1, <2>2, StoreInv DEF Write, KreadFrom, GuardInv
  <2>4. failures' = 0
    <3>1. CASE ulen < KBUF_SZ
      <4>1. Bound(ulen) = ulen /\ ulen \in 0 .. KBUF_SZ - 1
        BY <2>2, <3>1, SizeAssumption DEF Bound, min
      <4>2. Strlen = ulen
        BY <2>3, <4>1, StrlenIs
      <4> QED
        BY <2>1, <3>1, <4>2 DEF Check, GuardInv
    <3>2. CASE ~(ulen < KBUF_SZ)
      <4>1. Bound(ulen) = KBUF_SZ - 1
        BY <2>2, <3>2, SizeAssumption DEF Bound, min
      <4>2. Kread(c, ulen) = ulen - (KBUF_SZ - 1)
        BY <4>1, BytesDiffer DEF Kread
      <4>3. GuardIntact
        BY <1>4, <2>3 DEF Write, GuardIntact
      <4> QED
        BY <2>1, <3>2, <4>1, <4>2, <4>3 DEF Check, GuardInv, KreadFrom
    <3> QED
      BY <3>1, <3>2
  <2> QED
    BY <1>4, <2>3, <2>4 DEF Write, GuardInv, CopiesOutTheLatest, Ubuf, Big
<1>5. CASE Sweep
  <2>1. PICK c \in Letters, n \in Lengths \cap 0 .. KBUF_SZ - 1, ulen \in Lengths :
          /\ kmem' = Terminated(c, n)
          /\ kbufLen' = n
          /\ latest' = Offer(c, n)
          /\ ubuf' = KwriteInto([i \in Ubuf |-> Fill], kmem', ulen, n)
          /\ drawn' = [of |-> latest', asked |-> ulen,
                       left |-> Kwrite("ubuf", ulen, n)]
          /\ row' = [requested |-> ulen, copied |-> CountCopied(ubuf', ulen),
                     tail |-> Kwrite("ubuf", ulen, n)]
    BY <1>5 DEF Sweep
  <2>2. n \in 0 .. BIG_SZ /\ n = Bound(n) /\ ulen \in 0 .. BIG_SZ
    BY SizeAssumption DEF Bound, min
  <2>3. KbufInv'
    BY <1>5, <2>1, <2>2, StoreInv DEF Sweep, GuardInv
  <2> DEFINE m == min(ulen, min(latest'.length, KBUF_SZ - 1))
  <2>4. /\ m \in 0 .. ulen
        /\ ubuf' = [i \in Ubuf |-> IF i < m THEN latest'.letter ELSE Fill]
        /\ drawn'.left = ulen - m
    BY <2>1, <2>2, <2>3, CopyOut
  <2>5. /\ latest'.letter = c /\ drawn'.of = latest' /\ drawn'.asked = ulen
        /\ ~armed /\ armed' = armed
    BY <1>5, <2>1 DEF Offer, Sweep
  <2>6. CountCopied(ubuf', ulen) = m
    BY <2>2, <2>4, <2>5, CountCopiedIs
  <2>7. row'.copied = m /\ row'.copied + row'.tail = row'.requested
    <3> HIDE DEF m
    <3> QED
      BY <2>1, <2>2, <2>4, <2>6
  <2>8. CopiesOutTheLatest'
    BY <2>4, <2>5, <2>7 DEF CopiesOutTheLatest, Ubuf, Big
  <2> QED
    BY <1>5, <2>3, <2>8 DEF Sweep, GuardInv
<1>6. CASE UNCHANGED guardVars
  BY <1>6 DEF guardVars, GuardInv, KbufInv, CopiesOutTheLatest, Ubuf, Big
<1> QED
  BY <1>1, <1>2, <1>3, <1>4, <1>5, <1>6 DEF GuardNext

\* The inductive invariant holds always.
THEOREM GuardInvariant == GuardSpec => []GuardInv
BY GuardInitInv, GuardStepInv, PTL DEF GuardSpec

\* copyguard.c:203: for buffers of any size and in any order of calls none of
\* the program's own checks fails.
THEOREM RulesHold == GuardSpec => []AllFourRulesHold
<1>1. GuardInv => AllFourRulesHold
  BY DEF GuardInv, AllFourRulesHold
<1> QED
  BY <1>1, GuardInvariant, PTL

\* copyguard.c:58-61, 116-128: a copy out shows the data last offered, as far
\* as it was asked for and fits, and nothing else; the answers say so.
THEOREM CopiesAreExact == GuardSpec => []CopiesOutTheLatest
<1>1. GuardInv => CopiesOutTheLatest
  BY DEF GuardInv
<1> QED
  BY <1>1, GuardInvariant, PTL
-----------------------------------------------------------------------------
(***************************************************************************)
(* Lifecycle: whatever acquisition fails, and however often malloc does,   *)
(* each path gives back what it took.                                      *)
(***************************************************************************)
\* What is held is the first `live` resources; main's place says how far that
\* is and which pointers lead there.  A path that is to fail at an
\* acquisition does not get past it, and init has then answered -1.
LifeInv ==
    /\ live \in 0 .. Resources /\ which \in 0 .. Resources + 1
    /\ failAt \in 0 .. Resources /\ bad = 0
    /\ held = 1 .. live
    /\ at \in {"init", "unwind", "exit", "end", "done"}
    /\ at = "init" => /\ handle = held /\ which = live + 1
                      /\ failAt # 0 => which <= failAt
    /\ at = "unwind" => handle \subseteq Ids /\ held \subseteq handle /\ which = live
    /\ at = "exit" => /\ failAt = 0 /\ which \in 0 .. Resources
                      /\ \/ handle = Ids /\ live = which
                         \/ handle = {} /\ live = 0
    /\ at = "end" => live = 0 /\ (failAt # 0 => rc = -1)
    /\ at = "done" => live = 0

\* The program starts in the invariant.
THEOREM LifeInitInv == LifeInit => LifeInv
BY ResourceAssumption DEF LifeInit, LifeInv, Ids

\* An acquisition, the one main makes fail excepted.
LEMMA AcquireInv == LifeInv /\ Acquire => LifeInv'
<1> SUFFICES ASSUME LifeInv, Acquire PROVE LifeInv'
  OBVIOUS
<1> USE ResourceAssumption DEF LifeInv, Acquire, Ids
<1>1. live' \in 0 .. Resources /\ which' = live' + 1
  OBVIOUS
<1>2. held' = 1 .. live'
  OBVIOUS
<1>3. failAt # 0 => which' <= failAt
  OBVIOUS
<1> QED
  BY <1>1, <1>2, <1>3

\* A release of the last resource that is held.
LEMMA ReleaseInv ==
    ASSUME LifeInv, Unwind \/ Exit
    PROVE  LifeInv'
<1> USE ResourceAssumption DEF LifeInv, Release, Ids
<1>1. CASE Unwind
  <2>1. which \in handle /\ live' = live - 1 /\ which' = live'
    BY <1>1 DEF Unwind
  <2>2. held' = 1 .. live' /\ held' \subseteq handle
    BY <1>1, <2>1 DEF Unwind
  <2> QED
    BY <1>1, <2>1, <2>2 DEF Unwind
<1>2. CASE Exit
  <2>1. CASE handle = Ids /\ live = which
    <3>1. live' = live - 1 /\ held' = 1 .. live'
      BY <1>2, <2>1 DEF Exit
    <3> QED
      BY <1>2, <2>1, <3>1 DEF Exit
  <2>2. CASE handle = {} /\ live = 0
    <3>1. live' = 0 /\ held' = 1 .. live'
      BY <1>2, <2>2 DEF Exit
    <3> QED
      BY <1>2, <2>2, <3>1 DEF Exit
  <2> QED
    BY <1>2, <2>1, <2>2 DEF Exit
<1> QED
  BY <1>1, <1>2

\* Every step keeps the invariant.
THEOREM LifeStepInv == LifeInv /\ [LifeNext]_lifeVars => LifeInv'
<1> SUFFICES ASSUME LifeInv, [LifeNext]_lifeVars PROVE LifeInv'
  OBVIOUS
<1> USE ResourceAssumption DEF Ids
<1>1. CASE Acquire
  BY <1>1, AcquireInv
<1>2. CASE Unwind \/ Exit
  BY <1>2, ReleaseInv
<1>3. CASE InitDone
  BY <1>3 DEF LifeInv, InitDone
<1>4. CASE AcquireFails
  BY <1>4 DEF LifeInv, AcquireFails
<1>5. CASE InitFails
  BY <1>5 DEF LifeInv, InitFails
<1>6. CASE ExitReturns
  BY <1>6 DEF LifeInv, ExitReturns
<1>7. CASE EndOfPath
  BY <1>7 DEF LifeInv, EndOfPath
<1>8. CASE UNCHANGED lifeVars
  BY <1>8 DEF LifeInv, lifeVars
<1> QED
  BY <1>1, <1>2, <1>3, <1>4, <1>5, <1>6, <1>7, <1>8 DEF LifeNext, LifeDone

\* lifecycle.c:4-8: every path of every load ends with nothing held, and what
\* is released is released once, in reverse.
THEOREM LoadsUnwind == LifeSpec => []UnwindsToZero
<1>1. LifeInv => UnwindsToZero
  <2> SUFFICES ASSUME LifeInv PROVE UnwindsToZero
    OBVIOUS
  <2>1. at \in {"unwind", "exit"} => held = handle \cap 1 .. which
    BY ResourceAssumption DEF LifeInv, Ids
  <2> QED
    BY <2>1 DEF LifeInv, UnwindsToZero, ReleasedInReverse, PointersAreHeld,
                EndsAtZero
<1> QED
  BY <1>1, LifeInitInv, LifeStepInv, PTL DEF LifeSpec

-----------------------------------------------------------------------------
(***************************************************************************)
(* ProcStat: nobody runs the code of a module that is gone, the reads are  *)
(* counted exactly, no walk of the task list ever stands on a freed task,  *)
(* and each counts every task once.                                        *)
(***************************************************************************)
Nodes   == Tasks \cup {Head}
States  == {"none", "running", "sleeping", "zombie", "removed"}
Locking == {"load", "store", "mutex_unlock"}
Section == {"next", "exit_state", "state", "unlock"}
PCs     == {"closed", "open", "rcu", "mutex", "print"} \cup Locking \cup Section

\* The variables the proofs are about are of their types.
StatTypeOK ==
    /\ state \in [Tasks -> States]
    /\ next \in [Nodes -> Nodes]
    /\ owes \in [Tasks -> SUBSET Readers]
    /\ inSection \subseteq Readers
    /\ module \in {"out", "in", "leaving"}
    /\ readCount \in Nat /\ shows \in Nat
    /\ pc \in [Readers -> PCs]
    /\ t \in [Readers -> Nodes]
    /\ tmp \in [Readers -> Nat] /\ reads \in [Readers -> Nat]

\* The entry is there while the module is; the calls under way are known, and
\* none is left when the module is out.
CallInv ==
    /\ entry => module = "in"
    /\ users = {r \in Readers : Showing(r)}
    /\ module = "out" => users = {}

\* stat_lock is held between lock and unlock, what was loaded under it is
\* still right, and no number is above the count.
CountInv ==
    /\ shows = readCount
    /\ \A r \in Readers :
          /\ pc[r] \in Locking <=> statLock = r
          /\ pc[r] = "store" => tmp[r] = readCount
          /\ pc[r] \in {"mutex_unlock", "print"} => reads[r] <= readCount
    /\ \A q, r \in Readers :
          {pc[q], pc[r]} \subseteq {"mutex_unlock", "print"} /\ reads[q] = reads[r]
              => q = r

\* r may stand on n: n is on the list, or removed and kept for r.
OnCircle == OnList \cup {Head}

Safe(r, n) ==
    \/ n \in OnCircle
    \/ n \in Tasks /\ state[n] = "removed" /\ r \in owes[n]

\* A reader in its section stands on a safe node.  From such a node it can
\* only come to another: the list is closed under next, and a removed task
\* that is kept for a reader leads to what is safe for that reader.  Two tasks
\* never have the same successor, so that one store removes a task.
ListInv ==
    /\ inSection = {r \in Readers : pc[r] \in Section}
    /\ \A k \in Tasks : /\ owes[k] \subseteq inSection
                        /\ state[k] # "removed" => owes[k] = {}
    /\ \A n \in OnCircle : next[n] \in OnCircle
    /\ \A m, n \in OnCircle : next[m] = next[n] => m = n
    /\ \A k \in Tasks : state[k] = "removed" =>
          \A r \in owes[k] : Safe(r, next[k])
    /\ \A r \in Readers : IF InWalk(r) THEN Safe(r, t[r]) ELSE t[r] = Head

StatInv == StatTypeOK /\ CallInv /\ CountInv /\ ListInv

\* The module's steps, by what they touch.
TaskStep   == \E k \in Tasks : Fork(k) \/ ChangeState(k) \/ Reap(k) \/ FreeTask(k)
LoadStep   == ProcstatInit \/ ProcstatExit \/ Unloaded
ReadStep(r) == Open(r) \/ Close(r) \/ Read(r) \/ ProcstatShow(r)

\* The state before the first load.
THEOREM StatInitInv == StatInit => StatInv
BY NobodyAssumption, TaskAssumption
   DEF StatInit, StatInv, StatTypeOK, CallInv, CountInv, ListInv, Nodes, States,
       PCs, Locking, Section, OnCircle, OnList, Safe, InWalk, Showing

\* The kernel's own steps change the list only.
LEMMA TaskType ==
    ASSUME StatInv, TaskStep
    PROVE  StatTypeOK' /\ CallInv' /\ CountInv'
<1> PICK k \in Tasks : Fork(k) \/ ChangeState(k) \/ Reap(k) \/ FreeTask(k)
  BY DEF TaskStep
<1> USE DEF StatInv, StatTypeOK, States, Nodes, procVars, walkVars, readVars
<1>1. CASE Fork(k)
  BY <1>1 DEF Fork, OnList, CallInv, CountInv, Showing
<1>2. CASE ChangeState(k)
  BY <1>2 DEF ChangeState, CallInv, CountInv, Showing
<1>3. CASE Reap(k)
  BY <1>3 DEF Reap, OnList, CallInv, CountInv, Showing
<1>4. CASE FreeTask(k)
  BY <1>4 DEF FreeTask, CallInv, CountInv, Showing
<1> QED
  BY <1>1, <1>2, <1>3, <1>4

LEMMA ForkList ==
    ASSUME StatInv, NEW k \in Tasks, Fork(k)
    PROVE  ListInv'
<1> USE TaskAssumption DEF StatInv, StatTypeOK, Nodes, States
<1>1. PICK last \in OnCircle :
         next[last] = Head /\ next' = [next EXCEPT ![last] = k, ![k] = Head]
  BY DEF Fork, OnCircle
<1>2. k \notin OnCircle /\ OnCircle' = OnCircle \cup {k} /\ last # k
  BY DEF Fork, OnCircle, OnList
<1>3. next'[last] = k /\ next'[k] = Head
      /\ \A n \in Nodes \ {last, k} : next'[n] = next[n]
  BY <1>1, <1>2 DEF OnCircle, OnList
<1>4. \A n \in OnCircle' : next'[n] \in OnCircle'
  BY <1>2, <1>3 DEF ListInv, OnCircle, OnList
<1>5. \A m, n \in OnCircle' : next'[m] = next'[n] => m = n
  BY <1>1, <1>2, <1>3 DEF ListInv, OnCircle, OnList
<1>6. \A r, n : Safe(r, n) => Safe(r, n)'
  BY <1>2 DEF Safe, Fork
<1>7. \A j \in Tasks : state'[j] = "removed" => next'[j] = next[j] /\ state[j] = "removed"
  BY <1>2, <1>3 DEF Fork, OnCircle, OnList
<1> QED
  BY <1>4, <1>5, <1>6, <1>7 DEF ListInv, Fork, procVars, walkVars, InWalk

LEMMA ReapList ==
    ASSUME StatInv, NEW k \in Tasks, Reap(k)
    PROVE  ListInv'
<1> USE TaskAssumption DEF StatInv, StatTypeOK, Nodes, States
<1>1. PICK before \in OnCircle :
         next[before] = k /\ next' = [next EXCEPT ![before] = next[k]]
  BY DEF Reap, OnCircle
<1>2. k \in OnCircle /\ OnCircle' = OnCircle \ {k}
  BY DEF Reap, OnCircle, OnList
<1>3. next'[before] = next[k] /\ \A n \in Nodes \ {before} : next'[n] = next[n]
  BY <1>1 DEF OnCircle, OnList
<1>4. \A n \in OnCircle' : next'[n] \in OnCircle'
  BY <1>1, <1>2, <1>3 DEF ListInv, OnCircle, OnList
<1>5. \A m, n \in OnCircle' : next'[m] = next'[n] => m = n
  BY <1>1, <1>2, <1>3 DEF ListInv, OnCircle, OnList
<1>6. state'[k] = "removed" /\ owes'[k] = inSection
      /\ \A j \in Tasks \ {k} : owes'[j] = owes[j] /\ state'[j] = state[j]
  BY DEF Reap
<1>7. \A r \in inSection : \A n : Safe(r, n) => Safe(r, n)'
  BY <1>2, <1>6 DEF Safe
<1>8. next'[k] \in OnCircle
  BY <1>1, <1>2, <1>3 DEF ListInv
<1>9. \A j \in Tasks : state'[j] = "removed" => \A r \in owes'[j] : Safe(r, next[j])'
  <2> SUFFICES ASSUME NEW j \in Tasks, state'[j] = "removed", NEW r \in owes'[j]
               PROVE  Safe(r, next[j])'
    OBVIOUS
  <2>1. CASE j = k
    BY <2>1, <1>6, <1>7, <1>8 DEF Safe
  <2>2. CASE j # k
    <3>1. state[j] = "removed" /\ r \in owes[j] /\ r \in inSection
      BY <2>2, <1>6 DEF ListInv
    <3>2. next'[j] = next[j]
      BY <3>1, <1>3 DEF OnCircle, OnList
    <3> QED
      BY <3>1, <3>2, <1>7 DEF ListInv
  <2> QED
    BY <2>1, <2>2
<1>10. \A r \in Readers : IF InWalk(r)' THEN Safe(r, t[r])' ELSE t'[r] = Head
  BY <1>7 DEF ListInv, Reap, InWalk, Section
<1>11. /\ inSection' = {r \in Readers : pc'[r] \in Section}
       /\ \A j \in Tasks : /\ owes'[j] \subseteq inSection'
                           /\ state'[j] # "removed" => owes'[j] = {}
  BY <1>6 DEF ListInv, Reap
<1> QED
  BY <1>4, <1>5, <1>9, <1>10, <1>11 DEF ListInv

LEMMA FreeList ==
    ASSUME StatInv, NEW k \in Tasks, FreeTask(k)
    PROVE  ListInv'
<1> USE TaskAssumption DEF StatInv, StatTypeOK, Nodes, States
<1>1. k \notin OnCircle /\ OnCircle' = OnCircle
  BY DEF FreeTask, OnCircle, OnList
<1>2. \A n \in Nodes \ {k} : next'[n] = next[n]
  BY DEF FreeTask
<1>3. \A r, n : Safe(r, n) => n # k /\ Safe(r, n)'
  BY <1>1 DEF FreeTask, Safe
<1>4. \A j \in Tasks : state'[j] = "removed" => j # k /\ state[j] = "removed"
  BY DEF FreeTask
<1>5. \A n \in OnCircle : n \in Nodes \ {k}
  BY <1>1 DEF OnCircle, OnList
<1> QED
  BY <1>1, <1>2, <1>3, <1>4, <1>5
     DEF ListInv, FreeTask, procVars, walkVars, InWalk

LEMMA TaskList ==
    ASSUME StatInv, TaskStep
    PROVE  ListInv'
<1> PICK k \in Tasks : Fork(k) \/ ChangeState(k) \/ Reap(k) \/ FreeTask(k)
  BY DEF TaskStep
<1>1. CASE ChangeState(k)
  <2>1. OnCircle' = OnCircle
    BY <1>1 DEF ChangeState, OnCircle, OnList, StatInv, StatTypeOK
  <2>2. \A j \in Tasks : state'[j] = "removed" <=> state[j] = "removed"
    BY <1>1 DEF ChangeState, StatInv, StatTypeOK
  <2> QED
    BY <1>1, <2>1, <2>2 DEF StatInv, ListInv, ChangeState, Safe, procVars,
                            walkVars, InWalk
<1> QED
  BY <1>1, ForkList, ReapList, FreeList

\* A step that leaves the list and the walks alone.
LEMMA ListUntouched ==
    ASSUME ListInv, UNCHANGED <<kernelVars, t>>,
           \A r \in Readers : pc'[r] = pc[r] \/ {pc[r], pc'[r]} \cap Section = {}
                                \/ {pc[r], pc'[r]} \subseteq Section \ {"unlock"}
    PROVE  ListInv'
<1>1. \A r \in Readers : /\ pc'[r] \in Section <=> pc[r] \in Section
                         /\ InWalk(r)' <=> InWalk(r)
  BY DEF Section, InWalk
<1> QED
  BY <1>1 DEF ListInv, kernelVars, OnCircle, OnList, Safe

LEMMA LoadInv ==
    ASSUME StatInv, LoadStep
    PROVE  StatInv'
<1> USE DEF StatInv
<1>1. StatTypeOK' /\ CallInv' /\ CountInv'
  <2>1. CASE ProcstatInit
    BY <2>1 DEF ProcstatInit, StatTypeOK, CallInv, CountInv, kernelVars,
                walkVars, Showing, Locking
  <2>2. CASE ProcstatExit
    BY <2>2 DEF ProcstatExit, StatTypeOK, CallInv, CountInv, kernelVars,
                walkVars, readVars, Showing
  <2>3. CASE Unloaded
    BY <2>3 DEF Unloaded, StatTypeOK, CallInv, CountInv, kernelVars,
                walkVars, readVars, Showing, PCs, Locking
  <2> QED
    BY <2>1, <2>2, <2>3 DEF LoadStep
<1>2. ListInv'
  <2>1. UNCHANGED <<kernelVars, t>>
    BY DEF LoadStep, ProcstatInit, ProcstatExit, Unloaded, walkVars
  <2>2. \A r \in Readers : pc'[r] = pc[r] \/ {pc[r], pc'[r]} \cap Section = {}
    BY DEF LoadStep, ProcstatInit, ProcstatExit, Unloaded, CallInv, Showing,
           Section
  <2> QED
    BY <2>1, <2>2, ListUntouched
<1> QED
  BY <1>1, <1>2

\* The steps of a walk.
LEMMA WalkInv ==
    ASSUME StatInv, NEW r \in Readers, CountTasks(r)
    PROVE  StatInv'
<1> USE DEF StatInv
<1>1. StatTypeOK' /\ CallInv' /\ CountInv'
  BY DEF CountTasks, RcuLock, NextTask, EndOfList, CountZombie, CountOther,
         RcuUnlock, Goto, Tally, StatTypeOK, CallInv, CountInv, kernelVars,
         procVars, walkVars, readVars, Showing, PCs, Section, Locking, Nodes
<1>2. ListInv'
  <2>1. CASE RcuLock(r)
    BY <2>1 DEF RcuLock, Goto, ListInv, StatTypeOK, OnCircle, OnList, Safe,
                InWalk, Section, procVars
  <2>2. CASE NextTask(r)
    <3>1. Safe(r, next[t[r]])
      BY <2>2 DEF NextTask, Goto, ListInv, Safe, InWalk, StatTypeOK
    <3> QED
      BY <2>2, <3>1 DEF NextTask, Goto, ListInv, StatTypeOK, OnCircle, OnList,
                        Safe, InWalk, Section, kernelVars
  <2>3. CASE EndOfList(r)
    BY <2>3 DEF EndOfList, Goto, ListInv, StatTypeOK, OnCircle, OnList, Safe,
                InWalk, Section, kernelVars
  <2>4. CASE CountZombie(r) \/ CountOther(r)
    <3>1. UNCHANGED <<kernelVars, t>>
      BY <2>4 DEF CountZombie, CountOther
    <3>2. \A q \in Readers : pc'[q] = pc[q]
                    \/ {pc[q], pc'[q]} \subseteq Section \ {"unlock"}
      BY <2>4 DEF CountZombie, CountOther, Goto, Section, StatTypeOK
    <3> QED
      BY <3>1, <3>2, ListUntouched
  <2>5. CASE RcuUnlock(r)
    BY <2>5 DEF RcuUnlock, Goto, ListInv, StatTypeOK, OnCircle, OnList, Safe,
                InWalk, Section, walkVars
  <2> QED
    BY <2>1, <2>2, <2>3, <2>4, <2>5 DEF CountTasks
<1> QED
  BY <1>1, <1>2

\* The other steps of a reader: open and close, the count, the output.
LEMMA ReadInv ==
    ASSUME StatInv, NEW r \in Readers, ReadStep(r), ~CountTasks(r)
    PROVE  StatInv'
<1> USE DEF StatInv
<1>1. StatTypeOK' /\ CallInv'
  BY DEF ReadStep, ProcstatShow, Open, Close, Read, MutexLock, LoadCount,
         StoreCount, MutexUnlock, SeqPrintf, Goto, StatTypeOK, CallInv,
         kernelVars, procVars, walkVars, readVars, Showing, PCs, Section, Locking
<1>2. CountInv'
  <2>1. CASE Open(r) \/ Close(r) \/ Read(r)
    BY <2>1 DEF Open, Close, Read, Goto, StatTypeOK, CountInv, readVars, Locking
  <2>2. CASE MutexLock(r) \/ MutexUnlock(r)
    BY <2>2, NobodyAssumption
       DEF MutexLock, MutexUnlock, Goto, StatTypeOK, CountInv, Locking
  <2>3. CASE LoadCount(r)
    BY <2>3 DEF LoadCount, Goto, StatTypeOK, CountInv, Locking
  <2>4. CASE StoreCount(r)
    BY <2>4 DEF StoreCount, Goto, StatTypeOK, CountInv, Locking
  <2>5. CASE SeqPrintf(r)
    BY <2>5 DEF SeqPrintf, Goto, StatTypeOK, CountInv, Locking
  <2> QED
    BY <2>1, <2>2, <2>3, <2>4, <2>5 DEF ReadStep, ProcstatShow
<1>3. ListInv'
  <2>1. UNCHANGED <<kernelVars, t>>
    BY DEF ReadStep, ProcstatShow, Open, Close, Read, MutexLock, LoadCount,
           StoreCount, MutexUnlock, SeqPrintf, walkVars
  <2>2. \A q \in Readers : pc'[q] = pc[q] \/ {pc[q], pc'[q]} \cap Section = {}
    BY DEF ReadStep, ProcstatShow, Open, Close, Read, MutexLock, LoadCount,
           StoreCount, MutexUnlock, SeqPrintf, Goto, Section, StatTypeOK
  <2> QED
    BY <2>1, <2>2, ListUntouched
<1> QED
  BY <1>1, <1>2, <1>3

\* Every step keeps the invariant.
THEOREM StatStepInv == StatInv /\ [StatNext]_statVars => StatInv'
<1> SUFFICES ASSUME StatInv, [StatNext]_statVars PROVE StatInv'
  OBVIOUS
<1>1. CASE TaskStep
  BY <1>1, TaskType, TaskList DEF StatInv
<1>2. CASE LoadStep
  BY <1>2, LoadInv
<1>3. ASSUME NEW r \in Readers, ReadStep(r) PROVE StatInv'
  BY <1>3, WalkInv, ReadInv
<1>4. CASE UNCHANGED statVars
  BY <1>4 DEF statVars, kernelVars, procVars, walkVars, readVars, StatInv,
              StatTypeOK, CallInv, CountInv, ListInv, OnCircle, OnList, Safe,
              InWalk, Showing
<1> QED
  BY <1>1, <1>2, <1>3, <1>4 DEF StatNext, TaskStep, LoadStep, ReadStep

\* The inductive invariant holds always.
THEOREM StatInvariant == StatSpec => []StatInv
BY StatInitInv, StatStepInv, PTL DEF StatSpec

\* procstat.c:27-29: under the RCU read lock the walk never stands on a freed
\* task, however tasks are forked, reaped and freed meanwhile.
THEOREM WalksAreSafe == StatSpec => []NoFreedTask
<1>1. StatInv => NoFreedTask
  BY DEF StatInv, ListInv, NoFreedTask, Safe, OnCircle, OnList
<1> QED
  BY <1>1, StatInvariant, PTL

\* procstat.c:22-25: under the mutex no read is lost and no two readers print
\* the same number.
THEOREM ReadsAreCounted == StatSpec => []ReadsAreExact
<1>1. StatInv => ReadsAreExact
  BY DEF StatInv, CountInv, ReadsAreExact
<1> QED
  BY <1>1, StatInvariant, PTL

\* procstat.c:107-109: when the module is gone nobody is in its code.
THEOREM UnloadsAreSafe == StatSpec => []NobodyRunsUnloadedCode
<1>1. StatInv => NobodyRunsUnloadedCode
  BY DEF StatInv, CallInv, NobodyRunsUnloadedCode
<1> QED
  BY <1>1, StatInvariant, PTL
-----------------------------------------------------------------------------
(***************************************************************************)
(* The walks of ProcStat are complete.                                     *)
(***************************************************************************)
\* Every task draws a ticket when it is forked and the list is in the order
\* of the tickets: of the tasks in S, none lies between n and its successor.
Precedes(tk, n, S) ==
    /\ next[n] # Head => tk[n] < tk[next[n]]
    /\ \A j \in S : tk[j] > tk[n] => next[n] # Head /\ tk[next[n]] <= tk[j]

\* That is so on the list and, as far as it matters to a reader, where a task
\* that is kept for it leads.  The tickets tell how far a walk has come: what
\* is ahead of it is yet to be visited, what is not has been.
TicketInv(tk) ==
    /\ tk[Head] = 0
    /\ \A j \in Tasks : state[j] # "none" => tk[j] # 0
    /\ \A j, k \in Tasks :
          state[j] # "none" /\ state[k] # "none" /\ tk[j] = tk[k] => j = k
    /\ \A n \in OnCircle : Precedes(tk, n, OnList)
    /\ \A k \in Tasks : state[k] = "removed" =>
          \A r \in owes[k] : Precedes(tk, k, stayed[r])
    /\ \A r \in Readers : InWalk(r) =>
          /\ \A j \in stayed[r] : j \in visited[r] \/ tk[j] > tk[t[r]]
          /\ \A j \in visited[r] : Safe(r, j) /\ tk[j] <= tk[t[r]]

Sum(c) == c.running + c.sleeping + c.zombie

Counts == [running : Nat, sleeping : Nat, zombie : Nat, total : Nat]

WalkTypeOK ==
    /\ count \in [Readers -> Counts]
    /\ stayed \in [Readers -> SUBSET Tasks]
    /\ visited \in [Readers -> SUBSET Tasks]

\* What each reader has counted.
TallyInv(r) ==
    /\ stayed[r] \subseteq OnList
    /\ IsFiniteSet(visited[r])
    /\ pc[r] \in {"closed", "open", "rcu"} => visited[r] = {} /\ stayed[r] = {}
    /\ count[r].total = Cardinality(visited[r])
    /\ count[r].total = IF pc[r] \in {"exit_state", "state"}
                        THEN Sum(count[r]) + 1 ELSE Sum(count[r])
    /\ Counted(r) => stayed[r] \subseteq visited[r]

VisitInv ==
    /\ StatInv /\ WalkTypeOK
    /\ \A r \in Readers : TallyInv(r)
    /\ \E limit \in Nat : \E tk \in [Nodes -> 0 .. limit] : TicketInv(tk)

\* The list is empty and nobody has walked it.
THEOREM VisitInitInv == StatInit => VisitInv
<1> SUFFICES ASSUME StatInit PROVE VisitInv
  OBVIOUS
<1>1. StatInv
  BY StatInitInv
<1>2. WalkTypeOK /\ \A r \in Readers : TallyInv(r)
  BY FS_EmptySet
     DEF StatInit, TallyInv, NoCount, Sum, Counted, Showing, WalkTypeOK, Counts
<1> DEFINE tk0 == [n \in Nodes |-> 0]
<1>3. tk0 \in [Nodes -> 0 .. 0] /\ TicketInv(tk0)
  BY TaskAssumption
     DEF StatInit, TicketInv, Precedes, OnCircle, OnList, Nodes, InWalk
<1> HIDE DEF tk0
<1> QED
  BY <1>1, <1>2, <1>3 DEF VisitInv

\* A fork adds at the end of the list, with the next ticket.
LEMMA ForkTicket ==
    ASSUME StatInv, \A r \in Readers : TallyInv(r), NEW k \in Tasks, Fork(k),
           NEW limit \in Nat, NEW tk \in [Nodes -> 0 .. limit], TicketInv(tk)
    PROVE  \E tk2 \in [Nodes -> 0 .. limit + 1] : TicketInv(tk2)'
<1> USE TaskAssumption DEF StatInv, StatTypeOK, Nodes, States
<1> DEFINE tk2 == [tk EXCEPT ![k] = limit + 1]
<1>1. PICK last \in OnCircle :
         next[last] = Head /\ next' = [next EXCEPT ![last] = k, ![k] = Head]
  BY DEF Fork, OnCircle
<1>2. k \notin OnCircle /\ OnCircle' = OnCircle \cup {k} /\ last # k
      /\ OnList' = OnList \cup {k} /\ k # Head /\ OnList \subseteq OnCircle
  BY DEF Fork, OnCircle, OnList
<1>3. next'[last] = k /\ next'[k] = Head
      /\ \A n \in Nodes \ {last, k} : next'[n] = next[n]
  BY <1>1, <1>2 DEF OnCircle, OnList
<1>4. tk2 \in [Nodes -> 0 .. limit + 1] /\ tk2[k] = limit + 1
      /\ \A n \in Nodes \ {k} : tk2[n] = tk[n] /\ tk[n] \in 0 .. limit
  OBVIOUS
<1> HIDE DEF tk2
<1>5. \A n \in OnCircle' : Precedes(tk2, n, OnList)'
  <2> SUFFICES ASSUME NEW n \in OnCircle' PROVE Precedes(tk2, n, OnList)'
    OBVIOUS
  <2>0. OnCircle \subseteq Nodes
    BY DEF OnCircle, OnList
  <2>1. CASE n = k
    BY <2>0, <2>1, <1>2, <1>3, <1>4 DEF Precedes
  <2>2. CASE n = last
    <3>1. \A j \in OnList : ~(tk[j] > tk[last])
      BY <1>1 DEF TicketInv, Precedes
    <3> QED
      BY <2>0, <2>2, <3>1, <1>1, <1>2, <1>3, <1>4 DEF Precedes
  <2>3. CASE n # k /\ n # last
    <3>1. n \in OnCircle /\ next[n] # Head /\ next[n] \in OnCircle
      BY <2>3, <1>1, <1>2 DEF ListInv
    <3>2. Precedes(tk, n, OnList)
      BY <3>1 DEF TicketInv
    <3>3. next'[n] = next[n] /\ tk2[n] = tk[n] /\ tk2[next[n]] = tk[next[n]]
          /\ tk[next[n]] \in 0 .. limit
      BY <2>0, <2>3, <3>1, <1>2, <1>3, <1>4
    <3> QED
      BY <2>0, <3>1, <3>2, <3>3, <1>2, <1>4 DEF Precedes
  <2> QED
    BY <2>1, <2>2, <2>3
<1>6. ASSUME NEW m \in Tasks, state'[m] = "removed", NEW r \in owes'[m]
      PROVE  Precedes(tk2, m, stayed[r])'
  <2>1. m # k /\ m # last /\ state[m] = "removed" /\ r \in owes[m] /\ r \in Readers
    BY <1>2, <1>6 DEF Fork, OnCircle, OnList
  <2>2. next'[m] = next[m] /\ next[m] # k
    BY <2>1, <1>2, <1>3 DEF ListInv, Safe, Fork
  <2>3. Precedes(tk, m, stayed[r]) /\ stayed'[r] = stayed[r] /\ k \notin stayed[r]
        /\ stayed[r] \subseteq Tasks
    BY <2>1, <1>2 DEF TicketInv, Fork, walkVars, TallyInv, OnList
  <2> QED
    BY <2>1, <2>2, <2>3, <1>4 DEF Precedes
<1>7. ASSUME NEW r \in Readers, InWalk(r)'
      PROVE  /\ \A j \in stayed'[r] : j \in visited'[r] \/ tk2[j] > tk2[t'[r]]
             /\ \A j \in visited'[r] : Safe(r, j)' /\ tk2[j] <= tk2[t'[r]]
  <2>1. InWalk(r) /\ UNCHANGED <<t, stayed, visited, owes>>
    BY <1>7 DEF InWalk, Fork, walkVars
  <2>2. \A n : Safe(r, n) => n # k /\ n \in Nodes /\ Safe(r, n)'
    BY <1>2 DEF Safe, Fork, OnCircle, OnList
  <2>3. Safe(r, t[r]) /\ stayed[r] \subseteq OnList /\ k \notin stayed[r]
    BY <2>1, <1>2 DEF ListInv, TallyInv
  <2>4. stayed[r] \subseteq Nodes
    BY <2>3 DEF OnList
  <2> QED
    BY <2>1, <2>2, <2>3, <2>4, <1>4 DEF TicketInv
<1>8. /\ tk2[Head] = 0
      /\ \A j \in Tasks : state'[j] # "none" => tk2[j] # 0
      /\ \A j, m \in Tasks :
            state'[j] # "none" /\ state'[m] # "none" /\ tk2[j] = tk2[m] => j = m
  BY <1>2, <1>4 DEF TicketInv, Fork
<1> QED
  BY <1>4, <1>5, <1>6, <1>7, <1>8 DEF TicketInv

\* A removal joins the neighbours; who is kept in the removed task still gets
\* to all it has to visit.
LEMMA ReapTicket ==
    ASSUME StatInv, \A r \in Readers : TallyInv(r), NEW k \in Tasks, Reap(k),
           NEW limit \in Nat, NEW tk \in [Nodes -> 0 .. limit], TicketInv(tk)
    PROVE  TicketInv(tk)'
<1> USE TaskAssumption DEF StatInv, StatTypeOK, Nodes, States
<1>1. PICK before \in OnCircle :
         next[before] = k /\ next' = [next EXCEPT ![before] = next[k]]
  BY DEF Reap, OnCircle
<1>2. k \in OnCircle /\ OnCircle' = OnCircle \ {k} /\ OnList' = OnList \ {k}
      /\ k \in OnList /\ OnList \subseteq OnCircle /\ OnCircle \subseteq Nodes
  BY DEF Reap, OnCircle, OnList
<1>3. next'[before] = next[k] /\ \A n \in Nodes \ {before} : next'[n] = next[n]
  BY <1>1 DEF OnCircle, OnList
<1>4. Precedes(tk, before, OnList) /\ Precedes(tk, k, OnList) /\ k # Head
  BY <1>1, <1>2 DEF TicketInv
<1>5. before # k
  BY <1>1, <1>2, <1>4 DEF Precedes
<1>6. \A n \in OnCircle' : Precedes(tk, n, OnList)'
  <2> SUFFICES ASSUME NEW n \in OnCircle' PROVE Precedes(tk, n, OnList)'
    OBVIOUS
  <2>1. CASE n = before
    <3>1. tk[before] < tk[k] /\ \A j \in OnList : tk[j] > tk[before] => tk[k] <= tk[j]
      BY <1>1, <1>4 DEF Precedes
    <3>2. \A j \in OnList \ {k} : tk[j] # tk[k]
      BY <1>2 DEF TicketInv, OnList
    <3>3. \A j \in OnList \ {k} : tk[j] > tk[before] => tk[j] > tk[k]
      BY <3>1, <3>2, <1>2
    <3>4. next[k] # Head => tk[before] < tk[next[k]]
      BY <3>1, <1>1, <1>2, <1>4 DEF Precedes
    <3> QED
      BY <2>1, <3>3, <3>4, <1>2, <1>3, <1>4 DEF Precedes
  <2>2. CASE n # before
    <3>1. Precedes(tk, n, OnList) /\ next'[n] = next[n]
      BY <2>2, <1>2, <1>3 DEF TicketInv
    <3> QED
      BY <3>1, <1>2 DEF Precedes
  <2> QED
    BY <2>1, <2>2
<1>7. ASSUME NEW m \in Tasks, state'[m] = "removed", NEW r \in owes'[m]
      PROVE  Precedes(tk, m, stayed[r])'
  <2>0. r \in Readers /\ stayed'[r] = stayed[r] \ {k}
    BY <1>7 DEF Reap
  <2>1. CASE m = k
    <3>1. next'[k] = next[k] /\ stayed[r] \subseteq OnList
      BY <2>0, <1>2, <1>3, <1>5 DEF TallyInv
    <3> QED
      BY <2>0, <2>1, <3>1, <1>4 DEF Precedes
  <2>2. CASE m # k
    <3>1. state[m] = "removed" /\ r \in owes[m] /\ m # before
      BY <1>1, <1>7, <2>2, TaskAssumption DEF Reap, OnCircle, OnList
    <3>2. Precedes(tk, m, stayed[r]) /\ next'[m] = next[m]
      BY <3>1, <1>3 DEF TicketInv
    <3> QED
      BY <2>0, <3>2 DEF Precedes
  <2> QED
    BY <2>1, <2>2
<1>8. ASSUME NEW r \in Readers, InWalk(r)'
      PROVE  /\ \A j \in stayed'[r] : j \in visited'[r] \/ tk[j] > tk[t'[r]]
             /\ \A j \in visited'[r] : Safe(r, j)' /\ tk[j] <= tk[t'[r]]
  <2>1. InWalk(r) /\ r \in inSection
    BY <1>8 DEF InWalk, Reap, ListInv, Section
  <2>2. \A n : Safe(r, n) => Safe(r, n)'
    BY <2>1, <1>2 DEF Safe, Reap
  <2>3. t'[r] = t[r] /\ visited'[r] = visited[r] /\ stayed'[r] \subseteq stayed[r]
    BY DEF Reap
  <2> QED
    BY <2>1, <2>2, <2>3 DEF TicketInv
<1>9. \A j \in Tasks : state'[j] # "none" => state[j] # "none"
  BY DEF Reap
<1> QED
  BY <1>6, <1>7, <1>8, <1>9 DEF TicketInv

\* A change of state, and memory that is freed when it is kept for nobody.
LEMMA OtherTicket ==
    ASSUME StatInv, \A r \in Readers : TallyInv(r), NEW k \in Tasks,
           ChangeState(k) \/ FreeTask(k),
           NEW limit \in Nat, NEW tk \in [Nodes -> 0 .. limit], TicketInv(tk)
    PROVE  TicketInv(tk)'
<1> USE TaskAssumption DEF StatInv, StatTypeOK, Nodes, States
<1>1. OnCircle' = OnCircle /\ OnList' = OnList /\ OnCircle \subseteq Nodes
  BY DEF ChangeState, FreeTask, OnCircle, OnList
<1>2. \A n \in OnCircle : next'[n] = next[n]
  BY DEF ChangeState, FreeTask, OnCircle, OnList
<1>3. \A j \in Tasks : /\ state'[j] # "none" => state[j] # "none"
                       /\ state'[j] = "removed" => state[j] = "removed"
                                                   /\ next'[j] = next[j]
  BY DEF ChangeState, FreeTask
<1>4. UNCHANGED <<owes, stayed, visited, t, pc>>
  BY DEF ChangeState, FreeTask, walkVars
<1>5. \A r, n : Safe(r, n) => Safe(r, n)'
  BY <1>1, <1>4 DEF Safe, ChangeState, FreeTask
<1>6. \A n \in OnCircle' : Precedes(tk, n, OnList)'
  BY <1>1, <1>2 DEF TicketInv, Precedes
<1>7. \A m \in Tasks : state'[m] = "removed" =>
         \A r \in owes'[m] : Precedes(tk, m, stayed[r])'
  BY <1>3, <1>4 DEF TicketInv, Precedes
<1>8. \A r \in Readers : InWalk(r)' =>
         /\ \A j \in stayed'[r] : j \in visited'[r] \/ tk[j] > tk[t'[r]]
         /\ \A j \in visited'[r] : Safe(r, j)' /\ tk[j] <= tk[t'[r]]
  BY <1>4, <1>5 DEF TicketInv, InWalk
<1> QED
  BY <1>3, <1>6, <1>7, <1>8 DEF TicketInv

\* What the kernel does to the list, the walks' counts do not notice.
LEMMA TaskTally ==
    ASSUME StatInv, NEW r \in Readers, TallyInv(r), TaskStep
    PROVE  TallyInv(r)'
<1> PICK k \in Tasks : Fork(k) \/ ChangeState(k) \/ Reap(k) \/ FreeTask(k)
  BY DEF TaskStep
<1>1. pc' = pc /\ count' = count /\ visited' = visited
  BY DEF Fork, ChangeState, Reap, FreeTask, walkVars
<1>2. stayed'[r] \subseteq stayed[r] /\ stayed'[r] \subseteq OnList'
  BY DEF Fork, ChangeState, Reap, FreeTask, walkVars, OnList, TallyInv, StatInv,
         StatTypeOK
<1>3. stayed[r] = {} => stayed'[r] = {}
  BY <1>2
<1> QED
  BY <1>1, <1>2, <1>3 DEF TallyInv, Counted, Showing, InWalk

\* The list, and what is kept for whom, stay as they are, and every walk is
\* where it was or over.
LEMMA TicketsUntouched ==
    ASSUME NEW tk, TicketInv(tk), UNCHANGED <<state, next, owes>>,
           \A r \in Readers : /\ InWalk(r)' => InWalk(r) /\ t'[r] = t[r]
                                               /\ visited'[r] = visited[r]
                              /\ stayed'[r] \subseteq stayed[r],
           \A k \in Tasks : owes[k] \subseteq Readers
    PROVE  TicketInv(tk)'
<1>1. OnCircle' = OnCircle /\ OnList' = OnList
  BY DEF OnCircle, OnList
<1>2. \A n \in OnCircle' : Precedes(tk, n, OnList)'
  BY <1>1 DEF TicketInv, Precedes
<1>3. \A m \in Tasks : state'[m] = "removed" =>
         \A r \in owes'[m] : Precedes(tk, m, stayed[r])'
  BY DEF TicketInv, Precedes
<1>4. \A r, n : Safe(r, n) => Safe(r, n)'
  BY <1>1 DEF Safe
<1> QED
  BY <1>2, <1>3, <1>4 DEF TicketInv

\* What the walks keep stays of its type.
LEMMA WalkType ==
    ASSUME StatInv, WalkTypeOK, [StatNext]_statVars
    PROVE  WalkTypeOK'
<1> USE DEF WalkTypeOK, Counts, NoCount
<1>1. CASE TaskStep
  BY <1>1 DEF TaskStep, Fork, ChangeState, Reap, FreeTask, walkVars
<1>2. CASE LoadStep
  BY <1>2 DEF LoadStep, ProcstatInit, ProcstatExit, Unloaded, walkVars
<1>3. ASSUME NEW r \in Readers, ReadStep(r) PROVE WalkTypeOK'
  <2>1. CASE RcuLock(r)
    BY <2>1 DEF RcuLock, OnList
  <2>2. CASE NextTask(r)
    <3>1. next[t[r]] \in Tasks
      BY <2>2 DEF NextTask, StatInv, StatTypeOK, Nodes
    <3> QED
      BY <2>2, <3>1 DEF NextTask, Tally
  <2>3. CASE EndOfList(r) \/ CountZombie(r) \/ CountOther(r) \/ RcuUnlock(r)
    BY <2>3 DEF EndOfList, CountZombie, CountOther, RcuUnlock, Tally, walkVars
  <2>4. CASE Open(r) \/ Close(r) \/ Read(r) \/ SeqPrintf(r)
    BY <2>4 DEF Open, Close, Read, SeqPrintf, walkVars
  <2>5. CASE MutexLock(r) \/ LoadCount(r) \/ StoreCount(r) \/ MutexUnlock(r)
    BY <2>5 DEF MutexLock, LoadCount, StoreCount, MutexUnlock, walkVars
  <2> QED
    BY <1>3, <2>1, <2>2, <2>3, <2>4, <2>5 DEF ReadStep, ProcstatShow, CountTasks
<1>4. CASE UNCHANGED statVars
  BY <1>4 DEF statVars, walkVars
<1> QED
  BY <1>1, <1>2, <1>3, <1>4 DEF StatNext, TaskStep, LoadStep, ReadStep

\* The module comes and goes while nobody is in it.
LEMMA LoadVisit ==
    ASSUME VisitInv, LoadStep
    PROVE  VisitInv'
<1> USE DEF VisitInv
<1>1. UNCHANGED <<kernelVars, walkVars>>
  BY DEF LoadStep, ProcstatInit, ProcstatExit, Unloaded
<1>2. \A r \in Readers : pc'[r] = pc[r] \/ (pc[r] \in {"closed", "open"} /\ pc'[r] = "closed")
  BY DEF LoadStep, ProcstatInit, ProcstatExit, Unloaded, StatInv, CallInv, Showing
<1>3. \A r \in Readers : TallyInv(r)'
  BY <1>1, <1>2 DEF TallyInv, kernelVars, walkVars, OnList, Counted, Showing, InWalk
<1>4. PICK limit \in Nat : \E tk \in [Nodes -> 0 .. limit] : TicketInv(tk)
  OBVIOUS
<1>5. PICK tk \in [Nodes -> 0 .. limit] : TicketInv(tk)
  BY <1>4
<1>6. TicketInv(tk)'
  BY <1>1, <1>2, <1>5, TicketsUntouched
     DEF kernelVars, walkVars, InWalk, StatInv, StatTypeOK
<1>7. StatInv' /\ WalkTypeOK'
  BY LoadInv, WalkType DEF StatNext, LoadStep
<1> QED
  BY <1>3, <1>6, <1>7

\* The steps of a walk: it comes to one task after the other, and is at its
\* end when nothing is ahead of it.
LEMMA WalkVisit ==
    ASSUME VisitInv, NEW r \in Readers, CountTasks(r)
    PROVE  VisitInv'
<1> USE TaskAssumption DEF VisitInv
<1>1. PICK limit \in Nat : \E tk \in [Nodes -> 0 .. limit] : TicketInv(tk)
  OBVIOUS
<1>2. PICK tk \in [Nodes -> 0 .. limit] : TicketInv(tk)
  BY <1>1
<1>3. UNCHANGED <<state, next>> /\ StatInv' /\ WalkTypeOK'
  <2>1. StatInv' /\ WalkTypeOK'
    BY WalkInv, WalkType DEF StatNext, ProcstatShow
  <2> QED
    BY <2>1 DEF CountTasks, RcuLock, NextTask, EndOfList, CountZombie, CountOther,
                RcuUnlock, kernelVars
<1>4. OnCircle' = OnCircle /\ OnList' = OnList /\ OnList \subseteq OnCircle
  BY <1>3 DEF OnCircle, OnList
<1>5. ASSUME NEW q \in Readers, q # r
      PROVE  /\ pc'[q] = pc[q] /\ t'[q] = t[q] /\ count'[q] = count[q]
             /\ stayed'[q] = stayed[q] /\ visited'[q] = visited[q]
             /\ \A n : Safe(q, n) => Safe(q, n)'
  <2>1. /\ pc'[q] = pc[q] /\ t'[q] = t[q] /\ count'[q] = count[q]
        /\ stayed'[q] = stayed[q] /\ visited'[q] = visited[q]
    BY <1>5 DEF CountTasks, RcuLock, NextTask, EndOfList, CountZombie,
                CountOther, RcuUnlock, Goto, Tally, walkVars, StatInv,
                StatTypeOK, WalkTypeOK
  <2>2. \A k \in Tasks : q \in owes[k] => q \in owes'[k]
    BY <1>5 DEF CountTasks, RcuLock, NextTask, EndOfList, CountZombie,
                CountOther, RcuUnlock, kernelVars
  <2> QED
    BY <2>1, <2>2, <1>3, <1>4 DEF Safe
<1>6. \A q \in Readers \ {r} : TallyInv(q)'
  BY <1>4, <1>5 DEF TallyInv, Counted, Showing, InWalk
\* What a step that leaves the walks of others alone has to show.
<1>7. ASSUME TallyInv(r)',
             \A k \in Tasks : owes'[k] \subseteq owes[k],
             stayed'[r] = stayed[r] \/ (\A k \in Tasks : r \notin owes[k]),
             InWalk(r)' =>
                /\ \A j \in stayed'[r] : j \in visited'[r] \/ tk[j] > tk[t'[r]]
                /\ \A j \in visited'[r] : Safe(r, j)' /\ tk[j] <= tk[t'[r]]
      PROVE  VisitInv'
  <2>1. \A n \in OnCircle' : Precedes(tk, n, OnList)'
    BY <1>2, <1>3, <1>4 DEF TicketInv, Precedes
  <2>2. ASSUME NEW m \in Tasks, state'[m] = "removed", NEW q \in owes'[m]
        PROVE  Precedes(tk, m, stayed[q])'
    <3>1. state[m] = "removed" /\ q \in owes[m] /\ q \in Readers
      BY <2>2, <1>3, <1>7 DEF StatInv, StatTypeOK
    <3>2. stayed'[q] = stayed[q]
      BY <3>1, <1>5, <1>7
    <3> QED
      BY <3>1, <3>2, <1>2, <1>3 DEF TicketInv, Precedes
  <2>3. ASSUME NEW q \in Readers, InWalk(q)'
        PROVE  /\ \A j \in stayed'[q] : j \in visited'[q] \/ tk[j] > tk[t'[q]]
               /\ \A j \in visited'[q] : Safe(q, j)' /\ tk[j] <= tk[t'[q]]
    <3>1. CASE q = r
      BY <2>3, <3>1, <1>7
    <3>2. CASE q # r
      <4>1. InWalk(q)
        BY <2>3, <3>2, <1>5 DEF InWalk
      <4> QED
        BY <3>2, <4>1, <1>2, <1>5 DEF TicketInv
    <3> QED
      BY <3>1, <3>2
  <2>4. TicketInv(tk)'
    BY <2>1, <2>2, <2>3, <1>2, <1>3 DEF TicketInv
  <2> QED
    BY <2>4, <1>3, <1>6, <1>7
<1> USE DEF StatInv, StatTypeOK, WalkTypeOK, Counts
<1>8. TallyInv(r) /\ \A k \in Tasks : r \in owes[k] => pc[r] \in Section
  BY DEF ListInv
<1>9. CASE RcuLock(r)
  <2>1. \A k \in Tasks : owes'[k] \subseteq owes[k] /\ r \notin owes[k]
    BY <1>8, <1>9 DEF RcuLock, Goto, Section
  <2>2. /\ stayed'[r] = OnList /\ visited'[r] = {} /\ t'[r] = Head
        /\ count'[r] = count[r] /\ pc[r] = "rcu" /\ pc'[r] = "next"
    BY <1>8, <1>9 DEF RcuLock, Goto, TallyInv, ListInv, InWalk
  <2>3. TallyInv(r)'
    BY <2>2, <1>4, <1>8 DEF TallyInv, Counted, Showing, InWalk
  <2>4. \A j \in stayed'[r] : tk[j] > tk[t'[r]]
    BY <2>2, <1>2 DEF TicketInv, OnList, Nodes
  <2> QED
    BY <2>1, <2>2, <2>3, <2>4, <1>7
<1>10. CASE NextTask(r)
  <2> DEFINE m == next[t[r]]
  <2>1. /\ UNCHANGED <<owes, stayed>> /\ m # Head /\ InWalk(r) /\ t[r] \in Nodes
        /\ visited'[r] = visited[r] \cup {m} /\ t'[r] = m
        /\ pc[r] = "next" /\ pc'[r] = "exit_state"
        /\ count'[r] = [count[r] EXCEPT !.total = @ + 1]
    BY <1>10 DEF NextTask, Goto, Tally, kernelVars, InWalk, TallyInv
  <2>2. Safe(r, t[r]) /\ Safe(r, m)
    BY <2>1 DEF ListInv, Safe
  <2>3. Precedes(tk, t[r], stayed[r]) /\ m \in Tasks /\ state[m] # "none"
    BY <2>1, <2>2, <1>2, <1>8 DEF TicketInv, TallyInv, Safe, Precedes, OnCircle, OnList
  <2>4. m \notin visited[r]
    <3>1. tk[t[r]] < tk[m]
      BY <2>1, <2>3 DEF Precedes
    <3>2. m \in visited[r] => tk[m] <= tk[t[r]]
      BY <2>1, <1>2 DEF TicketInv
    <3> QED
      BY <2>1, <2>3, <3>1, <3>2 DEF Nodes
  <2>5. IsFiniteSet(visited'[r]) /\ Cardinality(visited'[r]) = Cardinality(visited[r]) + 1
    BY <2>1, <2>4, <1>8, FS_AddElement DEF TallyInv
  <2>6. TallyInv(r)'
    <3>1. /\ count'[r].total = count[r].total + 1
          /\ Sum(count'[r]) = Sum(count[r])
      BY <2>1, <1>8 DEF TallyInv, Sum
    <3> QED
      BY <2>1, <2>3, <2>5, <3>1, <1>4, <1>8 DEF TallyInv, Counted, InWalk
  <2>7. \A j \in stayed'[r] : j \in visited'[r] \/ tk[j] > tk[t'[r]]
    <3> SUFFICES ASSUME NEW j \in stayed[r], j \notin visited[r], j # m
                 PROVE  tk[j] > tk[m]
      BY <2>1
    <3>1. tk[j] > tk[t[r]] /\ j \in Tasks /\ state[j] # "none"
      BY <2>1, <1>2, <1>8 DEF TicketInv, TallyInv, OnList
    <3>2. tk[m] <= tk[j]
      BY <2>3, <3>1 DEF Precedes
    <3>3. tk[m] # tk[j]
      BY <2>3, <3>1, <1>2 DEF TicketInv
    <3>4. tk[m] \in Int /\ tk[j] \in Int
      BY <2>3, <3>1 DEF Nodes
    <3>5. \A a, b \in Int : a <= b /\ a # b => b > a
      OBVIOUS
    <3> QED
      BY <3>2, <3>3, <3>4, <3>5
  <2>8. \A j \in visited'[r] : Safe(r, j)' /\ tk[j] <= tk[t'[r]]
    <3>1. \A n : Safe(r, n) => Safe(r, n)'
      BY <2>1, <1>3, <1>4 DEF Safe
    <3>2. tk[t[r]] < tk[m]
      BY <2>1, <2>3 DEF Precedes
    <3>3. \A j \in visited[r] : j \in Tasks /\ Safe(r, j) /\ tk[j] <= tk[t[r]]
      BY <2>1, <1>2, <1>8 DEF TicketInv, TallyInv
    <3> QED
      BY <2>1, <2>2, <2>3, <3>1, <3>2, <3>3 DEF Nodes
  <2> QED
    BY <2>1, <2>6, <2>7, <2>8, <1>7
<1>11. CASE EndOfList(r)
  <2>1. /\ UNCHANGED <<owes, stayed, visited, count>> /\ InWalk(r)
        /\ next[t[r]] = Head /\ pc[r] = "next" /\ pc'[r] = "unlock"
    BY <1>11 DEF EndOfList, Goto, kernelVars, InWalk
  <2>2. Safe(r, t[r])
    BY <2>1 DEF ListInv
  <2>3. Precedes(tk, t[r], stayed[r])
    BY <2>2, <1>2, <1>8 DEF TicketInv, TallyInv, Safe, Precedes
  <2>4. stayed[r] \subseteq visited[r]
    BY <2>1, <2>3, <1>2 DEF TicketInv, Precedes
  <2>5. TallyInv(r)'
    BY <2>1, <2>4, <1>4, <1>8 DEF TallyInv
  <2>6. ~InWalk(r)'
    BY <2>1 DEF InWalk
  <2> QED
    BY <2>1, <2>5, <2>6, <1>7
<1>12. CASE CountZombie(r) \/ CountOther(r)
  <2>1. /\ UNCHANGED <<owes, t, stayed, visited>> /\ InWalk(r) /\ InWalk(r)'
    BY <1>12 DEF CountZombie, CountOther, Goto, kernelVars, InWalk
  <2>2. TallyInv(r)'
    <3>1. CASE UNCHANGED count
      <4>1. pc[r] = "exit_state" /\ pc'[r] = "state"
        BY <1>12, <3>1, <1>8 DEF CountZombie, CountOther, Goto, Tally, TallyInv
      <4> QED
        BY <2>1, <3>1, <4>1, <1>4, <1>8 DEF TallyInv, Counted
    <3>2. ASSUME NEW field \in {"running", "sleeping", "zombie"},
                 count' = [count EXCEPT ![r][field] = @ + 1],
                 pc[r] \in {"exit_state", "state"}, pc'[r] = "next"
          PROVE  TallyInv(r)'
      <4>1. count'[r] = [count[r] EXCEPT ![field] = @ + 1]
        BY <3>2, <1>8 DEF TallyInv
      <4>2. /\ count'[r].total = count[r].total
            /\ Sum(count'[r]) = Sum(count[r]) + 1
        BY <4>1, <1>8 DEF TallyInv, Sum
      <4> QED
        BY <2>1, <3>2, <4>2, <1>4, <1>8 DEF TallyInv, Counted
    <3> QED
      BY <1>12, <3>1, <3>2 DEF CountZombie, CountOther, Goto, Tally
  <2>3. \A n : Safe(r, n) => Safe(r, n)'
    BY <2>1, <1>3, <1>4 DEF Safe
  <2> QED
    BY <2>1, <2>2, <2>3, <1>2, <1>7 DEF TicketInv
<1>13. CASE RcuUnlock(r)
  <2>1. /\ \A k \in Tasks : owes'[k] \subseteq owes[k]
        /\ UNCHANGED <<stayed, visited, count>>
        /\ pc[r] = "unlock" /\ pc'[r] = "mutex" /\ ~InWalk(r)'
    BY <1>13 DEF RcuUnlock, Goto, walkVars, InWalk
  <2>2. TallyInv(r)'
    BY <2>1, <1>4, <1>8 DEF TallyInv, Counted, Showing, InWalk
  <2> QED
    BY <2>1, <2>2, <1>7
<1> QED
  BY <1>9, <1>10, <1>11, <1>12, <1>13 DEF CountTasks

\* The other steps of a reader: a call begins and ends with empty counts.
LEMMA ReadVisit ==
    ASSUME VisitInv, NEW r \in Readers, ReadStep(r), ~CountTasks(r)
    PROVE  VisitInv'
<1> USE DEF VisitInv, StatInv, StatTypeOK, WalkTypeOK
<1>1. UNCHANGED kernelVars /\ OnList' = OnList /\ t' = t
  BY DEF ReadStep, ProcstatShow, Open, Close, Read, MutexLock, LoadCount,
         StoreCount, MutexUnlock, SeqPrintf, walkVars, kernelVars, OnList
<1>2. \A q \in Readers \ {r} : /\ pc'[q] = pc[q] /\ count'[q] = count[q]
                               /\ stayed'[q] = stayed[q] /\ visited'[q] = visited[q]
  BY DEF ReadStep, ProcstatShow, Open, Close, Read, MutexLock, LoadCount,
         StoreCount, MutexUnlock, SeqPrintf, Goto, walkVars
<1>3. /\ ~InWalk(r) /\ ~InWalk(r)' /\ stayed'[r] \subseteq stayed[r]
      /\ pc[r] \in {"closed", "open"} => pc'[r] \in {"closed", "open", "rcu"}
      /\ Counted(r)' => Counted(r)
      /\ \/ UNCHANGED <<count, stayed, visited>>
         \/ count'[r] = NoCount /\ stayed'[r] = {} /\ visited'[r] = {}
      /\ pc'[r] \in {"closed", "open", "rcu"} =>
            pc[r] \in {"closed", "open"} \/ (stayed'[r] = {} /\ visited'[r] = {})
  BY DEF ReadStep, ProcstatShow, Open, Close, Read, MutexLock, LoadCount,
         StoreCount, MutexUnlock, SeqPrintf, Goto, walkVars, InWalk, Counted,
         Showing, TallyInv
<1>4. TallyInv(r)'
  <2>1. CASE UNCHANGED <<count, stayed, visited>>
    BY <2>1, <1>1, <1>3 DEF TallyInv, InWalk
  <2>2. CASE count'[r] = NoCount /\ stayed'[r] = {} /\ visited'[r] = {}
    BY <2>2, <1>3, FS_EmptySet DEF TallyInv, InWalk, NoCount, Sum
  <2> QED
    BY <2>1, <2>2, <1>3
<1>5. \A q \in Readers : TallyInv(q)'
  <2> SUFFICES ASSUME NEW q \in Readers, q # r PROVE TallyInv(q)'
    BY <1>4
  <2> QED
    BY <1>1, <1>2 DEF TallyInv, Counted, Showing, InWalk
<1>6. PICK limit \in Nat : \E tk \in [Nodes -> 0 .. limit] : TicketInv(tk)
  OBVIOUS
<1>7. PICK tk \in [Nodes -> 0 .. limit] : TicketInv(tk)
  BY <1>6
<1>8. \A q \in Readers : /\ InWalk(q)' => InWalk(q) /\ t'[q] = t[q]
                                          /\ visited'[q] = visited[q]
                         /\ stayed'[q] \subseteq stayed[q]
  BY <1>1, <1>2, <1>3 DEF InWalk
<1>9. TicketInv(tk)'
  BY <1>1, <1>7, <1>8, TicketsUntouched DEF kernelVars
<1>10. StatInv' /\ (\A q \in Readers : TallyInv(q)') /\ WalkTypeOK'
  <2>1. StatNext
    BY DEF StatNext, ReadStep
  <2> QED
    BY <1>5, <2>1, ReadInv, WalkType
<1> QED
  BY <1>9, <1>10

\* Every step keeps the invariant.
THEOREM VisitStepInv == VisitInv /\ [StatNext]_statVars => VisitInv'
<1> SUFFICES ASSUME VisitInv, [StatNext]_statVars PROVE VisitInv'
  OBVIOUS
<1>0. StatInv' /\ WalkTypeOK'
  BY StatStepInv, WalkType DEF VisitInv
<1>1. CASE TaskStep
  <2>1. \A r \in Readers : TallyInv(r)'
    BY <1>1, TaskTally DEF VisitInv
  <2>2. PICK limit \in Nat : \E tk \in [Nodes -> 0 .. limit] : TicketInv(tk)
    BY DEF VisitInv
  <2>3. PICK tk \in [Nodes -> 0 .. limit] : TicketInv(tk)
    BY <2>2
  <2>4. PICK k \in Tasks : Fork(k) \/ ChangeState(k) \/ Reap(k) \/ FreeTask(k)
    BY <1>1 DEF TaskStep
  <2>5. CASE Fork(k)
    <3>1. limit + 1 \in Nat /\ \E tk2 \in [Nodes -> 0 .. limit + 1] : TicketInv(tk2)'
      BY <2>3, <2>5, ForkTicket DEF VisitInv
    <3> QED
      BY <1>0, <2>1, <3>1 DEF VisitInv
  <2>6. CASE ~Fork(k)
    <3>1. TicketInv(tk)'
      BY <2>3, <2>4, <2>6, ReapTicket, OtherTicket DEF VisitInv
    <3> QED
      BY <1>0, <2>1, <3>1 DEF VisitInv
  <2> QED
    BY <2>5, <2>6
<1>2. CASE LoadStep
  BY <1>2, LoadVisit
<1>3. ASSUME NEW r \in Readers, ReadStep(r) PROVE VisitInv'
  BY <1>3, WalkVisit, ReadVisit
<1>4. CASE UNCHANGED statVars
  <2>1. \A r \in Readers : TallyInv(r)'
    BY <1>4 DEF statVars, kernelVars, walkVars, VisitInv, TallyInv, OnList,
                Counted, Showing, InWalk
  <2>2. PICK limit \in Nat : \E tk \in [Nodes -> 0 .. limit] : TicketInv(tk)
    BY DEF VisitInv
  <2>3. PICK tk \in [Nodes -> 0 .. limit] : TicketInv(tk)
    BY <2>2
  <2>4. TicketInv(tk)'
    BY <1>4, <2>3, TicketsUntouched
       DEF statVars, kernelVars, walkVars, InWalk, VisitInv, StatInv, StatTypeOK
  <2> QED
    BY <1>0, <2>1, <2>4 DEF VisitInv
<1> QED
  BY <1>1, <1>2, <1>3, <1>4 DEF StatNext, TaskStep, LoadStep, ReadStep

\* procstat.c:41-49, proc-check.sh: however the list changes during a walk,
\* the walk meets every task that was there all along, none twice, and its
\* three counts add up to the total.
THEOREM WalksAreComplete == StatSpec => []CountsEveryTaskOnce
<1>1. VisitInv => CountsEveryTaskOnce
  BY DEF VisitInv, TallyInv, CountsEveryTaskOnce, Counted, InWalk, Sum
<1> QED
  BY <1>1, VisitInitInv, VisitStepInv, PTL DEF StatSpec
=============================================================================
