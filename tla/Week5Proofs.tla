----------------------------- MODULE Week5Proofs -----------------------------
(***************************************************************************)
(* Proofs about the two programs of week 5.                                *)
(*                                                                         *)
(* WorkPool, for any number of tasks and workers, any size of the queues   *)
(* and each of the pathologies: no wake-up is lost, a hold stops the pool, *)
(* the rings implement bounded FIFO queues, a task is in one place at a    *)
(* time, none is lost, and the pool never locks up.                        *)
(*                                                                         *)
(* Analysis, for every run and every pool: the median rule, and that the   *)
(* scan over the sorted events measures the episodes analyze.h defines.    *)
(***************************************************************************)
EXTENDS WorkPool, Analysis, SequenceTheorems, FiniteSetTheorems,
        WellFoundedInduction, TLAPS

-----------------------------------------------------------------------------
(***************************************************************************)
(* Rings                                                                   *)
(***************************************************************************)
Slots == 0 .. Capacity - 1

\* The slot that an index, which may have left the ring, comes down to.
Slot(n) == n % Capacity

\* What is in a ring with slots s that is read at h and has c tasks.
Ring(s, h, c) == [j \in 1 .. c |-> s[Slot(h + j - 1)]]

\* An index that has left the ring once is back in it.
LEMMA Modulus ==
    ASSUME NEW n \in 0 .. 2 * Capacity - 1
    PROVE  Slot(n) = IF n < Capacity THEN n ELSE n - Capacity
<1>1. Capacity \in Nat \ {0}
  BY PoolAssumption
<1>2. CASE n < Capacity
  BY <1>1, <1>2 DEF Slot
<1>3. CASE n >= Capacity
  <2>1. n \in Capacity .. 2 * Capacity - 1
    BY <1>1, <1>3
  <2>2. n % Capacity = n - Capacity
    BY <1>1, <2>1, SMTT(30)
  <2> QED
    BY <1>1, <1>3, <2>2 DEF Slot
<1> QED
  BY <1>1, <1>2, <1>3

\* A ring is a sequence of the slots' contents.
LEMMA RingIsSeq ==
    ASSUME NEW S, NEW s \in [Slots -> S], NEW h \in Slots, NEW c \in 0 .. Capacity
    PROVE  /\ Ring(s, h, c) \in Seq(S)
           /\ Len(Ring(s, h, c)) = c
           /\ \A j \in 1 .. c : Ring(s, h, c)[j] = s[Slot(h + j - 1)]
<1>1. Capacity \in Nat \ {0}
  BY PoolAssumption
<1>2. \A j \in 1 .. c : Slot(h + j - 1) \in Slots
  <2> TAKE j \in 1 .. c
  <2>1. h + j - 1 \in 0 .. 2 * Capacity - 1
    BY <1>1 DEF Slots
  <2> QED
    BY <1>1, <2>1, Modulus DEF Slots
<1>3. Ring(s, h, c) \in [1 .. c -> S]
  BY <1>2 DEF Ring
<1>4. c \in Nat
  BY <1>1
<1>5. Ring(s, h, c) \in Seq(S)
  BY <1>3, <1>4, SeqDef
<1> QED
  BY <1>3, <1>4, <1>5 DEF Ring

\* A push appends, in the slot after the last.
LEMMA RingPush ==
    ASSUME NEW S, NEW s \in [Slots -> S], NEW h \in Slots,
           NEW c \in 0 .. Capacity - 1, NEW k \in S
    PROVE  Ring([s EXCEPT ![Slot(h + c)] = k], h, c + 1)
               = Append(Ring(s, h, c), k)
<1> DEFINE u == [s EXCEPT ![Slot(h + c)] = k]
<1>1. Capacity \in Nat \ {0}
  BY PoolAssumption
<1>2. u \in [Slots -> S]
  OBVIOUS
<1>3. c + 1 \in 0 .. Capacity /\ c \in 0 .. Capacity
  BY <1>1
<1> HIDE DEF u
<1>4. Ring(u, h, c + 1) \in Seq(S) /\ Len(Ring(u, h, c + 1)) = c + 1
      /\ \A j \in 1 .. c + 1 : Ring(u, h, c + 1)[j] = u[Slot(h + j - 1)]
  BY <1>2, <1>3, RingIsSeq, ZenonT(60)
<1>5. Ring(s, h, c) \in Seq(S) /\ Len(Ring(s, h, c)) = c
      /\ \A j \in 1 .. c : Ring(s, h, c)[j] = s[Slot(h + j - 1)]
  BY <1>2, <1>3, RingIsSeq, ZenonT(60)
<1> DEFINE longer == Append(Ring(s, h, c), k)
<1>6. longer \in Seq(S) /\ Len(longer) = c + 1 /\ longer[c + 1] = k
      /\ \A j \in 1 .. c : longer[j] = Ring(s, h, c)[j]
  BY <1>5, <1>1, AppendProperties
<1> HIDE DEF longer
<1>7. ASSUME NEW j \in 1 .. c + 1
      PROVE  Ring(u, h, c + 1)[j] = longer[j]
  <2>1. h + j - 1 \in 0 .. 2 * Capacity - 1 /\ h + c \in 0 .. 2 * Capacity - 1
    BY <1>1 DEF Slots
  <2>2. /\ Slot(h + j - 1) \in Slots /\ Slot(h + c) \in Slots
        /\ j # c + 1 => Slot(h + j - 1) # Slot(h + c)
        /\ j = c + 1 => Slot(h + j - 1) = Slot(h + c)
    BY <1>1, <2>1, Modulus DEF Slots
  <2>3. u[Slot(h + j - 1)] = IF j = c + 1 THEN k ELSE s[Slot(h + j - 1)]
    BY <2>2 DEF u
  <2>4. CASE j = c + 1
    BY <2>3, <2>4, <1>4, <1>6
  <2>5. CASE j # c + 1
    <3>1. j \in 1 .. c
      BY <2>5, <1>1
    <3> QED
      BY <2>3, <2>5, <3>1, <1>4, <1>5, <1>6
  <2> QED
    BY <2>4, <2>5
<1> QED
  BY <1>4, <1>6, <1>7, SeqEqual DEF longer, u

\* A pop takes the first.
LEMMA RingPop ==
    ASSUME NEW S, NEW s \in [Slots -> S], NEW h \in Slots, NEW c \in 1 .. Capacity
    PROVE  /\ Ring(s, h, c) # << >>
           /\ Head(Ring(s, h, c)) = s[h]
           /\ Ring(s, Slot(h + 1), c - 1) = Tail(Ring(s, h, c))
<1> DEFINE g == Slot(h + 1)
<1>1. Capacity \in Nat \ {0}
  BY PoolAssumption
<1>2. g \in Slots /\ c \in 0 .. Capacity /\ c - 1 \in 0 .. Capacity
  <2>1. h + 1 \in 0 .. 2 * Capacity - 1
    BY <1>1 DEF Slots
  <2> QED
    BY <1>1, <2>1, Modulus DEF Slots
<1> HIDE DEF g
<1>3. Ring(s, g, c - 1) \in Seq(S) /\ Len(Ring(s, g, c - 1)) = c - 1
      /\ \A j \in 1 .. c - 1 : Ring(s, g, c - 1)[j] = s[Slot(g + j - 1)]
  BY <1>2, RingIsSeq
<1>4. Ring(s, h, c) \in Seq(S) /\ Len(Ring(s, h, c)) = c
      /\ \A j \in 1 .. c : Ring(s, h, c)[j] = s[Slot(h + j - 1)]
  BY <1>2, RingIsSeq
<1>5. Ring(s, h, c) # << >>
  BY <1>4, <1>1, EmptySeq
<1> DEFINE shorter == Tail(Ring(s, h, c))
<1>6. shorter \in Seq(S) /\ Len(shorter) = c - 1
      /\ \A j \in 1 .. c - 1 : shorter[j] = Ring(s, h, c)[j + 1]
  BY <1>4, <1>5, HeadTailProperties
<1> HIDE DEF shorter
<1>7. ASSUME NEW j \in 1 .. c - 1
      PROVE  Ring(s, g, c - 1)[j] = shorter[j]
  <2>1. /\ h + 1 \in 0 .. 2 * Capacity - 1 /\ g + j - 1 \in 0 .. 2 * Capacity - 1
        /\ h + (j + 1) - 1 \in 0 .. 2 * Capacity - 1
    BY <1>1, <1>2 DEF Slots
  <2>2. Slot(g + j - 1) = Slot(h + (j + 1) - 1)
    BY <1>1, <2>1, Modulus DEF Slots, g
  <2>3. j + 1 \in 1 .. c
    BY <1>1
  <2> QED
    BY <1>3, <1>4, <1>6, <2>2, <2>3
<1>8. Ring(s, g, c - 1) = shorter
  BY <1>3, <1>6, <1>7, SeqEqual
<1>9. Head(Ring(s, h, c)) = s[h]
  <2>1. h + 1 - 1 \in 0 .. 2 * Capacity - 1 /\ h + 1 - 1 = h
    BY <1>1 DEF Slots
  <2>2. Slot(h + 1 - 1) = h
    BY <1>1, <2>1, Modulus DEF Slots
  <2>3. Head(Ring(s, h, c)) = Ring(s, h, c)[1]
    BY <1>4, <1>5
  <2> QED
    BY <1>1, <1>4, <2>2, <2>3
<1> QED
  BY <1>5, <1>8, <1>9 DEF shorter, g

-----------------------------------------------------------------------------
(***************************************************************************)
(* The invariant                                                           *)
(***************************************************************************)
DispatcherPCs == {"loop", "push", "full", "close", "join", "returned"}
WorkerPCs     == {"pop", "asleep", "gate", "gated", "start", "hold", "holding",
                  "work", "count", "exited"}

\* What a slot may hold: at first, before there are any tasks, zero.
Ids == Tasks \cup {0}

\* The variables the proofs are about are of their types.
PoolTypeOK ==
    /\ slots \in [Queues -> [Slots -> Ids]]
    /\ head \in [Queues -> Slots] /\ tail \in [Queues -> Slots]
    /\ count \in [Queues -> 0 .. Capacity]
    /\ closed \in [Queues -> BOOLEAN]
    /\ gate \in Workers \cup {None}
    /\ dpc \in DispatcherPCs
    /\ i \in 0 .. NTasks /\ burstEnd \in 0 .. NTasks
    /\ wpc \in [Workers -> WorkerPCs]
    /\ task \in [Workers -> Tasks \cup {None}]
    /\ sinceHold \subseteq Workers

\* The two ends of a ring and its count agree; a queue that has tasks has some
\* to have; nothing is closed while the dispatcher has tasks to push; a worker
\* has a task from its pop until it counts.
RingInv ==
    /\ \A q \in Queues : /\ tail[q] = Slot(head[q] + count[q])
                         /\ count[q] # 0 => NTasks # 0
    /\ dpc \in {"push", "full"} => i < NTasks
    /\ dpc \in {"loop", "push", "full"} => \A q \in Queues : ~closed[q]
    /\ \A w \in Workers :
          task[w] = None <=> wpc[w] \in {"pop", "asleep", "exited"}

\* The gate is with whoever is between its lock and unlock; while it is held
\* nobody who has started a task can be past it again.
HoldInv ==
    /\ \A w \in Workers : wpc[w] \in {"gated", "holding"} => gate = w
    /\ \A h \in Workers, w \in sinceHold :
          wpc[h] = "holding" => wpc[w] \notin {"gated", "start"}

PoolInv == PoolTypeOK /\ RingInv /\ NoLostWakeup /\ HoldInv

\* Tasks and workers are where they may be.
LEMMA QueuesAreTwo ==
    /\ \A k : QueueOf(k) \in Queues
    /\ \A w : WorkerQueue(w) \in Queues
BY DEF QueueOf, WorkerQueue, Shard, Queues

LEMMA WorkersAreFinite ==
    ASSUME NEW S \in SUBSET Workers
    PROVE  IsFiniteSet(S) /\ Cardinality(S) \in Nat
<1>1. IsFiniteSet(Workers)
  BY FS_Interval, PoolAssumption DEF Workers
<1> QED
  BY <1>1, FS_Subset, FS_CardinalityType

\* wl_run's start.
THEOREM PoolInitInv == Init => PoolInv
<1> SUFFICES ASSUME Init PROVE PoolInv
  OBVIOUS
<1>1. Capacity \in Nat \ {0} /\ NTasks \in Nat /\ None \notin Tasks
  BY PoolAssumption
<1>2. 0 \in Slots /\ Slot(0 + 0) = 0
  BY <1>1, Modulus DEF Slots
<1>3. PoolTypeOK
  BY <1>1, <1>2 DEF Init, PoolTypeOK, Slots, Ids, DispatcherPCs, WorkerPCs
<1>4. RingInv
  BY <1>1, <1>2 DEF Init, RingInv
<1>5. NoLostWakeup
  BY DEF Init, NoLostWakeup, Asleep
<1>6. HoldInv
  BY DEF Init, HoldInv
<1> QED
  BY <1>3, <1>4, <1>5, <1>6 DEF PoolInv

\* A signal, or a broadcast, wakes workers up and does nothing else.
Wakes == /\ wpc' \in [Workers -> WorkerPCs]
         /\ \A w \in Workers :
               wpc'[w] = wpc[w] \/ (wpc[w] = "asleep" /\ wpc'[w] = "pop")

LEMMA SignalsWake ==
    ASSUME PoolTypeOK, NEW q, SignalNotEmpty(q) \/ BroadcastNotEmpty(q)
    PROVE  Wakes
<1>1. CASE SignalNotEmpty(q)
  BY <1>1 DEF SignalNotEmpty, PoolTypeOK, Asleep, Wakes, WorkerPCs
<1>2. CASE BroadcastNotEmpty(q)
  BY <1>2 DEF BroadcastNotEmpty, PoolTypeOK, Asleep, Wakes, WorkerPCs
<1> QED
  BY <1>1, <1>2

\* Waking up takes nobody past the gate.
LEMMA WakesHold ==
    ASSUME PoolInv, Wakes, UNCHANGED <<gate, sinceHold>>
    PROVE  HoldInv'
BY DEF PoolInv, PoolTypeOK, HoldInv, Wakes

\* The slot after the last one of a ring, and the one after the first.
LEMMA SlotsMove ==
    ASSUME NEW h \in Slots, NEW c \in 0 .. Capacity
    PROVE  /\ Slot(h) = h
           /\ Slot(h + c) \in Slots /\ Slot(h + 1) \in Slots
           /\ c < Capacity => Slot(Slot(h + c) + 1) = Slot(h + (c + 1))
           /\ c # 0 => Slot(Slot(h + 1) + (c - 1)) = Slot(h + c)
<1>1. Capacity \in Nat \ {0}
  BY PoolAssumption
<1>2. /\ h \in 0 .. 2 * Capacity - 1 /\ h + c \in 0 .. 2 * Capacity - 1
      /\ h + 1 \in 0 .. 2 * Capacity - 1
      /\ c < Capacity => h + (c + 1) \in 0 .. 2 * Capacity - 1
  BY <1>1 DEF Slots
<1>3. /\ Slot(h) = h /\ Slot(h + c) \in Slots /\ Slot(h + 1) \in Slots
  BY <1>1, <1>2, Modulus DEF Slots
<1>4. /\ Slot(h + c) + 1 \in 0 .. 2 * Capacity - 1
      /\ c # 0 => Slot(h + 1) + (c - 1) \in 0 .. 2 * Capacity - 1
  BY <1>1, <1>3 DEF Slots
<1> QED
  BY <1>1, <1>2, <1>3, <1>4, Modulus DEF Slots

LEMMA DispatchTypes ==
    ASSUME PoolInv, DispatcherStep
    PROVE  PoolTypeOK' /\ RingInv' /\ HoldInv'
<1>1. Capacity \in Nat \ {0} /\ NTasks \in Nat /\ None \notin Tasks
  BY PoolAssumption
<1> USE DEF PoolInv
<1>2. CASE Release
  <2>1. i < NTasks /\ burstEnd' \in 0 .. NTasks
    BY <1>1, <1>2, PeriodAssumption DEF Release, PoolTypeOK, EndOfBurst
  <2>2. UNCHANGED <<slots, head, tail, count, closed, gate, i, wpc, task, sinceHold>>
        /\ dpc' = "push"
    BY <1>2 DEF Release, queueVars, workerVars
  <2>3. dpc = "loop"
    BY <1>2 DEF Release
  <2>4. PoolTypeOK'
    BY <2>1, <2>2 DEF PoolTypeOK, DispatcherPCs
  <2>5. RingInv'
    BY <2>1, <2>2, <2>3 DEF RingInv
  <2>6. HoldInv'
    BY <2>2 DEF HoldInv
  <2> QED
    BY <2>4, <2>5, <2>6
<1>3. CASE WaitNotFull \/ Join
  BY <1>3 DEF WaitNotFull, Join, PoolTypeOK, RingInv, HoldInv, queueVars,
              workerVars, DispatcherPCs
<1>4. CASE Push
  <2> DEFINE q == QueueOf(i)
  <2>1. q \in Queues
    BY QueuesAreTwo
  <2>2. Wakes
    BY <1>4, SignalsWake DEF Push
  <2>3. i < NTasks /\ i \in Tasks /\ i + 1 \in 0 .. NTasks
    BY <1>1, <1>4 DEF Push, RingInv, PoolTypeOK, Tasks
  <2> HIDE DEF q
  <2>4. /\ count[q] \in 0 .. Capacity /\ count[q] < Capacity
        /\ tail[q] = Slot(head[q] + count[q]) /\ tail[q] \in Slots
        /\ head[q] \in Slots
    <3>1. count[q] # Capacity
      BY <1>4 DEF Push, q
    <3>2. count[q] \in 0 .. Capacity /\ tail[q] \in Slots /\ head[q] \in Slots
      BY <2>1 DEF PoolTypeOK
    <3>3. tail[q] = Slot(head[q] + count[q])
      BY <2>1 DEF RingInv
    <3> QED
      BY <1>1, <3>1, <3>2, <3>3
  <2>5. Slot(tail[q] + 1) = Slot(head[q] + (count[q] + 1))
        /\ Slot(tail[q] + 1) \in Slots
    <3>1. Slot(Slot(head[q] + count[q]) + 1) = Slot(head[q] + (count[q] + 1))
      BY <2>4, SlotsMove
    <3>2. tail[q] + 1 \in 0 .. 2 * Capacity - 1
      BY <1>1, <2>4 DEF Slots
    <3>3. Slot(tail[q] + 1) \in Slots
      BY <1>1, <2>4, <3>2, Modulus DEF Slots
    <3> QED
      BY <2>4, <3>1, <3>3
  <2>6. /\ slots' = [slots EXCEPT ![q][tail[q]] = i]
        /\ tail' = [tail EXCEPT ![q] = Slot(@ + 1)]
        /\ count' = [count EXCEPT ![q] = @ + 1]
        /\ dpc' = "loop" /\ dpc = "push" /\ i' = i + 1
        /\ UNCHANGED <<head, closed, gate, burstEnd, task, sinceHold>>
    BY <1>4 DEF Push, Slot, q
  <2>7. slots' \in [Queues -> [Slots -> Ids]]
    BY <2>1, <2>3, <2>6 DEF PoolTypeOK, Ids
  <2>8. PoolTypeOK'
    BY <1>1, <2>1, <2>2, <2>3, <2>4, <2>5, <2>6, <2>7
       DEF PoolTypeOK, Wakes, DispatcherPCs
  <2>9. RingInv'
    <3>1. \A p \in Queues : /\ tail'[p] = Slot(head'[p] + count'[p])
                            /\ count'[p] # 0 => NTasks # 0
      BY <1>1, <2>1, <2>3, <2>4, <2>5, <2>6 DEF RingInv, PoolTypeOK
    <3>2. \A w \in Workers :
             task'[w] = None <=> wpc'[w] \in {"pop", "asleep", "exited"}
      BY <2>2, <2>6 DEF RingInv, Wakes
    <3> QED
      BY <3>1, <3>2, <2>6 DEF RingInv
  <2>10. HoldInv'
    BY <2>2, <2>6, WakesHold
  <2> QED
    BY <2>8, <2>9, <2>10
<1>5. CASE CloseFirst \/ CloseSecond
  <2>1. PICK q \in Queues : BroadcastNotEmpty(q) /\ closed' = [closed EXCEPT ![q] = TRUE]
    BY <1>5 DEF CloseFirst, CloseSecond, Close, Queues
  <2>2. Wakes
    BY <2>1, SignalsWake
  <2>3. /\ dpc' \in {"close", "join"}
        /\ UNCHANGED <<slots, head, tail, count, gate, i, burstEnd, task, sinceHold>>
    BY <1>5 DEF CloseFirst, CloseSecond, Close
  <2>4. PoolTypeOK'
    BY <2>1, <2>2, <2>3 DEF PoolTypeOK, Wakes, DispatcherPCs
  <2>5. RingInv'
    BY <2>1, <2>2, <2>3 DEF RingInv, Wakes
  <2>6. HoldInv'
    BY <2>2, <2>3, WakesHold
  <2> QED
    BY <2>4, <2>5, <2>6
<1> QED
  BY <1>2, <1>3, <1>4, <1>5 DEF DispatcherStep

LEMMA WorkerTypes ==
    ASSUME PoolInv, NEW w \in Workers, WorkerStep(w)
    PROVE  PoolTypeOK' /\ RingInv' /\ HoldInv'
<1>1. Capacity \in Nat \ {0} /\ NTasks \in Nat /\ None \notin Tasks
      /\ None \notin Workers
  BY PoolAssumption
<1> USE DEF PoolInv
<1>2. CASE Pop(w)
  <2> DEFINE q == WorkerQueue(w)
  <2>1. q \in Queues
    BY QueuesAreTwo
  <2>2. /\ count[q] \in 0 .. Capacity /\ count[q] # 0 /\ head[q] \in Slots
        /\ tail[q] = Slot(head[q] + count[q])
    BY <1>2, <2>1 DEF Pop, RingInv, PoolTypeOK
  <2>3. /\ Slot(Slot(head[q] + 1) + (count[q] - 1)) = tail[q]
        /\ Slot(head[q] + 1) \in Slots
    BY <2>2, SlotsMove
  <2>4. slots[q][head[q]] \in Tasks
    BY <1>1, <2>1, <2>2 DEF RingInv, PoolTypeOK, Tasks, Ids
  <2> HIDE DEF q
  <2>5. /\ At(w, "pop", "gate")
        /\ task' = [task EXCEPT ![w] = slots[q][head[q]]]
        /\ head' = [head EXCEPT ![q] = Slot(@ + 1)]
        /\ count' = [count EXCEPT ![q] = @ - 1]
        /\ dpc' \in {dpc, "push"} /\ (dpc' = "push" => dpc \in {"push", "full"})
        /\ UNCHANGED <<slots, tail, closed, gate, i, burstEnd, sinceHold>>
    BY <1>2 DEF Pop, Slot, SignalNotFull, q
  <2>6. PoolTypeOK'
    <3>1. head' \in [Queues -> Slots] /\ count' \in [Queues -> 0 .. Capacity]
      <4>1. count[q] - 1 \in 0 .. Capacity
        BY <1>1, <2>2
      <4>2. head \in [Queues -> Slots] /\ count \in [Queues -> 0 .. Capacity]
        BY DEF PoolTypeOK
      <4>3. head' \in [Queues -> Slots]
        BY <2>3, <2>5, <4>2
      <4>4. count' \in [Queues -> 0 .. Capacity]
        BY <2>5, <4>1, <4>2
      <4> QED
        BY <4>3, <4>4
    <3>2. /\ wpc' \in [Workers -> WorkerPCs]
          /\ task' \in [Workers -> Tasks \cup {None}]
      BY <2>4, <2>5 DEF PoolTypeOK, At, WorkerPCs
    <3> QED
      BY <2>5, <3>1, <3>2 DEF PoolTypeOK, DispatcherPCs
  <2>7. RingInv'
    <3>1. \A p \in Queues : /\ tail'[p] = Slot(head'[p] + count'[p])
                            /\ count'[p] # 0 => NTasks # 0
      BY <1>1, <2>1, <2>2, <2>3, <2>5 DEF RingInv, PoolTypeOK
    <3>2. \A v \in Workers :
             task'[v] = None <=> wpc'[v] \in {"pop", "asleep", "exited"}
      BY <1>1, <2>4, <2>5 DEF RingInv, PoolTypeOK, At
    <3> QED
      BY <3>1, <3>2, <2>5 DEF RingInv
  <2>8. HoldInv'
    BY <2>5 DEF HoldInv, PoolTypeOK, At
  <2> QED
    BY <2>6, <2>7, <2>8
<1>3. CASE Sleep(w) \/ Exit(w) \/ End(w) \/ Count(w)
  BY <1>1, <1>3 DEF Sleep, Exit, End, Count, At, PoolTypeOK, RingInv, HoldInv,
                    queueVars, dispatcherVars, WorkerPCs
<1>4. CASE GateLock(w) \/ GateUnlock(w)
  BY <1>1, <1>4 DEF GateLock, GateUnlock, At, PoolTypeOK, RingInv, HoldInv,
                    queueVars, dispatcherVars, WorkerPCs
<1>5. CASE Start(w)
  BY <1>1, <1>5 DEF Start, At, PoolTypeOK, RingInv, HoldInv,
                    queueVars, dispatcherVars, WorkerPCs
<1>6. CASE HoldLock(w) \/ HoldUnlock(w)
  BY <1>1, <1>6 DEF HoldLock, HoldUnlock, At, PoolTypeOK, RingInv, HoldInv,
                    queueVars, dispatcherVars, WorkerPCs
<1> QED
  BY <1>2, <1>3, <1>4, <1>5, <1>6 DEF WorkerStep

LEMMA SpuriousTypes ==
    ASSUME PoolInv, WakeSpuriously
    PROVE  PoolTypeOK' /\ RingInv' /\ HoldInv'
<1> USE DEF PoolInv
<1>1. CASE UNCHANGED dpc
  BY <1>1 DEF WakeSpuriously, At, PoolTypeOK, RingInv, HoldInv, queueVars,
              WorkerPCs
<1>2. CASE dpc = "full" /\ dpc' = "push" /\ UNCHANGED wpc
  BY <1>2 DEF WakeSpuriously, PoolTypeOK, RingInv, HoldInv, queueVars,
              DispatcherPCs
<1> QED
  BY <1>1, <1>2 DEF WakeSpuriously

-----------------------------------------------------------------------------
(***************************************************************************)
(* No wake-up is lost                                                      *)
(***************************************************************************)
\* One queue's part of NoLostWakeup.
Awake(q) == Asleep(q) # {} => count[q] <= Cardinality(Popping(q))

\* A queue is safe while its tasks stay and none of its workers goes to sleep
\* or takes a task.
LEMMA WakingKeeps ==
    ASSUME PoolTypeOK, NEW q \in Queues, Awake(q), UNCHANGED path,
           count'[q] = count[q],
           \A v \in Workers : WorkerQueue(v) = q =>
               /\ wpc'[v] = "asleep" => wpc[v] = "asleep"
               /\ wpc[v] = "pop" => wpc'[v] = "pop"
    PROVE  Awake(q)'
<1>1. \A v : WorkerQueue(v)' = WorkerQueue(v)
  BY DEF WorkerQueue
<1>2. Asleep(q)' \subseteq Asleep(q)
  BY <1>1 DEF Asleep
<1>3. Popping(q) \subseteq Popping(q)' /\ Popping(q)' \in SUBSET Workers
      /\ Popping(q) \in SUBSET Workers
  BY <1>1 DEF Popping
<1>4. Cardinality(Popping(q)) <= Cardinality(Popping(q)')
  BY <1>3, WorkersAreFinite, FS_Subset
<1>5. /\ Cardinality(Popping(q)) \in Nat /\ Cardinality(Popping(q)') \in Nat
  BY <1>3, WorkersAreFinite
<1>6. count[q] \in Int
  BY PoolAssumption DEF PoolTypeOK
<1> QED
  BY <1>2, <1>4, <1>5, <1>6 DEF Awake

\* Whoever goes to sleep or leaves finds the queue empty.
LEMMA EmptyIsAwake ==
    ASSUME NEW q, count'[q] = 0
    PROVE  Awake(q)'
<1>1. Popping(q)' \in SUBSET Workers
  BY DEF Popping
<1>2. Cardinality(Popping(q)') \in Nat
  BY <1>1, WorkersAreFinite
<1> QED
  BY <1>2 DEF Awake

\* A push wakes one worker up for its task, if any is asleep.
LEMMA PushWakes ==
    ASSUME PoolInv, Push, NEW q \in Queues
    PROVE  Awake(q)'
<1>1. Awake(q) /\ PoolTypeOK
  BY DEF PoolInv, NoLostWakeup, Awake
<1>2. UNCHANGED path /\ SignalNotEmpty(QueueOf(i)) /\ Wakes
  BY <1>1, SignalsWake DEF Push
<1>3. CASE q # QueueOf(i)
  <2>1. count'[q] = count[q]
    BY <1>1, <1>3 DEF Push, PoolTypeOK
  <2> QED
    BY <1>1, <1>2, <2>1, WakingKeeps DEF Wakes
<1>4. CASE q = QueueOf(i)
  <2>1. count'[q] = count[q] + 1 /\ count[q] \in Int
    BY <1>1, <1>4, PoolAssumption DEF Push, PoolTypeOK
  <2>2. \A v : WorkerQueue(v)' = WorkerQueue(v)
    BY <1>2 DEF WorkerQueue
  <2>3. CASE Asleep(q) = {} /\ UNCHANGED wpc
    BY <2>2, <2>3 DEF Awake, Asleep
  <2>4. CASE \E w \in Asleep(q) : wpc' = [wpc EXCEPT ![w] = "pop"]
    <3>1. PICK w \in Asleep(q) : wpc' = [wpc EXCEPT ![w] = "pop"]
      BY <2>4
    <3>2. w \in Workers /\ WorkerQueue(w) = q /\ w \notin Popping(q)
      BY DEF Asleep, Popping
    <3>3. Popping(q)' = Popping(q) \cup {w} /\ Popping(q) \in SUBSET Workers
      BY <1>1, <2>2, <3>1, <3>2 DEF Popping, PoolTypeOK
    <3>4. /\ Cardinality(Popping(q)') = Cardinality(Popping(q)) + 1
          /\ Cardinality(Popping(q)) \in Nat
      BY <3>2, <3>3, WorkersAreFinite, FS_AddElement
    <3>5. count[q] <= Cardinality(Popping(q))
      BY <1>1, <3>1 DEF Awake
    <3> QED
      BY <2>1, <3>4, <3>5 DEF Awake
  <2> QED
    BY <1>2, <1>4, <2>3, <2>4 DEF SignalNotEmpty
<1> QED
  BY <1>3, <1>4

\* A pop takes one task and one of the workers that are about to pop.
LEMMA PopsMatch ==
    ASSUME PoolInv, NEW w \in Workers, Pop(w), NEW q \in Queues
    PROVE  Awake(q)'
<1>1. Awake(q) /\ PoolTypeOK
  BY DEF PoolInv, NoLostWakeup, Awake
<1>2. UNCHANGED path /\ wpc[w] = "pop" /\ wpc' = [wpc EXCEPT ![w] = "gate"]
  BY DEF Pop, At
<1>3. CASE q # WorkerQueue(w)
  <2>1. count'[q] = count[q]
    BY <1>1, <1>3 DEF Pop, PoolTypeOK
  <2>2. \A v \in Workers : WorkerQueue(v) = q => wpc'[v] = wpc[v]
    BY <1>1, <1>2, <1>3 DEF PoolTypeOK
  <2> QED
    BY <1>1, <1>2, <2>1, <2>2, WakingKeeps
<1>4. CASE q = WorkerQueue(w)
  <2>1. count'[q] = count[q] - 1 /\ count[q] \in Int
    BY <1>1, <1>4, PoolAssumption DEF Pop, PoolTypeOK
  <2>2. \A v : WorkerQueue(v)' = WorkerQueue(v)
    BY <1>2 DEF WorkerQueue
  <2>3. /\ w \in Popping(q) /\ Popping(q) \in SUBSET Workers
        /\ Popping(q)' = Popping(q) \ {w} /\ Asleep(q)' = Asleep(q)
    BY <1>1, <1>2, <1>4, <2>2 DEF Popping, Asleep, PoolTypeOK
  <2>4. /\ Cardinality(Popping(q)') = Cardinality(Popping(q)) - 1
        /\ Cardinality(Popping(q)) \in Nat
    BY <2>3, WorkersAreFinite, FS_RemoveElement
  <2> QED
    BY <1>1, <2>1, <2>3, <2>4 DEF Awake
<1> QED
  BY <1>3, <1>4

LEMMA WakeupsKept ==
    ASSUME PoolInv, DispatcherStep \/ (\E w \in Workers : WorkerStep(w))
                    \/ WakeSpuriously
    PROVE  NoLostWakeup'
<1>1. PoolTypeOK /\ (\A q \in Queues : Awake(q))
      /\ (dpc = "full" => count[QueueOf(i)] = Capacity)
  BY DEF PoolInv, NoLostWakeup, Awake
<1>2. /\ \A q \in Queues : Awake(q)'
      /\ dpc' = "full" => count'[QueueOf(i)'] = Capacity
      => NoLostWakeup'
  BY DEF NoLostWakeup, Awake
<1>3. UNCHANGED path /\ (UNCHANGED i => QueueOf(i)' = QueueOf(i))
  <2>1. UNCHANGED path
    BY DEF DispatcherStep, Release, WaitNotFull, Push, CloseFirst, CloseSecond,
           Close, Join, WorkerStep, Sleep, Pop, Exit, GateLock, GateUnlock,
           Start, HoldLock, HoldUnlock, End, Count, WakeSpuriously
  <2> QED
    BY <2>1 DEF QueueOf, Shard
<1>4. CASE Release \/ WaitNotFull \/ Join
  <2>1. UNCHANGED <<count, wpc>>
    BY <1>4 DEF Release, WaitNotFull, Join, queueVars, workerVars
  <2>2. dpc' = "full" => UNCHANGED i /\ count[QueueOf(i)] = Capacity
    BY <1>4 DEF Release, WaitNotFull, Join
  <2> QED
    BY <1>1, <1>2, <1>3, <2>1, <2>2, WakingKeeps
<1>5. CASE Push
  BY <1>2, <1>5, PushWakes DEF Push
<1>6. CASE CloseFirst \/ CloseSecond
  <2>1. PICK q \in Queues : BroadcastNotEmpty(q)
    BY <1>6 DEF CloseFirst, CloseSecond, Close, Queues
  <2>2. Wakes /\ UNCHANGED count /\ dpc' # "full"
    BY <1>1, <1>6, <2>1, SignalsWake DEF CloseFirst, CloseSecond, Close
  <2> QED
    BY <1>1, <1>2, <1>3, <2>2, WakingKeeps DEF Wakes
<1>7. ASSUME NEW w \in Workers, WorkerStep(w)
      PROVE  NoLostWakeup'
  <2>1. CASE Pop(w)
    <3>1. \A q \in Queues : Awake(q)'
      BY <2>1, PopsMatch
    <3>2. dpc' = "full" => count'[QueueOf(i)'] = Capacity
      BY <1>1, <1>3, <2>1 DEF Pop, SignalNotFull, PoolTypeOK
    <3> QED
      BY <3>1, <3>2, <1>2
  <2>2. CASE Sleep(w) \/ Exit(w)
    <3>1. /\ UNCHANGED <<count, dpc, i>> /\ count[WorkerQueue(w)] = 0
          /\ wpc' \in {[wpc EXCEPT ![w] = "asleep"], [wpc EXCEPT ![w] = "exited"]}
      BY <2>2 DEF Sleep, Exit, At, queueVars, dispatcherVars
    <3>2. ASSUME NEW q \in Queues
          PROVE  Awake(q)'
      <4>1. CASE q = WorkerQueue(w)
        BY <3>1, <4>1, EmptyIsAwake
      <4>2. CASE q # WorkerQueue(w)
        <5>1. \A v \in Workers : WorkerQueue(v) = q => wpc'[v] = wpc[v]
          BY <1>1, <3>1, <4>2 DEF PoolTypeOK
        <5> QED
          BY <1>1, <1>3, <3>1, <5>1, WakingKeeps
      <4> QED
        BY <4>1, <4>2
    <3> QED
      BY <1>1, <1>2, <1>3, <3>1, <3>2
  <2>3. CASE \/ GateLock(w) \/ GateUnlock(w) \/ Start(w) \/ HoldLock(w)
             \/ HoldUnlock(w) \/ End(w) \/ Count(w)
    <3>1. /\ UNCHANGED <<count, dpc, i>> /\ wpc[w] # "pop" /\ wpc'[w] # "asleep"
          /\ \A v \in Workers \ {w} : wpc'[v] = wpc[v]
      BY <1>1, <2>3 DEF GateLock, GateUnlock, Start, HoldLock, HoldUnlock, End,
             Count, At, PoolTypeOK, queueVars, dispatcherVars
    <3>2. \A q \in Queues : Awake(q)'
      BY <1>1, <1>3, <3>1, WakingKeeps
    <3> QED
      BY <1>1, <1>2, <1>3, <3>1, <3>2
  <2> QED
    BY <1>7, <2>1, <2>2, <2>3 DEF WorkerStep
<1>8. CASE WakeSpuriously
  <2>1. /\ UNCHANGED <<count, i>> /\ (dpc' = "full" => dpc = "full")
        /\ \A v \in Workers : wpc'[v] = wpc[v] \/ wpc'[v] = "pop"
    BY <1>1, <1>8 DEF WakeSpuriously, At, PoolTypeOK, queueVars
  <2> QED
    BY <1>1, <1>2, <1>3, <2>1, WakingKeeps
<1> QED
  BY <1>4, <1>5, <1>6, <1>7, <1>8 DEF DispatcherStep

-----------------------------------------------------------------------------
(***************************************************************************)
(* The invariant of every run                                              *)
(***************************************************************************)
\* Every step of the pool, of whatever thread, keeps the invariant.
THEOREM PoolStepInv == PoolInv /\ [Next]_vars => PoolInv'
<1> SUFFICES ASSUME PoolInv, [Next]_vars PROVE PoolInv'
  OBVIOUS
<1>1. CASE DispatcherStep
  BY <1>1, DispatchTypes, WakeupsKept DEF PoolInv
<1>2. CASE \E w \in Workers : WorkerStep(w)
  BY <1>2, WorkerTypes, WakeupsKept DEF PoolInv
<1>3. CASE WakeSpuriously
  BY <1>3, SpuriousTypes, WakeupsKept DEF PoolInv
<1>4. CASE UNCHANGED vars
  BY <1>4 DEF vars, queueVars, dispatcherVars, workerVars, PoolInv, PoolTypeOK,
              RingInv, HoldInv, NoLostWakeup, Asleep, Popping, WorkerQueue,
              QueueOf, Shard
<1> QED
  BY <1>1, <1>2, <1>3, <1>4 DEF Next, Returned

\* The rings, the gate and the condition variables are consistent in every
\* state of every run of the pool.
THEOREM PoolInvariant == Spec => []PoolInv
BY PoolInitInv, PoolStepInv, PTL DEF Spec

\* No wake-up is lost: tq_push and tq_pop signal under the mutex, each after
\* its own change (workload.c:114-120, 126-138).
THEOREM WakeupsAreNotLost == Spec => []NoLostWakeup
<1>1. PoolInv => NoLostWakeup
  BY DEF PoolInv
<1> QED
  BY <1>1, PoolInvariant, PTL

\* A holder task that has the gate stops every other worker after the task it
\* had already brought past it (workload.c:268-278).
THEOREM HoldsStop == Spec => HoldStopsThePool
<1> DEFINE Stops == \A w \in Workers :
               Start(w) /\ (\E h \in Workers : wpc[h] = "holding")
                   => w \notin sinceHold
<1>1. PoolInv => Stops
  BY DEF PoolInv, HoldInv, Start, At
<1>2. PoolInv /\ [Next]_vars => [Stops]_vars
  BY <1>1
<1> HIDE DEF Stops
<1>3. Spec => [][Stops]_vars
  BY <1>2, PoolInvariant, PTL DEF Spec
<1> QED
  BY <1>3 DEF HoldStopsThePool, Stops

-----------------------------------------------------------------------------
(***************************************************************************)
(* The rings implement bounded queues                                      *)
(***************************************************************************)
\* The refinement mapping: the queues, and what the workers hold.
AllContents == [q \in Queues |-> Contents(q)]
AllHolds    == [w \in Workers |-> Holds(w)]

LEMMA ContentsAreRings ==
    \A q : Contents(q) = Ring(slots[q], head[q], count[q])
BY DEF Contents, Ring, Slot

\* What is in a queue, and who holds what, depends on these variables only.
LEMMA ContentsStay ==
    ASSUME UNCHANGED <<slots, head, count>>
    PROVE  UNCHANGED AllContents
BY DEF AllContents, Contents

LEMMA HoldsStay ==
    ASSUME UNCHANGED task,
           \A w \in Workers : wpc'[w] = "exited" <=> wpc[w] = "exited"
    PROVE  UNCHANGED AllHolds
BY DEF AllHolds, Holds

LEMMA RingLength ==
    ASSUME NEW s \in [Slots -> Ids], NEW h \in Slots, NEW c \in 0 .. Capacity
    PROVE  /\ Len(Ring(s, h, c)) = c
           /\ c = 0 => Ring(s, h, c) = << >>
BY RingIsSeq, EmptySeq

LEMMA PushRefines ==
    ASSUME PoolInv, Push, NEW q \in Queues, q = QueueOf(i)
    PROVE  Queue!Push(q)
<1> DEFINE c == count[q]
           h == head[q]
<1>1. Wakes
  BY SignalsWake DEF PoolInv, Push
<1>2. Capacity \in Nat \ {0} /\ NTasks \in Nat
  BY PoolAssumption
<1>3. /\ slots[q] \in [Slots -> Ids] /\ h \in Slots
      /\ slots \in [Queues -> [Slots -> Ids]]
      /\ count \in [Queues -> 0 .. Capacity] /\ c \in 0 .. Capacity
  BY DEF PoolInv, PoolTypeOK
<1>4. c \in 0 .. Capacity - 1
  <2>1. c # Capacity
    BY DEF Push
  <2> QED
    BY <1>2, <1>3, <2>1
<1>5. i \in Tasks /\ i \in Ids /\ ~closed[q] /\ tail[q] = Slot(h + c)
  BY <1>2 DEF PoolInv, PoolTypeOK, RingInv, Push, Tasks, Ids
<1>6. /\ slots' = [slots EXCEPT ![q][Slot(h + c)] = i]
      /\ count' = [count EXCEPT ![q] = c + 1]
      /\ UNCHANGED <<head, closed, task>>
  BY <1>5 DEF Push
<1>7. Ring(slots'[q], head'[q], count'[q]) = Append(Ring(slots[q], h, c), i)
  <2>1. /\ slots'[q] = [slots[q] EXCEPT ![Slot(h + c)] = i]
        /\ count'[q] = c + 1 /\ head'[q] = h
    BY <1>3, <1>6
  <2> QED
    <3>1. slots[q] \in [Slots -> Ids] /\ h \in Slots
          /\ c \in 0 .. Capacity - 1 /\ i \in Ids
      BY <1>3, <1>4, <1>5
    <3> HIDE DEF c, h
    <3>2. Ring([slots[q] EXCEPT ![Slot(h + c)] = i], h, c + 1)
              = Append(Ring(slots[q], h, c), i)
      BY <3>1, RingPush
    <3> QED
      BY <2>1, <3>2
<1>8. Contents(q)' = Append(Contents(q), i)
  <2>1. Contents(q)' = Ring(slots'[q], head'[q], count'[q])
    BY DEF Contents, Ring, Slot
  <2> QED
    BY <1>7, <2>1, ContentsAreRings
<1>9. \A p \in Queues \ {q} : Contents(p)' = Contents(p)
  BY <1>3, <1>6 DEF Contents
<1>10. AllContents' = [AllContents EXCEPT ![q] = Append(@, i)]
  BY <1>8, <1>9 DEF AllContents
<1>11. Len(AllContents[q]) < Capacity
  <2>1. Len(Ring(slots[q], h, c)) = c
    <3>1. slots[q] \in [Slots -> Ids] /\ h \in Slots /\ c \in 0 .. Capacity
      BY <1>3
    <3> HIDE DEF c, h
    <3> QED
      BY <3>1, RingLength
  <2> QED
    BY <1>2, <1>4, <2>1, ContentsAreRings DEF AllContents
<1>12. UNCHANGED AllHolds
  BY <1>1, <1>6, HoldsStay DEF Wakes
<1> QED
  BY <1>5, <1>6, <1>10, <1>11, <1>12
     DEF Queue!Push, AllContents, AllHolds

LEMMA PopRefines ==
    ASSUME PoolInv, NEW w \in Workers, Pop(w),
           NEW q \in Queues, q = WorkerQueue(w)
    PROVE  Queue!Pop(q, w)
<1> DEFINE c == count[q]
           h == head[q]
<1>1. q \in Queues
  OBVIOUS
<1>2. Capacity \in Nat \ {0} /\ None \notin Tasks
  BY PoolAssumption
<1>3. /\ slots[q] \in [Slots -> Ids] /\ h \in Slots
      /\ head \in [Queues -> Slots] /\ count \in [Queues -> 0 .. Capacity]
      /\ wpc \in [Workers -> WorkerPCs]
      /\ task \in [Workers -> Tasks \cup {None}]
  BY <1>1 DEF PoolInv, PoolTypeOK
<1>4. c \in 1 .. Capacity
  BY <1>1, <1>2, <1>3 DEF Pop
<1>5. /\ wpc[w] = "pop" /\ wpc' = [wpc EXCEPT ![w] = "gate"]
      /\ task' = [task EXCEPT ![w] = slots[q][h]]
      /\ head' = [head EXCEPT ![q] = Slot(h + 1)]
      /\ count' = [count EXCEPT ![q] = c - 1]
      /\ UNCHANGED <<slots, closed>>
  BY DEF Pop, At, Slot
<1>6. task[w] = None
  BY <1>5 DEF PoolInv, RingInv
<1>7. /\ Contents(q) # << >> /\ Head(Contents(q)) = slots[q][h]
      /\ Ring(slots[q], Slot(h + 1), c - 1) = Tail(Contents(q))
  BY <1>3, <1>4, RingPop, ContentsAreRings
<1>8. Contents(q)' = Tail(Contents(q))
  <2>1. Contents(q)' = Ring(slots'[q], head'[q], count'[q])
    BY DEF Contents, Ring, Slot
  <2>2. slots'[q] = slots[q] /\ head'[q] = Slot(h + 1) /\ count'[q] = c - 1
    BY <1>1, <1>3, <1>5
  <2> QED
    BY <1>7, <2>1, <2>2
<1>9. \A p \in Queues \ {q} : Contents(p)' = Contents(p)
  BY <1>3, <1>5 DEF Contents
<1>10. AllContents' = [AllContents EXCEPT ![q] = Tail(@)]
  BY <1>1, <1>8, <1>9 DEF AllContents
<1>11. AllHolds' = [AllHolds EXCEPT ![w] = Head(AllContents[q])]
  BY <1>1, <1>3, <1>5, <1>7 DEF AllHolds, AllContents, Holds
<1>12. AllHolds[w] = None
  BY <1>5, <1>6 DEF AllHolds, Holds
<1>13. AllContents[q] # << >>
  BY <1>1, <1>7 DEF AllContents
<1> QED
  BY <1>1, <1>5, <1>10, <1>11, <1>12, <1>13
     DEF Queue!Pop, AllContents, AllHolds

LEMMA ExitRefines ==
    ASSUME PoolInv, NEW w \in Workers, Exit(w),
           NEW q \in Queues, q = WorkerQueue(w)
    PROVE  Queue!PopNothing(q, w)
<1>1. q \in Queues
  OBVIOUS
<1>2. /\ count[q] = 0 /\ closed[q] /\ wpc[w] = "pop"
      /\ wpc' = [wpc EXCEPT ![w] = "exited"]
      /\ UNCHANGED <<slots, head, count, closed, task>>
  BY DEF Exit, At, queueVars
<1>3. /\ slots[q] \in [Slots -> Ids] /\ head[q] \in Slots
      /\ wpc \in [Workers -> WorkerPCs] /\ count[q] \in 0 .. Capacity
  BY <1>1 DEF PoolInv, PoolTypeOK
<1>4. AllContents[q] = << >>
  <2>1. Ring(slots[q], head[q], count[q]) = << >>
    BY <1>2, <1>3, RingLength
  <2> QED
    BY <1>1, <2>1, ContentsAreRings DEF AllContents
<1>5. AllHolds[w] = None
  BY <1>2 DEF AllHolds, Holds, PoolInv, RingInv
<1>6. AllHolds' = [AllHolds EXCEPT ![w] = -1]
  BY <1>2, <1>3 DEF AllHolds, Holds
<1>7. UNCHANGED AllContents
  BY <1>2, ContentsStay
<1> QED
  BY <1>1, <1>2, <1>4, <1>5, <1>6, <1>7
     DEF Queue!PopNothing, AllContents, AllHolds

LEMMA CountRefines ==
    ASSUME PoolInv, NEW w \in Workers, Count(w)
    PROVE  Queue!Finish(w)
<1>1. /\ wpc[w] = "count" /\ wpc' = [wpc EXCEPT ![w] = "pop"]
      /\ task' = [task EXCEPT ![w] = None]
      /\ UNCHANGED <<slots, head, count, closed>>
  BY DEF Count, At, queueVars
<1>2. wpc \in [Workers -> WorkerPCs] /\ task \in [Workers -> Tasks \cup {None}]
  BY DEF PoolInv, PoolTypeOK
<1>3. task[w] \in Tasks
  BY <1>1, <1>2 DEF PoolInv, RingInv
<1>4. AllHolds[w] \in Tasks
  BY <1>1, <1>3 DEF AllHolds, Holds
<1>5. AllHolds' = [AllHolds EXCEPT ![w] = None]
  BY <1>1, <1>2 DEF AllHolds, Holds
<1>6. UNCHANGED AllContents
  BY <1>1, ContentsStay
<1> QED
  BY <1>1, <1>4, <1>5, <1>6 DEF Queue!Finish, AllContents, AllHolds

LEMMA CloseRefines ==
    ASSUME PoolInv, CloseFirst \/ CloseSecond
    PROVE  \E q \in Queues : Queue!Close(q)
<1>1. PICK q \in Queues : BroadcastNotEmpty(q) /\ closed' = [closed EXCEPT ![q] = TRUE]
  BY DEF CloseFirst, CloseSecond, Close, Queues
<1>2. Wakes
  BY <1>1, SignalsWake DEF PoolInv
<1>3. UNCHANGED <<slots, head, count, task>>
  BY DEF CloseFirst, CloseSecond, Close
<1>4. UNCHANGED AllHolds /\ UNCHANGED AllContents
  BY <1>2, <1>3, HoldsStay, ContentsStay DEF Wakes
<1> QED
  BY <1>1, <1>4 DEF Queue!Close, AllContents, AllHolds

\* Steps that neither the queues nor what the workers hold shows.
LEMMA OthersStutter ==
    ASSUME PoolInv,
           \/ Release \/ WaitNotFull \/ Join \/ WakeSpuriously \/ UNCHANGED vars
           \/ \E w \in Workers :
                 \/ Sleep(w) \/ GateLock(w) \/ GateUnlock(w) \/ Start(w)
                 \/ HoldLock(w) \/ HoldUnlock(w) \/ End(w)
    PROVE  UNCHANGED Queue!vars
<1>1. UNCHANGED <<slots, head, count, closed, task>>
  BY DEF Release, WaitNotFull, Join, WakeSpuriously, vars, Sleep, GateLock,
         GateUnlock, Start, HoldLock, HoldUnlock, End, queueVars, workerVars
<1>2. \A w \in Workers : wpc'[w] = "exited" <=> wpc[w] = "exited"
  <2>1. wpc \in [Workers -> WorkerPCs]
    BY DEF PoolInv, PoolTypeOK
  <2>2. CASE Release \/ WaitNotFull \/ Join \/ WakeSpuriously \/ UNCHANGED vars
    BY <2>1, <2>2 DEF Release, WaitNotFull, Join, WakeSpuriously, vars, At, workerVars
  <2>3. ASSUME NEW w \in Workers,
               \/ Sleep(w) \/ GateLock(w) \/ GateUnlock(w) \/ Start(w)
               \/ HoldLock(w) \/ HoldUnlock(w) \/ End(w)
        PROVE  \A v \in Workers : wpc'[v] = "exited" <=> wpc[v] = "exited"
    BY <2>1, <2>3 DEF Sleep, GateLock, GateUnlock, Start, HoldLock, HoldUnlock,
                      End, At
  <2> QED
    BY <2>2, <2>3
<1> QED
  BY <1>1, <1>2, HoldsStay, ContentsStay DEF Queue!vars, AllContents, AllHolds

LEMMA StepsRefine == PoolInv /\ [Next]_vars => [Queue!Next]_(Queue!vars)
<1> SUFFICES ASSUME PoolInv, [Next]_vars
             PROVE  Queue!Next \/ UNCHANGED Queue!vars
  OBVIOUS
<1>1. CASE \/ Release \/ WaitNotFull \/ Join \/ WakeSpuriously \/ UNCHANGED vars
  BY <1>1, OthersStutter
<1>2. CASE Push
  BY <1>2, PushRefines, QueuesAreTwo DEF Queue!Next
<1>3. CASE CloseFirst \/ CloseSecond
  BY <1>3, CloseRefines DEF Queue!Next
<1>4. ASSUME NEW w \in Workers, WorkerStep(w)
      PROVE  Queue!Next \/ UNCHANGED Queue!vars
  <2>1. CASE Pop(w)
    BY <2>1, PopRefines, QueuesAreTwo DEF Queue!Next
  <2>2. CASE Exit(w)
    BY <2>2, ExitRefines, QueuesAreTwo DEF Queue!Next
  <2>3. CASE Count(w)
    BY <2>3, CountRefines DEF Queue!Next
  <2>4. CASE \/ Sleep(w) \/ GateLock(w) \/ GateUnlock(w) \/ Start(w)
             \/ HoldLock(w) \/ HoldUnlock(w) \/ End(w)
    BY <2>4, OthersStutter
  <2> QED
    BY <1>4, <2>1, <2>2, <2>3, <2>4 DEF WorkerStep
<1> QED
  BY <1>1, <1>2, <1>3, <1>4 DEF Next, DispatcherStep, Returned

LEMMA StartsRefine == Init => Queue!Init
<1> SUFFICES ASSUME Init PROVE Queue!Init
  OBVIOUS
<1>1. \A q \in Queues : Contents(q) = << >>
  <2> TAKE q \in Queues
  <2>1. 0 \in 0 .. Capacity /\ 0 \in Slots
    BY PoolAssumption DEF Slots
  <2>2. /\ slots[q] \in [Slots -> Ids] /\ head[q] = 0 /\ count[q] = 0
    BY DEF Init, Slots, Ids
  <2> QED
    <3>1. Ring(slots[q], 0, 0) = << >>
      BY <2>1, <2>2, RingLength
    <3> QED
      BY <2>2, <3>1, ContentsAreRings
<1>2. \A w \in Workers : Holds(w) = None
  BY DEF Init, Holds
<1> QED
  BY <1>1, <1>2 DEF Init, Queue!Init

\* tq_push, tq_pop and tq_close implement bounded FIFO queues; a pop that says
\* -1 says so of a queue that is closed and drained (workload.c:106-149).
THEOREM RingsAreQueues == Spec => ImplementsBoundedQueue
BY PoolInvariant, StartsRefine, StepsRefine, PTL
   DEF Spec, ImplementsBoundedQueue, Queue!Spec

-----------------------------------------------------------------------------
(***************************************************************************)
(* The tasks: each is in one place at a time, and none is lost.            *)
(***************************************************************************)
Stamps == {"stale", "ready", "started", "ended"}

\* The task that is j-th in a queue.
Item(q, j) == slots[q][Slot(head[q] + j - 1)]

\* The tasks that are in nobody's hands any more.
Done == {k \in Tasks : rec[k] = "ended" /\ \A w \in Workers : task[w] # k}

-----------------------------------------------------------------------------
(***************************************************************************)
(* The invariant                                                           *)
(***************************************************************************)
\* What is in a queue has been released, belongs there and is in order.
QueuedInv ==
    \A q \in Queues :
        /\ \A j \in 1 .. count[q] :
              /\ Item(q, j) \in Tasks /\ Item(q, j) < i
              /\ rec[Item(q, j)] = "ready" /\ QueueOf(Item(q, j)) = q
        /\ \A j, l \in 1 .. count[q] : j < l => Item(q, j) < Item(q, l)

\* What a worker has was in its queue, before all that is there now; its
\* stamps follow the worker.
HeldInv ==
    \A w \in Workers : task[w] # None =>
        /\ task[w] < i /\ QueueOf(task[w]) = WorkerQueue(w)
        /\ \A j \in 1 .. count[WorkerQueue(w)] : task[w] < Item(WorkerQueue(w), j)
        /\ wpc[w] \in {"gate", "gated", "start"} => rec[task[w]] = "ready"
        /\ wpc[w] \in {"hold", "holding", "work"} => rec[task[w]] = "started"
        /\ wpc[w] = "count" => rec[task[w]] = "ended"

\* No two workers have the same task.
HeldOnce ==
    \A v, w \in Workers : v # w /\ task[v] # None => task[v] # task[w]

\* What has been pushed is in a queue, with a worker, or ended.
FoundInv ==
    \A k \in Tasks : k < i =>
        \/ \E q \in Queues : \E j \in 1 .. count[q] : Item(q, j) = k
        \/ \E w \in Workers : task[w] = k
        \/ rec[k] = "ended"

\* What has not been pushed has not been touched, the next task excepted.
ReleasedInv ==
    \A k \in Tasks : k >= i =>
        rec[k] = IF k = i /\ dpc \in {"push", "full"} THEN "ready" ELSE "stale"

\* Nobody leaves before there is nothing left to do.
LeavingInv ==
    /\ dpc \in {"close", "join", "returned"} => i = NTasks
    /\ \A w \in Workers : wpc[w] = "exited" =>
          count[WorkerQueue(w)] = 0 /\ closed[WorkerQueue(w)]
    /\ dpc = "returned" => \A w \in Workers : wpc[w] = "exited"

TaskInv ==
    /\ rec \in [Tasks -> Stamps]
    /\ QueuedInv /\ HeldInv /\ HeldOnce /\ FoundInv /\ ReleasedInv
    /\ LeavingInv
    /\ completed = Cardinality(Done)

\* The tasks are finitely many.
LEMMA DoneIsFinite == IsFiniteSet(Done) /\ Cardinality(Done) \in Nat
<1>1. IsFiniteSet(Tasks)
  BY FS_Interval, PoolAssumption DEF Tasks
<1>2. Done \subseteq Tasks
  BY DEF Done
<1> QED
  BY <1>1, <1>2, FS_Subset, FS_CardinalityType

\* wl_run's start: nothing is anywhere.
LEMMA TaskInitInv == Init => TaskInv
<1> SUFFICES ASSUME Init PROVE TaskInv
  OBVIOUS
<1>1. NTasks \in Nat /\ None \notin Tasks
  BY PoolAssumption
<1>2. rec \in [Tasks -> Stamps] /\ QueuedInv /\ HeldInv /\ HeldOnce
  BY DEF Init, Stamps, QueuedInv, HeldInv, HeldOnce
<1>3. FoundInv /\ ReleasedInv /\ LeavingInv
  BY <1>1 DEF Init, FoundInv, ReleasedInv, LeavingInv, Tasks
<1>4. Done = {} /\ completed = 0
  BY DEF Init, Done
<1> QED
  BY <1>2, <1>3, <1>4, FS_EmptySet DEF TaskInv

-----------------------------------------------------------------------------
(***************************************************************************)
(* The steps                                                               *)
(***************************************************************************)
\* What a push leaves of a ring: all that was there, and the task at the end.
LEMMA PushItems ==
    ASSUME PoolInv, Push, NEW q \in Queues, q = QueueOf(i)
    PROVE  /\ count'[q] = count[q] + 1
           /\ \A j : j = count[q] + 1 => Item(q, j)' = i
           /\ \A j \in 1 .. count[q] : Item(q, j)' = Item(q, j)
           /\ \A p \in Queues \ {q} : /\ count'[p] = count[p]
                                       /\ \A j : Item(p, j)' = Item(p, j)
<1> DEFINE c == count[q]
           h == head[q]
<1>1. Capacity \in Nat \ {0}
  BY PoolAssumption
<1>2. /\ h \in Slots /\ c \in 0 .. Capacity
      /\ slots \in [Queues -> [Slots -> Ids]] /\ count \in [Queues -> 0 .. Capacity]
      /\ tail[q] = Slot(h + c)
  BY DEF PoolInv, PoolTypeOK, RingInv
<1>3. c # Capacity /\ UNCHANGED head
      /\ slots' = [slots EXCEPT ![q][Slot(h + c)] = i]
      /\ count' = [count EXCEPT ![q] = c + 1]
  BY <1>2 DEF Push
<1>4. c \in 0 .. Capacity - 1 /\ Slot(h + c) \in Slots
  <2>1. c \in 0 .. Capacity - 1
    BY <1>1, <1>2, <1>3
  <2>2. Slot(h + c) \in Slots
    BY <1>2, SlotsMove
  <2> QED
    BY <2>1, <2>2
<1>5. ASSUME NEW j \in 1 .. c
      PROVE  Slot(h + j - 1) \in Slots /\ Slot(h + j - 1) # Slot(h + c)
  <2>1. h + j - 1 \in 0 .. 2 * Capacity - 1 /\ h + c \in 0 .. 2 * Capacity - 1
    BY <1>1, <1>2, <1>4 DEF Slots
  <2> QED
    BY <1>1, <1>2, <1>4, <2>1, Modulus, SMTT(60) DEF Slots
<1>6. count'[q] = c + 1 /\ slots'[q] = [slots[q] EXCEPT ![Slot(h + c)] = i]
  BY <1>2, <1>3
<1>7. ASSUME NEW j, j = c + 1
      PROVE  Item(q, j)' = i
  <2>1. h + j - 1 = h + c
    BY <1>1, <1>2, <1>7 DEF Slots
  <2>2. Slot(h + j - 1) = Slot(h + c)
    BY <2>1
  <2>3. slots[q] \in [Slots -> Ids]
    BY <1>2
  <2>4. slots'[q][Slot(h + c)] = i
    BY <1>4, <1>6, <2>3
  <2>5. Item(q, j)' = slots'[q][Slot(h + j - 1)]
    BY <1>3 DEF Item
  <2> QED
    BY <2>2, <2>4, <2>5
<1>8. \A j \in 1 .. c : Item(q, j)' = Item(q, j)
  BY <1>2, <1>3, <1>5, <1>6 DEF Item
<1>9. \A p \in Queues \ {q} : /\ count'[p] = count[p]
                              /\ \A j : Item(p, j)' = Item(p, j)
  BY <1>2, <1>3 DEF Item
<1> QED
  BY <1>6, <1>7, <1>8, <1>9

\* What a pop leaves: all but the first, one place further on.
LEMMA PopItems ==
    ASSUME PoolInv, NEW w \in Workers, Pop(w),
           NEW q \in Queues, q = WorkerQueue(w)
    PROVE  /\ count[q] # 0 /\ count'[q] = count[q] - 1
           /\ task' = [task EXCEPT ![w] = Item(q, 1)]
           /\ \A j \in 1 .. count[q] - 1 : Item(q, j)' = Item(q, j + 1)
           /\ \A p \in Queues \ {q} : /\ count'[p] = count[p]
                                       /\ \A j : Item(p, j)' = Item(p, j)
<1> DEFINE c == count[q]
           h == head[q]
           g == Slot(h + 1)
<1>1. Capacity \in Nat \ {0}
  BY PoolAssumption
<1>2. /\ h \in Slots /\ c \in 0 .. Capacity
      /\ head \in [Queues -> Slots] /\ count \in [Queues -> 0 .. Capacity]
  BY DEF PoolInv, PoolTypeOK
<1>3. /\ c # 0 /\ UNCHANGED slots
      /\ head' = [head EXCEPT ![q] = g]
      /\ count' = [count EXCEPT ![q] = c - 1]
      /\ task' = [task EXCEPT ![w] = slots[q][h]]
  BY DEF Pop, Slot
<1>4. Slot(h) = h /\ g \in Slots
  BY <1>1, <1>2, SlotsMove
<1>5. Item(q, 1) = slots[q][h]
  <2>1. h + 1 - 1 = h
    BY <1>1, <1>2 DEF Slots
  <2> QED
    BY <1>4, <2>1 DEF Item
<1>6. ASSUME NEW j \in 1 .. c - 1
      PROVE  Slot(g + j - 1) = Slot(h + (j + 1) - 1)
  <2>1. /\ h + 1 \in 0 .. 2 * Capacity - 1 /\ g + j - 1 \in 0 .. 2 * Capacity - 1
        /\ h + (j + 1) - 1 \in 0 .. 2 * Capacity - 1
    BY <1>1, <1>2, <1>4 DEF Slots
  <2> QED
    BY <1>1, <1>2, <2>1, Modulus DEF Slots
<1>7. head'[q] = g /\ count'[q] = c - 1
  BY <1>2, <1>3
<1>8. \A j \in 1 .. c - 1 : Item(q, j)' = Item(q, j + 1)
  BY <1>3, <1>6, <1>7 DEF Item
<1>9. \A p \in Queues \ {q} : /\ count'[p] = count[p]
                              /\ \A j : Item(p, j)' = Item(p, j)
  BY <1>2, <1>3 DEF Item
<1> QED
  BY <1>3, <1>5, <1>7, <1>8, <1>9

\* Which queue a task or a worker has never changes.
LEMMA QueuesStay ==
    ASSUME UNCHANGED path
    PROVE  /\ \A k : QueueOf(k)' = QueueOf(k)
           /\ \A w : WorkerQueue(w)' = WorkerQueue(w)
BY DEF QueueOf, WorkerQueue, Shard

\* Steps that touch no task, no record and no ring.
LEMMA QuietSteps ==
    ASSUME PoolInv, TaskInv,
           UNCHANGED <<path, slots, head, count, rec, i, task, completed>>,
           dpc' \in {"push", "full"} <=> dpc \in {"push", "full"},
           \A w \in Workers :
               task[w] # None /\ wpc'[w] # wpc[w]
                   => {wpc[w], wpc'[w]} \subseteq {"gate", "gated", "start"}
                      \/ {wpc[w], wpc'[w]} \subseteq {"hold", "holding", "work"},
           LeavingInv'
    PROVE  TaskInv'
<1>1. /\ \A k : QueueOf(k)' = QueueOf(k)
      /\ \A w : WorkerQueue(w)' = WorkerQueue(w)
      /\ \A q, j : Item(q, j)' = Item(q, j)
  BY QueuesStay DEF Item
<1>2. QueuedInv'
  BY <1>1 DEF TaskInv, QueuedInv
<1>3. HeldInv'
  BY <1>1 DEF TaskInv, HeldInv
<1>4. HeldOnce' /\ FoundInv'
  BY <1>1 DEF TaskInv, HeldOnce, FoundInv
<1>5. ReleasedInv'
  BY DEF TaskInv, ReleasedInv
<1>6. completed' = Cardinality(Done')
  BY DEF TaskInv, Done
<1> QED
  BY <1>2, <1>3, <1>4, <1>5, <1>6 DEF TaskInv

LEMMA ReleaseTasks ==
    ASSUME PoolInv, TaskInv, Release
    PROVE  TaskInv'
<1>1. NTasks \in Nat
  BY PoolAssumption
<1>2. /\ dpc = "loop" /\ dpc' = "push" /\ rec' = [rec EXCEPT ![i] = "ready"]
      /\ UNCHANGED <<path, slots, head, count, closed, i, task, wpc, completed>>
  BY DEF Release, queueVars, workerVars
<1>3. i < NTasks /\ i \in Tasks /\ i \in Int
  <2>1. i < NTasks
    BY <1>1, PeriodAssumption DEF Release, PoolInv, PoolTypeOK
  <2> QED
    BY <1>1, <2>1 DEF PoolInv, PoolTypeOK, Tasks
<1>4. /\ \A k : QueueOf(k)' = QueueOf(k)
      /\ \A w : WorkerQueue(w)' = WorkerQueue(w)
      /\ \A q, j : Item(q, j)' = Item(q, j)
  BY <1>2, QueuesStay DEF Item
<1>5. rec' \in [Tasks -> Stamps] /\ rec \in [Tasks -> Stamps]
      /\ \A k \in Tasks \ {i} : rec'[k] = rec[k]
  BY <1>2, <1>3 DEF TaskInv, Stamps
<1>6. QueuedInv'
  BY <1>2, <1>3, <1>4, <1>5 DEF TaskInv, QueuedInv
<1>7. HeldInv'
  <2>1. \A w \in Workers : task[w] # None => task[w] \in Tasks /\ task[w] # i
    BY <1>3 DEF TaskInv, HeldInv, PoolInv, PoolTypeOK
  <2> QED
    BY <1>2, <1>4, <1>5, <2>1 DEF TaskInv, HeldInv
<1>8. HeldOnce'
  BY <1>2 DEF TaskInv, HeldOnce
<1>9. FoundInv'
  BY <1>2, <1>3, <1>4, <1>5 DEF TaskInv, FoundInv, Tasks
<1>10. ReleasedInv'
  BY <1>2, <1>3, <1>5 DEF TaskInv, ReleasedInv
<1>11. LeavingInv'
  BY <1>2, <1>4 DEF TaskInv, LeavingInv
<1>12. completed' = Cardinality(Done')
  <2>1. rec[i] # "ended" /\ rec'[i] # "ended"
    BY <1>2, <1>3, <1>5 DEF TaskInv, ReleasedInv
  <2>2. Done' = Done
    BY <1>2, <1>5, <2>1 DEF Done
  <2> QED
    BY <1>2, <2>2 DEF TaskInv
<1> QED
  BY <1>5, <1>6, <1>7, <1>8, <1>9, <1>10, <1>11, <1>12 DEF TaskInv

LEMMA PushTasks ==
    ASSUME PoolInv, TaskInv, Push
    PROVE  TaskInv'
<1>1. PICK q \in Queues : q = QueueOf(i)
  BY QueuesAreTwo
<1>2. /\ dpc = "push" /\ dpc' = "loop" /\ i' = i + 1
      /\ UNCHANGED <<path, closed, rec, task, completed>>
  BY DEF Push
<1>3. i < NTasks /\ i \in Tasks /\ i \in Int /\ rec[i] = "ready" /\ ~closed[q]
  <2>1. i < NTasks /\ ~closed[q]
    BY <1>1, <1>2 DEF PoolInv, RingInv
  <2>2. i \in Tasks
    BY <2>1, PoolAssumption DEF PoolInv, PoolTypeOK, Tasks
  <2> QED
    BY <1>2, <2>1, <2>2 DEF TaskInv, ReleasedInv, Tasks
<1>4. /\ \A k : QueueOf(k)' = QueueOf(k)
      /\ \A w : WorkerQueue(w)' = WorkerQueue(w)
  BY <1>2, QueuesStay
<1>5. /\ count'[q] = count[q] + 1 /\ count[q] \in Nat
      /\ \A j : j = count[q] + 1 => Item(q, j)' = i
      /\ \A j \in 1 .. count[q] : Item(q, j)' = Item(q, j)
      /\ \A p \in Queues \ {q} : /\ count'[p] = count[p]
                                  /\ \A j : Item(p, j)' = Item(p, j)
  <2>1. count[q] \in Nat
    BY PoolAssumption DEF PoolInv, PoolTypeOK
  <2> QED
    BY <1>1, <2>1, PushItems
<1>6. \A w \in Workers : wpc'[w] = wpc[w] \/ (wpc[w] = "asleep" /\ wpc'[w] = "pop")
  BY SignalsWake DEF Push, PoolInv, Wakes
<1>7. QueuedInv'
  <2>1. ASSUME NEW p \in Queues, NEW j \in 1 .. count'[p]
        PROVE  /\ Item(p, j)' \in Tasks /\ Item(p, j)' < i + 1
               /\ rec[Item(p, j)'] = "ready" /\ QueueOf(Item(p, j)') = p
    <3>1. CASE p # q \/ j <= count[q]
      <4>1. j \in 1 .. count[p] /\ Item(p, j)' = Item(p, j)
        BY <1>5, <3>1
      <4>2. Item(p, j) \in Tasks /\ Item(p, j) < i /\ Item(p, j) \in Int
            /\ rec[Item(p, j)] = "ready" /\ QueueOf(Item(p, j)) = p
        BY <4>1 DEF TaskInv, QueuedInv, Tasks
      <4> QED
        BY <1>3, <4>1, <4>2
    <3>2. CASE p = q /\ j > count[q]
      <4>1. Item(p, j)' = i
        BY <1>5, <3>2
      <4> QED
        BY <1>1, <1>3, <3>2, <4>1
    <3> QED
      BY <1>5, <3>1, <3>2
  <2>2. ASSUME NEW p \in Queues, NEW j \in 1 .. count'[p], NEW l \in 1 .. count'[p], j < l
        PROVE  Item(p, j)' < Item(p, l)'
    <3>1. CASE p # q \/ l <= count[q]
      <4>1. /\ j \in 1 .. count[p] /\ l \in 1 .. count[p]
            /\ Item(p, j)' = Item(p, j) /\ Item(p, l)' = Item(p, l)
        BY <1>5, <2>2, <3>1
      <4> QED
        BY <2>2, <4>1 DEF TaskInv, QueuedInv
    <3>2. CASE p = q /\ l > count[q]
      <4>1. Item(p, l)' = i /\ j \in 1 .. count[q] /\ Item(p, j)' = Item(p, j)
        BY <1>5, <2>2, <3>2
      <4>2. Item(p, j) < i
        BY <3>2, <4>1 DEF TaskInv, QueuedInv
      <4> QED
        BY <4>1, <4>2
    <3> QED
      BY <1>5, <3>1, <3>2
  <2>3. \A p \in Queues : \A j : QueueOf(Item(p, j)') = QueueOf(Item(p, j))'
    BY <1>4
  <2> QED
    BY <1>2, <2>1, <2>2, <2>3 DEF QueuedInv
<1>8. HeldInv'
  <2> SUFFICES ASSUME NEW w \in Workers, task'[w] # None
               PROVE  /\ task'[w] < i' /\ QueueOf(task'[w]) = WorkerQueue(w)
                      /\ \A j \in 1 .. count'[WorkerQueue(w)] :
                            task'[w] < Item(WorkerQueue(w), j)'
                      /\ wpc'[w] \in {"gate", "gated", "start"} => rec'[task'[w]] = "ready"
                      /\ wpc'[w] \in {"hold", "holding", "work"} => rec'[task'[w]] = "started"
                      /\ wpc'[w] = "count" => rec'[task'[w]] = "ended"
    BY <1>4 DEF HeldInv
  <2>1. PICK p \in Queues : p = WorkerQueue(w)
    BY QueuesAreTwo
  <2>2. /\ task[w] < i /\ QueueOf(task[w]) = p /\ task[w] \in Int
        /\ \A j \in 1 .. count[p] : task[w] < Item(p, j)
        /\ wpc[w] \in {"gate", "gated", "start"} => rec[task[w]] = "ready"
        /\ wpc[w] \in {"hold", "holding", "work"} => rec[task[w]] = "started"
        /\ wpc[w] = "count" => rec[task[w]] = "ended"
    BY <1>2, <2>1 DEF TaskInv, HeldInv, PoolInv, PoolTypeOK, Tasks
  <2>3. ASSUME NEW j \in 1 .. count'[p]
        PROVE  task[w] < Item(p, j)'
    <3>1. CASE p # q \/ j <= count[q]
      BY <1>5, <2>2, <3>1
    <3>2. CASE p = q /\ j > count[q]
      BY <1>5, <2>2, <3>2
    <3> QED
      BY <1>5, <3>1, <3>2
  <2>4. WorkerQueue(w)' = p
    BY <1>4, <2>1
  <2>5. \A j \in 1 .. count'[WorkerQueue(w)] : task'[w] < Item(WorkerQueue(w), j)'
    BY <1>2, <2>1, <2>3, <2>4
  <2>6. task'[w] < i' /\ QueueOf(task'[w]) = WorkerQueue(w)
    BY <1>2, <1>3, <2>1, <2>2
  <2> QED
    BY <1>2, <1>6, <2>2, <2>5, <2>6
<1>9. HeldOnce'
  BY <1>2 DEF TaskInv, HeldOnce
<1>10. FoundInv'
  <2> SUFFICES ASSUME NEW k \in Tasks, k < i + 1
               PROVE  \/ \E p \in Queues : \E j \in 1 .. count'[p] : Item(p, j)' = k
                      \/ \E w \in Workers : task'[w] = k
                      \/ rec'[k] = "ended"
    BY <1>2 DEF FoundInv
  <2>1. CASE k = i
    <3>1. count[q] + 1 \in 1 .. count'[q]
      BY <1>5
    <3> QED
      BY <1>5, <2>1, <3>1
  <2>2. CASE k # i
    <3>1. k < i
      BY <1>3, <2>2 DEF Tasks
    <3>2. \A p \in Queues : \A j \in 1 .. count[p] :
             j \in 1 .. count'[p] /\ Item(p, j)' = Item(p, j)
      BY <1>5
    <3> QED
      BY <1>2, <3>1, <3>2 DEF TaskInv, FoundInv
  <2> QED
    BY <2>1, <2>2
<1>11. ReleasedInv'
  <2>1. \A k \in Tasks : k >= i + 1 => k >= i /\ k # i
    BY <1>3 DEF Tasks
  <2> QED
    BY <1>2, <2>1 DEF TaskInv, ReleasedInv
<1>12. LeavingInv'
  <2>1. ASSUME NEW w \in Workers, wpc'[w] = "exited"
        PROVE  count'[WorkerQueue(w)] = 0 /\ closed[WorkerQueue(w)]
    <3>1. wpc[w] = "exited"
      BY <1>6, <2>1
    <3>2. count[WorkerQueue(w)] = 0 /\ closed[WorkerQueue(w)]
      BY <3>1 DEF TaskInv, LeavingInv
    <3>3. WorkerQueue(w) \in Queues \ {q}
      BY <1>3, <3>2, QueuesAreTwo
    <3> QED
      BY <1>5, <3>2, <3>3
  <2>2. \A w : count[WorkerQueue(w)]' = count'[WorkerQueue(w)]
    BY <1>4
  <2> QED
    BY <1>2, <1>4, <2>1, <2>2 DEF LeavingInv
<1>13. completed' = Cardinality(Done')
  BY <1>2 DEF TaskInv, Done
<1> QED
  BY <1>2, <1>7, <1>8, <1>9, <1>10, <1>11, <1>12, <1>13 DEF TaskInv

LEMMA PopTasks ==
    ASSUME PoolInv, TaskInv, NEW w \in Workers, Pop(w)
    PROVE  TaskInv'
<1>1. PICK q \in Queues : q = WorkerQueue(w)
  BY QueuesAreTwo
<1> DEFINE k == Item(q, 1)
<1>2. /\ wpc[w] = "pop" /\ wpc' = [wpc EXCEPT ![w] = "gate"]
      /\ dpc' = (IF dpc = "full" /\ QueueOf(i) = q THEN "push" ELSE dpc)
      /\ UNCHANGED <<path, closed, rec, i, completed>>
  BY <1>1 DEF Pop, At, SignalNotFull
<1>3. /\ \A n : QueueOf(n)' = QueueOf(n)
      /\ \A v : WorkerQueue(v)' = WorkerQueue(v)
  BY <1>2, QueuesStay
<1>4. /\ count[q] \in Nat \ {0} /\ count'[q] = count[q] - 1
      /\ task' = [task EXCEPT ![w] = k]
      /\ \A j \in 1 .. count[q] - 1 : Item(q, j)' = Item(q, j + 1)
      /\ \A p \in Queues \ {q} : /\ count'[p] = count[p]
                                  /\ \A j : Item(p, j)' = Item(p, j)
  <2>1. count[q] \in Nat
    BY PoolAssumption DEF PoolInv, PoolTypeOK
  <2> QED
    BY <1>1, <2>1, PopItems
<1>5. /\ k \in Tasks /\ k < i /\ rec[k] = "ready" /\ QueueOf(k) = q
      /\ \A j \in 2 .. count[q] : k < Item(q, j)
  <2>1. 1 \in 1 .. count[q] /\ \A j \in 2 .. count[q] : j \in 1 .. count[q] /\ 1 < j
    BY <1>4
  <2> QED
    BY <2>1 DEF TaskInv, QueuedInv
<1>6. /\ task[w] = None /\ k # None
      /\ \A v \in Workers \ {w} : task[v] # None =>
            task[v] \in Tasks /\ task[v] # k
  <2>1. task[w] = None /\ k # None
    BY <1>2, <1>5, PoolAssumption DEF PoolInv, RingInv
  <2>2. ASSUME NEW v \in Workers \ {w}, task[v] # None
        PROVE  task[v] \in Tasks /\ task[v] # k
    <3>1. task[v] \in Tasks /\ QueueOf(task[v]) = WorkerQueue(v)
          /\ \A j \in 1 .. count[WorkerQueue(v)] : task[v] < Item(WorkerQueue(v), j)
      BY <2>2 DEF TaskInv, HeldInv, PoolInv, PoolTypeOK
    <3>2. CASE WorkerQueue(v) = q
      <4>1. task[v] < k
        BY <1>4, <3>1, <3>2
      <4> QED
        BY <1>5, <3>1, <4>1 DEF Tasks
    <3>3. CASE WorkerQueue(v) # q
      BY <1>5, <3>1, <3>3
    <3> QED
      BY <3>2, <3>3
  <2> QED
    BY <2>1, <2>2
<1> HIDE DEF k
<1>7. /\ task'[w] = k /\ wpc'[w] = "gate"
      /\ \A v \in Workers \ {w} : task'[v] = task[v] /\ wpc'[v] = wpc[v]
  BY <1>2, <1>4 DEF PoolInv, PoolTypeOK
<1>8. \A j \in 1 .. count'[q] : /\ j + 1 \in 2 .. count[q]
                             /\ Item(q, j)' = Item(q, j + 1)
  <2> TAKE j \in 1 .. count'[q]
  <2>1. j \in 1 .. count[q] - 1 /\ j + 1 \in 2 .. count[q]
    BY <1>4
  <2> QED
    BY <1>4, <2>1
<1>9. QueuedInv'
  <2>1. ASSUME NEW p \in Queues, NEW j \in 1 .. count'[p]
        PROVE  /\ Item(p, j)' \in Tasks /\ Item(p, j)' < i
               /\ rec[Item(p, j)'] = "ready" /\ QueueOf(Item(p, j)') = p
    <3>1. CASE p = q
      <4>1. j + 1 \in 1 .. count[q] /\ Item(p, j)' = Item(q, j + 1)
        BY <1>4, <1>8, <3>1
      <4> QED
        BY <3>1, <4>1 DEF TaskInv, QueuedInv
    <3>2. CASE p # q
      BY <1>4, <3>2 DEF TaskInv, QueuedInv
    <3> QED
      BY <3>1, <3>2
  <2>2. ASSUME NEW p \in Queues, NEW j \in 1 .. count'[p], NEW l \in 1 .. count'[p], j < l
        PROVE  Item(p, j)' < Item(p, l)'
    <3>1. CASE p = q
      <4>1. /\ j + 1 \in 1 .. count[q] /\ Item(p, j)' = Item(q, j + 1)
            /\ l + 1 \in 1 .. count[q] /\ Item(p, l)' = Item(q, l + 1)
        BY <1>4, <1>8, <3>1
      <4>2. j + 1 < l + 1
        BY <1>4, <2>2, <3>1
      <4> QED
        BY <4>1, <4>2 DEF TaskInv, QueuedInv
    <3>2. CASE p # q
      BY <1>4, <2>2, <3>2 DEF TaskInv, QueuedInv
    <3> QED
      BY <3>1, <3>2
  <2>3. \A p \in Queues : \A j : QueueOf(Item(p, j)') = QueueOf(Item(p, j))'
    BY <1>3
  <2> QED
    BY <1>2, <2>1, <2>2, <2>3 DEF QueuedInv
<1>10. HeldInv'
  <2> SUFFICES ASSUME NEW v \in Workers, task'[v] # None
               PROVE  /\ task'[v] < i' /\ QueueOf(task'[v]) = WorkerQueue(v)
                      /\ \A j \in 1 .. count'[WorkerQueue(v)] :
                            task'[v] < Item(WorkerQueue(v), j)'
                      /\ wpc'[v] \in {"gate", "gated", "start"} => rec'[task'[v]] = "ready"
                      /\ wpc'[v] \in {"hold", "holding", "work"} => rec'[task'[v]] = "started"
                      /\ wpc'[v] = "count" => rec'[task'[v]] = "ended"
    BY <1>3 DEF HeldInv
  <2>1. PICK p \in Queues : p = WorkerQueue(v)
    BY QueuesAreTwo
  <2>2. WorkerQueue(v)' = p
    BY <1>3, <2>1
  <2>3. CASE v = w
    <3>1. p = q
      BY <1>1, <2>1, <2>3
    <3>2. ASSUME NEW j \in 1 .. count'[p]
          PROVE  k < Item(p, j)'
      <4>1. Item(p, j)' = Item(p, j + 1) /\ j + 1 \in 2 .. count[q]
        BY <1>4, <3>1
      <4> QED
        BY <1>5, <3>1, <4>1
    <3> QED
      BY <1>2, <1>5, <1>7, <2>1, <2>2, <2>3, <3>1, <3>2
  <2>4. CASE v # w
    <3>1. /\ task[v] < i /\ QueueOf(task[v]) = p
          /\ \A j \in 1 .. count[p] : task[v] < Item(p, j)
          /\ wpc[v] \in {"gate", "gated", "start"} => rec[task[v]] = "ready"
          /\ wpc[v] \in {"hold", "holding", "work"} => rec[task[v]] = "started"
          /\ wpc[v] = "count" => rec[task[v]] = "ended"
      BY <1>7, <2>1, <2>4 DEF TaskInv, HeldInv
    <3>2. ASSUME NEW j \in 1 .. count'[p]
          PROVE  task[v] < Item(p, j)'
      <4>1. CASE p = q
        <5>1. j + 1 \in 1 .. count[q] /\ Item(p, j)' = Item(q, j + 1)
          BY <1>4, <1>8, <4>1
        <5> QED
          BY <3>1, <4>1, <5>1
      <4>2. CASE p # q
        BY <1>4, <3>1, <4>2
      <4> QED
        BY <4>1, <4>2
    <3> QED
      BY <1>2, <1>7, <2>1, <2>2, <2>4, <3>1, <3>2
  <2> QED
    BY <2>3, <2>4
<1>11. HeldOnce'
  BY <1>6, <1>7 DEF TaskInv, HeldOnce
<1>12. FoundInv'
  <2> SUFFICES ASSUME NEW n \in Tasks, n < i
               PROVE  \/ \E p \in Queues : \E j \in 1 .. count'[p] : Item(p, j)' = n
                      \/ \E v \in Workers : task'[v] = n
                      \/ rec[n] = "ended"
    BY <1>2 DEF FoundInv
  <2>1. CASE \E v \in Workers : task[v] = n
    BY <1>6, <1>7, <2>1, PoolAssumption
  <2>2. ASSUME NEW p \in Queues, NEW j \in 1 .. count[p], Item(p, j) = n
        PROVE  \/ \E l \in 1 .. count'[p] : Item(p, l)' = n
               \/ task'[w] = n
    <3>1. CASE p # q
      BY <1>4, <2>2, <3>1
    <3>2. CASE p = q /\ j = 1
      BY <1>7, <2>2, <3>2 DEF k
    <3>3. CASE p = q /\ j # 1
      <4>1. j - 1 \in 1 .. count'[p] /\ Item(p, j - 1)' = Item(p, j)
        <5>1. j - 1 \in 1 .. count[q] - 1 /\ (j - 1) + 1 = j
          BY <1>4, <3>3
        <5>2. Item(q, j - 1)' = Item(q, (j - 1) + 1)
          BY <1>4, <5>1
        <5> QED
          BY <1>4, <3>3, <5>1, <5>2
      <4> QED
        BY <2>2, <4>1
    <3> QED
      BY <3>1, <3>2, <3>3
  <2> QED
    BY <2>1, <2>2 DEF TaskInv, FoundInv
<1>13. ReleasedInv'
  BY <1>2 DEF TaskInv, ReleasedInv
<1>14. LeavingInv'
  <2>1. ASSUME NEW v \in Workers, wpc'[v] = "exited"
        PROVE  count'[WorkerQueue(v)] = 0 /\ closed[WorkerQueue(v)]
    <3>1. wpc[v] = "exited"
      BY <1>7, <2>1
    <3>2. count[WorkerQueue(v)] = 0 /\ closed[WorkerQueue(v)]
      BY <3>1 DEF TaskInv, LeavingInv
    <3>3. WorkerQueue(v) \in Queues \ {q}
      BY <1>4, <3>2, QueuesAreTwo
    <3> QED
      BY <1>4, <3>2, <3>3
  <2>2. \A v : count[WorkerQueue(v)]' = count'[WorkerQueue(v)]
    BY <1>3
  <2>3. dpc' = "returned" => \A v \in Workers : wpc'[v] = "exited"
    BY <1>2 DEF TaskInv, LeavingInv
  <2> QED
    BY <1>2, <1>3, <2>1, <2>2, <2>3 DEF TaskInv, LeavingInv
<1>15. completed' = Cardinality(Done')
  <2>1. \A n \in Tasks : rec[n] = "ended" =>
           ((\A v \in Workers : task'[v] # n) <=> (\A v \in Workers : task[v] # n))
    BY <1>5, <1>6, <1>7, PoolAssumption
  <2>2. Done' = Done
    BY <1>2, <2>1 DEF Done
  <2> QED
    BY <1>2, <2>2 DEF TaskInv
<1> QED
  BY <1>2, <1>9, <1>10, <1>11, <1>12, <1>13, <1>14, <1>15 DEF TaskInv

\* Start and End: the task that a worker has is stamped.
LEMMA StampTasks ==
    ASSUME PoolInv, TaskInv, NEW w \in Workers, Start(w) \/ End(w)
    PROVE  TaskInv'
<1> DEFINE k == task[w]
<1>1. UNCHANGED <<path, slots, head, count, closed, dpc, i, task, completed>>
  BY DEF Start, End, queueVars, dispatcherVars
<1>2. wpc[w] \in {"start", "work"} /\ k # None /\ k \in Tasks
  BY DEF Start, End, At, PoolInv, RingInv, PoolTypeOK
<1>3. /\ \/ /\ wpc[w] = "start" /\ wpc'[w] \in {"hold", "work"}
            /\ rec[k] = "ready" /\ rec' = [rec EXCEPT ![k] = "started"]
         \/ /\ wpc[w] = "work" /\ wpc'[w] = "count"
            /\ rec[k] = "started" /\ rec' = [rec EXCEPT ![k] = "ended"]
      /\ \A v \in Workers \ {w} : wpc'[v] = wpc[v]
  BY <1>2 DEF Start, End, At, PoolInv, PoolTypeOK, TaskInv, HeldInv
<1>4. /\ \A n : QueueOf(n)' = QueueOf(n)
      /\ \A v : WorkerQueue(v)' = WorkerQueue(v)
      /\ \A q, j : Item(q, j)' = Item(q, j)
  BY <1>1, QueuesStay DEF Item
<1>5. /\ k < i /\ k \in Int /\ i \in Int
      /\ \A q \in Queues : \A j \in 1 .. count[q] : Item(q, j) # k
  <2>1. /\ k < i /\ k \in Int /\ i \in Int /\ QueueOf(k) = WorkerQueue(w)
        /\ \A j \in 1 .. count[WorkerQueue(w)] : k < Item(WorkerQueue(w), j)
    BY <1>2 DEF TaskInv, HeldInv, PoolInv, PoolTypeOK, Tasks
  <2>2. ASSUME NEW q \in Queues, NEW j \in 1 .. count[q], Item(q, j) = k
        PROVE  FALSE
    <3>1. q = WorkerQueue(w)
      BY <2>1, <2>2 DEF TaskInv, QueuedInv
    <3>2. k < k
      BY <2>1, <2>2, <3>1
    <3> QED
      BY <2>1, <3>2
  <2> QED
    BY <2>1, <2>2
<1>6. \A v \in Workers \ {w} : task[v] # k
  BY <1>2 DEF TaskInv, HeldOnce
<1> HIDE DEF k
<1>7. /\ rec' \in [Tasks -> Stamps] /\ rec'[k] \in {"started", "ended"}
      /\ \A n \in Tasks \ {k} : rec'[n] = rec[n]
  BY <1>2, <1>3 DEF TaskInv, Stamps
<1>8. QueuedInv'
  BY <1>1, <1>4, <1>5, <1>7 DEF TaskInv, QueuedInv
<1>9. HeldInv'
  <2> SUFFICES ASSUME NEW v \in Workers, task[v] # None
               PROVE  /\ task[v] < i /\ QueueOf(task[v]) = WorkerQueue(v)
                      /\ \A j \in 1 .. count[WorkerQueue(v)] :
                            task[v] < Item(WorkerQueue(v), j)
                      /\ wpc'[v] \in {"gate", "gated", "start"} => rec'[task[v]] = "ready"
                      /\ wpc'[v] \in {"hold", "holding", "work"} => rec'[task[v]] = "started"
                      /\ wpc'[v] = "count" => rec'[task[v]] = "ended"
    BY <1>1, <1>4 DEF HeldInv
  <2>1. /\ task[v] < i /\ QueueOf(task[v]) = WorkerQueue(v) /\ task[v] \in Tasks
        /\ \A j \in 1 .. count[WorkerQueue(v)] : task[v] < Item(WorkerQueue(v), j)
        /\ wpc[v] \in {"gate", "gated", "start"} => rec[task[v]] = "ready"
        /\ wpc[v] \in {"hold", "holding", "work"} => rec[task[v]] = "started"
        /\ wpc[v] = "count" => rec[task[v]] = "ended"
    BY DEF TaskInv, HeldInv, PoolInv, PoolTypeOK
  <2>2. CASE v = w
    <3>1. task[v] = k /\ rec \in [Tasks -> Stamps]
      BY <2>2 DEF k, TaskInv
    <3> QED
      BY <1>2, <1>3, <2>1, <2>2, <3>1
  <2>3. CASE v # w
    BY <1>3, <1>6, <1>7, <2>1, <2>3
  <2> QED
    BY <2>2, <2>3
<1>10. HeldOnce'
  BY <1>1 DEF TaskInv, HeldOnce
<1>11. FoundInv'
  <2>1. task'[w] = k
    BY <1>1 DEF k
  <2> QED
    BY <1>1, <1>4, <1>7, <2>1 DEF TaskInv, FoundInv
<1>12. ReleasedInv'
  BY <1>1, <1>5, <1>7 DEF TaskInv, ReleasedInv, Tasks
<1>13. LeavingInv'
  BY <1>1, <1>2, <1>3, <1>4 DEF TaskInv, LeavingInv
<1>14. completed' = Cardinality(Done')
  <2>1. task[w] = k /\ task'[w] = k
    BY <1>1 DEF k
  <2>2. Done' = Done
    BY <1>1, <1>7, <2>1 DEF Done
  <2> QED
    BY <1>1, <2>2 DEF TaskInv
<1> QED
  BY <1>7, <1>8, <1>9, <1>10, <1>11, <1>12, <1>13, <1>14 DEF TaskInv

\* Count: the worker lets go of its task, which has ended.
LEMMA CountTasks ==
    ASSUME PoolInv, TaskInv, NEW w \in Workers, Count(w)
    PROVE  TaskInv'
<1> DEFINE k == task[w]
<1>1. /\ wpc[w] = "count" /\ wpc' = [wpc EXCEPT ![w] = "pop"]
      /\ task' = [task EXCEPT ![w] = None] /\ completed' = completed + 1
      /\ UNCHANGED <<path, slots, head, count, closed, dpc, i, rec>>
  BY DEF Count, At, queueVars, dispatcherVars
<1>2. k # None /\ k \in Tasks /\ None \notin Tasks /\ rec[k] = "ended"
  BY <1>1, PoolAssumption DEF PoolInv, RingInv, PoolTypeOK, TaskInv, HeldInv
<1>3. /\ \A n : QueueOf(n)' = QueueOf(n)
      /\ \A v : WorkerQueue(v)' = WorkerQueue(v)
      /\ \A q, j : Item(q, j)' = Item(q, j)
  BY <1>1, QueuesStay DEF Item
<1>4. /\ task'[w] = None /\ wpc'[w] = "pop"
      /\ \A v \in Workers \ {w} : /\ task'[v] = task[v] /\ wpc'[v] = wpc[v]
                                  /\ task[v] # k
  BY <1>1, <1>2 DEF PoolInv, PoolTypeOK, TaskInv, HeldOnce
<1>5. task[w] = k
  OBVIOUS
<1> HIDE DEF k
<1>6. QueuedInv'
  BY <1>1, <1>3 DEF TaskInv, QueuedInv
<1>7. HeldInv'
  BY <1>1, <1>3, <1>4 DEF TaskInv, HeldInv
<1>8. HeldOnce'
  BY <1>4 DEF TaskInv, HeldOnce
<1>9. FoundInv'
  BY <1>1, <1>2, <1>3, <1>4, <1>5 DEF TaskInv, FoundInv
<1>10. ReleasedInv'
  BY <1>1 DEF TaskInv, ReleasedInv
<1>11. LeavingInv'
  <2>1. \A v \in Workers : wpc'[v] = "exited" => wpc[v] = "exited"
    BY <1>4
  <2>2. dpc # "returned"
    BY <1>1 DEF TaskInv, LeavingInv
  <2> QED
    BY <1>1, <1>3, <2>1, <2>2 DEF TaskInv, LeavingInv
<1>12. completed' = Cardinality(Done')
  <2>1. k \notin Done
    BY <1>5 DEF Done
  <2>2. Done' = Done \cup {k}
    BY <1>1, <1>2, <1>4, <1>5 DEF Done
  <2>3. Cardinality(Done \cup {k}) = Cardinality(Done) + 1
    BY <2>1, DoneIsFinite, FS_AddElement
  <2> QED
    BY <1>1, <2>2, <2>3 DEF TaskInv
<1> QED
  BY <1>1, <1>6, <1>7, <1>8, <1>9, <1>10, <1>11, <1>12 DEF TaskInv

\* The dispatcher's other steps: it waits, closes the queues, or returns.
LEMMA QuietDispatch ==
    ASSUME PoolInv, TaskInv, WaitNotFull \/ CloseFirst \/ CloseSecond \/ Join
    PROVE  TaskInv'
<1>1. UNCHANGED <<path, slots, head, count, rec, i, task, completed>>
  BY DEF WaitNotFull, CloseFirst, CloseSecond, Close, Join, queueVars, workerVars
<1>2. /\ dpc' \in {"push", "full"} <=> dpc \in {"push", "full"}
      /\ dpc' \in {"close", "join", "returned"} => i = NTasks
      /\ dpc' = "returned" => \A w \in Workers : wpc'[w] = "exited"
  <2>1. NTasks \in Nat /\ i \in 0 .. NTasks
    BY PoolAssumption DEF PoolInv, PoolTypeOK
  <2> QED
    BY <2>1 DEF WaitNotFull, CloseFirst, CloseSecond, Close, Join, workerVars,
                TaskInv, LeavingInv
<1>3. \A w \in Workers : wpc'[w] = wpc[w] \/ (wpc[w] = "asleep" /\ wpc'[w] = "pop")
  <2>1. CASE WaitNotFull \/ Join
    BY <2>1 DEF WaitNotFull, Join, workerVars
  <2>2. CASE CloseFirst \/ CloseSecond
    BY <2>2, SignalsWake DEF CloseFirst, CloseSecond, Close, PoolInv, Wakes
  <2> QED
    BY <2>1, <2>2
<1>4. \A q \in Queues : closed[q] => closed'[q]
  BY DEF WaitNotFull, CloseFirst, CloseSecond, Close, Join, queueVars, PoolInv,
         PoolTypeOK, Queues
<1>5. \A w : WorkerQueue(w)' = WorkerQueue(w) /\ WorkerQueue(w) \in Queues
  BY <1>1, QueuesStay, QueuesAreTwo
<1>6. LeavingInv'
  BY <1>1, <1>2, <1>3, <1>4, <1>5 DEF TaskInv, LeavingInv
<1>7. \A w \in Workers : task[w] # None => wpc'[w] = wpc[w]
  BY <1>3 DEF PoolInv, RingInv
<1> QED
  BY <1>1, <1>2, <1>6, <1>7, QuietSteps

\* The workers' steps that move them and nothing else that is counted on.
LEMMA QuietWork ==
    ASSUME PoolInv, TaskInv, NEW w \in Workers,
           \/ Sleep(w) \/ Exit(w) \/ GateLock(w) \/ GateUnlock(w)
           \/ HoldLock(w) \/ HoldUnlock(w)
    PROVE  TaskInv'
<1>1. /\ UNCHANGED <<path, slots, head, count, closed, rec, i, dpc, task, completed>>
      /\ \A v \in Workers \ {w} : wpc'[v] = wpc[v]
  BY DEF Sleep, Exit, GateLock, GateUnlock, HoldLock, HoldUnlock, At, queueVars,
         dispatcherVars, PoolInv, PoolTypeOK
<1>2. /\ wpc[w] # "exited"
      /\ \/ wpc[w] = "pop"
         \/ {wpc[w], wpc'[w]} \subseteq {"gate", "gated", "start"}
         \/ {wpc[w], wpc'[w]} \subseteq {"hold", "holding", "work"}
      /\ wpc'[w] = "exited" => count[WorkerQueue(w)] = 0 /\ closed[WorkerQueue(w)]
  BY DEF Sleep, Exit, GateLock, GateUnlock, HoldLock, HoldUnlock, At, PoolInv,
         PoolTypeOK
<1>3. LeavingInv'
  <2>1. dpc # "returned"
    BY <1>2 DEF TaskInv, LeavingInv
  <2>2. \A v : WorkerQueue(v)' = WorkerQueue(v)
    BY <1>1, QueuesStay
  <2> QED
    BY <1>1, <1>2, <2>1, <2>2 DEF TaskInv, LeavingInv
<1>4. task[w] # None => wpc[w] # "pop"
  BY DEF PoolInv, RingInv
<1> QED
  BY <1>1, <1>2, <1>3, <1>4, QuietSteps

LEMMA QuietWakeups ==
    ASSUME PoolInv, TaskInv, WakeSpuriously \/ UNCHANGED vars
    PROVE  TaskInv'
<1>1. /\ UNCHANGED <<path, slots, head, count, closed, rec, i, task, completed>>
      /\ dpc' \in {"push", "full"} <=> dpc \in {"push", "full"}
      /\ dpc' \notin {"push", "full"} => dpc' = dpc
      /\ \A w \in Workers : wpc'[w] = wpc[w] \/ (wpc[w] = "asleep" /\ wpc'[w] = "pop")
  BY DEF WakeSpuriously, At, vars, queueVars, dispatcherVars, workerVars, PoolInv,
         PoolTypeOK
<1>2. LeavingInv'
  BY <1>1, QueuesStay DEF TaskInv, LeavingInv
<1>3. \A w \in Workers : task[w] # None => wpc'[w] = wpc[w]
  BY <1>1 DEF PoolInv, RingInv
<1> QED
  BY <1>1, <1>2, <1>3, QuietSteps

\* Every step of the pool keeps the invariant of the tasks.
THEOREM TaskStepInv == PoolInv /\ TaskInv /\ [Next]_vars => TaskInv'
<1> SUFFICES ASSUME PoolInv, TaskInv, [Next]_vars PROVE TaskInv'
  OBVIOUS
<1>1. CASE DispatcherStep
  BY <1>1, ReleaseTasks, PushTasks, QuietDispatch DEF DispatcherStep
<1>2. ASSUME NEW w \in Workers, WorkerStep(w)
      PROVE  TaskInv'
  BY <1>2, PopTasks, StampTasks, CountTasks, QuietWork DEF WorkerStep
<1>3. CASE WakeSpuriously \/ UNCHANGED vars
  BY <1>3, QuietWakeups
<1> QED
  BY <1>1, <1>2, <1>3 DEF Next, Returned

\* Every task is where the stamps of its record say, in every state of every
\* run of the pool (workload.c:236-302).
THEOREM TaskInvariant == Spec => []TaskInv
BY TaskInitInv, TaskStepInv, PoolInvariant, PTL DEF Spec

-----------------------------------------------------------------------------
(***************************************************************************)
(* What follows from the invariant                                         *)
(***************************************************************************)
\* Where a task is in the queues, and who has it.
Spots(k)   == {at \in Queues \X (1 .. Capacity) :
                  at[2] <= count[at[1]] /\ Contents(at[1])[at[2]] = k}
Holders(k) == {w \in Workers : task[w] = k}

\* There is a spot for every task of a queue, and no other.
LEMMA SpotsAreItems ==
    ASSUME PoolInv, NEW k
    PROVE  /\ \A at \in Spots(k) : /\ at[1] \in Queues /\ at[2] \in 1 .. count[at[1]]
                                   /\ Item(at[1], at[2]) = k
                                   /\ at = <<at[1], at[2]>>
           /\ \A q \in Queues : \A j : j \in 1 .. count[q] /\ Item(q, j) = k
                  => <<q, j>> \in Spots(k)
<1>1. \A q \in Queues : count[q] \in 0 .. Capacity /\ Capacity \in Nat
  BY PoolAssumption DEF PoolInv, PoolTypeOK
<1>2. \A q, j : j \in 1 .. count[q] => Contents(q)[j] = Item(q, j)
  BY DEF Contents, Item, Slot
<1>3. ASSUME NEW q \in Queues, NEW j \in 1 .. Capacity,
             <<q, j>> \in Spots(k)
      PROVE  j \in 1 .. count[q] /\ Item(q, j) = k
  <2>1. j <= count[q] /\ Contents(q)[j] = k
    BY <1>3 DEF Spots
  <2>2. j \in 1 .. count[q]
    BY <1>1, <2>1
  <2> QED
    BY <1>2, <2>1, <2>2
<1>4. ASSUME NEW at \in Spots(k)
      PROVE  at = <<at[1], at[2]>> /\ at[1] \in Queues /\ at[2] \in 1 .. Capacity
  BY DEF Spots
<1>5. ASSUME NEW q \in Queues, NEW j, j \in 1 .. count[q], Item(q, j) = k
      PROVE  <<q, j>> \in Spots(k)
  <2>1. j \in 1 .. Capacity /\ j <= count[q]
    BY <1>1, <1>5
  <2> QED
    BY <1>2, <1>5, <2>1 DEF Spots
<1> QED
  BY <1>3, <1>4, <1>5

\* No task is twice in the queues, or with two workers, or in a queue and
\* with a worker, or in either before it has been pushed.
LEMMA OnePlace ==
    ASSUME PoolInv, TaskInv, NEW k \in Tasks
    PROVE  /\ \A a, b \in Spots(k) : a = b
           /\ \A v, w \in Holders(k) : v = w
           /\ Spots(k) # {} => Holders(k) = {} /\ k < i /\ rec[k] = "ready"
           /\ \A w \in Holders(k) :
                 /\ k < i
                 /\ \/ wpc[w] \in {"gate", "gated", "start"} /\ rec[k] = "ready"
                    \/ wpc[w] \in {"hold", "holding", "work"} /\ rec[k] = "started"
                    \/ wpc[w] = "count" /\ rec[k] = "ended"
<1>1. k \in Int /\ k # None
  BY PoolAssumption DEF Tasks
<1>2. ASSUME NEW a \in Spots(k), NEW b \in Spots(k)
      PROVE  a = b
  <2>1. /\ a = <<a[1], a[2]>> /\ b = <<b[1], b[2]>>
        /\ a[1] \in Queues /\ a[2] \in 1 .. count[a[1]] /\ Item(a[1], a[2]) = k
        /\ b[1] \in Queues /\ b[2] \in 1 .. count[b[1]] /\ Item(b[1], b[2]) = k
    BY SpotsAreItems
  <2>2. QueueOf(k) = a[1] /\ QueueOf(k) = b[1]
    BY <2>1 DEF TaskInv, QueuedInv
  <2>3. ~(a[2] < b[2]) /\ ~(b[2] < a[2])
    BY <1>1, <2>1, <2>2 DEF TaskInv, QueuedInv
  <2>4. a[2] = b[2]
    BY <2>1, <2>3
  <2> QED
    BY <2>1, <2>2, <2>4
<1>3. \A v, w \in Holders(k) : v = w
  BY <1>1 DEF Holders, TaskInv, HeldOnce
<1>4. ASSUME NEW w \in Holders(k)
      PROVE  /\ w \in Workers /\ k < i /\ QueueOf(k) = WorkerQueue(w)
             /\ \A j \in 1 .. count[WorkerQueue(w)] : k < Item(WorkerQueue(w), j)
             /\ \/ wpc[w] \in {"gate", "gated", "start"} /\ rec[k] = "ready"
                \/ wpc[w] \in {"hold", "holding", "work"} /\ rec[k] = "started"
                \/ wpc[w] = "count" /\ rec[k] = "ended"
  <2>1. w \in Workers /\ task[w] = k
    BY DEF Holders
  <2>2. wpc[w] \in {"gate", "gated", "start", "hold", "holding", "work", "count"}
    BY <1>1, <2>1 DEF PoolInv, RingInv, PoolTypeOK, WorkerPCs
  <2>3. /\ task[w] < i /\ QueueOf(task[w]) = WorkerQueue(w)
        /\ \A j \in 1 .. count[WorkerQueue(w)] : task[w] < Item(WorkerQueue(w), j)
    BY <1>1, <2>1 DEF TaskInv, HeldInv
  <2>4. /\ wpc[w] \in {"gate", "gated", "start"} => rec[task[w]] = "ready"
        /\ wpc[w] \in {"hold", "holding", "work"} => rec[task[w]] = "started"
        /\ wpc[w] = "count" => rec[task[w]] = "ended"
    BY <1>1, <2>1 DEF TaskInv, HeldInv
  <2> QED
    BY <2>1, <2>2, <2>3, <2>4
<1>5. ASSUME NEW a \in Spots(k)
      PROVE  Holders(k) = {} /\ k < i /\ rec[k] = "ready"
  <2>1. a[1] \in Queues /\ a[2] \in 1 .. count[a[1]] /\ Item(a[1], a[2]) = k
    BY SpotsAreItems
  <2>2. k < i /\ rec[k] = "ready" /\ QueueOf(k) = a[1]
    BY <2>1 DEF TaskInv, QueuedInv
  <2>3. ASSUME NEW w \in Holders(k)
        PROVE  FALSE
    <3>1. k < Item(a[1], a[2])
      BY <1>4, <2>1, <2>2
    <3> QED
      BY <1>1, <2>1, <3>1
  <2> QED
    BY <2>2, <2>3
<1> QED
  BY <1>2, <1>3, <1>4, <1>5

LEMMA InOnePlace == PoolInv /\ TaskInv => EveryTaskInOnePlace
<1> SUFFICES ASSUME PoolInv, TaskInv, NEW k \in Tasks
             PROVE  /\ rec[k] = "stale" => k >= i /\ Places(k) = 0
                    /\ rec[k] = "ready" => Places(k) = 1
                    /\ rec[k] = "started" => \E w \in Workers :
                           task[w] = k /\ wpc[w] \in {"hold", "holding", "work"}
                    /\ rec[k] = "ended" =>
                           \A w \in Workers : task[w] = k => wpc[w] = "count"
  BY DEF EveryTaskInOnePlace
<1> DEFINE atHand == dpc \in {"push", "full"} /\ i = k
<1>1. i \in Int /\ k \in Int
  BY DEF PoolInv, PoolTypeOK, Tasks
<1>2. Places(k) = (IF atHand THEN 1 ELSE 0) + Cardinality(Spots(k))
                  + Cardinality(Holders(k))
  BY DEF Places, Spots, Holders
<1>3. /\ Spots(k) # {} => Holders(k) = {} /\ k < i /\ rec[k] = "ready"
      /\ Spots(k) = {} \/ \E a : Spots(k) = {a}
      /\ Holders(k) = {} \/ \E w : Holders(k) = {w}
      /\ \A w \in Holders(k) :
            /\ k < i
            /\ \/ wpc[w] \in {"gate", "gated", "start"} /\ rec[k] = "ready"
               \/ wpc[w] \in {"hold", "holding", "work"} /\ rec[k] = "started"
               \/ wpc[w] = "count" /\ rec[k] = "ended"
  <2>1. \A a, b \in Spots(k) : a = b
    BY OnePlace
  <2>2. \A v, w \in Holders(k) : v = w
    BY OnePlace
  <2>3. Spots(k) = {} \/ \E a : Spots(k) = {a}
    BY <2>1, Zenon
  <2>4. Holders(k) = {} \/ \E w : Holders(k) = {w}
    BY <2>2, Zenon
  <2> QED
    BY <2>3, <2>4, OnePlace
<1>4. k < i => Spots(k) # {} \/ Holders(k) # {} \/ rec[k] = "ended"
  <2>1. ASSUME NEW q \in Queues, NEW j \in 1 .. count[q], Item(q, j) = k
        PROVE  <<q, j>> \in Spots(k)
    BY <2>1, SpotsAreItems
  <2> QED
    BY <2>1 DEF TaskInv, FoundInv, Holders
<1>5. k >= i => rec[k] = IF atHand THEN "ready" ELSE "stale"
  BY DEF TaskInv, ReleasedInv
<1>6. /\ Spots(k) = {} => Cardinality(Spots(k)) = 0
      /\ (\E a : Spots(k) = {a}) => Cardinality(Spots(k)) = 1
      /\ Holders(k) = {} => Cardinality(Holders(k)) = 0
      /\ (\E w : Holders(k) = {w}) => Cardinality(Holders(k)) = 1
  BY FS_EmptySet, FS_Singleton
<1>7. ASSUME rec[k] = "stale"
      PROVE  k >= i /\ Places(k) = 0
  <2>1. Spots(k) = {} /\ Holders(k) = {} /\ k >= i /\ ~atHand
    BY <1>1, <1>3, <1>4, <1>5, <1>7
  <2> QED
    BY <1>2, <1>6, <2>1
<1>8. ASSUME rec[k] = "ready"
      PROVE  Places(k) = 1
  <2>1. CASE k >= i
    <3>1. Spots(k) = {} /\ Holders(k) = {} /\ atHand
      BY <1>1, <1>3, <1>5, <1>8, <2>1
    <3> QED
      BY <1>2, <1>6, <3>1
  <2>2. CASE k < i
    <3>1. ~atHand
      BY <1>1, <2>2
    <3>2. CASE Spots(k) # {}
      BY <1>2, <1>3, <1>6, <3>1, <3>2
    <3>3. CASE Spots(k) = {}
      <4>1. Holders(k) # {}
        BY <1>4, <1>8, <2>2, <3>3
      <4> QED
        <5>1. Cardinality(Spots(k)) = 0 /\ Cardinality(Holders(k)) = 1
          BY <1>3, <1>6, <3>3, <4>1
        <5> QED
          BY <1>2, <3>1, <5>1
    <3> QED
      BY <3>2, <3>3
  <2> QED
    BY <1>1, <2>1, <2>2
<1>9. ASSUME rec[k] = "started"
      PROVE  \E w \in Workers : task[w] = k /\ wpc[w] \in {"hold", "holding", "work"}
  <2>1. k < i /\ Spots(k) = {}
    BY <1>1, <1>3, <1>5, <1>9
  <2>2. PICK w \in Holders(k) : TRUE
    BY <1>4, <1>9, <2>1
  <2> QED
    BY <1>3, <1>9, <2>2 DEF Holders
<1>10. ASSUME rec[k] = "ended"
       PROVE  \A w \in Workers : task[w] = k => wpc[w] = "count"
  BY <1>3, <1>10 DEF Holders
<1> QED
  BY <1>7, <1>8, <1>9, <1>10

\* A task that was released is with the dispatcher, in one queue, with one
\* worker, or done, and its stamps say which (workload.c:259-298).
THEOREM TasksAreInOnePlace == Spec => []EveryTaskInOnePlace
BY InOnePlace, PoolInvariant, TaskInvariant, PTL

LEMMA AllIsDone == PoolInv /\ TaskInv => NothingLost
<1> SUFFICES ASSUME PoolInv, TaskInv, dpc = "returned"
             PROVE  completed = NTasks /\ \A k \in Tasks : rec[k] = "ended"
  BY DEF NothingLost
<1>1. NTasks \in Nat /\ None \notin Tasks /\ 1 \in Workers /\ 2 \in Workers
  BY PoolAssumption DEF Workers
<1>2. i = NTasks /\ \A w \in Workers : wpc[w] = "exited"
  BY DEF TaskInv, LeavingInv
<1>3. \A w \in Workers : task[w] = None /\ count[WorkerQueue(w)] = 0
  BY <1>2 DEF TaskInv, LeavingInv, PoolInv, RingInv
<1>4. \A k \in Tasks : QueueOf(k) = WorkerQueue(1) \/ QueueOf(k) = WorkerQueue(2)
  BY DEF QueueOf, WorkerQueue, Shard
<1>5. ASSUME NEW k \in Tasks
      PROVE  rec[k] = "ended"
  <2>1. k < i
    BY <1>1, <1>2 DEF Tasks
  <2>2. \A w \in Workers : task[w] # k
    BY <1>1, <1>3
  <2>3. ASSUME NEW q \in Queues, NEW j \in 1 .. count[q], Item(q, j) = k
        PROVE  FALSE
    <3>1. QueueOf(k) = q
      BY <2>3 DEF TaskInv, QueuedInv
    <3>2. count[q] = 0
      BY <1>1, <1>3, <1>4, <3>1
    <3> QED
      BY <3>2
  <2> QED
    BY <2>1, <2>2, <2>3 DEF TaskInv, FoundInv
<1>6. Done = 0 .. NTasks - 1
  BY <1>1, <1>3, <1>5 DEF Done, Tasks
<1>7. Cardinality(0 .. NTasks - 1) = NTasks
  BY <1>1, FS_Interval
<1> QED
  BY <1>5, <1>6, <1>7 DEF TaskInv

\* When wl_run returns, every task has been counted once and has its three
\* stamps (audit.c:65-70: lost work "should not happen").
THEOREM NothingIsLost == Spec => []NothingLost
BY AllIsDone, PoolInvariant, TaskInvariant, PTL

-----------------------------------------------------------------------------
(***************************************************************************)
(* Nobody waits for ever.                                                  *)
(***************************************************************************)
\* Nobody sleeps at a queue that is closed, and tq_close has been called for
\* each queue before the dispatcher joins.
ClosingInv ==
    /\ \A w \in Workers : wpc[w] = "asleep" => ~closed[WorkerQueue(w)]
    /\ dpc = "close" => closed[0]
    /\ dpc = "join" => \A q \in Queues : closed[q]

\* The holder of the gate is between its lock and its unlock.
GateHeld == gate # None => gate \in Workers /\ wpc[gate] \in {"gated", "holding"}

LEMMA WaitingInitInv == Init => ClosingInv /\ GateHeld
BY DEF Init, ClosingInv, GateHeld

LEMMA ClosingStepInv ==
    ASSUME PoolInv, ClosingInv, GateHeld, [Next]_vars
    PROVE  ClosingInv' /\ GateHeld'
<1> USE DEF PoolInv, PoolTypeOK
<1>1. \A w : WorkerQueue(w)' = WorkerQueue(w)
  BY DEF Next, DispatcherStep, WorkerStep, Returned, vars, WakeSpuriously,
         Release, WaitNotFull, Push, CloseFirst, CloseSecond, Close, Join,
         Sleep, Pop, Exit, GateLock, GateUnlock, Start, HoldLock, HoldUnlock,
         End, Count, WorkerQueue
<1>2. CASE Release \/ WaitNotFull \/ Join
  BY <1>1, <1>2 DEF Release, WaitNotFull, Join, queueVars, workerVars,
                    ClosingInv, GateHeld
<1>3. CASE Push
  <2>1. UNCHANGED <<closed, gate>> /\ dpc' = "loop" /\ Wakes
    BY <1>3, SignalsWake DEF Push
  <2> QED
    BY <1>1, <2>1 DEF ClosingInv, GateHeld, Wakes
<1>4. ASSUME NEW q \in Queues, NEW here, NEW there, Close(q, here, there),
             \/ q = 0 /\ here = "loop" /\ there = "close"
             \/ q = 1 /\ here = "close" /\ there = "join"
      PROVE  ClosingInv' /\ GateHeld'
  <2>1. /\ closed' = [closed EXCEPT ![q] = TRUE] /\ gate' = gate
        /\ dpc = here /\ dpc' = there
        /\ wpc' = [w \in Workers |-> IF w \in Asleep(q) THEN "pop" ELSE wpc[w]]
    BY <1>4 DEF Close, BroadcastNotEmpty
  <2>2. \A w \in Workers : wpc'[w] = "asleep" =>
            wpc[w] = "asleep" /\ WorkerQueue(w) # q
    BY <2>1 DEF Asleep
  <2>3. GateHeld'
    BY <2>1 DEF GateHeld, Asleep
  <2>4. \A w \in Workers : WorkerQueue(w) \in Queues
    BY QueuesAreTwo
  <2> QED
    BY <1>1, <1>4, <2>1, <2>2, <2>3, <2>4 DEF ClosingInv, Queues
<1>5. ASSUME NEW w \in Workers, WorkerStep(w)
      PROVE  ClosingInv' /\ GateHeld'
  <2>1. closed' = closed /\ (dpc' = dpc \/ dpc' = "push")
    BY <1>5 DEF WorkerStep, Sleep, Pop, Exit, GateLock, GateUnlock, Start,
                HoldLock, HoldUnlock, End, Count, queueVars, dispatcherVars,
                SignalNotFull
  <2>2. \A v \in Workers \ {w} : wpc'[v] = wpc[v]
    BY <1>5 DEF WorkerStep, Sleep, Pop, Exit, GateLock, GateUnlock, Start,
                HoldLock, HoldUnlock, End, Count, At
  <2>3. wpc'[w] = "asleep" => ~closed[WorkerQueue(w)]
    BY <1>5 DEF WorkerStep, Sleep, Pop, Exit, GateLock, GateUnlock, Start,
                HoldLock, HoldUnlock, End, Count, At
  <2>4. ClosingInv'
    BY <1>1, <2>1, <2>2, <2>3 DEF ClosingInv
  <2>5. CASE GateLock(w) \/ HoldLock(w)
    <3>1. gate' = w /\ wpc'[w] \in {"gated", "holding"}
      BY <2>5 DEF GateLock, HoldLock, At
    <3> QED
      BY <2>4, <3>1 DEF GateHeld
  <2>6. CASE GateUnlock(w) \/ HoldUnlock(w)
    <3>1. gate' = None
      BY <2>6 DEF GateUnlock, HoldUnlock
    <3> QED
      BY <2>4, <3>1 DEF GateHeld
  <2>7. CASE \/ Sleep(w) \/ Pop(w) \/ Exit(w) \/ Start(w) \/ End(w) \/ Count(w)
    <3>1. gate' = gate /\ wpc[w] \notin {"gated", "holding"}
      BY <2>7 DEF Sleep, Pop, Exit, Start, End, Count, At
    <3>2. gate # None => gate \in Workers \ {w} /\ wpc'[gate] = wpc[gate]
      BY <2>2, <3>1 DEF GateHeld
    <3> QED
      BY <2>4, <3>1, <3>2 DEF GateHeld
  <2> QED
    BY <1>5, <2>4, <2>5, <2>6, <2>7 DEF WorkerStep
<1>6. CASE WakeSpuriously
  BY <1>1, <1>6 DEF WakeSpuriously, At, ClosingInv, GateHeld, queueVars
<1>7. CASE UNCHANGED vars
  BY <1>1, <1>7 DEF vars, queueVars, dispatcherVars, workerVars, ClosingInv,
                    GateHeld
<1>8. CASE CloseFirst \/ CloseSecond
  <2>1. Close(0, "loop", "close") \/ Close(1, "close", "join")
    BY <1>8 DEF CloseFirst, CloseSecond
  <2>2. 0 \in Queues /\ 1 \in Queues
    BY DEF Queues
  <2>3. CASE Close(0, "loop", "close")
    BY <1>4, <2>2, <2>3
  <2>4. CASE Close(1, "close", "join")
    BY <1>4, <2>2, <2>4
  <2> QED
    BY <2>1, <2>3, <2>4
<1> QED
  BY <1>2, <1>3, <1>5, <1>6, <1>7, <1>8 DEF Next, DispatcherStep, Returned

\* If all threads waited nobody would have the gate, all workers that have not
\* left would sleep, at queues that are open; so the dispatcher would be
\* waiting for room, in a full queue at which somebody sleeps.
LEMMA NotAllWait ==
    PoolInv /\ LeavingInv /\ ClosingInv /\ GateHeld => SomebodyRuns
<1> SUFFICES ASSUME PoolInv, LeavingInv, ClosingInv, GateHeld,
                    dpc # "returned", DispatcherWaits,
                    \A w \in Workers : wpc[w] = "exited" \/ Waits(w)
             PROVE  FALSE
  BY DEF SomebodyRuns
<1> USE DEF PoolInv, PoolTypeOK
<1>1. gate = None
  BY DEF GateHeld, Waits
<1>2. \A w \in Workers : wpc[w] \in {"exited", "asleep"}
  BY <1>1 DEF Waits
<1>3. CASE dpc = "full"
  <2>1. QueueOf(i) \in Queues /\ ~closed[QueueOf(i)]
    BY <1>3, QueuesAreTwo DEF RingInv
  <2>2. PICK w \in Workers : WorkerQueue(w) = QueueOf(i)
    <3>1. 1 \in Workers /\ 2 \in Workers
      BY PoolAssumption DEF Workers
    <3> QED
      BY <3>1 DEF WorkerQueue, QueueOf, Shard
  <2>3. w \in Asleep(QueueOf(i))
    BY <1>2, <2>1, <2>2 DEF LeavingInv, Asleep
  <2>4. Popping(QueueOf(i)) = {}
    BY <1>2 DEF Popping
  <2>5. count[QueueOf(i)] = Capacity /\ count[QueueOf(i)] <= Cardinality({})
    BY <1>3, <2>1, <2>3, <2>4 DEF NoLostWakeup
  <2> QED
    BY <2>5, FS_EmptySet, PoolAssumption
<1>4. CASE dpc = "join" /\ \E w \in Workers : wpc[w] # "exited"
  <2>1. PICK w \in Workers : wpc[w] = "asleep"
    BY <1>2, <1>4
  <2> QED
    BY <1>4, <2>1, QueuesAreTwo DEF ClosingInv
<1> QED
  BY <1>3, <1>4 DEF DispatcherWaits

\* The pool never locks up: until wl_run has returned there is a thread that
\* can go on, without any spurious wake-up (workload.c:115, 128, 145-146,
\* 266-272).
THEOREM NeverLocksUp == Spec => []SomebodyRuns
<1>1. TaskInv => LeavingInv
  BY DEF TaskInv
<1>2. Init /\ [][Next]_vars /\ []PoolInv => [](ClosingInv /\ GateHeld)
  BY WaitingInitInv, ClosingStepInv, PTL
<1> QED
  BY <1>1, <1>2, NotAllWait, PoolInvariant, TaskInvariant, PTL DEF Spec

-----------------------------------------------------------------------------
(***************************************************************************)
(* Finite sets of numbers.                                                 *)
(***************************************************************************)

LEMMA LeastElement ==
    ASSUME NEW T \in SUBSET Nat, T # {}
    PROVE  \E m \in T : \A k \in T : m <= k
<1>1. IsWellFoundedOn(OpToRel(<, Nat), Nat)
  BY NatLessThanWellFounded
<1>2. PICK m \in T : \A k \in T : ~(<<k, m>> \in OpToRel(<, Nat))
  <2> DEFINE R == OpToRel(<, Nat)
  <2> HIDE DEF R
  <2> QED
    BY <1>1, WFMin DEF R
<1>3. \A k \in T : ~(k < m)
  BY <1>2 DEF OpToRel
<1> QED
  BY <1>3

\* The element that has the fewest above it is the greatest.
LEMMA GreatestElement ==
    ASSUME NEW T \in SUBSET Nat, IsFiniteSet(T), T # {}
    PROVE  \E m \in T : \A k \in T : k <= m
<1> DEFINE Above(m) == {k \in T : m < k}
           C == {Cardinality(Above(m)) : m \in T}
<1>1. \A m \in T : IsFiniteSet(Above(m)) /\ Cardinality(Above(m)) \in Nat
  BY FS_Subset, FS_CardinalityType
<1>2. C \subseteq Nat /\ C # {}
  BY <1>1
<1>3. PICK c \in C : \A d \in C : c <= d
  <2> HIDE DEF C
  <2> QED
    BY <1>2, LeastElement
<1>4. PICK m \in T : c = Cardinality(Above(m))
  BY <1>3
<1>5. ASSUME NEW k \in T, ~(k <= m)
      PROVE  FALSE
  <2>1. k \in Above(m) /\ k \notin Above(k) /\ Above(k) \subseteq Above(m)
    <3>1. k \in Nat /\ m \in Nat /\ m < k
      BY <1>5
    <3>2. ASSUME NEW j \in T, k < j PROVE m < j
      <4>1. j \in Nat
        OBVIOUS
      <4> QED
        BY <3>1, <3>2, <4>1
    <3>3. ~(k < k)
      BY <3>1
    <3> QED
      BY <3>1, <3>2, <3>3
  <2>2. /\ Cardinality(Above(k)) <= Cardinality(Above(m))
        /\ Cardinality(Above(k)) # Cardinality(Above(m))
    <3> HIDE DEF Above
    <3> QED
      BY <2>1, <1>1, FS_Subset
  <2>3. Cardinality(Above(m)) <= Cardinality(Above(k))
    BY <1>3, <1>4
  <2> QED
    BY <2>2, <2>3, <1>1
<1> QED
  BY <1>5

\* Two ways to split a set into parts that are apart.
LEMMA SplitTwice ==
    ASSUME NEW A, NEW B, NEW C, NEW D,
           IsFiniteSet(A), IsFiniteSet(B), IsFiniteSet(C), IsFiniteSet(D),
           A \cap B = {}, C \cap D = {}, A \cup B = C \cup D
    PROVE  /\ Cardinality(A) \in Nat /\ Cardinality(B) \in Nat
           /\ Cardinality(C) \in Nat /\ Cardinality(D) \in Nat
           /\ Cardinality(A) + Cardinality(B) = Cardinality(C) + Cardinality(D)
<1>1. /\ Cardinality(A) \in Nat /\ Cardinality(B) \in Nat
      /\ Cardinality(C) \in Nat /\ Cardinality(D) \in Nat
  BY FS_CardinalityType
<1>2. Cardinality(A \cap B) = 0 /\ Cardinality(C \cap D) = 0
  BY FS_EmptySet
<1>3. Cardinality(A \cup B) =
          Cardinality(A) + Cardinality(B) - Cardinality(A \cap B)
  BY FS_Union
<1>4. Cardinality(C \cup D) =
          Cardinality(C) + Cardinality(D) - Cardinality(C \cap D)
  BY FS_Union
<1>5. Cardinality(A \cup B) = Cardinality(C \cup D)
  OBVIOUS
<1> QED
  BY <1>1, <1>2, <1>3, <1>4, <1>5

-----------------------------------------------------------------------------
(***************************************************************************)
(* The values at an index of a sorted array.                               *)
(***************************************************************************)

\* Sorted returns a value of the family, with no more than j smaller and more
\* than j that are no larger: qsort's array has one at each index.
LEMMA SortedIs ==
    ASSUME NEW K, IsFiniteSet(K), NEW v \in [K -> Nat],
           NEW j \in Nat, j < Cardinality(K)
    PROVE  /\ Sorted(v, j) \in Nat
           /\ Cardinality({k \in K : v[k] <= Sorted(v, j)}) > j
           /\ Cardinality({k \in K : v[k] < Sorted(v, j)}) <= j
<1> DEFINE V == {v[k] : k \in K}
           Up(x) == {k \in K : v[k] <= x}
           Below(x) == {k \in K : v[k] < x}
           Good == {x \in V : Cardinality(Up(x)) > j}
<1>1. V \subseteq Nat /\ IsFiniteSet(V) /\ Cardinality(K) \in Nat /\ V # {}
  <2>1. IsFiniteSet(V)
    <3>1. v \in Surjection(K, V)
      BY DEF Surjection
    <3> QED
      BY <3>1, FS_Surjection
  <2> QED
    BY <2>1, FS_EmptySet, FS_CardinalityType
<1>2. \A x : /\ IsFiniteSet(Up(x)) /\ Cardinality(Up(x)) \in Nat
            /\ IsFiniteSet(Below(x)) /\ Cardinality(Below(x)) \in Nat
  <2> TAKE x
  <2>1. Up(x) \subseteq K /\ Below(x) \subseteq K
    OBVIOUS
  <2> HIDE DEF Up, Below
  <2> QED
    BY <2>1, FS_Subset, FS_CardinalityType
<1>3. Good # {}
  <2>1. PICK x \in V : \A y \in V : y <= x
    <3> HIDE DEF V
    <3> QED
      BY <1>1, GreatestElement
  <2>2. Up(x) = K
    BY <2>1
  <2> QED
    BY <2>2
<1>4. PICK x \in Good : \A y \in Good : x <= y
  <2>1. Good \subseteq Nat
    BY <1>1
  <2> HIDE DEF Good
  <2> QED
    BY <2>1, <1>3, LeastElement
<1>5. x \in V /\ x \in Nat /\ Cardinality(Up(x)) > j
  BY <1>1, <1>4
<1>6. Cardinality(Below(x)) <= j
  <2> DEFINE Less == {y \in V : y < x}
  <2>1. CASE Less = {}
    <3>1. Below(x) = {}
      BY <2>1
    <3>2. Cardinality(Below(x)) = 0
      BY <3>1, FS_EmptySet
    <3> QED
      BY <3>2
  <2>2. CASE Less # {}
    <3>1. Less \subseteq Nat /\ IsFiniteSet(Less)
      BY <1>1, FS_Subset
    <3>2. PICK y \in Less : \A z \in Less : z <= y
      <4> HIDE DEF Less
      <4> QED
        BY <2>2, <3>1, GreatestElement
    <3>3. y \in V /\ y \in Nat /\ y < x /\ y \notin Good
      BY <1>1, <1>4, <1>5, <3>2
    <3>4. Below(x) = Up(y)
      <4>1. \A k \in K : v[k] < x <=> v[k] <= y
        BY <3>2, <3>3, <1>5
      <4> QED
        BY <4>1
    <3>5. Cardinality(Up(y)) <= j
      <4>1. Cardinality(Up(y)) \in Nat
        BY <1>2
      <4>2. ~(Cardinality(Up(y)) > j)
        BY <3>3
      <4> QED
        BY <4>1, <4>2
    <3> QED
      BY <3>4, <3>5
  <2> QED
    BY <2>1, <2>2
<1>7. /\ Sorted(v, j) \in V
      /\ Cardinality(Up(Sorted(v, j))) > j
      /\ Cardinality(Below(Sorted(v, j))) <= j
  <2>1. DOMAIN v = K
    OBVIOUS
  <2>2. \E y \in V : Cardinality(Below(y)) <= j /\ Cardinality(Up(y)) > j
    BY <1>5, <1>6
  <2>3. Sorted(v, j) =
            CHOOSE y \in V : Cardinality(Below(y)) <= j /\ Cardinality(Up(y)) > j
    BY <2>1 DEF Sorted
  <2> HIDE DEF V, Below, Up
  <2> QED
    BY <2>2, <2>3
<1> QED
  BY <1>1, <1>7

\* Fewer than half of the values are above the value at the middle index.
LEMMA AboveTheMiddle ==
    ASSUME NEW K, IsFiniteSet(K), NEW v \in [K -> Nat],
           NEW j \in Nat, j < Cardinality(K),
           NEW B \in SUBSET K, \A k \in B : v[k] > Sorted(v, j)
    PROVE  /\ Cardinality(B) \in Nat
           /\ Cardinality(B) + j < Cardinality(K)
<1> DEFINE U == {k \in K : v[k] <= Sorted(v, j)}
<1>1. Sorted(v, j) \in Nat /\ Cardinality(U) > j
  BY SortedIs
<1>2. B \cap U = {} /\ B \cup U \subseteq K /\ B \subseteq K /\ U \subseteq K
  BY <1>1
<1> HIDE DEF U
<1>3. /\ IsFiniteSet(B) /\ IsFiniteSet(U) /\ IsFiniteSet(B \cup U)
      /\ Cardinality(B \cup U) <= Cardinality(K)
  BY <1>2, FS_Subset
<1>4. /\ Cardinality(B) \in Nat /\ Cardinality(U) \in Nat
      /\ Cardinality(B \cup U) \in Nat /\ Cardinality(K) \in Nat
  BY <1>3, FS_CardinalityType
<1>5. Cardinality(B \cup U) = Cardinality(B) + Cardinality(U)
  <2>1. Cardinality(B \cap U) = 0
    BY <1>2, FS_EmptySet
  <2>2. Cardinality(B \cup U) =
            Cardinality(B) + Cardinality(U) - Cardinality(B \cap U)
    BY <1>3, FS_Union
  <2> QED
    BY <1>4, <2>1, <2>2
<1> QED
  BY <1>1, <1>3, <1>4, <1>5

\* No more than j values are below the value at index j.
LEMMA BelowTheIndex ==
    ASSUME NEW K, IsFiniteSet(K), NEW v \in [K -> Nat],
           NEW j \in Nat, j < Cardinality(K),
           NEW B \in SUBSET K, \A k \in B : v[k] < Sorted(v, j)
    PROVE  Cardinality(B) \in Nat /\ Cardinality(B) <= j
<1> DEFINE D == {k \in K : v[k] < Sorted(v, j)}
<1>1. Cardinality(D) <= j
  BY SortedIs
<1>2. B \subseteq D /\ D \subseteq K
  OBVIOUS
<1> HIDE DEF D
<1>3. /\ IsFiniteSet(D) /\ IsFiniteSet(B)
      /\ Cardinality(B) <= Cardinality(D)
  BY <1>2, FS_Subset
<1>4. Cardinality(B) \in Nat /\ Cardinality(D) \in Nat
  BY <1>3, FS_CardinalityType
<1> QED
  BY <1>1, <1>3, <1>4

\* At most half of the values are below the median (analyze.c:51-56): an index
\* one too high would leave more than half there.
LEMMA FewAreShort ==
    ASSUME NEW K, IsFiniteSet(K), K # {}, NEW v \in [K -> Nat]
    PROVE  2 * Cardinality({k \in K : 2 * v[k] < TwiceMedian(v)})
               <= Cardinality(K)
<1> DEFINE n == Cardinality(K)
           med == TwiceMedian(v)
           B == {k \in K : 2 * v[k] < med}
<1>1. n \in Nat /\ n > 0 /\ DOMAIN v = K
  BY FS_EmptySet, FS_CardinalityType
<1>2. CASE n % 2 = 1
  <2> DEFINE j == n \div 2
  <2>1. j \in Nat /\ n = 2 * j + 1
    BY <1>1, <1>2
  <2>2. Sorted(v, j) \in Nat
    <3>1. j < Cardinality(K)
      BY <1>1, <2>1
    <3> HIDE DEF j
    <3> QED
      BY <2>1, <3>1, SortedIs
  <2>3. med = 2 * Sorted(v, j)
    BY <1>1, <1>2 DEF TwiceMedian
  <2>4. \A k \in B : v[k] < Sorted(v, j)
    <3> HIDE DEF med, j
    <3> QED
      BY <2>2, <2>3
  <2>5. Cardinality(B) \in Nat /\ Cardinality(B) <= j
    <3>1. B \in SUBSET K /\ j < Cardinality(K)
      BY <1>1, <2>1
    <3> HIDE DEF B, j
    <3> QED
      BY <2>1, <2>4, <3>1, BelowTheIndex
  <2> HIDE DEF B, j, n
  <2> QED
    BY <1>1, <2>1, <2>5 DEF B, n
<1>3. CASE n % 2 # 1
  <2> DEFINE j == n \div 2
             a == Sorted(v, j - 1)
             b == Sorted(v, j)
             m == IF a <= b THEN j ELSE j - 1
  <2>1. j \in Nat /\ n = 2 * j /\ j > 0
    BY <1>1, <1>3
  <2>2. a \in Nat /\ b \in Nat /\ j - 1 \in Nat /\ j - 1 < n /\ j < n
    <3>1. j - 1 \in Nat /\ j - 1 < n /\ j < n
      BY <1>1, <2>1
    <3> HIDE DEF j
    <3> QED
      BY <2>1, <3>1, SortedIs
  <2>3. med = a + b
    BY <1>1, <1>3 DEF TwiceMedian
  <2>4. m \in Nat /\ m < n /\ m <= j
    BY <2>1, <2>2
  <2>5. \A k \in B : v[k] < Sorted(v, m)
    <3>1. Sorted(v, m) = IF a <= b THEN b ELSE a
      OBVIOUS
    <3> HIDE DEF med, a, b, m, j
    <3> QED
      BY <3>1, <2>2, <2>3
  <2>6. Cardinality(B) \in Nat /\ Cardinality(B) <= m
    <3>1. B \in SUBSET K
      OBVIOUS
    <3> HIDE DEF B, m
    <3> QED
      BY <2>4, <2>5, <3>1, BelowTheIndex
  <2> HIDE DEF B, j, n, m
  <2> QED
    BY <1>1, <2>1, <2>4, <2>6 DEF B, n
<1> QED
  BY <1>2, <1>3

\* The latency rule, applied to a family of latencies with its own median,
\* calls at most half of them bug-length (analyze.c:45-76).
LEMMA FewAreBugs ==
    ASSUME NEW K, IsFiniteSet(K), K # {}, NEW v \in [K -> Nat]
    PROVE  2 * Cardinality({k \in K : ClassifyLatency(v[k], TwiceMedian(v))})
               <= Cardinality(K)
<1> DEFINE n == Cardinality(K)
           med == TwiceMedian(v)
           B == {k \in K : ClassifyLatency(v[k], med)}
<1>1. n \in Nat /\ n > 0 /\ DOMAIN v = K
  BY FS_EmptySet, FS_CardinalityType
<1>2. \A x \in Nat : BugMultiplier * x >= x
  <2> TAKE x \in Nat
  <2>1. PICK b \in Nat : BugMultiplier = b + 1
    <3>1. BugMultiplier \in Nat \ {0}
      BY ThresholdAssumption
    <3> QED
      BY <3>1
  <2>2. (b + 1) * x = b * x + x /\ b * x \in Nat
    OBVIOUS
  <2> QED
    BY <2>1, <2>2
<1>3. CASE n % 2 = 1
  <2> DEFINE j == n \div 2
  <2>1. j \in Nat /\ n = 2 * j + 1
    BY <1>1, <1>3
  <2>2. Sorted(v, j) \in Nat
    <3>1. j < Cardinality(K)
      BY <1>1, <2>1
    <3> HIDE DEF j
    <3> QED
      BY <2>1, <3>1, SortedIs
  <2>3. med = 2 * Sorted(v, j)
    BY <1>1, <1>3 DEF TwiceMedian
  <2>4. \A k \in B : v[k] > Sorted(v, j)
    <3> HIDE DEF med, j
    <3> TAKE k \in B
    <3>1. v[k] \in Nat /\ 2 * v[k] > BugMultiplier * med
      BY DEF ClassifyLatency
    <3>2. BugMultiplier * med >= med /\ BugMultiplier * med \in Int
      BY <1>2, <2>2, <2>3, ThresholdAssumption
    <3> QED
      BY <3>1, <3>2, <2>2, <2>3
  <2>5. Cardinality(B) \in Nat /\ Cardinality(B) + j < n
    <3>1. B \in SUBSET K /\ j < Cardinality(K)
      BY <1>1, <2>1
    <3> HIDE DEF B, j
    <3> QED
      BY <2>1, <2>4, <3>1, AboveTheMiddle
  <2> HIDE DEF B, j, n
  <2> QED
    BY <1>1, <2>1, <2>5 DEF B, n
<1>4. CASE n % 2 # 1
  <2> DEFINE j == n \div 2
             a == Sorted(v, j - 1)
             b == Sorted(v, j)
             m == IF a <= b THEN j - 1 ELSE j
  <2>1. j \in Nat /\ n = 2 * j /\ j > 0
    BY <1>1, <1>4
  <2>2. a \in Nat /\ b \in Nat /\ j - 1 \in Nat /\ j - 1 < n /\ j < n
    <3>1. j - 1 \in Nat /\ j - 1 < n /\ j < n
      BY <1>1, <2>1
    <3> HIDE DEF j
    <3> QED
      BY <2>1, <3>1, SortedIs
  <2>3. med = a + b
    BY <1>1, <1>4 DEF TwiceMedian
  <2>4. m \in Nat /\ m < n /\ m >= j - 1
    BY <2>1, <2>2
  <2>5. \A k \in B : v[k] > Sorted(v, m)
    <3>1. Sorted(v, m) = IF a <= b THEN a ELSE b
      OBVIOUS
    <3> HIDE DEF med, a, b, m, j
    <3> TAKE k \in B
    <3>2. v[k] \in Nat /\ 2 * v[k] > BugMultiplier * med
      BY DEF ClassifyLatency
    <3>3. BugMultiplier * med >= med /\ BugMultiplier * med \in Int
      BY <1>2, <2>2, <2>3, ThresholdAssumption
    <3> QED
      BY <3>1, <3>2, <3>3, <2>2, <2>3
  <2>6. Cardinality(B) \in Nat /\ Cardinality(B) + m < n
    <3>1. B \in SUBSET K
      OBVIOUS
    <3> HIDE DEF B, m
    <3> QED
      BY <2>4, <2>5, <3>1, AboveTheMiddle
  <2> HIDE DEF B, j, n, m
  <2> QED
    BY <1>1, <2>1, <2>4, <2>6 DEF B, n
<1> QED
  BY <1>3, <1>4

-----------------------------------------------------------------------------
(***************************************************************************)
(* The records of a run.                                                   *)
(***************************************************************************)

LEMMA RecordsAre ==
    ASSUME NEW r \in Runs
    PROVE  /\ IsFiniteSet(DOMAIN r) /\ IsFiniteSet(Started(r))
           /\ Started(r) \subseteq DOMAIN r
           /\ \A k \in Started(r) :
                 /\ r[k].ready \in Nat /\ r[k].start \in Nat /\ r[k].end \in Nat
                 /\ 0 < r[k].ready /\ r[k].ready <= r[k].start
                 /\ r[k].start <= r[k].end
           /\ \A k \in DOMAIN r : r[k].end \in Nat
           /\ \A k \in DOMAIN r \ Started(r) : r[k].end = 0
<1> DEFINE Rec == [ready : Nat, start : Nat, end : Nat, shard : {0, 1}]
<1>1. r \in Seq(Rec)
  BY RunAssumption
<1>2. DOMAIN r = 1 .. Len(r) /\ Len(r) \in Nat
  BY <1>1
<1>3. IsFiniteSet(DOMAIN r)
  <2>1. IsFiniteSet(1 .. Len(r))
    BY <1>2, FS_Interval
  <2> QED
    BY <1>2, <2>1
<1>4. Started(r) \subseteq DOMAIN r /\ IsFiniteSet(Started(r))
  BY <1>3, FS_Subset DEF Started
<1>5. \A k \in DOMAIN r : r[k] \in Rec
  <2> HIDE DEF Rec
  <2> QED
    BY <1>1, <1>2
<1>6. \A k \in DOMAIN r :
         r[k].ready \in Nat /\ r[k].start \in Nat /\ r[k].end \in Nat
  BY <1>5
<1>7. \A k \in DOMAIN r :
          \/ r[k].start = 0 /\ r[k].end = 0
          \/ 0 < r[k].ready /\ r[k].ready <= r[k].start
                            /\ r[k].start <= r[k].end
  BY RunAssumption
<1> QED
  BY <1>3, <1>4, <1>6, <1>7 DEF Started

LEMMA LatenciesAre ==
    ASSUME NEW r \in Runs
    PROVE  Latencies(r) \in [Started(r) -> Nat]
BY RecordsAre DEF Latencies

-----------------------------------------------------------------------------
(***************************************************************************)
(* The median rule.                                                        *)
(***************************************************************************)

BugsInv ==
    /\ run \in Runs
    /\ pc = "summarize" => summary = NoSummary
    /\ MedianInTheMiddle

LEMMA BugsInitially == AnalysisInit => BugsInv
BY DEF AnalysisInit, BugsInv, MedianInTheMiddle

LEMMA BugsNext == BugsInv /\ [AnalysisNext]_analysisVars => BugsInv'
<1> SUFFICES ASSUME BugsInv, [AnalysisNext]_analysisVars
             PROVE  BugsInv'
  OBVIOUS
<1>1. CASE Summarize
  <2>1. run \in Runs /\ run' = run /\ Started(run) # {}
    BY <1>1 DEF BugsInv, Summarize, input
  <2> DEFINE lat == Latencies(run)
             B == {k \in Started(run) : ClassifyLatency(lat[k], TwiceMedian(lat))}
  <2>2. /\ summary'.bugs = Cardinality(B)
        /\ summary'.started = Cardinality(Started(run))
    BY <1>1 DEF Summarize
  <2>3. 2 * Cardinality(B) <= Cardinality(Started(run))
    <3>1. lat \in [Started(run) -> Nat] /\ IsFiniteSet(Started(run))
      BY <2>1, LatenciesAre, RecordsAre
    <3> HIDE DEF lat
    <3> QED
      BY <2>1, <3>1, FewAreBugs
  <2>4. summary'.median = TwiceMedian(lat)
    BY <1>1 DEF Summarize
  <2>5. 2 * Cardinality({k \in Started(run) : 2 * lat[k] < TwiceMedian(lat)})
            <= Cardinality(Started(run))
    <3>1. lat \in [Started(run) -> Nat] /\ IsFiniteSet(Started(run))
      BY <2>1, LatenciesAre, RecordsAre
    <3> HIDE DEF lat
    <3> QED
      BY <2>1, <3>1, FewAreShort
  <2> HIDE DEF B
  <2> QED
    BY <1>1, <2>1, <2>2, <2>3, <2>4, <2>5 DEF BugsInv, MedianInTheMiddle, Summarize
<1>2. CASE SummarizeNothing
  <2>1. /\ summary' = NoSummary /\ run' = run /\ pc' = "done"
        /\ Started(run) = {}
    BY <1>2 DEF SummarizeNothing, input, BugsInv
  <2>2. \A S : S \subseteq Started(run) => Cardinality(S) = 0
    BY <2>1, FS_EmptySet
  <2>3. Cardinality({k \in Started(run) :
                        2 * Latencies(run)[k] < NoSummary.median}) = 0
    BY <2>2
  <2> QED
    BY <2>1, <2>3 DEF BugsInv, MedianInTheMiddle, NoSummary
<1>3. CASE Collect \/ Scan \/ Finish \/ AnalysisDone \/ UNCHANGED analysisVars
  <2>1. summary' = summary /\ run' = run /\ (pc' = pc \/ pc # "summarize")
        /\ (pc' = "summarize" => pc = "summarize")
    BY <1>3 DEF Collect, Scan, Finish, AnalysisDone, input, analysisVars
  <2> QED
    BY <2>1 DEF BugsInv, MedianInTheMiddle
<1> QED
  BY <1>1, <1>2, <1>3 DEF AnalysisNext

\* analyze.c:51-56, 72-76: at most half of the tasks that started waited less
\* than the median, and, relative to it, at most half are bug-length, whatever
\* the multiplier.
THEOREM MediansAreInTheMiddle == AnalysisSpec => []MedianInTheMiddle
<1>1. BugsInv => MedianInTheMiddle
  BY DEF BugsInv
<1> QED
  BY BugsInitially, BugsNext, <1>1, PTL DEF AnalysisSpec

-----------------------------------------------------------------------------
(***************************************************************************)
(* The total length of a set of intervals is the number of its instants.   *)
(***************************************************************************)

\* The intervals between 0 and l, and the instants of a set of them, each
\* with its interval.
Intervals(l) == {e \in (0 .. l) \X (0 .. l) : e[1] < e[2]}

Instants(S) == {u \in S \X Nat : u[1][1] <= u[2] /\ u[2] < u[1][2]}

LEMMA InstantsFinite ==
    ASSUME NEW l \in Nat, NEW S \in SUBSET Intervals(l)
    PROVE  /\ IsFiniteSet(S) /\ IsFiniteSet(Instants(S))
           /\ Cardinality(Instants(S)) \in Nat
<1>1. IsFiniteSet(0 .. l)
  BY FS_Interval
<1>2. IsFiniteSet((0 .. l) \X (0 .. l))
  BY <1>1, FS_Product
<1>3. IsFiniteSet(S)
  <2>1. S \subseteq (0 .. l) \X (0 .. l)
    BY DEF Intervals
  <2> QED
    BY <1>2, <2>1, FS_Subset
<1>4. IsFiniteSet(S \X (0 .. l))
  BY <1>1, <1>3, FS_Product
<1>5. Instants(S) \subseteq S \X (0 .. l)
  BY DEF Instants, Intervals
<1>6. IsFiniteSet(Instants(S))
  BY <1>4, <1>5, FS_Subset
<1> QED
  BY <1>3, <1>6, FS_CardinalityType

LEMMA InstantsOfOne ==
    ASSUME NEW l \in Nat, NEW e \in Intervals(l)
    PROVE  Cardinality(Instants({e})) = Length(e) /\ Length(e) \in Nat
<1>1. e[1] \in Nat /\ e[2] \in Nat /\ e[1] < e[2]
  BY DEF Intervals
<1> DEFINE D == e[1] .. e[2] - 1
           f == [t \in D |-> <<e, t>>]
<1>2. f \in Bijection(D, Instants({e}))
  <2>1. f \in [D -> Instants({e})]
    <3>1. ASSUME NEW t \in D
          PROVE  <<e, t>> \in Instants({e})
      <4>1. t \in Nat /\ e[1] <= t /\ t < e[2]
        BY <1>1
      <4> QED
        BY <4>1 DEF Instants
    <3> QED
      BY <3>1
  <2>2. \A s, t \in D : f[s] = f[t] => s = t
    OBVIOUS
  <2>3. \A u \in Instants({e}) : u[2] \in D /\ f[u[2]] = u
    <3> TAKE u \in Instants({e})
    <3>1. u = <<e, u[2]>> /\ u[2] \in Nat /\ e[1] <= u[2] /\ u[2] < e[2]
      BY DEF Instants
    <3>2. u[2] \in D
      BY <1>1, <3>1
    <3> QED
      BY <3>1, <3>2
  <2> HIDE DEF f, D
  <2> QED
    BY <2>1, <2>2, <2>3 DEF Bijection, Injection, Surjection, IsInjective
<1>3. IsFiniteSet(D) /\ Cardinality(D) = e[2] - e[1]
  <2>1. e[1] \in Int /\ e[2] - 1 \in Int
    BY <1>1
  <2>2. IsFiniteSet(D) /\ Cardinality(D) = IF e[1] > e[2] - 1 THEN 0
                                           ELSE e[2] - 1 - e[1] + 1
    BY <2>1, FS_Interval
  <2> HIDE DEF D
  <2> QED
    BY <1>1, <2>2
<1>4. Cardinality(Instants({e})) = Cardinality(D)
  <2>1. ExistsBijection(D, Instants({e}))
    BY <1>2 DEF ExistsBijection
  <2> HIDE DEF D, f
  <2> QED
    BY <1>3, <2>1, FS_Bijection
<1> QED
  BY <1>1, <1>3, <1>4 DEF Length

LEMMA InstantsAdd ==
    ASSUME NEW l \in Nat, NEW S \in SUBSET Intervals(l),
           NEW e \in Intervals(l), e \notin S
    PROVE  Cardinality(Instants(S \cup {e})) =
               Length(e) + Cardinality(Instants(S))
<1>1. /\ IsFiniteSet(Instants(S)) /\ IsFiniteSet(Instants({e}))
      /\ Cardinality(Instants(S)) \in Nat
  <2>1. {e} \in SUBSET Intervals(l)
    OBVIOUS
  <2> QED
    BY <2>1, InstantsFinite
<1>2. Cardinality(Instants(S \cup {e})) =
          Cardinality(Instants(S) \cup Instants({e}))
  <2>1. Instants(S \cup {e}) = Instants(S) \cup Instants({e})
    BY DEF Instants
  <2> QED
    BY <2>1
<1>3. Cardinality(Instants(S) \cap Instants({e})) = 0
  <2>1. Instants(S) \cap Instants({e}) = {}
    BY DEF Instants
  <2> QED
    BY <2>1, FS_EmptySet
<1>4. Cardinality(Instants(S) \cup Instants({e})) =
          Cardinality(Instants(S)) + Cardinality(Instants({e}))
              - Cardinality(Instants(S) \cap Instants({e}))
  BY <1>1, FS_Union
<1>5. Cardinality(Instants({e})) = Length(e) /\ Length(e) \in Nat
  BY InstantsOfOne
<1> QED
  BY <1>1, <1>2, <1>3, <1>4, <1>5

\* The function that MapThenSumSet defines by recursion.
Totals(S) ==
    LET iter[s \in SUBSET S] ==
          IF s = {} THEN 0
          ELSE LET x == CHOOSE x \in s : TRUE
               IN  Length(x) + iter[s \ {x}]
    IN  iter

\* It counts the instants: that function satisfies the recursion, and by
\* induction on the size of the set no other does.
LEMMA SumIsInstants ==
    ASSUME NEW l \in Nat, NEW S \in SUBSET Intervals(l)
    PROVE  MapThenSumSet(Length, S) = Cardinality(Instants(S))
<1> DEFINE first(s) == CHOOSE x \in s : TRUE
           Total(f) == f = [s \in SUBSET S |->
                              IF s = {} THEN 0
                              ELSE Length(first(s)) + f[s \ {first(s)}]]
           counts == [s \in SUBSET S |-> Cardinality(Instants(s))]
           sum == Totals(S)
           Wrong == {s \in SUBSET S : sum[s] # Cardinality(Instants(s))}
           Sizes == {Cardinality(s) : s \in Wrong}
<1>1. MapThenSumSet(Length, S) = Totals(S)[S]
  BY DEF MapThenSumSet, MapThenFoldSet, Totals
<1>2. Totals(S) = CHOOSE f : Total(f)
  BY DEF Totals
<1>3. ASSUME NEW s \in SUBSET S, s # {}
      PROVE  /\ first(s) \in s /\ s \ {first(s)} \in SUBSET S
             /\ Cardinality(Instants(s)) = Length(first(s))
                    + Cardinality(Instants(s \ {first(s)}))
  <2>1. first(s) \in s
    BY <1>3
  <2>2. /\ first(s) \in Intervals(l) /\ s \ {first(s)} \in SUBSET Intervals(l)
        /\ first(s) \notin s \ {first(s)}
        /\ (s \ {first(s)}) \cup {first(s)} = s
    BY <2>1
  <2> HIDE DEF first
  <2>3. Cardinality(Instants((s \ {first(s)}) \cup {first(s)})) =
            Length(first(s)) + Cardinality(Instants(s \ {first(s)}))
    BY <2>2, InstantsAdd
  <2> QED
    BY <2>1, <2>2, <2>3
<1>4. Cardinality(Instants({})) = 0
  <2>1. Instants({}) = {}
    BY DEF Instants
  <2> QED
    BY <2>1, FS_EmptySet
<1>5. Total(counts)
  <2> HIDE DEF first
  <2> QED
    BY <1>3, <1>4
<1>6. Total(sum)
  <2> HIDE DEF Total, counts
  <2> QED
    BY <1>2, <1>5
<1>7. Wrong = {}
  <2>1. SUFFICES ASSUME Wrong # {} PROVE FALSE
    OBVIOUS
  <2>2. \A s \in SUBSET S : IsFiniteSet(s) /\ Cardinality(s) \in Nat
    <3>1. \A s \in SUBSET S : s \in SUBSET Intervals(l)
      OBVIOUS
    <3> QED
      BY <3>1, InstantsFinite, FS_CardinalityType
  <2>3. Sizes \subseteq Nat /\ Sizes # {}
    BY <2>1, <2>2
  <2>4. PICK c \in Sizes : \A d \in Sizes : c <= d
    <3> HIDE DEF Sizes
    <3> QED
      BY <2>3, LeastElement
  <2>5. PICK s \in Wrong : c = Cardinality(s)
    BY <2>4
  <2>6. s \in SUBSET S /\ sum[s] # Cardinality(Instants(s))
    BY <2>5
  <2>7. s # {}
    <3> HIDE DEF sum, first
    <3> QED
      BY <2>6, <1>4, <1>6
  <2> DEFINE t == s \ {first(s)}
  <2>8. t \in SUBSET S /\ first(s) \in s
    BY <2>6, <2>7, <1>3
  <2>9. sum[s] = Length(first(s)) + sum[t]
    <3> HIDE DEF sum, first
    <3> QED
      BY <2>6, <2>7, <1>6
  <2>10. Cardinality(t) < c
    <3>1. Cardinality(t) = Cardinality(s) - 1
      <4> HIDE DEF first
      <4> QED
        BY <2>2, <2>6, <2>8, FS_RemoveElement
    <3> QED
      BY <2>2, <2>5, <2>6, <3>1
  <2>11. t \notin Wrong
    <3>1. Cardinality(t) \in Nat
      BY <2>2, <2>8
    <3>2. \A w \in Wrong : c <= Cardinality(w)
      BY <2>4
    <3> HIDE DEF Wrong, t
    <3> QED
      BY <2>3, <2>10, <3>1, <3>2
  <2>12. sum[t] = Cardinality(Instants(t))
    BY <2>8, <2>11
  <2>13. Cardinality(Instants(s)) = Length(first(s)) + Cardinality(Instants(t))
    BY <2>6, <2>7, <1>3
  <2> HIDE DEF sum, t, first
  <2> QED
    BY <2>6, <2>9, <2>12, <2>13
<1> QED
  <2>1. S \notin Wrong /\ S \in SUBSET S
    BY <1>7
  <2> HIDE DEF sum
  <2>2. sum[S] = Cardinality(Instants(S))
    BY <2>1
  <2> QED
    BY <1>1, <2>2 DEF sum

-----------------------------------------------------------------------------
(***************************************************************************)
(* How many intervals cover an instant.                                    *)
(***************************************************************************)

\* The intervals from a[k] to b[k] that cover t, and the k at which a is u.
Covering(K, a, b, t) == {k \in K : a[k] <= t /\ t < b[k]}
Where(K, a, u) == {k \in K : a[k] = u}

NoneBetween(K, a, T, U) == \A k \in K : a[k] <= T \/ U <= a[k]

\* From T to U, if no end point lies between: those that start at U come in,
\* those that end at U go out.
LEMMA Crossing ==
    ASSUME NEW K, IsFiniteSet(K), NEW a \in [K -> Nat], NEW b \in [K -> Nat],
           \A k \in K : a[k] <= b[k], NEW T \in Nat, NEW U \in Nat, T < U,
           NoneBetween(K, a, T, U), NoneBetween(K, b, T, U)
    PROVE  /\ Cardinality(Covering(K, a, b, T)) \in Nat
           /\ Cardinality(Where(K, a, U)) \in Nat
           /\ Cardinality(Where(K, b, U)) \in Nat
           /\ Cardinality(Covering(K, a, b, U)) =
                  Cardinality(Covering(K, a, b, T))
                  + Cardinality(Where(K, a, U)) - Cardinality(Where(K, b, U))
<1> USE DEF Covering, Where, NoneBetween
<1> DEFINE Old == Covering(K, a, b, T)
           New == Covering(K, a, b, U)
           In  == Where(K, a, U)
           Out == Where(K, b, U)
<1>1. \A k \in K : a[k] \in Nat /\ b[k] \in Nat
  OBVIOUS
<1>2. /\ Old \subseteq K /\ New \subseteq K /\ In \subseteq K /\ Out \subseteq K
      /\ Old \cap In = {} /\ New \cap Out = {}
  OBVIOUS
<1>3. Old \cup In = New \cup Out
  <2>1. ASSUME NEW k \in K
        PROVE  k \in Old \/ k \in In <=> k \in New \/ k \in Out
    <3>1. /\ a[k] \in Nat /\ b[k] \in Nat /\ a[k] <= b[k]
          /\ (a[k] <= T \/ U <= a[k]) /\ (b[k] <= T \/ U <= b[k])
      BY <1>1
    <3>2. k \in Old \/ k \in In <=> a[k] <= U /\ U <= b[k]
      BY <3>1
    <3>3. k \in New \/ k \in Out <=> a[k] <= U /\ U <= b[k]
      BY <3>1
    <3> QED
      BY <3>2, <3>3
  <2> HIDE DEF Old, New, In, Out
  <2> QED
    BY <1>2, <2>1
<1> HIDE DEF Old, New, In, Out
<1>4. /\ IsFiniteSet(Old) /\ IsFiniteSet(New)
      /\ IsFiniteSet(In) /\ IsFiniteSet(Out)
  BY <1>2, FS_Subset
<1>5. /\ Cardinality(Old) \in Nat /\ Cardinality(In) \in Nat
      /\ Cardinality(New) \in Nat /\ Cardinality(Out) \in Nat
      /\ Cardinality(Old) + Cardinality(In) =
             Cardinality(New) + Cardinality(Out)
  <2>1. Old \cap In = {} /\ New \cap Out = {}
    BY <1>2
  <2> QED
    BY ONLY <2>1, <1>3, <1>4, SplitTwice
<1>6. Cardinality(New) = Cardinality(Old) + Cardinality(In) - Cardinality(Out)
  BY <1>5
<1> HIDE DEF Covering, Where
<1> QED
  BY <1>5, <1>6 DEF Old, New, In, Out

\* Between two end points nothing changes.
LEMMA NoCrossing ==
    ASSUME NEW r \in Runs, NEW T \in Nat, NEW t \in Nat, T <= t,
           \A k \in Started(r) : /\ r[k].ready <= T \/ t < r[k].ready
                                 /\ r[k].start <= T \/ t < r[k].start
                                 /\ r[k].end <= T \/ t < r[k].end
    PROVE  WaitingAt(r, t) = WaitingAt(r, T) /\ BusyAt(r, t) = BusyAt(r, T)
<1>1. \A k \in Started(r) :
         r[k].ready \in Nat /\ r[k].start \in Nat /\ r[k].end \in Nat
  BY RecordsAre
<1>2. {k \in Started(r) : r[k].ready <= t /\ t < r[k].start} =
      {k \in Started(r) : r[k].ready <= T /\ T < r[k].start}
  BY <1>1
<1>3. {k \in Started(r) : r[k].start <= t /\ t < r[k].end} =
      {k \in Started(r) : r[k].start <= T /\ T < r[k].end}
  BY <1>1
<1>4. WaitingAt(r, t) = WaitingAt(r, T)
  BY <1>2 DEF WaitingAt
<1>5. BusyAt(r, t) = BusyAt(r, T)
  BY <1>3 DEF BusyAt
<1> QED
  BY <1>4, <1>5

\* Who waits, waits within the span of the run.
LEMMA WaitingMeans ==
    ASSUME NEW r \in Runs, NEW t \in Int, WaitingAt(r, t) > 0
    PROVE  \E k \in Started(r) : r[k].ready <= t /\ t < r[k].start
<1> DEFINE W == {k \in Started(r) : r[k].ready <= t /\ t < r[k].start}
<1>1. Cardinality(W) > 0
  BY DEF WaitingAt
<1>2. W # {}
  <2>1. Cardinality({}) = 0
    BY FS_EmptySet
  <2> HIDE DEF W
  <2> QED
    BY <1>1, <2>1
<1> QED
  BY <1>2

LEMMA NobodyWaits ==
    ASSUME NEW r \in Runs, NEW t \in Int,
           \A k \in Started(r) : ~(r[k].ready <= t /\ t < r[k].start)
    PROVE  WaitingAt(r, t) = 0
<1>1. {k \in Started(r) : r[k].ready <= t /\ t < r[k].start} = {}
  OBVIOUS
<1> QED
  BY <1>1, FS_EmptySet DEF WaitingAt

LEMMA NobodyWorks ==
    ASSUME NEW r \in Runs, NEW t \in Int,
           \A k \in Started(r) : ~(r[k].start <= t /\ t < r[k].end)
    PROVE  BusyAt(r, t) = 0
<1>1. {k \in Started(r) : r[k].start <= t /\ t < r[k].end} = {}
  OBVIOUS
<1> QED
  BY <1>1, FS_EmptySet DEF BusyAt

\* The first stamp and the last.
LEMMA SpanIs ==
    ASSUME NEW r \in Runs, Started(r) # {}
    PROVE  /\ LatestEnd(r) \in Nat /\ EarliestReady(r) \in Nat
           /\ \A k \in Started(r) : /\ EarliestReady(r) <= r[k].ready
                                    /\ r[k].end <= LatestEnd(r)
           /\ \E k \in Started(r) : LatestEnd(r) = r[k].end
<1> DEFINE E == {r[k].end : k \in DOMAIN r}
           R == {r[k].ready : k \in Started(r)}
<1>1. E \subseteq Nat /\ R \subseteq Nat /\ E # {} /\ R # {}
  BY RecordsAre
<1>2. IsFiniteSet(E)
  <2> DEFINE f == [k \in DOMAIN r |-> r[k].end]
  <2>1. f \in Surjection(DOMAIN r, E)
    BY DEF Surjection
  <2> QED
    BY <2>1, RecordsAre, FS_Surjection
<1>3. LatestEnd(r) \in E /\ \A x \in E : x <= LatestEnd(r)
  <2>1. LatestEnd(r) = CHOOSE x \in E : \A y \in E : x >= y
    BY DEF LatestEnd, Max
  <2> HIDE DEF E
  <2>2. \E x \in E : \A y \in E : y <= x
    BY <1>1, <1>2, GreatestElement
  <2>3. \E x \in E : \A y \in E : x >= y
    BY <1>1, <2>2
  <2>4. LatestEnd(r) \in E /\ \A y \in E : LatestEnd(r) >= y
    BY <2>1, <2>3
  <2> QED
    BY <1>1, <2>4
<1>4. EarliestReady(r) \in R /\ \A x \in R : EarliestReady(r) <= x
  <2>1. EarliestReady(r) = CHOOSE x \in R : \A y \in R : x =< y
    BY DEF EarliestReady, Min
  <2> HIDE DEF R
  <2>2. \E x \in R : \A y \in R : x <= y
    BY <1>1, LeastElement
  <2> QED
    BY <2>1, <2>2
<1>5. LatestEnd(r) \in Nat /\ EarliestReady(r) \in Nat
  <2> HIDE DEF E, R
  <2> QED
    BY <1>1, <1>3, <1>4
<1>6. \A k \in Started(r) : r[k].end \in E /\ r[k].ready \in R
  BY RecordsAre
<1>7. \E k \in Started(r) : LatestEnd(r) = r[k].end
  <2>1. PICK j \in DOMAIN r : LatestEnd(r) = r[j].end
    BY <1>3
  <2>2. CASE j \in Started(r)
    BY <2>1, <2>2
  <2>3. CASE j \notin Started(r)
    <3>1. LatestEnd(r) = 0
      BY <2>1, <2>3, RecordsAre
    <3>2. PICK k \in Started(r) : TRUE
      OBVIOUS
    <3>3. r[k].end \in Nat /\ r[k].end > 0 /\ r[k].end <= LatestEnd(r)
      <4>1. r[k].end \in Nat /\ r[k].end > 0
        BY RecordsAre
      <4> HIDE DEF E
      <4> QED
        BY <4>1, <1>3, <1>6
    <3> QED
      BY <3>1, <3>3
  <2> QED
    BY <2>2, <2>3
<1> HIDE DEF E, R
<1> QED
  BY <1>3, <1>4, <1>5, <1>6, <1>7

-----------------------------------------------------------------------------
(***************************************************************************)
(* The events of a run.                                                    *)
(***************************************************************************)

AllEvents  == UNION {EventsOf(k) : k \in Started(run)}
Ahead(T)   == {e \in AllEvents : e.at > T}
Stamped(U) == {e \in AllEvents : e.at = U}

ReadyEvent(k) == [k |-> k, at |-> run[k].ready, waiting |-> 1,  busy |-> 0]
StartEvent(k) == [k |-> k, at |-> run[k].start, waiting |-> -1, busy |-> 1]
EndEvent(k)   == [k |-> k, at |-> run[k].end,   waiting |-> 0,  busy |-> -1]

LEMMA EventsAre ==
    /\ \A k \in Started(run) : /\ ReadyEvent(k) \in AllEvents
                               /\ StartEvent(k) \in AllEvents
                               /\ EndEvent(k) \in AllEvents
    /\ \A e \in AllEvents : \E k \in Started(run) :
          e = ReadyEvent(k) \/ e = StartEvent(k) \/ e = EndEvent(k)
<1>1. \A k : EventsOf(k) = {ReadyEvent(k), StartEvent(k), EndEvent(k)}
  BY DEF EventsOf, ReadyEvent, StartEvent, EndEvent
<1> QED
  BY <1>1 DEF AllEvents

\* As many events of one kind as records.
LEMMA AsManyEvents ==
    ASSUME NEW K, IsFiniteSet(K), NEW f, f = [k \in K |-> f[k]],
           \A j, k \in K : f[j] = f[k] => j = k,
           NEW E, \A k \in K : f[k] \in E, \A e \in E : \E k \in K : e = f[k]
    PROVE  Cardinality(E) = Cardinality(K)
<1>1. f \in Bijection(K, E)
  <2>1. f \in [K -> E]
    OBVIOUS
  <2> QED
    BY <2>1 DEF Bijection, Injection, Surjection, IsInjective
<1> QED
  BY <1>1, FS_Bijection DEF ExistsBijection

\* If the events of one kind are those whose field is delta, EventCount finds
\* one for each record with that stamp.
LEMMA KindCount ==
    ASSUME run \in Runs, NEW U, NEW field, NEW delta, NEW f,
           f = [k \in Started(run) |-> f[k]],
           \A j, k \in Started(run) : f[j] = f[k] => j = k,
           \A k \in Started(run) : f[k] \in AllEvents /\ f[k][field] = delta,
           \A e \in AllEvents : e[field] = delta =>
               \E k \in Started(run) : e = f[k]
    PROVE  EventCount(Stamped(U), field, delta) =
               Cardinality({k \in Started(run) : f[k].at = U})
<1> DEFINE K == {k \in Started(run) : f[k].at = U}
           E == {e \in Stamped(U) : e[field] = delta}
           g == [k \in K |-> f[k]]
<1>1. IsFiniteSet(K)
  BY RecordsAre, FS_Subset
<1>2. \A j, k \in K : g[j] = g[k] => j = k
  OBVIOUS
<1>3. \A k \in K : g[k] \in E
  BY DEF Stamped
<1>4. \A e \in E : \E k \in K : e = g[k]
  BY DEF Stamped
<1>5. g = [k \in K |-> g[k]]
  OBVIOUS
<1> HIDE DEF g, K, E
<1>6. Cardinality(E) = Cardinality(K)
  BY <1>1, <1>2, <1>3, <1>4, <1>5, AsManyEvents
<1> QED
  BY <1>6 DEF EventCount, E, K

LEMMA ReadyCount ==
    ASSUME run \in Runs, NEW U
    PROVE  EventCount(Stamped(U), "waiting", 1) =
               Cardinality({k \in Started(run) : run[k].ready = U})
<1> DEFINE f == [k \in Started(run) |-> ReadyEvent(k)]
<1>1. /\ f = [k \in Started(run) |-> f[k]]
      /\ \A j, k \in Started(run) : f[j] = f[k] => j = k
  BY DEF ReadyEvent
<1>2. \A k \in Started(run) : /\ f[k] \in AllEvents /\ f[k]["waiting"] = 1
                              /\ f[k].at = run[k].ready
  BY EventsAre DEF ReadyEvent
<1>3. \A e \in AllEvents : e["waiting"] = 1 =>
         \E k \in Started(run) : e = f[k]
  BY EventsAre DEF StartEvent, EndEvent
<1> HIDE DEF f
<1>4. EventCount(Stamped(U), "waiting", 1) =
          Cardinality({k \in Started(run) : f[k].at = U})
  BY <1>1, <1>2, <1>3, KindCount
<1>5. {k \in Started(run) : f[k].at = U} =
          {k \in Started(run) : run[k].ready = U}
  BY <1>2
<1> QED
  BY <1>4, <1>5

LEMMA StartCountWaiting ==
    ASSUME run \in Runs, NEW U
    PROVE  EventCount(Stamped(U), "waiting", -1) =
               Cardinality({k \in Started(run) : run[k].start = U})
<1> DEFINE f == [k \in Started(run) |-> StartEvent(k)]
<1>1. /\ f = [k \in Started(run) |-> f[k]]
      /\ \A j, k \in Started(run) : f[j] = f[k] => j = k
  BY DEF StartEvent
<1>2. \A k \in Started(run) : /\ f[k] \in AllEvents /\ f[k]["waiting"] = -1
                              /\ f[k].at = run[k].start
  BY EventsAre DEF StartEvent
<1>3. \A e \in AllEvents : e["waiting"] = -1 =>
         \E k \in Started(run) : e = f[k]
  BY EventsAre DEF ReadyEvent, EndEvent
<1> HIDE DEF f
<1>4. EventCount(Stamped(U), "waiting", -1) =
          Cardinality({k \in Started(run) : f[k].at = U})
  BY <1>1, <1>2, <1>3, KindCount
<1>5. {k \in Started(run) : f[k].at = U} =
          {k \in Started(run) : run[k].start = U}
  BY <1>2
<1> QED
  BY <1>4, <1>5

LEMMA StartCountBusy ==
    ASSUME run \in Runs, NEW U
    PROVE  EventCount(Stamped(U), "busy", 1) =
               Cardinality({k \in Started(run) : run[k].start = U})
<1> DEFINE f == [k \in Started(run) |-> StartEvent(k)]
<1>1. /\ f = [k \in Started(run) |-> f[k]]
      /\ \A j, k \in Started(run) : f[j] = f[k] => j = k
  BY DEF StartEvent
<1>2. \A k \in Started(run) : /\ f[k] \in AllEvents /\ f[k]["busy"] = 1
                              /\ f[k].at = run[k].start
  BY EventsAre DEF StartEvent
<1>3. \A e \in AllEvents : e["busy"] = 1 =>
         \E k \in Started(run) : e = f[k]
  BY EventsAre DEF ReadyEvent, EndEvent
<1> HIDE DEF f
<1>4. EventCount(Stamped(U), "busy", 1) =
          Cardinality({k \in Started(run) : f[k].at = U})
  BY <1>1, <1>2, <1>3, KindCount
<1>5. {k \in Started(run) : f[k].at = U} =
          {k \in Started(run) : run[k].start = U}
  BY <1>2
<1> QED
  BY <1>4, <1>5

LEMMA EndCount ==
    ASSUME run \in Runs, NEW U
    PROVE  EventCount(Stamped(U), "busy", -1) =
               Cardinality({k \in Started(run) : run[k].end = U})
<1> DEFINE f == [k \in Started(run) |-> EndEvent(k)]
<1>1. /\ f = [k \in Started(run) |-> f[k]]
      /\ \A j, k \in Started(run) : f[j] = f[k] => j = k
  BY DEF EndEvent
<1>2. \A k \in Started(run) : /\ f[k] \in AllEvents /\ f[k]["busy"] = -1
                              /\ f[k].at = run[k].end
  BY EventsAre DEF EndEvent
<1>3. \A e \in AllEvents : e["busy"] = -1 =>
         \E k \in Started(run) : e = f[k]
  BY EventsAre DEF ReadyEvent, StartEvent
<1> HIDE DEF f
<1>4. EventCount(Stamped(U), "busy", -1) =
          Cardinality({k \in Started(run) : f[k].at = U})
  BY <1>1, <1>2, <1>3, KindCount
<1>5. {k \in Started(run) : f[k].at = U} =
          {k \in Started(run) : run[k].end = U}
  BY <1>2
<1> QED
  BY <1>4, <1>5

\* The stamps lie between 1 and the end of the run.
LEMMA StampsAre ==
    ASSUME run \in Runs, Started(run) # {}
    PROVE  \A e \in AllEvents : e.at \in Nat /\ 0 < e.at /\ e.at <= LatestEnd(run)
<1> SUFFICES ASSUME NEW e \in AllEvents
             PROVE  e.at \in Nat /\ 0 < e.at /\ e.at <= LatestEnd(run)
  OBVIOUS
<1>1. PICK k \in Started(run) :
          e = ReadyEvent(k) \/ e = StartEvent(k) \/ e = EndEvent(k)
  BY EventsAre
<1>2. e.at = run[k].ready \/ e.at = run[k].start \/ e.at = run[k].end
  BY <1>1 DEF ReadyEvent, StartEvent, EndEvent
<1>3. /\ run[k].ready \in Nat /\ run[k].start \in Nat /\ run[k].end \in Nat
      /\ 0 < run[k].ready /\ run[k].ready <= run[k].start
      /\ run[k].start <= run[k].end
  BY RecordsAre
<1>4. LatestEnd(run) \in Nat /\ run[k].end <= LatestEnd(run)
  BY SpanIs
<1> QED
  BY <1>2, <1>3, <1>4

\* No record has a stamp between T and U.
Quiet(T, U) ==
    \A k \in Started(run) : /\ run[k].ready <= T \/ U <= run[k].ready
                            /\ run[k].start <= T \/ U <= run[k].start
                            /\ run[k].end <= T \/ U <= run[k].end

\* The batch that the scan takes: all events of the next stamp.
IsNext(T, U, batch) ==
    /\ T < U /\ U <= LatestEnd(run)
    /\ batch = Stamped(U) /\ events \ batch = Ahead(U)
    /\ (CHOOSE e \in batch : TRUE).at = U
    /\ Quiet(T, U)

LEMMA NextBatch ==
    ASSUME run \in Runs, Started(run) # {}, NEW T \in Nat, events = Ahead(T),
           NEW batch \in Batches(events), batch # {}
    PROVE  \E U \in Nat : IsNext(T, U, batch)
<1>1. \A e \in AllEvents : e.at \in Nat /\ e.at <= LatestEnd(run)
  BY StampsAre
<1>2. LatestEnd(run) \in Nat
  BY SpanIs
<1>3. batch = {e \in events : \A d \in events : e.at <= d.at}
  BY DEF Batches, Earliest
<1>4. PICK e \in batch : TRUE
  OBVIOUS
<1>5. PICK U \in Nat : U = e.at
  BY <1>1, <1>3, <1>4 DEF Ahead
<1>6. e \in AllEvents /\ T < U /\ U <= LatestEnd(run)
      /\ \A d \in AllEvents : d.at > T => U <= d.at
  BY <1>1, <1>3, <1>4, <1>5 DEF Ahead
<1>7. batch = Stamped(U)
  <2>1. ASSUME NEW d \in AllEvents
        PROVE  d \in batch <=> d.at = U
    <3>1. d.at \in Nat
      BY <1>1
    <3>2. CASE d.at = U
      <4>1. d \in Ahead(T) /\ \A x \in Ahead(T) : d.at <= x.at
        BY <3>2, <1>6 DEF Ahead
      <4> QED
        BY <3>2, <4>1, <1>3
    <3>3. CASE d \in batch
      <4>1. d \in Ahead(T) /\ d.at <= e.at
        BY <3>3, <1>3, <1>4
      <4>2. U <= d.at
        BY <4>1, <1>6 DEF Ahead
      <4> QED
        BY <3>1, <3>3, <4>1, <4>2, <1>5
    <3> QED
      BY <3>2, <3>3
  <2>2. batch \subseteq AllEvents
    BY <1>3 DEF Ahead
  <2> QED
    BY <2>1, <2>2 DEF Stamped
<1>8. events \ batch = Ahead(U)
  <2>1. ASSUME NEW d \in AllEvents
        PROVE  d \in events \ batch <=> d.at > U
    <3>1. d.at \in Nat /\ (d.at > T => U <= d.at)
      BY <1>1, <1>6
    <3>2. d \in events \ batch <=> d.at > T /\ d.at # U
      BY <1>7 DEF Ahead, Stamped
    <3> QED
      BY <3>1, <3>2, <1>6
  <2>2. events \ batch \subseteq AllEvents
    BY DEF Ahead
  <2> QED
    BY <2>1, <2>2 DEF Ahead
<1>9. (CHOOSE d \in batch : TRUE).at = U
  <2>1. (CHOOSE d \in batch : TRUE) \in batch
    BY <1>4
  <2> QED
    BY <2>1, <1>7 DEF Stamped
<1>10. Quiet(T, U)
  <2> SUFFICES ASSUME NEW k \in Started(run)
               PROVE  /\ run[k].ready <= T \/ U <= run[k].ready
                      /\ run[k].start <= T \/ U <= run[k].start
                      /\ run[k].end <= T \/ U <= run[k].end
    BY DEF Quiet
  <2>1. /\ run[k].ready \in Nat /\ run[k].start \in Nat /\ run[k].end \in Nat
    BY RecordsAre
  <2>2. /\ run[k].ready > T => U <= run[k].ready
        /\ run[k].start > T => U <= run[k].start
        /\ run[k].end > T => U <= run[k].end
    <3>1. /\ ReadyEvent(k) \in AllEvents /\ ReadyEvent(k).at = run[k].ready
          /\ StartEvent(k) \in AllEvents /\ StartEvent(k).at = run[k].start
          /\ EndEvent(k) \in AllEvents /\ EndEvent(k).at = run[k].end
      BY EventsAre DEF ReadyEvent, StartEvent, EndEvent
    <3> QED
      BY <3>1, <1>6
  <2> QED
    BY <2>1, <2>2
<1> QED
  BY <1>5, <1>6, <1>7, <1>8, <1>9, <1>10 DEF IsNext

\* It takes the scan to the state of the pool at its stamp.
LEMMA BatchMoves ==
    ASSUME run \in Runs, NEW T \in Nat, NEW U \in Nat, T < U, Quiet(T, U)
    PROVE  /\ WaitingAt(run, U) =
                  WaitingAt(run, T) + DeltaOf(Stamped(U), "waiting")
           /\ BusyAt(run, U) = BusyAt(run, T) + DeltaOf(Stamped(U), "busy")
<1> DEFINE K == Started(run)
           ready == [k \in K |-> run[k].ready]
           start == [k \in K |-> run[k].start]
           end   == [k \in K |-> run[k].end]
           Readied == Cardinality({k \in K : run[k].ready = U})
           Begun == Cardinality({k \in K : run[k].start = U})
           Ended == Cardinality({k \in K : run[k].end = U})
<1>1. /\ IsFiniteSet(K) /\ ready \in [K -> Nat] /\ start \in [K -> Nat]
      /\ end \in [K -> Nat] /\ \A k \in K : ready[k] <= start[k]
      /\ \A k \in K : start[k] <= end[k]
  BY RecordsAre
<1>2. /\ NoneBetween(K, ready, T, U) /\ NoneBetween(K, start, T, U)
      /\ NoneBetween(K, end, T, U)
  BY DEF Quiet, NoneBetween
<1>3. /\ \A t : WaitingAt(run, t) = Cardinality(Covering(K, ready, start, t))
      /\ \A t : BusyAt(run, t) = Cardinality(Covering(K, start, end, t))
  <2>1. \A t : {k \in K : run[k].ready <= t /\ t < run[k].start} =
               Covering(K, ready, start, t)
    BY DEF Covering
  <2>2. \A t : {k \in K : run[k].start <= t /\ t < run[k].end} =
               Covering(K, start, end, t)
    BY DEF Covering
  <2> HIDE DEF ready, start, end
  <2> QED
    BY <2>1, <2>2 DEF WaitingAt, BusyAt
<1>4. /\ Readied = Cardinality(Where(K, ready, U))
      /\ Begun = Cardinality(Where(K, start, U))
      /\ Ended = Cardinality(Where(K, end, U))
  <2>1. /\ {k \in K : run[k].ready = U} = Where(K, ready, U)
        /\ {k \in K : run[k].start = U} = Where(K, start, U)
        /\ {k \in K : run[k].end = U} = Where(K, end, U)
    BY DEF Where
  <2> HIDE DEF ready, start, end
  <2> QED
    BY <2>1
<1>5. /\ DeltaOf(Stamped(U), "waiting") = Readied - Begun
      /\ DeltaOf(Stamped(U), "busy") = Begun - Ended
  BY ReadyCount, StartCountWaiting, StartCountBusy, EndCount DEF DeltaOf
<1> HIDE DEF K, ready, start, end, Readied, Begun, Ended
<1>6. /\ WaitingAt(run, T) \in Nat /\ Readied \in Nat /\ Begun \in Nat
      /\ WaitingAt(run, U) = WaitingAt(run, T) + Readied - Begun
  BY <1>1, <1>2, <1>3, <1>4, Crossing
<1>7. /\ BusyAt(run, T) \in Nat /\ Ended \in Nat
      /\ BusyAt(run, U) = BusyAt(run, T) + Begun - Ended
  BY <1>1, <1>2, <1>3, <1>4, Crossing
<1> QED
  BY <1>5, <1>6, <1>7

-----------------------------------------------------------------------------
(***************************************************************************)
(* The scan measures the episodes.  Between two batches the scan stands at *)
(* an instant T: its counters are the state of the pool at T, the events   *)
(* that remain are those after T, an episode it is in began where          *)
(* episodeStart says, and it has added up the long episodes that ended by  *)
(* T.                                                                      *)
(***************************************************************************)

EndedBy(T) == {e \in LongEpisodes : e[2] <= T}

\* a is where the violation that lasts at T began.
BeganAt(a, T) ==
    /\ a \in 1 .. T
    /\ \A t \in a .. T : ViolatedAt(run, workers, t)
    /\ ~ViolatedAt(run, workers, a - 1)

ScanAt(T) ==
    /\ T \in 0 .. LatestEnd(run)
    /\ events = Ahead(T)
    /\ waiting = WaitingAt(run, T)
    /\ busy = BusyAt(run, T)
    /\ inEpisode <=> ViolatedAt(run, workers, T)
    /\ inEpisode => BeganAt(episodeStart, T)
    /\ episodes = Cardinality(EndedBy(T))
    /\ violation = Cardinality(Instants(EndedBy(T)))

NothingYet ==
    /\ waiting = 0 /\ busy = 0 /\ ~inEpisode
    /\ episodes = 0 /\ violation = 0 /\ span = 0

ScanInv ==
    /\ run \in Runs
    /\ inEpisode \in BOOLEAN
    /\ pc \in {"summarize", "events"} => NothingYet
    /\ pc \in {"events", "scan"} => Started(run) # {}
    /\ pc = "scan" => \E T \in Nat : ScanAt(T)
    /\ ScanMeasures

\* Episodes are intervals within the run.
LEMMA LongEpisodesAre ==
    ASSUME LatestEnd(run) \in Nat
    PROVE  /\ LongEpisodes \in SUBSET Intervals(LatestEnd(run))
           /\ \A T : EndedBy(T) \in SUBSET Intervals(LatestEnd(run))
BY DEF LongEpisodes, Episodes, IsEpisode, Intervals, EndedBy

\* Nothing ends strictly between T and U, and at U only what goes on at T.
LEMMA EndsAt ==
    ASSUME run \in Runs, NEW T \in Nat, NEW U \in Nat, T < U,
           \A t \in T .. U - 1 : ViolatedAt(run, workers, t) <=>
                                     ViolatedAt(run, workers, T),
           NEW e \in Episodes, T < e[2], e[2] <= U
    PROVE  /\ e[2] = U
           /\ ViolatedAt(run, workers, T) /\ ~ViolatedAt(run, workers, U)
<1> DEFINE V(t) == ViolatedAt(run, workers, t)
<1>1. /\ e[1] \in Nat /\ e[2] \in Nat /\ e[1] < e[2] /\ ~V(e[2])
      /\ \A t \in e[1] .. e[2] - 1 : V(t)
  BY DEF Episodes, IsEpisode
<1>2. \A t \in T .. U - 1 : V(t) <=> V(T)
  OBVIOUS
<1> HIDE DEF V
<1>3. V(e[2] - 1) /\ e[2] - 1 \in T .. U - 1
  BY <1>1
<1>4. V(T)
  BY <1>2, <1>3
<1>5. e[2] = U
  BY <1>1, <1>2, <1>4
<1>6. V(T) /\ ~V(U)
  BY <1>1, <1>4, <1>5
<1> QED
  BY <1>5, <1>6 DEF V

\* The violation that began at a and ends at U is an episode, the only one
\* that ends there.
LEMMA TheEpisode ==
    ASSUME run \in Runs, NEW T \in Nat, NEW U \in Nat, T < U,
           LatestEnd(run) \in Nat, U <= LatestEnd(run),
           \A t \in T .. U - 1 : ViolatedAt(run, workers, t) <=>
                                     ViolatedAt(run, workers, T),
           NEW a, BeganAt(a, T), ~ViolatedAt(run, workers, U)
    PROVE  /\ <<a, U>> \in Episodes
           /\ \A e \in Episodes : e[2] = U => e = <<a, U>>
<1> DEFINE V(t) == ViolatedAt(run, workers, t)
<1>1. /\ a \in 1 .. T /\ ~V(a - 1) /\ ~V(U)
      /\ \A t \in a .. T : V(t)
  BY DEF BeganAt
<1>2. \A t \in T .. U - 1 : V(t) <=> V(T)
  OBVIOUS
<1>3. /\ LatestEnd(run) \in Nat /\ U <= LatestEnd(run)
  OBVIOUS
<1>4. \A e \in Episodes :
          /\ e = <<e[1], e[2]>> /\ e[1] \in Nat /\ e[2] \in Nat /\ e[1] < e[2]
          /\ \A t \in e[1] .. e[2] - 1 : V(t)
          /\ e[1] > 0 => ~V(e[1] - 1)
  BY DEF Episodes, IsEpisode
<1> HIDE DEF V
<1>5. \A t \in a .. U - 1 : V(t)
  <2> TAKE t \in a .. U - 1
  <2>1. CASE t <= T
    BY <1>1, <2>1
  <2>2. CASE ~(t <= T)
    <3>1. t \in T .. U - 1 /\ T \in a .. T
      BY <1>1, <2>2
    <3> QED
      BY <1>1, <1>2, <3>1
  <2> QED
    BY <2>1, <2>2
<1>6. <<a, U>> \in Episodes
  <2>1. IsEpisode(a, U)
    BY <1>1, <1>5 DEF IsEpisode, V
  <2>2. a \in 0 .. LatestEnd(run) /\ U \in 0 .. LatestEnd(run)
    BY <1>1, <1>3
  <2> QED
    BY <2>1, <2>2 DEF Episodes
<1>7. ASSUME NEW e \in Episodes, e[2] = U
      PROVE  e = <<a, U>>
  <2>1. /\ e[1] \in Nat /\ e[1] < U /\ \A t \in e[1] .. U - 1 : V(t)
        /\ e[1] > 0 => ~V(e[1] - 1)
    BY <1>4, <1>7
  <2>2. ~(e[1] < a)
    <3>1. SUFFICES ASSUME e[1] < a PROVE FALSE
      OBVIOUS
    <3>2. a - 1 \in e[1] .. U - 1
      BY <1>1, <2>1, <3>1
    <3> QED
      BY <1>1, <2>1, <3>2
  <2>3. ~(a < e[1])
    <3>1. SUFFICES ASSUME a < e[1] PROVE FALSE
      OBVIOUS
    <3>2. e[1] - 1 \in a .. U - 1 /\ e[1] > 0
      BY <1>1, <2>1, <3>1
    <3> QED
      BY <1>5, <2>1, <3>2
  <2>4. e[1] = a
    BY <1>1, <2>1, <2>2, <2>3
  <2> QED
    BY <1>4, <1>7, <2>4
<1> QED
  BY <1>6, <1>7

LEMMA ScanInitially == AnalysisInit => ScanInv
BY DEF AnalysisInit, ScanInv, NothingYet, ScanMeasures

\* Collect: the scan stands before the first stamp.
LEMMA ScanStarts == ScanInv /\ Collect => ScanInv'
<1> SUFFICES ASSUME ScanInv, Collect
             PROVE  ScanInv'
  OBVIOUS
<1>1. /\ run \in Runs /\ Started(run) # {} /\ NothingYet /\ run' = run
      /\ workers' = workers /\ summary' = summary /\ pc' = "scan"
      /\ events' = AllEvents
      /\ UNCHANGED <<waiting, busy, inEpisode, episodeStart, violation,
                     episodes, span>>
  BY DEF ScanInv, Collect, AllEvents, input
<1>2. LatestEnd(run) \in Nat
  BY <1>1, SpanIs
<1>3. AllEvents = Ahead(0)
  BY <1>1, StampsAre DEF Ahead
<1>4. WaitingAt(run, 0) = 0 /\ BusyAt(run, 0) = 0
  <2>1. \A k \in Started(run) : /\ ~(run[k].ready <= 0)
                                /\ ~(run[k].start <= 0)
    BY <1>1, RecordsAre
  <2> QED
    BY <1>1, <2>1, NobodyWaits, NobodyWorks
<1>5. EndedBy(0) = {}
  BY DEF EndedBy, LongEpisodes, Episodes, IsEpisode
<1>6. Cardinality(EndedBy(0)) = 0 /\ Cardinality(Instants(EndedBy(0))) = 0
  <2>1. Instants({}) = {}
    BY DEF Instants
  <2> QED
    BY <1>5, <2>1, FS_EmptySet
<1>7. ScanAt(0)'
  <2>1. (Ahead(0) = events)'
    BY <1>1, <1>3 DEF Ahead, AllEvents, EventsOf
  <2>2. /\ EndedBy(0)' = EndedBy(0)
    BY <1>1 DEF EndedBy, LongEpisodes, Episodes, IsEpisode
  <2> QED
    BY <1>1, <1>2, <1>4, <1>6, <2>1, <2>2 DEF ScanAt, NothingYet, ViolatedAt
<1> QED
  BY <1>1, <1>7 DEF ScanInv, ScanMeasures

\* What has ended by U: what had ended by T, and the episode that ends at U if
\* there is one and it counts.
LEMMA EndedGrows ==
    ASSUME run \in Runs, LatestEnd(run) \in Nat,
           NEW T \in Nat, NEW U \in Nat, T < U, U <= LatestEnd(run),
           \A t \in T .. U - 1 : ViolatedAt(run, workers, t) <=>
                                     ViolatedAt(run, workers, T),
           NEW a, ViolatedAt(run, workers, T) => BeganAt(a, T)
    PROVE  EndedBy(U) =
              EndedBy(T) \cup
                 (IF /\ ViolatedAt(run, workers, T)
                     /\ ~ViolatedAt(run, workers, U)
                     /\ Counts(U - a)
                  THEN {<<a, U>>} ELSE {})
<1> DEFINE V(t) == ViolatedAt(run, workers, t)
<1>1. \A e \in Episodes : T < e[2] /\ e[2] <= U => e[2] = U /\ V(T) /\ ~V(U)
  BY EndsAt
<1>2. \A e \in Episodes : e[1] \in Nat /\ e[2] \in Nat
  BY DEF Episodes
<1>3. LongEpisodes \subseteq Episodes
  BY DEF LongEpisodes
<1>4. CASE V(T) /\ ~V(U)
  <2>1. /\ <<a, U>> \in Episodes
        /\ \A e \in Episodes : e[2] = U => e = <<a, U>>
    BY <1>4, TheEpisode
  <2>2. <<a, U>> \in LongEpisodes <=> Counts(U - a)
    BY <2>1 DEF LongEpisodes, Length, Counts
  <2>3. \A e \in LongEpisodes :
            e[2] <= U <=> e[2] <= T \/ e = <<a, U>>
    <3> TAKE e \in LongEpisodes
    <3>1. e \in Episodes /\ e[2] \in Nat
      BY <1>2, <1>3
    <3>2. CASE e[2] <= T
      BY <3>1, <3>2
    <3>3. CASE T < e[2] /\ e[2] <= U
      BY <3>1, <3>3, <1>1, <2>1
    <3>4. CASE e[2] > U
      BY <3>1, <3>4
    <3> QED
      BY <3>1, <3>2, <3>3, <3>4
  <2> HIDE DEF V
  <2>5. EndedBy(U) = EndedBy(T) \cup (IF Counts(U - a) THEN {<<a, U>>} ELSE {})
    <3>1. CASE Counts(U - a)
      <4>1. <<a, U>> \in LongEpisodes /\ <<a, U>>[2] = U
        BY <2>2, <3>1
      <4>2. EndedBy(U) = EndedBy(T) \cup {<<a, U>>}
        BY <2>3, <4>1 DEF EndedBy
      <4> QED
        BY <3>1, <4>2
    <3>2. CASE ~Counts(U - a)
      <4>1. <<a, U>> \notin LongEpisodes
        BY <2>2, <3>2
      <4>2. EndedBy(U) = EndedBy(T)
        BY <2>3, <4>1 DEF EndedBy
      <4> QED
        BY <3>2, <4>2
    <3> QED
      BY <3>1, <3>2
  <2> QED
    BY <1>4, <2>5 DEF V
<1>5. CASE ~(V(T) /\ ~V(U))
  <2>1. \A e \in LongEpisodes : e[2] <= U <=> e[2] <= T
    <3> TAKE e \in LongEpisodes
    <3>1. e \in Episodes /\ e[2] \in Nat
      BY <1>2, <1>3
    <3>2. ~(T < e[2] /\ e[2] <= U)
      BY <1>1, <1>5, <3>1
    <3> QED
      BY <3>1, <3>2
  <2>2. EndedBy(U) = EndedBy(T)
    BY <2>1 DEF EndedBy
  <2> QED
    BY <1>5, <2>2
<1> QED
  BY <1>4, <1>5

\* Scan: the scan moves to the stamp of its batch.
LEMMA ScanMoves == ScanInv /\ Scan => ScanInv'
<1> SUFFICES ASSUME ScanInv, Scan
             PROVE  ScanInv'
  OBVIOUS
<1>1. /\ run \in Runs /\ Started(run) # {} /\ pc = "scan"
      /\ UNCHANGED <<run, workers, pc, summary, span>>
  BY DEF ScanInv, Scan, input
<1>2. PICK T \in Nat : ScanAt(T)
  BY <1>1 DEF ScanInv
<1>3. PICK batch \in Batches(events) :
          /\ batch # {}
          /\ events' = events \ batch
          /\ waiting' = waiting + DeltaOf(batch, "waiting")
          /\ busy' = busy + DeltaOf(batch, "busy")
          /\ inEpisode' = (waiting' > 0 /\ busy' < workers)
          /\ LET t == (CHOOSE e \in batch : TRUE).at IN
             EpisodeEnds(t) \/ EpisodeBegins(t) \/ EpisodeGoesOn
  BY DEF Scan
<1>4. LatestEnd(run) \in Nat
  BY <1>1, SpanIs
<1>5. PICK U \in Nat : IsNext(T, U, batch)
  <2>1. events = Ahead(T)
    BY <1>2 DEF ScanAt
  <2> QED
    BY <1>1, <1>3, <2>1, NextBatch
<1>6. /\ T < U /\ U <= LatestEnd(run) /\ batch = Stamped(U) /\ Quiet(T, U)
      /\ events' = Ahead(U) /\ (CHOOSE e \in batch : TRUE).at = U
  BY <1>3, <1>5 DEF IsNext
<1>7. EpisodeEnds(U) \/ EpisodeBegins(U) \/ EpisodeGoesOn
  BY <1>3, <1>6
<1>8. waiting' = WaitingAt(run, U) /\ busy' = BusyAt(run, U)
  BY <1>1, <1>2, <1>3, <1>6, BatchMoves DEF ScanAt
<1>9. /\ inEpisode' \in BOOLEAN
      /\ inEpisode' <=> ViolatedAt(run, workers, U)
  BY <1>3, <1>8 DEF ViolatedAt
<1>10. inEpisode \in BOOLEAN /\ (inEpisode <=> ViolatedAt(run, workers, T))
  BY <1>2 DEF ScanAt, ScanInv
<1>11. \A t \in T .. U - 1 :
           ViolatedAt(run, workers, t) <=> ViolatedAt(run, workers, T)
  <2> TAKE t \in T .. U - 1
  <2>1. t \in Nat /\ T <= t /\ t < U
    OBVIOUS
  <2>2. \A k \in Started(run) : /\ run[k].ready <= T \/ t < run[k].ready
                                /\ run[k].start <= T \/ t < run[k].start
                                /\ run[k].end <= T \/ t < run[k].end
    <3> TAKE k \in Started(run)
    <3>1. run[k].ready \in Nat /\ run[k].start \in Nat /\ run[k].end \in Nat
      BY <1>1, RecordsAre
    <3> QED
      BY <1>6, <2>1, <3>1 DEF Quiet
  <2>3. WaitingAt(run, t) = WaitingAt(run, T) /\ BusyAt(run, t) = BusyAt(run, T)
    BY <1>1, <2>1, <2>2, NoCrossing
  <2> QED
    BY <2>3 DEF ViolatedAt
<1>12. ViolatedAt(run, workers, T) => BeganAt(episodeStart, T)
  BY <1>2, <1>10 DEF ScanAt
<1> DEFINE a == episodeStart
           closes == inEpisode /\ ~inEpisode' /\ Counts(U - a)
<1>13. EndedBy(U) = EndedBy(T) \cup (IF closes THEN {<<a, U>>} ELSE {})
  <2>1. EndedBy(U) =
           EndedBy(T) \cup
              (IF /\ ViolatedAt(run, workers, T)
                  /\ ~ViolatedAt(run, workers, U)
                  /\ Counts(U - a)
               THEN {<<a, U>>} ELSE {})
    BY <1>1, <1>4, <1>6, <1>11, <1>12, EndedGrows
  <2> QED
    BY <2>1, <1>9, <1>10
<1>14. /\ EndedBy(T) \in SUBSET Intervals(LatestEnd(run))
       /\ IsFiniteSet(EndedBy(T)) /\ Cardinality(EndedBy(T)) \in Nat
       /\ Cardinality(Instants(EndedBy(T))) \in Nat
  <2>1. EndedBy(T) \in SUBSET Intervals(LatestEnd(run))
    BY <1>4, LongEpisodesAre
  <2> QED
    BY <1>4, <2>1, InstantsFinite, FS_CardinalityType
<1>15. /\ episodes = Cardinality(EndedBy(T))
       /\ violation = Cardinality(Instants(EndedBy(T)))
  BY <1>2 DEF ScanAt
<1>16. /\ episodes' = Cardinality(EndedBy(U))
       /\ violation' = Cardinality(Instants(EndedBy(U)))
  <2>1. CASE closes
    <3>1. episodes' = episodes + 1 /\ violation' = violation + (U - a)
      BY <1>7, <2>1 DEF EpisodeEnds, EpisodeBegins, EpisodeGoesOn
    <3>2. a \in 1 .. T
      BY <1>10, <1>12, <2>1 DEF BeganAt
    <3>3. <<a, U>> \in Intervals(LatestEnd(run)) /\ <<a, U>> \notin EndedBy(T)
      BY <1>4, <1>6, <3>2 DEF Intervals, EndedBy
    <3>4. EndedBy(U) = EndedBy(T) \cup {<<a, U>>} /\ Length(<<a, U>>) = U - a
      BY <1>13, <2>1 DEF Length
    <3>5. Cardinality(EndedBy(T) \cup {<<a, U>>}) = Cardinality(EndedBy(T)) + 1
      BY <1>14, <3>3, FS_AddElement
    <3>6. Cardinality(Instants(EndedBy(T) \cup {<<a, U>>})) =
              Length(<<a, U>>) + Cardinality(Instants(EndedBy(T)))
      BY <1>4, <1>14, <3>3, InstantsAdd
    <3>7. /\ Cardinality(EndedBy(U)) = Cardinality(EndedBy(T)) + 1
          /\ Cardinality(Instants(EndedBy(U))) =
                 Length(<<a, U>>) + Cardinality(Instants(EndedBy(T)))
      BY <3>4, <3>5, <3>6
    <3> HIDE DEF closes
    <3> QED
      BY <1>14, <1>15, <3>1, <3>2, <3>4, <3>7
  <2>2. CASE ~closes
    <3>1. episodes' = episodes /\ violation' = violation
      BY <1>7, <2>2 DEF EpisodeEnds, EpisodeBegins, EpisodeGoesOn
    <3>2. EndedBy(U) = EndedBy(T)
      BY <1>13, <2>2
    <3> HIDE DEF closes
    <3> QED
      BY <1>15, <3>1, <3>2
  <2> HIDE DEF closes
  <2> QED
    BY <2>1, <2>2
<1>17. inEpisode' => BeganAt(episodeStart', U)
  <2> SUFFICES ASSUME inEpisode'
               PROVE  BeganAt(episodeStart', U)
    OBVIOUS
  <2>1. CASE inEpisode
    <3>1. episodeStart' = episodeStart
      BY <1>7, <2>1 DEF EpisodeEnds, EpisodeBegins, EpisodeGoesOn
    <3>2. /\ a \in 1 .. T /\ ~ViolatedAt(run, workers, a - 1)
          /\ \A t \in a .. T : ViolatedAt(run, workers, t)
      BY <1>10, <1>12, <2>1 DEF BeganAt
    <3>3. \A t \in a .. U : ViolatedAt(run, workers, t)
      <4> TAKE t \in a .. U
      <4>1. CASE t <= T
        BY <3>2, <4>1
      <4>2. CASE t = U
        BY <1>9, <4>2
      <4>3. CASE T < t /\ t < U
        <5>1. t \in T .. U - 1
          BY <3>2, <4>3
        <5> QED
          BY <1>10, <1>11, <2>1, <5>1
      <4> QED
        BY <3>2, <4>1, <4>2, <4>3
    <3>4. a \in 1 .. U
      BY <1>6, <3>2
    <3> QED
      BY <3>1, <3>2, <3>3, <3>4 DEF BeganAt
  <2>2. CASE ~inEpisode
    <3>1. episodeStart' = U
      BY <1>7, <1>9, <1>10, <2>2 DEF EpisodeEnds, EpisodeBegins, EpisodeGoesOn
    <3>2. U \in 1 .. U /\ \A t \in U .. U : t = U
      BY <1>6
    <3>3. ~ViolatedAt(run, workers, U - 1)
      <4>1. U - 1 \in T .. U - 1
        BY <1>6
      <4> QED
        BY <1>10, <1>11, <2>2, <4>1
    <3>4. \A t \in U .. U : ViolatedAt(run, workers, t)
      BY <1>9, <3>2
    <3> QED
      BY <3>1, <3>2, <3>3, <3>4 DEF BeganAt
  <2> QED
    BY <2>1, <2>2
<1>18. ScanAt(U)'
  <2>1. /\ Ahead(U)' = Ahead(U) /\ EndedBy(U)' = EndedBy(U)
        /\ LatestEnd(run)' = LatestEnd(run)
    BY <1>1 DEF Ahead, AllEvents, EventsOf, EndedBy, LongEpisodes, Episodes,
                IsEpisode
  <2>2. \A t : ViolatedAt(run, workers, t)' <=> ViolatedAt(run, workers, t)
    BY <1>1
  <2>3. /\ U \in 0 .. LatestEnd(run)
    BY <1>4, <1>6
  <2>4. (inEpisode => BeganAt(episodeStart, U))'
    BY <1>1, <1>17 DEF BeganAt
  <2> QED
    BY <1>1, <1>6, <1>8, <1>9, <1>16, <2>1, <2>3, <2>4 DEF ScanAt
<1> QED
  BY <1>1, <1>9, <1>18 DEF ScanInv, ScanMeasures

\* Every instant of an episode lies within the span.
LEMMA WithinSpan ==
    ASSUME run \in Runs, Started(run) # {}
    PROVE  /\ LatestEnd(run) - EarliestReady(run) \in Nat
           /\ Cardinality(Instants(LongEpisodes)) <=
                  LatestEnd(run) - EarliestReady(run)
<1> DEFINE L == LatestEnd(run)
           R == EarliestReady(run)
           I == Instants(LongEpisodes)
<1>1. /\ L \in Nat /\ R \in Nat
      /\ \A k \in Started(run) : R <= run[k].ready /\ run[k].end <= L
  BY SpanIs
<1>2. \A k \in Started(run) :
          /\ run[k].ready \in Nat /\ run[k].start \in Nat /\ run[k].end \in Nat
          /\ run[k].ready <= run[k].start /\ run[k].start <= run[k].end
  BY RecordsAre
<1>3. R <= L
  BY <1>1, <1>2
<1> HIDE DEF L, R
<1>4. ASSUME NEW u \in I
      PROVE  /\ u = <<u[1], u[2]>> /\ u[1] \in Episodes /\ u[2] \in R .. L - 1
             /\ u[1][1] \in Nat /\ u[1][2] \in Nat /\ u[2] \in Nat
             /\ u[1][1] <= u[2] /\ u[2] < u[1][2]
  <2>1. /\ u = <<u[1], u[2]>> /\ u[1] \in Episodes /\ u[2] \in Nat
        /\ u[1][1] <= u[2] /\ u[2] < u[1][2]
    BY DEF Instants, LongEpisodes
  <2>2. u[1][1] \in Nat /\ u[1][2] \in Nat
    BY <2>1 DEF Episodes
  <2>3. ViolatedAt(run, workers, u[2])
    <3>1. u[2] \in u[1][1] .. u[1][2] - 1
      BY <2>1, <2>2
    <3> QED
      BY <2>1, <3>1 DEF Episodes, IsEpisode
  <2>4. PICK k \in Started(run) : run[k].ready <= u[2] /\ u[2] < run[k].start
    BY <2>1, <2>3, WaitingMeans DEF ViolatedAt
  <2>5. u[2] \in R .. L - 1
    BY <1>1, <1>2, <2>1, <2>4
  <2> QED
    BY <2>1, <2>2, <2>5
<1> DEFINE f == [u \in I |-> u[2]]
<1>5. f \in [I -> R .. L - 1]
  BY <1>4
<1>6. ASSUME NEW u \in I, NEW w \in I, f[u] = f[w]
      PROVE  u = w
  <2>1. u[2] = w[2]
    BY <1>6
  <2>2. u[1] = w[1]
    <3>1. IsEpisode(u[1][1], u[1][2]) /\ IsEpisode(w[1][1], w[1][2])
      BY <1>4 DEF Episodes
    <3>2. /\ u[1] = <<u[1][1], u[1][2]>> /\ w[1] = <<w[1][1], w[1][2]>>
      BY <1>4 DEF Episodes
    <3> DEFINE V(t) == ViolatedAt(run, workers, t)
    <3>3. /\ \A t \in u[1][1] .. u[1][2] - 1 : V(t)
          /\ \A t \in w[1][1] .. w[1][2] - 1 : V(t)
          /\ ~V(u[1][2]) /\ ~V(w[1][2])
          /\ u[1][1] > 0 => ~V(u[1][1] - 1)
          /\ w[1][1] > 0 => ~V(w[1][1] - 1)
      BY <3>1 DEF IsEpisode
    <3> HIDE DEF V
    <3>4. PICK p \in Nat, q \in Nat, x \in Nat, y \in Nat :
              p = u[1][1] /\ q = u[1][2] /\ x = w[1][1] /\ y = w[1][2]
      BY <1>4
    <3>5. PICK j \in Nat : j = u[2] /\ p <= j /\ j < q /\ x <= j /\ j < y
      BY <1>4, <2>1, <3>4
    <3>6. /\ \A t \in p .. q - 1 : V(t)
          /\ \A t \in x .. y - 1 : V(t)
          /\ ~V(q) /\ ~V(y) /\ (p > 0 => ~V(p - 1)) /\ (x > 0 => ~V(x - 1))
      BY <3>3, <3>4
    <3>7. p = x
      <4>1. CASE p < x
        <5>1. x - 1 \in p .. q - 1 /\ x > 0
          BY <3>5, <4>1
        <5> QED
          BY <3>6, <5>1
      <4>2. CASE x < p
        <5>1. p - 1 \in x .. y - 1 /\ p > 0
          BY <3>5, <4>2
        <5> QED
          BY <3>6, <5>1
      <4> QED
        BY <4>1, <4>2
    <3>8. q = y
      <4>1. CASE q < y
        <5>1. q \in x .. y - 1
          BY <3>5, <4>1
        <5> QED
          BY <3>6, <5>1
      <4>2. CASE y < q
        <5>1. y \in p .. q - 1
          BY <3>5, <4>2
        <5> QED
          BY <3>6, <5>1
      <4> QED
        BY <4>1, <4>2
    <3> QED
      BY <3>2, <3>4, <3>7, <3>8
  <2> QED
    BY <1>4, <2>1, <2>2
<1>7. f \in Injection(I, R .. L - 1)
  <2> HIDE DEF f, I
  <2> QED
    BY <1>5, <1>6 DEF Injection, IsInjective
<1>8. IsFiniteSet(R .. L - 1) /\ Cardinality(R .. L - 1) = L - R
  <2>1. R \in Int /\ L - 1 \in Int
    BY <1>1
  <2>2. /\ IsFiniteSet(R .. L - 1)
        /\ Cardinality(R .. L - 1) = IF R > L - 1 THEN 0 ELSE L - 1 - R + 1
    BY ONLY <2>1, FS_Interval
  <2> QED
    BY <1>1, <1>3, <2>2
<1>9. Cardinality(I) <= Cardinality(R .. L - 1)
  <2> HIDE DEF f, I
  <2> QED
    BY <1>7, <1>8, FS_Injection
<1>10. L - R \in Nat
  BY <1>1, <1>3
<1> QED
  BY <1>8, <1>9, <1>10 DEF L, R

\* Finish: no event is left, so the scan stands at the end of the run.
LEMMA ScanEnds == ScanInv /\ Finish => ScanInv'
<1> SUFFICES ASSUME ScanInv, Finish
             PROVE  ScanInv'
  OBVIOUS
<1>1. /\ run \in Runs /\ Started(run) # {} /\ pc = "scan" /\ events = {}
      /\ pc' = "done" /\ span' = LatestEnd(run) - EarliestReady(run)
      /\ UNCHANGED <<run, workers, summary, events, waiting, busy, inEpisode,
                     episodeStart, violation, episodes>>
  BY DEF ScanInv, Finish, input
<1>2. PICK T \in Nat : ScanAt(T)
  BY <1>1 DEF ScanInv
<1>3. LatestEnd(run) \in Nat /\ T \in 0 .. LatestEnd(run) /\ Ahead(T) = {}
  BY <1>1, <1>2, SpanIs DEF ScanAt
<1>4. \A k \in Started(run) : run[k].end <= T
  <2> TAKE k \in Started(run)
  <2>1. EndEvent(k) \in AllEvents /\ EndEvent(k).at = run[k].end
    BY EventsAre DEF EndEvent
  <2>2. ~(run[k].end > T) /\ run[k].end \in Nat
    BY <1>1, <1>3, <2>1, RecordsAre DEF Ahead
  <2> QED
    BY <2>2
<1>5. T = LatestEnd(run)
  <2>1. LatestEnd(run) <= T
    BY <1>1, <1>4, SpanIs
  <2> QED
    BY <1>3, <2>1
<1>6. ~inEpisode
  <2>1. \A k \in Started(run) : ~(T < run[k].start)
    BY <1>1, <1>4, RecordsAre
  <2>2. WaitingAt(run, T) = 0
    BY <1>1, <2>1, NobodyWaits
  <2> QED
    BY <1>2, <2>2 DEF ScanAt, ViolatedAt
<1>7. EndedBy(T) = LongEpisodes
  BY <1>3, <1>5 DEF EndedBy, LongEpisodes, Episodes
<1>8. /\ episodes = Cardinality(LongEpisodes)
      /\ violation = Cardinality(Instants(LongEpisodes))
  BY <1>2, <1>7 DEF ScanAt
<1>9. violation = MapThenSumSet(Length, LongEpisodes)
  <2>1. LongEpisodes \in SUBSET Intervals(LatestEnd(run))
    BY <1>3, LongEpisodesAre
  <2>2. MapThenSumSet(Length, LongEpisodes) = Cardinality(Instants(LongEpisodes))
    BY <1>3, <2>1, SumIsInstants
  <2> QED
    BY <1>8, <2>2
<1>10. violation <= LatestEnd(run) - EarliestReady(run)
  BY <1>1, <1>8, WithinSpan
<1>11. LongEpisodes' = LongEpisodes
  BY <1>1 DEF LongEpisodes, Episodes, IsEpisode
<1>12. ScanMeasures'
  <2>1. /\ (episodes = Cardinality(LongEpisodes))'
        /\ (violation <= span)' /\ (~inEpisode)'
    BY <1>1, <1>6, <1>8, <1>10, <1>11
  <2>2. (violation = MapThenSumSet(Length, LongEpisodes))'
    BY <1>1, <1>9, <1>11
  <2> QED
    BY <2>1, <2>2 DEF ScanMeasures
<1> QED
  BY <1>1, <1>12 DEF ScanInv

\* A run in which nothing started has no episode.
LEMMA ScanOfNothing == ScanInv /\ SummarizeNothing => ScanInv'
<1> SUFFICES ASSUME ScanInv, SummarizeNothing
             PROVE  ScanInv'
  OBVIOUS
<1>1. /\ run \in Runs /\ Started(run) = {} /\ NothingYet /\ pc' = "done"
      /\ UNCHANGED <<run, workers, summary, events, waiting, busy, inEpisode,
                     episodeStart, violation, episodes, span>>
  BY DEF ScanInv, SummarizeNothing, input
<1>2. LongEpisodes = {}
  <2>1. SUFFICES ASSUME NEW e \in Episodes PROVE FALSE
    BY DEF LongEpisodes
  <2>2. /\ e[1] \in Int /\ e[2] \in Int /\ e[1] < e[2]
        /\ \A t \in e[1] .. e[2] - 1 : ViolatedAt(run, workers, t)
    BY DEF Episodes, IsEpisode
  <2>3. ViolatedAt(run, workers, e[1])
    BY <2>2
  <2>4. WaitingAt(run, e[1]) = 0
    BY <1>1, <2>2, NobodyWaits
  <2> QED
    BY <2>3, <2>4 DEF ViolatedAt
<1>3. LongEpisodes' = {}
  BY <1>1, <1>2 DEF LongEpisodes, Episodes, IsEpisode
<1>4. Cardinality({}) = 0 /\ MapThenSumSet(Length, {}) = 0
  <2>1. Cardinality({}) = 0 /\ Instants({}) = {}
    BY FS_EmptySet DEF Instants
  <2>2. {} \in SUBSET Intervals(0) /\ 0 \in Nat
    OBVIOUS
  <2>3. MapThenSumSet(Length, {}) = Cardinality(Instants({}))
    BY <2>2, SumIsInstants
  <2> QED
    BY <2>1, <2>3
<1>5. ScanMeasures'
  <2>1. /\ (episodes = Cardinality(LongEpisodes))'
        /\ (violation <= span)' /\ (~inEpisode)'
    BY <1>1, <1>3, <1>4 DEF NothingYet
  <2>2. (violation = MapThenSumSet(Length, LongEpisodes))'
    BY <1>1, <1>3, <1>4 DEF NothingYet
  <2> QED
    BY <2>1, <2>2 DEF ScanMeasures
<1> QED
  BY <1>1, <1>5 DEF ScanInv, NothingYet

LEMMA ScanOtherwise ==
    ScanInv /\ (Summarize \/ AnalysisDone \/ UNCHANGED analysisVars) => ScanInv'
<1> SUFFICES ASSUME ScanInv, Summarize \/ AnalysisDone \/ UNCHANGED analysisVars
             PROVE  ScanInv'
  OBVIOUS
<1>1. CASE Summarize
  <2>1. /\ run \in Runs /\ Started(run) # {} /\ NothingYet /\ pc' = "events"
        /\ UNCHANGED <<run, workers, events, waiting, busy, inEpisode,
                       episodeStart, violation, episodes, span>>
    BY <1>1 DEF ScanInv, Summarize, input
  <2> QED
    BY <2>1 DEF ScanInv, ScanMeasures, NothingYet
<1>2. CASE AnalysisDone \/ UNCHANGED analysisVars
  <2>1. UNCHANGED <<run, workers, pc, summary, events, waiting, busy,
                    inEpisode, episodeStart, violation, episodes, span>>
    BY <1>2 DEF AnalysisDone, analysisVars, input
  <2>2. /\ \A T : ScanAt(T)' <=> ScanAt(T)
        /\ NothingYet' <=> NothingYet
    BY <2>1 DEF ScanAt, NothingYet, Ahead, AllEvents, EventsOf, BeganAt,
                EndedBy, LongEpisodes, Episodes, IsEpisode
  <2>3. ScanMeasures' <=> ScanMeasures
    BY <2>1 DEF ScanMeasures, LongEpisodes, Episodes, IsEpisode
  <2> QED
    BY <2>1, <2>2, <2>3 DEF ScanInv
<1> QED
  BY <1>1, <1>2

LEMMA ScanNext == ScanInv /\ [AnalysisNext]_analysisVars => ScanInv'
BY ScanStarts, ScanMoves, ScanEnds, ScanOfNothing, ScanOtherwise DEF AnalysisNext

\* analyze.h:44-60, analyze.c:100-169: for every run and every pool the scan
\* reports the number and the total length of the episodes longer than the
\* window, as the definition of the invariant counts them, and never more than
\* the span of the run.
THEOREM ScanMeasuresTheEpisodes == AnalysisSpec => []ScanMeasures
<1>1. ScanInv => ScanMeasures
  BY DEF ScanInv
<1> QED
  BY ScanInitially, ScanNext, <1>1, PTL DEF AnalysisSpec

\* Until the next stamp the counters of the scan are the state of the pool.
LEMMA ScanStandsStill == ScanInv => ScanFollowsPool
<1> SUFFICES ASSUME ScanInv, pc = "scan", events # {}
             PROVE  LET t == (CHOOSE e \in Earliest(events) : TRUE).at - 1 IN
                    /\ waiting = WaitingAt(run, t) /\ busy = BusyAt(run, t)
                    /\ inEpisode = ViolatedAt(run, workers, t)
  BY DEF ScanFollowsPool
<1>1. run \in Runs /\ Started(run) # {} /\ inEpisode \in BOOLEAN
  BY DEF ScanInv
<1>2. PICK T \in Nat : ScanAt(T)
  BY DEF ScanInv
<1>3. events = Ahead(T)
  BY <1>2 DEF ScanAt
<1>4. Earliest(events) # {}
  <2> DEFINE stamps == {e.at : e \in events}
  <2>1. stamps \subseteq Nat /\ stamps # {}
    BY <1>1, <1>3, StampsAre DEF Ahead
  <2>2. PICK m \in stamps : \A k \in stamps : m <= k
    <3> HIDE DEF stamps
    <3> QED
      BY <2>1, LeastElement
  <2>3. PICK e \in events : m = e.at
    BY <2>2
  <2>4. \A d \in events : e.at <= d.at
    BY <2>2, <2>3
  <2> QED
    BY <2>4 DEF Earliest
<1>5. PICK U \in Nat : IsNext(T, U, Earliest(events))
  <2>1. Earliest(events) \in Batches(events)
    BY DEF Batches
  <2> QED
    BY <1>1, <1>3, <1>4, <2>1, NextBatch
<1>6. T < U /\ Quiet(T, U) /\ (CHOOSE e \in Earliest(events) : TRUE).at = U
  BY <1>5 DEF IsNext
<1> DEFINE t == U - 1
<1>7. t \in Nat /\ T <= t /\ t < U
  BY <1>6
<1>8. \A k \in Started(run) : /\ run[k].ready <= T \/ t < run[k].ready
                              /\ run[k].start <= T \/ t < run[k].start
                              /\ run[k].end <= T \/ t < run[k].end
  <2> TAKE k \in Started(run)
  <2>1. run[k].ready \in Nat /\ run[k].start \in Nat /\ run[k].end \in Nat
    BY <1>1, RecordsAre
  <2> QED
    BY <1>6, <1>7, <2>1 DEF Quiet
<1>9. WaitingAt(run, t) = WaitingAt(run, T) /\ BusyAt(run, t) = BusyAt(run, T)
  <2> HIDE DEF t
  <2> QED
    BY <1>1, <1>7, <1>8, NoCrossing
<1>10. /\ waiting = WaitingAt(run, t) /\ busy = BusyAt(run, t)
       /\ inEpisode <=> ViolatedAt(run, workers, t)
  <2> HIDE DEF t
  <2> QED
    BY <1>2, <1>9 DEF ScanAt, ViolatedAt
<1>11. inEpisode = ViolatedAt(run, workers, t)
  <2>1. ViolatedAt(run, workers, t) \in BOOLEAN
    BY DEF ViolatedAt
  <2> HIDE DEF t
  <2> QED
    BY <1>1, <1>10, <2>1
<1> QED
  BY <1>6, <1>10, <1>11

\* analyze.h:52-54, analyze.c:134-165: between two stamps the scan is in the
\* state the pool is in "after applying every timestamp equal to t", and in an
\* episode exactly if the invariant is violated.
THEOREM ScanIsThePool == AnalysisSpec => []ScanFollowsPool
BY ScanInitially, ScanNext, ScanStandsStill, PTL DEF AnalysisSpec
=============================================================================
