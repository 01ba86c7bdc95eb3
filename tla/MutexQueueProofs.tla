-------------------------- MODULE MutexQueueProofs --------------------------
(***************************************************************************)
(* Proofs about MutexQueue, for any number of threads, any client programs *)
(* and any amount of memory: the list is whole whenever the mutex is free, *)
(* no two threads hold the same node, and the queue is a FIFO queue.       *)
(***************************************************************************)
EXTENDS MutexQueue, LinkedListProofs

EnqPCs   == {"malloc", "init", "lock", "link", "tail", "unlock"}
DeqPCs   == {"d_lock", "d_head", "d_empty", "d_unlink"}
TakenPCs == {"d_tail", "d_unlock", "d_value"}
PCs      == {"idle", "d_free"} \cup EnqPCs \cup DeqPCs \cup TakenPCs

\* Between lock and unlock.
Critical == {"link", "tail", "unlock", "d_head", "d_empty", "d_unlink",
             "d_tail", "d_unlock"}

QueueTypeOK ==
    /\ head \in Addrs \cup {NULL} /\ tail \in Addrs \cup {NULL}
    /\ lock \in Threads \cup {NULL}
    /\ value \in [Addrs -> Values \cup {NoValue}]
    /\ next \in [Addrs -> Addrs \cup {NULL}]
    /\ allocated \subseteq Addrs
    /\ destroyed \in BOOLEAN
    /\ pc \in [Threads -> PCs]
    /\ n \in [Threads -> Addrs \cup {NULL}]
    /\ out \in [Threads -> Values \cup {NoValue}]
    /\ ip \in [Threads -> Nat]
    /\ seenEmpty \in [Threads -> BOOLEAN]

\* The lock is with whoever is between lock and unlock; an enqueue is one of
\* the program's; nobody uses a queue that is destroyed.
ControlInv ==
    /\ \A t \in Threads : pc[t] \in Critical <=> lock = t
    /\ \A t \in Threads : ip[t] <= Len(Program[t])
    /\ \A t \in Threads : pc[t] \in EnqPCs => <<t, ip[t]>> \in Values
    /\ destroyed => \A t \in Threads : pc[t] = "idle"

\* The threads whose node is not in the list: filled and not yet linked, or
\* unlinked and not yet freed.
Owning  == {"init", "lock", "link", "d_free"} \cup TakenPCs
Owns(t) == pc[t] \in Owning

\* s is the list, at every step, also within a critical section.
ChainInv(s, m) ==
    /\ Distinct(s, m)
    /\ IsList(s, m, head, next, NULL)
    /\ \A i \in 1 .. m : value[s[i]] \in Values

\* Whose node it is: the list's or one thread's.
OwnInv(s, m) ==
    /\ \A t \in Threads : Owns(t) => n[t] \in Addrs /\ \A i \in 1 .. m : s[i] # n[t]
    /\ \A t, u \in Threads : Owns(t) /\ Owns(u) /\ n[t] = n[u] => t = u
    /\ \A t \in Threads :
          /\ pc[t] \in {"lock", "link"} => /\ next[n[t]] = NULL
                                           /\ value[n[t]] = <<t, ip[t]>>
          /\ pc[t] \in {"tail", "unlock"} => m # 0 /\ n[t] = s[m]
          /\ pc[t] \in {"idle", "malloc", "d_lock", "d_head", "d_empty"} => n[t] = NULL
          /\ pc[t] = "d_empty" => m = 0
          /\ pc[t] = "d_unlink" => m # 0 /\ n[t] = s[1]
          /\ pc[t] \in TakenPCs => value[n[t]] \in Values
          /\ pc[t] = "d_free" => out[t] \in Values

\* The tail is the last node but for two places: before an enqueue sets it,
\* and before a dequeue that has taken the last node clears it.
TailInv(s, m) ==
    /\ (\A t \in Threads : pc[t] \notin {"tail", "d_tail"}) =>
          tail = IF m = 0 THEN NULL ELSE s[m]
    /\ \A t \in Threads :
          /\ pc[t] = "tail" => tail = IF m = 1 THEN NULL ELSE s[m - 1]
          /\ pc[t] = "d_tail" /\ m # 0 => tail = s[m]

OwnNodes  == {n[t] : t \in {u \in Threads : Owns(u)}}
Listed(s, m) == IF destroyed THEN {} ELSE {s[i] : i \in 1 .. m}

AllocInv(s, m) == allocated = Listed(s, m) \cup OwnNodes

\* A dequeue that could have seen the queue empty remembers it.
SeenInv ==
    \A t \in Threads : /\ seenEmpty[t] => Dequeuing(t)
                       /\ Dequeuing(t) /\ head = NULL => seenEmpty[t]

ListInv(s, m) ==
    ChainInv(s, m) /\ OwnInv(s, m) /\ TailInv(s, m) /\ AllocInv(s, m)

BaseInv == QueueTypeOK /\ ControlInv

QueueInv ==
    /\ BaseInv /\ SeenInv
    /\ \E m \in Nat : \E s \in [1 .. m -> Addrs] : ListInv(s, m)

-----------------------------------------------------------------------------
(***************************************************************************)
(* The list and its contents                                               *)
(***************************************************************************)
LEMMA ListMeans ==
    ASSUME NEW first, NEW link, DOMAIN link = Addrs, NEW content,
           NEW m \in Nat, NEW s \in [1 .. m -> Addrs], Distinct(s, m),
           IsList(s, m, first, link, NULL), \A i \in 1 .. m : content[s[i]] \in Values
    PROVE  /\ ListFrom(first, link, NULL, Cardinality(Addrs)) = s
           /\ DOMAIN s = 1 .. m
           /\ ([i \in 1 .. m |-> content[s[i]]] = << >>) <=> (m = 0)
           /\ (first = NULL) <=> (m = 0)
<1>1. Cardinality(Addrs) \in Nat /\ m \in 0 .. Cardinality(Addrs)
  BY AddrAssumption, DistinctBound
<1>2. ListFrom(first, link, NULL, Cardinality(Addrs)) = s
  BY <1>1, NullAssumption, ListFromIs
<1> DEFINE c == [i \in 1 .. m |-> content[s[i]]]
<1>3. c \in [1 .. m -> Values]
  OBVIOUS
<1> HIDE DEF c
<1>4. c \in Seq(Values) /\ Len(c) = m
  BY <1>3, SeqByElements
<1>5. (c = << >>) <=> (m = 0)
  BY <1>4
<1>6. (first = NULL) <=> (m = 0)
  BY NullAssumption DEF IsList
<1> QED
  BY <1>2, <1>5, <1>6 DEF c

\* Nodes is the list, and the queue is empty when its head is null.
LEMMA NodesAre ==
    ASSUME QueueTypeOK, NEW m \in Nat, NEW s \in [1 .. m -> Addrs], ChainInv(s, m)
    PROVE  /\ Nodes = s
           /\ Contents = [i \in 1 .. m |-> value[s[i]]]
           /\ (Contents = << >>) <=> (m = 0)
           /\ (head = NULL) <=> (m = 0)
<1>1. DOMAIN next = Addrs
  BY DEF QueueTypeOK
<1> QED
  BY <1>1, ListMeans DEF Nodes, Contents, ChainInv

\* The same of the next state.
LEMMA NodesAreNext ==
    ASSUME QueueTypeOK', NEW m \in Nat, NEW s \in [1 .. m -> Addrs], ChainInv(s, m)'
    PROVE  /\ Nodes' = s
           /\ Contents' = [i \in 1 .. m |-> value'[s[i]]]
           /\ (Contents' = << >>) <=> (m = 0)
           /\ (head' = NULL) <=> (m = 0)
<1>1. DOMAIN next' = Addrs
  BY DEF QueueTypeOK
<1> QED
  BY <1>1, ListMeans DEF Nodes, Contents, ChainInv

\* mq_create leaves an empty list, or no queue.
THEOREM QueueInitInv == Init => QueueInv
<1> SUFFICES ASSUME Init PROVE QueueInv
  OBVIOUS
<1> USE NullAssumption, ProgramAssumption DEF Init
<1>1. \A t \in Threads : Len(Program[t]) \in Nat
  OBVIOUS
<1>2. ControlInv /\ SeenInv
  BY <1>1 DEF ControlInv, SeenInv, Critical, EnqPCs, Dequeuing
<1>3. QueueTypeOK
  BY DEF QueueTypeOK, PCs
<1> DEFINE s == [i \in 1 .. 0 |-> CHOOSE a \in Addrs : TRUE]
<1>4. s \in [1 .. 0 -> Addrs]
  OBVIOUS
<1> HIDE DEF s
<1>5. ListInv(s, 0)
  BY DEF ListInv, ChainInv, Distinct, IsList, OwnInv, TailInv, AllocInv, Owns,
         Owning, TakenPCs, OwnNodes, Listed
<1> QED
  BY <1>2, <1>3, <1>4, <1>5 DEF QueueInv, BaseInv

-----------------------------------------------------------------------------
(***************************************************************************)
(* The steps                                                               *)
(***************************************************************************)
\* A value that the client enqueues.
LEMMA ValuesAre ==
    ASSUME NEW t \in Threads, NEW i \in 1 .. Len(Program[t]), Program[t][i] = "enq"
    PROVE  <<t, i>> \in Values
BY ProgramAssumption DEF Values

\* A call: the operation is the program's next one.
LEMMA CallBase ==
    ASSUME BaseInv, NEW t \in Threads, Call(t), Remember, UNCHANGED destroyed
    PROVE  BaseInv'
<1> USE NullAssumption DEF BaseInv, QueueTypeOK
<1>1. /\ pc[t] = "idle" /\ ip[t] < Len(Program[t]) /\ ip'[t] = ip[t] + 1
      /\ pc' = [pc EXCEPT ![t] = IF Program[t][ip[t] + 1] = "enq" THEN "malloc" ELSE "d_lock"]
      /\ ip' = [ip EXCEPT ![t] = ip[t] + 1]
      /\ UNCHANGED <<queueVars, lock, memVars, n, out>>
  BY DEF Call, Goto
<1>2. Len(Program[t]) \in Nat /\ ip'[t] \in 1 .. Len(Program[t])
  BY <1>1, ProgramAssumption
<1>3. pc'[t] = "malloc" => <<t, ip'[t]>> \in Values
  BY <1>1, <1>2, ValuesAre
<1>4. QueueTypeOK'
  BY <1>1, <1>2 DEF PCs, EnqPCs, DeqPCs, Remember, queueVars, memVars
<1>5. pc'[t] \in {"malloc", "d_lock"} /\ \A u \in Threads \ {t} : pc'[u] = pc[u] /\ ip'[u] = ip[u]
  BY <1>1
<1>6. ~destroyed
  BY DEF Call
<1>7. \A u \in Threads : pc'[u] \in Critical <=> lock' = u
  BY <1>1, <1>5 DEF ControlInv, Critical
<1>8. \A u \in Threads : ip'[u] <= Len(Program[u])
  BY <1>2, <1>5 DEF ControlInv
<1>9. \A u \in Threads : pc'[u] \in EnqPCs => <<u, ip'[u]>> \in Values
  <2> SUFFICES ASSUME NEW u \in Threads, pc'[u] \in EnqPCs
               PROVE  <<u, ip'[u]>> \in Values
    OBVIOUS
  <2>1. CASE u = t
    BY <2>1, <1>3, <1>5 DEF EnqPCs
  <2> QED
    BY <2>1, <1>5 DEF ControlInv
<1> QED
  BY <1>4, <1>6, <1>7, <1>8, <1>9 DEF ControlInv

\* A step of an operation keeps the types.
LEMMA StepType ==
    ASSUME BaseInv, NEW t \in Threads, Step(t), Remember, UNCHANGED destroyed,
           pc[t] \in {"d_unlink", "d_value"} => n[t] \in Addrs
    PROVE  QueueTypeOK'
<1> USE NullAssumption DEF BaseInv, QueueTypeOK, PCs, EnqPCs, DeqPCs, TakenPCs,
                           Goto, Return, queueVars, memVars
<1>1. seenEmpty' \in [Threads -> BOOLEAN]
  BY DEF Remember, Dequeuing
<1>2. CASE Malloc(t) \/ MallocFails(t) \/ InitNode(t) \/ EnqLock(t)
  <2>1. CASE Malloc(t)
    BY <1>1, <2>1 DEF Malloc
  <2>2. CASE MallocFails(t)
    BY <1>1, <2>2 DEF MallocFails
  <2>3. CASE InitNode(t)
    <3>1. <<t, ip[t]>> \in Values
      BY <2>3 DEF InitNode, ControlInv
    <3> QED
      BY <1>1, <2>3, <3>1 DEF InitNode
  <2>4. CASE EnqLock(t)
    BY <1>1, <2>4 DEF EnqLock
  <2> QED
    BY <1>2, <2>1, <2>2, <2>3, <2>4
<1>3. CASE LinkAtTail(t) \/ LinkAtHead(t) \/ SetTail(t) \/ EnqUnlock(t)
  BY <1>1, <1>3 DEF LinkAtTail, LinkAtHead, SetTail, EnqUnlock
<1>4. CASE DeqLock(t) \/ LoadHead(t) \/ UnlockEmpty(t)
  BY <1>1, <1>4 DEF DeqLock, LoadHead, UnlockEmpty
<1>5. CASE Unlink(t) \/ ClearTail(t) \/ DeqUnlock(t)
  <2>1. CASE Unlink(t)
    BY <1>1, <2>1 DEF Unlink
  <2> QED
    BY <1>1, <1>5, <2>1 DEF ClearTail, DeqUnlock
<1>6. CASE ReadValue(t) \/ Free(t)
  BY <1>1, <1>6 DEF ReadValue, Free
<1> QED
  BY <1>2, <1>3, <1>4, <1>5, <1>6 DEF Step

\* A step of an operation keeps mutual exclusion.
LEMMA StepControl ==
    ASSUME BaseInv, NEW t \in Threads, Step(t), UNCHANGED destroyed
    PROVE  ControlInv'
<1> USE NullAssumption DEF BaseInv, QueueTypeOK
<1>1. /\ pc' = [pc EXCEPT ![t] = pc'[t]] /\ UNCHANGED ip /\ pc[t] # "idle"
      /\ pc'[t] \in EnqPCs => pc[t] \in EnqPCs
  BY DEF Step, Malloc, MallocFails, InitNode, EnqLock, LinkAtTail, LinkAtHead,
         SetTail, EnqUnlock, DeqLock, LoadHead, UnlockEmpty, Unlink, ClearTail,
         DeqUnlock, ReadValue, Free, Goto, Return, EnqPCs
<1>2. \/ /\ UNCHANGED lock
         /\ pc[t] \in Critical <=> pc'[t] \in Critical
      \/ /\ lock = NULL /\ lock' = t /\ pc'[t] \in Critical
      \/ /\ pc[t] \in Critical /\ lock' = NULL /\ pc'[t] \notin Critical
  BY DEF Step, Malloc, MallocFails, InitNode, EnqLock, LinkAtTail, LinkAtHead,
         SetTail, EnqUnlock, DeqLock, LoadHead, UnlockEmpty, Unlink, ClearTail,
         DeqUnlock, ReadValue, Free, Goto, Return, Critical
<1>3. \A u \in Threads \ {t} : pc'[u] = pc[u]
  BY <1>1
<1>4. ~destroyed
  BY <1>1 DEF ControlInv
<1>5. \A u \in Threads : pc'[u] \in Critical <=> lock' = u
  BY <1>2, <1>3 DEF ControlInv
<1> QED
  BY <1>1, <1>3, <1>4, <1>5 DEF ControlInv

\* Nothing but thread t's own control and locals change.
Only(t) == \A u \in Threads \ {t} : pc'[u] = pc[u] /\ n'[u] = n[u]
                                    /\ out'[u] = out[u] /\ ip'[u] = ip[u]

LEMMA StepsAreLocal ==
    ASSUME QueueTypeOK, NEW t \in Threads, Call(t) \/ Step(t)
    PROVE  Only(t)
BY DEF QueueTypeOK, Only, Call, Step, Malloc, MallocFails, InitNode, EnqLock,
       LinkAtTail, LinkAtHead, SetTail, EnqUnlock, DeqLock, LoadHead,
       UnlockEmpty, Unlink, ClearTail, DeqUnlock, ReadValue, Free, Goto, Return

\* The nodes that threads own change by thread t's only.
LEMMA OwnNodesChange ==
    ASSUME NEW t \in Threads, NEW a,
           \A u \in Threads \ {t} : (Owns(u)' <=> Owns(u)) /\ n'[u] = n[u],
           \A u \in Threads \ {t} : Owns(u) => n[u] # a,
           Owns(t) => n[t] = a,
           Owns(t)' => n'[t] = a
    PROVE  OwnNodes' = IF Owns(t)' THEN OwnNodes \cup {a} ELSE OwnNodes \ {a}
<1>1. ASSUME NEW x
      PROVE  x \in OwnNodes' <=> IF Owns(t)' THEN x \in OwnNodes \/ x = a
                                           ELSE x \in OwnNodes /\ x # a
  <2>1. \A u \in Threads : u # t => ((Owns(u)' /\ x = n'[u]) <=> (Owns(u) /\ x = n[u]))
    OBVIOUS
  <2>2. (Owns(t)' /\ x = n'[t]) <=> (Owns(t)' /\ x = a)
    OBVIOUS
  <2>3. x \in OwnNodes' <=> \/ Owns(t)' /\ x = n'[t]
                          \/ \E u \in Threads : u # t /\ Owns(u)' /\ x = n'[u]
    <3>1. x \in OwnNodes' <=> \E u \in Threads : Owns(u)' /\ x = n'[u]
      BY DEF OwnNodes
    <3> QED
      BY <3>1 DEF Owns
  <2>4. x \in OwnNodes <=> \/ Owns(t) /\ x = n[t]
                         \/ \E u \in Threads : u # t /\ Owns(u) /\ x = n[u]
    <3>1. x \in OwnNodes <=> \E u \in Threads : Owns(u) /\ x = n[u]
      BY DEF OwnNodes
    <3> QED
      BY <3>1 DEF Owns
  <2> QED
    BY <2>1, <2>2, <2>3, <2>4
<1> QED
  BY <1>1

LEMMA OwnNodesSame ==
    ASSUME \A u \in Threads : (Owns(u)' <=> Owns(u)) /\ (Owns(u) => n'[u] = n[u])
    PROVE  OwnNodes' = OwnNodes
<1>1. OwnNodes' = {n'[u] : u \in {v \in Threads : Owns(v)'}}
  BY DEF OwnNodes
<1>2. \A x : x \in OwnNodes' <=> \E u \in Threads : Owns(u)' /\ x = n'[u]
  BY <1>1
<1>3. \A x : x \in OwnNodes <=> \E u \in Threads : Owns(u) /\ x = n[u]
  BY DEF OwnNodes
<1> QED
  BY <1>2, <1>3

\* Steps that leave the list and its memory alone.
QuietStep(t) ==
    \/ Call(t) \/ MallocFails(t) \/ EnqLock(t) \/ EnqUnlock(t)
    \/ DeqLock(t) \/ LoadHead(t) \/ UnlockEmpty(t) \/ DeqUnlock(t) \/ ReadValue(t)

LEMMA QuietList ==
    ASSUME BaseInv, NEW t \in Threads, QuietStep(t), UNCHANGED destroyed,
           NEW m \in Nat, NEW s \in [1 .. m -> Addrs], ListInv(s, m)
    PROVE  ListInv(s, m)'
<1> USE NullAssumption DEF BaseInv, QueueTypeOK, ListInv
<1>1. UNCHANGED <<head, tail, value, next, allocated>> /\ Only(t)
  <2>1. Only(t)
    BY StepsAreLocal DEF QuietStep, Step
  <2> QED
    BY <2>1 DEF QuietStep, Call, MallocFails, EnqLock, EnqUnlock, DeqLock,
                LoadHead, UnlockEmpty, DeqUnlock, ReadValue, queueVars, memVars
<1>2. ChainInv(s, m)'
  BY <1>1 DEF ChainInv, IsList
<1>3. /\ Owns(t)' <=> Owns(t)
      /\ Owns(t) => n'[t] = n[t]
      /\ pc[t] \notin {"tail", "d_tail"} /\ pc'[t] \notin {"tail", "d_tail"}
  BY DEF QuietStep, Call, MallocFails, EnqLock, EnqUnlock, DeqLock, LoadHead,
         UnlockEmpty, DeqUnlock, ReadValue, Goto, Return, Owns, Owning, TakenPCs
<1>4. /\ pc'[t] \in {"lock", "link"} => pc[t] = "lock" /\ n'[t] = n[t] /\ ip'[t] = ip[t]
      /\ pc'[t] \notin {"tail", "unlock"}
      /\ pc'[t] \in {"idle", "malloc", "d_lock", "d_head", "d_empty"} => n'[t] = NULL
      /\ pc'[t] = "d_empty" => m = 0
      /\ pc'[t] = "d_unlink" => m # 0 /\ n'[t] = s[1]
      /\ pc'[t] \in TakenPCs => pc[t] \in TakenPCs /\ n'[t] = n[t]
      /\ pc'[t] = "d_free" => out'[t] \in Values
  <2>1. CASE Call(t) \/ MallocFails(t) \/ EnqLock(t) \/ EnqUnlock(t) \/ DeqLock(t)
    BY <2>1 DEF Call, MallocFails, EnqLock, EnqUnlock, DeqLock, Goto, Return,
                OwnInv, TakenPCs
  <2>2. CASE LoadHead(t)
    BY <2>2 DEF LoadHead, Goto, ChainInv, IsList, TakenPCs
  <2>3. CASE UnlockEmpty(t) \/ DeqUnlock(t) \/ ReadValue(t)
    BY <2>3 DEF UnlockEmpty, DeqUnlock, ReadValue, Goto, Return, OwnInv, TakenPCs
  <2> QED
    BY <2>1, <2>2, <2>3 DEF QuietStep
<1>5. OwnInv(s, m)'
  <2>1. \A u \in Threads : (Owns(u)' <=> Owns(u)) /\ (Owns(u) => n'[u] = n[u])
    BY <1>1, <1>3 DEF Only, Owns
  <2> QED
    BY <1>1, <1>4, <2>1 DEF OwnInv, Only
<1>6. TailInv(s, m)'
  BY <1>1, <1>3 DEF TailInv, Only
<1>7. OwnNodes' = OwnNodes
  <2>1. \A u \in Threads : (Owns(u)' <=> Owns(u)) /\ (Owns(u) => n'[u] = n[u])
    BY <1>1, <1>3 DEF Only, Owns
  <2> QED
    BY <2>1, OwnNodesSame
<1> QED
  BY <1>1, <1>2, <1>5, <1>6, <1>7 DEF AllocInv, Listed

\* Steps on a node of the thread's own: it is allocated, filled, freed.
LEMMA OwnNodeList ==
    ASSUME BaseInv, NEW t \in Threads, Malloc(t) \/ InitNode(t) \/ Free(t),
           UNCHANGED destroyed,
           NEW m \in Nat, NEW s \in [1 .. m -> Addrs], ListInv(s, m)
    PROVE  ListInv(s, m)'
<1> USE NullAssumption DEF BaseInv, QueueTypeOK, ListInv
<1>1. UNCHANGED <<head, tail>> /\ Only(t)
  BY StepsAreLocal DEF Step, Malloc, InitNode, Free, queueVars
<1>2. PICK a \in Addrs : /\ \A i \in 1 .. m : s[i] # a
                         /\ \A u \in Threads \ {t} : Owns(u) => n[u] # a
                         /\ \A b \in Addrs \ {a} : value'[b] = value[b] /\ next'[b] = next[b]
                         /\ Owns(t) => n[t] = a
                         /\ Owns(t)' => n'[t] = a
                         /\ allocated' = IF Owns(t)' THEN allocated \cup {a} ELSE allocated \ {a}
  <2>1. CASE Malloc(t)
    <3>1. PICK a \in Addrs \ allocated : n' = [n EXCEPT ![t] = a] /\ allocated' = allocated \cup {a}
      BY <2>1 DEF Malloc
    <3>2. ~destroyed /\ Owns(t)' /\ ~Owns(t)
      BY <2>1 DEF Malloc, Goto, ControlInv, Finished, Owns, Owning, TakenPCs
    <3>3. \A i \in 1 .. m : s[i] # a
      BY <3>1, <3>2 DEF AllocInv, Listed
    <3>4. \A u \in Threads : Owns(u) => n[u] # a
      BY <3>1 DEF AllocInv, OwnNodes
    <3> QED
      BY <2>1, <3>1, <3>2, <3>3, <3>4 DEF Malloc
  <2>2. CASE InitNode(t)
    <3>1. Owns(t) /\ Owns(t)' /\ n'[t] = n[t] /\ n[t] \in Addrs /\ n[t] \in allocated
          /\ allocated' = allocated
      BY <2>2 DEF InitNode, Goto, Owns, Owning, OwnInv, AllocInv, OwnNodes
    <3> QED
      BY <2>2, <3>1 DEF InitNode, OwnInv
  <2>3. CASE Free(t)
    <3>1. Owns(t) /\ ~Owns(t)' /\ n[t] \in Addrs
      BY <2>3 DEF Free, Return, Goto, Owns, Owning, TakenPCs, OwnInv
    <3> QED
      BY <2>3, <3>1 DEF Free, OwnInv
  <2> QED
    BY <2>1, <2>2, <2>3
<1>3. ChainInv(s, m)'
  BY <1>1, <1>2 DEF ChainInv, IsList
<1>4. \A u \in Threads \ {t} : (Owns(u)' <=> Owns(u))
  BY <1>1 DEF Only, Owns
<1>5. /\ pc[t] \in {"malloc", "init", "d_free"}
      /\ pc'[t] \in {"init", "lock", "idle"}
      /\ pc'[t] = "lock" => next'[n'[t]] = NULL /\ value'[n'[t]] = <<t, ip'[t]>>
      /\ pc'[t] = "idle" => n'[t] = NULL
  <2>1. CASE InitNode(t)
    <3>1. n[t] \in Addrs
      BY <2>1 DEF InitNode, Goto, Owns, Owning, OwnInv
    <3> QED
      BY <2>1, <3>1 DEF InitNode, Goto
  <2> QED
    BY <2>1 DEF Malloc, Free, Goto, Return
<1>6. OwnInv(s, m)'
  <2>1. \A u \in Threads : Owns(u)' => n'[u] \in Addrs /\ \A i \in 1 .. m : s[i] # n'[u]
    BY <1>1, <1>2, <1>4 DEF OwnInv, Only
  <2>2. \A u, v \in Threads : Owns(u)' /\ Owns(v)' /\ n'[u] = n'[v] => u = v
    BY <1>1, <1>2, <1>4 DEF OwnInv, Only
  <2>3. \A u \in Threads \ {t} : Owns(u) => n[u] \in Addrs \ {a}
    BY <1>2 DEF OwnInv
  <2>4. ASSUME NEW u \in Threads
        PROVE  /\ pc'[u] \in {"lock", "link"} => /\ next'[n'[u]] = NULL
                                                 /\ value'[n'[u]] = <<u, ip'[u]>>
               /\ pc'[u] \in {"tail", "unlock"} => m # 0 /\ n'[u] = s[m]
               /\ pc'[u] \in {"idle", "malloc", "d_lock", "d_head", "d_empty"} => n'[u] = NULL
               /\ pc'[u] = "d_empty" => m = 0
               /\ pc'[u] = "d_unlink" => m # 0 /\ n'[u] = s[1]
               /\ pc'[u] \in TakenPCs => value'[n'[u]] \in Values
               /\ pc'[u] = "d_free" => out'[u] \in Values
    <3>1. CASE u = t
      BY <3>1, <1>5 DEF TakenPCs
    <3>2. CASE u # t
      BY <3>2, <1>1, <1>2, <2>3 DEF OwnInv, Only, Owns, Owning
    <3> QED
      BY <3>1, <3>2
  <2> QED
    BY <2>1, <2>2, <2>4 DEF OwnInv
<1>7. TailInv(s, m)'
  BY <1>1, <1>5, ZenonT(60) DEF TailInv, Only
<1>8. AllocInv(s, m)'
  <2>1. Listed(s, m)' = Listed(s, m) /\ a \notin Listed(s, m)
    BY <1>2 DEF Listed
  <2>2. \A u \in Threads \ {t} : (Owns(u)' <=> Owns(u)) /\ n'[u] = n[u]
    BY <1>1, <1>4 DEF Only
  <2>3. /\ \A u \in Threads \ {t} : Owns(u) => n[u] # a
        /\ Owns(t) => n[t] = a
        /\ Owns(t)' => n'[t] = a
    BY <1>2
  <2>4. OwnNodes' = IF Owns(t)' THEN OwnNodes \cup {a} ELSE OwnNodes \ {a}
    BY <2>2, <2>3, OwnNodesChange
  <2> QED
    BY <2>1, <2>4, <1>2 DEF AllocInv
<1> QED
  BY <1>3, <1>6, <1>7, <1>8

\* Whoever is between lock and unlock is there alone.
LEMMA Alone ==
    ASSUME ControlInv, NEW t \in Threads, pc[t] \in Critical
    PROVE  /\ lock = t
           /\ \A u \in Threads \ {t} : pc[u] \notin Critical
           /\ ~destroyed
BY DEF ControlInv, Finished, Critical

\* The link: the list is longer by the thread's node.
LEMMA LinkList ==
    ASSUME BaseInv, NEW t \in Threads, LinkAtTail(t) \/ LinkAtHead(t),
           UNCHANGED destroyed,
           NEW m \in Nat, NEW s \in [1 .. m -> Addrs], ListInv(s, m),
           NEW k, k = m + 1, NEW s2 \in [1 .. k -> Addrs],
           s2 = [i \in 1 .. k |-> IF i = k THEN n[t] ELSE s[i]]
    PROVE  ListInv(s2, k)'
<1> USE NullAssumption DEF BaseInv, QueueTypeOK, ListInv
<1>1. /\ pc[t] = "link" /\ pc'[t] = "tail" /\ Only(t)
      /\ UNCHANGED <<n, ip, out, value, allocated, tail>>
  <2>1. Only(t)
    BY StepsAreLocal DEF Step
  <2> QED
    BY <2>1 DEF LinkAtTail, LinkAtHead, Goto, memVars, queueVars
<1>2. \A u \in Threads \ {t} : pc[u] \notin Critical /\ pc'[u] = pc[u] /\ (Owns(u)' <=> Owns(u))
  BY <1>1, Alone DEF Only, Critical, Owns
<1>3. ~destroyed /\ tail = IF m = 0 THEN NULL ELSE s[m]
  BY <1>1, <1>2, Alone DEF TailInv, Critical
<1>4. Owns(t) /\ ~Owns(t)' /\ n[t] \in Addrs /\ \A i \in 1 .. m : s[i] # n[t]
  BY <1>1 DEF Owns, Owning, TakenPCs, OwnInv
<1>5. next[n[t]] = NULL /\ value[n[t]] \in Values
  BY <1>1, ZenonT(60) DEF OwnInv, ControlInv, EnqPCs
<1>6. /\ next' = IF m = 0 THEN next ELSE [next EXCEPT ![s[m]] = n[t]]
      /\ head' = IF m = 0 THEN n[t] ELSE head
  BY <1>3 DEF LinkAtTail, LinkAtHead, queueVars, memVars
<1>7. m + 1 \in Nat /\ k \in Nat /\ (\A i \in 1 .. k : i # k => i \in 1 .. m)
      /\ (\A i \in 1 .. m : i \in 1 .. k /\ i # k)
  OBVIOUS
<1>8. ChainInv(s2, k)'
  <2>1. Distinct(s2, k)
    BY <1>4, <1>7 DEF Distinct, ChainInv
  <2>2. \A i \in 1 .. k : value'[s2[i]] \in Values
    BY <1>1, <1>5, <1>7 DEF ChainInv
  <2>3. head' = IF k = 0 THEN NULL ELSE s2[1]
    BY <1>6 DEF ChainInv, IsList
  <2>4. \A i \in 1 .. k : next'[s2[i]] = IF i = k THEN NULL ELSE s2[i + 1]
    <3> SUFFICES ASSUME NEW i \in 1 .. k
                 PROVE  next'[s2[i]] = IF i = k THEN NULL ELSE s2[i + 1]
      OBVIOUS
    <3>1. CASE i = k
      BY <3>1, <1>4, <1>5, <1>6
    <3>2. CASE i = m
      BY <3>2, <1>6
    <3>3. CASE i # k /\ i # m
      <4>1. i \in 1 .. m /\ i + 1 \in 1 .. m /\ m \in 1 .. m /\ s[i] # s[m]
        BY <3>3 DEF ChainInv, Distinct
      <4>2. next[s[i]] = s[i + 1]
        BY <3>3, <4>1 DEF ChainInv, IsList
      <4> QED
        BY <3>3, <4>1, <4>2, <1>6
    <3> QED
      BY <3>1, <3>2, <3>3
  <2> QED
    BY <2>1, <2>2, <2>3, <2>4 DEF ChainInv, IsList
<1>9. OwnInv(s2, k)'
  <2>1. \A u \in Threads : Owns(u)' => u # t /\ Owns(u) /\ n'[u] = n[u]
    BY <1>1, <1>2, <1>4
  <2>2. ASSUME NEW u \in Threads, Owns(u)'
        PROVE  n[u] \in Addrs /\ n[u] # n[t] /\ (\A i \in 1 .. m : s[i] # n[u])
    BY <2>1, <2>2, <1>4 DEF OwnInv
  <2>3. \A u \in Threads : Owns(u)' => n'[u] \in Addrs /\ \A i \in 1 .. k : s2[i] # n'[u]
    BY <2>1, <2>2
  <2>4. \A u, v \in Threads : Owns(u)' /\ Owns(v)' /\ n'[u] = n'[v] => u = v
    BY <2>1 DEF OwnInv
  <2>5. ASSUME NEW u \in Threads
        PROVE  /\ pc'[u] \in {"lock", "link"} => /\ next'[n'[u]] = NULL
                                                 /\ value'[n'[u]] = <<u, ip'[u]>>
               /\ pc'[u] \in {"tail", "unlock"} => k # 0 /\ n'[u] = s2[k]
               /\ pc'[u] \in {"idle", "malloc", "d_lock", "d_head", "d_empty"} => n'[u] = NULL
               /\ pc'[u] = "d_empty" => k = 0
               /\ pc'[u] = "d_unlink" => k # 0 /\ n'[u] = s2[1]
               /\ pc'[u] \in TakenPCs => value'[n'[u]] \in Values
               /\ pc'[u] = "d_free" => out'[u] \in Values
    <3>1. CASE u = t
      BY <3>1, <1>1 DEF TakenPCs
    <3>2. CASE u # t
      <4>1. pc'[u] = pc[u] /\ pc[u] \notin Critical /\ n'[u] = n[u] /\ out'[u] = out[u]
            /\ ip'[u] = ip[u]
        BY <3>2, <1>1, <1>2
      <4>2. pc[u] \in {"lock"} \cup TakenPCs => next'[n[u]] = next[n[u]]
        <5>1. pc[u] \in {"lock"} \cup TakenPCs => Owns(u)'
          BY <4>1 DEF Owns, Owning
        <5> QED
          BY <5>1, <2>2, <1>6
      <4> QED
        BY <4>1, <4>2, <1>1 DEF OwnInv, Critical, TakenPCs
    <3> QED
      BY <3>1, <3>2
  <2> QED
    BY <2>3, <2>4, <2>5 DEF OwnInv
<1>10. TailInv(s2, k)'
  <2>1. \A u \in Threads : pc'[u] \in {"tail", "d_tail"} => u = t
    BY <1>2 DEF Critical
  <2>2. m # 0 => m \in 1 .. k /\ m # k /\ s2[m] = s[m]
    OBVIOUS
  <2> QED
    BY <2>1, <2>2, <1>1, <1>3 DEF TailInv
<1>11. AllocInv(s2, k)'
  <2>1. OwnNodes' = OwnNodes \ {n[t]}
    <3>1. \A u \in Threads \ {t} : n'[u] = n[u] /\ (Owns(u) => n[u] # n[t])
      BY <1>1, <1>4 DEF OwnInv
    <3>2. OwnNodes' = IF Owns(t)' THEN OwnNodes \cup {n[t]} ELSE OwnNodes \ {n[t]}
      BY <3>1, <1>2, <1>4, OwnNodesChange
    <3> QED
      BY <3>2, <1>4
  <2>2. n[t] \in OwnNodes
    BY <1>4 DEF OwnNodes
  <2>3. Listed(s2, k)' = Listed(s, m) \cup {n[t]}
    <3>1. k \in 1 .. k /\ s2[k] = n[t] /\ \A i \in 1 .. m : i \in 1 .. k /\ s2[i] = s[i]
      OBVIOUS
    <3>2. {s2[i] : i \in 1 .. k} = {s[i] : i \in 1 .. m} \cup {n[t]}
      BY <3>1, <1>7
    <3> QED
      BY <3>2, <1>3 DEF Listed
  <2> QED
    BY <2>1, <2>2, <2>3, <1>1 DEF AllocInv
<1> QED
  BY <1>8, <1>9, <1>10, <1>11

\* The unlink: the first node is the thread's, the others are the list.
LEMMA UnlinkList ==
    ASSUME BaseInv, NEW t \in Threads, Unlink(t), UNCHANGED destroyed,
           NEW m \in Nat, NEW s \in [1 .. m -> Addrs], ListInv(s, m),
           NEW k, k = m - 1, NEW s2 \in [1 .. k -> Addrs],
           s2 = [i \in 1 .. k |-> s[i + 1]]
    PROVE  k \in Nat /\ ListInv(s2, k)'
<1> USE NullAssumption DEF BaseInv, QueueTypeOK, ListInv
<1>1. /\ pc[t] = "d_unlink" /\ pc'[t] = "d_tail" /\ Only(t)
      /\ UNCHANGED <<n, ip, out, value, next, allocated, tail>>
      /\ head' = next[n[t]]
  <2>1. Only(t)
    BY StepsAreLocal DEF Step
  <2> QED
    BY <2>1 DEF Unlink, Goto, memVars, queueVars
<1>2. \A u \in Threads \ {t} : pc[u] \notin Critical /\ pc'[u] = pc[u] /\ (Owns(u)' <=> Owns(u))
  BY <1>1, Alone DEF Only, Critical, Owns
<1>3. m # 0 /\ n[t] = s[1]
  BY <1>1 DEF OwnInv
<1>4. /\ k \in Nat /\ m = k + 1 /\ 1 \in 1 .. m
      /\ \A i \in 1 .. k : i + 1 \in 1 .. m /\ i + 1 # 1 /\ s2[i] = s[i + 1]
      /\ \A j \in 1 .. m : j = 1 \/ (j - 1 \in 1 .. k /\ s2[j - 1] = s[j])
  BY <1>3
<1>5. ~destroyed /\ tail = s[m]
  BY <1>1, <1>2, <1>3, Alone DEF TailInv, Critical
<1>6. ~Owns(t) /\ Owns(t)' /\ n[t] \in Addrs
  BY <1>1, <1>3, <1>4 DEF Owns, Owning, TakenPCs
<1>7. \A i \in 1 .. k : s2[i] # n[t]
  BY <1>3, <1>4 DEF ChainInv, Distinct
<1>8. ChainInv(s2, k)'
  <2>1. Distinct(s2, k)
    <3> SUFFICES ASSUME NEW i \in 1 .. k, NEW j \in 1 .. k, s2[i] = s2[j]
                 PROVE  i = j
      BY DEF Distinct
    <3>1. i + 1 = j + 1
      BY <1>4 DEF ChainInv, Distinct
    <3> QED
      BY <3>1
  <2>2. \A i \in 1 .. k : value'[s2[i]] \in Values
    BY <1>1, <1>4 DEF ChainInv
  <2>3. head' = IF k = 0 THEN NULL ELSE s2[1]
    <3>1. head' = IF m = 1 THEN NULL ELSE s[1 + 1]
      BY <1>1, <1>3, <1>4 DEF ChainInv, IsList
    <3> QED
      BY <3>1, <1>4
  <2>4. \A i \in 1 .. k : next'[s2[i]] = IF i = k THEN NULL ELSE s2[i + 1]
    <3> SUFFICES ASSUME NEW i \in 1 .. k
                 PROVE  next'[s2[i]] = IF i = k THEN NULL ELSE s2[i + 1]
      OBVIOUS
    <3>1. next'[s2[i]] = IF i + 1 = m THEN NULL ELSE s[i + 1 + 1]
      BY <1>1, <1>4 DEF ChainInv, IsList
    <3>2. i # k => i + 1 \in 1 .. k
      BY <1>4
    <3> QED
      BY <3>1, <3>2, <1>4
  <2> QED
    BY <2>1, <2>2, <2>3, <2>4 DEF ChainInv, IsList
<1>9. OwnInv(s2, k)'
  <2>1. \A u \in Threads : Owns(u)' => u = t \/ (u # t /\ Owns(u))
    BY <1>2
  <2>2. \A u \in Threads \ {t} : Owns(u) => /\ n[u] \in Addrs /\ n[u] # n[t]
                                            /\ \A i \in 1 .. k : s2[i] # n[u]
    BY <1>3, <1>4 DEF OwnInv
  <2>3. \A u \in Threads : Owns(u)' => n'[u] \in Addrs /\ \A i \in 1 .. k : s2[i] # n'[u]
    BY <2>1, <2>2, <1>1, <1>6, <1>7
  <2>4. \A u, v \in Threads : Owns(u)' /\ Owns(v)' /\ n'[u] = n'[v] => u = v
    BY <2>1, <2>2, <1>1 DEF OwnInv
  <2>5. ASSUME NEW u \in Threads
        PROVE  /\ pc'[u] \in {"lock", "link"} => /\ next'[n'[u]] = NULL
                                                 /\ value'[n'[u]] = <<u, ip'[u]>>
               /\ pc'[u] \in {"tail", "unlock"} => k # 0 /\ n'[u] = s2[k]
               /\ pc'[u] \in {"idle", "malloc", "d_lock", "d_head", "d_empty"} => n'[u] = NULL
               /\ pc'[u] = "d_empty" => k = 0
               /\ pc'[u] = "d_unlink" => k # 0 /\ n'[u] = s2[1]
               /\ pc'[u] \in TakenPCs => value'[n'[u]] \in Values
               /\ pc'[u] = "d_free" => out'[u] \in Values
    <3>1. CASE u = t
      <4>1. value'[n'[t]] \in Values
        BY <1>1, <1>3, <1>4 DEF ChainInv
      <4> QED
        BY <3>1, <4>1, <1>1
    <3>2. CASE u # t
      BY <3>2, <1>1, <1>2 DEF OwnInv, Critical
    <3> QED
      BY <3>1, <3>2
  <2> QED
    BY <2>3, <2>4, <2>5 DEF OwnInv
<1>10. TailInv(s2, k)'
  <2>1. \A u \in Threads : pc'[u] \in {"tail", "d_tail"} => u = t
    BY <1>2 DEF Critical
  <2>2. k # 0 => s2[k] = s[m]
    BY <1>4
  <2> QED
    BY <2>1, <2>2, <1>1, <1>5 DEF TailInv
<1>11. AllocInv(s2, k)'
  <2>1. OwnNodes' = OwnNodes \cup {n[t]}
    <3>1. \A u \in Threads \ {t} : n'[u] = n[u] /\ (Owns(u) => n[u] # n[t])
      BY <1>1, <1>3, <1>4 DEF OwnInv
    <3>2. OwnNodes' = IF Owns(t)' THEN OwnNodes \cup {n[t]} ELSE OwnNodes \ {n[t]}
      BY <3>1, <1>1, <1>2, <1>6, OwnNodesChange
    <3> QED
      BY <3>2, <1>6
  <2>2. Listed(s, m) = Listed(s2, k)' \cup {n[t]}
    <3>1. {s[i] : i \in 1 .. m} = {s2[i] : i \in 1 .. k} \cup {n[t]}
      <4> DEFINE X == {s[i] : i \in 1 .. m}
                 Y == {s2[i] : i \in 1 .. k}
      <4>1. \A j \in 1 .. m : s[j] \in Y \cup {n[t]}
        BY <1>3, <1>4
      <4>2. \A i \in 1 .. k : s2[i] \in X
        BY <1>4
      <4>3. n[t] \in X
        BY <1>3, <1>4
      <4>4. X \subseteq Y \cup {n[t]}
        BY <4>1
      <4>5. Y \subseteq X
        BY <4>2
      <4> HIDE DEF X, Y
      <4>6. X = Y \cup {n[t]}
        BY <4>3, <4>4, <4>5
      <4> QED
        BY <4>6 DEF X, Y
    <3> QED
      BY <3>1, <1>5 DEF Listed
  <2> QED
    BY <2>1, <2>2, <1>1 DEF AllocInv
<1> QED
  BY <1>4, <1>8, <1>9, <1>10, <1>11

\* The tail is set, or cleared: the list is as it was.
LEMMA TailList ==
    ASSUME BaseInv, NEW t \in Threads, SetTail(t) \/ ClearTail(t),
           UNCHANGED destroyed,
           NEW m \in Nat, NEW s \in [1 .. m -> Addrs], ListInv(s, m)
    PROVE  ListInv(s, m)'
<1> USE NullAssumption DEF BaseInv, QueueTypeOK, ListInv
<1>1. /\ \/ pc[t] = "tail" /\ pc'[t] = "unlock" /\ tail' = n[t]
         \/ pc[t] = "d_tail" /\ pc'[t] = "d_unlock" /\ tail' = IF head = NULL THEN NULL ELSE tail
      /\ Only(t) /\ UNCHANGED <<n, ip, out, value, next, allocated, head>>
  <2>1. Only(t)
    BY StepsAreLocal DEF Step
  <2> QED
    BY <2>1 DEF SetTail, ClearTail, Goto, memVars, queueVars
<1>2. \A u \in Threads \ {t} : pc[u] \notin Critical /\ pc'[u] = pc[u]
  BY <1>1, Alone DEF Only, Critical
<1>3. \A u \in Threads : (Owns(u)' <=> Owns(u)) /\ (Owns(u) => n'[u] = n[u])
  BY <1>1, <1>2 DEF Owns, Owning, TakenPCs
<1>4. ChainInv(s, m)'
  BY <1>1 DEF ChainInv, IsList
<1>5. OwnInv(s, m)'
  BY <1>1, <1>2, <1>3 DEF OwnInv, TakenPCs
<1>6. TailInv(s, m)'
  <2>1. tail' = IF m = 0 THEN NULL ELSE s[m]
    BY <1>1 DEF TailInv, OwnInv, ChainInv, IsList
  <2>2. \A u \in Threads : pc'[u] \notin {"tail", "d_tail"}
    BY <1>1, <1>2 DEF Critical
  <2> QED
    BY <2>1, <2>2 DEF TailInv
<1>7. AllocInv(s, m)'
  BY <1>1, <1>3, OwnNodesSame DEF AllocInv, Listed
<1> QED
  BY <1>4, <1>5, <1>6, <1>7

\* Whichever step a thread takes, there is a list after it.
LEMMA StepList ==
    ASSUME QueueInv, NEW t \in Threads, Call(t) \/ Step(t), UNCHANGED destroyed
    PROVE  \E m \in Nat : \E s \in [1 .. m -> Addrs] : ListInv(s, m)'
<1> USE DEF QueueInv
<1>0. PICK m \in Nat : \E s \in [1 .. m -> Addrs] : ListInv(s, m)
  OBVIOUS
<1>1. PICK s \in [1 .. m -> Addrs] : ListInv(s, m)
  BY <1>0
<1>2. CASE QuietStep(t)
  BY <1>1, <1>2, QuietList
<1>3. CASE Malloc(t) \/ InitNode(t) \/ Free(t)
  BY <1>1, <1>3, OwnNodeList
<1>4. CASE LinkAtTail(t) \/ LinkAtHead(t)
  <2>1. n[t] \in Addrs
    BY <1>1, <1>4 DEF LinkAtTail, LinkAtHead, Goto, ListInv, OwnInv, Owns, Owning
  <2>2. PICK k : k = m + 1
    OBVIOUS
  <2>3. PICK s2 \in [1 .. k -> Addrs] : s2 = [i \in 1 .. k |-> IF i = k THEN n[t] ELSE s[i]]
    <3>1. [i \in 1 .. k |-> IF i = k THEN n[t] ELSE s[i]] \in [1 .. k -> Addrs]
      BY <2>1, <2>2
    <3> QED
      BY <3>1
  <2>4. ListInv(s2, k)'
    BY <1>1, <1>4, <2>2, <2>3, LinkList
  <2> QED
    BY <2>2, <2>4
<1>5. CASE SetTail(t) \/ ClearTail(t)
  BY <1>1, <1>5, TailList
<1>6. CASE Unlink(t)
  <2>1. PICK k : k = m - 1
    OBVIOUS
  <2>2. PICK s2 \in [1 .. k -> Addrs] : s2 = [i \in 1 .. k |-> s[i + 1]]
    <3>1. \A i \in 1 .. k : i + 1 \in 1 .. m
      BY <2>1
    <3>2. [i \in 1 .. k |-> s[i + 1]] \in [1 .. k -> Addrs]
      BY <3>1
    <3> QED
      BY <3>2
  <2>3. k \in Nat /\ ListInv(s2, k)'
    BY <1>1, <1>6, <2>1, <2>2, UnlinkList
  <2> QED
    BY <2>3
<1> QED
  BY <1>2, <1>3, <1>4, <1>5, <1>6 DEF Step, QuietStep

\* What a dequeue remembers.
LEMMA StepSeen ==
    ASSUME QueueTypeOK', NEW m \in Nat, NEW s \in [1 .. m -> Addrs], ListInv(s, m)',
           Remember
    PROVE  SeenInv'
<1>1. (Contents' = << >>) <=> (head' = NULL)
  BY NodesAreNext DEF ListInv
<1> QED
  BY <1>1 DEF Remember, SeenInv

\* mq_destroy frees every node: the list is all there is.
LEMMA DestroyInv ==
    ASSUME QueueInv, Destroy
    PROVE  QueueInv'
<1> USE DEF QueueInv, BaseInv
<1>0. PICK m \in Nat : \E s \in [1 .. m -> Addrs] : ListInv(s, m)
  OBVIOUS
<1>1. PICK s \in [1 .. m -> Addrs] : ListInv(s, m)
  BY <1>0
<1>2. /\ \A t \in Threads : Finished(t)
      /\ ~destroyed /\ destroyed'
      /\ allocated' = allocated \ {Nodes[i] : i \in DOMAIN Nodes}
      /\ UNCHANGED <<head, tail, lock, value, next, pc, n, out, ip, seenEmpty>>
  BY DEF Destroy, queueVars, threadVars
<1>3. QueueTypeOK' /\ ControlInv' /\ SeenInv'
  BY <1>2 DEF QueueTypeOK, ControlInv, SeenInv, Finished, Dequeuing
<1>4. OwnNodes = {} /\ OwnNodes' = {}
  BY <1>2 DEF OwnNodes, Owns, Owning, TakenPCs, Finished
<1>5. AllocInv(s, m)'
  <2>1. Nodes = s
    BY <1>1, NodesAre DEF ListInv
  <2> QED
    BY <1>1, <1>2, <1>4, <2>1 DEF ListInv, AllocInv, Listed
<1>6. ListInv(s, m)'
  BY <1>1, <1>2, <1>5 DEF ListInv, ChainInv, OwnInv, TailInv, IsList, Owns
<1> QED
  BY <1>3, <1>6

\* Every step keeps the list.
THEOREM QueueNextInv == QueueInv /\ [Next]_vars => QueueInv'
<1> SUFFICES ASSUME QueueInv, [Next]_vars PROVE QueueInv'
  OBVIOUS
<1>1. ASSUME NEW t \in Threads, Call(t) \/ Step(t), Remember, UNCHANGED destroyed
      PROVE  QueueInv'
  <2>0. PICK m \in Nat : \E s \in [1 .. m -> Addrs] : ListInv(s, m)
    BY DEF QueueInv
  <2>1. PICK s \in [1 .. m -> Addrs] : ListInv(s, m)
    BY <2>0
  <2>2. pc[t] \in {"d_unlink", "d_value"} => n[t] \in Addrs
    BY <2>1 DEF ListInv, OwnInv, Owns, Owning, TakenPCs
  <2>3. BaseInv'
    <3>1. CASE Call(t)
      BY <1>1, <3>1, CallBase DEF QueueInv
    <3>2. CASE Step(t)
      BY <1>1, <3>2, <2>2, StepType, StepControl DEF QueueInv, BaseInv
    <3> QED
      BY <1>1, <3>1, <3>2
  <2>4. PICK k \in Nat : \E s2 \in [1 .. k -> Addrs] : ListInv(s2, k)'
    BY <1>1, StepList
  <2>5. PICK s2 \in [1 .. k -> Addrs] : ListInv(s2, k)'
    BY <2>4
  <2>6. SeenInv'
    BY <1>1, <2>3, <2>5, StepSeen DEF BaseInv
  <2> QED
    BY <2>3, <2>5, <2>6 DEF QueueInv
<1>2. CASE Destroy
  BY <1>2, DestroyInv
<1>3. CASE UNCHANGED vars
  <2>0. PICK m \in Nat : \E s \in [1 .. m -> Addrs] : ListInv(s, m)
    BY DEF QueueInv
  <2>1. PICK s \in [1 .. m -> Addrs] : ListInv(s, m)
    BY <2>0
  <2>2. UNCHANGED <<head, tail, lock, value, next, allocated, destroyed, pc, n,
                    out, ip, seenEmpty>>
    BY <1>3 DEF vars, queueVars, memVars, threadVars
  <2>3. ListInv(s, m)'
    BY <2>1, <2>2 DEF ListInv, ChainInv, OwnInv, TailInv, AllocInv, OwnNodes,
                      Listed, IsList, Owns
  <2>4. BaseInv' /\ SeenInv'
    BY <2>2 DEF QueueInv, BaseInv, QueueTypeOK, ControlInv, SeenInv, Finished, Dequeuing
  <2> QED
    BY <2>3, <2>4 DEF QueueInv
<1> QED
  BY <1>1, <1>2, <1>3 DEF Next, Done

\* The list is at every moment one of distinct nodes that ends, with the tail
\* at or next to its end, and whose nodes and those of the threads are all the
\* memory there is (mutexqueue.c:32-80).
THEOREM QueueInvariant == Spec => []QueueInv
<1> QED
  BY QueueInitInv, QueueNextInv, PTL DEF Spec

-----------------------------------------------------------------------------
(***************************************************************************)
(* The properties                                                          *)
(***************************************************************************)
\* The variables are of the types the code gives them (mutexqueue.c:11-24).
THEOREM QueueTyped == Spec => []QueueTypeOK
<1>1. QueueInv => QueueTypeOK
  BY DEF QueueInv, BaseInv
<1> QED
  BY <1>1, QueueInvariant, PTL

\* Two threads never hold the same node outside the lock, however many they
\* are: a dequeue reads and frees its node after it has released the lock
\* (mutexqueue.c:74-78).
THEOREM NodesAreApart == Spec => []NodesApart
<1>1. ASSUME QueueInv PROVE NodesApart
  <2>1. PICK m \in Nat : \E s \in [1 .. m -> Addrs] : ListInv(s, m)
    BY <1>1 DEF QueueInv
  <2>2. PICK s \in [1 .. m -> Addrs] : ListInv(s, m)
    BY <2>1
  <2>3. \A t \in Threads : Outside(t) => Owns(t)
    BY DEF Outside, Owns, Owning, TakenPCs
  <2> QED
    BY <2>2, <2>3 DEF ListInv, OwnInv, NodesApart
<1> QED
  BY <1>1, QueueInvariant, PTL

\* Whenever the lock is free the tail is the last node, and the nodes of the
\* queue and those the threads hold are all that is allocated
\* (mutexqueue.c:54-58, 66-72).
THEOREM ListIsAlwaysWhole == Spec => []ListIsWhole
<1>1. ASSUME QueueInv, lock = NULL PROVE ListIsWhole
  <2>1. PICK m \in Nat : \E s \in [1 .. m -> Addrs] : ListInv(s, m)
    BY <1>1 DEF QueueInv
  <2>2. PICK s \in [1 .. m -> Addrs] : ListInv(s, m)
    BY <2>1
  <2>3. Nodes = s /\ DOMAIN s = 1 .. m
    BY <1>1, <2>2, NodesAre DEF QueueInv, BaseInv, ListInv
  <2>4. InQueue = Listed(s, m)
    BY <2>3 DEF InQueue, Listed
  <2>5. \A t \in Threads : pc[t] \notin Critical
    BY <1>1, NullAssumption DEF QueueInv, BaseInv, ControlInv
  <2>6. \A t \in Threads : IF Owns(t) THEN n[t] \in Addrs ELSE n[t] = NULL
    <3> TAKE t \in Threads
    <3>1. CASE Owns(t)
      BY <3>1, <2>2 DEF ListInv, OwnInv
    <3>2. CASE ~Owns(t)
      <4>1. pc[t] \in {"idle", "malloc", "d_lock"}
        BY <1>1, <3>2, <2>5 DEF QueueInv, BaseInv, QueueTypeOK, PCs, EnqPCs,
           DeqPCs, TakenPCs, Owns, Owning, Critical
      <4> QED
        BY <3>2, <4>1, <2>2 DEF ListInv, OwnInv
    <3> QED
      BY <3>1, <3>2
  <2>7. Held = OwnNodes
    BY <2>6, NullAssumption DEF Held, OwnNodes
  <2>8. Last(s) = IF m = 0 THEN NULL ELSE s[m]
    <3>1. s \in Seq(Addrs) /\ Len(s) = m
      BY SeqByElements
    <3>2. (s = << >>) <=> (m = 0)
      BY <3>1
    <3> QED
      BY <3>1, <3>2 DEF Last
  <2>9. tail = Last(Nodes) /\ (tail # NULL => next[tail] = NULL)
    <3>1. tail = IF m = 0 THEN NULL ELSE s[m]
      BY <2>2, <2>5 DEF ListInv, TailInv, Critical
    <3>2. m # 0 => next[s[m]] = NULL
      BY <2>2 DEF ListInv, ChainInv, IsList
    <3> QED
      BY <3>1, <3>2, <2>3, <2>8
  <2> QED
    BY <2>2, <2>4, <2>7, <2>9 DEF ListIsWhole, ListInv, AllocInv
<1>2. QueueInv => ListIsWhole
  BY <1>1 DEF ListIsWhole
<1> QED
  BY <1>2, QueueInvariant, PTL

-----------------------------------------------------------------------------
(***************************************************************************)
(* The queue implements FifoQueue                                          *)
(***************************************************************************)
Ops == [t \in Threads |-> OpOf(t)]

\* What a thread is doing is a dequeue, as the client sees it.
LEMMA DeqWhen ==
    ASSUME NEW u \in Threads
    PROVE  (OpOf(u) = Deq <=> Dequeuing(u)) /\ (OpOf(u)' = Deq <=> Dequeuing(u)')
<1>1. /\ \A v : Enq(v) # Deq /\ Dequeued(v) # Deq
      /\ Enqueued # Deq /\ Idle # Deq
  BY DEF Enq, Deq, Dequeued, Enqueued, Idle
<1> QED
  BY <1>1 DEF OpOf, Dequeuing

\* A step of one thread leaves what the others are doing as it was.
LEMMA OpsNext ==
    ASSUME QueueInv, NEW t \in Threads, Call(t) \/ Step(t)
    PROVE  Ops' = [Ops EXCEPT ![t] = OpOf(t)'] /\ Ops[t] = OpOf(t)
<1>1. Only(t)
  BY StepsAreLocal DEF QueueInv, BaseInv
<1>2. ASSUME NEW u \in Threads \ {t}, pc[u] \in TakenPCs
      PROVE  value'[n[u]] = value[n[u]]
  <2>1. PICK m \in Nat : \E s \in [1 .. m -> Addrs] : ListInv(s, m)
    BY DEF QueueInv
  <2>2. PICK s \in [1 .. m -> Addrs] : ListInv(s, m)
    BY <2>1
  <2>3. Owns(u) /\ n[u] \in Addrs /\ (Owns(t) => n[u] # n[t])
    BY <1>2, <2>2 DEF ListInv, OwnInv, Owns, Owning
  <2>4. UNCHANGED value \/ (Owns(t) /\ \A a \in Addrs : a # n[t] => value'[a] = value[a])
    BY DEF Call, Step, Malloc, MallocFails, InitNode, EnqLock, LinkAtTail,
           LinkAtHead, SetTail, EnqUnlock, DeqLock, LoadHead, UnlockEmpty, Unlink,
           ClearTail, DeqUnlock, ReadValue, Free, Goto, Return, Owns, Owning,
           memVars, QueueInv, BaseInv, QueueTypeOK
  <2> QED
    BY <2>3, <2>4
<1>3. \A u \in Threads \ {t} : OpOf(u)' = OpOf(u)
  BY <1>1, <1>2 DEF Only, OpOf, Dequeuing, TakenPCs
<1> QED
  BY <1>3 DEF Ops

\* The memory of an empty queue is FifoQueue's.
LEMMA RemembersFifo ==
    ASSUME Remember
    PROVE  Fifo!Remember
<1>1. \A u \in Threads : OpOf(u)' = Deq <=> Dequeuing(u)'
  BY DeqWhen
<1>2. \A u \in Threads : ([t \in Threads |-> OpOf(t)]')[u] = OpOf(u)'
  OBVIOUS
<1>3. \A u \in Threads : (([t \in Threads |-> OpOf(t)]')[u] = Deq /\ (seenEmpty[u] \/ Contents' = << >>))
                           = (Dequeuing(u)' /\ (seenEmpty[u] \/ Contents' = << >>))
  BY <1>1, <1>2
<1> QED
  BY <1>3 DEF Remember, Fifo!Remember, Fifo!Deq, Deq

\* A step that changes neither the contents nor an operation is no step of
\* the abstract queue.
LEMMA FifoStutters ==
    ASSUME QueueInv, QueueTypeOK', Remember, Ops' = Ops, Contents' = Contents
    PROVE  UNCHANGED Fifo!vars
<1>1. \A u \in Threads : Dequeuing(u)' <=> Dequeuing(u)
  <2>1. \A u \in Threads : OpOf(u)' = OpOf(u)
    BY DEF Ops
  <2> QED
    BY <2>1, DeqWhen
<1>2. (Contents = << >>) => (head = NULL)
  <2>1. PICK m \in Nat : \E s \in [1 .. m -> Addrs] : ListInv(s, m)
    BY DEF QueueInv
  <2>2. PICK s \in [1 .. m -> Addrs] : ListInv(s, m)
    BY <2>1
  <2> QED
    BY <2>2, NodesAre DEF ListInv, QueueInv, BaseInv
<1>3. \A u \in Threads : (Dequeuing(u)' /\ (seenEmpty[u] \/ Contents' = << >>)) = seenEmpty[u]
  <2> TAKE u \in Threads
  <2>1. seenEmpty[u] \in BOOLEAN
    BY DEF QueueInv, BaseInv, QueueTypeOK
  <2>2. seenEmpty[u] => Dequeuing(u)
    BY DEF QueueInv, SeenInv
  <2>3. Dequeuing(u) /\ Contents = << >> => seenEmpty[u]
    BY <1>2 DEF QueueInv, SeenInv
  <2>4. Dequeuing(u)' <=> Dequeuing(u)
    BY <1>1
  <2> QED
    BY <2>1, <2>2, <2>3, <2>4
<1>4. seenEmpty' = seenEmpty
  <2>1. seenEmpty = [u \in Threads |-> seenEmpty[u]]
    BY DEF QueueInv, BaseInv, QueueTypeOK
  <2> QED
    BY <1>3, <2>1 DEF Remember
<1> QED
  BY <1>4 DEF Fifo!vars, Ops

\* The contents change at the link and at the unlink only.
LEMMA ContentsKept ==
    ASSUME QueueInv, QueueTypeOK', NEW t \in Threads,
           QuietStep(t) \/ Malloc(t) \/ InitNode(t) \/ Free(t) \/ SetTail(t) \/ ClearTail(t),
           UNCHANGED destroyed
    PROVE  Contents' = Contents
<1>1. PICK m \in Nat : \E s \in [1 .. m -> Addrs] : ListInv(s, m)
  BY DEF QueueInv
<1>2. PICK s \in [1 .. m -> Addrs] : ListInv(s, m)
  BY <1>1
<1>3. ListInv(s, m)'
  BY <1>2, QuietList, OwnNodeList, TailList DEF QueueInv
<1>4. \A i \in 1 .. m : value'[s[i]] = value[s[i]]
  <2>1. UNCHANGED value \/ (Owns(t) /\ \A a \in Addrs : a # n[t] => value'[a] = value[a])
    BY DEF QuietStep, Call, Malloc, MallocFails, InitNode, EnqLock, SetTail,
           EnqUnlock, DeqLock, LoadHead, UnlockEmpty, ClearTail, DeqUnlock,
           ReadValue, Free, Goto, Return, Owns, Owning, memVars, QueueInv,
           BaseInv, QueueTypeOK
  <2>2. Owns(t) => \A i \in 1 .. m : s[i] # n[t]
    BY <1>2 DEF ListInv, OwnInv
  <2> QED
    BY <2>1, <2>2
<1>5. Contents = [i \in 1 .. m |-> value[s[i]]] /\ Contents' = [i \in 1 .. m |-> value'[s[i]]]
  BY <1>2, <1>3, NodesAre, NodesAreNext DEF ListInv, QueueInv, BaseInv
<1> QED
  BY <1>4, <1>5

\* The link is where the enqueue happens.
LEMMA LinkEnqueues ==
    ASSUME QueueInv, QueueTypeOK', NEW t \in Threads, LinkAtTail(t) \/ LinkAtHead(t),
           UNCHANGED destroyed
    PROVE  <<t, ip[t]>> \in Values /\ Contents' = Append(Contents, <<t, ip[t]>>)
<1>1. PICK m \in Nat : \E s \in [1 .. m -> Addrs] : ListInv(s, m)
  BY DEF QueueInv
<1>2. PICK s \in [1 .. m -> Addrs] : ListInv(s, m)
  BY <1>1
<1>3. /\ n[t] \in Addrs /\ value[n[t]] = <<t, ip[t]>> /\ <<t, ip[t]>> \in Values
      /\ UNCHANGED value
  BY <1>2 DEF LinkAtTail, LinkAtHead, Goto, ListInv, OwnInv, Owns, Owning,
              QueueInv, BaseInv, ControlInv, EnqPCs, memVars
<1>4. PICK k : k = m + 1
  OBVIOUS
<1>5. PICK s2 \in [1 .. k -> Addrs] : s2 = [i \in 1 .. k |-> IF i = k THEN n[t] ELSE s[i]]
  <2>1. [i \in 1 .. k |-> IF i = k THEN n[t] ELSE s[i]] \in [1 .. k -> Addrs]
    BY <1>3, <1>4
  <2> QED
    BY <2>1
<1>6. ListInv(s2, k)'
  BY <1>2, <1>4, <1>5, LinkList DEF QueueInv
<1>7. k \in Nat
  BY <1>4
<1>8. Contents = [i \in 1 .. m |-> value[s[i]]] /\ Contents' = [i \in 1 .. k |-> value'[s2[i]]]
  BY <1>2, <1>6, <1>7, NodesAre, NodesAreNext DEF ListInv, QueueInv, BaseInv
<1>9. Contents \in [1 .. m -> Values]
  BY <1>2, <1>8 DEF ListInv, ChainInv
<1>10. Append(Contents, <<t, ip[t]>>)
          = [i \in 1 .. m + 1 |-> IF i = m + 1 THEN <<t, ip[t]>> ELSE Contents[i]]
  BY <1>9, AppendByElements
<1>11. \A i \in 1 .. k : value'[s2[i]] = IF i = k THEN <<t, ip[t]>> ELSE Contents[i]
  <2>1. \A i \in 1 .. m : Contents[i] = value[s[i]]
    BY <1>8
  <2>2. \A i \in 1 .. k : i # k => i \in 1 .. m
    BY <1>4
  <2>3. \A i \in 1 .. k : s2[i] = IF i = k THEN n[t] ELSE s[i]
    BY <1>5
  <2> QED
    BY <2>1, <2>2, <2>3, <1>3
<1> QED
  BY <1>3, <1>4, <1>8, <1>10, <1>11

\* The unlink is where the dequeue happens, if the queue is not empty.
LEMMA UnlinkDequeues ==
    ASSUME QueueInv, QueueTypeOK', NEW t \in Threads, Unlink(t), UNCHANGED destroyed
    PROVE  /\ Contents # << >>
           /\ value'[n'[t]] = Head(Contents)
           /\ Contents' = Tail(Contents)
<1>1. PICK m \in Nat : \E s \in [1 .. m -> Addrs] : ListInv(s, m)
  BY DEF QueueInv
<1>2. PICK s \in [1 .. m -> Addrs] : ListInv(s, m)
  BY <1>1
<1>3. m # 0 /\ n[t] = s[1] /\ UNCHANGED <<n, value>>
  BY <1>2 DEF Unlink, Goto, ListInv, OwnInv, memVars
<1>4. PICK k : k = m - 1
  OBVIOUS
<1>5. PICK s2 \in [1 .. k -> Addrs] : s2 = [i \in 1 .. k |-> s[i + 1]]
  <2>1. \A i \in 1 .. k : i + 1 \in 1 .. m
    BY <1>4
  <2>2. [i \in 1 .. k |-> s[i + 1]] \in [1 .. k -> Addrs]
    BY <2>1
  <2> QED
    BY <2>2
<1>6. k \in Nat /\ ListInv(s2, k)'
  BY <1>2, <1>4, <1>5, UnlinkList DEF QueueInv
<1>7. Contents = [i \in 1 .. m |-> value[s[i]]] /\ Contents' = [i \in 1 .. k |-> value'[s2[i]]]
  BY <1>2, <1>6, NodesAre, NodesAreNext DEF ListInv, QueueInv, BaseInv
<1>8. Contents \in [1 .. m -> Values]
  BY <1>2, <1>7 DEF ListInv, ChainInv
<1>9. /\ Contents # << >> /\ Head(Contents) = Contents[1]
      /\ Tail(Contents) = [i \in 1 .. m - 1 |-> Contents[i + 1]]
  <2>1. m \in Nat \ {0}
    BY <1>3
  <2> QED
    BY <2>1, <1>8, TailByElements
<1>10. \A i \in 1 .. k : i + 1 \in 1 .. m /\ value'[s2[i]] = Contents[i + 1]
  BY <1>3, <1>4, <1>5, <1>7
<1>11. Contents[1] = value[s[1]]
  BY <1>3, <1>7
<1> QED
  BY <1>3, <1>4, <1>7, <1>9, <1>10, <1>11

\* Operations are named alike in the two modules.
LEMMA FifoOperations ==
    /\ Fifo!Idle = Idle /\ Fifo!Enqueued = Enqueued /\ Fifo!Deq = Deq
    /\ \A v : Fifo!Enq(v) = Enq(v) /\ Fifo!Dequeued(v) = Dequeued(v)
BY DEF Fifo!Idle, Fifo!Enqueued, Fifo!Deq, Fifo!Enq, Fifo!Dequeued, Idle,
       Enqueued, Deq, Enq, Dequeued

\* What each step does to the thread's own operation.
LEMMA FifoBecomes ==
    ASSUME QueueInv, NEW t \in Threads, Call(t) \/ Step(t),
           NEW from, NEW to, OpOf(t) = from, OpOf(t)' = to
    PROVE  Fifo!Become(t, from, to)
<1>1. Ops' = [Ops EXCEPT ![t] = to] /\ Ops[t] = from
  BY OpsNext
<1> QED
  BY <1>1 DEF Fifo!Become, Ops

\* Steps in which an operation begins, or ends without effect, or goes on.
LEMMA QuietImplements ==
    ASSUME QueueInv, QueueInv', NEW t \in Threads,
           QuietStep(t) \/ Malloc(t) \/ InitNode(t) \/ Free(t) \/ SetTail(t) \/ ClearTail(t),
           Remember, UNCHANGED destroyed
    PROVE  [Fifo!Next]_(Fifo!vars)
<1> USE FifoOperations
<1>1. Contents' = Contents
  BY ContentsKept DEF QueueInv, BaseInv
<1>2. Fifo!Remember
  BY RemembersFifo
<1>3. Call(t) \/ Step(t)
  BY DEF QuietStep, Step
<1>4. n \in [Threads -> Addrs \cup {NULL}] /\ pc \in [Threads -> PCs]
      /\ out \in [Threads -> Values \cup {NoValue}] /\ ip \in [Threads -> Nat]
  BY DEF QueueInv, BaseInv, QueueTypeOK
<1>5. CASE Call(t)
  <2>1. OpOf(t) = Idle /\ pc'[t] \in {"malloc", "d_lock"}
    BY <1>4, <1>5 DEF Call, Goto, OpOf, Dequeuing
  <2>2. CASE pc'[t] = "malloc"
    <3>1. OpOf(t)' = Enq(<<t, ip'[t]>>) /\ <<t, ip'[t]>> \in Values
      <4>1. <<t, ip'[t]>> \in Values
        BY <2>2 DEF QueueInv, BaseInv, ControlInv, EnqPCs
      <4> QED
        BY <4>1, <2>2 DEF OpOf, Dequeuing
    <3>2. Fifo!Become(t, Idle, Enq(<<t, ip'[t]>>))
      BY <1>3, <2>1, <3>1, FifoBecomes
    <3>3. Fifo!EnqCall(t)
      BY <1>1, <3>1, <3>2 DEF Fifo!EnqCall
    <3> QED
      BY <1>2, <3>3 DEF Fifo!Next
  <2>3. CASE pc'[t] = "d_lock"
    <3>1. OpOf(t)' = Deq
      BY <2>3 DEF OpOf, Dequeuing
    <3>2. Fifo!DeqCall(t)
      BY <1>1, <1>3, <2>1, <3>1, FifoBecomes DEF Fifo!DeqCall
    <3> QED
      BY <1>2, <3>2 DEF Fifo!Next
  <2> QED
    BY <2>1, <2>2, <2>3
<1>6. CASE MallocFails(t)
  <2>1. /\ OpOf(t) = Enq(<<t, ip[t]>>) /\ OpOf(t)' = Idle
        /\ <<t, ip[t]>> \in Values
    BY <1>4, <1>6 DEF MallocFails, Return, Goto, OpOf, Dequeuing, QueueInv,
                      BaseInv, ControlInv, EnqPCs
  <2>2. Fifo!Become(t, Enq(<<t, ip[t]>>), Idle)
    BY <1>3, <2>1, FifoBecomes
  <2>3. Fifo!EnqNoMemory(t)
    BY <1>1, <2>1, <2>2 DEF Fifo!EnqNoMemory
  <2> QED
    BY <1>2, <2>3 DEF Fifo!Next
<1>7. CASE EnqUnlock(t)
  <2>1. OpOf(t) = Enqueued /\ OpOf(t)' = Idle
    BY <1>4, <1>7 DEF EnqUnlock, Return, Goto, OpOf, Dequeuing
  <2>2. Fifo!EnqReturn(t)
    BY <1>1, <1>3, <2>1, FifoBecomes DEF Fifo!EnqReturn
  <2> QED
    BY <1>2, <2>2 DEF Fifo!Next
<1>8. CASE UnlockEmpty(t)
  <2>1. OpOf(t) = Deq /\ OpOf(t)' = Idle
    BY <1>4, <1>8 DEF UnlockEmpty, Return, Goto, OpOf, Dequeuing
  <2>2. seenEmpty[t]
    <3>1. pc[t] = "d_empty" /\ Dequeuing(t)
      BY <1>8 DEF UnlockEmpty, Return, Goto, Dequeuing
    <3>2. head = NULL
      BY <3>1 DEF QueueInv, ListInv, OwnInv, ChainInv, IsList
    <3> QED
      BY <3>1, <3>2 DEF QueueInv, SeenInv
  <2>3. Fifo!DeqEmpty(t)
    BY <1>1, <1>3, <2>1, <2>2, FifoBecomes DEF Fifo!DeqEmpty
  <2> QED
    BY <1>2, <2>3 DEF Fifo!Next
<1>9. CASE Free(t)
  <2>1. OpOf(t) = Dequeued(out[t]) /\ OpOf(t)' = Idle
    BY <1>4, <1>9 DEF Free, Return, Goto, OpOf, Dequeuing
  <2>2. out[t] \in Values
    BY <1>9 DEF Free, Return, Goto, QueueInv, ListInv, OwnInv
  <2>3. Fifo!Become(t, Dequeued(out[t]), Idle)
    BY <1>3, <2>1, FifoBecomes
  <2>4. Fifo!DeqReturn(t)
    BY <1>1, <2>2, <2>3 DEF Fifo!DeqReturn
  <2> QED
    BY <1>2, <2>4 DEF Fifo!Next
<1>10. CASE \/ Malloc(t) \/ InitNode(t) \/ EnqLock(t) \/ SetTail(t) \/ DeqLock(t)
            \/ LoadHead(t) \/ ClearTail(t) \/ DeqUnlock(t) \/ ReadValue(t)
  <2>1. OpOf(t)' = OpOf(t)
    <3>1. CASE Malloc(t) \/ InitNode(t) \/ EnqLock(t) \/ SetTail(t)
      BY <1>4, <3>1 DEF Malloc, InitNode, EnqLock, SetTail, Goto, OpOf, Dequeuing
    <3>2. CASE DeqLock(t) \/ LoadHead(t)
      BY <1>4, <3>2 DEF DeqLock, LoadHead, Goto, OpOf, Dequeuing
    <3>3. CASE ClearTail(t) \/ DeqUnlock(t) \/ ReadValue(t)
      BY <1>4, <3>3 DEF ClearTail, DeqUnlock, ReadValue, Goto, OpOf, Dequeuing, memVars
    <3> QED
      BY <1>10, <3>1, <3>2, <3>3
  <2>2. Ops' = Ops
    <3>1. Ops' = [Ops EXCEPT ![t] = OpOf(t)] /\ Ops[t] = OpOf(t)
      BY <1>3, <2>1, OpsNext
    <3>2. Ops = [u \in Threads |-> Ops[u]]
      BY DEF Ops
    <3> QED
      BY <3>1, <3>2
  <2> QED
    BY <1>1, <2>2, FifoStutters DEF QueueInv, BaseInv
<1> QED
  BY <1>5, <1>6, <1>7, <1>8, <1>9, <1>10 DEF QuietStep

\* Every step is one of the abstract queue.
LEMMA StepImplements ==
    ASSUME QueueInv, QueueInv', [Next]_vars
    PROVE  [Fifo!Next]_(Fifo!vars)
<1> USE FifoOperations
<1>1. ASSUME NEW t \in Threads, Call(t) \/ Step(t), Remember, UNCHANGED destroyed
      PROVE  [Fifo!Next]_(Fifo!vars)
  <2>1. n \in [Threads -> Addrs \cup {NULL}] /\ pc \in [Threads -> PCs]
    BY DEF QueueInv, BaseInv, QueueTypeOK
  <2>2. Fifo!Remember
    BY <1>1, RemembersFifo
  <2>3. CASE LinkAtTail(t) \/ LinkAtHead(t)
    <3>1. <<t, ip[t]>> \in Values /\ Contents' = Append(Contents, <<t, ip[t]>>)
      BY <1>1, <2>3, LinkEnqueues DEF QueueInv, BaseInv
    <3>2. OpOf(t) = Enq(<<t, ip[t]>>) /\ OpOf(t)' = Enqueued
      BY <2>1, <2>3 DEF LinkAtTail, LinkAtHead, Goto, OpOf, Dequeuing
    <3>3. Fifo!Become(t, Enq(<<t, ip[t]>>), Enqueued)
      BY <1>1, <3>2, FifoBecomes
    <3>4. Fifo!EnqDo(t)
      BY <3>1, <3>3 DEF Fifo!EnqDo
    <3> QED
      BY <2>2, <3>4 DEF Fifo!Next
  <2>4. CASE Unlink(t)
    <3>1. /\ Contents # << >> /\ value'[n'[t]] = Head(Contents)
          /\ Contents' = Tail(Contents)
      BY <1>1, <2>4, UnlinkDequeues DEF QueueInv, BaseInv
    <3>2. OpOf(t) = Deq /\ OpOf(t)' = Dequeued(Head(Contents))
      BY <2>1, <2>4, <3>1 DEF Unlink, Goto, OpOf, Dequeuing
    <3>3. Fifo!Become(t, Deq, Dequeued(Head(Contents)))
      BY <1>1, <3>2, FifoBecomes
    <3>4. Fifo!DeqDo(t)
      BY <3>1, <3>3 DEF Fifo!DeqDo
    <3> QED
      BY <2>2, <3>4 DEF Fifo!Next
  <2>5. CASE QuietStep(t) \/ Malloc(t) \/ InitNode(t) \/ Free(t) \/ SetTail(t) \/ ClearTail(t)
    BY <1>1, <2>5, QuietImplements
  <2> QED
    BY <1>1, <2>3, <2>4, <2>5 DEF Step, QuietStep
<1>2. CASE Destroy \/ UNCHANGED vars
  <2>1. UNCHANGED <<head, tail, value, next, pc, n, out, ip, seenEmpty>>
    BY <1>2 DEF Destroy, vars, queueVars, memVars, threadVars
  <2>2. Contents' = Contents
    BY <2>1 DEF Contents, Nodes
  <2>3. \A t \in Threads : OpOf(t)' = OpOf(t)
    BY <2>1 DEF OpOf, Dequeuing
  <2> QED
    BY <2>1, <2>2, <2>3 DEF Fifo!vars
<1> QED
  BY <1>1, <1>2 DEF Next, Done

\* The operations take effect at once and in the order of a FIFO queue
\* (mutexqueue.h): an enqueue at its link, a dequeue at its unlink; a dequeue
\* answers "empty" only if the queue was empty during the call.
THEOREM QueueIsLinearizable == Spec => Linearizable
<1>1. Init => Fifo!Init
  <2> SUFFICES ASSUME Init PROVE Fifo!Init
    OBVIOUS
  <2>1. QueueInv
    BY QueueInitInv
  <2>2. PICK m \in Nat : \E s \in [1 .. m -> Addrs] : ListInv(s, m)
    BY <2>1 DEF QueueInv
  <2>3. PICK s \in [1 .. m -> Addrs] : ListInv(s, m)
    BY <2>2
  <2>4. Contents = << >>
    BY <2>1, <2>3, NodesAre DEF Init, ListInv, QueueInv, BaseInv
  <2>5. \A t \in Threads : OpOf(t) = Idle
    BY DEF Init, OpOf, Dequeuing
  <2> QED
    BY <2>4, <2>5, FifoOperations DEF Init, Fifo!Init
<1> QED
  BY <1>1, QueueInvariant, StepImplements, PTL DEF Spec, Linearizable, Fifo!Spec
=============================================================================
