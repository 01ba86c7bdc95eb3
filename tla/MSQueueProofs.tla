-------------------------- MODULE MSQueueProofs --------------------------
(***************************************************************************)
(* Proofs about MSQueue, for any number of threads, any client programs    *)
(* and any amount of memory; malloc may hand out an address that was freed *)
(* a moment ago.                                                           *)
(*                                                                         *)
(* The argument has two parts.  What holds whatever becomes of freed       *)
(* addresses (SoundInv): links lead from live nodes to live nodes, no two  *)
(* to the same one and none to the head; the tail is on the way from the   *)
(* head on; and what a thread has copied is of consequence only while the  *)
(* head or the tail still has the count that was copied.  And what holds   *)
(* until a link goes astray (WholeInv): the nodes from the head on, those  *)
(* that an enqueue has not linked yet and those that a dequeue has not     *)
(* freed yet are all the memory there is.                                  *)
(***************************************************************************)
EXTENDS MSQueue, LinkedListProofs

\* An enqueue that has a node and has not linked it, and one whose node has
\* its value and its null link.
NewPCs    == {"init", "e_tail", "e_next", "e_check", "e_link", "e_help"}
FilledPCs == NewPCs \ {"init"}
EnqPCs    == {"malloc", "e_swing"} \cup NewPCs
DeqPCs    == {"d_head", "d_tail", "d_next", "d_check", "d_help", "d_value",
              "d_head_cas"}
PCs       == {"idle", "d_free", "crashed"} \cup EnqPCs \cup DeqPCs

Pointers == [ptr : Addrs \cup {NULL}, count : Nat]
Locals   == [n : Addrs \cup {NULL}, head : Pointers, tail : Pointers,
             next : Pointers, val : Values \cup {NoValue}]

QueueTypeOK ==
    /\ head \in Pointers /\ tail \in Pointers /\ retries \in Nat
    /\ value \in [Addrs -> Values \cup {NoValue}]
    /\ next \in [Addrs -> Pointers]
    /\ allocated \subseteq Addrs
    /\ pc \in [Threads -> PCs]
    /\ loc \in [Threads -> Locals]
    /\ ip \in [Threads -> Nat]
    /\ destroyed \in BOOLEAN
    /\ spurious \in Nat
    /\ astray \in BOOLEAN
    /\ seenEmpty \in [Threads -> BOOLEAN]

\* An enqueue is one of the program's; nobody uses a queue that is destroyed.
ControlInv ==
    /\ \A t \in Threads : ip[t] <= Len(Program[t])
    /\ \A t \in Threads : pc[t] \in EnqPCs => <<t, ip[t]>> \in Values
    /\ destroyed => \A t \in Threads : pc[t] = "idle"

BaseInv == QueueTypeOK /\ ControlInv

\* The node that is one thread's: not linked yet, or passed by the head and
\* not freed yet.  It is raw before it is filled and when it is passed.
Owns(t) == pc[t] \in {"d_free"} \cup NewPCs
Mine(t) == IF pc[t] = "d_free" THEN loc[t].head.ptr ELSE loc[t].n
Raw(t)  == pc[t] \in {"init", "d_free"}

Live == {a \in allocated : \A t \in Threads : Raw(t) => Mine(t) # a}

OwnInv ==
    /\ \A t \in Threads : Owns(t) => Mine(t) \in allocated
    /\ \A t, u \in Threads : Owns(t) /\ Owns(u) /\ Mine(t) = Mine(u) => t = u

\* The links of the live nodes, and their values: only the dummy's is of no
\* account.
LinkInv ==
    /\ \A a \in Live : next[a].ptr \in (Live \cup {NULL}) \ {head.ptr}
    /\ \A a, b \in Live :
          next[a].ptr = next[b].ptr /\ next[a].ptr # NULL => a = b
    /\ \A a \in Live \ {head.ptr} : value[a] \in Values
    /\ \A t \in Threads : pc[t] \in FilledPCs =>
          /\ loc[t].n # head.ptr
          /\ \A a \in Live : next[a].ptr # loc[t].n
          /\ value[loc[t].n] = <<t, ip[t]>>

\* The way from the head to the tail: p has k nodes, none twice.
WayInv(p, k) ==
    /\ Distinct(p, k)
    /\ head.ptr = p[1] /\ tail.ptr = p[k]
    /\ \A i \in 1 .. k : p[i] \in Live
    /\ \A i \in 1 .. k - 1 : next[p[i]].ptr = p[i + 1]

\* A copy of the head or of the tail is what it was or has an older count.
Copied(copy, orig) == copy = orig \/ copy.count < orig.count

\* What an enqueue has copied.  A node that is not live any more has a link.
EnqInv(t) ==
    LET last == loc[t].tail.ptr IN
    /\ pc[t] \in {"e_next", "e_check", "e_link", "e_help", "e_swing"} =>
          Copied(loc[t].tail, tail)
    /\ pc[t] \in {"e_next", "e_check", "e_link"} =>
          last \in Addrs /\ (last \in Live \/ next[last].ptr # NULL)
    /\ /\ pc[t] \in {"e_check", "e_help"}
          /\ tail = loc[t].tail /\ loc[t].next.ptr # NULL
       => next[last].ptr = loc[t].next.ptr
    /\ pc[t] = "e_link"  => loc[t].next.ptr = NULL
    /\ pc[t] = "e_help"  => loc[t].next.ptr # NULL
    /\ pc[t] = "e_swing" => /\ loc[t].n \in Addrs
                            /\ tail = loc[t].tail => next[last].ptr = loc[t].n

\* What a dequeue has copied.
DeqInv(t) ==
    LET first == loc[t].head.ptr IN
    /\ pc[t] \in DeqPCs \ {"d_head"} => first \in Addrs /\ Copied(loc[t].head, head)
    /\ pc[t] \in {"d_next", "d_check", "d_help"} => Copied(loc[t].tail, tail)
    /\ /\ pc[t] \in {"d_next", "d_check", "d_value", "d_head_cas"}
          /\ head = loc[t].head /\ first # loc[t].tail.ptr
       => first # tail.ptr
    /\ /\ pc[t] \in {"d_check", "d_help"}
          /\ tail = loc[t].tail /\ first = loc[t].tail.ptr /\ loc[t].next.ptr # NULL
       => next[first].ptr = loc[t].next.ptr
    /\ /\ pc[t] \in {"d_check", "d_value", "d_head_cas"}
          /\ head = loc[t].head /\ first # loc[t].tail.ptr
       => loc[t].next.ptr # NULL /\ next[first].ptr = loc[t].next.ptr
    /\ pc[t] = "d_help" => first = loc[t].tail.ptr /\ loc[t].next.ptr # NULL
    /\ pc[t] \in {"d_value", "d_head_cas"} => first # loc[t].tail.ptr
    /\ pc[t] = "d_head_cas" =>
          /\ loc[t].next.ptr # NULL
          /\ head = loc[t].head => loc[t].val = value[loc[t].next.ptr]
    /\ pc[t] = "d_free" => loc[t].val \in Values

SoundInv ==
    /\ OwnInv /\ LinkInv
    /\ \E k \in Nat \ {0} : \E p \in [1 .. k -> Addrs] : WayInv(p, k)
    /\ \A t \in Threads : EnqInv(t) /\ DeqInv(t)

\* A dequeue that could have seen the queue empty remembers it, and so does
\* one that has read a null link of a head that is still there.
SeenInv ==
    \A t \in Threads :
        /\ seenEmpty[t] => Dequeuing(t)
        /\ Dequeuing(t) /\ Contents = << >> => seenEmpty[t]
        /\ pc[t] = "d_check" /\ loc[t].next.ptr = NULL /\ head = loc[t].head =>
              seenEmpty[t]

\* The nodes s from a head on: one list that ends in a null link.
Chain(hd, nx, s, m) ==
    /\ Distinct(s, m)
    /\ hd.ptr = s[1]
    /\ \A i \in 1 .. m : nx[s[i]].ptr = IF i = m THEN NULL ELSE s[i + 1]

\* It has all live nodes but those that enqueues have filled.
ListInv(s, m) ==
    /\ Chain(head, next, s, m)
    /\ \A i \in 1 .. m : s[i] \in Live
    /\ \A t \in Threads : pc[t] \in FilledPCs =>
          /\ next[loc[t].n].ptr = NULL
          /\ \A i \in 1 .. m : s[i] # loc[t].n
    /\ \A a \in Live :
          \/ \E i \in 1 .. m : a = s[i]
          \/ \E t \in Threads : pc[t] \in FilledPCs /\ a = loc[t].n

WholeInv ==
    IF destroyed THEN allocated = {}
    ELSE \E m \in Nat \ {0} : \E s \in [1 .. m -> Addrs] : ListInv(s, m)

QueueInv ==
    /\ BaseInv /\ SeenInv
    /\ ~destroyed => SoundInv
    /\ ~astray => WholeInv

-----------------------------------------------------------------------------
(***************************************************************************)
(* The list and its contents                                               *)
(***************************************************************************)
\* Nodes and Contents of any head, links and values.
NodesFrom(hd, nx) ==
    ListFrom(hd.ptr, [a \in Addrs |-> nx[a].ptr], NULL, Cardinality(Addrs))

ContentsFrom(hd, nx, vl) ==
    [i \in 1 .. Len(NodesFrom(hd, nx)) - 1 |-> vl[NodesFrom(hd, nx)[i + 1]]]

LEMMA NodesAre ==
    /\ Nodes = NodesFrom(head, next) /\ Nodes' = NodesFrom(head', next')
    /\ Contents = ContentsFrom(head, next, value)
    /\ Contents' = ContentsFrom(head', next', value')
BY DEF Nodes, Contents, NodesFrom, ContentsFrom

LEMMA SeqIsEmpty ==
    ASSUME NEW S, NEW d \in Nat, NEW c \in [1 .. d -> S]
    PROVE  (c = << >>) <=> (d = 0)
<1>1. c \in Seq(S) /\ Len(c) = d
  BY SeqByElements
<1> QED
  BY <1>1

\* The list of a head, and what the queue holds then.
LEMMA ChainNodes ==
    ASSUME NEW hd \in Pointers, NEW nx \in [Addrs -> Pointers], NEW V,
           NEW vl \in [Addrs -> V], NEW m \in Nat \ {0},
           NEW s \in [1 .. m -> Addrs], Chain(hd, nx, s, m)
    PROVE  /\ NodesFrom(hd, nx) = s
           /\ (ContentsFrom(hd, nx, vl) = << >>) <=> (m = 1)
<1>1. PICK link : link = [a \in Addrs |-> nx[a].ptr]
  OBVIOUS
<1>2. Cardinality(Addrs) \in Nat /\ m \in 0 .. Cardinality(Addrs)
  <2>1. Distinct(s, m)
    BY DEF Chain
  <2> QED
    BY <2>1, MemoryAssumption, DistinctBound
<1>3. NodesFrom(hd, nx) = s
  <2>1. DOMAIN link = Addrs /\ NULL \notin Addrs
    BY <1>1, MemoryAssumption
  <2>2. PICK first : first = hd.ptr
    OBVIOUS
  <2>3. IsList(s, m, first, link, NULL)
    <3>1. m # 0 /\ first = s[1]
      BY <2>2 DEF Chain
    <3>2. \A i \in 1 .. m : link[s[i]] = IF i = m THEN NULL ELSE s[i + 1]
      BY <1>1 DEF Chain
    <3> QED
      BY <3>1, <3>2 DEF IsList
  <2>4. ListFrom(first, link, NULL, Cardinality(Addrs)) = s
    BY <1>2, <2>1, <2>3, ListFromIs
  <2> QED
    BY <1>1, <2>2, <2>4 DEF NodesFrom
<1>4. Len(s) = m /\ \A i \in 1 .. m - 1 : i + 1 \in 1 .. m /\ s[i + 1] \in Addrs
  BY SeqByElements
<1>5. ContentsFrom(hd, nx, vl) = [i \in 1 .. m - 1 |-> vl[s[i + 1]]]
  BY <1>3, <1>4 DEF ContentsFrom
<1>6. ContentsFrom(hd, nx, vl) \in [1 .. m - 1 -> V]
  BY <1>4, <1>5
<1>7. (ContentsFrom(hd, nx, vl) = << >>) <=> (m = 1)
  <2>1. PICK d \in Nat : d = m - 1
    OBVIOUS
  <2>2. (ContentsFrom(hd, nx, vl) = << >>) <=> (d = 0)
    BY <1>6, <2>1, SeqIsEmpty
  <2> QED
    BY <2>1, <2>2
<1> QED
  BY <1>3, <1>7

\* A head that links to nothing is the whole list.
LEMMA NullIsEmpty ==
    ASSUME NEW hd \in Pointers, NEW nx \in [Addrs -> Pointers], NEW V,
           NEW vl \in [Addrs -> V], hd.ptr \in Addrs, nx[hd.ptr].ptr = NULL
    PROVE  ContentsFrom(hd, nx, vl) = << >>
<1>1. PICK m \in Nat \ {0} : m = 1
  OBVIOUS
<1>2. PICK s \in [1 .. m -> Addrs] : s = [i \in 1 .. m |-> hd.ptr]
  OBVIOUS
<1>3. Chain(hd, nx, s, m)
  BY <1>1, <1>2 DEF Chain, Distinct
<1>4. (ContentsFrom(hd, nx, vl) = << >>) <=> (m = 1)
  BY <1>3, ChainNodes
<1> QED
  BY <1>1, <1>4

\* What is on the way to the tail is in the queue.
LEMMA WayIsInQueue ==
    ASSUME QueueTypeOK, NEW k \in Nat \ {0}, NEW p \in [1 .. k -> Addrs], WayInv(p, k)
    PROVE  \A i \in 1 .. k : InQueue(p[i])
<1>1. PICK link : link = [a \in Addrs |-> next[a].ptr]
  OBVIOUS
<1>2. PICK first : first = head.ptr
  OBVIOUS
<1>3. Cardinality(Addrs) \in Nat /\ k \in 1 .. Cardinality(Addrs)
  <2>1. Distinct(p, k)
    BY DEF WayInv
  <2> QED
    BY <2>1, MemoryAssumption, DistinctBound
<1>4. IsPath(p, k, first, link)
  BY <1>1, <1>2 DEF IsPath, WayInv
<1>5. \A i \in 1 .. k : /\ i \in DOMAIN ListFrom(first, link, NULL, Cardinality(Addrs))
                        /\ ListFrom(first, link, NULL, Cardinality(Addrs))[i] = p[i]
  <2>1. DOMAIN link = Addrs /\ NULL \notin Addrs
    BY <1>1, MemoryAssumption
  <2>2. PICK bound \in Nat : bound = Cardinality(Addrs)
    BY <1>3
  <2>3. k \in 1 .. bound
    BY <1>3, <2>2
  <2>4. \A i \in 1 .. k : /\ i \in DOMAIN ListFrom(first, link, NULL, bound)
                          /\ ListFrom(first, link, NULL, bound)[i] = p[i]
    BY <1>4, <2>1, <2>3, ListHasPath
  <2> QED
    BY <2>2, <2>4
<1>6. Nodes = ListFrom(first, link, NULL, Cardinality(Addrs))
  BY <1>1, <1>2 DEF Nodes
<1> QED
  BY <1>5, <1>6 DEF InQueue

\* All the queue's nodes are live.
LEMMA NodesAreLive ==
    ASSUME QueueTypeOK, LinkInv, head.ptr \in Live
    PROVE  \A i \in DOMAIN Nodes : Nodes[i] \in Live
<1>1. PICK link : link = [a \in Addrs |-> next[a].ptr]
  OBVIOUS
<1>2. PICK first : first = head.ptr
  OBVIOUS
<1>3. PICK S : S = Live
  OBVIOUS
<1>4. /\ S \subseteq DOMAIN link /\ NULL \notin S /\ first \in S
      /\ \A a \in S : link[a] \in S \cup {NULL}
  BY <1>1, <1>2, <1>3, MemoryAssumption DEF Live, LinkInv, QueueTypeOK
<1>5. Cardinality(Addrs) \in Nat
  BY MemoryAssumption, FS_CardinalityType
<1>6. \A i \in DOMAIN ListFrom(first, link, NULL, Cardinality(Addrs)) :
          ListFrom(first, link, NULL, Cardinality(Addrs))[i] \in S
  BY <1>4, <1>5, ListStays
<1>7. Nodes = ListFrom(first, link, NULL, Cardinality(Addrs))
  BY <1>1, <1>2 DEF Nodes
<1> QED
  BY <1>3, <1>6, <1>7
-----------------------------------------------------------------------------
(***************************************************************************)
(* The steps                                                               *)
(***************************************************************************)
\* A value that the client enqueues.
LEMMA ValuesAre ==
    ASSUME NEW t \in Threads, NEW i \in 1 .. Len(Program[t]), Program[t][i] = "enq"
    PROVE  <<t, i>> \in Values
BY ProgramAssumption DEF Values

\* A call: the operation is the program's next one.
LEMMA CallBase ==
    ASSUME BaseInv, NEW t \in Threads, Call(t), Remember, UNCHANGED destroyed
    PROVE  BaseInv'
<1> USE MemoryAssumption DEF BaseInv, QueueTypeOK
<1>1. /\ pc[t] = "idle" /\ ip[t] < Len(Program[t]) /\ ip'[t] = ip[t] + 1
      /\ pc' = [pc EXCEPT ![t] = IF Program[t][ip[t] + 1] = "enq" THEN "malloc" ELSE "d_head"]
      /\ ip' = [ip EXCEPT ![t] = ip[t] + 1]
      /\ UNCHANGED <<shared, memory, loc, spurious>>
  BY DEF Call, Goto, NextOp
<1>2. Len(Program[t]) \in Nat /\ ip'[t] \in 1 .. Len(Program[t])
  BY <1>1, ProgramAssumption
<1>3. pc'[t] = "malloc" => <<t, ip'[t]>> \in Values
  BY <1>1, <1>2, ValuesAre
<1>4. QueueTypeOK'
  BY <1>1, <1>2 DEF PCs, EnqPCs, DeqPCs, Remember, shared, memory
<1>5. pc'[t] \in {"malloc", "d_head"} /\ \A u \in Threads \ {t} : pc'[u] = pc[u] /\ ip'[u] = ip[u]
  BY <1>1
<1>6. ~destroyed
  BY DEF Call
<1>7. \A u \in Threads : ip'[u] <= Len(Program[u])
  BY <1>2, <1>5 DEF ControlInv
<1>8. \A u \in Threads : pc'[u] \in EnqPCs => <<u, ip'[u]>> \in Values
  <2> SUFFICES ASSUME NEW u \in Threads, pc'[u] \in EnqPCs
               PROVE  <<u, ip'[u]>> \in Values
    OBVIOUS
  <2>1. CASE u = t
    BY <2>1, <1>3, <1>5 DEF EnqPCs, NewPCs
  <2> QED
    BY <2>1, <1>5 DEF ControlInv
<1> QED
  BY <1>4, <1>6, <1>7, <1>8 DEF ControlInv

\* A step of an operation keeps the types of the thread's locals.
LEMMA StepLocals ==
    ASSUME BaseInv, NEW t \in Threads, Step(t),
           pc[t] = "e_next" => loc[t].tail.ptr \in Addrs,
           pc[t] = "d_next" => loc[t].head.ptr \in Addrs
    PROVE  loc' \in [Threads -> Locals] /\ pc' \in [Threads -> PCs]
<1> USE MemoryAssumption DEF BaseInv, QueueTypeOK, Locals, Goto
<1>1. Nil \in Pointers /\ NoLocals \in Locals
  BY DEF Pointers, NoLocals, Nil, Tagged
<1>2. pc' \in [Threads -> PCs]
  BY DEF Step, Malloc, MallocFails, InitNode, LoadTail, LoadNext, TailMoved,
         TailSame, Link, LinkFails, Swing, HelpEnqueue, DeqLoadHead,
         DeqLoadTail, DeqLoadNext, HeadMoved, HeadSame, ReturnEmpty,
         HelpDequeue, ReadValue, Crash, MoveHead, MoveHeadFails, FreeHead, PCs,
         EnqPCs, NewPCs, DeqPCs
<1>3. CASE Malloc(t)
  BY <1>1, <1>2, <1>3, SMTT(60) DEF Malloc, Set
<1>4. CASE LoadTail(t) \/ LoadNext(t)
  <2>1. CASE LoadTail(t)
    BY <1>2, <2>1 DEF LoadTail, Set
  <2>2. CASE LoadNext(t)
    <3>1. next[loc[t].tail.ptr] \in Pointers
      BY <2>2 DEF LoadNext
    <3> QED
      BY <1>2, <2>2, <3>1 DEF LoadNext, Set
  <2> QED
    BY <1>4, <2>1, <2>2
<1>5. CASE TailMoved(t) \/ LinkFails(t) \/ HelpEnqueue(t) \/ HeadMoved(t)
           \/ HelpDequeue(t) \/ MoveHeadFails(t)
  <2>1. Keep(t)
    BY <1>5 DEF TailMoved, LinkFails, HelpEnqueue, HeadMoved, HelpDequeue, MoveHeadFails
  <2>2. [NoLocals EXCEPT !.n = loc[t].n] \in Locals
    BY <1>1 DEF NoLocals
  <2> QED
    BY <1>2, <2>1, <2>2 DEF Keep
<1>6. CASE Swing(t) \/ ReturnEmpty(t) \/ FreeHead(t)
  <2>1. loc' = [loc EXCEPT ![t] = NoLocals]
    BY <1>6 DEF Swing, ReturnEmpty, FreeHead, Drop
  <2> QED
    BY <1>1, <1>2, <2>1
<1>7. CASE DeqLoadHead(t) \/ DeqLoadTail(t) \/ DeqLoadNext(t)
  <2>1. CASE DeqLoadHead(t)
    BY <1>2, <2>1 DEF DeqLoadHead, Set
  <2>2. CASE DeqLoadTail(t)
    BY <1>2, <2>2 DEF DeqLoadTail, Set
  <2>3. CASE DeqLoadNext(t)
    <3>1. next[loc[t].head.ptr] \in Pointers
      BY <2>3 DEF DeqLoadNext
    <3> QED
      BY <1>2, <2>3, <3>1 DEF DeqLoadNext, Set
  <2> QED
    BY <1>7, <2>1, <2>2, <2>3
<1>8. CASE ReadValue(t)
  <2>1. value[loc[t].next.ptr] \in Values \cup {NoValue}
    BY <1>8 DEF ReadValue, Pointers
  <2> QED
    BY <1>2, <1>8, <2>1 DEF ReadValue, Set
<1>9. CASE MallocFails(t) \/ InitNode(t) \/ TailSame(t) \/ Link(t) \/ HeadSame(t)
           \/ Crash(t) \/ MoveHead(t)
  BY <1>2, <1>9 DEF MallocFails, InitNode, TailSame, Link, HeadSame, Crash, MoveHead
<1> QED
  BY <1>3, <1>4, <1>5, <1>6, <1>7, <1>8, <1>9 DEF Step

\* A step of an operation keeps the types.
LEMMA StepType ==
    ASSUME BaseInv, NEW t \in Threads, Step(t), Remember, UNCHANGED destroyed,
           pc[t] = "e_next" => loc[t].tail.ptr \in Addrs,
           pc[t] = "d_next" => loc[t].head.ptr \in Addrs
    PROVE  QueueTypeOK'
<1> USE MemoryAssumption, BoundAssumption DEF BaseInv
<1>1. loc' \in [Threads -> Locals] /\ pc' \in [Threads -> PCs]
  BY StepLocals
<1>2. /\ seenEmpty' \in [Threads -> BOOLEAN] /\ destroyed' \in BOOLEAN
      /\ astray' \in BOOLEAN
  BY DEF Remember, Dequeuing, QueueTypeOK
<1>3. UNCHANGED ip /\ spurious' \in Nat /\ retries' \in Nat
  BY DEF QueueTypeOK, Step, Malloc, MallocFails, InitNode, LoadTail, LoadNext,
         TailMoved, TailSame, Link, LinkFails, Swing, HelpEnqueue, DeqLoadHead,
         DeqLoadTail, DeqLoadNext, HeadMoved, HeadSame, ReturnEmpty,
         HelpDequeue, ReadValue, Crash, MoveHead, MoveHeadFails, FreeHead, CountRetry,
         shared, memory
<1>4. head' \in Pointers /\ tail' \in Pointers
  <2>1. \A a \in Addrs \cup {NULL} : \A c \in Nat : Tagged(a, c + 1) \in Pointers
    BY DEF Tagged, Pointers
  <2>2. loc[t] \in Locals
    BY DEF QueueTypeOK
  <2>3. Tagged(loc[t].next.ptr, loc[t].head.count + 1) \in Pointers
        /\ Tagged(loc[t].next.ptr, loc[t].tail.count + 1) \in Pointers
        /\ Tagged(loc[t].n, loc[t].tail.count + 1) \in Pointers
    BY <2>1, <2>2 DEF Locals, Pointers
  <2> QED
    BY <2>3 DEF QueueTypeOK, Step, Malloc, MallocFails, InitNode, LoadTail, LoadNext,
         TailMoved, TailSame, Link, LinkFails, Swing, HelpEnqueue, DeqLoadHead,
         DeqLoadTail, DeqLoadNext, HeadMoved, HeadSame, ReturnEmpty,
         HelpDequeue, ReadValue, Crash, MoveHead, MoveHeadFails, FreeHead, CasTail,
         shared, memory
<1>5. /\ value' \in [Addrs -> Values \cup {NoValue}] /\ next' \in [Addrs -> Pointers]
      /\ allocated' \subseteq Addrs
  <2>1. CASE InitNode(t)
    <3>1. <<t, ip[t]>> \in Values /\ Nil \in Pointers
      BY <2>1 DEF InitNode, Goto, ControlInv, EnqPCs, NewPCs, Nil, Tagged, Pointers
    <3> QED
      BY <2>1, <3>1 DEF InitNode, QueueTypeOK
  <2>2. CASE Link(t)
    <3>1. Tagged(loc[t].n, loc[t].next.count + 1) \in Pointers
      BY DEF QueueTypeOK, Locals, Pointers, Tagged
    <3> QED
      BY <2>2, <3>1 DEF Link, QueueTypeOK
  <2>3. CASE FreeHead(t)
    BY <2>3 DEF FreeHead, QueueTypeOK
  <2>4. CASE Malloc(t)
    BY <2>4 DEF Malloc, QueueTypeOK
  <2>5. CASE UNCHANGED memory
    BY <2>5 DEF memory, QueueTypeOK
  <2> QED
    BY <2>1, <2>2, <2>3, <2>4, <2>5 DEF Step, MallocFails, LoadTail, LoadNext,
       TailMoved, TailSame, LinkFails, Swing, HelpEnqueue, DeqLoadHead,
       DeqLoadTail, DeqLoadNext, HeadMoved, HeadSame, ReturnEmpty,
       HelpDequeue, ReadValue, Crash, MoveHead, MoveHeadFails
<1> QED
  BY <1>1, <1>2, <1>3, <1>4, <1>5 DEF QueueTypeOK

\* Only thread t's own control and locals change.
Only(t) == \A u \in Threads \ {t} : pc'[u] = pc[u] /\ loc'[u] = loc[u] /\ ip'[u] = ip[u]

LEMMA StepsAreLocal ==
    ASSUME QueueTypeOK, NEW t \in Threads, Call(t) \/ Step(t)
    PROVE  Only(t)
BY DEF QueueTypeOK, Only, Call, Step, Malloc, MallocFails, InitNode, LoadTail,
       LoadNext, TailMoved, TailSame, Link, LinkFails, Swing, HelpEnqueue,
       DeqLoadHead, DeqLoadTail, DeqLoadNext, HeadMoved, HeadSame, ReturnEmpty,
       HelpDequeue, ReadValue, Crash, MoveHead, MoveHeadFails, FreeHead, Goto, Set,
       Keep, Drop

LEMMA StepControl ==
    ASSUME BaseInv, NEW t \in Threads, Step(t), UNCHANGED destroyed
    PROVE  ControlInv' /\ ~destroyed
<1> USE DEF BaseInv, QueueTypeOK
<1>1. /\ UNCHANGED ip /\ pc[t] # "idle"
      /\ pc'[t] \in EnqPCs => pc[t] \in EnqPCs
  BY DEF Step, Malloc, MallocFails, InitNode, LoadTail,
         LoadNext, TailMoved, TailSame, Link, LinkFails, Swing, HelpEnqueue,
         DeqLoadHead, DeqLoadTail, DeqLoadNext, HeadMoved, HeadSame, ReturnEmpty,
         HelpDequeue, ReadValue, Crash, MoveHead, MoveHeadFails, FreeHead, Goto, EnqPCs, NewPCs
<1>2. \A u \in Threads \ {t} : pc'[u] = pc[u]
  BY StepsAreLocal DEF Only
<1>3. ~destroyed
  BY <1>1 DEF ControlInv
<1> QED
  BY <1>1, <1>2, <1>3 DEF ControlInv

-----------------------------------------------------------------------------
(***************************************************************************)
(* What every step leaves as it is                                         *)
(***************************************************************************)
\* Counts grow when a pointer changes; while the head stays, the tail does
\* not fall back to it; a link of a live node stays, its value stays, and a
\* node that goes has a link.
Evolves ==
    /\ head' = head \/ head.count < head'.count
    /\ tail' = tail \/ tail.count < tail'.count
    /\ head' = head /\ tail.ptr # head.ptr => tail'.ptr # head'.ptr
    /\ \A a \in Live : /\ next[a].ptr # NULL => next'[a].ptr = next[a].ptr
                       /\ value'[a] = value[a]
    /\ \A a \in Addrs : a \in Live \/ next[a].ptr # NULL =>
                            a \in Live' \/ next'[a].ptr # NULL

LEMMA CopyStays ==
    ASSUME NEW c \in Pointers, NEW x \in Pointers, NEW y \in Pointers,
           Copied(c, x), y = x \/ x.count < y.count
    PROVE  Copied(c, y) /\ (y = c => x = c)
<1>1. c.count \in Nat /\ x.count \in Nat /\ y.count \in Nat
  BY DEF Pointers
<1> QED
  BY <1>1 DEF Copied

\* The two ends of the way are live.
LEMMA EndsAreLive ==
    ASSUME SoundInv
    PROVE  /\ head.ptr \in Live /\ tail.ptr \in Live
           /\ tail.ptr # head.ptr => next[head.ptr].ptr # NULL
<1>1. PICK k \in Nat \ {0} : \E p \in [1 .. k -> Addrs] : WayInv(p, k)
  BY DEF SoundInv
<1>2. PICK p \in [1 .. k -> Addrs] : WayInv(p, k)
  BY <1>1
<1>3. 1 \in 1 .. k /\ k \in 1 .. k
  OBVIOUS
<1>4. head.ptr \in Live /\ tail.ptr \in Live
  BY <1>2, <1>3 DEF WayInv
<1>5. ASSUME tail.ptr # head.ptr PROVE next[head.ptr].ptr # NULL
  <2>1. k # 1
    BY <1>2, <1>5 DEF WayInv
  <2>2. 1 \in 1 .. k - 1 /\ 2 \in 1 .. k
    BY <2>1
  <2>3. next[head.ptr].ptr = p[2] /\ p[2] \in Addrs
    BY <1>2, <2>2 DEF WayInv
  <2> QED
    BY <2>3, MemoryAssumption
<1> QED
  BY <1>4, <1>5

\* A thread that does not move loses nothing of what it knows.
LEMMA EnqStays ==
    ASSUME QueueTypeOK, QueueTypeOK', Evolves, tail.ptr \in Live,
           NEW u \in Threads, pc'[u] = pc[u], loc'[u] = loc[u], EnqInv(u)
    PROVE  EnqInv(u)'
<1> USE MemoryAssumption DEF QueueTypeOK
<1>1. loc[u].tail \in Pointers /\ loc[u].next \in Pointers
  BY DEF Locals
<1>2. PICK last : last = loc[u].tail.ptr
  OBVIOUS
<1>3. Copied(loc[u].tail, tail) => Copied(loc[u].tail, tail') /\ (tail' = loc[u].tail => tail = loc[u].tail)
  BY <1>1, CopyStays DEF Evolves
<1>4. pc[u] \in {"e_next", "e_check", "e_link", "e_help", "e_swing"} =>
          Copied(loc'[u].tail, tail') /\ (tail' = loc[u].tail => tail = loc[u].tail)
  BY <1>3 DEF EnqInv
<1>5. pc[u] \in {"e_next", "e_check", "e_link"} =>
          last \in Addrs /\ (last \in Live' \/ next'[last].ptr # NULL)
  BY <1>2 DEF EnqInv, Evolves
<1>6. ASSUME pc[u] \in {"e_check", "e_help"}, tail' = loc[u].tail, loc[u].next.ptr # NULL
      PROVE  next'[last].ptr = loc[u].next.ptr
  <2>1. tail = loc[u].tail /\ next[last].ptr = loc[u].next.ptr
    BY <1>2, <1>4, <1>6 DEF EnqInv
  <2> QED
    BY <1>2, <1>6, <2>1 DEF Evolves
<1>7. ASSUME pc[u] = "e_swing"
      PROVE  loc[u].n \in Addrs /\ (tail' = loc[u].tail => next'[last].ptr = loc[u].n)
  <2>1. loc[u].n \in Addrs
    BY <1>7 DEF EnqInv
  <2>2. ASSUME tail' = loc[u].tail PROVE next'[last].ptr = loc[u].n
    <3>1. tail = loc[u].tail /\ next[last].ptr = loc[u].n
      BY <1>2, <1>4, <1>7, <2>2 DEF EnqInv
    <3> QED
      BY <1>2, <2>1, <3>1 DEF Evolves
  <2> QED
    BY <2>1, <2>2
<1>8. (pc[u] = "e_link" => loc[u].next.ptr = NULL) /\ (pc[u] = "e_help" => loc[u].next.ptr # NULL)
  BY DEF EnqInv
<1> QED
  BY <1>2, <1>4, <1>5, <1>6, <1>7, <1>8 DEF EnqInv

LEMMA DeqStays ==
    ASSUME QueueTypeOK, QueueTypeOK', LinkInv, Evolves, head.ptr \in Live, tail.ptr \in Live,
           NEW u \in Threads, pc'[u] = pc[u], loc'[u] = loc[u], DeqInv(u)
    PROVE  DeqInv(u)'
<1> USE MemoryAssumption DEF QueueTypeOK
<1>1. loc[u].tail \in Pointers /\ loc[u].head \in Pointers
  BY DEF Locals
<1>2. PICK first : first = loc[u].head.ptr
  OBVIOUS
<1>3. pc[u] \in {"d_next", "d_check", "d_help"} =>
          Copied(loc'[u].tail, tail') /\ (tail' = loc[u].tail => tail = loc[u].tail)
  <2>1. Copied(loc[u].tail, tail) => Copied(loc[u].tail, tail') /\ (tail' = loc[u].tail => tail = loc[u].tail)
    BY <1>1, CopyStays DEF Evolves
  <2> QED
    BY <2>1 DEF DeqInv
<1>4. pc[u] \in DeqPCs \ {"d_head"} =>
          /\ first \in Addrs /\ Copied(loc'[u].head, head')
          /\ head' = loc[u].head => head = loc[u].head /\ head' = head
  <2>1. Copied(loc[u].head, head) => Copied(loc[u].head, head') /\ (head' = loc[u].head => head = loc[u].head)
    BY <1>1, CopyStays DEF Evolves
  <2> QED
    BY <1>2, <2>1 DEF DeqInv
<1>5. ASSUME pc[u] \in {"d_next", "d_check", "d_value", "d_head_cas"},
             head' = loc[u].head, first # loc[u].tail.ptr
      PROVE  first # tail'.ptr
  <2>1. head = loc[u].head /\ head' = head
    BY <1>4, <1>5 DEF DeqPCs
  <2>2. first # tail.ptr
    BY <1>2, <1>5, <2>1 DEF DeqInv
  <2> QED
    BY <1>2, <2>1, <2>2 DEF Evolves
<1>6. ASSUME pc[u] \in {"d_check", "d_help"}, tail' = loc[u].tail,
             first = loc[u].tail.ptr, loc[u].next.ptr # NULL
      PROVE  next'[first].ptr = loc[u].next.ptr
  <2>1. tail = loc[u].tail /\ next[first].ptr = loc[u].next.ptr
    BY <1>2, <1>3, <1>6 DEF DeqInv
  <2> QED
    BY <1>6, <2>1 DEF Evolves
<1>7. ASSUME pc[u] \in {"d_check", "d_value", "d_head_cas"},
             head' = loc[u].head, first # loc[u].tail.ptr
      PROVE  /\ loc[u].next.ptr # NULL /\ next'[first].ptr = loc[u].next.ptr
             /\ next[first].ptr = loc[u].next.ptr /\ first \in Live /\ first = head.ptr
  <2>1. head = loc[u].head
    BY <1>4, <1>7 DEF DeqPCs
  <2>2. loc[u].next.ptr # NULL /\ next[first].ptr = loc[u].next.ptr
    BY <1>2, <1>7, <2>1 DEF DeqInv
  <2>3. first = head.ptr
    BY <1>2, <2>1
  <2> QED
    BY <2>2, <2>3 DEF Evolves
<1>8. /\ pc[u] = "d_help" => first = loc[u].tail.ptr /\ loc[u].next.ptr # NULL
      /\ pc[u] \in {"d_value", "d_head_cas"} => first # loc[u].tail.ptr
      /\ pc[u] = "d_head_cas" => loc[u].next.ptr # NULL
      /\ pc[u] = "d_free" => loc[u].val \in Values
  BY <1>2 DEF DeqInv
<1>9. ASSUME pc[u] = "d_head_cas", head' = loc[u].head
      PROVE  loc[u].val = value'[loc[u].next.ptr]
  <2>1. head = loc[u].head /\ next[first].ptr = loc[u].next.ptr /\ first \in Live
    BY <1>4, <1>7, <1>8, <1>9 DEF DeqPCs
  <2>2. loc[u].next.ptr \in Live
    BY <1>8, <1>9, <2>1 DEF LinkInv
  <2>3. loc[u].val = value[loc[u].next.ptr]
    BY <1>9, <2>1 DEF DeqInv
  <2> QED
    BY <2>2, <2>3 DEF Evolves
<1> QED
  BY <1>2, <1>3, <1>4, <1>5, <1>6, <1>7, <1>8, <1>9, SMTT(60) DEF DeqInv
-----------------------------------------------------------------------------
(***************************************************************************)
(* Who owns what after a step, and what is live then                       *)
(***************************************************************************)
\* A filled node is live.
LEMMA FilledIsLive ==
    ASSUME OwnInv, NEW t \in Threads, pc[t] \in FilledPCs
    PROVE  loc[t].n \in Live
<1>1. Owns(t) /\ Mine(t) = loc[t].n /\ ~Raw(t)
  BY DEF Owns, Mine, Raw, NewPCs, FilledPCs
<1>2. loc[t].n \in allocated
  BY <1>1 DEF OwnInv
<1>3. \A u \in Threads : Raw(u) => Mine(u) # loc[t].n
  <2>1. \A u \in Threads : Raw(u) => Owns(u)
    BY DEF Raw, Owns, NewPCs
  <2> QED
    BY <1>1, <2>1 DEF OwnInv
<1> QED
  BY <1>2, <1>3 DEF Live

LEMMA OthersOwn ==
    ASSUME NEW t \in Threads, Only(t)
    PROVE  \A u \in Threads \ {t} :
              (Owns(u)' <=> Owns(u)) /\ (Raw(u)' <=> Raw(u)) /\ Mine(u)' = Mine(u)
BY DEF Only, Owns, Mine, Raw

\* Owners and live nodes stay when no raw node changes hands.
LEMMA LiveSame ==
    ASSUME NEW t \in Threads, Only(t), allocated' = allocated, ~Raw(t), ~Raw(t)'
    PROVE  Live' = Live
<1>1. \A u \in Threads : (Raw(u)' <=> Raw(u)) /\ (Raw(u) => Mine(u)' = Mine(u))
  BY OthersOwn
<1> QED
  BY <1>1 DEF Live

\* Node a is the one that thread t makes raw or fills, gets or gives back.
LEMMA LiveNext ==
    ASSUME NEW t \in Threads, Only(t), NEW a,
           \A u \in Threads \ {t} : Raw(u) => Mine(u) # a,
           Raw(t) => Mine(t) = a, Raw(t)' => Mine(t)' = a,
           \A b : b # a => (b \in allocated' <=> b \in allocated)
    PROVE  Live' = IF a \in allocated' /\ ~Raw(t)' THEN Live \cup {a} ELSE Live \ {a}
<1>1. \A u \in Threads \ {t} : (Raw(u)' <=> Raw(u)) /\ Mine(u)' = Mine(u)
  BY OthersOwn
<1>2. \A b : b # a => (b \in Live' <=> b \in Live)
  <2> SUFFICES ASSUME NEW b, b # a PROVE b \in Live' <=> b \in Live
    OBVIOUS
  <2>1. \A u \in Threads : (Raw(u)' => Mine(u)' # b) <=> (Raw(u) => Mine(u) # b)
    BY <1>1
  <2>2. b \in allocated' <=> b \in allocated
    OBVIOUS
  <2> QED
    BY <2>1, <2>2 DEF Live
<1>3. a \in Live' <=> a \in allocated' /\ ~Raw(t)'
  <2>1. \A u \in Threads \ {t} : Raw(u)' => Mine(u)' # a
    BY <1>1
  <2>2. (\A u \in Threads : Raw(u)' => Mine(u)' # a) <=> ~Raw(t)'
    BY <2>1
  <2> QED
    BY <2>2 DEF Live
<1> QED
  BY <1>2, <1>3

LEMMA OwnersNext ==
    ASSUME OwnInv, NEW t \in Threads, Only(t),
           \A u \in Threads \ {t} : Owns(u) => Mine(u) \in allocated',
           Owns(t)' => /\ Mine(t)' \in allocated'
                       /\ \A u \in Threads \ {t} : Owns(u) => Mine(u) # Mine(t)'
    PROVE  OwnInv'
<1>1. \A u \in Threads \ {t} : (Owns(u)' <=> Owns(u)) /\ Mine(u)' = Mine(u)
  BY OthersOwn
<1>2. \A u \in Threads : Owns(u)' => Mine(u)' \in allocated'
  BY <1>1
<1>3. ASSUME NEW u \in Threads, NEW v \in Threads, Owns(u)', Owns(v)', Mine(u)' = Mine(v)'
      PROVE  u = v
  <2>1. CASE u # t /\ v # t
    <3>1. Owns(u) /\ Owns(v) /\ Mine(u) = Mine(v)
      BY <1>1, <1>3, <2>1
    <3> QED
      BY <3>1 DEF OwnInv
  <2>2. CASE u = t /\ v # t
    BY <1>1, <1>3, <2>2
  <2>3. CASE u # t /\ v = t
    BY <1>1, <1>3, <2>3
  <2> QED
    BY <2>1, <2>2, <2>3
<1> QED
  BY <1>2, <1>3 DEF OwnInv

\* Steps that leave the queue and its memory alone.
QuietStep(t) ==
    \/ Call(t) \/ MallocFails(t) \/ LoadTail(t) \/ LoadNext(t) \/ TailMoved(t)
    \/ TailSame(t) \/ LinkFails(t) \/ DeqLoadHead(t) \/ DeqLoadTail(t)
    \/ DeqLoadNext(t) \/ HeadMoved(t) \/ HeadSame(t) \/ ReturnEmpty(t)
    \/ ReadValue(t) \/ Crash(t) \/ MoveHeadFails(t)

\* Steps that swing the tail, or find that it has been swung.
SwingStep(t) == Swing(t) \/ HelpEnqueue(t) \/ HelpDequeue(t)

LEMMA QuietEffect ==
    ASSUME QueueTypeOK, NEW t \in Threads, QuietStep(t) \/ SwingStep(t)
    PROVE  /\ Only(t) /\ UNCHANGED <<head, value, next, allocated>>
           /\ QuietStep(t) => tail' = tail
           /\ ~Raw(t) /\ ~Raw(t)'
           /\ Owns(t)' => Owns(t) /\ Mine(t)' = Mine(t)
           /\ pc'[t] \in FilledPCs => /\ pc[t] \in FilledPCs /\ loc'[t].n = loc[t].n
                                      /\ ip'[t] = ip[t]
           /\ pc[t] \in FilledPCs => pc'[t] \in FilledPCs
<1> USE DEF QueueTypeOK
<1>1. Only(t)
  BY StepsAreLocal DEF QuietStep, SwingStep, Step
<1>2. /\ UNCHANGED <<head, value, next, allocated>>
      /\ QuietStep(t) => tail' = tail
  BY DEF QuietStep, SwingStep, Call, MallocFails, LoadTail, LoadNext, TailMoved,
         TailSame, LinkFails, DeqLoadHead, DeqLoadTail, DeqLoadNext, HeadMoved,
         HeadSame, ReturnEmpty, ReadValue, Crash, MoveHeadFails, Swing,
         HelpEnqueue, HelpDequeue, shared, memory
<1>3. /\ pc[t] \notin {"init", "d_free"} /\ pc'[t] \notin {"init", "d_free"}
      /\ pc'[t] \in FilledPCs => pc[t] \in FilledPCs /\ loc'[t].n = loc[t].n /\ ip'[t] = ip[t]
      /\ pc[t] \in FilledPCs => pc'[t] \in FilledPCs
  <2>1. CASE \/ Call(t) \/ MallocFails(t) \/ ReturnEmpty(t) \/ TailSame(t) \/ HeadSame(t)
             \/ Crash(t) \/ Swing(t)
    BY <2>1 DEF Call, MallocFails, ReturnEmpty, TailSame, HeadSame, Crash, Swing,
                Goto, NewPCs, FilledPCs
  <2>2. CASE \/ TailMoved(t) \/ LinkFails(t) \/ HeadMoved(t) \/ MoveHeadFails(t)
             \/ HelpEnqueue(t) \/ HelpDequeue(t)
    <3>1. loc'[t].n = loc[t].n
      BY <2>2 DEF TailMoved, LinkFails, HeadMoved, MoveHeadFails, HelpEnqueue,
                  HelpDequeue, Keep, NoLocals
    <3> QED
      BY <2>2, <3>1 DEF TailMoved, LinkFails, HeadMoved, MoveHeadFails,
                        HelpEnqueue, HelpDequeue, Goto, NewPCs, FilledPCs
  <2>3. CASE LoadTail(t) \/ LoadNext(t) \/ DeqLoadHead(t) \/ DeqLoadTail(t)
             \/ DeqLoadNext(t) \/ ReadValue(t)
    <3>1. loc'[t].n = loc[t].n
      BY <2>3 DEF LoadTail, LoadNext, DeqLoadHead, DeqLoadTail,
                  DeqLoadNext, ReadValue, Set, Locals
    <3> QED
      BY <2>3, <3>1 DEF LoadTail, LoadNext, DeqLoadHead, DeqLoadTail,
                        DeqLoadNext, ReadValue, Goto, NewPCs, FilledPCs
  <2> QED
    BY <2>1, <2>2, <2>3 DEF QuietStep, SwingStep
<1>4. ~Raw(t) /\ ~Raw(t)'
  BY <1>3 DEF Raw
<1>5. Owns(t)' => Owns(t) /\ Mine(t)' = Mine(t)
  BY <1>3 DEF Owns, Mine, FilledPCs
<1> QED
  BY <1>1, <1>2, <1>3, <1>4, <1>5

\* Steps on a node of the thread's own that is not live.
RawStep(t) == Malloc(t) \/ FreeHead(t)

LEMMA RawEffect ==
    ASSUME QueueTypeOK, OwnInv, NEW t \in Threads, RawStep(t)
    PROVE  /\ Only(t) /\ UNCHANGED <<head, tail, next>> /\ Live' = Live
           /\ OwnInv' /\ \A a \in Live : value'[a] = value[a]
           /\ pc'[t] \notin FilledPCs /\ pc[t] \notin FilledPCs
<1> USE MemoryAssumption DEF QueueTypeOK
<1>1. Only(t)
  BY StepsAreLocal DEF RawStep, Step
<1>2. \A u \in Threads : Raw(u) => Owns(u)
  BY DEF Raw, Owns, NewPCs
<1>3. CASE Malloc(t)
  <2>1. PICK a \in Addrs \ allocated : /\ loc' = [loc EXCEPT ![t]["n"] = a]
                                       /\ allocated' = allocated \cup {a}
    BY <1>3 DEF Malloc, Set
  <2>2. pc[t] = "malloc" /\ pc'[t] = "init" /\ UNCHANGED <<head, tail, value, next>>
    BY <1>3 DEF Malloc, Goto, shared
  <2>3. Owns(t)' /\ Raw(t)' /\ Mine(t)' = a /\ ~Raw(t)
    BY <2>1, <2>2 DEF Owns, Raw, Mine, NewPCs, Locals
  <2>4. \A u \in Threads : Owns(u) => Mine(u) # a /\ Mine(u) \in allocated'
    BY <2>1 DEF OwnInv
  <2>5. Live' = Live \ {a} /\ a \notin Live
    <3>1. Live' = IF a \in allocated' /\ ~Raw(t)' THEN Live \cup {a} ELSE Live \ {a}
      BY <1>1, <1>2, <2>1, <2>3, <2>4, LiveNext
    <3> QED
      BY <2>1, <2>3, <3>1 DEF Live
  <2>6. OwnInv'
    BY <1>1, <2>1, <2>3, <2>4, OwnersNext
  <2> QED
    BY <1>1, <2>2, <2>5, <2>6 DEF FilledPCs, NewPCs
<1>4. CASE FreeHead(t)
  <2>1. PICK a : a = loc[t].head.ptr
    OBVIOUS
  <2>2. /\ pc[t] = "d_free" /\ pc'[t] = "idle" /\ UNCHANGED <<head, tail, next>>
        /\ value' = [value EXCEPT ![a] = NoValue]
        /\ allocated' = allocated \ {a}
    BY <1>4, <2>1 DEF FreeHead, Goto, shared
  <2>3. Owns(t) /\ Raw(t) /\ ~Owns(t)' /\ ~Raw(t)' /\ Mine(t) = a
    BY <2>1, <2>2 DEF Owns, Raw, Mine, NewPCs
  <2>4. \A u \in Threads \ {t} : Owns(u) => Mine(u) # a /\ Mine(u) \in allocated'
    BY <2>2, <2>3 DEF OwnInv
  <2>5. Live' = Live \ {a} /\ a \notin Live
    <3>1. Live' = IF a \in allocated' /\ ~Raw(t)' THEN Live \cup {a} ELSE Live \ {a}
      BY <1>1, <1>2, <2>2, <2>3, <2>4, LiveNext
    <3> QED
      BY <2>2, <2>3, <3>1 DEF Live
  <2>6. OwnInv'
    BY <1>1, <2>3, <2>4, OwnersNext
  <2>7. \A b \in Live : value'[b] = value[b]
    BY <2>2, <2>5 DEF Live
  <2> QED
    BY <1>1, <2>2, <2>5, <2>6, <2>7 DEF FilledPCs, NewPCs
<1> QED
  BY <1>3, <1>4 DEF RawStep

\* The node a is filled: it becomes live.
LEMMA InitEffect ==
    ASSUME QueueTypeOK, OwnInv, NEW t \in Threads, InitNode(t)
    PROVE  LET a == loc[t].n IN
           /\ Only(t) /\ UNCHANGED <<head, tail, loc, ip, allocated>>
           /\ pc[t] = "init" /\ pc'[t] = "e_tail"
           /\ a \in Addrs \ Live /\ Live' = Live \cup {a} /\ OwnInv'
           /\ value' = [value EXCEPT ![a] = <<t, ip[t]>>]
           /\ next' = [next EXCEPT ![a] = Nil]
<1>1. Only(t)
  BY StepsAreLocal DEF Step
<1>2. PICK a : a = loc[t].n
  OBVIOUS
<1>3. /\ pc[t] = "init" /\ pc'[t] = "e_tail" /\ UNCHANGED <<head, tail, loc, ip, allocated>>
      /\ value' = [value EXCEPT ![a] = <<t, ip[t]>>]
      /\ next' = [next EXCEPT ![a] = Nil]
  BY <1>2 DEF InitNode, Goto, shared, QueueTypeOK
<1>4. Owns(t) /\ Raw(t) /\ Owns(t)' /\ ~Raw(t)' /\ Mine(t) = a /\ Mine(t)' = a
  BY <1>2, <1>3 DEF Owns, Raw, Mine, NewPCs
<1>5. a \in allocated /\ a \notin Live
  BY <1>4 DEF OwnInv, Live
<1>6. \A u \in Threads \ {t} : Owns(u) => Mine(u) # a /\ Mine(u) \in allocated
  BY <1>4 DEF OwnInv
<1>7. \A u \in Threads : Raw(u) => Owns(u)
  BY DEF Raw, Owns, NewPCs
<1>8. Live' = Live \cup {a}
  <2>1. Live' = IF a \in allocated' /\ ~Raw(t)' THEN Live \cup {a} ELSE Live \ {a}
    BY <1>1, <1>3, <1>4, <1>6, <1>7, LiveNext
  <2> QED
    BY <1>3, <1>4, <1>5, <2>1
<1>9. OwnInv'
  BY <1>1, <1>3, <1>4, <1>5, <1>6, OwnersNext
<1> QED
  BY <1>1, <1>2, <1>3, <1>5, <1>8, <1>9 DEF QueueTypeOK

\* The thread's node is linked behind `last`, which is live.
LEMMA LinkEffect ==
    ASSUME QueueTypeOK, OwnInv, NEW t \in Threads, EnqInv(t), Link(t)
    PROVE  LET last == loc[t].tail.ptr IN
           /\ Only(t) /\ UNCHANGED <<head, tail, value, loc, ip, allocated>>
           /\ pc[t] = "e_link" /\ pc'[t] = "e_swing" /\ Live' = Live /\ OwnInv'
           /\ last \in Live /\ last \in Addrs /\ next[last].ptr = NULL
           /\ next'[last].ptr = loc[t].n
           /\ \A a \in Addrs \ {last} : next'[a] = next[a]
           /\ Copied(loc[t].tail, tail)
<1> USE DEF QueueTypeOK
<1>1. Only(t)
  BY StepsAreLocal DEF Step
<1>2. /\ pc[t] = "e_link" /\ pc'[t] = "e_swing"
      /\ UNCHANGED <<head, tail, value, loc, ip, allocated>>
      /\ next[loc[t].tail.ptr] = loc[t].next
      /\ next' = [next EXCEPT ![loc[t].tail.ptr] = Tagged(loc[t].n, loc[t].next.count + 1)]
  BY DEF Link, Goto, shared
<1>3. /\ loc[t].tail.ptr \in Live /\ loc[t].tail.ptr \in Addrs
      /\ next[loc[t].tail.ptr].ptr = NULL /\ Copied(loc[t].tail, tail)
  BY <1>2 DEF EnqInv
<1>4. ~Raw(t) /\ ~Raw(t)' /\ ~Owns(t)'
  BY <1>2 DEF Raw, Owns, NewPCs
<1>5. Live' = Live
  BY <1>1, <1>2, <1>4, LiveSame
<1>6. OwnInv'
  <2>1. \A u \in Threads \ {t} : Owns(u) => Mine(u) \in allocated'
    BY <1>2 DEF OwnInv
  <2> QED
    BY <1>1, <1>4, <2>1, OwnersNext
<1>7. /\ next'[loc[t].tail.ptr].ptr = loc[t].n
      /\ \A a \in Addrs \ {loc[t].tail.ptr} : next'[a] = next[a]
  BY <1>2, <1>3 DEF Tagged
<1> QED
  BY <1>1, <1>2, <1>3, <1>5, <1>6, <1>7

\* The head moves on, and the node it leaves is the thread's to free.
LEMMA MoveHeadEffect ==
    ASSUME QueueTypeOK, SoundInv, NEW t \in Threads, MoveHead(t)
    PROVE  /\ Only(t) /\ UNCHANGED <<tail, value, next, loc, ip, allocated>>
           /\ pc[t] = "d_head_cas" /\ pc'[t] = "d_free"
           /\ Live' = Live \ {head.ptr} /\ head.ptr \in Live /\ OwnInv'
           /\ head.count < head'.count
           /\ head'.ptr = next[head.ptr].ptr /\ head'.ptr \in Live
           /\ tail.ptr # head.ptr
           /\ loc[t].val = value[head'.ptr] /\ loc[t].val \in Values
<1> USE MemoryAssumption DEF QueueTypeOK
<1>1. Only(t)
  BY StepsAreLocal DEF Step
<1>2. /\ pc[t] = "d_head_cas" /\ pc'[t] = "d_free"
      /\ UNCHANGED <<tail, value, next, loc, ip, allocated>>
      /\ head = loc[t].head /\ head' = Tagged(loc[t].next.ptr, head.count + 1)
  BY DEF MoveHead, Goto, memory
<1>3. head.ptr \in Live /\ OwnInv /\ LinkInv /\ DeqInv(t)
  BY EndsAreLive DEF SoundInv
<1>4. /\ head.ptr # loc[t].tail.ptr /\ tail.ptr # head.ptr
      /\ next[head.ptr].ptr = loc[t].next.ptr /\ loc[t].next.ptr # NULL
      /\ loc[t].val = value[loc[t].next.ptr]
  BY <1>2, <1>3 DEF DeqInv
<1>5. /\ head'.ptr = next[head.ptr].ptr /\ head'.ptr = loc[t].next.ptr
      /\ head.count < head'.count
  BY <1>2, <1>4 DEF Tagged, Pointers
<1>6. head'.ptr \in Live /\ head'.ptr # head.ptr
  BY <1>3, <1>4, <1>5 DEF LinkInv
<1>7. loc[t].val = value[head'.ptr] /\ loc[t].val \in Values
  BY <1>3, <1>4, <1>5, <1>6 DEF LinkInv
<1>8. ~Raw(t) /\ Raw(t)' /\ Owns(t)' /\ Mine(t)' = head.ptr
  BY <1>2 DEF Raw, Owns, Mine, NewPCs
<1>9. \A u \in Threads : Owns(u) => Mine(u) # head.ptr
  <2> TAKE u \in Threads
  <2>1. CASE pc[u] \in FilledPCs
    BY <1>3, <2>1 DEF LinkInv, Mine, FilledPCs, NewPCs
  <2>2. CASE Raw(u)
    BY <1>3, <2>2 DEF Live
  <2> QED
    BY <2>1, <2>2 DEF Owns, Raw, FilledPCs
<1>10. \A u \in Threads : Raw(u) => Owns(u)
  BY DEF Raw, Owns, NewPCs
<1>11. Live' = Live \ {head.ptr}
  <2>1. Live' = IF head.ptr \in allocated' /\ ~Raw(t)' THEN Live \cup {head.ptr}
                ELSE Live \ {head.ptr}
    BY <1>1, <1>2, <1>8, <1>9, <1>10, LiveNext
  <2> QED
    BY <1>8, <2>1
<1>12. OwnInv'
  <2>1. head.ptr \in allocated /\ \A u \in Threads : Owns(u) => Mine(u) \in allocated
    BY <1>3 DEF Live, OwnInv
  <2> QED
    BY <1>1, <1>2, <1>3, <1>8, <1>9, <2>1, OwnersNext
<1> QED
  BY <1>1, <1>2, <1>3, <1>4, <1>5, <1>6, <1>7, <1>11, <1>12
-----------------------------------------------------------------------------
(***************************************************************************)
(* Links, the way to the tail, and what others know, after a step          *)
(***************************************************************************)
\* Nothing happens to the live nodes, and no other node is filled.
LEMMA LinkSame ==
    ASSUME QueueTypeOK, OwnInv, LinkInv, NEW t \in Threads, Only(t),
           UNCHANGED <<head, next>>, Live' = Live,
           \A a \in Live : value'[a] = value[a],
           pc'[t] \in FilledPCs => /\ pc[t] \in FilledPCs /\ loc'[t].n = loc[t].n
                                   /\ ip'[t] = ip[t]
    PROVE  LinkInv'
<1>1. ASSUME NEW u \in Threads, pc'[u] \in FilledPCs
      PROVE  /\ loc'[u].n # head'.ptr
             /\ \A a \in Live' : next'[a].ptr # loc'[u].n
             /\ value'[loc'[u].n] = <<u, ip'[u]>>
  <2>1. pc[u] \in FilledPCs /\ loc'[u].n = loc[u].n /\ ip'[u] = ip[u]
    BY <1>1 DEF Only
  <2>2. loc[u].n \in Live
    BY <2>1, FilledIsLive
  <2> QED
    BY <2>1, <2>2 DEF LinkInv
<1> QED
  BY <1>1 DEF LinkInv

LEMMA LinkAfterInit ==
    ASSUME BaseInv, OwnInv, LinkInv, head.ptr \in Live, NEW t \in Threads, InitNode(t)
    PROVE  LinkInv'
<1> USE MemoryAssumption DEF BaseInv, QueueTypeOK
<1>1. PICK a : a = loc[t].n
  OBVIOUS
<1>2. /\ Only(t) /\ UNCHANGED <<head, tail, loc, ip, allocated>>
      /\ pc[t] = "init" /\ pc'[t] = "e_tail"
      /\ a \in Addrs \ Live /\ Live' = Live \cup {a}
      /\ value' = [value EXCEPT ![a] = <<t, ip[t]>>]
      /\ next' = [next EXCEPT ![a] = Nil]
  BY <1>1, InitEffect
<1>3. Live \subseteq Addrs
  BY DEF Live
<1>4. /\ next'[a].ptr = NULL /\ value'[a] = <<t, ip[t]>> /\ <<t, ip[t]>> \in Values
      /\ \A b \in Live : next'[b] = next[b] /\ value'[b] = value[b]
  BY <1>2, <1>3 DEF Nil, Tagged, ControlInv, EnqPCs, NewPCs
<1>5. \A b \in Live' : next'[b].ptr \in (Live' \cup {NULL}) \ {head'.ptr}
  BY <1>2, <1>3, <1>4 DEF LinkInv
<1>6. \A b, c \in Live' : next'[b].ptr = next'[c].ptr /\ next'[b].ptr # NULL => b = c
  BY <1>2, <1>4 DEF LinkInv
<1>7. \A b \in Live' \ {head'.ptr} : value'[b] \in Values
  BY <1>2, <1>4 DEF LinkInv
<1>8. ASSUME NEW u \in Threads, pc'[u] \in FilledPCs
      PROVE  /\ loc'[u].n # head'.ptr
             /\ \A b \in Live' : next'[b].ptr # loc'[u].n
             /\ value'[loc'[u].n] = <<u, ip'[u]>>
  <2>1. CASE u = t
    <3>1. loc'[u].n = a /\ a # NULL /\ a \notin Live
      BY <1>1, <1>2, <2>1
    <3>2. \A b \in Live : next[b].ptr # a
      BY <3>1 DEF LinkInv
    <3> QED
      BY <1>2, <1>4, <2>1, <3>1, <3>2
  <2>2. CASE u # t
    <3>1. pc[u] \in FilledPCs /\ loc'[u].n = loc[u].n /\ ip'[u] = ip[u]
      BY <1>2, <1>8, <2>2 DEF Only
    <3>2. loc[u].n \in Live
      BY <3>1, FilledIsLive
    <3> QED
      BY <1>2, <1>3, <1>4, <3>1, <3>2 DEF LinkInv
  <2> QED
    BY <2>1, <2>2
<1> QED
  BY <1>5, <1>6, <1>7, <1>8 DEF LinkInv

LEMMA LinkAfterLink ==
    ASSUME QueueTypeOK, OwnInv, LinkInv, NEW t \in Threads, EnqInv(t), Link(t)
    PROVE  LinkInv'
<1> USE MemoryAssumption DEF QueueTypeOK
<1>1. PICK last : last = loc[t].tail.ptr
  OBVIOUS
<1>2. PICK n : n = loc[t].n
  OBVIOUS
<1>3. /\ Only(t) /\ UNCHANGED <<head, tail, value, loc, ip, allocated>>
      /\ pc[t] = "e_link" /\ pc'[t] = "e_swing" /\ Live' = Live
      /\ last \in Live /\ last \in Addrs /\ next[last].ptr = NULL
      /\ next'[last].ptr = n
      /\ \A a \in Addrs \ {last} : next'[a] = next[a]
  BY <1>1, <1>2, LinkEffect
<1>4. pc[t] \in FilledPCs
  BY <1>3 DEF FilledPCs, NewPCs
<1>5. /\ n \in Live /\ n # head.ptr /\ n # NULL
      /\ \A a \in Live : next[a].ptr # n
  <2>1. n \in Live
    BY <1>2, <1>4, FilledIsLive
  <2>2. n # NULL
    BY <2>1 DEF Live
  <2> QED
    BY <1>2, <1>4, <2>1, <2>2 DEF LinkInv
<1>6. \A a \in Live : next'[a].ptr = IF a = last THEN n ELSE next[a].ptr
  BY <1>3 DEF Live
<1>7. \A a \in Live' : next'[a].ptr \in (Live' \cup {NULL}) \ {head'.ptr}
  BY <1>3, <1>5, <1>6 DEF LinkInv
<1>8. \A a, b \in Live' : next'[a].ptr = next'[b].ptr /\ next'[a].ptr # NULL => a = b
  BY <1>3, <1>5, <1>6 DEF LinkInv
<1>9. ASSUME NEW u \in Threads, pc'[u] \in FilledPCs
      PROVE  /\ loc'[u].n # head'.ptr
             /\ \A a \in Live' : next'[a].ptr # loc'[u].n
             /\ value'[loc'[u].n] = <<u, ip'[u]>>
  <2>1. u # t
    BY <1>3, <1>9 DEF FilledPCs, NewPCs
  <2>2. pc[u] \in FilledPCs /\ loc'[u].n = loc[u].n /\ ip'[u] = ip[u]
    BY <1>3, <1>9, <2>1 DEF Only
  <2>3. loc[u].n # n
    BY <1>2, <1>4, <2>1, <2>2 DEF OwnInv, Owns, Mine, FilledPCs, NewPCs
  <2> QED
    BY <1>3, <1>6, <2>2, <2>3 DEF LinkInv
<1>10. \A a \in Live' \ {head'.ptr} : value'[a] \in Values
  BY <1>3 DEF LinkInv
<1> QED
  BY <1>7, <1>8, <1>9, <1>10 DEF LinkInv

LEMMA LinkAfterMoveHead ==
    ASSUME QueueTypeOK, SoundInv, NEW t \in Threads, MoveHead(t)
    PROVE  LinkInv'
<1> USE MemoryAssumption DEF QueueTypeOK
<1>1. /\ Only(t) /\ UNCHANGED <<tail, value, next, loc, ip, allocated>>
      /\ pc'[t] = "d_free"
      /\ Live' = Live \ {head.ptr} /\ head.ptr \in Live
      /\ head'.ptr = next[head.ptr].ptr /\ head'.ptr \in Live
  BY MoveHeadEffect
<1>2. LinkInv
  BY DEF SoundInv
<1>3. head'.ptr # NULL
  BY <1>1 DEF Live
<1>4. \A a \in Live' : next'[a].ptr \in (Live' \cup {NULL}) \ {head'.ptr}
  <2> TAKE a \in Live'
  <2>1. a \in Live /\ a # head.ptr /\ next'[a] = next[a]
    BY <1>1
  <2>2. next[a].ptr # head'.ptr
    BY <1>1, <1>2, <1>3, <2>1 DEF LinkInv
  <2> QED
    BY <1>1, <1>2, <2>1, <2>2 DEF LinkInv
<1>5. ASSUME NEW u \in Threads, pc'[u] \in FilledPCs
      PROVE  /\ loc'[u].n # head'.ptr
             /\ \A a \in Live' : next'[a].ptr # loc'[u].n
             /\ value'[loc'[u].n] = <<u, ip'[u]>>
  <2>1. u # t
    BY <1>1, <1>5 DEF FilledPCs, NewPCs
  <2>2. pc[u] \in FilledPCs /\ loc'[u].n = loc[u].n /\ ip'[u] = ip[u]
    BY <1>1, <1>5, <2>1 DEF Only
  <2> QED
    BY <1>1, <1>2, <2>2 DEF LinkInv
<1>6. /\ \A a, b \in Live' : next'[a].ptr = next'[b].ptr /\ next'[a].ptr # NULL => a = b
      /\ \A a \in Live' \ {head'.ptr} : value'[a] \in Values
  BY <1>1, <1>2 DEF LinkInv
<1> QED
  BY <1>4, <1>5, <1>6 DEF LinkInv

\* The way stays while the head and the tail do.
LEMMA WaySame ==
    ASSUME QueueTypeOK, NEW k \in Nat \ {0}, NEW p \in [1 .. k -> Addrs], WayInv(p, k),
           UNCHANGED <<head, tail>>, Evolves, Live \subseteq Live'
    PROVE  WayInv(p, k)'
<1>1. \A i \in 1 .. k - 1 : next'[p[i]].ptr = p[i + 1]
  <2> TAKE i \in 1 .. k - 1
  <2>1. i \in 1 .. k /\ i + 1 \in 1 .. k
    OBVIOUS
  <2>2. p[i] \in Live /\ next[p[i]].ptr = p[i + 1] /\ p[i + 1] # NULL
    BY <2>1, MemoryAssumption DEF WayInv
  <2> QED
    BY <2>2 DEF Evolves
<1> QED
  BY <1>1 DEF WayInv

\* The tail takes one step along the links.
LEMMA WayAfterSwing ==
    ASSUME QueueTypeOK, LinkInv, NEW k \in Nat \ {0}, NEW p \in [1 .. k -> Addrs], WayInv(p, k),
           UNCHANGED <<head, next>>, Live' = Live,
           tail'.ptr = next[tail.ptr].ptr, tail'.ptr # NULL
    PROVE  \E k2 \in Nat \ {0} : \E p2 \in [1 .. k2 -> Addrs] : WayInv(p2, k2)'
<1> USE DEF WayInv
<1>1. k \in 1 .. k /\ p[k] \in Live /\ tail.ptr = p[k]
  OBVIOUS
<1>2. tail'.ptr \in Live /\ tail'.ptr \in Addrs /\ tail'.ptr # head.ptr
  BY <1>1 DEF LinkInv, Live, QueueTypeOK
<1>3. \A i \in 1 .. k : p[i] # tail'.ptr
  <2> SUFFICES ASSUME NEW i \in 1 .. k, p[i] = tail'.ptr PROVE FALSE
    OBVIOUS
  <2>1. i # 1
    BY <1>2
  <2>2. i - 1 \in 1 .. k - 1 /\ i - 1 \in 1 .. k /\ (i - 1) + 1 = i /\ i - 1 # k
    BY <2>1
  <2>3. next[p[i - 1]].ptr = tail'.ptr /\ p[i - 1] \in Live
    BY <2>2
  <2>4. p[i - 1] = p[k]
    BY <1>1, <2>3 DEF LinkInv
  <2> QED
    BY <1>1, <2>2, <2>4 DEF Distinct
<1>4. PICK k2 \in Nat \ {0} : k2 = k + 1
  OBVIOUS
<1>5. PICK p2 \in [1 .. k2 -> Addrs] : p2 = [i \in 1 .. k2 |-> IF i = k2 THEN tail'.ptr ELSE p[i]]
  <2>1. [i \in 1 .. k2 |-> IF i = k2 THEN tail'.ptr ELSE p[i]] \in [1 .. k2 -> Addrs]
    BY <1>2, <1>4
  <2> QED
    BY <2>1
<1>6. /\ p2[k2] = tail'.ptr /\ k2 \in 1 .. k2
      /\ \A i \in 1 .. k2 : i = k2 \/ (i \in 1 .. k /\ p2[i] = p[i])
      /\ 1 \in 1 .. k2 /\ 1 # k2
  BY <1>4, <1>5
<1>7. Distinct(p2, k2)
  BY <1>3, <1>6 DEF Distinct
<1>8. \A i \in 1 .. k2 - 1 : next[p2[i]].ptr = p2[i + 1]
  <2> TAKE i \in 1 .. k2 - 1
  <2>1. i \in 1 .. k /\ i \in 1 .. k2 /\ i # k2 /\ p2[i] = p[i]
    BY <1>4, <1>6
  <2>2. CASE i = k
    BY <1>1, <1>4, <1>6, <2>1, <2>2
  <2>3. CASE i # k
    <3>1. i \in 1 .. k - 1 /\ i + 1 \in 1 .. k2 /\ i + 1 # k2
      BY <1>4, <2>1, <2>3
    <3> QED
      BY <1>6, <2>1, <3>1
  <2> QED
    BY <2>2, <2>3
<1>9. WayInv(p2, k2)'
  BY <1>2, <1>6, <1>7, <1>8
<1> QED
  BY <1>9

\* The head takes one.
LEMMA WayAfterMoveHead ==
    ASSUME QueueTypeOK, NEW k \in Nat \ {0}, NEW p \in [1 .. k -> Addrs], WayInv(p, k),
           UNCHANGED <<tail, next>>, Live' = Live \ {head.ptr},
           head'.ptr = next[head.ptr].ptr, tail.ptr # head.ptr
    PROVE  \E k2 \in Nat \ {0} : \E p2 \in [1 .. k2 -> Addrs] : WayInv(p2, k2)'
<1> USE DEF WayInv
<1>1. k # 1
  OBVIOUS
<1>2. PICK k2 \in Nat \ {0} : k2 = k - 1
  BY <1>1
<1>3. PICK p2 \in [1 .. k2 -> Addrs] : p2 = [i \in 1 .. k2 |-> p[i + 1]]
  <2>1. [i \in 1 .. k2 |-> p[i + 1]] \in [1 .. k2 -> Addrs]
    BY <1>2
  <2> QED
    BY <2>1
<1>4. \A i \in 1 .. k2 : i + 1 \in 1 .. k /\ p2[i] = p[i + 1] /\ i + 1 # 1
  BY <1>2, <1>3
<1>5. Distinct(p2, k2)
  BY <1>4 DEF Distinct
<1>6. 1 \in 1 .. k2 /\ k2 \in 1 .. k2 /\ k2 + 1 = k /\ 1 \in 1 .. k - 1 /\ 1 \in 1 .. k
  BY <1>2
<1>7. head'.ptr = p2[1] /\ tail'.ptr = p2[k2]
  BY <1>4, <1>6
<1>8. \A i \in 1 .. k2 : p2[i] \in Live'
  <2> TAKE i \in 1 .. k2
  <2>1. p[i + 1] # p[1]
    BY <1>4, <1>6 DEF Distinct
  <2> QED
    BY <1>4, <2>1
<1>9. \A i \in 1 .. k2 - 1 : next'[p2[i]].ptr = p2[i + 1]
  <2> TAKE i \in 1 .. k2 - 1
  <2>1. i \in 1 .. k2 /\ i + 1 \in 1 .. k2 /\ i + 1 \in 1 .. k - 1
    BY <1>2
  <2> QED
    BY <1>4, <2>1
<1>10. WayInv(p2, k2)'
  BY <1>5, <1>7, <1>8, <1>9
<1> QED
  BY <1>10
-----------------------------------------------------------------------------
(***************************************************************************)
(* What the thread that steps knows afterwards                             *)
(***************************************************************************)
LEMMA KnowsNothing ==
    ASSUME NEW t \in Threads,
           pc'[t] \in {"idle", "malloc", "init", "e_tail", "d_head", "crashed"}
    PROVE  EnqInv(t)' /\ DeqInv(t)'
BY DEF EnqInv, DeqInv, DeqPCs

LEMMA EnqLoads ==
    ASSUME QueueTypeOK, tail.ptr \in Live, NEW t \in Threads, EnqInv(t),
           LoadTail(t) \/ LoadNext(t) \/ TailSame(t), Live' = Live,
           UNCHANGED <<tail, next>>
    PROVE  EnqInv(t)' /\ DeqInv(t)'
<1> USE DEF QueueTypeOK, Goto
<1>1. CASE LoadTail(t)
  <2>1. pc'[t] = "e_next" /\ loc'[t].tail = tail
    BY <1>1 DEF LoadTail, Set, Locals
  <2>2. tail.ptr \in Addrs
    BY DEF Live
  <2> QED
    BY <2>1, <2>2 DEF EnqInv, DeqInv, DeqPCs, Copied
<1>2. CASE LoadNext(t)
  <2>1. /\ pc[t] = "e_next" /\ pc'[t] = "e_check" /\ loc'[t].tail = loc[t].tail
        /\ loc'[t].next = next[loc[t].tail.ptr]
    BY <1>2 DEF LoadNext, Set, Locals
  <2>2. /\ loc[t].tail.ptr \in Addrs /\ Copied(loc[t].tail, tail)
        /\ loc[t].tail.ptr \in Live \/ next[loc[t].tail.ptr].ptr # NULL
    BY <2>1 DEF EnqInv
  <2> QED
    BY <2>1, <2>2 DEF EnqInv, DeqInv, DeqPCs, Copied
<1>3. CASE TailSame(t)
  <2>1. /\ pc[t] = "e_check" /\ loc'[t] = loc[t]
        /\ pc'[t] = IF loc[t].next.ptr = NULL THEN "e_link" ELSE "e_help"
    BY <1>3 DEF TailSame
  <2> QED
    BY <2>1 DEF EnqInv, DeqInv, DeqPCs, Copied
<1> QED
  BY <1>1, <1>2, <1>3

LEMMA DeqLoads ==
    ASSUME QueueTypeOK, SoundInv, NEW t \in Threads,
           \/ DeqLoadHead(t) \/ DeqLoadTail(t) \/ DeqLoadNext(t) \/ HeadSame(t)
           \/ ReadValue(t),
           Live' = Live, UNCHANGED <<head, tail, next, value>>
    PROVE  EnqInv(t)' /\ DeqInv(t)'
<1> USE DEF QueueTypeOK, Goto
<1>0. /\ head.ptr \in Live /\ tail.ptr \in Live /\ head.ptr \in Addrs /\ DeqInv(t)
      /\ tail.ptr # head.ptr => next[head.ptr].ptr # NULL
  BY EndsAreLive DEF SoundInv, Live
<1>1. CASE DeqLoadHead(t)
  <2>1. pc'[t] = "d_tail" /\ loc'[t].head = head
    BY <1>1 DEF DeqLoadHead, Set, Locals
  <2> QED
    BY <1>0, <2>1 DEF EnqInv, DeqInv, DeqPCs, Copied
<1>2. CASE DeqLoadTail(t)
  <2>1. pc[t] = "d_tail" /\ pc'[t] = "d_next" /\ loc'[t].head = loc[t].head /\ loc'[t].tail = tail
    BY <1>2 DEF DeqLoadTail, Set, Locals
  <2>2. loc[t].head.ptr \in Addrs /\ Copied(loc[t].head, head)
    BY <1>0, <2>1 DEF DeqInv, DeqPCs
  <2> QED
    BY <2>1, <2>2 DEF EnqInv, DeqInv, DeqPCs, Copied
<1>3. CASE DeqLoadNext(t)
  <2>1. /\ pc[t] = "d_next" /\ pc'[t] = "d_check" /\ loc'[t].head = loc[t].head
        /\ loc'[t].tail = loc[t].tail /\ loc'[t].next = next[loc[t].head.ptr]
    BY <1>3 DEF DeqLoadNext, Set, Locals
  <2>2. /\ loc[t].head.ptr \in Addrs /\ Copied(loc[t].head, head) /\ Copied(loc[t].tail, tail)
        /\ head = loc[t].head /\ loc[t].head.ptr # loc[t].tail.ptr => loc[t].head.ptr # tail.ptr
    BY <1>0, <2>1 DEF DeqInv, DeqPCs
  <2>3. head = loc[t].head /\ loc[t].head.ptr # loc[t].tail.ptr => loc'[t].next.ptr # NULL
    BY <1>0, <2>1, <2>2
  <2> QED
    BY <2>1, <2>2, <2>3 DEF EnqInv, DeqInv, DeqPCs, Copied
<1>4. CASE HeadSame(t)
  <2>1. /\ pc[t] = "d_check" /\ loc'[t] = loc[t]
        /\ loc[t].head.ptr # loc[t].tail.ptr \/ loc[t].next.ptr # NULL
        /\ pc'[t] = IF loc[t].head.ptr = loc[t].tail.ptr THEN "d_help" ELSE "d_value"
    BY <1>4 DEF HeadSame
  <2> QED
    BY <1>0, <2>1 DEF EnqInv, DeqInv, DeqPCs, Copied
<1>5. CASE ReadValue(t)
  <2>1. /\ pc[t] = "d_value" /\ pc'[t] = "d_head_cas" /\ loc[t].next.ptr # NULL
        /\ loc'[t].head = loc[t].head /\ loc'[t].tail = loc[t].tail
        /\ loc'[t].next = loc[t].next /\ loc'[t].val = value[loc[t].next.ptr]
    BY <1>5 DEF ReadValue, Set, Locals
  <2> QED
    BY <1>0, <2>1 DEF EnqInv, DeqInv, DeqPCs, Copied
<1> QED
  BY <1>1, <1>2, <1>3, <1>4, <1>5

\* A swing moves the tail to the next node, if the count is still the same.
LEMMA SwingTo ==
    ASSUME QueueTypeOK, NEW t \in Threads, SwingStep(t), EnqInv(t), DeqInv(t)
    PROVE  \/ tail' = tail
           \/ /\ tail'.ptr = next[tail.ptr].ptr /\ tail'.ptr # NULL
              /\ tail.count < tail'.count
<1> USE MemoryAssumption DEF QueueTypeOK, Goto
<1>1. ASSUME NEW a, CasTail(t, a), a # NULL,
             tail = loc[t].tail => next[tail.ptr].ptr = a
      PROVE  \/ tail' = tail
             \/ /\ tail'.ptr = next[tail.ptr].ptr /\ tail'.ptr # NULL
                /\ tail.count < tail'.count
  BY <1>1 DEF CasTail, Tagged, Pointers
<1>2. CASE Swing(t)
  <2>1. CasTail(t, loc[t].n) /\ pc[t] = "e_swing"
    BY <1>2 DEF Swing
  <2>2. loc[t].n # NULL /\ (tail = loc[t].tail => next[tail.ptr].ptr = loc[t].n)
    BY <2>1 DEF EnqInv
  <2> QED
    BY <2>1, <2>2, <1>1
<1>3. CASE HelpEnqueue(t)
  <2>1. CasTail(t, loc[t].next.ptr) /\ pc[t] = "e_help"
    BY <1>3 DEF HelpEnqueue
  <2>2. loc[t].next.ptr # NULL /\ (tail = loc[t].tail => next[tail.ptr].ptr = loc[t].next.ptr)
    BY <2>1 DEF EnqInv
  <2> QED
    BY <2>1, <2>2, <1>1
<1>4. CASE HelpDequeue(t)
  <2>1. CasTail(t, loc[t].next.ptr) /\ pc[t] = "d_help"
    BY <1>4 DEF HelpDequeue
  <2>2. loc[t].next.ptr # NULL /\ (tail = loc[t].tail => next[tail.ptr].ptr = loc[t].next.ptr)
    BY <2>1 DEF DeqInv
  <2> QED
    BY <2>1, <2>2, <1>1
<1> QED
  BY <1>2, <1>3, <1>4 DEF SwingStep

\* Every step lets the other threads' knowledge stand.
LEMMA StepEvolves ==
    ASSUME BaseInv, SoundInv, NEW t \in Threads, Call(t) \/ Step(t)
    PROVE  Evolves
<1> USE MemoryAssumption DEF BaseInv, QueueTypeOK
<1>0. /\ OwnInv /\ LinkInv /\ EnqInv(t) /\ DeqInv(t) /\ head.ptr \in Live
      /\ tail.ptr \in Live /\ Live \subseteq Addrs
  BY EndsAreLive DEF SoundInv, Live
<1>1. CASE QuietStep(t)
  <2>1. UNCHANGED <<head, tail, next, value, allocated>> /\ Only(t) /\ ~Raw(t) /\ ~Raw(t)'
    BY <1>1, QuietEffect
  <2>2. Live' = Live
    BY <2>1, LiveSame
  <2> QED
    BY <2>1, <2>2 DEF Evolves
<1>2. CASE SwingStep(t)
  <2>1. UNCHANGED <<head, next, value, allocated>> /\ Only(t) /\ ~Raw(t) /\ ~Raw(t)'
    BY <1>2, QuietEffect
  <2>2. Live' = Live
    BY <2>1, LiveSame
  <2>3. \/ tail' = tail
        \/ tail'.ptr = next[tail.ptr].ptr /\ tail'.ptr # NULL /\ tail.count < tail'.count
    BY <1>0, <1>2, SwingTo
  <2>4. tail'.ptr # head.ptr \/ tail' = tail
    BY <1>0, <2>3 DEF LinkInv
  <2> QED
    BY <2>1, <2>2, <2>3, <2>4 DEF Evolves
<1>3. CASE RawStep(t)
  <2>1. /\ UNCHANGED <<head, tail, next>> /\ Live' = Live
        /\ \A a \in Live : value'[a] = value[a]
    BY <1>0, <1>3, RawEffect
  <2> QED
    BY <2>1 DEF Evolves
<1>4. CASE InitNode(t)
  <2>1. PICK a : a = loc[t].n
    OBVIOUS
  <2>2. /\ UNCHANGED <<head, tail>> /\ a \in Addrs \ Live /\ Live' = Live \cup {a}
        /\ value' = [value EXCEPT ![a] = <<t, ip[t]>>]
        /\ next' = [next EXCEPT ![a] = Nil]
    BY <1>0, <1>4, <2>1, InitEffect
  <2>3. \A b \in Addrs \ {a} : next'[b] = next[b] /\ value'[b] = value[b]
    BY <2>2
  <2> QED
    BY <1>0, <2>2, <2>3 DEF Evolves
<1>5. CASE Link(t)
  <2>1. PICK last : last = loc[t].tail.ptr
    OBVIOUS
  <2>2. /\ UNCHANGED <<head, tail, value>> /\ Live' = Live
        /\ last \in Live /\ next[last].ptr = NULL
        /\ \A a \in Addrs \ {last} : next'[a] = next[a]
    BY <1>0, <1>5, <2>1, LinkEffect
  <2> QED
    BY <1>0, <2>2 DEF Evolves
<1>6. CASE MoveHead(t)
  <2>1. /\ UNCHANGED <<tail, value, next>>
        /\ Live' = Live \ {head.ptr} /\ head.count < head'.count
        /\ head'.ptr = next[head.ptr].ptr /\ head'.ptr \in Live
    BY <1>6, MoveHeadEffect
  <2>2. next[head.ptr].ptr # NULL /\ head' # head
    BY <1>0, <2>1 DEF Pointers
  <2> QED
    BY <2>1, <2>2 DEF Evolves
<1> QED
  BY <1>1, <1>2, <1>3, <1>4, <1>5, <1>6 DEF Step, QuietStep, SwingStep, RawStep

\* What thread t knows after its own step.
LEMMA StepKnows ==
    ASSUME BaseInv, SoundInv, NEW t \in Threads, Call(t) \/ Step(t)
    PROVE  EnqInv(t)' /\ DeqInv(t)'
<1> USE DEF BaseInv, QueueTypeOK
<1>0. /\ OwnInv /\ LinkInv /\ EnqInv(t) /\ DeqInv(t) /\ head.ptr \in Live
      /\ tail.ptr \in Live
  BY EndsAreLive DEF SoundInv
<1>1. CASE LoadTail(t) \/ LoadNext(t) \/ TailSame(t)
  <2>1. UNCHANGED <<tail, next, allocated>> /\ Only(t) /\ ~Raw(t) /\ ~Raw(t)'
    BY <1>1, QuietEffect DEF QuietStep
  <2>2. Live' = Live
    BY <2>1, LiveSame
  <2> QED
    BY <1>0, <1>1, <2>1, <2>2, EnqLoads
<1>2. CASE \/ DeqLoadHead(t) \/ DeqLoadTail(t) \/ DeqLoadNext(t) \/ HeadSame(t)
           \/ ReadValue(t)
  <2>1. UNCHANGED <<head, tail, next, value, allocated>> /\ Only(t) /\ ~Raw(t) /\ ~Raw(t)'
    BY <1>2, QuietEffect DEF QuietStep
  <2>2. Live' = Live
    BY <2>1, LiveSame
  <2> QED
    BY <1>2, <2>1, <2>2, DeqLoads
<1>3. CASE \/ Call(t) \/ MallocFails(t) \/ TailMoved(t) \/ LinkFails(t) \/ HeadMoved(t)
           \/ ReturnEmpty(t) \/ Crash(t) \/ MoveHeadFails(t) \/ Swing(t)
           \/ HelpEnqueue(t) \/ HelpDequeue(t) \/ Malloc(t) \/ FreeHead(t) \/ InitNode(t)
  <2>1. pc'[t] \in {"idle", "malloc", "init", "e_tail", "d_head", "crashed"}
    BY <1>3 DEF Call, MallocFails, TailMoved, LinkFails, HeadMoved, ReturnEmpty,
                Crash, MoveHeadFails, Swing, HelpEnqueue, HelpDequeue, Malloc,
                FreeHead, InitNode, Goto
  <2> QED
    BY <2>1, KnowsNothing
<1>4. CASE Link(t)
  <2>1. /\ UNCHANGED <<tail, loc>> /\ pc[t] = "e_link" /\ pc'[t] = "e_swing"
        /\ next'[loc[t].tail.ptr].ptr = loc[t].n /\ Copied(loc[t].tail, tail)
    BY <1>0, <1>4, LinkEffect
  <2>2. loc[t].n \in Addrs
    BY <1>0, <2>1, FilledIsLive DEF FilledPCs, NewPCs, Live
  <2> QED
    BY <2>1, <2>2 DEF EnqInv, DeqInv, DeqPCs
<1>5. CASE MoveHead(t)
  <2>1. UNCHANGED loc /\ pc'[t] = "d_free" /\ loc[t].val \in Values
    BY <1>5, MoveHeadEffect
  <2> QED
    BY <2>1 DEF EnqInv, DeqInv, DeqPCs
<1> QED
  BY <1>1, <1>2, <1>3, <1>4, <1>5 DEF Step

\* A step keeps everything that does not depend on where nodes are linked.
LEMMA StepSound ==
    ASSUME BaseInv, QueueTypeOK', SoundInv, NEW t \in Threads, Call(t) \/ Step(t)
    PROVE  SoundInv'
<1> USE DEF BaseInv
<1>0. /\ OwnInv /\ LinkInv /\ EnqInv(t) /\ DeqInv(t) /\ head.ptr \in Live
      /\ tail.ptr \in Live
  BY EndsAreLive DEF SoundInv
<1>1. Evolves
  BY StepEvolves
<1>2. PICK k \in Nat \ {0} : \E p \in [1 .. k -> Addrs] : WayInv(p, k)
  BY DEF SoundInv
<1>3. PICK p \in [1 .. k -> Addrs] : WayInv(p, k)
  BY <1>2
<1>4. \A u \in Threads : EnqInv(u)' /\ DeqInv(u)'
  <2> TAKE u \in Threads
  <2>1. CASE u = t
    BY <2>1, StepKnows
  <2>2. CASE u # t
    <3>1. pc'[u] = pc[u] /\ loc'[u] = loc[u]
      BY <2>2, StepsAreLocal DEF Only
    <3>2. EnqInv(u) /\ DeqInv(u)
      BY DEF SoundInv
    <3> QED
      BY <1>0, <1>1, <3>1, <3>2, EnqStays, DeqStays
  <2> QED
    BY <2>1, <2>2
<1>5. /\ OwnInv' /\ LinkInv'
      /\ \E k2 \in Nat \ {0} : \E p2 \in [1 .. k2 -> Addrs] : WayInv(p2, k2)'
  <2>1. CASE QuietStep(t) \/ SwingStep(t)
    <3>1. /\ UNCHANGED <<head, value, next, allocated>> /\ Only(t) /\ ~Raw(t) /\ ~Raw(t)'
          /\ Owns(t)' => Owns(t) /\ Mine(t)' = Mine(t)
          /\ pc'[t] \in FilledPCs => /\ pc[t] \in FilledPCs /\ loc'[t].n = loc[t].n
                                     /\ ip'[t] = ip[t]
          /\ QuietStep(t) => tail' = tail
      BY <2>1, QuietEffect
    <3>2. Live' = Live
      BY <3>1, LiveSame
    <3>3. OwnInv'
      <4>1. \A u \in Threads \ {t} : Owns(u) => Mine(u) \in allocated'
        BY <1>0, <3>1 DEF OwnInv
      <4>2. Owns(t)' => /\ Mine(t)' \in allocated'
                        /\ \A u \in Threads \ {t} : Owns(u) => Mine(u) # Mine(t)'
        BY <1>0, <3>1 DEF OwnInv
      <4> QED
        BY <1>0, <3>1, <4>1, <4>2, OwnersNext
    <3>4. LinkInv'
      BY <1>0, <3>1, <3>2, LinkSame
    <3>5. CASE tail' = tail
      <4>1. WayInv(p, k)'
        BY <1>1, <1>3, <3>1, <3>2, <3>5, WaySame
      <4> QED
        BY <3>3, <3>4, <4>1
    <3>6. CASE tail' # tail
      <4>1. tail'.ptr = next[tail.ptr].ptr /\ tail'.ptr # NULL
        BY <1>0, <2>1, <3>1, <3>6, SwingTo
      <4>2. \E k2 \in Nat \ {0} : \E p2 \in [1 .. k2 -> Addrs] : WayInv(p2, k2)'
        BY <1>0, <1>3, <3>1, <3>2, <4>1, WayAfterSwing
      <4> QED
        BY <3>3, <3>4, <4>2
    <3> QED
      BY <3>5, <3>6
  <2>2. CASE RawStep(t)
    <3>1. /\ Only(t) /\ UNCHANGED <<head, tail, next>> /\ Live' = Live
          /\ OwnInv' /\ \A a \in Live : value'[a] = value[a]
          /\ pc'[t] \notin FilledPCs
      BY <1>0, <2>2, RawEffect
    <3>2. LinkInv'
      BY <1>0, <3>1, LinkSame
    <3>3. WayInv(p, k)'
      BY <1>1, <1>3, <3>1, WaySame
    <3> QED
      BY <3>1, <3>2, <3>3
  <2>3. CASE InitNode(t)
    <3>1. UNCHANGED <<head, tail>> /\ Live \subseteq Live' /\ OwnInv'
      BY <1>0, <2>3, InitEffect
    <3>2. LinkInv'
      BY <1>0, <2>3, LinkAfterInit
    <3>3. WayInv(p, k)'
      BY <1>1, <1>3, <3>1, WaySame
    <3> QED
      BY <3>1, <3>2, <3>3
  <2>4. CASE Link(t)
    <3>1. UNCHANGED <<head, tail>> /\ Live \subseteq Live' /\ OwnInv'
      BY <1>0, <2>4, LinkEffect
    <3>2. LinkInv'
      BY <1>0, <2>4, LinkAfterLink
    <3>3. WayInv(p, k)'
      BY <1>1, <1>3, <3>1, WaySame
    <3> QED
      BY <3>1, <3>2, <3>3
  <2>5. CASE MoveHead(t)
    <3>1. /\ UNCHANGED <<tail, next>> /\ Live' = Live \ {head.ptr} /\ OwnInv'
          /\ head'.ptr = next[head.ptr].ptr /\ tail.ptr # head.ptr
      BY <2>5, MoveHeadEffect
    <3>2. LinkInv'
      BY <2>5, LinkAfterMoveHead
    <3>3. \E k2 \in Nat \ {0} : \E p2 \in [1 .. k2 -> Addrs] : WayInv(p2, k2)'
      BY <1>3, <3>1, WayAfterMoveHead
    <3> QED
      BY <3>1, <3>2, <3>3
  <2> QED
    BY <2>1, <2>2, <2>3, <2>4, <2>5 DEF Step, QuietStep, SwingStep, RawStep
<1> QED
  BY <1>4, <1>5 DEF SoundInv
-----------------------------------------------------------------------------
(***************************************************************************)
(* The list after a step, while no link has gone astray                    *)
(***************************************************************************)
\* The steps that leave the list as it is.
KeepStep(t) == QuietStep(t) \/ SwingStep(t) \/ RawStep(t) \/ InitNode(t)

LEMMA ListSame ==
    ASSUME NEW m \in Nat \ {0}, NEW s \in [1 .. m -> Addrs], ListInv(s, m),
           UNCHANGED <<head, next>>, Live' = Live,
           \A u \in Threads : /\ pc'[u] \in FilledPCs <=> pc[u] \in FilledPCs
                              /\ pc[u] \in FilledPCs => loc'[u].n = loc[u].n
    PROVE  ListInv(s, m)'
BY DEF ListInv, Chain

LEMMA ListAfterInit ==
    ASSUME QueueTypeOK, OwnInv, NEW m \in Nat \ {0}, NEW s \in [1 .. m -> Addrs],
           ListInv(s, m), NEW t \in Threads, InitNode(t)
    PROVE  ListInv(s, m)'
<1>1. PICK a : a = loc[t].n
  OBVIOUS
<1>2. /\ Only(t) /\ UNCHANGED <<head, loc>>
      /\ pc[t] = "init" /\ pc'[t] = "e_tail"
      /\ a \in Addrs \ Live /\ Live' = Live \cup {a}
      /\ next' = [next EXCEPT ![a] = Nil]
  BY <1>1, InitEffect
<1>3. next'[a].ptr = NULL /\ \A b \in Live : next'[b] = next[b]
  BY <1>2 DEF QueueTypeOK, Live, Nil, Tagged
<1>4. \A i \in 1 .. m : s[i] \in Live
  BY DEF ListInv
<1>5. Chain(head', next', s, m)
  BY <1>2, <1>3, <1>4 DEF ListInv, Chain
<1>6. pc'[t] \in FilledPCs /\ pc[t] \notin FilledPCs
  BY <1>2 DEF FilledPCs, NewPCs
<1>7. \A u \in Threads \ {t} : pc'[u] = pc[u]
  BY <1>2 DEF Only
<1>8. ASSUME NEW u \in Threads, pc'[u] \in FilledPCs
      PROVE  next'[loc'[u].n].ptr = NULL /\ \A i \in 1 .. m : s[i] # loc'[u].n
  <2>1. CASE u = t
    BY <1>1, <1>2, <1>3, <1>4, <2>1
  <2>2. CASE u # t
    <3>1. pc[u] \in FilledPCs
      BY <1>7, <1>8, <2>2
    <3>2. loc[u].n \in Live
      BY <3>1, FilledIsLive
    <3> QED
      BY <1>2, <1>3, <3>1, <3>2 DEF ListInv
  <2> QED
    BY <2>1, <2>2
<1>9. ASSUME NEW b \in Live'
      PROVE  \/ \E i \in 1 .. m : b = s[i]
             \/ \E u \in Threads : pc'[u] \in FilledPCs /\ b = loc'[u].n
  <2>1. CASE b = a
    BY <1>1, <1>2, <1>6, <2>1
  <2>2. CASE b # a
    <3>1. b \in Live
      BY <1>2, <2>2
    <3>2. \A u \in Threads : pc[u] \in FilledPCs => pc'[u] \in FilledPCs
      BY <1>6, <1>7
    <3> QED
      BY <1>2, <3>1, <3>2 DEF ListInv
  <2> QED
    BY <2>1, <2>2
<1> QED
  BY <1>2, <1>4, <1>5, <1>8, <1>9 DEF ListInv

LEMMA KeepList ==
    ASSUME QueueTypeOK, OwnInv, NEW m \in Nat \ {0}, NEW s \in [1 .. m -> Addrs],
           ListInv(s, m), NEW t \in Threads, KeepStep(t)
    PROVE  ListInv(s, m)' /\ \A i \in 1 .. m : value'[s[i]] = value[s[i]]
<1>1. CASE QuietStep(t) \/ SwingStep(t)
  <2>1. /\ Only(t) /\ UNCHANGED <<head, value, next, allocated>> /\ ~Raw(t) /\ ~Raw(t)'
        /\ pc'[t] \in FilledPCs => pc[t] \in FilledPCs /\ loc'[t].n = loc[t].n
        /\ pc[t] \in FilledPCs => pc'[t] \in FilledPCs
    BY <1>1, QuietEffect
  <2>2. Live' = Live
    BY <2>1, LiveSame
  <2>3. \A u \in Threads : /\ pc'[u] \in FilledPCs <=> pc[u] \in FilledPCs
                           /\ pc[u] \in FilledPCs => loc'[u].n = loc[u].n
    BY <2>1 DEF Only
  <2> QED
    BY <2>1, <2>2, <2>3, ListSame
<1>2. CASE RawStep(t)
  <2>1. /\ Only(t) /\ UNCHANGED <<head, next>> /\ Live' = Live
        /\ \A a \in Live : value'[a] = value[a]
        /\ pc'[t] \notin FilledPCs /\ pc[t] \notin FilledPCs
    BY <1>2, RawEffect
  <2>2. \A u \in Threads : /\ pc'[u] \in FilledPCs <=> pc[u] \in FilledPCs
                           /\ pc[u] \in FilledPCs => loc'[u].n = loc[u].n
    BY <2>1 DEF Only
  <2>3. \A i \in 1 .. m : s[i] \in Live
    BY DEF ListInv
  <2> QED
    BY <2>1, <2>2, <2>3, ListSame
<1>3. CASE InitNode(t)
  <2>1. /\ loc[t].n \notin Live /\ value' = [value EXCEPT ![loc[t].n] = <<t, ip[t]>>]
    BY <1>3, InitEffect
  <2>2. \A i \in 1 .. m : s[i] \in Live
    BY DEF ListInv
  <2>3. \A i \in 1 .. m : value'[s[i]] = value[s[i]]
    BY <2>1, <2>2 DEF QueueTypeOK, Live
  <2> QED
    BY <1>3, <2>3, ListAfterInit
<1> QED
  BY <1>1, <1>2, <1>3 DEF KeepStep

\* A link that does not go astray makes the thread's node the last one.
LEMMA LinkList ==
    ASSUME QueueTypeOK, OwnInv, NEW m \in Nat \ {0}, NEW s \in [1 .. m -> Addrs],
           ListInv(s, m), NEW t \in Threads, EnqInv(t), Link(t), ~GoesAstray(t),
           NEW k \in Nat \ {0}, k = m + 1, NEW s2 \in [1 .. k -> Addrs],
           s2 = [i \in 1 .. k |-> IF i = k THEN loc[t].n ELSE s[i]]
    PROVE  ListInv(s2, k)'
<1> USE MemoryAssumption
<1>1. PICK last : last = loc[t].tail.ptr
  OBVIOUS
<1>2. PICK n : n = loc[t].n
  OBVIOUS
<1>3. /\ Only(t) /\ UNCHANGED <<head, loc>>
      /\ pc[t] = "e_link" /\ pc'[t] = "e_swing" /\ Live' = Live
      /\ last \in Live /\ last \in Addrs /\ next[last].ptr = NULL
      /\ next'[last].ptr = n
      /\ \A a \in Addrs \ {last} : next'[a] = next[a]
  BY <1>1, <1>2, LinkEffect
<1>4. pc[t] \in FilledPCs /\ pc'[t] \notin FilledPCs
  BY <1>3 DEF FilledPCs, NewPCs
<1>5. /\ n \in Live /\ next[n].ptr = NULL /\ \A i \in 1 .. m : s[i] # n
      /\ \A i \in 1 .. m : s[i] \in Live
  BY <1>2, <1>4, FilledIsLive DEF ListInv
<1>6. /\ Distinct(s, m) /\ head.ptr = s[1]
      /\ \A i \in 1 .. m : next[s[i]].ptr = IF i = m THEN NULL ELSE s[i + 1]
  BY DEF ListInv, Chain
<1>7. last = s[m]
  <2>1. InQueue(last)
    BY <1>1, <1>3 DEF GoesAstray
  <2>2. Nodes = s
    <3>1. Chain(head, next, s, m)
      BY DEF ListInv
    <3> QED
      BY <3>1, NodesAre, ChainNodes DEF QueueTypeOK
  <2>3. PICK i \in 1 .. m : last = s[i]
    BY <2>1, <2>2 DEF InQueue
  <2>4. i # m => i + 1 \in 1 .. m /\ s[i + 1] \in Addrs
    OBVIOUS
  <2> QED
    BY <1>3, <1>6, <2>3, <2>4
<1>8. n # last
  BY <1>5, <1>7
<1>9. /\ s2[k] = n /\ k \in 1 .. k /\ 1 \in 1 .. k /\ 1 # k
      /\ \A i \in 1 .. k : i = k \/ (i \in 1 .. m /\ s2[i] = s[i])
      /\ \A i \in 1 .. m : i \in 1 .. k /\ s2[i] = s[i]
  BY <1>2
<1>10. Chain(head', next', s2, k)
  <2>1. Distinct(s2, k)
    BY <1>5, <1>6, <1>9 DEF Distinct
  <2>2. head'.ptr = s2[1]
    BY <1>3, <1>6, <1>9
  <2>3. ASSUME NEW i \in 1 .. k
        PROVE  next'[s2[i]].ptr = IF i = k THEN NULL ELSE s2[i + 1]
    <3>1. CASE i = k
      BY <1>3, <1>5, <1>8, <1>9, <3>1 DEF Live, QueueTypeOK
    <3>2. CASE i = m
      <4>1. i + 1 = k /\ i # k /\ s2[i] = last
        BY <1>7, <1>9, <3>2
      <4> QED
        BY <1>3, <1>9, <4>1
    <3>3. CASE i # k /\ i # m
      <4>1. i \in 1 .. m /\ i + 1 \in 1 .. m /\ m \in 1 .. m
        BY <3>3
      <4>2. s2[i] = s[i] /\ s2[i + 1] = s[i + 1]
        BY <1>9, <4>1
      <4>3. s[i] # last /\ s[i] \in Addrs
        BY <1>6, <1>7, <3>3, <4>1 DEF Distinct
      <4> QED
        BY <1>3, <1>6, <3>3, <4>1, <4>2, <4>3
    <3> QED
      BY <3>1, <3>2, <3>3
  <2> QED
    BY <2>1, <2>2, <2>3 DEF Chain
<1>11. \A i \in 1 .. k : s2[i] \in Live'
  BY <1>3, <1>5, <1>9
<1>12. ASSUME NEW u \in Threads, pc'[u] \in FilledPCs
       PROVE  next'[loc'[u].n].ptr = NULL /\ \A i \in 1 .. k : s2[i] # loc'[u].n
  <2>1. u # t /\ pc[u] \in FilledPCs
    BY <1>3, <1>4, <1>12 DEF Only
  <2>2. /\ loc[u].n \in Live /\ next[loc[u].n].ptr = NULL
        /\ \A i \in 1 .. m : s[i] # loc[u].n
    BY <2>1, FilledIsLive DEF ListInv
  <2>3. loc[u].n # n
    BY <1>2, <1>4, <2>1 DEF OwnInv, Owns, Mine, FilledPCs, NewPCs
  <2>4. loc[u].n # last /\ loc[u].n \in Addrs
    BY <1>7, <2>2 DEF Live, QueueTypeOK
  <2> QED
    BY <1>3, <1>9, <2>2, <2>3, <2>4
<1>13. ASSUME NEW a \in Live'
       PROVE  \/ \E i \in 1 .. k : a = s2[i]
              \/ \E u \in Threads : pc'[u] \in FilledPCs /\ a = loc'[u].n
  <2>1. CASE a = n
    BY <1>9, <2>1
  <2>2. CASE \E i \in 1 .. m : a = s[i]
    BY <1>9, <2>2
  <2>3. CASE a # n /\ \E u \in Threads : pc[u] \in FilledPCs /\ a = loc[u].n
    <3>1. PICK u \in Threads : pc[u] \in FilledPCs /\ a = loc[u].n
      BY <2>3
    <3>2. u # t
      BY <1>2, <2>3, <3>1
    <3> QED
      BY <1>3, <3>1, <3>2 DEF Only
  <2> QED
    BY <1>3, <2>1, <2>2, <2>3 DEF ListInv
<1> QED
  BY <1>10, <1>11, <1>12, <1>13 DEF ListInv

LEMMA MoveHeadList ==
    ASSUME QueueTypeOK, SoundInv, NEW m \in Nat \ {0}, NEW s \in [1 .. m -> Addrs],
           ListInv(s, m), NEW t \in Threads, MoveHead(t)
    PROVE  /\ m # 1 /\ head'.ptr = s[2]
           /\ \A k \in Nat \ {0} : \A s2 \in [1 .. k -> Addrs] :
                 k = m - 1 /\ s2 = [i \in 1 .. k |-> s[i + 1]] => ListInv(s2, k)'
<1> USE MemoryAssumption
<1>1. /\ Only(t) /\ UNCHANGED <<next, loc>>
      /\ pc[t] = "d_head_cas" /\ pc'[t] = "d_free"
      /\ Live' = Live \ {head.ptr}
      /\ head'.ptr = next[head.ptr].ptr /\ head'.ptr \in Live
  BY MoveHeadEffect
<1>2. /\ Distinct(s, m) /\ head.ptr = s[1] /\ 1 \in 1 .. m
      /\ \A i \in 1 .. m : next[s[i]].ptr = IF i = m THEN NULL ELSE s[i + 1]
  BY DEF ListInv, Chain
<1>3. m # 1 /\ head'.ptr = s[2]
  BY <1>1, <1>2 DEF Live, QueueTypeOK
<1>4. ASSUME NEW k \in Nat \ {0}, NEW s2 \in [1 .. k -> Addrs],
             k = m - 1, s2 = [i \in 1 .. k |-> s[i + 1]]
      PROVE  ListInv(s2, k)'
  <2>1. \A i \in 1 .. k : i + 1 \in 1 .. m /\ i + 1 # 1 /\ s2[i] = s[i + 1]
    BY <1>4
  <2>2. Chain(head', next', s2, k)
    <3>1. Distinct(s2, k)
      BY <1>2, <2>1 DEF Distinct
    <3>2. head'.ptr = s2[1]
      BY <1>3, <2>1
    <3>3. ASSUME NEW i \in 1 .. k
          PROVE  next'[s2[i]].ptr = IF i = k THEN NULL ELSE s2[i + 1]
      <4>1. next'[s2[i]].ptr = IF i + 1 = m THEN NULL ELSE s[i + 1 + 1]
        BY <1>1, <1>2, <2>1
      <4>2. i # k => i + 1 \in 1 .. k /\ i + 1 # m
        BY <1>4
      <4> QED
        BY <1>4, <2>1, <4>1, <4>2
    <3> QED
      BY <3>1, <3>2, <3>3 DEF Chain
  <2>3. \A i \in 1 .. k : s2[i] \in Live'
    <3> TAKE i \in 1 .. k
    <3>1. s[i + 1] # s[1]
      BY <1>2, <2>1 DEF Distinct
    <3> QED
      BY <1>1, <1>2, <2>1, <3>1 DEF ListInv
  <2>4. ASSUME NEW u \in Threads, pc'[u] \in FilledPCs
        PROVE  next'[loc'[u].n].ptr = NULL /\ \A i \in 1 .. k : s2[i] # loc'[u].n
    <3>1. pc[u] \in FilledPCs
      BY <1>1, <2>4 DEF Only, FilledPCs, NewPCs
    <3> QED
      BY <1>1, <2>1, <3>1 DEF ListInv
  <2>5. ASSUME NEW a \in Live'
        PROVE  \/ \E i \in 1 .. k : a = s2[i]
               \/ \E u \in Threads : pc'[u] \in FilledPCs /\ a = loc'[u].n
    <3>1. a \in Live /\ a # s[1]
      BY <1>1, <1>2
    <3>2. CASE \E i \in 1 .. m : a = s[i]
      <4>1. PICK i \in 1 .. m : a = s[i]
        BY <3>2
      <4>2. i - 1 \in 1 .. k /\ (i - 1) + 1 = i
        BY <1>4, <3>1, <4>1
      <4> QED
        BY <2>1, <4>1, <4>2
    <3>3. CASE \E u \in Threads : pc[u] \in FilledPCs /\ a = loc[u].n
      <4>1. PICK u \in Threads : pc[u] \in FilledPCs /\ a = loc[u].n
        BY <3>3
      <4>2. u # t
        BY <1>1, <4>1 DEF FilledPCs, NewPCs
      <4> QED
        BY <1>1, <4>1, <4>2 DEF Only
    <3> QED
      BY <3>1, <3>2, <3>3 DEF ListInv
  <2> QED
    BY <2>2, <2>3, <2>4, <2>5 DEF ListInv
<1> QED
  BY <1>3, <1>4

\* A step keeps the memory whole, unless its link goes astray.
LEMMA StepWhole ==
    ASSUME BaseInv, SoundInv, ~destroyed, UNCHANGED destroyed, WholeInv,
           NEW t \in Threads, Call(t) \/ Step(t), ~GoesAstray(t)
    PROVE  WholeInv'
<1> USE DEF BaseInv
<1>0. OwnInv /\ EnqInv(t)
  BY DEF SoundInv
<1>1. PICK m \in Nat \ {0} : \E s \in [1 .. m -> Addrs] : ListInv(s, m)
  BY DEF WholeInv
<1>2. PICK s \in [1 .. m -> Addrs] : ListInv(s, m)
  BY <1>1
<1>3. SUFFICES \E k \in Nat \ {0} : \E s2 \in [1 .. k -> Addrs] : ListInv(s2, k)'
  BY DEF WholeInv
<1>4. CASE KeepStep(t)
  BY <1>0, <1>2, <1>4, KeepList
<1>5. CASE Link(t)
  <2>1. loc[t].n \in Addrs
    <3>1. pc[t] \in FilledPCs
      BY <1>5 DEF Link, Goto, FilledPCs, NewPCs
    <3> QED
      BY <1>0, <3>1, FilledIsLive DEF Live, QueueTypeOK
  <2>2. PICK k \in Nat \ {0} : k = m + 1
    OBVIOUS
  <2>3. PICK s2 \in [1 .. k -> Addrs] : s2 = [i \in 1 .. k |-> IF i = k THEN loc[t].n ELSE s[i]]
    <3>1. [i \in 1 .. k |-> IF i = k THEN loc[t].n ELSE s[i]] \in [1 .. k -> Addrs]
      BY <2>1, <2>2
    <3> QED
      BY <3>1
  <2>4. ListInv(s2, k)'
    BY <1>0, <1>2, <1>5, <2>2, <2>3, LinkList
  <2> QED
    BY <2>4
<1>6. CASE MoveHead(t)
  <2>1. m # 1
    BY <1>2, <1>6, MoveHeadList
  <2>2. PICK k \in Nat \ {0} : k = m - 1
    BY <2>1
  <2>3. PICK s2 \in [1 .. k -> Addrs] : s2 = [i \in 1 .. k |-> s[i + 1]]
    <3>1. [i \in 1 .. k |-> s[i + 1]] \in [1 .. k -> Addrs]
      BY <2>2
    <3> QED
      BY <3>1
  <2>4. ListInv(s2, k)'
    BY <1>2, <1>6, <2>2, <2>3, MoveHeadList
  <2> QED
    BY <2>4
<1> QED
  BY <1>4, <1>5, <1>6 DEF Step, KeepStep, QuietStep, SwingStep, RawStep
-----------------------------------------------------------------------------
(***************************************************************************)
(* The invariant                                                           *)
(***************************************************************************)
\* What a dequeue remembers.  The only way to a null link of a head that is
\* still there is to read it from that head: the queue is empty then.
LEMMA StepSeen ==
    ASSUME QueueTypeOK, QueueTypeOK', SoundInv, SeenInv, NEW t \in Threads,
           Call(t) \/ Step(t), Evolves, Remember
    PROVE  SeenInv'
<1> USE DEF QueueTypeOK
<1>1. \A u \in Threads :
         /\ seenEmpty'[u] => Dequeuing(u)'
         /\ Dequeuing(u)' /\ Contents' = << >> => seenEmpty'[u]
  BY DEF Remember
<1>2. ASSUME NEW u \in Threads, pc'[u] = "d_check", loc'[u].next.ptr = NULL,
             head' = loc'[u].head
      PROVE  seenEmpty'[u]
  <2>0. Dequeuing(u)'
    BY <1>2 DEF Dequeuing
  <2>1. CASE u = t /\ pc[t] # "d_check"
    <3>1. DeqLoadNext(t)
      BY <1>2, <2>1 DEF Call, Step, Malloc, MallocFails, InitNode, LoadTail,
         LoadNext, TailMoved, TailSame, Link, LinkFails, Swing, HelpEnqueue,
         DeqLoadHead, DeqLoadTail, HeadMoved, HeadSame, ReturnEmpty,
         HelpDequeue, ReadValue, Crash, MoveHead, MoveHeadFails, FreeHead, Goto
    <3>2. /\ loc'[t].head = loc[t].head /\ UNCHANGED <<head, next, value>>
          /\ loc'[t].next = next[loc[t].head.ptr]
      BY <3>1 DEF DeqLoadNext, Set, shared, memory, Locals
    <3>3. head.ptr \in Addrs
      BY EndsAreLive DEF Live
    <3>4. next'[head'.ptr].ptr = NULL
      BY <1>2, <2>1, <3>2
    <3>5. ContentsFrom(head', next', value') = << >>
      BY <3>2, <3>3, <3>4, NullIsEmpty
    <3> QED
      BY <1>1, <2>0, <3>5, NodesAre
  <2>2. CASE pc[u] = "d_check" /\ loc'[u] = loc[u]
    <3>1. Copied(loc[u].head, head)
      BY <2>2 DEF SoundInv, DeqInv, DeqPCs
    <3>2. loc[u].head \in Pointers
      BY DEF Locals
    <3>3. head = loc[u].head
      BY <1>2, <2>2, <3>1, <3>2, CopyStays DEF Evolves
    <3>4. seenEmpty[u]
      BY <1>2, <2>2, <3>3 DEF SeenInv
    <3> QED
      BY <2>0, <3>4 DEF Remember
  <2>3. u = t => pc[t] # "d_check"
    BY <1>2 DEF Call, Step, Malloc, MallocFails, InitNode, LoadTail,
         LoadNext, TailMoved, TailSame, Link, LinkFails, Swing, HelpEnqueue,
         DeqLoadHead, DeqLoadTail, DeqLoadNext, HeadMoved, HeadSame, ReturnEmpty,
         HelpDequeue, ReadValue, Crash, MoveHead, MoveHeadFails, FreeHead, Goto
  <2>4. u # t => pc'[u] = pc[u] /\ loc'[u] = loc[u]
    BY StepsAreLocal DEF Only
  <2> QED
    BY <1>2, <2>1, <2>2, <2>3, <2>4
<1> QED
  BY <1>1, <1>2 DEF SeenInv

\* Nothing is in the queue when its dummy links to nothing, nor when there is
\* no queue at all.
LEMMA InitiallyEmpty ==
    ASSUME Init
    PROVE  Contents = << >>
<1> USE MemoryAssumption DEF Init
<1>1. CASE Created
  <2>1. PICK dummy \in Addrs : head = Tagged(dummy, 0)
    BY <1>1 DEF Created
  <2>2. /\ head \in Pointers /\ head.ptr \in Addrs
        /\ next \in [Addrs -> Pointers] /\ next[head.ptr].ptr = NULL
        /\ value \in [Addrs -> {NoValue}]
    BY <2>1 DEF Pointers, Tagged, Nil
  <2>3. ContentsFrom(head, next, value) = << >>
    BY <2>2, NullIsEmpty
  <2> QED
    BY <2>3, NodesAre
<1>2. CASE NotCreated
  <2>1. PICK link : link = [a \in Addrs |-> next[a].ptr]
    OBVIOUS
  <2>2. PICK s \in [1 .. 0 -> Addrs] : TRUE
    <3>1. [i \in 1 .. 0 |-> NULL] \in [1 .. 0 -> Addrs]
      OBVIOUS
    <3> QED
      BY <3>1
  <2>3. Cardinality(Addrs) \in Nat
    BY FS_CardinalityType
  <2>4. PICK first : first = head.ptr
    OBVIOUS
  <2>5. IsList(s, 0, first, link, NULL)
    BY <1>2, <2>4 DEF IsList, NotCreated, Nil, Tagged
  <2>6. ListFrom(first, link, NULL, Cardinality(Addrs)) = s
    <3>1. DOMAIN link = Addrs /\ NULL \notin Addrs
      BY <2>1
    <3>2. 0 \in 0 .. Cardinality(Addrs)
      BY <2>3
    <3> QED
      BY <2>3, <2>5, <3>1, <3>2, ListFromIs
  <2>7. Nodes = s
    BY <2>1, <2>4, <2>6 DEF Nodes
  <2>8. Len(s) = 0
    BY SeqByElements
  <2>9. Contents \in [1 .. Len(s) - 1 -> {}]
    BY <2>7, <2>8 DEF Contents
  <2>10. PICK c : c = Contents
    OBVIOUS
  <2>11. c \in [1 .. 0 -> {}]
    <3>1. 1 .. Len(s) - 1 = 1 .. 0
      BY <2>8
    <3> QED
      BY <2>9, <2>10, <3>1
  <2> QED
    BY <2>10, <2>11, SeqIsEmpty
<1> QED
  BY <1>1, <1>2

\* msq_create leaves the dummy only, or nothing.
THEOREM QueueInitInv == Init => QueueInv
<1> SUFFICES ASSUME Init PROVE QueueInv
  OBVIOUS
<1> USE MemoryAssumption, BoundAssumption DEF Init
<1>1. Nil \in Pointers /\ NoLocals \in Locals
  BY DEF Pointers, Locals, NoLocals, Nil, Tagged
<1>2. ControlInv
  <2>1. \A t \in Threads : Len(Program[t]) \in Nat
    BY ProgramAssumption
  <2> QED
    BY <2>1 DEF ControlInv, EnqPCs, NewPCs
<1>3. SeenInv
  BY DEF SeenInv, Dequeuing
<1>4. CASE NotCreated
  <2>1. QueueTypeOK
    BY <1>1, <1>4 DEF QueueTypeOK, PCs, NotCreated
  <2> QED
    BY <1>2, <1>3, <1>4, <2>1 DEF QueueInv, BaseInv, NotCreated, WholeInv
<1>5. CASE Created
  <2>1. PICK dummy \in Addrs : /\ head = Tagged(dummy, 0) /\ tail = Tagged(dummy, 0)
                               /\ allocated = {dummy} /\ ~destroyed
    BY <1>5 DEF Created
  <2>2. /\ head \in Pointers /\ tail \in Pointers
        /\ head.ptr = dummy /\ tail.ptr = dummy /\ next[dummy].ptr = NULL
    BY <2>1 DEF Pointers, Tagged, Nil
  <2>3. QueueTypeOK
    BY <1>1, <1>5, <2>1, <2>2 DEF QueueTypeOK, PCs, Created
  <2>4. \A t \in Threads : pc[t] = "idle"
    OBVIOUS
  <2>5. Live = {dummy}
    BY <2>1, <2>4 DEF Live, Raw
  <2>6. PICK one \in Nat \ {0} : one = 1
    OBVIOUS
  <2>7. PICK s \in [1 .. one -> Addrs] : s = [i \in 1 .. one |-> dummy]
    OBVIOUS
  <2>8. Distinct(s, one) /\ s[1] = dummy /\ s[one] = dummy
        /\ \A i \in 1 .. one : i = one /\ s[i] = dummy
    BY <2>6, <2>7 DEF Distinct
  <2>9. SoundInv
    <3>1. OwnInv
      BY <2>4 DEF OwnInv, Owns, NewPCs
    <3>2. LinkInv
      BY <2>2, <2>4, <2>5 DEF LinkInv, FilledPCs, NewPCs
    <3>3. WayInv(s, one)
      BY <2>2, <2>5, <2>6, <2>8 DEF WayInv
    <3>4. \A t \in Threads : EnqInv(t) /\ DeqInv(t)
      BY <2>4 DEF EnqInv, DeqInv, DeqPCs
    <3> QED
      BY <3>1, <3>2, <3>3, <3>4 DEF SoundInv
  <2>10. ListInv(s, one)
    <3>1. Chain(head, next, s, one)
      BY <2>2, <2>8 DEF Chain
    <3> QED
      BY <2>4, <2>5, <2>6, <2>8, <3>1 DEF ListInv, FilledPCs, NewPCs
  <2> QED
    BY <1>2, <1>3, <2>1, <2>3, <2>9, <2>10 DEF QueueInv, BaseInv, WholeInv
<1> QED
  BY <1>4, <1>5

\* msq_destroy frees every node from the dummy on.
LEMMA DestroyInv ==
    ASSUME QueueInv, Destroy
    PROVE  QueueInv'
<1> USE DEF QueueInv, BaseInv
<1>1. /\ \A t \in Threads : pc[t] = "idle"
      /\ ~destroyed /\ destroyed'
      /\ allocated' = allocated \ {Nodes[i] : i \in DOMAIN Nodes}
      /\ UNCHANGED <<head, tail, retries, value, next, pc, loc, ip, spurious, astray,
                     seenEmpty>>
  BY DEF Destroy, AllFinished, Finished, shared, threads
<1>2. QueueTypeOK' /\ ControlInv'
  BY <1>1 DEF QueueTypeOK, ControlInv
<1>3. SeenInv'
  <2>1. Contents' = Contents
    BY <1>1 DEF Contents, Nodes
  <2> QED
    BY <1>1, <2>1 DEF SeenInv, Dequeuing
<1>4. ASSUME ~astray PROVE allocated' = {}
  <2>1. PICK m \in Nat \ {0} : \E s \in [1 .. m -> Addrs] : ListInv(s, m)
    BY <1>1, <1>4 DEF WholeInv
  <2>2. PICK s \in [1 .. m -> Addrs] : ListInv(s, m)
    BY <2>1
  <2>3. Nodes = s
    <3>1. Chain(head, next, s, m)
      BY <2>2 DEF ListInv
    <3>2. /\ head \in Pointers /\ next \in [Addrs -> Pointers]
          /\ value \in [Addrs -> Values \cup {NoValue}]
      BY DEF QueueTypeOK
    <3>3. NodesFrom(head, next) = s
      BY <3>1, <3>2, ChainNodes
    <3> QED
      BY <3>3, NodesAre
  <2>4. Live = allocated
    BY <1>1 DEF Live, Raw
  <2>5. \A a \in allocated : \E i \in 1 .. m : a = s[i]
    BY <1>1, <2>2, <2>4 DEF ListInv, FilledPCs, NewPCs
  <2> QED
    BY <1>1, <2>3, <2>5
<1> QED
  BY <1>1, <1>2, <1>3, <1>4 DEF WholeInv

\* Every step keeps the invariant.
THEOREM QueueNextInv == QueueInv /\ [Next]_vars => QueueInv'
<1> SUFFICES ASSUME QueueInv, [Next]_vars PROVE QueueInv'
  OBVIOUS
<1>1. ASSUME NEW t \in Threads, Call(t) \/ Step(t), Remember, UNCHANGED destroyed
      PROVE  QueueInv'
  <2>1. BaseInv /\ SeenInv
    BY DEF QueueInv
  <2>2. ~destroyed
    BY <1>1, <2>1, StepControl DEF Call
  <2>3. SoundInv
    BY <2>2 DEF QueueInv
  <2>4. /\ pc[t] = "e_next" => loc[t].tail.ptr \in Addrs
        /\ pc[t] = "d_next" => loc[t].head.ptr \in Addrs
    BY <2>3 DEF SoundInv, EnqInv, DeqInv, DeqPCs
  <2>5. BaseInv'
    <3>1. CASE Call(t)
      BY <1>1, <2>1, <3>1, CallBase
    <3>2. CASE Step(t)
      BY <1>1, <2>1, <2>4, <3>2, StepType, StepControl DEF BaseInv
    <3> QED
      BY <1>1, <3>1, <3>2
  <2>6. SoundInv'
    BY <1>1, <2>1, <2>3, <2>5, StepSound DEF BaseInv
  <2>7. SeenInv'
    <3>1. Evolves
      BY <1>1, <2>1, <2>3, StepEvolves
    <3> QED
      BY <1>1, <2>1, <2>3, <2>5, <3>1, StepSeen DEF BaseInv
  <2>8. ASSUME ~astray' PROVE WholeInv'
    <3>1. ~astray /\ ~GoesAstray(t)
      BY <2>8, <1>1 DEF Remember
    <3>2. WholeInv
      BY <3>1 DEF QueueInv
    <3> QED
      BY <1>1, <2>1, <2>2, <2>3, <3>1, <3>2, StepWhole
  <2> QED
    BY <2>5, <2>6, <2>7, <2>8 DEF QueueInv
<1>2. CASE Destroy
  BY <1>2, DestroyInv
<1>3. CASE UNCHANGED vars
  <2>1. UNCHANGED <<head, tail, retries, value, next, allocated, destroyed, pc,
                    loc, ip, spurious, astray, seenEmpty>>
    BY <1>3 DEF vars, shared, memory, threads
  <2>2. BaseInv' /\ SeenInv'
    <3>1. Contents' = Contents
      BY <2>1 DEF Contents, Nodes
    <3> QED
      BY <2>1, <3>1 DEF QueueInv, BaseInv, QueueTypeOK, ControlInv, SeenInv, Dequeuing
  <2>3. Live' = Live /\ \A t \in Threads : (Owns(t)' <=> Owns(t)) /\ Mine(t)' = Mine(t)
    BY <2>1 DEF Live, Raw, Owns, Mine
  <2>4. SoundInv => SoundInv'
    BY <2>1, <2>3 DEF SoundInv, OwnInv, LinkInv, WayInv, EnqInv, DeqInv
  <2>5. WholeInv => WholeInv'
    BY <2>1, <2>3 DEF WholeInv, ListInv, Chain
  <2> QED
    BY <2>1, <2>2, <2>4, <2>5 DEF QueueInv
<1> QED
  BY <1>1, <1>2, <1>3 DEF Next, Done

\* At every moment, whatever addresses malloc has handed out again: the tail
\* is on the way from the head along the links of live nodes, and what a
\* thread has copied holds as long as the counts do; and until a link goes
\* astray, the nodes from the head on and those the threads own are all the
\* memory there is (msqueue.c:43-181).
THEOREM QueueInvariant == Spec => []QueueInv
<1>1. Init => QueueInv
  BY QueueInitInv
<1>2. QueueInv /\ [Next]_vars => QueueInv'
  BY QueueNextInv
<1> QED
  BY <1>1, <1>2, PTL DEF Spec

-----------------------------------------------------------------------------
(***************************************************************************)
(* The properties                                                          *)
(***************************************************************************)
\* The queue's own pointers stay on nodes that are in the queue and not freed,
\* the tail not behind the head, however far apart the three loads of an
\* operation are, whatever became of the nodes meanwhile, and even if a link
\* has gone astray; a head that has really stayed where it was has a next node
\* (msqueue.c:97-138, 146-175).
THEOREM PointersAreSafe == Spec => []SafePointers
<1>1. ASSUME QueueInv PROVE SafePointers
  <2>1. QueueTypeOK
    BY <1>1 DEF QueueInv, BaseInv
  <2>2. ASSUME ~destroyed
        PROVE  /\ \A i \in DOMAIN Nodes : Nodes[i] \in allocated
               /\ InQueue(tail.ptr)
    <3>1. SoundInv
      BY <1>1, <2>2 DEF QueueInv
    <3>2. LinkInv /\ head.ptr \in Live
      BY <3>1, EndsAreLive DEF SoundInv
    <3>3. \A i \in DOMAIN Nodes : Nodes[i] \in allocated
      BY <2>1, <3>2, NodesAreLive DEF Live
    <3>4. PICK k \in Nat \ {0} : \E p \in [1 .. k -> Addrs] : WayInv(p, k)
      BY <3>1 DEF SoundInv
    <3>5. PICK p \in [1 .. k -> Addrs] : WayInv(p, k)
      BY <3>4
    <3>6. InQueue(p[k])
      BY <2>1, <3>5, WayIsInQueue
    <3>7. tail.ptr = p[k]
      BY <3>5 DEF WayInv
    <3> QED
      BY <3>3, <3>6, <3>7
  <2>3. ASSUME NEW t \in Threads, pc[t] = "d_check", ~CameBack(t),
               loc[t].head.ptr # loc[t].tail.ptr
        PROVE  loc[t].next.ptr # NULL
    <3>1. ~destroyed
      BY <1>1, <2>3 DEF QueueInv, BaseInv, ControlInv
    <3>2. DeqInv(t) /\ head = loc[t].head
      BY <1>1, <2>3, <3>1 DEF QueueInv, SoundInv, CameBack
    <3> QED
      BY <2>3, <3>2 DEF DeqInv
  <2> QED
    BY <2>2, <2>3 DEF SafePointers
<1> QED
  BY <1>1, QueueInvariant, PTL

\* The CAS that links a node never succeeds on a node that is free, that the
\* head has passed, or that is not filled yet, whatever is handed out again
\* (msqueue.c:116): it is a queue's last node, or one that another enqueue
\* has filled and not linked.
THEOREM FreedNodesAreNotLinked == Spec => []FreedNodesTakeNoLink
<1>1. ASSUME QueueInv PROVE FreedNodesTakeNoLink
  <2> SUFFICES ASSUME NEW t \in Threads, pc[t] = "e_link",
                      next[loc[t].tail.ptr] = loc[t].next
               PROVE  /\ loc[t].tail.ptr \in allocated
                      /\ \A u \in Threads :
                            /\ pc[u] = "d_free" => loc[u].head.ptr # loc[t].tail.ptr
                            /\ pc[u] = "init" => loc[u].n # loc[t].tail.ptr
    BY DEF FreedNodesTakeNoLink
  <2>1. ~destroyed
    BY <1>1 DEF QueueInv, BaseInv, ControlInv
  <2>2. EnqInv(t)
    BY <1>1, <2>1 DEF QueueInv, SoundInv
  <2>3. loc[t].tail.ptr \in Live
    BY <2>2 DEF EnqInv
  <2> QED
    BY <2>3 DEF Live, Raw, Mine
<1> QED
  BY <1>1, QueueInvariant, PTL

\* When the queue has been destroyed every node has been freed, unless a link
\* had gone astray (msqueue.c:75-88, 175).
THEOREM NothingIsLeaked == Spec => []NothingLeaked
<1>1. QueueInv => NothingLeaked
  BY DEF QueueInv, WholeInv, NothingLeaked
<1> QED
  BY <1>1, QueueInvariant, PTL

-----------------------------------------------------------------------------
(***************************************************************************)
(* Nobody retries in vain                                                  *)
(***************************************************************************)
\* A step after which nothing is done that the whole program gets on by.
Plain(t) == Step(t) /\ ~Link(t) /\ UNCHANGED <<head, tail, spurious>>

\* Where the thread is when k steps are left, and whether what it does there
\* is in vain.
LEMMA LeftIs ==
    ASSUME NEW t, NEW k \in Nat, Rank(t) = k
    PROVE  Left(t) = IF Doomed(t) THEN k + 7 ELSE k
BY DEF Left

LEMMA LeftIsNext ==
    ASSUME NEW t, NEW k \in Nat, Rank(t)' = k
    PROVE  Left(t)' = IF Doomed(t)' THEN k + 7 ELSE k
BY DEF Left

\* A CAS of the tail that changes nothing has failed: its success counts.
LEMMA TailCasFails ==
    ASSUME QueueTypeOK, NEW t \in Threads, NEW a, CasTail(t, a), tail' = tail
    PROVE  tail # loc[t].tail
<1> SUFFICES ASSUME tail = loc[t].tail PROVE FALSE
  OBVIOUS
<1>1. tail.count = loc[t].tail.count + 1
  BY DEF CasTail, Tagged
<1>2. tail.count \in Nat
  BY DEF QueueTypeOK, Pointers
<1> QED
  BY <1>1, <1>2

\* A step within an iteration takes one from what is left and changes nothing
\* that dooms it; a step back to the loop's head is one of a doomed iteration.
LEMMA EnqueueGetsOn ==
    ASSUME QueueTypeOK, NEW t \in Threads, Plain(t),
           \/ Malloc(t) \/ MallocFails(t) \/ InitNode(t)
           \/ LoadTail(t) \/ LoadNext(t) \/ TailMoved(t) \/ TailSame(t)
           \/ LinkFails(t) \/ Swing(t) \/ HelpEnqueue(t)
    PROVE  Left(t)' < Left(t)
<1> USE DEF Plain
<1>0. /\ pc \in [Threads -> PCs] /\ loc \in [Threads -> Locals] /\ spurious \in Nat
  BY DEF QueueTypeOK
<1>1. CASE Malloc(t)
  <2>1. pc[t] = "malloc" /\ pc'[t] = "init"
    BY <1>0, <1>1 DEF Malloc, Goto
  <2>2. Rank(t) = 7 /\ Rank(t)' = 6 /\ ~Doomed(t)'
    BY <2>1 DEF Rank, Doomed
  <2> QED BY <2>2, LeftIs, LeftIsNext
<1>2. CASE MallocFails(t)
  <2>1. pc[t] = "malloc" /\ pc'[t] = "idle"
    BY <1>0, <1>2 DEF MallocFails, Goto
  <2>2. Rank(t) = 7 /\ Rank(t)' = 0 /\ ~Doomed(t)'
    BY <2>1 DEF Rank, Doomed
  <2> QED BY <2>2, LeftIs, LeftIsNext
<1>3. CASE InitNode(t)
  <2>1. pc[t] = "init" /\ pc'[t] = "e_tail"
    BY <1>0, <1>3 DEF InitNode, Goto
  <2>2. Rank(t) = 6 /\ Rank(t)' = 5 /\ ~Doomed(t)'
    BY <2>1 DEF Rank, Doomed
  <2> QED BY <2>2, LeftIs, LeftIsNext
<1>4. CASE LoadTail(t)
  <2>1. pc[t] = "e_tail" /\ pc'[t] = "e_next" /\ loc'[t].tail = tail /\ tail' = tail
    BY <1>0, <1>4 DEF LoadTail, Goto, Set, Locals
  <2>2. Rank(t) = 5 /\ Rank(t)' = 4 /\ ~Doomed(t)'
    BY <2>1 DEF Rank, Doomed
  <2> QED BY <2>2, LeftIs, LeftIsNext
<1>5. CASE LoadNext(t)
  <2>1. /\ pc[t] = "e_next" /\ pc'[t] = "e_check" /\ UNCHANGED <<tail, next>>
        /\ loc'[t].tail = loc[t].tail /\ loc'[t].next = next[loc[t].tail.ptr]
    BY <1>0, <1>5 DEF LoadNext, Goto, Set, Locals, memory
  <2>2. Rank(t) = 4 /\ Rank(t)' = 3 /\ (Doomed(t)' => Doomed(t))
    BY <2>1 DEF Rank, Doomed
  <2> QED BY <2>2, LeftIs, LeftIsNext
<1>6. CASE TailMoved(t)
  <2>1. pc[t] = "e_check" /\ pc'[t] = "e_tail" /\ loc[t].tail # tail
    BY <1>0, <1>6 DEF TailMoved, Goto
  <2>2. Rank(t) = 3 /\ Rank(t)' = 5 /\ ~Doomed(t)' /\ Doomed(t)
    BY <2>1 DEF Rank, Doomed
  <2> QED BY <2>2, LeftIs, LeftIsNext
<1>7. CASE TailSame(t)
  <2>1. pc[t] = "e_check" /\ pc'[t] \in {"e_link", "e_help"} /\ UNCHANGED <<tail, next, loc>>
    BY <1>0, <1>7 DEF TailSame, Goto, memory, shared
  <2>2. Rank(t) = 3 /\ Rank(t)' = 2 /\ (Doomed(t)' => Doomed(t))
    BY <2>1 DEF Rank, Doomed
  <2> QED BY <2>2, LeftIs, LeftIsNext
<1>8. CASE LinkFails(t)
  <2>1. pc[t] = "e_link" /\ pc'[t] = "e_tail" /\ next[loc[t].tail.ptr] # loc[t].next
    BY <1>0, <1>8 DEF LinkFails, Goto
  <2>2. Rank(t) = 2 /\ Rank(t)' = 5 /\ ~Doomed(t)' /\ Doomed(t)
    BY <2>1 DEF Rank, Doomed
  <2> QED BY <2>2, LeftIs, LeftIsNext
<1>9. CASE Swing(t)
  <2>1. pc[t] = "e_swing" /\ pc'[t] = "idle"
    BY <1>0, <1>9 DEF Swing, Goto
  <2>2. Rank(t) = 1 /\ Rank(t)' = 0 /\ ~Doomed(t)'
    BY <2>1 DEF Rank, Doomed
  <2> QED BY <2>2, LeftIs, LeftIsNext
<1>10. CASE HelpEnqueue(t)
  <2>1. pc[t] = "e_help" /\ pc'[t] = "e_tail" /\ tail # loc[t].tail
    BY <1>0, <1>10, TailCasFails DEF HelpEnqueue, Goto
  <2>2. Rank(t) = 2 /\ Rank(t)' = 5 /\ ~Doomed(t)' /\ Doomed(t)
    BY <2>1 DEF Rank, Doomed
  <2> QED BY <2>2, LeftIs, LeftIsNext
<1> QED
  BY <1>1, <1>2, <1>3, <1>4, <1>5, <1>6, <1>7, <1>8, <1>9, <1>10

LEMMA DequeueGetsOn ==
    ASSUME QueueTypeOK, NEW t \in Threads, Plain(t),
           \/ DeqLoadHead(t) \/ DeqLoadTail(t) \/ DeqLoadNext(t)
           \/ HeadMoved(t) \/ HeadSame(t) \/ ReturnEmpty(t) \/ HelpDequeue(t)
           \/ ReadValue(t) \/ Crash(t) \/ MoveHead(t) \/ MoveHeadFails(t)
           \/ FreeHead(t)
    PROVE  Left(t)' < Left(t)
<1> USE DEF Plain
<1>0. /\ pc \in [Threads -> PCs] /\ loc \in [Threads -> Locals]
  BY DEF QueueTypeOK
<1>1. CASE DeqLoadHead(t)
  <2>1. pc[t] = "d_head" /\ pc'[t] = "d_tail" /\ loc'[t].head = head /\ head' = head
    BY <1>0, <1>1 DEF DeqLoadHead, Goto, Set, Locals
  <2>2. Rank(t) = 7 /\ Rank(t)' = 6 /\ ~Doomed(t)'
    BY <2>1 DEF Rank, Doomed
  <2> QED BY <2>2, LeftIs, LeftIsNext
<1>2. CASE DeqLoadTail(t)
  <2>1. /\ pc[t] = "d_tail" /\ pc'[t] = "d_next" /\ UNCHANGED <<head, tail>>
        /\ loc'[t].tail = tail /\ loc'[t].head = loc[t].head
    BY <1>0, <1>2 DEF DeqLoadTail, Goto, Set, Locals
  <2>2. Rank(t) = 6 /\ Rank(t)' = 5 /\ (Doomed(t)' => Doomed(t))
    BY <2>1 DEF Rank, Doomed
  <2> QED BY <2>2, LeftIs, LeftIsNext
<1>3. CASE DeqLoadNext(t)
  <2>1. /\ pc[t] = "d_next" /\ pc'[t] = "d_check" /\ UNCHANGED <<head, tail>>
        /\ loc'[t].tail = loc[t].tail /\ loc'[t].head = loc[t].head
    BY <1>0, <1>3 DEF DeqLoadNext, Goto, Set, Locals
  <2>2. Rank(t) = 5 /\ Rank(t)' = 4 /\ (Doomed(t)' => Doomed(t))
    BY <2>1 DEF Rank, Doomed
  <2> QED BY <2>2, LeftIs, LeftIsNext
<1>4. CASE HeadMoved(t)
  <2>1. pc[t] = "d_check" /\ pc'[t] = "d_head" /\ head # loc[t].head
    BY <1>0, <1>4 DEF HeadMoved, Goto
  <2>2. Rank(t) = 4 /\ Rank(t)' = 7 /\ ~Doomed(t)' /\ Doomed(t)
    BY <2>1 DEF Rank, Doomed
  <2> QED BY <2>2, LeftIs, LeftIsNext
<1>5. CASE HeadSame(t)
  <2>1. pc[t] = "d_check" /\ pc'[t] \in {"d_help", "d_value"} /\ UNCHANGED <<head, tail, loc>>
    BY <1>0, <1>5 DEF HeadSame, Goto
  <2>2. Rank(t) = 4 /\ Rank(t)' = 3 /\ (Doomed(t)' => Doomed(t))
    BY <2>1 DEF Rank, Doomed
  <2> QED BY <2>2, LeftIs, LeftIsNext
<1>6. CASE ReturnEmpty(t)
  <2>1. pc[t] = "d_check" /\ pc'[t] = "idle"
    BY <1>0, <1>6 DEF ReturnEmpty, Goto
  <2>2. Rank(t) = 4 /\ Rank(t)' = 0 /\ ~Doomed(t)'
    BY <2>1 DEF Rank, Doomed
  <2> QED BY <2>2, LeftIs, LeftIsNext
<1>7. CASE HelpDequeue(t)
  <2>1. pc[t] = "d_help" /\ pc'[t] = "d_head" /\ tail # loc[t].tail
    BY <1>0, <1>7, TailCasFails DEF HelpDequeue, Goto
  <2>2. Rank(t) = 3 /\ Rank(t)' = 7 /\ ~Doomed(t)' /\ Doomed(t)
    BY <2>1 DEF Rank, Doomed
  <2> QED BY <2>2, LeftIs, LeftIsNext
<1>8. CASE ReadValue(t)
  <2>1. /\ pc[t] = "d_value" /\ pc'[t] = "d_head_cas" /\ UNCHANGED head
        /\ loc'[t].head = loc[t].head
    BY <1>0, <1>8 DEF ReadValue, Goto, Set, Locals
  <2>2. Rank(t) = 3 /\ Rank(t)' = 2 /\ (Doomed(t)' => Doomed(t))
    BY <2>1 DEF Rank, Doomed
  <2> QED BY <2>2, LeftIs, LeftIsNext
<1>9. ~MoveHead(t)
  <2> SUFFICES ASSUME MoveHead(t) PROVE FALSE
    OBVIOUS
  <2>1. head.count = head.count + 1
    BY DEF MoveHead, Tagged
  <2> QED BY <2>1 DEF QueueTypeOK, Pointers
<1>10. CASE MoveHeadFails(t)
  <2>1. pc[t] = "d_head_cas" /\ pc'[t] = "d_head" /\ head # loc[t].head
    BY <1>0, <1>10 DEF MoveHeadFails, Goto
  <2>2. Rank(t) = 2 /\ Rank(t)' = 7 /\ ~Doomed(t)' /\ Doomed(t)
    BY <2>1 DEF Rank, Doomed
  <2> QED BY <2>2, LeftIs, LeftIsNext
<1>11. CASE FreeHead(t)
  <2>1. pc[t] = "d_free" /\ pc'[t] = "idle"
    BY <1>0, <1>11 DEF FreeHead, Goto
  <2>2. Rank(t) = 1 /\ Rank(t)' = 0 /\ ~Doomed(t)'
    BY <2>1 DEF Rank, Doomed
  <2> QED BY <2>2, LeftIs, LeftIsNext
<1>12. CASE Crash(t)
  <2>1. pc[t] = "d_value" /\ pc'[t] = "crashed"
    BY <1>0, <1>12 DEF Crash, Goto
  <2>2. Rank(t) = 3 /\ Rank(t)' = 0 /\ ~Doomed(t)'
    BY <2>1 DEF Rank, Doomed
  <2> QED BY <2>2, LeftIs, LeftIsNext
<1> QED
  BY <1>1, <1>2, <1>3, <1>4, <1>5, <1>6, <1>7, <1>8, <1>9, <1>10, <1>11, <1>12

\* Nobody else gets any further away.  The only link that such a step writes is
\* that of its own new node; an enqueue that has copied this address as the
\* tail's was bound to retry before.
LEMMA OthersGetOn ==
    ASSUME QueueInv, ~destroyed, NEW t \in Threads, Plain(t), NEW u \in Threads \ {t}
    PROVE  Left(u)' <= Left(u)
<1>0. BaseInv /\ SoundInv /\ QueueTypeOK
  BY DEF QueueInv, BaseInv
<1>1. pc'[u] = pc[u] /\ loc'[u] = loc[u]
  BY <1>0, StepsAreLocal DEF Plain, Only
<1>2. UNCHANGED <<head, tail>>
  BY DEF Plain
<1>3. Rank(u)' = Rank(u)
  BY <1>1 DEF Rank
<1>4. Doomed(u)' => Doomed(u)
  <2>1. CASE InitNode(t)
    <3>1. PICK a : a = loc[t].n
      OBVIOUS
    <3>2. a \in Addrs \ Live /\ next' = [next EXCEPT ![a] = Nil]
      BY <1>0, <2>1, <3>1, InitEffect DEF SoundInv
    <3>3. EnqInv(u) /\ tail.ptr \in Live
      BY <1>0, EndsAreLive DEF SoundInv
    <3>4. CASE pc[u] \in {"e_check", "e_link"} /\ loc[u].tail.ptr = a
      <4>1. next[a].ptr # NULL /\ tail # loc[u].tail
        BY <3>2, <3>3, <3>4 DEF EnqInv
      <4>2. pc[u] = "e_link" => next[a] # loc[u].next
        BY <3>3, <4>1 DEF EnqInv
      <4> QED
        BY <3>4, <4>1, <4>2 DEF Doomed
    <3>5. CASE pc[u] \in {"e_check", "e_link"} /\ loc[u].tail.ptr # a
      <4>1. loc[u].tail.ptr \in Addrs
        BY <3>3, <3>5 DEF EnqInv
      <4>2. next'[loc[u].tail.ptr] = next[loc[u].tail.ptr]
        BY <1>0, <3>2, <3>5, <4>1 DEF QueueTypeOK
      <4> QED
        BY <1>1, <1>2, <3>5, <4>2 DEF Doomed
    <3>6. CASE pc[u] \notin {"e_check", "e_link"}
      BY <1>1, <1>2, <3>6 DEF Doomed
    <3> QED
      BY <3>4, <3>5, <3>6
  <2>2. CASE ~InitNode(t)
    <3>1. UNCHANGED next
      BY <2>2 DEF Plain, Step, Malloc, MallocFails, LoadTail, LoadNext, TailMoved,
         TailSame, LinkFails, Swing, HelpEnqueue, DeqLoadHead, DeqLoadTail,
         DeqLoadNext, HeadMoved, HeadSame, ReturnEmpty, HelpDequeue, ReadValue,
         Crash, MoveHead, MoveHeadFails, FreeHead, memory
    <3> QED
      BY <1>1, <1>2, <3>1 DEF Doomed
  <2> QED BY <2>1, <2>2
<1>5. PICK k \in Nat : Rank(u) = k
  <2>1. pc[u] \in PCs
    BY <1>0 DEF QueueTypeOK
  <2> QED
    BY <2>1 DEF Rank, PCs, EnqPCs, NewPCs, DeqPCs
<1> QED
  BY <1>3, <1>4, <1>5, LeftIs, LeftIsNext

\* Lock freedom as what a step does (msqueue.h:7): each step is of use to its
\* thread or to all, however many threads there are and whatever they do.
THEOREM RetriesAreNotInVain == Spec => NobodyRetriesInVain
<1> DEFINE GetsOn ==
             \/ Advances \/ Destroy
             \/ \E t \in Threads :
                   /\ Left(t)' < Left(t)
                   /\ \A u \in Threads \ {t} : Left(u)' <= Left(u)
<1>1. QueueInv /\ [Next]_vars => [GetsOn]_vars
  <2> SUFFICES ASSUME QueueInv, Next PROVE GetsOn \/ UNCHANGED vars
    OBVIOUS
  <2>1. ASSUME NEW t \in Threads, Step(t), UNCHANGED destroyed, ~Advances
        PROVE  GetsOn
    <3>1. Plain(t)
      BY <2>1 DEF Plain, Advances
    <3>2. Left(t)' < Left(t)
      BY <3>1, EnqueueGetsOn, DequeueGetsOn DEF Plain, Step, QueueInv, BaseInv
    <3>3. ~destroyed
      BY <2>1, StepControl DEF QueueInv
    <3>4. \A u \in Threads \ {t} : Left(u)' <= Left(u)
      BY <3>1, <3>3, OthersGetOn
    <3> QED BY <3>2, <3>4
  <2>2. ASSUME NEW t \in Threads, Call(t)
        PROVE  Advances
    BY <2>2 DEF Advances
  <2> QED BY <2>1, <2>2 DEF Next, Done
<1> HIDE DEF GetsOn
<1>2. Spec => [][GetsOn]_vars
  BY <1>1, QueueInvariant, PTL DEF Spec
<1> QED
  BY <1>2 DEF NobodyRetriesInVain, GetsOn

-----------------------------------------------------------------------------
(***************************************************************************)
(* The queue implements FifoQueue                                          *)
(***************************************************************************)
Ops == [t \in Threads |-> OpOf(t)]

\* What a thread is doing is a dequeue, as the client sees it.
LEMMA DeqWhen ==
    ASSUME NEW u \in Threads
    PROVE  (OpOf(u) = Deq <=> Dequeuing(u)) /\ (OpOf(u)' = Deq <=> Dequeuing(u)')
<1>1. /\ \A v : Enq(v) # Deq /\ Dequeued(v) # Deq
      /\ Enqueued # Deq /\ Idle # Deq
  BY DEF Enq, Deq, Dequeued, Enqueued, Idle
<1> QED
  BY <1>1 DEF OpOf, Dequeuing

\* A step of one thread leaves what the others are doing as it was.
LEMMA OpsNext ==
    ASSUME QueueInv, NEW t \in Threads, Call(t) \/ Step(t)
    PROVE  Ops' = [Ops EXCEPT ![t] = OpOf(t)'] /\ Ops[t] = OpOf(t)
<1>1. Only(t)
  BY StepsAreLocal DEF QueueInv, BaseInv
<1>2. \A u \in Threads \ {t} : OpOf(u)' = OpOf(u)
  BY <1>1 DEF Only, OpOf, Dequeuing
<1> QED
  BY <1>2 DEF Ops

\* The memory of an empty queue is FifoQueue's.
LEMMA RemembersFifo ==
    ASSUME Remember
    PROVE  Fifo!Remember
<1>1. \A u \in Threads : OpOf(u)' = Deq <=> Dequeuing(u)'
  BY DeqWhen
<1>2. \A u \in Threads : ([t \in Threads |-> OpOf(t)]')[u] = OpOf(u)'
  OBVIOUS
<1>3. \A u \in Threads : (([t \in Threads |-> OpOf(t)]')[u] = Deq /\ (seenEmpty[u] \/ Contents' = << >>))
                           = (Dequeuing(u)' /\ (seenEmpty[u] \/ Contents' = << >>))
  BY <1>1, <1>2
<1> QED
  BY <1>3 DEF Remember, Fifo!Remember, Fifo!Deq, Deq

\* A step that changes neither the contents nor an operation is no step of
\* the abstract queue.
LEMMA FifoStutters ==
    ASSUME QueueInv, QueueTypeOK', Remember, Ops' = Ops, Contents' = Contents
    PROVE  UNCHANGED Fifo!vars
<1>1. \A u \in Threads : Dequeuing(u)' <=> Dequeuing(u)
  <2>1. \A u \in Threads : OpOf(u)' = OpOf(u)
    BY DEF Ops
  <2> QED
    BY <2>1, DeqWhen
<1>2. \A u \in Threads : (Dequeuing(u)' /\ (seenEmpty[u] \/ Contents' = << >>)) = seenEmpty[u]
  <2> TAKE u \in Threads
  <2>1. seenEmpty[u] \in BOOLEAN
    BY DEF QueueInv, BaseInv, QueueTypeOK
  <2>2. seenEmpty[u] => Dequeuing(u)
    BY DEF QueueInv, SeenInv
  <2>3. Dequeuing(u) /\ Contents = << >> => seenEmpty[u]
    BY DEF QueueInv, SeenInv
  <2>4. Dequeuing(u)' <=> Dequeuing(u)
    BY <1>1
  <2> QED
    BY <2>1, <2>2, <2>3, <2>4
<1>3. seenEmpty' = seenEmpty
  <2>1. seenEmpty = [u \in Threads |-> seenEmpty[u]]
    BY DEF QueueInv, BaseInv, QueueTypeOK
  <2> QED
    BY <1>2, <2>1 DEF Remember
<1> QED
  BY <1>3 DEF Fifo!vars, Ops

\* The contents, when the list is known.
LEMMA ContentsAre ==
    ASSUME QueueTypeOK, NEW m \in Nat \ {0}, NEW s \in [1 .. m -> Addrs], ListInv(s, m)
    PROVE  Contents = [i \in 1 .. m - 1 |-> value[s[i + 1]]]
<1>1. PICK V : V = Values \cup {NoValue}
  OBVIOUS
<1>2. /\ head \in Pointers /\ next \in [Addrs -> Pointers]
      /\ value \in [Addrs -> V] /\ Chain(head, next, s, m)
  BY <1>1 DEF QueueTypeOK, ListInv
<1>3. Nodes = s
  BY <1>2, ChainNodes, NodesAre
<1>4. Len(s) = m
  BY SeqByElements
<1> QED
  BY <1>3, <1>4 DEF Contents

LEMMA ContentsAreNext ==
    ASSUME QueueTypeOK', NEW m \in Nat \ {0}, NEW s \in [1 .. m -> Addrs], ListInv(s, m)'
    PROVE  Contents' = [i \in 1 .. m - 1 |-> value'[s[i + 1]]]
<1>1. PICK V : V = Values \cup {NoValue}
  OBVIOUS
<1>2. /\ head' \in Pointers /\ next' \in [Addrs -> Pointers]
      /\ value' \in [Addrs -> V] /\ Chain(head', next', s, m)
  BY <1>1 DEF QueueTypeOK, ListInv
<1>3. Nodes' = s
  BY <1>2, ChainNodes, NodesAre
<1>4. Len(s) = m
  BY SeqByElements
<1> QED
  BY <1>3, <1>4 DEF Contents

\* They change at the link and at the move of the head only, while no link
\* has gone astray.
LEMMA ContentsKept ==
    ASSUME QueueInv, QueueTypeOK', ~destroyed, ~astray, NEW t \in Threads, KeepStep(t)
    PROVE  Contents' = Contents
<1>1. QueueTypeOK /\ OwnInv /\ WholeInv
  BY DEF QueueInv, BaseInv, SoundInv
<1>2. PICK m \in Nat \ {0} : \E s \in [1 .. m -> Addrs] : ListInv(s, m)
  BY <1>1 DEF WholeInv
<1>3. PICK s \in [1 .. m -> Addrs] : ListInv(s, m)
  BY <1>2
<1>4. ListInv(s, m)' /\ \A i \in 1 .. m : value'[s[i]] = value[s[i]]
  BY <1>1, <1>3, KeepList
<1>5. /\ Contents = [i \in 1 .. m - 1 |-> value[s[i + 1]]]
      /\ Contents' = [i \in 1 .. m - 1 |-> value'[s[i + 1]]]
  BY <1>1, <1>3, <1>4, ContentsAre, ContentsAreNext
<1>6. \A i \in 1 .. m - 1 : value'[s[i + 1]] = value[s[i + 1]]
  <2>1. \A i \in 1 .. m - 1 : i + 1 \in 1 .. m
    OBVIOUS
  <2> QED
    BY <1>4, <2>1
<1> QED
  BY <1>5, <1>6

\* The link is where the enqueue happens.
LEMMA LinkEnqueues ==
    ASSUME QueueInv, QueueTypeOK', ~destroyed, ~astray, NEW t \in Threads, Link(t),
           ~GoesAstray(t)
    PROVE  <<t, ip[t]>> \in Values /\ Contents' = Append(Contents, <<t, ip[t]>>)
<1>1. /\ QueueTypeOK /\ ControlInv /\ OwnInv /\ LinkInv /\ EnqInv(t) /\ WholeInv
  BY DEF QueueInv, BaseInv, SoundInv
<1>2. PICK m \in Nat \ {0} : \E s \in [1 .. m -> Addrs] : ListInv(s, m)
  BY <1>1 DEF WholeInv
<1>3. PICK s \in [1 .. m -> Addrs] : ListInv(s, m)
  BY <1>2
<1>4. pc[t] = "e_link" /\ pc[t] \in FilledPCs /\ UNCHANGED value
  BY DEF Link, Goto, FilledPCs, NewPCs
<1>5. /\ loc[t].n \in Addrs /\ value[loc[t].n] = <<t, ip[t]>> /\ <<t, ip[t]>> \in Values
      /\ \A i \in 1 .. m - 1 : i + 1 \in 1 .. m /\ value[s[i + 1]] \in Values
  <2>1. loc[t].n \in Addrs
    BY <1>1, <1>4, FilledIsLive DEF Live, QueueTypeOK
  <2>2. value[loc[t].n] = <<t, ip[t]>> /\ <<t, ip[t]>> \in Values
    BY <1>1, <1>4 DEF LinkInv, ControlInv, EnqPCs, NewPCs
  <2>3. ASSUME NEW i \in 1 .. m - 1
        PROVE  i + 1 \in 1 .. m /\ value[s[i + 1]] \in Values
    <3>1. i + 1 \in 1 .. m /\ 1 \in 1 .. m /\ i + 1 # 1
      OBVIOUS
    <3>2. s[i + 1] \in Live /\ s[i + 1] # head.ptr
      BY <1>3, <3>1 DEF ListInv, Chain, Distinct
    <3> QED
      BY <1>1, <3>1, <3>2 DEF LinkInv
  <2> QED
    BY <2>1, <2>2, <2>3
<1>6. PICK k \in Nat \ {0} : k = m + 1
  OBVIOUS
<1>7. PICK s2 \in [1 .. k -> Addrs] : s2 = [i \in 1 .. k |-> IF i = k THEN loc[t].n ELSE s[i]]
  <2>1. [i \in 1 .. k |-> IF i = k THEN loc[t].n ELSE s[i]] \in [1 .. k -> Addrs]
    BY <1>5, <1>6
  <2> QED
    BY <2>1
<1>8. ListInv(s2, k)'
  BY <1>1, <1>3, <1>6, <1>7, LinkList
<1>9. PICK d \in Nat : d = m - 1
  OBVIOUS
<1>10. /\ Contents = [i \in 1 .. d |-> value[s[i + 1]]]
       /\ Contents \in [1 .. d -> Values]
  <2>1. Contents = [i \in 1 .. d |-> value[s[i + 1]]]
    BY <1>1, <1>3, <1>9, ContentsAre
  <2> QED
    BY <1>5, <1>9, <2>1
<1>11. Contents' = [i \in 1 .. d + 1 |-> value'[s2[i + 1]]]
  <2>1. Contents' = [i \in 1 .. k - 1 |-> value'[s2[i + 1]]]
    BY <1>8, ContentsAreNext
  <2>2. k - 1 = d + 1
    BY <1>6, <1>9
  <2> QED
    BY <2>1, <2>2
<1>12. Append(Contents, <<t, ip[t]>>)
          = [i \in 1 .. d + 1 |-> IF i = d + 1 THEN <<t, ip[t]>> ELSE Contents[i]]
  BY <1>10, AppendByElements
<1>13. \A i \in 1 .. d + 1 : value'[s2[i + 1]] = IF i = d + 1 THEN <<t, ip[t]>> ELSE Contents[i]
  <2> TAKE i \in 1 .. d + 1
  <2>1. CASE i = d + 1
    <3>1. i + 1 = k /\ k \in 1 .. k
      BY <1>6, <1>9, <2>1
    <3> QED
      BY <2>1, <3>1, <1>4, <1>5, <1>7
  <2>2. CASE i # d + 1
    <3>1. i \in 1 .. d /\ i + 1 \in 1 .. k /\ i + 1 # k
      BY <1>6, <1>9, <2>2
    <3> QED
      BY <2>2, <3>1, <1>4, <1>7, <1>10
  <2> QED
    BY <2>1, <2>2
<1> QED
  BY <1>5, <1>11, <1>12, <1>13

\* The move of the head is where the dequeue happens; the value it returns was
\* read before.
LEMMA MoveHeadDequeues ==
    ASSUME QueueInv, QueueTypeOK', ~destroyed, ~astray, NEW t \in Threads, MoveHead(t)
    PROVE  /\ Contents # << >>
           /\ loc'[t].val = Head(Contents)
           /\ Contents' = Tail(Contents)
<1>1. QueueTypeOK /\ SoundInv /\ WholeInv
  BY DEF QueueInv, BaseInv
<1>2. PICK m \in Nat \ {0} : \E s \in [1 .. m -> Addrs] : ListInv(s, m)
  BY <1>1 DEF WholeInv
<1>3. PICK s \in [1 .. m -> Addrs] : ListInv(s, m)
  BY <1>2
<1>4. m # 1 /\ head'.ptr = s[2]
  BY <1>1, <1>3, MoveHeadList
<1>5. UNCHANGED <<value, loc>> /\ loc'[t].val = value[s[2]]
  BY <1>1, <1>4, MoveHeadEffect
<1>6. PICK d \in Nat \ {0} : d = m - 1
  BY <1>4
<1>7. PICK s2 \in [1 .. d -> Addrs] : s2 = [i \in 1 .. d |-> s[i + 1]]
  <2>1. [i \in 1 .. d |-> s[i + 1]] \in [1 .. d -> Addrs]
    BY <1>6
  <2> QED
    BY <2>1
<1>8. ListInv(s2, d)'
  BY <1>1, <1>3, <1>6, <1>7, MoveHeadList
<1>9. /\ Contents = [i \in 1 .. d |-> value[s[i + 1]]]
      /\ Contents \in [1 .. d -> Values \cup {NoValue}]
  <2>1. Contents = [i \in 1 .. d |-> value[s[i + 1]]]
    BY <1>1, <1>3, <1>6, ContentsAre
  <2>2. \A i \in 1 .. d : value[s[i + 1]] \in Values \cup {NoValue}
    BY <1>1, <1>6 DEF QueueTypeOK
  <2> QED
    BY <2>1, <2>2
<1>10. Contents' = [i \in 1 .. d - 1 |-> value'[s2[i + 1]]]
  BY <1>8, ContentsAreNext
<1>11. /\ Contents # << >> /\ Head(Contents) = Contents[1]
       /\ Tail(Contents) = [i \in 1 .. d - 1 |-> Contents[i + 1]]
  BY <1>9, TailByElements, SMTT(60)
<1>12. \A i \in 1 .. d - 1 : value'[s2[i + 1]] = Contents[i + 1]
  <2> TAKE i \in 1 .. d - 1
  <2>1. i + 1 \in 1 .. d
    BY <1>6
  <2> QED
    BY <2>1, <1>5, <1>7, <1>9
<1>13. Contents[1] = value[s[2]]
  <2>1. 1 \in 1 .. d /\ 1 + 1 = 2
    BY <1>6
  <2> QED
    BY <2>1, <1>9
<1> QED
  BY <1>5, <1>10, <1>11, <1>12, <1>13

\* Operations are named alike in the two modules.
LEMMA FifoOperations ==
    /\ Fifo!Idle = Idle /\ Fifo!Enqueued = Enqueued /\ Fifo!Deq = Deq
    /\ \A v : Fifo!Enq(v) = Enq(v) /\ Fifo!Dequeued(v) = Dequeued(v)
BY DEF Fifo!Idle, Fifo!Enqueued, Fifo!Deq, Fifo!Enq, Fifo!Dequeued, Idle,
       Enqueued, Deq, Enq, Dequeued

\* What each step does to the thread's own operation.
LEMMA FifoBecomes ==
    ASSUME QueueInv, NEW t \in Threads, Call(t) \/ Step(t),
           NEW from, NEW to, OpOf(t) = from, OpOf(t)' = to
    PROVE  Fifo!Become(t, from, to)
<1>1. Ops' = [Ops EXCEPT ![t] = to] /\ Ops[t] = from
  BY OpsNext
<1> QED
  BY <1>1 DEF Fifo!Become, Ops

\* Steps within an operation.
InnerStep(t) ==
    \/ Malloc(t) \/ InitNode(t) \/ LoadTail(t) \/ LoadNext(t) \/ TailMoved(t)
    \/ TailSame(t) \/ LinkFails(t) \/ HelpEnqueue(t) \/ DeqLoadHead(t)
    \/ DeqLoadTail(t) \/ DeqLoadNext(t) \/ HeadMoved(t) \/ HeadSame(t)
    \/ HelpDequeue(t) \/ ReadValue(t) \/ Crash(t) \/ MoveHeadFails(t)

\* What Linearizable allows a step to do.
Allowed ==
    \/ Fifo!Next \/ UNCHANGED Fifo!vars
    \/ \E t \in Threads : ReturnEmpty(t) /\ CameBack(t)
    \/ astray'

\* Steps in which an operation begins, or ends without effect, or goes on.
LEMMA KeepImplements ==
    ASSUME QueueInv, QueueInv', ~destroyed, ~astray, NEW t \in Threads,
           KeepStep(t), Remember
    PROVE  Allowed
<1> USE FifoOperations DEF Allowed
<1>0. BaseInv /\ BaseInv' /\ SoundInv /\ SeenInv /\ QueueTypeOK'
  BY DEF QueueInv, BaseInv
<1>1. Contents' = Contents
  BY <1>0, ContentsKept
<1>2. Fifo!Remember
  BY RemembersFifo
<1>3. Call(t) \/ Step(t)
  BY DEF KeepStep, QuietStep, RawStep, SwingStep, Step
<1>4. loc \in [Threads -> Locals] /\ pc \in [Threads -> PCs] /\ ip \in [Threads -> Nat]
  BY <1>0 DEF BaseInv, QueueTypeOK
<1>5. CASE Call(t)
  <2>1. OpOf(t) = Idle /\ pc'[t] \in {"malloc", "d_head"}
    BY <1>4, <1>5 DEF Call, Goto, OpOf, Dequeuing
  <2>2. CASE pc'[t] = "malloc"
    <3>1. OpOf(t)' = Enq(<<t, ip'[t]>>) /\ <<t, ip'[t]>> \in Values
      <4>1. <<t, ip'[t]>> \in Values
        BY <1>0, <2>2 DEF BaseInv, ControlInv, EnqPCs
      <4> QED
        BY <4>1, <2>2 DEF OpOf, Dequeuing
    <3>2. Fifo!Become(t, Idle, Enq(<<t, ip'[t]>>))
      BY <1>3, <2>1, <3>1, FifoBecomes
    <3>3. Fifo!EnqCall(t)
      BY <1>1, <3>1, <3>2 DEF Fifo!EnqCall
    <3> QED
      BY <1>2, <3>3 DEF Fifo!Next
  <2>3. CASE pc'[t] = "d_head"
    <3>1. OpOf(t)' = Deq
      BY <2>3 DEF OpOf, Dequeuing
    <3>2. Fifo!DeqCall(t)
      BY <1>1, <1>3, <2>1, <3>1, FifoBecomes DEF Fifo!DeqCall
    <3> QED
      BY <1>2, <3>2 DEF Fifo!Next
  <2> QED
    BY <2>1, <2>2, <2>3
<1>6. CASE MallocFails(t)
  <2>1. /\ OpOf(t) = Enq(<<t, ip[t]>>) /\ OpOf(t)' = Idle
        /\ <<t, ip[t]>> \in Values
    BY <1>0, <1>4, <1>6 DEF MallocFails, Goto, OpOf, Dequeuing, BaseInv,
                            ControlInv, EnqPCs
  <2>2. Fifo!Become(t, Enq(<<t, ip[t]>>), Idle)
    BY <1>3, <2>1, FifoBecomes
  <2>3. Fifo!EnqNoMemory(t)
    BY <1>1, <2>1, <2>2 DEF Fifo!EnqNoMemory
  <2> QED
    BY <1>2, <2>3 DEF Fifo!Next
<1>7. CASE Swing(t)
  <2>1. OpOf(t) = Enqueued /\ OpOf(t)' = Idle
    BY <1>4, <1>7 DEF Swing, Goto, OpOf, Dequeuing
  <2>2. Fifo!EnqReturn(t)
    BY <1>1, <1>3, <2>1, FifoBecomes DEF Fifo!EnqReturn
  <2> QED
    BY <1>2, <2>2 DEF Fifo!Next
<1>8. CASE ReturnEmpty(t) /\ ~CameBack(t)
  <2>1. OpOf(t) = Deq /\ OpOf(t)' = Idle
    BY <1>4, <1>8 DEF ReturnEmpty, Goto, OpOf, Dequeuing
  <2>2. seenEmpty[t]
    BY <1>0, <1>8 DEF ReturnEmpty, Goto, SeenInv, CameBack
  <2>3. Fifo!DeqEmpty(t)
    BY <1>1, <1>3, <2>1, <2>2, FifoBecomes DEF Fifo!DeqEmpty
  <2> QED
    BY <1>2, <2>3 DEF Fifo!Next
<1>9. CASE ReturnEmpty(t) /\ CameBack(t)
  BY <1>9
<1>10. CASE FreeHead(t)
  <2>1. OpOf(t) = Dequeued(loc[t].val) /\ OpOf(t)' = Idle
    BY <1>4, <1>10 DEF FreeHead, Goto, OpOf, Dequeuing
  <2>2. loc[t].val \in Values
    BY <1>0, <1>10 DEF FreeHead, Goto, SoundInv, DeqInv
  <2>3. Fifo!Become(t, Dequeued(loc[t].val), Idle)
    BY <1>3, <2>1, FifoBecomes
  <2>4. Fifo!DeqReturn(t)
    BY <1>1, <2>2, <2>3 DEF Fifo!DeqReturn
  <2> QED
    BY <1>2, <2>4 DEF Fifo!Next
<1>11. CASE InnerStep(t)
  <2>1. OpOf(t)' = OpOf(t)
    <3>1. CASE \/ Malloc(t) \/ InitNode(t) \/ LoadTail(t) \/ LoadNext(t) \/ TailMoved(t)
               \/ TailSame(t) \/ LinkFails(t) \/ HelpEnqueue(t)
      <4>1. /\ {pc[t], pc'[t]} \subseteq {"malloc", "init", "e_tail", "e_next",
                                          "e_check", "e_link", "e_help"}
            /\ UNCHANGED ip
        BY <1>4, <3>1 DEF Malloc, InitNode, LoadTail, LoadNext, TailMoved,
                          TailSame, LinkFails, HelpEnqueue, Goto
      <4> QED
        BY <4>1 DEF OpOf, Dequeuing
    <3>2. CASE \/ DeqLoadHead(t) \/ DeqLoadTail(t) \/ DeqLoadNext(t) \/ HeadMoved(t)
               \/ HeadSame(t) \/ HelpDequeue(t) \/ ReadValue(t) \/ Crash(t)
               \/ MoveHeadFails(t)
      <4>1. Dequeuing(t) /\ Dequeuing(t)'
        BY <1>4, <3>2 DEF DeqLoadHead, DeqLoadTail, DeqLoadNext, HeadMoved,
                          HeadSame, HelpDequeue, ReadValue, Crash, MoveHeadFails,
                          Goto, Dequeuing
      <4> QED
        BY <4>1, DeqWhen
    <3> QED
      BY <1>11, <3>1, <3>2 DEF InnerStep
  <2>2. Ops' = Ops
    <3>1. Ops' = [Ops EXCEPT ![t] = OpOf(t)] /\ Ops[t] = OpOf(t)
      BY <1>3, <2>1, OpsNext
    <3>2. Ops = [u \in Threads |-> Ops[u]]
      BY DEF Ops
    <3> QED
      BY <3>1, <3>2
  <2> QED
    BY <1>0, <1>1, <2>2, FifoStutters
<1> QED
  BY <1>5, <1>6, <1>7, <1>8, <1>9, <1>10, <1>11
     DEF KeepStep, QuietStep, RawStep, SwingStep, InnerStep

\* Every step is one of the abstract queue, but for the two exceptions.
LEMMA StepImplements ==
    ASSUME QueueInv, QueueInv', [Next]_vars
    PROVE  Allowed
<1> USE FifoOperations
<1>1. ASSUME NEW t \in Threads, Call(t) \/ Step(t), Remember, UNCHANGED destroyed, ~astray'
      PROVE  Allowed
  <2>0. BaseInv /\ QueueTypeOK' /\ ~astray /\ ~GoesAstray(t) /\ ~destroyed
    <3>1. ~astray /\ ~GoesAstray(t)
      BY <1>1 DEF Remember
    <3> QED
      BY <1>1, <3>1, StepControl DEF QueueInv, BaseInv, Call
  <2>1. loc \in [Threads -> Locals] /\ pc \in [Threads -> PCs]
    BY <2>0 DEF BaseInv, QueueTypeOK
  <2>2. Fifo!Remember
    BY <1>1, RemembersFifo
  <2>3. CASE Link(t)
    <3>1. <<t, ip[t]>> \in Values /\ Contents' = Append(Contents, <<t, ip[t]>>)
      BY <2>0, <2>3, LinkEnqueues
    <3>2. OpOf(t) = Enq(<<t, ip[t]>>) /\ OpOf(t)' = Enqueued
      BY <2>1, <2>3 DEF Link, Goto, OpOf, Dequeuing
    <3>3. Fifo!Become(t, Enq(<<t, ip[t]>>), Enqueued)
      BY <1>1, <3>2, FifoBecomes
    <3>4. Fifo!EnqDo(t)
      BY <3>1, <3>3 DEF Fifo!EnqDo
    <3> QED
      BY <2>2, <3>4 DEF Fifo!Next, Allowed
  <2>4. CASE MoveHead(t)
    <3>1. /\ Contents # << >> /\ loc'[t].val = Head(Contents)
          /\ Contents' = Tail(Contents)
      BY <2>0, <2>4, MoveHeadDequeues
    <3>2. OpOf(t) = Deq /\ OpOf(t)' = Dequeued(Head(Contents))
      BY <2>1, <2>4, <3>1 DEF MoveHead, Goto, OpOf, Dequeuing
    <3>3. Fifo!Become(t, Deq, Dequeued(Head(Contents)))
      BY <1>1, <3>2, FifoBecomes
    <3>4. Fifo!DeqDo(t)
      BY <3>1, <3>3 DEF Fifo!DeqDo
    <3> QED
      BY <2>2, <3>4 DEF Fifo!Next, Allowed
  <2>5. CASE KeepStep(t)
    BY <1>1, <2>0, <2>5, KeepImplements
  <2> QED
    BY <1>1, <2>3, <2>4, <2>5 DEF Step, KeepStep, QuietStep, RawStep, SwingStep
<1>2. CASE Destroy \/ UNCHANGED vars
  <2>1. UNCHANGED <<head, tail, value, next, pc, loc, ip, seenEmpty>>
    BY <1>2 DEF Destroy, vars, shared, memory, threads
  <2>2. Contents' = Contents
    BY <2>1 DEF Contents, Nodes
  <2>3. \A t \in Threads : OpOf(t)' = OpOf(t)
    BY <2>1 DEF OpOf, Dequeuing
  <2> QED
    BY <2>1, <2>2, <2>3 DEF Fifo!vars, Allowed
<1>3. CASE astray'
  BY <1>3 DEF Allowed
<1> QED
  BY <1>1, <1>2, <1>3 DEF Next, Done

\* The operations take effect at once and in the order of a FIFO queue
\* (msqueue.h:1-20): an enqueue at its link (msqueue.c:116), a dequeue at its
\* move of the head (173).  A dequeue answers "empty" only if the queue was empty
\* during the call, although it reads the head, the tail and the link at
\* different times; the one exception is a dequeue whose head came back with
\* another count, which line 150 does not notice.  And all this holds until a
\* link has gone astray.
THEOREM QueueIsLinearizable == Spec => Linearizable
<1>1. Init => Fifo!Init
  <2> SUFFICES ASSUME Init PROVE Fifo!Init
    OBVIOUS
  <2>1. Contents = << >>
    BY InitiallyEmpty
  <2>2. \A t \in Threads : OpOf(t) = Idle
    BY DEF Init, OpOf, Dequeuing
  <2> QED
    BY <2>1, <2>2, FifoOperations DEF Init, Fifo!Init
<1>2. Spec => []QueueInv
  BY QueueInvariant
<1> DEFINE Does == \/ Fifo!Next
                   \/ \E t \in Threads : ReturnEmpty(t) /\ CameBack(t)
                   \/ astray'
<1>3. QueueInv /\ QueueInv' /\ [Next]_vars => [Does]_(Fifo!vars)
  BY StepImplements DEF Allowed
<1> HIDE DEF Does
<1>4. Spec => Fifo!Init /\ [][Does]_(Fifo!vars)
  BY <1>1, <1>2, <1>3, PTL DEF Spec
<1> QED
  BY <1>4 DEF Linearizable, Does
=============================================================================
