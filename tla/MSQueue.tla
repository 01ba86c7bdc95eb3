------------------------------ MODULE MSQueue ------------------------------
(***************************************************************************)
(* The Michael & Scott queue of week 3 (msqueue.c).  Every access to a     *)
(* location other threads may access - the head, the tail, the fields of a *)
(* node that was ever linked - is a step of its own.                       *)
(*                                                                         *)
(* A node is freed by the dequeue that moves the head past it, while other *)
(* threads may still hold its address.  Freed memory keeps its `next`      *)
(* field (the allocator writes to the first 16 bytes only; `next` starts   *)
(* at byte 16) but loses its value, and malloc may hand it out again.      *)
(*                                                                         *)
(* Each thread runs a client program, a sequence of operations.  The i-th  *)
(* operation of thread t, if it is an enqueue, enqueues <<t, i>>.          *)
(***************************************************************************)
EXTENDS Integers, Sequences, FiniteSets, LinkedLists, QueueOperations

CONSTANTS
    Threads,
    Program,            \* for each thread, a sequence of "enq" and "deq"
    Addrs,              \* node addresses
    NULL,
    MaxSpurious,        \* model bound: spurious failures of the weak CAS
    MaxRetries          \* model bound: the retries counter stops here

ASSUME ProgramAssumption == Program \in [Threads -> Seq({"enq", "deq"})]
ASSUME MemoryAssumption ==
    NULL \notin Addrs /\ Addrs # {} /\ IsFiniteSet(Addrs)
ASSUME BoundAssumption == MaxSpurious \in Nat /\ MaxRetries \in Nat

VARIABLES
    head, tail,     \* q->head and q->tail, tagged pointers
    retries,        \* q->retries
    value, next,    \* the fields of the node at each address
    allocated,      \* the addresses that are malloc'ed and not freed
    pc, loc,        \* each thread's control and locals
    ip,             \* client: how many operations each thread has begun
    destroyed,      \* there is no queue: msq_destroy has run, or msq_create failed
    spurious,       \* how many weak CASes have failed spuriously
    astray,         \* history: a node was linked behind one not in the queue
    seenEmpty       \* history: the queue was empty during this dequeue

shared  == <<head, tail, retries>>
memory  == <<value, next, allocated>>
threads == <<pc, loc, ip, spurious>>
vars    == <<shared, memory, threads, destroyed, astray, seenEmpty>>

Tagged(a, n) == [ptr |-> a, count |-> n]
Nil          == Tagged(NULL, 0)
NoValue      == <<NULL, 0>>

Values == UNION {{<<t, i>> : i \in {j \in DOMAIN Program[t] :
                                       Program[t][j] = "enq"}} :
                 t \in Threads}

\* Locals that are not live hold these.
NoLocals == [n |-> NULL, head |-> Nil, tail |-> Nil, next |-> Nil,
             val |-> NoValue]

\* msq_create: a dummy node, head and tail at it with count 0.
Created ==
    LET dummy == CHOOSE a \in Addrs : TRUE IN
        /\ head = Tagged(dummy, 0)
        /\ tail = Tagged(dummy, 0)
        /\ allocated = {dummy}
        /\ destroyed = FALSE

\* One of its two allocations fails; a first one that did not is undone.
NotCreated ==
    /\ head = Nil /\ tail = Nil
    /\ allocated = {}
    /\ destroyed = TRUE

Init ==
    /\ Created \/ NotCreated
    /\ retries = 0
    /\ value = [a \in Addrs |-> NoValue]
    /\ next = [a \in Addrs |-> Nil]
    /\ pc = [t \in Threads |-> "idle"]
    /\ loc = [t \in Threads |-> NoLocals]
    /\ ip = [t \in Threads |-> 0]
    /\ spurious = 0
    /\ astray = FALSE
    /\ seenEmpty = [t \in Threads |-> FALSE]

Goto(t, here, there) == pc[t] = here /\ pc' = [pc EXCEPT ![t] = there]

\* The local `name` of thread t is assigned val.
Set(t, name, val) == loc' = [loc EXCEPT ![t][name] = val]

\* An iteration or an operation ends: its locals are dead.
Keep(t) == loc' = [loc EXCEPT ![t] = [NoLocals EXCEPT !.n = loc[t].n]]
Drop(t) == loc' = [loc EXCEPT ![t] = NoLocals]

CountRetry == retries' = IF retries < MaxRetries THEN retries + 1 ELSE retries

(***************************************************************************)
(* The nodes from the dummy on, in order of linkage, and the contents of   *)
(* the queue.  A list that runs through more nodes than there are is cut.  *)
(***************************************************************************)
Nodes ==
    ListFrom(head.ptr, [a \in Addrs |-> next[a].ptr], NULL, Cardinality(Addrs))

InQueue(a) == \E i \in DOMAIN Nodes : Nodes[i] = a

Contents == [i \in 1 .. Len(Nodes) - 1 |-> value[Nodes[i + 1]]]

(***************************************************************************)
(* The client.                                                             *)
(***************************************************************************)
NextOp(t)   == Program[t][ip[t] + 1]
Finished(t) == pc[t] = "idle" /\ ip[t] = Len(Program[t])

Call(t) ==
    /\ ~destroyed
    /\ pc[t] = "idle" /\ ip[t] < Len(Program[t])
    /\ Goto(t, "idle", IF NextOp(t) = "enq" THEN "malloc" ELSE "d_head")
    /\ ip' = [ip EXCEPT ![t] = @ + 1]
    /\ UNCHANGED <<shared, memory, loc, spurious>>

(***************************************************************************)
(* msq_enqueue                                                             *)
(***************************************************************************)

\* malloc in node_new.  The address may have been freed a moment ago, and
\* its `next` is then still what it was.
Malloc(t) ==
    /\ Goto(t, "malloc", "init")
    /\ \E a \in Addrs \ allocated :
          /\ Set(t, "n", a)
          /\ allocated' = allocated \cup {a}
    /\ UNCHANGED <<shared, value, next, ip, spurious>>

\* There is no memory, at whatever moment: msq_enqueue returns false.
MallocFails(t) ==
    /\ Goto(t, "malloc", "idle")
    /\ UNCHANGED <<shared, memory, loc, ip, spurious>>

InitNode(t) ==
    /\ Goto(t, "init", "e_tail")
    /\ value' = [value EXCEPT ![loc[t].n] = <<t, ip[t]>>]
    /\ next' = [next EXCEPT ![loc[t].n] = Nil]
    /\ UNCHANGED <<shared, allocated, loc, ip, spurious>>

LoadTail(t) ==
    /\ Goto(t, "e_tail", "e_next")
    /\ Set(t, "tail", tail)
    /\ UNCHANGED <<shared, memory, ip, spurious>>

LoadNext(t) ==
    /\ Goto(t, "e_next", "e_check")
    /\ Set(t, "next", next[loc[t].tail.ptr])
    /\ UNCHANGED <<shared, memory, ip, spurious>>

\* The re-read of tail compares the pointers, not the counts.
TailMoved(t) ==
    /\ Goto(t, "e_check", "e_tail")
    /\ loc[t].tail.ptr # tail.ptr
    /\ Keep(t)
    /\ UNCHANGED <<shared, memory, ip, spurious>>

TailSame(t) ==
    /\ Goto(t, "e_check",
            IF loc[t].next.ptr = NULL THEN "e_link" ELSE "e_help")
    /\ loc[t].tail.ptr = tail.ptr
    /\ UNCHANGED <<shared, memory, loc, ip, spurious>>

\* TODO 1: link the node after the last one.
Link(t) ==
    LET last == loc[t].tail.ptr IN
    /\ Goto(t, "e_link", "e_swing")
    /\ next[last] = loc[t].next
    /\ next' = [next EXCEPT ![last] = Tagged(loc[t].n, loc[t].next.count + 1)]
    /\ UNCHANGED <<shared, value, allocated, loc, ip, spurious>>

\* The weak CAS fails, because next has changed or for no reason at all.
LinkFails(t) ==
    /\ Goto(t, "e_link", "e_tail")
    /\ \/ next[loc[t].tail.ptr] # loc[t].next /\ UNCHANGED spurious
       \/ /\ next[loc[t].tail.ptr] = loc[t].next
          /\ spurious < MaxSpurious
          /\ spurious' = spurious + 1
    /\ CountRetry
    /\ Keep(t)
    /\ UNCHANGED <<head, tail, memory, ip>>

\* A CAS of q->tail from the tail the thread loaded to `a`.
CasTail(t, a) ==
    tail' = IF tail = loc[t].tail
            THEN Tagged(a, loc[t].tail.count + 1) ELSE tail

\* The enqueue swings the tail, if nobody has, and returns true.
Swing(t) ==
    /\ Goto(t, "e_swing", "idle")
    /\ CasTail(t, loc[t].n)
    /\ Drop(t)
    /\ UNCHANGED <<head, retries, memory, ip, spurious>>

\* Mutant: the enqueue does not help, it waits for the other to swing.
HelpEnqueueNot(t) ==
    /\ Goto(t, "e_help", "e_tail")
    /\ Keep(t)
    /\ UNCHANGED <<shared, memory, ip, spurious>>

\* TODO 2: the tail lags; advance it and try again.
HelpEnqueue(t) ==
    /\ Goto(t, "e_help", "e_tail")
    /\ CasTail(t, loc[t].next.ptr)
    /\ Keep(t)
    /\ UNCHANGED <<head, retries, memory, ip, spurious>>

(***************************************************************************)
(* msq_dequeue                                                             *)
(***************************************************************************)
DeqLoadHead(t) ==
    /\ Goto(t, "d_head", "d_tail")
    /\ Set(t, "head", head)
    /\ UNCHANGED <<shared, memory, ip, spurious>>

DeqLoadTail(t) ==
    /\ Goto(t, "d_tail", "d_next")
    /\ Set(t, "tail", tail)
    /\ UNCHANGED <<shared, memory, ip, spurious>>

DeqLoadNext(t) ==
    /\ Goto(t, "d_next", "d_check")
    /\ Set(t, "next", next[loc[t].head.ptr])
    /\ UNCHANGED <<shared, memory, ip, spurious>>

HeadMoved(t) ==
    /\ Goto(t, "d_check", "d_head")
    /\ loc[t].head.ptr # head.ptr
    /\ Keep(t)
    /\ UNCHANGED <<shared, memory, ip, spurious>>

\* Mutant: the dequeue does not look whether the head has reached the tail.
HeadSamePastTail(t) ==
    /\ loc[t].head.ptr = head.ptr
    /\ Goto(t, "d_check", "d_value")
    /\ UNCHANGED <<shared, memory, loc, ip, spurious>>

HeadSame(t) ==
    /\ loc[t].head.ptr = head.ptr
    /\ loc[t].head.ptr # loc[t].tail.ptr \/ loc[t].next.ptr # NULL
    /\ Goto(t, "d_check",
            IF loc[t].head.ptr = loc[t].tail.ptr THEN "d_help" ELSE "d_value")
    /\ UNCHANGED <<shared, memory, loc, ip, spurious>>

\* One node and nothing after it: the dequeue returns false.
ReturnEmpty(t) ==
    /\ Goto(t, "d_check", "idle")
    /\ loc[t].head.ptr = head.ptr
    /\ loc[t].head.ptr = loc[t].tail.ptr
    /\ loc[t].next.ptr = NULL
    /\ Drop(t)
    /\ UNCHANGED <<shared, memory, ip, spurious>>

\* Mutant: the dequeue does not help either.
HelpDequeueNot(t) ==
    /\ Goto(t, "d_help", "d_head")
    /\ CountRetry
    /\ Keep(t)
    /\ UNCHANGED <<head, tail, memory, ip, spurious>>

HelpDequeue(t) ==
    /\ Goto(t, "d_help", "d_head")
    /\ CasTail(t, loc[t].next.ptr)
    /\ CountRetry
    /\ Keep(t)
    /\ UNCHANGED <<head, memory, ip, spurious>>

\* TODO 3: the value is read before the head is moved.
ReadValue(t) ==
    /\ Goto(t, "d_value", "d_head_cas")
    /\ loc[t].next.ptr # NULL
    /\ Set(t, "val", value[loc[t].next.ptr])
    /\ UNCHANGED <<shared, memory, ip, spurious>>

\* A null next is dereferenced, and the program with all its threads is gone.
Crash(t) ==
    /\ Goto(t, "d_value", "crashed")
    /\ loc[t].next.ptr = NULL
    /\ UNCHANGED <<shared, memory, loc, ip, spurious>>

\* Mutant: the head is stored, not compared and swapped.
MoveHeadBlindly(t) ==
    /\ Goto(t, "d_head_cas", "d_free")
    /\ head' = Tagged(loc[t].next.ptr, loc[t].head.count + 1)
    /\ UNCHANGED <<tail, retries, memory, loc, ip, spurious>>

MoveHead(t) ==
    /\ Goto(t, "d_head_cas", "d_free")
    /\ head = loc[t].head
    /\ head' = Tagged(loc[t].next.ptr, loc[t].head.count + 1)
    /\ UNCHANGED <<tail, retries, memory, loc, ip, spurious>>

MoveHeadFails(t) ==
    /\ Goto(t, "d_head_cas", "d_head")
    /\ head # loc[t].head
    /\ CountRetry
    /\ Keep(t)
    /\ UNCHANGED <<head, tail, memory, ip, spurious>>

\* Mutant: the node's link is cleared before it is freed.
FreeHeadCleared(t) ==
    LET a == loc[t].head.ptr IN
    /\ Goto(t, "d_free", "idle")
    /\ allocated' = allocated \ {a}
    /\ value' = [value EXCEPT ![a] = NoValue]
    /\ next' = [next EXCEPT ![a] = Nil]
    /\ Drop(t)
    /\ UNCHANGED <<shared, ip, spurious>>

\* Mutant: the old dummy is not freed.
FreeHeadNot(t) ==
    /\ Goto(t, "d_free", "idle")
    /\ Drop(t)
    /\ UNCHANGED <<shared, memory, ip, spurious>>

\* The old dummy is freed and the dequeue returns true with the value.
FreeHead(t) ==
    LET a == loc[t].head.ptr IN
    /\ Goto(t, "d_free", "idle")
    /\ allocated' = allocated \ {a}
    /\ value' = [value EXCEPT ![a] = NoValue]
    /\ Drop(t)
    /\ UNCHANGED <<shared, next, ip, spurious>>

Step(t) ==
    \/ Malloc(t) \/ MallocFails(t) \/ InitNode(t)
    \/ LoadTail(t) \/ LoadNext(t) \/ TailMoved(t) \/ TailSame(t)
    \/ Link(t) \/ LinkFails(t) \/ Swing(t) \/ HelpEnqueue(t)
    \/ DeqLoadHead(t) \/ DeqLoadTail(t) \/ DeqLoadNext(t)
    \/ HeadMoved(t) \/ HeadSame(t) \/ ReturnEmpty(t) \/ HelpDequeue(t)
    \/ ReadValue(t) \/ Crash(t) \/ MoveHead(t) \/ MoveHeadFails(t) \/ FreeHead(t)

(***************************************************************************)
(* msq_destroy, which the caller makes when no thread uses the queue any   *)
(* more: every node from the dummy on is freed.  (The memory keeps its     *)
(* contents here, so that what the queue held can still be named.)         *)
(***************************************************************************)
AllFinished == \A t \in Threads : Finished(t)

Destroy ==
    /\ AllFinished
    /\ ~destroyed
    /\ destroyed' = TRUE
    /\ allocated' = allocated \ {Nodes[i] : i \in DOMAIN Nodes}
    /\ UNCHANGED <<shared, value, next, threads, astray, seenEmpty>>

Dequeuing(t) == pc[t] \in {"d_head", "d_tail", "d_next", "d_check", "d_help",
                           "d_value", "d_head_cas", "crashed"}

\* t links its node behind one that has left the queue, or is not in it yet.
GoesAstray(t) ==
    pc[t] = "e_link" /\ pc'[t] = "e_swing" /\ ~InQueue(loc[t].tail.ptr)

Remember ==
    /\ seenEmpty' = [t \in Threads |->
                        Dequeuing(t)' /\ (seenEmpty[t] \/ Contents' = << >>)]
    /\ astray' = (astray \/ \E t \in Threads : GoesAstray(t))

Crashed == \E t \in Threads : pc[t] = "crashed"

Done == (destroyed \/ Crashed) /\ UNCHANGED vars

Next ==
    \/ /\ ~Crashed
       /\ \E t \in Threads : Call(t) \/ Step(t)
       /\ Remember
       /\ UNCHANGED destroyed
    \/ Destroy
    \/ Done

Spec == Init /\ [][Next]_vars

\* Some thread runs; which one is up to the scheduler, forever.
LockFreeSpec == Spec /\ WF_vars(Next)

-----------------------------------------------------------------------------
(***************************************************************************)
(* Properties.  What is said of "the queue" for good - every node freed,   *)
(* every operation linearizable - can hold only until a link has gone      *)
(* astray (StaleLinkFails, which is violated).                             *)
(***************************************************************************)
\* "The COUNT is the ABA defense: a node freed and reallocated at the same
\* ADDRESS still compares unequal" (msqueue.c:25).  The CAS that links a node
\* succeeds only if it links it after a node of the queue.
StaleLinkFails ==
    \A t \in Threads :
        pc[t] = "e_link" /\ next[loc[t].tail.ptr] = loc[t].next
            => InQueue(loc[t].tail.ptr)

\* What is left of that: a node that the head has passed has a next node, also
\* while it is free, so the CAS never succeeds on it until it is initialised
\* again.
FreedNodesTakeNoLink ==
    \A t \in Threads :
        pc[t] = "e_link" /\ next[loc[t].tail.ptr] = loc[t].next
            => /\ loc[t].tail.ptr \in allocated
               /\ \A u \in Threads :
                     /\ pc[u] = "d_free" => loc[u].head.ptr # loc[t].tail.ptr
                     /\ pc[u] = "init" => loc[u].n # loc[t].tail.ptr

\* "IF the head has changed since we loaded it, then we retry the loop"
\* (msqueue.c:150), so that a dequeue never reads the value of a null
\* node (170).
NoNullDereference == ~Crashed

\* The head is no longer the one that was loaded.  If its pointer is, the
\* re-read does not notice: the node was freed, handed out and linked again.
CameBack(t) == loc[t].head # head

\* msqueue.c:97-104, 146-170.  However far the three loads of an operation are
\* apart, and whatever became of the nodes meanwhile: the queue's own pointers
\* stay on nodes that are in the queue and not freed, the tail never behind
\* the head; and a head that has really stayed has a next node.
SafePointers ==
    /\ ~destroyed =>
          /\ \A i \in DOMAIN Nodes : Nodes[i] \in allocated
          /\ InQueue(tail.ptr)
    /\ \A t \in Threads :
          /\ pc[t] = "d_check" /\ ~CameBack(t)
          /\ loc[t].head.ptr # loc[t].tail.ptr
          => loc[t].next.ptr # NULL

\* Every node is freed once it has been dequeued, or by msq_destroy
\* (msqueue.c:75-88, 175): nothing leaks, whatever retries and helping the
\* operations went through.
NothingLeaked == destroyed /\ ~astray => allocated = {}

\* The operations are linearizable to a FIFO queue, an enqueue at its link
\* and a dequeue at its move of the head - until a link has gone astray, and
\* but for an "empty" of a dequeue whose head came back, which need not be
\* "genuinely empty" (msqueue.c:155).
OpOf(t) ==
    CASE pc[t] \in {"malloc", "init", "e_tail", "e_next", "e_check", "e_link",
                    "e_help"} -> Enq(<<t, ip[t]>>)
      [] pc[t] = "e_swing"    -> Enqueued
      [] Dequeuing(t)         -> Deq
      [] pc[t] = "d_free"     -> Dequeued(loc[t].val)
      [] OTHER                -> Idle

Fifo == INSTANCE FifoQueue WITH
    queue <- Contents,
    op <- [t \in Threads |-> OpOf(t)]

Linearizable ==
    /\ Fifo!Init
    /\ [][\/ Fifo!Next
          \/ \E t \in Threads : ReturnEmpty(t) /\ CameBack(t)
          \/ astray'
         ]_(Fifo!vars)

\* How many steps the rest of an iteration, or of the operation, may take.
Rank(t) ==
    CASE pc[t] \in {"idle", "crashed"}               -> 0
      [] pc[t] \in {"e_swing", "d_free"}            -> 1
      [] pc[t] \in {"e_link", "e_help", "d_head_cas"} -> 2
      [] pc[t] \in {"e_check", "d_value", "d_help"} -> 3
      [] pc[t] \in {"e_next", "d_check"}            -> 4
      [] pc[t] \in {"e_tail", "d_next"}             -> 5
      [] pc[t] \in {"init", "d_tail"}               -> 6
      [] pc[t] \in {"malloc", "d_head"}             -> 7

\* The iteration is bound to be retried: what it has loaded has changed.
Doomed(t) ==
    \/ pc[t] \in {"e_next", "e_check", "e_help", "d_next", "d_check", "d_help"}
       /\ tail # loc[t].tail
    \/ pc[t] \in {"e_check", "e_link"} /\ next[loc[t].tail.ptr] # loc[t].next
    \/ pc[t] \in {"d_tail", "d_next", "d_check", "d_help", "d_value", "d_head_cas"}
       /\ head # loc[t].head

Left(t) == Rank(t) + IF Doomed(t) THEN 7 ELSE 0

\* "Lock-free - some thread always makes progress" (msqueue.h:7), as what a
\* step does: unless it begins an operation, links a node, moves the head or
\* the tail or fails spuriously, it brings its thread nearer to its return
\* and no thread further away.  Nobody retries in vain: a retry is paid for by
\* what somebody else got done meanwhile.
Advances ==
    \/ \E t \in Threads : Call(t) \/ Link(t)
    \/ head' # head \/ tail' # tail
    \/ spurious' # spurious

NobodyRetriesInVain ==
    [][\/ Advances \/ Destroy
       \/ \E t \in Threads : /\ Left(t)' < Left(t)
                             /\ \A u \in Threads \ {t} : Left(u)' <= Left(u)
      ]_vars

\* "lock-free - some thread always makes progress" (msqueue.h:7): however
\* the threads are scheduled, a client program of finitely many operations
\* ends, unless it crashes; no thread can spin for ever because another is
\* not scheduled.
LockFree == <>(destroyed \/ Crashed)
=============================================================================
