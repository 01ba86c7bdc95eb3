----------------------------- MODULE MutexQueue -----------------------------
(***************************************************************************)
(* The baseline queue of week 3 (mutexqueue.c): a linked list under one    *)
(* mutex.  Each access to the queue or to a node is a step, inside the     *)
(* lock and outside: a node is filled before its enqueue takes the lock,   *)
(* and read and freed after its dequeue has released it.  Freed addresses  *)
(* are handed out again by malloc.                                         *)
(*                                                                         *)
(* As in MSQueue each thread runs a client program, and the i-th operation *)
(* of thread t, if it is an enqueue, enqueues <<t, i>>.                    *)
(***************************************************************************)
EXTENDS Integers, Sequences, FiniteSets, LinkedLists, QueueOperations

CONSTANTS
    Threads,
    Program,        \* for each thread, a sequence of "enq" and "deq"
    Addrs,          \* node addresses
    NULL            \* no address, no thread

ASSUME ProgramAssumption == Program \in [Threads -> Seq({"enq", "deq"})]
ASSUME NullAssumption    == NULL \notin Addrs /\ NULL \notin Threads
ASSUME AddrAssumption    == IsFiniteSet(Addrs)

VARIABLES
    head, tail,     \* q->head, q->tail
    lock,           \* the holder of q->lock, or NULL
    value, next,    \* the fields of the node at each address
    allocated,      \* the addresses that are malloc'ed and not freed
    destroyed,      \* there is no queue: mq_destroy has run, or mq_create failed
    pc,             \* each thread's control
    n, out,         \* each thread's locals n and *out
    ip,             \* client: how many operations each thread has begun
    seenEmpty       \* history: the queue was empty during this dequeue

queueVars  == <<head, tail>>
memVars    == <<value, next, allocated>>
threadVars == <<pc, n, out, ip>>
vars       == <<queueVars, lock, memVars, destroyed, threadVars, seenEmpty>>

NoValue == <<NULL, 0>>

Values == UNION {{<<t, i>> : i \in {j \in DOMAIN Program[t] :
                                       Program[t][j] = "enq"}} :
                 t \in Threads}

\* mq_create, which may fail for want of memory or of a mutex; what it had
\* allocated is then freed again.
Init ==
    /\ head = NULL /\ tail = NULL
    /\ lock = NULL
    /\ value = [a \in Addrs |-> NoValue]
    /\ next = [a \in Addrs |-> NULL]
    /\ allocated = {}
    /\ destroyed \in BOOLEAN
    /\ pc = [t \in Threads |-> "idle"]
    /\ n = [t \in Threads |-> NULL]
    /\ out = [t \in Threads |-> NoValue]
    /\ ip = [t \in Threads |-> 0]
    /\ seenEmpty = [t \in Threads |-> FALSE]

\* The nodes of the queue in order, and its contents.
Nodes == ListFrom(head, next, NULL, Cardinality(Addrs))

Contents == [i \in DOMAIN Nodes |-> value[Nodes[i]]]

Goto(t, here, there) == pc[t] = here /\ pc' = [pc EXCEPT ![t] = there]

\* The operation ends: its locals are dead.
Return(t, here) ==
    /\ Goto(t, here, "idle")
    /\ n' = [n EXCEPT ![t] = NULL]
    /\ out' = [out EXCEPT ![t] = NoValue]
    /\ UNCHANGED ip

(***************************************************************************)
(* The client.                                                             *)
(***************************************************************************)
Finished(t) == pc[t] = "idle" /\ ip[t] = Len(Program[t])

Call(t) ==
    /\ ~destroyed
    /\ ip[t] < Len(Program[t])
    /\ Goto(t, "idle",
            IF Program[t][ip[t] + 1] = "enq" THEN "malloc" ELSE "d_lock")
    /\ ip' = [ip EXCEPT ![t] = @ + 1]
    /\ UNCHANGED <<queueVars, lock, memVars, n, out>>

(***************************************************************************)
(* mq_enqueue                                                              *)
(***************************************************************************)
Malloc(t) ==
    /\ Goto(t, "malloc", "init")
    /\ \E a \in Addrs \ allocated :
          /\ n' = [n EXCEPT ![t] = a]
          /\ allocated' = allocated \cup {a}
    /\ UNCHANGED <<queueVars, lock, value, next, out, ip>>

\* Mutant: the enqueue asks for memory until there is some.
MallocFailsRetried(t) ==
    /\ Goto(t, "malloc", "malloc")
    /\ UNCHANGED <<queueVars, lock, memVars, n, out, ip>>

\* There is no memory, at whatever moment: mq_enqueue returns false.
MallocFails(t) ==
    /\ Return(t, "malloc")
    /\ UNCHANGED <<queueVars, lock, memVars>>

InitNode(t) ==
    /\ Goto(t, "init", "lock")
    /\ value' = [value EXCEPT ![n[t]] = <<t, ip[t]>>]
    /\ next' = [next EXCEPT ![n[t]] = NULL]
    /\ UNCHANGED <<queueVars, lock, allocated, n, out, ip>>

EnqLock(t) ==
    /\ lock = NULL
    /\ lock' = t
    /\ Goto(t, "lock", "link")
    /\ UNCHANGED <<queueVars, memVars, n, out, ip>>

LinkAtTail(t) ==
    /\ Goto(t, "link", "tail")
    /\ tail # NULL
    /\ next' = [next EXCEPT ![tail] = n[t]]
    /\ UNCHANGED <<queueVars, lock, value, allocated, n, out, ip>>

LinkAtHead(t) ==
    /\ Goto(t, "link", "tail")
    /\ tail = NULL
    /\ head' = n[t]
    /\ UNCHANGED <<tail, lock, memVars, n, out, ip>>

SetTail(t) ==
    /\ Goto(t, "tail", "unlock")
    /\ tail' = n[t]
    /\ UNCHANGED <<head, lock, memVars, n, out, ip>>

EnqUnlock(t) ==
    /\ lock' = NULL
    /\ Return(t, "unlock")
    /\ UNCHANGED <<queueVars, memVars>>

(***************************************************************************)
(* mq_dequeue                                                              *)
(***************************************************************************)
DeqLock(t) ==
    /\ lock = NULL
    /\ lock' = t
    /\ Goto(t, "d_lock", "d_head")
    /\ UNCHANGED <<queueVars, memVars, n, out, ip>>

LoadHead(t) ==
    /\ Goto(t, "d_head", IF head = NULL THEN "d_empty" ELSE "d_unlink")
    /\ n' = [n EXCEPT ![t] = head]
    /\ UNCHANGED <<queueVars, lock, memVars, out, ip>>

UnlockEmpty(t) ==
    /\ lock' = NULL
    /\ Return(t, "d_empty")
    /\ UNCHANGED <<queueVars, memVars>>

Unlink(t) ==
    /\ Goto(t, "d_unlink", "d_tail")
    /\ head' = next[n[t]]
    /\ UNCHANGED <<tail, lock, memVars, n, out, ip>>

\* Mutant: the tail of an empty queue is left where it was.
ClearTailNot(t) ==
    /\ Goto(t, "d_tail", "d_unlock")
    /\ UNCHANGED <<queueVars, lock, memVars, n, out, ip>>

ClearTail(t) ==
    /\ Goto(t, "d_tail", "d_unlock")
    /\ tail' = IF head = NULL THEN NULL ELSE tail
    /\ UNCHANGED <<head, lock, memVars, n, out, ip>>

DeqUnlock(t) ==
    /\ lock' = NULL
    /\ Goto(t, "d_unlock", "d_value")
    /\ UNCHANGED <<queueVars, memVars, n, out, ip>>

\* Mutant: the value is that of the node now at the head.
ReadValueOfHead(t) ==
    /\ Goto(t, "d_value", "d_free")
    /\ out' = [out EXCEPT ![t] = IF head = NULL THEN NoValue ELSE value[head]]
    /\ UNCHANGED <<queueVars, lock, memVars, n, ip>>

ReadValue(t) ==
    /\ Goto(t, "d_value", "d_free")
    /\ out' = [out EXCEPT ![t] = value[n[t]]]
    /\ UNCHANGED <<queueVars, lock, memVars, n, ip>>

Free(t) ==
    /\ Return(t, "d_free")
    /\ allocated' = allocated \ {n[t]}
    /\ value' = [value EXCEPT ![n[t]] = NoValue]
    /\ UNCHANGED <<queueVars, lock, next>>

Step(t) ==
    \/ Malloc(t) \/ MallocFails(t) \/ InitNode(t) \/ EnqLock(t)
    \/ LinkAtTail(t) \/ LinkAtHead(t) \/ SetTail(t) \/ EnqUnlock(t)
    \/ DeqLock(t) \/ LoadHead(t) \/ UnlockEmpty(t) \/ Unlink(t)
    \/ ClearTail(t) \/ DeqUnlock(t) \/ ReadValue(t) \/ Free(t)

\* A dequeue has not taken its value yet.
Dequeuing(t) == pc[t] \in {"d_lock", "d_head", "d_empty", "d_unlink"}

Remember ==
    seenEmpty' = [t \in Threads |->
                     Dequeuing(t)' /\ (seenEmpty[t] \/ Contents' = << >>)]

\* mq_destroy, when no thread uses the queue any more.  (The freed memory
\* keeps its contents here, so that what the queue held can still be named.)
Destroy ==
    /\ \A t \in Threads : Finished(t)
    /\ ~destroyed
    /\ destroyed' = TRUE
    /\ allocated' = allocated \ {Nodes[i] : i \in DOMAIN Nodes}
    /\ UNCHANGED <<queueVars, lock, value, next, threadVars, seenEmpty>>

Done == destroyed /\ UNCHANGED vars

Next ==
    \/ /\ \E t \in Threads : Call(t) \/ Step(t)
       /\ Remember
       /\ UNCHANGED destroyed
    \/ Destroy
    \/ Done

Spec == Init /\ [][Next]_vars

\* A thread that has called an operation goes on with it; the mutex is only
\* weakly fair.
Fairness ==
    \A t \in Threads : WF_vars(Step(t) /\ Remember /\ UNCHANGED destroyed)

FairSpec == Spec /\ Fairness

-----------------------------------------------------------------------------
(***************************************************************************)
(* Properties                                                              *)
(***************************************************************************)

\* Between critical sections the tail is the last node, if there is one, and
\* the nodes of the queue and those the threads hold are all that is
\* allocated: an enqueue that takes the lock never writes to a freed node,
\* and no node is lost (mutexqueue.c:32-44, 54-58, 71-76).
Last(s) == IF s = << >> THEN NULL ELSE s[Len(s)]

InQueue == IF destroyed THEN {} ELSE {Nodes[i] : i \in DOMAIN Nodes}
Held    == {n[t] : t \in Threads} \ {NULL}

ListIsWhole ==
    lock = NULL =>
        /\ allocated = InQueue \cup Held
        /\ ~destroyed => tail = Last(Nodes) /\ (tail # NULL => next[tail] = NULL)

\* Two threads never hold the same node outside the lock: the value a
\* dequeue reads after it has released the lock is still that of its node
\* (mutexqueue.c:74-76).
Outside(t) == pc[t] \in {"init", "lock", "d_unlock", "d_value", "d_free"}

NodesApart ==
    \A s, t \in Threads : s # t /\ Outside(s) /\ Outside(t) => n[s] # n[t]

\* The operations are linearizable to a FIFO queue (mutexqueue.h), an enqueue
\* at its link and a dequeue at its unlink.
OpOf(t) ==
    CASE pc[t] \in {"malloc", "init", "lock", "link"} -> Enq(<<t, ip[t]>>)
      [] pc[t] \in {"tail", "unlock"} -> Enqueued
      [] Dequeuing(t) -> Deq
      [] pc[t] \in {"d_tail", "d_unlock", "d_value"} -> Dequeued(value[n[t]])
      [] pc[t] = "d_free" -> Dequeued(out[t])
      [] OTHER -> Idle

Fifo == INSTANCE FifoQueue WITH
    queue <- Contents,
    op <- [t \in Threads |-> OpOf(t)]

Linearizable == Fifo!Spec

\* Every operation returns: the mutex is always released.
OperationsReturn == \A t \in Threads : pc[t] # "idle" ~> pc[t] = "idle"
=============================================================================
