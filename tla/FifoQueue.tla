----------------------------- MODULE FifoQueue -----------------------------
(***************************************************************************)
(* What msqueue.h and mutexqueue.h promise: a first-in first-out queue     *)
(* whose operations take effect at once, at some moment between call and   *)
(* return.  A dequeue may answer "empty" if the queue was empty at some    *)
(* such moment; an enqueue fails only for want of memory.                  *)
(***************************************************************************)
EXTENDS Sequences, QueueOperations

CONSTANTS
    Threads,
    Values

VARIABLES
    queue,      \* the values in the queue
    op,         \* what each thread is doing
    seenEmpty   \* for a thread in dequeue: was the queue empty meanwhile?

vars == <<queue, op, seenEmpty>>

Init ==
    /\ queue = << >>
    /\ op = [t \in Threads |-> Idle]
    /\ seenEmpty = [t \in Threads |-> FALSE]

\* A dequeue remembers an empty queue until it returns.
Remember ==
    seenEmpty' = [t \in Threads |->
                     op'[t] = Deq /\ (seenEmpty[t] \/ queue' = << >>)]

Become(t, from, to) == op[t] = from /\ op' = [op EXCEPT ![t] = to]

EnqCall(t) ==
    /\ \E v \in Values : Become(t, Idle, Enq(v))
    /\ UNCHANGED queue

EnqDo(t) ==
    /\ \E v \in Values : /\ Become(t, Enq(v), Enqueued)
                         /\ queue' = Append(queue, v)

EnqReturn(t) == Become(t, Enqueued, Idle) /\ UNCHANGED queue

EnqNoMemory(t) ==
    /\ \E v \in Values : Become(t, Enq(v), Idle)
    /\ UNCHANGED queue

DeqCall(t) == Become(t, Idle, Deq) /\ UNCHANGED queue

DeqDo(t) ==
    /\ queue # << >>
    /\ Become(t, Deq, Dequeued(Head(queue)))
    /\ queue' = Tail(queue)

DeqReturn(t) ==
    /\ \E v \in Values : Become(t, Dequeued(v), Idle)
    /\ UNCHANGED queue

DeqEmpty(t) ==
    /\ seenEmpty[t]
    /\ Become(t, Deq, Idle)
    /\ UNCHANGED queue

Next ==
    /\ \E t \in Threads :
          \/ EnqCall(t) \/ EnqDo(t) \/ EnqReturn(t) \/ EnqNoMemory(t)
          \/ DeqCall(t) \/ DeqDo(t) \/ DeqReturn(t) \/ DeqEmpty(t)
    /\ Remember

Spec == Init /\ [][Next]_vars
=============================================================================
