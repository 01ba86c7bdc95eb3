---------------------------- MODULE BoundedQueue ----------------------------
(***************************************************************************)
(* What the task queues of the week 5 pool promise their users: first in,  *)
(* first out, never more than Capacity tasks, and a pop that answers with  *)
(* a task, "or -1 once closed and drained" (workload.c:123).               *)
(***************************************************************************)
EXTENDS Integers, Sequences

CONSTANTS
    Queues,
    Capacity,
    Tasks,
    Workers,
    Empty,      \* what a worker holds between two pops
    Drained     \* what a worker holds that was told there is nothing more

VARIABLES
    queue,      \* the tasks in each queue, the oldest first
    closed,     \* the queues that accept no more tasks
    holds       \* what each worker got from its last pop

vars == <<queue, closed, holds>>

Init ==
    /\ queue = [q \in Queues |-> << >>]
    /\ closed = [q \in Queues |-> FALSE]
    /\ holds = [w \in Workers |-> Empty]

Push(q) ==
    /\ ~closed[q]
    /\ Len(queue[q]) < Capacity
    /\ \E k \in Tasks : queue' = [queue EXCEPT ![q] = Append(@, k)]
    /\ UNCHANGED <<closed, holds>>

Pop(q, w) ==
    /\ holds[w] = Empty
    /\ queue[q] # << >>
    /\ holds' = [holds EXCEPT ![w] = Head(queue[q])]
    /\ queue' = [queue EXCEPT ![q] = Tail(@)]
    /\ UNCHANGED closed

PopNothing(q, w) ==
    /\ holds[w] = Empty
    /\ queue[q] = << >> /\ closed[q]
    /\ holds' = [holds EXCEPT ![w] = Drained]
    /\ UNCHANGED <<queue, closed>>

Finish(w) ==
    /\ holds[w] \in Tasks
    /\ holds' = [holds EXCEPT ![w] = Empty]
    /\ UNCHANGED <<queue, closed>>

Close(q) ==
    /\ closed' = [closed EXCEPT ![q] = TRUE]
    /\ UNCHANGED <<queue, holds>>

Next ==
    \/ \E q \in Queues : Push(q) \/ Close(q)
    \/ \E q \in Queues, w \in Workers : Pop(q, w) \/ PopNothing(q, w)
    \/ \E w \in Workers : Finish(w)

Spec == Init /\ [][Next]_vars
=============================================================================
