--------------------------- MODULE QueueOperations ---------------------------
(* What a thread that uses a queue may be doing, as the client sees it. *)

Idle        == [name |-> "idle"]
Enq(v)      == [name |-> "enqueue", value |-> v]
Enqueued    == [name |-> "enqueued"]
Deq         == [name |-> "dequeue"]
Dequeued(v) == [name |-> "dequeued", value |-> v]
=============================================================================
