----------------------------- MODULE MCMSQueue -----------------------------
(* Client programs and instances of MSQueue for TLC. *)
EXTENDS MSQueue, TLC

CONSTANTS t1, t2, t3

\* bench.c's worker, which alternates (56-74).
BenchProgram2 ==
    [t \in {t1, t2} |-> <<"enq", "deq", "enq", "deq", "enq", "deq">>]

\* Two such workers and a thread that dequeues first.
BenchProgram3 ==
    [t \in {t1, t2} |-> <<"enq", "deq">>] @@ (t3 :> <<"deq", "enq">>)
=============================================================================
