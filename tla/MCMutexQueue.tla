---------------------------- MODULE MCMutexQueue ----------------------------
(* Client programs and instances of MutexQueue for TLC. *)
EXTENDS MutexQueue, TLC

CONSTANTS t1, t2, t3

\* bench.c's worker, which alternates (56-74); one of them for two rounds.
BenchProgram ==
    (t1 :> <<"enq", "deq", "enq", "deq">>)
        @@ [t \in {t2, t3} |-> <<"enq", "deq">>]
=============================================================================
