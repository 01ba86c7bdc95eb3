\* Three of bench.c's workers and too little memory for all of them.
CONSTANTS
    t1 = t1
    t2 = t2
    t3 = t3
    Threads = {t1, t2, t3}
    Program <- BenchProgram
    Addrs = {a0, a1}
    NULL = NULL
SPECIFICATION FairSpec
INVARIANTS
    ListIsWhole
PROPERTIES
    OperationsReturn
    Linearizable
