\* Two of bench.c's workers and a thread that dequeues first; addresses that
\* are freed are handed out again; whichever thread the scheduler picks.
CONSTANTS
    t1 = t1
    t2 = t2
    t3 = t3
    Threads = {t1, t2, t3}
    Program <- BenchProgram3
    Addrs = {a0, a1, a2}
    NULL = NULL
    MaxSpurious = 1
    MaxRetries = 1
SPECIFICATION LockFreeSpec
INVARIANTS
    FreedNodesTakeNoLink
    SafePointers
    NothingLeaked
PROPERTIES
    Linearizable
    NobodyRetriesInVain
    LockFree
