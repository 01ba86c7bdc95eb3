\* Two of bench.c's workers; freed nodes are handed out again.
CONSTANTS
    t1 = t1
    t2 = t2
    t3 = t3
    Threads = {t1, t2}
    Program <- BenchProgram2
    Addrs = {a0, a1, a2}
    NULL = NULL
    MaxSpurious = 0
    MaxRetries = 0
SPECIFICATION Spec
INVARIANTS
    StaleLinkFails
