\* A buffer of four bytes and user buffers both shorter and longer than it;
\* three resources; two readers of the /proc file on a list of two tasks.
CONSTANTS
    KBUF_SZ = 4
    GUARD_SZ = 4
    UBUF_SZ = 5
    BIG_SZ = 7
    Letters = {A, B}
    Lengths = {0, 1, 2, 3, 4, 5, 7}
    NUL = NUL
    GUARD_BYTE = GUARD_BYTE
    Fill = X
    NULL = NULL
    Resources = 3
    Readers = {r1, r2}
    Tasks = {k1, k2}
    Head = Head
    Nobody = Nobody
    MaxReads = 2
SYMMETRY Symmetry
SPECIFICATION Spec
INVARIANTS
    AllFourRulesHold
    CopiesOutTheLatest
    UnwindsToZero
    NoFreedTask
    CountsEveryTaskOnce
    ReadsAreExact
    NobodyRunsUnloadedCode
