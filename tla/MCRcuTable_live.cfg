\* Two updaters contend for the mutex; a reader enters, leaves and re-enters.
\* No counter wraps and, as in bench.c, every reader registers before any
\* leaves.  The threads stop when the table is destroyed.
CONSTANTS
    Readers = {r1}
    Updaters = {u1, u2}
    Addrs = {a1, a2, a3}
    MaxReaders = 1
    HalfWord = 4
    SectionBound = 3
    SlotReuse = FALSE
    MaxUpdates = 3
    Nobody = Nobody
SPECIFICATION FairSpec
CHECK_DEADLOCK FALSE
PROPERTY
    UpdateTerminates
