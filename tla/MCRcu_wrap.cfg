\* Counters of two bits wrap and slots are registered again and again: the
\* state space is finite without a constraint.
CONSTANTS
    Readers = {r1, r2}
    Updaters = {u1, u2}
    MaxReaders = 2
    HalfWord = 2
    SectionBound = 4
    SlotReuse = TRUE
    Nobody = Nobody
SYMMETRY Symmetry
SPECIFICATION RcuSpec
INVARIANTS
    GracePeriod
    SlotsOwnedOnce
    CountersAgree
