\* Two readers that come and go, two updaters, three addresses, counters of
\* two bits that wrap.
CONSTANTS
    Readers = {r1, r2}
    Updaters = {u1, u2}
    Addrs = {a1, a2, a3}
    MaxReaders = 2
    HalfWord = 2
    SectionBound = 4
    SlotReuse = TRUE
    MaxUpdates = 2
    Nobody = Nobody
SYMMETRY Symmetry
SPECIFICATION Spec
INVARIANTS
    NoUseAfterFree
    NothingLeaked
    SomebodyGetsOn
PROPERTY
    ImplementsVersionedTable
