\* Two readers, the writer, and three rounds; two addresses are what one writer
\* needs.  No counter reaches SectionBound, no round MaxUpdates.
CONSTANTS
    Readers = {0, 1}
    Updaters = {2}
    Addrs = {a1, a2}
    MaxReaders = 2
    HalfWord = 2
    SectionBound = 4
    SlotReuse = TRUE
    MaxUpdates = 4
    Reads = 2
    Updates = 1
    Rounds <- MCRounds
    Nobody = Nobody
SPECIFICATION FairBenchSpec
INVARIANTS
    ExactUnlessLate
    CountsAreExact
PROPERTIES
    ImplementsVersionedTable
    BenchEnds
