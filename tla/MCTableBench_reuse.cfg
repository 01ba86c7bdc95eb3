\* One round of the benchmark, one lookup each and one update.
CONSTANTS
    Readers = {0, 1}
    Updaters = {2}
    Addrs = {a1, a2}
    MaxReaders = 2
    HalfWord = 4
    SectionBound = 3
    SlotReuse = TRUE
    MaxUpdates = 2
    Reads = 1
    Updates = 1
    Rounds <- OneRound
    Nobody = Nobody
SPECIFICATION BenchSpec
INVARIANTS
    WaitsForExactSection
