\* wl_run: the three pathologies, each with the least number of workers.  Two
\* of the five tasks are of the last class; tasks 0 and 3 hold the gate; a burst
\* of two begins at task 0 and one, cut short, at task 4.
\* summarize_run: two tasks on five time stamps and three tasks on four; the
\* thresholds are scaled to latencies of that size.
CONSTANTS
    NTasks = 5
    Pool = 3
    Capacity = 2
    NumSizes = 2
    HolderPeriod = 3
    BurstPeriod = 4
    BurstSize = 2
    MaxSpurious = 1
    None = None
    Runs <- MCRuns
    PoolSizes = {1, 2, 3}
    BugMultiplier = 2
    WindowFactor = 1
SPECIFICATION Week5Spec
INVARIANTS
    NoLostWakeup
    EveryTaskInOnePlace
    NothingLost
    SomebodyRuns
    ScanMeasures
    MedianInTheMiddle
PROPERTIES
    HoldStopsThePool
    ImplementsBoundedQueue
    PoolReturns
