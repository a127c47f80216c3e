CONSTANTS
    NoEntry = NoEntry
    Jobs = {j1, j2, j3}
    Workers = {w1, w2}
    NoJob = NoJob
    UniqueFor = 2
    MaxAttempts = 2
    Sync = FALSE
    Refusals = TRUE
    Outlives = FALSE
    Overruns = FALSE
    MaxCrashes = 2
SPECIFICATION DispatchSpec
CHECK_DEADLOCK FALSE
INVARIANTS OnePending
PROPERTIES ReleasedWhenOver UndisturbedDropMeansPending IdFreed
