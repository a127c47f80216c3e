CONSTANTS
    w1 = w1
    w2 = w2
    s1 = s1
    s2 = s2
    Jobs = {j1}
    Workers = {w1}
    Slots = {s1, s2}
    WorkerOf <- TwoSlotWorker
    NParts = 1
    PartitionOf <- LastPartition
    NotAJob = NotAJob
    NoEntry = NoEntry
    MaxAttempts = 2
    LeaseTicks = 2
    HoldTime = 1
    FastExtend = TRUE
    Backoff = 1
    Delays = {0}
    MaxEvents = 0
    TakenCap = 4
SPECIFICATION Spec
INVARIANT OneInFlight
