CONSTANTS
    Jobs = {j1}
    Workers = {w1, w2}
    Handles = {h1, h2, h3, h4}
    NoCopy = NoCopy
    NoTicket = NoTicket
    MaxAttempts = 2
    Reservation = 2
    HoldTime = 1
    Backoff = 1
    Delays = {0, 1}
    MaxCrashes = 2
    MaxClears = 1
    TakenCap = 3
SPECIFICATION FairSpec
CHECK_DEADLOCK FALSE
INVARIANTS NoJobLost EntryExclusive AttemptsCountedUninterrupted
PROPERTY EveryJobAnswered
