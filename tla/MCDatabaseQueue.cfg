CONSTANTS
    Jobs = {j1}
    Workers = {w1, w2}
    Reclaimers = {r1}
    Operators = {o1, o2}
    NoRow = NoRow
    MaxAttempts = 2
    Tries = 1
    Reservation = 1
    HoldTime = 1
    Backoff = 1
    Delays = {0, 1}
    ClaimLimit = 2
    AttemptsCap = 3
    MaxCrashes = 2
    MaxRetries = 2
    MaxClears = 1
SPECIFICATION Spec
INVARIANTS OneRunner AttemptMatchesRow NoJobLost
PROPERTY EveryJobAnswered
