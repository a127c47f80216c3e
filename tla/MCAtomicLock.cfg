CONSTANTS
    NoEntry = NoEntry
    Procs = {p1, p2, p3}
    Nobody = Nobody
    Ttl = 2
    Waits = {0, 1}
    Extends = TRUE
    FastExtend = TRUE
    MaxForced = 1
SPECIFICATION Spec
INVARIANT LeaseExclusive
PROPERTIES LeaseRefined LockFreed AcquireAnswers
