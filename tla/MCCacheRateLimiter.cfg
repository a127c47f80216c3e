CONSTANTS
    NoEntry = NoEntry
    Requests = {r1, r2}
    Limit = 1
    Window = 3
    MaxClears = 1
    Unknown = Unknown
SPECIFICATION LimiterSpec
INVARIANTS TwoAllowancesAtMost
PROPERTIES RetryAfterTrue UncrossedWindowExpires FixedWindowRefined
