CONSTANTS
    NoEntry = NoEntry
    Machines = {m1, m2, m3}
    MinuteTicks = 3
    LastMinute = 1
    MaxLate = 2
    OneServer = TRUE
    WithoutOverlapping = TRUE
    OverlapTtl = 4
    MaxFaults = 1
SPECIFICATION SchedulerSpec
CHECK_DEADLOCK FALSE
SYMMETRY Symmetry
INVARIANTS OncePerMinute NoOverlap
