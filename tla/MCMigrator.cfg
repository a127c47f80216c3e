CONSTANTS
    Machines = {m1, m2, m3}
    Idle = Idle
    StepCount = 3
    StatementCount = 2
    Raw = {3}
    Irreversible = {}
    Lax = {2}
    Retired = {retired}
    Batches = {1, 2}
    RollbackAlone = TRUE
    MaxCuts = 2
    MaxRollbacks = 2
SPECIFICATION Spec
CHECK_DEADLOCK FALSE
INVARIANTS RecordedIsApplied LedgerInOrder
PROPERTIES EventuallyMigrated
