CONSTANTS
    Expressions <- MCExpressions
    DayFields <- DowFields
    Starts <- MCStarts
    HorizonDays = 1464
    MaxCalls = 3
SPECIFICATION Spec
CHECK_DEADLOCK FALSE
INVARIANTS GivesUpOnlyOnNever
PROPERTY NextIsEarliest
