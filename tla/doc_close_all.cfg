SPECIFICATION Spec
CONSTANTS
    MaxSessions = 3
    CloseBudget = 10
INVARIANTS
    CloseDestroysAll
CHECK_DEADLOCK FALSE
