SPECIFICATION Spec
CONSTANTS
    MaxSessions = 4
    CloseBudget = 3
INVARIANTS
    TypeOK
    RuntimeReadyWhileUsed
    OnlyKnownGapsLeaveSessions
PROPERTIES
    SignalEnds
CHECK_DEADLOCK FALSE
