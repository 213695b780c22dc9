SPECIFICATION Spec
CONSTANTS
    a1 = a1
    a2 = a2
    x1 = x1
    x2 = x2
    x3 = x3
    Attachers <- MCAttachers
    Destroyers <- MCDestroyers
INVARIANTS
    TypeOK
    OneAttempt
    NilMeansGoneOrReported
    FailedCreateCleansUp
    FifosAreOwned
PROPERTIES
    ImplementsContract
    DestroyReturns
    AttachReturns
CHECK_DEADLOCK FALSE
