SPECIFICATION Spec
CONSTANTS
    t1 = t1
    t2 = t2
    t3 = t3
    t4 = t4
    Threads <- MCThreads
    MaxConcurrent = 2
SYMMETRY Symmetry
INVARIANTS
    TypeOK
    SlotsExact
    NegativeIsBeingClamped
    CounterWithinCeiling
PROPERTY
    ImplementsSlotPool
