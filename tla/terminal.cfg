SPECIFICATION Spec
CONSTANT ErrCap = 2
INVARIANTS
    TypeOK
    SendNeverBlocks
    NothingShownTooLate
PROPERTY
    TerminalEnds
