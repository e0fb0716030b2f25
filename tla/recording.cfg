SPECIFICATION FairSpec
CONSTANTS
    QueueChunks = 2
    MaxErrors = 2
    MaxReads = 4
    SlowReset = FALSE
INVARIANTS
    TypeOK
    InOrder
    EverythingReadIsWritten
    ErrorReported
    ReleasedWithoutReader
PROPERTIES
    Terminates
    ImplementsRelay
CHECK_DEADLOCK FALSE
