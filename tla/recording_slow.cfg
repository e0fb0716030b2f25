SPECIFICATION Spec
CONSTANTS
    QueueChunks = 2
    MaxErrors = 3
    MaxReads = 2
    SlowReset = TRUE
INVARIANT EverythingReadIsWritten
CHECK_DEADLOCK FALSE
