SPECIFICATION FairSpec
CONSTANTS
    QueueChunks = 1
    MaxErrors = 2
    MaxReads = 3
    Interval = 1
    Duration = 2
    MaxCc = 2
    MaxClock = 3
    Prefix = "C"
    Low = 22
    High = 23
    FifoSize = 3
    PurgeAmount = 3
    ReadSize = 2
    ScanErrors = 2
INVARIANTS
    TypeOK
    MonitorEndsInOrder
    OwnServicesOnly
    NameSettles
    ReportsAddUp
PROPERTIES
    Ends
CHECK_DEADLOCK FALSE
