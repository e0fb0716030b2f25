SPECIFICATION Spec
CONSTANTS
    PacketSize = 3
    SyncConfirm = 2
    MaxBytes = 15
    MaxChunk = 4
INVARIANTS
    TypeOK
    Accounted
    WholePackets
    PendingIsBounded
    ChunksDoNotMatter
CHECK_DEADLOCK FALSE
