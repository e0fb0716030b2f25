SPECIFICATION Spec
CONSTANTS
    StartTimeout = 0
    FaultSets = {{"put_rolled_back"}}
    KeepNulls = {TRUE}
    MaxPackets = 4
    MaxChunk = 2
    MaxTime = 1
INVARIANTS
    NothingLost
CHECK_DEADLOCK FALSE
