SPECIFICATION Spec
CONSTANTS
    StartTimeout = 2
    FaultSets = {{"put_kept", "put_rolled_back", "flush"},
                 {"put_kept", "put_rolled_back", "get", "withdraw", "flush"}}
    KeepNulls = {FALSE, TRUE}
    MaxPackets = 5
    MaxChunk = 3
    MaxTime = 4
INVARIANTS
    TypeOK
    NothingLostAsPromised
    OnlyNullsAreDropped
    HoldIsBounded
    NothingTwice
    PassedThroughWhole
PROPERTIES
    ImplementsRelay
CHECK_DEADLOCK FALSE
