SPECIFICATION FairSpec
CONSTANTS
    Channels = {ch1, ch2}
    Retries = 2
    MaxPending = 2
INVARIANTS
    TypeOK
    InStep
    OneMishapIsRetried
    TunedAsAsked
    QuietWhenExpected
PROPERTIES
    Settles
