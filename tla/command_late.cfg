SPECIFICATION FairSpec
CONSTANTS
    Channels = {ch1}
    Retries = 2
    MaxPending = 2
PROPERTY ApduOwnResponse
