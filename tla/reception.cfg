SPECIFICATION Spec
CONSTANTS
    Pids = {si, av, null}
    NullPid = null
    SiPid = si
    CcMod = 3
    CcModulus = 3
    HeaderSize = 2
    MaxSection = 6
    Room = 4
    SectionSizes = {3, 5}
    MaxPackets = 5
    MaxOther = 1
    MaxGap = 3
INVARIANTS
    TypeOK
    CountsAreTrue
    WholeSectionsComeOut
PROPERTIES
    OnceInOrder
CHECK_DEADLOCK FALSE
