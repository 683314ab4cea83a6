CONSTANTS
    NrHwQueues = 2
    SqEntries = 2
    MaxSlips = 2
    MaxSignals = 1
CHECK_DEADLOCK FALSE
SPECIFICATION FairSpec
INVARIANTS
    TypeOK
    OwnResult
    EncodingRight
    FallbackReachesDriver
    FdsReleased
    ClientInv
PROPERTIES
    SessionEnds
