CONSTANTS
    Asked <- AskedMC
    CpuCounts = {1, 33}
    PageSizes = {4096, 65536}
    Host = "little"
    DevSectors = 16777216
    Garbage <- GarbageMC
CHECK_DEADLOCK FALSE
SPECIFICATION FairSpec
INVARIANTS
    TypeOK
    BuildInv
    HandsOver
    MapsOwnQueue
    NoSilentSuccess
    RequestDecoded
PROPERTIES
    InitSucceeds
