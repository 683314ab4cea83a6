CONSTANTS
    QueueDepth = 2
    SqEntries = 2
    Messages = {m1, m2}
    MaxRequests = 3
    Ops = {"READ", "UNMAP"}
    HandlerMayFail = FALSE
SYMMETRY MessageSymmetry
SPECIFICATION Spec
INVARIANTS
    TypeOK
    BarrierInv
    NoTornSqe
    NoLostWakeup
    OneCommandPerTag
    CommitsHandlerResult
    BufferWrittenWhileOwned
    LockNotLeaked
    DiscardSparesHandledIo
    CleanExit
    TokenInv
