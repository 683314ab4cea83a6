CONSTANTS
    QueueDepth = 2
    SqEntries = 2
    Messages = {m1, m2}
    MaxRequests = 2
    Ops = {"READ"}
    HandlerMayFail = FALSE
SPECIFICATION FairSpec
PROPERTIES
    RequestsComplete
    StopExits
    ImplementsDevice
