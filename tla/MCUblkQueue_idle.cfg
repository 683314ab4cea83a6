CONSTANTS
    QueueDepth = 2
    SqEntries = 2
    Messages = {m1, m2}
    MaxRequests = 2
    Ops = {"WRITE"}
    HandlerMayFail = FALSE
CHECK_DEADLOCK FALSE
SPECIFICATION Spec
INVARIANT WriteDataIntact
