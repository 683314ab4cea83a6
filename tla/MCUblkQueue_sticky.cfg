CONSTANTS
    QueueDepth = 1
    SqEntries = 1
    Messages = {m1}
    MaxRequests = 2
    Ops = {"WRITE"}
    HandlerMayFail = TRUE
CHECK_DEADLOCK FALSE
SPECIFICATION Spec
INVARIANT NoSpuriousError
