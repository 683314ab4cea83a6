CONSTANTS
    QueueDepth = 2
    SqEntries = 2
    Messages = {m1, m2}
    MaxRequests = 3
    Ops = {"WRITE"}
    HandlerMayFail = TRUE
CHECK_DEADLOCK FALSE
SPECIFICATION Spec
INVARIANT CommittedWhenDone
