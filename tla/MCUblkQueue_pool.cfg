CONSTANTS
    QueueDepth = 2
    SqEntries = 2
    Messages = {m1}
    MaxRequests = 3
    Ops = {"WRITE"}
    HandlerMayFail = FALSE
SPECIFICATION FairSpec
PROPERTIES
    RequestsComplete
    MessagesReturn
