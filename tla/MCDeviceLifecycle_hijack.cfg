CONSTANTS
    Devices = {d1, d2}
    Queues = {q1}
    Calls = {}
    Clis = {}
    MayFail = {}
    MaxRestarts = 0
    None = none
CHECK_DEADLOCK FALSE
SPECIFICATION Spec
INVARIANT ServedByOwner
