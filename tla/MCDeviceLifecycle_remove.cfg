CONSTANTS
    Devices = {d1}
    Queues = {q1}
    Calls = {c1}
    Clis = {}
    MayFail = {}
    MaxRestarts = 0
    None = none
CHECK_DEADLOCK FALSE
SPECIFICATION Spec
INVARIANT DeviceRemoved
