CONSTANTS
    Devices = {d1}
    Queues = {q1}
    Calls = {}
    Clis = {cli}
    MayFail = {}
    MaxRestarts = 0
    None = none
CHECK_DEADLOCK FALSE
SPECIFICATION FairSpec
PROPERTY CliReturns
