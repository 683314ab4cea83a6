CONSTANTS
    Devices = {d1,d2}
    Queues = {q1}
    Calls = {c1}
    Clis = {cli}
    MayFail <- AllSteps
    MaxRestarts = 1
    None = none
CHECK_DEADLOCK FALSE
SPECIFICATION FairSpec
INVARIANTS
    TypeOK
    RegistryWhileLive
    PidFileWhileLive
    StartMeansAdded
    DeleteMeansStopped
    LifeInv
PROPERTIES
    DeleteReturns
    DaemonWindsDown
