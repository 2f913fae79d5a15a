CONSTANTS
    Specs = {native, process}
    InitialSpec = native
    Rates = {normal, fast}
    InitialRate = normal
    CrashWindow = 2
    MaxEvents = 1
    MaxBuffered = 2
    MaxGen = 3
SPECIFICATION FairSpec
INVARIANTS
    ServersAccounted
PROPERTIES
    RecoveryIsOrderly
    SupervisorProgress
\* After a shutdown the worker has left and nothing more happens.
CHECK_DEADLOCK FALSE
