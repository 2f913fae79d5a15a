CONSTANTS
    MaxInput = 2
    MaxOutput = 1
    MaxStalls = 1
    MaxStops = 1
    MaxFailures = 1
    Limit = 2
    Capacity = 1
    MaxWrite = 3
    MaxBytes = 8
    MaxReply = 4
    MaxWire = 2
    MaxKeys = 3
    Processes = {{1, 2}, {3}}
    Nobody = 0
    BoundKeys = {"x", "c"}
    CtrlC = "c"
    MaxDeferred = 1
    MaxEvents = 4
    Bytes = {"E", "[", "]", "I", "2", "~", "g"}
    MaxReceived = 6
    MaxPending = 5
SPECIFICATION Spec
INVARIANTS
    TerminalReturned
    GapEndsChild
    InputReachesItsOwner
PROPERTIES
    DatabaseStays
    TerminalProgress
\* The bounded parts stop when their input is used up.
CHECK_DEADLOCK FALSE
