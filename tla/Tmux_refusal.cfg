CONSTANTS
    Modes = {"visible", "hidden"}
    Chunks = 3
    Quiet = 1
    Hard = 2
    RetryBase = 1
    RetryMax = 1
    FailureCap = 1
    PauseThreshold = 2
    ReplyLimit = 3
    MaxOutputs = 1
    MaxFaults = 1
    MaxLines = 2
    MaxWrites = 5
    MaxChunk = 3
    MaxLosses = 1
    MaxIds = 3
    ConnPanes = {1}
    MaxStarts = 4
    MaxRequests = 2
    Sessions = {1, 2}
    Windows = {1, 2}
    Panes = {1, 2, 3}
    MaxChanges = 2
    MaxErrors = 1
    CopyPanes = {1, 2}
    CopyChunks = {"a", "cls"}
    BufferLimit = 2
    MaxOutput = 2
    MaxRefused = 1
    KeyPanes = {1, 2}
    Keys = {"p", "o", "k", "t", "w", "e"}
    Chunk = 2
    KeyReplyLimit = 2
    MaxKeys = 4
    MaxBad = 1
SPECIFICATION TmuxSpec
INVARIANTS
    RefusalSurvived
\* The parts with bounded input stop when it is used up.
CHECK_DEADLOCK FALSE
