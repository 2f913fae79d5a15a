CONSTANTS
    MaxItems = 2
    MaxBytes = 4
    ItemBytes = 3
    TextSizes = {1, 2, 4}
    MaxId = 5
    Limit = 2
    FrameSizes = {1, 2, 3}
    MaxCalls = 2
    MaxPending = 2
    MaxUtterances = 5
    Producers = {1, 2}
    Sizes = {1, 4}
    QueueLimit = 3
    RecordLimit = 2
    FileLimit = 3
    ThrottleKeys = {1, 2}
    KeyLimit = 1
    MaxSeq = 3
    MaxThrottled = 3
SPECIFICATION SpeechSpec
INVARIANTS
    MailboxExact
    RpcExact
    UtterancesInOrder
    LossIsCounted
PROPERTIES
    MailboxOrder
    SpeechProgress
\* After a shutdown the threads have left and nothing more happens.
CHECK_DEADLOCK FALSE
