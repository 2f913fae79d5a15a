CONSTANTS
    Documents <- ReviewDocuments
    Width = 4
    Sizes <- ReviewSizes
    Keys <- ReviewKeys
    Clips <- ReviewClips
    MaxCount = 3
    Capacity = 2
    MaxKeys = 4
    MaxCopies = 2
    Root = 0
    Connections = {1}
    Overlays = {2}
    MaxChanges = 2
    MaxDrops = 1
    Kinds = {"plain", "repaint"}
    Screens = {"primary", "alternate"}
    MinDelay = 1
    DiffDelay = 2
    MaxAdaptive = 2
    HardDelay = 3
    SettleDelay = 2
    LateWindow = 2
    CleanBursts = 1
    MaxOverlays = 1
    MaxOutput = 2
SPECIFICATION ReadingSpec
INVARIANTS
    PresentedIsReadable
    ReadingHasADeadline
    AppearsIsHeard
    SpokenExact
    ReviewExact
PROPERTIES
    ReadingProgress
\* The parts stop when their bounded input is used up.
CHECK_DEADLOCK FALSE
