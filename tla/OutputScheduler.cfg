CONSTANTS
    Latency = 0
    IdleTimeout = 1
    HardTimeout = 2
    WriteBudget = 2
    MaxPending = 4
    ControlLimit = 2
    Wrapper = 1
    Owners = {root}
    EffectKinds = {"title", "clipboard"}
    EffectBytes = 1
    NoEffect = NoEffect
    RenderSizes = {0, 2}
    ControlSizes = {1}
    BellCounts = {1}
    Support = {TRUE, FALSE}
    Opens = {TRUE, FALSE}
    MaxGen = 3
    MaxEffects = 2
SPECIFICATION PartSpec
INVARIANTS
    SchedulerShape
    NoTornTransaction
    ReceiptsExact
    BacklogServed
PROPERTIES
    ReceiptsInOrder
    DrainSteps
    ImplementsFrameQueue
