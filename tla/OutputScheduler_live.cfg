CONSTANTS
    Latency = 1
    IdleTimeout = 1
    HardTimeout = 2
    WriteBudget = 1
    MaxPending = 3
    ControlLimit = 1
    Wrapper = 0
    Owners = {root}
    EffectKinds = {}
    EffectBytes = 1
    NoEffect = NoEffect
    RenderSizes = {2}
    ControlSizes = {1}
    BellCounts = {}
    Support = {TRUE, FALSE}
    Opens = {TRUE, FALSE}
    MaxGen = 2
    MaxEffects = 0
SPECIFICATION FairSpec
PROPERTIES
    SchedulerProgress
