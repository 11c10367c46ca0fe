SPECIFICATION FairSpec
CONSTANTS
    Irqs = {0, 1, 2}
    Loads = {0, 1}
    CpuFlags = {}
INVARIANTS
    TypeOK
    SeenTimerIsScheduled
    CountflagOnlyWhenEnabled
PROPERTIES
    PendingIrqNotLost
    LowestNumberFirst
    SteadyTimerTicks
