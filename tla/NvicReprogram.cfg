SPECIFICATION Spec
CONSTANTS
    Irqs = {1}
    Loads = {0, 1}
    CpuFlags = {}
INVARIANTS
    TimerIsScheduled
