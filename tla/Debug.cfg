SPECIFICATION Spec
CONSTANTS
    Addr = {1, 2}
    Breakable = {1}
    MaxSessions = 2
    MaxPackets = 2
INVARIANTS
    IInv
PROPERTIES
    HeldUntilReleased
    WaitingIsResumed
    WaitingStepStops
CHECK_DEADLOCK FALSE
