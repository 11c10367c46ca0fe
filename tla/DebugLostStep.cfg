SPECIFICATION Spec
CONSTANTS
    Addr = {1}
    Breakable = {1}
    MaxSessions = 1
    MaxPackets = 2
PROPERTY StepIsAnswered
CHECK_DEADLOCK FALSE
