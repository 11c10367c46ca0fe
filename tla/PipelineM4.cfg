SPECIFICATION Spec
CONSTANTS
    Cores = {"M4"}
    Programs <- MCPrograms
INVARIANT DataProcessingReached
CHECK_DEADLOCK FALSE
