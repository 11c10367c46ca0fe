SPECIFICATION Spec
CONSTANTS
    Cores = {"M0", "M3", "M4"}
    Programs <- MCPrograms
INVARIANTS
    TypeOK
    DecodedAsAssembled
    AssembledIsHandled
    CoresAgree
CHECK_DEADLOCK FALSE
