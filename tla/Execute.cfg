SPECIFICATION Spec
CONSTANTS
    WordBits = 8
    Programs <- MCPrograms
    Starts <- MCStarts
    Ram <- MCRam
    StackTop = 176
INVARIANTS
    TypeOK
    ComparesDecide
    WideArithmetic
    CallsReturn
    BlocksFollowItState
    TransfersRoundTrip
    AlternativesAgree
    StoresAreExclusive
PROPERTY Terminates
CHECK_DEADLOCK FALSE
