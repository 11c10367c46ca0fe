SPECIFICATION FairSpec
CONSTANTS
    Code = {1}
    Values = {7}
    VectorTable <- MCVectors
    Async <- MCAsync
    Stores = {}
    MaskValues = {}
    PspTop = 4
    MspTop = 14
    MaxNest = 2
PROPERTIES
    NmiIsTaken
    UnvectoredEscalates
