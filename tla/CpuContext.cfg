SPECIFICATION Spec
CONSTANTS
    Code = {1, 2}
    Values = {7}
    VectorTable <- MCVectors
    Async <- MCAsync
    Stores <- MCStores
    MaskValues = {TRUE}
    PspTop = 4
    MspTop = 14
    MaxNest = 2
VIEW LiveView
INVARIANTS
    IInv
    IpsrNamesInnermost
    StacksBalanced
    NoStrayExcReturn
PROPERTIES
    ReturnRestoresContext
    ImplementsNesting
