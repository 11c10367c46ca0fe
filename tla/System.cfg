SPECIFICATION FairSpec
CONSTANTS
    Code = {1}
    Values = {7}
    VectorTable <- MCVectors
    PspTop = 4
    MspTop = 14
    MaxNest = 2
    Irqs = {1, 2}
    Loads = {1}
INVARIANTS
    NoSpuriousIrq
    SlotInv
PROPERTIES
    ImplementsCPU
    ImplementsNVIC
    TickIsTaken
    SlotIsServed
