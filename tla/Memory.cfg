SPECIFICATION Spec
CONSTANTS
    Byte = {0, 1}
    FlashSize = 3
    SramBase = 5
    SramSize = 2
    StoreSize = 7
    Window = 9
    Top = 12
    WordBytes = 2
    Peripherals <- MCPeripherals
    Programs <- MCPrograms
INVARIANT TypeOK
PROPERTIES
    ImplementsFlat
    LoadedImage
