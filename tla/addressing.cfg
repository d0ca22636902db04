SPECIFICATION Spec
CONSTANTS
    PAGE = 4
    Chips <- MCChips
    BreakBits <- MCBreakBits
    InterruptBit <- MCInterruptBit
INVARIANT TypeOK
PROPERTIES ImplementsLinear ReturnsToCaller
