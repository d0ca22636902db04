SPECIFICATION Spec
CONSTANTS
    Registers <- MCRegisters
    Values <- Byte
    Statuses <- MCStatuses
INVARIANT TypeOK
PROPERTIES ImplementsLinear DecimalArithmetic OverflowIsSigned SubtractUndoesAdd
    CompareIsSubtract RotatesInvert
