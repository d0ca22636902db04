SPECIFICATION Spec
CONSTANTS
    Registers <- MCRegisters
    IndexRegisters <- MCIndexRegisters
    Scales <- MCScales
    Bytes1 <- MCBytes1
    Bytes2 <- MCBytes2
    Bytes4 <- MCBytes4
INVARIANT MemoryOperandIsBase
