CONSTANTS
    LynxRegs <- MCRegs
    LYNX_INVALID = "LYNX_INVALID"
    ByteSize = 16
    InitCapacity = 2
    Lengths <- MCLengths
    Instructions <- MCInstructions
    MaxInstrumented = 2
SPECIFICATION Spec
CHECK_DEADLOCK FALSE
INVARIANTS
    TypeOK
    CallbacksMatchOperands
