CONSTANTS
    System = "SPM"
    OpcodeSize = 2
    MaxNodes = 4
    MaxNodeSize = 4
    MaxInst = 4
    WriteInsts <- OpcodeWrites
    PlainInsts <- None
    ReadOps <- None
    Allocs <- OpcodeBlocks
SPECIFICATION Spec
CHECK_DEADLOCK FALSE
INVARIANTS
    StoredOpcodeTracked
