CONSTANTS
    System = "JSC"
    OpcodeSize = 4
    MaxNodes = 4
    MaxNodeSize = 4
    MaxInst = 6
    WriteInsts <- ReuseWrites
    PlainInsts <- Formers
    ReadOps <- ReuseReads
    Allocs <- Blocks
SPECIFICATION Spec
CHECK_DEADLOCK FALSE
PROPERTIES
    WritesReachLiveNode
