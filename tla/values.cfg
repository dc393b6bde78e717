CONSTANTS
    System = "V8"
    OpcodeSize = 2
    MaxNodes = 5
    MaxNodeSize = 5
    MaxInst = 6
    WriteInsts <- ValueWrites
    PlainInsts <- ValuePlain
    ReadOps <- ValueReads
    Allocs <- ValueBlocks
SPECIFICATION Spec
CHECK_DEADLOCK FALSE
INVARIANTS
    ValueChangesChain
    EvaluationsInBlock
