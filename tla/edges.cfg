CONSTANTS
    System = "SPM"
    OpcodeSize = 2
    MaxNodes = 4
    MaxNodeSize = 4
    MaxInst = 6
    WriteInsts <- EdgeWrites
    PlainInsts <- None
    ReadOps <- None
    Allocs <- Blocks
SPECIFICATION Spec
CHECK_DEADLOCK FALSE
INVARIANTS
    TypeOK
    OneEntryPerSlot
    ArraysNeverOverflow
    EdgeBalance
    EventsAfterCreation
    LogMatchesHistory
PROPERTIES
    HistoryOnlyGrows
    ImplementsSlotGraph
