SPECIFICATION Spec
CONSTANTS
    Base = 2
    MemSize = 6
    MaxNodeSize = 4
    Systems = {"V8", "JSC", "SPM"}
    Zone = 4
    Sizes = {2, 3}
    Offsets = {1}
    MaxInst = 5
    MaxFormed = 2
INVARIANT
    TypeOK
    FormedAsAllocated
    AbortsOnlyUnformable
    ShiftedPointersRestored
CHECK_DEADLOCK FALSE
