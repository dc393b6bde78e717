SPECIFICATION Spec
CONSTANTS
    Threads = {t1, t2}
    None = None
    Slots = {0, 1}
    SeenBytes = {0}
    Marks <- MCMarks
    NumRegs = 2
    RESERVED = 2
    BUF_SIZE = 3
    MaxMarks = 3
    MaxStrays = 1
SYMMETRY ThreadsAlike
INVARIANT
    TypeOK
    DefaultsNeverChange
    DumpInBounds
    MarksKeptUntilStrayed
    SeenOnlyIfMarked
    DumpsWholeUntilStrayed
CHECK_DEADLOCK FALSE
