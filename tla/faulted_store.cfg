CONSTANTS
    Threads <- OneThread
    MaxThreads = 16
    Insts <- FaultInsts
    MaxExec = 3
    MaxSignals = 1
SPECIFICATION Spec
INVARIANTS
    OnlyWritersRecorded
