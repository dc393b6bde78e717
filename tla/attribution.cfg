CONSTANTS
    Threads <- TwoThreads
    MaxThreads = 16
    Insts <- AttributionInsts
    MaxExec = 3
    MaxSignals = 1
SPECIFICATION Spec
INVARIANTS
    WritesCarryTheirRegisters
    ReadsCarryTheirRegisters
    NewThreadStartsClean
    FiledUnderOwnNumber
