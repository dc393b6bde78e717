CONSTANTS
    Threads <- ThreeNumbers
    MaxThreads = 2
    Insts <- ThreadInsts
    MaxExec = 2
    MaxSignals = 1
SPECIFICATION FairSpec
INVARIANTS
    TypeOK
    NumbersAreExact
PROPERTIES
    EveryCallbackReturns
