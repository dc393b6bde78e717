SPECIFICATION Spec
CONSTANTS
    LVL_SIZE = 16
    Writes <- MCWrites
INVARIANT
    TypeOK
    PagesOwnedOnce
    ReadsAgree
PROPERTY
    ImplementsSeenMap
