SPECIFICATION Spec
CONSTANTS
    Names <- MCNames
    Length <- MCLength
    Mix <- MCMix
    HashSize <- MCHashSize
    InitMapCapacities = {4, 16}
    InitStrCapacity = 4
    MaxProbe = 63
    Code <- MCCode
    FnOf <- MCFnOf
    EntryPoint = 7
    V8Fns = {}
    JSCFns = {}
    SPMFns = {"js::jit"}
INVARIANT
    TypeOK
    SearchesEnd
    ZeroIsTheEmptyString
    InternedOnceUntilGrowth
    CompilerAlwaysTraced
    CallSequenceDense
CHECK_DEADLOCK FALSE
