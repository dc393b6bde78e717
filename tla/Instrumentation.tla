-------------------------- MODULE Instrumentation --------------------------
(***************************************************************************)
(* insInstrumentation of IRModeler.cpp: which instructions of the program  *)
(* get the analysis callbacks, the identification of the compiler, and the *)
(* names of functions, which it interns in the string table.               *)
(*                                                                         *)
(* Pin is external: it instruments an instruction when it is first         *)
(* executed, keeps the result in its code cache, and runs the cached code  *)
(* from then on, until PIN_RemoveInstrumentation empties the cache.  The   *)
(* callbacks themselves are the matter of Tracer and IRGraph.              *)
(***************************************************************************)
EXTENDS StringTable

CONSTANTS
    Code,          \* the instructions of the program (addresses)
    FnOf(_),       \* the name getFnName finds for an instruction
    EntryPoint,    \* the instruction at the program's entry point
    V8Fns, JSCFns, SPMFns   \* names with V8_JIT, JSC_JIT and SPM_JIT in them

INVALID == "none"  \* UINT32_INVALID
JITFns  == V8Fns \cup JSCFns \cup SPMFns

ASSUME CodeAssumption ==
    /\ \A a \in Code : FnOf(a) \in Strings
    /\ EntryPoint \in Code
    /\ JITFns \subseteq Names

VARIABLES
    cache,           \* external: "absent", "plain" or "traced" code
    entryPointFound,
    is_jit,
    system_id,
    fnCallRet,       \* number -> id of a function
    fnCallRetId,
    ran              \* ghost: the last instruction executed, and how

insVars == <<cache, entryPointFound, is_jit, system_id, fnCallRet, fnCallRetId, ran>>
vars == <<table, insVars>>

-----------------------------------------------------------------------------

Init ==
    /\ TableInit
    /\ cache = [a \in Code |-> "absent"]
    /\ entryPointFound = FALSE
    /\ is_jit = FALSE
    /\ system_id = INVALID
    /\ fnCallRet = << >>
    /\ fnCallRetId = 0
    /\ ran = [inst |-> EntryPoint, code |-> "traced"]

Entry(f, k) == IF k \in DOMAIN f THEN f[k] ELSE 0
Put(f, k, v) == [x \in DOMAIN f \cup {k} |-> IF x = k THEN v ELSE f[x]]

\* operator[] enters the key it is asked for.
Touched(f, k) == Put(f, k, Entry(f, k))

\* Variant: a function is recorded for every instruction of it.
Switches_Always(fnId) == TRUE

\* Another function than the one of the instruction instrumented before.
Switches(fnId) == Entry(fnCallRet, fnCallRetId - 1) # fnId

recordFnCallRet(fnId) ==
    IF fnCallRetId = 0 /\ fnId # 0
    THEN /\ fnCallRet' = Put(fnCallRet, 0, fnId)
         /\ fnCallRetId' = 1
    ELSE LET touched == Touched(fnCallRet, fnCallRetId - 1)
             records == /\ Switches(fnId) /\ fnId # 0
                        /\ fnCallRetId \notin DOMAIN fnCallRet
         IN  /\ fnCallRet' = IF records THEN Put(touched, fnCallRetId, fnId) ELSE touched
             /\ fnCallRetId' = IF records THEN fnCallRetId + 1 ELSE fnCallRetId

SystemOf(fn) == IF fn \in V8Fns THEN "V8" ELSE IF fn \in JSCFns THEN "JSC"
                ELSE IF fn \in SPMFns THEN "SPM" ELSE INVALID

StartsJIT(fn) == is_jit \/ fn \in JITFns

\* Variant: the cache keeps what was instrumented before the entry point.
Removed_Not(a) == cache

\* PIN_RemoveInstrumentation.
Removed(a) == IF entryPointFound THEN cache ELSE [x \in Code |-> "absent"]

Traced(a) ==
    LET fn == FnOf(a)
    IN  /\ is_jit' = TRUE
        /\ insert(fn)
        /\ system_id' = IF system_id = INVALID THEN SystemOf(fn) ELSE system_id
        /\ recordFnCallRet(Inserted(fn))
        /\ cache' = [Removed(a) EXCEPT ![a] = "traced"]

Ran(a) == ran' = [inst |-> a, code |-> cache'[a]]

\* The instruction is executed for the first time before the entry point:
\* insInstrumentation returns at once.
InstrumentBeforeEntry(a) ==
    /\ cache[a] = "absent" /\ ~ entryPointFound /\ a # EntryPoint
    /\ cache' = [cache EXCEPT ![a] = "plain"]
    /\ Ran(a)
    /\ UNCHANGED <<table, entryPointFound, is_jit, system_id, fnCallRet, fnCallRetId>>

\* Before the compiler is seen only initThread is inserted.
InstrumentPlain(a) ==
    /\ cache[a] = "absent" /\ (entryPointFound \/ a = EntryPoint)
    /\ ~ StartsJIT(FnOf(a))
    /\ entryPointFound' = TRUE
    /\ cache' = [Removed(a) EXCEPT ![a] = "plain"]
    /\ Ran(a)
    /\ UNCHANGED <<table, is_jit, system_id, fnCallRet, fnCallRetId>>

InstrumentTraced(a) ==
    /\ cache[a] = "absent" /\ (entryPointFound \/ a = EntryPoint)
    /\ StartsJIT(FnOf(a))
    /\ entryPointFound' = TRUE
    /\ Traced(a)
    /\ Ran(a)

RunCached(a) ==
    /\ cache[a] # "absent"
    /\ UNCHANGED <<table, cache, entryPointFound, is_jit, system_id, fnCallRet, fnCallRetId>>
    /\ Ran(a)

Next ==
    \E a \in Code : \/ InstrumentBeforeEntry(a)
                    \/ InstrumentPlain(a)
                    \/ InstrumentTraced(a)
                    \/ RunCached(a)

Spec == Init /\ [][Next]_vars

-----------------------------------------------------------------------------
(* Properties.                                                             *)

\* Types, of the table too; callbacks are never inserted for an unknown
\* system.
TypeOK ==
    /\ TableTypeOK
    /\ cache \in [Code -> {"absent", "plain", "traced"}]
    /\ entryPointFound \in BOOLEAN /\ is_jit \in BOOLEAN
    /\ system_id \in {INVALID, "V8", "JSC", "SPM"}
    /\ is_jit <=> system_id # INVALID
    /\ \A a \in Code : cache[a] = "traced" => is_jit
    /\ fnCallRetId \in Nat
    /\ \A k \in DOMAIN fnCallRet : fnCallRet[k] \in DOMAIN strList

\* Code of the compiler never runs without its callbacks once the program
\* was entered, even code that ran before: the first instruction of a
\* compiler function starts the analysis, and the entry point throws away
\* what was instrumented before it (insInstrumentation, the entry point).
CompilerAlwaysTraced ==
    entryPointFound /\ FnOf(ran.inst) \in JITFns => ran.code = "traced"

\* The recorded sequence of functions has no holes, no entry before the
\* first (operator[] would make one for an unnamed function), and no two
\* neighbours with the same id (recordFnCallRet).
CallSequenceDense ==
    /\ DOMAIN fnCallRet = 0 .. fnCallRetId - 1
    /\ \A k \in 1 .. fnCallRetId - 1 : fnCallRet[k] # fnCallRet[k - 1]
    /\ \A k \in DOMAIN fnCallRet : fnCallRet[k] # 0
=============================================================================
