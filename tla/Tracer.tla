------------------------------- MODULE Tracer -------------------------------
(***************************************************************************)
(* The analysis callbacks that run in the threads of the traced program,   *)
(* and the state they share.  Pin calls the callbacks of an instruction in *)
(* the order in which insInstrumentation inserted them: those before the   *)
(* instruction (checkMemRead, recordSrcRegs, recordDestRegs,               *)
(* recordMemWrite), then, unless the instruction is a return or a system   *)
(* call, analyzeRecords after it.  Threads interleave between any two      *)
(* steps; an instruction that faults has no callback after it, and its     *)
(* thread goes on in the signal handler.                                   *)
(*                                                                         *)
(* A callback is one step if it touches only the thread's own storage, and *)
(* is cut at every access to shared state that another thread can disturb. *)
(* Registers and addresses have no values here: what is recorded is whose  *)
(* they are.  Instructions are numbered 1, 2, ... in the order they start  *)
(* (a ghost; the tool's own number is instruction.id), and a recorded      *)
(* register is the number of the instruction it was read for, with the     *)
(* instruction.id it was filed under.  The values and the node graph are   *)
(* the subject of IRGraph.                                                 *)
(***************************************************************************)
EXTENDS Integers, Sequences, FiniteSets

CONSTANTS
    Threads,      \* THREADIDs that Pin may hand out: 0, 1, ...
    MaxThreads,   \* maxThreads
    Insts,        \* instructions as insInstrumentation sees them
    MaxExec,      \* bound of the model on started instructions
    MaxSignals    \* bound of the model on signals

(* at: the address it accesses; reads: read operands (0 to 2); srcs: source *)
(* registers; dest: what recordDestRegs is given ("none" if not inserted,  *)
(* "flags" if there are no registers); write: has a memory write;          *)
(* analyzed: neither a return nor a system call; alloc: in a node          *)
(* allocator; create: in a node creator; faults: may fault.                *)
ASSUME InstsAssumption ==
    \A i \in Insts : i \in
        [at : Nat, reads : 0 .. 2, srcs : Nat, dest : {"none", "flags", "regs"},
         write : BOOLEAN, analyzed : BOOLEAN, alloc : BOOLEAN,
         create : BOOLEAN, faults : BOOLEAN]
ASSUME ThreadsAssumption ==
    Threads \subseteq Nat /\ MaxThreads \in Nat /\ MaxExec \in Nat /\ MaxSignals \in Nat

NONE == -1   \* NULL, an unset location, a free lock

VARIABLES
    todo,            \* thread -> the steps it has yet to do, in order
    cur,             \* thread -> ghost: number of its latest instruction, or NONE
    ran,             \* ghost: the instructions started so far
    overlapped,      \* ghost: those that another thread's instruction overlaps
    started,         \* threads that run
    exited,          \* exit(1) was called
    signals,         \* ghost: signals so far
    initialized,     \* ThreadData.initialized
    memWrite,        \* ThreadData.memWriteAddr and whose it is; NONE if size = 0
    destRegs,        \* ThreadData.destRegs, as whose they are; NONE if NULL
    srcRegsHolder, desRegsHolder,   \* with srcRegSize and desRegSize
    populate_regs, lastMemReadLoc,
    is_former_range,
    reads, writes,   \* address -> last access there
    targetSrcRegs, targetDesRegs,
    traceLock, dataLock,            \* the thread that holds it
    eventId, instId,                \* eventId and instruction.id
    numbered         \* ghost: the event and instruction numbers given out

threadVars == <<started, exited, signals, initialized>>
tlsVars    == <<memWrite, destRegs>>
holderVars == <<srcRegsHolder, desRegsHolder>>
readVars   == <<populate_regs, lastMemReadLoc, reads>>
targetVars == <<is_former_range, targetSrcRegs, targetDesRegs>>
lockVars   == <<traceLock, dataLock>>
idVars     == <<eventId, instId, numbered>>

vars == <<todo, cur, ran, overlapped, threadVars, tlsVars, holderVars, readVars,
          targetVars, writes, lockVars, idVars>>

-----------------------------------------------------------------------------
(* What insInstrumentation schedules for an instruction.                   *)

Times(n, step) == [k \in 1 .. n |-> step]
If(condition, steps) == IF condition THEN steps ELSE << >>

InitThreadSteps == <<"lockData", "recordRegState", "unlockData", "initialized">>

\* Variant: the instruction is numbered before its accesses are filed.
Analysis_NumbersFirst ==
    <<"lockTrace", "takeEventId", "nextEventId", "nextInstId", "unlockTrace",
      "analyzeRegs", "analyzeMemWrites", "populateReads", "resetHolders">>

Analysis == <<"analyzeRegs", "analyzeMemWrites", "populateReads", "resetHolders",
              "lockTrace", "takeEventId", "nextEventId", "nextInstId", "unlockTrace">>

Exception == <<"lockTrace", "nextEventId", "unlockTrace">>

\* checkMemRead ends with an unlock of the data lock that nobody took.
Callbacks(i) ==
       If(i.create /\ ~i.analyzed, <<"construct">>)
    \o If(i.reads > 0, <<"checkMemRead", "unlockData">>)
    \o If(i.reads > 1, <<"checkMemRead", "unlockData">>)
    \o If(i.srcs > 0, <<"resetSrcRegs">> \o Times(i.srcs, "pushSrcReg"))
    \o If(i.dest # "none", <<"recordDestRegs">>)
    \o If(i.write, <<"recordMemWrite", "lockData", "setSeen", "unlockData">>)
    \o If(i.analyzed, Analysis)

inst(t) == ran[cur[t]]

At(t, step) == ~exited /\ todo[t] # << >> /\ Head(todo[t]) = step

Done(t) == todo' = [todo EXCEPT ![t] = Tail(@)]

-----------------------------------------------------------------------------
(* Threads, instructions and signals.                                      *)

\* Variant: the thread keeps the storage of the thread that had its number.
threadStart_KeepsStorage(t) ==
    /\ started' = started \cup {t}
    /\ UNCHANGED <<initialized, memWrite, destRegs>>

threadStart(t) ==
    /\ started' = started \cup {t}
    /\ initialized' = [initialized EXCEPT ![t] = FALSE]
    /\ memWrite' = [memWrite EXCEPT ![t] = NONE]
    /\ destRegs' = [destRegs EXCEPT ![t] = NONE]

StartThread(t) ==
    /\ ~exited /\ t \notin started /\ t < MaxThreads
    /\ threadStart(t)
    /\ cur' = [cur EXCEPT ![t] = NONE]
    /\ UNCHANGED <<todo, ran, overlapped, exited, signals, holderVars, readVars,
                   targetVars, writes, lockVars, idVars>>

TooManyThreads(t) ==
    /\ ~exited /\ t \notin started /\ t >= MaxThreads
    /\ exited' = TRUE
    /\ UNCHANGED <<todo, cur, ran, overlapped, started, signals, initialized, tlsVars, holderVars,
                   readVars, targetVars, writes, lockVars, idVars>>

\* A thread may end between two instructions; Pin can give its number away.
EndThread(t) ==
    /\ ~exited /\ t \in started /\ todo[t] = << >>
    /\ Len(ran) < MaxExec
    /\ started' = started \ {t}
    /\ UNCHANGED <<todo, cur, ran, overlapped, exited, signals, initialized, tlsVars, holderVars,
                   readVars, targetVars, writes, lockVars, idVars>>

\* The threads that are between the first and the last callback of an instruction,
\* and do more than a signal handler does.
AtWork == {u \in Threads : \E k \in DOMAIN todo[u] :
                              todo[u][k] \notin {"lockTrace", "nextEventId", "unlockTrace"}}

StartInst(t, i) ==
    /\ ~exited /\ t \in started /\ todo[t] = << >>
    /\ Len(ran) < MaxExec
    /\ ran' = Append(ran, i)
    /\ cur' = [cur EXCEPT ![t] = Len(ran) + 1]
    /\ overlapped' = overlapped \cup UNION {{cur[u], Len(ran) + 1} : u \in AtWork}
    /\ todo' = [todo EXCEPT ![t] =
                  If(~initialized[t], InitThreadSteps) \o Callbacks(i)]
    /\ UNCHANGED <<threadVars, tlsVars, holderVars, readVars, targetVars, writes,
                   lockVars, idVars>>

\* The instruction faults: its analysis is not called, contextChange is.
Fault(t) ==
    /\ At(t, "analyzeRegs")
    /\ inst(t).faults
    /\ signals < MaxSignals
    /\ signals' = signals + 1
    /\ todo' = [todo EXCEPT ![t] = Exception]
    /\ UNCHANGED <<cur, ran, overlapped, started, exited, initialized, tlsVars, holderVars,
                   readVars, targetVars, writes, lockVars, idVars>>

\* A signal from outside arrives between two instructions.
contextChange(t) ==
    /\ ~exited /\ t \in started /\ todo[t] = << >>
    /\ signals < MaxSignals
    /\ signals' = signals + 1
    /\ todo' = [todo EXCEPT ![t] = Exception]
    /\ UNCHANGED <<cur, ran, overlapped, started, exited, initialized, tlsVars, holderVars,
                   readVars, targetVars, writes, lockVars, idVars>>

-----------------------------------------------------------------------------
(* The two locks.                                                          *)

\* Variant: the lock is not waited for.
LockTrace_NoWait(t) ==
    /\ At(t, "lockTrace")
    /\ traceLock' = t
    /\ UNCHANGED dataLock

LockTrace(t) ==
    /\ At(t, "lockTrace")
    /\ traceLock = NONE
    /\ traceLock' = t
    /\ UNCHANGED dataLock

\* Variant: the lock is left taken.
UnlockTrace_Forgets(t) ==
    /\ At(t, "unlockTrace")
    /\ UNCHANGED <<traceLock, dataLock>>

UnlockTrace(t) ==
    /\ At(t, "unlockTrace")
    /\ traceLock' = NONE
    /\ UNCHANGED dataLock

LockData(t) ==
    /\ At(t, "lockData")
    /\ dataLock = NONE
    /\ dataLock' = t
    /\ UNCHANGED traceLock

\* Whoever unlocks, the lock is free afterwards.
UnlockData(t) ==
    /\ At(t, "unlockData")
    /\ dataLock' = NONE
    /\ UNCHANGED traceLock

LockStep(t) ==
    /\ LockTrace(t) \/ UnlockTrace(t) \/ LockData(t) \/ UnlockData(t)
    /\ Done(t)
    /\ UNCHANGED <<cur, ran, overlapped, threadVars, tlsVars, holderVars, readVars, targetVars,
                   writes, idVars>>

\* What happens under the data lock: the shadow memory, the register dump.
UnderDataLock(t) ==
    /\ At(t, "setSeen") \/ At(t, "recordRegState")
    /\ Done(t)
    /\ UNCHANGED <<cur, ran, overlapped, threadVars, tlsVars, holderVars, readVars, targetVars,
                   writes, lockVars, idVars>>

ThreadInitialized(t) ==
    /\ At(t, "initialized")
    /\ initialized' = [initialized EXCEPT ![t] = TRUE]
    /\ Done(t)
    /\ UNCHANGED <<cur, ran, overlapped, started, exited, signals, tlsVars, holderVars, readVars,
                   targetVars, writes, lockVars, idVars>>

-----------------------------------------------------------------------------
(* Before the instruction.                                                 *)

\* constructModeledIRNode, as far as it concerns the holders: it forms a node
\* and empties them, or returns early and leaves them.
constructModeledIRNode(t) ==
    /\ At(t, "construct")
    /\ \/ /\ targetSrcRegs' = << >>
          /\ targetDesRegs' = << >>
          /\ is_former_range' = FALSE
       \/ UNCHANGED targetVars
    /\ Done(t)
    /\ UNCHANGED <<cur, ran, overlapped, threadVars, tlsVars, holderVars, readVars, writes,
                   lockVars, idVars>>

Put(f, k, v) == [x \in DOMAIN f \cup {k} |-> IF x = k THEN v ELSE f[x]]

\* The two operands of a check2MemRead are at the instruction's address and
\* the next.
checkMemRead(t) ==
    /\ At(t, "checkMemRead")
    /\ LET again == \E k \in 2 .. Len(todo[t]) : todo[t][k] = "checkMemRead"
           loc == IF inst(t).reads = 1 \/ again THEN inst(t).at ELSE inst(t).at + 1
       IN  /\ reads' = Put(reads, loc, [by |-> cur[t], regs |-> << >>])
           /\ lastMemReadLoc' = loc
    /\ populate_regs' = TRUE
    /\ Done(t)
    /\ UNCHANGED <<cur, ran, overlapped, threadVars, tlsVars, holderVars, targetVars, writes,
                   lockVars, idVars>>

\* Variant: the size is not reset.
ResetSrcRegs_Not(t) == At(t, "resetSrcRegs") /\ UNCHANGED srcRegsHolder

ResetSrcRegs(t) == At(t, "resetSrcRegs") /\ srcRegsHolder' = << >>

\* Variant: filed under the next number.
PushSrcReg_NextId(t) ==
    /\ At(t, "pushSrcReg")
    /\ srcRegsHolder' = Append(srcRegsHolder, [of |-> cur[t], id |-> instId + 1])

PushSrcReg(t) ==
    /\ At(t, "pushSrcReg")
    /\ srcRegsHolder' = Append(srcRegsHolder, [of |-> cur[t], id |-> instId])

recordSrcRegs(t) ==
    /\ ResetSrcRegs(t) \/ PushSrcReg(t)
    /\ Done(t)
    /\ UNCHANGED <<cur, ran, overlapped, threadVars, tlsVars, desRegsHolder, readVars, targetVars,
                   writes, lockVars, idVars>>

recordDestRegs(t) ==
    /\ At(t, "recordDestRegs")
    /\ destRegs' = [destRegs EXCEPT ![t] =
                      IF inst(t).dest = "regs" THEN cur[t] ELSE NONE]
    /\ Done(t)
    /\ UNCHANGED <<cur, ran, overlapped, threadVars, memWrite, holderVars, readVars, targetVars,
                   writes, lockVars, idVars>>

recordMemWrite(t) ==
    /\ At(t, "recordMemWrite")
    /\ memWrite' = [memWrite EXCEPT ![t] = cur[t]]
    /\ Done(t)
    /\ UNCHANGED <<cur, ran, overlapped, threadVars, destRegs, holderVars, readVars, targetVars,
                   writes, lockVars, idVars>>

-----------------------------------------------------------------------------
(* After the instruction: analyzeRecords.                                  *)

\* The registers written by an allocator, and both register lists while a node
\* is being formed or allocated.
AnalyzeRegs(t) ==
    /\ At(t, "analyzeRegs")
    /\ is_former_range' = (is_former_range \/ inst(t).create)
    /\ LET written == inst(t).alloc /\ destRegs[t] # NONE
           des == IF written THEN <<[of |-> destRegs[t], by |-> cur[t], id |-> instId]>>
                             ELSE desRegsHolder
           keep == is_former_range' \/ inst(t).alloc
       IN  /\ destRegs' = IF written THEN [destRegs EXCEPT ![t] = NONE] ELSE destRegs
           /\ desRegsHolder' = des
           /\ targetSrcRegs' = targetSrcRegs \o If(keep, srcRegsHolder)
           /\ targetDesRegs' = targetDesRegs \o If(keep, des)
    /\ Done(t)
    /\ UNCHANGED <<cur, ran, overlapped, threadVars, memWrite, srcRegsHolder, readVars, writes,
                   lockVars, idVars>>

WriteConsumed(t) == memWrite' = [memWrite EXCEPT ![t] = NONE]

analyzeMemWrites(t) ==
    /\ At(t, "analyzeMemWrites")
    /\ \/ /\ memWrite[t] = NONE
          /\ UNCHANGED <<writes, memWrite>>
       \/ /\ memWrite[t] # NONE
          /\ writes' = Put(writes, ran[memWrite[t]].at,
                           [by |-> cur[t], of |-> memWrite[t], id |-> instId,
                            regs |-> srcRegsHolder])
          /\ WriteConsumed(t)
    /\ Done(t)
    /\ UNCHANGED <<cur, ran, overlapped, threadVars, destRegs, holderVars, readVars, targetVars,
                   lockVars, idVars>>

\* Variant: the flag stays up.
ReadsPopulated_Again(t) ==
    /\ reads' = [reads EXCEPT ![lastMemReadLoc].regs = srcRegsHolder]
    /\ UNCHANGED populate_regs

ReadsPopulated(t) ==
    /\ reads' = [reads EXCEPT ![lastMemReadLoc].regs = srcRegsHolder]
    /\ populate_regs' = FALSE

PopulateReads(t) ==
    /\ At(t, "populateReads")
    /\ \/ populate_regs /\ ReadsPopulated(t)
       \/ ~populate_regs /\ UNCHANGED <<reads, populate_regs>>
    /\ Done(t)
    /\ UNCHANGED <<cur, ran, overlapped, threadVars, tlsVars, holderVars, lastMemReadLoc,
                   targetVars, writes, lockVars, idVars>>

ResetHolders(t) ==
    /\ At(t, "resetHolders")
    /\ srcRegsHolder' = << >>
    /\ desRegsHolder' = << >>
    /\ Done(t)
    /\ UNCHANGED <<cur, ran, overlapped, threadVars, tlsVars, readVars, targetVars, writes,
                   lockVars, idVars>>

\* data.eventId = eventId (nothing reads ThreadData.eventId back).
TakeEventId(t) ==
    /\ At(t, "takeEventId")
    /\ numbered' = Append(numbered, [of |-> cur[t], event |-> eventId, inst |-> instId])
    /\ UNCHANGED <<eventId, instId>>

NextEventId(t) ==
    /\ At(t, "nextEventId")
    /\ eventId' = eventId + 1
    /\ UNCHANGED <<instId, numbered>>

NextInstId(t) ==
    /\ At(t, "nextInstId")
    /\ instId' = instId + 1
    /\ UNCHANGED <<eventId, numbered>>

Numbering(t) ==
    /\ TakeEventId(t) \/ NextEventId(t) \/ NextInstId(t)
    /\ Done(t)
    /\ UNCHANGED <<cur, ran, overlapped, threadVars, tlsVars, holderVars, readVars, targetVars,
                   writes, lockVars>>

-----------------------------------------------------------------------------
Init ==
    /\ todo = [t \in Threads |-> << >>]
    /\ cur = [t \in Threads |-> NONE]
    /\ ran = << >> /\ overlapped = {}
    /\ started = {} /\ exited = FALSE /\ signals = 0
    /\ initialized = [t \in Threads |-> FALSE]
    /\ memWrite = [t \in Threads |-> NONE]
    /\ destRegs = [t \in Threads |-> NONE]
    /\ srcRegsHolder = << >> /\ desRegsHolder = << >>
    /\ populate_regs = FALSE /\ lastMemReadLoc = NONE
    /\ is_former_range = FALSE
    /\ reads = << >> /\ writes = << >>
    /\ targetSrcRegs = << >> /\ targetDesRegs = << >>
    /\ traceLock = NONE /\ dataLock = NONE
    /\ eventId = 0 /\ instId = 0 /\ numbered = << >>

\* The steps of a thread inside its callbacks.
Callback(t) ==
    \/ LockStep(t) \/ UnderDataLock(t) \/ ThreadInitialized(t)
    \/ constructModeledIRNode(t) \/ checkMemRead(t) \/ recordSrcRegs(t)
    \/ recordDestRegs(t) \/ recordMemWrite(t)
    \/ AnalyzeRegs(t) \/ analyzeMemWrites(t) \/ PopulateReads(t)
    \/ ResetHolders(t) \/ Numbering(t)

\* What the traced program does.
Program(t) ==
    \/ StartThread(t) \/ TooManyThreads(t) \/ EndThread(t)
    \/ \E i \in Insts : StartInst(t, i)
    \/ Fault(t) \/ contextChange(t)

\* The program ended: it was told to exit, or the bounds are used up.
Terminated ==
    /\ exited \/ (Len(ran) = MaxExec /\ \A t \in Threads : todo[t] = << >>)
    /\ UNCHANGED vars

Next == (\E t \in Threads : Callback(t) \/ Program(t)) \/ Terminated

Spec == Init /\ [][Next]_vars

\* A thread that can run does: the operating system schedules every thread.
FairSpec == Spec /\ \A t \in Threads : WF_vars(Callback(t))

-----------------------------------------------------------------------------
(* Properties.                                                             *)

Number == 1 .. Len(ran)

\* Types; the owners of recorded things are instructions that have started, and
\* nothing is filed under a number that has not come yet.
TypeOK ==
    /\ DOMAIN todo = Threads
    /\ cur \in [Threads -> Number \cup {NONE}]
    /\ memWrite \in [Threads -> Number \cup {NONE}]
    /\ destRegs \in [Threads -> Number \cup {NONE}]
    /\ \A k \in DOMAIN srcRegsHolder :
          srcRegsHolder[k].of \in Number /\ srcRegsHolder[k].id \in 0 .. instId
    /\ \A l \in DOMAIN reads : reads[l].by \in Number
    /\ \A l \in DOMAIN writes : writes[l].by \in Number
    /\ populate_regs => lastMemReadLoc \in DOMAIN reads
    /\ {traceLock, dataLock} \subseteq Threads \cup {NONE}
    /\ eventId \in Nat /\ instId \in Nat

\* However threads and signals interleave, every analysis takes its own event
\* number, later ones larger ones, and when nobody is numbering, instruction.id
\* is the number of analyses done (l. 1371-1378).
NumbersAreExact ==
    /\ \A j, k \in DOMAIN numbered : j < k => numbered[j].event < numbered[k].event
    /\ \A k \in DOMAIN numbered : numbered[k].event < eventId + 1 /\ numbered[k].inst = k - 1
    /\ traceLock = NONE => instId = Len(numbered) /\ eventId >= instId

\* A thread that takes over the number of another starts with none of its pending
\* writes and registers, even if that one ended in a system call or a handler.
NewThreadStartsClean ==
    \A t \in started :
        cur[t] = NONE => memWrite[t] = NONE /\ destRegs[t] = NONE /\ ~initialized[t]

\* No instruction of another thread ran at the same time.
Alone(n) == n \notin overlapped

\* The registers of a recorded write are those the writing instruction read, all of
\* them, filed under its number (l. 137: "values in the read registers"), whatever
\* the threads did before: only an instruction that another one overlaps can lose
\* its registers or find those of the other in the shared holder.
WritesCarryTheirRegisters ==
    \A l \in DOMAIN writes :
        LET w == writes[l]
        IN  Alone(w.by) /\ ran[w.by].srcs > 0 =>
                w.regs = Times(ran[w.by].srcs, [of |-> w.by, id |-> w.id])

\* The accesses of an instruction that no other overlaps are filed under the number
\* its analysis gives out at its end: the recorded write and the registers that go
\* with it, which are read from instruction.id long before (l. 1376).
FiledUnderOwnNumber ==
    \A l \in DOMAIN writes, k \in DOMAIN numbered :
        Alone(writes[l].by) /\ numbered[k].of = writes[l].by =>
            /\ writes[l].id = numbered[k].inst
            /\ ran[writes[l].by].srcs > 0 =>
                  \A r \in DOMAIN writes[l].regs : writes[l].regs[r].id = numbered[k].inst

Own(read) == \A k \in DOMAIN read.regs : read.regs[k].of = read.by

Analysed(n) == \E k \in DOMAIN numbered : numbered[k].of = n

\* The registers of a recorded read are those the reading instruction read, if it
\* has any, was analysed and was not overlapped: one that was not analysed leaves
\* populate_regs set, and the next analysis fills in its own (l. 1358-1363).  What
\* later instructions do, overlapped or not, leaves the read as it is.
ReadsCarryTheirRegisters ==
    \A l \in DOMAIN reads :
        Alone(reads[l].by) /\ Analysed(reads[l].by) /\ ran[reads[l].by].srcs > 0 => Own(reads[l])

\* Every callback that begins returns: no thread waits forever for a lock.
EveryCallbackReturns == \A t \in Threads : []<>(exited \/ todo[t] = << >>)

-----------------------------------------------------------------------------
(* What a comment of the code says and the code does not do.               *)

\* A memory write is recorded by the analysis of the instruction that made it:
\* recordMemWrite keeps it "so after the instruction we can print it" (l. 1281-1282).
OnlyWritersRecorded == \A l \in DOMAIN writes : writes[l].by = writes[l].of
=============================================================================
