------------------------------ MODULE DataLock ------------------------------
(***************************************************************************)
(* What dataLock protects, one machine step at a time: the pages of the    *)
(* shadow memory, which recordMemWrite marks, and the buffer into which    *)
(* initThread dumps the registers of a new thread.  checkMemRead ends with *)
(* an unlock of dataLock that nobody took: it frees the lock under a       *)
(* thread that is inside, and the next one comes in.                       *)
(*                                                                         *)
(* A part of a mark is the path of one byte of marks through the tree of   *)
(* pages and the bits to set in it (ShadowMemory says how an address and a *)
(* size split into parts).  Pages are numbered in the order of `new'; 1 is *)
(* the default page of its level.  A pointer that the source reads twice   *)
(* may come from either time, since another thread can write it between    *)
(* the two.  The dump is in cells, one for the record of a register.       *)
(***************************************************************************)
EXTENDS Integers, Sequences, FiniteSets

CONSTANTS
    Threads,      \* the threads of the traced program
    None,         \* a free lock
    Slots,        \* indices of the slots of a page
    SeenBytes,    \* indices of the bytes of a QM
    Marks,        \* the calls of setSeen, each as the sequence of its parts
    NumRegs,      \* registers that recordRegState dumps
    RESERVED,     \* cells asked of getFileBuf; 4096 bytes in the code
    BUF_SIZE,     \* cells of dataBuf; 16384 bytes in the code
    MaxMarks,     \* bound of the model on marks
    MaxStrays     \* bound of the model on unlocks that free a taken lock

Bits == 0 .. 7
Part == [pm : Slots, sm : Slots, tm : Slots, byte : SeenBytes, bits : SUBSET Bits]

\* recordRegState dumps at least one register and takes 4096 bytes to be enough for all.
ASSUME DataLockAssumption ==
    /\ None \notin Threads
    /\ Marks \subseteq Seq(Part)
    /\ NumRegs \in Nat \ {0} /\ RESERVED \in Nat /\ BUF_SIZE \in Nat
    /\ NumRegs <= RESERVED /\ RESERVED <= BUF_SIZE
    /\ MaxMarks \in Nat /\ MaxStrays \in Nat

Default == 1

VARIABLES
    dataLock,             \* the thread that took it last, or None
    PM, SM, TM, QM,       \* slots of the primary map; the pages below it
    pc,                   \* thread -> where it is
    parts,                \* thread -> the parts of its mark that are left
    sm, tm, qm, old,      \* thread -> local pointers, and a byte it has loaded
    dataBuf, dataBufPos, dataFile,
    pos, reg,             \* thread -> local position, and the next register
    marks, marked,        \* ghost: marks begun, and those that returned
    strays                \* ghost: unlocks that freed a lock under its holder

treeVars  == <<PM, SM, TM, QM>>
localVars == <<sm, tm, qm, old>>
dumpVars  == <<dataBuf, dataBufPos, dataFile, pos, reg>>
ghostVars == <<marks, marked, strays>>
vars == <<dataLock, treeVars, pc, parts, localVars, dumpVars, ghostVars>>

Part1(t) == Head(parts[t])

Goto(t, to) == pc' = [pc EXCEPT ![t] = to]
GoFrom(t, from, to) == pc[t] = from /\ Goto(t, to)

-----------------------------------------------------------------------------
(* The lock.                                                               *)

Lock(t) == dataLock = None /\ dataLock' = t

\* Whoever unlocks, the lock is free afterwards.
Unlock == dataLock' = None

\* The unlock at the end of checkMemRead, by a thread that is in no other callback.
checkMemRead(t) ==
    /\ pc[t] = "idle"
    /\ dataLock # None => strays < MaxStrays
    /\ strays' = IF dataLock = None THEN strays ELSE strays + 1
    /\ Unlock
    /\ UNCHANGED <<treeVars, pc, parts, localVars, dumpVars, marks, marked>>

-----------------------------------------------------------------------------
(* initThread and recordRegState.                                          *)

initThread(t) ==
    /\ GoFrom(t, "initThread", "getFileBuf")
    /\ Lock(t)
    /\ UNCHANGED <<treeVars, parts, localVars, dumpVars, ghostVars>>

\* getFileBuf is called with a copy of dataBufPos.
TakePos(t) ==
    /\ GoFrom(t, "getFileBuf", "fits")
    /\ pos' = [pos EXCEPT ![t] = dataBufPos]
    /\ UNCHANGED <<dataLock, treeVars, parts, localVars, dataBuf, dataBufPos, dataFile,
                   reg, ghostVars>>

\* Variant: the test leaves out what is asked for.
Full_NoSize(p) == p >= BUF_SIZE

Full(p) == p + RESERVED > BUF_SIZE

\* Variant: the buffer is not written to the file before it is filled again.
Flushed_Not(p) == dataFile

Flushed(p) == dataFile \o [i \in 1 .. p |-> dataBuf[i - 1]]

getFileBuf(t) ==
    /\ GoFrom(t, "fits", "printDataReg")
    /\ \/ /\ Full(pos[t])
          /\ dataFile' = Flushed(pos[t])
          /\ pos' = [pos EXCEPT ![t] = 0]
       \/ ~Full(pos[t]) /\ UNCHANGED <<dataFile, pos>>
    /\ reg' = [reg EXCEPT ![t] = 1]
    /\ UNCHANGED <<dataLock, treeVars, parts, localVars, dataBuf, dataBufPos, ghostVars>>

printDataReg(t) ==
    /\ pc[t] = "printDataReg" /\ reg[t] <= NumRegs
    /\ dataBuf' = [dataBuf EXCEPT ![pos[t]] = <<t, reg[t]>>]
    /\ pos' = [pos EXCEPT ![t] = @ + 1]
    /\ reg' = [reg EXCEPT ![t] = @ + 1]
    /\ UNCHANGED <<dataLock, treeVars, pc, parts, localVars, dataBufPos, dataFile, ghostVars>>

\* The end of recordRegState.
StorePos(t) ==
    /\ reg[t] > NumRegs
    /\ GoFrom(t, "printDataReg", "unlockDump")
    /\ dataBufPos' = pos[t]
    /\ UNCHANGED <<dataLock, treeVars, parts, localVars, dataBuf, dataFile, pos, reg, ghostVars>>

\* The end of initThread; the thread is initialized.
UnlockDump(t) ==
    /\ GoFrom(t, "unlockDump", "idle")
    /\ Unlock
    /\ UNCHANGED <<treeVars, parts, localVars, dumpVars, ghostVars>>

-----------------------------------------------------------------------------
(* recordMemWrite: the mark of one write.                                  *)

recordMemWrite(t, m) ==
    /\ GoFrom(t, "idle", "lockMark")
    /\ Len(marks) < MaxMarks
    /\ parts' = [parts EXCEPT ![t] = m]
    /\ marks' = Append(marks, [by |-> t, parts |-> m])
    /\ UNCHANGED <<dataLock, treeVars, localVars, dumpVars, marked, strays>>

LockMark(t) ==
    /\ GoFrom(t, "lockMark", "setSeen")
    /\ Lock(t)
    /\ UNCHANGED <<treeVars, parts, localVars, dumpVars, ghostVars>>

\* storeSeen8 and its likes for the next part: getQMForWriting looks whether the SM
\* is the default one.
checkSM(t) ==
    /\ pc[t] = "setSeen" /\ parts[t] # << >>
    /\ LET s == PM[Part1(t).pm]
       IN  /\ Goto(t, IF s = Default THEN "copySM" ELSE "checkTM")
           /\ sm' = [sm EXCEPT ![t] = s]
    /\ UNCHANGED <<dataLock, treeVars, parts, tm, qm, old, dumpVars, ghostVars>>

\* ... the TM, in the SM just seen or the one that is there now ...
checkTM(t) ==
    /\ pc[t] = "checkTM"
    /\ \E s \in {sm[t], PM[Part1(t).pm]} :
          LET m == SM[s][Part1(t).sm]
          IN  /\ Goto(t, IF m = Default THEN "copyTM" ELSE "checkQM")
              /\ sm' = [sm EXCEPT ![t] = s]
              /\ tm' = [tm EXCEPT ![t] = m]
    /\ UNCHANGED <<dataLock, treeVars, parts, qm, old, dumpVars, ghostVars>>

\* Variant: the test for the default QM is forgotten.
is_DQM_Forgotten(q) == FALSE

is_DQM(q) == q = Default

\* ... and the QM.
checkQM(t) ==
    /\ pc[t] = "checkQM"
    /\ \E m \in {tm[t], SM[sm[t]][Part1(t).sm]} :
          LET q == TM[m][Part1(t).tm]
          IN  /\ Goto(t, IF is_DQM(q) THEN "copyQM" ELSE "returnQM")
              /\ tm' = [tm EXCEPT ![t] = m]
              /\ qm' = [qm EXCEPT ![t] = q]
    /\ UNCHANGED <<dataLock, treeVars, parts, sm, old, dumpVars, ghostVars>>

returnQM(t) ==
    /\ GoFrom(t, "returnQM", "load")
    /\ \E q \in {qm[t], TM[tm[t]][Part1(t).tm]} : qm' = [qm EXCEPT ![t] = q]
    /\ UNCHANGED <<dataLock, treeVars, parts, sm, tm, old, dumpVars, ghostVars>>

-----------------------------------------------------------------------------
(* The three forms of copyForWriting, for a default SM, TM or QM.  The     *)
(* first page is copied from the default page the test saw, or from what   *)
(* has come to its place since; those below it from what the copy above    *)
(* has in their slot.  Then they are put in their places from the top.     *)

\* Variant: the page is handed out before it is made.
Copied_Not(pages, p) == pages

Copied(pages, p) == Append(pages, pages[p])

CopySM(t) ==
    /\ GoFrom(t, "copySM", "copyTM of SM")
    /\ \E s \in {sm[t], PM[Part1(t).pm]} : SM' = Copied(SM, s)
    /\ sm' = [sm EXCEPT ![t] = Len(SM) + 1]
    /\ UNCHANGED <<dataLock, PM, TM, QM, parts, tm, qm, old, dumpVars, ghostVars>>

CopyTM(t) ==
    /\ \/ /\ GoFrom(t, "copyTM of SM", "copyQM of SM")
          /\ TM' = Copied(TM, SM[sm[t]][Part1(t).sm])
       \/ /\ GoFrom(t, "copyTM", "copyQM of TM")
          /\ \E m \in {tm[t], SM[sm[t]][Part1(t).sm]} : TM' = Copied(TM, m)
    /\ tm' = [tm EXCEPT ![t] = Len(TM) + 1]
    /\ UNCHANGED <<dataLock, PM, SM, QM, parts, sm, qm, old, dumpVars, ghostVars>>

CopyQM(t) ==
    /\ \/ /\ GoFrom(t, "copyQM of SM", "linkSM") \/ GoFrom(t, "copyQM of TM", "linkTM")
          /\ QM' = Copied(QM, TM[tm[t]][Part1(t).tm])
       \/ /\ GoFrom(t, "copyQM", "linkQM")
          /\ \E q \in {qm[t], TM[tm[t]][Part1(t).tm]} : QM' = Copied(QM, q)
    /\ qm' = [qm EXCEPT ![t] = Len(QM) + 1]
    /\ UNCHANGED <<dataLock, PM, SM, TM, parts, sm, tm, old, dumpVars, ghostVars>>

LinkSM(t) ==
    /\ GoFrom(t, "linkSM", "linkTM")
    /\ PM' = [PM EXCEPT ![Part1(t).pm] = sm[t]]
    /\ UNCHANGED <<dataLock, SM, TM, QM, parts, localVars, dumpVars, ghostVars>>

LinkTM(t) ==
    /\ GoFrom(t, "linkTM", "linkQM")
    /\ SM' = [SM EXCEPT ![sm[t]][Part1(t).sm] = tm[t]]
    /\ UNCHANGED <<dataLock, PM, TM, QM, parts, localVars, dumpVars, ghostVars>>

LinkQM(t) ==
    /\ GoFrom(t, "linkQM", "load")
    /\ TM' = [TM EXCEPT ![tm[t]][Part1(t).tm] = qm[t]]
    /\ UNCHANGED <<dataLock, PM, SM, QM, parts, localVars, dumpVars, ghostVars>>

-----------------------------------------------------------------------------
(* The store, curQM->seen[i] = (curQM->seen[i] & ...) | ..., is a load of  *)
(* the byte and a store of it.                                             *)

LoadByte(t) ==
    /\ GoFrom(t, "load", "store")
    /\ old' = [old EXCEPT ![t] = QM[qm[t]][Part1(t).byte]]
    /\ UNCHANGED <<dataLock, treeVars, parts, sm, tm, qm, dumpVars, ghostVars>>

\* Variant: the other bits of the byte are not kept.
Merged_Overwrites(byte, bits) == bits

Merged(byte, bits) == byte \cup bits

StoreByte(t) ==
    /\ GoFrom(t, "store", "setSeen")
    /\ QM' = [QM EXCEPT ![qm[t]][Part1(t).byte] = Merged(old[t], Part1(t).bits)]
    /\ parts' = [parts EXCEPT ![t] = Tail(@)]
    /\ UNCHANGED <<dataLock, PM, SM, TM, localVars, dumpVars, ghostVars>>

\* The end of recordMemWrite.
UnlockMark(t) ==
    /\ parts[t] = << >>
    /\ GoFrom(t, "setSeen", "idle")
    /\ Unlock
    /\ marked' = marked \cup {k \in DOMAIN marks :
                                marks[k].by = t /\ \A l \in DOMAIN marks : marks[l].by = t => l <= k}
    /\ UNCHANGED <<treeVars, parts, localVars, dumpVars, marks, strays>>

-----------------------------------------------------------------------------

NoBits == [i \in SeenBytes |-> {}]
AllDefault == [i \in Slots |-> Default]

Init ==
    /\ dataLock = None
    /\ PM = AllDefault
    /\ SM = <<AllDefault>> /\ TM = <<AllDefault>> /\ QM = <<NoBits>>
    /\ pc = [t \in Threads |-> "initThread"]
    /\ parts = [t \in Threads |-> << >>]
    /\ sm = [t \in Threads |-> Default]
    /\ tm = [t \in Threads |-> Default]
    /\ qm = [t \in Threads |-> Default]
    /\ old = [t \in Threads |-> {}]
    /\ dataBuf = [i \in 0 .. BUF_SIZE - 1 |-> << >>]
    /\ dataBufPos = 0
    /\ dataFile = << >>
    /\ pos = [t \in Threads |-> 0]
    /\ reg = [t \in Threads |-> 1]
    /\ marks = << >> /\ marked = {} /\ strays = 0

\* The dump of a new thread's registers.
Dump(t) ==
    initThread(t) \/ TakePos(t) \/ getFileBuf(t) \/ printDataReg(t) \/ StorePos(t) \/ UnlockDump(t)

getQMForWriting(t) ==
    \/ checkSM(t) \/ checkTM(t) \/ checkQM(t) \/ returnQM(t)
    \/ CopySM(t) \/ CopyTM(t) \/ CopyQM(t) \/ LinkSM(t) \/ LinkTM(t) \/ LinkQM(t)

Mark(t) == LockMark(t) \/ getQMForWriting(t) \/ LoadByte(t) \/ StoreByte(t) \/ UnlockMark(t)

Next ==
    \E t \in Threads :
        \/ Dump(t) \/ Mark(t) \/ checkMemRead(t)
        \/ \E m \in Marks : recordMemWrite(t, m)

Spec == Init /\ [][Next]_vars

-----------------------------------------------------------------------------
(* Properties.                                                             *)

TreeTypeOK ==
    /\ SM # << >> /\ TM # << >> /\ QM # << >>
    /\ PM \in [Slots -> DOMAIN SM]
    /\ SM \in Seq([Slots -> DOMAIN TM])
    /\ TM \in Seq([Slots -> DOMAIN QM])
    /\ QM \in Seq([SeenBytes -> SUBSET Bits])
    /\ sm \in [Threads -> DOMAIN SM]
    /\ tm \in [Threads -> DOMAIN TM]
    /\ qm \in [Threads -> DOMAIN QM]

OtherTypeOK ==
    /\ dataLock \in Threads \cup {None}
    /\ DOMAIN pc = Threads
    /\ parts \in [Threads -> Seq(Part)]
    /\ old \in [Threads -> SUBSET Bits]
    /\ DOMAIN dataBuf = 0 .. BUF_SIZE - 1
    /\ dataBufPos \in Nat
    /\ pos \in [Threads -> Nat] /\ reg \in [Threads -> Nat \ {0}]
    /\ strays \in Nat

\* Types; slots and local pointers name pages that have been allocated.
TypeOK == TreeTypeOK /\ OtherTypeOK

\* "They are initialized to the default value which will never change": whatever
\* threads meet in the tree, no mark goes through to the pages all addresses share.
DefaultsNeverChange ==
    SM[Default] = AllDefault /\ TM[Default] = AllDefault /\ QM[Default] = NoBits

\* The dump stays in its buffer, also when two threads fill it at once, each from
\* its own copy of dataBufPos.
DumpInBounds ==
    \A t \in Threads :
        pc[t] = "printDataReg" /\ reg[t] <= NumRegs => pos[t] \in 0 .. BUF_SIZE - 1

Inside(t) == pc[t] \notin {"initThread", "lockMark", "idle"}

\* As long as no memory read has freed the lock under its holder, it excludes.
ExclusiveUntilStrayed ==
    strays = 0 => \A t, u \in Threads : Inside(t) /\ Inside(u) => t = u

Byte(p) == QM[TM[SM[PM[p.pm]][p.sm]][p.tm]][p.byte]

\* Until then a write that was recorded stays marked, whatever other threads mark
\* in the same byte, page or subtree.
MarksKeptUntilStrayed ==
    strays = 0 =>
        \A k \in marked : \A i \in DOMAIN marks[k].parts :
            marks[k].parts[i].bits \subseteq Byte(marks[k].parts[i])

\* Even afterwards marks are only lost, never made up: a bit that is set was asked
\* for at this very address.
SeenOnlyIfMarked ==
    \A p \in Slots, s \in Slots, m \in Slots, b \in SeenBytes :
        Byte([pm |-> p, sm |-> s, tm |-> m, byte |-> b]) \subseteq
            UNION {UNION {part.bits : part \in
                {marks[k].parts[i] : i \in {j \in DOMAIN marks[k].parts :
                    LET q == marks[k].parts[j]
                    IN  <<q.pm, q.sm, q.tm, q.byte>> = <<p, s, m, b>>}}} : k \in DOMAIN marks}

Written == dataFile \o [i \in 1 .. dataBufPos |-> dataBuf[i - 1]]
Initialized(t) == pc[t] \notin {"initThread", "getFileBuf", "fits", "printDataReg", "unlockDump"}

\* Until then the dump of every thread is in the file or the buffer, once, whole and
\* in one piece.
DumpsWholeUntilStrayed ==
    strays = 0 /\ dataLock = None =>
        /\ \A i \in DOMAIN Written :
              /\ Written[i][2] = ((i - 1) % NumRegs) + 1
              /\ Written[i][2] > 1 => Written[i - 1][1] = Written[i][1]
        /\ \A t \in Threads : Initialized(t) =>
              Cardinality({i \in DOMAIN Written : Written[i] = <<t, 1>>}) = 1
=============================================================================
