------------------------------ MODULE Operands ------------------------------
(***************************************************************************)
(* What insInstrumentation learns of an instruction and which callbacks it *)
(* schedules: getSrcDestInfo of Helpers.cpp goes through the operands,     *)
(* counts memory accesses and enters registers in two vectors, whose       *)
(* addresses are then passed to the callbacks and stay in Pin's code cache *)
(* for good.  This is where the instructions of module Tracer come from.   *)
(*                                                                         *)
(* Operands are inputs, as Pin and xed (external) describe them.  Which of *)
(* the Lynx registers a Pin or xed register stands for, and the list of    *)
(* non-terminals, is left to the input; instructions executed before the   *)
(* compiler is seen, which get no callbacks, are Instrumentation's matter. *)
(***************************************************************************)
EXTENDS RegVector, SequencesExt

CONSTANTS
    Instructions,     \* what the program may execute
    MaxInstrumented   \* bound of the model on instrumented instructions

IP     == "REG_INST_PTR"
GFLAGS == "REG_GFLAGS"
NoReg  == "REG_INVALID"     \* REG_valid is false

\* The environment of the floating point unit, in the order of getSrcDestInfo.
EnvRegs == <<"FPCW", "FPSW", "FPTAG_FULL", "FPIP_SEL", "FPIP_OFF",
             "FPDP_SEL", "FPDP_OFF", "FPOPCODE">>
NamedRegs == {"RSP", "ST0"} \cup ToSet(EnvRegs)

\* kind: what the INS_OperandIs... tests find, in their order; regs: base, index
\* and segment of an address, or the register; of an implicit operand the pseudo
\* register or what the tables make of it.
LynxReg == LynxRegs \cup {LYNX_INVALID}
Pseudo  == {"STACKPUSH", "STACKPOP", "X87PUSH", "X87POP"}
OperandOf(kinds, regs) == [kind : kinds, rw : {"R", "W", "RW"}, regs : regs]
Operand ==
    OperandOf({"memory", "address"}, Seq(LynxReg \cup {IP, NoReg}))
      \cup OperandOf({"reg"}, {<<r>> : r \in LynxReg \cup {IP, GFLAGS}})
      \cup OperandOf({"implicit"}, {<<r>> : r \in LynxReg \cup Pseudo})
      \cup OperandOf({"other"}, {<< >>})

\* flags: it writes flags; taken: it is a branch or call (no XEND) for which
\* IPOINT_TAKEN_BRANCH is valid.
ASSUME InstructionsAssumption ==
    /\ NamedRegs \subseteq LynxRegs
    /\ ({IP, GFLAGS, NoReg} \cup Pseudo) \cap LynxReg = {}
    /\ MaxInstrumented \in Nat
    /\ \A i \in Instructions :
          /\ i.operands \in Seq(Operand)
          /\ i.class \in {"NOP", "FNSTENV", "FLDENV", "other"}
          /\ {i.flags, i.syscall, i.fallThrough, i.taken} \subseteq BOOLEAN

VARIABLES
    writeDestRegs, writeMemWrites,   \* the switches
    pc,            \* "idle", "operands" or "corrected"
    ins,           \* the instruction being instrumented
    operands,      \* those it has yet to look at
    inserts,       \* insertions it has yet to make
    vectors,       \* every RegVector constructed so far
    life,          \* of each: "stack", "heap" or "freed"
    srcRegs, destRegs,   \* numbers of vectors; 0 is NULL
    memReadOps, memWriteOps,
    cached         \* external: instrumented instructions with their callbacks

switches == <<writeDestRegs, writeMemWrites>>
vars == <<switches, pc, ins, operands, inserts, vectors, life, srcRegs, destRegs,
          memReadOps, memWriteOps, cached>>

-----------------------------------------------------------------------------
(* getSrcDestInfo.                                                         *)

Into(which, regs) == [k \in DOMAIN regs |-> [into |-> which, reg |-> regs[k]]]

\* Registers of an address.  One that is skipped is entered as LYNX_INVALID, which
\* insert ignores.
AddressRegs(op) ==
    [k \in DOMAIN op.regs |-> IF op.regs[k] \in {NoReg, IP} THEN LYNX_INVALID ELSE op.regs[k]]

\* Variant: a register that is read and written is only entered as written.
ByAccess_WriteWins(regs, rw) ==
    (IF rw = "R" THEN Into("src", regs) ELSE << >>)
      \o (IF rw \in {"W", "RW"} THEN Into("dest", regs) ELSE << >>)

ByAccess(regs, rw) ==
    (IF rw \in {"R", "RW"} THEN Into("src", regs) ELSE << >>)
      \o (IF rw \in {"W", "RW"} THEN Into("dest", regs) ELSE << >>)

Implicit(op) ==
    CASE op.regs[1] \in {"STACKPUSH", "STACKPOP"} -> ByAccess(<<"RSP">>, "RW")
      [] op.regs[1] = "X87PUSH" -> Into("dest", <<"ST0", "FPSW">>)
      [] op.regs[1] = "X87POP" -> Into("src", <<"ST0">>) \o Into("dest", <<"FPSW">>)
      [] OTHER -> ByAccess(op.regs, op.rw)

Entered(op) ==
    CASE op.kind \in {"memory", "address"} -> Into("src", AddressRegs(op))
      [] op.kind = "reg" ->
            IF op.regs[1] \in {IP, GFLAGS} THEN << >> ELSE ByAccess(op.regs, op.rw)
      [] op.kind = "implicit" -> Implicit(op)
      [] OTHER -> << >>

Corrections(i) ==
    CASE i.class = "FNSTENV" -> Into("src", EnvRegs) \o Into("dest", <<"FPCW">>)
      [] i.class = "FLDENV" -> Into("dest", EnvRegs)
      [] OTHER -> << >>

\* Two vectors: on the heap, or the local one if they are not to be recorded.
Instrument(i) ==
    /\ pc = "idle"
    /\ Len(cached) < MaxInstrumented
    /\ pc' = "operands"
    /\ ins' = i
    /\ operands' = IF i.class = "NOP" THEN << >> ELSE i.operands
    /\ inserts' = << >>
    /\ vectors' = vectors \o <<NewVector, NewVector>>
    /\ life' = life \o <<"heap", IF writeDestRegs THEN "heap" ELSE "stack">>
    /\ srcRegs' = Len(vectors) + 1
    /\ destRegs' = Len(vectors) + 2
    /\ memReadOps' = 0 /\ memWriteOps' = 0
    /\ UNCHANGED <<switches, cached>>

TakeOperand ==
    /\ pc = "operands" /\ inserts = << >> /\ operands # << >>
    /\ operands' = Tail(operands)
    /\ LET op == Head(operands)
       IN  /\ inserts' = Entered(op)
           /\ memReadOps' = memReadOps
                + (IF op.kind = "memory" /\ op.rw \in {"R", "RW"} THEN 1 ELSE 0)
           /\ memWriteOps' = memWriteOps
                + (IF op.kind = "memory" /\ op.rw \in {"W", "RW"} THEN 1 ELSE 0)
    /\ UNCHANGED <<switches, pc, ins, vectors, life, srcRegs, destRegs, cached>>

Insert ==
    /\ inserts # << >>
    /\ inserts' = Tail(inserts)
    /\ LET v == IF Head(inserts).into = "src" THEN srcRegs ELSE destRegs
       IN  vectors' = [vectors EXCEPT ![v] = insert(@, Head(inserts).reg)]
    /\ UNCHANGED <<switches, pc, ins, operands, life, srcRegs, destRegs, memReadOps,
                   memWriteOps, cached>>

Correct ==
    /\ pc = "operands" /\ inserts = << >> /\ operands = << >>
    /\ pc' = "corrected"
    /\ inserts' = Corrections(ins)
    /\ UNCHANGED <<switches, ins, operands, vectors, life, srcRegs, destRegs,
                   memReadOps, memWriteOps, cached>>

-----------------------------------------------------------------------------
(* The callbacks.                                                          *)

RecordsDest == writeDestRegs /\ (getSize(vectors[destRegs]) > 0 \/ ins.flags)
EmptyDest   == RecordsDest /\ getSize(vectors[destRegs]) = 0

\* Variant: the vector is deleted, but its address is still passed.
DestArg_Deleted == destRegs

DestArg == IF EmptyDest THEN 0 ELSE destRegs

\* The callbacks it gets, in this order: whether, or with which vectors.
Callbacks ==
    [checkMemRead   |-> memReadOps = 1,
     check2MemRead  |-> memReadOps = 2,
     recordSrcRegs  |-> IF getSize(vectors[srcRegs]) > 0 THEN {srcRegs} ELSE {},
     recordDestRegs |-> IF RecordsDest THEN {DestArg} ELSE {},
     recordMemWrite |-> writeMemWrites /\ memWriteOps = 1,
     analyzeAfter   |-> ~ins.syscall /\ ins.fallThrough,
     analyzeTaken   |-> ~ins.syscall /\ ins.taken]

\* insInstrumentation returns: what lay on its stack is gone.
Schedule ==
    /\ pc = "corrected" /\ inserts = << >>
    /\ pc' = "idle"
    /\ cached' = Append(cached, [ins |-> ins, calls |-> Callbacks])
    /\ life' = [v \in DOMAIN life |->
                  IF life[v] = "stack" \/ (EmptyDest /\ v = destRegs) THEN "freed"
                  ELSE life[v]]
    /\ destRegs' = DestArg
    /\ UNCHANGED <<switches, ins, operands, inserts, vectors, srcRegs, memReadOps,
                   memWriteOps>>

-----------------------------------------------------------------------------
\* checkSelections: the switches have defaults and an option each.
Init ==
    /\ writeDestRegs \in BOOLEAN /\ writeMemWrites \in BOOLEAN
    /\ pc = "idle"
    /\ ins \in Instructions
    /\ operands = << >> /\ inserts = << >>
    /\ vectors = << >> /\ life = << >>
    /\ srcRegs = 0 /\ destRegs = 0
    /\ memReadOps = 0 /\ memWriteOps = 0
    /\ cached = << >>

Next ==
    \/ \E i \in Instructions : Instrument(i)
    \/ TakeOperand \/ Insert \/ Correct \/ Schedule

Spec == Init /\ [][Next]_vars

-----------------------------------------------------------------------------
(* Properties.                                                             *)

Insertion == [into : {"src", "dest"}, reg : LynxReg]

\* Types.  No RegVector ever writes outside its array or holds a register twice,
\* whatever is inserted and although its capacity may wrap (RegVector::insert).
TypeOK ==
    /\ writeDestRegs \in BOOLEAN /\ writeMemWrites \in BOOLEAN
    /\ pc \in {"idle", "operands", "corrected"}
    /\ ins \in Instructions
    /\ operands \in Seq(Operand)
    /\ inserts \in Seq(Insertion)
    /\ vectors \in Seq(Vector)
    /\ life \in Seq({"stack", "heap", "freed"}) /\ Len(life) = Len(vectors)
    /\ \A v \in DOMAIN vectors : VectorOK(vectors[v])
    /\ pc # "idle" => {srcRegs, destRegs} \subseteq DOMAIN vectors
    /\ pc = "idle" => inserts = << >>
    /\ memReadOps \in Nat /\ memWriteOps \in Nat

ReadsReg(op, r) ==
    \/ op.kind \in {"memory", "address"} /\ r \in ToSet(op.regs)
    \/ op.kind \in {"reg", "implicit"} /\ op.rw # "W" /\ op.regs = <<r>>
    \/ op.kind = "implicit" /\ op.regs[1] \in {"STACKPUSH", "STACKPOP"} /\ r = "RSP"
    \/ op.kind = "implicit" /\ op.regs = <<"X87POP">> /\ r = "ST0"

WritesReg(op, r) ==
    \/ op.kind \in {"reg", "implicit"} /\ op.rw # "R" /\ op.regs = <<r>>
    \/ op.kind = "implicit" /\ op.regs[1] \in {"STACKPUSH", "STACKPOP"} /\ r = "RSP"
    \/ op.kind = "implicit" /\ op.regs = <<"X87PUSH">> /\ r \in {"ST0", "FPSW"}
    \/ op.kind = "implicit" /\ op.regs = <<"X87POP">> /\ r = "FPSW"

\* The registers an instruction reads and writes, as sets.
SrcSet(i) ==
    {r \in LynxRegs : \/ i.class # "NOP" /\ \E op \in ToSet(i.operands) : ReadsReg(op, r)
                      \/ i.class = "FNSTENV" /\ r \in ToSet(EnvRegs)}
DestSet(i) ==
    {r \in LynxRegs : \/ i.class # "NOP" /\ \E op \in ToSet(i.operands) : WritesReg(op, r)
                      \/ i.class = "FNSTENV" /\ r = "FPCW"
                      \/ i.class = "FLDENV" /\ r \in ToSet(EnvRegs)}

\* v is a vector that is still there and holds just these registers.
Holds(v, regs) == life[v] = "heap" /\ ToSet(vectors[v].regs) = regs

CallsOK(c) ==
    /\ IF SrcSet(c.ins) = {} THEN c.calls.recordSrcRegs = {}
       ELSE \E v \in DOMAIN vectors :
               c.calls.recordSrcRegs = {v} /\ Holds(v, SrcSet(c.ins))
    /\ IF ~writeDestRegs \/ (DestSet(c.ins) = {} /\ ~c.ins.flags)
       THEN c.calls.recordDestRegs = {}
       ELSE IF DestSet(c.ins) = {} THEN c.calls.recordDestRegs = {0}
       ELSE \E v \in DOMAIN vectors :
               c.calls.recordDestRegs = {v} /\ Holds(v, DestSet(c.ins))

Args(c) == (c.calls.recordSrcRegs \cup c.calls.recordDestRegs) \ {0}

\* The callbacks in the code cache find, however long after insInstrumentation
\* returned, what the instruction reads and writes: recordSrcRegs and recordDestRegs
\* are called if there is something to record, with a vector of their own that was
\* neither on the stack nor deleted and holds these registers, NULL standing for
\* none.
CallbacksMatchOperands ==
    /\ \A k \in DOMAIN cached :
          /\ CallsOK(cached[k])
          /\ cached[k].calls.recordSrcRegs \cap cached[k].calls.recordDestRegs = {}
    /\ \A j, k \in DOMAIN cached : j < k => Args(cached[j]) \cap Args(cached[k]) = {}
=============================================================================
