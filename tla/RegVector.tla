----------------------------- MODULE RegVector -----------------------------
(***************************************************************************)
(* RegVector.cpp: a set of registers in an array of bytes that doubles     *)
(* when it is full.  Size and capacity are bytes too (UINT8), so doubling  *)
(* 128 leaves a capacity of 0 for an array of 256: "capacity is 255 at     *)
(* max" (RegVector.h).  The array is the sequence regs; how long it is in  *)
(* truth is kept beside what the vector takes its capacity for.            *)
(* remove, removeAll and insertAll, which nothing calls, are left out.     *)
(***************************************************************************)
EXTENDS Integers, Sequences, FiniteSets

CONSTANTS
    LynxRegs,       \* the registers LynxReg names
    LYNX_INVALID,
    ByteSize,       \* 2^8, the number of values of a UINT8
    InitCapacity,   \* 2
    Lengths         \* what doubling makes of it: 2, 4, ..., 256

(* "it assumes that a LynxReg can fit in a UINT8".                         *)
ASSUME RegsAssumption ==
    /\ IsFiniteSet(LynxRegs) /\ Cardinality(LynxRegs) < ByteSize
    /\ LYNX_INVALID \notin LynxRegs

ASSUME LengthsAssumption ==
    /\ ByteSize \in Nat /\ InitCapacity \in Lengths /\ InitCapacity < ByteSize
    /\ \A n \in Lengths :
          n \in Nat \ {0} /\ (n = ByteSize \/ (n < ByteSize /\ 2 * n \in Lengths))

Vector == [regs : Seq(LynxRegs), capacity : 0 .. ByteSize - 1, allocated : Lengths]

NewVector == [regs |-> << >>, capacity |-> InitCapacity, allocated |-> InitCapacity]

getSize(v) == Len(v.regs)

contains(v, r) == \E i \in DOMAIN v.regs : v.regs[i] = r

\* new UINT8[newCapacity], to which memcpy moves capacity bytes.
realloc(v, newCapacity) ==
    [regs |-> SubSeq(v.regs, 1, v.capacity),
     capacity |-> newCapacity % ByteSize, allocated |-> newCapacity]

\* Variant: the vector grows one insertion too late.
Grown_Late(v) == IF getSize(v) > v.capacity THEN realloc(v, v.capacity * 2) ELSE v

Grown(v) == IF getSize(v) = v.capacity THEN realloc(v, v.capacity * 2) ELSE v

\* The array grows before the register is looked for.
insert(v, r) ==
    IF r = LYNX_INVALID THEN v
    ELSE IF contains(Grown(v), r) THEN Grown(v)
    ELSE [Grown(v) EXCEPT !.regs = Append(@, r)]

-----------------------------------------------------------------------------
\* What every vector keeps: no register twice, none invalid, and all of them
\* within the array, even when the capacity has wrapped to 0.
VectorOK(v) ==
    /\ v \in Vector
    /\ \A i, j \in DOMAIN v.regs : v.regs[i] = v.regs[j] => i = j
    /\ getSize(v) <= v.allocated
    /\ v.capacity = v.allocated % ByteSize
    /\ v.capacity = 0 => v.regs # << >>
=============================================================================
