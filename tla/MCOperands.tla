----------------------------- MODULE MCOperands -----------------------------
(***************************************************************************)
(* Instructions of up to two operands, and the two that store and load the *)
(* environment of the floating point unit.  A byte has four bits, so that  *)
(* the capacity of a vector wraps at the ninth register, which FNSTENV     *)
(* reaches with a base register.                                           *)
(***************************************************************************)
EXTENDS Operands

MCLengths == {2, 4, 8, 16}
MCRegs == NamedRegs \cup {"RAX", "RBX"}

Op(k, rw, rs) == [kind |-> k, rw |-> rw, regs |-> rs]

Memory == {Op("memory", "R", <<"RBX", NoReg, NoReg>>),
           Op("memory", "W", <<"RBX", "RAX", NoReg>>),
           Op("memory", "RW", <<IP, NoReg, NoReg>>)}
Registers == {Op("reg", "RW", <<"RAX">>), Op("reg", "R", <<"RBX">>),
              Op("reg", "W", <<"RAX">>), Op("reg", "W", <<GFLAGS>>),
              Op("reg", "R", <<LYNX_INVALID>>)}
Others == {Op("address", "R", <<"RAX", "RBX", NoReg>>),
           Op("implicit", "RW", <<"STACKPUSH">>), Op("implicit", "W", <<"X87PUSH">>),
           Op("implicit", "R", <<"X87POP">>), Op("other", "R", << >>)}
Ops == Memory \cup Registers \cup Others

I(ops, class, flags) ==
    [operands |-> ops, class |-> class, flags |-> flags, syscall |-> FALSE,
     fallThrough |-> TRUE, taken |-> FALSE]

MCInstructions ==
    {I(<<o, p>>, "other", TRUE) : o \in Memory \cup Registers, p \in Registers}
      \cup {I(<<o>>, "other", FALSE) : o \in Ops}
      \cup {I(<<Op("memory", "W", <<"RBX", "RAX", NoReg>>)>>, "FNSTENV", FALSE),
            I(<<Op("memory", "R", <<"RBX", NoReg, NoReg>>)>>, "FLDENV", FALSE),
            I(<<Op("reg", "R", <<"RAX">>)>>, "NOP", FALSE),
            \* a conditional branch, a call and a system call
            [I(<<Op("other", "R", << >>)>>, "other", FALSE) EXCEPT !.taken = TRUE],
            [I(<<Op("memory", "R", <<"RAX", NoReg, NoReg>>),
                 Op("implicit", "RW", <<"STACKPUSH">>),
                 Op("memory", "W", <<"RSP", NoReg, NoReg>>)>>, "other", FALSE)
               EXCEPT !.taken = TRUE, !.fallThrough = FALSE],
            [I(<<Op("reg", "W", <<"RAX">>)>>, "other", FALSE)
               EXCEPT !.syscall = TRUE]}
=============================================================================
