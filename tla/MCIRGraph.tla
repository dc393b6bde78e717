----------------------------- MODULE MCIRGraph -----------------------------
(***************************************************************************)
(* Instances of IRGraph.  Each scenario is a set of instructions that a    *)
(* compiler may execute in any order and any number of times.  Block A is  *)
(* 10..12 and block B is 20..22.                                           *)
(***************************************************************************)
EXTENDS IRGraphRefinement

W(l, v, s, rs, c) == [loc |-> l, val |-> v, size |-> s, regs |-> rs, create |-> c]
R(l, v, s, f) == [loc |-> l, val |-> v, size |-> s, former |-> f]
A(a, s, b) == [addr |-> a, size |-> s, nonIR |-> b]
P(rs, c) == [regs |-> rs, create |-> c]

None == {}
Blocks == {A(10, 3, FALSE), A(20, 3, FALSE)}

(* SpiderMonkey: the opcode is a 2-byte write of a creator function with    *)
(* the node's address in a register.                                        *)
OpA == W(11, 5, 2, <<10>>, TRUE)
OpB == W(21, 6, 2, <<20>>, TRUE)

(* Edges: B may be born with an edge to A; slot 12 of A receives addresses  *)
(* of nodes, 0 and a pointer to something else; A may be wiped.             *)
EdgeWrites ==
    {OpA, OpB, W(22, 10, 8, <<20, 10>>, TRUE),
     W(12, 20, 8, <<10>>, FALSE), W(12, 10, 8, <<10>>, FALSE),
     W(12, 0, 8, <<10>>, FALSE), W(12, 99, 8, <<10>>, FALSE),
     W(10, 0, 8, <<10>>, FALSE)}

(* V8: an operator object holds the 2-byte opcode and a node's address      *)
(* holds a pointer to one: 1 and 2 are operators, at 31 and 32.  The slots  *)
(* 12 and 13 receive values before and after the node is formed; a read     *)
(* goes into the block or returns an address of it.                         *)
OperatorWrites ==
    {W(31, 5, 2, <<1>>, FALSE), W(32, 6, 2, <<2>>, FALSE),
     W(10, 1, 8, <<10>>, TRUE), W(10, 2, 8, <<10>>, FALSE)}
ValueWrites ==
    OperatorWrites \cup {W(12, 7, 4, <<10>>, FALSE), W(12, 8, 4, <<10>>, FALSE),
                         W(13, 7, 4, <<10>>, TRUE)}
ValueReads == {R(11, 3, 4, FALSE), R(40, 11, 8, FALSE)}
ValuePlain == {P(<<10>>, FALSE)}
ValueBlocks == {A(10, 4, FALSE), A(10, 5, FALSE)}

(* SpiderMonkey stores the opcode in the block, and may store another.      *)
OpcodeWrites == {OpA, W(11, 9, 2, <<10>>, FALSE)}

OpcodeBlocks == {A(10, 3, FALSE)}

(* JavaScriptCore: a former function reads the 4-byte opcode back.  Block A *)
(* is wiped and given out again, and gets an edge to B.                     *)
ReuseReads == {R(11, 5, 4, TRUE), R(21, 6, 4, TRUE)}
Formers == {P(<<10>>, TRUE), P(<<20>>, TRUE)}
ReuseWrites == {W(10, 0, 8, <<10>>, FALSE), W(12, 20, 8, <<10>>, FALSE)}
============================================================================
