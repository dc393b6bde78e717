------------------------- MODULE MCInstrumentation -------------------------
(***************************************************************************)
(* Eight instructions of five functions and one without a name.  A table   *)
(* of 4 grows twice, at the second and the fifth name; one of 16 holds the *)
(* empty string and four names before it grows at the fifth.  Hash values  *)
(* have six bits and a name hashes like one character: the FNV step is an  *)
(* exclusive or and a multiplication by the prime 16777619, which is 19    *)
(* modulo 64.  The characters of f and m differ by 16, so that in a table  *)
(* of 16 each of their probes meets the same index.                        *)
(***************************************************************************)
EXTENDS Instrumentation, Bitwise

MCHashSize == 64
MCNames == {"f", "g", "h", "m", "js::jit"}
Char(s) == CASE s = "f" -> 3 [] s = "g" -> 17 [] s = "h" -> 11
             [] s = "m" -> 19 [] OTHER -> 23
FNV == [s \in MCNames |-> [h \in 0 .. MCHashSize - 1 |-> ((h ^^ Char(s)) * 19) % MCHashSize]]
MCMix(s, h) == FNV[s][h]
MCLength(s) == IF s = "js::jit" THEN 7 ELSE 1

MCCode == 0 .. 7
MCFnOf(a) == CASE a = 0 -> Empty [] a = 1 -> "js::jit" [] a = 2 -> "f"
               [] a = 3 -> "g" [] a = 4 -> "h" [] a = 5 -> "m"
               [] a \in {6, 7} -> "f"

\* What the theorems take from the hash, at every capacity the table has here.
ASSUME ProbesSpread == \A capacity \in {4, 16, 64} : SpreadOver(capacity)
=============================================================================
