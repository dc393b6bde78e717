--------------------------- MODULE MCShadowMemory ---------------------------
(***************************************************************************)
(* Pages of 16 slots.  The marks: one byte; four bytes across two QMs, and *)
(* over the first; eight bytes across two TMs; twenty bytes across two SMs *)
(* with bytes before and after the aligned word; eight aligned bytes.      *)
(***************************************************************************)
EXTENDS ShadowMemory

MCWrites == {<<15, 1>>, <<14, 4>>, <<254, 8>>, <<4086, 20>>, <<40, 8>>}
=============================================================================
