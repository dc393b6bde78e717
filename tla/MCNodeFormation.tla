-------------------------- MODULE MCNodeFormation --------------------------
(***************************************************************************)
(* A word of six bits (Base = 2), an address of four: addresses 4 to 7 and *)
(* 12 to 15 have their third byte set, 8 to 11 have not and are rejected.  *)
(* Those from 8 on have their last byte set and can be restored.           *)
(***************************************************************************)
EXTENDS NodeFormation

\* What NodeFormationProofs proves of the conversions, for this word.
ASSUME ConversionsOfSixBits == Conversions
=============================================================================
