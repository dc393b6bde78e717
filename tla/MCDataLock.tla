----------------------------- MODULE MCDataLock -----------------------------
(***************************************************************************)
(* An instance of DataLock: marks in one byte, in two bytes of one QM, and *)
(* in pages that part at each level of the tree.                           *)
(***************************************************************************)
EXTENDS DataLock, TLC

P(p, s, m, bits) == [pm |-> p, sm |-> s, tm |-> m, byte |-> 0, bits |-> bits]

MCMarks == {<<P(0, 0, 0, {0})>>,
            <<P(0, 0, 0, {7}), P(0, 0, 1, {0})>>,   \* across the end of a QM
            <<P(0, 1, 0, {0})>>}

\* No property tells the threads apart.
ThreadsAlike == Permutations(Threads)
=============================================================================
