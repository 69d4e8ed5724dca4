----------------------------- MODULE MCReadWrite -----------------------------
(***************************************************************************)
(* Three threads that read and write.                                      *)
(***************************************************************************)
EXTENDS ReadWrite, TLC

CONSTANTS a, b, c

MCThreads == {a, b, c}
MCSymmetry == Permutations(MCThreads)
=============================================================================
