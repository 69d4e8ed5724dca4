---------------------------- MODULE MCSynchronized ----------------------------
(***************************************************************************)
(* Three threads, one of which keeps guards, and objects at 1, 2, ...      *)
(***************************************************************************)
EXTENDS Synchronized, TLC
CONSTANTS ta, tb, tc, x, y
MCThreads == {ta, tb, tc}
MCHolders == {tc}
MCObjects == {1, 2}
MCValues == {x, y}
MCSymmetry == Permutations({ta, tb})    \* neither of them keeps guards
=============================================================================
