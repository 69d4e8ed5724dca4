----------------------------- MODULE MCSpscRing -----------------------------
(***************************************************************************)
(* A ring whose owners count its elements, and one a third thread counts.  *)
(***************************************************************************)
EXTENDS SpscRing

CONSTANTS x, y    \* two elements

MCValues == {x, y}
MCOwners == {"producer", "consumer"}
MCOther == {"other"}
=============================================================================
