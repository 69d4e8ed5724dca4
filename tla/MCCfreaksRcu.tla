----------------------------- MODULE MCCfreaksRcu -----------------------------
(***************************************************************************)
(* Readers 0 and 1, and updater threads that read or do not.               *)
(***************************************************************************)
EXTENDS CfreaksRcu

CONSTANTS w, x    \* updater threads that are not readers

MCWriter == {w}
MCWriters == {w, x}
MCReaderAndWriter == {0, w}
=============================================================================
