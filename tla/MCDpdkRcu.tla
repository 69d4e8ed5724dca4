------------------------------ MODULE MCDpdkRcu ------------------------------
(***************************************************************************)
(* Two readers, 0 and 1, and a thread w that only updates.                 *)
(***************************************************************************)
EXTENDS DpdkRcu

CONSTANT w    \* an updater thread that is not a reader

MCEveryone == {0, 1, w}
MCWriterOnly == {w}
MCReaders == {0, 1}
MCNone == {}
=============================================================================
