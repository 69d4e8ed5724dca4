---------------------------- MODULE MCVyukovQueue ----------------------------
(***************************************************************************)
(* Two threads that push and three that pop; one of them does both.        *)
(***************************************************************************)
EXTENDS VyukovQueue

CONSTANTS a, b, c, d, x, y

MCProducers == {a, b}
MCConsumers == {b, c, d}
MCValues == {x, y}
=============================================================================
