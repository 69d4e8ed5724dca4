----------------------------- MODULE MCLibraries -----------------------------
(***************************************************************************)
(* An instance of Libraries for TLC.                                       *)
(***************************************************************************)
EXTENDS Libraries

CONSTANTS b1, b2,              \* blocks
          r1, r2,              \* resources
          s, a1, a2            \* an owner of an object and two of arrays

MCBlocks == {b1, b2}
MCResources == {r1, r2}
MCSingles == {s}
MCArrays == {a1, a2}

(* ip4 addresses fit a word, ip6 addresses do not.                         *)
MCAddrTypes == {"ip4", "ip6"}
MCNumBytes == [ip4 |-> 2, ip6 |-> 4]
MCStrLen == [ip4 |-> 4, ip6 |-> 8]
MCNumbers == [ip4 |-> {1, 6, 8, 15}, ip6 |-> {1, 27, 228}]
=============================================================================
