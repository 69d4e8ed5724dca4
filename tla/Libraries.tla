------------------------------ MODULE Libraries ------------------------------
(***************************************************************************)
(* The two sequential libraries.  They share no state, so a behaviour uses *)
(* one of them: the allocator wrappers, or the peers with addresses of one *)
(* of the types.                                                           *)
(***************************************************************************)
EXTENDS Allocation, Peers

VARIABLE library

Init ==
  /\ AllocInit
  /\ \/ /\ library = "mem"
        /\ type = NoText
        /\ little = NoText
        /\ peer = NoText
        /\ text = NoText
        /\ known = NoText
     \/ library = "net" /\ NetInit

Next ==
  /\ UNCHANGED library
  /\ \/ library = "mem" /\ AllocNext /\ UNCHANGED netVars
     \/ library = "net" /\ NetNext /\ UNCHANGED allocVars

Spec == Init /\ [][Next]_<<allocVars, netVars, library>>

(* The states of the allocations and of the peers are well formed.         *)
TypeOK == AllocTypeOK /\ (library = "net" => NetTypeOK)

(* Wherever a peer has been, its bytes are those of its network and port.  *)
PeersSameNetwork == library = "net" => SameNetwork

(* What the formatters write is complete and from_string takes it back.    *)
PeersTextTakenBack == library = "net" => TextTakenBack

(* operator<=> orders the peers of a machine totally.                      *)
PeersOrderTotal == library = "net" => OrderTotal
=============================================================================
