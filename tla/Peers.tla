-------------------------------- MODULE Peers --------------------------------
(***************************************************************************)
(* Machines of both byte orders that hand one address and port, of either  *)
(* type of address, to each other, as a sockaddr, as little-endian numbers *)
(* or as text, take it apart and put it together again, and mask it, in    *)
(* any order.                                                              *)
(***************************************************************************)
EXTENDS IpAddrPort

CONSTANTS Numbers,        \* addresses of each type, as numbers
          PortNumbers,    \* ports, as numbers
          NoText

ASSUME NumbersAssumption ==
  /\ \A T \in AddrTypes : Numbers[T] \subseteq Unsigned(NumBytes[T])
  /\ PortNumbers \subseteq Ports

VARIABLES
  type,      \* the type of the addresses
  little,    \* the byte order of the machine that has the peer
  peer,      \* the ip4_addr_port or ip6_addr_port
  text,      \* the last text that was written
  known      \* ghost: the numbers the peer was made from, the shortest
             \* prefix it was masked with, and whether a prefix was empty

netVars == <<type, little, peer, text, known>>

Knowledge(T) == [num : Numbers[T], port : PortNumbers, plen : 0 .. CntBits(T),
                 wild : BOOLEAN]

NetTypeOK ==
  /\ type \in AddrTypes
  /\ little \in BOOLEAN
  /\ peer \in AddrPorts(type)
  /\ known \in Knowledge(type)
  /\ text \in {NoText} \cup [addr : Addrs(type), len : 0 .. StrLen[type] - 1,
                             port : Ports, whole : BOOLEAN, of : Knowledge(type)]

NetInit ==
  /\ type \in AddrTypes
  /\ little \in BOOLEAN
  /\ known \in [num : Numbers[type], port : PortNumbers, plen : {CntBits(type)},
                wild : {FALSE}]
  /\ peer = AddrPortFromNative(type, little, known.num, known.port)
  /\ text = NoText

Native == to_native_integer(type, little, peer.addr_)

Rebuild ==
  /\ peer' = AddrPortFromNative(type, little, Native, NativePort(little, peer))
  /\ UNCHANGED <<type, little, text, known>>

Mask(nbits) ==
  /\ \E a \in Masked(type, little, peer.addr_, nbits) :
       peer' = AddrPortFromBe(a, peer.port_)
  /\ known' = [known EXCEPT !.plen = IF nbits \in 1 .. @ THEN nbits ELSE @,
                            !.wild = @ \/ nbits = 0]
  /\ UNCHANGED <<type, little, text>>

Send ==
  /\ little' \in BOOLEAN
  /\ peer' = FromSockaddr(little', to_sockaddr_in(little, peer))
  /\ UNCHANGED <<type, text, known>>

(* A number stored with to_le on one machine, loaded with from_le on       *)
(* another.                                                                *)
Relayed(to, n, v) ==
  from_le(to, n, FromMemory(to, n, ToMemory(little, n, to_le(little, n, v))))

Relay ==
  /\ little' \in BOOLEAN
  /\ peer' = AddrPortFromNative(type, little', Relayed(little', NumBytes[type], Native),
                 Relayed(little', PortBytes, NativePort(little, peer)))
  /\ UNCHANGED <<type, text, known>>

WriteText ==
  /\ \E t \in Format(type, little, peer) :
       text' = [addr |-> t.addr, len |-> t.len, port |-> t.port,
                whole |-> t.whole, of |-> known]
  /\ UNCHANGED <<type, little, peer, known>>

Parse ==
  /\ text # NoText
  /\ from_string(type, text) # NoAddr
  /\ little' \in BOOLEAN
  /\ peer' = AddrPortFromBe(from_string(type, text), to_be(little', PortBytes, text.port))
  /\ known' = text.of
  /\ UNCHANGED <<type, text>>

NetNext ==
  \/ Rebuild
  \/ \E nbits \in 0 .. CntBits(type) : Mask(nbits)
  \/ Send
  \/ Relay
  \/ WriteText
  \/ Parse

NetSpec == NetInit /\ [][NetNext]_netVars

-----------------------------------------------------------------------------
(* Properties.                                                             *)

(* The first plen bits of the number, the rest 0, most significant byte    *)
(* first.                                                                  *)
Network(T, k) ==
  ToMemory(FALSE, NumBytes[T], k.num - (k.num % Power(2, CntBits(T) - k.plen)))
Everything(T) == [i \in 1 .. NumBytes[T] |-> 0]

IsNetwork(T, a, k) == a = Network(T, k) \/ (k.wild /\ a = Everything(T))

(* Wherever the peer has been, its bytes are those of the network it was   *)
(* masked to and of its port, the same on machines of either byte order;   *)
(* an empty prefix clears the address or leaves it alone, as the build     *)
(* has it.                                                                 *)
SameNetwork ==
  /\ IsNetwork(type, peer.addr_, known)
  /\ ToMemory(little, PortBytes, peer.port_) = ToMemory(FALSE, PortBytes, known.port)

(* What the formatters write is complete and from_string takes it back,    *)
(* the longest texts too.                                                  *)
TextTakenBack ==
  text # NoText => /\ text.whole
                   /\ IsNetwork(type, from_string(type, text), text.of)
                   /\ text.port = text.of.port

(* operator<=> orders the peers of a machine totally, and calls equal what *)
(* has the same number and port; a big-endian machine's order is that of   *)
(* the numbers.                                                            *)
OrderTotal ==
  \A n \in Numbers[type], p \in PortNumbers :
    LET other == AddrPortFromNative(type, little, n, p)
        same == Native = n /\ known.port = p
        less == AddrPortLess(type, little, peer, other)
        more == AddrPortLess(type, little, other, peer)
    IN /\ AddrPortEqual(type, little, peer, other) <=> same
       /\ ~same => less # more
       /\ same => ~less /\ ~more
       /\ ~little => (less <=> Native < n \/ (Native = n /\ known.port < p))
=============================================================================
