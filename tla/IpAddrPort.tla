----------------------------- MODULE IpAddrPort -----------------------------
(***************************************************************************)
(* frk::net::ip4_addr_port and ip6_addr_port: an address and a port, the   *)
(* port as an integer whose bytes are in network order.                    *)
(***************************************************************************)
EXTENDS IpAddr

CONSTANTS PortBytes,     \* sizeof(__be16)
          PortDigits,    \* the longest text of a port
          BufRoom        \* how much longer than str_len the text buffer is

(* std::byteswap takes a port, and the buffer has room for one.            *)
ASSUME PortsAssumption ==
  /\ PortBytes \in 1 .. WordBytes
  /\ PortDigits \in Nat \ {0}
  /\ BufRoom \in Nat /\ BufRoom >= PortDigits

Ports == Unsigned(PortBytes)
AddrPorts(T) == [addr_ : Addrs(T), port_ : Ports]

AddrPortFromBe(addr, port) == [addr_ |-> addr, port_ |-> port]
AddrPortFromNative(T, little, v, port) ==
  [addr_ |-> AddrFromNative(T, little, v), port_ |-> to_be(little, PortBytes, port)]
NativePort(little, x) == from_be(little, PortBytes, x.port_)

(* A sockaddr is memory: what another machine gets of it are its bytes.    *)
to_sockaddr_in(little, x) ==
  [sin_addr |-> x.addr_, sin_port |-> ToMemory(little, PortBytes, x.port_)]
FromSockaddr(little, s) ==
  AddrPortFromBe(s.sin_addr, FromMemory(little, PortBytes, s.sin_port))

(* The defaulted operator<=> compares the members in their order.          *)
(* Mutant: it looks at the addresses only.                                 *)
AddrsLess(T, little, x, y) == AddrLess(T, little, x.addr_, y.addr_)
AddrPortLess(T, little, x, y) ==
  \/ AddrLess(T, little, x.addr_, y.addr_)
  \/ AddrEqual(T, little, x.addr_, y.addr_) /\ x.port_ < y.port_
AddrPortEqual(T, little, x, y) ==
  AddrEqual(T, little, x.addr_, y.addr_) /\ x.port_ = y.port_

(* Mutant: the buffer has no room for the port.                            *)
BufSizeOfAddr(T) == StrLen[T]
BufSize(T) == StrLen[T] + BufRoom

(* The text of the address, a colon and the port's digits, cut at the end  *)
(* of the buffer.                                                          *)
Format(T, little, x) ==
  {[addr |-> t.addr, len |-> t.len, port |-> NativePort(little, x),
    whole |-> t.len + 1 + d <= BufSize(T)] :
     t \in FormatAddr(T, x.addr_), d \in {1, PortDigits}}
=============================================================================
