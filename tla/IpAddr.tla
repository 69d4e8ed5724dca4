------------------------------- MODULE IpAddr -------------------------------
(***************************************************************************)
(* frk::net::ip4_addr and ip6_addr, which differ in the number of bytes    *)
(* and of characters only (T is one of the two): an address is its bytes   *)
(* in network order.  Every operation that goes through an integer depends *)
(* on the byte order of the machine it runs on (little).                   *)
(***************************************************************************)
EXTENDS Endian

CONSTANTS AddrTypes,   \* ip4_addr and ip6_addr
          NumBytes,    \* cnt_bytes of each
          StrLen,      \* str_len of each: the longest text and its terminating NUL
          NoAddr       \* std::nullopt, and what no address is a text of

(* An integer longer than a word has two halves, and a text has room for   *)
(* more than its NUL.                                                      *)
ASSUME AddrTypesAssumption ==
  \A T \in AddrTypes :
    /\ NumBytes[T] \in Nat \ {0}
    /\ NumBytes[T] > WordBytes => NumBytes[T] % 2 = 0
    /\ StrLen[T] \in Nat \ {0, 1}

Addrs(T) == [1 .. NumBytes[T] -> Bytes]
CntBits(T) == NumBytes[T] * ByteBits

AddrFromBe(T, little, v) == ToMemory(little, NumBytes[T], v)
to_be_integer(T, little, a) == FromMemory(little, NumBytes[T], a)

(* Mutant: the integer is taken as it is.                                  *)
AddrFromNativeUnswapped(T, little, v) == AddrFromBe(T, little, v)
AddrFromNative(T, little, v) == AddrFromBe(T, little, to_be(little, NumBytes[T], v))
to_native_integer(T, little, a) ==
  from_be(little, NumBytes[T], to_be_integer(T, little, a))

(* integer_type(1) << n.  A shift by the whole width, which a prefix of no *)
(* bits asks for, is undefined: the processor shifts by n modulo the       *)
(* width, and a compiler that knows n may let the bit fall out.            *)
OneShifted(T, n) == IF n < CntBits(T) THEN {Power(2, n)} ELSE {1, 0}

(* Mutant: the mask has one bit too many.                                  *)
HostMasksLonger(T, nbits) ==
  {(2 * x - 1) % Power(2, CntBits(T)) : x \in OneShifted(T, CntBits(T) - nbits)}
HostMasks(T, nbits) ==
  {(x - 1) % Power(2, CntBits(T)) : x \in OneShifted(T, CntBits(T) - nbits)}

(* v & ~m for a mask m of low bits.                                        *)
AndNot(v, m) == v - (v % (m + 1))

(* mask(prefix_len{nbits}): the results the build can produce.             *)
Masked(T, little, a, nbits) ==
  {AddrFromNative(T, little, AndNot(to_native_integer(T, little, a), m)) :
     m \in HostMasks(T, nbits)}

AddrLess(T, little, a, b) == to_be_integer(T, little, a) < to_be_integer(T, little, b)
AddrEqual(T, little, a, b) == to_be_integer(T, little, a) = to_be_integer(T, little, b)

(* A text is its length and what inet_pton reads in it; inet_ntop writes   *)
(* one that leaves room for the NUL.                                       *)
FormatAddr(T, a) == {[addr |-> a, len |-> n] : n \in {1, StrLen[T] - 1}}

(* Mutant: the terminating NUL is counted twice.                           *)
FromStringShorter(T, t) == IF t.len + 1 >= StrLen[T] THEN NoAddr ELSE t.addr
from_string(T, t) == IF t.len >= StrLen[T] THEN NoAddr ELSE t.addr
=============================================================================
