------------------------------- MODULE Endian -------------------------------
(***************************************************************************)
(* frk::net, endian.hpp: integers of n bytes and how they lie in the       *)
(* memory of a machine, little endian or not.  An integer is a number; its *)
(* memory image is the sequence of its bytes by ascending address.         *)
(***************************************************************************)
EXTENDS Integers

CONSTANTS ByteBits,      \* the bits of a byte
          WordBytes,     \* the bytes of the longest integer std::byteswap takes
          HasBswap128    \* does the compiler have __builtin_bswap128

ASSUME BytesAssumption == {ByteBits, WordBytes} \subseteq Nat \ {0}
ASSUME HasBswap128Assumption == HasBswap128 \in BOOLEAN

(* b to the n, as a function that can be reasoned about.                   *)
Power(b, n) ==
  LET power[i \in Nat] == IF i = 0 THEN 1 ELSE b * power[i - 1]
  IN power[n]

ByteSize == Power(2, ByteBits)
Bytes == 0 .. ByteSize - 1
Unsigned(n) == 0 .. Power(ByteSize, n) - 1

(* std::bit_cast from an integer to bytes and back.                        *)
Weight(little, n, i) == Power(ByteSize, IF little THEN i - 1 ELSE n - i)
ToMemory(little, n, v) ==
  [i \in 1 .. n |-> (v \div Weight(little, n, i)) % ByteSize]
FromMemory(little, n, m) ==
  LET sum[i \in 0 .. n] ==
        IF i = 0 THEN 0 ELSE sum[i - 1] + m[i] * Weight(little, n, i)
  IN sum[n]

byteswap(n, v) == FromMemory(FALSE, n, ToMemory(TRUE, n, v))

(* Without the builtin the two halves are swapped and change places.       *)
(* Mutant: they stay where they are.                                       *)
HalvesInPlace(n, v) ==
  LET h == n \div 2
      half == Power(ByteSize, h)
  IN byteswap(h, v % half) + byteswap(h, v \div half) * half
byteswap_u128(n, v) ==
  LET h == n \div 2
      half == Power(ByteSize, h)
  IN IF HasBswap128 THEN byteswap(n, v)
     ELSE byteswap(h, v \div half) + byteswap(h, v % half) * half

Swapped(n, v) == IF n > WordBytes THEN byteswap_u128(n, v) ELSE byteswap(n, v)

to_le(little, n, v) == IF little THEN v ELSE Swapped(n, v)
to_be(little, n, v) == IF little THEN Swapped(n, v) ELSE v
from_le(little, n, v) == IF little THEN v ELSE Swapped(n, v)
from_be(little, n, v) == IF little THEN Swapped(n, v) ELSE v
=============================================================================
