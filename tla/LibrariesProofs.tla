--------------------------- MODULE LibrariesProofs ---------------------------
(***************************************************************************)
(* Proofs about Libraries, for machines with bytes of any length, numbers, *)
(* addresses and ports of any number of bytes, and any allocations.        *)
(*                                                                         *)
(* The numbers come first: powers, division and the sum of a number's      *)
(* bytes, which are defined by recursion.  Then what reading and swapping  *)
(* bytes gives, and what follows for addresses, ports and prefixes; then   *)
(* the invariant of the peers, NetInv, one lemma for each of their steps.  *)
(***************************************************************************)
EXTENDS Libraries, AllocationProofs, TLAPS

-----------------------------------------------------------------------------
(* Functions defined by recursion on the natural numbers.                  *)

(* f is what the recursion says, as far as n.                              *)
Recurses(f, base, step, n) ==
  /\ f[0] = base
  /\ \A i \in Nat : i < n => f[i + 1] = step[<<i, f[i]>>]

(* What the recursion says is one function, as far as two of them go.      *)
LEMMA RecursionUnique ==
  ASSUME NEW base, NEW step, NEW f, NEW g, NEW m \in Nat, NEW n \in Nat,
         Recurses(f, base, step, m), Recurses(g, base, step, n)
  PROVE  \A i \in Nat : i <= m /\ i <= n => f[i] = g[i]
<1> DEFINE S == {i \in Nat : i <= m /\ i <= n => f[i] = g[i]}
<1>1. 0 \in S
  BY DEF Recurses
<1>2. ASSUME NEW i \in Nat, i \in S PROVE i + 1 \in S
  <2> SUFFICES ASSUME i + 1 <= m, i + 1 <= n PROVE f[i + 1] = g[i + 1]
    OBVIOUS
  <2>1. f[i] = g[i] /\ i < m /\ i < n
    BY <1>2
  <2>2. f[i + 1] = step[<<i, f[i]>>] /\ g[i + 1] = step[<<i, g[i]>>]
    BY <2>1 DEF Recurses
  <2>3. QED
    BY <2>1, <2>2
<1>3. Nat \subseteq S
  <2> HIDE DEF S
  <2>1. QED
    BY <1>1, <1>2, InductionOnSets
<1>4. QED
  BY <1>3

(* There is one to every length.                                           *)
LEMMA RecursionTo ==
  ASSUME NEW base \in Nat, NEW step \in [Nat \X Nat -> Nat]
  PROVE  \A n \in Nat : \E f \in [0 .. n -> Nat] : Recurses(f, base, step, n)
<1> DEFINE S == {n \in Nat : \E f \in [0 .. n -> Nat] : Recurses(f, base, step, n)}
<1>1. 0 \in S
  <2> DEFINE f == [i \in 0 .. 0 |-> base]
  <2>1. f \in [0 .. 0 -> Nat] /\ Recurses(f, base, step, 0)
    BY DEF Recurses
  <2>2. QED
    BY <2>1
<1>2. ASSUME NEW n \in Nat, n \in S PROVE n + 1 \in S
  <2>1. PICK f \in [0 .. n -> Nat] : Recurses(f, base, step, n)
    BY <1>2
  <2> DEFINE g == [i \in 0 .. n + 1 |-> IF i = n + 1 THEN step[<<n, f[n]>>] ELSE f[i]]
  <2>2. step[<<n, f[n]>>] \in Nat
    OBVIOUS
  <2>3. g \in [0 .. n + 1 -> Nat]
    <3>1. ASSUME NEW i \in 0 .. n + 1, i # n + 1 PROVE f[i] \in Nat
      <4>1. i \in 0 .. n
        BY <3>1
      <4>2. QED
        BY <4>1
    <3>2. QED
      BY <2>2, <3>1
  <2>4. g[0] = base
    BY <2>1 DEF Recurses
  <2>5. ASSUME NEW i \in Nat, i < n + 1 PROVE g[i + 1] = step[<<i, g[i]>>]
    <3>1. g[i] = f[i]
      BY <2>5
    <3>2. CASE i = n
      <4>1. g[n + 1] = step[<<n, f[n]>>]
        OBVIOUS
      <4>2. QED
        BY <3>1, <3>2, <4>1
    <3>3. CASE i < n
      <4>1. g[i + 1] = f[i + 1]
        BY <3>3
      <4>2. f[i + 1] = step[<<i, f[i]>>]
        BY <2>1, <3>3 DEF Recurses
      <4>3. QED
        BY <3>1, <4>1, <4>2
    <3>4. QED
      BY <2>5, <3>2, <3>3
  <2>6. \E h \in [0 .. n + 1 -> Nat] : Recurses(h, base, step, n + 1)
    <3> HIDE DEF g
    <3>1. Recurses(g, base, step, n + 1)
      BY <2>4, <2>5 DEF Recurses
    <3>2. QED
      BY <2>3, <3>1
  <2>7. QED
    BY <2>6
<1>3. Nat \subseteq S
  <2> HIDE DEF S
  <2>1. QED
    BY <1>1, <1>2, InductionOnSets
<1>4. QED
  BY <1>3

(* So there is one on all numbers.                                         *)
LEMMA Recursion ==
  ASSUME NEW base \in Nat, NEW step \in [Nat \X Nat -> Nat]
  PROVE  \E f \in [Nat -> Nat] :
           f[0] = base /\ \A i \in Nat : f[i + 1] = step[<<i, f[i]>>]
<1> DEFINE to(n) == CHOOSE f \in [0 .. n -> Nat] : Recurses(f, base, step, n)
           whole == [n \in Nat |-> to(n)[n]]
<1>1. ASSUME NEW n \in Nat
      PROVE  to(n) \in [0 .. n -> Nat] /\ Recurses(to(n), base, step, n)
  BY RecursionTo
<1> HIDE DEF to
<1>2. whole \in [Nat -> Nat]
  <2>1. ASSUME NEW n \in Nat PROVE to(n)[n] \in Nat
    <3>1. n \in 0 .. n
      OBVIOUS
    <3>2. QED
      BY <1>1, <3>1
  <2>2. QED
    BY <2>1
<1>3. whole[0] = base
  BY <1>1 DEF Recurses
<1>4. ASSUME NEW i \in Nat PROVE whole[i + 1] = step[<<i, whole[i]>>]
  <2>1. to(i + 1)[i + 1] = step[<<i, to(i + 1)[i]>>]
    <3>1. Recurses(to(i + 1), base, step, i + 1) /\ i < i + 1
      BY <1>1
    <3>2. QED
      BY <3>1 DEF Recurses
  <2>2. to(i + 1)[i] = to(i)[i]
    <3>1. Recurses(to(i + 1), base, step, i + 1) /\ Recurses(to(i), base, step, i)
      BY <1>1
    <3>2. i <= i + 1 /\ i <= i /\ i + 1 \in Nat
      OBVIOUS
    <3>3. QED
      BY <3>1, <3>2, RecursionUnique
  <2>3. QED
    BY <2>1, <2>2
<1>5. QED
  <2> HIDE DEF whole
  <2>1. QED
    BY <1>2, <1>3, <1>4

-----------------------------------------------------------------------------
(* Powers.                                                                 *)

(* Power is what its recursive definition says.                            *)
LEMMA PowerDef ==
  ASSUME NEW b \in Nat
  PROVE  /\ Power(b, 0) = 1
         /\ \A n \in Nat : Power(b, n) \in Nat /\ Power(b, n + 1) = b * Power(b, n)
<1> DEFINE good(f) == f = [i \in Nat |-> IF i = 0 THEN 1 ELSE b * f[i - 1]]
           step == [p \in Nat \X Nat |-> b * p[2]]
<1>1. \E f \in [Nat -> Nat] : f[0] = 1 /\ \A i \in Nat : f[i + 1] = step[<<i, f[i]>>]
  <2>1. step \in [Nat \X Nat -> Nat]
    OBVIOUS
  <2> SUFFICES ASSUME NEW g, g = step
      PROVE  \E f \in [Nat -> Nat] : f[0] = 1 /\ \A i \in Nat : f[i + 1] = g[<<i, f[i]>>]
    OBVIOUS
  <2> HIDE DEF step
  <2>2. g \in [Nat \X Nat -> Nat] /\ 1 \in Nat
    BY <2>1
  <2>3. QED
    BY <2>2, Recursion
<1>2. PICK f \in [Nat -> Nat] : f[0] = 1 /\ \A i \in Nat : f[i + 1] = b * f[i]
  BY <1>1
<1>3. good(f)
  <2>1. ASSUME NEW i \in Nat, i # 0 PROVE f[i] = b * f[i - 1]
    <3>1. i - 1 \in Nat /\ i = (i - 1) + 1
      BY <2>1
    <3>2. QED
      BY <1>2, <3>1
  <2>2. QED
    BY <1>2, <2>1
<1> DEFINE power == CHOOSE g : good(g)
<1>4. good(power)
  <2> HIDE DEF good
  <2>1. QED
    BY <1>3
<1>5. \A n : Power(b, n) = power[n]
  BY DEF Power
<1> HIDE DEF power
<1>6. power[0] = 1 /\ \A n \in Nat : power[n + 1] = b * power[n]
  BY <1>4
<1>7. \A n \in Nat : power[n] \in Nat
  <2> DEFINE S == {n \in Nat : power[n] \in Nat}
  <2>1. 0 \in S
    BY <1>6
  <2>2. \A n \in Nat : n \in S => n + 1 \in S
    BY <1>6
  <2>3. Nat \subseteq S
    <3> HIDE DEF S
    <3>1. QED
      BY <2>1, <2>2, InductionOnSets
  <2>4. QED
    BY <2>3
<1>8. QED
  BY <1>5, <1>6, <1>7

(* A power of a positive number is positive.                               *)
LEMMA PowerPositive ==
  ASSUME NEW b \in Nat \ {0}, NEW n \in Nat
  PROVE  Power(b, n) \in Nat \ {0}
<1> DEFINE S == {i \in Nat : Power(b, i) \in Nat \ {0}}
<1>1. 0 \in S
  BY PowerDef
<1>2. ASSUME NEW i \in Nat, i \in S PROVE i + 1 \in S
  <2>1. Power(b, i + 1) = b * Power(b, i) /\ Power(b, i) \in Nat \ {0}
    BY <1>2, PowerDef
  <2>2. \A x, y \in Nat \ {0} : x * y \in Nat \ {0}
    OBVIOUS
  <2>3. QED
    BY <2>1, <2>2
<1>3. Nat \subseteq S
  <2> HIDE DEF S
  <2>1. QED
    BY <1>1, <1>2, InductionOnSets
<1>4. QED
  BY <1>3

(* A power of a sum is the product of the powers.                          *)
LEMMA PowerAdd ==
  ASSUME NEW b \in Nat, NEW m \in Nat, NEW n \in Nat
  PROVE  Power(b, m + n) = Power(b, m) * Power(b, n)
<1> DEFINE S == {i \in Nat : Power(b, m + i) = Power(b, m) * Power(b, i)}
<1>1. \A i \in Nat : Power(b, i) \in Nat
  BY PowerDef
<1>2. 0 \in S
  <2>1. Power(b, 0) = 1 /\ Power(b, m) \in Nat /\ m + 0 = m
    BY PowerDef
  <2>2. QED
    BY <2>1
<1>3. ASSUME NEW i \in Nat, i \in S PROVE i + 1 \in S
  <2>1. Power(b, m + i) = Power(b, m) * Power(b, i)
    BY <1>3
  <2>2. Power(b, i + 1) = b * Power(b, i)
    BY PowerDef
  <2>3. Power(b, (m + i) + 1) = b * Power(b, m + i)
    BY PowerDef
  <2>4. m + (i + 1) = (m + i) + 1
    OBVIOUS
  <2>5. ASSUME NEW x \in Nat, NEW y \in Nat PROVE b * (x * y) = x * (b * y)
    OBVIOUS
  <2>6. b * (Power(b, m) * Power(b, i)) = Power(b, m) * (b * Power(b, i))
    BY <1>1, <2>5
  <2>7. Power(b, m + (i + 1)) = Power(b, m) * Power(b, i + 1)
    BY <2>1, <2>2, <2>3, <2>4, <2>6, Zenon
  <2>8. QED
    BY <2>7
<1>4. Nat \subseteq S
  <2> HIDE DEF S
  <2>1. QED
    BY <1>2, <1>3, InductionOnSets
<1>5. QED
  BY <1>4

(* A power of a power has the product of the exponents.                    *)
LEMMA PowerOfPower ==
  ASSUME NEW b \in Nat, NEW k \in Nat, NEW n \in Nat
  PROVE  Power(Power(b, k), n) = Power(b, n * k)
<1> DEFINE S == {i \in Nat : Power(Power(b, k), i) = Power(b, i * k)}
<1>1. Power(b, k) \in Nat
  BY PowerDef
<1>2. 0 \in S
  <2>1. 0 * k = 0
    OBVIOUS
  <2>2. Power(Power(b, k), 0) = 1 /\ Power(b, 0) = 1
    BY <1>1, PowerDef
  <2>3. QED
    BY <2>1, <2>2
<1>3. ASSUME NEW i \in Nat, i \in S PROVE i + 1 \in S
  <2>1. Power(Power(b, k), i) = Power(b, i * k)
    BY <1>3
  <2>2. Power(Power(b, k), i + 1) = Power(b, k) * Power(Power(b, k), i)
    BY <1>1, PowerDef
  <2>3. i * k \in Nat /\ k + i * k = (i + 1) * k
    OBVIOUS
  <2>4. Power(b, k + i * k) = Power(b, k) * Power(b, i * k)
    BY <2>3, PowerAdd
  <2>5. Power(Power(b, k), i + 1) = Power(b, (i + 1) * k)
    BY <2>1, <2>2, <2>3, <2>4, Zenon
  <2>6. QED
    BY <2>5
<1>4. Nat \subseteq S
  <2> HIDE DEF S
  <2>1. QED
    BY <1>2, <1>3, InductionOnSets
<1>5. QED
  BY <1>4

-----------------------------------------------------------------------------
(* Division.                                                               *)

Positive == Nat \ {0}

(* Quotient and remainder of a division make up the number.                *)
LEMMA Division ==
  \A d \in Nat \ {0} : \A v \in Nat :
    v \div d \in Nat /\ v % d \in 0 .. d - 1 /\ v = d * (v \div d) + (v % d)
<1>1. \A d \in Nat \ {0} : \A v \in Nat : v % d \in 0 .. d - 1 /\ v = d * (v \div d) + (v % d)
  BY SMT
<1>2. \A d \in Nat \ {0} : \A v \in Nat : v \div d \in Nat
  BY SMT
<1>3. QED
  BY <1>1, <1>2, Zenon

(* No other two do.                                                        *)
LEMMA DivisionUnique ==
  ASSUME NEW v, NEW d \in Nat \ {0}, NEW q \in Nat, NEW r \in 0 .. d - 1, v = d * q + r
  PROVE  v \div d = q /\ v % d = r
BY SMT

(* What is smaller than the divisor is left as it is.                      *)
LEMMA SmallRemainder ==
  ASSUME NEW d \in Nat \ {0}, NEW v \in 0 .. d - 1
  PROVE  v % d = v
BY SMT

(* The quotient and the remainder of a quotient.                           *)
LEMMA DivisionTwice ==
  ASSUME NEW v \in Nat, NEW d \in Nat \ {0}, NEW e \in Nat \ {0}
  PROVE  /\ v \div (d * e) = (v \div d) \div e
         /\ v % (d * e) = d * ((v \div d) % e) + (v % d)
<1> DEFINE q == v \div d
           r == v % d
           p == q \div e
           s == q % e
           t == d * s + r
<1>1. q \in Nat /\ r \in 0 .. d - 1 /\ v = d * q + r
  BY Division
<1>2. p \in Nat /\ s \in 0 .. e - 1 /\ q = e * p + s
  <2> HIDE DEF q
  <2>1. QED
    BY <1>1, Division
<1> HIDE DEF q, r, p, s
<1>3. d * e \in Nat \ {0}
  OBVIOUS
<1>4. t \in 0 .. d * e - 1
  <2>1. d * s <= d * (e - 1)
    BY <1>2
  <2>2. d * (e - 1) = d * e - d
    OBVIOUS
  <2>3. d * s \in Nat
    BY <1>2
  <2>4. QED
    BY <1>1, <1>3, <2>1, <2>2, <2>3
<1>5. v = (d * e) * p + t
  <2>1. d * (e * p + s) = (d * e) * p + d * s
    BY <1>2
  <2>2. (d * e) * p \in Nat /\ d * s \in Nat
    BY <1>2, <1>3
  <2>3. v = ((d * e) * p + d * s) + r
    BY <1>1, <1>2, <2>1, Zenon
  <2>4. ASSUME NEW x \in Nat, NEW y \in Nat, v = (x + y) + r PROVE v = x + (y + r)
    BY <1>1, <2>4
  <2>5. QED
    BY <2>2, <2>3, <2>4
<1> HIDE DEF t
<1>6. v \div (d * e) = p /\ v % (d * e) = t
  BY <1>2, <1>3, <1>4, <1>5, DivisionUnique, Zenon
<1>7. v \div (d * e) = q \div e /\ v % (d * e) = d * (q % e) + r
  BY <1>6, Zenon DEF t, p, s
<1>8. QED
  BY <1>7, Zenon DEF q, r

(* A digit more.                                                           *)
LEMMA NextDigit ==
  ASSUME NEW d \in Positive, NEW b \in Positive, NEW x \in 0 .. d - 1,
         NEW y \in 0 .. b - 1
  PROVE  /\ x + y * d \in 0 .. b * d - 1
         /\ (x + y * d) \div d = y
         /\ (x + y * d) % d = x
<1> USE DEF Positive
<1> DEFINE z == x + y * d
<1>1. y \in Nat /\ y * d = d * y /\ y * d \in Nat /\ b * d \in Nat
  OBVIOUS
<1>2. b - 1 - y \in Nat
  OBVIOUS
<1>3. (b - 1 - y) * d \in Nat
  BY <1>2
<1>4. (b - 1 - y) * d = b * d - d - y * d
  BY <1>1
<1>5. z \in 0 .. b * d - 1
  BY <1>1, <1>3, <1>4
<1>6. z = d * y + x
  BY <1>1
<1>7. z \div d = y /\ z % d = x
  <2> SUFFICES ASSUME NEW w, w = z PROVE w \div d = y /\ w % d = x
    OBVIOUS
  <2>1. w = d * y + x
    BY <1>6, Zenon
  <2> HIDE DEF z
  <2>2. QED
    BY <1>1, <2>1, DivisionUnique
<1>8. QED
  BY <1>5, <1>7, Zenon

(* What is left out above a digit does not change it.                      *)
LEMMA DigitBelow ==
  ASSUME NEW v \in Nat, NEW d \in Positive, NEW b \in Positive, NEW x \in Positive
  PROVE  ((v % (d * (b * x))) \div d) % b = (v \div d) % b
<1> USE DEF Positive
<1> DEFINE q == v \div d
           e == b * x
           s == q % e
           r == v % d
           y == (q \div b) % x
<1>1. e \in Nat \ {0}
  OBVIOUS
<1>2. r \in 0 .. d - 1 /\ q \in Nat
  BY Division
<1>3. v % (d * e) = d * s + r
  <2> HIDE DEF e
  <2>1. QED
    BY <1>1, DivisionTwice, Zenon
<1>4. s = b * y + (q % b)
  <2> HIDE DEF q
  <2>1. QED
    BY <1>2, DivisionTwice, Zenon
<1>5. s \in Nat
  <2> HIDE DEF q, e
  <2>1. q % e \in 0 .. e - 1
    BY <1>1, <1>2, Division, Zenon
  <2>2. QED
    BY <1>1, <2>1
<1>6. q % b \in 0 .. b - 1 /\ y \in Nat
  <2> HIDE DEF q
  <2>1. q \div b \in Nat /\ q % b \in 0 .. b - 1
    BY <1>2, Division, Zenon
  <2>2. (q \div b) % x \in 0 .. x - 1
    BY <2>1, Division, Zenon
  <2>3. QED
    BY <2>1, <2>2
<1> HIDE DEF q, e, s, r, y
<1>7. (v % (d * e)) \div d = s
  <2> SUFFICES ASSUME NEW w, w = v % (d * e) PROVE w \div d = s
    BY Zenon
  <2>1. w = d * s + r
    BY <1>3, Zenon
  <2>2. QED
    BY <1>2, <1>5, <2>1, DivisionUnique
<1>8. s % b = q % b
  BY <1>4, <1>6, DivisionUnique
<1>9. QED
  BY <1>7, <1>8, Zenon DEF e, q

-----------------------------------------------------------------------------
(* Numbers and their bytes.                                                *)

(* Bytes, and numbers of bytes, have at least one value.                   *)
LEMMA ByteSizes ==
  /\ ByteSize \in Nat \ {0}
  /\ \A n \in Nat : Power(ByteSize, n) \in Nat \ {0}
<1>1. ByteSize \in Nat \ {0}
  <2>1. ByteBits \in Nat /\ 2 \in Nat \ {0}
    BY BytesAssumption
  <2>2. QED
    BY <2>1, PowerPositive DEF ByteSize
<1>2. QED
  BY <1>1, PowerPositive, Zenon

(* So does every byte have a weight.                                       *)
LEMMA Weights ==
  ASSUME NEW le \in BOOLEAN, NEW n \in Nat, NEW i \in 1 .. n
  PROVE  Weight(le, n, i) \in Nat \ {0}
<1>1. i - 1 \in Nat /\ n - i \in Nat
  OBVIOUS
<1>2. QED
  BY <1>1, ByteSizes, Zenon DEF Weight

(* The image of a number is bytes.                                         *)
LEMMA ImageType ==
  ASSUME NEW le \in BOOLEAN, NEW n \in Nat, NEW v \in Nat
  PROVE  ToMemory(le, n, v) \in [1 .. n -> Bytes]
<1>1. ASSUME NEW i \in 1 .. n
      PROVE  (v \div Weight(le, n, i)) % ByteSize \in Bytes
  <2>1. v \div Weight(le, n, i) \in Nat
    BY Weights, Division, Zenon
  <2>2. QED
    BY <2>1, ByteSizes, Division, Zenon DEF Bytes
<1>2. QED
  BY <1>1, Zenon DEF ToMemory

(* Two images with the same bytes are the same.                            *)
LEMMA SameImage ==
  \A n \in Nat : \A t, u \in [1 .. n -> Bytes] : (\A i \in 1 .. n : t[i] = u[i]) => t = u
OBVIOUS

(* The image on a machine of the other byte order is the other way round.  *)
LEMMA ImageReversed ==
  ASSUME NEW n \in Nat, NEW v, NEW i \in 1 .. n
  PROVE  /\ n + 1 - i \in 1 .. n
         /\ ToMemory(TRUE, n, v)[i] = ToMemory(FALSE, n, v)[n + 1 - i]
<1>1. n + 1 - i \in 1 .. n
  OBVIOUS
<1>2. n - (n + 1 - i) = i - 1
  OBVIOUS
<1>3. Weight(TRUE, n, i) = Weight(FALSE, n, n + 1 - i)
  BY <1>2, Zenon DEF Weight
<1>4. QED
  BY <1>1, <1>3, Zenon DEF ToMemory

(* The number of an image is the last of the sums of its bytes.            *)
LEMMA FromMemoryDef ==
  ASSUME NEW le \in BOOLEAN, NEW n \in Nat, NEW m \in [1 .. n -> Bytes]
  PROVE  \E f \in [0 .. n -> Nat] :
           /\ f[0] = 0
           /\ \A i \in Nat : i < n => f[i + 1] = f[i] + m[i + 1] * Weight(le, n, i + 1)
           /\ FromMemory(le, n, m) = f[n]
<1> DEFINE part(i) == m[i] * Weight(le, n, i)
           good(f) == f = [i \in 0 .. n |-> IF i = 0 THEN 0 ELSE f[i - 1] + part(i)]
           step == [p \in Nat \X Nat |-> IF p[1] < n THEN p[2] + part(p[1] + 1) ELSE 0]
<1>1. ASSUME NEW i \in 1 .. n PROVE part(i) \in Nat
  <2>1. m[i] \in Nat
    <3>1. Bytes \subseteq Nat
      BY ByteSizes DEF Bytes
    <3>2. QED
      BY <3>1
  <2>2. Weight(le, n, i) \in Nat
    BY Weights
  <2>3. \A x, y \in Nat : x * y \in Nat
    OBVIOUS
  <2>4. QED
    BY <2>1, <2>2, <2>3, Zenon
<1> HIDE DEF part
<1>2. \E f \in [Nat -> Nat] : f[0] = 0 /\ \A i \in Nat : f[i + 1] = step[<<i, f[i]>>]
  <2>1. step \in [Nat \X Nat -> Nat]
    <3>1. ASSUME NEW p \in Nat \X Nat, p[1] < n PROVE p[2] + part(p[1] + 1) \in Nat
      <4>1. p[1] + 1 \in 1 .. n
        BY <3>1
      <4>2. part(p[1] + 1) \in Nat
        BY <1>1, <4>1
      <4>3. QED
        BY <4>2
    <3>2. QED
      BY <3>1
  <2> SUFFICES ASSUME NEW g, g = step
      PROVE  \E f \in [Nat -> Nat] : f[0] = 0 /\ \A i \in Nat : f[i + 1] = g[<<i, f[i]>>]
    OBVIOUS
  <2> HIDE DEF step
  <2>2. g \in [Nat \X Nat -> Nat] /\ 0 \in Nat
    BY <2>1
  <2>3. QED
    BY <2>2, Recursion
<1>3. PICK whole \in [Nat -> Nat] :
        whole[0] = 0 /\ \A i \in Nat : i < n => whole[i + 1] = whole[i] + part(i + 1)
  <2>1. PICK f \in [Nat -> Nat] : f[0] = 0 /\ \A i \in Nat : f[i + 1] = step[<<i, f[i]>>]
    BY <1>2
  <2>2. ASSUME NEW i \in Nat, i < n PROVE f[i + 1] = f[i] + part(i + 1)
    <3>1. step[<<i, f[i]>>] = f[i] + part(i + 1)
      BY <2>2
    <3>2. QED
      BY <2>1, <3>1
  <2>3. QED
    BY <2>1, <2>2
<1> DEFINE h == [i \in 0 .. n |-> whole[i]]
<1>4. good(h)
  <2>1. ASSUME NEW i \in 0 .. n, i # 0 PROVE h[i] = h[i - 1] + part(i)
    <3>1. i - 1 \in Nat /\ i - 1 < n /\ (i - 1) + 1 = i /\ i - 1 \in 0 .. n
      BY <2>1
    <3>2. whole[(i - 1) + 1] = whole[i - 1] + part((i - 1) + 1)
      BY <1>3, <3>1
    <3>3. QED
      BY <3>1, <3>2
  <2>2. h[0] = 0
    BY <1>3
  <2>3. QED
    BY <2>1, <2>2
<1> DEFINE sum == CHOOSE g : good(g)
<1>5. good(sum)
  <2> HIDE DEF good
  <2>1. QED
    BY <1>4
<1>6. FromMemory(le, n, m) = sum[n]
  BY DEF FromMemory, part
<1> HIDE DEF sum
<1>7. sum[0] = 0 /\ \A i \in Nat : i < n => sum[i + 1] = sum[i] + part(i + 1)
  <2>1. \A i \in 0 .. n : sum[i] = IF i = 0 THEN 0 ELSE sum[i - 1] + part(i)
    BY <1>5
  <2>2. ASSUME NEW i \in Nat, i < n PROVE sum[i + 1] = sum[i] + part(i + 1)
    <3>1. i + 1 \in 0 .. n /\ i + 1 # 0 /\ (i + 1) - 1 = i
      BY <2>2
    <3>2. QED
      BY <2>1, <3>1, Zenon
  <2>3. 0 \in 0 .. n
    OBVIOUS
  <2>4. QED
    BY <2>1, <2>2, <2>3, Zenon
<1>8. ASSUME NEW i \in 0 .. n PROVE sum[i] \in Nat
  <2> DEFINE S == {j \in Nat : j <= n => sum[j] \in Nat}
  <2>1. 0 \in S
    BY <1>7
  <2>2. ASSUME NEW j \in Nat, j \in S PROVE j + 1 \in S
    <3> SUFFICES ASSUME j + 1 <= n PROVE sum[j + 1] \in Nat
      OBVIOUS
    <3>1. sum[j] \in Nat /\ j < n
      BY <2>2
    <3>2. part(j + 1) \in Nat
      <4>1. j + 1 \in 1 .. n
        OBVIOUS
      <4>2. QED
        BY <1>1, <4>1
    <3>3. sum[j + 1] = sum[j] + part(j + 1)
      BY <1>7, <3>1, Zenon
    <3>4. \A x, y \in Nat : x + y \in Nat
      OBVIOUS
    <3>5. QED
      BY <3>1, <3>2, <3>3, <3>4, Zenon
  <2>3. Nat \subseteq S
    <3> HIDE DEF S
    <3>1. QED
      BY <2>1, <2>2, InductionOnSets
  <2>4. QED
    BY <2>3
<1>9. sum \in [0 .. n -> Nat]
  <2>1. sum = [i \in 0 .. n |-> sum[i]]
    BY <1>5, Zenon
  <2>2. QED
    BY <1>8, <2>1, Zenon
<1>10. QED
  BY <1>6, <1>7, <1>9 DEF part

(* The bytes of a number, read back, are the number.                       *)
LEMMA NumberReadBack ==
  ASSUME NEW le \in BOOLEAN, NEW n \in Nat, NEW v \in Unsigned(n)
  PROVE  FromMemory(le, n, ToMemory(le, n, v)) = v
<1> DEFINE m == ToMemory(le, n, v)
           P(i) == Power(ByteSize, i)
           digit(j) == (v \div P(j)) % ByteSize
<1>1. v \in Nat /\ v \in 0 .. P(n) - 1 /\ \A i \in Nat : P(i) \in Nat \ {0}
  BY ByteSizes DEF Unsigned
<1>2. m \in [1 .. n -> Bytes]
  BY <1>1, ImageType, Zenon
<1>3. PICK f \in [0 .. n -> Nat] :
        /\ f[0] = 0
        /\ \A i \in Nat : i < n => f[i + 1] = f[i] + m[i + 1] * Weight(le, n, i + 1)
        /\ FromMemory(le, n, m) = f[n]
  BY <1>2, FromMemoryDef, Zenon
<1>4. ASSUME NEW j \in Nat
      PROVE  /\ v % P(j + 1) = P(j) * digit(j) + (v % P(j))
             /\ digit(j) \in Nat /\ v % P(j) \in Nat
             /\ P(j) * digit(j) = digit(j) * P(j)
  <2>1. P(j + 1) = ByteSize * P(j) /\ P(j) \in Nat \ {0} /\ ByteSize \in Nat \ {0}
    BY PowerDef, ByteSizes
  <2> SUFFICES ASSUME NEW d, d = P(j), NEW B, B = ByteSize
               PROVE  /\ v % (B * d) = d * ((v \div d) % B) + (v % d)
                      /\ (v \div d) % B \in Nat /\ v % d \in Nat
                      /\ d * ((v \div d) % B) = ((v \div d) % B) * d
    BY <2>1, Zenon
  <2>2. d \in Nat \ {0} /\ B \in Nat \ {0}
    BY <2>1, Zenon
  <2>3. B * d = d * B
    BY <2>2
  <2>4. v % (d * B) = d * ((v \div d) % B) + (v % d)
    BY <1>1, <2>2, DivisionTwice, Zenon
  <2>5. v \div d \in Nat /\ v % d \in 0 .. d - 1
    BY <1>1, <2>2, Division, Zenon
  <2>6. (v \div d) % B \in 0 .. B - 1
    BY <2>2, <2>5, Division, Zenon
  <2>7. (v \div d) % B \in Nat /\ v % d \in Nat
    BY <2>2, <2>5, <2>6
  <2>8. \A x, y \in Nat : x * y = y * x
    OBVIOUS
  <2>9. QED
    BY <2>2, <2>3, <2>4, <2>7, <2>8, Zenon
<1>5. CASE le = TRUE
  <2> DEFINE S == {i \in Nat : i <= n => f[i] = v % P(i)}
  <2>1. 0 \in S
    <3>1. P(0) = 1
      BY ByteSizes, PowerDef
    <3>2. v % 1 = 0
      BY <1>1
    <3>3. QED
      BY <1>3, <3>1, <3>2
  <2>2. ASSUME NEW i \in Nat, i \in S PROVE i + 1 \in S
    <3> SUFFICES ASSUME i + 1 <= n PROVE f[i + 1] = v % P(i + 1)
      OBVIOUS
    <3>1. i < n /\ i + 1 \in 1 .. n /\ (i + 1) - 1 = i
      OBVIOUS
    <3>2. f[i] = v % P(i)
      BY <2>2, <3>1
    <3>3. Weight(le, n, i + 1) = P(i)
      BY <1>5, <3>1, Zenon DEF Weight
    <3>4. m[i + 1] = digit(i)
      BY <3>1, <3>3, Zenon DEF ToMemory
    <3>5. f[i + 1] = (v % P(i)) + digit(i) * P(i)
      BY <1>3, <3>1, <3>2, <3>3, <3>4, Zenon
    <3> HIDE DEF P, digit, S
    <3>6. v % P(i + 1) = P(i) * digit(i) + (v % P(i)) /\ digit(i) \in Nat /\ v % P(i) \in Nat
          /\ P(i) * digit(i) = digit(i) * P(i) /\ P(i) \in Nat
      BY <1>1, <1>4
    <3>7. QED
      BY <3>5, <3>6
  <2>3. Nat \subseteq S
    <3> HIDE DEF S
    <3>1. QED
      BY <2>1, <2>2, InductionOnSets
  <2>4. f[n] = v % P(n)
    BY <2>3
  <2>5. v % P(n) = v
    BY <1>1, SmallRemainder, Zenon
  <2>6. QED
    BY <1>3, <2>4, <2>5, Zenon
<1>6. CASE le = FALSE
  <2> DEFINE S == {i \in Nat : i <= n => v = f[i] + (v % P(n - i))}
  <2>1. 0 \in S
    <3>1. f[0] = 0 /\ n - 0 = n
      BY <1>3
    <3>2. v % P(n) = v
      BY <1>1, SmallRemainder, Zenon
    <3> HIDE DEF P
    <3>3. v = 0 + v
      BY <1>1
    <3>4. QED
      BY <3>1, <3>2, <3>3
  <2>2. ASSUME NEW i \in Nat, i \in S PROVE i + 1 \in S
    <3> SUFFICES ASSUME i + 1 <= n PROVE v = f[i + 1] + (v % P(n - (i + 1)))
      OBVIOUS
    <3> DEFINE j == n - (i + 1)
    <3>1. i < n /\ i + 1 \in 1 .. n /\ j \in Nat /\ n - i = j + 1 /\ i \in 0 .. n
      OBVIOUS
    <3>2. v = f[i] + (v % P(j + 1))
      BY <2>2, <3>1
    <3>3. Weight(le, n, i + 1) = P(j)
      BY <1>6, Zenon DEF Weight
    <3>4. m[i + 1] = digit(j)
      BY <3>1, <3>3, Zenon DEF ToMemory
    <3>5. f[i + 1] = f[i] + digit(j) * P(j)
      BY <1>3, <3>1, <3>3, <3>4, Zenon
    <3> HIDE DEF P, digit, S, j
    <3>6. v % P(j + 1) = P(j) * digit(j) + (v % P(j)) /\ digit(j) \in Nat /\ v % P(j) \in Nat
          /\ P(j) * digit(j) = digit(j) * P(j) /\ P(j) \in Nat
      BY <1>1, <1>4, <3>1
    <3>7. f[i] \in Nat
      BY <1>3, <3>1
    <3>8. v = f[i + 1] + (v % P(j))
      BY <3>2, <3>5, <3>6, <3>7
    <3>9. QED
      BY <3>8 DEF j
  <2>3. Nat \subseteq S
    <3> HIDE DEF S
    <3>1. QED
      BY <2>1, <2>2, InductionOnSets
  <2>4. v = f[n] + (v % P(0))
    <3>1. n - n = 0 /\ n <= n
      OBVIOUS
    <3>2. QED
      BY <2>3, <3>1
  <2>5. v % P(0) = 0
    <3>1. P(0) = 1
      BY ByteSizes, PowerDef
    <3>2. v % 1 = 0
      BY <1>1
    <3>3. QED
      BY <3>1, <3>2
  <2>6. f[n] \in Nat
    BY <1>3
  <2> HIDE DEF P
  <2>7. v = f[n]
    BY <2>4, <2>5, <2>6
  <2>8. QED
    BY <1>3, <2>7, Zenon
<1>7. QED
  BY <1>5, <1>6

(* The sums of the bytes of a little-endian image have those bytes.        *)
LEMMA BytesReadBackLittle ==
  ASSUME NEW n \in Nat, NEW m \in [1 .. n -> Bytes]
  PROVE  /\ FromMemory(TRUE, n, m) \in Unsigned(n)
         /\ ToMemory(TRUE, n, FromMemory(TRUE, n, m)) = m
<1> DEFINE P(i) == Power(ByteSize, i)
           digit(v, j) == (v \div P(j)) % ByteSize
<1>1. ByteSize \in Nat \ {0} /\ \A i \in Nat : P(i) \in Nat \ {0}
  BY ByteSizes
<1>2. PICK f \in [0 .. n -> Nat] :
        /\ f[0] = 0
        /\ \A i \in Nat : i < n => f[i + 1] = f[i] + m[i + 1] * Weight(TRUE, n, i + 1)
        /\ FromMemory(TRUE, n, m) = f[n]
  BY FromMemoryDef, Zenon
<1> DEFINE S == {i \in Nat : i <= n => /\ f[i] \in 0 .. P(i) - 1
                                       /\ \A j \in Nat : j < i => digit(f[i], j) = m[j + 1]}
<1>3. 0 \in S
  <2>1. P(0) = 1
    BY ByteSizes, PowerDef
  <2>2. f[0] \in 0 .. P(0) - 1
    BY <1>2, <2>1
  <2>3. \A j \in Nat : ~(j < 0)
    OBVIOUS
  <2>4. QED
    BY <2>2, <2>3
<1>4. ASSUME NEW i \in Nat, i \in S PROVE i + 1 \in S
  <2> SUFFICES ASSUME i + 1 <= n
               PROVE  /\ f[i + 1] \in 0 .. P(i + 1) - 1
                      /\ \A j \in Nat : j < i + 1 => digit(f[i + 1], j) = m[j + 1]
    OBVIOUS
  <2>1. /\ f[i] \in 0 .. P(i) - 1
        /\ \A j \in Nat : j < i => digit(f[i], j) = m[j + 1]
    BY <1>4
  <2>2. i < n /\ i + 1 \in 1 .. n /\ (i + 1) - 1 = i /\ i + 1 \in 0 .. n
    OBVIOUS
  <2>3. m[i + 1] \in 0 .. ByteSize - 1
    BY <2>2 DEF Bytes
  <2>4. f[i + 1] = f[i] + m[i + 1] * P(i)
    BY <1>2, <2>2, Zenon DEF Weight
  <2>5. f[i + 1] \in Nat
    BY <1>2, <2>2
  <2>6. P(i + 1) = ByteSize * P(i)
    BY ByteSizes, PowerDef
  <2> HIDE DEF S
  <2>7. /\ f[i + 1] \in 0 .. P(i + 1) - 1
        /\ f[i + 1] \div P(i) = m[i + 1]
        /\ f[i + 1] % P(i) = f[i]
    <3>1. P(i) \in Positive /\ ByteSize \in Positive
      BY <1>1, Zenon DEF Positive
    <3> HIDE DEF P
    <3>2. f[i] \in 0 .. P(i) - 1
      BY <2>1, Zenon
    <3>3. LET z == f[i] + m[i + 1] * P(i)
          IN z \in 0 .. ByteSize * P(i) - 1 /\ z \div P(i) = m[i + 1] /\ z % P(i) = f[i]
      BY <2>3, <3>1, <3>2, NextDigit, ZenonT(40)
    <3>4. QED
      BY <2>4, <2>6, <3>3, Zenon
  <2>8. ASSUME NEW j \in Nat, j < i + 1 PROVE digit(f[i + 1], j) = m[j + 1]
    <3>1. CASE j = i
      <4>1. m[i + 1] % ByteSize = m[i + 1]
        BY <1>1, <2>3, SmallRemainder, Zenon
      <4>2. QED
        BY <2>7, <3>1, <4>1, Zenon
    <3>2. CASE j < i
      <4> DEFINE k == i - j - 1
      <4>1. k \in Nat /\ i = j + (k + 1) /\ k + 1 \in Nat
        BY <3>2
      <4>2. P(i) = P(j) * (ByteSize * P(k))
        <5>1. P(j + (k + 1)) = P(j) * P(k + 1)
          BY <1>1, <4>1, PowerAdd
        <5>2. P(k + 1) = ByteSize * P(k)
          BY <1>1, <4>1, PowerDef
        <5>3. QED
          BY <4>1, <5>1, <5>2, Zenon
      <4> HIDE DEF k
      <4>3. ((f[i + 1] % (P(j) * (ByteSize * P(k)))) \div P(j)) % ByteSize
              = digit(f[i + 1], j)
        <5>1. P(j) \in Positive /\ P(k) \in Positive /\ ByteSize \in Positive
          BY <1>1, <4>1, Zenon DEF Positive
        <5>2. ((f[i + 1] % (P(j) * (ByteSize * P(k)))) \div P(j)) % ByteSize
                = (f[i + 1] \div P(j)) % ByteSize
          <6> HIDE DEF P
          <6>1. QED
            BY <2>5, <5>1, DigitBelow, ZenonT(60)
        <5>3. QED
          BY <5>2, Zenon
      <4>4. digit(f[i], j) = digit(f[i + 1], j)
        BY <2>7, <4>2, <4>3, Zenon
      <4>5. QED
        BY <2>1, <3>2, <4>4, Zenon
    <3>3. QED
      BY <2>8, <3>1, <3>2
  <2>9. QED
    BY <2>7, <2>8, Zenon
<1>5. Nat \subseteq S
  <2> HIDE DEF S
  <2>1. QED
    BY <1>3, <1>4, InductionOnSets
<1>6. f[n] \in 0 .. P(n) - 1 /\ \A j \in Nat : j < n => digit(f[n], j) = m[j + 1]
  <2>1. n \in S /\ n <= n
    BY <1>5
  <2>2. QED
    BY <2>1, Zenon
<1>7. ASSUME NEW i \in 1 .. n PROVE (f[n] \div Weight(TRUE, n, i)) % ByteSize = m[i]
  <2>1. i - 1 \in Nat /\ i - 1 < n /\ (i - 1) + 1 = i
    OBVIOUS
  <2>2. digit(f[n], i - 1) = m[i]
    BY <1>6, <2>1, Zenon
  <2>3. QED
    BY <2>2, Zenon DEF Weight
<1>8. ToMemory(TRUE, n, f[n]) = m
  BY <1>7, Zenon DEF ToMemory
<1>9. QED
  BY <1>2, <1>6, <1>8, Zenon DEF Unsigned

(* Bytes, taken for a number, are the bytes of that number.                *)
LEMMA BytesReadBack ==
  ASSUME NEW le \in BOOLEAN, NEW n \in Nat, NEW m \in [1 .. n -> Bytes]
  PROVE  /\ FromMemory(le, n, m) \in Unsigned(n)
         /\ ToMemory(le, n, FromMemory(le, n, m)) = m
<1>1. CASE le = TRUE
  BY <1>1, BytesReadBackLittle, Zenon
<1>2. CASE le = FALSE
  <2> DEFINE r == [i \in 1 .. n |-> m[n + 1 - i]]
             v == FromMemory(TRUE, n, r)
  <2>1. r \in [1 .. n -> Bytes]
    <3>1. ASSUME NEW i \in 1 .. n PROVE m[n + 1 - i] \in Bytes
      <4>1. n + 1 - i \in 1 .. n
        OBVIOUS
      <4>2. QED
        BY <4>1
    <3>2. QED
      BY <3>1, Zenon
  <2>2. \A i \in 1 .. n : n + 1 - i \in 1 .. n /\ r[n + 1 - i] = m[i]
    <3>1. ASSUME NEW i \in 1 .. n PROVE n + 1 - i \in 1 .. n /\ n + 1 - (n + 1 - i) = i
      OBVIOUS
    <3>2. QED
      BY <3>1, Zenon
  <2> HIDE DEF r
  <2>3. v \in Unsigned(n) /\ ToMemory(TRUE, n, v) = r
    BY <2>1, BytesReadBackLittle, Zenon
  <2> HIDE DEF v
  <2>4. ToMemory(FALSE, n, v) = m
    <3>1. v \in Nat
      BY <2>3, ByteSizes DEF Unsigned
    <3>2. ToMemory(FALSE, n, v) \in [1 .. n -> Bytes]
      BY <3>1, ImageType, Zenon
    <3>3. ASSUME NEW i \in 1 .. n PROVE ToMemory(FALSE, n, v)[i] = m[i]
      <4>1. n + 1 - i \in 1 .. n /\ n + 1 - (n + 1 - i) = i
        OBVIOUS
      <4>2. ToMemory(TRUE, n, v)[n + 1 - i] = ToMemory(FALSE, n, v)[n + 1 - (n + 1 - i)]
        BY <4>1, ImageReversed, ZenonT(40)
      <4>3. QED
        BY <2>2, <2>3, <4>1, <4>2, Zenon
    <3>4. QED
      BY <3>2, <3>3, SameImage, Zenon
  <2>5. FromMemory(FALSE, n, m) = v
    <3>1. FromMemory(FALSE, n, ToMemory(FALSE, n, v)) = v
      BY <2>3, NumberReadBack, Zenon
    <3>2. QED
      BY <2>4, <3>1, Zenon
  <2>6. QED
    BY <1>2, <2>3, <2>4, <2>5, Zenon
<1>3. QED
  BY <1>1, <1>2, Zenon

-----------------------------------------------------------------------------
(* Swapping the bytes of a number.                                         *)

(* Numbers of n bytes are natural numbers.                                 *)
LEMMA UnsignedNat ==
  ASSUME NEW n \in Nat
  PROVE  Unsigned(n) \subseteq Nat
BY ByteSizes DEF Unsigned

(* The image of a swapped number is the other way round.                   *)
LEMMA ByteswapReverses ==
  ASSUME NEW n \in Nat, NEW v \in Nat
  PROVE  /\ byteswap(n, v) \in Unsigned(n)
         /\ ToMemory(FALSE, n, byteswap(n, v)) = ToMemory(TRUE, n, v)
<1>1. ToMemory(TRUE, n, v) \in [1 .. n -> Bytes]
  BY ImageType, Zenon
<1>2. QED
  BY <1>1, BytesReadBack, Zenon DEF byteswap

(* What a number holds above 256^h, and what it holds below.               *)
LEMMA HalfDigits ==
  ASSUME NEW v \in Nat, NEW h \in Nat, NEW j \in Nat
  PROVE  LET half == Power(ByteSize, h) IN
         /\ ((v \div half) \div Power(ByteSize, j)) % ByteSize
              = (v \div Power(ByteSize, h + j)) % ByteSize
         /\ j < h => ((v % half) \div Power(ByteSize, j)) % ByteSize
                       = (v \div Power(ByteSize, j)) % ByteSize
<1> DEFINE P(i) == Power(ByteSize, i)
<1>1. ByteSize \in Nat \ {0} /\ \A i \in Nat : P(i) \in Nat \ {0}
  BY ByteSizes
<1>2. (v \div P(h)) \div P(j) = v \div P(h + j)
  <2>1. P(h + j) = P(h) * P(j)
    BY <1>1, PowerAdd
  <2>2. P(h) \in Nat \ {0} /\ P(j) \in Nat \ {0}
    BY <1>1
  <2> HIDE DEF P
  <2>3. v \div (P(h) * P(j)) = (v \div P(h)) \div P(j)
    BY <2>2, DivisionTwice, Zenon
  <2>4. QED
    BY <2>1, <2>3, Zenon
<1>3. ASSUME j < h
      PROVE  ((v % P(h)) \div P(j)) % ByteSize = (v \div P(j)) % ByteSize
  <2> DEFINE k == h - j - 1
  <2>1. k \in Nat /\ h = j + (k + 1) /\ k + 1 \in Nat
    BY <1>3
  <2> HIDE DEF k
  <2>2. P(h) = P(j) * (ByteSize * P(k))
    <3>1. P(j + (k + 1)) = P(j) * P(k + 1)
      BY <1>1, <2>1, PowerAdd
    <3>2. P(k + 1) = ByteSize * P(k)
      BY <1>1, <2>1, PowerDef
    <3>3. QED
      BY <2>1, <3>1, <3>2, Zenon
  <2>3. P(j) \in Positive /\ P(k) \in Positive /\ ByteSize \in Positive
    BY <1>1, <2>1 DEF Positive
  <2> HIDE DEF P
  <2>4. ((v % (P(j) * (ByteSize * P(k)))) \div P(j)) % ByteSize = (v \div P(j)) % ByteSize
    BY <2>3, DigitBelow, ZenonT(60)
  <2>5. QED
    BY <2>2, <2>4, Zenon
<1>4. QED
  BY <1>2, <1>3, Zenon

(* So it is when the halves are swapped and change places.                 *)
LEMMA HalvesReverse ==
  ASSUME NEW h \in Nat, NEW v \in Unsigned(h + h)
  PROVE  LET half == Power(ByteSize, h)
             w == byteswap(h, v \div half) + byteswap(h, v % half) * half
         IN /\ w \in Unsigned(h + h)
            /\ ToMemory(FALSE, h + h, w) = ToMemory(TRUE, h + h, v)
<1> DEFINE P(i) == Power(ByteSize, i)
           half == P(h)
           hi == v \div half
           lo == v % half
           x == byteswap(h, hi)
           y == byteswap(h, lo)
           w == x + y * half
<1>1. half \in Nat \ {0} /\ h + h \in Nat /\ v \in Nat
  BY ByteSizes, UnsignedNat
<1>2. hi \in Nat /\ lo \in Nat
  <2> HIDE DEF half
  <2>1. hi \in Nat /\ lo \in 0 .. half - 1
    BY <1>1, Division, Zenon
  <2>2. QED
    BY <1>1, <2>1
<1>3. x \in 0 .. half - 1 /\ y \in 0 .. half - 1
  <2> HIDE DEF hi, lo
  <2>1. QED
    BY <1>2, ByteswapReverses, Zenon DEF Unsigned
<1>4. w \in 0 .. half * half - 1 /\ w \div half = y /\ w % half = x
  <2> HIDE DEF half, x, y
  <2>1. half \in Positive
    BY <1>1, Zenon DEF Positive
  <2>2. QED
    BY <1>3, <2>1, NextDigit, ZenonT(40)
<1>5. w \in Unsigned(h + h)
  <2>1. P(h + h) = half * half
    BY ByteSizes, PowerAdd
  <2>2. QED
    BY <1>4, <2>1, Zenon DEF Unsigned
<1>6. w \in Nat
  BY <1>1, <1>5, UnsignedNat
<1>7. ASSUME NEW i \in 1 .. h + h
      PROVE  (w \div P((h + h) - i)) % ByteSize = (v \div P(i - 1)) % ByteSize
  <2>1. CASE i <= h
    <3> DEFINE j == h - i
    <3>1. j \in Nat /\ (h + h) - i = h + j /\ i - 1 \in Nat /\ i - 1 < h /\ i \in 1 .. h
      BY <2>1
    <3> HIDE DEF j
    <3>2. (w \div P(h + j)) % ByteSize = ((w \div half) \div P(j)) % ByteSize
      <4> HIDE DEF w
      <4>1. QED
        BY <1>6, <3>1, HalfDigits
    <3>3. (y \div P(j)) % ByteSize = (lo \div P(i - 1)) % ByteSize
      <4>1. ToMemory(FALSE, h, y)[i] = ToMemory(TRUE, h, lo)[i]
        <5> HIDE DEF lo
        <5>1. QED
          BY <1>2, ByteswapReverses, Zenon
      <4>2. Weight(FALSE, h, i) = P(j) /\ Weight(TRUE, h, i) = P(i - 1)
        BY Zenon DEF Weight, j
      <4> HIDE DEF y, lo, P
      <4>3. QED
        BY <3>1, <4>1, <4>2, Zenon DEF ToMemory
    <3>4. (lo \div P(i - 1)) % ByteSize = (v \div P(i - 1)) % ByteSize
      BY <1>1, <3>1, HalfDigits
    <3> HIDE DEF y, lo, P, w, half
    <3>5. QED
      BY <1>4, <3>1, <3>2, <3>3, <3>4, Zenon
  <2>2. CASE i > h
    <3> DEFINE k == i - h
               j == h - k
    <3>1. /\ k \in 1 .. h /\ j \in Nat /\ (h + h) - i = j /\ j < h
          /\ k - 1 \in Nat /\ h + (k - 1) = i - 1
      BY <2>2
    <3> HIDE DEF k
    <3>2. (w \div P(j)) % ByteSize = ((w % half) \div P(j)) % ByteSize
      <4> HIDE DEF w, j
      <4>1. QED
        BY <1>6, <3>1, HalfDigits
    <3>3. (x \div P(j)) % ByteSize = (hi \div P(k - 1)) % ByteSize
      <4>1. ToMemory(FALSE, h, x)[k] = ToMemory(TRUE, h, hi)[k]
        <5> HIDE DEF hi
        <5>1. QED
          BY <1>2, ByteswapReverses, Zenon
      <4>2. Weight(FALSE, h, k) = P(j) /\ Weight(TRUE, h, k) = P(k - 1)
        BY Zenon DEF Weight
      <4> HIDE DEF x, hi, P, j
      <4>3. QED
        BY <3>1, <4>1, <4>2, Zenon DEF ToMemory
    <3>4. (hi \div P(k - 1)) % ByteSize = (v \div P(h + (k - 1))) % ByteSize
      BY <1>1, <3>1, HalfDigits
    <3> HIDE DEF x, hi, P, w, half, j
    <3>5. QED
      BY <1>4, <3>1, <3>2, <3>3, <3>4, Zenon
  <2>3. i <= h \/ i > h
    OBVIOUS
  <2>4. QED
    BY <2>1, <2>2, <2>3, Zenon
<1>8. ToMemory(FALSE, h + h, w) = ToMemory(TRUE, h + h, v)
  <2>1. ASSUME NEW i \in 1 .. h + h
        PROVE  Weight(FALSE, h + h, i) = P((h + h) - i) /\ Weight(TRUE, h + h, i) = P(i - 1)
    <3>1. Weight(FALSE, h + h, i) = P((h + h) - i)
      BY Zenon DEF Weight
    <3>2. Weight(TRUE, h + h, i) = P(i - 1)
      BY Zenon DEF Weight
    <3>3. QED
      BY <3>1, <3>2, Zenon
  <2> HIDE DEF w, P
  <2>2. ASSUME NEW i \in 1 .. h + h
        PROVE  (w \div Weight(FALSE, h + h, i)) % ByteSize
                 = (v \div Weight(TRUE, h + h, i)) % ByteSize
    BY <1>7, <2>1, Zenon
  <2>3. QED
    BY <2>2, Zenon DEF ToMemory
<1>9. QED
  BY <1>5, <1>8, Zenon

(* The lengths of the integers that are swapped.                           *)
Swappable == {n \in Nat : n > WordBytes => n % 2 = 0}

(* Whichever way the code takes, swapping turns the image round.           *)
LEMMA SwappedReverses ==
  ASSUME NEW n \in Swappable, NEW v \in Unsigned(n)
  PROVE  /\ Swapped(n, v) \in Unsigned(n)
         /\ ToMemory(FALSE, n, Swapped(n, v)) = ToMemory(TRUE, n, v)
         /\ ToMemory(TRUE, n, Swapped(n, v)) = ToMemory(FALSE, n, v)
<1>1. n \in Nat /\ v \in Nat
  BY UnsignedNat DEF Swappable
<1>2. /\ Swapped(n, v) \in Unsigned(n)
      /\ ToMemory(FALSE, n, Swapped(n, v)) = ToMemory(TRUE, n, v)
  <2>1. CASE Swapped(n, v) = byteswap(n, v)
    BY <1>1, <2>1, ByteswapReverses, Zenon
  <2>2. CASE Swapped(n, v) # byteswap(n, v)
    <3> DEFINE h == n \div 2
               half == Power(ByteSize, h)
    <3>1. n > WordBytes /\ ~HasBswap128
      BY <2>2, Zenon DEF Swapped, byteswap_u128
    <3>2. h \in Nat /\ n = h + h
      <4>1. n % 2 = 0
        BY <3>1 DEF Swappable
      <4>2. QED
        BY <1>1, <4>1
    <3>3. Swapped(n, v) = byteswap(h, v \div half) + byteswap(h, v % half) * half
      BY <3>1, Zenon DEF Swapped, byteswap_u128
    <3> HIDE DEF h
    <3>4. v \in Unsigned(h + h)
      BY <3>2, Zenon
    <3> DEFINE w == byteswap(h, v \div half) + byteswap(h, v % half) * half
    <3>5. w \in Unsigned(h + h) /\ ToMemory(FALSE, h + h, w) = ToMemory(TRUE, h + h, v)
      BY <3>2, <3>4, HalvesReverse
    <3> HIDE DEF w
    <3>6. QED
      BY <3>2, <3>3, <3>5, Zenon DEF w
  <2>3. QED
    BY <2>1, <2>2
<1>3. ToMemory(TRUE, n, Swapped(n, v)) = ToMemory(FALSE, n, v)
  <2> DEFINE s == Swapped(n, v)
  <2>1. s \in Nat
    BY <1>1, <1>2, UnsignedNat
  <2> HIDE DEF s
  <2>2. ToMemory(TRUE, n, s) \in [1 .. n -> Bytes] /\ ToMemory(FALSE, n, v) \in [1 .. n -> Bytes]
    BY <1>1, <2>1, ImageType, Zenon
  <2>3. ASSUME NEW i \in 1 .. n PROVE ToMemory(TRUE, n, s)[i] = ToMemory(FALSE, n, v)[i]
    <3>1. n + 1 - i \in 1 .. n /\ n + 1 - (n + 1 - i) = i
      BY <1>1
    <3>2. ToMemory(TRUE, n, s)[i] = ToMemory(FALSE, n, s)[n + 1 - i]
      BY <1>1, ImageReversed, Zenon
    <3>3. ToMemory(TRUE, n, v)[n + 1 - i] = ToMemory(FALSE, n, v)[n + 1 - (n + 1 - i)]
      BY <1>1, <3>1, ImageReversed, Zenon
    <3>4. QED
      BY <1>2, <3>1, <3>2, <3>3, Zenon DEF s
  <2>4. ToMemory(TRUE, n, s) = ToMemory(FALSE, n, v)
    BY <1>1, <2>2, <2>3, SameImage, Zenon
  <2>5. QED
    BY <2>4, Zenon DEF s
<1>4. QED
  BY <1>2, <1>3, Zenon

-----------------------------------------------------------------------------
(* Byte orders.                                                            *)

(* Numbers with the same image are the same.                               *)
LEMMA SameNumber ==
  ASSUME NEW le \in BOOLEAN, NEW n \in Nat, NEW v \in Unsigned(n), NEW w \in Unsigned(n),
         ToMemory(le, n, v) = ToMemory(le, n, w)
  PROVE  v = w
<1>1. FromMemory(le, n, ToMemory(le, n, v)) = v /\ FromMemory(le, n, ToMemory(le, n, w)) = w
  BY NumberReadBack, Zenon
<1>2. QED
  BY <1>1, Zenon

(* A number in network order has the same bytes on every machine.          *)
LEMMA ToNetworkOrder ==
  ASSUME NEW le \in BOOLEAN, NEW n \in Swappable, NEW v \in Unsigned(n)
  PROVE  /\ to_be(le, n, v) \in Unsigned(n)
         /\ ToMemory(le, n, to_be(le, n, v)) = ToMemory(FALSE, n, v)
<1>1. CASE le = TRUE
  BY <1>1, SwappedReverses, Zenon DEF to_be
<1>2. CASE le = FALSE
  BY <1>2, Zenon DEF to_be
<1>3. QED
  BY <1>1, <1>2, Zenon

(* A number read from network order is the number with those bytes.        *)
LEMMA FromNetworkOrder ==
  ASSUME NEW le \in BOOLEAN, NEW n \in Swappable, NEW v \in Unsigned(n), NEW x \in Unsigned(n),
         ToMemory(le, n, x) = ToMemory(FALSE, n, v)
  PROVE  from_be(le, n, x) = v
<1>1. n \in Nat
  BY DEF Swappable
<1>2. CASE le = TRUE
  <2>1. Swapped(n, x) \in Unsigned(n) /\ ToMemory(FALSE, n, Swapped(n, x)) = ToMemory(TRUE, n, x)
    BY SwappedReverses, Zenon
  <2>2. ToMemory(FALSE, n, Swapped(n, x)) = ToMemory(FALSE, n, v)
    BY <1>2, <2>1, Zenon
  <2>3. Swapped(n, x) = v
    BY <1>1, <2>1, <2>2, SameNumber, Zenon
  <2>4. QED
    BY <1>2, <2>3, Zenon DEF from_be
<1>3. CASE le = FALSE
  <2>1. x = v
    BY <1>1, <1>3, SameNumber, Zenon
  <2>2. QED
    BY <1>3, <2>1, Zenon DEF from_be
<1>4. QED
  BY <1>2, <1>3, Zenon

(* A number in little-endian order, read by another machine, is the number.*)
LEMMA RelayedSame ==
  ASSUME little \in BOOLEAN, NEW to \in BOOLEAN, NEW n \in Swappable, NEW v \in Unsigned(n)
  PROVE  Relayed(to, n, v) = v
<1> DEFINE w == to_le(little, n, v)
           m == ToMemory(TRUE, n, v)
           x == FromMemory(to, n, m)
<1>1. n \in Nat /\ v \in Nat
  BY UnsignedNat DEF Swappable
<1>2. m \in [1 .. n -> Bytes]
  BY <1>1, ImageType, Zenon
<1>3. ToMemory(little, n, w) = m
  <2>1. CASE little = TRUE
    BY <2>1, Zenon DEF to_le
  <2>2. CASE little = FALSE
    BY <2>2, SwappedReverses, Zenon DEF to_le
  <2>3. QED
    BY <2>1, <2>2, Zenon
<1> HIDE DEF m
<1>4. x \in Unsigned(n) /\ ToMemory(to, n, x) = m
  BY <1>1, <1>2, BytesReadBack, Zenon
<1> HIDE DEF w, x
<1>5. from_le(to, n, x) = v
  <2>1. CASE to = TRUE
    <3>1. ToMemory(TRUE, n, x) = ToMemory(TRUE, n, v)
      BY <1>4, <2>1, Zenon DEF m
    <3>2. x = v
      BY <1>1, <1>4, <3>1, SameNumber, Zenon
    <3>3. QED
      BY <2>1, <3>2, Zenon DEF from_le
  <2>2. CASE to = FALSE
    <3>1. Swapped(n, x) \in Unsigned(n) /\ ToMemory(TRUE, n, Swapped(n, x)) = ToMemory(FALSE, n, x)
      BY <1>4, SwappedReverses, Zenon
    <3>2. ToMemory(TRUE, n, Swapped(n, x)) = ToMemory(TRUE, n, v)
      BY <1>4, <2>2, <3>1, Zenon DEF m
    <3>3. Swapped(n, x) = v
      BY <1>1, <3>1, <3>2, SameNumber, Zenon
    <3>4. QED
      BY <2>2, <3>3, Zenon DEF from_le
  <2>3. QED
    BY <2>1, <2>2, Zenon
<1>6. QED
  BY <1>3, <1>5, Zenon DEF Relayed, w, x

-----------------------------------------------------------------------------
(* Addresses and ports.                                                    *)

(* The lengths and numbers that the constants give are fit for swapping.   *)
LEMMA Lengths ==
  /\ \A T \in AddrTypes : NumBytes[T] \in Swappable /\ NumBytes[T] \in Nat
  /\ PortBytes \in Swappable /\ PortBytes \in Nat
  /\ \A T \in AddrTypes : Numbers[T] \subseteq Unsigned(NumBytes[T])
  /\ PortNumbers \subseteq Unsigned(PortBytes)
<1>1. ASSUME NEW T \in AddrTypes PROVE NumBytes[T] \in Swappable /\ NumBytes[T] \in Nat
  BY AddrTypesAssumption DEF Swappable
<1>2. PortBytes \in Swappable /\ PortBytes \in Nat
  BY PortsAssumption, BytesAssumption DEF Swappable
<1>3. QED
  BY <1>1, <1>2, NumbersAssumption DEF Ports

(* An address made from a number is the number, most significant byte      *)
(* first, and is taken for that number, on every machine.                  *)
LEMMA AddrOfNumber ==
  ASSUME NEW T \in AddrTypes, NEW le \in BOOLEAN, NEW v \in Unsigned(NumBytes[T])
  PROVE  AddrFromNative(T, le, v) = ToMemory(FALSE, NumBytes[T], v)
BY Lengths, ToNetworkOrder, Zenon DEF AddrFromNative, AddrFromBe

(* An address is taken for its number, and that number has its bytes.      *)
LEMMA NumberOfAddr ==
  ASSUME NEW T \in AddrTypes, NEW le \in BOOLEAN, NEW a \in Addrs(T)
  PROVE  /\ to_native_integer(T, le, a) \in Unsigned(NumBytes[T])
         /\ to_native_integer(T, le, a) = FromMemory(FALSE, NumBytes[T], a)
         /\ ToMemory(FALSE, NumBytes[T], to_native_integer(T, le, a)) = a
<1> DEFINE n == NumBytes[T]
           v == FromMemory(FALSE, n, a)
           x == FromMemory(le, n, a)
<1>1. n \in Swappable /\ n \in Nat
  BY Lengths, Zenon
<1>2. a \in [1 .. n -> Bytes]
  BY DEF Addrs
<1> HIDE DEF n
<1>3. v \in Unsigned(n) /\ ToMemory(FALSE, n, v) = a
  BY <1>1, <1>2, BytesReadBack, Zenon
<1>4. x \in Unsigned(n) /\ ToMemory(le, n, x) = a
  BY <1>1, <1>2, BytesReadBack, Zenon
<1> HIDE DEF v, x
<1>5. from_be(le, n, x) = v
  BY <1>1, <1>3, <1>4, FromNetworkOrder, Zenon
<1>6. to_native_integer(T, le, a) = v
  BY <1>5, Zenon DEF to_native_integer, to_be_integer, n, x
<1>7. QED
  BY <1>3, <1>6, Zenon DEF n, v

(* The address of the number 0 is zeros.                                   *)
LEMMA ImageOfZero ==
  ASSUME NEW T \in AddrTypes
  PROVE  ToMemory(FALSE, NumBytes[T], 0) = Everything(T)
<1> DEFINE n == NumBytes[T]
<1>1. n \in Nat
  BY Lengths, Zenon
<1> HIDE DEF n
<1>2. ASSUME NEW i \in 1 .. n PROVE (0 \div Weight(FALSE, n, i)) % ByteSize = 0
  <2>1. Weight(FALSE, n, i) \in Nat \ {0}
    BY <1>1, Weights, Zenon
  <2>2. \A d, b \in Nat \ {0} : (0 \div d) % b = 0
    <3>1. ASSUME NEW d \in Nat \ {0} PROVE 0 \div d = 0 /\ 0 % d = 0
      BY SMT
    <3>2. QED
      BY <3>1, Zenon
  <2>3. QED
    BY <2>1, <2>2, ByteSizes, Zenon
<1>3. ToMemory(FALSE, n, 0) = [i \in 1 .. n |-> 0]
  BY <1>2, Zenon DEF ToMemory
<1>4. QED
  BY <1>3, Zenon DEF Everything, n

-----------------------------------------------------------------------------
(* Prefixes.                                                               *)

(* The bits of an address hold exactly the numbers of its bytes.           *)
LEMMA Widths ==
  ASSUME NEW T \in AddrTypes
  PROVE  /\ CntBits(T) \in Nat \ {0}
         /\ Power(2, CntBits(T)) = Power(ByteSize, NumBytes[T])
<1>1. ByteBits \in Nat \ {0} /\ NumBytes[T] \in Nat \ {0}
  BY BytesAssumption, AddrTypesAssumption
<1>2. \A x, y \in Nat \ {0} : x * y \in Nat \ {0}
  OBVIOUS
<1>3. CntBits(T) \in Nat \ {0}
  BY <1>1, <1>2, Zenon DEF CntBits
<1>4. Power(Power(2, ByteBits), NumBytes[T]) = Power(2, NumBytes[T] * ByteBits)
  <2>1. 2 \in Nat /\ ByteBits \in Nat /\ NumBytes[T] \in Nat
    BY <1>1
  <2>2. QED
    BY <2>1, PowerOfPower, Zenon
<1>5. QED
  BY <1>3, <1>4, Zenon DEF CntBits, ByteSize

(* v without its last c bits.                                              *)
Cut(v, c) == v - (v % Power(2, c))

(* A cut number is a multiple of the power it is cut at, and not greater.  *)
LEMMA CutType ==
  ASSUME NEW v \in Nat, NEW c \in Nat
  PROVE  /\ Power(2, c) \in Nat \ {0}
         /\ Cut(v, c) \in 0 .. v
         /\ Cut(v, c) = Power(2, c) * (v \div Power(2, c))
<1>1. Power(2, c) \in Nat \ {0}
  <2>1. 2 \in Nat \ {0}
    OBVIOUS
  <2>2. QED
    BY <2>1, PowerPositive, Zenon
<1> SUFFICES ASSUME NEW d \in Nat \ {0}
             PROVE  v - (v % d) \in 0 .. v /\ v - (v % d) = d * (v \div d)
  BY <1>1, Zenon DEF Cut
<1>2. v \div d \in Nat /\ v % d \in 0 .. d - 1 /\ v = d * (v \div d) + (v % d)
  BY Division, Zenon
<1>3. d * (v \div d) \in Nat
  <2>1. \A x, y \in Nat : x * y \in Nat
    OBVIOUS
  <2>2. QED
    BY <1>2, <2>1, Zenon
<1>4. \A x, y, r \in Nat : x = y + r => x - r \in 0 .. x /\ x - r = y
  OBVIOUS
<1>5. v % d \in Nat
  BY <1>2
<1>6. QED
  BY <1>2, <1>3, <1>4, <1>5, Zenon

(* It fits the same bytes.                                                 *)
LEMMA CutUnsigned ==
  ASSUME NEW n \in Nat, NEW v \in Unsigned(n), NEW c \in Nat
  PROVE  Cut(v, c) \in Unsigned(n)
<1>1. v \in Nat /\ Power(ByteSize, n) \in Nat /\ v \in 0 .. Power(ByteSize, n) - 1
  BY ByteSizes, UnsignedNat DEF Unsigned
<1>2. Cut(v, c) \in 0 .. v
  BY <1>1, CutType, Zenon
<1>3. QED
  BY <1>1, <1>2 DEF Unsigned

(* Two cuts are the longer one.                                            *)
LEMMA CutTwice ==
  ASSUME NEW v \in Nat, NEW b \in Nat, NEW c \in Nat
  PROVE  Cut(Cut(v, b), c) = Cut(v, IF b <= c THEN c ELSE b)
<1> DEFINE x == Cut(v, b)
           B == Power(2, b)
           C == Power(2, c)
<1>1. B \in Nat \ {0} /\ C \in Nat \ {0} /\ x \in Nat /\ x = B * (v \div B) /\ v \div B \in Nat
  <2>1. B \in Nat \ {0} /\ C \in Nat \ {0} /\ x \in 0 .. v /\ x = B * (v \div B)
    BY CutType, Zenon
  <2>2. v \div B \in Nat
    BY <2>1, Division, Zenon
  <2>3. QED
    BY <2>1, <2>2
<1>2. x \div B = v \div B /\ x % B = 0
  <2> HIDE DEF x, B
  <2>1. x = B * (v \div B) + 0 /\ 0 \in 0 .. B - 1
    BY <1>1
  <2>2. QED
    BY <1>1, <2>1, DivisionUnique
<1>3. CASE b <= c
  <2> DEFINE D == Power(2, c - b)
  <2>1. c - b \in Nat /\ b + (c - b) = c
    BY <1>3
  <2>2. C = B * D
    <3>1. Power(2, b + (c - b)) = B * D
      BY <2>1, PowerAdd
    <3>2. QED
      BY <2>1, <3>1, Zenon
  <2>3. D \in Nat \ {0}
    BY <2>1, CutType, Zenon
  <2> HIDE DEF D, C, B, x
  <2>4. /\ v % (B * D) = B * ((v \div B) % D) + (v % B)
        /\ x % (B * D) = B * ((x \div B) % D) + (x % B)
    BY <1>1, <2>3, DivisionTwice, Zenon
  <2>5. x % C = B * ((v \div B) % D) + 0 /\ v % C = B * ((v \div B) % D) + (v % B)
    BY <1>2, <2>2, <2>4, Zenon
  <2>6. B * ((v \div B) % D) \in Nat
    <3>1. (v \div B) % D \in 0 .. D - 1
      BY <1>1, <2>3, Division, Zenon
    <3>2. (v \div B) % D \in Nat
      BY <2>3, <3>1
    <3>3. \A p, q \in Nat : p * q \in Nat
      OBVIOUS
    <3>4. QED
      BY <1>1, <3>2, <3>3, Zenon
  <2>7. v % B \in Nat
    <3>1. v % B \in 0 .. B - 1
      BY <1>1, Division, Zenon
    <3>2. QED
      BY <1>1, <3>1
  <2>8. x = v - (v % B)
    BY Zenon DEF x, B, Cut
  <2>9. ASSUME NEW p \in Nat, NEW q \in Nat
        PROVE  (v - q) - (p + 0) = v - (p + q)
    OBVIOUS
  <2>10. x - (x % C) = v - (v % C)
    BY <2>5, <2>6, <2>7, <2>8, <2>9, ZenonT(40)
  <2>11. QED
    BY <1>3, <2>10, Zenon DEF Cut, x, C
<1>4. CASE ~(b <= c)
  <2> DEFINE D == Power(2, b - c)
  <2>1. b - c \in Nat /\ c + (b - c) = b
    BY <1>4
  <2>2. B = C * D
    <3>1. Power(2, c + (b - c)) = C * D
      BY <2>1, PowerAdd
    <3>2. QED
      BY <2>1, <3>1, Zenon
  <2>3. D \in Nat \ {0}
    BY <2>1, CutType, Zenon
  <2> HIDE DEF D, C, B, x
  <2>4. D * (v \div B) \in Nat /\ x = C * (D * (v \div B)) + 0
    <3>1. \A p, q \in Nat : p * q \in Nat
      OBVIOUS
    <3>2. \A p, q, r \in Nat : (p * q) * r = p * (q * r) + 0
      OBVIOUS
    <3>3. C \in Nat /\ D \in Nat /\ v \div B \in Nat
      BY <1>1, <2>3
    <3>4. (C * D) * (v \div B) = C * (D * (v \div B)) + 0
      <4> SUFFICES ASSUME NEW r \in Nat PROVE (C * D) * r = C * (D * r) + 0
        BY <3>3, Zenon
      <4>1. QED
        BY <3>2, <3>3, SMT
    <3>5. x = (C * D) * (v \div B)
      BY <1>1, <2>2, Zenon
    <3>6. QED
      BY <3>1, <3>3, <3>4, <3>5, Zenon
  <2>5. 0 \in 0 .. C - 1
    BY <1>1
  <2>6. x % C = 0
    BY <1>1, <2>4, <2>5, DivisionUnique
  <2>7. x - (x % C) = x
    BY <1>1, <2>6
  <2>8. QED
    BY <1>4, <2>7, Zenon DEF Cut, x, C
<1>5. QED
  BY <1>3, <1>4, Zenon

(* A prefix that is not empty cuts the rest off.                           *)
LEMMA MaskedCut ==
  ASSUME NEW T \in AddrTypes, NEW le \in BOOLEAN, NEW v \in Unsigned(NumBytes[T]),
         NEW nbits \in 1 .. CntBits(T)
  PROVE  LET masked == Masked(T, le, ToMemory(FALSE, NumBytes[T], v), nbits)
             cut == ToMemory(FALSE, NumBytes[T], Cut(v, CntBits(T) - nbits))
         IN cut \in masked /\ \A a \in masked : a = cut
<1> DEFINE n == NumBytes[T]
           b == ToMemory(FALSE, n, v)
           C == CntBits(T)
           c == C - nbits
           P == Power(2, c)
<1>1. n \in Nat /\ C \in Nat \ {0} /\ v \in Nat
  BY Lengths, Widths, UnsignedNat
<1>2. c \in Nat /\ c < C /\ c + nbits = C /\ nbits \in Nat
  BY <1>1
<1>3. P \in Nat \ {0} /\ Power(2, C) \in Nat \ {0} /\ Power(2, nbits) \in Nat \ {0}
  BY <1>1, <1>2, CutType
<1>4. HostMasks(T, nbits) = {P - 1}
  <2>1. OneShifted(T, c) = {P}
    BY <1>2, Zenon DEF OneShifted
  <2>2. Power(2, C) = P * Power(2, nbits)
    BY <1>2, PowerAdd
  <2>3. P - 1 \in 0 .. Power(2, C) - 1
    <3> HIDE DEF P, C
    <3>1. ASSUME NEW p \in Nat \ {0}, NEW q \in Nat \ {0}, NEW r \in Nat, r = p * q
          PROVE  p - 1 \in 0 .. r - 1
      <4>1. q - 1 \in Nat
        OBVIOUS
      <4>2. p * (q - 1) \in Nat /\ p * (q - 1) = r - p
        BY <3>1, <4>1
      <4>3. QED
        BY <4>2
    <3>2. Power(2, C) \in Nat
      BY <1>3
    <3>3. QED
      BY <1>3, <2>2, <3>1, <3>2, Zenon
  <2>4. (P - 1) % Power(2, C) = P - 1
    <3> HIDE DEF P, C
    <3>1. QED
      BY <1>3, <2>3, SmallRemainder, Zenon
  <2>5. HostMasks(T, nbits) = {(P - 1) % Power(2, C)}
    <3> HIDE DEF P
    <3>1. QED
      BY <2>1 DEF HostMasks
  <2>6. QED
    BY <2>4, <2>5, Zenon
<1>5. b \in Addrs(T)
  BY <1>1, ImageType, Zenon DEF Addrs
<1>6. to_native_integer(T, le, b) = v
  <2>1. to_native_integer(T, le, b) = FromMemory(FALSE, n, b)
    BY <1>5, NumberOfAddr, Zenon
  <2>2. FromMemory(FALSE, n, b) = v
    BY <1>1, NumberReadBack, Zenon
  <2>3. QED
    BY <2>1, <2>2, Zenon
<1>7. AndNot(v, P - 1) = Cut(v, c)
  <2>1. (P - 1) + 1 = P
    BY <1>3
  <2>2. QED
    BY <2>1, Zenon DEF AndNot, Cut
<1>8. Masked(T, le, b, nbits) = {AddrFromNative(T, le, Cut(v, c))}
  <2> HIDE DEF b, P, c
  <2>1. Masked(T, le, b, nbits)
          = {AddrFromNative(T, le, AndNot(to_native_integer(T, le, b), m)) : m \in {P - 1}}
    BY <1>4, Zenon DEF Masked
  <2>2. Masked(T, le, b, nbits)
          = {AddrFromNative(T, le, AndNot(to_native_integer(T, le, b), P - 1))}
    BY <2>1, Zenon
  <2>3. QED
    BY <1>6, <1>7, <2>2, Zenon
<1>9. Cut(v, c) \in Unsigned(n)
  BY <1>1, <1>2, CutUnsigned, Zenon
<1>10. AddrFromNative(T, le, Cut(v, c)) = ToMemory(FALSE, n, Cut(v, c))
  BY <1>9, AddrOfNumber, Zenon
<1> HIDE DEF b, c
<1>11. /\ ToMemory(FALSE, n, Cut(v, c)) \in Masked(T, le, b, nbits)
       /\ \A a \in Masked(T, le, b, nbits) : a = ToMemory(FALSE, n, Cut(v, c))
  BY <1>8, <1>10, Zenon
<1>12. QED
  BY <1>11, Zenon DEF b, c

(* An empty prefix leaves everything or nothing.                           *)
LEMMA MaskedEmpty ==
  ASSUME NEW T \in AddrTypes, NEW le \in BOOLEAN, NEW b \in Addrs(T),
         NEW a \in Masked(T, le, b, 0)
  PROVE  a = b \/ a = Everything(T)
<1> DEFINE n == NumBytes[T]
           C == CntBits(T)
           v == to_native_integer(T, le, b)
           P == Power(2, C)
<1>1. n \in Nat /\ C \in Nat \ {0}
  BY Lengths, Widths
<1>2. P \in Nat \ {0} /\ P = Power(ByteSize, n)
  BY <1>1, CutType, Widths
<1>3. v \in Unsigned(n) /\ ToMemory(FALSE, n, v) = b
  BY NumberOfAddr, Zenon
<1>4. v \in Nat /\ v \in 0 .. P - 1
  <2>1. v \in 0 .. P - 1
    BY <1>2, <1>3, Zenon DEF Unsigned
  <2>2. QED
    BY <1>2, <2>1
<1> HIDE DEF P, v
<1>5. HostMasks(T, 0) \subseteq {0, P - 1}
  <2>1. C - 0 = C /\ ~(C < C)
    BY <1>1
  <2>2. OneShifted(T, C) = {1, 0}
    BY <2>1, Zenon DEF OneShifted
  <2>3. HostMasks(T, 0) = {(x - 1) % P : x \in {1, 0}}
    BY <2>1, <2>2, Zenon DEF HostMasks, P
  <2>4. (1 - 1) % P = 0
    BY <1>2
  <2>5. (0 - 1) % P = P - 1
    BY <1>2
  <2>6. QED
    BY <2>3, <2>4, <2>5
<1>6. PICK m \in {0, P - 1} : a = AddrFromNative(T, le, AndNot(v, m))
  BY <1>5, Zenon DEF Masked, v
<1>7. CASE m = 0
  <2>1. AndNot(v, m) = v
    <3>1. v % 1 = 0 /\ m + 1 = 1
      BY <1>4, <1>7
    <3>2. v - 0 = v
      BY <1>4
    <3>3. QED
      BY <3>1, <3>2, Zenon DEF AndNot
  <2>2. a = b
    BY <1>3, <1>6, <2>1, AddrOfNumber, Zenon
  <2>3. QED
    BY <2>2
<1>8. CASE m = P - 1
  <2>1. AndNot(v, m) = 0
    <3>1. m + 1 = P
      BY <1>2, <1>8
    <3>2. v % P = v
      BY <1>2, <1>4, SmallRemainder, Zenon
    <3>3. v - v = 0
      BY <1>4
    <3>4. QED
      BY <3>1, <3>2, <3>3, Zenon DEF AndNot
  <2>2. 0 \in Unsigned(n)
    BY <1>2 DEF Unsigned
  <2>3. a = Everything(T)
    BY <1>6, <2>1, <2>2, AddrOfNumber, ImageOfZero, Zenon
  <2>4. QED
    BY <2>3
<1>9. QED
  BY <1>7, <1>8, Zenon

-----------------------------------------------------------------------------
(* The peers.                                                              *)

(* x is a peer of the network and port of k, on a machine of that order.   *)
PeerIs(T, le, x, k) ==
  /\ x \in AddrPorts(T)
  /\ IsNetwork(T, x.addr_, k)
  /\ ToMemory(le, PortBytes, x.port_) = ToMemory(FALSE, PortBytes, k.port)

(* t is a text of a peer, or none.                                         *)
TextIs(T, t) ==
  /\ t \in {NoText} \cup [addr : Addrs(T), len : 0 .. StrLen[T] - 1,
                          port : Ports, whole : BOOLEAN, of : Knowledge(T)]
  /\ t # NoText => /\ t.whole
                   /\ IsNetwork(T, t.addr, t.of)
                   /\ t.port = t.of.port

(* Every value is typed, the peer is that of what is known of it, and so   *)
(* is the text.                                                            *)
NetInv ==
  /\ type \in AddrTypes
  /\ little \in BOOLEAN
  /\ known \in Knowledge(type)
  /\ PeerIs(type, little, peer, known)
  /\ TextIs(type, text)

(* What the ghost knows of a peer are numbers of the right length.         *)
LEMMA Known ==
  ASSUME NEW T \in AddrTypes, NEW k \in Knowledge(T)
  PROVE  /\ k.num \in Unsigned(NumBytes[T]) /\ k.num \in Nat
         /\ k.port \in PortNumbers /\ k.port \in Unsigned(PortBytes)
         /\ k.plen \in 0 .. CntBits(T)
         /\ k.wild \in BOOLEAN
<1>1. k.num \in Numbers[T] /\ k.port \in PortNumbers /\ k.plen \in 0 .. CntBits(T)
      /\ k.wild \in BOOLEAN
  BY DEF Knowledge
<1>2. Unsigned(NumBytes[T]) \subseteq Nat
  BY Lengths, UnsignedNat, Zenon
<1>3. QED
  BY <1>1, <1>2, Lengths, Zenon

(* A peer made from the number of its address and from its port.           *)
LEMMA PeerMade ==
  ASSUME NEW T \in AddrTypes, NEW le \in BOOLEAN, NEW k \in Knowledge(T),
         NEW v \in Unsigned(NumBytes[T]), IsNetwork(T, ToMemory(FALSE, NumBytes[T], v), k)
  PROVE  PeerIs(T, le, AddrPortFromNative(T, le, v, k.port), k)
<1> DEFINE a == AddrFromNative(T, le, v)
           p == to_be(le, PortBytes, k.port)
<1>1. a = ToMemory(FALSE, NumBytes[T], v)
  BY AddrOfNumber, Zenon
<1>2. a \in Addrs(T)
  <2>1. NumBytes[T] \in Nat /\ v \in Nat
    BY Lengths, UnsignedNat
  <2>2. QED
    BY <1>1, <2>1, ImageType, Zenon DEF Addrs
<1>3. p \in Ports /\ ToMemory(le, PortBytes, p) = ToMemory(FALSE, PortBytes, k.port)
  BY Lengths, Known, ToNetworkOrder, Zenon DEF Ports
<1> HIDE DEF a, p
<1>4. AddrPortFromNative(T, le, v, k.port) = [addr_ |-> a, port_ |-> p]
  BY Zenon DEF AddrPortFromNative, a, p
<1>5. PeerIs(T, le, [addr_ |-> a, port_ |-> p], k)
  BY <1>1, <1>2, <1>3 DEF PeerIs, AddrPorts
<1>6. QED
  BY <1>4, <1>5, Zenon

(* A peer taken apart.                                                     *)
LEMMA PeerTakenApart ==
  ASSUME NEW T \in AddrTypes, NEW le \in BOOLEAN, NEW k \in Knowledge(T), NEW x,
         PeerIs(T, le, x, k)
  PROVE  LET v == to_native_integer(T, le, x.addr_) IN
         /\ x.addr_ \in Addrs(T)
         /\ x.port_ \in Ports
         /\ v \in Unsigned(NumBytes[T])
         /\ ToMemory(FALSE, NumBytes[T], v) = x.addr_
         /\ IsNetwork(T, ToMemory(FALSE, NumBytes[T], v), k)
         /\ NativePort(le, x) = k.port
<1>1. x.addr_ \in Addrs(T) /\ x.port_ \in Ports /\ IsNetwork(T, x.addr_, k)
      /\ ToMemory(le, PortBytes, x.port_) = ToMemory(FALSE, PortBytes, k.port)
  BY DEF PeerIs, AddrPorts
<1>2. from_be(le, PortBytes, x.port_) = k.port
  <2>1. k.port \in Unsigned(PortBytes) /\ x.port_ \in Unsigned(PortBytes)
    BY <1>1, Known, Zenon DEF Ports
  <2>2. PortBytes \in Swappable
    BY Lengths, Zenon
  <2>3. QED
    BY <1>1, <2>1, <2>2, FromNetworkOrder, Zenon
<1>3. QED
  BY <1>1, <1>2, NumberOfAddr, Zenon DEF NativePort

(* A peer that was made is that of its number and port.                    *)
LEMMA NetInitInv ==
  ASSUME NetInit
  PROVE  NetInv
<1> DEFINE n == NumBytes[type]
           C == CntBits(type)
<1>1. type \in AddrTypes /\ little \in BOOLEAN /\ text = NoText
      /\ peer = AddrPortFromNative(type, little, known.num, known.port)
  BY Zenon DEF NetInit
<1>2. C \in Nat
  BY <1>1, Widths
<1>3. known \in Knowledge(type) /\ known.plen = C
  <2>1. known \in [num : Numbers[type], port : PortNumbers, plen : {C}, wild : {FALSE}]
    BY Zenon DEF NetInit
  <2> HIDE DEF C
  <2>2. C \in 0 .. C
    BY <1>2
  <2>3. known \in [num : Numbers[type], port : PortNumbers, plen : 0 .. C, wild : BOOLEAN]
        /\ known.plen = C
    BY <2>1, <2>2
  <2>4. QED
    BY <2>3, Zenon DEF Knowledge, C
<1>4. known.num \in Unsigned(n) /\ known.num \in Nat
  BY <1>1, <1>3, Known, Zenon
<1>5. known.num - (known.num % Power(2, C - known.plen)) = known.num
  <2>1. C - known.plen = 0
    BY <1>2, <1>3
  <2>2. Power(2, 0) = 1
    BY PowerDef
  <2>3. known.num - (known.num % 1) = known.num
    BY <1>4
  <2>4. QED
    BY <2>1, <2>2, <2>3, Zenon
<1>6. IsNetwork(type, ToMemory(FALSE, n, known.num), known)
  BY <1>5, Zenon DEF IsNetwork, Network
<1>7. PeerIs(type, little, peer, known)
  BY <1>1, <1>3, <1>4, <1>6, PeerMade, Zenon
<1>8. TextIs(type, text)
  BY <1>1, Zenon DEF TextIs
<1>9. QED
  BY <1>1, <1>3, <1>7, <1>8, Zenon DEF NetInv

(* Taking a peer apart and putting it together gives the same peer.        *)
LEMMA RebuildInv ==
  ASSUME NetInv, Rebuild
  PROVE  NetInv'
<1> DEFINE v == to_native_integer(type, little, peer.addr_)
<1>1. type \in AddrTypes /\ little \in BOOLEAN /\ known \in Knowledge(type)
      /\ PeerIs(type, little, peer, known)
  BY Zenon DEF NetInv
<1>2. v \in Unsigned(NumBytes[type]) /\ IsNetwork(type, ToMemory(FALSE, NumBytes[type], v), known)
      /\ NativePort(little, peer) = known.port
  BY <1>1, PeerTakenApart, ZenonT(40)
<1>3. PeerIs(type, little, AddrPortFromNative(type, little, v, known.port), known)
  BY <1>1, <1>2, PeerMade, Zenon
<1>4. peer' = AddrPortFromNative(type, little, v, known.port)
  BY <1>2, Zenon DEF Rebuild, Native
<1>5. type' = type /\ little' = little /\ text' = text /\ known' = known
  BY Zenon DEF Rebuild
<1> HIDE DEF v
<1>6. PeerIs(type', little', peer', known')
  BY <1>3, <1>4, <1>5, Zenon
<1>7. TextIs(type', text')
  BY <1>5, Zenon DEF NetInv
<1>8. QED
  BY <1>1, <1>5, <1>6, <1>7, Zenon DEF NetInv

(* The bytes of a sockaddr are the same peer on another machine.           *)
LEMMA SendInv ==
  ASSUME NetInv, Send
  PROVE  NetInv'
<1>1. type \in AddrTypes /\ little \in BOOLEAN /\ known \in Knowledge(type)
      /\ PeerIs(type, little, peer, known)
  BY Zenon DEF NetInv
<1>2. type' = type /\ little' \in BOOLEAN /\ text' = text /\ known' = known
  BY Zenon DEF Send
<1> DEFINE m == ToMemory(little, PortBytes, peer.port_)
<1>3. peer.addr_ \in Addrs(type) /\ peer.port_ \in Ports /\ IsNetwork(type, peer.addr_, known)
      /\ m = ToMemory(FALSE, PortBytes, known.port)
  BY <1>1 DEF PeerIs, AddrPorts
<1>4. m \in [1 .. PortBytes -> Bytes]
  <2>1. PortBytes \in Nat /\ peer.port_ \in Nat
    BY <1>3, Lengths, UnsignedNat DEF Ports
  <2>2. QED
    BY <1>1, <2>1, ImageType, Zenon
<1> HIDE DEF m
<1> DEFINE q == FromMemory(little', PortBytes, m)
<1>5. q \in Ports /\ ToMemory(little', PortBytes, q) = m
  <2> SUFFICES ASSUME NEW to \in BOOLEAN
               PROVE  /\ FromMemory(to, PortBytes, m) \in Ports
                      /\ ToMemory(to, PortBytes, FromMemory(to, PortBytes, m)) = m
    BY <1>2, Zenon
  <2>1. QED
    BY <1>4, Lengths, BytesReadBack, Zenon DEF Ports
<1>6. peer' = [addr_ |-> peer.addr_, port_ |-> q]
  BY DEF Send, FromSockaddr, to_sockaddr_in, AddrPortFromBe, m
<1> HIDE DEF q
<1>7. PeerIs(type, little', peer', known)
  BY <1>3, <1>5, <1>6 DEF PeerIs, AddrPorts
<1>8. TextIs(type', text')
  BY <1>2, Zenon DEF NetInv
<1>9. QED
  BY <1>1, <1>2, <1>7, <1>8, Zenon DEF NetInv

(* So are the numbers that were exchanged in little-endian order.          *)
LEMMA RelayInv ==
  ASSUME NetInv, Relay
  PROVE  NetInv'
<1> DEFINE v == to_native_integer(type, little, peer.addr_)
<1>1. type \in AddrTypes /\ little \in BOOLEAN /\ known \in Knowledge(type)
      /\ PeerIs(type, little, peer, known)
  BY Zenon DEF NetInv
<1>2. v \in Unsigned(NumBytes[type]) /\ IsNetwork(type, ToMemory(FALSE, NumBytes[type], v), known)
      /\ NativePort(little, peer) = known.port
  BY <1>1, PeerTakenApart, ZenonT(40)
<1>3. type' = type /\ little' \in BOOLEAN /\ text' = text /\ known' = known
  BY Zenon DEF Relay
<1> HIDE DEF v
<1> SUFFICES ASSUME NEW to \in BOOLEAN, to = little'
             PROVE  NetInv'
  BY <1>3, Zenon
<1>4. Relayed(to, NumBytes[type], v) = v /\ Relayed(to, PortBytes, known.port) = known.port
  BY <1>1, <1>2, Lengths, Known, RelayedSame, Zenon
<1>5. peer' = AddrPortFromNative(type, to, v, known.port)
  <2>1. peer' = AddrPortFromNative(type, to, Relayed(to, NumBytes[type], v),
                                   Relayed(to, PortBytes, NativePort(little, peer)))
    BY Zenon DEF Relay, Native, v
  <2>2. QED
    BY <1>2, <1>4, <2>1, Zenon
<1>6. PeerIs(type, to, peer', known)
  BY <1>1, <1>2, <1>5, PeerMade, Zenon
<1>7. TextIs(type', text')
  BY <1>3, Zenon DEF NetInv
<1>8. QED
  BY <1>1, <1>3, <1>6, <1>7, Zenon DEF NetInv

(* A prefix applied to the address of a network, k, gives that of the      *)
(* network of j, the shorter of the two.                                   *)
LEMMA NetworkMasked ==
  ASSUME NEW T \in AddrTypes, NEW le \in BOOLEAN, NEW k \in Knowledge(T),
         NEW nbits \in 0 .. CntBits(T), NEW b \in Addrs(T), IsNetwork(T, b, k),
         NEW a \in Masked(T, le, b, nbits), NEW j \in Knowledge(T), j.num = k.num,
         j.plen = IF nbits \in 1 .. k.plen THEN nbits ELSE k.plen,
         j.wild = (k.wild \/ nbits = 0)
  PROVE  a \in Addrs(T) /\ IsNetwork(T, a, j)
<1> DEFINE n == NumBytes[T]
           C == CntBits(T)
           net == Cut(k.num, C - k.plen)
<1>1. n \in Nat /\ C \in Nat \ {0} /\ k.num \in Nat /\ k.plen \in 0 .. C
      /\ k.num \in Unsigned(n)
  BY Lengths, Widths, Known, Zenon
<1>2. Network(T, k) = ToMemory(FALSE, n, net)
  BY Zenon DEF Network, Cut
<1>3. Network(T, j) = ToMemory(FALSE, n, Cut(k.num, C - j.plen))
  BY Zenon DEF Network, Cut
<1>4. CASE nbits = 0
  <2>1. j.plen = k.plen /\ j.wild = TRUE
    <3>1. nbits \notin 1 .. k.plen
      BY <1>1, <1>4
    <3>2. QED
      BY <1>4, <3>1, Zenon
  <2>2. a = b \/ a = Everything(T)
    BY <1>4, MaskedEmpty, Zenon
  <2>3. b = Network(T, j) \/ b = Everything(T)
    BY <1>2, <1>3, <2>1, Zenon DEF IsNetwork
  <2>4. Everything(T) \in Addrs(T)
    <3>1. 0 \in Nat
      OBVIOUS
    <3>2. ToMemory(FALSE, n, 0) \in [1 .. n -> Bytes]
      BY <1>1, <3>1, ImageType, Zenon
    <3>3. QED
      BY <3>2, ImageOfZero, Zenon DEF Addrs
  <2>5. QED
    BY <2>1, <2>2, <2>3, <2>4, Zenon DEF IsNetwork
<1>5. CASE nbits # 0
  <2> DEFINE c == C - nbits
  <2>1. nbits \in 1 .. C /\ c \in Nat /\ C - k.plen \in Nat
    BY <1>1, <1>5
  <2> HIDE DEF c
  <2>2. ASSUME NEW v \in Unsigned(n), b = ToMemory(FALSE, n, v)
        PROVE  a = ToMemory(FALSE, n, Cut(v, c)) /\ a \in Addrs(T)
    <3>1. a = ToMemory(FALSE, n, Cut(v, c))
      BY <2>1, <2>2, MaskedCut, Zenon DEF c
    <3>2. v \in Nat
      BY <1>1, UnsignedNat
    <3>3. Cut(v, c) \in Nat
      <4>1. Cut(v, c) \in 0 .. v
        BY <2>1, <3>2, CutType, Zenon
      <4>2. QED
        BY <3>2, <4>1
    <3>4. ToMemory(FALSE, n, Cut(v, c)) \in Addrs(T)
      BY <1>1, <3>3, ImageType, Zenon DEF Addrs
    <3>5. QED
      BY <3>1, <3>4, Zenon
  <2>3. CASE b = Network(T, k)
    <3>1. net \in Unsigned(n)
      BY <1>1, <2>1, CutUnsigned, Zenon
    <3>2. a = ToMemory(FALSE, n, Cut(net, c)) /\ a \in Addrs(T)
      BY <1>2, <2>2, <2>3, <3>1, Zenon
    <3>3. Cut(net, c) = Cut(k.num, IF C - k.plen <= c THEN c ELSE C - k.plen)
      BY <1>1, <2>1, CutTwice, Zenon
    <3>4. (IF C - k.plen <= c THEN c ELSE C - k.plen) = C - j.plen
      <4>1. ASSUME NEW q, q = k.plen, NEW r, r = j.plen
            PROVE  (IF C - q <= C - nbits THEN C - nbits ELSE C - q) = C - r
        <5>1. q \in 0 .. C /\ C \in Nat
          BY <1>1, <4>1, Zenon
        <5>2. r = IF nbits \in 1 .. q THEN nbits ELSE q
          BY <4>1, Zenon
        <5> HIDE DEF C
        <5>3. QED
          BY <2>1, <5>1, <5>2
      <4>2. QED
        BY <4>1, Zenon DEF c
    <3>5. QED
      BY <1>3, <3>2, <3>3, <3>4, Zenon DEF IsNetwork
  <2>4. CASE k.wild /\ b = Everything(T)
    <3>1. 0 \in Unsigned(n)
      <4>1. Power(ByteSize, n) \in Nat \ {0}
        BY <1>1, ByteSizes
      <4>2. QED
        BY <4>1 DEF Unsigned
    <3>2. b = ToMemory(FALSE, n, 0)
      BY <2>4, ImageOfZero, Zenon
    <3>3. a = ToMemory(FALSE, n, Cut(0, c)) /\ a \in Addrs(T)
      BY <2>2, <3>1, <3>2, Zenon
    <3>4. Cut(0, c) = 0
      <4>1. Cut(0, c) \in 0 .. 0
        BY <2>1, CutType
      <4>2. QED
        BY <4>1
    <3>5. QED
      BY <2>4, <3>2, <3>3, <3>4, Zenon DEF IsNetwork
  <2>5. QED
    BY <2>3, <2>4, Zenon DEF IsNetwork
<1>6. QED
  BY <1>4, <1>5, Zenon

(* A masked peer is that of the shorter of the two prefixes.               *)
LEMMA MaskInv ==
  ASSUME NetInv, NEW nbits \in 0 .. CntBits(type), Mask(nbits)
  PROVE  NetInv'
<1> DEFINE p == IF nbits \in 1 .. known.plen THEN nbits ELSE known.plen
           w == known.wild \/ nbits = 0
<1>1. type \in AddrTypes /\ little \in BOOLEAN /\ known \in Knowledge(type)
      /\ PeerIs(type, little, peer, known)
  BY Zenon DEF NetInv
<1>2. type' = type /\ little' = little /\ text' = text
      /\ known' = [known EXCEPT !.plen = p, !.wild = w]
  BY Zenon DEF Mask
<1>3. PICK a \in Masked(type, little, peer.addr_, nbits) :
        peer' = [addr_ |-> a, port_ |-> peer.port_]
  BY Zenon DEF Mask, AddrPortFromBe
<1>4. p \in 0 .. CntBits(type) /\ w \in BOOLEAN
  <2>1. known.plen \in 0 .. CntBits(type)
    BY <1>1, Known, Zenon
  <2>2. p \in 0 .. CntBits(type)
    BY <2>1, Zenon
  <2>3. w \in BOOLEAN
    BY Zenon
  <2>4. QED
    BY <2>2, <2>3, Zenon
<1> SUFFICES ASSUME NEW j, j = known'
             PROVE  NetInv'
  BY Zenon
<1>5. j \in Knowledge(type) /\ j.num = known.num /\ j.port = known.port /\ j.plen = p /\ j.wild = w
  <2> DEFINE P == 0 .. CntBits(type)
  <2>1. p \in P /\ known \in [num : Numbers[type], port : PortNumbers, plen : P, wild : BOOLEAN]
    BY <1>1, <1>4, Zenon DEF Knowledge
  <2> HIDE DEF P, p, w
  <2>2. j = [known EXCEPT !.plen = p, !.wild = w]
    BY <1>2, Zenon
  <2>3. /\ j \in [num : Numbers[type], port : PortNumbers, plen : P, wild : BOOLEAN]
        /\ j.num = known.num /\ j.port = known.port /\ j.plen = p /\ j.wild = w
    BY <1>4, <2>1, <2>2
  <2>4. QED
    BY <2>3, Zenon DEF Knowledge, P
<1>6. peer.addr_ \in Addrs(type) /\ peer.port_ \in Ports /\ IsNetwork(type, peer.addr_, known)
      /\ ToMemory(little, PortBytes, peer.port_) = ToMemory(FALSE, PortBytes, known.port)
  BY <1>1 DEF PeerIs, AddrPorts
<1>7. a \in Addrs(type) /\ IsNetwork(type, a, j)
  BY <1>1, <1>5, <1>6, NetworkMasked, Zenon
<1>8. PeerIs(type, little, peer', j)
  <2>1. ToMemory(little, PortBytes, peer.port_) = ToMemory(FALSE, PortBytes, j.port)
    BY <1>5, <1>6, Zenon
  <2>2. PeerIs(type, little, [addr_ |-> a, port_ |-> peer.port_], j)
    BY <1>6, <1>7, <2>1 DEF PeerIs, AddrPorts
  <2>3. QED
    BY <1>3, <2>2, Zenon
<1>9. TextIs(type', text')
  BY <1>2, Zenon DEF NetInv
<1>10. QED
  BY <1>1, <1>2, <1>5, <1>8, <1>9, Zenon DEF NetInv

(* The buffer holds every text of a peer, and from_string takes every text *)
(* of an address.                                                          *)
LEMMA FormattedWhole ==
  ASSUME NEW T \in AddrTypes, NEW le \in BOOLEAN, NEW k \in Knowledge(T), NEW x,
         PeerIs(T, le, x, k), NEW t \in Format(T, le, x)
  PROVE  TextIs(T, [addr |-> t.addr, len |-> t.len, port |-> t.port, whole |-> t.whole,
                    of |-> k])
<1>1. StrLen[T] \in Nat \ {0, 1} /\ PortDigits \in Nat \ {0} /\ BufRoom \in Nat
      /\ BufRoom >= PortDigits
  BY AddrTypesAssumption, PortsAssumption
<1>2. PICK u \in FormatAddr(T, x.addr_), d \in {1, PortDigits} :
        t = [addr |-> u.addr, len |-> u.len, port |-> NativePort(le, x),
             whole |-> u.len + 1 + d <= BufSize(T)]
  BY SMT DEF Format
<1>3. PICK l \in {1, StrLen[T] - 1} : u = [addr |-> x.addr_, len |-> l]
  BY Zenon DEF FormatAddr
<1>4. t.addr = x.addr_ /\ t.len = l /\ t.port = NativePort(le, x)
      /\ t.whole = (l + 1 + d <= BufSize(T))
  BY <1>2, <1>3, Zenon
<1>5. l \in 0 .. StrLen[T] - 1
  BY <1>1
<1>6. t.whole = TRUE
  <2>1. l + 1 + d <= StrLen[T] + BufRoom
    BY <1>1
  <2>2. QED
    BY <1>4, <2>1, Zenon DEF BufSize
<1>7. x.addr_ \in Addrs(T) /\ IsNetwork(T, x.addr_, k) /\ NativePort(le, x) = k.port
  <2>1. IsNetwork(T, x.addr_, k)
    BY Zenon DEF PeerIs
  <2>2. x.addr_ \in Addrs(T) /\ NativePort(le, x) = k.port
    BY PeerTakenApart, ZenonT(40)
  <2>3. QED
    BY <2>1, <2>2, Zenon
<1>8. k.port \in Ports
  BY Known, Zenon DEF Ports
<1> DEFINE r == [addr |-> t.addr, len |-> t.len, port |-> t.port, whole |-> t.whole, of |-> k]
<1>9. r = [addr |-> x.addr_, len |-> l, port |-> k.port, whole |-> TRUE, of |-> k]
  BY <1>4, <1>6, <1>7, Zenon
<1> HIDE DEF r
<1>10. r \in [addr : Addrs(T), len : 0 .. StrLen[T] - 1, port : Ports, whole : BOOLEAN,
              of : Knowledge(T)]
  BY <1>5, <1>7, <1>8, <1>9
<1>11. r.whole = TRUE /\ r.addr = x.addr_ /\ r.of = k /\ r.port = k.port
  BY <1>9
<1>12. TextIs(T, r)
  BY <1>7, <1>10, <1>11, Zenon DEF TextIs
<1>13. QED
  BY <1>12, Zenon DEF r

(* A written text is that of the peer.                                     *)
LEMMA WriteTextInv ==
  ASSUME NetInv, WriteText
  PROVE  NetInv'
<1>1. type \in AddrTypes /\ little \in BOOLEAN /\ known \in Knowledge(type)
      /\ PeerIs(type, little, peer, known)
  BY Zenon DEF NetInv
<1>2. type' = type /\ little' = little /\ peer' = peer /\ known' = known
  BY Zenon DEF WriteText
<1>3. TextIs(type, text')
  <2>1. PICK t \in Format(type, little, peer) :
          text' = [addr |-> t.addr, len |-> t.len, port |-> t.port, whole |-> t.whole,
                   of |-> known]
    BY Zenon DEF WriteText
  <2>2. TextIs(type, [addr |-> t.addr, len |-> t.len, port |-> t.port, whole |-> t.whole,
                      of |-> known])
    BY <1>1, FormattedWhole, Zenon
  <2>3. QED
    BY <2>1, <2>2, Zenon
<1>4. QED
  BY <1>1, <1>2, <1>3, Zenon DEF NetInv

(* from_string reads the address of every text.                            *)
LEMMA TextRead ==
  ASSUME NEW T \in AddrTypes, NEW t, TextIs(T, t), t # NoText
  PROVE  /\ from_string(T, t) = t.addr
         /\ t.addr \in Addrs(T)
         /\ t.port \in Ports
         /\ t.of \in Knowledge(T)
<1>1. t \in [addr : Addrs(T), len : 0 .. StrLen[T] - 1, port : Ports, whole : BOOLEAN,
             of : Knowledge(T)]
  BY Zenon DEF TextIs
<1>2. t.len \in 0 .. StrLen[T] - 1 /\ t.addr \in Addrs(T) /\ t.port \in Ports
      /\ t.of \in Knowledge(T)
  BY <1>1
<1>3. ~(t.len >= StrLen[T])
  BY <1>2, AddrTypesAssumption
<1>4. QED
  BY <1>2, <1>3, Zenon DEF from_string

(* A peer that was read from a text is that of the text.                   *)
LEMMA ParseInv ==
  ASSUME NetInv, Parse
  PROVE  NetInv'
<1>1. type \in AddrTypes /\ little \in BOOLEAN /\ TextIs(type, text)
  BY Zenon DEF NetInv
<1>2. type' = type /\ little' \in BOOLEAN /\ text' = text /\ known' = text.of /\ text # NoText
  BY Zenon DEF Parse
<1>3. /\ from_string(type, text) = text.addr
      /\ text.addr \in Addrs(type) /\ text.port \in Ports /\ text.of \in Knowledge(type)
  BY <1>1, <1>2, TextRead, Zenon
<1>4. IsNetwork(type, text.addr, text.of) /\ text.port = text.of.port
  BY <1>1, <1>2, Zenon DEF TextIs
<1> SUFFICES ASSUME NEW to \in BOOLEAN, to = little'
             PROVE  NetInv'
  BY <1>2, Zenon
<1> DEFINE q == to_be(to, PortBytes, text.port)
<1>5. q \in Ports /\ ToMemory(to, PortBytes, q) = ToMemory(FALSE, PortBytes, text.of.port)
  <2>1. PortBytes \in Swappable /\ text.port \in Unsigned(PortBytes)
    BY <1>3, Lengths, Zenon DEF Ports
  <2>2. q \in Unsigned(PortBytes)
        /\ ToMemory(to, PortBytes, q) = ToMemory(FALSE, PortBytes, text.port)
    BY <2>1, ToNetworkOrder, Zenon
  <2> HIDE DEF q
  <2>3. QED
    BY <1>4, <2>2, Zenon DEF Ports
<1>6. peer' = [addr_ |-> text.addr, port_ |-> q]
  BY <1>3, Zenon DEF Parse, AddrPortFromBe
<1> HIDE DEF q
<1>7. PeerIs(type, to, peer', text.of)
  <2>1. PeerIs(type, to, [addr_ |-> text.addr, port_ |-> q], text.of)
    BY <1>3, <1>4, <1>5 DEF PeerIs, AddrPorts
  <2>2. QED
    BY <1>6, <2>1, Zenon
<1>8. TextIs(type', text')
  BY <1>1, <1>2, Zenon
<1>9. QED
  BY <1>1, <1>2, <1>3, <1>7, <1>8, Zenon DEF NetInv

(* Every step of the peers keeps the invariant.                            *)
LEMMA NetNextInv ==
  ASSUME NetInv, NetNext
  PROVE  NetInv'
BY RebuildInv, MaskInv, SendInv, RelayInv, WriteTextInv, ParseInv, Zenon DEF NetNext

(* So does every step that leaves them alone.                              *)
LEMMA NetUnchanged ==
  ASSUME NetInv, UNCHANGED netVars
  PROVE  NetInv'
BY Zenon DEF NetInv, netVars

(* The comparison operators look at the bytes of the machine, which tell   *)
(* two peers apart wherever their numbers or ports differ.                 *)
LEMMA Ordered ==
  ASSUME NetInv, NEW n \in Numbers[type], NEW p \in PortNumbers
  PROVE  LET other == AddrPortFromNative(type, little, n, p)
             same == Native = n /\ known.port = p
             less == AddrPortLess(type, little, peer, other)
             more == AddrPortLess(type, little, other, peer)
         IN /\ AddrPortEqual(type, little, peer, other) <=> same
            /\ ~same => less # more
            /\ same => ~less /\ ~more
            /\ ~little => (less <=> Native < n \/ (Native = n /\ known.port < p))
<1> DEFINE N == NumBytes[type]
           other == AddrPortFromNative(type, little, n, p)
           v == Native
           a == peer.addr_
           b == ToMemory(FALSE, N, n)
           A == FromMemory(little, N, a)
           B == FromMemory(little, N, b)
           x == peer.port_
           y == to_be(little, PortBytes, p)
           k == known.port
<1>1. type \in AddrTypes /\ little \in BOOLEAN /\ known \in Knowledge(type)
      /\ PeerIs(type, little, peer, known)
  BY Zenon DEF NetInv
<1>2. /\ N \in Nat /\ PortBytes \in Swappable /\ PortBytes \in Nat
      /\ n \in Unsigned(N) /\ p \in Unsigned(PortBytes) /\ k \in Unsigned(PortBytes)
  BY <1>1, Lengths, Known
<1>3. /\ n \in Nat /\ p \in Nat /\ k \in Nat
  BY <1>2, UnsignedNat
<1>4. /\ v \in Unsigned(N) /\ ToMemory(FALSE, N, v) = a /\ a \in Addrs(type)
      /\ x \in Unsigned(PortBytes)
  BY <1>1, PeerTakenApart, Zenon DEF Native, Ports
<1>5. ToMemory(little, PortBytes, x) = ToMemory(FALSE, PortBytes, k)
  BY <1>1, Zenon DEF PeerIs
<1>6. y \in Unsigned(PortBytes) /\ ToMemory(little, PortBytes, y) = ToMemory(FALSE, PortBytes, p)
  BY <1>1, <1>2, ToNetworkOrder, Zenon
<1>7. other = [addr_ |-> b, port_ |-> y]
  BY <1>1, <1>2, AddrOfNumber, Zenon DEF AddrPortFromNative
<1>8. b \in Addrs(type)
  BY <1>2, <1>3, ImageType, Zenon DEF Addrs
<1>9. /\ A \in Unsigned(N) /\ ToMemory(little, N, A) = a
      /\ B \in Unsigned(N) /\ ToMemory(little, N, B) = b
  BY <1>1, <1>2, <1>4, <1>8, BytesReadBack, Zenon DEF Addrs
<1>10. A = B <=> v = n
  <2>1. ASSUME A = B PROVE v = n
    <3>1. a = b
      BY <1>9, <2>1, Zenon
    <3>2. ToMemory(FALSE, N, v) = ToMemory(FALSE, N, n)
      BY <1>4, <3>1, Zenon
    <3> HIDE DEF v, N
    <3>3. QED
      BY <1>2, <1>4, <3>2, SameNumber, Zenon
  <2>2. ASSUME v = n PROVE A = B
    BY <1>4, <2>2, Zenon
  <2>3. QED
    BY <2>1, <2>2, Zenon
<1>11. x = y <=> k = p
  <2> HIDE DEF x, y, k
  <2>1. ASSUME x = y PROVE k = p
    BY <1>2, <1>5, <1>6, <2>1, SameNumber, Zenon
  <2>2. ASSUME k = p PROVE x = y
    BY <1>1, <1>2, <1>4, <1>5, <1>6, <2>2, SameNumber, Zenon
  <2>3. QED
    BY <2>1, <2>2, Zenon
<1>12. ASSUME ~little PROVE A = v /\ B = n /\ x = k /\ y = p
  <2>1. little = FALSE
    BY <1>1, <1>12
  <2>2. B = n
    BY <1>2, <2>1, NumberReadBack, Zenon
  <2>3. A = v
    BY <1>2, <1>4, <2>1, NumberReadBack, Zenon
  <2>4. y = p
    BY <2>1, Zenon DEF to_be
  <2>5. x = k
    BY <1>11, <2>4, <1>2, <1>4, <1>5, <2>1, SameNumber, Zenon
  <2>6. QED
    BY <2>2, <2>3, <2>4, <2>5, Zenon
<1>13. A \in Nat /\ B \in Nat /\ x \in Nat /\ y \in Nat /\ v \in Nat
  BY <1>2, <1>4, <1>6, <1>9, UnsignedNat
<1> HIDE DEF v, A, B, x, y, k
<1> HIDE DEF other
<1>14. other.addr_ = b /\ other.port_ = y
  BY <1>7
<1> HIDE DEF b
<1>15. /\ (A = B /\ x = y) <=> (v = n /\ k = p)
       /\ ~(v = n /\ k = p) => ((A < B \/ (A = B /\ x < y)) # (B < A \/ (B = A /\ y < x)))
       /\ (v = n /\ k = p) => /\ ~(A < B \/ (A = B /\ x < y))
                              /\ ~(B < A \/ (B = A /\ y < x))
       /\ ~little => ((A < B \/ (A = B /\ x < y)) <=> (v < n \/ (v = n /\ k < p)))
  <2>1. (A = B /\ x = y) <=> (v = n /\ k = p)
    BY <1>10, <1>11, Zenon
  <2>2. ASSUME ~(A = B /\ x = y)
        PROVE  (A < B \/ (A = B /\ x < y)) # (B < A \/ (B = A /\ y < x))
    <3>1. (A < B \/ (A = B /\ x < y)) <=> ~(B < A \/ (B = A /\ y < x))
      BY <1>13, <2>2
    <3>2. QED
      BY <3>1
  <2>3. ASSUME A = B, x = y
        PROVE  /\ ~(A < B \/ (A = B /\ x < y))
               /\ ~(B < A \/ (B = A /\ y < x))
    BY <1>13, <2>3
  <2>4. ~little => ((A < B \/ (A = B /\ x < y)) <=> (v < n \/ (v = n /\ k < p)))
    BY <1>12, Zenon
  <2>5. QED
    BY <2>1, <2>2, <2>3, <2>4, Zenon
<1>16. /\ AddrPortEqual(type, little, peer, other) <=> (A = B /\ x = y)
       /\ AddrPortLess(type, little, peer, other) <=> (A < B \/ (A = B /\ x < y))
       /\ AddrPortLess(type, little, other, peer) <=> (B < A \/ (B = A /\ y < x))
  BY <1>14, Zenon DEF AddrPortEqual, AddrPortLess, AddrEqual, AddrLess, to_be_integer, A, B, x
<1>17. QED
  BY <1>15, <1>16, Zenon DEF v, k, other

(* The invariant is all that the properties ask for.                       *)
LEMMA NetInvEnough ==
  ASSUME NetInv
  PROVE  NetTypeOK /\ SameNetwork /\ TextTakenBack /\ OrderTotal
<1>1. type \in AddrTypes /\ TextIs(type, text) /\ PeerIs(type, little, peer, known)
  BY Zenon DEF NetInv
<1>2. NetTypeOK
  BY Zenon DEF NetInv, PeerIs, TextIs, NetTypeOK
<1>3. SameNetwork
  BY <1>1, Zenon DEF PeerIs, SameNetwork
<1>4. TextTakenBack
  BY <1>1, TextRead, Zenon DEF TextIs, TextTakenBack
<1>5. OrderTotal
  BY Ordered, Zenon DEF OrderTotal
<1>6. QED
  BY <1>2, <1>3, <1>4, <1>5

-----------------------------------------------------------------------------
(* The libraries.                                                          *)

LibraryInv == library = "net" => NetInv

(* While the library is that of the peers, their invariant holds.          *)
LEMMA LibraryInvariance == Spec => []LibraryInv
<1>1. Init => LibraryInv
  BY NetInitInv, Zenon DEF Init, LibraryInv
<1>2. LibraryInv /\ [Next]_<<allocVars, netVars, library>> => LibraryInv'
  <2> SUFFICES ASSUME LibraryInv, [Next]_<<allocVars, netVars, library>>, library' = "net"
               PROVE  NetInv'
    BY Zenon DEF LibraryInv
  <2>1. CASE UNCHANGED <<allocVars, netVars, library>>
    <3>1. NetInv /\ UNCHANGED netVars
      BY <2>1 DEF LibraryInv
    <3>2. QED
      BY <3>1, NetUnchanged, Zenon
  <2>2. CASE Next
    <3>1. library = "net"
      BY <2>2, Zenon DEF Next
    <3>2. NetInv /\ (NetNext \/ UNCHANGED netVars)
      BY <2>2, <3>1, Zenon DEF Next, LibraryInv
    <3>3. QED
      BY <3>2, NetNextInv, NetUnchanged, Zenon
  <2>3. QED
    BY <2>1, <2>2, Zenon
<1>3. QED
  BY <1>1, <1>2, PTL DEF Spec

(* The steps of Libraries are steps of the allocator wrappers, or leave    *)
(* them alone, so all that is proved of AllocSpec holds of Spec.           *)
LEMMA SpecAllocates == Spec => AllocSpec
<1>1. Init => AllocInit
  BY DEF Init
<1>2. [Next]_<<allocVars, netVars, library>> => [AllocNext]_allocVars
  BY DEF Next
<1>3. QED
  BY <1>1, <1>2, PTL DEF Spec, AllocSpec

(* The states of the allocations and of the peers stay well formed: every  *)
(* number fits its bytes, however often it is swapped, masked and sent.    *)
THEOREM LibrariesTypeCorrect == Spec => []TypeOK
<1>1. LibraryInv /\ AllocTypeOK => TypeOK
  BY NetInvEnough, Zenon DEF LibraryInv, TypeOK
<1>2. QED
  BY <1>1, LibraryInvariance, SpecAllocates, TypeCorrect, PTL

(* Wherever a peer has been, whatever it was masked with and on whichever  *)
(* machine it lies, its bytes are those of its network and port.           *)
THEOREM NetworksAreKept == Spec => []PeersSameNetwork
<1>1. LibraryInv => PeersSameNetwork
  BY NetInvEnough, Zenon DEF LibraryInv, PeersSameNetwork
<1>2. QED
  BY <1>1, LibraryInvariance, PTL

(* What the formatters write fits the buffer, and from_string takes it     *)
(* back as the network it was written of.                                  *)
THEOREM TextsAreTakenBack == Spec => []PeersTextTakenBack
<1>1. LibraryInv => PeersTextTakenBack
  BY NetInvEnough, Zenon DEF LibraryInv, PeersTextTakenBack
<1>2. QED
  BY <1>1, LibraryInvariance, PTL

(* operator<=> orders all addresses and ports of a machine, and calls      *)
(* equal those with the same number and port only.                         *)
THEOREM PeersAreOrdered == Spec => []PeersOrderTotal
<1>1. LibraryInv => PeersOrderTotal
  BY NetInvEnough, Zenon DEF LibraryInv, PeersOrderTotal
<1>2. QED
  BY <1>1, LibraryInvariance, PTL

(* The allocations of the behaviours of Libraries keep their promises.     *)
THEOREM AllocationsAreKept == Spec => [](OneOwner /\ LifetimesRespected /\ BooksBalance)
BY SpecAllocates, BlocksHaveOneOwner, ElementsLiveOnce, BooksAlwaysBalance, PTL

-----------------------------------------------------------------------------
(* What the conversions promise to every caller.                           *)

(* byteswap_u128 gives the same with the builtin and without it: two       *)
(* swapped halves that change places are the whole number swapped.         *)
THEOREM HalvesAreTheWhole ==
  ASSUME NEW h \in Nat, NEW v \in Unsigned(h + h)
  PROVE  LET half == Power(ByteSize, h)
         IN byteswap(h, v \div half) + byteswap(h, v % half) * half = byteswap(h + h, v)
<1> DEFINE half == Power(ByteSize, h)
           w == byteswap(h, v \div half) + byteswap(h, v % half) * half
           u == byteswap(h + h, v)
<1>1. h + h \in Nat /\ v \in Nat
  BY UnsignedNat
<1>2. w \in Unsigned(h + h) /\ ToMemory(FALSE, h + h, w) = ToMemory(TRUE, h + h, v)
  BY HalvesReverse
<1>3. u \in Unsigned(h + h) /\ ToMemory(FALSE, h + h, u) = ToMemory(TRUE, h + h, v)
  BY <1>1, ByteswapReverses, Zenon
<1> HIDE DEF w, u
<1>4. w = u
  BY <1>1, <1>2, <1>3, SameNumber, Zenon
<1>5. QED
  BY <1>4, Zenon DEF w, u

(* A number swapped twice is the number, so every conversion to a byte     *)
(* order is undone by the one from it, on machines of either order.        *)
THEOREM ConversionsUndone ==
  ASSUME NEW le \in BOOLEAN, NEW n \in Swappable, NEW v \in Unsigned(n)
  PROVE  /\ Swapped(n, Swapped(n, v)) = v
         /\ from_be(le, n, to_be(le, n, v)) = v
         /\ from_le(le, n, to_le(le, n, v)) = v
<1> DEFINE s == Swapped(n, v)
           t == Swapped(n, s)
<1>1. n \in Nat
  BY DEF Swappable
<1>2. s \in Unsigned(n) /\ ToMemory(TRUE, n, s) = ToMemory(FALSE, n, v)
  BY SwappedReverses, Zenon
<1> HIDE DEF s
<1>3. t \in Unsigned(n) /\ ToMemory(FALSE, n, t) = ToMemory(TRUE, n, s)
  BY <1>2, SwappedReverses, Zenon
<1> HIDE DEF t
<1>4. t = v
  BY <1>1, <1>2, <1>3, SameNumber, Zenon
<1>5. Swapped(n, Swapped(n, v)) = v
  BY <1>4, Zenon DEF s, t
<1>6. from_be(le, n, to_be(le, n, v)) = v /\ from_le(le, n, to_le(le, n, v)) = v
  <2>1. CASE le = TRUE
    BY <1>5, <2>1, Zenon DEF from_be, to_be, from_le, to_le
  <2>2. CASE le = FALSE
    BY <1>5, <2>2, Zenon DEF from_be, to_be, from_le, to_le
  <2>3. QED
    BY <2>1, <2>2, Zenon
<1>7. QED
  BY <1>5, <1>6, Zenon

(* Masking with two prefixes, in either order, is masking with the shorter *)
(* one.                                                                    *)
THEOREM PrefixesCompose ==
  ASSUME NEW T \in AddrTypes, NEW le \in BOOLEAN, NEW a \in Addrs(T),
         NEW m \in 1 .. CntBits(T), NEW n \in 1 .. CntBits(T), m <= n,
         NEW b \in Masked(T, le, a, m), NEW c \in Masked(T, le, a, n)
  PROVE  Masked(T, le, b, n) = {b} /\ Masked(T, le, c, m) = {b}
<1> DEFINE N == NumBytes[T]
           C == CntBits(T)
           v == to_native_integer(T, le, a)
           image(x) == ToMemory(FALSE, N, x)
<1>1. N \in Nat /\ C \in Nat /\ v \in Unsigned(N) /\ v \in Nat /\ image(v) = a
  <2>1. N \in Nat /\ C \in Nat
    BY Lengths, Widths
  <2>2. v \in Unsigned(N) /\ image(v) = a
    BY NumberOfAddr, Zenon
  <2>3. QED
    BY <2>1, <2>2, UnsignedNat, Zenon
<1>2. ASSUME NEW x \in Unsigned(N), NEW k \in 1 .. C
      PROVE  /\ C - k \in Nat
             /\ Cut(x, C - k) \in Unsigned(N)
             /\ image(Cut(x, C - k)) \in Masked(T, le, image(x), k)
             /\ \A y \in Masked(T, le, image(x), k) : y = image(Cut(x, C - k))
  <2>1. C - k \in Nat
    BY <1>1
  <2>2. Cut(x, C - k) \in Unsigned(N)
    BY <1>1, <2>1, CutUnsigned, Zenon
  <2>3. /\ image(Cut(x, C - k)) \in Masked(T, le, image(x), k)
        /\ \A y \in Masked(T, le, image(x), k) : y = image(Cut(x, C - k))
    BY MaskedCut, Zenon
  <2>4. QED
    BY <2>1, <2>2, <2>3, Zenon
<1> DEFINE p == C - m
           q == C - n
<1>3. /\ p \in Nat /\ q \in Nat /\ q <= p
      /\ (p <= q => p = q)
  BY <1>1
<1> HIDE DEF v, image
<1>4. b = image(Cut(v, p)) /\ c = image(Cut(v, q))
  BY <1>1, <1>2, Zenon
<1>5. /\ image(Cut(Cut(v, p), q)) \in Masked(T, le, b, n)
      /\ \A y \in Masked(T, le, b, n) : y = image(Cut(Cut(v, p), q))
      /\ image(Cut(Cut(v, q), p)) \in Masked(T, le, c, m)
      /\ \A y \in Masked(T, le, c, m) : y = image(Cut(Cut(v, q), p))
  BY <1>1, <1>2, <1>4, Zenon
<1> HIDE DEF p, q
<1>6. Cut(Cut(v, p), q) = Cut(v, p) /\ Cut(Cut(v, q), p) = Cut(v, p)
  <2>1. /\ Cut(Cut(v, p), q) = Cut(v, IF p <= q THEN q ELSE p)
        /\ Cut(Cut(v, q), p) = Cut(v, IF q <= p THEN p ELSE q)
    BY <1>1, <1>3, CutTwice, Zenon
  <2>2. QED
    BY <1>3, <2>1, Zenon
<1>7. QED
  BY <1>4, <1>5, <1>6, Zenon
=============================================================================
