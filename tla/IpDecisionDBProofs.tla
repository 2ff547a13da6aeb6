------------------------- MODULE IpDecisionDBProofs -------------------------
(***************************************************************************)
(* Theorems about IpDecisionDB, for any widths of addresses, decisions and *)
(* number of them: the index is tight, and a lookup in it is the longest-  *)
(* prefix scan over the decisions.                                         *)
(***************************************************************************)
EXTENDS IpDecisionDB, FiniteSetTheorems, TLAPS

-----------------------------------------------------------------------------
(* Numbers, sequences and recursive functions                              *)

\* Every set of natural numbers but the empty one has a least element.
LEMMA LeastNumber ==
  ASSUME NEW T \in SUBSET Nat, T # {}
  PROVE  \E n \in T : \A m \in T : n <= m
<1> DEFINE R == StrictSubsetOrdering(Nat)
           F == FiniteSubsetsOf(Nat)
           B == {0..n : n \in T}
<1>1. IsWellFoundedOn(R, F)
  BY FS_StrictSubsetOrderingWellFounded
<1>2. B \subseteq F /\ B # {}
  <2>1. ASSUME NEW n \in T PROVE 0..n \in F
    <3>1. IsFiniteSet(0..n)
      BY FS_Interval
    <3>2. 0..n \in SUBSET Nat
      OBVIOUS
    <3> QED
      BY <3>1, <3>2 DEF FiniteSubsetsOf
  <2> QED
    BY <2>1
<1> HIDE DEF R, F, B
<1>3. PICK b \in B : \A c \in B : ~(<<c, b>> \in R)
  BY <1>1, <1>2, WFMin
<1>4. PICK n \in T : b = 0..n
  BY DEF B
<1>5. ASSUME NEW m \in T, m < n PROVE FALSE
  <2>1. 0..m \in B
    BY DEF B
  <2>2. 0..m \subseteq 0..n /\ n \in 0..n /\ n \notin 0..m
    BY <1>5
  <2>3. <<0..m, b>> \in R
    BY <1>4, <2>2 DEF R, StrictSubsetOrdering
  <2> QED
    BY <1>3, <2>1, <2>3
<1> QED
  BY <1>5

\* What holds of zero, and of each number's successor, holds of all numbers.
LEMMA NumberInduction ==
  ASSUME NEW S, 0 \in S, \A n \in Nat : n \in S => n + 1 \in S
  PROVE  Nat \subseteq S
<1> SUFFICES ASSUME Nat \ S # {} PROVE FALSE
  OBVIOUS
<1>1. PICK n \in Nat \ S : \A m \in Nat \ S : n <= m
  BY LeastNumber
<1>2. n # 0
  OBVIOUS
<1>3. n - 1 \in Nat /\ n - 1 \notin Nat \ S
  BY <1>1, <1>2
<1> QED
  BY <1>3, <1>1

\* What holds of the empty sequence, and of what is appended to one of which it
\* holds, holds of all sequences.
LEMMA SequenceInduction ==
  ASSUME NEW D, NEW T, <<>> \in T,
         \A s \in Seq(D) : \A x \in D : s \in T => Append(s, x) \in T
  PROVE  Seq(D) \subseteq T
<1> DEFINE S == {n \in Nat : \A s \in Seq(D) : Len(s) = n => s \in T}
<1>1. 0 \in S
  OBVIOUS
<1>2. ASSUME NEW n \in Nat, n \in S PROVE n + 1 \in S
  <2>1. ASSUME NEW s \in Seq(D), Len(s) = n + 1 PROVE s \in T
    <3> DEFINE front == SubSeq(s, 1, n)
    <3>1. front \in Seq(D) /\ Len(front) = n /\ s[n + 1] \in D
      BY <2>1
    <3>2. Append(front, s[n + 1]) = s
      BY <2>1
    <3> HIDE DEF front
    <3> QED
      BY <1>2, <3>1, <3>2
  <2> QED
    BY <2>1
<1> HIDE DEF S
<1>3. Nat \subseteq S
  BY <1>1, <1>2, NumberInduction
<1> QED
  BY <1>3 DEF S

\* f is defined by recursion on the first L numbers.
Recursive(f, b, L, F) == f = [n \in 0..L |-> IF n = 0 THEN b ELSE F[n][f[n - 1]]]

LEMMA RecursionExists ==
  ASSUME NEW D, NEW b \in D, NEW L \in Nat, NEW F \in [1..L -> [D -> D]]
  PROVE  \E f \in [0..L -> D] : Recursive(f, b, L, F)
<1> DEFINE Good(k, f) == f[0] = b /\ \A n \in 1..k : f[n] = F[n][f[n - 1]]
           S == {k \in Nat : k <= L => \E f \in [0..k -> D] : Good(k, f)}
<1>1. 0 \in S
  <2>1. [n \in 0..0 |-> b] \in [0..0 -> D] /\ Good(0, [n \in 0..0 |-> b])
    OBVIOUS
  <2> QED
    BY <2>1
<1>2. ASSUME NEW k \in Nat, k \in S, k + 1 <= L
      PROVE  \E f \in [0..(k + 1) -> D] : Good(k + 1, f)
  <2>1. PICK f \in [0..k -> D] : Good(k, f)
    BY <1>2
  <2> DEFINE g == [n \in 0..(k + 1) |-> IF n = k + 1 THEN F[k + 1][f[k]] ELSE f[n]]
  <2>2. f[k] \in D /\ F[k + 1][f[k]] \in D
    <3>1. k \in 0..k /\ k + 1 \in 1..L
      BY <1>2
    <3> QED
      BY <3>1
  <2>3. g \in [0..(k + 1) -> D]
    BY <2>2
  <2>4. \A n \in 0..k : g[n] = f[n]
    OBVIOUS
  <2>5. g[k + 1] = F[k + 1][f[k]]
    OBVIOUS
  <2> HIDE DEF g
  <2>6. ASSUME NEW n \in 1..(k + 1) PROVE g[n] = F[n][g[n - 1]]
    <3>1. CASE n = k + 1
      BY <2>4, <2>5, <3>1
    <3>2. CASE n # k + 1
      <4>1. n \in 1..k /\ n \in 0..k /\ n - 1 \in 0..k
        BY <3>2
      <4> QED
        BY <2>1, <2>4, <4>1
    <3> QED
      BY <3>1, <3>2
  <2>7. g[0] = b
    BY <2>1, <2>4
  <2> QED
    BY <2>3, <2>6, <2>7
<1> HIDE DEF Good
<1>3. ASSUME NEW k \in Nat, k \in S PROVE k + 1 \in S
  BY <1>2, <1>3
<1> HIDE DEF S
<1>4. L \in S
  BY <1>1, <1>3, NumberInduction
<1>5. PICK f \in [0..L -> D] : Good(L, f)
  BY <1>4 DEF S
<1>6. f = [n \in 0..L |-> IF n = 0 THEN b ELSE F[n][f[n - 1]]]
  BY <1>5 DEF Good
<1> QED
  BY <1>6, Zenon DEF Recursive

-----------------------------------------------------------------------------
(* Shifts                                                                  *)

\* The first powers of two.
LEMMA Powers ==
  /\ Pow2[0] = 1
  /\ \A n \in 0..V6Bits : Pow2[n] \in Nat \ {0}
  /\ \A n \in 0..V6Bits : n + 1 <= V6Bits => Pow2[n + 1] = 2 * Pow2[n]
<1> DEFINE L == V6Bits
           N == Nat
           one == 1
           F == [n \in 1..L |-> [p \in N |-> 2 * p]]
           Is(f) == f = [n \in 0..V6Bits |-> IF n = 0 THEN 1 ELSE 2 * f[n - 1]]
<1>1. L \in Nat /\ one \in N
  BY IndexAssumption
<1>0. F \in [1..L -> [N -> N]]
  OBVIOUS
<1>2. \A n \in 1..L : \A p \in N : F[n][p] = 2 * p
  OBVIOUS
<1>3. PICK f \in [0..L -> N] : Recursive(f, one, L, F)
  <2> HIDE DEF F, L, N, one
  <2> QED
    BY <1>0, <1>1, RecursionExists
<1> HIDE DEF F
<1> DEFINE E(n) == IF n = 0 THEN one ELSE F[n][f[n - 1]]
<1>4. f = [n \in 0..V6Bits |-> E(n)]
  BY <1>3, Zenon DEF Recursive
<1>5. \A n \in 0..V6Bits : E(n) = IF n = 0 THEN 1 ELSE 2 * f[n - 1]
  <2>1. ASSUME NEW n \in 0..V6Bits, n # 0 PROVE n \in 1..V6Bits /\ f[n - 1] \in Nat
    <3>1. n - 1 \in 0..V6Bits /\ n \in 1..V6Bits
      BY <1>1, <2>1
    <3> QED
      BY <3>1
  <2> QED
    BY <1>2, <2>1
<1> HIDE DEF E
<1>6. Is(f)
  BY <1>4, <1>5
<1>7. Pow2 = CHOOSE g : Is(g)
  BY Zenon DEF Pow2
<1>8. Is(Pow2)
  BY <1>6, <1>7, Zenon
<1> DEFINE G(n) == IF n = 0 THEN 1 ELSE 2 * Pow2[n - 1]
<1>9. Pow2 = [n \in 0..V6Bits |-> G(n)]
  BY <1>8, Zenon
<1> HIDE DEF G
<1>10. \A n \in 0..V6Bits : Pow2[n] = G(n)
  BY <1>9
<1>11. Pow2[0] = 1
  BY <1>1, <1>10 DEF G
<1>12. ASSUME NEW n \in 0..V6Bits, n + 1 <= V6Bits PROVE Pow2[n + 1] = 2 * Pow2[n]
  <2>1. n + 1 \in 0..V6Bits /\ n + 1 # 0 /\ (n + 1) - 1 = n
    BY <1>1, <1>12
  <2> QED
    BY <1>10, <2>1 DEF G
<1> DEFINE S == {n \in Nat : n <= V6Bits => Pow2[n] \in Nat \ {0}}
<1>13. 0 \in S
  BY <1>11
<1>14. ASSUME NEW n \in Nat, n \in S PROVE n + 1 \in S
  BY <1>1, <1>12, <1>14
<1> HIDE DEF S
<1>15. Nat \subseteq S
  BY <1>13, <1>14, NumberInduction
<1> QED
  BY <1>11, <1>12, <1>15 DEF S

\* Division rounds down.
LEMMA Divided ==
  ASSUME NEW x \in Nat, NEW a \in Nat \ {0}
  PROVE  /\ x \div a \in Nat
         /\ a * (x \div a) <= x
         /\ x < a * (x \div a) + a
OBVIOUS

\* It is determined by that.
LEMMA Quotient ==
  ASSUME NEW x \in Nat, NEW a \in Nat \ {0}, NEW q \in Nat, a * q <= x, x < a * q + a
  PROVE  x \div a = q
<1>1. PICK p \in Nat : p = x \div a
  BY Divided
<1>2. a * p <= x /\ x < a * p + a
  BY <1>1, Divided
<1>3. ASSUME NEW m \in Nat, NEW n \in Nat, m < n PROVE a * m + a <= a * n
  <2>1. PICK k \in Nat : n = m + 1 + k
    <3>1. n - m - 1 \in Nat /\ n = m + 1 + (n - m - 1)
      BY <1>3
    <3> QED
      BY <3>1
  <2>2. a * n = a * m + a + a * k
    BY <2>1
  <2>3. a * k >= 0
    OBVIOUS
  <2> QED
    BY <2>2, <2>3
<1>4. ~(p < q)
  BY <1>2, <1>3
<1>5. ~(q < p)
  BY <1>2, <1>3
<1> QED
  BY <1>1, <1>4, <1>5

\* A shift by one more.
LEMMA Halved ==
  ASSUME NEW x \in Nat, NEW a \in Nat \ {0}
  PROVE  (x \div a) \div 2 = x \div (2 * a)
<1>1. PICK q \in Nat : q = x \div a
  BY Divided
<1>2. PICK h \in Nat : h = q \div 2
  BY Divided
<1>3. a * q <= x /\ x < a * q + a
  BY <1>1, Divided
<1>4. q = 2 * h \/ q = 2 * h + 1
  BY <1>2
<1>5. (2 * a) * h <= x /\ x < (2 * a) * h + 2 * a
  <2>1. CASE q = 2 * h
    <3>1. a * q = (2 * a) * h
      BY <2>1
    <3> QED
      BY <1>3, <3>1
  <2>2. CASE q = 2 * h + 1
    <3>1. a * q = (2 * a) * h + a
      BY <2>2
    <3> QED
      BY <1>3, <3>1
  <2> QED
    BY <1>4, <2>1, <2>2
<1>6. x \div (2 * a) = h
  BY <1>5, Quotient
<1> QED
  BY <1>1, <1>2, <1>6

\* Two numbers agree when shifted right until m bits are left if, and only if,
\* they agree in their first m bits.
LEMMA SameBits ==
  ASSUME NEW W \in 0..V6Bits, NEW x \in Nat, x < Pow2[W], NEW y \in Nat, y < Pow2[W],
         NEW m \in 0..W
  PROVE  x \div Pow2[W - m] = y \div Pow2[W - m]
           <=> \A i \in 1..m : (x \div Pow2[W - i]) % 2 = (y \div Pow2[W - i]) % 2
<1> DEFINE Agree(n) == x \div Pow2[W - n] = y \div Pow2[W - n]
           Bits(n) == \A i \in 1..n : (x \div Pow2[W - i]) % 2 = (y \div Pow2[W - i]) % 2
           S == {n \in Nat : n <= W => (Agree(n) <=> Bits(n))}
<1>1. W \in Nat /\ V6Bits \in Nat /\ W <= V6Bits
  BY IndexAssumption
<1>2. 0 \in S
  <2>1. Pow2[W] \in Nat \ {0} /\ W - 0 = W
    BY <1>1, Powers
  <2>2. x \div Pow2[W] = 0 /\ y \div Pow2[W] = 0
    BY <2>1, Quotient
  <2> QED
    BY <2>1, <2>2
<1>3. ASSUME NEW n \in Nat, n \in S, n + 1 <= W PROVE Agree(n + 1) <=> Bits(n + 1)
  <2>1. PICK a : a = Pow2[W - (n + 1)]
    OBVIOUS
  <2>2. W - (n + 1) \in 0..V6Bits /\ (W - (n + 1)) + 1 = W - n /\ W - n <= V6Bits
    BY <1>1, <1>3
  <2>3. a \in Nat \ {0} /\ Pow2[W - n] = 2 * a
    BY <2>1, <2>2, Powers
  <2>4. PICK u \in Nat : u = x \div a
    BY <2>3, Divided
  <2>5. PICK v \in Nat : v = y \div a
    BY <2>3, Divided
  <2>6. x \div Pow2[W - n] = u \div 2 /\ y \div Pow2[W - n] = v \div 2
    BY <2>3, <2>4, <2>5, Halved
  <2>7. u = v <=> u \div 2 = v \div 2 /\ u % 2 = v % 2
    OBVIOUS
  <2>8. Agree(n + 1) <=> u = v
    BY <2>1, <2>4, <2>5
  <2>9. Agree(n) <=> u \div 2 = v \div 2
    BY <2>6
  <2>10. Bits(n + 1) <=> Bits(n) /\ u % 2 = v % 2
    <3>1. \A i \in 1..(n + 1) : i \in 1..n \/ i = n + 1
      OBVIOUS
    <3>2. n + 1 \in 1..(n + 1) /\ \A i \in 1..n : i \in 1..(n + 1)
      OBVIOUS
    <3>3. (x \div Pow2[W - (n + 1)]) % 2 = u % 2 /\ (y \div Pow2[W - (n + 1)]) % 2 = v % 2
      BY <2>1, <2>4, <2>5
    <3> QED
      BY <3>1, <3>2, <3>3, Zenon
  <2>11. Agree(n) <=> Bits(n)
    BY <1>1, <1>3
  <2> QED
    BY <2>7, <2>8, <2>9, <2>10, <2>11
<1> HIDE DEF Agree, Bits
<1>4. ASSUME NEW n \in Nat, n \in S PROVE n + 1 \in S
  BY <1>3, <1>4
<1> HIDE DEF S
<1>5. m \in S
  BY <1>1, <1>2, <1>4, NumberInduction
<1> QED
  BY <1>1, <1>5 DEF S, Agree, Bits

LEMMA Widths ==
  ASSUME NEW ip \in AddressObject
  PROVE  /\ ip.family \in Family
         /\ Width(ip.family) \in Nat \ {0} /\ Width(ip.family) <= V6Bits
         /\ ip.number \in Nat /\ ip.number < Pow2[Width(ip.family)]
         /\ ip.mask \in 0..Width(ip.family)
<1>1. PICK f \in Family :
        ip \in [family : {f}, number : 0..(Pow2[Width(f)] - 1), mask : 0..Width(f)]
  BY DEF AddressObject
<1>2. Width(f) \in Nat \ {0} /\ Width(f) <= V6Bits
  BY IndexAssumption DEF Width, Family
<1>3. Pow2[Width(f)] \in Nat \ {0}
  BY <1>2, IndexAssumption, Powers
<1> QED
  BY <1>1, <1>2, <1>3

\* The key of a network.
LEMMA KeyIs ==
  ASSUME NEW ip \in AddressObject, NEW mask \in 1..Width(ip.family)
  PROVE  KeyFor(ip, mask) = [type |-> IF ip.family = "v4" THEN "number" ELSE "bigint",
                             n |-> ip.number \div Pow2[Width(ip.family) - mask]]
<1>1. (V4Bits - mask) % V4Bits = V4Bits - mask \/ ip.family # "v4"
  <2>1. CASE ip.family = "v4"
    <3>1. V4Bits \in Nat \ {0} /\ mask \in 1..V4Bits
      BY <2>1, IndexAssumption DEF Width
    <3> QED
      BY <3>1
  <2> QED
    BY <2>1
<1> QED
  BY <1>1, Widths DEF KeyFor, Width, Family

\* A visitor's address shifted by the mask of a network, of whichever family,
\* is the key of the network if, and only if, the address is in the network.
LEMMA KeysTell ==
  ASSUME NEW ip \in AddressObject, NEW net \in AddressObject, net.mask # 0
  PROVE  KeyFor(ip, net.mask) = KeyFor(net, net.mask) <=> InSubnet(ip, net)
<1>1. CASE ip.family # net.family
  <2>1. KeyFor(ip, net.mask).type # KeyFor(net, net.mask).type
    BY <1>1, Widths DEF KeyFor, Family
  <2> QED
    BY <1>1, <2>1 DEF InSubnet
<1>2. CASE ip.family = net.family
  <2>1. PICK W : W = Width(net.family)
    OBVIOUS
  <2>2. /\ W \in 0..V6Bits /\ net.mask \in 0..W /\ net.mask \in 1..W
        /\ ip.number \in Nat /\ ip.number < Pow2[W]
        /\ net.number \in Nat /\ net.number < Pow2[W]
    BY <1>2, <2>1, Widths, IndexAssumption
  <2>3. PICK x, y, m : x = ip.number /\ y = net.number /\ m = net.mask
    OBVIOUS
  <2>4. KeyFor(ip, net.mask) = KeyFor(net, net.mask)
          <=> x \div Pow2[W - m] = y \div Pow2[W - m]
    BY <1>2, <2>1, <2>2, <2>3, KeyIs
  <2>5. InSubnet(ip, net)
          <=> \A i \in 1..m : (x \div Pow2[W - i]) % 2 = (y \div Pow2[W - i]) % 2
    BY <1>2, <2>1, <2>3 DEF InSubnet, Bit
  <2>6. x \div Pow2[W - m] = y \div Pow2[W - m]
          <=> \A i \in 1..m : (x \div Pow2[W - i]) % 2 = (y \div Pow2[W - i]) % 2
    BY <2>2, <2>3, SameBits
  <2> QED
    BY <2>4, <2>5, <2>6
<1> QED
  BY <1>1, <1>2

-----------------------------------------------------------------------------
(* Filters                                                                 *)

\* What is kept of the first elements of a sequence.
Keeps(s, S, f) ==
  f = [i \in 0..Len(s) |->
         IF i = 0 THEN <<>>
         ELSE IF s[i] \in S THEN Append(f[i - 1], s[i]) ELSE f[i - 1]]

LEMMA KeepsSteps ==
  ASSUME NEW D, NEW s \in Seq(D), NEW S, NEW f, Keeps(s, S, f)
  PROVE  /\ f[0] = <<>>
         /\ \A i \in 1..Len(s) :
              f[i] = IF s[i] \in S THEN Append(f[i - 1], s[i]) ELSE f[i - 1]
<1> DEFINE E(i) == IF i = 0 THEN <<>>
                   ELSE IF s[i] \in S THEN Append(f[i - 1], s[i]) ELSE f[i - 1]
<1>1. Len(s) \in Nat
  OBVIOUS
<1>2. f = [i \in 0..Len(s) |-> E(i)]
  BY Zenon DEF Keeps
<1>3. E(0) = <<>>
  OBVIOUS
<1>4. \A i \in 1..Len(s) :
        E(i) = IF s[i] \in S THEN Append(f[i - 1], s[i]) ELSE f[i - 1]
  OBVIOUS
<1> HIDE DEF E
<1>5. \A i \in 0..Len(s) : f[i] = E(i)
  BY <1>2
<1>6. f[0] = <<>>
  BY <1>1, <1>3, <1>5
<1>7. \A i \in 1..Len(s) : f[i] = E(i)
  BY <1>1, <1>5
<1> QED
  BY <1>4, <1>6, <1>7, Zenon

LEMMA KeepsExists ==
  ASSUME NEW D, NEW s \in Seq(D), NEW S
  PROVE  \E f : Keeps(s, S, f)
<1> DEFINE L == Len(s)
           F == [i \in 1..L |-> [d \in Seq(D) |-> IF s[i] \in S THEN Append(d, s[i]) ELSE d]]
           N == Seq(D)
           none == <<>>
<1>1. L \in Nat /\ none \in N
  OBVIOUS
<1>2. \A i \in 1..L : \A d \in Seq(D) :
        (IF s[i] \in S THEN Append(d, s[i]) ELSE d) \in Seq(D)
  OBVIOUS
<1>3. F \in [1..L -> [N -> N]]
  BY <1>2
<1>4. PICK f \in [0..L -> N] : Recursive(f, none, L, F)
  <2> HIDE DEF F, L, N, none
  <2> QED
    BY <1>1, <1>3, RecursionExists
<1> DEFINE E(i) == IF i = 0 THEN none ELSE F[i][f[i - 1]]
           G(i) == IF i = 0 THEN <<>>
                   ELSE IF s[i] \in S THEN Append(f[i - 1], s[i]) ELSE f[i - 1]
<1>a. \A i \in 1..L : \A d \in N : F[i][d] = IF s[i] \in S THEN Append(d, s[i]) ELSE d
  OBVIOUS
<1>b. \A i \in 1..L : f[i - 1] \in N
  <2>1. \A i \in 1..L : i - 1 \in 0..L
    BY <1>1
  <2> HIDE DEF N, L
  <2> QED
    BY <2>1
<1>5. ASSUME NEW i \in 0..L PROVE E(i) = G(i)
  <2>1. CASE i = 0
    BY <2>1
  <2>2. CASE i # 0
    <3>1. i \in 1..L
      BY <1>1, <2>2
    <3>2. PICK d \in N : d = f[i - 1]
      BY <1>b, <3>1
    <3>3. F[i][d] = IF s[i] \in S THEN Append(d, s[i]) ELSE d
      BY <1>a, <3>1
    <3> HIDE DEF F, N, L
    <3>4. E(i) = F[i][d] /\ G(i) = IF s[i] \in S THEN Append(d, s[i]) ELSE d
      BY <2>2, <3>2
    <3> QED
      BY <3>3, <3>4
  <2> QED
    BY <2>1, <2>2
<1>6. f = [i \in 0..L |-> E(i)]
  BY <1>4, Zenon DEF Recursive
<1> HIDE DEF E, G
<1>7. f = [i \in 0..L |-> G(i)]
  BY <1>5, <1>6
<1>8. Keeps(s, S, f)
  BY <1>7, Zenon DEF Keeps, G
<1> QED
  BY <1>8

LEMMA AmongIs ==
  ASSUME NEW D, NEW s \in Seq(D), NEW S
  PROVE  \E f : Keeps(s, S, f) /\ Among(s, S) = f[Len(s)]
<1> DEFINE f == CHOOSE g : Keeps(s, S, g)
<1>1. Keeps(s, S, f)
  BY KeepsExists
<1>2. Among(s, S) = f[Len(s)]
  BY Zenon DEF Among, Keeps
<1> QED
  BY <1>1, <1>2

LEMMA AmongNothing ==
  ASSUME NEW S
  PROVE  Among(<<>>, S) = <<>>
<1>1. PICK s \in Seq({}) : s = <<>> /\ Len(s) = 0
  <2>1. <<>> \in Seq({}) /\ Len(<<>>) = 0
    OBVIOUS
  <2> QED
    BY <2>1
<1>2. PICK f : Keeps(s, S, f) /\ Among(s, S) = f[Len(s)]
  BY AmongIs
<1>3. f[0] = <<>>
  BY <1>2, KeepsSteps
<1> QED
  BY <1>1, <1>2, <1>3

\* Filtering goes on from element to element.
LEMMA AmongSteps ==
  ASSUME NEW D, NEW S, NEW s \in Seq(D), NEW d \in D
  PROVE  Among(Append(s, d), S) = IF d \in S THEN Append(Among(s, S), d) ELSE Among(s, S)
<1>1. PICK t \in Seq(D), n \in Nat :
        /\ t = Append(s, d) /\ n = Len(s) /\ Len(t) = n + 1
        /\ t[n + 1] = d /\ \A i \in 1..n : t[i] = s[i]
  <2>1. /\ Append(s, d) \in Seq(D) /\ Len(s) \in Nat /\ Len(Append(s, d)) = Len(s) + 1
        /\ Append(s, d)[Len(s) + 1] = d /\ \A i \in 1..Len(s) : Append(s, d)[i] = s[i]
    OBVIOUS
  <2> QED
    BY <2>1
<1>2. PICK f : Keeps(s, S, f) /\ Among(s, S) = f[Len(s)]
  BY AmongIs
<1>3. PICK g : Keeps(t, S, g) /\ Among(t, S) = g[Len(t)]
  BY AmongIs
<1>4. /\ f[0] = <<>>
      /\ \A i \in 1..n : f[i] = IF s[i] \in S THEN Append(f[i - 1], s[i]) ELSE f[i - 1]
  BY <1>1, <1>2, KeepsSteps
<1>5. /\ g[0] = <<>>
      /\ \A i \in 1..Len(t) :
           g[i] = IF t[i] \in S THEN Append(g[i - 1], t[i]) ELSE g[i - 1]
  BY <1>3, KeepsSteps
<1> DEFINE T == {i \in Nat : i <= n => g[i] = f[i]}
<1>6. 0 \in T
  BY <1>4, <1>5
<1>7. ASSUME NEW i \in Nat, i \in T PROVE i + 1 \in T
  <2>1. CASE i + 1 <= n
    <3>1. i + 1 \in 1..n /\ i + 1 \in 1..(n + 1) /\ (i + 1) - 1 = i
      BY <2>1
    <3>2. g[i] = f[i] /\ t[i + 1] = s[i + 1]
      BY <1>1, <1>7, <3>1
    <3>3. i + 1 \in 1..Len(t)
      BY <1>1, <3>1
    <3>4. g[i + 1] = IF t[i + 1] \in S THEN Append(g[i], t[i + 1]) ELSE g[i]
      BY <1>5, <3>1, <3>3
    <3>5. f[i + 1] = IF s[i + 1] \in S THEN Append(f[i], s[i + 1]) ELSE f[i]
      BY <1>4, <3>1
    <3> QED
      BY <3>2, <3>4, <3>5
  <2> QED
    BY <2>1
<1> HIDE DEF T
<1>8. n \in T
  BY <1>6, <1>7, NumberInduction
<1>9. g[n] = f[n]
  BY <1>8 DEF T
<1>10. g[n + 1] = IF d \in S THEN Append(g[n], d) ELSE g[n]
  <2>1. n + 1 \in 1..(n + 1) /\ (n + 1) - 1 = n
    OBVIOUS
  <2> QED
    BY <1>1, <1>5, <2>1
<1>11. Among(t, S) = IF d \in S THEN Append(Among(s, S), d) ELSE Among(s, S)
  BY <1>1, <1>2, <1>3, <1>9, <1>10
<1> QED
  BY <1>1, <1>11

LEMMA ToSetSteps ==
  /\ ToSet(<<>>) = {}
  /\ \A D : \A s \in Seq(D) : \A d \in D : ToSet(Append(s, d)) = ToSet(s) \cup {d}
<1>1. ToSet(<<>>) = {}
  BY DEF ToSet
<1>2. ASSUME NEW D, NEW s \in Seq(D), NEW d \in D
      PROVE  ToSet(Append(s, d)) = ToSet(s) \cup {d}
  <2>1. /\ Len(s) \in Nat /\ DOMAIN s = 1..Len(s)
        /\ DOMAIN Append(s, d) = 1..(Len(s) + 1)
        /\ Append(s, d)[Len(s) + 1] = d /\ \A i \in 1..Len(s) : Append(s, d)[i] = s[i]
    OBVIOUS
  <2>2. ASSUME NEW x \in ToSet(Append(s, d)) PROVE x \in ToSet(s) \cup {d}
    BY <2>1 DEF ToSet
  <2>3. ASSUME NEW x \in ToSet(s) \cup {d} PROVE x \in ToSet(Append(s, d))
    <3>1. CASE x = d
      <4>1. Len(s) + 1 \in DOMAIN Append(s, d)
        BY <2>1
      <4> QED
        BY <2>1, <3>1, <4>1 DEF ToSet
    <3>2. CASE x \in ToSet(s)
      <4>1. PICK i \in DOMAIN s : s[i] = x
        BY <3>2 DEF ToSet
      <4>2. i \in DOMAIN Append(s, d) /\ Append(s, d)[i] = x
        BY <2>1, <4>1
      <4> QED
        BY <4>2 DEF ToSet
    <3> QED
      BY <2>3, <3>1, <3>2
  <2> QED
    BY <2>2, <2>3
<1> QED
  BY <1>1, <1>2

\* What a filter leaves.
LEMMA AmongTypes ==
  ASSUME NEW D, NEW S, NEW s \in Seq(D)
  PROVE  /\ Among(s, S) \in Seq(D)
         /\ ToSet(Among(s, S)) = ToSet(s) \cap S
<1> DEFINE T == {r \in Seq(D) : Among(r, S) \in Seq(D) /\ ToSet(Among(r, S)) = ToSet(r) \cap S}
<1>1. <<>> \in T
  <2>1. <<>> \in Seq(D)
    OBVIOUS
  <2> QED
    BY <2>1, AmongNothing, ToSetSteps
<1>2. ASSUME NEW r \in Seq(D), NEW d \in D, r \in T PROVE Append(r, d) \in T
  <2>1. PICK a \in Seq(D) : a = Among(r, S) /\ ToSet(a) = ToSet(r) \cap S
    BY <1>2
  <2>2. Among(Append(r, d), S) = IF d \in S THEN Append(a, d) ELSE a
    BY <2>1, AmongSteps
  <2>3. ToSet(Append(r, d)) = ToSet(r) \cup {d} /\ ToSet(Append(a, d)) = ToSet(a) \cup {d}
    BY ToSetSteps
  <2>4. Append(r, d) \in Seq(D) /\ Append(a, d) \in Seq(D)
    OBVIOUS
  <2> QED
    BY <2>1, <2>2, <2>3, <2>4
<1> HIDE DEF T
<1>3. s \in T
  BY <1>1, <1>2, SequenceInduction
<1> QED
  BY <1>3 DEF T

\* Two filters, one after the other, are one.
LEMMA AmongTwice ==
  ASSUME NEW D, NEW S, NEW U, NEW s \in Seq(D)
  PROVE  Among(Among(s, S), U) = Among(s, S \cap U)
<1> DEFINE T == {r \in Seq(D) : Among(Among(r, S), U) = Among(r, S \cap U)}
<1>1. <<>> \in T
  <2>1. <<>> \in Seq(D)
    OBVIOUS
  <2> QED
    BY <2>1, AmongNothing
<1>2. ASSUME NEW r \in Seq(D), NEW d \in D, r \in T PROVE Append(r, d) \in T
  <2>1. PICK a \in Seq(D) : a = Among(r, S)
    BY AmongTypes
  <2>2. Among(a, U) = Among(r, S \cap U)
    BY <1>2, <2>1
  <2>3. Among(Append(r, d), S) = IF d \in S THEN Append(a, d) ELSE a
    BY <2>1, AmongSteps
  <2>4. Among(Append(a, d), U) = IF d \in U THEN Append(Among(a, U), d) ELSE Among(a, U)
    BY AmongSteps
  <2>5. Among(Append(r, d), S \cap U) =
          IF d \in S \cap U THEN Append(Among(r, S \cap U), d) ELSE Among(r, S \cap U)
    BY AmongSteps
  <2>6. Append(r, d) \in Seq(D)
    OBVIOUS
  <2>7. Among(Among(Append(r, d), S), U) = Among(Append(r, d), S \cap U)
    <3>1. d \in S \cap U <=> d \in S /\ d \in U
      OBVIOUS
    <3>2. CASE d \in S
      BY <2>2, <2>3, <2>4, <2>5, <3>1, <3>2
    <3>3. CASE d \notin S
      BY <2>2, <2>3, <2>5, <3>1, <3>3
    <3> QED
      BY <3>2, <3>3
  <2> QED
    BY <2>6, <2>7
<1> HIDE DEF T
<1>3. s \in T
  BY <1>1, <1>2, SequenceInduction
<1> QED
  BY <1>3 DEF T

\* A filter asks only about the elements there are.
LEMMA AmongElements ==
  ASSUME NEW D, NEW S, NEW U, NEW s \in Seq(D), ToSet(s) \cap S = ToSet(s) \cap U
  PROVE  Among(s, S) = Among(s, U)
<1> DEFINE T == {r \in Seq(D) : ToSet(r) \cap S = ToSet(r) \cap U => Among(r, S) = Among(r, U)}
<1>1. <<>> \in T
  <2>1. <<>> \in Seq(D)
    OBVIOUS
  <2> QED
    BY <2>1, AmongNothing
<1>2. ASSUME NEW r \in Seq(D), NEW d \in D, r \in T PROVE Append(r, d) \in T
  <2>1. ToSet(Append(r, d)) = ToSet(r) \cup {d}
    BY ToSetSteps
  <2>2. Append(r, d) \in Seq(D)
    OBVIOUS
  <2>3. ASSUME ToSet(Append(r, d)) \cap S = ToSet(Append(r, d)) \cap U
        PROVE  Among(Append(r, d), S) = Among(Append(r, d), U)
    <3>1. (d \in S <=> d \in U) /\ ToSet(r) \cap S = ToSet(r) \cap U
      BY <2>1, <2>3
    <3>2. Among(r, S) = Among(r, U)
      BY <1>2, <3>1
    <3>3. Among(Append(r, d), S) = IF d \in S THEN Append(Among(r, S), d) ELSE Among(r, S)
      BY AmongSteps
    <3>4. Among(Append(r, d), U) = IF d \in U THEN Append(Among(r, U), d) ELSE Among(r, U)
      BY AmongSteps
    <3> QED
      BY <3>1, <3>2, <3>3, <3>4, Zenon
  <2> QED
    BY <2>2, <2>3
<1> HIDE DEF T
<1>3. s \in T
  BY <1>1, <1>2, SequenceInduction
<1> QED
  BY <1>3 DEF T

-----------------------------------------------------------------------------
(* The lengths of masks, the longest first                                 *)

Down(s) == \A i, j \in DOMAIN s : i < j => s[i] > s[j]

LEMMA DownAppend ==
  ASSUME NEW s \in Seq(Nat), NEW d \in Nat
  PROVE  Down(Append(s, d)) <=> Down(s) /\ \A x \in ToSet(s) : x > d
<1>1. PICK t \in Seq(Nat), n \in Nat :
        /\ t = Append(s, d) /\ n = Len(s) /\ DOMAIN s = 1..n /\ DOMAIN t = 1..(n + 1)
        /\ t[n + 1] = d /\ \A i \in 1..n : t[i] = s[i]
  <2>1. /\ Append(s, d) \in Seq(Nat) /\ Len(s) \in Nat
        /\ DOMAIN s = 1..Len(s) /\ DOMAIN Append(s, d) = 1..(Len(s) + 1)
        /\ Append(s, d)[Len(s) + 1] = d /\ \A i \in 1..Len(s) : Append(s, d)[i] = s[i]
    OBVIOUS
  <2> QED
    BY <2>1
<1>2. ToSet(s) = {s[i] : i \in 1..n}
  BY <1>1 DEF ToSet
<1>3. \A i \in 1..n : s[i] \in Nat
  BY <1>1
<1>4. ASSUME Down(t) PROVE Down(s) /\ \A x \in ToSet(s) : x > d
  <2>1. \A i \in 1..n : i \in 1..(n + 1) /\ n + 1 \in 1..(n + 1) /\ i < n + 1
    OBVIOUS
  <2>2. Down(s)
    BY <1>1, <1>4, <2>1 DEF Down
  <2>3. \A i \in 1..n : t[i] > t[n + 1]
    BY <1>1, <1>4, <2>1 DEF Down
  <2>4. \A i \in 1..n : s[i] > d
    BY <1>1, <2>3
  <2> QED
    BY <1>2, <2>2, <2>4
<1>5. ASSUME Down(s), \A x \in ToSet(s) : x > d PROVE Down(t)
  <2>1. ASSUME NEW i \in 1..(n + 1), NEW j \in 1..(n + 1), i < j PROVE t[i] > t[j]
    <3>1. i \in 1..n
      BY <2>1
    <3>2. CASE j = n + 1
      BY <1>1, <1>2, <1>5, <3>1, <3>2
    <3>3. CASE j # n + 1
      <4>1. j \in 1..n
        BY <2>1, <3>3
      <4> QED
        BY <1>1, <1>5, <2>1, <3>1, <4>1 DEF Down
    <3> QED
      BY <3>2, <3>3
  <2> QED
    BY <1>1, <2>1 DEF Down
<1> QED
  BY <1>1, <1>4, <1>5

LEMMA AmongDown ==
  ASSUME NEW S, NEW s \in Seq(Nat), Down(s)
  PROVE  Down(Among(s, S))
<1> DEFINE T == {r \in Seq(Nat) : Down(r) => Down(Among(r, S))}
<1>1. <<>> \in T
  <2>1. <<>> \in Seq(Nat) /\ Down(<<>>)
    BY DEF Down
  <2> QED
    BY <2>1, AmongNothing
<1>2. ASSUME NEW r \in Seq(Nat), NEW d \in Nat, r \in T PROVE Append(r, d) \in T
  <2>1. PICK a \in Seq(Nat) : a = Among(r, S) /\ ToSet(a) = ToSet(r) \cap S
    BY AmongTypes
  <2>2. Among(Append(r, d), S) = IF d \in S THEN Append(a, d) ELSE a
    BY <2>1, AmongSteps
  <2>3. Append(r, d) \in Seq(Nat)
    OBVIOUS
  <2>4. ASSUME Down(Append(r, d)) PROVE Down(Among(Append(r, d), S))
    <3>1. Down(r) /\ \A x \in ToSet(r) : x > d
      BY <2>4, DownAppend
    <3>2. Down(a)
      BY <1>2, <2>1, <3>1
    <3>3. Down(Append(a, d))
      BY <2>1, <3>1, <3>2, DownAppend
    <3> QED
      BY <2>2, <3>2, <3>3
  <2> QED
    BY <2>3, <2>4
<1> HIDE DEF T
<1>3. s \in T
  BY <1>1, <1>2, SequenceInduction
<1> QED
  BY <1>3 DEF T

\* Sorting after one more was appended puts it in its place.
LEMMA Placed ==
  ASSUME NEW s \in Seq(Nat), Down(s), NEW m \in Nat, m \notin ToSet(s)
  PROVE  LET t == Descending(Append(s, m))
         IN  t \in Seq(Nat) /\ Down(t) /\ ToSet(t) = ToSet(s) \cup {m}
<1>1. PICK u \in Seq(Nat), n \in Nat :
        /\ u = Append(s, m) /\ n = Len(s) /\ DOMAIN s = 1..n /\ DOMAIN u = 1..(n + 1)
        /\ u[n + 1] = m /\ \A i \in 1..n : u[i] = s[i]
  <2>1. /\ Append(s, m) \in Seq(Nat) /\ Len(s) \in Nat
        /\ DOMAIN s = 1..Len(s) /\ DOMAIN Append(s, m) = 1..(Len(s) + 1)
        /\ Append(s, m)[Len(s) + 1] = m /\ \A i \in 1..Len(s) : Append(s, m)[i] = s[i]
    OBVIOUS
  <2> QED
    BY <2>1
<1>2. \A i \in 1..n : u[i] \in Nat /\ u[i] # m
  <2>1. \A i \in 1..n : s[i] \in Nat /\ s[i] \in ToSet(s)
    BY <1>1 DEF ToSet
  <2> QED
    BY <1>1, <2>1
<1>3. \A i, j \in 1..n : i < j => u[i] > u[j]
  BY <1>1 DEF Down
<1>4. PICK k \in 0..n : /\ \A i \in 1..n : i <= k => u[i] > m
                        /\ \A i \in 1..n : k < i => m > u[i]
  <2> DEFINE below == {i \in 1..n : m > u[i]}
  <2>1. CASE below = {}
    <3>1. n \in 0..n
      OBVIOUS
    <3>2. ASSUME NEW i \in 1..n PROVE u[i] > m /\ ~(n < i)
      <4>1. ~(m > u[i])
        BY <2>1
      <4> QED
        BY <1>2, <4>1
    <3> QED
      BY <3>1, <3>2
  <2>2. CASE below # {}
    <3>1. below \in SUBSET Nat
      OBVIOUS
    <3>2. PICK b \in below : \A i \in below : b <= i
      BY <2>2, <3>1, LeastNumber
    <3>3. b - 1 \in 0..n
      BY <3>2
    <3>4. ASSUME NEW i \in 1..n, i <= b - 1 PROVE u[i] > m
      <4>1. i \notin below
        BY <3>2, <3>4
      <4> QED
        BY <1>2, <4>1
    <3>5. ASSUME NEW i \in 1..n, b - 1 < i PROVE m > u[i]
      <4>1. b \in 1..n /\ m > u[b]
        BY <3>2
      <4>2. CASE i = b
        BY <4>1, <4>2
      <4>3. CASE i # b
        <5>1. u[b] > u[i]
          BY <1>3, <3>5, <4>1, <4>3
        <5> QED
          BY <1>2, <4>1, <5>1
      <4> QED
        BY <4>2, <4>3
    <3> QED
      BY <3>3, <3>4, <3>5
  <2> QED
    BY <2>1, <2>2
<1> DEFINE I == 1..(n + 1)
           Sorts(p) == \A i, j \in I : i < j => u[p[i]] >= u[p[j]]
           q == [i \in I |-> IF i <= k THEN i ELSE IF i = k + 1 THEN n + 1 ELSE i - 1]
<1>5. q \in Bijection(I, I)
  <2>1. q \in [I -> I]
    OBVIOUS
  <2>2. ASSUME NEW i \in I, NEW j \in I, q[i] = q[j] PROVE i = j
    BY <2>2
  <2>3. ASSUME NEW v \in I PROVE \E i \in I : q[i] = v
    <3>1. CASE v <= k
      BY <3>1
    <3>2. CASE v = n + 1
      <4>1. k + 1 \in I /\ q[k + 1] = v
        BY <3>2
      <4> QED
        BY <4>1
    <3>3. CASE k < v /\ v # n + 1
      <4>1. v + 1 \in I /\ q[v + 1] = v
        BY <3>3
      <4> QED
        BY <4>1
    <3> QED
      BY <3>1, <3>2, <3>3
  <2> HIDE DEF q, I
  <2>4. q \in Injection(I, I)
    BY <2>1, <2>2 DEF Injection, IsInjective
  <2>5. q \in Surjection(I, I)
    BY <2>1, <2>3 DEF Surjection
  <2> QED
    BY <2>4, <2>5 DEF Bijection
<1>6. Sorts(q)
  <2> SUFFICES ASSUME NEW i \in I, NEW j \in I, i < j PROVE u[q[i]] >= u[q[j]]
    OBVIOUS
  <2>1. u[n + 1] = m /\ m \in Nat
    BY <1>1
  <2>2. CASE j <= k
    <3>1. q[i] = i /\ q[j] = j /\ i \in 1..n /\ j \in 1..n
      BY <2>2
    <3> QED
      BY <1>2, <1>3, <3>1
  <2>3. CASE j = k + 1
    <3>1. q[i] = i /\ q[j] = n + 1 /\ i \in 1..n /\ i <= k
      BY <2>3
    <3> QED
      BY <1>2, <1>4, <2>1, <3>1
  <2>4. CASE j > k + 1 /\ i = k + 1
    <3>1. q[i] = n + 1 /\ q[j] = j - 1 /\ j - 1 \in 1..n /\ k < j - 1
      BY <2>4
    <3> QED
      BY <1>2, <1>4, <2>1, <3>1
  <2>5. CASE j > k + 1 /\ i # k + 1
    <3>1. /\ q[j] = j - 1 /\ j - 1 \in 1..n
          /\ q[i] \in 1..n /\ q[i] < j - 1
      BY <2>5
    <3> QED
      BY <1>2, <1>3, <3>1
  <2> QED
    BY <2>2, <2>3, <2>4, <2>5
<1> DEFINE order == CHOOSE p \in Bijection(I, I) : Sorts(p)
<1> HIDE DEF q
<1>7. order \in Bijection(I, I) /\ Sorts(order)
  <2> HIDE DEF Sorts, I
  <2> QED
    BY <1>5, <1>6
<1>8. PICK t : t = Descending(u)
  OBVIOUS
<1>9. t = [i \in I |-> u[order[i]]]
  BY <1>1, <1>8 DEF Descending
<1> HIDE DEF order
<1>10. /\ order \in [I -> I]
       /\ \A i, j \in I : order[i] = order[j] => i = j
       /\ \A v \in I : \E i \in I : order[i] = v
  BY <1>7 DEF Bijection, Injection, Surjection, IsInjective
<1>11. \A i \in I : u[i] \in Nat
  BY <1>1
<1>12. \A i \in I : t[i] = u[order[i]] /\ t[i] \in Nat
  BY <1>9, <1>10, <1>11
<1>13. t \in Seq(Nat) /\ DOMAIN t = I
  <2>1. DOMAIN t = I
    BY <1>9
  <2>2. t \in [I -> Nat]
    BY <1>9, <1>12, <2>1
  <2> QED
    BY <2>1, <2>2
<1>14. \A i, j \in I : u[i] = u[j] => i = j
  <2> SUFFICES ASSUME NEW i \in I, NEW j \in I, i < j PROVE u[i] # u[j]
    <3>1. \A i, j \in I : i = j \/ i < j \/ j < i
      OBVIOUS
    <3> QED
      BY <3>1
  <2>1. i \in 1..n
    OBVIOUS
  <2>2. CASE j = n + 1
    BY <1>1, <1>2, <2>1, <2>2
  <2>3. CASE j # n + 1
    <3>1. j \in 1..n
      BY <2>3
    <3> QED
      BY <1>2, <1>3, <2>1, <3>1
  <2> QED
    BY <2>2, <2>3
<1>15. Down(t)
  <2> SUFFICES ASSUME NEW i \in I, NEW j \in I, i < j PROVE t[i] > t[j]
    BY <1>13 DEF Down
  <2>1. t[i] >= t[j]
    BY <1>7, <1>12
  <2>2. t[i] # t[j]
    <3>1. order[i] # order[j] /\ order[i] \in I /\ order[j] \in I
      <4> HIDE DEF I
      <4>1. i # j
        BY DEF I
      <4> QED
        BY <1>10, <4>1
    <3>2. PICK a \in I, b \in I : a = order[i] /\ b = order[j] /\ a # b
      BY <3>1
    <3> HIDE DEF I
    <3>3. u[a] # u[b]
      BY <1>14, <3>2
    <3>4. t[i] = u[a] /\ t[j] = u[b]
      BY <1>12, <3>2
    <3> QED
      BY <3>3, <3>4
  <2> QED
    BY <1>12, <2>1, <2>2
<1>16. ToSet(t) = ToSet(u)
  <2>1. ToSet(t) = {t[i] : i \in I} /\ ToSet(u) = {u[i] : i \in I}
    BY <1>1, <1>13 DEF ToSet
  <2> HIDE DEF I
  <2>2. ASSUME NEW x \in ToSet(u) PROVE x \in ToSet(t)
    <3>1. PICK v \in I : x = u[v]
      BY <2>1
    <3>2. PICK i \in I : order[i] = v
      BY <1>10
    <3> QED
      BY <1>12, <2>1, <3>1, <3>2
  <2>3. ASSUME NEW x \in ToSet(t) PROVE x \in ToSet(u)
    <3>1. PICK i \in I : x = t[i]
      BY <2>1
    <3>2. order[i] \in I
      BY <1>10
    <3> QED
      BY <1>12, <2>1, <3>1, <3>2
  <2> QED
    BY <2>2, <2>3
<1>17. ToSet(u) = ToSet(s) \cup {m}
  BY <1>1, ToSetSteps
<1> QED
  BY <1>1, <1>8, <1>13, <1>15, <1>16, <1>17


-----------------------------------------------------------------------------
(* What a removal leaves                                                   *)

LEMMA AmongEmpty ==
  ASSUME NEW D, NEW S, NEW s \in Seq(D)
  PROVE  Among(s, S) = <<>> <=> ToSet(s) \cap S = {}
<1>1. PICK a \in Seq(D) : a = Among(s, S) /\ ToSet(a) = ToSet(s) \cap S
  BY AmongTypes
<1>2. a = <<>> => ToSet(a) = {}
  BY ToSetSteps
<1>3. ASSUME a # <<>> PROVE ToSet(a) # {}
  <2>1. 1 \in DOMAIN a
    BY <1>3
  <2> QED
    BY <2>1 DEF ToSet
<1> QED
  BY <1>1, <1>2, <1>3

LEMMA WithoutIs ==
  ASSUME NEW D, NEW s \in Seq(D), NEW gone
  PROVE  /\ Without(s, gone) \in Seq(D)
         /\ ToSet(Without(s, gone)) = ToSet(s) \ gone
<1>1. PICK S : S = ToSet(s) \ gone
  OBVIOUS
<1>2. Without(s, gone) = Among(s, S)
  BY <1>1 DEF Without
<1>3. Among(s, S) \in Seq(D) /\ ToSet(Among(s, S)) = ToSet(s) \cap S
  BY AmongTypes
<1> QED
  BY <1>1, <1>2, <1>3

\* It does not matter whether one removes first or filters first.
LEMMA WithoutAmong ==
  ASSUME NEW D, NEW s \in Seq(D), NEW gone, NEW S
  PROVE  Without(Among(s, S), gone) = Among(Without(s, gone), S)
<1>1. PICK a \in Seq(D) : a = Among(s, S) /\ ToSet(a) = ToSet(s) \cap S
  BY AmongTypes
<1>2. PICK U : U = ToSet(a) \ gone
  OBVIOUS
<1>3. PICK V : V = ToSet(s) \ gone
  OBVIOUS
<1>4. Without(a, gone) = Among(s, S \cap U)
  <2>1. Without(a, gone) = Among(a, U)
    BY <1>2 DEF Without
  <2>2. Among(Among(s, S), U) = Among(s, S \cap U)
    BY AmongTwice
  <2> QED
    BY <1>1, <2>1, <2>2
<1>5. Among(Without(s, gone), S) = Among(s, V \cap S)
  <2>1. Without(s, gone) = Among(s, V)
    BY <1>3 DEF Without
  <2>2. Among(Among(s, V), S) = Among(s, V \cap S)
    BY AmongTwice
  <2> QED
    BY <2>1, <2>2
<1>6. ToSet(s) \cap (S \cap U) = ToSet(s) \cap (V \cap S)
  BY <1>1, <1>2, <1>3
<1>7. Among(s, S \cap U) = Among(s, V \cap S)
  BY <1>6, AmongElements
<1> QED
  BY <1>1, <1>4, <1>5, <1>7

LEMMA WithoutOthers ==
  ASSUME NEW D, NEW s \in Seq(D), NEW gone, NEW S, S \cap gone = {}
  PROVE  Among(Without(s, gone), S) = Among(s, S)
<1>1. PICK V : V = ToSet(s) \ gone
  OBVIOUS
<1>2. Without(s, gone) = Among(s, V)
  BY <1>1 DEF Without
<1>3. Among(Among(s, V), S) = Among(s, V \cap S)
  BY AmongTwice
<1>4. ToSet(s) \cap (V \cap S) = ToSet(s) \cap S
  BY <1>1
<1>5. Among(s, V \cap S) = Among(s, S)
  BY <1>4, AmongElements
<1> QED
  BY <1>2, <1>3, <1>5

-----------------------------------------------------------------------------
(* The index is a function of the decisions in it                          *)

\* The decisions of one key.
In(m, k) == {d \in Stored : d.value.mask = m /\ KeyFor(d.value, m) = k}

Masks(s) == {d.value.mask : d \in ToSet(s)}

Keys(s, m) == {KeyFor(d.value, m) : d \in {e \in ToSet(s) : e.value.mask = m}}

Table(s, m) == [k \in Keys(s, m) |-> Among(s, In(m, k))]

Index(s) == [m \in Masks(s) |-> Table(s, m)]

IndexInv ==
  /\ entries \in Seq(Stored)
  /\ \A d \in ToSet(entries) : d.value.mask # 0
  /\ masks = Index(entries)
  /\ activeMasks \in Seq(Nat)
  /\ Down(activeMasks)
  /\ ToSet(activeMasks) = Masks(entries)

LEMMA Elements ==
  ASSUME NEW D, NEW s \in Seq(D)
  PROVE  ToSet(s) \subseteq D
BY DEF ToSet

\* A decision is stored under one mask and one key.
LEMMA StoredIn ==
  ASSUME NEW d \in Stored
  PROVE  /\ d.value \in AddressObject /\ d.value.mask \in Nat
         /\ \A m, k : d \in In(m, k) <=> m = d.value.mask /\ k = KeyFor(d.value, m)
<1>1. d.value \in AddressObject
  BY DEF Stored
<1>2. d.value.mask \in Nat
  BY <1>1, Widths
<1> QED
  BY <1>1, <1>2 DEF In

LEMMA KeysAre ==
  ASSUME NEW s \in Seq(Stored), NEW m
  PROVE  /\ m \in Masks(s) <=> Keys(s, m) # {}
         /\ \A k : k \in Keys(s, m) <=> ToSet(s) \cap In(m, k) # {}
<1>1. ToSet(s) \subseteq Stored
  BY Elements
<1>2. m \in Masks(s) <=> Keys(s, m) # {}
  BY DEF Masks, Keys
<1>3. ASSUME NEW k PROVE k \in Keys(s, m) <=> ToSet(s) \cap In(m, k) # {}
  <2>1. ASSUME k \in Keys(s, m) PROVE ToSet(s) \cap In(m, k) # {}
    <3>1. PICK d \in ToSet(s) : d.value.mask = m /\ k = KeyFor(d.value, m)
      BY <2>1 DEF Keys
    <3>2. d \in In(m, k)
      BY <1>1, <3>1, StoredIn
    <3> QED
      BY <3>1, <3>2
  <2>2. ASSUME NEW d \in ToSet(s) \cap In(m, k) PROVE k \in Keys(s, m)
    <3>1. m = d.value.mask /\ k = KeyFor(d.value, m)
      BY <2>2 DEF In
    <3> QED
      BY <3>1 DEF Keys
  <2> QED
    BY <2>1, <2>2
<1> QED
  BY <1>2, <1>3

LEMMA Bucket ==
  ASSUME NEW s \in Seq(Stored), NEW m, NEW k
  PROVE  /\ (IF m \in DOMAIN Index(s) THEN Index(s)[m] ELSE NoTable) = Table(s, m)
         /\ (IF k \in DOMAIN Table(s, m) THEN Table(s, m)[k] ELSE <<>>) = Among(s, In(m, k))
<1>1. DOMAIN Index(s) = Masks(s) /\ DOMAIN Table(s, m) = Keys(s, m)
  BY DEF Index, Table
<1>2. ASSUME m \notin Masks(s) PROVE Table(s, m) = NoTable
  <2>1. Keys(s, m) = {}
    BY <1>2, KeysAre
  <2> QED
    BY <2>1 DEF Table, NoTable
<1>3. ASSUME m \in Masks(s) PROVE Index(s)[m] = Table(s, m)
  BY <1>3 DEF Index
<1>4. ASSUME k \notin Keys(s, m) PROVE Among(s, In(m, k)) = <<>>
  BY <1>4, KeysAre, AmongEmpty
<1>5. ASSUME k \in Keys(s, m) PROVE Table(s, m)[k] = Among(s, In(m, k))
  BY <1>5 DEF Table
<1> QED
  BY <1>1, <1>2, <1>3, <1>4, <1>5

-----------------------------------------------------------------------------
(* The steps keep it so                                                    *)

LEMMA IndexInsert ==
  ASSUME NEW s \in Seq(Stored), NEW d \in Stored, NEW mask, mask = d.value.mask,
         NEW key, key = KeyFor(d.value, mask)
  PROVE  /\ Masks(Append(s, d)) = Masks(s) \cup {mask}
         /\ Index(Append(s, d)) =
              Set(Index(s), mask, Set(Table(s, mask), key, Append(Among(s, In(mask, key)), d)))
<1>1. PICK t \in Seq(Stored) : t = Append(s, d) /\ ToSet(t) = ToSet(s) \cup {d}
  <2>1. Append(s, d) \in Seq(Stored)
    OBVIOUS
  <2>2. ToSet(Append(s, d)) = ToSet(s) \cup {d}
    BY ToSetSteps
  <2> QED
    BY <2>1, <2>2
<1>2. Masks(t) = Masks(s) \cup {mask}
  BY <1>1 DEF Masks
<1>3. \A m : Keys(t, m) = IF m = mask THEN Keys(s, m) \cup {key} ELSE Keys(s, m)
  BY <1>1 DEF Keys
<1>4. \A m, k : d \in In(m, k) <=> m = mask /\ k = key
  BY StoredIn
<1>5. ASSUME NEW m, NEW k
      PROVE  Among(t, In(m, k)) =
               IF m = mask /\ k = key THEN Append(Among(s, In(m, k)), d)
               ELSE Among(s, In(m, k))
  <2>1. Among(Append(s, d), In(m, k)) =
          IF d \in In(m, k) THEN Append(Among(s, In(m, k)), d) ELSE Among(s, In(m, k))
    BY AmongSteps
  <2> QED
    BY <1>1, <1>4, <2>1
<1>6. Table(t, mask) = Set(Table(s, mask), key, Append(Among(s, In(mask, key)), d))
  BY <1>3, <1>5 DEF Table, Set
<1>7. ASSUME NEW m, m # mask PROVE Table(t, m) = Table(s, m)
  BY <1>3, <1>5, <1>7 DEF Table
<1>8. Index(t) = Set(Index(s), mask, Table(t, mask))
  BY <1>2, <1>7 DEF Index, Set
<1> QED
  BY <1>1, <1>2, <1>6, <1>8

LEMMA InsertInv ==
  ASSUME IndexInv, NEW d \in Stored, Insert(d)
  PROVE  IndexInv'
<1>1. PICK mask \in Nat : mask = d.value.mask /\ mask # 0
  BY StoredIn DEF Insert
<1>2. PICK key : key = KeyFor(d.value, mask)
  OBVIOUS
<1>3. PICK s \in Seq(Stored) : s = entries
  BY DEF IndexInv
<1>4. /\ masks = Index(s) /\ ToSet(activeMasks) = Masks(s)
      /\ activeMasks \in Seq(Nat) /\ Down(activeMasks)
      /\ \A e \in ToSet(s) : e.value.mask # 0
  BY <1>3 DEF IndexInv
<1>5. PICK bucket :
        bucket = IF mask \in DOMAIN masks THEN masks[mask] ELSE NoTable
  OBVIOUS
<1>6. PICK decisions :
        decisions = IF key \in DOMAIN bucket THEN bucket[key] ELSE <<>>
  OBVIOUS
<1>7. bucket = Table(s, mask) /\ decisions = Among(s, In(mask, key))
  BY <1>4, <1>5, <1>6, Bucket
<1>8. masks' = Set(masks, mask, Set(bucket, key, Append(decisions, d)))
  BY <1>1, <1>2, <1>5, <1>6 DEF Insert
<1>9. entries' = Append(s, d)
  BY <1>3 DEF Insert
<1>10. activeMasks' = IF mask \in ToSet(activeMasks) THEN activeMasks
                      ELSE Descending(Append(activeMasks, mask))
  BY <1>1 DEF Insert
<1>11. Masks(entries') = Masks(s) \cup {mask} /\ masks' = Index(entries')
  BY <1>1, <1>2, <1>4, <1>7, <1>8, <1>9, IndexInsert
<1>12. /\ activeMasks' \in Seq(Nat) /\ Down(activeMasks')
       /\ ToSet(activeMasks') = Masks(entries')
  <2>1. CASE mask \in ToSet(activeMasks)
    BY <1>4, <1>10, <1>11, <2>1
  <2>2. CASE mask \notin ToSet(activeMasks)
    <3>1. PICK t : t = Descending(Append(activeMasks, mask))
      OBVIOUS
    <3>2. t \in Seq(Nat) /\ Down(t) /\ ToSet(t) = ToSet(activeMasks) \cup {mask}
      BY <1>4, <2>2, <3>1, Placed
    <3> QED
      BY <1>4, <1>10, <1>11, <2>2, <3>1, <3>2
  <2> QED
    BY <2>1, <2>2
<1>13. entries' \in Seq(Stored) /\ \A e \in ToSet(entries') : e.value.mask # 0
  <2>1. ToSet(entries') = ToSet(s) \cup {d}
    BY <1>9, ToSetSteps
  <2>2. Append(s, d) \in Seq(Stored)
    OBVIOUS
  <2> QED
    BY <1>1, <1>4, <1>9, <2>1, <2>2
<1>14. PICK e : e = entries'
  OBVIOUS
<1>15. PICK a : a = activeMasks'
  OBVIOUS
<1> QED
  BY <1>11, <1>12, <1>13, <1>14, <1>15 DEF IndexInv, Down, Masks, Index, Table, Keys

\* What deleting d does to the index of s; t is what is left.
Deleted(s, t, mask, key, filtered) ==
  /\ Table(t, mask) = IF filtered = <<>> THEN Drop(Table(s, mask), {key})
                      ELSE Set(Table(s, mask), key, filtered)
  /\ Index(t) = IF Keys(t, mask) = {} THEN Drop(Index(s), {mask})
                ELSE Set(Index(s), mask, Table(t, mask))
  /\ Masks(t) = IF Keys(t, mask) = {} THEN Masks(s) \ {mask} ELSE Masks(s)

LEMMA IndexDelete ==
  ASSUME NEW s \in Seq(Stored), NEW d \in Stored, NEW mask, mask = d.value.mask,
         NEW key, key = KeyFor(d.value, mask),
         NEW filtered, filtered = Without(Among(s, In(mask, key)), {d}),
         NEW t, t = Without(s, {d}),
         mask \in Masks(s), key \in Keys(s, mask)
  PROVE  Deleted(s, t, mask, key, filtered)
<1>1. t \in Seq(Stored) /\ ToSet(t) = ToSet(s) \ {d}
  BY WithoutIs
<1>2. filtered = Among(t, In(mask, key))
  BY WithoutAmong
<1>3. ASSUME NEW m, NEW k, ~(m = mask /\ k = key)
      PROVE  /\ Among(t, In(m, k)) = Among(s, In(m, k))
             /\ k \in Keys(t, m) <=> k \in Keys(s, m)
  <2>1. In(m, k) \cap {d} = {}
    BY <1>3, StoredIn
  <2>2. Among(t, In(m, k)) = Among(s, In(m, k))
    BY <2>1, WithoutOthers
  <2>3. ToSet(t) \cap In(m, k) = ToSet(s) \cap In(m, k)
    BY <1>1, <2>1
  <2> QED
    BY <1>1, <2>2, <2>3, KeysAre
<1>4. key \in Keys(t, mask) <=> filtered # <<>>
  BY <1>1, <1>2, KeysAre, AmongEmpty
<1>5. Keys(t, mask) = IF filtered = <<>> THEN Keys(s, mask) \ {key} ELSE Keys(s, mask)
  <2>1. \A k : k # key => (k \in Keys(t, mask) <=> k \in Keys(s, mask))
    BY <1>3
  <2>2. \A k : k \in Keys(t, mask) <=>
               IF filtered = <<>> THEN k \in Keys(s, mask) \ {key} ELSE k \in Keys(s, mask)
    BY <1>4, <2>1
  <2> QED
    BY <2>2
<1>6. ASSUME NEW m, m # mask PROVE Keys(t, m) = Keys(s, m)
  <2>1. \A k : k \in Keys(t, m) <=> k \in Keys(s, m)
    BY <1>3, <1>6
  <2> QED
    BY <2>1
<1>7. Table(t, mask) = IF filtered = <<>> THEN Drop(Table(s, mask), {key})
                       ELSE Set(Table(s, mask), key, filtered)
  <2>1. CASE filtered = <<>>
    <3>1. \A k \in Keys(s, mask) \ {key} : Among(t, In(mask, k)) = Among(s, In(mask, k))
      BY <1>3
    <3> QED
      BY <1>5, <2>1, <3>1 DEF Table, Drop
  <2>2. CASE filtered # <<>>
    <3>1. \A k \in Keys(s, mask) :
            Among(t, In(mask, k)) = IF k = key THEN filtered ELSE Among(s, In(mask, k))
      BY <1>2, <1>3
    <3>2. Keys(s, mask) = Keys(s, mask) \cup {key} /\ Keys(t, mask) = Keys(s, mask)
      BY <1>5, <2>2
    <3> QED
      BY <2>2, <3>1, <3>2 DEF Table, Set
  <2> QED
    BY <2>1, <2>2
<1>8. \A m : m \in Masks(t) <=> IF m = mask THEN Keys(t, mask) # {} ELSE m \in Masks(s)
  <2>1. \A m : m \in Masks(t) <=> Keys(t, m) # {}
    BY <1>1, KeysAre
  <2>2. \A m : m \in Masks(s) <=> Keys(s, m) # {}
    BY KeysAre
  <2> QED
    BY <1>6, <2>1, <2>2
<1>9. Masks(t) = IF Keys(t, mask) = {} THEN Masks(s) \ {mask} ELSE Masks(s)
  BY <1>8
<1>10. \A m : m # mask => Table(t, m) = Table(s, m)
  BY <1>3, <1>6 DEF Table
<1>11. CASE Keys(t, mask) = {}
  <2>1. Index(t) = Drop(Index(s), {mask})
    BY <1>9, <1>10, <1>11 DEF Index, Drop
  <2> QED
    BY <1>7, <1>9, <1>11, <2>1 DEF Deleted
<1>12. CASE Keys(t, mask) # {}
  <2>1. Masks(t) = Masks(s) \cup {mask} /\ Masks(t) = Masks(s)
    BY <1>9, <1>12
  <2>2. Index(t) = Set(Index(s), mask, Table(t, mask))
    BY <1>10, <2>1 DEF Index, Set
  <2> QED
    BY <1>7, <1>9, <1>12, <2>2 DEF Deleted
<1> QED
  BY <1>11, <1>12

LEMMA DeleteInv ==
  ASSUME IndexInv, NEW d \in Stored, Delete(d)
  PROVE  IndexInv'
<1>1. PICK mask \in Nat : mask = d.value.mask
  BY StoredIn
<1>2. PICK key : key = KeyFor(d.value, mask)
  OBVIOUS
<1>3. PICK s \in Seq(Stored) : s = entries
  BY DEF IndexInv
<1>4. /\ masks = Index(s) /\ ToSet(activeMasks) = Masks(s)
      /\ activeMasks \in Seq(Nat) /\ Down(activeMasks)
      /\ \A e \in ToSet(s) : e.value.mask # 0
  BY <1>3 DEF IndexInv
<1>5. PICK bucket : bucket = masks[mask]
  OBVIOUS
<1>6. PICK filtered : filtered = Without(bucket[key], {d})
  OBVIOUS
<1>7. PICK left : left = IF filtered = <<>> THEN Drop(bucket, {key})
                         ELSE Set(bucket, key, filtered)
  OBVIOUS
<1>8. /\ mask \in DOMAIN masks /\ key \in DOMAIN bucket
      /\ WithoutBucket(mask, left) /\ entries' = Without(s, {d})
  BY <1>1, <1>2, <1>3, <1>5, <1>6, <1>7 DEF Delete
<1>9. mask \in Masks(s) /\ bucket = Table(s, mask)
  BY <1>4, <1>5, <1>8 DEF Index
<1>10. key \in Keys(s, mask) /\ bucket[key] = Among(s, In(mask, key))
  BY <1>8, <1>9 DEF Table
<1>11. PICK t \in Seq(Stored) : t = Without(s, {d}) /\ ToSet(t) = ToSet(s) \ {d}
  BY WithoutIs
<1>a. filtered = Without(Among(s, In(mask, key)), {d})
  BY <1>6, <1>10
<1>b. Deleted(s, t, mask, key, filtered)
  BY <1>1, <1>2, <1>9, <1>10, <1>11, <1>a, IndexDelete
<1>12. /\ left = Table(t, mask)
       /\ Index(t) = IF Keys(t, mask) = {} THEN Drop(Index(s), {mask})
                     ELSE Set(Index(s), mask, Table(t, mask))
       /\ Masks(t) = IF Keys(t, mask) = {} THEN Masks(s) \ {mask} ELSE Masks(s)
  BY <1>7, <1>9, <1>b DEF Deleted
<1>13. DOMAIN left = Keys(t, mask)
  BY <1>12 DEF Table
<1>14. masks' = Index(t)
  BY <1>4, <1>8, <1>12, <1>13 DEF WithoutBucket
<1>15. /\ activeMasks' \in Seq(Nat) /\ Down(activeMasks')
       /\ ToSet(activeMasks') = Masks(t)
  <2>1. CASE Keys(t, mask) = {}
    <3>1. activeMasks' = Without(activeMasks, {mask})
      BY <1>8, <1>13, <2>1 DEF WithoutBucket
    <3>2. /\ Without(activeMasks, {mask}) \in Seq(Nat)
          /\ ToSet(Without(activeMasks, {mask})) = ToSet(activeMasks) \ {mask}
      BY <1>4, WithoutIs
    <3>3. Down(Without(activeMasks, {mask}))
      BY <1>4, AmongDown DEF Without
    <3> QED
      BY <1>4, <1>12, <2>1, <3>1, <3>2, <3>3
  <2>2. CASE Keys(t, mask) # {}
    <3>1. activeMasks' = activeMasks
      BY <1>8, <1>13, <2>2 DEF WithoutBucket
    <3> QED
      BY <1>4, <1>12, <2>2, <3>1
  <2> QED
    BY <2>1, <2>2
<1>16. entries' = t
  BY <1>8, <1>11
<1>17. \A e \in ToSet(t) : e.value.mask # 0
  BY <1>4, <1>11
<1> QED
  BY <1>11, <1>14, <1>15, <1>16, <1>17 DEF IndexInv, Down, Masks, Index, Table, Keys

LEMMA RemoveInv ==
  ASSUME IndexInv, NEW tag \in Tags, RemoveIf(tag)
  PROVE  IndexInv'
<1> DEFINE Left(bucket, gone) == [k \in DOMAIN bucket |-> Without(bucket[k], gone)]
           Kept(bucket, gone) ==
             Drop(Left(bucket, gone), {k \in DOMAIN bucket : Left(bucket, gone)[k] = <<>>})
<1>1. PICK gone : gone = [value : AddressObject, tag : {tag}]
  OBVIOUS
<1>2. PICK emptied : emptied = {m \in DOMAIN masks : DOMAIN Kept(masks[m], gone) = {}}
  OBVIOUS
<1>3. /\ masks' = Drop([m \in DOMAIN masks |-> Kept(masks[m], gone)], emptied)
      /\ activeMasks' = Without(activeMasks, emptied)
      /\ entries' = Without(entries, gone)
  BY <1>1, <1>2 DEF RemoveIf
<1>4. PICK s \in Seq(Stored) : s = entries
  BY DEF IndexInv
<1>5. /\ masks = Index(s) /\ ToSet(activeMasks) = Masks(s)
      /\ activeMasks \in Seq(Nat) /\ Down(activeMasks)
      /\ \A e \in ToSet(s) : e.value.mask # 0
  BY <1>4 DEF IndexInv
<1>6. PICK t \in Seq(Stored) : t = Without(s, gone) /\ ToSet(t) = ToSet(s) \ gone
  BY WithoutIs
<1>7. ASSUME NEW m \in Masks(s) PROVE Kept(masks[m], gone) = Table(t, m)
  <2>1. PICK bucket : bucket = masks[m] /\ bucket = Table(s, m)
    BY <1>5 DEF Index
  <2>2. DOMAIN bucket = Keys(s, m)
    BY <2>1 DEF Table
  <2>3. PICK left : left = Left(bucket, gone)
    OBVIOUS
  <2>4. DOMAIN left = Keys(s, m)
    BY <2>2, <2>3
  <2>5. ASSUME NEW k \in Keys(s, m) PROVE left[k] = Among(t, In(m, k))
    <3>1. bucket[k] = Among(s, In(m, k))
      BY <2>1 DEF Table
    <3>2. left[k] = Without(bucket[k], gone)
      BY <2>2, <2>3
    <3>3. Without(Among(s, In(m, k)), gone) = Among(Without(s, gone), In(m, k))
      BY WithoutAmong
    <3> QED
      BY <1>6, <3>1, <3>2, <3>3
  <2>6. \A k : k \in Keys(t, m) <=> Among(t, In(m, k)) # <<>>
    BY <1>6, KeysAre, AmongEmpty
  <2>7. Keys(t, m) \subseteq Keys(s, m)
    BY <1>6 DEF Keys
  <2>8. Keys(s, m) \ {k \in Keys(s, m) : left[k] = <<>>} = Keys(t, m)
    BY <2>5, <2>6, <2>7
  <2>9. Kept(bucket, gone) = Drop(left, {k \in Keys(s, m) : left[k] = <<>>})
    BY <2>2, <2>3
  <2>10. Drop(left, {k \in Keys(s, m) : left[k] = <<>>}) = [k \in Keys(t, m) |-> left[k]]
    BY <2>4, <2>8 DEF Drop
  <2>11. [k \in Keys(t, m) |-> left[k]] = Table(t, m)
    BY <2>5, <2>7 DEF Table
  <2> QED
    BY <2>1, <2>9, <2>10, <2>11
<1> HIDE DEF Kept, Left
<1>8. DOMAIN masks = Masks(s)
  BY <1>5 DEF Index
<1>9. Masks(t) = Masks(s) \ emptied
  <2>1. \A m \in Masks(s) : m \in emptied <=> Keys(t, m) = {}
    BY <1>2, <1>7, <1>8 DEF Table
  <2>2. Masks(t) \subseteq Masks(s)
    BY <1>6 DEF Masks
  <2>3. \A m : m \in Masks(t) <=> Keys(t, m) # {}
    BY <1>6, KeysAre
  <2> QED
    BY <2>1, <2>2, <2>3
<1>10. masks' = Index(t)
  BY <1>3, <1>7, <1>8, <1>9 DEF Index, Drop
<1>11. /\ activeMasks' \in Seq(Nat) /\ Down(activeMasks')
       /\ ToSet(activeMasks') = Masks(t)
  <2>1. /\ Without(activeMasks, emptied) \in Seq(Nat)
        /\ ToSet(Without(activeMasks, emptied)) = ToSet(activeMasks) \ emptied
    BY <1>5, WithoutIs
  <2>2. Down(Without(activeMasks, emptied))
    BY <1>5, AmongDown DEF Without
  <2> QED
    BY <1>3, <1>5, <1>9, <2>1, <2>2
<1>12. entries' = t
  BY <1>3, <1>4, <1>6
<1>13. \A e \in ToSet(t) : e.value.mask # 0
  BY <1>5, <1>6
<1> QED
  BY <1>6, <1>10, <1>11, <1>12, <1>13 DEF IndexInv, Down, Masks, Index, Table, Keys

LEMMA Indexed == Spec => []IndexInv
<1>1. ASSUME Init PROVE IndexInv
  <2>1. /\ entries = <<>> /\ activeMasks = <<>> /\ masks = NoTable
        /\ ToSet(<<>>) = {} /\ <<>> \in Seq(Stored) /\ <<>> \in Seq(Nat)
    BY <1>1, ToSetSteps DEF Init
  <2>2. Masks(entries) = {} /\ Down(activeMasks)
    BY <2>1 DEF Masks, Down
  <2>3. Index(entries) = NoTable
    BY <2>2 DEF Index, NoTable
  <2> QED
    BY <2>1, <2>2, <2>3 DEF IndexInv
<1>2. ASSUME IndexInv, [Next]_vars PROVE IndexInv'
  <2>1. CASE UNCHANGED vars
    BY <1>2, <2>1 DEF vars, IndexInv, Down, Masks, Index, Table, Keys
  <2>2. CASE Next
    <3>1. CASE \E d \in Stored : Insert(d)
      BY <1>2, <3>1, InsertInv
    <3>2. CASE \E d \in Stored : Delete(d)
      BY <1>2, <3>2, DeleteInv
    <3>3. CASE \E tag \in Tags : RemoveIf(tag)
      BY <1>2, <3>3, RemoveInv
    <3> QED
      BY <2>2, <3>1, <3>2, <3>3 DEF Next
  <2> QED
    BY <1>2, <2>1, <2>2
<1> QED
  BY <1>1, <1>2, PTL DEF Spec

-----------------------------------------------------------------------------
(* Theorems                                                                *)

\* Whatever was inserted and removed (insert, delete, removeIf), the lengths of
\* masks a lookup walks are those of the tables, each once and the longest
\* first, and no table and no bucket is empty.
THEOREM TightAlways == Spec => []IndexIsTight
<1>1. ASSUME IndexInv PROVE IndexIsTight
  <2>1. PICK s \in Seq(Stored) : s = entries
    BY <1>1 DEF IndexInv
  <2>2. masks = Index(s) /\ ToSet(activeMasks) = Masks(s) /\ Down(activeMasks)
    BY <1>1, <2>1 DEF IndexInv
  <2>3. DOMAIN masks = Masks(s)
    BY <2>2 DEF Index
  <2>4. ASSUME NEW m \in DOMAIN masks
        PROVE  DOMAIN masks[m] # {} /\ \A k \in DOMAIN masks[m] : masks[m][k] # <<>>
    <3>1. masks[m] = Table(s, m) /\ DOMAIN masks[m] = Keys(s, m)
      BY <2>2, <2>3 DEF Index, Table
    <3>2. Keys(s, m) # {}
      BY <2>3, KeysAre
    <3>3. ASSUME NEW k \in Keys(s, m) PROVE masks[m][k] # <<>>
      <4>1. masks[m][k] = Among(s, In(m, k))
        BY <3>1 DEF Table
      <4> QED
        BY <4>1, KeysAre, AmongEmpty
    <3> QED
      BY <3>1, <3>2, <3>3
  <2> QED
    BY <2>2, <2>3, <2>4 DEF IndexIsTight, Down
<1> QED
  BY <1>1, Indexed, PTL

\* The bucket a lookup reads at one length of masks holds the decisions whose
\* networks, of that length, are around the address.
LEMMA HitsAre ==
  ASSUME NEW s \in Seq(Stored), \A d \in ToSet(s) : d.value.mask # 0,
         NEW ip \in AddressObject, NEW m
  PROVE  Among(s, In(m, KeyFor(ip, m)))
           = Among(s, {d \in ToSet(s) : d.value.mask = m /\ InSubnet(ip, d.value)})
<1>1. PICK k : k = KeyFor(ip, m)
  OBVIOUS
<1>2. PICK U : U = {d \in ToSet(s) : d.value.mask = m /\ InSubnet(ip, d.value)}
  OBVIOUS
<1>3. ASSUME NEW d \in ToSet(s) PROVE d \in In(m, k) <=> d \in U
  <2>1. d \in Stored
    BY Elements
  <2>2. d.value \in AddressObject /\ d.value.mask # 0
    BY <2>1, StoredIn
  <2>3. d \in In(m, k) <=> d.value.mask = m /\ k = KeyFor(d.value, m)
    BY <2>1, StoredIn
  <2>4. KeyFor(ip, d.value.mask) = KeyFor(d.value, d.value.mask) <=> InSubnet(ip, d.value)
    BY <2>2, KeysTell
  <2> QED
    BY <1>1, <1>2, <2>3, <2>4
<1>4. ToSet(s) \cap In(m, k) = ToSet(s) \cap U
  BY <1>3
<1> QED
  BY <1>1, <1>2, <1>4, AmongElements

LEMMA LookupRight ==
  ASSUME IndexInv, NEW ip \in AddressObject
  PROVE  LET around == Among(entries, {d \in ToSet(entries) : InSubnet(ip, d.value)})
             smallest == Among(around, {d \in ToSet(around) :
               \A e \in ToSet(around) : e.value.mask <= d.value.mask})
         IN  Lookup(ip) = IF smallest = <<>> THEN <<>> ELSE <<smallest[1]>>
<1> DEFINE Hits(mask) == IF KeyFor(ip, mask) \in DOMAIN masks[mask]
                         THEN masks[mask][KeyFor(ip, mask)] ELSE <<>>
           hit == {i \in DOMAIN activeMasks : Hits(activeMasks[i]) # <<>>}
           first == CHOOSE i \in hit : \A j \in hit : i <= j
<1>1. PICK s \in Seq(Stored) : s = entries
  BY DEF IndexInv
<1>2. /\ masks = Index(s) /\ ToSet(activeMasks) = Masks(s)
      /\ activeMasks \in Seq(Nat) /\ Down(activeMasks)
      /\ \A e \in ToSet(s) : e.value.mask # 0
  BY <1>1 DEF IndexInv
<1>3. PICK A : A = {d \in ToSet(s) : InSubnet(ip, d.value)}
  OBVIOUS
<1>4. PICK a \in Seq(Stored) : a = Among(s, A) /\ ToSet(a) = A
  <2>1. Among(s, A) \in Seq(Stored) /\ ToSet(Among(s, A)) = ToSet(s) \cap A
    BY AmongTypes
  <2> QED
    BY <1>3, <2>1
<1>5. PICK B : B = {d \in A : \A e \in A : e.value.mask <= d.value.mask}
  OBVIOUS
<1>6. PICK b : b = Among(a, B)
  OBVIOUS
<1>9. Lookup(ip) = IF hit = {} THEN <<>> ELSE <<Hits(activeMasks[first])[1]>>
  BY Zenon DEF Lookup
<1>10. ASSUME NEW m \in Masks(s)
       PROVE  Hits(m) = Among(s, {d \in A : d.value.mask = m})
  <2>1. masks[m] = Table(s, m)
    BY <1>2 DEF Index
  <2>2. Hits(m) = Among(s, In(m, KeyFor(ip, m)))
    BY <2>1, Bucket
  <2>3. {d \in ToSet(s) : d.value.mask = m /\ InSubnet(ip, d.value)}
          = {d \in A : d.value.mask = m}
    BY <1>3
  <2> HIDE DEF Hits
  <2> QED
    BY <1>2, <2>2, <2>3, HitsAre
<1>11. ASSUME NEW m \in Masks(s)
       PROVE  Hits(m) # <<>> <=> \E d \in A : d.value.mask = m
  <2>1. PICK V : V = {d \in A : d.value.mask = m}
    OBVIOUS
  <2>2. ToSet(s) \cap V = V
    BY <1>3, <2>1
  <2>3. Hits(m) = Among(s, V)
    BY <1>10, <2>1
  <2> QED
    BY <2>1, <2>2, <2>3, AmongEmpty
<1> HIDE DEF Hits
<1>12. \A i \in DOMAIN activeMasks : activeMasks[i] \in Masks(s)
  BY <1>2 DEF ToSet
<1>13. \A i : i \in hit <=>
          i \in DOMAIN activeMasks /\ \E d \in A : d.value.mask = activeMasks[i]
  BY <1>11, <1>12
<1> HIDE DEF hit
<1>14. \A d \in A : \E i \in hit : activeMasks[i] = d.value.mask
  <2> SUFFICES ASSUME NEW d \in A PROVE \E i \in hit : activeMasks[i] = d.value.mask
    OBVIOUS
  <2>1. d.value.mask \in Masks(s)
    BY <1>3 DEF Masks
  <2>2. PICK i \in DOMAIN activeMasks : activeMasks[i] = d.value.mask
    BY <1>2, <2>1 DEF ToSet
  <2>3. i \in hit
    BY <1>13, <2>2
  <2> QED
    BY <2>2, <2>3
<1>15. Lookup(ip) = IF b = <<>> THEN <<>> ELSE <<b[1]>>
  <2>1. CASE A = {}
    <3>1. hit = {}
      BY <1>13, <2>1
    <3>2. b = <<>>
      <4>1. ToSet(a) \cap B = {}
        BY <1>4, <2>1
      <4> QED
        BY <1>6, <4>1, AmongEmpty
    <3> QED
      BY <1>9, <3>1, <3>2
  <2>2. CASE A # {}
    <3>1. hit # {}
      BY <1>14, <2>2
    <3>2. hit \in SUBSET Nat
      <4>1. DOMAIN activeMasks \subseteq Nat
        BY <1>2
      <4> QED
        BY <1>13, <4>1
    <3>3. PICK n \in hit : \A j \in hit : n <= j
      BY <3>1, <3>2, LeastNumber
    <3>4. first \in hit /\ \A j \in hit : first <= j
      BY <3>3
    <3> HIDE DEF first
    <3>5. PICK M : M = activeMasks[first]
      OBVIOUS
    <3>6. M \in Masks(s) /\ first \in DOMAIN activeMasks /\ first \in Nat
      BY <1>12, <1>13, <3>2, <3>4, <3>5
    <3>7. \E d \in A : d.value.mask = M
      BY <1>13, <3>4, <3>5
    <3>8. ASSUME NEW e \in A PROVE e.value.mask <= M
      <4>1. PICK i \in hit : activeMasks[i] = e.value.mask
        BY <1>14
      <4>2. i \in DOMAIN activeMasks /\ first <= i /\ i \in Nat
        BY <1>13, <3>2, <3>4, <4>1
      <4>3. activeMasks[i] \in Nat /\ M \in Nat
        BY <1>2, <3>5, <3>6, <4>2
      <4>4. CASE i = first
        BY <3>5, <4>1, <4>3, <4>4
      <4>5. CASE first < i
        <5>1. activeMasks[first] > activeMasks[i]
          BY <1>2, <3>6, <4>2, <4>5 DEF Down
        <5> QED
          BY <3>5, <4>1, <4>3, <5>1
      <4> QED
        BY <3>6, <4>2, <4>4, <4>5
    <3>9. \A d \in A : d.value.mask \in Nat
      <4>1. A \subseteq Stored
        BY <1>3, Elements
      <4> QED
        BY <4>1, StoredIn
    <3>10. B = {d \in A : d.value.mask = M}
      BY <1>5, <3>7, <3>8, <3>9
    <3>11. b = Among(s, B)
      <4>1. Among(Among(s, A), B) = Among(s, A \cap B)
        BY AmongTwice
      <4>2. A \cap B = B
        BY <1>5
      <4> QED
        BY <1>4, <1>6, <4>1, <4>2
    <3>12. Hits(M) = b
      BY <1>10, <3>6, <3>10, <3>11
    <3>13. Hits(M) # <<>>
      BY <1>11, <3>6, <3>7
    <3> QED
      BY <1>9, <3>1, <3>5, <3>12, <3>13
  <2> QED
    BY <2>1, <2>2
<1> QED
  BY <1>1, <1>3, <1>4, <1>5, <1>6, <1>15, Zenon

\* The lookup by shifted numbers, table by table, is the scan over all decisions
\* that compares bits: for widths of any size, and numbers, masks and decisions
\* of both families, in any order of insertions and removals.
THEOREM LookupAlwaysRight == Spec => []LookupIsLongestPrefix
<1>1. ASSUME IndexInv PROVE LookupIsLongestPrefix
  BY <1>1, LookupRight DEF LookupIsLongestPrefix
<1> QED
  BY <1>1, Indexed, PTL
=============================================================================
