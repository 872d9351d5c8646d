-------------------------- MODULE SplitOrderCodes --------------------------
(***************************************************************************)
(* Proofs about SplitOrder's arithmetic, for words of every width: that a  *)
(* word has exactly one reversal, and that the codes of split-ordering are *)
(* ordered as lock_free_hashtable.c relies on.                             *)
(*                                                                         *)
(* The provers know neither induction nor exponents.  Both are derived     *)
(* here from facts about finite sets: a set closed under successors has no *)
(* gap, as it could otherwise be mapped one-to-one into itself less an     *)
(* element; and 2^n is the number of subsets of 1 .. n.                    *)
(***************************************************************************)
EXTENDS SplitOrder, FiniteSetTheorems, TLAPS

-----------------------------------------------------------------------------
(* Induction and powers of two.                                            *)

(* Induction over the natural numbers, for a set.                          *)
LEMMA NaturalInduction ==
  ASSUME NEW S, 0 \in S, \A n \in Nat : n \in S => n + 1 \in S
  PROVE  Nat \subseteq S
<1> SUFFICES ASSUME NEW b \in Nat, b \notin S PROVE FALSE
  OBVIOUS
<1> DEFINE U == {m \in 0 .. b : \A j \in 0 .. m : j \in S}
<1>1. U \subseteq 0 .. b /\ 0 \in U
  OBVIOUS
<1>2. \A m \in U : m + 1 \in U \ {0}
  <2> TAKE m \in U
  <2>1. m \in S /\ m # b /\ m \in Nat
    OBVIOUS
  <2>2. m + 1 \in 0 .. b /\ m + 1 \in S
    BY <2>1
  <2> QED BY <2>2
<1> HIDE DEF U
<1>3. IsFiniteSet(U)
  <2>1. IsFiniteSet(0 .. b)
    BY FS_Interval
  <2> QED BY <1>1, <2>1, FS_Subset
<1>4. [m \in U |-> m + 1] \in Injection(U, U \ {0})
  <2>1. \A m, n \in U : m + 1 = n + 1 => m = n
    BY <1>1
  <2> QED BY <1>2, <2>1 DEF Injection, IsInjective
<1>5. IsFiniteSet(U \ {0}) /\ Cardinality(U \ {0}) = Cardinality(U) - 1
  BY <1>1, <1>3, FS_RemoveElement
<1>6. Cardinality(U) <= Cardinality(U \ {0})
  BY <1>4, <1>5, FS_Injection
<1>7. Cardinality(U) \in Nat
  BY <1>3, FS_CardinalityType
<1> QED BY <1>5, <1>6, <1>7

(* A nonempty set of natural numbers has a least element.                  *)
LEMMA LeastElement ==
  ASSUME NEW T, T \subseteq Nat, T # {}
  PROVE  \E m \in T : \A n \in T : m <= n
<1> SUFFICES ASSUME \A m \in T : \E n \in T : n < m PROVE FALSE
  OBVIOUS
<1> DEFINE Below == {b \in Nat : \A n \in T : b <= n}
<1>1. 0 \in Below
  OBVIOUS
<1>2. ASSUME NEW b \in Nat, b \in Below PROVE b + 1 \in Below
  <2>1. b \notin T
    BY <1>2
  <2> QED BY <1>2, <2>1
<1> HIDE DEF Below
<1>3. Nat \subseteq Below
  BY <1>1, <1>2, NaturalInduction
<1>4. PICK m \in T : m \in Nat
  OBVIOUS
<1>5. m + 1 <= m
  BY <1>3, <1>4 DEF Below
<1> QED BY <1>4, <1>5

(* There is one subset of the empty set.                                   *)
LEMMA PowerZero == 2 ^ 0 = 1
<1>1. IsFiniteSet({}) /\ Cardinality({}) = 0
  BY FS_EmptySet
<1>2. Cardinality(SUBSET {}) = 2 ^ Cardinality({})
  BY <1>1, FS_SUBSET
<1>3. SUBSET {} = {{}}
  OBVIOUS
<1>4. Cardinality({{}}) = 1
  BY FS_Singleton
<1> QED BY <1>1, <1>2, <1>3, <1>4

(* Half of the subsets of 1 .. n + 1 contain n + 1.                        *)
LEMMA PowerDoubles ==
  ASSUME NEW n \in Nat
  PROVE  2 ^ (n + 1) = 2 * 2 ^ n /\ 2 ^ n \in Nat
<1> DEFINE A == SUBSET (1 .. n)
           B == {t \cup {n + 1} : t \in A}
<1>1. /\ IsFiniteSet(1 .. n) /\ Cardinality(1 .. n) = n
      /\ IsFiniteSet(1 .. (n + 1)) /\ Cardinality(1 .. (n + 1)) = n + 1
  BY FS_Interval
<1>2. /\ IsFiniteSet(A) /\ Cardinality(A) = 2 ^ n
      /\ Cardinality(SUBSET (1 .. (n + 1))) = 2 ^ (n + 1)
  BY <1>1, FS_SUBSET
<1>3. SUBSET (1 .. (n + 1)) = A \cup B
  <2>1. ASSUME NEW t \in SUBSET (1 .. (n + 1)), n + 1 \in t PROVE t \in B
    <3>1. t \ {n + 1} \in A /\ t = (t \ {n + 1}) \cup {n + 1}
      BY <2>1
    <3> QED BY <3>1
  <2>2. ASSUME NEW t \in SUBSET (1 .. (n + 1)), n + 1 \notin t PROVE t \in A
    BY <2>2
  <2>3. ASSUME NEW t \in A PROVE t \subseteq 1 .. (n + 1) /\ t \cup {n + 1} \subseteq 1 .. (n + 1)
    <3>1. \A k \in t : k \in 1 .. n
      OBVIOUS
    <3>2. 1 .. n \subseteq 1 .. (n + 1) /\ n + 1 \in 1 .. (n + 1)
      OBVIOUS
    <3> QED BY <3>1, <3>2
  <2>4. A \subseteq SUBSET (1 .. (n + 1))
    BY <2>3
  <2>5. B \subseteq SUBSET (1 .. (n + 1))
    BY <2>3
  <2> QED BY <2>1, <2>2, <2>4, <2>5
<1>4. A \cap B = {}
  OBVIOUS
<1>5. [t \in A |-> t \cup {n + 1}] \in Bijection(A, B)
  <2> DEFINE f == [t \in A |-> t \cup {n + 1}]
  <2>1. \A s, t \in A : s \cup {n + 1} = t \cup {n + 1} => s = t
    <3> TAKE s, t \in A
    <3>1. n + 1 \notin s /\ n + 1 \notin t
      OBVIOUS
    <3> QED BY <3>1
  <2>2. f \in [A -> B]
    OBVIOUS
  <2>3. f \in Injection(A, B)
    BY <2>1, <2>2 DEF Injection, IsInjective
  <2>4. f \in Surjection(A, B)
    BY <2>2 DEF Surjection
  <2> QED BY <2>3, <2>4 DEF Bijection
<1> HIDE DEF A, B
<1>6. IsFiniteSet(B) /\ Cardinality(B) = Cardinality(A)
  BY <1>2, <1>5, FS_Bijection DEF ExistsBijection
<1>7. Cardinality(A \cup B) = Cardinality(A) + Cardinality(B) - Cardinality(A \cap B)
  BY <1>2, <1>6, FS_Union
<1>8. Cardinality(A) \in Nat /\ Cardinality({}) = 0
  BY <1>2, FS_CardinalityType, FS_EmptySet
<1>9. 2 ^ (n + 1) = 2 ^ n + 2 ^ n - 0 /\ 2 ^ n \in Nat
  BY <1>2, <1>3, <1>4, <1>6, <1>7, <1>8
<1> DEFINE p == 2 ^ n  q == 2 ^ (n + 1)
<1>10. q = p + p - 0 /\ p \in Nat
  BY <1>9
<1> HIDE DEF p, q
<1>11. q = 2 * p /\ p \in Nat
  BY <1>10
<1> QED BY <1>11 DEF p, q

(* The powers of two, by which bits are picked, are positive.              *)
LEMMA PowerPositive ==
  ASSUME NEW n \in Nat
  PROVE  2 ^ n \in Nat \ {0}
<1> DEFINE S == {m \in Nat : 2 ^ m \in Nat \ {0}}
<1>1. 0 \in S
  BY PowerZero
<1>2. ASSUME NEW m \in Nat, m \in S PROVE m + 1 \in S
  <2>1. 2 ^ (m + 1) = 2 * 2 ^ m
    BY PowerDoubles
  <2> DEFINE p == 2 ^ m
  <2>2. p \in Nat \ {0} /\ 2 ^ (m + 1) = 2 * p
    BY <1>2, <2>1
  <2> HIDE DEF p
  <2> QED BY <2>2
<1> HIDE DEF S
<1>3. Nat \subseteq S
  BY <1>1, <1>2, NaturalInduction
<1> QED BY <1>3 DEF S

(* The place of a bit within a word is the sum of two shifts.              *)
LEMMA PowerSum ==
  ASSUME NEW m \in Nat, NEW n \in Nat
  PROVE  2 ^ (m + n) = 2 ^ m * 2 ^ n
<1> DEFINE S == {k \in Nat : 2 ^ (m + k) = 2 ^ m * 2 ^ k}
<1>1. 0 \in S
  <2>1. 2 ^ m \in Nat /\ m + 0 = m
    BY PowerPositive
  <2> QED BY <2>1, PowerZero
<1>2. ASSUME NEW k \in Nat, k \in S PROVE k + 1 \in S
  <2> DEFINE a == 2 ^ m  b == 2 ^ k
  <2>1. a \in Nat /\ b \in Nat /\ 2 ^ (k + 1) = 2 * b
    BY PowerPositive, PowerDoubles
  <2>2. 2 ^ (m + (k + 1)) = 2 * (a * b)
    <3>1. m + k \in Nat /\ m + (k + 1) = (m + k) + 1
      OBVIOUS
    <3> QED BY <1>2, <3>1, PowerDoubles
  <2>3. 2 * (a * b) = a * (2 * b)
    <3> HIDE DEF a, b
    <3> QED BY <2>1
  <2> QED BY <2>1, <2>2, <2>3
<1> HIDE DEF S
<1>3. Nat \subseteq S
  BY <1>1, <1>2, NaturalInduction
<1> QED BY <1>3 DEF S

(* A higher bit is worth at least as much.                                 *)
LEMMA PowerMonotone ==
  ASSUME NEW m \in Nat, NEW n \in Nat, m <= n
  PROVE  2 ^ m <= 2 ^ n
<1> DEFINE a == 2 ^ m  b == 2 ^ (n - m)
<1>1. n - m \in Nat /\ m + (n - m) = n
  OBVIOUS
<1>2. a \in Nat \ {0} /\ b \in Nat \ {0} /\ 2 ^ n = a * b
  BY <1>1, PowerSum, PowerPositive
<1> HIDE DEF a, b
<1>3. a <= a * b
  BY <1>2
<1> QED BY <1>2, <1>3 DEF a

-----------------------------------------------------------------------------
(* Division and the bits of a number.                                      *)

(* A number below the divisor is the rest.                                 *)
LEMMA QuotientUnique ==
  ASSUME NEW d \in Nat \ {0}, NEW q \in Nat, NEW r \in Nat, r < d
  PROVE  (d * q + r) \div d = q /\ (d * q + r) % d = r
OBVIOUS

(* A number is made of its quotient and its rest.                          *)
LEMMA QuotientAndRest ==
  ASSUME NEW w \in Nat, NEW d \in Nat \ {0}
  PROVE  /\ w \div d \in Nat /\ w % d \in 0 .. (d - 1)
         /\ w = d * (w \div d) + (w % d)
OBVIOUS

(* Shifting once more, at either end.                                      *)
LEMMA QuotientTwice ==
  ASSUME NEW w \in Nat, NEW d \in Nat \ {0}
  PROVE  /\ w \div (2 * d) = (w \div d) \div 2
         /\ w \div (2 * d) = (w \div 2) \div d
<1> DEFINE q == w \div d  r == w % d
<1>1. q \in Nat /\ r \in 0 .. (d - 1) /\ w = d * q + r
  BY QuotientAndRest
<1>2. w \div (2 * d) = q \div 2
  <2> HIDE DEF q, r
  <2> DEFINE h == q \div 2  c == q % 2
  <2>1. h \in Nat /\ c \in {0, 1} /\ q = 2 * h + c
    BY <1>1
  <2> HIDE DEF h, c
  <2>2. w = (2 * d) * h + (d * c + r)
    BY <1>1, <2>1
  <2>3. d * c + r \in Nat /\ d * c + r < 2 * d
    BY <1>1, <2>1
  <2>4. w \div (2 * d) = h
    BY <2>1, <2>2, <2>3, QuotientUnique
  <2> QED BY <2>4 DEF h
<1>3. w \div (2 * d) = (w \div 2) \div d
  OBVIOUS
<1> QED BY <1>2, <1>3

(* What is left of a number without its lowest bits, one bit at a time,    *)
(* from the highest bit down and from the lowest bit up.                   *)
LEMMA BitSplits ==
  ASSUME NEW w \in Nat, NEW i \in Nat
  PROVE  /\ Bit(w, i) \in {0, 1}
         /\ w \div 2 ^ i \in Nat
         /\ w \div 2 ^ i = 2 * (w \div 2 ^ (i + 1)) + Bit(w, i)
         /\ Bit(w, i + 1) = Bit(w \div 2, i)
         /\ Bit(w, 0) = w % 2
<1> DEFINE p == 2 ^ i  q == w \div p
<1>1. p \in Nat \ {0} /\ 2 ^ (i + 1) = 2 * p
  BY PowerPositive, PowerDoubles
<1>2. Bit(w, i) = q % 2 /\ Bit(w \div 2, i) = ((w \div 2) \div p) % 2
      /\ Bit(w, i + 1) = (w \div 2 ^ (i + 1)) % 2
  BY DEF Bit
<1>3. q \in Nat
  <2> HIDE DEF p
  <2> QED BY <1>1, QuotientAndRest
<1>4. w \div (2 * p) = q \div 2 /\ w \div (2 * p) = (w \div 2) \div p
  <2> HIDE DEF p
  <2> QED BY <1>1, QuotientTwice
<1>5. Bit(w, 0) = w % 2
  BY PowerZero DEF Bit
<1>6. q % 2 \in {0, 1} /\ q = 2 * (q \div 2) + (q % 2)
  <2> HIDE DEF q
  <2> QED BY <1>3
<1> QED BY <1>1, <1>2, <1>3, <1>4, <1>5, <1>6

(* Numbers that agree from bit p up agree without their lowest p bits.     *)
LEMMA SameHighBits ==
  ASSUME NEW x \in Nat, NEW y \in Nat, NEW n \in Nat, x < 2 ^ n, y < 2 ^ n,
         NEW p \in 0 .. n, \A i \in p .. (n - 1) : Bit(x, i) = Bit(y, i)
  PROVE  x \div 2 ^ p = y \div 2 ^ p
<1> DEFINE S == {j \in Nat : j <= n - p => x \div 2 ^ (n - j) = y \div 2 ^ (n - j)}
<1>1. 0 \in S
  <2> DEFINE d == 2 ^ n
  <2>1. d \in Nat \ {0} /\ x < d /\ y < d /\ n - 0 = n
    BY PowerPositive
  <2>2. x \div d = 0 /\ y \div d = 0
    <3> HIDE DEF d
    <3> QED BY <2>1
  <2> QED BY <2>1, <2>2
<1>2. ASSUME NEW j \in Nat, j \in S PROVE j + 1 \in S
  <2> SUFFICES ASSUME j + 1 <= n - p
               PROVE  x \div 2 ^ (n - (j + 1)) = y \div 2 ^ (n - (j + 1))
    OBVIOUS
  <2> DEFINE i == n - (j + 1)
  <2>1. i \in p .. (n - 1) /\ i \in Nat /\ i + 1 = n - j /\ j <= n - p
    OBVIOUS
  <2>2. x \div 2 ^ (i + 1) = y \div 2 ^ (i + 1) /\ Bit(x, i) = Bit(y, i)
    BY <1>2, <2>1
  <2> HIDE DEF i
  <2>3. /\ x \div 2 ^ i = 2 * (x \div 2 ^ (i + 1)) + Bit(x, i)
        /\ y \div 2 ^ i = 2 * (y \div 2 ^ (i + 1)) + Bit(y, i)
    BY <2>1, BitSplits
  <2>4. x \div 2 ^ i = y \div 2 ^ i
    BY <2>2, <2>3
  <2> QED BY <2>4 DEF i
<1> HIDE DEF S
<1>3. n - p \in S /\ n - (n - p) = p
  BY <1>1, <1>2, NaturalInduction
<1> QED BY <1>3 DEF S

(* A number is its bits.                                                   *)
LEMMA BitsDetermine ==
  ASSUME NEW x \in Nat, NEW y \in Nat, NEW n \in Nat, x < 2 ^ n, y < 2 ^ n,
         \A i \in 0 .. (n - 1) : Bit(x, i) = Bit(y, i)
  PROVE  x = y
<1>1. 0 \in 0 .. n
  OBVIOUS
<1>2. x \div 2 ^ 0 = y \div 2 ^ 0
  BY <1>1, SameHighBits
<1> QED BY <1>2, PowerZero

(* The highest bit in which two numbers differ decides which is larger.    *)
LEMMA HighestDifference ==
  ASSUME NEW x \in Nat, NEW y \in Nat, NEW n \in Nat, x < 2 ^ n, y < 2 ^ n,
         NEW p \in 0 .. (n - 1), \A i \in (p + 1) .. (n - 1) : Bit(x, i) = Bit(y, i),
         Bit(x, p) = 0, Bit(y, p) = 1
  PROVE  x < y
<1> DEFINE d == 2 ^ p  a == x \div d  b == y \div d
<1>1. p \in Nat /\ p + 1 \in 0 .. n
  OBVIOUS
<1>2. x \div 2 ^ (p + 1) = y \div 2 ^ (p + 1)
  BY <1>1, SameHighBits
<1>3. /\ a = 2 * (x \div 2 ^ (p + 1)) + 0 /\ b = 2 * (y \div 2 ^ (p + 1)) + 1
      /\ x \div 2 ^ (p + 1) \in Nat
  BY <1>1, BitSplits
<1>4. a \in Nat /\ b \in Nat /\ a < b
  BY <1>2, <1>3
<1>5. d \in Nat \ {0}
  BY <1>1, PowerPositive
<1>6. x = d * a + (x % d) /\ y = d * b + (y % d) /\ x % d \in 0 .. (d - 1) /\ y % d \in 0 .. (d - 1)
  <2> HIDE DEF d
  <2> QED BY <1>5, QuotientAndRest
<1> HIDE DEF a, b, d
<1>7. d * a + d <= d * b
  BY <1>4, <1>5
<1>8. d * a \in Nat /\ d * b \in Nat
  BY <1>4, <1>5
<1> QED BY <1>5, <1>6, <1>7, <1>8

(* There is a number for every choice of n bits.                           *)
LEMMA BitsChosen ==
  ASSUME NEW n \in Nat, NEW f \in [Nat -> {0, 1}]
  PROVE  \E x \in Nat : x < 2 ^ n /\ \A i \in 0 .. (n - 1) : Bit(x, i) = f[i]
<1> DEFINE Has(x, k, g) == x < 2 ^ k /\ \A i \in 0 .. (k - 1) : Bit(x, i) = g[i]
           S == {k \in Nat : \A g \in [Nat -> {0, 1}] : \E x \in Nat : Has(x, k, g)}
<1>1. 0 \in S
  <2>1. \A g \in [Nat -> {0, 1}] : Has(0, 0, g)
    BY PowerZero
  <2> QED BY <2>1
<1>2. ASSUME NEW k \in Nat, k \in S PROVE k + 1 \in S
  <2> SUFFICES ASSUME NEW g \in [Nat -> {0, 1}] PROVE \E x \in Nat : Has(x, k + 1, g)
    OBVIOUS
  <2> DEFINE h == [i \in Nat |-> g[i + 1]]
  <2>1. h \in [Nat -> {0, 1}]
    OBVIOUS
  <2>2. PICK x \in Nat : Has(x, k, h)
    BY <1>2, <2>1
  <2> DEFINE y == 2 * x + g[0]  d == 2 ^ k
  <2>3. y \in Nat /\ y \div 2 = x /\ y % 2 = g[0]
    OBVIOUS
  <2>4. y < 2 ^ (k + 1)
    <3>1. d \in Nat /\ 2 ^ (k + 1) = 2 * d /\ x < d /\ g[0] \in {0, 1}
      BY <2>2, PowerDoubles
    <3> QED BY <3>1
  <2>5. ASSUME NEW i \in 0 .. k PROVE Bit(y, i) = g[i]
    <3> HIDE DEF y
    <3>1. CASE i = 0
      BY <2>3, <3>1, BitSplits
    <3>2. CASE i # 0
      <4>1. i - 1 \in 0 .. (k - 1) /\ i - 1 \in Nat /\ (i - 1) + 1 = i
        BY <3>2
      <4>2. Bit(y, (i - 1) + 1) = Bit(x, i - 1)
        BY <2>3, <4>1, BitSplits
      <4> QED BY <2>2, <4>1, <4>2
    <3> QED BY <3>1, <3>2
  <2>6. Has(y, k + 1, g)
    <3>1. (k + 1) - 1 = k
      OBVIOUS
    <3> HIDE DEF y
    <3> QED BY <2>4, <2>5, <3>1
  <2> QED BY <2>3, <2>6
<1> HIDE DEF S
<1>3. Nat \subseteq S
  BY <1>1, <1>2, NaturalInduction
<1>4. n \in S
  BY <1>3
<1> QED BY <1>4 DEF S

(* What is added above a bit does not change it.                           *)
LEMMA BitsBelow ==
  ASSUME NEW x \in Nat, NEW q \in Nat, NEW j \in Nat, NEW i \in 0 .. (j - 1)
  PROVE  Bit(2 ^ j * q + x, i) = Bit(x, i)
<1> DEFINE d == 2 ^ i  e == 2 ^ (j - i - 1)  a == x \div d  r == x % d
<1>1. i \in Nat /\ j - i - 1 \in Nat /\ j = (i + 1) + (j - i - 1)
  OBVIOUS
<1>2. d \in Nat \ {0} /\ e \in Nat /\ 2 ^ j = 2 * d * e
  <2>1. 2 ^ j = 2 ^ (i + 1) * e /\ 2 ^ (i + 1) = 2 * d
    BY <1>1, PowerSum, PowerDoubles
  <2> QED BY <1>1, <2>1, PowerPositive
<1>3. a \in Nat /\ r \in 0 .. (d - 1) /\ x = d * a + r
  <2> HIDE DEF d
  <2> QED BY <1>2, QuotientAndRest
<1>4. Bit(x, i) = a % 2 /\ Bit(2 ^ j * q + x, i) = ((2 * d * e * q + x) \div d) % 2
  BY <1>2 DEF Bit
<1> HIDE DEF a, r, d, e
<1>5. 2 * d * e * q + x = d * (2 * (e * q) + a) + r
  BY <1>2, <1>3
<1> DEFINE m == e * q
<1>6. m \in Nat
  BY <1>2
<1> HIDE DEF m
<1>7. (d * (2 * m + a) + r) \div d = 2 * m + a
  BY <1>2, <1>3, <1>6, QuotientUnique
<1>8. (2 * m + a) % 2 = a % 2
  BY <1>3, <1>6
<1> QED BY <1>4, <1>5, <1>7, <1>8 DEF m

(* A number below 2^j has no bit from j up.                                *)
LEMMA BitsAbove ==
  ASSUME NEW x \in Nat, NEW j \in Nat, x < 2 ^ j, NEW i \in Nat, j <= i
  PROVE  Bit(x, i) = 0
<1>1. 2 ^ i \in Nat \ {0} /\ 2 ^ j \in Nat /\ 2 ^ j <= 2 ^ i
  BY PowerPositive, PowerMonotone
<1> DEFINE p == 2 ^ i
<1>2. p \in Nat \ {0} /\ x < p
  BY <1>1
<1> HIDE DEF p
<1>3. (x \div p) % 2 = 0
  BY <1>2
<1> QED BY <1>3 DEF Bit, p

(* The bits of a number modulo 2^j, such as a bucket number.               *)
LEMMA BitsModulo ==
  ASSUME NEW h \in Nat, NEW j \in Nat
  PROVE  /\ h % 2 ^ j \in Nat /\ h % 2 ^ j < 2 ^ j
         /\ \A i \in 0 .. (j - 1) : Bit(h % 2 ^ j, i) = Bit(h, i)
         /\ \A i \in Nat : j <= i => Bit(h % 2 ^ j, i) = 0
<1> DEFINE d == 2 ^ j
<1>1. d \in Nat \ {0}
  BY PowerPositive
<1>2. h \div d \in Nat /\ h % d \in Nat /\ h % d < d /\ h = d * (h \div d) + (h % d)
  <2> HIDE DEF d
  <2> QED BY <1>1, QuotientAndRest
<1>3. \A i \in 0 .. (j - 1) : Bit(h % d, i) = Bit(h, i)
  BY <1>2, BitsBelow
<1>4. \A i \in Nat : j <= i => Bit(h % d, i) = 0
  BY <1>2, BitsAbove
<1> QED BY <1>2, <1>3, <1>4

-----------------------------------------------------------------------------
(* Reversal and codes.                                                     *)

(* Words are the numbers below 2^Width, and Half is half of that.          *)
LEMMA WordIsPower ==
  /\ Half \in Nat \ {0} /\ 2 ^ Width = 2 * Half
  /\ Word = {w \in Nat : w < 2 ^ Width}
<1>1. Width - 1 \in Nat /\ (Width - 1) + 1 = Width
  BY WidthAssumption
<1>2. Half \in Nat \ {0} /\ 2 ^ Width = 2 * Half
  BY <1>1, PowerPositive, PowerDoubles DEF Half
<1> QED BY <1>2 DEF Word

(* hashtable_rvalue: each word has exactly one reversal.                   *)
LEMMA ReversalExists ==
  ASSUME NEW k \in Word
  PROVE  /\ Reversed[k] \in Word /\ IsReversal(k, Reversed[k])
         /\ \A r \in Word : IsReversal(k, r) => r = Reversed[k]
<1>0. Width \in Nat \ {0} /\ k \in Nat
  BY WidthAssumption, WordIsPower
<1> DEFINE f == [i \in Nat |-> IF i \in 0 .. (Width - 1) THEN Bit(k, Width - 1 - i) ELSE 0]
<1>1. f \in [Nat -> {0, 1}]
  <2>1. \A i \in 0 .. (Width - 1) : Width - 1 - i \in Nat
    BY <1>0
  <2> QED BY <1>0, <2>1, BitSplits
<1>2. PICK r \in Nat : r < 2 ^ Width /\ \A i \in 0 .. (Width - 1) : Bit(r, i) = f[i]
  <2> HIDE DEF f
  <2> QED BY <1>0, <1>1, BitsChosen
<1>3. r \in Word /\ IsReversal(k, r)
  <2>1. ASSUME NEW i \in 0 .. (Width - 1) PROVE Bit(r, Width - 1 - i) = Bit(k, i)
    <3>1. Width - 1 - i \in 0 .. (Width - 1) /\ Width - 1 - (Width - 1 - i) = i
      BY <1>0
    <3>2. f[Width - 1 - i] = Bit(k, i)
      BY <3>1
    <3> QED BY <1>2, <3>1, <3>2
  <2> QED BY <1>2, <2>1, WordIsPower DEF IsReversal
<1>4. Reversed[k] \in Word /\ IsReversal(k, Reversed[k])
  BY <1>3 DEF Reversed
<1>5. ASSUME NEW s \in Word, IsReversal(k, s) PROVE s = Reversed[k]
  <2>1. ASSUME NEW i \in 0 .. (Width - 1) PROVE Bit(s, i) = Bit(Reversed[k], i)
    <3>1. Width - 1 - i \in 0 .. (Width - 1) /\ Width - 1 - (Width - 1 - i) = i
      BY <1>0
    <3> QED BY <1>4, <1>5, <3>1 DEF IsReversal
  <2> QED BY <1>0, <1>4, <2>1, BitsDetermine, WordIsPower
<1> QED BY <1>4, <1>5

(* The lowest bit in which two words differ decides which reversal is the  *)
(* larger.                                                                 *)
LEMMA LowestDifference ==
  ASSUME NEW x \in Word, NEW y \in Word, NEW p \in 0 .. (Width - 1),
         \A i \in 0 .. (p - 1) : Bit(x, i) = Bit(y, i), Bit(x, p) = 0, Bit(y, p) = 1
  PROVE  Reversed[x] < Reversed[y]
<1>0. Width \in Nat \ {0}
  BY WidthAssumption
<1> DEFINE q == Width - 1 - p
<1>1. q \in 0 .. (Width - 1)
  BY <1>0
<1>2. Bit(Reversed[x], q) = 0 /\ Bit(Reversed[y], q) = 1
  BY ReversalExists DEF IsReversal
<1>3. ASSUME NEW i \in (q + 1) .. (Width - 1) PROVE Bit(Reversed[x], i) = Bit(Reversed[y], i)
  <2>1. Width - 1 - i \in 0 .. (p - 1) /\ Width - 1 - i \in 0 .. (Width - 1)
        /\ Width - 1 - (Width - 1 - i) = i
    BY <1>0
  <2> QED BY <2>1, ReversalExists DEF IsReversal
<1> HIDE DEF q
<1> QED BY <1>0, <1>1, <1>2, <1>3, ReversalExists, WordIsPower, HighestDifference

(* The words whose reversals are the codes: bits of the hash or bucket     *)
(* below the top bit, which one kind of node sets and the other clears.    *)
LEMMA CodeBits ==
  ASSUME NEW h \in Nat
  PROVE  /\ h % Half \in Word /\ (h % Half) + Half \in Word
         /\ \A i \in 0 .. (Width - 2) :
              Bit(h % Half, i) = Bit(h, i) /\ Bit((h % Half) + Half, i) = Bit(h, i)
         /\ Bit(h % Half, Width - 1) = 0 /\ Bit((h % Half) + Half, Width - 1) = 1
<1> DEFINE x == h % Half  n == Width - 1
<1>0. n \in Nat /\ Half = 2 ^ n /\ n - 1 = Width - 2 /\ Half \in Nat \ {0} /\ 2 ^ Width = 2 * Half
  BY WidthAssumption, WordIsPower DEF Half
<1>1. /\ x \in Nat /\ x < Half
      /\ \A i \in 0 .. (n - 1) : Bit(x, i) = Bit(h, i)
      /\ Bit(x, n) = 0
  BY <1>0, BitsModulo
<1> HIDE DEF x
<1>2. x \in Word /\ x + Half \in Word
  BY <1>0, <1>1, WordIsPower
<1>3. \A i \in 0 .. (n - 1) : Bit(Half * 1 + x, i) = Bit(x, i)
  <2> HIDE DEF n
  <2> TAKE i \in 0 .. (n - 1)
  <2>1. n \in Nat /\ x \in Nat /\ 1 \in Nat /\ i \in 0 .. (n - 1)
    BY <1>0, <1>1
  <2>2. Bit(2 ^ n * 1 + x, i) = Bit(x, i)
    BY <2>1, BitsBelow
  <2> QED BY <1>0, <2>2
<1>4. Half * 1 + x = x + Half
  BY <1>0, <1>1
<1>5. Bit(x + Half, n) = 1
  <2>1. (x + Half) \div Half = 1
    BY <1>0, <1>1
  <2> QED BY <1>0, <2>1 DEF Bit
<1> QED BY <1>0, <1>1, <1>2, <1>3, <1>4, <1>5 DEF x

(* The lowest bit tells the two kinds of codes apart.                      *)
LEMMA CodeKinds ==
  /\ \A h \in Nat : RegularCode(h) \in Word /\ IsRegular(RegularCode(h))
  /\ \A b \in Nat : DummyCode(b) \in Word /\ ~IsRegular(DummyCode(b))
<1>1. ASSUME NEW k \in Word PROVE Reversed[k] % 2 = Bit(k, Width - 1)
  <2>1. Width - 1 \in 0 .. (Width - 1) /\ Width - 1 - (Width - 1) = 0
    BY WidthAssumption
  <2>2. Bit(Reversed[k], 0) = Bit(k, Width - 1)
    BY <2>1, ReversalExists DEF IsReversal
  <2>3. Reversed[k] \in Nat /\ 0 \in Nat
    BY ReversalExists, WordIsPower
  <2> QED BY <2>2, <2>3, BitSplits
<1> QED BY <1>1, CodeBits, ReversalExists DEF RegularCode, DummyCode, IsRegular

(* Below the top bit, the lowest bit in which two hashes or bucket numbers *)
(* differ decides which has the larger codes, of either kind.              *)
LEMMA CodesDiffer ==
  ASSUME NEW x \in Nat, NEW y \in Nat, NEW p \in 0 .. (Width - 2),
         \A i \in 0 .. (p - 1) : Bit(x, i) = Bit(y, i), Bit(x, p) = 0, Bit(y, p) = 1
  PROVE  /\ DummyCode(x) < DummyCode(y) /\ DummyCode(x) < RegularCode(y)
         /\ RegularCode(x) < DummyCode(y)
<1>1. \A i \in 0 .. p : i \in 0 .. (Width - 2)
  BY WidthAssumption
<1>2. p \in 0 .. (Width - 1) /\ \A i \in 0 .. (p - 1) : i \in 0 .. p
  BY WidthAssumption
<1> DEFINE Agree(v, w) == \A i \in 0 .. (p - 1) : Bit(v, i) = Bit(w, i)
<1>3. /\ Agree(x % Half, y % Half) /\ Agree(x % Half, (y % Half) + Half)
      /\ Agree((x % Half) + Half, y % Half)
  BY <1>1, <1>2, CodeBits
<1>4. /\ Bit(x % Half, p) = 0 /\ Bit((x % Half) + Half, p) = 0
      /\ Bit(y % Half, p) = 1 /\ Bit((y % Half) + Half, p) = 1
  BY <1>1, CodeBits
<1>5. /\ x % Half \in Word /\ (x % Half) + Half \in Word
      /\ y % Half \in Word /\ (y % Half) + Half \in Word
  BY CodeBits
<1> QED BY <1>2, <1>3, <1>4, <1>5, LowestDifference DEF RegularCode, DummyCode

(* Where they do not differ the dummy node comes first.                    *)
LEMMA CodesAgree ==
  ASSUME NEW x \in Nat, NEW y \in Nat, \A i \in 0 .. (Width - 2) : Bit(x, i) = Bit(y, i)
  PROVE  DummyCode(x) < RegularCode(y)
<1>1. /\ x % Half \in Word /\ (y % Half) + Half \in Word
      /\ Bit(x % Half, Width - 1) = 0 /\ Bit((y % Half) + Half, Width - 1) = 1
  BY CodeBits
<1>2. Width - 1 \in 0 .. (Width - 1) /\ (Width - 1) - 1 = Width - 2
  BY WidthAssumption
<1>3. \A i \in 0 .. (Width - 2) : Bit(x % Half, i) = Bit((y % Half) + Half, i)
  BY CodeBits
<1> QED BY <1>1, <1>2, <1>3, LowestDifference DEF RegularCode, DummyCode

(* The lowest bit in which two numbers differ.                             *)
LEMMA LowestBit ==
  ASSUME NEW x, NEW y, NEW n \in Int, NEW j \in 0 .. n, Bit(x, j) # Bit(y, j)
  PROVE  \E p \in 0 .. n : Bit(x, p) # Bit(y, p) /\ \A i \in 0 .. (p - 1) : Bit(x, i) = Bit(y, i)
<1> DEFINE T == {i \in 0 .. n : Bit(x, i) # Bit(y, i)}
<1>1. T \subseteq Nat /\ T # {}
  OBVIOUS
<1>2. PICK p \in T : \A i \in T : p <= i
  <2> HIDE DEF T
  <2> QED BY <1>1, LeastElement
<1>3. ASSUME NEW i \in 0 .. (p - 1) PROVE Bit(x, i) = Bit(y, i)
  <2>1. i \in 0 .. n /\ ~(p <= i)
    OBVIOUS
  <2> QED BY <1>2, <2>1
<1> QED BY <1>2, <1>3

(* A search for a key starts at a dummy node that sorts before the key,    *)
(* however many buckets there are: hash modulo 2^j is the bucket.          *)
LEMMA StartBeforeKey ==
  ASSUME NEW h \in Nat, NEW j \in 0 .. (Width - 1)
  PROVE  DummyCode(h % 2 ^ j) < RegularCode(h)
<1> DEFINE b == h % 2 ^ j
<1>0. j \in Nat
  OBVIOUS
<1>1. /\ b \in Nat /\ \A i \in 0 .. (j - 1) : Bit(b, i) = Bit(h, i)
      /\ \A i \in Nat : j <= i => Bit(b, i) = 0
  BY <1>0, BitsModulo
<1> HIDE DEF b
<1>2. CASE \A i \in 0 .. (Width - 2) : Bit(b, i) = Bit(h, i)
  BY <1>1, <1>2, CodesAgree DEF b
<1>3. CASE \E i \in 0 .. (Width - 2) : Bit(b, i) # Bit(h, i)
  <2>1. Width - 2 \in Int
    BY WidthAssumption
  <2>2. PICK p \in 0 .. (Width - 2) :
               Bit(b, p) # Bit(h, p) /\ \A i \in 0 .. (p - 1) : Bit(b, i) = Bit(h, i)
    BY <1>3, <2>1, LowestBit
  <2>3. j <= p /\ p \in Nat
    BY <1>1, <2>2
  <2>4. Bit(b, p) = 0 /\ Bit(h, p) = 1
    BY <1>1, <2>2, <2>3, BitSplits
  <2> QED BY <1>1, <2>2, <2>4, CodesDiffer DEF b
<1> QED BY <1>2, <1>3

(* No other bucket's dummy node sorts between a bucket's dummy node and a  *)
(* key of the bucket.                                                      *)
LEMMA NoDummyBetween ==
  ASSUME NEW h \in Nat, NEW j \in 0 .. (Width - 1), NEW c \in 0 .. (2 ^ j - 1)
  PROVE  DummyCode(c) <= DummyCode(h % 2 ^ j) \/ RegularCode(h) < DummyCode(c)
<1> DEFINE b == h % 2 ^ j
<1>0. j \in Nat /\ 2 ^ j \in Nat /\ c \in Nat /\ c < 2 ^ j
  BY PowerPositive
<1>1. b \in Nat /\ b < 2 ^ j /\ \A i \in 0 .. (j - 1) : Bit(b, i) = Bit(h, i)
  BY <1>0, BitsModulo
<1> HIDE DEF b
<1>2. CASE b = c
  <2>1. DummyCode(c) \in Int
    BY <1>0, CodeKinds, WordIsPower
  <2> QED BY <1>2, <2>1 DEF b
<1>3. CASE b # c
  <2>1. \E i \in 0 .. (j - 1) : Bit(b, i) # Bit(c, i)
    BY <1>0, <1>1, <1>3, BitsDetermine
  <2>2. PICK p \in 0 .. (j - 1) :
               Bit(b, p) # Bit(c, p) /\ \A i \in 0 .. (p - 1) : Bit(b, i) = Bit(c, i)
    BY <1>0, <2>1, LowestBit
  <2>3. /\ p \in Nat /\ p \in 0 .. (Width - 2) /\ Bit(h, p) = Bit(b, p)
        /\ \A i \in 0 .. (p - 1) : Bit(h, i) = Bit(c, i)
    <3>1. p \in Nat /\ p \in 0 .. (Width - 2) /\ \A i \in 0 .. (p - 1) : i \in 0 .. (j - 1)
      BY WidthAssumption
    <3> QED BY <1>1, <2>2, <3>1
  <2>4. \/ Bit(b, p) = 0 /\ Bit(c, p) = 1
        \/ Bit(b, p) = 1 /\ Bit(c, p) = 0
    BY <1>0, <1>1, <2>2, <2>3, BitSplits
  <2>5. CASE Bit(b, p) = 0 /\ Bit(c, p) = 1
    BY <1>0, <2>3, <2>5, CodesDiffer
  <2>6. CASE Bit(b, p) = 1 /\ Bit(c, p) = 0
    <3>1. DummyCode(c) < DummyCode(b)
      BY <1>0, <1>1, <2>2, <2>3, <2>6, CodesDiffer
    <3>2. DummyCode(c) \in Int /\ DummyCode(b) \in Int
      BY <1>0, <1>1, CodeKinds, WordIsPower
    <3> QED BY <3>1, <3>2 DEF b
  <2> QED BY <2>4, <2>5, <2>6
<1> QED BY <1>2, <1>3

(* Bucket 0's dummy node has the least code.                               *)
LEMMA DummyZero == DummyCode(0) = 0
<1>1. 0 \in Word /\ 0 % Half = 0
  BY WordIsPower DEF Word
<1>2. ASSUME NEW i \in Nat PROVE Bit(0, i) = 0
  <2>1. 0 < 2 ^ 0 /\ 0 \in Nat /\ 0 <= i
    BY PowerZero
  <2> QED BY <2>1, BitsAbove
<1>3. \A i \in 0 .. (Width - 1) : i \in Nat /\ Width - 1 - i \in Nat
  BY WidthAssumption
<1>4. IsReversal(0, 0)
  BY <1>2, <1>3 DEF IsReversal
<1> QED BY <1>1, <1>4, ReversalExists DEF DummyCode

-----------------------------------------------------------------------------
(* Parents.                                                                *)

(* hashtable_bucket_parent clears the highest bit.                         *)
LEMMA ParentOf ==
  ASSUME NEW i \in 0 .. (Width - 1), NEW p \in Nat, p < 2 ^ i
  PROVE  Parent(p + 2 ^ i) = p
<1> DEFINE b == p + 2 ^ i
           Cleared(q) == \E j \in 0 .. (Width - 1) : q < 2 ^ j /\ b = q + 2 ^ j
<1>1. 2 ^ i \in Nat /\ p \in 0 .. b /\ Cleared(p)
  BY PowerPositive
<1>2. ASSUME NEW q \in 0 .. b, Cleared(q) PROVE q = p
  <2>1. PICK j \in 0 .. (Width - 1) : q < 2 ^ j /\ b = q + 2 ^ j
    BY <1>2
  <2>2. i \in Nat /\ j \in Nat /\ q \in Nat
    BY <1>1
  <2>3. /\ 2 ^ (i + 1) = 2 * 2 ^ i /\ 2 ^ (j + 1) = 2 * 2 ^ j /\ 2 ^ j \in Nat
        /\ i + 1 <= j => 2 ^ (i + 1) <= 2 ^ j
        /\ j + 1 <= i => 2 ^ (j + 1) <= 2 ^ i
    BY <2>2, PowerDoubles, PowerMonotone
  <2> DEFINE c == 2 ^ i  d == 2 ^ j
  <2>4. /\ c \in Nat /\ d \in Nat /\ p < c /\ q < d /\ p + c = q + d
        /\ i < j => 2 * c <= d
        /\ j < i => 2 * d <= c
    BY <1>1, <2>1, <2>2, <2>3
  <2> HIDE DEF c, d
  <2>5. ~(i < j) /\ ~(j < i)
    BY <2>2, <2>4
  <2>6. i = j
    BY <2>2, <2>5
  <2>7. c = d
    BY <2>6 DEF c, d
  <2> QED BY <2>2, <2>4, <2>7
<1> HIDE DEF Cleared
<1>3. (CHOOSE q \in 0 .. b : Cleared(q)) = p
  BY <1>1, <1>2
<1> QED BY <1>1, <1>3 DEF Parent, Cleared

(* Every number between 1 and 2^n - 1 has a highest bit.                   *)
LEMMA HighestBit ==
  ASSUME NEW n \in Nat, NEW b \in Nat \ {0}, b < 2 ^ n
  PROVE  \E i \in 0 .. (n - 1) : 2 ^ i <= b /\ b < 2 ^ (i + 1)
<1> DEFINE T == {m \in Nat : b < 2 ^ m}
<1>1. T \subseteq Nat /\ T # {}
  OBVIOUS
<1>2. PICK m \in T : \A k \in T : m <= k
  <2> HIDE DEF T
  <2> QED BY <1>1, LeastElement
<1>3. m \in Nat /\ b < 2 ^ m /\ m <= n
  BY <1>2
<1>4. m # 0
  <2>1. CASE m = 0
    <3>1. b < 1
      BY <1>3, <2>1, PowerZero
    <3> QED BY <3>1
  <2> QED BY <2>1
<1>5. m - 1 \in 0 .. (n - 1) /\ m - 1 \in Nat /\ (m - 1) + 1 = m /\ ~(m <= m - 1)
  BY <1>3, <1>4
<1>6. ~(b < 2 ^ (m - 1)) /\ 2 ^ (m - 1) \in Nat
  BY <1>2, <1>5, PowerPositive
<1> QED BY <1>3, <1>5, <1>6

(* The parent of a bucket has a smaller number, and its dummy node comes   *)
(* first.                                                                  *)
LEMMA ParentBefore ==
  ASSUME NEW b \in 1 .. (Half - 1)
  PROVE  /\ Parent(b) \in 0 .. (b - 1)
         /\ DummyCode(Parent(b)) < DummyCode(b)
<1>0. Width - 1 \in Nat /\ Half = 2 ^ (Width - 1) /\ b \in Nat \ {0} /\ b < Half
  BY WidthAssumption, WordIsPower DEF Half
<1>1. PICK i \in 0 .. (Width - 2) : 2 ^ i <= b /\ b < 2 ^ (i + 1)
  <2>1. (Width - 1) - 1 = Width - 2
    BY WidthAssumption
  <2> QED BY <1>0, <2>1, HighestBit
<1> DEFINE d == 2 ^ i  p == b - d
<1>2. i \in Nat /\ i \in 0 .. (Width - 1) /\ d \in Nat \ {0} /\ b < 2 * d
  <2>1. i \in Nat /\ i \in 0 .. (Width - 1)
    BY WidthAssumption
  <2> QED BY <1>1, <2>1, PowerPositive, PowerDoubles
<1>3. p \in 0 .. (b - 1) /\ p \in Nat /\ p < d /\ b = p + d
  <2> HIDE DEF d
  <2> QED BY <1>0, <1>1, <1>2 DEF d
<1>4. Parent(b) = p
  BY <1>2, <1>3, ParentOf
<1> HIDE DEF p
<1>5. \A k \in 0 .. (i - 1) : Bit(p, k) = Bit(b, k)
  <2> TAKE k \in 0 .. (i - 1)
  <2>1. 1 \in Nat /\ i \in Nat /\ p \in Nat /\ k \in 0 .. (i - 1)
    BY <1>2, <1>3
  <2>2. Bit(2 ^ i * 1 + p, k) = Bit(p, k)
    BY <2>1, BitsBelow
  <2>3. d * 1 + p = b
    <3> HIDE DEF d
    <3> QED BY <1>2, <1>3
  <2> QED BY <2>2, <2>3
<1>6. Bit(p, i) = 0
  BY <1>2, <1>3, BitsAbove
<1>7. Bit(b, i) = 1
  <2> HIDE DEF d
  <2>1. b \div d = 1
    BY <1>2, <1>3
  <2>2. (b \div d) % 2 = 1
    BY <2>1
  <2> QED BY <2>2 DEF Bit, d
<1> QED BY <1>0, <1>3, <1>4, <1>5, <1>6, <1>7, CodesDiffer

(* When the number of buckets doubles a hash stays in its bucket, or goes  *)
(* to the one whose parent is its old bucket.                              *)
LEMMA BucketSplits ==
  ASSUME NEW h \in Nat, NEW l \in 0 .. (Width - 1), h % 2 ^ (l + 1) # h % 2 ^ l
  PROVE  Parent(h % 2 ^ (l + 1)) = h % 2 ^ l /\ h % 2 ^ (l + 1) = (h % 2 ^ l) + 2 ^ l
<1> DEFINE d == 2 ^ l  q == h \div d  r == h % d
<1>1. l \in Nat /\ d \in Nat \ {0} /\ 2 ^ (l + 1) = 2 * d
  BY PowerPositive, PowerDoubles
<1>2. q \in Nat /\ r \in 0 .. (d - 1) /\ h = d * q + r
  <2> HIDE DEF d
  <2> QED BY <1>1, QuotientAndRest
<1> HIDE DEF q, r
<1>3. h % (2 * d) = r \/ h % (2 * d) = r + d
  <2> HIDE DEF d
  <2> DEFINE k == q \div 2
  <2>1. k \in Nat /\ (q = 2 * k \/ q = 2 * k + 1)
    BY <1>2
  <2> HIDE DEF k
  <2>2. CASE q = 2 * k
    <3>1. h = (2 * d) * k + r /\ 2 * d \in Nat \ {0} /\ r < 2 * d
      BY <1>1, <1>2, <2>1, <2>2
    <3> QED BY <1>2, <2>1, <3>1, QuotientUnique
  <2>3. CASE q = 2 * k + 1
    <3>1. h = (2 * d) * k + (r + d) /\ 2 * d \in Nat \ {0} /\ r + d < 2 * d /\ r + d \in Nat
      BY <1>1, <1>2, <2>1, <2>3
    <3> QED BY <2>1, <3>1, QuotientUnique
  <2> QED BY <2>1, <2>2, <2>3
<1>4. h % 2 ^ (l + 1) = r + d
  BY <1>1, <1>3 DEF r
<1>5. Parent(r + 2 ^ l) = r
  BY <1>2, ParentOf
<1> QED BY <1>4, <1>5 DEF r
=============================================================================
