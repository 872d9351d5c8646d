------------------------ MODULE SmallProgramsProofs ------------------------
(***************************************************************************)
(* Proofs about the programs of SmallPrograms, for all values of the       *)
(* constants: that the radix sort sorts, for digits of any size and any    *)
(* number of objects; that a line is read whole; that both ways to convert *)
(* a float, of all 2^32, yield the half next to it; that grading preserves *)
(* the lightness of all 2^24 colours; that a table of any size finds what  *)
(* was set in it; that comments and macros are taken out of any text that  *)
(* is put together from the pieces of Preprocessor.                        *)
(***************************************************************************)
EXTENDS SmallPrograms, FiniteSetTheorems, TLAPS

-----------------------------------------------------------------------------
(* Counting sort: what a pass does, for any digits.                        *)

(* The places of the objects whose digit is less than v, and of those with *)
(* the digit v among the first k.                                          *)
Before(f, k, v) == {j \in DOMAIN f : f[j] < v \/ (f[j] = v /\ j <= k)}

(* Where an object goes.                                                   *)
Rank(f, j) == Cardinality(Before(f, j, f[j]))

LEMMA BeforeFinite ==
  ASSUME NEW N \in Nat, NEW f \in [1 .. N -> Int], NEW k, NEW v
  PROVE  IsFiniteSet(Before(f, k, v)) /\ Cardinality(Before(f, k, v)) \in 0 .. N
<1>1. Before(f, k, v) \in SUBSET (1 .. N)
  BY DEF Before
<1>2. IsFiniteSet(1 .. N) /\ Cardinality(1 .. N) = N
  <2>1. Cardinality(1 .. N) = IF 1 > N THEN 0 ELSE N - 1 + 1
    BY FS_Interval
  <2> QED BY <2>1, FS_Interval
<1> QED BY <1>1, <1>2, FS_Subset, FS_CardinalityType

(* One more object is counted for its digit.                               *)
LEMMA CountNext ==
  ASSUME NEW N \in Nat, NEW f \in [1 .. N -> Int], NEW k \in 0 .. N - 1, NEW v \in Int
  PROVE  Cardinality(Before(f, k + 1, v))
           = Cardinality(Before(f, k, v)) + (IF f[k + 1] = v THEN 1 ELSE 0)
<1>1. IsFiniteSet(Before(f, k, v)) /\ Cardinality(Before(f, k, v)) \in Nat
  BY BeforeFinite
<1>2. CASE f[k + 1] = v
  <2>1. Before(f, k + 1, v) = Before(f, k, v) \cup {k + 1} /\ k + 1 \notin Before(f, k, v)
    BY <1>2 DEF Before
  <2> QED BY <1>1, <1>2, <2>1, FS_AddElement
<1>3. CASE f[k + 1] # v
  <2>1. Before(f, k + 1, v) = Before(f, k, v)
    BY <1>3 DEF Before
  <2> QED BY <1>1, <1>3, <2>1
<1> QED BY <1>2, <1>3

(* Places are in the order of the digits, and of the objects with the same *)
(* digit.                                                                  *)
LEMMA RankOrder ==
  ASSUME NEW N \in Nat, NEW f \in [1 .. N -> Int], NEW i0 \in 1 .. N, NEW j0 \in 1 .. N,
         f[i0] < f[j0] \/ (f[i0] = f[j0] /\ i0 < j0)
  PROVE  Rank(f, i0) < Rank(f, j0)
<1> DEFINE S == Before(f, i0, f[i0])
           T == Before(f, j0, f[j0])
<1>1. IsFiniteSet(T) /\ Cardinality(S) \in Nat /\ Cardinality(T) \in Nat
  BY BeforeFinite
<1>2. S \in SUBSET T /\ j0 \in T /\ j0 \notin S
  BY DEF Before
<1>3. Cardinality(S) <= Cardinality(T) /\ Cardinality(S) # Cardinality(T)
  <2> HIDE DEF S, T
  <2> QED BY <1>1, <1>2, FS_Subset
<1> QED BY <1>1, <1>3 DEF Rank

(* Every place is taken by just one object.                                *)
LEMMA RankTakesAll ==
  ASSUME NEW N \in Nat, NEW f \in [1 .. N -> Int]
  PROVE  /\ \A j \in 1 .. N : Rank(f, j) \in 1 .. N
         /\ \A p \in 1 .. N : \E j \in 1 .. N : Rank(f, j) = p
<1>1. \A j \in 1 .. N : Rank(f, j) \in 1 .. N
  <2> SUFFICES ASSUME NEW j \in 1 .. N PROVE Rank(f, j) \in 1 .. N
    OBVIOUS
  <2>1. Rank(f, j) \in 0 .. N /\ IsFiniteSet(Before(f, j, f[j]))
    BY BeforeFinite DEF Rank
  <2>2. j \in Before(f, j, f[j])
    BY DEF Before
  <2>3. Rank(f, j) # 0
    BY <2>1, <2>2, FS_EmptySet DEF Rank
  <2> QED BY <2>1, <2>3
<1> DEFINE r == [j \in 1 .. N |-> Rank(f, j)]
<1>2. r \in Injection(1 .. N, 1 .. N)
  <2>1. \A i0, j0 \in 1 .. N : r[i0] = r[j0] => i0 = j0
    <3> SUFFICES ASSUME NEW i0 \in 1 .. N, NEW j0 \in 1 .. N, i0 # j0 PROVE Rank(f, i0) # Rank(f, j0)
      OBVIOUS
    <3>1. f[i0] \in Int /\ f[j0] \in Int
      OBVIOUS
    <3>2. \/ f[i0] < f[j0] \/ (f[i0] = f[j0] /\ i0 < j0)
          \/ f[j0] < f[i0] \/ (f[j0] = f[i0] /\ j0 < i0)
      BY <3>1
    <3>3. Rank(f, i0) < Rank(f, j0) \/ Rank(f, j0) < Rank(f, i0)
      BY <3>2, RankOrder
    <3> QED BY <1>1, <3>3
  <2> QED BY <1>1, <2>1 DEF Injection, IsInjective
<1>3. r \in Surjection(1 .. N, 1 .. N)
  BY <1>2, FS_Interval, FS_Injection
<1> QED BY <1>1, <1>3 DEF Surjection

(* How often a digit occurs does not depend on the order of the objects.   *)
LEMMA OrderDoesNotCount ==
  ASSUME NEW N \in Nat, NEW g \in [1 .. N -> 1 .. N], NEW f \in [1 .. N -> Int], NEW v \in Int,
         \A m \in 1 .. N : \E j \in 1 .. N : g[j] = m,
         NEW h \in [1 .. N -> Int], \A j \in 1 .. N : h[j] = f[g[j]]
  PROVE  Cardinality(Before(h, 0, v)) = Cardinality(Before(f, 0, v))
<1> DEFINE S == {j \in 1 .. N : h[j] < v}
           T == {j \in 1 .. N : f[j] < v}
           b == [j \in S |-> g[j]]
<1>0. Before(h, 0, v) = S /\ Before(f, 0, v) = T
  BY DEF Before
<1>1. g \in Surjection(1 .. N, 1 .. N)
  BY DEF Surjection
<1>2. g \in Injection(1 .. N, 1 .. N)
  BY <1>1, FS_Interval, FS_Surjection
<1>3. IsFiniteSet(S)
  BY FS_Interval, FS_Subset
<1>4. b \in [S -> T]
  OBVIOUS
<1>5. \A x, y \in S : b[x] = b[y] => x = y
  BY <1>2 DEF Injection, IsInjective
<1>6. \A m \in T : \E j \in S : b[j] = m
  OBVIOUS
<1>7. b \in Bijection(S, T)
  BY <1>4, <1>5, <1>6 DEF Bijection, Injection, IsInjective, Surjection
<1> HIDE DEF S, T, b
<1>8. ExistsBijection(S, T)
  BY <1>7 DEF ExistsBijection
<1>9. Cardinality(S) = Cardinality(T)
  BY <1>3, <1>8, FS_Bijection
<1> QED BY <1>0, <1>9

-----------------------------------------------------------------------------
(* The radix sort of distance_sort_magic.cpp.                              *)



(* A float and its flipped bits are digits.                                *)
LEMMA FlippedKeys ==
  ASSUME NEW key \in Sort!Key
  PROVE  /\ Sort!Flip(key) \in Sort!Key
         /\ \A d \in 1 .. 3 : Sort!Flip(key)[d] \in Sort!Digit(d) /\ Sort!Flip(key)[d] \in Int
<1>1. PICK x \in 0 .. kHist - 1, y \in 0 .. kHist - 1, z \in 0 .. Top - 1 : key = <<x, y, z>>
  BY DEF Sort!Key, Sort!Digit
<1>2. kHist \in Nat /\ Top \in Nat /\ Top = 2 * (Top \div 2) /\ Top \div 2 \in Nat
  BY SortAssumption
<1>3. CASE z >= Top \div 2
  <2>1. Sort!Flip(key) = <<kHist - 1 - x, kHist - 1 - y, Top - 1 - z>>
    BY <1>1, <1>3 DEF Sort!Flip, Sort!Negative
  <2>2. kHist - 1 - x \in 0 .. kHist - 1 /\ kHist - 1 - y \in 0 .. kHist - 1 /\ Top - 1 - z \in 0 .. Top - 1
    BY <1>2

  <2> QED BY <2>1, <2>2 DEF Sort!Key, Sort!Digit
<1>4. CASE ~(z >= Top \div 2)
  <2>1. Sort!Flip(key) = <<x, y, z + Top \div 2>>
    BY <1>1, <1>4 DEF Sort!Flip, Sort!Negative
  <2>2. z + Top \div 2 \in 0 .. Top - 1
    BY <1>2, <1>4
  <2> QED BY <2>1, <2>2 DEF Sort!Key, Sort!Digit
<1> QED BY <1>3, <1>4

(* x before y in the order of the flipped bits.                            *)
Smaller3(x, y) ==
  \/ x[3] < y[3]
  \/ x[3] = y[3] /\ x[2] < y[2]
  \/ x[3] = y[3] /\ x[2] = y[2] /\ x[1] < y[1]

(* The flipped bits of floats are ordered as the floats are.               *)
LEMMA FlipKeepsOrder ==
  ASSUME NEW a \in Sort!Key, NEW b \in Sort!Key
  PROVE  /\ Smaller3(Sort!Flip(a), Sort!Flip(b)) => Sort!Below(a, b)
         /\ Sort!Flip(a) = Sort!Flip(b) => a = b
<1>1. PICK x \in 0 .. kHist - 1, y \in 0 .. kHist - 1, z \in 0 .. Top - 1 : a = <<x, y, z>>
  BY DEF Sort!Key, Sort!Digit
<1>2. PICK u \in 0 .. kHist - 1, v \in 0 .. kHist - 1, w \in 0 .. Top - 1 : b = <<u, v, w>>
  BY DEF Sort!Key, Sort!Digit
<1>3. kHist \in Nat /\ Top \in Nat /\ Top = 2 * (Top \div 2) /\ Top \div 2 \in Nat
  BY SortAssumption
<1>4. /\ Sort!Negative(a) <=> z >= Top \div 2
      /\ Sort!Negative(b) <=> w >= Top \div 2
  BY <1>1, <1>2 DEF Sort!Negative
<1>5. /\ z >= Top \div 2 => Sort!Flip(a) = <<kHist - 1 - x, kHist - 1 - y, Top - 1 - z>>
      /\ ~(z >= Top \div 2) => Sort!Flip(a) = <<x, y, z + Top \div 2>>
  BY <1>1, <1>4 DEF Sort!Flip
<1>6. /\ w >= Top \div 2 => Sort!Flip(b) = <<kHist - 1 - u, kHist - 1 - v, Top - 1 - w>>
      /\ ~(w >= Top \div 2) => Sort!Flip(b) = <<u, v, w + Top \div 2>>
  BY <1>2, <1>4 DEF Sort!Flip
<1> DEFINE h == Top \div 2
<1>7. h \in Nat /\ Top = 2 * h
  BY <1>3
<1>8. CASE z >= h /\ w >= h
  BY <1>1, <1>2, <1>3, <1>4, <1>5, <1>6, <1>7, <1>8 DEF Smaller3, Sort!Below
<1>9. CASE z >= h /\ ~(w >= h)
  BY <1>1, <1>2, <1>3, <1>4, <1>5, <1>6, <1>7, <1>9 DEF Smaller3, Sort!Below
<1>10. CASE ~(z >= h) /\ w >= h
  BY <1>1, <1>2, <1>3, <1>4, <1>5, <1>6, <1>7, <1>10 DEF Smaller3, Sort!Below
<1>11. CASE ~(z >= h) /\ ~(w >= h)
  BY <1>1, <1>2, <1>3, <1>4, <1>5, <1>6, <1>7, <1>11 DEF Smaller3, Sort!Below
<1> QED BY <1>8, <1>9, <1>10, <1>11

Objects == [id : Nat, key : Sort!Key]

(* An object of the array given, its key flipped.                          *)
Flipped(j) == [id |-> unsorted[j].id, key |-> Sort!Flip(unsorted[j].key)]

(* The objects in the order in which the pass comes to them.               *)
Coming ==
  [j \in DOMAIN unsorted |->
     IF pass = 1 THEN Flipped(j) ELSE IF pass = 2 THEN sorted[j] ELSE contents[j]]

Target == IF pass = 2 THEN contents ELSE sorted

DigitsOf(a, d) == [j \in DOMAIN a |-> a[j].key[d]]

(* x before y by the first d digits; among equal ones, by the order given. *)
Precedes(d, x, y) ==
  LET Same(e) == d >= e => x.key[e] = y.key[e]
  IN \/ d >= 3 /\ x.key[3] < y.key[3]
     \/ Same(3) /\ d >= 2 /\ x.key[2] < y.key[2]
     \/ Same(3) /\ Same(2) /\ d >= 1 /\ x.key[1] < y.key[1]
     \/ Same(3) /\ Same(2) /\ Same(1) /\ x.id < y.id

Ordered(a, d) == \A x, y \in DOMAIN a : x < y => Precedes(d, a[x], a[y])

(* All the objects given, with flipped keys.                               *)
Shuffled(a) ==
  /\ a \in [DOMAIN unsorted -> Objects]
  /\ \A x \in DOMAIN a : /\ a[x].id \in DOMAIN unsorted
                         /\ a[x].key = Sort!Flip(unsorted[a[x].id].key)
  /\ \A j \in DOMAIN unsorted : \E x \in DOMAIN a : a[x].id = j

CountBelow(d, v) ==
  Cardinality(Before([j \in DOMAIN unsorted |-> Sort!Flip(unsorted[j].key)[d]], 0, v))

SortTypes ==
  /\ \E c \in Nat : DOMAIN unsorted = 1 .. c
  /\ unsorted \in [DOMAIN unsorted -> Objects]
  /\ \A j \in DOMAIN unsorted : unsorted[j].id = j
  /\ contents \in [DOMAIN unsorted -> Objects]
  /\ sorted \in [DOMAIN unsorted -> Objects]
  /\ pass \in 0 .. 4
  /\ moved \in {0} \cup DOMAIN unsorted

(* What the histograms of this pass and of those to come count.            *)
Counts ==
  /\ DOMAIN hist = 1 .. 3
  /\ \A d \in 1 .. 3 :
       /\ DOMAIN hist[d] = Sort!Digit(d)
       /\ \A v \in Sort!Digit(d) :
            /\ d = pass => hist[d][v] = Cardinality(Before(DigitsOf(Coming, d), moved, v)) - 1
            /\ d > pass => hist[d][v] = CountBelow(d, v) - 1

(* The invariant of the passes: each finds all objects in the order of the *)
(* digits before, counts from where the last object with a digit went, and *)
(* has put the first ones where they belong.                               *)
SortInv ==
  /\ SortTypes
  /\ pass = 0 => moved = 0 /\ contents = unsorted
  /\ pass \in 1 .. 3 =>
       /\ Shuffled(Coming) /\ Ordered(Coming, pass - 1)
       /\ Counts
       /\ \A j \in 1 .. moved : Target[Rank(DigitsOf(Coming, pass), j)] = Coming[j]
  /\ pass = 1 =>
       \A j \in DOMAIN unsorted : contents[j] = IF j <= moved THEN Flipped(j) ELSE unsorted[j]
  /\ pass = 4 => Shuffled(sorted) /\ Ordered(sorted, 3)

(* Equal in one more digit.                                                *)
LEMMA PrecedesMore ==
  ASSUME NEW d \in 1 .. 3, NEW x \in Objects, NEW y \in Objects,
         x.key[d] = y.key[d], Precedes(d - 1, x, y)
  PROVE  Precedes(d, x, y)
<1>1. CASE d = 1
  <2>1. Precedes(0, x, y) /\ x.key[1] = y.key[1]
    BY <1>1
  <2>2. x.id < y.id
    BY <2>1 DEF Precedes
  <2> QED BY <1>1, <2>1, <2>2 DEF Precedes
<1>2. CASE d = 2
  <2>1. Precedes(1, x, y) /\ x.key[2] = y.key[2]
    BY <1>2
  <2>2. \/ x.key[1] < y.key[1]
        \/ x.key[1] = y.key[1] /\ x.id < y.id
    BY <2>1 DEF Precedes
  <2> QED BY <1>2, <2>1, <2>2 DEF Precedes
<1>3. CASE d = 3
  <2>1. Precedes(2, x, y) /\ x.key[3] = y.key[3]
    BY <1>3
  <2>2. \/ x.key[2] < y.key[2]
        \/ x.key[2] = y.key[2] /\ x.key[1] < y.key[1]
        \/ x.key[2] = y.key[2] /\ x.key[1] = y.key[1] /\ x.id < y.id
    BY <2>1 DEF Precedes
  <2> QED BY <1>3, <2>1, <2>2 DEF Precedes
<1> QED BY <1>1, <1>2, <1>3

(* A pass that is complete has sorted by one more digit.                   *)
LEMMA PassSorts ==
  ASSUME NEW N \in Nat, DOMAIN unsorted = 1 .. N,
         unsorted \in [1 .. N -> Objects],
         NEW a, Shuffled(a), NEW d \in 1 .. 3, Ordered(a, d - 1),
         NEW b \in [1 .. N -> Objects],
         \A j \in 1 .. N : b[Rank(DigitsOf(a, d), j)] = a[j]
  PROVE  Shuffled(b) /\ Ordered(b, d)
<1> DEFINE f == DigitsOf(a, d)
<1>0. DOMAIN a = 1 .. N
  BY DEF Shuffled
<1>1. \A x \in 1 .. N : a[x].key[1] \in Int /\ a[x].key[2] \in Int /\ a[x].key[3] \in Int
  <2> SUFFICES ASSUME NEW x \in 1 .. N
               PROVE  a[x].key[1] \in Int /\ a[x].key[2] \in Int /\ a[x].key[3] \in Int
    OBVIOUS
  <2>1. unsorted[a[x].id].key \in Sort!Key /\ a[x].key = Sort!Flip(unsorted[a[x].id].key)
    BY <1>0 DEF Shuffled, Objects
  <2> QED BY <2>1, FlippedKeys
<1>2. f \in [1 .. N -> Int] /\ \A x \in 1 .. N : f[x] = a[x].key[d]
  <2>1. d = 1 \/ d = 2 \/ d = 3
    OBVIOUS
  <2> QED BY <1>0, <1>1, <2>1 DEF DigitsOf
<1>3. /\ \A j \in 1 .. N : Rank(f, j) \in 1 .. N /\ b[Rank(f, j)] = a[j]
      /\ \A p \in 1 .. N : \E j \in 1 .. N : Rank(f, j) = p
  BY <1>2, RankTakesAll
<1> HIDE DEF f
<1>4. Shuffled(b)
  <2>1. ASSUME NEW x \in 1 .. N
        PROVE  /\ b[x].id \in 1 .. N
               /\ b[x].key = Sort!Flip(unsorted[b[x].id].key)
    <3>1. PICK j \in 1 .. N : Rank(f, j) = x
      BY <1>3
    <3>2. b[x] = a[j]
      BY <1>3, <3>1
    <3> QED BY <1>0, <3>2 DEF Shuffled
  <2>2. ASSUME NEW j \in 1 .. N PROVE \E x \in 1 .. N : b[x].id = j
    <3>1. PICK k \in 1 .. N : a[k].id = j
      BY <1>0 DEF Shuffled
    <3>2. Rank(f, k) \in 1 .. N /\ b[Rank(f, k)].id = j
      BY <1>3, <3>1
    <3> QED BY <3>2
  <2> QED BY <2>1, <2>2 DEF Shuffled
<1>5. ASSUME NEW x \in 1 .. N, NEW y \in 1 .. N, x < y
      PROVE  Precedes(d, b[x], b[y])
  <2>1. PICK j \in 1 .. N, k \in 1 .. N : Rank(f, j) = x /\ Rank(f, k) = y
    BY <1>3
  <2>2. b[x] = a[j] /\ b[y] = a[k]
    BY <1>3, <2>1
  <2>3. \/ f[j] < f[k]
        \/ f[j] = f[k] /\ j < k
    <3>1. f[j] \in Int /\ f[k] \in Int
      BY <1>2
    <3>2. ASSUME f[k] < f[j] \/ (f[k] = f[j] /\ k < j) PROVE FALSE
      <4>1. Rank(f, k) < Rank(f, j)
        BY <1>2, <3>2, RankOrder
      <4> QED BY <1>5, <2>1, <4>1
    <3>3. j # k
      BY <1>5, <2>1
    <3> QED BY <3>1, <3>2, <3>3
  <2>4. f[j] = a[j].key[d] /\ f[k] = a[k].key[d]
    BY <1>2
  <2>5. CASE f[j] < f[k]
    BY <1>1, <2>2, <2>4, <2>5 DEF Precedes
  <2>6. CASE f[j] = f[k] /\ j < k
    <3>1. Precedes(d - 1, a[j], a[k])
      BY <1>0, <2>6 DEF Ordered
    <3>2. a[j] \in Objects /\ a[k] \in Objects
      BY <1>0 DEF Shuffled
    <3> QED BY <2>2, <2>4, <2>6, <3>1, <3>2, PrecedesMore
  <2> QED BY <2>3, <2>5, <2>6
<1> QED BY <1>4, <1>5 DEF Ordered

(* The histograms, made of the array given, hold for every order.          *)
LEMMA CountsHold ==
  ASSUME NEW N \in Nat, DOMAIN unsorted = 1 .. N, unsorted \in [1 .. N -> Objects],
         NEW a, Shuffled(a), NEW d \in 1 .. 3, NEW v \in Int
  PROVE  Cardinality(Before(DigitsOf(a, d), 0, v)) = CountBelow(d, v)
<1> DEFINE f == [j \in 1 .. N |-> Sort!Flip(unsorted[j].key)[d]]
           g == [x \in 1 .. N |-> a[x].id]
           h == DigitsOf(a, d)
<1>0. DOMAIN a = 1 .. N
  BY DEF Shuffled
<1>1. f \in [1 .. N -> Int]
  BY FlippedKeys DEF Objects
<1>2. g \in [1 .. N -> 1 .. N] /\ \A m \in 1 .. N : \E x \in 1 .. N : g[x] = m
  <2>1. \A m \in 1 .. N : \E x \in 1 .. N : a[x].id = m
    BY <1>0 DEF Shuffled
  <2>2. \A x \in 1 .. N : a[x].id \in 1 .. N
    BY <1>0 DEF Shuffled
  <2> QED BY <2>1, <2>2
<1>3. \A x \in 1 .. N : h[x] = f[g[x]] /\ h[x] \in Int
  <2>1. \A x \in 1 .. N : h[x] = a[x].key[d] /\ a[x].key = Sort!Flip(unsorted[a[x].id].key)
    BY <1>0 DEF Shuffled, DigitsOf
  <2>2. \A x \in 1 .. N : f[g[x]] = Sort!Flip(unsorted[a[x].id].key)[d]
    BY <1>2
  <2> HIDE DEF f, g, h
  <2>3. \A x \in 1 .. N : f[g[x]] \in Int
    BY <1>1, <1>2
  <2> QED BY <2>1, <2>2, <2>3
<1>4. h \in [1 .. N -> Int]
  <2>1. h = [x \in 1 .. N |-> h[x]]
    BY <1>0 DEF DigitsOf
  <2> HIDE DEF h
  <2> QED BY <1>3, <2>1
<1>5. CountBelow(d, v) = Cardinality(Before(f, 0, v))
  BY DEF CountBelow
<1> HIDE DEF f, g, h
<1>6. Cardinality(Before(h, 0, v)) = Cardinality(Before(f, 0, v))
  BY <1>1, <1>2, <1>3, <1>4, OrderDoesNotCount
<1> QED BY <1>5, <1>6 DEF h

(* Before the first step.                                                  *)
LEMMA SortInit == Sort!Init => SortInv
<1> SUFFICES ASSUME Sort!Init PROVE SortInv
  OBVIOUS
<1>1. PICK c \in 0 .. MaxElements : \E keys \in [1 .. c -> Sort!Key] :
             contents = [j \in 1 .. c |-> [id |-> j, key |-> keys[j]]]
  BY DEF Sort!Init
<1>2. PICK keys \in [1 .. c -> Sort!Key] : contents = [j \in 1 .. c |-> [id |-> j, key |-> keys[j]]]
  BY <1>1
<1>3. c \in Nat
  BY SortAssumption
<1>4. contents \in [1 .. c -> Objects] /\ \A j \in 1 .. c : contents[j].id = j
  BY <1>2, <1>3 DEF Objects
<1>5. unsorted = contents /\ pass = 0 /\ moved = 0
  BY DEF Sort!Init
<1>6. sorted \in [1 .. c -> Objects]
  <2>1. <<0, 0, 0>> \in Sort!Key
    BY SortAssumption DEF Sort!Key, Sort!Digit
  <2>2. sorted = [j \in DOMAIN contents |-> [id |-> 0, key |-> <<0, 0, 0>>]]
    BY DEF Sort!Init
  <2>3. DOMAIN contents = 1 .. c
    BY <1>4
  <2> QED BY <2>1, <2>2, <2>3 DEF Objects
<1>7. SortTypes
  <2>1. DOMAIN unsorted = 1 .. c
    BY <1>4, <1>5
  <2> QED BY <1>3, <1>4, <1>5, <1>6, <2>1 DEF SortTypes
<1> QED BY <1>5, <1>7 DEF SortInv

(* The histograms are those of the flipped keys.                           *)
LEMMA SortHistograms == SortInv /\ Sort!Histograms => SortInv'
<1> SUFFICES ASSUME SortInv, Sort!Histograms PROVE SortInv'
  OBVIOUS
<1>1. /\ pass = 0 /\ moved = 0 /\ contents = unsorted
      /\ pass' = 1 /\ UNCHANGED <<contents, sorted, moved, unsorted>>
      /\ hist' = [d \in 1 .. 3 |-> [v \in Sort!Digit(d) |-> Sort!Less(d, v) - 1]]
  BY DEF SortInv, Sort!Histograms
<1>2. SortTypes
  BY DEF SortInv
<1>3. PICK N \in Nat : DOMAIN unsorted = 1 .. N
  BY <1>2 DEF SortTypes
<1>4. SortTypes'
  <2>1. pass' \in 0 .. 4
    BY <1>1
  <2> QED BY <1>1, <1>2, <2>1 DEF SortTypes
<1> DEFINE a == [j \in DOMAIN unsorted |-> Flipped(j)]
<1>5. Coming' = a
  BY <1>1 DEF Coming, Flipped
<1>6. /\ \A j \in 1 .. N : a[j].id = j /\ a[j].key = Sort!Flip(unsorted[j].key)
      /\ a \in [1 .. N -> Objects]
  BY <1>2, <1>3, FlippedKeys DEF Flipped, SortTypes, Objects
<1>7. DOMAIN a = 1 .. N
  BY <1>3
<1>8. Shuffled(a)
  <2> HIDE DEF a
  <2> QED BY <1>3, <1>6, <1>7 DEF Shuffled
<1>9. Shuffled(Coming)'
  BY <1>1, <1>5, <1>8 DEF Shuffled
<1>10. Ordered(a, 0)
  <2> HIDE DEF a
  <2> QED BY <1>3, <1>6, <1>7 DEF Ordered, Precedes
<1>11. Ordered(Coming, pass - 1)'
  BY <1>1, <1>5, <1>10
<1>12. \A d \in 1 .. 3 : \A v \in Sort!Digit(d) : Sort!Less(d, v) = CountBelow(d, v)
  <2> SUFFICES ASSUME NEW d \in 1 .. 3, NEW v \in Sort!Digit(d)
               PROVE  Sort!Less(d, v) = CountBelow(d, v)
    OBVIOUS
  <2> DEFINE f == [j \in DOMAIN unsorted |-> Sort!Flip(unsorted[j].key)[d]]
  <2>1. {j \in DOMAIN contents : Sort!Flip(contents[j].key)[d] < v} = {j \in DOMAIN f : f[j] < v}
    BY <1>1
  <2>2. \A j \in DOMAIN f : f[j] \in Int
    BY <1>2, FlippedKeys DEF SortTypes, Objects
  <2>3. {j \in DOMAIN f : f[j] < v} = Before(f, 0, v)
    <3>1. \A j \in DOMAIN f : ~(j <= 0)
      BY <1>3
    <3> HIDE DEF f
    <3> QED BY <3>1 DEF Before
  <2> DEFINE below == {j \in DOMAIN contents : Sort!Flip(contents[j].key)[d] < v}
  <2>4. Sort!Less(d, v) = Sort!Cardinality(below)
    BY DEF Sort!Less
  <2>5. CountBelow(d, v) = Cardinality(below)
    BY <2>1, <2>3 DEF CountBelow
  <2> HIDE DEF below
  <2>6. Sort!Cardinality(below) = Cardinality(below)
    BY DEF Sort!Cardinality, Cardinality
  <2> QED BY <2>4, <2>5, <2>6
<1>13. Counts'
  <2>1. ASSUME NEW d \in 1 .. 3, NEW v \in Sort!Digit(d)
        PROVE  /\ hist'[d][v] = CountBelow(d, v) - 1
               /\ Cardinality(Before(DigitsOf(a, d), 0, v)) = CountBelow(d, v)
    <3>1. v \in Int
      BY SortAssumption DEF Sort!Digit
    <3>2. Cardinality(Before(DigitsOf(a, d), 0, v)) = CountBelow(d, v)
      <4> HIDE DEF a
      <4> QED BY <1>2, <1>3, <1>8, <3>1, CountsHold DEF SortTypes
    <3> QED BY <1>1, <1>12, <3>2
  <2>2. \A d \in 1 .. 3 : \A v : CountBelow(d, v)' = CountBelow(d, v)
    BY <1>1 DEF CountBelow
  <2>3. \A d \in 1 .. 3 : DigitsOf(Coming, d)' = DigitsOf(a, d)
    BY <1>5 DEF DigitsOf
  <2>4. DOMAIN hist' = 1 .. 3 /\ \A d \in 1 .. 3 : DOMAIN hist'[d] = Sort!Digit(d)
    BY <1>1
  <2> HIDE DEF a
  <2> QED BY <1>1, <2>1, <2>2, <2>3, <2>4 DEF Counts
<1>14. (pass = 1 => \A j \in DOMAIN unsorted :
                      contents[j] = IF j <= moved THEN Flipped(j) ELSE unsorted[j])'
  <2>1. \A j \in 1 .. N : ~(j <= 0)
    OBVIOUS
  <2> QED BY <1>1, <1>3, <2>1
<1>15. (\A j \in 1 .. moved : Target[Rank(DigitsOf(Coming, pass), j)] = Coming[j])'
  BY <1>1
<1> QED BY <1>1, <1>4, <1>9, <1>11, <1>13, <1>14, <1>15 DEF SortInv

(* What is known of the object that is moved next and of its place.        *)
LEMMA NextObject ==
  ASSUME SortInv, Sort!ToMove, NEW N \in Nat, DOMAIN unsorted = 1 .. N
  PROVE  /\ Sort!Object = Coming[moved + 1]
         /\ Sort!Object \in Objects
         /\ DigitsOf(Coming, pass) \in [1 .. N -> Int]
         /\ DigitsOf(Coming, pass)[moved + 1] = Sort!Object.key[pass]
         /\ Sort!Object.key[pass] \in Sort!Digit(pass)
         /\ Sort!Place = Rank(DigitsOf(Coming, pass), moved + 1)
         /\ Sort!Place \in 1 .. N
<1> DEFINE m == moved + 1
<1>1. pass \in 1 .. 3 /\ m \in 1 .. N /\ moved \in 0 .. N - 1
  BY DEF Sort!ToMove, SortInv, SortTypes
<1>2. Shuffled(Coming) /\ Counts /\ SortTypes
  BY <1>1 DEF SortInv
<1>3. DOMAIN Coming = 1 .. N /\ Coming \in [1 .. N -> Objects]
  BY <1>2 DEF Shuffled
<1>4. Sort!Object = Coming[m]
  <2>1. CASE pass = 1
    <3>1. contents[m] = unsorted[m]
      BY <1>1, <2>1 DEF SortInv
    <3>2. unsorted[m] \in Objects
      BY <1>1, <1>2 DEF SortTypes
    <3>3. [unsorted[m] EXCEPT !.key = Sort!Flip(@)] = Flipped(m)
      BY <3>2 DEF Objects, Flipped
    <3>4. Coming[m] = Flipped(m)
      BY <1>1, <2>1 DEF Coming
    <3>5. Sort!Object = [contents[m] EXCEPT !.key = Sort!Flip(@)]
      BY <2>1 DEF Sort!Object
    <3> QED BY <3>1, <3>3, <3>4, <3>5
  <2>2. CASE pass = 2
    BY <1>1, <2>2 DEF Sort!Object, Coming
  <2>3. CASE pass = 3
    BY <1>1, <2>3 DEF Sort!Object, Coming
  <2> QED BY <1>1, <2>1, <2>2, <2>3
<1>5. \A x \in 1 .. N : /\ Coming[x].key[pass] \in Int
                        /\ Coming[x].key[pass] \in Sort!Digit(pass)
  <2> SUFFICES ASSUME NEW x \in 1 .. N
               PROVE  /\ Coming[x].key[pass] \in Int
                      /\ Coming[x].key[pass] \in Sort!Digit(pass)
    OBVIOUS
  <2>1. /\ unsorted[Coming[x].id].key \in Sort!Key
        /\ Coming[x].key = Sort!Flip(unsorted[Coming[x].id].key)
    BY <1>2, <1>3 DEF Shuffled, SortTypes, Objects
  <2> QED BY <1>1, <2>1, FlippedKeys
<1> DEFINE f == DigitsOf(Coming, pass)
<1>6. f \in [1 .. N -> Int] /\ \A x \in 1 .. N : f[x] = Coming[x].key[pass]
  BY <1>3, <1>5 DEF DigitsOf
<1>7. /\ f[m] = Sort!Object.key[pass]
      /\ Sort!Object.key[pass] \in Sort!Digit(pass) /\ f[m] \in Int
      /\ Sort!Object \in Objects
  BY <1>1, <1>3, <1>4, <1>5, <1>6
<1>8. hist[pass][f[m]] = Cardinality(Before(f, moved, f[m])) - 1
  BY <1>1, <1>2, <1>7 DEF Counts
<1> HIDE DEF f
<1>9. Cardinality(Before(f, m, f[m])) = Cardinality(Before(f, moved, f[m])) + 1
  BY <1>1, <1>6, <1>7, CountNext
<1>10. Cardinality(Before(f, moved, f[m])) \in Nat
  BY <1>6, BeforeFinite
<1>11. Sort!Place = Rank(f, m)
  BY <1>7, <1>8, <1>9, <1>10 DEF Sort!Place, Rank
<1>12. Rank(f, m) \in 1 .. N
  BY <1>1, <1>6, RankTakesAll
<1> QED BY <1>4, <1>6, <1>7, <1>11, <1>12 DEF f

(* An object is moved to its place.                                        *)
LEMMA SortMove == SortInv /\ Sort!Move => SortInv'
<1> SUFFICES ASSUME SortInv, Sort!Move PROVE SortInv'
  OBVIOUS
<1> DEFINE m == moved + 1
           f == DigitsOf(Coming, pass)
<1>1. SortTypes /\ Sort!ToMove
  BY DEF SortInv, Sort!Move
<1>2. PICK N \in Nat : DOMAIN unsorted = 1 .. N
  BY <1>1 DEF SortTypes
<1>3. pass \in 1 .. 3 /\ m \in 1 .. N /\ moved \in 0 .. N - 1
  BY <1>1, <1>2 DEF Sort!ToMove, SortTypes
<1>4. /\ moved' = m /\ UNCHANGED <<pass, unsorted>>
      /\ hist' = [hist EXCEPT ![pass][Sort!Object.key[pass]] = @ + 1]
      /\ pass = 2 => contents' = [contents EXCEPT ![Sort!Place] = Sort!Object] /\ sorted' = sorted
      /\ pass # 2 => /\ contents' = [contents EXCEPT ![m] = Sort!Object]
                     /\ sorted' = [sorted EXCEPT ![Sort!Place] = Sort!Object]
  BY DEF Sort!Move
<1>5. /\ Sort!Object = Coming[m] /\ Sort!Object \in Objects
      /\ f \in [1 .. N -> Int] /\ f[m] = Sort!Object.key[pass]
      /\ f[m] \in Sort!Digit(pass)
      /\ Sort!Place = Rank(f, m) /\ Sort!Place \in 1 .. N
  BY <1>1, <1>2, NextObject
<1>6. SortTypes'
  <2>1. contents' \in [1 .. N -> Objects] /\ sorted' \in [1 .. N -> Objects]
    <3>1. contents \in [1 .. N -> Objects] /\ sorted \in [1 .. N -> Objects]
      BY <1>1, <1>2 DEF SortTypes
    <3> QED BY <1>4, <1>5, <3>1
  <2>2. DOMAIN unsorted' = 1 .. N
    BY <1>2, <1>4
  <2>3. unsorted' \in [DOMAIN unsorted' -> Objects] /\ \A j \in DOMAIN unsorted' : unsorted'[j].id = j
    BY <1>1, <1>4 DEF SortTypes
  <2>4. pass' \in 0 .. 4 /\ moved' \in 1 .. N
    BY <1>1, <1>3, <1>4 DEF SortTypes
  <2> QED BY <2>1, <2>2, <2>3, <2>4 DEF SortTypes
<1>7. Coming' = Coming
  <2>1. CASE pass = 1
    BY <1>4, <2>1 DEF Coming, Flipped
  <2>2. CASE pass = 2
    BY <1>4, <2>2 DEF Coming
  <2>3. CASE pass = 3
    <3>1. Coming[m] = contents[m]
      BY <1>2, <1>3, <2>3 DEF Coming
    <3>2. contents' = contents
      BY <1>1, <1>2, <1>3, <1>4, <1>5, <2>3, <3>1 DEF SortTypes
    <3> QED BY <1>4, <2>3, <3>2 DEF Coming
  <2> QED BY <1>3, <2>1, <2>2, <2>3
<1>8. Target' = [Target EXCEPT ![Sort!Place] = Sort!Object] /\ DOMAIN Target = 1 .. N
  BY <1>1, <1>2, <1>3, <1>4 DEF Target, SortTypes
<1>9. Shuffled(Coming)' /\ Ordered(Coming, pass - 1)'
  <2>1. Shuffled(Coming) /\ Ordered(Coming, pass - 1)
    BY <1>3 DEF SortInv
  <2> QED BY <1>4, <1>7, <2>1 DEF Shuffled, Ordered
<1>10. (pass = 1 => \A j \in DOMAIN unsorted :
                      contents[j] = IF j <= moved THEN Flipped(j) ELSE unsorted[j])'
  <2> SUFFICES ASSUME pass = 1, NEW j \in 1 .. N
               PROVE  contents'[j] = IF j <= m THEN Flipped(j) ELSE unsorted[j]
    BY <1>2, <1>4 DEF Flipped
  <2>1. contents[j] = IF j <= moved THEN Flipped(j) ELSE unsorted[j]
    BY <1>2 DEF SortInv
  <2>2. Coming[m] = Flipped(m)
    BY <1>2, <1>3 DEF Coming
  <2>3. contents'[j] = IF j = m THEN Flipped(m) ELSE contents[j]
    BY <1>1, <1>2, <1>4, <1>5, <2>2 DEF SortTypes
  <2> QED BY <1>3, <2>1, <2>3
<1>11. (\A j \in 1 .. moved : Target[Rank(DigitsOf(Coming, pass), j)] = Coming[j])'
  <2> SUFFICES ASSUME NEW j \in 1 .. m PROVE Target'[Rank(f, j)] = Coming[j]
    BY <1>4, <1>7 DEF DigitsOf
  <2>0. j \in 1 .. N /\ j \in Int /\ Rank(f, j) \in 1 .. N /\ Rank(f, m) \in 1 .. N
    <3>1. j \in 1 .. N
      BY <1>3
    <3> HIDE DEF f
    <3>2. \A x \in 1 .. N : Rank(f, x) \in 1 .. N
      BY <1>5, RankTakesAll
    <3> QED BY <1>3, <3>1, <3>2
  <2>1. CASE j = m
    BY <1>5, <1>8, <2>1
  <2>2. CASE j # m
    <3>1. j \in 1 .. moved
      BY <1>3, <2>2
    <3>2. Target[Rank(f, j)] = Coming[j]
      BY <1>3, <3>1 DEF SortInv
    <3>3. Rank(f, j) # Rank(f, m)
      <4>1. f[j] \in Int /\ f[m] \in Int
        BY <1>3, <1>5, <2>0
      <4> HIDE DEF f
      <4>2. \/ f[j] < f[m] \/ (f[j] = f[m] /\ j < m)
            \/ f[m] < f[j] \/ (f[m] = f[j] /\ m < j)
        BY <1>3, <2>0, <2>2, <4>1
      <4>3. Rank(f, j) < Rank(f, m) \/ Rank(f, m) < Rank(f, j)
        BY <1>3, <1>5, <2>0, <4>2, RankOrder
      <4> QED BY <2>0, <4>3
    <3> HIDE DEF f
    <3> QED BY <1>5, <1>8, <2>0, <3>2, <3>3
  <2> QED BY <2>1, <2>2
<1>12. Counts'
  <2>1. Counts
    BY <1>3 DEF SortInv
  <2>2. DOMAIN hist' = 1 .. 3 /\ \A d \in 1 .. 3 : DOMAIN hist'[d] = Sort!Digit(d)
    BY <1>3, <1>4, <2>1 DEF Counts
  <2>3. ASSUME NEW d \in 1 .. 3, NEW v \in Sort!Digit(d), d > pass
        PROVE  hist'[d][v] = CountBelow(d, v)' - 1
    <3>1. hist'[d] = hist[d]
      BY <1>3, <1>4, <2>1, <2>3 DEF Counts
    <3>2. CountBelow(d, v)' = CountBelow(d, v)
      BY <1>4 DEF CountBelow
    <3> QED BY <2>1, <2>3, <3>1, <3>2 DEF Counts
  <2>4. ASSUME NEW v \in Sort!Digit(pass)
        PROVE  hist'[pass][v] = Cardinality(Before(f, m, v)) - 1
    <3>1. v \in Int
      BY SortAssumption DEF Sort!Digit
    <3>2. hist[pass][v] = Cardinality(Before(f, moved, v)) - 1
      BY <1>3, <2>1 DEF Counts
    <3>3. hist'[pass][v] = IF v = f[m] THEN hist[pass][v] + 1 ELSE hist[pass][v]
      <4> HIDE DEF f
      <4> QED BY <1>3, <1>4, <1>5, <2>1 DEF Counts
    <3> HIDE DEF f
    <3>4. Cardinality(Before(f, moved, v)) \in Nat
      BY <1>5, BeforeFinite
    <3>5. Cardinality(Before(f, m, v)) = Cardinality(Before(f, moved, v)) + (IF f[m] = v THEN 1 ELSE 0)
      BY <1>3, <1>5, <3>1, CountNext
    <3> QED BY <3>2, <3>3, <3>4, <3>5
  <2>5. DigitsOf(Coming, pass)' = f
    BY <1>4, <1>7 DEF DigitsOf
  <2>6. \A d \in 1 .. 3 : \A v \in Sort!Digit(d) : d = pass' =>
            hist'[d][v] = Cardinality(Before(DigitsOf(Coming, d)', moved', v)) - 1
    BY <1>4, <2>4, <2>5
  <2> QED BY <1>4, <2>2, <2>3, <2>6 DEF Counts
<1> QED BY <1>3, <1>4, <1>6, <1>9, <1>10, <1>11, <1>12 DEF SortInv

(* A pass ends, and its target is what the next one comes to.              *)
LEMMA SortNextPass == SortInv /\ Sort!NextPass => SortInv'
<1> SUFFICES ASSUME SortInv, Sort!NextPass PROVE SortInv'
  OBVIOUS
<1> DEFINE f == DigitsOf(Coming, pass)
<1>1. SortTypes
  BY DEF SortInv
<1>2. PICK N \in Nat : DOMAIN unsorted = 1 .. N
  BY <1>1 DEF SortTypes
<1>3. /\ pass \in 1 .. 3 /\ pass' = pass + 1 /\ moved' = 0
      /\ UNCHANGED <<contents, sorted, hist, unsorted>>
  BY DEF Sort!NextPass
<1>4. moved = N
  <2>1. moved + 1 \notin 1 .. N
    BY <1>2 DEF Sort!NextPass, Sort!ToMove
  <2> QED BY <1>1, <1>2, <2>1 DEF SortTypes
<1>5. /\ Shuffled(Coming) /\ Ordered(Coming, pass - 1) /\ Counts
      /\ \A j \in 1 .. N : Target[Rank(f, j)] = Coming[j]
  BY <1>3, <1>4 DEF SortInv
<1>6. Target \in [1 .. N -> Objects]
  BY <1>1, <1>2 DEF Target, SortTypes
<1>7. unsorted \in [1 .. N -> Objects]
  BY <1>1, <1>2 DEF SortTypes
<1>8. Shuffled(Target) /\ Ordered(Target, pass)
  BY <1>2, <1>3, <1>5, <1>6, <1>7, PassSorts
<1>9. SortTypes'
  <2>1. pass' \in 0 .. 4 /\ moved' \in {0}
    BY <1>3
  <2> QED BY <1>1, <1>3, <2>1 DEF SortTypes
<1>10. CASE pass = 3
  <2>1. Target = sorted /\ pass' = 4
    BY <1>3, <1>10 DEF Target
  <2>2. Shuffled(sorted)' /\ Ordered(sorted, 3)'
    BY <1>3, <1>8, <1>10, <2>1 DEF Shuffled, Ordered
  <2> QED BY <1>9, <2>1, <2>2 DEF SortInv
<1>11. CASE pass \in 1 .. 2
  <2>1. Coming' = Target
    <3>1. Coming' = [j \in 1 .. N |-> Target[j]]
      <4>1. CASE pass = 1
        BY <1>2, <1>3, <4>1 DEF Coming, Target
      <4>2. CASE pass = 2
        BY <1>2, <1>3, <4>2 DEF Coming, Target
      <4> QED BY <1>11, <4>1, <4>2
    <3> QED BY <1>6, <3>1
  <2>2. pass' \in 2 .. 3 /\ pass' - 1 = pass
    BY <1>3, <1>11
  <2>3. Shuffled(Coming)' /\ Ordered(Coming, pass - 1)'
    BY <1>3, <1>8, <2>1, <2>2 DEF Shuffled, Ordered
  <2>4. Counts'
    <3>1. ASSUME NEW d \in 1 .. 3, NEW v \in Sort!Digit(d), d > pass
          PROVE  /\ hist[d][v] = CountBelow(d, v) - 1
                 /\ CountBelow(d, v) = Cardinality(Before(DigitsOf(Target, d), 0, v))
                 /\ CountBelow(d, v)' = CountBelow(d, v)
      <4>1. v \in Int
        BY SortAssumption DEF Sort!Digit
      <4>2. CountBelow(d, v) = Cardinality(Before(DigitsOf(Target, d), 0, v))
        BY <1>2, <1>7, <1>8, <4>1, CountsHold
      <4>3. CountBelow(d, v)' = CountBelow(d, v)
        BY <1>3 DEF CountBelow
      <4> QED BY <1>5, <3>1, <4>2, <4>3 DEF Counts
    <3>2. \A d \in 1 .. 3 : DigitsOf(Coming, d)' = DigitsOf(Target, d)
      BY <2>1 DEF DigitsOf
    <3>3. \A d \in 1 .. 3 : d >= pass' => d > pass
      BY <1>3
    <3>4. DOMAIN hist' = 1 .. 3 /\ \A d \in 1 .. 3 : DOMAIN hist'[d] = Sort!Digit(d)
      BY <1>3, <1>5 DEF Counts
    <3>5. ASSUME NEW d \in 1 .. 3, NEW v \in Sort!Digit(d)
          PROVE  /\ d = pass' => hist'[d][v] = Cardinality(Before(DigitsOf(Coming, d)', moved', v)) - 1
                 /\ d > pass' => hist'[d][v] = CountBelow(d, v)' - 1
      BY <1>3, <3>1, <3>2, <3>3, <2>2
    <3> QED BY <3>4, <3>5 DEF Counts
  <2>5. (\A j \in 1 .. moved : Target[Rank(DigitsOf(Coming, pass), j)] = Coming[j])'
    BY <1>3
  <2> QED BY <1>9, <2>2, <2>3, <2>4, <2>5 DEF SortInv
<1> QED BY <1>3, <1>10, <1>11

(* What the invariant says of the array at the end.                        *)
LEMMA SortDone == SortInv => Sort!SortsByDistance
<1> SUFFICES ASSUME SortInv PROVE Sort!SortsByDistance
  OBVIOUS
<1>1. SortTypes
  BY DEF SortInv
<1>2. PICK N \in Nat : DOMAIN unsorted = 1 .. N
  BY <1>1 DEF SortTypes
<1>3. Sort!ToMove => Sort!Place \in DOMAIN unsorted
  BY <1>2, NextObject
<1>4. ASSUME pass = 4 PROVE \A k \in DOMAIN unsorted : \E j \in DOMAIN sorted : sorted[j].id = k
  BY <1>4 DEF SortInv, Shuffled
<1>5. ASSUME pass = 4, NEW j \in 1 .. N, NEW k \in 1 .. N, j < k
      PROVE  \/ Sort!Below(unsorted[sorted[j].id].key, unsorted[sorted[k].id].key)
             \/ /\ unsorted[sorted[j].id].key = unsorted[sorted[k].id].key
                /\ sorted[j].id < sorted[k].id
  <2>1. Shuffled(sorted) /\ Ordered(sorted, 3) /\ DOMAIN sorted = 1 .. N
    BY <1>1, <1>2, <1>5 DEF SortInv, SortTypes
  <2> DEFINE p == unsorted[sorted[j].id].key
             q == unsorted[sorted[k].id].key
  <2>2. /\ sorted[j].key = Sort!Flip(p) /\ sorted[k].key = Sort!Flip(q)
        /\ p \in Sort!Key /\ q \in Sort!Key
    BY <1>1, <2>1 DEF Shuffled, SortTypes, Objects
  <2>3. Precedes(3, sorted[j], sorted[k])
    BY <1>5, <2>1 DEF Ordered
  <2> HIDE DEF p, q
  <2>4. Sort!Flip(p) \in Sort!Key /\ Sort!Flip(q) \in Sort!Key
    BY <2>2, FlippedKeys
  <2>5. \/ Smaller3(Sort!Flip(p), Sort!Flip(q))
        \/ /\ Sort!Flip(p)[1] = Sort!Flip(q)[1] /\ Sort!Flip(p)[2] = Sort!Flip(q)[2]
           /\ Sort!Flip(p)[3] = Sort!Flip(q)[3] /\ sorted[j].id < sorted[k].id
    BY <2>2, <2>3 DEF Precedes, Smaller3
  <2>6. \/ Sort!Below(p, q)
        \/ p = q /\ sorted[j].id < sorted[k].id
    <3>1. CASE Smaller3(Sort!Flip(p), Sort!Flip(q))
      BY <2>2, <3>1, FlipKeepsOrder
    <3>2. CASE /\ Sort!Flip(p)[1] = Sort!Flip(q)[1] /\ Sort!Flip(p)[2] = Sort!Flip(q)[2]
               /\ Sort!Flip(p)[3] = Sort!Flip(q)[3] /\ sorted[j].id < sorted[k].id
      <4>1. Sort!Flip(p) = Sort!Flip(q)
        BY <2>4, <3>2 DEF Sort!Key
      <4> QED BY <2>2, <3>2, <4>1, FlipKeepsOrder
    <3> QED BY <2>5, <3>1, <3>2
  <2> QED BY <2>6 DEF p, q
<1>6. DOMAIN sorted = 1 .. N
  BY <1>1, <1>2 DEF SortTypes
<1> QED BY <1>2, <1>3, <1>4, <1>5, <1>6 DEF Sort!SortsByDistance

(* distance_sort_magic.cpp: the sort sorts, whatever the size of the       *)
(* digits and of the array: no object is moved past the end of an array,   *)
(* none is lost, and at the end they stand in the order of their floats,   *)
(* equal ones in the order given.                                          *)
THEOREM SortIsSorted == Spec => []SortsByDistance
<1> DEFINE Inv == program = "sort" => SortInv
<1>1. Init => Inv
  BY SortInit DEF Init, Start, Is
<1>2. Inv /\ [Next]_vars => Inv'
  <2> SUFFICES ASSUME Inv, [Next]_vars, program' = "sort" PROVE SortInv'
    OBVIOUS
  <2>1. CASE Sorting
    BY <2>1, SortHistograms, SortMove, SortNextPass DEF Sorting, Sort!Next
  <2>2. CASE UNCHANGED <<program, sortVars>>
    <3>1. SortInv /\ UNCHANGED <<contents, sorted, hist, pass, moved, unsorted>>
      BY <2>2 DEF sortVars
    <3>2. /\ Coming' = Coming /\ Target' = Target
          /\ \A j : Flipped(j)' = Flipped(j)
          /\ \A d, v : CountBelow(d, v)' = CountBelow(d, v)
          /\ SortTypes'
      BY <3>1 DEF SortInv, SortTypes, Coming, Target, Flipped, CountBelow
    <3>3. pass \in 1 .. 3 => Shuffled(Coming)' /\ Ordered(Coming, pass - 1)' /\ Counts'
      <4>1. SUFFICES ASSUME pass \in 1 .. 3
                     PROVE  Shuffled(Coming)' /\ Ordered(Coming, pass - 1)' /\ Counts'
        OBVIOUS
      <4>2. Shuffled(Coming) /\ Ordered(Coming, pass - 1) /\ Counts
        BY <3>1, <4>1 DEF SortInv
      <4>3. \A d : DigitsOf(Coming, d)' = DigitsOf(Coming, d)
        BY <3>2 DEF DigitsOf
      <4>4. Counts'
        BY <3>1, <3>2, <4>2, <4>3 DEF Counts
      <4> QED BY <3>1, <3>2, <4>2, <4>4 DEF Shuffled, Ordered
    <3>4. pass = 4 => Shuffled(sorted)' /\ Ordered(sorted, 3)'
      BY <3>1 DEF SortInv, Shuffled, Ordered
    <3>5. pass \in 1 .. 3 =>
            (\A j \in 1 .. moved : Target[Rank(DigitsOf(Coming, pass), j)] = Coming[j])'
      BY <3>1, <3>2 DEF SortInv, DigitsOf
    <3> QED BY <3>1, <3>2, <3>3, <3>4, <3>5 DEF SortInv
  <2>3. CASE ~Sorting
    <3>1. UNCHANGED <<program, sortVars>>
      BY <2>3 DEF Next, Converting, Grading, Reading, Preprocessing, Tabling, vars
    <3> QED BY <2>2, <3>1
  <2> QED BY <2>1, <2>3
<1>3. Inv => SortsByDistance
  BY SortDone DEF SortsByDistance
<1> QED BY <1>1, <1>2, <1>3, PTL DEF Spec

-----------------------------------------------------------------------------
(* my_getline of getline.c.                                                *)

(* The counters of the buffer, and what has been read into it: chr is      *)
(* never below one, so that there is a byte left for the one that ends the *)
(* string.                                                                 *)
GetlineBody ==
  /\ pos \in Nat
  /\ alloc \in {0, n}
  /\ outcome = "reading" => alloc = n /\ chr = n - pos /\ pos < n /\ fed = pos
  /\ outcome = "line" => fed = pos /\ pos < alloc
  /\ outcome = "none" /\ fed > 0 => alloc = 0 \/ stream = "broken"
  /\ outcome # "overrun"

GetlineInv == n \in Nat /\ fed \in Nat /\ (n <= IntMax => GetlineBody)

LEMMA GetlineInit == Lines!Init => GetlineInv
BY GetlineAssumption DEF Lines!Init, GetlineInv, GetlineBody

(* What fits in an int is not changed.                                     *)
LEMMA FitsInt == ASSUME NEW x \in Nat, x <= IntMax PROVE Lines!AsInt(x) = x
<1> DEFINE y == x + IntMax + 1
           m == 2 * (IntMax + 1)
<1>1. y \in Nat /\ m \in Nat /\ y < m /\ IntMax \in Nat
  BY GetlineAssumption
<1>2. y % m = y
  <2> HIDE DEF y, m
  <2> QED BY <1>1
<1>3. Lines!AsInt(x) = (y % m) - (IntMax + 1)
  BY DEF Lines!AsInt
<1> QED BY <1>1, <1>2, <1>3

(* While a line is read into a buffer whose size is an int, the room made  *)
(* in it is room for two bytes, and pos stays where it was.                *)
LEMMA RoomIs ==
  ASSUME GetlineInv, outcome = "reading"
  PROVE  /\ Lines!Room.n \in Nat /\ n <= Lines!Room.n
         /\ Lines!Room.n <= IntMax =>
              /\ GetlineBody
              /\ Lines!Room.pos = pos /\ Lines!Room.chr = Lines!Room.n - pos
              /\ pos + 1 < Lines!Room.n
<1> DEFINE size == Lines!Grown(n)
           left == Lines!AsInt(size - pos)
<1>1. size \in Nat /\ size > n + 1
  BY DEF GetlineInv, Lines!Grown
<1>2. n \in Nat /\ IntMax \in Nat
  BY GetlineAssumption DEF GetlineInv
<1>3. CASE chr < 2
  <2>1. Lines!Room = [n |-> size, chr |-> left, pos |-> size - left]
    BY <1>3 DEF Lines!Room
  <2>2. Lines!Room.n = size /\ Lines!Room.chr = left /\ Lines!Room.pos = size - left
    <3> HIDE DEF size, left
    <3> QED BY <2>1
  <2>3. ASSUME size <= IntMax
        PROVE  GetlineBody /\ left = size - pos /\ size - left = pos /\ pos + 1 < size
    <3>1. GetlineBody /\ pos \in Nat /\ pos < n
      BY <1>1, <1>2, <2>3 DEF GetlineInv, GetlineBody
    <3>2. size - pos \in Nat /\ size - pos <= IntMax
      BY <1>1, <1>2, <2>3, <3>1
    <3>3. left = size - pos
      BY <3>2, FitsInt
    <3> QED BY <1>1, <1>2, <3>1, <3>3
  <2> QED BY <1>1, <1>2, <2>2, <2>3
<1>4. CASE ~(chr < 2)
  <2>1. Lines!Room = [n |-> n, chr |-> chr, pos |-> pos]
    BY <1>4 DEF Lines!Room
  <2>2. Lines!Room.n = n /\ Lines!Room.chr = chr /\ Lines!Room.pos = pos
    BY <2>1
  <2> QED BY <1>2, <1>4, <2>2 DEF GetlineInv, GetlineBody
<1> QED BY <1>3, <1>4

LEMMA GetlineStep == GetlineInv /\ Lines!Next => GetlineInv'
<1> SUFFICES ASSUME GetlineInv, Lines!Next PROVE GetlineInv'
  OBVIOUS
<1>0. IntMax \in Nat /\ n \in Nat /\ fed \in Nat
  BY GetlineAssumption DEF GetlineInv
<1>1. CASE Lines!Begin
  <2>1. n' \in Nat /\ fed' = 0 /\ pos' = 0
    BY <1>0, <1>1 DEF Lines!Begin
  <2>2. ASSUME n' <= IntMax PROVE GetlineBody'
    <3>1. Lines!AsInt(n') = n'
      BY <2>1, <2>2, FitsInt
    <3>2. alloc # 0 => n' = n /\ n # 0
      BY <1>1, <2>2 DEF GetlineInv, GetlineBody, Lines!Begin
    <3>3. alloc = 0 => n' = 64
      BY <1>1 DEF Lines!Begin
    <3> QED BY <1>0, <1>1, <2>1, <3>1, <3>2, <3>3 DEF GetlineBody, Lines!Begin
  <2> QED BY <2>1, <2>2 DEF GetlineInv
<1>2. ASSUME Lines!OutOfMemory, fed' \in Nat PROVE GetlineInv'
  <2>1. n' \in Nat /\ n <= n' /\ alloc' = 0 /\ outcome' = "none" /\ pos' = pos
    BY <1>0, <1>2 DEF Lines!OutOfMemory, Lines!Grown
  <2> QED BY <1>0, <1>2, <2>1 DEF GetlineInv, GetlineBody
<1>3. ASSUME outcome = "reading", Lines!HasRoom
      PROVE  n' \in Nat /\ alloc' = n' /\ n' = Lines!Room.n
  BY <1>3, RoomIs DEF Lines!HasRoom
<1>4. CASE Lines!Character
  <2>1. outcome = "reading" /\ fed' = fed + 1 /\ fed' \in Nat
    BY <1>0, <1>4 DEF Lines!Character
  <2>2. CASE ~Lines!OutOfMemory
    <3>1. /\ Lines!HasRoom /\ pos' = Lines!Room.pos + 1 /\ chr' = Lines!Room.chr - 1
          /\ outcome' \in IF Lines!Room.pos < Lines!Room.n
                         THEN {"reading", Lines!Ended(pos')} ELSE {"overrun"}
      BY <1>4, <2>2 DEF Lines!Character
    <3>2. ASSUME n' <= IntMax PROVE GetlineBody'
      <4>1. /\ GetlineBody /\ pos' = pos + 1 /\ pos' < n' /\ chr' = n' - pos'
            /\ Lines!Room.pos < Lines!Room.n
        BY <1>0, <1>3, <2>1, <3>1, <3>2, RoomIs DEF GetlineBody
      <4>2. outcome' \in {"reading", "line"}
        BY <1>3, <2>1, <3>1, <4>1 DEF Lines!Ended
      <4>3. pos' \in Nat /\ fed' = pos'
        BY <2>1, <4>1 DEF GetlineBody
      <4>4. alloc' = n'
        BY <1>3, <2>1, <3>1
      <4> QED BY <4>1, <4>2, <4>3, <4>4 DEF GetlineBody
    <3> QED BY <1>3, <2>1, <3>1, <3>2 DEF GetlineInv
  <2> QED BY <1>2, <2>1, <2>2
<1>5. CASE Lines!EndOfFile
  <2>1. outcome = "reading" /\ fed' = fed
    BY <1>5 DEF Lines!EndOfFile
  <2>2. CASE ~Lines!OutOfMemory
    <3>1. /\ Lines!HasRoom /\ pos' = Lines!Room.pos
          /\ outcome' = IF pos' = 0 THEN "none" ELSE Lines!Ended(pos')
      BY <1>5, <2>2 DEF Lines!EndOfFile
    <3>2. ASSUME n' <= IntMax PROVE GetlineBody'
      <4>1. GetlineBody /\ pos' = pos /\ pos' < n'
        BY <1>0, <1>3, <2>1, <3>1, <3>2, RoomIs DEF GetlineBody
      <4>2. outcome' = IF pos' = 0 THEN "none" ELSE "line"
        BY <1>3, <2>1, <3>1, <4>1 DEF Lines!Ended
      <4>3. pos' \in Nat /\ fed' = pos'
        BY <2>1, <4>1 DEF GetlineBody
      <4>4. alloc' = n'
        BY <1>3, <2>1, <3>1
      <4> QED BY <4>1, <4>2, <4>3, <4>4 DEF GetlineBody
    <3> QED BY <1>0, <1>3, <2>1, <3>1, <3>2 DEF GetlineInv
  <2> QED BY <1>0, <1>2, <2>1, <2>2
<1>6. CASE Lines!ReadError
  <2>1. outcome = "reading" /\ fed' = fed /\ stream' = "broken"
    BY <1>6 DEF Lines!ReadError
  <2>2. CASE ~Lines!OutOfMemory
    <3>1. Lines!HasRoom /\ pos' = Lines!Room.pos /\ outcome' = "none"
      BY <1>6, <2>2 DEF Lines!ReadError
    <3>2. ASSUME n' <= IntMax PROVE GetlineBody'
      <4>1. pos' \in Nat
        BY <1>0, <1>3, <2>1, <3>1, <3>2, RoomIs DEF GetlineBody
      <4> QED BY <1>3, <2>1, <3>1, <4>1 DEF GetlineBody
    <3> QED BY <1>0, <1>3, <2>1, <3>1, <3>2 DEF GetlineInv
  <2> QED BY <1>0, <1>2, <2>1, <2>2
<1> QED BY <1>1, <1>4, <1>5, <1>6 DEF Lines!Next

(* getline.c: as long as the size of the buffer is an int, whatever the    *)
(* first one is and however long the lines are, a line is returned whole,  *)
(* with room for the byte that ends it, and nothing is written behind it.  *)
THEOREM LinesAreKept == Spec => []LinesKept
<1> DEFINE Inv == program = "getline" => GetlineInv
<1>1. Init => Inv
  BY GetlineInit DEF Init, Start, Is
<1>2. Inv /\ [Next]_vars => Inv'
  <2> SUFFICES ASSUME Inv, [Next]_vars, program' = "getline" PROVE GetlineInv'
    OBVIOUS
  <2>1. CASE Reading
    BY <2>1, GetlineStep DEF Reading
  <2>2. CASE ~Reading
    <3>1. UNCHANGED <<program, getlineVars>>
      BY <2>2 DEF Next, Sorting, Converting, Grading, Preprocessing, Tabling, vars
    <3> QED BY <3>1 DEF GetlineInv, GetlineBody, getlineVars
  <2> QED BY <2>1, <2>2
<1>3. Inv => LinesKept
  BY DEF LinesKept, Lines!LinesKept, GetlineInv, GetlineBody
<1> QED BY <1>1, <1>2, <1>3, PTL DEF Spec

-----------------------------------------------------------------------------
(* convertToHalf and convertToHalfSSE2 of half_float.cpp.                  *)

(* The powers by which halves are made of floats.                          *)
LEMMA Powers ==
  /\ 2 ^ 0 = 1 /\ 2 ^ 1 = 2 /\ 2 ^ 2 = 4 /\ 2 ^ 3 = 8 /\ 2 ^ 4 = 16 /\ 2 ^ 5 = 32
  /\ 2 ^ 6 = 64 /\ 2 ^ 7 = 128 /\ 2 ^ 8 = 256 /\ 2 ^ 9 = 512 /\ 2 ^ 10 = 1024
  /\ 2 ^ 11 = 2048 /\ 2 ^ 12 = 4096 /\ 2 ^ 13 = 8192 /\ 2 ^ 14 = 16384
  /\ 2 ^ 15 = 32768 /\ 2 ^ 16 = 65536 /\ 2 ^ 17 = 131072 /\ 2 ^ 18 = 262144
  /\ 2 ^ 19 = 524288 /\ 2 ^ 20 = 1048576 /\ 2 ^ 21 = 2097152 /\ 2 ^ 22 = 4194304
  /\ 2 ^ 23 = 8388608 /\ 2 ^ 24 = 16777216
OBVIOUS

(* The mantissa of the half 2^t, for its ten small powers of two: t, 2^t,   *)
(* 2^(t + 1) and 2^(23 - t).                                               *)
PowerTable ==
  {<<0, 1, 2, 8388608>>,
   <<1, 2, 4, 4194304>>,
   <<2, 4, 8, 2097152>>,
   <<3, 8, 16, 1048576>>,
   <<4, 16, 32, 524288>>,
   <<5, 32, 64, 262144>>,
   <<6, 64, 128, 131072>>,
   <<7, 128, 256, 65536>>,
   <<8, 256, 512, 32768>>,
   <<9, 512, 1024, 16384>>}

LEMMA PowersAt ==
  ASSUME NEW t \in 0 .. 9
  PROVE  <<t, 2 ^ t, 2 ^ (t + 1), 2 ^ (23 - t)>> \in PowerTable
<1>0. CASE t = 0
  <2>1. t + 1 = 1 /\ 23 - t = 23
    BY <1>0
  <2> QED BY SMT, <1>0, <2>1, Powers DEF PowerTable
<1>1. CASE t = 1
  <2>1. t + 1 = 2 /\ 23 - t = 22
    BY <1>1
  <2> QED BY SMT, <1>1, <2>1, Powers DEF PowerTable
<1>2. CASE t = 2
  <2>1. t + 1 = 3 /\ 23 - t = 21
    BY <1>2
  <2> QED BY SMT, <1>2, <2>1, Powers DEF PowerTable
<1>3. CASE t = 3
  <2>1. t + 1 = 4 /\ 23 - t = 20
    BY <1>3
  <2> QED BY SMT, <1>3, <2>1, Powers DEF PowerTable
<1>4. CASE t = 4
  <2>1. t + 1 = 5 /\ 23 - t = 19
    BY <1>4
  <2> QED BY SMT, <1>4, <2>1, Powers DEF PowerTable
<1>5. CASE t = 5
  <2>1. t + 1 = 6 /\ 23 - t = 18
    BY <1>5
  <2> QED BY SMT, <1>5, <2>1, Powers DEF PowerTable
<1>6. CASE t = 6
  <2>1. t + 1 = 7 /\ 23 - t = 17
    BY <1>6
  <2> QED BY SMT, <1>6, <2>1, Powers DEF PowerTable
<1>7. CASE t = 7
  <2>1. t + 1 = 8 /\ 23 - t = 16
    BY <1>7
  <2> QED BY SMT, <1>7, <2>1, Powers DEF PowerTable
<1>8. CASE t = 8
  <2>1. t + 1 = 9 /\ 23 - t = 15
    BY <1>8
  <2> QED BY SMT, <1>8, <2>1, Powers DEF PowerTable
<1>9. CASE t = 9
  <2>1. t + 1 = 10 /\ 23 - t = 14
    BY <1>9
  <2> QED BY SMT, <1>9, <2>1, Powers DEF PowerTable
<1> QED BY <1>0, <1>1, <1>2, <1>3, <1>4, <1>5, <1>6, <1>7, <1>8, <1>9

LEMMA ThousandOver ==
  ASSUME NEW t \in 0 .. 9
  PROVE  1024 \div 2 ^ (10 - t) = 2 ^ t /\ 2 ^ t \in Int
<1>1. CASE t = 0
  <2>1. 10 - t = 10
    BY <1>1
  <2>2. 2 ^ (10 - t) = 1024 /\ 2 ^ t = 1
    BY <1>1, <2>1, Powers
  <2>3. 1024 \div 1024 = 1
    OBVIOUS
  <2>4. 1 \in Int
    OBVIOUS
  <2> QED BY SMT, <2>2, <2>3, <2>4
<1>2. CASE t # 0
  <2>1. PICK u \in 0 .. 9 : u = 10 - t
    BY <1>2
  <2>2. \A x, y \in PowerTable : x[1] + y[1] = 10 => 1024 \div y[2] = x[2] /\ x[2] \in Int
    BY SMT DEF PowerTable
  <2> DEFINE x == <<t, 2 ^ t, 2 ^ (t + 1), 2 ^ (23 - t)>>
             y == <<u, 2 ^ u, 2 ^ (u + 1), 2 ^ (23 - u)>>
  <2>3. x \in PowerTable /\ y \in PowerTable
    BY PowersAt
  <2>4. x[1] = t /\ x[2] = 2 ^ t /\ y[1] = u /\ y[2] = 2 ^ u
    OBVIOUS
  <2> HIDE DEF x, y
  <2>5. x[1] + y[1] = 10
    BY <2>1, <2>4
  <2>6. 1024 \div y[2] = x[2] /\ x[2] \in Int
    BY <2>2, <2>3, <2>5
  <2>7. 1024 \div 2 ^ u = 2 ^ t /\ 2 ^ t \in Int
    BY SMT, <2>4, <2>6
  <2> QED BY SMT, <2>1, <2>7
<1> QED BY <1>1, <1>2

(* The float of a half below 2^-14.                                        *)
LEMMA WidenedSmall ==
  ASSUME NEW t \in 0 .. 9, NEW h \in Nat, 2 ^ t <= h, h < 2 ^ (t + 1)
  PROVE  h \in 1 .. 1023 /\ Half!Widened(h) = <<t + 103, (h - 2 ^ t) * 2 ^ (23 - t)>>
<1>1. \A x, y \in PowerTable :
         x[2] <= h /\ h < x[3] /\ y[2] <= h /\ h < y[3] => x[1] = y[1] /\ h \in 1 .. 1023
  BY SMT DEF PowerTable
<1>2. ASSUME NEW b \in 0 .. 9, 2 ^ b <= h, h < 2 ^ (b + 1) PROVE b = t
  <2> DEFINE x == <<b, 2 ^ b, 2 ^ (b + 1), 2 ^ (23 - b)>>
             y == <<t, 2 ^ t, 2 ^ (t + 1), 2 ^ (23 - t)>>
  <2>1. x \in PowerTable /\ y \in PowerTable
    BY PowersAt
  <2>2. x[2] <= h /\ h < x[3] /\ y[2] <= h /\ h < y[3]
    BY <1>2
  <2> QED BY <1>1, <2>1, <2>2
<1>3. h \in 1 .. 1023
  <2> DEFINE y == <<t, 2 ^ t, 2 ^ (t + 1), 2 ^ (23 - t)>>
  <2>1. y \in PowerTable /\ y[2] <= h /\ h < y[3]
    BY PowersAt
  <2> HIDE DEF y
  <2> QED BY <1>1, <2>1
<1> DEFINE top == CHOOSE b \in 0 .. 9 : 2 ^ b <= h /\ h < 2 ^ (b + 1)
<1>4. top = t
  BY <1>2
<1>5. h # 0 /\ h < 1024
  BY <1>3
<1>6. Half!Widened(h) = <<top + 103, (h - 2 ^ top) * 2 ^ (23 - top)>>
  BY ZenonT(60), <1>5 DEF Half!Widened
<1> HIDE DEF top
<1> QED BY <1>3, <1>4, <1>6

(* The half that a float becomes when it is cut off.                       *)
TowardsZero(f) ==
  IF f.exp < 103 THEN 0
  ELSE IF f.exp < 113 THEN (2 ^ 23 + f.man) \div 2 ^ (126 - f.exp)
  ELSE IF f.exp < 143 THEN (f.exp - 112) * 1024 + f.man \div 2 ^ 13
  ELSE IF f.exp < 255 THEN 31 * 1024
  ELSE 31 * 1024 + f.man \div 2 ^ 13

LEMMA FloatParts ==
  ASSUME NEW f \in Half!Floats
  PROVE  f.exp \in 0 .. 255 /\ f.man \in 0 .. 2 ^ 23 - 1 /\ Half!Sign(f) \in Int
<1>1. f.sign \in {0, 1} /\ f.exp \in 0 .. 255 /\ f.man \in 0 .. 2 ^ 23 - 1
  BY Zenon DEF Half!Floats
<1> QED BY SMT, <1>1 DEF Half!Sign

(* A small half: the leading one and as much of the mantissa as there is   *)
(* room for.                                                               *)
LEMMA SmallHalf ==
  ASSUME NEW f \in Half!Floats, f.exp \in 103 .. 112, NEW t \in 0 .. 9, t = f.exp - 103
  PROVE  /\ TowardsZero(f) = 2 ^ t + f.man \div 2 ^ (23 - t)
         /\ 2 ^ t <= TowardsZero(f) /\ TowardsZero(f) < 2 ^ (t + 1)
         /\ (TowardsZero(f) - 2 ^ t) * 2 ^ (23 - t) <= f.man
         /\ (TowardsZero(f) + 1 - 2 ^ t) * 2 ^ (23 - t) > f.man
         /\ TowardsZero(f) \in Nat
<1> DEFINE a == 2 ^ t  b == 2 ^ (t + 1)  c == 2 ^ (23 - t)  m == f.man
<1>1. f.exp - 103 \in 0 .. 9 /\ 126 - f.exp = 23 - t /\ m \in 0 .. 2 ^ 23 - 1
  BY FloatParts
<1>2. TowardsZero(f) = (2 ^ 23 + m) \div c
  BY <1>1 DEF TowardsZero
<1>3. <<t, a, b, c>> \in PowerTable
  BY PowersAt
<1> HIDE DEF a, b, c, m
<1>4. ASSUME NEW x \in PowerTable
      PROVE  LET h == (2 ^ 23 + m) \div x[4]
             IN /\ h = x[2] + m \div x[4]
                /\ x[2] <= h /\ h < x[3] /\ h \in Nat
                /\ (h - x[2]) * x[4] <= m
                /\ (h + 1 - x[2]) * x[4] > m
  BY SMT, <1>1 DEF PowerTable
<1>5. LET h == (2 ^ 23 + m) \div c
      IN /\ h = a + m \div c
         /\ a <= h /\ h < b /\ h \in Nat
         /\ (h - a) * c <= m
         /\ (h + 1 - a) * c > m
  <2> DEFINE x == <<t, a, b, c>>
  <2>1. x[2] = a /\ x[3] = b /\ x[4] = c /\ x \in PowerTable
    BY <1>3
  <2> HIDE DEF x
  <2> QED BY <1>4, <2>1
<1> QED BY <1>2, <1>5 DEF a, b, c, m

(* It is the half next to the float towards zero.                          *)
Closest(f, a) ==
  /\ a \in 0 .. 31 * 1024 - 1
  /\ Half!AtMost(Half!Widened(a), <<f.exp, f.man>>)
  /\ ~Half!AtMost(Half!Widened(a + 1), <<f.exp, f.man>>)

LEMMA NoHalfIsSmaller ==
  ASSUME NEW f \in Half!Floats, f.exp < 103
  PROVE  Closest(f, 0)
<1> DEFINE m == f.man
           e == f.exp
<1>1. e \in 0 .. 255 /\ m \in 0 .. 2 ^ 23 - 1
  BY FloatParts
<1>2. Half!Widened(0) = <<0, 0>>
  BY DEF Half!Widened
<1>3. Half!Widened(1) = <<103, 0>>
  <2>1. 2 ^ 0 = 1 /\ 2 ^ (0 + 1) = 2
    BY Powers
  <2>2. Half!Widened(1) = <<0 + 103, (1 - 2 ^ 0) * 2 ^ (23 - 0)>>
    BY <2>1, WidenedSmall
  <2> DEFINE c == 2 ^ (23 - 0)
  <2>3. c \in Int
    BY Powers
  <2> HIDE DEF c
  <2>4. (1 - 2 ^ 0) * c = 0
    BY <2>1, <2>3
  <2> QED BY <2>2, <2>4 DEF c
<1>4. Half!AtMost(<<0, 0>>, <<e, m>>)
  BY <1>1 DEF Half!AtMost
<1>5. ~Half!AtMost(<<103, 0>>, <<e, m>>)
  BY <1>1 DEF Half!AtMost
<1>6. 0 \in 0 .. 31 * 1024 - 1 /\ 0 + 1 = 1
  OBVIOUS
<1> QED BY <1>2, <1>3, <1>4, <1>5, <1>6 DEF Closest

(* The half after a small one.                                             *)
LEMMA WidenedNext ==
  ASSUME NEW t \in 0 .. 9, NEW h \in Nat, h + 1 = 2 ^ (t + 1)
  PROVE  Half!Widened(h + 1)[1] = t + 104
<1>1. CASE t = 9
  <2>1. t + 1 = 10
    BY <1>1
  <2>2. 2 ^ (t + 1) = 2 ^ 10
    BY <2>1
  <2>3. h + 1 = 1024
    BY <2>2, Powers
  <2>4. Half!Widened(1024) = <<1024 \div 1024 + 112, (1024 % 1024) * 2 ^ 13>>
    BY DEF Half!Widened
  <2>5. 1024 \div 1024 + 112 = t + 104
    BY <1>1
  <2> QED BY <2>3, <2>4, <2>5
<1>2. CASE t # 9
  <2>1. PICK u \in 0 .. 9 : u = t + 1
    BY <1>2
  <2>2. h + 1 = 2 ^ u
    BY <2>1
  <2>3. 2 ^ u <= 2 ^ u /\ 2 ^ u < 2 ^ (u + 1) /\ 2 ^ u \in Nat
    <3> DEFINE p == 2 ^ u  q == 2 ^ (u + 1)  c == 2 ^ (23 - u)
    <3>1. <<u, p, q, c>> \in PowerTable
      BY PowersAt
    <3> HIDE DEF p, q, c
    <3>2. \A x \in PowerTable : x[2] <= x[2] /\ x[2] < x[3] /\ x[2] \in Nat
      BY SMT DEF PowerTable
    <3>3. p <= p /\ p < q /\ p \in Nat
      <4> DEFINE x == <<u, p, q, c>>
      <4>1. x[2] = p /\ x[3] = q /\ x \in PowerTable
        BY <3>1
      <4> HIDE DEF x
      <4> QED BY <3>2, <4>1
    <3> QED BY <3>3 DEF p, q
  <2>4. Half!Widened(2 ^ u) = <<u + 103, (2 ^ u - 2 ^ u) * 2 ^ (23 - u)>>
    BY ZenonT(60), <2>3, WidenedSmall
  <2> QED BY <2>1, <2>2, <2>4
<1> QED BY <1>1, <1>2

LEMMA SmallHalfIsClosest ==
  ASSUME NEW f \in Half!Floats, f.exp \in 103 .. 112
  PROVE  Closest(f, TowardsZero(f))
<1> DEFINE m == f.man
           e == f.exp
<1>1. e \in 103 .. 112 /\ m \in Int
  BY FloatParts
<1>2. PICK t \in 0 .. 9 : t = e - 103 /\ t + 103 = e
  BY <1>1
<1>3. PICK a : a = TowardsZero(f)
  OBVIOUS
<1> DEFINE p == 2 ^ t
           q == 2 ^ (t + 1)
           c == 2 ^ (23 - t)
<1>4. /\ p <= a /\ a < q /\ (a - p) * c <= m /\ (a + 1 - p) * c > m /\ a \in Nat
  BY <1>1, <1>2, <1>3, SmallHalf
<1>5. p \in Int /\ q \in Int /\ c \in Int
  <2>1. <<t, p, q, c>> \in PowerTable
    BY PowersAt
  <2> HIDE DEF p, q, c
  <2>2. \A x \in PowerTable : x[2] \in Int /\ x[3] \in Int /\ x[4] \in Int
    BY SMT DEF PowerTable
  <2> DEFINE x == <<t, p, q, c>>
  <2>3. x[2] = p /\ x[3] = q /\ x[4] = c /\ x \in PowerTable
    BY <2>1
  <2> HIDE DEF x
  <2> QED BY <2>2, <2>3
<1>6. a \in 1 .. 1023 /\ Half!Widened(a) = <<t + 103, (a - p) * c>>
  BY Zenon, <1>4, WidenedSmall
<1>7. a + 1 < q => Half!Widened(a + 1) = <<t + 103, (a + 1 - p) * c>>
  <2>1. SUFFICES ASSUME a + 1 < q PROVE Half!Widened(a + 1) = <<t + 103, (a + 1 - p) * c>>
    OBVIOUS
  <2>2. PICK b \in Nat : b = a + 1
    BY <1>4
  <2>3. p <= b /\ b < q
    <3> HIDE DEF p, q
    <3> QED BY <1>4, <1>5, <2>1, <2>2
  <2>4. Half!Widened(b) = <<t + 103, (b - p) * c>>
    BY ZenonT(60), <2>3, WidenedSmall
  <2>5. b - p = a + 1 - p
    <3>1. a \in Nat /\ p \in Int
      BY <1>4, <1>5
    <3> QED BY SMT, <2>2, <3>1
  <2> QED BY Zenon, <2>2, <2>4, <2>5
<1>8. a + 1 = q => Half!Widened(a + 1)[1] = t + 104
  BY <1>4, WidenedNext
<1> HIDE DEF p, q, c, m, e
<1>9. Half!AtMost(Half!Widened(a), <<e, m>>)
  <2> DEFINE w == (a - p) * c
  <2>1. w <= m /\ Half!Widened(a) = <<e, w>>
    BY <1>2, <1>4, <1>6
  <2> HIDE DEF w
  <2> QED BY <2>1 DEF Half!AtMost
<1>10. ~Half!AtMost(Half!Widened(a + 1), <<e, m>>)
  <2>1. CASE a + 1 < q
    <3> DEFINE w == (a + 1 - p) * c
    <3>1. w > m /\ Half!Widened(a + 1) = <<e, w>> /\ w \in Int
      <4>1. a + 1 - p \in Int
        BY <1>4, <1>5
      <4> QED BY <1>2, <1>4, <1>5, <1>7, <2>1, <4>1
    <3> HIDE DEF w
    <3> QED BY <1>1, <3>1 DEF Half!AtMost
  <2>2. CASE a + 1 = q
    <3>1. Half!Widened(a + 1)[1] = e + 1
      BY <1>1, <1>2, <1>8, <2>2
    <3> QED BY <1>1, <3>1 DEF Half!AtMost
  <2> QED BY <1>4, <1>5, <2>1, <2>2
<1>11. a \in 0 .. 31 * 1024 - 1
  BY <1>6
<1>12. Closest(f, a)
  BY <1>9, <1>10, <1>11 DEF Closest, m, e
<1> QED BY <1>3, <1>12

LEMMA NormalHalfIsClosest ==
  ASSUME NEW f \in Half!Floats, f.exp \in 113 .. 142
  PROVE  Closest(f, TowardsZero(f))
<1> DEFINE m == f.man
           e == f.exp
           d == m \div 2 ^ 13
<1>1. e \in 113 .. 142 /\ m \in 0 .. 2 ^ 23 - 1
  BY FloatParts
<1>2. d \in 0 .. 1023 /\ d * 2 ^ 13 <= m /\ m < (d + 1) * 2 ^ 13 /\ (d + 1) * 2 ^ 13 \in Int
  <2> HIDE DEF m
  <2> QED BY SMT, <1>1
<1>3. TowardsZero(f) = (e - 112) * 1024 + d
  BY <1>1 DEF TowardsZero
<1> HIDE DEF m, e, d
<1>4. PICK a \in Nat : a = (e - 112) * 1024 + d
  BY <1>1, <1>2
<1>5. a \in 1024 .. 31 * 1024 - 1 /\ a \div 1024 = e - 112 /\ a % 1024 = d
  <2>1. PICK k \in 1 .. 30 : k = e - 112
    BY <1>1
  <2>2. d \in 0 .. 1023 /\ a = k * 1024 + d
    BY <1>2, <1>4, <2>1
  <2>3. a \in 1024 .. 31 * 1024 - 1
    BY SMT, <2>2
  <2>4. a \div 1024 = k
    BY SMT, <2>2
  <2>5. a % 1024 = d
    BY SMT, <2>2
  <2> QED BY <2>1, <2>3, <2>4, <2>5
<1>6. Half!Widened(a) = <<e, d * 2 ^ 13>>
  <2>1. Half!Widened(a) = <<a \div 1024 + 112, (a % 1024) * 2 ^ 13>>
    BY <1>5 DEF Half!Widened
  <2> QED BY <1>1, <1>5, <2>1
<1>7. Half!AtMost(Half!Widened(a), <<e, m>>)
  <2> DEFINE w == d * 2 ^ 13
  <2>1. w <= m /\ Half!Widened(a) = <<e, w>>
    BY <1>2, <1>6
  <2> HIDE DEF w
  <2> QED BY <2>1 DEF Half!AtMost
<1>8. Half!Widened(a + 1) = <<(a + 1) \div 1024 + 112, ((a + 1) % 1024) * 2 ^ 13>>
  BY <1>5 DEF Half!Widened
<1>9. d = 1023 => ~Half!AtMost(Half!Widened(a + 1), <<e, m>>)
  <2>0. SUFFICES ASSUME d = 1023 PROVE ~Half!AtMost(Half!Widened(a + 1), <<e, m>>)
    OBVIOUS
  <2>1. (a + 1) \div 1024 + 112 = e + 1
    BY SMT, <1>1, <1>4, <2>0
  <2>2. Half!Widened(a + 1)[1] = e + 1
    BY <1>8, <2>1
  <2> QED BY <1>1, <2>2 DEF Half!AtMost
<1>10. d < 1023 => ~Half!AtMost(Half!Widened(a + 1), <<e, m>>)
  <2>0. SUFFICES ASSUME d < 1023 PROVE ~Half!AtMost(Half!Widened(a + 1), <<e, m>>)
    OBVIOUS
  <2>1. (a + 1) \div 1024 + 112 = e /\ (a + 1) % 1024 = d + 1
    BY SMT, <1>1, <1>2, <1>4, <2>0
  <2> DEFINE w == (d + 1) * 2 ^ 13
  <2>2. Half!Widened(a + 1) = <<e, w>> /\ w > m /\ w \in Int
    BY <1>2, <1>8, <2>1
  <2> HIDE DEF w
  <2> QED BY <1>1, <2>2 DEF Half!AtMost
<1>11. ~Half!AtMost(Half!Widened(a + 1), <<e, m>>)
  BY <1>2, <1>9, <1>10
<1>12. TowardsZero(f) = a
  BY Zenon, <1>3, <1>4
<1>13. a \in 0 .. 31 * 1024 - 1
  BY SMT, <1>5
<1> QED BY Zenon, <1>7, <1>11, <1>12, <1>13 DEF Closest, m, e

(* So the half that is cut off is the one next to the float.               *)
LEMMA TowardsZeroIs ==
  ASSUME NEW f \in Half!Floats
  PROVE  Half!IsTowardsZero(f, Half!Sign(f) + TowardsZero(f)) /\ TowardsZero(f) \in Nat
<1> DEFINE a == TowardsZero(f)
           s == Half!Sign(f)
<1>1. f.exp \in 0 .. 255 /\ f.man \in 0 .. 2 ^ 23 - 1 /\ s \in Int
  BY FloatParts
<1>2. f.exp >= 143 => a = 31 * 1024 + (IF f.exp = 255 THEN f.man \div 2 ^ 13 ELSE 0)
  BY <1>1 DEF TowardsZero
<1>3. f.exp < 143 => Closest(f, a)
  <2>1. CASE f.exp < 103
    <3>1. TowardsZero(f) = 0
      BY <2>1 DEF TowardsZero
    <3> QED BY <2>1, <3>1, NoHalfIsSmaller
  <2>2. CASE f.exp \in 103 .. 112
    BY <2>2, SmallHalfIsClosest
  <2>3. CASE f.exp \in 113 .. 142
    BY <2>3, NormalHalfIsClosest
  <2> QED BY <1>1, <2>1, <2>2, <2>3
<1>4. a \in Nat
  <2>1. CASE f.exp >= 143
    <3>1. f.man \div 2 ^ 13 \in Nat
      BY <1>1
    <3> HIDE DEF a
    <3> QED BY <1>2, <2>1, <3>1
  <2>2. CASE f.exp < 143
    <3>1. Closest(f, a)
      BY <1>3, <2>2
    <3> HIDE DEF a
    <3>2. a \in 0 .. 31 * 1024 - 1
      BY <3>1 DEF Closest
    <3> QED BY <3>2
  <2> QED BY <1>1, <2>1, <2>2
<1> HIDE DEF a, s
<1>5. (s + a) - s = a
  BY <1>1, <1>4
<1>6. Half!IsTowardsZero(f, s + a)
  <2>1. CASE f.exp >= 143
    <3>1. a = 31 * 1024 + (IF f.exp = 255 THEN f.man \div 2 ^ 13 ELSE 0)
      BY Zenon, <1>2, <2>1
    <3>2. CASE f.exp = 255
      <4>1. a = 31 * 1024 + f.man \div 2 ^ 13
        BY <3>1, <3>2
      <4>2. Half!StaysSpecial(f, a)
        BY SMT, <1>1, <4>1 DEF Half!StaysSpecial, Half!Infinity
      <4> QED BY ZenonT(60), <1>5, <3>2, <4>2 DEF Half!IsTowardsZero, s
    <3>3. CASE f.exp # 255
      <4>1. a = Half!Infinity
        BY <3>1, <3>3 DEF Half!Infinity
      <4> QED BY ZenonT(60), <1>5, <2>1, <3>3, <4>1 DEF Half!IsTowardsZero, s
    <3> QED BY <3>2, <3>3
  <2>2. CASE ~(f.exp >= 143)
    <3>1. Closest(f, a)
      BY <1>1, <1>3, <2>2
    <3>2. f.exp # 255
      BY <1>1, <2>2
    <3> QED BY ZenonT(60), <1>5, <2>2, <3>1, <3>2 DEF Half!IsTowardsZero, Closest, s
  <2> QED BY <2>1, <2>2
<1> QED BY <1>4, <1>6 DEF a, s

(* Without SSE2 a float is cut off.                                        *)
LEMMA ConvertToHalfIs ==
  ASSUME NEW f \in Half!Floats
  PROVE  Half!ConvertToHalf(f) = Half!Sign(f) + TowardsZero(f)
<1> DEFINE s == Half!Sign(f)
           m == f.man
           e == f.exp
<1>1. e \in 0 .. 255 /\ m \in 0 .. 2 ^ 23 - 1 /\ s \in Int
  BY FloatParts
<1>2. m \div 2 ^ 24 = 0
  BY SMT, <1>1
<1>3. m \div 2 ^ 13 \in Int
  BY <1>1
<1>4. CASE e < 103
  <2>1. Half!Base(f) = s + 0
    BY <1>1, <1>4 DEF Half!Base
  <2>2. Half!Shift(f) = 24
    BY <1>1, <1>4 DEF Half!Shift
  <2>3. TowardsZero(f) = 0
    BY <1>4 DEF TowardsZero
  <2> QED BY <1>1, <1>2, <2>1, <2>2, <2>3 DEF Half!ConvertToHalf
<1>5. CASE e \in 103 .. 112
  <2>1. PICK t \in 0 .. 9 : t = e - 103
    BY <1>5
  <2>2. TowardsZero(f) = 2 ^ t + m \div 2 ^ (23 - t)
    BY Zenon, <1>5, <2>1, SmallHalf
  <2>3. Half!Base(f) = s + 1024 \div 2 ^ (10 - t)
    <3>1. -(e - 127) - 14 = 10 - t
      BY <1>5, <2>1
    <3>2. ~(e - 127 < -24) /\ e - 127 < -14
      BY <1>5
    <3>3. Half!Base(f) = s + 1024 \div 2 ^ (-(e - 127) - 14)
      BY SMT, <3>2 DEF Half!Base
    <3> QED BY SMT, <3>1, <3>3
  <2>4. Half!Shift(f) = 23 - t
    <3>1. -(e - 127) - 1 = 23 - t
      BY <1>5, <2>1
    <3>2. ~(e - 127 < -24) /\ e - 127 < -14
      BY <1>5
    <3> QED BY Zenon, <3>1, <3>2 DEF Half!Shift
  <2>5. 1024 \div 2 ^ (10 - t) = 2 ^ t /\ 2 ^ t \in Int
    BY Zenon, ThousandOver
  <2>6. m \div 2 ^ (23 - t) \in Int
    <3> DEFINE x == <<t, 2 ^ t, 2 ^ (t + 1), 2 ^ (23 - t)>>
    <3>1. x \in PowerTable /\ x[4] = 2 ^ (23 - t)
      BY PowersAt
    <3> HIDE DEF x, m
    <3>2. \A y \in PowerTable : m \div y[4] \in Int
      BY SMT, <1>1 DEF PowerTable
    <3>3. m \div x[4] \in Int
      BY Zenon, <3>1, <3>2
    <3> QED BY Zenon, <3>1, <3>3
  <2> DEFINE p == 2 ^ t
             r == m \div 2 ^ (23 - t)
  <2>7. Half!ConvertToHalf(f) = (s + p) + r
    BY ZenonT(60), <2>3, <2>4, <2>5 DEF Half!ConvertToHalf
  <2>8. TowardsZero(f) = p + r /\ p \in Int /\ r \in Int
    BY <2>2, <2>5, <2>6
  <2> HIDE DEF p, r, s
  <2> QED BY <1>1, <2>7, <2>8 DEF s
<1>6. CASE e \in 113 .. 142
  <2>1. Half!Base(f) = s + (e - 112) * 1024
    BY <1>1, <1>6 DEF Half!Base
  <2>2. Half!Shift(f) = 13
    BY <1>1, <1>6 DEF Half!Shift
  <2>3. TowardsZero(f) = (e - 112) * 1024 + m \div 2 ^ 13
    BY <1>6 DEF TowardsZero
  <2>4. Half!ConvertToHalf(f) = (s + (e - 112) * 1024) + m \div 2 ^ 13
    BY <2>1, <2>2 DEF Half!ConvertToHalf
  <2> DEFINE r == m \div 2 ^ 13
  <2> HIDE DEF r, s
  <2> QED BY <1>1, <1>3, <2>3, <2>4 DEF r, s
<1>7. CASE e \in 143 .. 254
  <2>1. Half!Base(f) = s + 31 * 1024
    BY <1>1, <1>7 DEF Half!Base
  <2>2. Half!Shift(f) = 24
    BY <1>1, <1>7 DEF Half!Shift
  <2>3. TowardsZero(f) = 31 * 1024
    BY <1>7 DEF TowardsZero
  <2> QED BY <1>1, <1>2, <2>1, <2>2, <2>3 DEF Half!ConvertToHalf
<1>8. CASE e = 255
  <2>1. Half!Base(f) = s + 31 * 1024
    BY <1>1, <1>8 DEF Half!Base
  <2>2. Half!Shift(f) = 13
    BY <1>1, <1>8 DEF Half!Shift
  <2>3. TowardsZero(f) = 31 * 1024 + m \div 2 ^ 13
    BY <1>8 DEF TowardsZero
  <2>4. Half!ConvertToHalf(f) = (s + 31 * 1024) + m \div 2 ^ 13
    BY <2>1, <2>2 DEF Half!ConvertToHalf
  <2> DEFINE r == m \div 2 ^ 13
  <2> HIDE DEF r, s
  <2> QED BY <1>1, <1>3, <2>3, <2>4 DEF r, s
<1> QED BY <1>1, <1>4, <1>5, <1>6, <1>7, <1>8

(* What SSE2 loses of a small float, and then of what is left.             *)
ShiftTable ==
  {<<1, 2, 16384>>, <<2, 4, 32768>>, <<3, 8, 65536>>, <<4, 16, 131072>>,
   <<5, 32, 262144>>, <<6, 64, 524288>>, <<7, 128, 1048576>>,
   <<8, 256, 2097152>>, <<9, 512, 4194304>>, <<10, 1024, 8388608>>}

LEMMA ShiftsAt ==
  ASSUME NEW b \in 1 .. 10
  PROVE  <<b, 2 ^ b, 2 ^ (b + 13)>> \in ShiftTable
<1>1. CASE b = 1
  <2>1. b + 13 = 14
    BY <1>1
  <2> QED BY SMT, <1>1, <2>1, Powers DEF ShiftTable
<1>2. CASE b = 2
  <2>1. b + 13 = 15
    BY <1>2
  <2> QED BY SMT, <1>2, <2>1, Powers DEF ShiftTable
<1>3. CASE b = 3
  <2>1. b + 13 = 16
    BY <1>3
  <2> QED BY SMT, <1>3, <2>1, Powers DEF ShiftTable
<1>4. CASE b = 4
  <2>1. b + 13 = 17
    BY <1>4
  <2> QED BY SMT, <1>4, <2>1, Powers DEF ShiftTable
<1>5. CASE b = 5
  <2>1. b + 13 = 18
    BY <1>5
  <2> QED BY SMT, <1>5, <2>1, Powers DEF ShiftTable
<1>6. CASE b = 6
  <2>1. b + 13 = 19
    BY <1>6
  <2> QED BY SMT, <1>6, <2>1, Powers DEF ShiftTable
<1>7. CASE b = 7
  <2>1. b + 13 = 20
    BY <1>7
  <2> QED BY SMT, <1>7, <2>1, Powers DEF ShiftTable
<1>8. CASE b = 8
  <2>1. b + 13 = 21
    BY <1>8
  <2> QED BY SMT, <1>8, <2>1, Powers DEF ShiftTable
<1>9. CASE b = 9
  <2>1. b + 13 = 22
    BY <1>9
  <2> QED BY SMT, <1>9, <2>1, Powers DEF ShiftTable
<1>10. CASE b = 10
  <2>1. b + 13 = 23
    BY <1>10
  <2> QED BY SMT, <1>10, <2>1, Powers DEF ShiftTable
<1> QED BY <1>1, <1>2, <1>3, <1>4, <1>5, <1>6, <1>7, <1>8, <1>9, <1>10

(* A power that takes all but a few bits of a float whose half is zero.    *)
LEMMA LargeShift ==
  ASSUME NEW b \in 11 .. 24, NEW k \in Nat, k < 2 ^ 24
  PROVE  k \div 2 ^ b \in 0 .. 2 ^ 13 - 1
<1>1. 2 ^ b \in {2 ^ 11, 2 ^ 12, 2 ^ 13, 2 ^ 14, 2 ^ 15, 2 ^ 16, 2 ^ 17, 2 ^ 18, 2 ^ 19,
                 2 ^ 20, 2 ^ 21, 2 ^ 22, 2 ^ 23, 2 ^ 24}
  <2>1. b \in {11, 12, 13, 14, 15, 16, 17, 18, 19, 20, 21, 22, 23, 24}
    OBVIOUS
  <2> QED BY Zenon, <2>1
<1>2. PICK p : p = 2 ^ b
  OBVIOUS
<1>3. p \in {2048, 4096, 8192, 16384, 32768, 65536, 131072, 262144, 524288,
             1048576, 2097152, 4194304, 8388608, 16777216}
  BY SMT, <1>1, <1>2, Powers
<1>4. k < 16777216
  BY SMT, Powers
<1>5. k \div p \in 0 .. 8191
  BY SMT, <1>3, <1>4
<1>6. PICK d : d = k \div p /\ d = k \div 2 ^ b
  BY Zenon, <1>2
<1>7. d \in 0 .. 8191
  BY SMT, <1>5, <1>6
<1>8. d \in 0 .. 2 ^ 13 - 1
  BY SMT, <1>7
<1> QED BY Zenon, <1>6, <1>8

(* Rounding a small float changes the half that is left of it by one, and  *)
(* only when it rounds up to that half.                                    *)
LEMMA RoundedIs ==
  ASSUME NEW f \in Half!Floats, f.exp \in 89 .. 112
  PROVE  LET r == Half!Nearest(2 ^ 23 + f.man, 113 - f.exp)
         IN \/ r \div 2 ^ 13 = TowardsZero(f)
            \/ r \div 2 ^ 13 = TowardsZero(f) + 1 /\ r % 2 ^ 13 = 0
<1>1. f.exp \in 0 .. 255 /\ f.man \in 0 .. 2 ^ 23 - 1
  BY FloatParts
<1>2. PICK k \in Nat : k = 2 ^ 23 + f.man /\ k < 2 ^ 24
  <2> DEFINE m == f.man
  <2>1. m \in 0 .. 2 ^ 23 - 1
    BY <1>1
  <2> HIDE DEF m
  <2>2. 2 ^ 23 + m \in Nat /\ 2 ^ 23 + m < 2 ^ 24
    BY SMT, <2>1
  <2> QED BY Zenon, <2>2 DEF m
<1>3. PICK b \in 1 .. 24 : b = 113 - f.exp
  OBVIOUS
<1>4. PICK q : q = k \div 2 ^ b
  OBVIOUS
<1>5. PICK r : r = Half!Nearest(k, b)
  OBVIOUS
<1>6. r = q \/ r = q + 1
  BY Zenon, <1>4, <1>5 DEF Half!Nearest
<1>7. q \in Nat /\ q \div 2 ^ 13 = TowardsZero(f)
  <2>1. CASE b \in 11 .. 24
    <3>1. q \in 0 .. 2 ^ 13 - 1
      BY Zenon, <1>2, <1>4, <2>1, LargeShift
    <3>2. TowardsZero(f) = 0
      BY <1>3, <2>1 DEF TowardsZero
    <3> QED BY SMT, <3>1, <3>2
  <2>2. CASE b \in 1 .. 10
    <3>1. 126 - f.exp = b + 13 /\ ~(f.exp < 103) /\ f.exp < 113
      BY <1>3, <2>2
    <3>2. TowardsZero(f) = k \div 2 ^ (b + 13)
      BY Zenon, <1>2, <3>1 DEF TowardsZero
    <3>3. \A x \in ShiftTable : k \div x[2] \in Nat /\ (k \div x[2]) \div 2 ^ 13 = k \div x[3]
      BY SMT, <1>2 DEF ShiftTable
    <3> DEFINE x == <<b, 2 ^ b, 2 ^ (b + 13)>>
    <3>4. x \in ShiftTable /\ x[2] = 2 ^ b /\ x[3] = 2 ^ (b + 13)
      BY <2>2, ShiftsAt
    <3> HIDE DEF x
    <3>5. k \div x[2] \in Nat /\ (k \div x[2]) \div 2 ^ 13 = k \div x[3]
      BY <3>3, <3>4
    <3>6. q = k \div x[2] /\ TowardsZero(f) = k \div x[3]
      BY Zenon, <1>4, <3>2, <3>4
    <3> QED BY Zenon, <3>5, <3>6
  <2> QED BY <2>1, <2>2
<1>8. r \div 2 ^ 13 = q \div 2 ^ 13 \/ (r \div 2 ^ 13 = q \div 2 ^ 13 + 1 /\ r % 2 ^ 13 = 0)
  <2>1. q \in Nat
    BY <1>7
  <2> QED BY SMT, <1>6, <2>1
<1>9. r = Half!Nearest(2 ^ 23 + f.man, 113 - f.exp)
  BY SMT, <1>2, <1>3, <1>5
<1> QED BY <1>7, <1>8, <1>9

(* With SSE2 a float is cut off, or rounded to the half that comes next.   *)
LEMMA ConvertToHalfSSE2Is ==
  ASSUME NEW f \in Half!Floats
  PROVE  LET h == Half!ConvertToHalfSSE2(f)
         IN \/ h = Half!Sign(f) + TowardsZero(f)
            \/ /\ h = Half!Sign(f) + TowardsZero(f) + 1
               /\ f.exp <= 112
               /\ Half!Nearest(2 ^ 23 + f.man, 113 - f.exp) % 2 ^ 13 = 0
<1> DEFINE s == Half!Sign(f)
           a == TowardsZero(f)
           r == Half!Nearest(2 ^ 23 + f.man, 113 - f.exp)
<1>1. f.exp \in 0 .. 255 /\ s \in Int /\ a \in Nat
  BY FloatParts, TowardsZeroIs
<1>2. CASE f.exp = 255
  <2>1. a = 31 * 1024 + f.man \div 2 ^ 13
    BY <1>2 DEF TowardsZero
  <2> QED BY <1>2, <2>1 DEF Half!ConvertToHalfSSE2
<1>3. f.exp # 255 => Half!ConvertToHalfSSE2(f) = s + Half!Scaled(f)
  BY DEF Half!ConvertToHalfSSE2
<1>4. CASE f.exp \in 143 .. 254
  <2>1. a = 31 * 1024
    BY <1>4 DEF TowardsZero
  <2>2. Half!Scaled(f) = 31 * 1024
    BY <1>4 DEF Half!Scaled
  <2> QED BY <1>3, <1>4, <2>1, <2>2
<1>5. CASE f.exp \in 113 .. 142
  <2>1. a = (f.exp - 112) * 1024 + f.man \div 2 ^ 13
    BY <1>5 DEF TowardsZero
  <2>2. Half!Scaled(f) = (f.exp - 112) * 1024 + f.man \div 2 ^ 13
    BY <1>5 DEF Half!Scaled
  <2> QED BY <1>3, <1>5, <2>1, <2>2
<1>6. CASE f.exp \in 0 .. 88
  <2>1. a = 0
    BY <1>6 DEF TowardsZero
  <2>2. Half!Scaled(f) = 0
    BY <1>6 DEF Half!Scaled
  <2> QED BY <1>3, <1>6, <2>1, <2>2
<1>7. CASE f.exp \in 89 .. 112
  <2>1. Half!Scaled(f) = r \div 2 ^ 13
    BY <1>7 DEF Half!Scaled
  <2>2. r \div 2 ^ 13 = a \/ (r \div 2 ^ 13 = a + 1 /\ r % 2 ^ 13 = 0)
    BY <1>7, RoundedIs
  <2>3. Half!ConvertToHalfSSE2(f) = s + r \div 2 ^ 13 /\ f.exp <= 112
    BY <1>3, <1>7, <2>1
  <2> DEFINE d == r \div 2 ^ 13
             z == r % 2 ^ 13
  <2>4. Half!ConvertToHalfSSE2(f) = s + d /\ (d = a \/ (d = a + 1 /\ z = 0)) /\ f.exp <= 112
    BY <2>2, <2>3
  <2> HIDE DEF d, z, s, a
  <2>5. s + (a + 1) = s + a + 1
    BY <1>1
  <2>6. \/ Half!ConvertToHalfSSE2(f) = s + a
        \/ Half!ConvertToHalfSSE2(f) = s + a + 1 /\ f.exp <= 112 /\ z = 0
    BY Zenon, <2>4, <2>5
  <2> QED BY Zenon, <2>6 DEF z, s, a
<1> QED BY <1>1, <1>2, <1>4, <1>5, <1>6, <1>7

-----------------------------------------------------------------------------
(* What the build may make of the float f.                                 *)
MayBe(h, f) ==
  \/ Half!IsTowardsZero(f, h)
  \/ /\ sse2 /\ f.exp <= 112
     /\ Half!IsTowardsZero(f, h - 1)
     /\ Half!Nearest(2 ^ 23 + f.man, 113 - f.exp) % 2 ^ 13 = 0

LEMMA CutOffMayBe ==
  ASSUME NEW f \in Half!Floats
  PROVE  Half!ConvertToHalf(f) \in Int /\ Half!IsTowardsZero(f, Half!ConvertToHalf(f))
<1>1. Half!Sign(f) \in Int /\ TowardsZero(f) \in Nat
  BY FloatParts, TowardsZeroIs
<1>2. Half!Sign(f) + TowardsZero(f) \in Int
  BY <1>1
<1> QED BY Zenon, <1>2, ConvertToHalfIs, TowardsZeroIs

LEMMA RoundedMayBe ==
  ASSUME NEW f \in Half!Floats, sse2
  PROVE  Half!ConvertToHalfSSE2(f) \in Int /\ MayBe(Half!ConvertToHalfSSE2(f), f)
<1> DEFINE h == Half!Sign(f) + TowardsZero(f)
<1>1. h \in Int
  BY FloatParts, TowardsZeroIs
<1>2. Half!IsTowardsZero(f, h)
  BY Zenon, TowardsZeroIs
<1>3. PICK k : k = Half!ConvertToHalfSSE2(f)
  OBVIOUS
<1>4. \/ k = h
      \/ /\ k = h + 1 /\ f.exp <= 112
         /\ Half!Nearest(2 ^ 23 + f.man, 113 - f.exp) % 2 ^ 13 = 0
  BY Zenon, <1>3, ConvertToHalfSSE2Is
<1> HIDE DEF h
<1>5. CASE k = h
  BY Zenon, <1>1, <1>2, <1>3, <1>5 DEF MayBe
<1>6. CASE /\ k = h + 1 /\ f.exp <= 112
           /\ Half!Nearest(2 ^ 23 + f.man, 113 - f.exp) % 2 ^ 13 = 0
  <2>1. k - 1 = h /\ k \in Int
    BY <1>1, <1>6
  <2> QED BY Zenon, <1>2, <1>3, <1>6, <2>1 DEF MayBe
<1> QED BY <1>4, <1>5, <1>6

(* How many floats have been converted, and which; those that SSE2 leaves  *)
(* are converted at every other place, if there is more than one of them.  *)
Converted ==
  IF ~sse2 THEN 1 .. turn
  ELSE IF turn = 0 THEN 1 .. where
  ELSE 1 .. Half!InBlocks + 1

HalfInv ==
  /\ in \in Seq(Half!Floats)
  /\ sse2 \in BOOLEAN /\ where \in Nat /\ turn \in Nat
  /\ DOMAIN result = DOMAIN in
  /\ \A j \in DOMAIN in :
       /\ \/ result[j] = Nil
          \/ result[j] \in Int /\ MayBe(result[j], in[j]) /\ j <= Half!InBlocks
          \/ result[j] \in Int /\ Half!IsTowardsZero(in[j], result[j])
       /\ j \in Converted => result[j] # Nil
  /\ IF sse2
     THEN /\ where <= Half!InBlocks + turn
          /\ turn = 0 => where % 4 = 0
          /\ turn > 0 => where = Half!InBlocks + turn
          /\ turn <= Half!Rest
     ELSE turn <= Half!Length
  /\ status \in {"running", "done", "overrun"}
  /\ status = "done" =>
       /\ sse2 => where = Half!InBlocks + turn /\ turn = Half!Rest
       /\ ~sse2 => turn = Half!Length
  /\ sse2 /\ turn >= 2 => Half!Rest = 3 \/ status = "overrun"
  /\ sse2 /\ turn = 3 => status = "overrun"
  /\ status = "overrun" => sse2 /\ Half!Rest >= 2

LEMMA HalfLength ==
  ASSUME in \in Seq(Half!Floats)
  PROVE  /\ Half!Length \in Nat /\ DOMAIN in = 1 .. Half!Length
         /\ Half!InBlocks \in Nat /\ Half!InBlocks % 4 = 0
         /\ Half!Rest \in 0 .. 3 /\ Half!Length = Half!InBlocks + Half!Rest
<1>1. Half!Length \in Nat /\ DOMAIN in = 1 .. Half!Length
  BY DEF Half!Length
<1>2. ASSUME NEW c \in Nat
      PROVE  4 * (c \div 4) \in Nat /\ (4 * (c \div 4)) % 4 = 0 /\ c % 4 \in 0 .. 3
             /\ c = (4 * (c \div 4)) + (c % 4)
  BY SMT
<1> QED BY <1>1, <1>2 DEF Half!InBlocks, Half!Rest

LEMMA HalfInit == Half!Init => HalfInv
<1> SUFFICES ASSUME Half!Init PROVE HalfInv
  OBVIOUS
<1>1. in \in Seq(Half!Floats)
  BY HalfAssumption DEF Half!Init
<1>2. DOMAIN result = DOMAIN in /\ \A j \in DOMAIN in : result[j] = Nil
  BY DEF Half!Init
<1>3. sse2 \in BOOLEAN /\ where = 0 /\ turn = 0 /\ status = "running"
  BY DEF Half!Init
<1>4. Converted = {}
  BY <1>3 DEF Converted
<1> QED BY <1>1, <1>2, <1>3, <1>4, HalfLength DEF HalfInv

LEMMA HalfBlock == HalfInv /\ Half!Block => HalfInv'
<1> SUFFICES ASSUME HalfInv, Half!Block PROVE HalfInv'
  OBVIOUS
<1>1. /\ in \in Seq(Half!Floats) /\ sse2 /\ status = "running"
      /\ where \in Nat /\ turn = 0 /\ where % 4 = 0 /\ where < Half!InBlocks
  BY HalfLength DEF HalfInv, Half!Block
<1>2. where + 4 <= Half!InBlocks /\ (where + 4) % 4 = 0
  <2>1. ASSUME NEW c \in Nat, NEW k \in Nat, c % 4 = 0, k % 4 = 0, k < c
        PROVE  k + 4 <= c /\ (k + 4) % 4 = 0
    BY SMT, <2>1
  <2> QED BY <1>1, <2>1, HalfLength
<1>3. /\ in' = in /\ sse2' = sse2 /\ where' = where + 4 /\ turn' = turn /\ status' = status
      /\ Half!InBlocks' = Half!InBlocks /\ Half!Rest' = Half!Rest /\ Half!Length' = Half!Length
  BY DEF Half!Block, Half!InBlocks, Half!Rest, Half!Length
<1>4. /\ DOMAIN result' = DOMAIN in
      /\ \A j \in DOMAIN in :
           result'[j] = IF j \in where + 1 .. where + 4
                        THEN Half!ConvertToHalfSSE2(in[j]) ELSE result[j]
  BY DEF Half!Block
<1>5. ASSUME NEW j \in DOMAIN in
      PROVE  /\ \/ result'[j] = Nil
                \/ result'[j] \in Int /\ MayBe(result'[j], in[j]) /\ j <= Half!InBlocks
                \/ result'[j] \in Int /\ Half!IsTowardsZero(in[j], result'[j])
             /\ j \in 1 .. where + 4 => result'[j] # Nil
  <2>1. CASE j \in where + 1 .. where + 4
    <3>1. in[j] \in Half!Floats
      BY <1>1, <1>5
    <3>2. result'[j] \in Int /\ MayBe(result'[j], in[j])
      BY <1>1, <1>4, <1>5, <2>1, <3>1, RoundedMayBe
    <3>3. j <= Half!InBlocks
      BY <1>1, <1>2, <2>1, HalfLength
    <3> QED BY <3>2, <3>3, HalfAssumption
  <2>2. CASE j \notin where + 1 .. where + 4
    <3>1. result'[j] = result[j]
      BY <1>4, <1>5, <2>2
    <3>2. j \in 1 .. where + 4 => j \in Converted
      BY <1>1, <2>2 DEF Converted
    <3> QED BY <1>5, <3>1, <3>2 DEF HalfInv
  <2> QED BY <2>1, <2>2
<1>6. Converted' = 1 .. where + 4
  BY <1>1, <1>3 DEF Converted
<1>7. \A h, f : MayBe(h, f)' <=> MayBe(h, f)
  BY <1>3 DEF MayBe
<1>8. \A j \in DOMAIN in' :
        /\ \/ result'[j] = Nil
           \/ result'[j] \in Int /\ MayBe(result[j], in[j])' /\ j <= Half!InBlocks'
           \/ result'[j] \in Int /\ Half!IsTowardsZero(in[j], result[j])'
        /\ j \in Converted' => result'[j] # Nil
  BY <1>3, <1>5, <1>6 DEF MayBe
<1> QED BY <1>1, <1>2, <1>3, <1>4, <1>8, HalfLength DEF HalfInv

(* A float that is converted alone leaves the rest of the result alone.    *)
LEMMA HalfOne ==
  ASSUME HalfInv, NEW c \in DOMAIN in,
         result' = [result EXCEPT ![c] = Half!ConvertToHalf(in[c])],
         in' = in, sse2' = sse2
  PROVE  /\ DOMAIN result' = DOMAIN in'
         /\ \A j \in DOMAIN in' :
              /\ \/ result'[j] = Nil
                 \/ result'[j] \in Int /\ MayBe(result[j], in[j])' /\ j <= Half!InBlocks'
                 \/ result'[j] \in Int /\ Half!IsTowardsZero(in[j], result[j])'
              /\ j \in Converted \/ j = c => result'[j] # Nil
<1>1. DOMAIN result' = DOMAIN in
  BY DEF HalfInv
<1>2. Half!InBlocks' = Half!InBlocks
  BY DEF Half!InBlocks, Half!Length
<1>3. ASSUME NEW j \in DOMAIN in
      PROVE  /\ \/ result'[j] = Nil
                \/ result'[j] \in Int /\ MayBe(result[j], in[j])' /\ j <= Half!InBlocks'
                \/ result'[j] \in Int /\ Half!IsTowardsZero(in[j], result[j])'
             /\ j \in Converted \/ j = c => result'[j] # Nil
  <2>1. CASE j = c
    <3>1. in[c] \in Half!Floats
      <4>1. in \in Seq(Half!Floats)
        BY DEF HalfInv
      <4> QED BY <4>1
    <3>2. result'[j] = Half!ConvertToHalf(in[j])
      BY <2>1 DEF HalfInv
    <3>3. Half!ConvertToHalf(in[j]) \in Int
          /\ Half!IsTowardsZero(in[j], Half!ConvertToHalf(in[j]))
      BY Zenon, <2>1, <3>1, CutOffMayBe
    <3>4. Half!IsTowardsZero(in[j], result[j])'
      BY Zenon, <3>2, <3>3
    <3> QED BY <3>2, <3>3, <3>4, HalfAssumption
  <2>2. CASE j # c
    <3>1. result'[j] = result[j]
      BY <2>2 DEF HalfInv
    <3>2. MayBe(result[j], in[j])' <=> MayBe(result[j], in[j])
      BY <3>1 DEF MayBe
    <3>3. Half!IsTowardsZero(in[j], result[j])' <=> Half!IsTowardsZero(in[j], result[j])
      BY <3>1
    <3> QED BY <1>2, <1>3, <2>2, <3>1, <3>2, <3>3 DEF HalfInv
  <2> QED BY <2>1, <2>2
<1> QED BY <1>1, <1>3

LEMMA HalfRemainder == HalfInv /\ Half!Remainder => HalfInv'
<1> SUFFICES ASSUME HalfInv, Half!Remainder PROVE HalfInv'
  OBVIOUS
<1>1. /\ in \in Seq(Half!Floats) /\ sse2 /\ status = "running"
      /\ where \in Nat /\ turn \in Nat /\ turn < Half!Rest
      /\ where = Half!InBlocks + turn
  BY HalfLength DEF HalfInv, Half!Remainder
<1>2. /\ in' = in /\ sse2' = sse2 /\ where' = where + 1 /\ turn' = turn + 1
      /\ Half!InBlocks' = Half!InBlocks /\ Half!Rest' = Half!Rest /\ Half!Length' = Half!Length
  BY DEF Half!Remainder, Half!InBlocks, Half!Rest, Half!Length
<1>3. /\ Half!InBlocks \in Nat /\ Half!Rest \in 0 .. 3
      /\ Half!Length = Half!InBlocks + Half!Rest /\ DOMAIN in = 1 .. Half!Length
      /\ turn \in 0 .. 2 /\ (turn = 2 => Half!Rest = 3)
  BY <1>1, HalfLength
<1>4. Converted' = 1 .. Half!InBlocks + 1
  BY <1>1, <1>2 DEF Converted
<1>5. where' = Half!InBlocks' + turn' /\ where' \in Nat /\ turn' \in Nat /\ turn' > 0
      /\ turn' <= Half!Rest'
  <2>1. /\ where + 1 = Half!InBlocks + (turn + 1) /\ where + 1 \in Nat
        /\ turn + 1 \in Nat /\ turn + 1 > 0 /\ turn + 1 <= Half!Rest
    BY <1>1, <1>3
  <2> QED BY <1>2, <2>1
<1>6. CASE where + turn < Half!Length
  <2> DEFINE c == where + turn + 1
  <2>1. c \in DOMAIN in /\ (turn = 0 => c = Half!InBlocks + 1) /\ turn \in {0, 1}
        /\ (turn = 1 => Half!Rest = 3)
    BY <1>1, <1>3, <1>6
  <2>2. result' = [result EXCEPT ![c] = Half!ConvertToHalf(in[c])] /\ status' = status
    BY <1>6 DEF Half!Remainder
  <2> HIDE DEF c
  <2>3. 1 .. Half!InBlocks + 1 \subseteq Converted \cup {c}
    <3>1. CASE turn = 0
      <4>1. Converted = 1 .. where /\ where = Half!InBlocks
        BY <1>1, <3>1, HalfLength DEF Converted
      <4> QED BY <2>1, <3>1, <4>1, HalfLength, <1>1
    <3>2. CASE turn = 1
      BY <1>1, <3>2 DEF Converted
    <3> QED BY <2>1, <3>1, <3>2
  <2>4. /\ DOMAIN result' = DOMAIN in'
        /\ \A j \in DOMAIN in' :
             /\ \/ result'[j] = Nil
                \/ result'[j] \in Int /\ MayBe(result[j], in[j])' /\ j <= Half!InBlocks'
                \/ result'[j] \in Int /\ Half!IsTowardsZero(in[j], result[j])'
             /\ j \in Converted \/ j = c => result'[j] # Nil
    BY <1>2, <2>1, <2>2, HalfOne
  <2>5. \A j \in DOMAIN in' : j \in Converted' => result'[j] # Nil
    BY <1>4, <2>3, <2>4
  <2>6. turn' >= 2 => Half!Rest' = 3
    BY <1>2, <2>1
  <2>7. turn' \in {1, 2}
    BY <1>2, <2>1
  <2> QED BY <1>1, <1>2, <1>5, <2>2, <2>4, <2>5, <2>6, <2>7 DEF HalfInv
<1>7. CASE ~(where + turn < Half!Length)
  <2>1. result' = result /\ status' = "overrun"
    BY <1>7 DEF Half!Remainder
  <2>2. Half!Rest >= 2 /\ turn > 0
    BY <1>1, <1>3, <1>7
  <2>3. Converted = Converted'
    BY <1>1, <1>4, <2>2 DEF Converted
  <2>4. \A h, f : MayBe(h, f)' <=> MayBe(h, f)
    BY <1>2 DEF MayBe
  <2>5. \A j \in DOMAIN in' :
          /\ \/ result'[j] = Nil
             \/ result'[j] \in Int /\ MayBe(result[j], in[j])' /\ j <= Half!InBlocks'
             \/ result'[j] \in Int /\ Half!IsTowardsZero(in[j], result[j])'
          /\ j \in Converted' => result'[j] # Nil
    BY <1>2, <2>1, <2>3 DEF HalfInv, MayBe
  <2> QED BY <1>1, <1>2, <1>5, <2>1, <2>2, <2>5 DEF HalfInv
<1> QED BY <1>6, <1>7

LEMMA HalfOneByOne == HalfInv /\ Half!OneByOne => HalfInv'
<1> SUFFICES ASSUME HalfInv, Half!OneByOne PROVE HalfInv'
  OBVIOUS
<1> DEFINE c == turn + 1
<1>1. /\ in \in Seq(Half!Floats) /\ ~sse2 /\ status = "running"
      /\ where \in Nat /\ turn \in Nat /\ turn < Half!Length
  BY DEF HalfInv, Half!OneByOne
<1>2. /\ in' = in /\ sse2' = sse2 /\ where' = where /\ turn' = c /\ status' = status
      /\ Half!InBlocks' = Half!InBlocks /\ Half!Rest' = Half!Rest /\ Half!Length' = Half!Length
  BY DEF Half!OneByOne, Half!InBlocks, Half!Rest, Half!Length
<1>3. result' = [result EXCEPT ![c] = Half!ConvertToHalf(in[c])]
  BY DEF Half!OneByOne
<1>4. c \in DOMAIN in /\ c \in Nat /\ c <= Half!Length
  BY <1>1, HalfLength
<1>5. Converted' \subseteq Converted \cup {c}
  BY <1>1, <1>2 DEF Converted
<1> HIDE DEF c
<1>6. /\ DOMAIN result' = DOMAIN in'
      /\ \A j \in DOMAIN in' :
           /\ \/ result'[j] = Nil
              \/ result'[j] \in Int /\ MayBe(result[j], in[j])' /\ j <= Half!InBlocks'
              \/ result'[j] \in Int /\ Half!IsTowardsZero(in[j], result[j])'
           /\ j \in Converted \/ j = c => result'[j] # Nil
  BY <1>2, <1>3, <1>4, HalfOne
<1>7. \A j \in DOMAIN in' : j \in Converted' => result'[j] # Nil
  BY <1>5, <1>6
<1> QED BY <1>1, <1>2, <1>4, <1>6, <1>7 DEF HalfInv

LEMMA HalfReturn == HalfInv /\ Half!Return => HalfInv'
<1> SUFFICES ASSUME HalfInv, Half!Return PROVE HalfInv'
  OBVIOUS
<1>1. /\ in \in Seq(Half!Floats) /\ status = "running" /\ status' = "done"
      /\ where \in Nat /\ turn \in Nat
      /\ IF sse2 THEN where >= Half!InBlocks /\ turn = Half!Rest ELSE turn = Half!Length
  BY DEF HalfInv, Half!Return
<1>2. /\ in' = in /\ sse2' = sse2 /\ where' = where /\ turn' = turn /\ result' = result
      /\ Half!InBlocks' = Half!InBlocks /\ Half!Rest' = Half!Rest /\ Half!Length' = Half!Length
  BY DEF Half!Return, Half!InBlocks, Half!Rest, Half!Length
<1>3. Converted' = Converted /\ \A h, f : MayBe(h, f)' <=> MayBe(h, f)
  BY <1>2 DEF Converted, MayBe
<1>4. sse2 => where = Half!InBlocks + turn /\ turn \in {0, 1}
  BY <1>1, HalfLength DEF HalfInv
<1>5. \A j \in DOMAIN in' :
        /\ \/ result'[j] = Nil
           \/ result'[j] \in Int /\ MayBe(result[j], in[j])' /\ j <= Half!InBlocks'
           \/ result'[j] \in Int /\ Half!IsTowardsZero(in[j], result[j])'
        /\ j \in Converted' => result'[j] # Nil
  BY <1>2, <1>3 DEF HalfInv, MayBe
<1>6. DOMAIN result' = DOMAIN in'
  BY <1>2 DEF HalfInv
<1>7. IF sse2
      THEN /\ where <= Half!InBlocks + turn
           /\ turn = 0 => where % 4 = 0
           /\ turn > 0 => where = Half!InBlocks + turn
           /\ turn <= Half!Rest
      ELSE turn <= Half!Length
  BY DEF HalfInv
<1> QED BY <1>1, <1>2, <1>4, <1>5, <1>6, <1>7, HalfLength DEF HalfInv

LEMMA HalfAgrees == HalfInv => Half!HalvesAgree
<1> SUFFICES ASSUME HalfInv PROVE Half!HalvesAgree
  OBVIOUS
<1>1. ASSUME NEW j \in DOMAIN in
      PROVE  \/ result[j] = Nil
             \/ Half!IsTowardsZero(in[j], result[j])
             \/ /\ sse2 /\ j <= Half!InBlocks
                /\ in[j].exp <= 112
                /\ Half!IsTowardsZero(in[j], result[j] - 1)
                /\ Half!Nearest(2 ^ 23 + in[j].man, 113 - in[j].exp) % 2 ^ 13 = 0
  BY Zenon, <1>1 DEF HalfInv, MayBe
<1>2. status = "done" => \A j \in DOMAIN in : result[j] # Nil
  <2>1. SUFFICES ASSUME status = "done" PROVE DOMAIN in \subseteq Converted
    BY DEF HalfInv
  <2>2. CASE sse2
    <3>1. /\ where = Half!InBlocks + turn /\ turn = Half!Rest
          /\ turn \in {0, 1} /\ Half!InBlocks \in Nat
          /\ DOMAIN in = 1 .. Half!InBlocks + Half!Rest
      BY <2>1, <2>2, HalfLength DEF HalfInv
    <3> QED BY <2>2, <3>1 DEF Converted
  <2>3. CASE ~sse2
    <3>1. turn = Half!Length /\ DOMAIN in = 1 .. Half!Length
      BY <2>1, <2>3, HalfLength DEF HalfInv
    <3> QED BY <2>3, <3>1 DEF Converted
  <2> QED BY <2>2, <2>3
<1>3. status = "overrun" => sse2 /\ Half!Rest >= 2
  BY DEF HalfInv
<1> QED BY Zenon, <1>1, <1>2, <1>3 DEF Half!HalvesAgree

(* half_float.cpp: for every array of floats and both builds, what is      *)
(* converted is the half next to the float, or with SSE2 the one that a    *)
(* small float is rounded up to; nothing is left out, and the array is not *)
(* overrun unless SSE2 leaves two or three floats to be converted alone.   *)
(* It says nothing of what becomes of a NaN whose upper ten bits are 0.    *)
THEOREM HalvesDoAgree == Spec => []HalvesAgree
<1> DEFINE Inv == program = "half" => HalfInv
<1>1. Init => Inv
  BY HalfInit DEF Init, Start, Is
<1>2. Inv /\ [Next]_vars => Inv'
  <2> SUFFICES ASSUME Inv, [Next]_vars, program' = "half" PROVE HalfInv'
    OBVIOUS
  <2>1. CASE Converting
    BY <2>1, HalfBlock, HalfRemainder, HalfOneByOne, HalfReturn DEF Converting, Half!Next
  <2>2. CASE ~Converting
    <3>1. UNCHANGED <<program, halfVars>>
      BY <2>2 DEF Next, Sorting, Grading, Reading, Preprocessing, Tabling, vars
    <3>2. UNCHANGED <<sse2, in, result, where, turn, status>> /\ HalfInv
      BY <3>1 DEF halfVars
    <3>3. Half!InBlocks' = Half!InBlocks /\ Half!Rest' = Half!Rest /\ Half!Length' = Half!Length
      BY <3>2 DEF Half!InBlocks, Half!Rest, Half!Length
    <3>4. Converted' = Converted
      BY <3>2, <3>3 DEF Converted
    <3>5. \A j \in DOMAIN in' :
            /\ \/ result'[j] = Nil
               \/ result'[j] \in Int /\ MayBe(result[j], in[j])' /\ j <= Half!InBlocks'
               \/ result'[j] \in Int /\ Half!IsTowardsZero(in[j], result[j])'
            /\ j \in Converted' => result'[j] # Nil
      BY <3>2, <3>3, <3>4 DEF HalfInv, MayBe
    <3> QED BY <3>2, <3>3, <3>5 DEF HalfInv
  <2> QED BY <2>1, <2>2
<1>3. Inv => HalvesAgree
  BY HalfAgrees DEF HalvesAgree
<1> QED BY <1>1, <1>2, <1>3, PTL DEF Spec

-----------------------------------------------------------------------------
(* RGB2HSL, HSL2RGB and grade of color_grader.cpp.                         *)

Colours == Grade!Byte \X Grade!Byte \X Grade!Byte

(* What is rounded is within a half of what was not.                       *)
LEMMA RoundIs ==
  ASSUME NEW x \in Nat, NEW d \in Nat \ {0}
  PROVE  /\ Grade!Round(x, d) \in Nat
         /\ 2 * (d * Grade!Round(x, d)) <= 2 * x + d
         /\ 2 * x < 2 * (d * Grade!Round(x, d)) + d
<1> DEFINE y == 2 * x + d
           e == 2 * d
           q == y \div e
<1>1. y \in Nat /\ e \in Nat \ {0}
  OBVIOUS
<1>2. q \in Nat /\ e * q <= y /\ y < e * q + e
  <2> HIDE DEF y, e
  <2> QED BY <1>1
<1>3. Grade!Round(x, d) = q
  BY DEF Grade!Round
<1> HIDE DEF q
<1>4. e * q = 2 * (d * q)
  BY <1>2
<1>5. d * q \in Int
  BY <1>2
<1> QED BY <1>2, <1>3, <1>4, <1>5

(* What is largest and smallest of three channels.                         *)
LEMMA ExtremesOf ==
  ASSUME NEW r \in Int, NEW g \in Int, NEW b \in Int,
         NEW c, c = <<r, g, b>>
  PROVE  /\ Grade!Max3(c) \in {r, g, b}
         /\ r <= Grade!Max3(c) /\ g <= Grade!Max3(c) /\ b <= Grade!Max3(c)
         /\ Grade!Min3(c) \in {r, g, b}
         /\ Grade!Min3(c) <= r /\ Grade!Min3(c) <= g /\ Grade!Min3(c) <= b
<1>1. PICK p : p = Grade!Larger(g, b)
  OBVIOUS
<1>2. p \in {g, b} /\ g <= p /\ b <= p
  BY <1>1 DEF Grade!Larger
<1>3. PICK x : x = Grade!Larger(r, p)
  OBVIOUS
<1>4. x \in {r, p} /\ r <= x /\ p <= x
  BY <1>2, <1>3 DEF Grade!Larger
<1>5. Grade!Max3(c) = x
  BY <1>1, <1>3 DEF Grade!Max3
<1>6. PICK q : q = Grade!Smaller(g, b)
  OBVIOUS
<1>7. q \in {g, b} /\ q <= g /\ q <= b
  BY <1>6 DEF Grade!Smaller
<1>8. PICK y : y = Grade!Smaller(r, q)
  OBVIOUS
<1>9. y \in {r, q} /\ y <= r /\ y <= q
  BY <1>7, <1>8 DEF Grade!Smaller
<1>10. Grade!Min3(c) = y
  BY <1>6, <1>8 DEF Grade!Min3
<1>11. x \in {r, g, b} /\ r <= x /\ g <= x /\ b <= x
  BY <1>2, <1>4
<1>12. y \in {r, g, b} /\ y <= r /\ y <= g /\ y <= b
  BY <1>7, <1>9
<1> QED BY <1>5, <1>10, <1>11, <1>12

LEMMA LightnessOf ==
  ASSUME NEW x \in Int, NEW y \in Int, 0 <= x, x <= 255, 0 <= y, y <= 255,
         NEW c, Grade!Max3(c) = x, Grade!Min3(c) = y
  PROVE  /\ Grade!RGB2L(c) \in Int /\ 0 <= Grade!RGB2L(c) /\ Grade!RGB2L(c) <= 255
         /\ 2 * Grade!RGB2L(c) \in {x + y, x + y + 1}
<1>1. Grade!RGB2L(c) = (2 * (x + y) + 2) \div (2 * 2)
  BY DEF Grade!RGB2L, Grade!Round
<1> QED BY <1>1

(* Between the darkest and the brightest channel: where a hue puts one, in *)
(* 85 parts.                                                               *)
Around(k) == IF k > 255 THEN k - 255 ELSE IF k < 0 THEN k + 255 ELSE k
Tent(k) ==
  IF 2 * Around(k) < 85 THEN 2 * Around(k)
  ELSE IF 2 * Around(k) < 255 THEN 85
  ELSE IF Around(k) < 170 THEN 2 * (170 - Around(k))
  ELSE 0

Turned(k) == k \in Int /\ -85 <= k /\ k <= 340

LEMMA TentIs ==
  ASSUME NEW k, Turned(k)
  PROVE  Tent(k) \in Int /\ 0 <= Tent(k) /\ Tent(k) <= 85
<1>1. PICK h \in Int : h = Around(k) /\ 0 <= h
  BY DEF Turned, Around
<1> QED BY <1>1 DEF Tent

(* A channel over 255 * 85, rounded.                                       *)
Rounded(z) == Grade!Round(z, 255 * 85)

LEMMA ChannelIs ==
  ASSUME NEW x \in Int, NEW y \in Int, NEW k, Turned(k)
  PROVE  Grade!HSLINT(x, y, k) = Rounded(85 * x + (y - x) * Tent(k))
<1> DEFINE h == Around(k)
           v == IF 2 * h < 85 THEN x * 85 + (y - x) * 2 * h
                ELSE IF 2 * h < 255 THEN y * 85
                ELSE IF h < 170 THEN x * 85 + (y - x) * 2 * (170 - h)
                ELSE x * 85
<1>1. h \in Int
  BY DEF Around, Turned
<1>2. Grade!HSLINT(x, y, k) = Grade!Round(v, 255 * 85)
  BY DEF Grade!HSLINT, Around
<1>3. v = 85 * x + (y - x) * Tent(k)
  <2>1. Tent(k) = IF 2 * h < 85 THEN 2 * h
                  ELSE IF 2 * h < 255 THEN 85
                  ELSE IF h < 170 THEN 2 * (170 - h)
                  ELSE 0
    BY DEF Tent
  <2> HIDE DEF h
  <2>2. (y - x) * 2 * h = (y - x) * (2 * h) /\ (y - x) * 2 * (170 - h) = (y - x) * (2 * (170 - h))
    BY <1>1
  <2>3. y * 85 = 85 * x + (y - x) * 85 /\ x * 85 = 85 * x + (y - x) * 0 /\ x * 85 = 85 * x
    OBVIOUS
  <2> QED BY <2>1, <2>2, <2>3
<1> QED BY <1>2, <1>3 DEF Rounded

(* HSL2RGB's two levels, over 255.                                         *)
High(s, l) == IF l < 128 THEN l * (255 + s) ELSE 255 * (l + s) - l * s
Low(s, l)  == 510 * l - High(s, l)
Apart(s, l) == IF l < 128 THEN 2 * (l * s) ELSE 2 * ((255 - l) * s)

LevelsFit(s, l) ==
  /\ High(s, l) \in Int /\ Low(s, l) \in Int
  /\ 0 <= Low(s, l) /\ Low(s, l) <= High(s, l) /\ High(s, l) <= 65025
  /\ Low(s, l) + High(s, l) = 510 * l
  /\ High(s, l) - Low(s, l) = Apart(s, l)

LEMMA LevelsAre ==
  ASSUME NEW s \in Int, 0 <= s, s <= 255, NEW l \in Int, 0 <= l, l <= 255
  PROVE  LevelsFit(s, l)
<1>1. PICK p \in Int : p = l * s /\ 0 <= p
  OBVIOUS
<1>2. PICK q \in Int : q = (255 - l) * s /\ 0 <= q
  OBVIOUS
<1>3. l * (255 - s) = 255 * l - p /\ q = 255 * s - p
      /\ (255 - l) * (255 - s) = 65025 - 255 * s - 255 * l + p
  BY <1>1, <1>2
<1>4. 0 <= (255 - l) * (255 - s) /\ 0 <= l * (255 - s)
  OBVIOUS
<1>5. p <= 255 * l /\ p <= 255 * s /\ 255 * s + 255 * l <= 65025 + p /\ q = 255 * s - p
  BY <1>3, <1>4
<1>6. CASE l < 128
  <2>1. High(s, l) = 255 * l + p
    BY <1>1, <1>6 DEF High
  <2>2. Low(s, l) = 255 * l - p
    BY <2>1 DEF Low
  <2>3. High(s, l) \in Int /\ Low(s, l) \in Int
        /\ 0 <= Low(s, l) /\ Low(s, l) <= High(s, l) /\ High(s, l) <= 65025
        /\ Low(s, l) + High(s, l) = 510 * l /\ High(s, l) - Low(s, l) = 2 * p
    BY <1>1, <1>5, <1>6, <2>1, <2>2
  <2> QED BY <1>1, <1>6, <2>3 DEF Apart, LevelsFit
<1>7. CASE l >= 128
  <2>1. High(s, l) = 255 * l + 255 * s - p
    BY <1>1, <1>7 DEF High
  <2>2. Low(s, l) = 255 * l - 255 * s + p
    BY <2>1 DEF Low
  <2>3. High(s, l) \in Int /\ Low(s, l) \in Int
        /\ 0 <= Low(s, l) /\ Low(s, l) <= High(s, l) /\ High(s, l) <= 65025
        /\ Low(s, l) + High(s, l) = 510 * l /\ High(s, l) - Low(s, l) = 2 * q
    BY <1>1, <1>5, <1>7, <2>1, <2>2
  <2>4. ~(l < 128)
    BY <1>7
  <2> QED BY <1>2, <2>3, <2>4 DEF Apart, LevelsFit
<1> QED BY <1>6, <1>7

(* Neither rounding nor clamping loses any lightness: of the three places  *)
(* of a hue one is the brightest and one is the darkest.                   *)
LEMMA TentsOf ==
  ASSUME NEW h \in Int, 0 <= h, h <= 255
  PROVE  /\ Tent(h + 85) = 85 \/ Tent(h) = 85 \/ Tent(h - 85) = 85
         /\ Tent(h + 85) = 0 \/ Tent(h) = 0 \/ Tent(h - 85) = 0
         /\ Turned(h + 85) /\ Turned(h) /\ Turned(h - 85)
BY DEF Tent, Around, Turned

LEMMA LevelsRounded ==
  ASSUME NEW x \in Int, NEW y \in Int, NEW l \in Int, x + y = 510 * l
  PROVE  Rounded(85 * x) + Rounded(85 * y) = 2 * l
<1>1. Rounded(85 * x) = (170 * x + 21675) \div 43350
  BY DEF Rounded, Grade!Round
<1>2. Rounded(85 * y) = (170 * y + 21675) \div 43350
  BY DEF Rounded, Grade!Round
<1> QED BY <1>1, <1>2

LEMMA RoundsInOrder ==
  ASSUME NEW x \in Int, NEW y \in Int, x <= y, 0 <= x
  PROVE  /\ Rounded(x) <= Rounded(y)
         /\ Rounded(x) \in Int /\ 0 <= Rounded(x)
BY DEF Rounded, Grade!Round

(* A channel lies between the two levels.                                  *)
ChannelFits(x, y, k) ==
  /\ Rounded(85 * x) <= Grade!HSLINT(x, y, k)
  /\ Grade!HSLINT(x, y, k) <= Rounded(85 * y)
  /\ Grade!HSLINT(x, y, k) \in Int
  /\ 0 <= Grade!HSLINT(x, y, k) /\ Grade!HSLINT(x, y, k) <= 255
  /\ Tent(k) = 85 => Grade!HSLINT(x, y, k) = Rounded(85 * y)
  /\ Tent(k) = 0 => Grade!HSLINT(x, y, k) = Rounded(85 * x)

LEMMA ChannelBetween ==
  ASSUME NEW x \in Int, NEW y \in Int, 0 <= x, x <= y, y <= 65025, NEW k, Turned(k)
  PROVE  ChannelFits(x, y, k)
<1>1. PICK e \in Int : e = Tent(k) /\ 0 <= e /\ e <= 85
  BY TentIs
<1>2. PICK v \in Int : v = 85 * x + (y - x) * e
  OBVIOUS
<1>3. 85 * x <= v /\ v <= 85 * y /\ (e = 85 => v = 85 * y) /\ (e = 0 => v = 85 * x)
  <2>1. 0 <= (y - x) * e /\ 0 <= (y - x) * (85 - e)
    BY <1>1
  <2>2. (y - x) * (85 - e) = 85 * y - 85 * x - (y - x) * e
    OBVIOUS
  <2> DEFINE w == (y - x) * e
  <2>3. w \in Int
    OBVIOUS
  <2>4. e = 0 => w = 0
    OBVIOUS
  <2>5. e = 85 => w = 85 * y - 85 * x
    OBVIOUS
  <2>6. v = 85 * x + w /\ 0 <= w /\ 0 <= 85 * y - 85 * x - w
    BY <1>2, <2>1, <2>2
  <2> HIDE DEF w
  <2> QED BY <2>3, <2>4, <2>5, <2>6
<1>4. Grade!HSLINT(x, y, k) = Rounded(v)
  BY <1>1, <1>2, ChannelIs
<1>5. PICK z \in Int : z = Rounded(v)
  <2>1. 0 <= v
    BY <1>3
  <2> QED BY <2>1, RoundsInOrder
<1>6. Rounded(85 * x) <= z /\ 0 <= z
  <2>1. 0 <= 85 * x /\ 85 * x \in Int /\ 0 <= v
    BY <1>3
  <2> QED BY <1>3, <1>5, <2>1, RoundsInOrder
<1>7. z <= Rounded(85 * y)
  <2>1. 85 * y \in Int /\ 0 <= v
    BY <1>3
  <2> QED BY <1>3, <1>5, <2>1, RoundsInOrder
<1>8. z <= 255
  <2>1. v <= 5527125
    BY <1>3
  <2>2. z = (2 * v + 21675) \div 43350
    BY <1>5 DEF Rounded, Grade!Round
  <2> QED BY SMT, <2>1, <2>2
<1> QED BY <1>1, <1>3, <1>4, <1>5, <1>6, <1>7, <1>8 DEF ChannelFits

LEMMA LumaKept ==
  ASSUME NEW h \in Int, NEW s \in Int, NEW l \in Int,
         0 <= h, h <= 255, 0 <= s, s <= 255, 0 <= l, l <= 255
  PROVE  /\ Grade!HSL2RGB(<<h, s, l>>) \in Colours
         /\ Grade!RGB2L(Grade!HSL2RGB(<<h, s, l>>)) = l
<1>1. CASE s = 0
  <2>1. Grade!HSL2RGB(<<h, s, l>>) = <<l, l, l>>
    BY <1>1 DEF Grade!HSL2RGB
  <2>2. Grade!Max3(<<l, l, l>>) = l /\ Grade!Min3(<<l, l, l>>) = l
    BY DEF Grade!Max3, Grade!Min3, Grade!Larger, Grade!Smaller
  <2>3. Grade!RGB2L(<<l, l, l>>) = (2 * (l + l) + 2) \div (2 * 2)
    BY <2>2 DEF Grade!RGB2L, Grade!Round
  <2>4. (2 * (l + l) + 2) \div (2 * 2) = l
    OBVIOUS
  <2>5. <<l, l, l>> \in Colours
    BY DEF Colours, Grade!Byte
  <2> QED BY <2>1, <2>3, <2>4, <2>5
<1>2. CASE s # 0
  <2>0. LevelsFit(s, l)
    BY LevelsAre
  <2>1. PICK x \in Int, y \in Int : x = Low(s, l) /\ y = High(s, l)
    BY <2>0 DEF LevelsFit
  <2>2. 0 <= x /\ x <= y /\ y <= 65025 /\ x + y = 510 * l
    BY <2>0, <2>1 DEF LevelsFit
  <2>3. PICK r : r = Grade!HSLINT(x, y, h + 85)
    OBVIOUS
  <2>4. PICK g : g = Grade!HSLINT(x, y, h)
    OBVIOUS
  <2>5. PICK b : b = Grade!HSLINT(x, y, h - 85)
    OBVIOUS
  <2>6. PICK c : c = <<r, g, b>>
    OBVIOUS
  <2>7. Grade!HSL2RGB(<<h, s, l>>) = c
    BY <1>2, <2>1, <2>3, <2>4, <2>5, <2>6 DEF Grade!HSL2RGB, Low, High
  <2>8. PICK top : top = Rounded(85 * y)
    OBVIOUS
  <2>9. PICK low : low = Rounded(85 * x)
    OBVIOUS
  <2>18. Turned(h + 85) /\ Turned(h) /\ Turned(h - 85)
    BY TentsOf
  <2>19. ChannelFits(x, y, h + 85) /\ ChannelFits(x, y, h) /\ ChannelFits(x, y, h - 85)
    BY <2>2, <2>18, ChannelBetween
  <2>10. /\ low <= r /\ r <= top /\ r \in Int /\ 0 <= r /\ r <= 255
         /\ Tent(h + 85) = 85 => r = top
         /\ Tent(h + 85) = 0 => r = low
    BY <2>3, <2>8, <2>9, <2>19 DEF ChannelFits
  <2>11. /\ low <= g /\ g <= top /\ g \in Int /\ 0 <= g /\ g <= 255
         /\ Tent(h) = 85 => g = top
         /\ Tent(h) = 0 => g = low
    BY <2>4, <2>8, <2>9, <2>19 DEF ChannelFits
  <2>12. /\ low <= b /\ b <= top /\ b \in Int /\ 0 <= b /\ b <= 255
         /\ Tent(h - 85) = 85 => b = top
         /\ Tent(h - 85) = 0 => b = low
    BY <2>5, <2>8, <2>9, <2>19 DEF ChannelFits
  <2>13. (r = top \/ g = top \/ b = top) /\ (r = low \/ g = low \/ b = low)
    BY <2>10, <2>11, <2>12, TentsOf
  <2>14. top \in Int /\ low \in Int
    BY <2>10, <2>11, <2>12, <2>13
  <2>15. low + top = 2 * l
    BY <2>2, <2>8, <2>9, LevelsRounded
  <2>16. c \in Colours
    BY <2>6, <2>10, <2>11, <2>12 DEF Colours, Grade!Byte
  <2>17. Grade!Max3(c) = top /\ Grade!Min3(c) = low
    <3>1. /\ Grade!Max3(c) \in {r, g, b}
          /\ r <= Grade!Max3(c) /\ g <= Grade!Max3(c) /\ b <= Grade!Max3(c)
          /\ Grade!Min3(c) \in {r, g, b}
          /\ Grade!Min3(c) <= r /\ Grade!Min3(c) <= g /\ Grade!Min3(c) <= b
      BY <2>6, <2>10, <2>11, <2>12, ExtremesOf
    <3>2. Grade!Max3(c) \in Int /\ Grade!Min3(c) \in Int
      BY <2>10, <2>11, <2>12, <3>1
    <3>3. Grade!Max3(c) <= top /\ low <= Grade!Min3(c)
      BY <2>10, <2>11, <2>12, <3>1
    <3>4. top <= Grade!Max3(c) /\ Grade!Min3(c) <= low
      BY <2>13, <3>1
    <3> QED BY <2>14, <3>2, <3>3, <3>4
  <2>20. Grade!RGB2L(c) = (2 * (top + low) + 2) \div (2 * 2)
    BY <2>17 DEF Grade!RGB2L, Grade!Round
  <2>21. Grade!RGB2L(c) = l
    BY <2>14, <2>15, <2>20
  <2> QED BY <2>7, <2>16, <2>21
<1> QED BY <1>1, <1>2

(* Where a colour's hue puts its channels.                                 *)
ScaledAround(p, d) == IF p > 255 * d THEN p - 255 * d ELSE IF p < 0 THEN p + 255 * d ELSE p
ScaledTent(p, d) ==
  IF 2 * ScaledAround(p, d) < 85 * d THEN 2 * ScaledAround(p, d)
  ELSE IF 2 * ScaledAround(p, d) < 255 * d THEN 85 * d
  ELSE IF ScaledAround(p, d) < 170 * d THEN 340 * d - 2 * ScaledAround(p, d)
  ELSE 0

LEMMA SameSign ==
  ASSUME NEW d \in Int, 0 < d, NEW u \in Int
  PROVE  (u < 0 <=> d * u < 0) /\ (u > 0 <=> d * u > 0)
OBVIOUS

LEMMA TentScales ==
  ASSUME NEW d \in Int, 0 < d, NEW k \in Int
  PROVE  d * Tent(k) = ScaledTent(d * k, d)
<1>1. PICK p \in Int : p = d * k
  OBVIOUS
<1>2. (k - 255 > 0 <=> p - 255 * d > 0) /\ (k < 0 <=> p < 0)
  <2>1. (k - 255 > 0 <=> d * (k - 255) > 0) /\ (k < 0 <=> d * k < 0)
    BY SameSign
  <2>2. d * (k - 255) = p - 255 * d
    BY <1>1
  <2> QED BY <1>1, <2>1, <2>2
<1>3. PICK h \in Int : h = Around(k)
  BY DEF Around
<1>4. PICK q \in Int : q = ScaledAround(p, d)
  <2>1. p \in Int /\ p - 255 * d \in Int /\ p + 255 * d \in Int
    OBVIOUS
  <2>2. ScaledAround(p, d) \in {p, p - 255 * d, p + 255 * d}
    BY DEF ScaledAround
  <2> QED BY <2>1, <2>2
<1>5. d * h = q
  <2>1. CASE k > 255
    <3>1. h = k - 255 /\ q = p - 255 * d
      BY <1>2, <1>3, <1>4, <2>1 DEF Around, ScaledAround
    <3> QED BY <1>1, <3>1
  <2>2. CASE k < 0
    <3>1. h = k + 255 /\ q = p + 255 * d
      BY <1>2, <1>3, <1>4, <2>2 DEF Around, ScaledAround
    <3> QED BY <1>1, <3>1
  <2>3. CASE ~(k > 255) /\ ~(k < 0)
    <3>1. h = k /\ q = p
      BY <1>2, <1>3, <1>4, <2>3 DEF Around, ScaledAround
    <3> QED BY <1>1, <3>1
  <2> QED BY <2>1, <2>2, <2>3
<1>6. (2 * h - 85 < 0 <=> 2 * q - 85 * d < 0) /\ (2 * h - 255 < 0 <=> 2 * q - 255 * d < 0)
      /\ (h - 170 < 0 <=> q - 170 * d < 0)
  <2>1. (2 * h - 85 < 0 <=> d * (2 * h - 85) < 0) /\ (2 * h - 255 < 0 <=> d * (2 * h - 255) < 0)
        /\ (h - 170 < 0 <=> d * (h - 170) < 0)
    BY SameSign
  <2>2. d * (2 * h - 85) = 2 * q - 85 * d /\ d * (2 * h - 255) = 2 * q - 255 * d
        /\ d * (h - 170) = q - 170 * d
    BY <1>5
  <2> QED BY <2>1, <2>2
<1>7. d * Tent(k) = ScaledTent(p, d)
  <2>1. CASE 2 * h < 85
    <3>1. Tent(k) = 2 * h /\ ScaledTent(p, d) = 2 * q
      BY <1>3, <1>4, <1>6, <2>1 DEF Tent, ScaledTent
    <3> QED BY <1>5, <3>1
  <2>2. CASE ~(2 * h < 85) /\ 2 * h < 255
    <3>1. Tent(k) = 85 /\ ScaledTent(p, d) = 85 * d
      BY <1>3, <1>4, <1>6, <2>2 DEF Tent, ScaledTent
    <3> QED BY <3>1
  <2>3. CASE ~(2 * h < 85) /\ ~(2 * h < 255) /\ h < 170
    <3>1. Tent(k) = 2 * (170 - h) /\ ScaledTent(p, d) = 340 * d - 2 * q
      BY <1>3, <1>4, <1>6, <2>3 DEF Tent, ScaledTent
    <3> QED BY <1>5, <3>1
  <2>4. CASE ~(2 * h < 85) /\ ~(2 * h < 255) /\ ~(h < 170)
    <3>1. Tent(k) = 0 /\ ScaledTent(p, d) = 0
      BY <1>3, <1>4, <1>6, <2>4 DEF Tent, ScaledTent
    <3> QED BY <3>1
  <2> QED BY <2>1, <2>2, <2>3, <2>4
<1> QED BY <1>1, <1>7

(* What Hue makes of three channels, over 2 * d.                           *)
HueIs(r, g, b, x, d, e) ==
  \/ r = x /\ 85 * (g - b) >= 0 /\ e = 85 * (g - b)
  \/ r = x /\ 85 * (g - b) < 0 /\ e = 85 * (g - b) + 510 * d
  \/ r # x /\ g = x /\ e = 85 * (2 * d + b - r)
  \/ r # x /\ g # x /\ e = 85 * (4 * d + r - g)

Extremes(r, g, b, x, y) ==
  /\ r \in Int /\ g \in Int /\ b \in Int /\ x \in Int /\ y \in Int
  /\ y <= r /\ y <= g /\ y <= b /\ r <= x /\ g <= x /\ b <= x
  /\ r = x \/ g = x \/ b = x
  /\ r = y \/ g = y \/ b = y

LEMMA HueOf ==
  ASSUME NEW r, NEW g, NEW b, NEW x, NEW y, Extremes(r, g, b, x, y),
         Grade!Max3(<<r, g, b>>) = x, Grade!Min3(<<r, g, b>>) = y, x # y
  PROVE  HueIs(r, g, b, x, x - y, Grade!Hue(<<r, g, b>>))
<1>1. PICK d \in Int : d = x - y
  BY DEF Extremes
<1>2. PICK e : e = Grade!Hue(<<r, g, b>>)
  OBVIOUS
<1> DEFINE z == 85 * (IF r = x THEN g - b ELSE IF g = x THEN 2 * d + b - r ELSE 4 * d + r - g)
<1>3. e = IF z < 0 THEN z + 255 * 2 * d ELSE z
  BY <1>1, <1>2 DEF Grade!Hue
<1>4. r \in Int /\ g \in Int /\ b \in Int /\ r <= x /\ y <= g /\ y <= b /\ g <= x /\ b <= x
      /\ x \in Int /\ y \in Int /\ y <= r /\ y <= x
  BY DEF Extremes
<1>5. CASE r = x
  <2>1. z = 85 * (g - b)
    BY <1>5
  <2> HIDE DEF z
  <2> QED BY <1>1, <1>2, <1>3, <1>4, <1>5, <2>1 DEF HueIs
<1>6. CASE r # x /\ g = x
  <2>1. z = 85 * (2 * d + b - r)
    BY <1>6
  <2>2. 2 * d + b - r >= 0
    BY <1>1, <1>4
  <2> HIDE DEF z
  <2>3. e = z
    BY <1>1, <1>3, <1>4, <2>1, <2>2
  <2> QED BY <1>1, <1>2, <1>6, <2>1, <2>3 DEF HueIs
<1>7. CASE r # x /\ g # x
  <2>1. z = 85 * (4 * d + r - g)
    BY <1>7
  <2>2. 4 * d + r - g >= 0
    BY <1>1, <1>4
  <2> HIDE DEF z
  <2>3. e = z
    BY <1>1, <1>3, <1>4, <2>1, <2>2
  <2> QED BY <1>1, <1>2, <1>7, <2>1, <2>3 DEF HueIs
<1> QED BY <1>5, <1>6, <1>7

LEMMA HueRange ==
  ASSUME NEW r, NEW g, NEW b, NEW x, NEW y, NEW e, Extremes(r, g, b, x, y),
         x # y, HueIs(r, g, b, x, x - y, e)
  PROVE  e \in Int /\ 0 <= e /\ e <= 510 * (x - y)
<1>1. r \in Int /\ g \in Int /\ b \in Int /\ r <= x /\ y <= g /\ y <= b /\ g <= x /\ b <= x
      /\ x \in Int /\ y \in Int /\ y <= r /\ y <= x
  BY DEF Extremes
<1> QED BY <1>1 DEF HueIs

Close(u, v, d) == u - v <= d /\ v - u <= d

LEMMA HuePlaces ==
  ASSUME NEW r, NEW g, NEW b, NEW x, NEW y, NEW e, Extremes(r, g, b, x, y),
         x # y, HueIs(r, g, b, x, x - y, e),
         NEW d \in Int, d = x - y, NEW p \in Int, 0 <= p, Close(2 * p, e, d)
  PROVE  /\ Close(ScaledTent(p + 85 * d, d), 85 * (r - y), d)
         /\ Close(ScaledTent(p, d), 85 * (g - y), d)
         /\ Close(ScaledTent(p - 85 * d, d), 85 * (b - y), d)
<1>1. /\ r \in Int /\ g \in Int /\ b \in Int /\ x \in Int /\ y \in Int
      /\ y <= r /\ y <= g /\ y <= b /\ r <= x /\ g <= x /\ b <= x
      /\ r = x \/ g = x \/ b = x
      /\ r = y \/ g = y \/ b = y
  BY DEF Extremes
<1>2. x = y + d /\ 0 < d
  BY <1>1
<1>3. e \in Int /\ 2 * p - e <= d /\ e - 2 * p <= d
  BY HueRange DEF Close
<1>4. HueIs(r, g, b, x, d, e)
  OBVIOUS
<1>5. Close(ScaledTent(p + 85 * d, d), 85 * (r - y), d)
  BY <1>1, <1>2, <1>3, <1>4 DEF Close, ScaledTent, ScaledAround, HueIs
<1>6. Close(ScaledTent(p, d), 85 * (g - y), d)
  BY <1>1, <1>2, <1>3, <1>4 DEF Close, ScaledTent, ScaledAround, HueIs
<1>7. Close(ScaledTent(p - 85 * d, d), 85 * (b - y), d)
  BY <1>1, <1>2, <1>3, <1>4 DEF Close, ScaledTent, ScaledAround, HueIs
<1> QED BY <1>5, <1>6, <1>7

(* What RGB2HSL yields of a colour.                                        *)
Widest(x, y) == IF x + y < 256 THEN x + y ELSE 511 - (x + y)

HueNear(h, d, e) == h \in Int /\ 0 <= h /\ h <= 255 /\ Close(2 * (d * h), e, d)

LEMMA HueRounded ==
  ASSUME NEW d \in Int, 0 < d, NEW e \in Int, 0 <= e, e <= 510 * d
  PROVE  /\ HueNear(Grade!Round(e, 2 * d), d, e)
         /\ Grade!IsTie(e, 2 * d) => HueNear(Grade!Round(e, 2 * d) - 1, d, e)
<1> DEFINE h == Grade!Round(e, 2 * d)
<1>1. h \in Nat /\ 2 * (2 * d * h) <= 2 * e + 2 * d /\ 2 * e < 2 * (2 * d * h) + 2 * d
  BY RoundIs
<1>2. h = (2 * e + 2 * d) \div (2 * (2 * d)) 
      /\ (Grade!IsTie(e, 2 * d) <=> (2 * e + 2 * d) % (2 * (2 * d)) = 0)
  BY DEF Grade!Round, Grade!IsTie
<1>3. Grade!IsTie(e, 2 * d) => 2 * e + 2 * d = (2 * (2 * d)) * h
  <2> DEFINE u == 2 * e + 2 * d
             w == 2 * (2 * d)
  <2>1. u \in Int /\ w \in Int /\ w > 0
    OBVIOUS
  <2>2. u = w * (u \div w) + (u % w)
    <3> HIDE DEF u, w
    <3> QED BY <2>1
  <2>3. h = u \div w /\ (Grade!IsTie(e, 2 * d) <=> u % w = 0)
    BY <1>2
  <2> HIDE DEF u, w, h
  <2>4. Grade!IsTie(e, 2 * d) => u = w * h
    BY <1>1, <2>1, <2>2, <2>3
  <2> QED BY <2>4 DEF u, w
<1> HIDE DEF h
<1>4. PICK p \in Int : p = d * h
  BY <1>1
<1>5. 2 * d * h = 2 * p /\ (2 * (2 * d)) * h = 4 * p /\ d * (h - 1) = p - d
  BY <1>1, <1>4
<1>6. 2 * p <= e + d /\ e < 2 * p + d
  BY <1>1, <1>4, <1>5
<1>7. h <= 255
  <2>1. d * (255 - h) = 255 * d - p
    BY <1>1, <1>4
  <2>2. 255 * d - p > -d
    BY <1>4, <1>6
  <2>3. ~(255 - h <= -1)
    <3>1. SUFFICES ASSUME 255 - h <= -1 PROVE FALSE
      OBVIOUS
    <3>2. d * (254 - h + 2) <= 0 /\ d * (254 - h + 2) = 255 * d - p + d
      BY <1>1, <1>4, <3>1
    <3> QED BY <1>4, <2>2, <3>2
  <2> QED BY <1>1, <2>3
<1>8. HueNear(h, d, e)
  BY <1>1, <1>4, <1>6, <1>7 DEF HueNear, Close
<1>9. ASSUME Grade!IsTie(e, 2 * d) PROVE HueNear(h - 1, d, e)
  <2>1. 2 * p = e + d
    BY <1>3, <1>4, <1>5, <1>9
  <2>2. h # 0
    BY <1>4, <2>1
  <2> QED BY <1>1, <1>4, <1>5, <1>7, <2>1, <2>2 DEF HueNear, Close
<1> QED BY <1>8, <1>9 DEF h

SaturationNear(s, x, y) ==
  /\ s \in Int /\ 0 <= s /\ s <= 255
  /\ Close(2 * (Widest(x, y) * s), 510 * (x - y), Widest(x, y))

LEMMA SaturationOf ==
  ASSUME NEW x \in Int, NEW y \in Int, 0 <= y, y < x, x <= 255,
         NEW c, Grade!Max3(c) = x, Grade!Min3(c) = y
  PROVE  SaturationNear(Grade!Saturation(c), x, y)
<1>1. PICK d \in Int : d = Widest(x, y)
  <2>1. x + y \in Int /\ 511 - (x + y) \in Int
    OBVIOUS
  <2>2. Widest(x, y) \in {x + y, 511 - (x + y)}
    BY DEF Widest
  <2> QED BY <2>1, <2>2
<1>2. 0 < d /\ x - y <= d
  BY <1>1 DEF Widest
<1>3. Grade!Saturation(c) = Grade!Round(255 * (x - y), d)
  BY <1>1 DEF Grade!Saturation, Widest
<1>4. PICK z \in Nat : z = 255 * (x - y)
  OBVIOUS
<1>5. PICK s \in Nat : s = Grade!Round(z, d) /\ 2 * (d * s) <= 2 * z + d /\ 2 * z < 2 * (d * s) + d
  <2>1. d \in Nat \ {0}
    BY <1>2
  <2> QED BY Zenon, <2>1, RoundIs
<1>6. PICK p \in Int : p = d * s
  OBVIOUS
<1>7. s <= 255
  <2>1. SUFFICES ASSUME s >= 256 PROVE FALSE
    BY <1>5
  <2>2. d * (s - 256) >= 0 /\ d * (s - 256) = p - 256 * d
    BY <1>2, <1>6, <2>1
  <2> QED BY <1>2, <1>4, <1>5, <1>6, <2>2
<1> QED BY <1>1, <1>3, <1>4, <1>5, <1>6, <1>7 DEF SaturationNear, Close

LEMMA ExtremesFit ==
  ASSUME NEW c \in Colours
  PROVE  \E r, g, b, x, y \in Int :
           /\ c = <<r, g, b>>
           /\ x = Grade!Max3(c) /\ y = Grade!Min3(c)
           /\ Extremes(r, g, b, x, y)
           /\ 0 <= y /\ y <= x /\ x <= 255
<1>1. PICK r \in Int, g \in Int, b \in Int :
        c = <<r, g, b>> /\ 0 <= r /\ r <= 255 /\ 0 <= g /\ g <= 255 /\ 0 <= b /\ b <= 255
  <2>1. c = <<c[1], c[2], c[3]>> /\ c[1] \in Grade!Byte /\ c[2] \in Grade!Byte /\ c[3] \in Grade!Byte
    BY DEF Colours
  <2>2. \A j \in Grade!Byte : j \in Int /\ 0 <= j /\ j <= 255
    BY DEF Grade!Byte
  <2> QED BY ZenonT(60), <2>1, <2>2
<1>2. PICK x \in Int, y \in Int :
        /\ x = Grade!Max3(c) /\ y = Grade!Min3(c)
        /\ Extremes(r, g, b, x, y)
        /\ 0 <= y /\ y <= x /\ x <= 255
  BY <1>1, ExtremesOf DEF Extremes
<1> QED BY Zenon, <1>1, <1>2

LEMMA LightnessFits ==
  ASSUME NEW c \in Colours
  PROVE  Grade!RGB2L(c) \in Int /\ 0 <= Grade!RGB2L(c) /\ Grade!RGB2L(c) <= 255
<1>1. PICK x \in Int, y \in Int : x = Grade!Max3(c) /\ y = Grade!Min3(c) /\ 0 <= y /\ y <= x /\ x <= 255
  BY Zenon, ExtremesFit
<1> QED BY <1>1, LightnessOf

LEMMA HslOf ==
  ASSUME NEW c \in Colours, NEW hsl \in Grade!RGB2HSL(c)
  PROVE  \E h, s \in Int :
           /\ hsl = <<h, s, Grade!RGB2L(c)>>
           /\ 0 <= h /\ h <= 255 /\ 0 <= s /\ s <= 255
           /\ IF Grade!Max3(c) = Grade!Min3(c) THEN s = 0
              ELSE /\ HueNear(h, Grade!Max3(c) - Grade!Min3(c), Grade!Hue(c))
                   /\ SaturationNear(s, Grade!Max3(c), Grade!Min3(c))
<1>1. PICK r \in Int, g \in Int, b \in Int, x \in Int, y \in Int :
        /\ c = <<r, g, b>>
        /\ x = Grade!Max3(c) /\ y = Grade!Min3(c)
        /\ Extremes(r, g, b, x, y)
        /\ 0 <= y /\ y <= x /\ x <= 255
  BY Zenon, ExtremesFit
<1>3. PICK l : l = Grade!RGB2L(c)
  OBVIOUS
<1>4. CASE x = y
  <2>1. hsl = <<0, 0, l>>
    BY <1>1, <1>3, <1>4 DEF Grade!RGB2HSL
  <2> QED BY <1>1, <1>3, <1>4, <2>1
<1>5. CASE x # y
  <2>1. PICK d \in Int : d = x - y /\ 0 < d
    BY <1>1, <1>5
  <2>2. PICK e : e = Grade!Hue(c)
    OBVIOUS
  <2>3. e \in Int /\ 0 <= e /\ e <= 510 * d
    BY <1>1, <1>5, <2>1, <2>2, HueOf, HueRange
  <2>4. PICK s : s = Grade!Saturation(c)
    OBVIOUS
  <2>5. SaturationNear(s, x, y)
    BY <1>1, <1>5, <2>4, SaturationOf
  <2>6. PICK h : h = Grade!Round(e, 2 * d)
    OBVIOUS
  <2>7. d # 0
    BY <2>1
  <2>8. hsl = <<h, s, l>> \/ (Grade!IsTie(e, 2 * d) /\ hsl = <<h - 1, s, l>>)
    BY <1>1, <1>3, <2>1, <2>2, <2>4, <2>6, <2>7 DEF Grade!RGB2HSL
  <2>9. PICK i2 : hsl = <<i2, s, l>> /\ HueNear(i2, d, e)
    BY <2>1, <2>3, <2>6, <2>8, HueRounded
  <2> QED BY <1>1, <1>3, <1>5, <2>1, <2>2, <2>5, <2>9 DEF HueNear, SaturationNear
<1> QED BY <1>4, <1>5

(* How far the levels of what comes back may be from where they were.      *)
Error(u, v) == 2 * (u - 255 * v)

LevelsNear(s, l, x, y) ==
  /\ Error(High(s, l), x) + 6 * (x - y) <= 2294
  /\ Error(High(s, l), x) - 6 * (x - y) >= -2294
  /\ Error(Low(s, l), y) + 6 * (x - y) <= 2294
  /\ Error(Low(s, l), y) - 6 * (x - y) >= -2294

(* The nearly white colours, one width at a time.                          *)
LEMMA NearlyWhite ==
  ASSUME NEW w \in Int, NEW d \in Int, NEW s \in Int, NEW p \in Int,
         1 <= d, d < w, w <= 254, 0 <= s, s <= 255, p = w * s,
         2 * p - 510 * d <= w, 510 * d - 2 * p <= w,
         \E k \in Int : w = 2 * k
  PROVE  255 - (p - 2 * s - 255 * d) + 6 * d <= 2294
<1>1. CASE w <= 235
  BY <1>1
<1>2. CASE w = 236
  BY <1>2
<1>3. CASE w = 238
  BY <1>3
<1>4. CASE w = 240
  BY <1>4
<1>5. CASE w = 242
  BY <1>5
<1>6. CASE w = 244
  BY <1>6
<1>7. CASE w = 246
  BY <1>7
<1>8. CASE w = 248
  BY <1>8
<1>9. CASE w = 250
  BY <1>9
<1>10. CASE w = 252
  BY <1>10
<1>11. CASE w = 254
  BY <1>11
<1> QED BY <1>1, <1>2, <1>3, <1>4, <1>5, <1>6, <1>7, <1>8, <1>9, <1>10, <1>11

LEMMA LevelsComeBack ==
  ASSUME NEW x \in Int, NEW y \in Int, 0 <= y, y < x, x <= 255,
         NEW s, SaturationNear(s, x, y),
         NEW l \in Int, 2 * l \in {x + y, x + y + 1}
  PROVE  LevelsNear(s, l, x, y)
<1>1. PICK t \in Int : 2 * l = x + y + t /\ (t = 0 \/ t = 1)
  OBVIOUS
<1>2. 0 <= l /\ l <= 255
  BY <1>1
<1>3. PICK m \in Int : m = Apart(s, l)
  BY <1>2 DEF Apart, SaturationNear
<1>4. PICK d \in Int : d = x - y /\ 1 <= d
  OBVIOUS
<1>5. Error(High(s, l), x) = 255 * t + m - 255 * d /\ Error(Low(s, l), y) = 255 * t - (m - 255 * d)
  <2>1. LevelsFit(s, l)
    BY <1>2, LevelsAre DEF SaturationNear
  <2>2. PICK u \in Int, v \in Int : u = High(s, l) /\ v = Low(s, l) /\ u + v = 510 * l /\ u - v = m
    BY <1>3, <2>1 DEF LevelsFit
  <2> QED BY <1>1, <1>4, <2>2 DEF Error
<1>6. PICK w \in Int : w = Widest(x, y)
  BY DEF SaturationNear, Widest
<1>7. PICK p \in Int : p = w * s
  BY <1>6 DEF SaturationNear
<1>8. s \in Int /\ 0 <= s /\ s <= 255 /\ 2 * p - 510 * d <= w /\ 510 * d - 2 * p <= w
  BY <1>4, <1>6, <1>7 DEF SaturationNear, Close
<1>9. 255 * t + m - 255 * d + 6 * d <= 2294 /\ 255 * t + m - 255 * d - 6 * d >= -2294
      /\ 255 * t - (m - 255 * d) + 6 * d <= 2294 /\ 255 * t - (m - 255 * d) - 6 * d >= -2294
  <2>1. CASE x + y < 255 /\ t = 0
    <3>1. w = x + y /\ l < 128 /\ 2 * l = w
      BY <1>1, <1>6, <2>1 DEF Widest
    <3>2. m = p
      BY <1>2, <1>3, <1>7, <1>8, <3>1 DEF Apart
    <3> QED BY <1>4, <1>8, <2>1, <3>1, <3>2
  <2>2. CASE x + y < 255 /\ t = 1
    <3>1. w = x + y /\ l < 128 /\ 2 * l = w + 1
      BY <1>1, <1>6, <2>2 DEF Widest
    <3>2. m = p + s
      <4>1. m = 2 * (l * s) /\ 2 * (l * s) = (2 * l) * s /\ (w + 1) * s = w * s + s
        BY <1>2, <1>3, <1>8, <3>1 DEF Apart
      <4> QED BY <1>7, <3>1, <4>1
    <3>3. d <= w /\ w <= 253
      BY <1>4, <2>2, <3>1
    <3> QED BY <1>4, <1>8, <2>2, <3>2, <3>3
  <2>3. CASE x + y = 255
    <3>1. w = 255 /\ l = 128 /\ t = 1
      BY <1>1, <1>6, <2>3 DEF Widest
    <3>2. m = 254 * s
      BY <1>3, <1>8, <3>1 DEF Apart
    <3>3. s = d
      BY <1>4, <1>7, <1>8, <3>1
    <3> QED BY <1>4, <1>8, <3>1, <3>2, <3>3
  <2>4. CASE x + y > 255 /\ t = 0
    <3>1. w = 511 - (x + y) /\ ~(l < 128) /\ 2 * (255 - l) = w - 1
      BY <1>1, <1>6, <2>4 DEF Widest
    <3>2. m = p - s
      <4>1. m = 2 * ((255 - l) * s) /\ 2 * ((255 - l) * s) = (2 * (255 - l)) * s /\ (w - 1) * s = w * s - s
        BY <1>2, <1>3, <1>8, <3>1 DEF Apart
      <4> QED BY <1>7, <3>1, <4>1
    <3>3. d <= w /\ w <= 255
      BY <1>4, <2>4, <3>1
    <3> QED BY <1>4, <1>8, <2>4, <3>2, <3>3
  <2>5. CASE x + y > 255 /\ t = 1
    <3>1. w = 511 - (x + y) /\ ~(l < 128) /\ 2 * (255 - l) = w - 2
      BY <1>1, <1>6, <2>5 DEF Widest
    <3>2. m = p - 2 * s
      <4>1. m = 2 * ((255 - l) * s) /\ 2 * ((255 - l) * s) = (2 * (255 - l)) * s /\ (w - 2) * s = w * s - 2 * s
        BY <1>2, <1>3, <1>8, <3>1 DEF Apart
      <4> QED BY <1>7, <3>1, <4>1
    <3>3. d < w /\ w <= 254
      BY <1>1, <1>4, <2>5, <3>1
    <3>4. \E k \in Int : w = 2 * k
      <4>1. w = 2 * (256 - l)
        BY <1>1, <2>5, <3>1
      <4> QED BY <4>1
    <3>5. 255 - (p - 2 * s - 255 * d) + 6 * d <= 2294
      BY <1>4, <1>7, <1>8, <3>3, <3>4, NearlyWhite
    <3> QED BY <1>4, <1>8, <2>5, <3>2, <3>3, <3>5
  <2> QED BY <1>1, <2>1, <2>2, <2>3, <2>4, <2>5
<1> QED BY <1>4, <1>5, <1>9 DEF LevelsNear

(* A channel that comes back.                                              *)
LEMMA ChannelComesBack ==
  ASSUME NEW lo \in Int, NEW hi \in Int, NEW x \in Int, NEW y \in Int, y < x,
         NEW k, Turned(k), NEW v \in Int,
         Error(hi, x) + 6 * (x - y) <= 2294, Error(hi, x) - 6 * (x - y) >= -2294,
         Error(lo, y) + 6 * (x - y) <= 2294, Error(lo, y) - 6 * (x - y) >= -2294,
         Close((x - y) * Tent(k), 85 * (v - y), x - y)
  PROVE  Grade!HSLINT(lo, hi, k) - v \in -4 .. 4
<1>1. PICK e \in Int : e = Tent(k) /\ 0 <= e /\ e <= 85
  BY TentIs
<1>2. PICK d \in Int : d = x - y /\ 0 < d
  OBVIOUS
<1>3. PICK a \in Int, f \in Int : a = lo - 255 * y /\ f = hi - 255 * x
  OBVIOUS
<1>4. /\ 2 * f <= 2294 - 6 * d /\ 2 * f >= -(2294 - 6 * d)
      /\ 2 * a <= 2294 - 6 * d /\ 2 * a >= -(2294 - 6 * d)
  BY <1>2, <1>3 DEF Error
<1>5. PICK z \in Int : z = 85 * lo + (hi - lo) * e
  BY <1>1
<1>6. PICK q \in Int : q = d * e - 85 * (v - y) /\ q <= d /\ -q <= d
  BY <1>1, <1>2 DEF Close
<1>7. z - 21675 * v = a * (85 - e) + f * e + 255 * q
  BY <1>1, <1>2, <1>3, <1>5, <1>6
<1>8. PICK m \in Int : m = 2294 - 6 * d
  OBVIOUS
<1>9. /\ 2 * (a * (85 - e)) <= m * (85 - e) /\ 2 * (a * (85 - e)) >= -(m * (85 - e))
      /\ 2 * (f * e) <= m * e /\ 2 * (f * e) >= -(m * e)
  <2>1. /\ (m - 2 * a) * (85 - e) >= 0 /\ (m + 2 * a) * (85 - e) >= 0
        /\ (m - 2 * f) * e >= 0 /\ (m + 2 * f) * e >= 0
    BY <1>1, <1>4, <1>8
  <2> DEFINE A == a * (85 - e)
             B == f * e
             C == m * (85 - e)
             D == m * e
  <2>3. A \in Int /\ B \in Int /\ C \in Int /\ D \in Int
    BY <1>1
  <2>2. (m - 2 * a) * (85 - e) = C - 2 * A /\ (m + 2 * a) * (85 - e) = C + 2 * A
    BY <1>1
  <2>6. (m - 2 * f) * e = D - 2 * B /\ (m + 2 * f) * e = D + 2 * B
    BY <1>1
  <2>4. C - 2 * A >= 0 /\ C + 2 * A >= 0 /\ D - 2 * B >= 0 /\ D + 2 * B >= 0
    <3> HIDE DEF A, B, C, D
    <3> QED BY <2>1, <2>2, <2>6
  <2>5. 2 * A <= C /\ 2 * A >= -C /\ 2 * B <= D /\ 2 * B >= -D
    <3> HIDE DEF A, B, C, D
    <3> QED BY <2>3, <2>4
  <2> QED BY <2>5
<1>10. m * (85 - e) + m * e = 85 * m
  BY <1>1
<1>11. 2 * (z - 21675 * v) <= 194990 /\ 2 * (z - 21675 * v) >= -194990
  <2> DEFINE A == a * (85 - e)
             B == f * e
             C == m * (85 - e)
             D == m * e
  <2>1. A \in Int /\ B \in Int /\ C \in Int /\ D \in Int
    BY <1>1
  <2>2. z - 21675 * v = A + B + 255 * q /\ C + D = 85 * m
        /\ 2 * A <= C /\ 2 * A >= -C /\ 2 * B <= D /\ 2 * B >= -D
    BY <1>7, <1>9, <1>10
  <2> HIDE DEF A, B, C, D
  <2> QED BY SMT, <1>6, <1>8, <2>1, <2>2
<1>12. Grade!HSLINT(lo, hi, k) = (2 * z + 21675) \div 43350
  BY <1>1, <1>5, ChannelIs DEF Rounded, Grade!Round
<1> QED BY SMT, <1>11, <1>12

LEMMA GradedColour ==
  ASSUME NEW c \in Colours, NEW new \in Colours, NEW to \in Grade!Graded(c, new)
  PROVE  to \in Colours /\ (m_preserveLuma => Grade!RGB2L(to) = Grade!RGB2L(c))
<1>1. CASE ~m_preserveLuma
  BY <1>1 DEF Grade!Graded
<1>2. CASE m_preserveLuma
  <2>1. PICK hsl \in Grade!RGB2HSL(new) : to = Grade!HSL2RGB([hsl EXCEPT ![3] = Grade!RGB2L(c)])
    BY <1>2 DEF Grade!Graded
  <2>2. PICK h \in Int, s \in Int :
          hsl = <<h, s, Grade!RGB2L(new)>> /\ 0 <= h /\ h <= 255 /\ 0 <= s /\ s <= 255
    BY HslOf
  <2>3. PICK l : l = Grade!RGB2L(c)
    OBVIOUS
  <2>4. l \in Int /\ 0 <= l /\ l <= 255
    BY <2>3, LightnessFits
  <2>5. [hsl EXCEPT ![3] = l] = <<h, s, l>>
    BY <2>2
  <2> QED BY <1>2, <2>1, <2>2, <2>3, <2>4, <2>5, LumaKept
<1> QED BY <1>1, <1>2

LEMMA ComesBack ==
  ASSUME NEW c \in Colours, NEW to \in Grade!Graded(c, c), m_preserveLuma
  PROVE  \A j \in 1 .. 3 : to[j] - c[j] \in -4 .. 4
<1>1. PICK hsl \in Grade!RGB2HSL(c) : to = Grade!HSL2RGB([hsl EXCEPT ![3] = Grade!RGB2L(c)])
  BY DEF Grade!Graded
<1>2. PICK h \in Int, s \in Int :
        /\ hsl = <<h, s, Grade!RGB2L(c)>>
        /\ 0 <= h /\ h <= 255 /\ 0 <= s /\ s <= 255
        /\ IF Grade!Max3(c) = Grade!Min3(c) THEN s = 0
           ELSE /\ HueNear(h, Grade!Max3(c) - Grade!Min3(c), Grade!Hue(c))
                /\ SaturationNear(s, Grade!Max3(c), Grade!Min3(c))
  BY Zenon, HslOf
<1>3. PICK r \in Int, g \in Int, b \in Int, x \in Int, y \in Int :
        /\ c = <<r, g, b>>
        /\ x = Grade!Max3(c) /\ y = Grade!Min3(c)
        /\ Extremes(r, g, b, x, y)
        /\ 0 <= y /\ y <= x /\ x <= 255
  BY ExtremesFit
<1>4. PICK l \in Int : l = Grade!RGB2L(c) /\ 2 * l \in {x + y, x + y + 1}
  BY <1>3, LightnessOf
<1>5. to = Grade!HSL2RGB(<<h, s, l>>)
  <2>1. [hsl EXCEPT ![3] = l] = <<h, s, l>>
    BY <1>2
  <2> QED BY <1>1, <1>4, <2>1
<1>6. CASE x = y
  <2>1. to = <<l, l, l>>
    BY <1>2, <1>3, <1>5, <1>6 DEF Grade!HSL2RGB
  <2>2. r = x /\ g = x /\ b = x /\ l = x
    BY <1>3, <1>4, <1>6 DEF Extremes
  <2>3. to[1] - c[1] = 0 /\ to[2] - c[2] = 0 /\ to[3] - c[3] = 0
    BY <1>3, <2>1, <2>2
  <2> QED BY <2>3
<1>7. CASE x # y
  <2>1. PICK d \in Int : d = x - y /\ 0 < d
    BY <1>3, <1>7
  <2>2. PICK e : e = Grade!Hue(c)
    OBVIOUS
  <2>3. HueNear(h, d, e) /\ SaturationNear(s, x, y)
    BY <1>2, <1>3, <1>7, <2>1, <2>2
  <2>4. HueIs(r, g, b, x, x - y, e)
    BY <1>3, <1>7, <2>2, HueOf
  <2>5. PICK p \in Int : p = d * h /\ 0 <= p /\ Close(2 * p, e, d)
    BY <1>2, <2>1, <2>3 DEF HueNear
  <2>6. /\ Close(ScaledTent(p + 85 * d, d), 85 * (r - y), d)
        /\ Close(ScaledTent(p, d), 85 * (g - y), d)
        /\ Close(ScaledTent(p - 85 * d, d), 85 * (b - y), d)
    BY <1>3, <1>7, <2>1, <2>4, <2>5, HuePlaces
  <2>7. d * (h + 85) = p + 85 * d /\ d * (h - 85) = p - 85 * d
    BY <2>1, <2>5
  <2>8. /\ Close(d * Tent(h + 85), 85 * (r - y), d)
        /\ Close(d * Tent(h), 85 * (g - y), d)
        /\ Close(d * Tent(h - 85), 85 * (b - y), d)
    <3>1. h + 85 \in Int /\ h - 85 \in Int
      OBVIOUS
    <3> QED BY <2>1, <2>5, <2>6, <2>7, <3>1, TentScales
  <2>9. PICK lo \in Int, hi \in Int : lo = Low(s, l) /\ hi = High(s, l)
    <3>1. 0 <= l /\ l <= 255
      BY <1>3, <1>4
    <3>2. LevelsFit(s, l)
      BY Zenon, <1>2, <3>1, LevelsAre
    <3> QED BY <3>2 DEF LevelsFit
  <2>10. LevelsNear(s, l, x, y)
    BY <1>3, <1>4, <1>7, <2>3, LevelsComeBack
  <2>11. s # 0
    BY <1>3, <1>7, <2>3 DEF SaturationNear, Close, Widest
  <2>12. to = <<Grade!HSLINT(lo, hi, h + 85), Grade!HSLINT(lo, hi, h), Grade!HSLINT(lo, hi, h - 85)>>
    BY <1>5, <2>9, <2>11 DEF Grade!HSL2RGB, Low, High
  <2>13. Turned(h + 85) /\ Turned(h) /\ Turned(h - 85)
    BY <1>2, TentsOf
  <2>14. /\ Error(hi, x) + 6 * (x - y) <= 2294 /\ Error(hi, x) - 6 * (x - y) >= -2294
         /\ Error(lo, y) + 6 * (x - y) <= 2294 /\ Error(lo, y) - 6 * (x - y) >= -2294
    BY <2>9, <2>10 DEF LevelsNear
  <2>15. r \in Int /\ g \in Int /\ b \in Int /\ y < x
    BY <1>3, <1>7
  <2>16. /\ Grade!HSLINT(lo, hi, h + 85) - r \in -4 .. 4
         /\ Grade!HSLINT(lo, hi, h) - g \in -4 .. 4
         /\ Grade!HSLINT(lo, hi, h - 85) - b \in -4 .. 4
    BY <2>1, <2>8, <2>13, <2>14, <2>15, ChannelComesBack
  <2>17. to[1] - c[1] \in -4 .. 4 /\ to[2] - c[2] \in -4 .. 4 /\ to[3] - c[3] \in -4 .. 4
    <3>1. to[1] = Grade!HSLINT(lo, hi, h + 85) /\ to[2] = Grade!HSLINT(lo, hi, h)
          /\ to[3] = Grade!HSLINT(lo, hi, h - 85) /\ c[1] = r /\ c[2] = g /\ c[3] = b
      BY <1>3, <2>12
    <3> QED BY <2>16, <3>1
  <2> QED BY <2>17
<1> QED BY <1>6, <1>7

(* The colour stays one, and what a call of grade does to it.              *)
GradeInv == program = "grade" => texel \in Colours

LEMMA GradeSteps ==
  ASSUME GradeInv, [Next]_vars
  PROVE  GradeInv' /\ [program = "grade" => Grade!KeepsLuma]_texel
<1> USE DEF GradeInv
<1>1. CASE UNCHANGED vars
  BY <1>1 DEF vars, gradeVars
<1>2. CASE Sorting
  BY <1>2 DEF Sorting, gradeVars
<1>3. CASE Converting
  BY <1>3 DEF Converting, gradeVars
<1>4. CASE Reading
  BY <1>4 DEF Reading, gradeVars
<1>5. CASE Preprocessing
  BY <1>5 DEF Preprocessing, gradeVars
<1>7. CASE Tabling
  BY <1>7 DEF Tabling, gradeVars
<1>6. CASE Grading
  <2>1. program = "grade" /\ program' = program /\ texel \in Colours
    BY <1>6 DEF Grading
  <2>2. CASE \E keep \in BOOLEAN : Grade!SetLuma(keep)
    BY <2>1, <2>2 DEF Grade!SetLuma
  <2>3. ASSUME NEW new \in Levels \X Levels \X Levels \cup {texel}, Grade!Grade(new)
        PROVE  GradeInv' /\ [program = "grade" => Grade!KeepsLuma]_texel
    <3>1. texel' \in Grade!Graded(texel, new)
      BY <2>3 DEF Grade!Grade
    <3>2. new \in Colours
      <4>1. \A j \in Levels : j \in Grade!Byte
        BY GradeAssumption DEF Grade!Byte
      <4> QED BY Zenon, <2>1, <4>1 DEF Colours
    <3>3. texel' \in Colours /\ (m_preserveLuma => Grade!RGB2L(texel') = Grade!RGB2L(texel))
      BY <2>1, <3>1, <3>2, GradedColour
    <3>4. m_preserveLuma /\ texel' \in Grade!Graded(texel, texel) =>
            \A j \in 1 .. 3 : texel'[j] - texel[j] \in -4 .. 4
      BY <2>1, ComesBack
    <3> QED BY <2>1, <3>3, <3>4 DEF Grade!KeepsLuma, Colours
  <2> QED BY <1>6, <2>2, <2>3 DEF Grading, Grade!Next
<1> QED BY <1>1, <1>2, <1>3, <1>4, <1>5, <1>6, <1>7 DEF Next

(* Grading preserves the lightness of every colour there is, whatever the  *)
(* lookup makes of it, and a lookup that changes nothing moves no channel  *)
(* by more than 4: grade of color_grader.cpp, through RGB2HSL and HSL2RGB. *)
THEOREM GradingKeepsLuma == Spec => LumaPreserved
<1>1. Init => GradeInv
  <2> SUFFICES ASSUME Init, program = "grade" PROVE texel \in Colours
    BY DEF GradeInv
  <2>1. Grade!Init
    BY DEF Init, Start, Is
  <2>2. PICK a, b, c \in Coordinates : texel = <<17 * a, 17 * b, 17 * c>>
    BY <2>1 DEF Grade!Init
  <2>3. \A j \in Coordinates : 17 * j \in Grade!Byte
    BY GradeAssumption DEF Grade!Byte
  <2> QED BY <2>2, <2>3 DEF Colours
<1>2. GradeInv /\ [Next]_vars => GradeInv' /\ [program = "grade" => Grade!KeepsLuma]_texel
  BY GradeSteps
<1> QED BY <1>1, <1>2, PTL DEF Spec, LumaPreserved

-----------------------------------------------------------------------------
(* hget, hset and hdel of small_hashtable.c.                               *)

(* The least of some numbers.                                              *)
LEMMA Least ==
  ASSUME NEW S, S \subseteq Nat, S # {}
  PROVE  \E m \in S : \A k \in S : m <= k
<1>1. PICK top \in S : top \in Nat
  OBVIOUS
<1> DEFINE Below == {k \in 0 .. top : \A j \in S : k < j}
           m     == Cardinality(Below)
<1>2. IsFiniteSet(0 .. top) /\ Below \in SUBSET (0 .. top)
  BY <1>1, FS_Interval
<1>3. IsFiniteSet(Below) /\ m \in Nat
  BY <1>2, FS_Subset, FS_CardinalityType
<1>4. \A k \in Below : k < m
  <2>1. SUFFICES ASSUME NEW k \in Below PROVE k < m
    OBVIOUS
  <2>2. 0 .. k \in SUBSET Below /\ k \in Nat
    OBVIOUS
  <2>3. Cardinality(0 .. k) <= m
    BY <1>3, <2>2, FS_Subset
  <2>4. Cardinality(0 .. k) = k + 1
    <3>1. Cardinality(0 .. k) = IF 0 > k THEN 0 ELSE k - 0 + 1
      BY <2>2, FS_Interval
    <3> QED BY <2>2, <3>1
  <2> HIDE DEF m
  <2> QED BY <1>3, <2>2, <2>3, <2>4
<1>5. Below = 0 .. m - 1
  <2>1. Below \in SUBSET (0 .. m - 1)
    <3> HIDE DEF m
    <3>1. \A k \in Below : k \in Nat
      OBVIOUS
    <3> HIDE DEF Below
    <3> QED BY <1>3, <1>4, <3>1
  <2>2. IsFiniteSet(0 .. m - 1) /\ Cardinality(0 .. m - 1) = m
    <3> HIDE DEF m
    <3>1. Cardinality(0 .. m - 1) = (IF 0 > m - 1 THEN 0 ELSE m - 1 - 0 + 1) /\ IsFiniteSet(0 .. m - 1)
      BY <1>3, FS_Interval
    <3> QED BY <1>3, <3>1
  <2> QED BY <2>1, <2>2, FS_Subset
<1>6. m \in 0 .. top
  <2>1. top \notin Below
    BY <1>1
  <2> HIDE DEF m
  <2> HIDE DEF Below
  <2> QED BY <1>1, <1>3, <1>5, <2>1
<1>7. m \notin Below /\ \A k \in 0 .. m - 1 : k \in Below
  <2> HIDE DEF m
  <2> HIDE DEF Below
  <2> QED BY <1>3, <1>5
<1> HIDE DEF m
<1>8. PICK j \in S : ~(m < j)
  BY <1>6, <1>7
<1>9. \A k \in S : m <= k
  <2>1. SUFFICES ASSUME NEW k \in S, k < m PROVE FALSE
    BY <1>3
  <2>2. k \in Below
    BY <1>3, <1>7, <2>1
  <2> QED BY <2>1, <2>2
<1>10. j = m
  BY <1>3, <1>8, <1>9
<1> QED BY <1>9, <1>10

(* Places in the table.                                                    *)
LEMMA Modulus ==
  ASSUME NEW u \in Int
  PROVE  /\ u % SIZE \in Table!Slots
         /\ \E q \in Int : u = SIZE * q + (u % SIZE)
<1>1. SIZE \in Int /\ SIZE > 0
  BY TableAssumption
<1>2. u % SIZE \in 0 .. SIZE - 1 /\ u = SIZE * (u \div SIZE) + (u % SIZE) /\ u \div SIZE \in Int
  BY <1>1
<1> QED BY <1>2 DEF Table!Slots

LEMMA SameTurn ==
  ASSUME NEW q \in Int, NEW r \in Table!Slots, NEW p \in Int, NEW s \in Table!Slots,
         SIZE * q + r = SIZE * p + s
  PROVE  r = s
<1>1. SIZE \in Int /\ SIZE > 0 /\ r \in Int /\ s \in Int /\ r - s < SIZE /\ s - r < SIZE
  BY TableAssumption DEF Table!Slots
<1>2. SIZE * (q - p) = s - r
  BY <1>1
<1>3. CASE q - p >= 1
  <2>1. SIZE * (q - p) >= SIZE
    BY <1>1, <1>3
  <2> QED BY <1>1, <1>2, <2>1
<1>4. CASE q - p <= -1
  <2>1. SIZE * (p - q) >= SIZE
    BY <1>1, <1>4
  <2>2. SIZE * (p - q) = r - s
    BY <1>1, <1>2
  <2> QED BY <1>1, <2>1, <2>2
<1>5. CASE q = p
  BY <1>1, <1>2, <1>5
<1> QED BY <1>3, <1>4, <1>5

(* Probing tries every slot once.                                          *)
LEMMA ProbeOnce ==
  ASSUME NEW key \in Int, NEW h \in Table!Slots, NEW j \in Table!Slots,
         Table!Probe(key, h) = Table!Probe(key, j)
  PROVE  h = j
<1>1. h \in Int /\ j \in Int
  BY TableAssumption DEF Table!Slots
<1>2. PICK q \in Int : key + h = SIZE * q + ((key + h) % SIZE)
  BY <1>1, Modulus
<1>3. PICK p \in Int : key + j = SIZE * p + ((key + j) % SIZE)
  BY <1>1, Modulus
<1>4. (key + h) % SIZE = (key + j) % SIZE /\ (key + h) % SIZE \in Int
  <2>1. (key + h) % SIZE \in Table!Slots
    BY <1>1, Modulus
  <2> QED BY <2>1, TableAssumption DEF Table!Probe, Table!Slots
<1>5. SIZE * (-q) + h = SIZE * (-p) + j
  <2>1. PICK r \in Int : r = (key + h) % SIZE
    BY <1>4
  <2>2. key + h = SIZE * q + r /\ key + j = SIZE * p + r
    BY <1>2, <1>3, <1>4, <2>1
  <2> QED BY <1>1, <2>2, TableAssumption
<1> QED BY <1>5, SameTurn

LEMMA ProbeAll ==
  ASSUME NEW key \in Int, NEW h \in Table!Slots
  PROVE  \E j \in Table!Slots : Table!Probe(key, j) = h
<1>1. h \in Int /\ SIZE \in Int
  BY TableAssumption DEF Table!Slots
<1>2. PICK j : j = (h - key) % SIZE
  OBVIOUS
<1>3. j \in Table!Slots /\ j \in Int
  <2>1. j \in Table!Slots
    BY <1>1, <1>2, Modulus
  <2> QED BY <2>1, TableAssumption DEF Table!Slots
<1>4. PICK q \in Int : h - key = SIZE * q + j
  <2>1. h - key \in Int
    BY <1>1
  <2> QED BY Zenon, <1>2, <2>1, Modulus
<1>5. PICK r : r = (key + j) % SIZE
  OBVIOUS
<1>6. r \in Table!Slots /\ r \in Int
  <2>1. r \in Table!Slots
    BY <1>3, <1>5, Modulus
  <2> QED BY <2>1, TableAssumption DEF Table!Slots
<1>7. PICK p \in Int : key + j = SIZE * p + r
  BY <1>3, <1>5, Modulus
<1>8. SIZE * (p + q) + r = SIZE * 0 + h
  BY <1>1, <1>3, <1>4, <1>6, <1>7
<1>9. r = h
  BY <1>6, <1>8, SameTurn
<1> QED BY <1>3, <1>5, <1>9 DEF Table!Probe

Filled == {h \in Table!Slots : tab[h] # Nil}

(* Every pair set is in one slot, and probing for it meets no empty slot.  *)
(* A call that hangs hangs because all slots are taken.                    *)
TableInv ==
  state # "deleted" =>
    /\ tab \in [Table!Slots -> {Nil} \cup [key : TableKeys, val : Vals]]
    /\ kept = {<<tab[h].key, tab[h].val>> : h \in Filled}
    /\ \A g, h \in Filled : tab[g].key = tab[h].key => g = h
    /\ \A h \in Filled : \E j \in Table!Slots :
         /\ Table!Probe(tab[h].key, j) = h
         /\ \A k \in 0 .. j - 1 : Table!Probe(tab[h].key, k) \in Filled
    /\ state = "hangs" => Filled = Table!Slots

LEMMA TableInit == Table!Init => TableInv
<1> SUFFICES ASSUME Table!Init PROVE TableInv
  OBVIOUS
<1>1. Filled = {}
  BY DEF Table!Init, Filled
<1>2. tab \in [Table!Slots -> {Nil} \cup [key : TableKeys, val : Vals]]
  BY DEF Table!Init
<1> QED BY <1>1, <1>2 DEF Table!Init, TableInv

LEMMA SlotsAreNumbers ==
  /\ \A h \in Table!Slots : h \in Nat /\ h < SIZE /\ 0 .. h - 1 \subseteq Table!Slots
  /\ \A h \in TableKeys : h \in Int
BY TableAssumption DEF Table!Slots

LEMMA PairsInSlots ==
  ASSUME tab \in [Table!Slots -> {Nil} \cup [key : TableKeys, val : Vals]],
         NEW h \in Filled
  PROVE  /\ h \in Table!Slots
         /\ tab[h] \in [key : TableKeys, val : Vals]
         /\ tab[h].key \in TableKeys
         /\ tab[h] = [key |-> tab[h].key, val |-> tab[h].val]
<1>1. h \in Table!Slots /\ tab[h] \in [key : TableKeys, val : Vals]
  BY DEF Filled
<1> QED BY <1>1

First(key, j) == Table!Ends(key, j) /\ \A k \in 0 .. j - 1 : ~Table!Ends(key, k)

(* Where hget ends.                                                        *)
LEMMA HgetEnds ==
  ASSUME NEW key, ~Table!Hangs(key)
  PROVE  \E j \in Table!Slots : Table!Hget(key) = Table!Probe(key, j) /\ First(key, j)
<1> DEFINE S == {j \in Table!Slots : Table!Ends(key, j)}
<1>1. S \subseteq Nat /\ S # {}
  BY SlotsAreNumbers DEF Table!Hangs
<1>2. PICK m \in S : \A k \in S : m <= k
  BY <1>1, Least
<1>3. m \in Table!Slots /\ First(key, m)
  <2>1. \A k \in 0 .. m - 1 : k \in Table!Slots /\ ~(m <= k)
    BY <1>1, <1>2, SlotsAreNumbers
  <2> QED BY <1>2, <2>1 DEF First
<1>4. PICK c : c = CHOOSE j \in Table!Slots : First(key, j)
  OBVIOUS
<1>5. c \in Table!Slots /\ First(key, c)
  BY <1>3, <1>4
<1>6. Table!Hget(key) = Table!Probe(key, c)
  BY <1>4 DEF Table!Hget, First
<1> QED BY <1>5, <1>6

LEMMA OneFirst ==
  ASSUME NEW key, NEW g \in Table!Slots, NEW h \in Table!Slots, First(key, g), First(key, h)
  PROVE  g = h
<1>1. g \in Nat /\ h \in Nat
  BY SlotsAreNumbers
<1>2. ~(g < h) /\ ~(h < g)
  BY <1>1 DEF First
<1> QED BY <1>1, <1>2

(* A key that has a slot is found there.                                   *)
LEMMA HgetFinds ==
  ASSUME TableInv, state # "deleted", NEW h \in Filled
  PROVE  ~Table!Hangs(tab[h].key) /\ Table!Hget(tab[h].key) = h
<1>0. tab \in [Table!Slots -> {Nil} \cup [key : TableKeys, val : Vals]]
  BY DEF TableInv
<1>1. PICK key \in TableKeys : key = tab[h].key
  BY <1>0, PairsInSlots
<1>2. PICK j \in Table!Slots : Table!Probe(key, j) = h /\ \A k \in 0 .. j - 1 : Table!Probe(key, k) \in Filled
  BY <1>1 DEF TableInv
<1>3. Table!Ends(key, j)
  BY <1>1, <1>2 DEF Table!Ends
<1>4. \A k \in 0 .. j - 1 : ~Table!Ends(key, k)
  <2>1. SUFFICES ASSUME NEW k \in 0 .. j - 1, Table!Ends(key, k) PROVE FALSE
    OBVIOUS
  <2>2. Table!Probe(key, k) \in Filled
    BY <1>2
  <2>3. tab[Table!Probe(key, k)].key = key
    BY <2>1, <2>2 DEF Table!Ends, Filled
  <2>4. Table!Probe(key, k) = Table!Probe(key, j)
    BY <1>1, <1>2, <2>2, <2>3 DEF TableInv
  <2>5. k \in Table!Slots /\ key \in Int
    BY SlotsAreNumbers
  <2>6. k = j
    BY <2>4, <2>5, ProbeOnce
  <2> QED BY <2>6, SlotsAreNumbers
<1>5. ~Table!Hangs(key)
  BY <1>3 DEF Table!Hangs
<1>6. PICK i2 \in Table!Slots : Table!Hget(key) = Table!Probe(key, i2) /\ First(key, i2)
  BY <1>5, HgetEnds
<1>7. i2 = j
  BY <1>3, <1>4, <1>6, OneFirst DEF First
<1> QED BY <1>1, <1>2, <1>5, <1>6, <1>7

(* A key never set: hget meets an empty slot or no end.                    *)
LEMMA HgetMisses ==
  ASSUME TableInv, state # "deleted", NEW key \in TableKeys, key \notin {tab[h].key : h \in Filled}
  PROVE  /\ Table!Hangs(key) <=> Filled = Table!Slots
         /\ ~Table!Hangs(key) => tab[Table!Hget(key)] = Nil
<1>1. key \in Int
  BY SlotsAreNumbers
<1>2. \A j \in Table!Slots : Table!Probe(key, j) \in Table!Slots
  <2>1. SUFFICES ASSUME NEW j \in Table!Slots PROVE Table!Probe(key, j) \in Table!Slots
    OBVIOUS
  <2>2. key + j \in Int
    BY <1>1, SlotsAreNumbers
  <2> QED BY <2>2, Modulus DEF Table!Probe
<1>3. \A j \in Table!Slots : Table!Ends(key, j) <=> Table!Probe(key, j) \notin Filled
  BY <1>2 DEF Table!Ends, Filled
<1>4. Table!Hangs(key) <=> \A j \in Table!Slots : Table!Probe(key, j) \in Filled
  BY <1>3 DEF Table!Hangs
<1>5. Table!Hangs(key) => Filled = Table!Slots
  <2>1. ASSUME Table!Hangs(key), NEW h \in Table!Slots PROVE h \in Filled
    BY <1>1, <1>4, <2>1, ProbeAll
  <2> QED BY <2>1 DEF Filled
<1>6. Filled = Table!Slots => Table!Hangs(key)
  BY <1>2, <1>4
<1>7. ~Table!Hangs(key) => tab[Table!Hget(key)] = Nil
  <2>1. SUFFICES ASSUME ~Table!Hangs(key) PROVE tab[Table!Hget(key)] = Nil
    OBVIOUS
  <2>2. PICK j \in Table!Slots : Table!Hget(key) = Table!Probe(key, j) /\ First(key, j)
    BY <2>1, HgetEnds
  <2> QED BY <1>2, <1>3, <2>2 DEF First, Filled
<1> QED BY <1>5, <1>6, <1>7

LEMMA TableHset ==
  ASSUME TableInv, NEW key \in TableKeys, NEW val \in Vals, Table!Hset(key, val)
  PROVE  TableInv'
<1>1. /\ tab \in [Table!Slots -> {Nil} \cup [key : TableKeys, val : Vals]]
      /\ kept = {<<tab[h].key, tab[h].val>> : h \in Filled}
      /\ \A g, h \in Filled : tab[g].key = tab[h].key => g = h
      /\ \A h \in Filled : \E j \in Table!Slots :
           /\ Table!Probe(tab[h].key, j) = h
           /\ \A k \in 0 .. j - 1 : Table!Probe(tab[h].key, k) \in Filled
      /\ state = "running"
  BY DEF TableInv, Table!Hset
<1>2. CASE Table!Hangs(key)
  <2>1. state' = "hangs" /\ tab' = tab /\ kept' = kept
    BY <1>2 DEF Table!Hset
  <2>2. key \notin {tab[h].key : h \in Filled}
    BY <1>1, <1>2, HgetFinds
  <2>3. Filled = Table!Slots
    BY <1>1, <1>2, <2>2, HgetMisses
  <2>4. Filled' = Filled
    BY <2>1 DEF Filled
  <2> QED BY <1>1, <2>1, <2>3, <2>4 DEF TableInv, Table!Probe
<1>3. CASE ~Table!Hangs(key)
  <2>1. PICK j \in Table!Slots : Table!Hget(key) = Table!Probe(key, j) /\ First(key, j)
    BY <1>3, HgetEnds
  <2>2. PICK g : g = Table!Hget(key)
    OBVIOUS
  <2>3. PICK pair : pair = [key |-> key, val |-> val]
    OBVIOUS
  <2>4. /\ tab' = [tab EXCEPT ![g] = pair]
        /\ kept' = {e \in kept : e[1] # key} \cup {<<key, val>>}
        /\ state' = state
    BY <1>3, <2>2, <2>3 DEF Table!Hset
  <2>5. g \in Table!Slots
    <3>1. key + j \in Int
      BY SlotsAreNumbers
    <3> QED BY <2>1, <2>2, <3>1, Modulus DEF Table!Probe
  <2>6. pair # Nil /\ pair \in [key : TableKeys, val : Vals] /\ pair.key = key /\ pair.val = val
    BY <2>3, TableAssumption
  <2>7. tab' \in [Table!Slots -> {Nil} \cup [key : TableKeys, val : Vals]]
    BY <1>1, <2>4, <2>6
  <2>8. Filled' = Filled \cup {g}
    BY <1>1, <2>4, <2>5, <2>6 DEF Filled
  <2>9. tab'[g] = pair /\ \A h \in Table!Slots \ {g} : tab'[h] = tab[h]
    BY <1>1, <2>4, <2>5
  <2>10. Filled \subseteq Table!Slots
    BY DEF Filled
  <2>11. \A h \in Filled : tab[h].key = key <=> h = g
    <3>1. ASSUME NEW h \in Filled, tab[h].key = key PROVE h = g
      BY <1>1, <2>2, <3>1, HgetFinds
    <3>2. ASSUME g \in Filled PROVE tab[g].key = key
      BY <2>1, <2>2, <3>2 DEF First, Table!Ends, Filled
    <3> QED BY <3>1, <3>2
  <2>12. \A h, f \in Filled' : tab'[h].key = tab'[f].key => h = f
    BY <1>1, <2>6, <2>8, <2>9, <2>10, <2>11
  <2>13. \A k \in 0 .. j - 1 : Table!Probe(key, k) \in Filled
    <3>1. SUFFICES ASSUME NEW k \in 0 .. j - 1 PROVE Table!Probe(key, k) \in Filled
      OBVIOUS
    <3>2. key + k \in Int /\ ~Table!Ends(key, k)
      BY <2>1, SlotsAreNumbers DEF First
    <3>3. Table!Probe(key, k) \in Table!Slots
      BY <3>2, Modulus DEF Table!Probe
    <3> QED BY <3>2, <3>3 DEF Table!Ends, Filled
  <2>14. \A h \in Filled' : \E k \in Table!Slots :
           /\ Table!Probe(tab'[h].key, k) = h
           /\ \A f \in 0 .. k - 1 : Table!Probe(tab'[h].key, f) \in Filled'
    <3>1. SUFFICES ASSUME NEW h \in Filled'
                   PROVE  \E k \in Table!Slots :
                            /\ Table!Probe(tab'[h].key, k) = h
                            /\ \A f \in 0 .. k - 1 : Table!Probe(tab'[h].key, f) \in Filled'
      OBVIOUS
    <3>2. CASE h = g
      BY <2>1, <2>2, <2>6, <2>8, <2>9, <2>13, <3>2
    <3>3. CASE h # g
      <4>1. h \in Filled /\ tab'[h] = tab[h]
        BY <2>8, <2>9, <2>10, <3>3
      <4>2. PICK k \in Table!Slots : Table!Probe(tab[h].key, k) = h
                                     /\ \A f \in 0 .. k - 1 : Table!Probe(tab[h].key, f) \in Filled
        BY <1>1, <4>1
      <4> QED BY <2>8, <4>1, <4>2
    <3> QED BY <3>2, <3>3
  <2>15. kept' = {<<tab'[h].key, tab'[h].val>> : h \in Filled'}
    <3>1. ASSUME NEW e \in kept' PROVE \E h \in Filled' : e = <<tab'[h].key, tab'[h].val>>
      <4>1. CASE e = <<key, val>>
        BY <2>6, <2>8, <2>9, <4>1
      <4>2. CASE e \in kept /\ e[1] # key
        <5>1. PICK h \in Filled : e = <<tab[h].key, tab[h].val>>
          BY <1>1, <4>2
        <5>2. h # g
          BY <2>11, <4>2, <5>1
        <5> QED BY <2>8, <2>9, <2>10, <5>1, <5>2
      <4> QED BY <2>4, <3>1, <4>1, <4>2
    <3>2. ASSUME NEW h \in Filled' PROVE <<tab'[h].key, tab'[h].val>> \in kept'
      <4>1. CASE h = g
        BY <2>4, <2>6, <2>9, <4>1
      <4>2. CASE h # g
        <5>1. h \in Filled /\ tab'[h] = tab[h]
          BY <2>8, <2>9, <2>10, <4>2
        <5>2. <<tab[h].key, tab[h].val>> \in kept /\ tab[h].key # key
          BY <1>1, <2>11, <4>2, <5>1
        <5> QED BY <2>4, <5>1, <5>2
      <4> QED BY <4>1, <4>2
    <3> QED BY <3>1, <3>2
  <2> QED BY <1>1, <2>4, <2>7, <2>12, <2>14, <2>15 DEF TableInv, Table!Probe
<1> QED BY <1>2, <1>3

(* What is in the table is what was set.                                   *)
LEMMA TableHas ==
  ASSUME TableInv, program = "table"
  PROVE  TableFinds
<1> SUFFICES ASSUME state # "deleted" PROVE Table!TableFinds
  BY DEF TableFinds, Table!TableFinds
<1>1. /\ tab \in [Table!Slots -> {Nil} \cup [key : TableKeys, val : Vals]]
      /\ kept = {<<tab[h].key, tab[h].val>> : h \in Filled}
      /\ \A g, h \in Filled : tab[g].key = tab[h].key => g = h
      /\ state = "hangs" => Filled = Table!Slots
  BY DEF TableInv
<1>2. Table!In = {tab[h].key : h \in Filled}
  <2>1. ASSUME NEW k \in Table!In PROVE \E h \in Filled : k = tab[h].key
    <3>1. PICK e \in kept : k = e[1]
      BY DEF Table!In
    <3>2. PICK h \in Filled : e = <<tab[h].key, tab[h].val>>
      BY <1>1
    <3> QED BY <3>1, <3>2
  <2>2. ASSUME NEW h \in Filled PROVE tab[h].key \in Table!In
    <3>1. <<tab[h].key, tab[h].val>> \in kept
      BY <1>1
    <3>2. \A e \in kept : e[1] \in Table!In
      BY DEF Table!In
    <3>3. <<tab[h].key, tab[h].val>>[1] = tab[h].key
      OBVIOUS
    <3> QED BY <3>1, <3>2, <3>3
  <2> QED BY <2>1, <2>2
<1>3. IsFiniteSet(Filled) /\ Cardinality(Table!In) = Cardinality(Filled)
      /\ (Cardinality(Filled) = SIZE <=> Filled = Table!Slots)
  <2>1. IsFiniteSet(Table!Slots) /\ Cardinality(Table!Slots) = SIZE
    <3>1. Cardinality(0 .. SIZE - 1) = (IF 0 > SIZE - 1 THEN 0 ELSE SIZE - 1 - 0 + 1)
          /\ IsFiniteSet(0 .. SIZE - 1)
      BY TableAssumption, FS_Interval
    <3> QED BY <3>1, TableAssumption DEF Table!Slots
  <2>2. Filled \in SUBSET Table!Slots
    BY DEF Filled
  <2>3. IsFiniteSet(Filled) /\ (Cardinality(Filled) = SIZE => Filled = Table!Slots)
    BY <2>1, <2>2, FS_Subset
  <2> DEFINE f == [h \in Filled |-> tab[h].key]
  <2>4. f \in Bijection(Filled, Table!In)
    <3>1. f \in [Filled -> Table!In]
      BY <1>2
    <3>2. \A g, h \in Filled : f[g] = f[h] => g = h
      BY <1>1
    <3>3. \A k \in Table!In : \E h \in Filled : f[h] = k
      BY <1>2
    <3> QED BY <3>1, <3>2, <3>3 DEF Bijection, Injection, Surjection, IsInjective
  <2>5. Cardinality(Table!In) = Cardinality(Filled)
    BY <2>3, <2>4, FS_Bijection DEF ExistsBijection
  <2> QED BY <2>1, <2>3, <2>5
<1> DEFINE Found(e) == tab[Table!Hget(e[1])] = [key |-> e[1], val |-> e[2]]
<1>4. \A e \in kept : Found(e)
  <2>1. ASSUME NEW e \in kept PROVE Found(e)
    <3>1. PICK h \in Filled : e = <<tab[h].key, tab[h].val>>
      BY <1>1
    <3>2. Table!Hget(tab[h].key) = h
      BY HgetFinds
    <3>3. tab[h] = [key |-> tab[h].key, val |-> tab[h].val]
      BY <1>1, PairsInSlots
    <3> QED BY <3>1, <3>2, <3>3
  <2> HIDE DEF Found
  <2> QED BY <2>1
<1>5. \A k \in TableKeys \ Table!In :
        /\ Table!Hangs(k) <=> Filled = Table!Slots
        /\ ~Table!Hangs(k) => tab[Table!Hget(k)] = Nil
  BY <1>2, HgetMisses
<1>6. Table!Cardinality(Table!In) = Cardinality(Table!In)
  BY DEF Table!Cardinality, Cardinality
<1> DEFINE Missed(k) == IF Table!Cardinality(Table!In) = SIZE THEN Table!Hangs(k)
                        ELSE tab[Table!Hget(k)] = Nil
<1>7. \A k \in TableKeys \ Table!In : Missed(k)
  BY <1>3, <1>5, <1>6
<1>8. state = "hangs" => Table!Cardinality(Table!In) = SIZE
  BY <1>1, <1>3, <1>6
<1> QED BY Zenon, <1>4, <1>7, <1>8 DEF Table!TableFinds

(* small_hashtable.c: whatever the size of the table and the keys, hget    *)
(* finds the value last set for a key and an empty slot for any other; it  *)
(* goes round for ever only when other keys have all slots.                *)
THEOREM TableDoesFind == Spec => []TableFinds
<1> DEFINE Inv == program = "table" => TableInv
<1>1. Init => Inv
  BY TableInit DEF Init, Start, Is
<1>2. Inv /\ [Next]_vars => Inv'
  <2> SUFFICES ASSUME Inv, [Next]_vars, program' = "table" PROVE TableInv'
    OBVIOUS
  <2>1. CASE Tabling
    <3>1. TableInv /\ Table!Next
      BY <2>1 DEF Tabling
    <3>2. CASE Table!Hdel
      BY <3>2 DEF Table!Hdel, TableInv
    <3>3. CASE \E key \in TableKeys, val \in Vals : Table!Hset(key, val)
      BY <3>1, <3>3, TableHset
    <3> QED BY <3>1, <3>2, <3>3 DEF Table!Next
  <2>2. CASE ~Tabling
    <3>1. UNCHANGED <<program, tableVars>>
      BY <2>2 DEF Next, Sorting, Converting, Grading, Reading, Preprocessing, vars
    <3>2. UNCHANGED <<tab, state, kept>> /\ TableInv
      BY <3>1 DEF tableVars
    <3>3. Filled' = Filled
      BY <3>2 DEF Filled
    <3> QED BY <3>2, <3>3 DEF TableInv, Table!Probe
  <2> QED BY <2>1, <2>2
<1>3. Inv => TableFinds
  BY TableHas DEF TableFinds
<1> QED BY <1>1, <1>2, <1>3, PTL DEF Spec

-----------------------------------------------------------------------------
(* read and process of perl_regex_preprocessor_macros.c.                   *)

LEMMA Induction ==
  ASSUME NEW S, 0 \in S, \A m \in Nat : m \in S => m + 1 \in S
  PROVE  \A m \in Nat : m \in S
<1> DEFINE Out == {m \in Nat : m \notin S}
<1>1. SUFFICES ASSUME Out # {} PROVE FALSE
  OBVIOUS
<1>2. PICK m \in Out : \A k \in Out : m <= k
  BY <1>1, Least
<1>3. m \in Nat \ {0} /\ m - 1 \in Nat /\ m - 1 + 1 = m
  BY <1>2
<1> QED BY <1>2, <1>3

Letters  == {"c", "/", "#define", "sp", "*", "'", "nl", "quote", "s"}
Elements == Letters \cup {<<<<"c">>, <<"'">>>>}

Join(a, b) == a \o b

(* c begins with a, and goes on with b.                                    *)
Begins(c, a)    == Len(a) <= Len(c) /\ \A k \in 1 .. Len(a) : c[k] = a[k]
GoesOn(c, a, b) == /\ Len(c) = Len(a) + Len(b)
                   /\ \A k \in 1 .. Len(b) : c[Len(a) + k] = b[k]

LEMMA JoinIs ==
  ASSUME NEW a \in Seq(Elements), NEW b \in Seq(Elements)
  PROVE  /\ Join(a, b) \in Seq(Elements)
         /\ Begins(Join(a, b), a) /\ GoesOn(Join(a, b), a, b)
BY DEF Join, Begins, GoesOn

LEMMA BeginsFurther ==
  ASSUME NEW a \in Seq(Elements), NEW b \in Seq(Elements), NEW c \in Seq(Elements),
         Begins(b, a), Begins(c, b)
  PROVE  Begins(c, a)
BY DEF Begins

(* f[k] is the first k of the n sequences in s put together.               *)
Prefixes(f, s, size) ==
  /\ f \in [0 .. size -> Seq(Elements)]
  /\ f[0] = <<>>
  /\ \A k \in 0 .. size - 1 : f[k + 1] = Join(f[k], s[k + 1])

(* Each goes on with the next sequence.                                    *)
LEMMA PrefixesAt ==
  ASSUME NEW size \in Nat, NEW s \in [1 .. size -> Seq(Elements)], NEW f, Prefixes(f, s, size),
         NEW q \in 0 .. size - 1
  PROVE  /\ q \in Nat /\ q + 1 \in 1 .. size
         /\ f[q] \in Seq(Elements) /\ s[q + 1] \in Seq(Elements) /\ f[q + 1] \in Seq(Elements)
         /\ Len(f[q]) \in Nat /\ Len(s[q + 1]) \in Nat
         /\ f[q + 1] = Join(f[q], s[q + 1])
         /\ Begins(f[q + 1], f[q]) /\ GoesOn(f[q + 1], f[q], s[q + 1])
<1>1. q \in Nat /\ q + 1 \in 1 .. size /\ q \in 0 .. size /\ q + 1 \in 0 .. size
  OBVIOUS
<1>2. s[q + 1] \in Seq(Elements)
  BY <1>1
<1>3. f[q] \in Seq(Elements) /\ f[q + 1] \in Seq(Elements)
  BY <1>1 DEF Prefixes
<1>4. f[q + 1] = Join(f[q], s[q + 1])
  BY DEF Prefixes
<1>5. Begins(f[q + 1], f[q]) /\ GoesOn(f[q + 1], f[q], s[q + 1])
  BY <1>2, <1>3, <1>4, JoinIs
<1>6. Len(f[q]) \in Nat /\ Len(s[q + 1]) \in Nat
  BY <1>2, <1>3
<1> QED BY Zenon, <1>1, <1>2, <1>3, <1>4, <1>5, <1>6

LEMMA PrefixesExist ==
  ASSUME NEW size \in Nat, NEW s \in [1 .. size -> Seq(Elements)]
  PROVE  \E f : Prefixes(f, s, size)
<1> DEFINE S == {m \in Nat : m <= size => \E f : Prefixes(f, s, m)}
<1>1. 0 \in S
  <2>1. Prefixes([k \in 0 .. 0 |-> <<>>], s, 0)
    BY DEF Prefixes
  <2> QED BY <2>1
<1>2. \A m \in Nat : m \in S => m + 1 \in S
  <2>1. SUFFICES ASSUME NEW m \in Nat, m + 1 <= size, \E f : Prefixes(f, s, m)
                 PROVE  \E f : Prefixes(f, s, m + 1)
    OBVIOUS
  <2>2. PICK f : Prefixes(f, s, m)
    BY <2>1
  <2> DEFINE x == Join(f[m], s[m + 1])
             g == [k \in 0 .. m + 1 |-> IF k = m + 1 THEN x ELSE f[k]]
  <2>3. m + 1 \in 1 .. size /\ m \in 0 .. m /\ m + 1 - 1 = m
    BY <2>1
  <2>4. s[m + 1] \in Seq(Elements) /\ f[m] \in Seq(Elements)
    BY <2>2, <2>3 DEF Prefixes
  <2>5. x \in Seq(Elements)
    BY <2>4, JoinIs
  <2>6. f \in [0 .. m -> Seq(Elements)] /\ f[0] = <<>>
        /\ \A k \in 0 .. m - 1 : f[k + 1] = Join(f[k], s[k + 1])
    BY <2>2 DEF Prefixes
  <2>7. \A k \in 0 .. m : g[k + 1] = Join(g[k], s[k + 1])
    <3> SUFFICES ASSUME NEW k \in 0 .. m PROVE g[k + 1] = Join(g[k], s[k + 1])
      OBVIOUS
    <3>1. CASE k = m
      BY <3>1
    <3>2. CASE k # m
      <4>1. k \in 0 .. m - 1 /\ k + 1 \in 0 .. m + 1 /\ k + 1 # m + 1 /\ k # m + 1
            /\ k \in 0 .. m + 1
        BY <3>2
      <4> HIDE DEF x
      <4>2. g[k + 1] = f[k + 1] /\ g[k] = f[k]
        BY <4>1
      <4> HIDE DEF g
      <4> QED BY <4>1, <4>2, <2>6
    <3> QED BY <3>1, <3>2
  <2>8. g \in [0 .. m + 1 -> Seq(Elements)] /\ g[0] = <<>>
    <3> HIDE DEF x
    <3>1. \A k \in 0 .. m + 1 : k # m + 1 => k \in 0 .. m
      OBVIOUS
    <3> QED BY <2>5, <2>6, <3>1
  <2> HIDE DEF g
  <2>9. \A k \in 0 .. (m + 1) - 1 : g[k + 1] = Join(g[k], s[k + 1])
    BY <2>3, <2>7
  <2>10. Prefixes(g, s, m + 1)
    BY Zenon, <2>8, <2>9 DEF Prefixes
  <2> QED BY <2>10
<1> HIDE DEF S
<1>3. size \in S
  BY Zenon, <1>1, <1>2, Induction
<1> QED BY <1>3 DEF S

(* So FlattenSeq puts all of them together.                                *)
LEMMA FlattenIs ==
  ASSUME NEW size \in Nat, NEW s \in [1 .. size -> Seq(Elements)], NEW f, Prefixes(f, s, size)
  PROVE  Macro!Seqs!FlattenSeq(s) = f[size]
<1>1. Len(s) = size
  OBVIOUS
<1>2. CASE size = 0
  <2>1. s = <<>> /\ f[0] = <<>>
    BY <1>2 DEF Prefixes
  <2> QED BY <1>1, <1>2, <2>1 DEF Macro!Seqs!FlattenSeq
<1>3. CASE size # 0
  <2> DEFINE Rec(h) == h = [j \in 1 .. size |-> IF j = 1 THEN s[j] ELSE Join(h[j - 1], s[j])]
             h == CHOOSE x : Rec(x)
             g == [k \in 1 .. size |-> f[k]]
  <2>1. Macro!Seqs!FlattenSeq(s) = h[size]
    BY <1>1, <1>3 DEF Macro!Seqs!FlattenSeq, Join
  <2>2. f[1] = s[1]
    <3>1. f[0] = <<>> /\ s[1] \in Seq(Elements) /\ f[0 + 1] = Join(f[0], s[0 + 1]) /\ 0 + 1 = 1
      BY <1>3, PrefixesAt DEF Prefixes
    <3>2. Join(<<>>, s[1]) = s[1]
      BY <3>1 DEF Join
    <3> QED BY <3>1, <3>2
  <2>3. Rec(g)
    <3>1. \A j \in 1 .. size : g[j] = IF j = 1 THEN s[j] ELSE Join(g[j - 1], s[j])
      <4> SUFFICES ASSUME NEW j \in 1 .. size, j # 1 PROVE f[j] = Join(f[j - 1], s[j])
        BY <2>2
      <4>1. j - 1 \in 0 .. size - 1 /\ j - 1 + 1 = j
        OBVIOUS
      <4>2. f[j - 1 + 1] = Join(f[j - 1], s[j - 1 + 1])
        BY <4>1 DEF Prefixes
      <4> QED BY Zenon, <4>1, <4>2
    <3> QED BY <3>1
  <2>4. Rec(h)
    <3> HIDE DEF g
    <3> QED BY <2>3
  <2> HIDE DEF h
  <2>5. \A j \in 1 .. size : h[j] = IF j = 1 THEN s[j] ELSE Join(h[j - 1], s[j])
    BY <2>4
  <2> DEFINE S == {k \in Nat : k + 1 <= size => h[k + 1] = f[k + 1]}
  <2>6. 0 \in S
    <3>1. h[1] = s[1] /\ 0 + 1 = 1
      BY <1>3, <2>5
    <3> QED BY <2>2, <3>1
  <2>7. \A m \in Nat : m \in S => m + 1 \in S
    <3>4. \A m \in Nat : m + 1 \in Nat
      OBVIOUS
    <3> SUFFICES ASSUME NEW m \in Nat, m \in S, (m + 1) + 1 <= size
                 PROVE  h[(m + 1) + 1] = f[(m + 1) + 1]
      BY Zenon, <3>4
    <3>0. h[m + 1] = f[m + 1] /\ m + 2 <= size /\ (m + 1) + 1 = m + 2
      OBVIOUS
    <3> HIDE DEF S
    <3>1. m + 2 \in 1 .. size /\ m + 2 # 1 /\ m + 2 - 1 = m + 1 /\ m + 1 \in 0 .. size - 1
          /\ m + 1 + 1 = m + 2
      BY <3>0
    <3>2. h[m + 2] = Join(h[m + 1], s[m + 2])
      BY <2>5, <3>1
    <3>3. f[m + 1 + 1] = Join(f[m + 1], s[m + 1 + 1])
      BY <3>1 DEF Prefixes
    <3> QED BY Zenon, <3>0, <3>1, <3>2, <3>3
  <2> HIDE DEF S
  <2>8. \A m \in Nat : m \in S
    BY Zenon, <2>6, <2>7, Induction
  <2>9. size - 1 \in Nat /\ size - 1 + 1 = size
    BY <1>3
  <2> DEFINE m == size - 1
  <2>10. m + 1 <= size /\ m \in S
    BY <1>3, <2>8, <2>9
  <2> HIDE DEF m
  <2>11. h[m + 1] = f[m + 1]
    BY Zenon, <2>10 DEF S
  <2>12. m + 1 = size
    BY <2>9 DEF m
  <2> QED BY Zenon, <2>1, <2>11, <2>12
<1> QED BY <1>2, <1>3

(* What was put together begins with every part of it.                     *)
LEMMA PrefixBegins ==
  ASSUME NEW size \in Nat, NEW s \in [1 .. size -> Seq(Elements)], NEW f, Prefixes(f, s, size),
         NEW p \in 0 .. size
  PROVE  f[size] \in Seq(Elements) /\ f[p] \in Seq(Elements) /\ Begins(f[size], f[p])
<1> DEFINE S == {m \in Nat : p + m <= size => Begins(f[p + m], f[p])}
<1>1. \A q \in 0 .. size : f[q] \in Seq(Elements)
  BY DEF Prefixes
<1>2. 0 \in S
  <2>1. f[p] \in Seq(Elements) /\ p + 0 = p
    BY <1>1
  <2>2. Begins(f[p], f[p])
    BY <2>1 DEF Begins
  <2> QED BY <2>1, <2>2
<1>3. \A m \in Nat : m \in S => m + 1 \in S
  <2>1. SUFFICES ASSUME NEW m \in Nat, p + (m + 1) <= size, Begins(f[p + m], f[p])
                 PROVE  Begins(f[p + (m + 1)], f[p])
    OBVIOUS
  <2> DEFINE q == p + m
  <2>2. q \in 0 .. size - 1 /\ p + (m + 1) = q + 1 /\ Begins(f[q], f[p])
    BY <2>1
  <2> HIDE DEF q
  <2>3. Begins(f[q + 1], f[q]) /\ f[q] \in Seq(Elements) /\ f[q + 1] \in Seq(Elements)
    BY <2>2, PrefixesAt
  <2>4. Begins(f[q + 1], f[p])
    BY <1>1, <2>2, <2>3, BeginsFurther
  <2> QED BY <2>2, <2>4
<1> HIDE DEF S
<1>4. \A m \in Nat : m \in S
  BY Zenon, <1>2, <1>3, Induction
<1>5. size - p \in Nat /\ p + (size - p) = size
  OBVIOUS
<1> DEFINE m == size - p
<1>6. m \in S /\ p + m <= size
  BY <1>4, <1>5
<1> HIDE DEF m
<1>7. Begins(f[p + m], f[p])
  BY Zenon, <1>6 DEF S
<1>8. p + m = size
  BY <1>5 DEF m
<1>9. Begins(f[size], f[p])
  BY Zenon, <1>7, <1>8
<1> QED BY <1>1, <1>9

(* The first of some places.                                               *)
LEMMA FirstIs ==
  ASSUME NEW S, S \subseteq Nat, S # {}
  PROVE  Macro!First(S) \in S /\ \A q \in S : Macro!First(S) <= q
<1>1. \E m \in S : \A q \in S : m <= q
  BY Least
<1> QED BY <1>1 DEF Macro!First

LEMMA FirstAt ==
  ASSUME NEW S, S \subseteq Nat, NEW m \in S, \A q \in S : m <= q
  PROVE  Macro!First(S) = m
<1>1. Macro!First(S) \in S /\ Macro!First(S) <= m
  BY FirstIs
<1>2. m <= Macro!First(S) /\ Macro!First(S) \in Nat
  BY <1>1
<1> QED BY <1>1, <1>2

(* A buffer with a byte left for the one that ends the text.               *)
Roomy(b) ==
  /\ b \in [length : Nat, capacity : Nat]
  /\ b.length < b.capacity /\ Chunk <= b.capacity

(* Doubled once, a buffer has room, as no more than Chunk bytes are added. *)
LEMMA BufferAppendIs ==
  ASSUME NEW b, Roomy(b), NEW length \in 0 .. Chunk
  PROVE  Roomy(Macro!BufferAppend(b, length))
         /\ Macro!BufferAppend(b, length).length = b.length + length
<1>1. b.length \in Nat /\ b.capacity \in Nat /\ b.length < b.capacity /\ Chunk <= b.capacity
  BY DEF Roomy
<1>2. Chunk \in Nat /\ length \in Nat /\ length <= Chunk
  BY MacroAssumption
<1> QED BY <1>1, <1>2 DEF Roomy, Macro!BufferAppend

LEMMA AppendEachIs ==
  ASSUME NEW b, Roomy(b), NEW count \in Nat
  PROVE  Roomy(Macro!AppendEach(b, count))
         /\ Macro!AppendEach(b, count).length = b.length + count
<1> DEFINE Turn(x)   == Macro!BufferAppend(x, 1)
           Rec(h)    == h = [k \in 0 .. count |-> IF k = 0 THEN b ELSE Turn(h[k - 1])]
           Upto(f, m) == /\ f \in [0 .. m -> [length : Nat, capacity : Nat]]
                         /\ f[0] = b /\ \A k \in 0 .. m - 1 : f[k + 1] = Turn(f[k])
                         /\ \A k \in 0 .. m : Roomy(f[k])
           h == CHOOSE x : Rec(x)
           Can(m) == \E f : Upto(f, m)
           S == {m \in Nat : Can(m)}
<1>1. \A x : Roomy(x) => Roomy(Turn(x)) /\ Turn(x).length = x.length + 1
  BY MacroAssumption, BufferAppendIs
<1>2. \A x : Roomy(x) => x \in [length : Nat, capacity : Nat]
  BY DEF Roomy
<1>3. Macro!AppendEach(b, count) = h[count]
  BY DEF Macro!AppendEach
<1> HIDE DEF Turn
<1>4. 0 \in S
  <2>1. Upto([k \in 0 .. 0 |-> b], 0)
    BY <1>2
  <2> QED BY <2>1
<1>5. \A m \in Nat : m \in S => m + 1 \in S
  <2> HIDE DEF Can
  <2>0. SUFFICES ASSUME NEW m \in Nat, Can(m) PROVE Can(m + 1)
    OBVIOUS
  <2> USE DEF Can
  <2>1. PICK f : Upto(f, m)
    BY <2>0
  <2> DEFINE x == Turn(f[m])
             g == [k \in 0 .. m + 1 |-> IF k = m + 1 THEN x ELSE f[k]]
  <2>2. Roomy(x) /\ x \in [length : Nat, capacity : Nat]
    BY <1>1, <1>2, <2>1
  <2>3. \A k \in 0 .. m : g[k] = f[k] /\ k \in 0 .. m + 1
    BY <2>1
  <2>4. g[m + 1] = x /\ (m + 1) - 1 = m
    BY <2>1
  <2>5. g \in [0 .. m + 1 -> [length : Nat, capacity : Nat]]
    <3> HIDE DEF x
    <3>1. \A k \in 0 .. m + 1 : k # m + 1 => k \in 0 .. m
      OBVIOUS
    <3> QED BY <2>1, <2>2, <3>1
  <2> HIDE DEF g
  <2>6. \A k \in 0 .. m : g[k + 1] = Turn(g[k])
    <3> SUFFICES ASSUME NEW k \in 0 .. m PROVE g[k + 1] = Turn(g[k])
      OBVIOUS
    <3>1. CASE k = m
      BY <2>3, <2>4, <3>1
    <3>2. CASE k # m
      <4>1. k \in 0 .. m - 1 /\ k + 1 \in 0 .. m
        BY <3>2
      <4> QED BY <2>1, <2>3, <4>1
    <3> QED BY <3>1, <3>2
  <2>7. \A k \in 0 .. m + 1 : Roomy(g[k])
    <3>1. \A k \in 0 .. m + 1 : k # m + 1 => k \in 0 .. m
      OBVIOUS
    <3> HIDE DEF x
    <3> QED BY <2>1, <2>2, <2>3, <2>4, <3>1
  <2>8. g[0] = b
    BY <2>1, <2>3
  <2> QED BY <2>4, <2>5, <2>6, <2>7, <2>8
<1>6. \E f : Upto(f, count)
  <2> HIDE DEF S
  <2>1. count \in S
    BY Zenon, <1>4, <1>5, Induction
  <2> QED BY <2>1 DEF S
<1>7. \E x : Rec(x)
  <2>1. PICK f : Upto(f, count)
    BY <1>6
  <2>2. \A k \in 0 .. count : k = 0 \/ (k - 1 \in 0 .. count - 1 /\ k - 1 + 1 = k)
    OBVIOUS
  <2>3. \A k \in 0 .. count : f[k] = IF k = 0 THEN b ELSE Turn(f[k - 1])
    BY <2>1, <2>2
  <2>4. f = [k \in 0 .. count |-> f[k]]
    BY <2>1
  <2>5. Rec(f)
    BY <2>3, <2>4
  <2> QED BY <2>5
<1>8. Rec(h)
  BY Zenon, <1>7
<1> HIDE DEF h
<1> DEFINE Good(k) == Roomy(h[k]) /\ h[k].length = b.length + k
           Z == {m \in Nat : m <= count => Good(m)}
<1>9. 0 \in Z
  <2>1. h[0] = b /\ b.length \in Nat
    BY <1>8 DEF Roomy
  <2> QED BY <2>1
<1>10. \A m \in Nat : m \in Z => m + 1 \in Z
  <2>1. SUFFICES ASSUME NEW m \in Nat, m + 1 <= count, Good(m) PROVE Good(m + 1)
    OBVIOUS
  <2>2. m + 1 \in 0 .. count /\ m + 1 # 0 /\ m + 1 - 1 = m
    BY <2>1
  <2>3. h[m + 1] = Turn(h[m])
    BY <1>8, <2>2
  <2>4. Roomy(h[m + 1]) /\ h[m + 1].length = h[m].length + 1
    BY <1>1, <2>1, <2>3
  <2>5. b.length \in Nat
    BY DEF Roomy
  <2> QED BY <2>1, <2>4, <2>5
<1> HIDE DEF Z
<1>11. count \in Z
  BY Zenon, <1>9, <1>10, Induction
<1> QED BY <1>3, <1>11 DEF Z

(* What every state has, whatever the text.                                *)
MacroTypes ==
  /\ text \in Seq(Letters)
  /\ Roomy(i) /\ Roomy(o) /\ i.length <= Len(text)
  /\ out \in Seq(Letters \cup {"NUL"}) /\ o.length = Len(out)
  /\ data \in Nat \ {0}

(* The character at a place, and the NUL behind the text.                  *)
LEMMA AtIs ==
  ASSUME text \in Seq(Letters), NEW k \in Int
  PROVE  /\ Len(text) \in Nat
         /\ Macro!At(k) \in Letters \cup {"NUL"}
         /\ k \in 1 .. Len(text) => Macro!At(k) = text[k] /\ text[k] \in Letters
               /\ text[k] # "NUL"
         /\ ~(k \in 1 .. Len(text)) => Macro!At(k) = "NUL"
         /\ Macro!At(k) # "NUL" => k \in 1 .. Len(text)
<1>1. Len(text) \in Nat /\ DOMAIN text = 1 .. Len(text)
  OBVIOUS
<1>2. \A x \in Letters : x # "NUL"
  BY DEF Letters
<1>3. k \in 1 .. Len(text) => text[k] \in Letters
  OBVIOUS
<1>4. CASE k \in 1 .. Len(text)
  <2>1. Macro!At(k) = text[k]
    BY <1>1, <1>4 DEF Macro!At
  <2> QED BY <1>1, <1>2, <1>3, <1>4, <2>1
<1>5. CASE ~(k \in 1 .. Len(text))
  <2>1. Macro!At(k) = "NUL"
    BY <1>1, <1>5 DEF Macro!At
  <2> QED BY <1>1, <1>5, <2>1
<1> QED BY <1>4, <1>5

(* Where something is looked for and where it is found.                    *)
LEMMA PlacesAre ==
  ASSUME text \in Seq(Letters), NEW k \in Nat, NEW chars
  PROVE  /\ Macro!Places(k, chars) \subseteq Nat
         /\ \A p \in Macro!Places(k, chars) : k <= p /\ p <= Len(text) + 1
               /\ Macro!At(p) \in chars
         /\ Macro!Places(k, chars) # {} =>
              LET p == Macro!First(Macro!Places(k, chars))
              IN  p \in Nat /\ k <= p /\ p <= Len(text) + 1 /\ Macro!At(p) \in chars
         /\ "NUL" \in chars /\ k <= Len(text) + 1 => Macro!Places(k, chars) # {}
<1>1. Len(text) \in Nat
  OBVIOUS
<1>2. /\ Macro!Places(k, chars) \subseteq Nat
      /\ \A p \in Macro!Places(k, chars) : k <= p /\ p <= Len(text) + 1 /\ Macro!At(p) \in chars
  BY <1>1 DEF Macro!Places
<1>3. Macro!Places(k, chars) # {} => Macro!First(Macro!Places(k, chars)) \in Macro!Places(k, chars)
  BY <1>2, FirstIs
<1>4. ASSUME "NUL" \in chars, k <= Len(text) + 1 PROVE Macro!Places(k, chars) # {}
  <2>1. Macro!At(Len(text) + 1) = "NUL"
    BY <1>1, AtIs
  <2> QED BY <1>1, <1>4, <2>1 DEF Macro!Places
<1> QED BY <1>2, <1>3, <1>4

(* The end of every turn keeps the buffers as they should be.              *)
LEMMA AdvanceKeepsTypes ==
  ASSUME MacroTypes, NEW keeps \in Seq(Letters), NEW end \in Nat \ {0}, NEW entries,
         Macro!Advance(keeps, end, entries)
  PROVE  MacroTypes'
<1>1. CASE UNCHANGED <<given, text, i, o, out, data>>
  BY <1>1 DEF MacroTypes, Roomy
<1>2. CASE /\ o' = Macro!AppendEach(o, Len(keeps) + 1)
           /\ out' = out \o keeps \o <<Macro!At(end)>>
           /\ data' = end + 1
           /\ UNCHANGED <<given, text, i, applied>>
  <2>1. Len(keeps) + 1 \in Nat /\ Roomy(o)
    BY DEF MacroTypes
  <2>2. Roomy(o') /\ o'.length = o.length + (Len(keeps) + 1)
    BY <1>2, <2>1, AppendEachIs
  <2>3. Macro!At(end) \in Letters \cup {"NUL"}
    BY AtIs DEF MacroTypes
  <2>4. out' \in Seq(Letters \cup {"NUL"}) /\ Len(out') = Len(out) + Len(keeps) + 1
    <3> DEFINE c == Macro!At(end)
    <3>1. keeps \in Seq(Letters \cup {"NUL"}) /\ out \in Seq(Letters \cup {"NUL"})
          /\ c \in Letters \cup {"NUL"}
      BY <2>3 DEF MacroTypes
    <3> HIDE DEF c
    <3>2. out' = out \o keeps \o <<c>>
      BY <1>2 DEF c
    <3> QED BY <3>1, <3>2
  <2>5. o.length = Len(out) /\ Len(out) \in Nat /\ Len(keeps) \in Nat
    BY DEF MacroTypes
  <2>6. Roomy(i)' /\ (i.length <= Len(text))' /\ text' \in Seq(Letters)
    BY <1>2 DEF MacroTypes, Roomy
  <2>7. o'.length = Len(out')
    BY <2>2, <2>4, <2>5
  <2>8. data' \in Nat \ {0}
    BY <1>2
  <2>9. Roomy(o)'
    BY <2>2 DEF Roomy
  <2> QED BY <2>4, <2>6, <2>7, <2>8, <2>9 DEF MacroTypes
<1> QED BY <1>1, <1>2 DEF Macro!Advance, Macro!CanFail, Macro!Crash

(* What process leaves of a piece.                                         *)
Remains(piece) == IF piece = "block" THEN <<"*", "/">> ELSE Macro!Kept(piece)

(* The parts of the text, what is left of them, and their macros.          *)
Chars == [p \in DOMAIN given |-> Macro!Characters(given[p])]
Keeps == [p \in DOMAIN given |-> Remains(given[p])]
Subst == <<<<"c">>, <<"'">>>>
Subs  == [p \in DOMAIN given |-> IF given[p] = "macro" THEN <<Subst>> ELSE <<>>]

Upto(s) == CHOOSE f : Prefixes(f, s, Len(given))

GivenOK == /\ given \in [1 .. Len(given) -> Pieces] /\ Len(given) \in Nat
           /\ text = Upto(Chars)[Len(given)]

(* What each piece is, and what should be left of it.                      *)
LEMMA PiecesAre ==
  /\ Macro!Characters("code") = <<"c">>
  /\ Macro!Characters("slash") = <<"/">>
  /\ Macro!Characters("define") = <<"#define", "sp", "c">>
  /\ Macro!Characters("line") = <<"/", "/", "*", "'", "nl">>
  /\ Macro!Characters("block") = <<"/", "*", "c", "/", "/", "nl", "*", "/">>
  /\ Macro!Characters("string") = <<"quote", "/", "*", "'", "quote">>
  /\ Macro!Characters("char") = <<"'", "quote", "'">>
  /\ Macro!Characters("macro") = <<"#define", "sp", "s", "/", "c", "/", "'", "/", "nl">>
  /\ Macro!Characters("openLine") = <<"/", "/", "c">>
  /\ Macro!Characters("openBlock") = <<"/", "*", "c">>
  /\ Macro!Characters("openString") = <<"quote", "c", "nl">>
  /\ Macro!Characters("halfMacro") = <<"#define", "s", "/", "c", "/", "nl">>
  /\ Macro!Characters("lastMacro") = <<"#define", "s", "/", "/", "/">>
  /\ Remains("code") = <<"c">>
  /\ Remains("slash") = <<"/">>
  /\ Remains("define") = <<"#define", "sp", "c">>
  /\ Remains("line") = <<"nl">>
  /\ Remains("block") = <<"*", "/">>
  /\ Remains("string") = <<"quote", "/", "*", "'", "quote">>
  /\ Remains("char") = <<"'", "quote", "'">>
  /\ Remains("macro") = <<"nl">>
  /\ Remains("openLine") = <<"/", "/", "c">>
  /\ Remains("openBlock") = <<"/", "*", "c">>
  /\ Remains("openString") = <<"quote", "c", "nl">>
  /\ Remains("halfMacro") = <<"#define", "s", "/", "c", "/", "nl">>
  /\ Remains("lastMacro") = <<"#define", "s", "/", "/", "/">>
BY DEF Macro!Characters, Remains, Macro!Kept

LEMMA LettersOf ==
  ASSUME NEW p \in Pieces
  PROVE  /\ Macro!Characters(p) \in Seq(Letters) /\ Len(Macro!Characters(p)) \in Nat \ {0}
         /\ Remains(p) \in Seq(Letters)
<1>1. p \in {"code", "slash", "define", "line", "block", "string", "char", "macro",
             "openLine", "openBlock", "openString", "halfMacro", "lastMacro"}
  BY MacroAssumption
<1>2. \A x \in {"c", "/", "#define", "sp", "*", "'", "nl", "quote", "s"} : x \in Letters
  BY DEF Letters
<1>3. CASE p = "code"
  <2>1. <<"c">> \in Seq(Letters) /\ Len(<<"c">>) \in Nat \ {0}
    BY <1>2
  <2> QED BY Zenon, <1>3, <2>1, PiecesAre
<1>4. CASE p = "slash"
  <2>1. <<"/">> \in Seq(Letters) /\ Len(<<"/">>) \in Nat \ {0}
    BY <1>2
  <2> QED BY Zenon, <1>4, <2>1, PiecesAre
<1>5. CASE p = "define"
  <2>1. <<"#define", "sp", "c">> \in Seq(Letters) /\ Len(<<"#define", "sp", "c">>) \in Nat \ {0}
    BY <1>2
  <2> QED BY Zenon, <1>5, <2>1, PiecesAre
<1>6. CASE p = "line"
  <2>1. <<"/", "/", "*", "'", "nl">> \in Seq(Letters)
        /\ Len(<<"/", "/", "*", "'", "nl">>) \in Nat \ {0}
    BY <1>2
  <2>2. <<"nl">> \in Seq(Letters)
    BY <1>2
  <2> QED BY Zenon, <1>6, <2>1, <2>2, PiecesAre
<1>7. CASE p = "block"
  <2>1. <<"/", "*", "c", "/", "/", "nl", "*", "/">> \in Seq(Letters)
        /\ Len(<<"/", "*", "c", "/", "/", "nl", "*", "/">>) \in Nat \ {0}
    BY <1>2
  <2>2. <<"*", "/">> \in Seq(Letters)
    BY <1>2
  <2> QED BY Zenon, <1>7, <2>1, <2>2, PiecesAre
<1>8. CASE p = "string"
  <2>1. <<"quote", "/", "*", "'", "quote">> \in Seq(Letters)
        /\ Len(<<"quote", "/", "*", "'", "quote">>) \in Nat \ {0}
    BY <1>2
  <2> QED BY Zenon, <1>8, <2>1, PiecesAre
<1>9. CASE p = "char"
  <2>1. <<"'", "quote", "'">> \in Seq(Letters) /\ Len(<<"'", "quote", "'">>) \in Nat \ {0}
    BY <1>2
  <2> QED BY Zenon, <1>9, <2>1, PiecesAre
<1>10. CASE p = "macro"
  <2>1. <<"#define", "sp", "s", "/", "c", "/", "'", "/", "nl">> \in Seq(Letters)
        /\ Len(<<"#define", "sp", "s", "/", "c", "/", "'", "/", "nl">>) \in Nat \ {0}
    BY <1>2
  <2>2. <<"nl">> \in Seq(Letters)
    BY <1>2
  <2> QED BY Zenon, <1>10, <2>1, <2>2, PiecesAre
<1>11. CASE p = "openLine"
  <2>1. <<"/", "/", "c">> \in Seq(Letters) /\ Len(<<"/", "/", "c">>) \in Nat \ {0}
    BY <1>2
  <2> QED BY Zenon, <1>11, <2>1, PiecesAre
<1>12. CASE p = "openBlock"
  <2>1. <<"/", "*", "c">> \in Seq(Letters) /\ Len(<<"/", "*", "c">>) \in Nat \ {0}
    BY <1>2
  <2> QED BY Zenon, <1>12, <2>1, PiecesAre
<1>13. CASE p = "openString"
  <2>1. <<"quote", "c", "nl">> \in Seq(Letters) /\ Len(<<"quote", "c", "nl">>) \in Nat \ {0}
    BY <1>2
  <2> QED BY Zenon, <1>13, <2>1, PiecesAre
<1>14. CASE p = "halfMacro"
  <2>1. <<"#define", "s", "/", "c", "/", "nl">> \in Seq(Letters)
        /\ Len(<<"#define", "s", "/", "c", "/", "nl">>) \in Nat \ {0}
    BY <1>2
  <2> QED BY Zenon, <1>14, <2>1, PiecesAre
<1>15. CASE p = "lastMacro"
  <2>1. <<"#define", "s", "/", "/", "/">> \in Seq(Letters)
        /\ Len(<<"#define", "s", "/", "/", "/">>) \in Nat \ {0}
    BY <1>2
  <2> QED BY Zenon, <1>15, <2>1, PiecesAre
<1> QED BY <1>1, <1>3, <1>4, <1>5, <1>6, <1>7, <1>8, <1>9, <1>10, <1>11, <1>12, <1>13, <1>14, <1>15

(* What is put together of them is well-defined.                           *)
LEMMA SeqsAre ==
  ASSUME Len(given) \in Nat, given \in [1 .. Len(given) -> Pieces]
  PROVE  /\ Chars \in [1 .. Len(given) -> Seq(Elements)]
         /\ Keeps \in [1 .. Len(given) -> Seq(Elements)]
         /\ Subs \in [1 .. Len(given) -> Seq(Elements)]
         /\ Prefixes(Upto(Chars), Chars, Len(given))
         /\ Prefixes(Upto(Keeps), Keeps, Len(given))
         /\ Prefixes(Upto(Subs), Subs, Len(given))
<1>1. Letters \subseteq Elements /\ Subst \in Elements
  BY DEF Elements, Subst
<1>2. \A p \in Pieces : Macro!Characters(p) \in Seq(Elements) /\ Remains(p) \in Seq(Elements)
  <2> SUFFICES ASSUME NEW p \in Pieces
               PROVE  Macro!Characters(p) \in Seq(Elements) /\ Remains(p) \in Seq(Elements)
    OBVIOUS
  <2>1. Macro!Characters(p) \in Seq(Letters) /\ Remains(p) \in Seq(Letters)
    BY LettersOf
  <2>2. \A s \in Seq(Letters) : s \in Seq(Elements)
    BY <1>1
  <2> QED BY <2>1, <2>2
<1>3. <<Subst>> \in Seq(Elements) /\ <<>> \in Seq(Elements)
  <2> HIDE DEF Subst
  <2> QED BY <1>1
<1>4. Chars \in [1 .. Len(given) -> Seq(Elements)]
  BY <1>2 DEF Chars
<1>5. Keeps \in [1 .. Len(given) -> Seq(Elements)]
  BY <1>2 DEF Keeps
<1>6. Subs \in [1 .. Len(given) -> Seq(Elements)]
  BY <1>3 DEF Subs
<1>7. \E f : Prefixes(f, Chars, Len(given))
  BY <1>4, PrefixesExist
<1>8. \E f : Prefixes(f, Keeps, Len(given))
  BY <1>5, PrefixesExist
<1>9. \E f : Prefixes(f, Subs, Len(given))
  BY <1>6, PrefixesExist
<1>10. /\ Prefixes(Upto(Chars), Chars, Len(given))
       /\ Prefixes(Upto(Keeps), Keeps, Len(given))
       /\ Prefixes(Upto(Subs), Subs, Len(given))
  BY Zenon, <1>7, <1>8, <1>9 DEF Upto
<1> QED BY <1>4, <1>5, <1>6, <1>10

(* The p-th part is a window of the text.                                  *)
Offset(p) == Len(Upto(Chars)[p])

LEMMA WindowIs ==
  ASSUME GivenOK, text \in Seq(Letters), NEW p \in 0 .. Len(given) - 1
  PROVE  LET piece == Macro!Characters(given[p + 1])
         IN  /\ Offset(p) \in Nat /\ Offset(p + 1) = Offset(p) + Len(piece)
             /\ Offset(p + 1) <= Len(text)
             /\ \A k \in 1 .. Len(piece) : Macro!At(Offset(p) + k) = piece[k]
             /\ given[p + 1] \in Pieces /\ p + 1 \in 1 .. Len(given)
<1> DEFINE size  == Len(given)
           f     == Upto(Chars)
           piece == Macro!Characters(given[p + 1])
<1>1. size \in Nat /\ given \in [1 .. size -> Pieces] /\ text = f[size]
  BY DEF GivenOK
<1>2. Chars \in [1 .. size -> Seq(Elements)] /\ Prefixes(f, Chars, size)
  BY <1>1, SeqsAre
<1> HIDE DEF f, size
<1>3. p + 1 \in 1 .. size /\ p + 1 \in 0 .. size /\ p \in 0 .. size - 1
  BY <1>1 DEF size
<1>4. Chars[p + 1] = piece /\ given[p + 1] \in Pieces
  BY <1>1, <1>3 DEF Chars
<1>5. /\ Len(f[p]) \in Nat /\ Len(piece) \in Nat
      /\ GoesOn(f[p + 1], f[p], piece)
  BY <1>1, <1>2, <1>3, <1>4, PrefixesAt
<1>6. Begins(f[size], f[p + 1])
  BY <1>1, <1>2, <1>3, PrefixBegins
<1> HIDE DEF piece
<1>7. /\ Len(f[p + 1]) = Len(f[p]) + Len(piece) /\ Len(f[p + 1]) <= Len(text)
      /\ \A k \in 1 .. Len(piece) : f[p + 1][Len(f[p]) + k] = piece[k]
      /\ \A k \in 1 .. Len(f[p + 1]) : text[k] = f[p + 1][k]
  BY <1>1, <1>5, <1>6 DEF Begins, GoesOn
<1>8. \A k \in 1 .. Len(piece) : Macro!At(Len(f[p]) + k) = piece[k]
  <2> SUFFICES ASSUME NEW k \in 1 .. Len(piece) PROVE Macro!At(Len(f[p]) + k) = piece[k]
    OBVIOUS
  <2> DEFINE b == Len(f[p])
             x == b + k
  <2>1. x \in 1 .. Len(f[p + 1]) /\ x \in 1 .. Len(text) /\ x \in Int
    BY <1>5, <1>7
  <2>2. f[p + 1][x] = piece[k]
    BY <1>7
  <2> HIDE DEF x
  <2>3. text[x] = piece[k]
    BY <1>7, <2>1, <2>2
  <2>4. Macro!At(x) = text[x]
    BY <2>1, AtIs
  <2> QED BY <2>3, <2>4 DEF x
<1> QED BY <1>3, <1>4, <1>5, <1>7, <1>8 DEF Offset, f, size, piece

(* What a turn of the loop does depends on the characters at its place.    *)
LEMMA TurnIs ==
  ASSUME phase = "scanning", Macro!Next
  PROVE  LET c == Macro!At(data)
             d == Macro!At(data + 1)
         IN  /\ c = "/" /\ d = "/" => Macro!LineComment
             /\ c = "/" /\ d = "*" => Macro!BlockComment
             /\ c \in {"'", "quote"} => Macro!Quoted
             /\ Macro!IsMacro => Macro!Define
             /\ c = "/" /\ d # "/" /\ d # "*" => Macro!Other
             /\ c = "#define" /\ ~Macro!IsMacro => Macro!Other
             /\ c \in {"c", "sp", "*", "s", "nl"} => Macro!Other
             /\ c = "NUL" => Macro!EndOfText
<1> DEFINE c == Macro!At(data)
           d == Macro!At(data + 1)
<1>1. ~Macro!Read /\ ~Macro!Apply /\ ~Macro!Finish
  BY DEF Macro!Read, Macro!Apply, Macro!Finish
<1>2. Macro!LineComment => c = "/" /\ d = "/"
  BY DEF Macro!LineComment, Macro!Opens
<1>3. Macro!BlockComment => c = "/" /\ d = "*"
  BY DEF Macro!BlockComment, Macro!Opens
<1>4. Macro!Quoted => c \in {"'", "quote"}
  BY DEF Macro!Quoted
<1>5. Macro!Define => Macro!IsMacro
  BY DEF Macro!Define
<1>6. Macro!IsMacro => c = "#define"
  BY DEF Macro!IsMacro
<1>7. Macro!Other => /\ c \notin {"NUL", "'", "quote"} /\ ~Macro!IsMacro
                     /\ ~(c = "/" /\ d = "/") /\ ~(c = "/" /\ d = "*")
  BY DEF Macro!Other, Macro!Opens
<1>8. Macro!EndOfText => c = "NUL"
  BY DEF Macro!EndOfText
<1>9. \/ Macro!LineComment \/ Macro!BlockComment \/ Macro!Quoted \/ Macro!Define \/ Macro!Other
      \/ Macro!EndOfText
  BY <1>1 DEF Macro!Next
<1> HIDE DEF c, d
<1>10. /\ c = "/" /\ d = "/" => Macro!LineComment
       /\ c = "/" /\ d = "*" => Macro!BlockComment
       /\ c \in {"'", "quote"} => Macro!Quoted
       /\ Macro!IsMacro => Macro!Define
       /\ c = "/" /\ d # "/" /\ d # "*" => Macro!Other
       /\ c = "#define" /\ ~Macro!IsMacro => Macro!Other
       /\ c \in {"c", "sp", "*", "s", "nl"} => Macro!Other
       /\ c = "NUL" => Macro!EndOfText
  BY <1>2, <1>3, <1>4, <1>5, <1>6, <1>7, <1>8, <1>9
<1> QED BY <1>10 DEF c, d

(* The loop stands at the beginning of the part p + 1.                     *)
StandsAt(p) ==
  /\ GivenOK /\ text \in Seq(Letters) /\ phase = "scanning"
  /\ p \in 0 .. Len(given) - 1 /\ data = Offset(p) + 1

(* What the loop sees there.                                               *)
LEMMA Seen ==
  ASSUME NEW p, StandsAt(p)
  PROVE  LET piece == Macro!Characters(given[p + 1])
         IN  /\ data \in Nat \ {0} /\ data + Len(piece) = Offset(p + 1) + 1
             /\ data + Len(piece) <= Len(text) + 1 /\ Len(text) \in Nat
             /\ \A k \in 0 .. Len(piece) - 1 : Macro!At(data + k) = piece[k + 1]
<1>1. /\ GivenOK /\ text \in Seq(Letters)
      /\ p \in 0 .. Len(given) - 1 /\ data = Offset(p) + 1
  BY DEF StandsAt
<1> DEFINE piece == Macro!Characters(given[p + 1])
<1>2. /\ Offset(p) \in Nat /\ Offset(p + 1) = Offset(p) + Len(piece) /\ Offset(p + 1) <= Len(text)
      /\ \A k \in 1 .. Len(piece) : Macro!At(Offset(p) + k) = piece[k]
      /\ given[p + 1] \in Pieces
  BY <1>1, WindowIs
<1>3. Len(piece) \in Nat /\ Len(text) \in Nat
  BY <1>1, <1>2, LettersOf
<1> HIDE DEF piece
<1>4. \A k \in 0 .. Len(piece) - 1 : Macro!At(data + k) = piece[k + 1]
  <2> SUFFICES ASSUME NEW k \in 0 .. Len(piece) - 1 PROVE Macro!At(data + k) = piece[k + 1]
    OBVIOUS
  <2>1. k + 1 \in 1 .. Len(piece) /\ data + k = Offset(p) + (k + 1)
    BY <1>1, <1>2, <1>3
  <2> QED BY Zenon, <1>2, <2>1
<1>5. data \in Nat \ {0} /\ data + Len(piece) = Offset(p + 1) + 1
      /\ data + Len(piece) <= Len(text) + 1
  BY <1>1, <1>2, <1>3
<1> QED BY <1>3, <1>4, <1>5 DEF piece

(* The character after a piece that ends with a slash makes no comment.    *)
Nice == ~Macro!Mixed /\ \A p \in 1 .. Len(given) - 1 : given[p] \notin Macro!Open

LEMMA NoCommentAfter ==
  ASSUME GivenOK, Nice, text \in Seq(Letters), NEW p \in 0 .. Len(given) - 1,
         given[p + 1] \in {"slash", "block"}
  PROVE  Macro!At(Offset(p + 1) + 1) \notin {"/", "*"}
<1>1. /\ GivenOK /\ text \in Seq(Letters) /\ p \in 0 .. Len(given) - 1 /\ Len(given) \in Nat
  BY DEF GivenOK
<1>2. CASE p + 1 = Len(given)
  <2>1. Offset(p + 1) = Len(text) /\ Len(text) \in Nat
    BY <1>1, <1>2 DEF Offset, GivenOK
  <2>2. Macro!At(Len(text) + 1) = "NUL"
    BY <1>1, <2>1, AtIs
  <2> QED BY <2>1, <2>2
<1>3. CASE p + 1 # Len(given)
  <2>1. p + 1 \in 0 .. Len(given) - 1 /\ p + 1 \in 1 .. Len(given) - 1 /\ (p + 1) + 1 = p + 2
    BY <1>1, <1>3
  <2> DEFINE piece == Macro!Characters(given[p + 2])
  <2>2. given[p + 2] \in Pieces
        /\ \A k \in 1 .. Len(piece) : Macro!At(Offset(p + 1) + k) = piece[k]
    BY <1>1, <2>1, WindowIs
  <2>3. 1 \in 1 .. Len(piece)
    BY <2>2, LettersOf
  <2>4. given[p + 2] \notin {"slash", "line", "block", "openLine", "openBlock"}
    BY <2>1 DEF Nice, Macro!Mixed, Macro!Meet
  <2>5. given[p + 2] \in {"code", "define", "string", "char", "macro", "openString", "halfMacro", "lastMacro"}
    BY <2>2, <2>4, MacroAssumption
  <2>6. piece[1] \notin {"/", "*"}
    BY <2>5, PiecesAre
  <2> QED BY <2>2, <2>3, <2>6
<1> QED BY <1>2, <1>3

(* The text of pieces is one of letters.                                   *)
LEMMA TextIsLetters ==
  ASSUME GivenOK
  PROVE  text \in Seq(Letters)
<1> DEFINE size == Len(given)
           f    == Upto(Chars)
           S    == {m \in Nat : m <= size => f[m] \in Seq(Letters)}
<1>1. size \in Nat /\ given \in [1 .. size -> Pieces] /\ text = f[size]
  BY DEF GivenOK
<1>2. Prefixes(f, Chars, size)
  BY <1>1, SeqsAre
<1> HIDE DEF f, size
<1>3. 0 \in S
  BY <1>2 DEF Prefixes
<1>4. \A m \in Nat : m \in S => m + 1 \in S
  <2> SUFFICES ASSUME NEW m \in Nat, f[m] \in Seq(Letters), m + 1 <= size
               PROVE  f[m + 1] \in Seq(Letters)
    BY <1>1
  <2>1. m \in 0 .. size - 1 /\ m + 1 \in 1 .. size
    BY <1>1
  <2>2. f[m + 1] = Join(f[m], Chars[m + 1])
    BY <1>2, <2>1 DEF Prefixes
  <2>3. Chars[m + 1] = Macro!Characters(given[m + 1]) /\ given[m + 1] \in Pieces
    BY <1>1, <2>1 DEF Chars
  <2>4. Chars[m + 1] \in Seq(Letters)
    BY <2>3, LettersOf
  <2> QED BY <2>2, <2>4 DEF Join
<1> HIDE DEF S
<1>5. size \in S
  BY Zenon, <1>1, <1>3, <1>4, Induction
<1> QED BY <1>1, <1>5 DEF S

LEMMA MacroTypesInit ==
  ASSUME GivenOK, Macro!Init
  PROVE  MacroTypes
<1>1. text \in Seq(Letters) /\ Len(text) \in Nat
  BY TextIsLetters
<1>2. Roomy(Macro!BufferInit) /\ Macro!BufferInit.length = 0
  BY MacroAssumption DEF Roomy, Macro!BufferInit
<1>3. i = Macro!BufferInit /\ o = Macro!BufferInit /\ out = <<>> /\ data = 1
  BY DEF Macro!Init
<1> QED BY <1>1, <1>2, <1>3 DEF MacroTypes

(* Where a macro is looked for: behind #define, in the text or at its end. *)
LEMMA MacroPlace ==
  ASSUME text \in Seq(Letters), Macro!At(data) = "#define", data \in Nat
  PROVE  Macro!Macro \in Nat /\ Macro!Macro >= data + 1 /\ Macro!Macro <= Len(text) + 1
<1> DEFINE chars == {Macro!At(p) : p \in 1 .. Len(text) + 1} \ {"sp", "nl"}
<1>1. data \in 1 .. Len(text) /\ Len(text) \in Nat
  BY AtIs
<1>2. Macro!At(Len(text) + 1) = "NUL"
  BY <1>1, AtIs
<1>3. "NUL" \in chars
  BY <1>1, <1>2
<1>4. Macro!Macro = Macro!First(Macro!Places(data + 1, chars))
  BY DEF Macro!Macro
<1> HIDE DEF chars
<1> QED BY <1>1, <1>3, <1>4, PlacesAre

(* So does every step.                                                     *)
LEMMA MacroTypesStep ==
  ASSUME MacroTypes, Macro!Next
  PROVE  MacroTypes'
<1>1. /\ text \in Seq(Letters) /\ data \in Nat \ {0} /\ Len(text) \in Nat
      /\ \A k \in Nat : Macro!At(k) # "NUL" => k \in 1 .. Len(text)
  <2>1. text \in Seq(Letters) /\ data \in Nat \ {0}
    BY DEF MacroTypes
  <2> QED BY <2>1, AtIs
<1>2. ASSUME UNCHANGED <<text, i, o, out, data>> PROVE MacroTypes'
  BY <1>2 DEF MacroTypes, Roomy
<1>3. ASSUME NEW how, Macro!Crash(how) PROVE MacroTypes'
  BY <1>2, <1>3 DEF Macro!Crash
<1>4. ASSUME NEW end \in Nat \ {0}, NEW entries, Macro!Advance(<<>>, end, entries)
      PROVE  MacroTypes'
  <2>1. <<>> \in Seq(Letters)
    OBVIOUS
  <2> QED BY <1>4, <2>1, AdvanceKeepsTypes
<1>5. CASE Macro!Read
  <2> DEFINE left  == Len(text) - i.length
             count == IF left < Chunk THEN left ELSE Chunk
             b     == Macro!BufferAppend(i, count)
  <2>1. i.length \in Nat /\ i.length <= Len(text) /\ Roomy(i)
    BY DEF MacroTypes, Roomy
  <2>2. count \in 0 .. Chunk /\ i.length + count <= Len(text)
    BY <1>1, <2>1, MacroAssumption
  <2>3. Roomy(b) /\ b.length = i.length + count
    BY <2>1, <2>2, BufferAppendIs
  <2>4. (i' = b /\ UNCHANGED <<text, o, out, data>>) \/ Macro!Crash("aborted")
    BY <1>5 DEF Macro!Read, Macro!CanFail
  <2> HIDE DEF b, count
  <2>5. CASE i' = b /\ UNCHANGED <<text, o, out, data>>
    <3>1. Roomy(i')
      BY <2>3, <2>5
    <3>2. i'.length <= Len(text)
      BY <2>2, <2>3, <2>5
    <3> QED BY <2>5, <3>1, <3>2 DEF MacroTypes, Roomy
  <2> QED BY <1>3, <2>4, <2>5
<1>6. CASE Macro!LineComment
  <2> DEFINE end == Macro!First(Macro!Places(data, {"nl", "NUL"}))
  <2>1. Macro!At(data) = "/" /\ Macro!Advance(<<>>, end, list)
    BY <1>6 DEF Macro!LineComment, Macro!Opens
  <2>2. data <= Len(text) + 1 /\ "NUL" \in {"nl", "NUL"}
    BY <1>1, <2>1
  <2>3. end \in Nat /\ data <= end
    BY <1>1, <2>2, PlacesAre
  <2> HIDE DEF end
  <2> QED BY <1>1, <1>4, <2>1, <2>3
<1>7. CASE Macro!BlockComment
  <2> DEFINE ends == {p \in Macro!Places(data, {"*"}) : Macro!At(p + 1) = "/"}
  <2>1. IF ends = {} THEN Macro!Crash("wild") ELSE Macro!Advance(<<>>, Macro!First(ends), list)
    BY <1>7 DEF Macro!BlockComment
  <2>2. ends \subseteq Nat /\ \A p \in ends : data <= p
    BY <1>1, PlacesAre
  <2> HIDE DEF ends
  <2>3. ASSUME ends # {} PROVE Macro!First(ends) \in Nat \ {0}
    <3>1. Macro!First(ends) \in ends
      BY <2>2, <2>3, FirstIs
    <3>2. Macro!First(ends) \in Nat /\ data <= Macro!First(ends)
      BY <2>2, <3>1
    <3> QED BY <1>1, <3>2
  <2> QED BY <1>3, <1>4, <2>1, <2>3
<1>8. CASE Macro!Quoted
  <2> DEFINE chars == {Macro!At(data), "NUL"}
             end   == Macro!First(Macro!Places(data + 1, chars))
             keeps == SubSeq(text, data, end - 1)
  <2>1. Macro!At(data) \in {"'", "quote"} /\ Macro!Advance(keeps, end, list)
    BY <1>8 DEF Macro!Quoted
  <2>2. data + 1 \in Nat /\ data + 1 <= Len(text) + 1 /\ "NUL" \in chars
    BY <1>1, <2>1
  <2> HIDE DEF chars
  <2>3. end \in Nat /\ data + 1 <= end /\ end <= Len(text) + 1
    BY <1>1, <2>2, PlacesAre
  <2> HIDE DEF end
  <2>4. keeps \in Seq(Letters)
    BY <1>1, <2>3
  <2> HIDE DEF keeps
  <2> QED BY <1>1, <2>1, <2>3, <2>4, AdvanceKeepsTypes
<1>9. CASE Macro!Define
  <2> DEFINE begin   == Macro!Macro + 2
             search  == Macro!Places(begin, {"/"})
             middle  == Macro!First(search)
             replace == search \ {middle}
             end     == Macro!First(replace)
             entries == Append(list, <<SubSeq(text, begin, middle - 1), SubSeq(text, middle + 1, end - 1)>>)
  <2>1. \/ Macro!Crash("wild") \/ Macro!Crash("aborted")
        \/ replace # {} /\ Macro!Advance(<<>>, end + 1, entries)
    BY <1>9 DEF Macro!Define
  <2> HIDE DEF entries
  <2>2. Macro!At(data) = "#define"
    BY <1>9 DEF Macro!Define, Macro!IsMacro
  <2>3. begin \in Nat
    BY <1>1, <2>2, MacroPlace
  <2> HIDE DEF begin
  <2>4. search \subseteq Nat
    BY <1>1, <2>3, PlacesAre
  <2> HIDE DEF search, middle
  <2>5. replace \subseteq Nat
    BY <2>4
  <2> HIDE DEF replace
  <2>6. replace # {} => end \in Nat
    BY <2>5, FirstIs
  <2> HIDE DEF end
  <2>7. replace # {} => end + 1 \in Nat \ {0}
    BY <2>6
  <2> QED BY <1>3, <1>4, <2>1, <2>7
<1>10. CASE Macro!Other
  BY <1>1, <1>4, <1>10 DEF Macro!Other
<1>11. CASE Macro!EndOfText \/ Macro!Apply \/ Macro!Finish
  BY <1>2, <1>11 DEF Macro!EndOfText, Macro!Apply, Macro!Finish
<1> QED BY <1>5, <1>6, <1>7, <1>8, <1>9, <1>10, <1>11 DEF Macro!Next

LEMMA JoinAssociates ==
  ASSUME NEW a \in Seq(Elements), NEW b \in Seq(Elements), NEW c \in Seq(Elements)
  PROVE  Join(Join(a, b), c) = Join(a, Join(b, c))
BY DEF Join

LEMMA JoinNothing ==
  ASSUME NEW a \in Seq(Elements)
  PROVE  Join(a, <<>>) = a /\ Join(<<>>, a) = a
BY DEF Join

(* All this depends on the input alone.                                    *)
LEMMA Same ==
  ASSUME given' = given
  PROVE  /\ Upto(Chars)' = Upto(Chars) /\ Upto(Keeps)' = Upto(Keeps) /\ Upto(Subs)' = Upto(Subs)
         /\ \A p : Offset(p)' = Offset(p)
<1>1. Chars' = Chars
  BY DEF Chars
<1>2. Keeps' = Keeps
  BY DEF Keeps
<1>3. Subs' = Subs
  BY DEF Subs
<1>4. Upto(Chars)' = Upto(Chars)
  BY Zenon, <1>1 DEF Upto
<1>5. Upto(Keeps)' = Upto(Keeps)
  BY Zenon, <1>2 DEF Upto
<1>6. Upto(Subs)' = Upto(Subs)
  BY Zenon, <1>3 DEF Upto
<1> QED BY <1>4, <1>5, <1>6 DEF Offset

(* The loop is j characters into the part p + 1. Of that part is kept what *)
(* is in part, of the parts before it all that should be.                  *)
Inside(p, j, part) ==
  /\ p \in 0 .. Len(given) /\ \A q \in 1 .. p : given[q] \notin Macro!Open
  /\ data = Offset(p) + j + 1
  /\ out = Join(Upto(Keeps)[p], part)
  /\ list = Upto(Subs)[p]

(* Between two turns the loop is at the beginning of a part, or inside of  *)
(* one that takes several turns.                                           *)
Standing ==
  \E p \in 0 .. Len(given) :
    \/ Inside(p, 0, <<>>)
    \/ /\ p < Len(given) /\ given[p + 1] = "define"
       /\ Inside(p, 1, <<"#define">>) \/ Inside(p, 2, <<"#define", "sp">>)
    \/ /\ p < Len(given) /\ given[p + 1] = "block"
       /\ Inside(p, 7, <<"*">>)

(* What a turn leads to.                                                   *)
GoesWell ==
  /\ UNCHANGED <<given, text, applied>>
  /\ \/ phase' = "aborted"
     \/ phase' = "scanning" /\ Standing'
     \/ phase' = "wild" /\ Macro!Ends

(* What Advance adds to what was kept before.                              *)
LEMMA AdvanceIs ==
  ASSUME MacroTypes, GivenOK, NEW p \in 0 .. Len(given) - 1, NEW j, NEW part \in Seq(Elements),
         Inside(p, j, part), NEW keeps \in Seq(Elements), NEW end \in 1 .. Len(text),
         NEW entries, Macro!Advance(keeps, end, entries)
  PROVE  /\ UNCHANGED <<given, text, applied>>
         /\ \/ phase' = "aborted"
            \/ /\ phase' = "scanning" /\ data' = end + 1 /\ list' = entries
               /\ out' = Join(Upto(Keeps)[p], Join(part, Join(keeps, <<Macro!At(end)>>)))
<1>1. CASE Macro!CanFail(o, Macro!AppendEach(o, Len(keeps) + 1))
  BY <1>1 DEF Macro!CanFail, Macro!Crash
<1>2. CASE ~Macro!CanFail(o, Macro!AppendEach(o, Len(keeps) + 1))
  <2> DEFINE c == Macro!At(end)
             k == Upto(Keeps)[p]
  <2>1. /\ UNCHANGED <<given, text, applied>> /\ data' = end + 1 /\ list' = entries
        /\ out' = out \o keeps \o <<c>>
        /\ phase' = IF end > Len(text) THEN "wild" ELSE "scanning"
    BY <1>2 DEF Macro!Advance
  <2>2. phase' = "scanning"
    BY <2>1 DEF MacroTypes
  <2>3. c \in Letters
    BY AtIs DEF MacroTypes
  <2>4. <<c>> \in Seq(Elements)
    <3> HIDE DEF c
    <3> QED BY <2>3 DEF Elements
  <2>5. Len(given) \in Nat /\ given \in [1 .. Len(given) -> Pieces]
    BY DEF GivenOK
  <2>6. k \in Seq(Elements)
    <3>1. Prefixes(Upto(Keeps), Keeps, Len(given)) /\ p \in 0 .. Len(given)
      BY <2>5, SeqsAre
    <3> QED BY <3>1 DEF Prefixes
  <2>7. out = Join(k, part)
    BY DEF Inside
  <2> HIDE DEF c, k
  <2>8. out' = Join(Join(Join(k, part), keeps), <<c>>)
    BY <2>1, <2>7 DEF Join
  <2>9. Join(k, part) \in Seq(Elements) /\ Join(keeps, <<c>>) \in Seq(Elements)
    BY <2>4, <2>6, JoinIs
  <2>10. out' = Join(Join(k, part), Join(keeps, <<c>>))
    BY <2>4, <2>8, <2>9, JoinAssociates
  <2>11. out' = Join(k, Join(part, Join(keeps, <<c>>)))
    BY <2>6, <2>9, <2>10, JoinAssociates
  <2> QED BY <2>1, <2>2, <2>11 DEF c, k
<1> QED BY <1>1, <1>2

LEMMA PrefixesNext ==
  ASSUME NEW size \in Nat, NEW s \in [1 .. size -> Seq(Elements)], NEW f, Prefixes(f, s, size),
         NEW q \in 0 .. size - 1
  PROVE  f[q + 1] = Join(f[q], s[q + 1]) /\ f[q] \in Seq(Elements) /\ f[q + 1] \in Seq(Elements)
BY PrefixesAt

LEMMA PartNext ==
  ASSUME Len(given) \in Nat, given \in [1 .. Len(given) -> Pieces], NEW p \in 0 .. Len(given) - 1
  PROVE  /\ Upto(Keeps)[p + 1] = Join(Upto(Keeps)[p], Keeps[p + 1])
         /\ Upto(Keeps)[p + 1] \in Seq(Elements)
         /\ Upto(Subs)[p + 1] = Join(Upto(Subs)[p], Subs[p + 1])
         /\ Upto(Subs)[p] \in Seq(Elements)
<1> DEFINE size == Len(given)
           k    == Keeps
           s    == Subs
           f    == Upto(k)
           h    == Upto(s)
<1>1. size \in Nat /\ p \in 0 .. size - 1
  OBVIOUS
<1>2. Prefixes(f, k, size) /\ k \in [1 .. size -> Seq(Elements)]
  BY SeqsAre
<1>3. Prefixes(h, s, size) /\ s \in [1 .. size -> Seq(Elements)]
  BY SeqsAre
<1> HIDE DEF size, k, s, f, h
<1>4. f[p + 1] = Join(f[p], k[p + 1]) /\ f[p + 1] \in Seq(Elements)
  BY Zenon, <1>1, <1>2, PrefixesNext
<1>5. h[p + 1] = Join(h[p], s[p + 1]) /\ h[p] \in Seq(Elements)
  BY Zenon, <1>1, <1>3, PrefixesNext
<1> QED BY <1>4, <1>5 DEF f, h, k, s

(* A turn that ends a part.                                                *)
LEMMA PartDone ==
  ASSUME MacroTypes, GivenOK, NEW p \in 0 .. Len(given) - 1, NEW j, NEW part \in Seq(Elements),
         Inside(p, j, part), NEW keeps \in Seq(Elements), NEW end, end = Offset(p + 1),
         NEW entries, Macro!Advance(keeps, end, entries),
         Join(part, Join(keeps, <<Macro!At(end)>>)) = Keeps[p + 1],
         entries = Join(list, Subs[p + 1]),
         given[p + 1] \notin Macro!Open
  PROVE  GoesWell
<1>1. text \in Seq(Letters) /\ Len(given) \in Nat /\ given \in [1 .. Len(given) -> Pieces]
  BY DEF GivenOK, MacroTypes
<1>2. end \in 1 .. Len(text)
  <2>1. /\ Offset(p) \in Nat /\ Offset(p + 1) = Offset(p) + Len(Macro!Characters(given[p + 1]))
        /\ Offset(p + 1) <= Len(text) /\ given[p + 1] \in Pieces
    BY <1>1, WindowIs
  <2>2. Len(Macro!Characters(given[p + 1])) \in Nat \ {0}
    BY <2>1, LettersOf
  <2>3. Len(text) \in Nat
    BY <1>1
  <2> HIDE DEF Offset
  <2> QED BY <2>1, <2>2, <2>3
<1>3. /\ UNCHANGED <<given, text, applied>>
      /\ \/ phase' = "aborted"
         \/ /\ phase' = "scanning" /\ data' = end + 1 /\ list' = entries
            /\ out' = Join(Upto(Keeps)[p], Keeps[p + 1])
  <2>1. /\ UNCHANGED <<given, text, applied>>
        /\ \/ phase' = "aborted"
           \/ /\ phase' = "scanning" /\ data' = end + 1 /\ list' = entries
              /\ out' = Join(Upto(Keeps)[p], Join(part, Join(keeps, <<Macro!At(end)>>)))
    BY <1>2, AdvanceIs
  <2> QED BY <2>1
<1>4. CASE phase' = "aborted"
  BY <1>3, <1>4 DEF GoesWell
<1>5. CASE phase' # "aborted"
  <2> DEFINE q == p + 1
  <2>2. /\ Upto(Keeps)[q] = Join(Upto(Keeps)[p], Keeps[q]) /\ Upto(Keeps)[q] \in Seq(Elements)
        /\ Upto(Subs)[q] = Join(Upto(Subs)[p], Subs[q])
    BY <1>1, PartNext
  <2>3. list = Upto(Subs)[p] /\ \A r \in 1 .. p : given[r] \notin Macro!Open
    BY DEF Inside
  <2>4. q \in 0 .. Len(given) /\ \A r \in 1 .. q : given[r] \notin Macro!Open
    BY <1>1, <2>3
  <2>5. end = Offset(q) /\ end + 1 = end + 0 + 1
    BY <1>2
  <2> HIDE DEF q
  <2>6. out' = Join(Upto(Keeps)[q], <<>>)
    BY <1>3, <1>5, <2>2, JoinNothing DEF q
  <2>7. list' = Upto(Subs)[q]
    BY <1>3, <1>5, <2>2, <2>3 DEF q
  <2>8. data' = Offset(q) + 0 + 1
    BY <1>3, <1>5, <2>5
  <2>9. Inside(q, 0, <<>>)'
    <3>1. /\ Upto(Keeps)' = Upto(Keeps) /\ Upto(Subs)' = Upto(Subs) /\ Offset(q)' = Offset(q)
          /\ given' = given
      BY <1>3, Same
    <3> QED BY <2>4, <2>6, <2>7, <2>8, <3>1 DEF Inside
  <2>10. Standing'
    BY <1>3, <2>4, <2>9 DEF Standing
  <2> QED BY <1>3, <1>5, <2>10 DEF GoesWell
<1> QED BY <1>4, <1>5

(* Where the first of some characters is found.                            *)
LEMMA FoundAt ==
  ASSUME text \in Seq(Letters), NEW k \in Nat, NEW chars, NEW m \in Nat, k <= m, m <= Len(text) + 1,
         Macro!At(m) \in chars, \A q \in k .. m - 1 : Macro!At(q) \notin chars
  PROVE  Macro!First(Macro!Places(k, chars)) = m
<1>1. Len(text) \in Nat
  OBVIOUS
<1>2. m \in Macro!Places(k, chars) /\ Macro!Places(k, chars) \subseteq Nat
  BY <1>1 DEF Macro!Places
<1>3. \A q \in Macro!Places(k, chars) : m <= q
  BY <1>1 DEF Macro!Places
<1> QED BY <1>2, <1>3, FirstAt

LEMMA ElementsAre ==
  /\ Letters \subseteq Elements
  /\ \A x \in {"c", "/", "#define", "sp", "*", "'", "nl", "quote", "s"} : x \in Elements
BY DEF Elements, Letters

LEMMA SeqsEqual ==
  ASSUME NEW a \in Seq(Elements), NEW b \in Seq(Elements), Len(a) = Len(b),
         \A k \in 1 .. Len(a) : a[k] = b[k]
  PROVE  a = b
OBVIOUS

LEMMA JoinOne ==
  ASSUME NEW a \in Seq(Elements), NEW x \in Elements, NEW t \in Seq(Elements),
         Len(t) = Len(a) + 1, t[Len(a) + 1] = x, \A k \in 1 .. Len(a) : t[k] = a[k]
  PROVE  Join(a, <<x>>) = t
<1> DEFINE c == <<x>>
           s == Join(a, c)
<1>1. c \in Seq(Elements) /\ Len(c) = 1 /\ c[1] = x
  OBVIOUS
<1> HIDE DEF c
<1>2. s \in Seq(Elements) /\ Begins(s, a) /\ GoesOn(s, a, c)
  BY <1>1, JoinIs
<1> HIDE DEF s
<1>3. Len(s) = Len(t) /\ \A k \in 1 .. Len(s) : s[k] = t[k]
  BY <1>1, <1>2 DEF Begins, GoesOn
<1>4. s = t
  BY <1>2, <1>3, SeqsEqual
<1> QED BY <1>4 DEF s, c

LEMMA NothingAdded ==
  ASSUME GivenOK, NEW p \in 0 .. Len(given) - 1, NEW j, NEW part, Inside(p, j, part),
         given[p + 1] # "macro"
  PROVE  list = Join(list, Subs[p + 1])
<1>1. Len(given) \in Nat /\ given \in [1 .. Len(given) -> Pieces]
  BY DEF GivenOK
<1>2. list \in Seq(Elements)
  BY <1>1, PartNext DEF Inside
<1>3. Subs[p + 1] = <<>>
  BY <1>1 DEF Subs
<1> QED BY <1>2, <1>3, JoinNothing

(* An open part is the last one.                                           *)
LEMMA OpenIsLast ==
  ASSUME GivenOK, Nice, text \in Seq(Letters), NEW p \in 0 .. Len(given) - 1,
         given[p + 1] \in Macro!Open
  PROVE  Macro!Ends /\ Len(text) = Offset(p + 1) /\ Len(text) \in Nat
<1>1. Len(given) \in Nat /\ given \in [1 .. Len(given) -> Pieces]
  BY DEF GivenOK
<1>2. p + 1 = Len(given)
  <2>1. p + 1 \in 1 .. Len(given)
    BY <1>1
  <2>2. p + 1 \notin 1 .. Len(given) - 1
    BY DEF Nice
  <2>3. Len(given) \in Nat /\ p \in Nat
    BY <1>1
  <2> QED BY <2>1, <2>2, <2>3
<1>3. given # <<>>
  BY <1>1, <1>2
<1>4. text = Upto(Chars)[p + 1]
  BY <1>2 DEF GivenOK
<1> QED BY <1>2, <1>3, <1>4 DEF Macro!Ends, Offset

(* An open part may lead behind the text.                                  *)
LEMMA GoesWild ==
  ASSUME MacroTypes, GivenOK, Nice, NEW p \in 0 .. Len(given) - 1, given[p + 1] \in Macro!Open,
         NEW keeps, NEW end \in Nat, end > Len(text), NEW entries,
         Macro!Advance(keeps, end, entries)
  PROVE  GoesWell
<1>1. Macro!Ends
  BY OpenIsLast DEF MacroTypes
<1>2. \/ phase' = "wild" /\ UNCHANGED <<given, text, applied>>
      \/ Macro!Crash("aborted")
  BY DEF Macro!Advance, Macro!CanFail
<1> QED BY <1>1, <1>2 DEF GoesWell, Macro!Crash

LEMMA Crashes ==
  ASSUME NEW how, Macro!Crash(how), how = "aborted" \/ (Macro!Ends /\ how = "wild")
  PROVE  GoesWell
BY DEF GoesWell, Macro!Crash

(* Each of the pieces in turn: where the turn ends, and what it keeps.     *)
LEMMA CodePart ==
  ASSUME MacroTypes, GivenOK, Nice, phase = "scanning", Macro!Next, NEW p \in 0 .. Len(given) - 1,
         Inside(p, 0, <<>>), given[p + 1] = "code"
  PROVE  GoesWell
<1>1. StandsAt(p) /\ text \in Seq(Letters)
  <2>1. data = Offset(p) + 0 + 1 /\ text \in Seq(Letters)
    BY DEF Inside, MacroTypes
  <2>2. Offset(p) \in Nat
    BY <2>1, WindowIs
  <2> QED BY <2>1, <2>2 DEF StandsAt
<1>2. /\ data \in Nat \ {0} /\ Len(text) \in Nat /\ data + 0 = Offset(p + 1)
      /\ data + 0 <= Len(text)
      /\ Macro!At(data) = "c"
  <2> DEFINE piece == <<"c">>
  <2>1. Macro!Characters(given[p + 1]) = piece /\ Len(piece) = 1
    BY PiecesAre
  <2>2. /\ data \in Nat \ {0} /\ data + Len(piece) = Offset(p + 1) + 1
        /\ data + Len(piece) <= Len(text) + 1 /\ Len(text) \in Nat
        /\ \A k \in 0 .. Len(piece) - 1 : Macro!At(data + k) = piece[k + 1]
    BY <1>1, <2>1, Seen
  <2>3. piece[1] = "c"
    OBVIOUS
  <2> HIDE DEF piece
  <2>4. Offset(p + 1) \in Nat
    BY <1>1, WindowIs
  <2>5. data + 0 = data
    BY <2>2
  <2> QED BY <2>1, <2>2, <2>3, <2>4, <2>5
<1>3. Macro!Other
  BY <1>2, TurnIs
<1>4. Macro!Advance(<<>>, data, list)
  BY <1>3 DEF Macro!Other
<1>5. Join(<<>>, Join(<<>>, <<Macro!At(data)>>)) = Keeps[p + 1]
  <2>1. Keeps[p + 1] = <<"c">>
    BY PiecesAre DEF Keeps, GivenOK
  <2> QED BY <1>2, <2>1 DEF Join
<1>6. list = Join(list, Subs[p + 1]) /\ given[p + 1] \notin Macro!Open /\ <<>> \in Seq(Elements)
  BY NothingAdded DEF Macro!Open
<1>7. data = Offset(p + 1)
  BY <1>2
<1> QED BY <1>4, <1>5, <1>6, <1>7, PartDone

LEMMA SlashPart ==
  ASSUME MacroTypes, GivenOK, Nice, phase = "scanning", Macro!Next, NEW p \in 0 .. Len(given) - 1,
         Inside(p, 0, <<>>), given[p + 1] = "slash"
  PROVE  GoesWell
<1>1. StandsAt(p) /\ text \in Seq(Letters)
  <2>1. data = Offset(p) + 0 + 1 /\ text \in Seq(Letters)
    BY DEF Inside, MacroTypes
  <2>2. Offset(p) \in Nat
    BY <2>1, WindowIs
  <2> QED BY <2>1, <2>2 DEF StandsAt
<1>2. /\ data \in Nat \ {0} /\ Len(text) \in Nat /\ data + 0 = Offset(p + 1)
      /\ data + 0 <= Len(text)
      /\ Macro!At(data) = "/"
  <2> DEFINE piece == <<"/">>
  <2>1. Macro!Characters(given[p + 1]) = piece /\ Len(piece) = 1
    BY PiecesAre
  <2>2. /\ data \in Nat \ {0} /\ data + Len(piece) = Offset(p + 1) + 1
        /\ data + Len(piece) <= Len(text) + 1 /\ Len(text) \in Nat
        /\ \A k \in 0 .. Len(piece) - 1 : Macro!At(data + k) = piece[k + 1]
    BY <1>1, <2>1, Seen
  <2>3. piece[1] = "/"
    OBVIOUS
  <2> HIDE DEF piece
  <2>4. Offset(p + 1) \in Nat
    BY <1>1, WindowIs
  <2>5. data + 0 = data
    BY <2>2
  <2> QED BY <2>1, <2>2, <2>3, <2>4, <2>5
<1>3. Macro!Other
  <2>1. Macro!At(Offset(p + 1) + 1) \notin {"/", "*"}
    BY <1>1, NoCommentAfter
  <2> QED BY <1>2, <2>1, TurnIs
<1>4. Macro!Advance(<<>>, data, list)
  BY <1>3 DEF Macro!Other
<1>5. Join(<<>>, Join(<<>>, <<Macro!At(data)>>)) = Keeps[p + 1]
  <2>1. Keeps[p + 1] = <<"/">>
    BY PiecesAre DEF Keeps, GivenOK
  <2> QED BY <1>2, <2>1 DEF Join
<1>6. list = Join(list, Subs[p + 1]) /\ given[p + 1] \notin Macro!Open /\ <<>> \in Seq(Elements)
  BY NothingAdded DEF Macro!Open
<1>7. data = Offset(p + 1)
  BY <1>2
<1> QED BY <1>4, <1>5, <1>6, <1>7, PartDone

LEMMA LinePart ==
  ASSUME MacroTypes, GivenOK, Nice, phase = "scanning", Macro!Next, NEW p \in 0 .. Len(given) - 1,
         Inside(p, 0, <<>>), given[p + 1] = "line"
  PROVE  GoesWell
<1>1. StandsAt(p) /\ text \in Seq(Letters)
  <2>1. data = Offset(p) + 0 + 1 /\ text \in Seq(Letters)
    BY DEF Inside, MacroTypes
  <2>2. Offset(p) \in Nat
    BY <2>1, WindowIs
  <2> QED BY <2>1, <2>2 DEF StandsAt
<1>2. /\ data \in Nat \ {0} /\ Len(text) \in Nat /\ data + 4 = Offset(p + 1)
      /\ data + 4 <= Len(text)
      /\ Macro!At(data) = "/" /\ Macro!At(data + 1) = "/" /\ Macro!At(data + 2) = "*"
      /\ Macro!At(data + 3) = "'" /\ Macro!At(data + 4) = "nl"
  <2> DEFINE piece == <<"/", "/", "*", "'", "nl">>
  <2>1. Macro!Characters(given[p + 1]) = piece /\ Len(piece) = 5
    BY PiecesAre
  <2>2. /\ data \in Nat \ {0} /\ data + Len(piece) = Offset(p + 1) + 1
        /\ data + Len(piece) <= Len(text) + 1 /\ Len(text) \in Nat
        /\ \A k \in 0 .. Len(piece) - 1 : Macro!At(data + k) = piece[k + 1]
    BY <1>1, <2>1, Seen
  <2>3. piece[1] = "/" /\ piece[2] = "/" /\ piece[3] = "*" /\ piece[4] = "'" /\ piece[5] = "nl"
    OBVIOUS
  <2> HIDE DEF piece
  <2>4. Offset(p + 1) \in Nat
    BY <1>1, WindowIs
  <2>5. data + 0 = data
    BY <2>2
  <2> QED BY <2>1, <2>2, <2>3, <2>4, <2>5
<1>3. Macro!LineComment
  BY <1>2, TurnIs
<1>4. Macro!First(Macro!Places(data, {"nl", "NUL"})) = data + 4
  <2> DEFINE chars == {"nl", "NUL"}
             m     == data + 4
  <2>1. \A q \in data .. m - 1 : Macro!At(q) \notin chars
    <3>1. \A q \in data .. m - 1 : q = data \/ q = data + 1 \/ q = data + 2 \/ q = data + 3
      BY <1>2
    <3> QED BY <1>2, <3>1
  <2>2. Macro!At(m) \in chars /\ m \in Nat /\ data \in Nat /\ data <= m /\ m <= Len(text) + 1
    BY <1>2
  <2> HIDE DEF m, chars
  <2>3. Macro!First(Macro!Places(data, chars)) = m
    BY <1>1, <2>1, <2>2, FoundAt
  <2> QED BY <2>3 DEF m, chars
<1>5. Macro!Advance(<<>>, data + 4, list)
  BY <1>3, <1>4 DEF Macro!LineComment
<1>6. Join(<<>>, Join(<<>>, <<Macro!At(data + 4)>>)) = Keeps[p + 1]
  <2>1. Keeps[p + 1] = <<"nl">>
    BY PiecesAre DEF Keeps, GivenOK
  <2> QED BY <1>2, <2>1 DEF Join
<1>7. list = Join(list, Subs[p + 1]) /\ given[p + 1] \notin Macro!Open
  BY NothingAdded DEF Macro!Open
<1>8. <<>> \in Seq(Elements)
  BY ElementsAre
<1> DEFINE ks  == <<>>
           end == data + 4
<1>9. /\ Macro!Advance(ks, end, list) /\ ks \in Seq(Elements) /\ end = Offset(p + 1)
       /\ Join(<<>>, Join(ks, <<Macro!At(end)>>)) = Keeps[p + 1]
  BY <1>2, <1>5, <1>6, <1>8
<1> HIDE DEF ks, end
<1>10. <<>> \in Seq(Elements)
  OBVIOUS
<1> QED BY <1>7, <1>9, <1>10, PartDone

LEMMA StringPart ==
  ASSUME MacroTypes, GivenOK, Nice, phase = "scanning", Macro!Next, NEW p \in 0 .. Len(given) - 1,
         Inside(p, 0, <<>>), given[p + 1] = "string"
  PROVE  GoesWell
<1>1. StandsAt(p) /\ text \in Seq(Letters)
  <2>1. data = Offset(p) + 0 + 1 /\ text \in Seq(Letters)
    BY DEF Inside, MacroTypes
  <2>2. Offset(p) \in Nat
    BY <2>1, WindowIs
  <2> QED BY <2>1, <2>2 DEF StandsAt
<1>2. /\ data \in Nat \ {0} /\ Len(text) \in Nat /\ data + 4 = Offset(p + 1)
      /\ data + 4 <= Len(text)
      /\ Macro!At(data) = "quote" /\ Macro!At(data + 1) = "/" /\ Macro!At(data + 2) = "*"
      /\ Macro!At(data + 3) = "'" /\ Macro!At(data + 4) = "quote"
  <2> DEFINE piece == <<"quote", "/", "*", "'", "quote">>
  <2>1. Macro!Characters(given[p + 1]) = piece /\ Len(piece) = 5
    BY PiecesAre
  <2>2. /\ data \in Nat \ {0} /\ data + Len(piece) = Offset(p + 1) + 1
        /\ data + Len(piece) <= Len(text) + 1 /\ Len(text) \in Nat
        /\ \A k \in 0 .. Len(piece) - 1 : Macro!At(data + k) = piece[k + 1]
    BY <1>1, <2>1, Seen
  <2>3. piece[1] = "quote" /\ piece[2] = "/" /\ piece[3] = "*" /\ piece[4] = "'"
        /\ piece[5] = "quote"
    OBVIOUS
  <2> HIDE DEF piece
  <2>4. Offset(p + 1) \in Nat
    BY <1>1, WindowIs
  <2>5. data + 0 = data
    BY <2>2
  <2> QED BY <2>1, <2>2, <2>3, <2>4, <2>5
<1>3. Macro!Quoted
  BY <1>2, TurnIs
<1>4. Macro!First(Macro!Places(data + 1, {Macro!At(data), "NUL"})) = data + 4
  <2> DEFINE chars == {Macro!At(data), "NUL"}
             m     == data + 4
  <2>1. \A q \in data + 1 .. m - 1 : Macro!At(q) \notin chars
    <3>1. \A q \in data + 1 .. m - 1 : q = data + 1 \/ q = data + 2 \/ q = data + 3
      BY <1>2
    <3> QED BY <1>2, <3>1
  <2>2. Macro!At(m) \in chars /\ m \in Nat /\ data + 1 \in Nat /\ data + 1 <= m
        /\ m <= Len(text) + 1
    BY <1>2
  <2> HIDE DEF m, chars
  <2>3. Macro!First(Macro!Places(data + 1, chars)) = m
    BY <1>1, <2>1, <2>2, FoundAt
  <2> QED BY <2>3 DEF m, chars
<1>5. SubSeq(text, data, (data + 4) - 1) = <<"quote", "/", "*", "'">>
  <2> DEFINE s == SubSeq(text, data, (data + 4) - 1)
             t == <<"quote", "/", "*", "'">>
  <2>1. \A k \in 0 .. 3 : data + k \in 1 .. Len(text) /\ text[data + k] = Macro!At(data + k)
    BY <1>1, <1>2, AtIs
  <2>2. s \in Seq(Letters) /\ Len(s) = 4 /\ \A k \in 1 .. 4 : s[k] = text[data + k - 1]
    BY <1>1, <1>2
  <2>3. s \in Seq(Elements) /\ t \in Seq(Elements) /\ Len(t) = 4
    <3>1. t \in Seq(Elements) /\ Len(t) = 4
      BY ElementsAre
    <3> HIDE DEF s, t
    <3>2. s \in Seq(Elements)
      BY <2>2, ElementsAre
    <3> QED BY <3>1, <3>2
  <2>4. t[1] = "quote" /\ t[2] = "/" /\ t[3] = "*" /\ t[4] = "'"
    OBVIOUS
  <2> HIDE DEF s, t
  <2>5. \A k \in 1 .. 4 : s[k] = t[k]
    <3>1. data + 1 - 1 = data /\ data + 2 - 1 = data + 1 /\ data + 3 - 1 = data + 2
          /\ data + 4 - 1 = data + 3
      BY <1>2
    <3>2. s[1] = "quote" /\ s[2] = "/" /\ s[3] = "*" /\ s[4] = "'"
      BY <1>2, <2>1, <2>2, <3>1
    <3> QED BY <2>4, <3>2
  <2> QED BY <2>2, <2>3, <2>5, SeqsEqual DEF s, t
<1>6. Macro!Advance(<<"quote", "/", "*", "'">>, data + 4, list)
  <2> DEFINE end == data + 4
  <2>1. Macro!First(Macro!Places(data + 1, {Macro!At(data), "NUL"})) = end
    BY <1>4
  <2> HIDE DEF end
  <2>2. Macro!Advance(SubSeq(text, data, end - 1), end, list)
    BY <1>3, <2>1 DEF Macro!Quoted
  <2> QED BY Zenon, <1>5, <2>2 DEF end
<1>7. Join(<<>>, Join(<<"quote", "/", "*", "'">>, <<Macro!At(data + 4)>>)) = Keeps[p + 1]
  <2>1. Keeps[p + 1] = <<"quote", "/", "*", "'", "quote">>
    BY PiecesAre DEF Keeps, GivenOK
  <2> DEFINE k == <<"quote", "/", "*", "'">>
             c == Macro!At(data + 4)
             t == <<"quote", "/", "*", "'", "quote">>
  <2>2. k \in Seq(Elements) /\ c \in Elements /\ t \in Seq(Elements)
        /\ Len(t) = Len(k) + 1 /\ t[Len(k) + 1] = c /\ \A x \in 1 .. Len(k) : t[x] = k[x]
    BY <1>2, ElementsAre
  <2> HIDE DEF k, c, t
  <2>3. Join(k, <<c>>) = t
    BY <2>2, JoinOne
  <2>4. Join(<<>>, t) = t
    BY <2>2, JoinNothing
  <2> QED BY Zenon, <2>1, <2>3, <2>4 DEF k, c, t
<1>8. list = Join(list, Subs[p + 1]) /\ given[p + 1] \notin Macro!Open
  BY NothingAdded DEF Macro!Open
<1>9. <<"quote", "/", "*", "'">> \in Seq(Elements)
  BY ElementsAre
<1> DEFINE ks  == <<"quote", "/", "*", "'">>
           end == data + 4
<1>10. /\ Macro!Advance(ks, end, list) /\ ks \in Seq(Elements) /\ end = Offset(p + 1)
       /\ Join(<<>>, Join(ks, <<Macro!At(end)>>)) = Keeps[p + 1]
  BY <1>2, <1>6, <1>7, <1>9
<1> HIDE DEF ks, end
<1>11. <<>> \in Seq(Elements)
  OBVIOUS
<1> QED BY <1>8, <1>10, <1>11, PartDone

LEMMA CharPart ==
  ASSUME MacroTypes, GivenOK, Nice, phase = "scanning", Macro!Next, NEW p \in 0 .. Len(given) - 1,
         Inside(p, 0, <<>>), given[p + 1] = "char"
  PROVE  GoesWell
<1>1. StandsAt(p) /\ text \in Seq(Letters)
  <2>1. data = Offset(p) + 0 + 1 /\ text \in Seq(Letters)
    BY DEF Inside, MacroTypes
  <2>2. Offset(p) \in Nat
    BY <2>1, WindowIs
  <2> QED BY <2>1, <2>2 DEF StandsAt
<1>2. /\ data \in Nat \ {0} /\ Len(text) \in Nat /\ data + 2 = Offset(p + 1)
      /\ data + 2 <= Len(text)
      /\ Macro!At(data) = "'" /\ Macro!At(data + 1) = "quote" /\ Macro!At(data + 2) = "'"
  <2> DEFINE piece == <<"'", "quote", "'">>
  <2>1. Macro!Characters(given[p + 1]) = piece /\ Len(piece) = 3
    BY PiecesAre
  <2>2. /\ data \in Nat \ {0} /\ data + Len(piece) = Offset(p + 1) + 1
        /\ data + Len(piece) <= Len(text) + 1 /\ Len(text) \in Nat
        /\ \A k \in 0 .. Len(piece) - 1 : Macro!At(data + k) = piece[k + 1]
    BY <1>1, <2>1, Seen
  <2>3. piece[1] = "'" /\ piece[2] = "quote" /\ piece[3] = "'"
    OBVIOUS
  <2> HIDE DEF piece
  <2>4. Offset(p + 1) \in Nat
    BY <1>1, WindowIs
  <2>5. data + 0 = data
    BY <2>2
  <2> QED BY <2>1, <2>2, <2>3, <2>4, <2>5
<1>3. Macro!Quoted
  BY <1>2, TurnIs
<1>4. Macro!First(Macro!Places(data + 1, {Macro!At(data), "NUL"})) = data + 2
  <2> DEFINE chars == {Macro!At(data), "NUL"}
             m     == data + 2
  <2>1. \A q \in data + 1 .. m - 1 : Macro!At(q) \notin chars
    <3>1. \A q \in data + 1 .. m - 1 : q = data + 1
      BY <1>2
    <3> QED BY <1>2, <3>1
  <2>2. Macro!At(m) \in chars /\ m \in Nat /\ data + 1 \in Nat /\ data + 1 <= m
        /\ m <= Len(text) + 1
    BY <1>2
  <2> HIDE DEF m, chars
  <2>3. Macro!First(Macro!Places(data + 1, chars)) = m
    BY <1>1, <2>1, <2>2, FoundAt
  <2> QED BY <2>3 DEF m, chars
<1>5. SubSeq(text, data, (data + 2) - 1) = <<"'", "quote">>
  <2> DEFINE s == SubSeq(text, data, (data + 2) - 1)
             t == <<"'", "quote">>
  <2>1. \A k \in 0 .. 1 : data + k \in 1 .. Len(text) /\ text[data + k] = Macro!At(data + k)
    BY <1>1, <1>2, AtIs
  <2>2. s \in Seq(Letters) /\ Len(s) = 2 /\ \A k \in 1 .. 2 : s[k] = text[data + k - 1]
    BY <1>1, <1>2
  <2>3. s \in Seq(Elements) /\ t \in Seq(Elements) /\ Len(t) = 2
    <3>1. t \in Seq(Elements) /\ Len(t) = 2
      BY ElementsAre
    <3> HIDE DEF s, t
    <3>2. s \in Seq(Elements)
      BY <2>2, ElementsAre
    <3> QED BY <3>1, <3>2
  <2>4. t[1] = "'" /\ t[2] = "quote"
    OBVIOUS
  <2> HIDE DEF s, t
  <2>5. \A k \in 1 .. 2 : s[k] = t[k]
    <3>1. data + 1 - 1 = data /\ data + 2 - 1 = data + 1
      BY <1>2
    <3>2. s[1] = "'" /\ s[2] = "quote"
      BY <1>2, <2>1, <2>2, <3>1
    <3> QED BY <2>4, <3>2
  <2> QED BY <2>2, <2>3, <2>5, SeqsEqual DEF s, t
<1>6. Macro!Advance(<<"'", "quote">>, data + 2, list)
  <2> DEFINE end == data + 2
  <2>1. Macro!First(Macro!Places(data + 1, {Macro!At(data), "NUL"})) = end
    BY <1>4
  <2> HIDE DEF end
  <2>2. Macro!Advance(SubSeq(text, data, end - 1), end, list)
    BY <1>3, <2>1 DEF Macro!Quoted
  <2> QED BY Zenon, <1>5, <2>2 DEF end
<1>7. Join(<<>>, Join(<<"'", "quote">>, <<Macro!At(data + 2)>>)) = Keeps[p + 1]
  <2>1. Keeps[p + 1] = <<"'", "quote", "'">>
    BY PiecesAre DEF Keeps, GivenOK
  <2> DEFINE k == <<"'", "quote">>
             c == Macro!At(data + 2)
             t == <<"'", "quote", "'">>
  <2>2. k \in Seq(Elements) /\ c \in Elements /\ t \in Seq(Elements)
        /\ Len(t) = Len(k) + 1 /\ t[Len(k) + 1] = c /\ \A x \in 1 .. Len(k) : t[x] = k[x]
    BY <1>2, ElementsAre
  <2> HIDE DEF k, c, t
  <2>3. Join(k, <<c>>) = t
    BY <2>2, JoinOne
  <2>4. Join(<<>>, t) = t
    BY <2>2, JoinNothing
  <2> QED BY Zenon, <2>1, <2>3, <2>4 DEF k, c, t
<1>8. list = Join(list, Subs[p + 1]) /\ given[p + 1] \notin Macro!Open
  BY NothingAdded DEF Macro!Open
<1>9. <<"'", "quote">> \in Seq(Elements)
  BY ElementsAre
<1> DEFINE ks  == <<"'", "quote">>
           end == data + 2
<1>10. /\ Macro!Advance(ks, end, list) /\ ks \in Seq(Elements) /\ end = Offset(p + 1)
       /\ Join(<<>>, Join(ks, <<Macro!At(end)>>)) = Keeps[p + 1]
  BY <1>2, <1>6, <1>7, <1>9
<1> HIDE DEF ks, end
<1>11. <<>> \in Seq(Elements)
  OBVIOUS
<1> QED BY <1>8, <1>10, <1>11, PartDone

(* A turn inside of a part.                                                *)
LEMMA PartGoesOn ==
  ASSUME MacroTypes, GivenOK, NEW p \in 0 .. Len(given) - 1, NEW j, NEW part \in Seq(Elements),
         Inside(p, j, part), NEW m \in Nat, Offset(p) + m \in 1 .. Len(text),
         Macro!Advance(<<>>, Offset(p) + m, list),
         NEW more, more = Join(part, <<Macro!At(Offset(p) + m)>>)
  PROVE  /\ UNCHANGED <<given, text, applied>>
         /\ \/ phase' = "aborted"
            \/ phase' = "scanning" /\ Inside(p, m, more)'
<1> DEFINE end == Offset(p) + m
           c   == Macro!At(end)
<1>1. end \in 1 .. Len(text) /\ Macro!Advance(<<>>, end, list)
  OBVIOUS
<1>2. <<>> \in Seq(Elements)
  OBVIOUS
<1>3. text \in Seq(Letters)
  BY DEF MacroTypes
<1> HIDE DEF end
<1>4. c \in Elements
  BY <1>1, <1>3, AtIs, ElementsAre
<1>5. /\ UNCHANGED <<given, text, applied>>
      /\ \/ phase' = "aborted"
         \/ /\ phase' = "scanning" /\ data' = end + 1 /\ list' = list
            /\ out' = Join(Upto(Keeps)[p], Join(part, Join(<<>>, <<Macro!At(end)>>)))
  BY <1>1, <1>2, AdvanceIs
<1> HIDE DEF c
<1>6. Join(<<>>, <<c>>) = <<c>>
  BY <1>4 DEF Join
<1>7. /\ UNCHANGED <<given, text, applied>>
      /\ \/ phase' = "aborted"
         \/ /\ phase' = "scanning" /\ data' = end + 1 /\ list' = list
            /\ out' = Join(Upto(Keeps)[p], Join(part, <<c>>))
  BY Zenon, <1>5, <1>6 DEF c
<1>8. CASE phase' = "aborted"
  BY <1>7, <1>8
<1>9. CASE phase' # "aborted"
  <2>1. p \in 0 .. Len(given) /\ list = Upto(Subs)[p]
        /\ \A r \in 1 .. p : given[r] \notin Macro!Open
    BY DEF Inside
  <2>2. /\ Upto(Keeps)' = Upto(Keeps) /\ Upto(Subs)' = Upto(Subs) /\ Offset(p)' = Offset(p)
        /\ given' = given
    BY <1>7, Same
  <2>3. out' = Join(Upto(Keeps)[p], more)
    BY <1>7, <1>9 DEF c, end
  <2>4. data' = Offset(p) + m + 1 /\ list' = Upto(Subs)[p]
    BY <1>7, <1>9, <2>1 DEF end
  <2>5. Inside(p, m, more)'
    BY <2>1, <2>2, <2>3, <2>4 DEF Inside
  <2> QED BY <1>7, <1>9, <2>5
<1> QED BY <1>8, <1>9

LEMMA MacroAt ==
  ASSUME text \in Seq(Letters), data \in Nat, NEW m \in Nat, data + 1 <= m, m <= Len(text) + 1,
         Macro!At(m) \notin {"sp", "nl"},
         \A q \in data + 1 .. m - 1 : Macro!At(q) \in {"sp", "nl"}
  PROVE  Macro!Macro = m
<1> DEFINE chars == {Macro!At(q) : q \in 1 .. Len(text) + 1} \ {"sp", "nl"}
<1>1. Len(text) \in Nat /\ data + 1 \in Nat
  OBVIOUS
<1>2. Macro!At(m) \in chars
  BY <1>1
<1>3. \A q \in data + 1 .. m - 1 : Macro!At(q) \notin chars
  OBVIOUS
<1>4. Macro!Macro = Macro!First(Macro!Places(data + 1, chars))
  BY DEF Macro!Macro
<1> HIDE DEF chars
<1> QED BY <1>1, <1>2, <1>3, <1>4, FoundAt

LEMMA BlockBegins ==
  ASSUME MacroTypes, GivenOK, Nice, phase = "scanning", Macro!Next, NEW p \in 0 .. Len(given) - 1,
         Inside(p, 0, <<>>), given[p + 1] = "block"
  PROVE  GoesWell
<1>1. StandsAt(p) /\ text \in Seq(Letters)
  <2>1. data = Offset(p) + 0 + 1 /\ text \in Seq(Letters)
    BY DEF Inside, MacroTypes
  <2>2. Offset(p) \in Nat
    BY <2>1, WindowIs
  <2> QED BY <2>1, <2>2 DEF StandsAt
<1>2. /\ data \in Nat \ {0} /\ Len(text) \in Nat /\ data + 7 = Offset(p + 1)
      /\ data + 7 <= Len(text)
      /\ Macro!At(data) = "/" /\ Macro!At(data + 1) = "*" /\ Macro!At(data + 2) = "c"
      /\ Macro!At(data + 3) = "/" /\ Macro!At(data + 4) = "/" /\ Macro!At(data + 5) = "nl"
      /\ Macro!At(data + 6) = "*" /\ Macro!At(data + 7) = "/"
  <2> DEFINE piece == <<"/", "*", "c", "/", "/", "nl", "*", "/">>
  <2>1. Macro!Characters(given[p + 1]) = piece /\ Len(piece) = 8
    BY PiecesAre
  <2>2. /\ data \in Nat \ {0} /\ data + Len(piece) = Offset(p + 1) + 1
        /\ data + Len(piece) <= Len(text) + 1 /\ Len(text) \in Nat
        /\ \A k \in 0 .. Len(piece) - 1 : Macro!At(data + k) = piece[k + 1]
    BY <1>1, <2>1, Seen
  <2>3. piece[1] = "/" /\ piece[2] = "*" /\ piece[3] = "c" /\ piece[4] = "/"
        /\ piece[5] = "/" /\ piece[6] = "nl" /\ piece[7] = "*" /\ piece[8] = "/"
    OBVIOUS
  <2> HIDE DEF piece
  <2>4. Offset(p + 1) \in Nat
    BY <1>1, WindowIs
  <2>5. data + 0 = data
    BY <2>2
  <2> QED BY SMTT(30), <2>1, <2>2, <2>3, <2>4, <2>5
<1>3. Macro!BlockComment
  BY <1>2, TurnIs
<1>4. Macro!Advance(<<>>, data + 6, list)
  <2> DEFINE ends == {q \in Macro!Places(data, {"*"}) : Macro!At(q + 1) = "/"}
             m    == data + 6
  <2>1. m \in ends
    <3>1. m \in Macro!Places(data, {"*"})
      BY <1>2 DEF Macro!Places
    <3>2. m + 1 = data + 7
      BY <1>2
    <3> QED BY <1>2, <3>1, <3>2
  <2>2. \A q \in ends : m <= q
    <3>1. SUFFICES ASSUME NEW q \in ends, q < m PROVE FALSE
      BY <1>2 DEF Macro!Places
    <3>2. q \in data .. Len(text) + 1 /\ Macro!At(q) = "*" /\ Macro!At(q + 1) = "/"
      BY DEF Macro!Places
    <3>3. \/ q = data \/ q = data + 1 \/ q = data + 2 \/ q = data + 3 \/ q = data + 4
          \/ q = data + 5
      BY <1>2, <3>1, <3>2
    <3>4. q = data + 1
      BY <1>2, <3>2, <3>3
    <3>5. q + 1 = data + 2
      BY <1>2, <3>4
    <3> QED BY <1>2, <3>2, <3>5
  <2>3. ends \subseteq Nat
    BY <1>2 DEF Macro!Places
  <2>4. IF ends = {} THEN Macro!Crash("wild") ELSE Macro!Advance(<<>>, Macro!First(ends), list)
    BY <1>3 DEF Macro!BlockComment
  <2> HIDE DEF ends, m
  <2>5. Macro!First(ends) = m
    BY <2>1, <2>2, <2>3, FirstAt
  <2> QED BY Zenon, <2>1, <2>4, <2>5 DEF m
<1>5. data = Offset(p) + 1 /\ Offset(p) \in Nat
  <2>1. data = Offset(p) + 0 + 1
    BY DEF Inside
  <2>2. Offset(p) \in Nat
    BY <1>1, WindowIs
  <2> QED BY <2>1, <2>2
<1> DEFINE end == Offset(p) + 7
<1>6. end = data + 6
  BY <1>5
<1>7. <<>> \in Seq(Elements) /\ end \in 1 .. Len(text)
  BY <1>2, <1>6
<1>8. Macro!Advance(<<>>, end, list) /\ Macro!At(end) = "*"
  BY <1>2, <1>4, <1>6
<1>9. <<"*">> = Join(<<>>, <<Macro!At(end)>>)
  BY <1>8 DEF Join
<1>10. /\ UNCHANGED <<given, text, applied>>
      /\ \/ phase' = "aborted"
         \/ phase' = "scanning" /\ Inside(p, 7, <<"*">>)'
  BY <1>7, <1>8, <1>9, PartGoesOn
<1> HIDE DEF end
<1>11. CASE phase' = "aborted"
  BY <1>10, <1>11 DEF GoesWell
<1>12. CASE phase' # "aborted"
  <2>1. Inside(p, 7, <<"*">>)'
    BY <1>10, <1>12
  <2>2. given' = given /\ p \in 0 .. Len(given) /\ p < Len(given)
    BY <1>10 DEF GivenOK
  <2>3. Standing'
    BY <2>1, <2>2 DEF Standing
  <2> QED BY <1>10, <1>12, <2>3 DEF GoesWell
<1> QED BY <1>11, <1>12

LEMMA BlockEnds ==
  ASSUME MacroTypes, GivenOK, Nice, phase = "scanning", Macro!Next, NEW p \in 0 .. Len(given) - 1,
         Inside(p, 7, <<"*">>), given[p + 1] = "block"
  PROVE  GoesWell
<1>1. text \in Seq(Letters) /\ data = Offset(p) + 7 + 1
  BY DEF Inside, MacroTypes
<1>2. /\ Offset(p) \in Nat /\ Len(text) \in Nat /\ Offset(p + 1) = Offset(p) + 8
      /\ Offset(p + 1) <= Len(text)
      /\ Macro!At(Offset(p) + 8) = "/"
  <2> DEFINE piece == <<"/", "*", "c", "/", "/", "nl", "*", "/">>
  <2>1. Macro!Characters(given[p + 1]) = piece /\ Len(piece) = 8 /\ piece[8] = "/"
    BY PiecesAre
  <2>2. /\ Offset(p) \in Nat /\ Offset(p + 1) = Offset(p) + Len(piece)
        /\ Offset(p + 1) <= Len(text)
        /\ \A k \in 1 .. Len(piece) : Macro!At(Offset(p) + k) = piece[k]
    BY <1>1, <2>1, WindowIs
  <2>3. Len(text) \in Nat
    BY <1>1
  <2> HIDE DEF piece
  <2> QED BY <2>1, <2>2, <2>3
<1>3. data = Offset(p) + 8 /\ Macro!At(data) = "/" /\ data \in 1 .. Len(text)
  BY <1>1, <1>2
<1>4. Macro!Other
  <2>1. Macro!At(Offset(p + 1) + 1) \notin {"/", "*"}
    BY <1>1, NoCommentAfter
  <2>2. data + 1 = Offset(p + 1) + 1
    BY <1>2, <1>3
  <2> QED BY <1>3, <2>1, <2>2, TurnIs
<1>5. Macro!Advance(<<>>, data, list)
  BY <1>4 DEF Macro!Other
<1>6. Join(<<"*">>, Join(<<>>, <<Macro!At(data)>>)) = Keeps[p + 1]
  <2>1. Keeps[p + 1] = <<"*", "/">>
    BY PiecesAre DEF Keeps, GivenOK
  <2>2. Join(<<>>, <<Macro!At(data)>>) = <<Macro!At(data)>>
    BY <1>3 DEF Join
  <2>3. Join(<<"*">>, <<"/">>) = Keeps[p + 1]
    <3> DEFINE a == <<"*">>
               x == "/"
               t == <<"*", "/">>
    <3>1. a \in Seq(Elements) /\ x \in Elements /\ t \in Seq(Elements)
          /\ Len(t) = Len(a) + 1 /\ t[Len(a) + 1] = x /\ \A k \in 1 .. Len(a) : t[k] = a[k]
      BY ElementsAre
    <3> HIDE DEF a, x, t
    <3>2. Join(a, <<x>>) = t
      BY <3>1, JoinOne
    <3> QED BY Zenon, <2>1, <3>2 DEF a, x, t
  <2> QED BY Zenon, <1>3, <2>2, <2>3
<1>7. /\ list = Join(list, Subs[p + 1]) /\ given[p + 1] \notin Macro!Open
      /\ <<>> \in Seq(Elements)
      /\ <<"*">> \in Seq(Elements) /\ data = Offset(p + 1)
  BY <1>2, <1>3, NothingAdded, ElementsAre DEF Macro!Open
<1> QED BY <1>5, <1>6, <1>7, PartDone

LEMMA DefineBegins ==
  ASSUME MacroTypes, GivenOK, Nice, phase = "scanning", Macro!Next, NEW p \in 0 .. Len(given) - 1,
         Inside(p, 0, <<>>), given[p + 1] = "define"
  PROVE  GoesWell
<1>1. StandsAt(p) /\ text \in Seq(Letters)
  <2>1. data = Offset(p) + 0 + 1 /\ text \in Seq(Letters)
    BY DEF Inside, MacroTypes
  <2>2. Offset(p) \in Nat
    BY <2>1, WindowIs
  <2> QED BY <2>1, <2>2 DEF StandsAt
<1>2. /\ data \in Nat \ {0} /\ Len(text) \in Nat /\ data + 2 = Offset(p + 1)
      /\ data + 2 <= Len(text)
      /\ Macro!At(data) = "#define" /\ Macro!At(data + 1) = "sp" /\ Macro!At(data + 2) = "c"
  <2> DEFINE piece == <<"#define", "sp", "c">>
  <2>1. Macro!Characters(given[p + 1]) = piece /\ Len(piece) = 3
    BY PiecesAre
  <2>2. /\ data \in Nat \ {0} /\ data + Len(piece) = Offset(p + 1) + 1
        /\ data + Len(piece) <= Len(text) + 1 /\ Len(text) \in Nat
        /\ \A k \in 0 .. Len(piece) - 1 : Macro!At(data + k) = piece[k + 1]
    BY <1>1, <2>1, Seen
  <2>3. piece[1] = "#define" /\ piece[2] = "sp" /\ piece[3] = "c"
    OBVIOUS
  <2> HIDE DEF piece
  <2>4. Offset(p + 1) \in Nat
    BY <1>1, WindowIs
  <2>5. data + 0 = data
    BY <2>2
  <2> QED BY <2>1, <2>2, <2>3, <2>4, <2>5
<1>3. ~Macro!IsMacro
  <2> DEFINE m == data + 2
  <2>1. m \in Nat /\ data + 1 <= m /\ m <= Len(text) + 1 /\ Macro!At(m) = "c" /\ data \in Nat
    BY <1>2
  <2>2. \A q \in data + 1 .. m - 1 : Macro!At(q) \in {"sp", "nl"}
    <3>1. \A q \in data + 1 .. m - 1 : q = data + 1
      BY <1>2
    <3> QED BY <1>2, <3>1
  <2> HIDE DEF m
  <2>3. Macro!Macro = m
    BY <1>1, <2>1, <2>2, MacroAt
  <2> QED BY <2>1, <2>3 DEF Macro!IsMacro
<1>4. Macro!Other
  BY <1>2, <1>3, TurnIs
<1>5. Macro!Advance(<<>>, data, list)
  BY <1>4 DEF Macro!Other
<1>6. data = Offset(p) + 1 /\ Offset(p) \in Nat
  <2>1. data = Offset(p) + 0 + 1 /\ text \in Seq(Letters)
    BY DEF Inside, MacroTypes
  <2>2. Offset(p) \in Nat
    BY <2>1, WindowIs
  <2> QED BY <2>1, <2>2
<1> DEFINE end  == Offset(p) + 1
           part == <<>>
           more == <<"#define">>
<1>7. end = data /\ end \in 1 .. Len(text) /\ Macro!At(end) = "#define"
  BY <1>2, <1>6
<1>8. part \in Seq(Elements) /\ more = Join(part, <<Macro!At(end)>>)
  <2>1. part \in Seq(Elements) /\ more \in Seq(Elements) /\ "#define" \in Elements
        /\ Len(more) = Len(part) + 1 /\ more[Len(part) + 1] = "#define"
        /\ \A k \in 1 .. Len(part) : more[k] = part[k]
    BY ElementsAre
  <2> HIDE DEF part, more, end
  <2> QED BY <1>7, <2>1, JoinOne
<1>9. /\ UNCHANGED <<given, text, applied>>
      /\ \/ phase' = "aborted"
         \/ phase' = "scanning" /\ Inside(p, 1, more)'
  <2> HIDE DEF part, more
  <2>1. Inside(p, 0, part) /\ Macro!Advance(<<>>, end, list)
    BY <1>5, <1>7 DEF part
  <2> QED BY <1>7, <1>8, <2>1, PartGoesOn
<1> HIDE DEF end, part
<1>10. CASE phase' = "aborted"
  BY <1>9, <1>10 DEF GoesWell
<1>11. CASE phase' # "aborted"
  <2>1. Inside(p, 1, <<"#define">>)'
    BY <1>9, <1>11
  <2> HIDE DEF more
  <2>2. given' = given /\ p \in 0 .. Len(given) /\ p < Len(given)
    BY <1>9 DEF GivenOK
  <2>3. Standing'
    BY <2>1, <2>2 DEF Standing
  <2> QED BY <1>9, <1>11, <2>3 DEF GoesWell
<1> QED BY <1>10, <1>11

LEMMA DefineGoesOn ==
  ASSUME MacroTypes, GivenOK, Nice, phase = "scanning", Macro!Next, NEW p \in 0 .. Len(given) - 1,
         Inside(p, 1, <<"#define">>), given[p + 1] = "define"
  PROVE  GoesWell
<1>1. text \in Seq(Letters) /\ data = Offset(p) + 1 + 1
  BY DEF Inside, MacroTypes
<1>2. /\ Offset(p) \in Nat /\ Len(text) \in Nat /\ Offset(p + 1) = Offset(p) + 3
      /\ Offset(p + 1) <= Len(text)
      /\ Macro!At(Offset(p) + 2) = "sp"
  <2> DEFINE piece == <<"#define", "sp", "c">>
  <2>1. Macro!Characters(given[p + 1]) = piece /\ Len(piece) = 3 /\ piece[2] = "sp"
    BY PiecesAre
  <2>2. /\ Offset(p) \in Nat /\ Offset(p + 1) = Offset(p) + Len(piece)
        /\ Offset(p + 1) <= Len(text)
        /\ \A k \in 1 .. Len(piece) : Macro!At(Offset(p) + k) = piece[k]
    BY <1>1, <2>1, WindowIs
  <2>3. Len(text) \in Nat
    BY <1>1
  <2> HIDE DEF piece
  <2> QED BY <2>1, <2>2, <2>3
<1>3. data = Offset(p) + 2 /\ Macro!At(data) = "sp" /\ data \in 1 .. Len(text)
  BY <1>2, <1>1
<1>4. Macro!At(data) = "sp" /\ data \in 1 .. Len(text) /\ Len(text) \in Nat
  BY <1>2, <1>3
<1>5. Macro!Other
  BY <1>3, TurnIs
<1>6. Macro!Advance(<<>>, data, list)
  BY <1>5 DEF Macro!Other
<1>7. data = Offset(p) + 2 /\ Offset(p) \in Nat
  <2>1. data = Offset(p) + 1 + 1 /\ text \in Seq(Letters)
    BY DEF Inside, MacroTypes
  <2>2. Offset(p) \in Nat
    BY <2>1, WindowIs
  <2> QED BY <2>1, <2>2
<1> DEFINE end  == Offset(p) + 2
           part == <<"#define">>
           more == <<"#define", "sp">>
<1>8. end = data /\ end \in 1 .. Len(text) /\ Macro!At(end) = "sp"
  BY <1>4, <1>7
<1>9. part \in Seq(Elements) /\ more = Join(part, <<Macro!At(end)>>)
  <2>1. part \in Seq(Elements) /\ more \in Seq(Elements) /\ "sp" \in Elements
        /\ Len(more) = Len(part) + 1 /\ more[Len(part) + 1] = "sp"
        /\ \A k \in 1 .. Len(part) : more[k] = part[k]
    BY ElementsAre
  <2> HIDE DEF part, more, end
  <2> QED BY <1>8, <2>1, JoinOne
<1>10. /\ UNCHANGED <<given, text, applied>>
      /\ \/ phase' = "aborted"
         \/ phase' = "scanning" /\ Inside(p, 2, more)'
  <2> HIDE DEF part, more
  <2>1. Inside(p, 1, part) /\ Macro!Advance(<<>>, end, list)
    BY <1>6, <1>8 DEF part
  <2> QED BY <1>8, <1>9, <2>1, PartGoesOn
<1> HIDE DEF end, part
<1>11. CASE phase' = "aborted"
  BY <1>10, <1>11 DEF GoesWell
<1>12. CASE phase' # "aborted"
  <2>1. Inside(p, 2, <<"#define", "sp">>)'
    BY <1>10, <1>12
  <2> HIDE DEF more
  <2>2. given' = given /\ p \in 0 .. Len(given) /\ p < Len(given)
    BY <1>10 DEF GivenOK
  <2>3. Standing'
    BY <2>1, <2>2 DEF Standing
  <2> QED BY <1>10, <1>12, <2>3 DEF GoesWell
<1> QED BY <1>11, <1>12

LEMMA DefineEnds ==
  ASSUME MacroTypes, GivenOK, Nice, phase = "scanning", Macro!Next, NEW p \in 0 .. Len(given) - 1,
         Inside(p, 2, <<"#define", "sp">>), given[p + 1] = "define"
  PROVE  GoesWell
<1>1. text \in Seq(Letters) /\ data = Offset(p) + 2 + 1
  BY DEF Inside, MacroTypes
<1>2. /\ Offset(p) \in Nat /\ Len(text) \in Nat /\ Offset(p + 1) = Offset(p) + 3
      /\ Offset(p + 1) <= Len(text)
      /\ Macro!At(Offset(p) + 3) = "c"
  <2> DEFINE piece == <<"#define", "sp", "c">>
  <2>1. Macro!Characters(given[p + 1]) = piece /\ Len(piece) = 3 /\ piece[3] = "c"
    BY PiecesAre
  <2>2. /\ Offset(p) \in Nat /\ Offset(p + 1) = Offset(p) + Len(piece)
        /\ Offset(p + 1) <= Len(text)
        /\ \A k \in 1 .. Len(piece) : Macro!At(Offset(p) + k) = piece[k]
    BY <1>1, <2>1, WindowIs
  <2>3. Len(text) \in Nat
    BY <1>1
  <2> HIDE DEF piece
  <2> QED BY <2>1, <2>2, <2>3
<1>3. data = Offset(p) + 3 /\ Macro!At(data) = "c" /\ data \in 1 .. Len(text)
  BY <1>1, <1>2
<1>4. Macro!Other
  BY <1>3, TurnIs
<1>5. Macro!Advance(<<>>, data, list)
  BY <1>4 DEF Macro!Other
<1>6. Join(<<"#define", "sp">>, Join(<<>>, <<Macro!At(data)>>)) = Keeps[p + 1]
  <2>1. Keeps[p + 1] = <<"#define", "sp", "c">>
    BY PiecesAre DEF Keeps, GivenOK
  <2>2. Join(<<>>, <<Macro!At(data)>>) = <<Macro!At(data)>>
    BY <1>3 DEF Join
  <2>3. Join(<<"#define", "sp">>, <<"c">>) = Keeps[p + 1]
    <3> DEFINE a == <<"#define", "sp">>
               x == "c"
               t == <<"#define", "sp", "c">>
    <3>1. a \in Seq(Elements) /\ x \in Elements /\ t \in Seq(Elements)
          /\ Len(t) = Len(a) + 1 /\ t[Len(a) + 1] = x /\ \A k \in 1 .. Len(a) : t[k] = a[k]
      BY ElementsAre
    <3> HIDE DEF a, x, t
    <3>2. Join(a, <<x>>) = t
      BY <3>1, JoinOne
    <3> QED BY Zenon, <2>1, <3>2 DEF a, x, t
  <2> QED BY Zenon, <1>3, <2>2, <2>3
<1>7. /\ list = Join(list, Subs[p + 1]) /\ given[p + 1] \notin Macro!Open
      /\ <<>> \in Seq(Elements)
      /\ <<"#define", "sp">> \in Seq(Elements) /\ data = Offset(p + 1)
  BY <1>2, <1>3, NothingAdded, ElementsAre DEF Macro!Open
<1> QED BY <1>5, <1>6, <1>7, PartDone

LEMMA OpenLinePart ==
  ASSUME MacroTypes, GivenOK, Nice, phase = "scanning", Macro!Next, NEW p \in 0 .. Len(given) - 1,
         Inside(p, 0, <<>>), given[p + 1] = "openLine"
  PROVE  GoesWell
<1>1. StandsAt(p) /\ text \in Seq(Letters)
  <2>1. data = Offset(p) + 0 + 1 /\ text \in Seq(Letters)
    BY DEF Inside, MacroTypes
  <2>2. Offset(p) \in Nat
    BY <2>1, WindowIs
  <2> QED BY <2>1, <2>2 DEF StandsAt
<1>2. /\ data \in Nat \ {0} /\ Len(text) \in Nat /\ data + 2 = Offset(p + 1)
      /\ data + 2 <= Len(text)
      /\ Macro!At(data) = "/" /\ Macro!At(data + 1) = "/" /\ Macro!At(data + 2) = "c"
  <2> DEFINE piece == <<"/", "/", "c">>
  <2>1. Macro!Characters(given[p + 1]) = piece /\ Len(piece) = 3
    BY PiecesAre
  <2>2. /\ data \in Nat \ {0} /\ data + Len(piece) = Offset(p + 1) + 1
        /\ data + Len(piece) <= Len(text) + 1 /\ Len(text) \in Nat
        /\ \A k \in 0 .. Len(piece) - 1 : Macro!At(data + k) = piece[k + 1]
    BY <1>1, <2>1, Seen
  <2>3. piece[1] = "/" /\ piece[2] = "/" /\ piece[3] = "c"
    OBVIOUS
  <2> HIDE DEF piece
  <2>4. Offset(p + 1) \in Nat
    BY <1>1, WindowIs
  <2>5. data + 0 = data
    BY <2>2
  <2> QED BY <2>1, <2>2, <2>3, <2>4, <2>5
<1>3. /\ Macro!Ends /\ Len(text) = data + 2 /\ Macro!At(data + 3) = "NUL"
      /\ given[p + 1] \in Macro!Open
  <2>1. given[p + 1] \in Macro!Open
    BY DEF Macro!Open
  <2>2. Macro!Ends /\ Len(text) = data + 2
    BY <1>1, <1>2, <2>1, OpenIsLast
  <2>3. data + 3 \notin 1 .. Len(text) /\ data + 3 \in Int
    BY <1>2, <2>2
  <2> QED BY <1>1, <2>1, <2>2, <2>3, AtIs
<1>4. Macro!First(Macro!Places(data, {"nl", "NUL"})) = data + 3
  <2> DEFINE chars == {"nl", "NUL"}
             m     == data + 3
  <2>1. \A q \in data .. m - 1 : Macro!At(q) \notin chars
    <3>1. \A q \in data .. m - 1 : q = data \/ q = data + 1 \/ q = data + 2
      BY <1>2
    <3> QED BY <1>2, <3>1
  <2>2. Macro!At(m) \in chars /\ m \in Nat /\ data \in Nat /\ data <= m /\ m <= Len(text) + 1
    BY <1>2, <1>3
  <2> HIDE DEF m, chars
  <2>3. Macro!First(Macro!Places(data, chars)) = m
    BY <1>1, <2>1, <2>2, FoundAt
  <2> QED BY <2>3 DEF m, chars
<1>5. Macro!LineComment
  BY <1>2, TurnIs
<1>6. Macro!Advance(<<>>, data + 3, list)
  BY <1>4, <1>5 DEF Macro!LineComment
<1> DEFINE end == data + 3
<1>7. end \in Nat /\ end > Len(text)
  BY <1>2, <1>3
<1> HIDE DEF end
<1> QED BY <1>3, <1>6, <1>7, GoesWild DEF end

LEMMA OpenStringPart ==
  ASSUME MacroTypes, GivenOK, Nice, phase = "scanning", Macro!Next, NEW p \in 0 .. Len(given) - 1,
         Inside(p, 0, <<>>), given[p + 1] = "openString"
  PROVE  GoesWell
<1>1. StandsAt(p) /\ text \in Seq(Letters)
  <2>1. data = Offset(p) + 0 + 1 /\ text \in Seq(Letters)
    BY DEF Inside, MacroTypes
  <2>2. Offset(p) \in Nat
    BY <2>1, WindowIs
  <2> QED BY <2>1, <2>2 DEF StandsAt
<1>2. /\ data \in Nat \ {0} /\ Len(text) \in Nat /\ data + 2 = Offset(p + 1)
      /\ data + 2 <= Len(text)
      /\ Macro!At(data) = "quote" /\ Macro!At(data + 1) = "c" /\ Macro!At(data + 2) = "nl"
  <2> DEFINE piece == <<"quote", "c", "nl">>
  <2>1. Macro!Characters(given[p + 1]) = piece /\ Len(piece) = 3
    BY PiecesAre
  <2>2. /\ data \in Nat \ {0} /\ data + Len(piece) = Offset(p + 1) + 1
        /\ data + Len(piece) <= Len(text) + 1 /\ Len(text) \in Nat
        /\ \A k \in 0 .. Len(piece) - 1 : Macro!At(data + k) = piece[k + 1]
    BY <1>1, <2>1, Seen
  <2>3. piece[1] = "quote" /\ piece[2] = "c" /\ piece[3] = "nl"
    OBVIOUS
  <2> HIDE DEF piece
  <2>4. Offset(p + 1) \in Nat
    BY <1>1, WindowIs
  <2>5. data + 0 = data
    BY <2>2
  <2> QED BY <2>1, <2>2, <2>3, <2>4, <2>5
<1>3. /\ Macro!Ends /\ Len(text) = data + 2 /\ Macro!At(data + 3) = "NUL"
      /\ given[p + 1] \in Macro!Open
  <2>1. given[p + 1] \in Macro!Open
    BY DEF Macro!Open
  <2>2. Macro!Ends /\ Len(text) = data + 2
    BY <1>1, <1>2, <2>1, OpenIsLast
  <2>3. data + 3 \notin 1 .. Len(text) /\ data + 3 \in Int
    BY <1>2, <2>2
  <2> QED BY <1>1, <2>1, <2>2, <2>3, AtIs
<1>4. Macro!First(Macro!Places(data + 1, {Macro!At(data), "NUL"})) = data + 3
  <2> DEFINE chars == {Macro!At(data), "NUL"}
             m     == data + 3
  <2>1. \A q \in data + 1 .. m - 1 : Macro!At(q) \notin chars
    <3>1. \A q \in data + 1 .. m - 1 : q = data + 1 \/ q = data + 2
      BY <1>2
    <3> QED BY <1>2, <3>1
  <2>2. Macro!At(m) \in chars /\ m \in Nat /\ data + 1 \in Nat /\ data + 1 <= m
        /\ m <= Len(text) + 1
    BY <1>2, <1>3
  <2> HIDE DEF m, chars
  <2>3. Macro!First(Macro!Places(data + 1, chars)) = m
    BY <1>1, <2>1, <2>2, FoundAt
  <2> QED BY <2>3 DEF m, chars
<1>5. Macro!Quoted
  BY <1>2, TurnIs
<1>6. \E keeps : Macro!Advance(keeps, data + 3, list)
  BY <1>4, <1>5 DEF Macro!Quoted
<1> DEFINE end == data + 3
<1>7. PICK keeps : Macro!Advance(keeps, end, list)
  BY <1>6
<1>8. end \in Nat /\ end > Len(text)
  BY <1>2, <1>3
<1> HIDE DEF end
<1> QED BY <1>3, <1>7, <1>8, GoesWild

LEMMA OpenBlockPart ==
  ASSUME MacroTypes, GivenOK, Nice, phase = "scanning", Macro!Next, NEW p \in 0 .. Len(given) - 1,
         Inside(p, 0, <<>>), given[p + 1] = "openBlock"
  PROVE  GoesWell
<1>1. StandsAt(p) /\ text \in Seq(Letters)
  <2>1. data = Offset(p) + 0 + 1 /\ text \in Seq(Letters)
    BY DEF Inside, MacroTypes
  <2>2. Offset(p) \in Nat
    BY <2>1, WindowIs
  <2> QED BY <2>1, <2>2 DEF StandsAt
<1>2. /\ data \in Nat \ {0} /\ Len(text) \in Nat /\ data + 2 = Offset(p + 1)
      /\ data + 2 <= Len(text)
      /\ Macro!At(data) = "/" /\ Macro!At(data + 1) = "*" /\ Macro!At(data + 2) = "c"
  <2> DEFINE piece == <<"/", "*", "c">>
  <2>1. Macro!Characters(given[p + 1]) = piece /\ Len(piece) = 3
    BY PiecesAre
  <2>2. /\ data \in Nat \ {0} /\ data + Len(piece) = Offset(p + 1) + 1
        /\ data + Len(piece) <= Len(text) + 1 /\ Len(text) \in Nat
        /\ \A k \in 0 .. Len(piece) - 1 : Macro!At(data + k) = piece[k + 1]
    BY <1>1, <2>1, Seen
  <2>3. piece[1] = "/" /\ piece[2] = "*" /\ piece[3] = "c"
    OBVIOUS
  <2> HIDE DEF piece
  <2>4. Offset(p + 1) \in Nat
    BY <1>1, WindowIs
  <2>5. data + 0 = data
    BY <2>2
  <2> QED BY <2>1, <2>2, <2>3, <2>4, <2>5
<1>3. /\ Macro!Ends /\ Len(text) = data + 2 /\ Macro!At(data + 3) = "NUL"
      /\ given[p + 1] \in Macro!Open
  <2>1. given[p + 1] \in Macro!Open
    BY DEF Macro!Open
  <2>2. Macro!Ends /\ Len(text) = data + 2
    BY <1>1, <1>2, <2>1, OpenIsLast
  <2>3. data + 3 \notin 1 .. Len(text) /\ data + 3 \in Int
    BY <1>2, <2>2
  <2> QED BY <1>1, <2>1, <2>2, <2>3, AtIs
<1>4. Macro!BlockComment
  BY <1>2, TurnIs
<1>5. Macro!Crash("wild")
  <2> DEFINE ends == {q \in Macro!Places(data, {"*"}) : Macro!At(q + 1) = "/"}
  <2>1. ASSUME NEW q \in ends PROVE FALSE
    <3>1. q \in data .. Len(text) + 1 /\ Macro!At(q) = "*" /\ Macro!At(q + 1) = "/"
      BY DEF Macro!Places
    <3>2. q = data \/ q = data + 1 \/ q = data + 2 \/ q = data + 3
      BY <1>2, <1>3, <3>1
    <3>3. q = data + 1
      BY <1>2, <1>3, <3>1, <3>2
    <3>4. q + 1 = data + 2
      BY <1>2, <3>3
    <3> QED BY <1>2, <3>1, <3>4
  <2>2. ends = {}
    BY <2>1
  <2> QED BY <1>4, <2>2 DEF Macro!BlockComment
<1> QED BY <1>3, <1>5, Crashes

LEMMA HalfMacroPart ==
  ASSUME MacroTypes, GivenOK, Nice, phase = "scanning", Macro!Next, NEW p \in 0 .. Len(given) - 1,
         Inside(p, 0, <<>>), given[p + 1] = "halfMacro"
  PROVE  GoesWell
<1>1. StandsAt(p) /\ text \in Seq(Letters)
  <2>1. data = Offset(p) + 0 + 1 /\ text \in Seq(Letters)
    BY DEF Inside, MacroTypes
  <2>2. Offset(p) \in Nat
    BY <2>1, WindowIs
  <2> QED BY <2>1, <2>2 DEF StandsAt
<1>2. /\ data \in Nat \ {0} /\ Len(text) \in Nat /\ data + 5 = Offset(p + 1)
      /\ data + 5 <= Len(text)
      /\ Macro!At(data) = "#define" /\ Macro!At(data + 1) = "s" /\ Macro!At(data + 2) = "/"
      /\ Macro!At(data + 3) = "c" /\ Macro!At(data + 4) = "/" /\ Macro!At(data + 5) = "nl"
  <2> DEFINE piece == <<"#define", "s", "/", "c", "/", "nl">>
  <2>1. Macro!Characters(given[p + 1]) = piece /\ Len(piece) = 6
    BY PiecesAre
  <2>2. /\ data \in Nat \ {0} /\ data + Len(piece) = Offset(p + 1) + 1
        /\ data + Len(piece) <= Len(text) + 1 /\ Len(text) \in Nat
        /\ \A k \in 0 .. Len(piece) - 1 : Macro!At(data + k) = piece[k + 1]
    BY <1>1, <2>1, Seen
  <2>3. piece[1] = "#define" /\ piece[2] = "s" /\ piece[3] = "/" /\ piece[4] = "c"
        /\ piece[5] = "/" /\ piece[6] = "nl"
    OBVIOUS
  <2> HIDE DEF piece
  <2>4. Offset(p + 1) \in Nat
    BY <1>1, WindowIs
  <2>5. data + 0 = data
    BY <2>2
  <2> QED BY SMTT(30), <2>1, <2>2, <2>3, <2>4, <2>5
<1>3. /\ Macro!Ends /\ Len(text) = data + 5 /\ Macro!At(data + 6) = "NUL"
      /\ given[p + 1] \in Macro!Open
  <2>1. given[p + 1] \in Macro!Open
    BY DEF Macro!Open
  <2>2. Macro!Ends /\ Len(text) = data + 5
    BY <1>1, <1>2, <2>1, OpenIsLast
  <2>3. data + 6 \notin 1 .. Len(text) /\ data + 6 \in Int
    BY <1>2, <2>2
  <2> QED BY <1>1, <2>1, <2>2, <2>3, AtIs
<1>4. Macro!Macro = data + 1
  <2> DEFINE m == data + 1
  <2>1. \A q \in data + 1 .. m - 1 : Macro!At(q) \in {"sp", "nl"}
    BY <1>2
  <2>2. m \in Nat /\ data + 1 <= m /\ m <= Len(text) + 1 /\ Macro!At(m) = "s" /\ data \in Nat
    BY <1>2
  <2> HIDE DEF m
  <2>3. Macro!Macro = m
    BY <1>1, <2>1, <2>2, MacroAt
  <2> QED BY <2>3 DEF m
<1>5. Macro!Define /\ Macro!Macro + 2 = data + 3
  <2>1. (data + 1) + 1 = data + 2 /\ (data + 1) + 2 = data + 3
    BY <1>2
  <2>2. Macro!IsMacro
    BY <1>2, <1>4, <2>1 DEF Macro!IsMacro
  <2> QED BY <1>4, <2>1, <2>2, TurnIs
<1>6. Macro!First(Macro!Places(data + 3, {"/"})) = data + 4
  <2> DEFINE chars == {"/"}
             m     == data + 4
  <2>1. \A q \in data + 3 .. m - 1 : Macro!At(q) \notin chars
    <3>1. \A q \in data + 3 .. m - 1 : q = data + 3
      BY <1>2
    <3> QED BY <1>2, <3>1
  <2>2. Macro!At(m) \in chars /\ m \in Nat /\ data + 3 \in Nat /\ data + 3 <= m
        /\ m <= Len(text) + 1
    BY <1>2
  <2> HIDE DEF m, chars
  <2>3. Macro!First(Macro!Places(data + 3, chars)) = m
    BY <1>1, <2>1, <2>2, FoundAt
  <2> QED BY <2>3 DEF m, chars
<1>7. Macro!Places(data + 3, {"/"}) = {data + 4}
  <2>1. ASSUME NEW q \in Macro!Places(data + 3, {"/"}) PROVE q = data + 4
    <3>1. q \in data + 3 .. Len(text) + 1 /\ Macro!At(q) = "/"
      BY DEF Macro!Places
    <3>2. q = data + 3 \/ q = data + 4 \/ q = data + 5 \/ q = data + 6
      BY <1>2, <1>3, <3>1
    <3> QED BY <1>2, <1>3, <3>1, <3>2
  <2>2. data + 4 \in Macro!Places(data + 3, {"/"})
    BY <1>2 DEF Macro!Places
  <2> QED BY <2>1, <2>2
<1>8. Macro!Crash("aborted")
  <2> DEFINE begin == data + 3
             m     == data + 4
             search == Macro!Places(begin, {"/"})
  <2>1. search = {m} /\ Macro!First(search) = m /\ search \ {m} = {} /\ Macro!Macro + 2 = begin
    BY <1>5, <1>6, <1>7
  <2>2. search # {}
    BY <2>1
  <2> HIDE DEF begin, m, search
  <2> QED BY <1>5, <2>1, <2>2 DEF Macro!Define, search
<1> QED BY <1>3, <1>8, Crashes

LEMMA LastMacroPart ==
  ASSUME MacroTypes, GivenOK, Nice, phase = "scanning", Macro!Next, NEW p \in 0 .. Len(given) - 1,
         Inside(p, 0, <<>>), given[p + 1] = "lastMacro"
  PROVE  GoesWell
<1>1. StandsAt(p) /\ text \in Seq(Letters)
  <2>1. data = Offset(p) + 0 + 1 /\ text \in Seq(Letters)
    BY DEF Inside, MacroTypes
  <2>2. Offset(p) \in Nat
    BY <2>1, WindowIs
  <2> QED BY <2>1, <2>2 DEF StandsAt
<1>2. /\ data \in Nat \ {0} /\ Len(text) \in Nat /\ data + 4 = Offset(p + 1)
      /\ data + 4 <= Len(text)
      /\ Macro!At(data) = "#define" /\ Macro!At(data + 1) = "s" /\ Macro!At(data + 2) = "/"
      /\ Macro!At(data + 3) = "/" /\ Macro!At(data + 4) = "/"
  <2> DEFINE piece == <<"#define", "s", "/", "/", "/">>
  <2>1. Macro!Characters(given[p + 1]) = piece /\ Len(piece) = 5
    BY PiecesAre
  <2>2. /\ data \in Nat \ {0} /\ data + Len(piece) = Offset(p + 1) + 1
        /\ data + Len(piece) <= Len(text) + 1 /\ Len(text) \in Nat
        /\ \A k \in 0 .. Len(piece) - 1 : Macro!At(data + k) = piece[k + 1]
    BY <1>1, <2>1, Seen
  <2>3. piece[1] = "#define" /\ piece[2] = "s" /\ piece[3] = "/" /\ piece[4] = "/"
        /\ piece[5] = "/"
    OBVIOUS
  <2> HIDE DEF piece
  <2>4. Offset(p + 1) \in Nat
    BY <1>1, WindowIs
  <2>5. data + 0 = data
    BY <2>2
  <2> QED BY <2>1, <2>2, <2>3, <2>4, <2>5
<1>3. /\ Macro!Ends /\ Len(text) = data + 4 /\ Macro!At(data + 5) = "NUL"
      /\ given[p + 1] \in Macro!Open
  <2>1. given[p + 1] \in Macro!Open
    BY DEF Macro!Open
  <2>2. Macro!Ends /\ Len(text) = data + 4
    BY <1>1, <1>2, <2>1, OpenIsLast
  <2>3. data + 5 \notin 1 .. Len(text) /\ data + 5 \in Int
    BY <1>2, <2>2
  <2> QED BY <1>1, <2>1, <2>2, <2>3, AtIs
<1>4. Macro!Macro = data + 1
  <2> DEFINE m == data + 1
  <2>1. \A q \in data + 1 .. m - 1 : Macro!At(q) \in {"sp", "nl"}
    BY <1>2
  <2>2. m \in Nat /\ data + 1 <= m /\ m <= Len(text) + 1 /\ Macro!At(m) = "s" /\ data \in Nat
    BY <1>2
  <2> HIDE DEF m
  <2>3. Macro!Macro = m
    BY <1>1, <2>1, <2>2, MacroAt
  <2> QED BY <2>3 DEF m
<1>5. Macro!Define /\ Macro!Macro + 2 = data + 3
  <2>1. (data + 1) + 1 = data + 2 /\ (data + 1) + 2 = data + 3
    BY <1>2
  <2>2. Macro!IsMacro
    BY <1>2, <1>4, <2>1 DEF Macro!IsMacro
  <2> QED BY <1>4, <2>1, <2>2, TurnIs
<1>6. Macro!First(Macro!Places(data + 3, {"/"})) = data + 3
  <2> DEFINE chars == {"/"}
             m     == data + 3
  <2>1. \A q \in data + 3 .. m - 1 : Macro!At(q) \notin chars
    BY <1>2
  <2>2. Macro!At(m) \in chars /\ m \in Nat /\ data + 3 \in Nat /\ data + 3 <= m
        /\ m <= Len(text) + 1
    BY <1>2
  <2> HIDE DEF m, chars
  <2>3. Macro!First(Macro!Places(data + 3, chars)) = m
    BY <1>1, <2>1, <2>2, FoundAt
  <2> QED BY <2>3 DEF m, chars
<1>7. /\ Macro!Places(data + 3, {"/"}) \ {data + 3} # {}
      /\ Macro!First(Macro!Places(data + 3, {"/"}) \ {data + 3}) = data + 4
  <2> DEFINE replace == Macro!Places(data + 3, {"/"}) \ {data + 3}
             m       == data + 4
  <2>1. m \in replace /\ replace \subseteq Nat
    BY <1>2 DEF Macro!Places
  <2>2. \A q \in replace : m <= q
    BY <1>2 DEF Macro!Places
  <2> HIDE DEF replace, m
  <2>3. Macro!First(replace) = m
    BY <2>1, <2>2, FirstAt
  <2> QED BY <2>1, <2>3 DEF replace, m
<1> DEFINE end == data + 5
<1>8. end = (data + 4) + 1 /\ end \in Nat /\ end > Len(text)
  BY <1>2, <1>3
<1>9. Macro!Crash("aborted") \/ \E entries : Macro!Advance(<<>>, end, entries)
  <2> DEFINE begin == data + 3
             m     == data + 4
             search == Macro!Places(begin, {"/"})
  <2>1. /\ Macro!First(search) = begin /\ search \ {begin} # {} /\ Macro!Macro + 2 = begin
        /\ Macro!First(search \ {begin}) = m /\ end = m + 1 /\ search # {}
    BY <1>5, <1>6, <1>7, <1>8
  <2> HIDE DEF begin, m, end, search
  <2> QED BY <1>5, <2>1 DEF Macro!Define, search
<1> HIDE DEF end
<1>10. CASE Macro!Crash("aborted")
  BY <1>10 DEF GoesWell, Macro!Crash
<1>11. CASE \E entries : Macro!Advance(<<>>, end, entries)
  BY <1>3, <1>8, <1>11, GoesWild
<1> QED BY <1>9, <1>10, <1>11

LEMMA OneLetter ==
  ASSUME text \in Seq(Letters), NEW k \in 1 .. Len(text)
  PROVE  SubSeq(text, k, k) = <<Macro!At(k)>>
<1> DEFINE s == SubSeq(text, k, k)
           c == Macro!At(k)
<1>1. s \in Seq(Letters) /\ Len(s) = 1 /\ s[1] = text[k]
  OBVIOUS
<1>2. text[k] = c /\ c \in Letters
  BY AtIs
<1> HIDE DEF s, c
<1>3. <<c>> \in Seq(Elements) /\ s \in Seq(Elements) /\ Len(<<c>>) = 1 /\ <<c>>[1] = c
  BY <1>1, <1>2, ElementsAre
<1> DEFINE t == <<c>>
<1>4. t \in Seq(Elements) /\ Len(t) = 1 /\ t[1] = s[1]
  BY <1>1, <1>2, <1>3
<1> HIDE DEF t
<1>5. s = t
  BY <1>1, <1>3, <1>4, SeqsEqual
<1> QED BY <1>5 DEF s, t, c

LEMMA MacroPart ==
  ASSUME MacroTypes, GivenOK, Nice, phase = "scanning", Macro!Next, NEW p \in 0 .. Len(given) - 1,
         Inside(p, 0, <<>>), given[p + 1] = "macro"
  PROVE  GoesWell
<1>1. StandsAt(p) /\ text \in Seq(Letters)
  <2>1. data = Offset(p) + 0 + 1 /\ text \in Seq(Letters)
    BY DEF Inside, MacroTypes
  <2>2. Offset(p) \in Nat
    BY <2>1, WindowIs
  <2> QED BY <2>1, <2>2 DEF StandsAt
<1>2. /\ data \in Nat \ {0} /\ Len(text) \in Nat /\ data + 8 = Offset(p + 1)
      /\ data + 8 <= Len(text)
      /\ Macro!At(data) = "#define" /\ Macro!At(data + 1) = "sp" /\ Macro!At(data + 2) = "s"
      /\ Macro!At(data + 3) = "/" /\ Macro!At(data + 4) = "c" /\ Macro!At(data + 5) = "/"
      /\ Macro!At(data + 6) = "'" /\ Macro!At(data + 7) = "/" /\ Macro!At(data + 8) = "nl"
  <2> DEFINE piece == <<"#define", "sp", "s", "/", "c", "/", "'", "/", "nl">>
  <2>1. Macro!Characters(given[p + 1]) = piece /\ Len(piece) = 9
    BY PiecesAre
  <2>2. /\ data \in Nat \ {0} /\ data + Len(piece) = Offset(p + 1) + 1
        /\ data + Len(piece) <= Len(text) + 1 /\ Len(text) \in Nat
        /\ \A k \in 0 .. Len(piece) - 1 : Macro!At(data + k) = piece[k + 1]
    BY <1>1, <2>1, Seen
  <2>3. piece[1] = "#define" /\ piece[2] = "sp" /\ piece[3] = "s" /\ piece[4] = "/"
        /\ piece[5] = "c" /\ piece[6] = "/" /\ piece[7] = "'" /\ piece[8] = "/" /\ piece[9] = "nl"
    OBVIOUS
  <2> HIDE DEF piece
  <2>4. Offset(p + 1) \in Nat
    BY <1>1, WindowIs
  <2>5. data + 0 = data
    BY <2>2
  <2> QED BY SMTT(30), <2>1, <2>2, <2>3, <2>4, <2>5
<1>3. Macro!Macro = data + 2
  <2> DEFINE m == data + 2
  <2>1. \A q \in data + 1 .. m - 1 : Macro!At(q) \in {"sp", "nl"}
    <3>1. \A q \in data + 1 .. m - 1 : q = data + 1
      BY <1>2
    <3> QED BY <1>2, <3>1
  <2>2. m \in Nat /\ data + 1 <= m /\ m <= Len(text) + 1 /\ Macro!At(m) = "s" /\ data \in Nat
    BY <1>2
  <2> HIDE DEF m
  <2>3. Macro!Macro = m
    BY <1>1, <2>1, <2>2, MacroAt
  <2> QED BY <2>3 DEF m
<1>4. Macro!Define /\ Macro!Macro + 2 = data + 4
  <2>1. (data + 2) + 1 = data + 3 /\ (data + 2) + 2 = data + 4
    BY <1>2
  <2>2. Macro!IsMacro
    BY <1>2, <1>3, <2>1 DEF Macro!IsMacro
  <2> QED BY <1>3, <2>1, <2>2, TurnIs
<1>5. Macro!First(Macro!Places(data + 4, {"/"})) = data + 5
  <2> DEFINE chars == {"/"}
             m     == data + 5
  <2>1. \A q \in data + 4 .. m - 1 : Macro!At(q) \notin chars
    <3>1. \A q \in data + 4 .. m - 1 : q = data + 4
      BY <1>2
    <3> QED BY <1>2, <3>1
  <2>2. Macro!At(m) \in chars /\ m \in Nat /\ data + 4 \in Nat /\ data + 4 <= m
        /\ m <= Len(text) + 1
    BY <1>2
  <2> HIDE DEF m, chars
  <2>3. Macro!First(Macro!Places(data + 4, chars)) = m
    BY <1>1, <2>1, <2>2, FoundAt
  <2> QED BY <2>3 DEF m, chars
<1>6. /\ Macro!Places(data + 4, {"/"}) \ {data + 5} # {}
      /\ Macro!First(Macro!Places(data + 4, {"/"}) \ {data + 5}) = data + 7
  <2> DEFINE replace == Macro!Places(data + 4, {"/"}) \ {data + 5}
             m       == data + 7
  <2>1. m \in replace /\ replace \subseteq Nat
    BY <1>2 DEF Macro!Places
  <2>2. \A q \in replace : m <= q
    <3>1. SUFFICES ASSUME NEW q \in replace, q < m PROVE FALSE
      BY <1>2 DEF Macro!Places
    <3>2. q \in data + 4 .. Len(text) + 1 /\ Macro!At(q) = "/" /\ q # data + 5
      BY DEF Macro!Places
    <3>3. q = data + 4 \/ q = data + 6
      BY <1>2, <3>1, <3>2
    <3> QED BY <1>2, <3>2, <3>3
  <2> HIDE DEF replace, m
  <2>3. Macro!First(replace) = m
    BY <2>1, <2>2, FirstAt
  <2> QED BY <2>1, <2>3 DEF replace, m
<1> DEFINE end     == data + 8
           entries == Append(list, Subst)
<1>7. \/ Macro!Crash("aborted")
      \/ Macro!Advance(<<>>, end, entries)
  <2> DEFINE begin   == data + 4
             middle  == data + 5
             last    == data + 7
             search  == Macro!Places(begin, {"/"})
             replace == search \ {middle}
             second  == SubSeq(text, middle + 1, last - 1)
             first   == SubSeq(text, begin, middle - 1)
  <2>1. /\ Macro!First(search) = middle /\ replace # {} /\ Macro!Macro + 2 = begin
        /\ Macro!First(replace) = last /\ end = last + 1
    BY <1>2, <1>4, <1>5, <1>6
  <2>2. search # {}
    BY <2>1
  <2>3. <<first, second>> = Subst
    <3>1. /\ begin \in 1 .. Len(text) /\ middle - 1 = begin
          /\ last - 1 = data + 6 /\ middle + 1 = data + 6 /\ data + 6 \in 1 .. Len(text)
      BY <1>2
    <3>2. first = <<Macro!At(data + 4)>>
      BY <1>1, <3>1, OneLetter
    <3>3. second = <<Macro!At(data + 6)>>
      BY <1>1, <3>1, OneLetter
    <3> HIDE DEF first, second
    <3> QED BY <1>2, <3>2, <3>3 DEF Subst
  <2> HIDE DEF begin, middle, last, end, search, first, second, replace
  <2>4. Macro!Crash("aborted") \/ Macro!Advance(<<>>, end, Append(list, <<first, second>>))
    BY <1>4, <2>1, <2>2 DEF Macro!Define, search, first, second, replace
  <2> QED BY <2>3, <2>4
<1>8. CASE Macro!Crash("aborted")
  BY <1>8 DEF GoesWell, Macro!Crash
<1>9. CASE Macro!Advance(<<>>, end, entries)
  <2>1. Keeps[p + 1] = <<"nl">> /\ Subs[p + 1] = <<Subst>>
    BY PiecesAre DEF Keeps, Subs, GivenOK
  <2>2. Join(<<>>, Join(<<>>, <<Macro!At(data + 8)>>)) = Keeps[p + 1]
    BY <1>2, <2>1 DEF Join
  <2>3. list \in Seq(Elements)
    BY PartNext DEF Inside, GivenOK
  <2> DEFINE x == Subst
  <2>4. x \in Elements
    BY DEF Elements, Subst
  <2> HIDE DEF x
  <2>5. Append(list, x) = Join(list, <<x>>)
    <3> DEFINE c == <<x>>
               t == Append(list, x)
    <3>1. /\ t \in Seq(Elements) /\ Len(t) = Len(list) + 1 /\ t[Len(list) + 1] = x
          /\ \A k \in 1 .. Len(list) : t[k] = list[k]
      BY <2>3, <2>4
    <3> HIDE DEF t
    <3>2. Join(list, <<x>>) = t
      BY <2>3, <2>4, <3>1, JoinOne
    <3> QED BY <3>2 DEF t
  <2>6. entries = Join(list, Subs[p + 1])
    BY <2>1, <2>5 DEF x
  <2>7. <<>> \in Seq(Elements) /\ given[p + 1] \notin Macro!Open /\ end = Offset(p + 1)
    BY <1>2 DEF Macro!Open
  <2>8. Join(<<>>, Join(<<>>, <<Macro!At(end)>>)) = Keeps[p + 1]
    BY <2>2
  <2> HIDE DEF end, entries
  <2> QED BY <1>9, <2>6, <2>7, <2>8, PartDone
<1> QED BY <1>7, <1>8, <1>9

(* So a turn keeps what it should and takes out what it should.            *)
LEMMA TurnGoesWell ==
  ASSUME MacroTypes, GivenOK, Nice, phase = "scanning", Macro!Next,
         NEW p \in 0 .. Len(given) - 1,
         \/ Inside(p, 0, <<>>)
         \/ given[p + 1] = "define" /\ Inside(p, 1, <<"#define">>)
         \/ given[p + 1] = "define" /\ Inside(p, 2, <<"#define", "sp">>)
         \/ given[p + 1] = "block" /\ Inside(p, 7, <<"*">>)
  PROVE  GoesWell
<1>1. CASE Inside(p, 0, <<>>)
  <2>1. given[p + 1] \in {"code", "slash", "define", "line", "block", "string", "char", "macro",
                          "openLine", "openBlock", "openString", "halfMacro", "lastMacro"}
    <3>1. given[p + 1] \in Pieces
      BY DEF GivenOK
    <3> QED BY <3>1, MacroAssumption
  <2>2. CASE given[p + 1] \in {"code", "slash", "line", "string", "char", "macro"}
    BY Zenon, <1>1, <2>2, CodePart, SlashPart, LinePart, StringPart, CharPart, MacroPart
  <2>3. CASE given[p + 1] \in {"define", "block"}
    BY Zenon, <1>1, <2>3, DefineBegins, BlockBegins
  <2>4. CASE given[p + 1] \in {"openLine", "openBlock", "openString", "halfMacro", "lastMacro"}
    BY Zenon, <1>1, <2>4, OpenLinePart, OpenBlockPart, OpenStringPart, HalfMacroPart, LastMacroPart
  <2> QED BY <2>1, <2>2, <2>3, <2>4
<1>2. CASE given[p + 1] = "define" /\ Inside(p, 1, <<"#define">>)
  BY Zenon, <1>2, DefineGoesOn
<1>3. CASE given[p + 1] = "define" /\ Inside(p, 2, <<"#define", "sp">>)
  BY Zenon, <1>3, DefineEnds
<1>4. CASE given[p + 1] = "block" /\ Inside(p, 7, <<"*">>)
  BY Zenon, <1>4, BlockEnds
<1> QED BY Zenon, <1>1, <1>2, <1>3, <1>4

(* All parts are behind the loop.                                          *)
Scanned ==
  /\ out = Upto(Keeps)[Len(given)] /\ ~Macro!Ends
  /\ list \in Seq(Elements) /\ applied \in Seq(Elements)
  /\ Join(applied, list) = Upto(Subs)[Len(given)]

LEMMA LastTurn ==
  ASSUME MacroTypes, GivenOK, phase = "scanning", applied = <<>>, Macro!Next,
         Inside(Len(given), 0, <<>>)
  PROVE  UNCHANGED <<given, text, out, list, applied>> /\ phase' = "applying" /\ Scanned
<1>1. Len(given) \in Nat /\ given \in [1 .. Len(given) -> Pieces] /\ text \in Seq(Letters)
  BY DEF GivenOK, MacroTypes
<1>2. Offset(Len(given)) = Len(text) /\ Len(text) \in Nat
  BY <1>1 DEF GivenOK, Offset
<1>3. data = Len(text) + 1
  BY <1>2 DEF Inside
<1>4. Macro!At(data) = "NUL"
  BY <1>1, <1>2, <1>3, AtIs
<1>5. Macro!EndOfText
  BY <1>4, TurnIs
<1>6. Prefixes(Upto(Keeps), Keeps, Len(given)) /\ Prefixes(Upto(Subs), Subs, Len(given))
  BY <1>1, SeqsAre
<1>7. Upto(Keeps)[Len(given)] \in Seq(Elements) /\ Upto(Subs)[Len(given)] \in Seq(Elements)
  <2> DEFINE size == Len(given)
  <2>1. size \in 0 .. size
    BY <1>1
  <2> HIDE DEF size
  <2> QED BY <1>6, <2>1 DEF Prefixes, size
<1>8. out = Upto(Keeps)[Len(given)] /\ list \in Seq(Elements) /\ list = Upto(Subs)[Len(given)]
  BY <1>7, JoinNothing DEF Inside
<1>9. applied \in Seq(Elements) /\ Join(applied, list) = Upto(Subs)[Len(given)]
  BY <1>8, JoinNothing
<1>10. ~Macro!Ends
  <2>1. SUFFICES ASSUME given # <<>>, given[Len(given)] \in Macro!Open PROVE FALSE
    BY DEF Macro!Ends
  <2>2. Len(given) \in 1 .. Len(given)
    BY <1>1, <2>1
  <2> QED BY <2>1, <2>2 DEF Inside
<1> QED BY <1>5, <1>8, <1>9, <1>10 DEF Macro!EndOfText, Scanned

(* perl is given a macro.                                                  *)
LEMMA OneApplied ==
  ASSUME NEW a \in Seq(Elements), NEW b \in Seq(Elements), b # <<>>
  PROVE  /\ Append(a, Head(b)) \in Seq(Elements) /\ Tail(b) \in Seq(Elements)
         /\ Join(Append(a, Head(b)), Tail(b)) = Join(a, b)
<1> DEFINE x == Head(b)
           c == Append(a, x)
           d == Tail(b)
           s == Join(c, d)
           t == Join(a, b)
<1>1. Len(a) \in Nat /\ Len(b) \in Nat \ {0} /\ b[1] = x /\ x \in Elements
  OBVIOUS
<1>2. /\ d \in Seq(Elements) /\ Len(d) = Len(b) - 1
      /\ \A k \in 1 .. Len(d) : d[k] = b[k + 1]
  OBVIOUS
<1> HIDE DEF x, d
<1>3. /\ c \in Seq(Elements) /\ Len(c) = Len(a) + 1 /\ c[Len(a) + 1] = x
      /\ \A k \in 1 .. Len(a) : c[k] = a[k]
  BY <1>1
<1> HIDE DEF c
<1>4. /\ s \in Seq(Elements) /\ Begins(s, c) /\ GoesOn(s, c, d)
      /\ t \in Seq(Elements) /\ Begins(t, a) /\ GoesOn(t, a, b)
  BY <1>2, <1>3, JoinIs
<1> HIDE DEF s, t
<1>5. Len(s) = Len(t) /\ Len(t) = Len(a) + Len(b)
  BY <1>1, <1>2, <1>3, <1>4 DEF GoesOn
<1>6. ASSUME NEW k \in 1 .. Len(s) PROVE s[k] = t[k]
  <2>1. CASE k <= Len(a)
    BY <1>1, <1>3, <1>4, <2>1 DEF Begins
  <2>2. CASE k = Len(a) + 1
    <3>1. s[k] = x
      BY <1>1, <1>3, <1>4, <2>2 DEF Begins
    <3>2. t[k] = b[1]
      BY <1>1, <1>4, <2>2 DEF GoesOn
    <3> QED BY <1>1, <3>1, <3>2
  <2>3. CASE k > Len(a) + 1
    <3> DEFINE j == k - (Len(a) + 1)
    <3>1. j \in 1 .. Len(d) /\ k = Len(c) + j /\ j + 1 \in 1 .. Len(b) /\ k = Len(a) + (j + 1)
      BY <1>1, <1>2, <1>3, <1>5, <2>3
    <3> HIDE DEF j
    <3>2. s[k] = d[j] /\ t[k] = b[j + 1]
      BY <1>4, <3>1 DEF GoesOn
    <3> QED BY <1>2, <3>1, <3>2
  <2> QED BY <1>1, <2>1, <2>2, <2>3
<1>7. s = t
  BY <1>4, <1>5, <1>6, SeqsEqual
<1> QED BY <1>2, <1>3, <1>7 DEF s, t, c, d, x

(* What every state of the program has.                                    *)
MacroInv ==
  /\ MacroTypes /\ GivenOK
  /\ Nice =>
       /\ phase = "reading" => Inside(0, 0, <<>>)
       /\ phase = "scanning" => Standing
       /\ phase \in {"reading", "scanning"} => applied = <<>>
       /\ phase \in {"applying", "done"} => Scanned
       /\ phase = "done" => list = <<>>
       /\ phase = "wild" => Macro!Ends

LEMMA MacroInvInit ==
  ASSUME Macro!Init
  PROVE  MacroInv
<1>1. PICK size \in 0 .. MaxPieces : given \in [1 .. size -> Pieces]
  BY DEF Macro!Init
<1>2. Len(given) = size /\ size \in Nat
  BY <1>1, MacroAssumption
<1>3. Chars \in [1 .. size -> Seq(Elements)] /\ Prefixes(Upto(Chars), Chars, size)
  BY <1>1, <1>2, SeqsAre
<1>4. text = Macro!Seqs!FlattenSeq(Chars)
  BY DEF Macro!Init, Chars
<1>5. text = Upto(Chars)[size]
  BY <1>2, <1>3, <1>4, FlattenIs
<1>6. GivenOK
  BY <1>1, <1>2, <1>5 DEF GivenOK
<1>7. MacroTypes
  BY <1>6, MacroTypesInit
<1>8. phase = "reading" /\ applied = <<>> /\ list = <<>> /\ out = <<>> /\ data = 1
  BY DEF Macro!Init
<1>9. Inside(0, 0, <<>>)
  <2>1. /\ Prefixes(Upto(Keeps), Keeps, size) /\ Prefixes(Upto(Subs), Subs, size)
    BY <1>1, <1>2, SeqsAre
  <2>2. Upto(Chars)[0] = <<>> /\ Upto(Keeps)[0] = <<>> /\ Upto(Subs)[0] = <<>>
    BY <1>3, <2>1 DEF Prefixes
  <2>3. Offset(0) = 0
    BY <2>2 DEF Offset
  <2>4. Join(<<>>, <<>>) = <<>>
    BY DEF Join
  <2> QED BY <1>2, <1>8, <2>2, <2>3, <2>4 DEF Inside
<1> QED BY <1>6, <1>7, <1>8, <1>9 DEF MacroInv

LEMMA MacroInvStep ==
  ASSUME MacroInv, Macro!Next \/ UNCHANGED macroVars
  PROVE  MacroInv'
<1>1. MacroTypes /\ GivenOK
  BY DEF MacroInv
<1>2. given' = given /\ text' = text
  BY DEF Macro!Next, Macro!Read, Macro!LineComment, Macro!BlockComment, Macro!Quoted, Macro!Define,
         Macro!Other, Macro!EndOfText, Macro!Apply, Macro!Finish, Macro!Advance, Macro!CanFail,
         Macro!Crash, macroVars
<1>3. MacroTypes'
  <2>1. CASE Macro!Next
    BY <1>1, <2>1, MacroTypesStep
  <2>2. CASE UNCHANGED macroVars
    BY <1>1, <2>2 DEF macroVars, MacroTypes, Roomy
  <2> QED BY <2>1, <2>2
<1>4. /\ Upto(Chars)' = Upto(Chars) /\ Upto(Keeps)' = Upto(Keeps) /\ Upto(Subs)' = Upto(Subs)
      /\ \A p : Offset(p)' = Offset(p)
  BY <1>2, Same
<1>5. GivenOK'
  BY <1>1, <1>2, <1>4 DEF GivenOK
<1>6. Nice' <=> Nice
  BY <1>2 DEF Nice, Macro!Mixed, Macro!Meet
<1>7. Macro!Ends' <=> Macro!Ends
  BY <1>2 DEF Macro!Ends
<1>8. SUFFICES ASSUME Nice
               PROVE  (/\ phase = "reading" => Inside(0, 0, <<>>)
                       /\ phase = "scanning" => Standing
                       /\ phase \in {"reading", "scanning"} => applied = <<>>
                       /\ phase \in {"applying", "done"} => Scanned
                       /\ phase = "done" => list = <<>>
                       /\ phase = "wild" => Macro!Ends)'
  BY <1>3, <1>5, <1>6 DEF MacroInv
<1>9. /\ phase = "reading" => Inside(0, 0, <<>>)
      /\ phase = "scanning" => Standing
      /\ phase \in {"reading", "scanning"} => applied = <<>>
      /\ phase \in {"applying", "done"} => Scanned
      /\ phase = "done" => list = <<>>
      /\ phase = "wild" => Macro!Ends
  BY <1>8 DEF MacroInv
<1>10. ASSUME UNCHANGED <<out, data, list>>
       PROVE  \A p, j : \A part : Inside(p, j, part)' <=> Inside(p, j, part)
  BY <1>2, <1>4, <1>10 DEF Inside
<1>11. CASE UNCHANGED macroVars
  <2>1. UNCHANGED <<out, data, list, applied, phase>>
    BY <1>11 DEF macroVars
  <2>2. Standing => Standing'
    BY <1>2, <1>10, <2>1 DEF Standing
  <2>3. Scanned => Scanned'
    BY <1>2, <1>4, <1>7, <2>1 DEF Scanned
  <2> QED BY <1>7, <1>9, <1>10, <2>1, <2>2, <2>3
<1>12. CASE Macro!Read
  <2>1. /\ phase = "reading" /\ UNCHANGED <<out, data, list, applied>>
        /\ phase' \in {"reading", "scanning", "aborted"}
    BY <1>12 DEF Macro!Read, Macro!CanFail, Macro!Crash
  <2>2. Inside(0, 0, <<>>)'
    BY <1>9, <1>10, <2>1
  <2>3. Standing'
    <3>1. (0 \in 0 .. Len(given))'
      BY <1>5 DEF GivenOK
    <3> QED BY <2>2, <3>1 DEF Standing
  <2> QED BY <1>9, <2>1, <2>2, <2>3
<1>13. CASE Macro!Next /\ phase = "scanning"
  <2>1. Standing /\ applied = <<>>
    BY <1>9, <1>13
  <2>2. CASE Inside(Len(given), 0, <<>>)
    <3>1. UNCHANGED <<given, text, out, list, applied>> /\ phase' = "applying" /\ Scanned
      BY <1>1, <1>13, <2>1, <2>2, LastTurn
    <3>2. Scanned'
      BY <1>4, <1>7, <3>1 DEF Scanned
    <3> QED BY <3>1, <3>2
  <2>3. CASE ~Inside(Len(given), 0, <<>>)
    <3>1. PICK p \in 0 .. Len(given) :
            \/ Inside(p, 0, <<>>)
            \/ /\ p < Len(given) /\ given[p + 1] = "define"
               /\ Inside(p, 1, <<"#define">>) \/ Inside(p, 2, <<"#define", "sp">>)
            \/ /\ p < Len(given) /\ given[p + 1] = "block"
               /\ Inside(p, 7, <<"*">>)
      BY <2>1 DEF Standing
    <3>2. p \in 0 .. Len(given) - 1
      <4>1. Len(given) \in Nat
        BY <1>1 DEF GivenOK
      <4>2. p # Len(given)
        <5>1. SUFFICES ASSUME p = Len(given) PROVE FALSE
          OBVIOUS
        <5>2. ~(p < Len(given)) /\ ~Inside(p, 0, <<>>)
          BY <2>3, <4>1, <5>1
        <5> QED BY <3>1, <5>2
      <4> QED BY <4>1, <4>2
    <3>3. GoesWell
      BY <1>1, <1>8, <1>13, <3>1, <3>2, TurnGoesWell
    <3>4. applied' = <<>>
      BY <2>1, <3>3 DEF GoesWell
    <3> QED BY <1>7, <3>3, <3>4 DEF GoesWell
  <2> QED BY <2>2, <2>3
<1>14. CASE Macro!Apply
  <2>1. /\ phase = "applying" /\ list # <<>> /\ applied' = Append(applied, Head(list))
        /\ list' = Tail(list) /\ phase' = "applying" /\ out' = out
    BY <1>14 DEF Macro!Apply
  <2>2. Scanned
    BY <1>9, <2>1
  <2>3. /\ applied' \in Seq(Elements) /\ list' \in Seq(Elements)
        /\ Join(applied', list') = Join(applied, list)
    BY <2>1, <2>2, OneApplied DEF Scanned
  <2>4. Scanned'
    BY <1>2, <1>4, <1>7, <2>1, <2>2, <2>3 DEF Scanned
  <2> QED BY <2>1, <2>4
<1>15. CASE Macro!Finish
  <2>1. phase = "applying" /\ list = <<>> /\ phase' = "done" /\ UNCHANGED <<out, list, applied>>
    BY <1>15 DEF Macro!Finish
  <2>2. Scanned'
    BY <1>2, <1>4, <1>7, <1>9, <2>1 DEF Scanned
  <2> QED BY <2>1, <2>2
<1>16. Macro!Next => Macro!Read \/ phase = "scanning" \/ Macro!Apply \/ Macro!Finish
  BY DEF Macro!Next, Macro!LineComment, Macro!BlockComment, Macro!Quoted, Macro!Define,
         Macro!Other, Macro!EndOfText, Macro!Opens
<1> QED BY <1>11, <1>12, <1>13, <1>14, <1>15, <1>16

(* When the program is through, what is left is what should be.            *)
LEMMA MacroInvIsEnough ==
  ASSUME MacroInv
  PROVE  Macro!ScansLikeC
<1>1. MacroTypes /\ GivenOK
  BY DEF MacroInv
<1>2. \A b \in {i, o} : b.length < b.capacity
  BY <1>1 DEF MacroTypes, Roomy
<1>3. o.length = Len(out)
  BY <1>1 DEF MacroTypes
<1>4. Len(given) \in Nat /\ given \in [1 .. Len(given) -> Pieces]
  BY <1>1 DEF GivenOK
<1>5. /\ Keeps \in [1 .. Len(given) -> Seq(Elements)] /\ Prefixes(Upto(Keeps), Keeps, Len(given))
      /\ Subs \in [1 .. Len(given) -> Seq(Elements)] /\ Prefixes(Upto(Subs), Subs, Len(given))
  BY <1>4, SeqsAre
<1>6. Macro!Seqs!FlattenSeq(Keeps) = Upto(Keeps)[Len(given)]
  BY <1>4, <1>5, FlattenIs
<1>7. Macro!Seqs!FlattenSeq(Subs) = Upto(Subs)[Len(given)]
  BY <1>4, <1>5, FlattenIs
<1>8. ASSUME Nice, phase = "done"
      PROVE  ~Macro!Ends /\ out = Macro!Seqs!FlattenSeq(Keeps)
            /\ applied = Macro!Seqs!FlattenSeq(Subs)
  <2>1. Scanned /\ list = <<>>
    BY <1>8 DEF MacroInv
  <2>2. applied = Join(applied, list)
    BY <2>1, JoinNothing DEF Scanned
  <2> QED BY <1>6, <1>7, <2>1, <2>2 DEF Scanned
<1>9. Nice /\ phase = "wild" => Macro!Ends
  BY DEF MacroInv
<1>10. Nice <=> ~Macro!Mixed /\ \A p \in 1 .. Len(given) - 1 : given[p] \notin Macro!Open
  BY DEF Nice
<1> DEFINE marks == [p \in DOMAIN given |-> <<"*", "/">>]
<1>11. marks \in [DOMAIN given -> {<<>>, <<"*", "/">>}]
  OBVIOUS
<1>12. Macro!KeptWith(marks) = Macro!Seqs!FlattenSeq(Keeps)
  <2>1. \A p \in DOMAIN given :
          (IF given[p] = "block" THEN marks[p] ELSE Macro!Kept(given[p])) = Remains(given[p])
    BY DEF Remains
  <2>2. [p \in DOMAIN given |-> IF given[p] = "block" THEN marks[p] ELSE Macro!Kept(given[p])]
          = Keeps
    BY <2>1 DEF Keeps
  <2> QED BY <2>2 DEF Macro!KeptWith
<1> HIDE DEF marks
<1>13. Nice /\ phase = "done" =>
         \E m \in [DOMAIN given -> {<<>>, <<"*", "/">>}] : out = Macro!KeptWith(m)
  BY <1>8, <1>11, <1>12
<1> QED BY <1>2, <1>3, <1>8, <1>9, <1>10, <1>13 DEF Macro!ScansLikeC, Subs, Subst

(* Whatever pieces a text is put together from, as many as there are: what *)
(* is left of a piece does not depend on where it stands, and of a comment *)
(* at most the mark that ends it is left; the macros are applied in order, *)
(* and the loop gets past the end of the text only if the last piece is    *)
(* open.                                                                   *)
THEOREM TextsAreScanned == Spec => []ScansLikeC
<1> DEFINE Inv == program = "macros" => MacroInv
<1>1. Init => Inv
  BY MacroInvInit DEF Init, Start, Is
<1>2. Inv /\ [Next]_vars => Inv'
  <2>1. SUFFICES ASSUME Inv, [Next]_vars, program' = "macros" PROVE MacroInv'
    OBVIOUS
  <2>2. program = "macros" /\ (Macro!Next \/ UNCHANGED macroVars)
    BY <2>1 DEF Next, vars, Sorting, Converting, Grading, Reading, Preprocessing, Tabling
  <2> QED BY <2>1, <2>2, MacroInvStep
<1>3. Inv => ScansLikeC
  BY MacroInvIsEnough DEF ScansLikeC
<1> QED BY <1>1, <1>2, <1>3, PTL DEF Spec

=============================================================================
