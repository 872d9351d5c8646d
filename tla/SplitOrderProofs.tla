-------------------------- MODULE SplitOrderProofs --------------------------
(***************************************************************************)
(* Proofs about the reversal of words as lock_free_hashtable.c computes    *)
(* it, for every word of 32 bits, and about a key in a table that doubles, *)
(* for words of every width.                                               *)
(***************************************************************************)
EXTENDS MCSplitOrder, SplitOrderCodes

-----------------------------------------------------------------------------
(* The reversal of a word.                                                 *)

(* The products of the byte macros shift copies of the byte so far apart   *)
(* that no two of them overlap: the unions by which BitReversal models the *)
(* products are sums. And no two bits left by the second mask have the     *)
(* same rest modulo 10.                                                    *)
LEMMA ProductsCarryFree == Loop!CarryFree
<1> SUFFICES ASSUME NEW b \in Loop!Byte
             PROVE  /\ ~Loop!Overlaps(b, {1, 11}) /\ ~Loop!Overlaps(b, {5, 15})
                    /\ ~Loop!Overlaps(Loop!Spread32(b), {0, 8, 16})
                    /\ ~Loop!Overlaps(b, {1, 9, 17, 25, 33})
                    /\ \A m, n \in Loop!Spread64(b) : m # n => m % 10 # n % 10
  BY DEF Loop!CarryFree
<1>1. \A c \in b : c \in 0 .. 7
  BY DEF Loop!Byte
<1>2. ~Loop!Overlaps(b, {1, 11}) /\ ~Loop!Overlaps(b, {5, 15})
  BY <1>1 DEF Loop!Overlaps, Loop!ShiftLeft
<1>3. ~Loop!Overlaps(b, {1, 9, 17, 25, 33})
  BY <1>1 DEF Loop!Overlaps, Loop!ShiftLeft
<1>4. ~Loop!Overlaps(Loop!Spread32(b), {0, 8, 16})
  <2>1. Loop!Spread32(b) \subseteq {4, 6, 8, 10, 13, 15, 17, 19}
    BY DEF Loop!Spread32
  <2> QED BY <2>1 DEF Loop!Overlaps, Loop!ShiftLeft
<1>5. \A m, n \in Loop!Spread64(b) : m # n => m % 10 # n % 10
  <2>1. Loop!Spread64(b) \subseteq {4, 13, 17, 22, 26, 31, 35, 40}
    BY DEF Loop!Spread64
  <2> QED BY <2>1
<1> QED BY <1>2, <1>3, <1>4, <1>5

(* A copy of a byte in a product.                                          *)
LEMMA ProductBit ==
  ASSUME NEW b \in SUBSET Nat, NEW m \in SUBSET Nat, NEW x
  PROVE  x \in Loop!Times(b, m) <=> \E n \in m : \E c \in b : x = c + n
BY DEF Loop!Times, Loop!ShiftLeft

(* The macro for 64-bit longs moves bit c of a byte to bit 7 - c.          *)
LEMMA Byte64Reverses ==
  ASSUME NEW b \in SUBSET (0 .. 7)
  PROVE  Loop!Byte64(b) = {7 - c : c \in b}
<1> DEFINE M == {4, 13, 17, 22, 26, 31, 35, 40}
<1>1. \A c \in b : c \in 0 .. 7
  OBVIOUS
<1>2. \A x : x \in Loop!Spread64(b) <=>
             \/ (x = 4 /\ 3 \in b) \/ (x = 13 /\ 4 \in b) \/ (x = 17 /\ 0 \in b)
             \/ (x = 22 /\ 5 \in b) \/ (x = 26 /\ 1 \in b) \/ (x = 31 /\ 6 \in b)
             \/ (x = 35 /\ 2 \in b) \/ (x = 40 /\ 7 \in b)
  <2> TAKE x
  <2>1. x \in Loop!Times(b, {1, 9, 17, 25, 33})
        <=> \E n \in {1, 9, 17, 25, 33} : \E c \in b : x = c + n
    <3> DEFINE S == {1, 9, 17, 25, 33}
    <3>1. b \in SUBSET Nat /\ S \in SUBSET Nat
      BY <1>1
    <3> HIDE DEF S
    <3>2. x \in Loop!Times(b, S) <=> \E n \in S : \E c \in b : x = c + n
      BY <3>1, ProductBit
    <3> QED BY <3>2 DEF S
  <2>2. x \in Loop!Spread64(b) <=> x \in Loop!Times(b, {1, 9, 17, 25, 33}) /\ x \in M
    BY DEF Loop!Spread64
  <2> QED BY <1>1, <2>1, <2>2
<1>3. \A y : y \in Loop!Byte64(b) <=>
             \/ (y = 4 /\ 3 \in b) \/ (y = 3 /\ 4 \in b) \/ (y = 7 /\ 0 \in b)
             \/ (y = 2 /\ 5 \in b) \/ (y = 6 /\ 1 \in b) \/ (y = 1 /\ 6 \in b)
             \/ (y = 5 /\ 2 \in b) \/ (y = 0 /\ 7 \in b)
  BY <1>2 DEF Loop!Byte64
<1>4. \A y : (\E c \in b : y = 7 - c) <=>
             \/ (y = 4 /\ 3 \in b) \/ (y = 3 /\ 4 \in b) \/ (y = 7 /\ 0 \in b)
             \/ (y = 2 /\ 5 \in b) \/ (y = 6 /\ 1 \in b) \/ (y = 1 /\ 6 \in b)
             \/ (y = 5 /\ 2 \in b) \/ (y = 0 /\ 7 \in b)
  BY <1>1
<1> QED BY <1>3, <1>4

(* The bits that the masks of the macro for 32-bit longs leave.            *)
LEMMA Spread32Bits ==
  ASSUME NEW b \in SUBSET (0 .. 7)
  PROVE  \A x : x \in Loop!Spread32(b) <=>
             \/ (x = 4 /\ 3 \in b) \/ (x = 8 /\ 7 \in b) \/ (x = 13 /\ 2 \in b)
             \/ (x = 17 /\ 6 \in b) \/ (x = 6 /\ 1 \in b) \/ (x = 10 /\ 5 \in b)
             \/ (x = 15 /\ 0 \in b) \/ (x = 19 /\ 4 \in b)
<1>1. \A c \in b : c \in 0 .. 7
  OBVIOUS
<1> TAKE x
<1>2. x \in Loop!Times(b, {1, 11}) <=> \E n \in {1, 11} : \E c \in b : x = c + n
  <2> DEFINE S == {1, 11}
  <2>1. b \in SUBSET Nat /\ S \in SUBSET Nat
    BY <1>1
  <2> HIDE DEF S
  <2>2. x \in Loop!Times(b, S) <=> \E n \in S : \E c \in b : x = c + n
    BY <2>1, ProductBit
  <2> QED BY <2>2 DEF S
<1>3. x \in Loop!Times(b, {5, 15}) <=> \E n \in {5, 15} : \E c \in b : x = c + n
  <2> DEFINE S == {5, 15}
  <2>1. b \in SUBSET Nat /\ S \in SUBSET Nat
    BY <1>1
  <2> HIDE DEF S
  <2>2. x \in Loop!Times(b, S) <=> \E n \in S : \E c \in b : x = c + n
    BY <2>1, ProductBit
  <2> QED BY <2>2 DEF S
<1>4. x \in Loop!Spread32(b) <=> \/ x \in Loop!Times(b, {1, 11}) /\ x \in {4, 8, 13, 17}
                                 \/ x \in Loop!Times(b, {5, 15}) /\ x \in {6, 10, 15, 19}
  BY DEF Loop!Spread32
<1> QED BY <1>1, <1>2, <1>3, <1>4

(* The bits of that macro's product, shifted back, above the byte too.     *)
LEMMA Byte32Bits ==
  ASSUME NEW b \in SUBSET (0 .. 7), NEW width \in {32, 64}
  PROVE  \A y : y \in Loop!Byte32(b, width) <=>
             /\ y \in 0 .. (width - 17)
             /\ \E n \in {0, 8, 16} : \E x \in Loop!Spread32(b) : y = x + n - 16
<1> TAKE y
<1> DEFINE B == Loop!Spread32(b)
           P == Loop!Times(B, {0, 8, 16})
<1>1. y \in Loop!Byte32(b, width) <=> \E z \in P : z \in 16 .. (width - 1) /\ y = z - 16
  BY DEF Loop!Byte32, Loop!ShiftRight, Loop!Cut
<1>2. \A x \in B : x \in 0 .. 19
  BY Spread32Bits
<1>3. \A z : z \in P <=> \E n \in {0, 8, 16} : \E x \in B : z = x + n
  <2> DEFINE S == {0, 8, 16}
  <2>1. B \in SUBSET Nat /\ S \in SUBSET Nat
    BY <1>2
  <2> HIDE DEF S, B
  <2>2. \A z : z \in Loop!Times(B, S) <=> \E n \in S : \E x \in B : z = x + n
    BY <2>1, ProductBit
  <2> QED BY <2>2 DEF S
<1>4. \A z \in P : z \in Nat
  BY <1>2, <1>3
<1> HIDE DEF P
<1>5. (\E z \in P : z \in 16 .. (width - 1) /\ y = z - 16)
      <=> (y \in 0 .. (width - 17) /\ y + 16 \in P)
  BY <1>4
<1>6. y \in 0 .. (width - 17) =>
        (y + 16 \in P <=> \E n \in {0, 8, 16} : \E x \in B : y = x + n - 16)
  <2>1. y + 16 \in P <=> \E n \in {0, 8, 16} : \E x \in B : y + 16 = x + n
    BY <1>3
  <2>2. \A x \in B : x \in Int
    BY <1>2
  <2> HIDE DEF B
  <2>3. y \in 0 .. (width - 17) =>
          ((\E n \in {0, 8, 16} : \E x \in B : y + 16 = x + n)
           <=> \E n \in {0, 8, 16} : \E x \in B : y = x + n - 16)
    BY <2>2
  <2> QED BY <2>1, <2>3
<1> QED BY <1>1, <1>5, <1>6

(* Its low byte is the byte reversed, and bit 0 comes of bit 7 alone.      *)
LEMMA Byte32Reverses ==
  ASSUME NEW b \in SUBSET (0 .. 7), NEW width \in {32, 64}
  PROVE  Loop!LowByte(Loop!Byte32(b, width)) = {7 - c : c \in b}
<1>1. \A c \in b : c \in 0 .. 7
  OBVIOUS
<1>2. \A y : y \in Loop!LowByte(Loop!Byte32(b, width)) <=>
             y \in 0 .. 7 /\ \E n \in {0, 8, 16} : \E x \in Loop!Spread32(b) : y = x + n - 16
  BY Byte32Bits DEF Loop!LowByte
<1>3. \A y : y \in Loop!LowByte(Loop!Byte32(b, width)) <=>
             \/ (y = 4 /\ 3 \in b) \/ (y = 3 /\ 4 \in b) \/ (y = 7 /\ 0 \in b)
             \/ (y = 2 /\ 5 \in b) \/ (y = 6 /\ 1 \in b) \/ (y = 1 /\ 6 \in b)
             \/ (y = 5 /\ 2 \in b) \/ (y = 0 /\ 7 \in b)
  <2> HIDE <1>1
  <2> QED BY <1>2, Spread32Bits
<1>4. \A y : (\E c \in b : y = 7 - c) <=>
             \/ (y = 4 /\ 3 \in b) \/ (y = 3 /\ 4 \in b) \/ (y = 7 /\ 0 \in b)
             \/ (y = 2 /\ 5 \in b) \/ (y = 6 /\ 1 \in b) \/ (y = 1 /\ 6 \in b)
             \/ (y = 5 /\ 2 \in b) \/ (y = 0 /\ 7 \in b)
  BY <1>1
<1> QED BY <1>3, <1>4

(* More bits in, more bits out, none of them below 0.                      *)
LEMMA Byte32Grows ==
  ASSUME NEW b \in SUBSET (0 .. 7), NEW d \in SUBSET (0 .. 7), NEW width \in {32, 64}, b \subseteq d
  PROVE  Loop!Byte32(b, width) \subseteq Loop!Byte32(d, width)
<1>1. Loop!Spread32(b) \subseteq Loop!Spread32(d)
  BY Spread32Bits
<1> QED BY <1>1, Byte32Bits

(* hashtable_rvalue moves bit n of a word to bit 31 - n.                   *)
LEMMA RvalueReverses ==
  ASSUME NEW w \in SUBSET (0 .. 31)
  PROVE  Loop!Rvalue(w) = {31 - n : n \in w}
<1> DEFINE Low(p) == Loop!LowByte(Loop!ShiftRight(w, p))
<1>1. ASSUME NEW p \in {0, 8, 16, 24}
      PROVE  /\ Low(p) \in SUBSET (0 .. 7)
             /\ \A c : c \in Low(p) <=> c \in 0 .. 7 /\ c + p \in w
  BY DEF Loop!LowByte, Loop!ShiftRight
<1>2. ASSUME NEW p \in {0, 8, 16, 24}
      PROVE  \A y : y \in Loop!ShiftLeft(Loop!Byte64(Low(p)), 24 - p)
                    <=> \E c \in 0 .. 7 : c + p \in w /\ y = 31 - (c + p)
  <2>1. Loop!Byte64(Low(p)) = {7 - c : c \in Low(p)}
    BY <1>1, Byte64Reverses
  <2> HIDE DEF Low
  <2>2. \A y : y \in Loop!ShiftLeft(Loop!Byte64(Low(p)), 24 - p)
               <=> \E c \in Low(p) : y = (7 - c) + (24 - p)
    BY <2>1 DEF Loop!ShiftLeft
  <2>3. \A y : (\E c \in Low(p) : y = (7 - c) + (24 - p))
               <=> \E c \in 0 .. 7 : c + p \in w /\ y = (7 - c) + (24 - p)
    BY <1>1
  <2>4. \A c \in 0 .. 7 : (7 - c) + (24 - p) = 31 - (c + p)
    OBVIOUS
  <2> QED BY <2>2, <2>3, <2>4
<1> HIDE DEF Low
<1>3. \A y : y \in Loop!Rvalue(w)
             <=> y \in 0 .. 31 /\ \E p \in {0, 8, 16, 24} : \E c \in 0 .. 7 : c + p \in w /\ y = 31 - (c + p)
  <2>1. \A y : y \in Loop!Rvalue(w)
               <=> y \in 0 .. 31
                   /\ \E p \in {0, 8, 16, 24} : y \in Loop!ShiftLeft(Loop!Byte64(Low(p)), 24 - p)
    BY DEF Loop!Rvalue, Loop!Truncated, Loop!Place, Low
  <2> QED BY <1>2, <2>1
<1>4. \A n \in w : \E p \in {0, 8, 16, 24} : \E c \in 0 .. 7 : n = c + p
  <2> TAKE n \in w
  <2>1. n - 8 * (n \div 8) \in 0 .. 7 /\ 8 * (n \div 8) \in {0, 8, 16, 24}
    OBVIOUS
  <2> QED BY <2>1
<1>5. \A y : y \in Loop!Rvalue(w) <=> \E n \in w : y = 31 - n
  BY <1>3, <1>4
<1> QED BY <1>5

(* The bits of one byte of a word.                                         *)
LEMMA ByteOf ==
  ASSUME NEW w \in SUBSET (0 .. 31), NEW p \in {0, 8, 16, 24}
  PROVE  /\ Loop!LowByte(Loop!ShiftRight(w, p)) \in SUBSET (0 .. 7)
         /\ \A c : c \in Loop!LowByte(Loop!ShiftRight(w, p)) <=> c \in 0 .. 7 /\ c + p \in w
BY DEF Loop!LowByte, Loop!ShiftRight

(* Where longs have 32 bits, the bits of the word come from its bytes.     *)
LEMMA Rvalue32Bits ==
  ASSUME NEW w \in SUBSET (0 .. 31), NEW width \in {32, 64}
  PROVE  \A y : y \in Loop!Rvalue32(w, width) <=>
             /\ y \in 0 .. (width - 1)
             /\ \E p \in {0, 8, 16, 24} :
                  \E x \in Loop!Byte32(Loop!LowByte(Loop!ShiftRight(w, p)), width) : y = x + (24 - p)
BY DEF Loop!Rvalue32, Loop!Cut, Loop!Place, Loop!ShiftLeft

(* Of more bits come more, too; ...                                        *)
LEMMA Rvalue32Grows ==
  ASSUME NEW v \in SUBSET (0 .. 31), NEW w \in SUBSET (0 .. 31), NEW width \in {32, 64}, v \subseteq w
  PROVE  Loop!Rvalue32(v, width) \subseteq Loop!Rvalue32(w, width)
<1>1. ASSUME NEW p \in {0, 8, 16, 24}
      PROVE  Loop!Byte32(Loop!LowByte(Loop!ShiftRight(v, p)), width)
               \subseteq Loop!Byte32(Loop!LowByte(Loop!ShiftRight(w, p)), width)
  <2> DEFINE b == Loop!LowByte(Loop!ShiftRight(v, p))
             d == Loop!LowByte(Loop!ShiftRight(w, p))
  <2>1. b \in SUBSET (0 .. 7) /\ d \in SUBSET (0 .. 7) /\ b \subseteq d
    BY ByteOf
  <2> HIDE DEF b, d
  <2>2. Loop!Byte32(b, width) \subseteq Loop!Byte32(d, width)
    BY <2>1, Byte32Grows
  <2> QED BY <2>2 DEF b, d
<1> QED BY <1>1, Rvalue32Bits

(* ... the reference's are among them; ...                                 *)
LEMMA Rvalue32Reverses ==
  ASSUME NEW w \in SUBSET (0 .. 31), NEW width \in {32, 64}, NEW n \in w
  PROVE  31 - n \in Loop!Rvalue32(w, width)
<1> DEFINE c == n - 8 * (n \div 8)
           p == 8 * (n \div 8)
           b == Loop!LowByte(Loop!ShiftRight(w, p))
<1>1. c \in 0 .. 7 /\ p \in {0, 8, 16, 24} /\ n = c + p /\ n \in 0 .. 31
  OBVIOUS
<1> HIDE DEF c, p
<1>2. b \in SUBSET (0 .. 7) /\ c \in b
  BY <1>1, ByteOf
<1> HIDE DEF b
<1>3. 7 - c \in Loop!LowByte(Loop!Byte32(b, width))
  BY <1>2, Byte32Reverses
<1>4. 7 - c \in Loop!Byte32(b, width)
  BY <1>3 DEF Loop!LowByte
<1>5. 31 - n = (7 - c) + (24 - p) /\ 31 - n \in 0 .. (width - 1)
  BY <1>1
<1> QED BY <1>1, <1>4, <1>5, Rvalue32Bits DEF b

(* ... and bit 0 comes of bit 31 alone.                                    *)
LEMMA Rvalue32Even ==
  ASSUME NEW w \in SUBSET (0 .. 31), NEW width \in {32, 64}, 31 \notin w
  PROVE  0 \notin Loop!Rvalue32(w, width)
<1> SUFFICES ASSUME 0 \in Loop!Rvalue32(w, width) PROVE FALSE
  OBVIOUS
<1> PICK p \in {0, 8, 16, 24} :
           \E x \in Loop!Byte32(Loop!LowByte(Loop!ShiftRight(w, p)), width) : 0 = x + (24 - p)
  BY Rvalue32Bits
<1> DEFINE b == Loop!LowByte(Loop!ShiftRight(w, p))
<1>1. b \in SUBSET (0 .. 7) /\ \A c : c \in b <=> c \in 0 .. 7 /\ c + p \in w
  BY ByteOf
<1>2. \E x \in Loop!Byte32(b, width) : 0 = x + (24 - p)
  OBVIOUS
<1> HIDE DEF b
<1>3. \A x \in Loop!Byte32(b, width) : x \in 0 .. (width - 17)
  BY <1>1, Byte32Bits
<1>4. p = 24 /\ 0 \in Loop!Byte32(b, width)
  BY <1>2, <1>3
<1>5. 0 \in Loop!LowByte(Loop!Byte32(b, width))
  BY <1>4 DEF Loop!LowByte
<1>6. 0 \in {7 - c : c \in b}
  BY <1>1, <1>5, Byte32Reverses
<1>7. 7 \in b
  BY <1>1, <1>6
<1> QED BY <1>1, <1>4, <1>7

(* The numbers of one byte: what leaks is above the word.                  *)
LEMMA Rvalue32OfByte ==
  ASSUME NEW w \in SUBSET (0 .. 7), NEW width \in {32, 64}
  PROVE  Loop!Truncated(Loop!Rvalue32(w, width)) = {31 - n : n \in w}
<1>1. w \in SUBSET (0 .. 31)
  OBVIOUS
<1>2. ASSUME NEW y \in Loop!Rvalue32(w, width), y \in 0 .. 31
      PROVE  \E n \in w : y = 31 - n
  <2> PICK p \in {0, 8, 16, 24} :
             \E x \in Loop!Byte32(Loop!LowByte(Loop!ShiftRight(w, p)), width) : y = x + (24 - p)
    BY <1>1, <1>2, Rvalue32Bits
  <2> DEFINE b == Loop!LowByte(Loop!ShiftRight(w, p))
  <2>1. b \in SUBSET (0 .. 7) /\ \A c : c \in b <=> c \in 0 .. 7 /\ c + p \in w
    BY <1>1, ByteOf
  <2> PICK x \in Loop!Byte32(b, width) : y = x + (24 - p)
    OBVIOUS
  <2> HIDE DEF b
  <2>2. x \in 0 .. (width - 17) /\ \E z \in Loop!Spread32(b) : TRUE
    BY <2>1, Byte32Bits
  <2>3. \E c \in 0 .. 7 : c \in b
    BY <2>1, <2>2, Spread32Bits
  <2>4. p = 0
    BY <2>1, <2>3
  <2>5. x \in 0 .. 7
    BY <1>2, <2>2, <2>4
  <2>6. x \in Loop!LowByte(Loop!Byte32(b, width))
    BY <2>5 DEF Loop!LowByte
  <2>7. PICK c \in b : x = 7 - c
    BY <2>1, <2>6, Byte32Reverses
  <2>8. c \in w /\ c \in 0 .. 7
    BY <2>1, <2>4, <2>7
  <2> QED BY <2>4, <2>7, <2>8
<1>3. \A n \in w : 31 - n \in Loop!Rvalue32(w, width) /\ 31 - n \in 0 .. 31
  BY <1>1, Rvalue32Reverses
<1> QED BY <1>2, <1>3 DEF Loop!Truncated

(* A set of bits that has all those of another, and bit 0 besides, is the  *)
(* larger number.                                                          *)
LEMMA MoreBitsAbove ==
  ASSUME NEW a, NEW b, a \subseteq b, 0 \in b, 0 \notin a
  PROVE  Loop!Below(a, b)
BY DEF Loop!Below

LEMMA KeysBehind ==
  ASSUME NEW w \in SUBSET (0 .. 31), NEW j \in 0 .. 31
  PROVE  LET bucket == Loop!Cut(w, j)
             tagged == w \cup {31}
         IN /\ Loop!Below(Loop!Rvalue(bucket), Loop!Rvalue(tagged))
            /\ \A width \in {32, 64} : Loop!Below(Loop!Rvalue32(bucket, width), Loop!Rvalue32(tagged, width))
<1> DEFINE bucket == Loop!Cut(w, j)
           tagged == w \cup {31}
<1>1. /\ bucket \in SUBSET (0 .. 31) /\ tagged \in SUBSET (0 .. 31) /\ bucket \subseteq tagged
      /\ 31 \in tagged /\ 31 \notin bucket
  BY DEF Loop!Cut
<1> HIDE DEF bucket, tagged
<1>2. Loop!Below(Loop!Rvalue(bucket), Loop!Rvalue(tagged))
  <2>1. /\ Loop!Rvalue(bucket) = {31 - n : n \in bucket}
        /\ Loop!Rvalue(tagged) = {31 - n : n \in tagged}
    BY <1>1, RvalueReverses
  <2>2. \A n \in bucket : n \in 0 .. 30
    BY <1>1
  <2>3. 0 \in Loop!Rvalue(tagged) /\ 0 \notin Loop!Rvalue(bucket)
    <3>1. \E n \in tagged : 0 = 31 - n
      BY <1>1
    <3> QED BY <2>1, <2>2, <3>1
  <2>4. Loop!Rvalue(bucket) \subseteq Loop!Rvalue(tagged)
    BY <1>1, <2>1
  <2> QED BY <2>3, <2>4, MoreBitsAbove
<1>3. ASSUME NEW width \in {32, 64}
      PROVE  Loop!Below(Loop!Rvalue32(bucket, width), Loop!Rvalue32(tagged, width))
  <2>1. Loop!Rvalue32(bucket, width) \subseteq Loop!Rvalue32(tagged, width)
    BY <1>1, Rvalue32Grows
  <2>2. 31 - 31 \in Loop!Rvalue32(tagged, width)
    BY <1>1, Rvalue32Reverses
  <2>3. 0 \notin Loop!Rvalue32(bucket, width)
    BY <1>1, Rvalue32Even
  <2> QED BY <2>1, <2>2, <2>3, MoreBitsAbove
<1> QED BY <1>2, <1>3 DEF bucket, tagged

(* What the reference loop has computed after i rounds.                    *)
LoopInv ==
  /\ k \in SUBSET (0 .. 31)
  /\ i \in 0 .. 32
  /\ r = {31 - n : n \in {m \in k : m < i}}

LEMMA LoopStart == Loop!Init => LoopInv
BY DEF Loop!Init, LoopInv

LEMMA LoopStep == LoopInv /\ Loop!Next => LoopInv'
<1> SUFFICES ASSUME LoopInv, Loop!Next PROVE LoopInv'
  OBVIOUS
<1>1. /\ k \in SUBSET (0 .. 31) /\ k' = k /\ i \in 0 .. 31 /\ i' = i + 1
      /\ r' = r \cup Loop!Moved(k, i) /\ r = {31 - n : n \in {m \in k : m < i}}
  BY DEF LoopInv, Loop!Next
<1>2. Loop!Moved(k, i) = {31 - n : n \in {m \in k : m = i}}
  <2>1. \A y : y \in Loop!ShiftRight(k \cap {i}, i) <=> i \in k /\ y = 0
    BY <1>1 DEF Loop!ShiftRight
  <2>2. \A y : y \in Loop!Moved(k, i) <=> \E z \in Loop!ShiftRight(k \cap {i}, i) : y = z + (31 - i)
    BY DEF Loop!Moved, Loop!ShiftLeft
  <2>3. \A y : y \in Loop!Moved(k, i) <=> i \in k /\ y = 31 - i
    BY <1>1, <2>1, <2>2
  <2> QED BY <2>3
<1>3. \A n \in k : n < i' <=> (n < i \/ n = i)
  BY <1>1
<1>4. r' = {31 - n : n \in {m \in k : m < i'}}
  BY <1>1, <1>2, <1>3
<1> QED BY <1>1, <1>4 DEF LoopInv

LEMMA LoopAgrees == LoopInv => Loop!AgreesWithReference /\ Loop!LeaksOnlyAdd /\ Loop!DummyFirst
<1> SUFFICES ASSUME LoopInv PROVE Loop!AgreesWithReference /\ Loop!LeaksOnlyAdd /\ Loop!DummyFirst
  OBVIOUS
<1>1. k \in SUBSET (0 .. 31)
  BY DEF LoopInv
<1>2. ASSUME i = 32 PROVE r = {31 - n : n \in k}
  <2>1. {m \in k : m < i} = k
    <3>1. \A m \in k : m \in 0 .. 31
      BY <1>1
    <3>2. \A m \in k : m < i
      BY <1>2, <3>1
    <3> QED BY <3>2
  <2> QED BY <2>1 DEF LoopInv
<1>3. Loop!AgreesWithReference
  BY <1>1, <1>2, RvalueReverses DEF Loop!AgreesWithReference
<1>4. ASSUME i = 32, NEW width \in {32, 64}
      PROVE  /\ r \subseteq Loop!Rvalue32(k, width)
             /\ k \in Loop!Byte => r = Loop!Truncated(Loop!Rvalue32(k, width))
  <2>1. r \subseteq Loop!Rvalue32(k, width)
    BY <1>1, <1>2, <1>4, Rvalue32Reverses
  <2>2. ASSUME k \in Loop!Byte PROVE r = Loop!Truncated(Loop!Rvalue32(k, width))
    <3>1. k \in SUBSET (0 .. 7)
      BY <2>2 DEF Loop!Byte
    <3> QED BY <1>2, <1>4, <3>1, Rvalue32OfByte
  <2> QED BY <2>1, <2>2
<1>5. Loop!LeaksOnlyAdd
  BY <1>4 DEF Loop!LeaksOnlyAdd
<1>6. Loop!DummyFirst
  BY <1>1, KeysBehind DEF Loop!DummyFirst
<1> QED BY <1>3, <1>5, <1>6

(* hashtable_rvalue: no product of either byte macro carries. For every    *)
(* word of 32 bits, the expression computes what the loop kept for         *)
(* reference computes, where longs have 64 bits. Where they have 32 it     *)
(* adds bits to that, and still puts each key behind its bucket's dummy    *)
(* node at every size of the table.                                        *)
THEOREM ReversalCorrect ==
  Loop!Spec => [](/\ Loop!CarryFree
                  /\ Loop!AgreesWithReference
                  /\ Loop!LeaksOnlyAdd
                  /\ Loop!DummyFirst)
<1>1. LoopInv /\ [Loop!Next]_(Loop!vars) => LoopInv'
  <2>1. LoopInv /\ UNCHANGED Loop!vars => LoopInv'
    BY DEF Loop!vars, LoopInv
  <2> QED BY <2>1, LoopStep
<1>2. LoopInv => Loop!CarryFree
  BY ProductsCarryFree
<1> QED BY LoopStart, <1>1, <1>2, LoopAgrees, PTL DEF Loop!Spec

(* The bits of a reversed word are those of the word, counted from the     *)
(* other end.                                                              *)
LEMMA ReversedBits ==
  ASSUME NEW w \in Word
  PROVE  Bits(Reversed[w]) = {Width - 1 - n : n \in Bits(w)}
<1>0. Width \in Nat \ {0}
  BY WidthAssumption
<1>1. \A n \in 0 .. (Width - 1) : Bit(Reversed[w], Width - 1 - n) = Bit(w, n)
  BY ReversalExists DEF IsReversal
<1>2. \A n \in 0 .. (Width - 1) : /\ Width - 1 - n \in 0 .. (Width - 1)
                                  /\ Width - 1 - (Width - 1 - n) = n
  BY <1>0
<1> QED BY <1>1, <1>2 DEF Bits

(* The computation of hashtable_rvalue is what SplitOrder defines its codes*)
(* by: for the program's words of 32 bits, and, byte by byte, for TLC's.   *)
THEOREM CodesAsComputed == MCSpec => []AgreesWithReference
<1> DEFINE MCInv == LoopInv /\ hash \in Word
<1>1. MCInit => MCInv
  BY LoopStart DEF MCInit, Init
<1>2. MCInv /\ [MCNext]_<<vars, k, i, r>> => MCInv'
  BY LoopStep DEF MCNext, Double, vars, LoopInv
<1>3. MCInv => AgreesWithReference
  <2> SUFFICES ASSUME LoopInv, hash \in Word PROVE AgreesWithReference
    OBVIOUS
  <2>1. Bits(Reversed[hash]) = {Width - 1 - n : n \in Bits(hash)}
    BY ReversedBits
  <2>2. ASSUME Width = 32 PROVE Bits(Reversed[hash]) = Loop!Rvalue(Bits(hash))
    <3>1. Bits(hash) \in SUBSET (0 .. 31) /\ Width - 1 = 31
      BY <2>2 DEF Bits
    <3> QED BY <2>1, <3>1, RvalueReverses
  <2>3. ASSUME Width = 8 PROVE Bits(Reversed[hash]) = Loop!Byte64(Bits(hash))
    <3>1. Bits(hash) \in SUBSET (0 .. 7) /\ Width - 1 = 7
      BY <2>3 DEF Bits
    <3> QED BY <2>1, <3>1, Byte64Reverses
  <2> QED BY <2>2, <2>3, LoopAgrees, ProductsCarryFree DEF AgreesWithReference
<1> QED BY <1>1, <1>2, <1>3, PTL DEF MCSpec

(* A search that begins at the dummy node of a key's bucket begins in front*)
(* of the key, whichever macro there is.                                   *)
THEOREM KeysBehindDummies == MCSpec => []DummyFirst
<1> DEFINE MCInv == LoopInv
<1>1. MCInit => MCInv
  BY LoopStart DEF MCInit
<1>2. MCInv /\ [MCNext]_<<vars, k, i, r>> => MCInv'
  BY LoopStep DEF MCNext, LoopInv
<1>3. MCInv => DummyFirst
  BY LoopAgrees DEF DummyFirst
<1> QED BY <1>1, <1>2, <1>3, PTL DEF MCSpec

-----------------------------------------------------------------------------
(* A table that doubles.                                                   *)

DoublingInv == hash \in Word /\ log \in 0 .. (Width - 1)

LEMMA DoublingInvariant == Spec => []DoublingInv
<1>1. Init => DoublingInv
  BY WidthAssumption DEF Init, DoublingInv
<1>2. DoublingInv /\ [Double]_vars => DoublingInv'
  BY WidthAssumption DEF DoublingInv, Double, vars
<1> QED BY <1>1, <1>2, PTL DEF Spec

(* Whatever the size of the table, a search that starts at the dummy node  *)
(* of a key's bucket meets the key before any other bucket's dummy node.   *)
THEOREM OwnSublist == Spec => []InOwnSublist
<1>1. DoublingInv => InOwnSublist
  <2> SUFFICES ASSUME DoublingInv PROVE InOwnSublist
    OBVIOUS
  <2>1. hash \in Nat /\ log \in 0 .. (Width - 1)
    BY WordIsPower DEF DoublingInv
  <2>2. DummyCode(hash % 2 ^ log) < RegularCode(hash)
    BY <2>1, StartBeforeKey
  <2>3. ASSUME NEW b \in 0 .. (2 ^ log - 1)
        PROVE  DummyCode(b) \notin (DummyCode(hash % 2 ^ log) + 1) .. RegularCode(hash)
    <3>1. DummyCode(b) <= DummyCode(hash % 2 ^ log) \/ RegularCode(hash) < DummyCode(b)
      BY <2>1, NoDummyBetween
    <3>2. b \in Nat /\ hash % 2 ^ log \in Nat
      BY <2>1, PowerPositive
    <3>3. DummyCode(b) \in Nat /\ DummyCode(hash % 2 ^ log) \in Nat /\ RegularCode(hash) \in Nat
      BY <2>1, <3>2, CodeKinds, WordIsPower
    <3> QED BY <3>1, <3>3
  <2> QED BY <2>2, <2>3 DEF InOwnSublist, Bucket, Size
<1> QED BY DoublingInvariant, <1>1, PTL

(* When the table doubles a key stays in its bucket, or moves to one that  *)
(* splits from it: the new bucket's parent is the old one, and its dummy   *)
(* node comes after the parent's.                                          *)
THEOREM SplitsFromParent == Spec => SplitFromParent
<1> DEFINE Splits == LET old == Bucket(hash)
                         new == Bucket(hash)'
                     IN new # old => /\ Parent(new) = old
                                     /\ DummyCode(old) < DummyCode(new)
<1>1. DoublingInv /\ Double => Splits
  <2> SUFFICES ASSUME DoublingInv, Double PROVE Splits
    OBVIOUS
  <2> DEFINE old == hash % 2 ^ log
             new == hash % 2 ^ (log + 1)
  <2>1. /\ hash \in Nat /\ log \in 0 .. (Width - 1) /\ log + 1 \in Nat /\ Width - 1 \in Nat
        /\ log + 1 <= Width - 1 /\ log' = log + 1 /\ hash' = hash /\ log \in Nat
    BY WordIsPower, WidthAssumption DEF DoublingInv, Double
  <2>2. Bucket(hash) = old /\ Bucket(hash)' = new
    BY <2>1 DEF Bucket, Size
  <2> SUFFICES ASSUME new # old PROVE Parent(new) = old /\ DummyCode(old) < DummyCode(new)
    BY <2>2
  <2>3. Parent(new) = old /\ new = old + 2 ^ log
    BY <2>1, BucketSplits
  <2>4. new \in 1 .. (Half - 1)
    <3> DEFINE c == 2 ^ log  d == 2 ^ (log + 1)
    <3>1. c \in Nat \ {0} /\ d \in Nat \ {0} /\ d <= Half /\ Half \in Nat
      BY <2>1, PowerPositive, PowerMonotone, WordIsPower DEF Half
    <3>2. old \in Nat /\ new \in 0 .. (d - 1)
      <4> HIDE DEF c, d
      <4>1. hash % c \in Nat /\ hash % d \in 0 .. (d - 1)
        BY <2>1, <3>1
      <4> QED BY <4>1 DEF c, d
    <3> HIDE DEF old, new, c, d
    <3>3. new = old + c
      BY <2>3 DEF c
    <3> QED BY <3>1, <3>2, <3>3
  <2> QED BY <2>3, <2>4, ParentBefore
<1>2. DoublingInv /\ [Double]_vars => [Splits]_vars
  BY <1>1
<1> QED BY DoublingInvariant, <1>2, PTL DEF Spec, SplitFromParent
=============================================================================
