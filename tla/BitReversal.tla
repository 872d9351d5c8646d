---------------------------- MODULE BitReversal ----------------------------
(***************************************************************************)
(* hashtable_rvalue of lock_free_hashtable.c: the two macros that reverse  *)
(* a byte with multiplications, the expression that puts the bytes of a    *)
(* word together, and the loop that is kept beside them "for reference".   *)
(*                                                                         *)
(* A word is the set of its bits that are set: | is \cup, & is \cap.       *)
(***************************************************************************)
EXTENDS Naturals

Byte == SUBSET (0 .. 7)

(* The places of the four bytes of a word.                                 *)
Place == {0, 8, 16, 24}

ShiftLeft(w, n)  == {b + n : b \in w}
ShiftRight(w, n) == {b - n : b \in {c \in w : c >= n}}

(* A word, or what is left of a number in that many bits.                  *)
Truncated(w)  == w \cap (0 .. 31)
Cut(w, width) == w \cap (0 .. width - 1)
LowByte(w)    == w \cap (0 .. 7)

(* The product with a constant is the sum of one shifted copy of w for     *)
(* each bit of the constant: their union, as no two of them overlap.       *)
Times(w, m) == UNION {ShiftLeft(w, n) : n \in m}

Overlaps(w, m) == \E n, p \in m : n # p /\ ShiftLeft(w, n) \cap ShiftLeft(w, p) # {}

(* A mutant: the first mask is 0x22010.                                    *)
MasksTooMuch(b) ==
  (Times(b, {1, 11}) \cap {4, 13, 17}) \cup (Times(b, {5, 15}) \cap {6, 10, 15, 19})

(* The two products in front of the masks 0x22110 and 0x88440, masked.     *)
Spread32(b) ==
  (Times(b, {1, 11}) \cap {4, 8, 13, 17}) \cup (Times(b, {5, 15}) \cap {6, 10, 15, 19})

(* The macro where longs have 32 bits; a size_t, in which it is evaluated, *)
(* has width. The product has bits above the byte, which nothing masks off.*)
Byte32(b, width) == ShiftRight(Cut(Times(Spread32(b), {0, 8, 16}), width), 16)

(* The product with 0x0202020202 and the mask 0x010884422010. As 2^10 is 1 *)
(* modulo 1023, the remainder moves bit n to n % 10, each to another.      *)
Spread64(b) == Times(b, {1, 9, 17, 25, 33}) \cap {4, 13, 17, 22, 26, 31, 35, 40}

(* A mutant: the modulus is 511.                                           *)
ModuloTooSmall(b) == {n % 9 : n \in Spread64(b)}

Byte64(b) == {n % 10 : n \in Spread64(b)}

(* What makes the unions above sums, and the remainder a permutation.      *)
CarryFree ==
  \A b \in Byte :
    /\ ~Overlaps(b, {1, 11}) /\ ~Overlaps(b, {5, 15}) /\ ~Overlaps(Spread32(b), {0, 8, 16})
    /\ ~Overlaps(b, {1, 9, 17, 25, 33})
    /\ \A m, n \in Spread64(b) : m # n => m % 10 # n % 10

(* hashtable_rvalue: byte p of the word goes to place 24 - p.              *)
Rvalue(k) ==
  Truncated(UNION {ShiftLeft(Byte64(LowByte(ShiftRight(k, p))), 24 - p) : p \in Place})

(* The same where longs have 32 bits. What a macro leaves above its byte   *)
(* gets into the bytes above, or above the word if size_t is wider.        *)
Rvalue32(k, width) ==
  Cut(UNION {ShiftLeft(Byte32(LowByte(ShiftRight(k, p)), width), 24 - p) : p \in Place}, width)

-----------------------------------------------------------------------------
VARIABLES
  k,    (* the argument                                                     *)
  i,    (* the reference loop's counter                                     *)
  r     (* its result so far                                                *)

vars == <<k, i, r>>

Init ==
  /\ k \in SUBSET (0 .. 31)
  /\ i = 0
  /\ r = {}

(* ((k & (1 << i)) >> i) << (31 - i)                                       *)
Moved(w, n) == ShiftLeft(ShiftRight(w \cap {n}, n), 31 - n)

Next ==
  /\ i < 32
  /\ i' = i + 1
  /\ r' = r \cup Moved(k, i)
  /\ UNCHANGED k

Spec == Init /\ [][Next]_vars

-----------------------------------------------------------------------------
(* Where longs have 64 bits, hashtable_rvalue computes with multiplications*)
(* and a remainder what the loop kept for reference computes bit by bit.   *)
AgreesWithReference == i = 32 => Rvalue(k) = r

(* Where they have 32 it does not: bits leak. But they are only added to   *)
(* the reference's, and numbers of one byte have none to add to.           *)
LeaksOnlyAdd ==
  i = 32 => \A width \in {32, 64} :
              /\ r \subseteq Rvalue32(k, width)
              /\ k \in Byte => r = Truncated(Rvalue32(k, width))

(* a < b, as numbers.                                                      *)
Below(a, b) == \E n \in b \ a : \A m \in a \ b : m < n

(* Whichever macro there is, the code of a key is above that of the dummy  *)
(* node of its bucket, at every size of the table, 2^j: the leaks cannot   *)
(* put a key in front of the node where the search for it begins.          *)
DummyFirst ==
  \A j \in 0 .. 31 :
    LET bucket == Cut(k, j)
        tagged == k \cup {31}
    IN /\ Below(Rvalue(bucket), Rvalue(tagged))
       /\ \A width \in {32, 64} : Below(Rvalue32(bucket, width), Rvalue32(tagged, width))

=============================================================================
