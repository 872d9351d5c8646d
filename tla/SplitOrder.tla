----------------------------- MODULE SplitOrder -----------------------------
(***************************************************************************)
(* The arithmetic of recursive split-ordering (lock_free_hashtable.c): how *)
(* a key is hashed, how a hash becomes the sort code of a regular node, a  *)
(* bucket number the sort code of its dummy node, and which bucket is the  *)
(* parent of another.  Words are Width bits wide; the program has 32.  It  *)
(* keeps hashes in a size_t, but only their low 32 bits matter: codes take *)
(* no others, and bucket numbers are taken modulo a power of two. Codes    *)
(* are exact reversals, as they are where a long has 64 bits (BitReversal).*)
(***************************************************************************)
EXTENDS Integers

CONSTANTS
  Width,      (* bits of a code: 32 in the source                           *)
  HashMul     (* the golden-ratio multiplier 2654435761, modulo 2^Width     *)

(* 2^(Width-1): the top bit of a word, 0x80000000 in the source.           *)
Half == 2 ^ (Width - 1)

Word == 0 .. (2 * Half - 1)

(* The multiplier is odd, so hashing is a bijection on words.              *)
ASSUME WidthAssumption ==
  /\ Width \in Nat \ {0}
  /\ HashMul \in Nat
  /\ HashMul % 2 = 1

Bit(w, i) == (w \div 2 ^ i) % 2

(* r holds the bits of k in the opposite order.                            *)
IsReversal(k, r) ==
  \A i \in 0 .. (Width - 1) : Bit(r, Width - 1 - i) = Bit(k, i)

(* hashtable_rvalue: the bit reversal of every word.                       *)
Reversed == [k \in Word |-> CHOOSE r \in Word : IsReversal(k, r)]

Hash(k) == (k * HashMul) % (2 * Half)

(* A mutant: the top bit is not set.                                       *)
UntaggedCode(h) == Reversed[h % Half]

(* k | 0x80000000, reversed: the code of a node that holds a key is odd.   *)
RegularCode(h) == Reversed[(h % Half) + Half]

(* k & 0x7fffffff, reversed: the code of a bucket's dummy node is even.    *)
DummyCode(b) == Reversed[b % Half]

IsRegular(code) == code % 2 = 1

(* A mutant: the lowest bit of the bucket number is cleared.               *)
EvenBucket(b) == b - (b % 2)

(* hashtable_bucket_parent: clear the highest set bit. The loop does not   *)
(* end for bucket 0, which has none; LockFreeHashtable's BucketZeroReady   *)
(* is that it is never asked for.                                          *)
Parent(b) ==
  IF \E p \in 0 .. b : \E i \in 0 .. (Width - 1) : p < 2 ^ i /\ b = p + 2 ^ i
  THEN CHOOSE p \in 0 .. b : \E i \in 0 .. (Width - 1) : p < 2 ^ i /\ b = p + 2 ^ i
  ELSE 0

=============================================================================
