------------------------ MODULE SplitOrderDoubling ------------------------
(***************************************************************************)
(* A key in a table that doubles again and again (lock_free_hashtable.c):  *)
(* where the codes of SplitOrder put its node among the dummy nodes.       *)
(***************************************************************************)
EXTENDS SplitOrder

VARIABLES
  hash,   (* the hash of the key                                            *)
  log     (* the table has 2^log buckets                                    *)

vars == <<hash, log>>

Size      == 2 ^ log
Bucket(h) == h % Size

Init == hash \in Word /\ log = 0

(* hashtable_resize: size << 1. The loop of hashtable_bucket_parent looks  *)
(* at all bits of a bucket number, but codes of dummy nodes drop the top   *)
(* bit of a word.                                                          *)
Double ==
  /\ log < Width - 1
  /\ log' = log + 1
  /\ UNCHANGED hash

Spec == Init /\ [][Double]_vars

(* A search for a key that starts at its bucket's dummy node meets its     *)
(* node before any other bucket's dummy node: "the places within the list  *)
(* where a sublist of items that are part of that bucket can be found".    *)
InOwnSublist ==
  LET code  == RegularCode(hash)
      start == DummyCode(Bucket(hash))
  IN
  /\ start < code
  /\ \A b \in 0 .. (Size - 1) : DummyCode(b) \notin (start + 1) .. code

(* When the table doubles, a key's bucket stays or is a new one whose      *)
(* parent was the key's bucket: the new bucket's dummy node is inserted    *)
(* into the sublist that holds the keys it takes over, behind the parent's *)
(* dummy node.                                                             *)
SplitFromParent ==
  [][LET old == Bucket(hash)
         new == Bucket(hash)'
     IN new # old => /\ Parent(new) = old
                     /\ DummyCode(old) < DummyCode(new)]_vars

=============================================================================
