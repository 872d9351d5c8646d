------------------------------ MODULE LruCache ------------------------------
(***************************************************************************)
(* What an LRU set promises: it holds at most max keys, a key that is      *)
(* used becomes the youngest, and only the oldest key ever leaves.         *)
(*                                                                         *)
(* The age of a key is the number of keys used since it was used last.     *)
(***************************************************************************)
EXTENDS Integers

CONSTANT Keys

(* The age of a key that is not in the set.                                *)
NoAge == -1

VARIABLES
  age,    (* of every key                                                   *)
  max     (* the capacity                                                   *)

vars == <<age, max>>

(* The ages after k was used. Whatever was younger than k is one older, as *)
(* is everything when k is new.                                            *)
Used(a, k) ==
  [j \in Keys |->
     IF j = k THEN 0
     ELSE IF a[j] # NoAge /\ (a[k] = NoAge \/ a[j] < a[k]) THEN a[j] + 1
     ELSE a[j]]

IsOldest(k) == age[k] # NoAge /\ \A j \in Keys : age[j] <= age[k]

(* Ages have no gaps: the set is full when a key has the last age there is. *)
Full == \E k \in Keys : age[k] + 1 >= max /\ age[k] # NoAge

Init ==
  /\ age = [k \in Keys |-> NoAge]
  /\ max \in Nat

Touch(k) ==
  /\ age[k] # NoAge
  /\ age' = Used(age, k)

Add(k) ==
  /\ age[k] = NoAge
  /\ ~Full
  /\ age' = Used(age, k)

Replace(k) ==
  /\ age[k] = NoAge
  /\ Full
  /\ \E o \in Keys : IsOldest(o) /\ age' = Used([age EXCEPT ![o] = NoAge], k)

Drop ==
  \E o \in Keys : IsOldest(o) /\ age' = [age EXCEPT ![o] = NoAge]

Next ==
  /\ \/ \E k \in Keys : Touch(k) \/ Add(k) \/ Replace(k)
     \/ Drop
  /\ UNCHANGED max

Spec == Init /\ [][Next]_vars

=============================================================================
