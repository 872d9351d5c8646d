--------------------------- MODULE SmallHashtable ---------------------------
(***************************************************************************)
(* The table of small_hashtable.c: SIZE slots, each empty or leading to a  *)
(* pair of a key and a value, found by probing one slot after the other.   *)
(* What was set in it is kept beside it, and the table is asked for it.    *)
(***************************************************************************)
EXTENDS Integers, FiniteSets

CONSTANTS
  SIZE,     (* 1024: a power of two                                         *)
  Keys,
  Vals,
  Empty     (* a null pointer in a slot                                     *)

VARIABLES
  tab, state,
  contents    (* what was set last for each key: key and value              *)

Slots == 0 .. SIZE - 1

(* The turns the loop of hget makes for a key before the loop ends. Some   *)
(* number below SIZE ends it, or it goes round for ever.                   *)
Probe(key, i) == (key + i) % SIZE

(* A mutant: the places of the keys are compared, not the keys.            *)
EndsAtSamePlace(key, i) ==
  LET e == tab[Probe(key, i)] IN e = Empty \/ e.key % SIZE = key % SIZE

Ends(key, i) == tab[Probe(key, i)] = Empty \/ tab[Probe(key, i)].key = key

Hangs(key) == \A i \in Slots : ~Ends(key, i)

(* hget. & (SIZE - 1) is % SIZE, for negative keys also.                   *)
Hget(key) == Probe(key, CHOOSE i \in Slots : Ends(key, i) /\ \A j \in 0 .. i - 1 : ~Ends(key, j))

(* hnew.                                                                   *)
Init ==
  /\ tab = [h \in Slots |-> Empty]
  /\ state = "running"
  /\ contents = {}

Hset(key, val) ==
  /\ state = "running"
  /\ IF Hangs(key)
     THEN state' = "hangs" /\ UNCHANGED <<tab, contents>>
     ELSE /\ tab' = [tab EXCEPT ![Hget(key)] = [key |-> key, val |-> val]]
          /\ contents' = {e \in contents : e[1] # key} \cup {<<key, val>>}
          /\ UNCHANGED state

(* hdel.                                                                   *)
Hdel ==
  /\ state = "running"
  /\ tab' = [h \in Slots |-> Empty]
  /\ state' = "deleted"
  /\ UNCHANGED contents

Next == Hdel \/ \E key \in Keys, val \in Vals : Hset(key, val)

-----------------------------------------------------------------------------

In == {e[1] : e \in contents}

(* hget finds the value last set for a key, past the keys that took its    *)
(* slot, and an empty slot for a key never set. It runs for ever only when *)
(* all slots are taken by other keys.                                      *)
TableFinds ==
  state # "deleted" =>
    /\ \A e \in contents : tab[Hget(e[1])] = [key |-> e[1], val |-> e[2]]
    /\ \A k \in Keys \ In :
         IF Cardinality(In) = SIZE THEN Hangs(k) ELSE tab[Hget(k)] = Empty
    /\ state = "hangs" => Cardinality(In) = SIZE

=============================================================================
