--------------------------- MODULE ConcurrentMap ---------------------------
(***************************************************************************)
(* What lock_free_hashtable.c promises its callers: a map that several     *)
(* threads may insert into, search and delete from at the same time, every *)
(* call taking effect at one instant between its start and its return.     *)
(*                                                                         *)
(* Successful insertions and deletions change the map in an action of      *)
(* their own.  The calls that change nothing may take effect at any        *)
(* instant that explains their result, so it is enough to know which       *)
(* values their key has had since they began.                              *)
(***************************************************************************)
EXTENDS Naturals

CONSTANTS Threads, Keys, Vals, NoVal

VARIABLES
  map,    (* the value of each key, or NoVal                                *)
  op,     (* the call each thread is in                                     *)
  seen,   (* the values its key has had since the call began                *)
  ret     (* the last call of each thread and its result                    *)

vars == <<map, op, seen, ret>>

NoOp == [kind |-> "none", key |-> 0, val |-> NoVal, done |-> FALSE, took |-> NoVal]

Init ==
  /\ map = [k \in Keys |-> NoVal]
  /\ op = [t \in Threads |-> NoOp]
  /\ seen = [t \in Threads |-> {}]
  /\ ret = [t \in Threads |-> [kind |-> "none", key |-> 0, out |-> NoVal]]

Call(t, kind, k, v) ==
  /\ op[t] = NoOp
  /\ op' = [op EXCEPT ![t] = [NoOp EXCEPT !.kind = kind, !.key = k, !.val = v]]
  /\ seen' = [seen EXCEPT ![t] = {map[k]}]
  /\ UNCHANGED <<map, ret>>

(* Every call in progress on key k sees the new value.                     *)
Witness(k, v) ==
  seen' = [u \in Threads |-> IF op[u].kind # "none" /\ op[u].key = k
                             THEN seen[u] \cup {v} ELSE seen[u]]

InsertTakesEffect(t) ==
  /\ op[t].kind = "insert"
  /\ ~op[t].done
  /\ map[op[t].key] = NoVal
  /\ map' = [map EXCEPT ![op[t].key] = op[t].val]
  /\ op' = [op EXCEPT ![t].done = TRUE]
  /\ Witness(op[t].key, op[t].val)
  /\ UNCHANGED ret

DeleteTakesEffect(t) ==
  /\ op[t].kind = "delete"
  /\ ~op[t].done
  /\ map[op[t].key] # NoVal
  /\ map' = [map EXCEPT ![op[t].key] = NoVal]
  /\ op' = [op EXCEPT ![t].done = TRUE, ![t].took = map[op[t].key]]
  /\ Witness(op[t].key, NoVal)
  /\ UNCHANGED ret

(* The results a call may return: 1 and 0 for an insertion that took place *)
(* or found the key present, the value or NoVal for the other two.         *)
Results(t) ==
  CASE op[t].kind = "insert" -> IF op[t].done THEN {1}
                                ELSE {0 : v \in seen[t] \ {NoVal}}
    [] op[t].kind = "delete" -> IF op[t].done THEN {op[t].took}
                                ELSE seen[t] \cap {NoVal}
    [] op[t].kind = "find"   -> seen[t]

Return(t) ==
  /\ op[t] # NoOp
  /\ \E out \in Results(t) :
       ret' = [ret EXCEPT ![t] = [kind |-> op[t].kind, key |-> op[t].key, out |-> out]]
  /\ op' = [op EXCEPT ![t] = NoOp]
  /\ seen' = [seen EXCEPT ![t] = {}]
  /\ UNCHANGED map

(* The map may be destroyed when no call is in progress.                   *)
Destroy ==
  /\ \A t \in Threads : op[t] = NoOp
  /\ map' = [k \in Keys |-> NoVal]
  /\ UNCHANGED <<op, seen, ret>>

Next ==
  \/ Destroy
  \/ \E t \in Threads :
       \/ \E k \in Keys, v \in Vals : Call(t, "insert", k, v)
       \/ \E k \in Keys, kind \in {"find", "delete"} : Call(t, kind, k, NoVal)
       \/ InsertTakesEffect(t)
       \/ DeleteTakesEffect(t)
       \/ Return(t)

Spec == Init /\ [][Next]_vars

=============================================================================
