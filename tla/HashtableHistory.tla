------------------------- MODULE HashtableHistory -------------------------
(***************************************************************************)
(* The hashtable with a history variable, and the refinement mapping under *)
(* which it implements ConcurrentMap.                                      *)
(***************************************************************************)
EXTENDS LockFreeHashtable

VARIABLE seen   (* the values the key of each call has had since it began   *)

hvars == <<vars, seen>>

(* The value a search for key k would find: that of its unmarked node.     *)
MapView ==
  [k \in Keys |->
     IF \E n \in Present : heap[n].key = k
     THEN heap[CHOOSE n \in Present : heap[n].key = k].value
     ELSE NIL]

HInit == Init /\ seen = [t \in Threads |-> {}]

HNext ==
  /\ Next
  /\ seen' = [t \in Threads |->
                IF pc'[t] = "idle" THEN {}
                ELSE seen[t] \cup {MapView'[call'[t].key]}]

HSpec == HInit /\ [][HNext]_hvars

(* Every thread inside a call keeps being scheduled.                       *)
HFairSpec == HSpec /\ \A t \in Threads : WF_hvars(Progress(t) /\ HNext)

Completed(t) ==
  pc[t] \in {"load", "count", "resize", "copy", "grow", "swap",
             "detach", "uncount", "take", "erase"}

OpView ==
  [t \in Threads |->
     [kind |-> call[t].kind,
      key  |-> call[t].key,
      val  |-> IF call[t].kind = "insert" THEN call[t].val ELSE NIL,
      done |-> Completed(t),
      took |-> IF call[t].kind = "delete" /\ Completed(t)
               THEN heap[walk[t].cur.node].value ELSE NIL]]

RetView == [t \in Threads |-> [kind |-> ret[t].kind, key |-> ret[t].key, out |-> ret[t].out]]

Map == INSTANCE ConcurrentMap
         WITH map <- MapView, op <- OpView, ret <- RetView, NoVal <- NIL

(* Every call of hashtable_insert, hashtable_find and hashtable_delete     *)
(* takes effect at one instant between its start and its return.           *)
Linearizable == Map!Spec

=============================================================================
