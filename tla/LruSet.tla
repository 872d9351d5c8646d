------------------------------- MODULE LruSet -------------------------------
(***************************************************************************)
(* lru<K> of lru_set.h: a map from keys to nodes, and a doubly linked list *)
(* of the nodes, the one used last in front. The nodes come from new and   *)
(* go to delete.                                                           *)
(*                                                                         *)
(* A call is one step, except evict and the destructor, which take one     *)
(* step for each node. An object has one user: nothing runs in between.    *)
(***************************************************************************)
EXTENDS Integers

CONSTANTS
  Keys,
  Nodes,        (* the addresses new may return                             *)
  Capacities,   (* the values of m_max looked at                            *)
  Null,
  Absent        (* map::find returns map::end                               *)

ASSUME LruAssumption ==
  /\ Keys # {}
  /\ Capacities \subseteq Nat
  /\ Null \notin Nodes
  /\ Absent \notin Nodes \cup {Null}

VARIABLES
  max,      (* m_max                                                        *)
  list,     (* m_head, m_tail, m_size, and the links of every node          *)
  data,     (* of every node: its key                                       *)
  map,      (* m_map                                                        *)
  live,     (* the nodes allocated                                          *)
  call      (* which loop runs, its local, and how the object ended         *)

vars == <<max, list, data, map, live, call>>

Pointer == Nodes \cup {Null}

Running(op, n, goal) == [op |-> op, current |-> n, goal |-> goal]
Idle     == Running("idle", Null, 0)
Over(op) == Running(op, Null, 0)

Empty ==
  [head |-> Null, tail |-> Null, size |-> 0,
   prev |-> [n \in Nodes |-> Null], next |-> [n \in Nodes |-> Null]]

(* The constructor.                                                        *)
Init ==
  /\ max \in Capacities
  /\ list = Empty
  /\ data = [n \in Nodes |-> CHOOSE k \in Keys : TRUE]
  /\ map = [k \in Keys |-> Absent]
  /\ live = {}
  /\ call = Idle

Find(k) == IF map[k] = Absent THEN Null ELSE map[k]

(* A mutant: m_tail is not moved when the last node leaves.                *)
RemoveKeepsTail(l, n) ==
  LET p == l.prev[n]
      s == l.next[n]
  IN [head |-> IF p = Null THEN s ELSE l.head,
      tail |-> l.tail,
      size |-> l.size - 1,
      next |-> IF p = Null THEN l.next ELSE [l.next EXCEPT ![p] = s],
      prev |-> IF s = Null THEN l.prev ELSE [l.prev EXCEPT ![s] = p]]

(* remove: n leaves the list l.                                            *)
Remove(l, n) ==
  LET p == l.prev[n]
      s == l.next[n]
  IN [head |-> IF p = Null THEN s ELSE l.head,
      tail |-> IF s = Null THEN p ELSE l.tail,
      size |-> l.size - 1,
      next |-> IF p = Null THEN l.next ELSE [l.next EXCEPT ![p] = s],
      prev |-> IF s = Null THEN l.prev ELSE [l.prev EXCEPT ![s] = p]]

(* insert_front. A node put into an empty list keeps the links it has.     *)
InsertFront(l, n) ==
  IF l.head # Null
  THEN [head |-> n,
        tail |-> l.tail,
        size |-> l.size + 1,
        next |-> [l.next EXCEPT ![n] = l.head],
        prev |-> [l.prev EXCEPT ![l.head] = n, ![n] = Null]]
  ELSE [l EXCEPT !.head = n, !.tail = n, !.size = @ + 1]

(* A mutant: a use leaves the node where it is.                            *)
LeaveInPlace(l, n) == l

MoveFront(l, n) ==
  IF n = l.head THEN l ELSE InsertFront(Remove(l, n), n)

(* remove_back, as far as the list goes.                                   *)
RemoveBack(l) ==
  LET p == l.prev[l.tail]
  IN [head |-> IF p = Null THEN Null ELSE l.head,
      tail |-> p,
      size |-> l.size - 1,
      next |-> IF p = Null THEN l.next ELSE [l.next EXCEPT ![p] = Null],
      prev |-> l.prev]

(* The list with a node that was just constructed.                         *)
Fresh(l, n) == [l EXCEPT !.prev[n] = Null, !.next[n] = Null]

(* insert of a key that is there.                                          *)
InsertKnown(k) ==
  /\ call = Idle
  /\ Find(k) # Null
  /\ data' = [data EXCEPT ![Find(k)] = k]
  /\ list' = MoveFront(list, Find(k))
  /\ UNCHANGED <<max, map, live, call>>

(* insert of a key that is not there, while there is room.                 *)
InsertNew(k) ==
  /\ call = Idle
  /\ Find(k) = Null
  /\ list.size < max
  /\ \E n \in Nodes \ live :
       /\ live' = live \cup {n}
       /\ data' = [data EXCEPT ![n] = k]
       /\ list' = InsertFront(Fresh(list, n), n)
       /\ map' = [map EXCEPT ![k] = n]
  /\ UNCHANGED <<max, call>>

(* insert of a key that is not there, in place of the last one.            *)
InsertReplacing(k) ==
  /\ call = Idle
  /\ Find(k) = Null
  /\ list.size >= max
  /\ list.tail # Null
  /\ \E n \in Nodes \ (live \ {list.tail}) :
       /\ live' = (live \ {list.tail}) \cup {n}
       /\ data' = [data EXCEPT ![n] = k]
       /\ list' = InsertFront(Fresh(RemoveBack(list), n), n)
       /\ map' = [map EXCEPT ![data[list.tail]] = Absent, ![k] = n]
  /\ UNCHANGED <<max, call>>

(* remove_back asserts that there is a last node.                          *)
InsertAsserts(k) ==
  /\ call = Idle
  /\ Find(k) = Null
  /\ list.size >= max
  /\ list.tail = Null
  /\ call' = Over("aborted")
  /\ UNCHANGED <<max, list, data, map, live>>

(* operator[]. It does not look whether find found the key.                *)
At(k) ==
  /\ call = Idle
  /\ IF map[k] = Absent
     THEN call' = Over("undefined") /\ UNCHANGED list
     ELSE list' = MoveFront(list, map[k]) /\ UNCHANGED call
  /\ UNCHANGED <<max, data, map, live>>

(* evict(goal), and one turn of its loop.                                  *)
Evict(goal) ==
  /\ call = Idle
  /\ goal < list.size
  /\ call' = Running("evict", Null, goal)
  /\ UNCHANGED <<max, list, data, map, live>>

EvictOne ==
  /\ call.op = "evict"
  /\ list.size # call.goal
  /\ IF list.tail = Null
     THEN call' = Over("aborted") /\ UNCHANGED <<list, map, live>>
     ELSE /\ list' = RemoveBack(list)
          /\ map' = [map EXCEPT ![data[list.tail]] = Absent]
          /\ live' = live \ {list.tail}
          /\ UNCHANGED call
  /\ UNCHANGED <<max, data>>

EvictDone ==
  /\ call.op = "evict"
  /\ list.size = call.goal
  /\ call' = Idle
  /\ UNCHANGED <<max, list, data, map, live>>

(* The destructor, and one turn of its loop.                               *)
Destroy ==
  /\ call = Idle
  /\ call' = Running("destroy", list.head, 0)
  /\ UNCHANGED <<max, list, data, map, live>>

DestroyOne ==
  /\ call.op = "destroy"
  /\ call.current # Null
  /\ call' = [call EXCEPT !.current = list.next[call.current]]
  /\ live' = live \ {call.current}
  /\ UNCHANGED <<max, list, data, map>>

DestroyDone ==
  /\ call.op = "destroy"
  /\ call.current = Null
  /\ list' = [list EXCEPT !.size = 0]
  /\ call' = Over("destroyed")
  /\ UNCHANGED <<max, data, map, live>>

Insert(k) ==
  InsertKnown(k) \/ InsertNew(k) \/ InsertReplacing(k) \/ InsertAsserts(k)

Next ==
  \/ \E k \in Keys : Insert(k) \/ At(k)
  \/ \E goal \in 0 .. list.size - 1 : Evict(goal)
  \/ EvictOne
  \/ EvictDone
  \/ Destroy
  \/ DestroyOne
  \/ DestroyDone

Spec == Init /\ [][Next]_vars

=============================================================================
