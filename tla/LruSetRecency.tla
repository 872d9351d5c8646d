--------------------------- MODULE LruSetRecency ---------------------------
(***************************************************************************)
(* lru<K> beside the ages that its calls give the keys. The ages follow    *)
(* from which key a call used and which keys the map lost; the list is not *)
(* asked. So the list can be compared with them.                           *)
(***************************************************************************)
EXTENDS LruSet

VARIABLE age    \* see LruCache

Cache == INSTANCE LruCache

hvars == <<vars, age>>

HInit == Init /\ age = [k \in Keys |-> Cache!NoAge]

Forget == [k \in Keys |-> IF map'[k] = Absent THEN Cache!NoAge ELSE age[k]]

Use(k) ==
  /\ InsertKnown(k) \/ InsertNew(k) \/ InsertReplacing(k) \/ (At(k) /\ map[k] # Absent)
  /\ age' = Cache!Used(Forget, k)

Lose == EvictOne /\ age' = Forget

Other ==
  /\ \/ \E k \in Keys : InsertAsserts(k) \/ (At(k) /\ map[k] = Absent)
     \/ \E goal \in 0 .. list.size - 1 : Evict(goal)
     \/ EvictDone
     \/ Destroy
     \/ DestroyOne
     \/ DestroyDone
  /\ UNCHANGED age

HNext == (\E k \in Keys : Use(k)) \/ Lose \/ Other

HSpec == HInit /\ [][HNext]_hvars

-----------------------------------------------------------------------------

(* In what follows l is a list, d the keys of the nodes, m a map, a the    *)
(* ages of the keys, and S the nodes in use.                               *)

(* The map leads to nodes and the nodes back to their keys.                *)
MapAgrees(d, m, a, S) ==
  /\ \A k \in Keys : m[k] # Absent => m[k] \in S /\ d[m[k]] = k
  /\ \A n \in S : m[d[n]] = n
  /\ \A k \in Keys : m[k] = Absent <=> a[k] = Cache!NoAge

(* Ages run from 0 to size - 1, each held by one node.                     *)
AgesAreRanks(l, d, a, S) ==
  /\ \A n \in S : a[d[n]] \in 0 .. l.size - 1
  /\ \A i, n \in S : a[d[i]] = a[d[n]] => i = n
  /\ \A i \in 0 .. l.size - 1 : \E n \in S : a[d[n]] = i

(* Head, tail and the links follow the ages.                               *)
LinksFollowAges(l, d, a, S) ==
  /\ l.head \in S \cup {Null}
  /\ l.tail \in S \cup {Null}
  /\ \A n \in S :
       /\ l.head = n <=> a[d[n]] = 0
       /\ l.tail = n <=> a[d[n]] = l.size - 1
       /\ IF a[d[n]] = 0 THEN l.prev[n] = Null
          ELSE l.prev[n] \in S /\ a[d[l.prev[n]]] = a[d[n]] - 1
       /\ IF a[d[n]] = l.size - 1 THEN l.next[n] = Null
          ELSE l.next[n] \in S /\ a[d[l.next[n]]] = a[d[n]] + 1

Agree(l, d, m, a, S) ==
  /\ l.size >= 0
  /\ MapAgrees(d, m, a, S)
  /\ AgesAreRanks(l, d, a, S)
  /\ LinksFollowAges(l, d, a, S)

Recency ==
  call.op \in {"idle", "evict"} => Agree(list, data, map, age, live) /\ list.size <= max

(* A map with a null pointer in it: the pool of the other header makes it  *)
(* when it has no place left. Nothing is promised from then on.            *)
RanOut == \E k \in Keys : map[k] = Null

(* Between calls, and between the turns of evict, the list read forwards   *)
(* is the recency of the calls so far, read backwards it is the reverse,   *)
(* and map, list and m_size speak of the same keys, max at most.           *)
ListIsRecency == RanOut \/ Recency

(* Every call is a step of the cache that LruCache specifies: a key leaves *)
(* only when the set is full or evict asks for it, and it is the oldest.   *)
OldestLeaves == [][RanOut' \/ Cache!Next]_age

LeastRecentlyUsed == Cache!Spec

(* remove_back is never reached without a last node, unless m_max is 0.    *)
AssertHolds == max > 0 => call.op # "aborted"

(* The destructor deletes every node once: the one it is about to delete   *)
(* is allocated, and none is left at the end.                              *)
DestroysAll ==
  /\ call.op = "destroy" /\ call.current # Null => call.current \in live
  /\ call.op = "destroyed" => live = {}

=============================================================================
