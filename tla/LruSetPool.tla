----------------------------- MODULE LruSetPool -----------------------------
(***************************************************************************)
(* lru<K> of lru_set_cache_friendly_fragmentation_friendly_too.h. List and *)
(* map are those of lru_set.h; the nodes are the places 0 .. m_max - 1 of  *)
(* a pool, and a bitmap says which are taken. So node i is slot i here.    *)
(* The bitmap is an array of words, each the set of its bits that are 1.   *)
(*                                                                         *)
(* A slot's bit is reached by 1 << nodeOffset(i), which shifts an int:     *)
(* shorter than the word, extended by its sign, and undefined from the     *)
(* int's width on. Processors then either shift by the offset modulo the   *)
(* width of the int (x86, AArch64) or give 0 (32-bit ARM).                 *)
(*                                                                         *)
(* The header is the same class again, and an object is one or the other:  *)
(* pooled tells which.                                                     *)
(***************************************************************************)
EXTENDS LruSetRecency

CONSTANTS
  IntBits,      (* the width of an int                                      *)
  WordBits      (* kWordBits                                                *)

ASSUME PoolAssumption ==
  /\ \A m \in Capacities : 0 .. m - 1 \subseteq Nodes
  /\ IntBits \in Nat \ {0}
  /\ WordBits \in Nat
  /\ IntBits <= WordBits

VARIABLES
  bits,     (* m_nodeBits                                                   *)
  pooled,
  wraps     (* an int is shifted modulo its width                           *)

pvars == <<hvars, bits, pooled, wraps>>

Slots == 0 .. max - 1

(* nodeIndex and nodeOffset.                                               *)
Index(i)  == i \div WordBits
Offset(i) == i % WordBits

Words == 0 .. Index(max)

(* The constructor. Nothing clears the bitmap: malloc's bytes are in it.   *)
PoolInit ==
  /\ HInit
  /\ pooled \in BOOLEAN
  /\ IF pooled
     THEN wraps \in BOOLEAN /\ bits \in [Words -> SUBSET (0 .. WordBits - 1)]
     ELSE wraps = FALSE /\ bits = <<>>

(* The bits of a word that 1 << n sets. The int's last bit is its sign.    *)
Shifted(n) ==
  IF n < IntBits - 1 THEN {n}
  ELSE IF n = IntBits - 1 THEN n .. WordBits - 1
  ELSE {}

Mask(i) == Shifted(IF wraps THEN Offset(i) % IntBits ELSE Offset(i))

NodeTest(i) == bits[Index(i)] \cap Mask(i) # {}

(* nodeNext: the first slot that nodeTest finds clear, or nullptr.         *)
NodeNext ==
  IF \E i \in Slots : ~NodeTest(i)
  THEN CHOOSE i \in Slots : ~NodeTest(i) /\ \A j \in 0 .. i - 1 : NodeTest(j)
  ELSE Null

(* A mutant: a slot that is handed out is not marked.                      *)
MarkNothing(i) == bits

NodeMark(i) == [bits EXCEPT ![Index(i)] = @ \cup Mask(i)]

NodeClear(i) == [bits EXCEPT ![Index(i)] = @ \ Mask(i)]

(* insert_front(n). A null pointer goes unnoticed when the list is empty.  *)
PoolInsertFront(l, n) ==
  IF n = Null THEN [l EXCEPT !.size = @ + 1] ELSE InsertFront(Fresh(l, n), n)

(* move_front(n) and remove(n).                                            *)
PoolMoveFront(l, n) == MoveFront(l, n)

(* map::insert leaves an entry that is there.                              *)
MapInsert(k, n) == IF map[k] = Absent THEN [map EXCEPT ![k] = n] ELSE map

(* find finds a node only if the map's entry is not a null pointer.        *)
PoolInsertKnown(k) ==
  /\ call = Idle
  /\ Find(k) # Null
  /\ list' = PoolMoveFront(list, Find(k))
  /\ data' = [data EXCEPT ![Find(k)] = k]
  /\ UNCHANGED <<max, map, live, call, bits>>

PoolInsertNew(k) ==
  /\ call = Idle
  /\ Find(k) = Null
  /\ list.size < max
  /\ IF NodeNext = Null /\ list.head # Null
     THEN call' = Over("undefined") /\ UNCHANGED <<list, data, map, live, bits>>
     ELSE /\ list' = PoolInsertFront(list, NodeNext)
          /\ map' = MapInsert(k, NodeNext)
          /\ IF NodeNext = Null
             THEN UNCHANGED <<data, live, bits>>
             ELSE /\ data' = [data EXCEPT ![NodeNext] = k]
                  /\ live' = live \cup {NodeNext}
                  /\ bits' = NodeMark(NodeNext)
          /\ UNCHANGED call
  /\ UNCHANGED max

(* remove_back, from insert into a full set and from evict. It gives a     *)
(* place of the pool to delete, which is undefined.                        *)
PoolRemoveBack ==
  /\ IF list.tail = Null
     THEN call' = Over("aborted") /\ UNCHANGED <<list, map, live>>
     ELSE /\ list' = RemoveBack(list)
          /\ map' = [map EXCEPT ![data[list.tail]] = Absent]
          /\ live' = live \ {list.tail}
          /\ call' = Over("undefined")
  /\ UNCHANGED <<max, data, bits>>

PoolInsertFull(k) ==
  /\ call = Idle
  /\ Find(k) = Null
  /\ list.size >= max
  /\ PoolRemoveBack

PoolEvict ==
  /\ call = Idle
  /\ list.size > 0
  /\ PoolRemoveBack

(* operator[]: an entry that is missing or null is read through.           *)
PoolAt(k) ==
  /\ call = Idle
  /\ IF Find(k) = Null
     THEN call' = Over("undefined") /\ UNCHANGED list
     ELSE list' = PoolMoveFront(list, Find(k)) /\ UNCHANGED call
  /\ UNCHANGED <<max, data, map, live, bits>>

(* The destructor, one turn of its loop, and its end.                      *)
PoolDestroyOne ==
  /\ call.op = "destroy"
  /\ call.current # Null
  /\ call' = [call EXCEPT !.current = list.next[call.current]]
  /\ bits' = NodeClear(call.current)
  /\ live' = live \ {call.current}
  /\ UNCHANGED <<max, list, data, map>>

PoolUse(k) ==
  /\ PoolInsertKnown(k) \/ PoolInsertNew(k) \/ (PoolAt(k) /\ Find(k) # Null)
  /\ age' = IF call'.op = "idle" THEN Cache!Used(Forget, k) ELSE age

PoolOther ==
  \/ PoolEvict /\ age' = Forget
  \/ \E k \in Keys : PoolInsertFull(k) /\ age' = Forget
  \/ /\ \/ \E k \in Keys : PoolAt(k) /\ Find(k) = Null
        \/ (Destroy \/ DestroyDone) /\ UNCHANGED bits
        \/ PoolDestroyOne
     /\ UNCHANGED age

PoolNext ==
  /\ \/ pooled /\ ((\E k \in Keys : PoolUse(k)) \/ PoolOther)
     \/ ~pooled /\ HNext /\ UNCHANGED bits
  /\ UNCHANGED <<pooled, wraps>>

PoolSpec == PoolInit /\ [][PoolNext]_pvars

-----------------------------------------------------------------------------

(* Every slot has a bit. It has none when the pool is larger than an int   *)
(* is wide and the processor shifts the 1 out: slot IntBits is then handed *)
(* out to one key after the other, and nothing below is promised.          *)
SlotsHaveBits == pooled /\ max > IntBits => wraps

(* Nodes have one owner and are given back: no two keys share a slot, a    *)
(* slot in use tests as taken, and the destructor reaches every node       *)
(* exactly once. With more slots than an int has bits, several of a word   *)
(* share a bit, and no two of those are ever in use at once.               *)
NodesOwned ==
  SlotsHaveBits =>
    /\ \A j, k \in Keys : map[j] = map[k] /\ map[j] \in Nodes => j = k
    /\ pooled => \A n \in live : n \in Slots /\ NodeTest(n)
    /\ DestroysAll

(* The list is the recency of the calls in either header, until the map of *)
(* the pooled one holds a null pointer: no slot was left.                  *)
PoolIsRecency == SlotsHaveBits => ListIsRecency

(* In either header every call is a step of the cache that LruCache        *)
(* specifies, until then: only the oldest key leaves, and only when the    *)
(* set is full or evict asks for it.                                       *)
PoolDropsOldest == [][SlotsHaveBits => RanOut' \/ Cache!Next]_age

=============================================================================
