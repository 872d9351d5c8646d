---------------------- MODULE LockFreeHashtableProofs ----------------------
(***************************************************************************)
(* Proofs about LockFreeHashtable, for any number of threads and calls.    *)
(*                                                                         *)
(* First those in which the order of the list does not matter. About its   *)
(* memory: the type invariant with Control, which is inductive; that the   *)
(* links of deleted nodes are frozen; that no thread follows a pointer to  *)
(* a node that was freed, for which TypeOK /\ Control /\ Ownership /\      *)
(* NoDangling is inductive; and what rests on that: hazard pointers cover  *)
(* the nodes a walk uses, and the count is exact. About hashtable_resize:  *)
(* the size and the bucket array, replaced by two compare-and-swaps, are   *)
(* apart by at most one doubling, and the second compare-and-swap of the   *)
(* thread that won the first one succeeds.                                 *)
(*                                                                         *)
(* Then those about the list: bucket 0 is never initialized, and, where    *)
(* the recorded defects do not show, the list stays sorted, no key is in   *)
(* it twice and no element is lost.                                        *)
(***************************************************************************)
EXTENDS LockFreeHashtable, SplitOrderCodes, SequenceTheorems

(* Hashing, the two kinds of code and the parent of a bucket stay within   *)
(* their types: what the model needs of hashtable_rvalue, hash_key and     *)
(* hashtable_bucket_parent.                                                *)
LEMMA CodeTypes ==
  /\ Half \in Nat \ {0}
  /\ \A k \in Nat : Hash(k) \in Nat
  /\ \A h \in Nat : RegularCode(h) \in Word
  /\ \A b \in Nat : DummyCode(b) \in Word /\ Parent(b) \in Nat
<1>1. \A k \in Nat : Hash(k) \in Nat
  <2> SUFFICES ASSUME NEW k \in Nat PROVE Hash(k) \in Nat
    OBVIOUS
  <2>1. k * HashMul \in Nat
    BY WidthAssumption
  <2> QED BY <2>1, WordIsPower DEF Hash
<1>2. \A b \in Nat : Parent(b) \in Nat
  <2> SUFFICES ASSUME NEW b \in Nat PROVE Parent(b) \in Nat
    OBVIOUS
  <2> DEFINE Cleared(p) == \E i \in 0 .. (Width - 1) : p < 2 ^ i /\ b = p + 2 ^ i
             parent == IF \E p \in 0 .. b : Cleared(p)
                       THEN CHOOSE p \in 0 .. b : Cleared(p) ELSE 0
  <2> HIDE DEF Cleared
  <2>1. parent \in 0 .. b
    OBVIOUS
  <2> QED BY <2>1 DEF Parent, Cleared
<1> QED BY <1>1, <1>2, CodeKinds, WordIsPower

(* The types of one thread's local variables, field by field.              *)
LEMMA LocalTypes ==
  ASSUME TypeOK, NEW t \in Threads
  PROVE  /\ call[t] \in CallType /\ call[t].key \in Nat /\ call[t].bucket \in Nat
         /\ call[t].tbl \in TableId /\ call[t].kind \in Kinds \cup {"none"}
         /\ call[t].val \in Vals \cup {NIL} /\ call[t].mine \in Node \cup {NIL}
         /\ walk[t] \in WalkType /\ walk[t].prev \in SlotType
         /\ walk[t].cur \in LinkType /\ walk[t].cur.node \in Node \cup {NIL}
         /\ walk[t].nxt \in LinkType /\ walk[t].nxt.node \in Node \cup {NIL}
         /\ task[t] \in TaskType /\ task[t].todo \in Seq(Nat) /\ task[t].dst \in TableId
         /\ task[t].dummy \in Node \cup {NIL} /\ task[t].res \in Node \cup {NIL}
         /\ grow[t] \in GrowType /\ grow[t].old \in TableId /\ grow[t].new \in TableId
         /\ grow[t].sz \in Nat /\ grow[t].i \in Nat
         /\ pc[t] \in Labels /\ calls[t] \in Nat
BY DEF TypeOK, CallType, WalkType, TaskType, GrowType, LinkType

(* A place that exists holds a link.                                       *)
LEMMA LoadType ==
  ASSUME TypeOK, NEW p \in SlotType, p.tb = 0 \/ InBounds(p)
  PROVE  Load(p) \in LinkType
<1>1. CASE p.tb = 0
  BY <1>1 DEF TypeOK, SlotType, Load, NodeType, TableId
<1>2. CASE p.tb # 0
  BY <1>2 DEF TypeOK, SlotType, Load, InBounds, IsArray
<1> QED BY <1>1, <1>2

(* Writing a link to a slot leaves every bucket array an array of links.   *)
LEMMA ArrayUpdate ==
  ASSUME TypeOK, NEW a \in TableId, NEW b, NEW x \in LinkType,
         tables' = [tables EXCEPT ![a][b] = x]
  PROVE  DOMAIN tables' = TableId /\ \A i \in TableId : IsArray(tables'[i])
BY DEF TypeOK, IsArray

(* So does replacing a whole array: an allocation or a free.               *)
LEMMA ArrayReplace ==
  ASSUME TypeOK, NEW a, NEW x, IsArray(x), tables' = [tables EXCEPT ![a] = x]
  PROVE  DOMAIN tables' = TableId /\ \A i \in TableId : IsArray(tables'[i])
BY DEF TypeOK

(* An array that is not allocated is an array without slots.               *)
LEMMA NoSlotsArray == IsArray(NoSlots)
BY DEF IsArray, NoSlots

(* A store of a link, the success of a compare-and-swap, keeps the types of*)
(* the two kinds of place it can go to.                                    *)
LEMMA StoreType ==
  ASSUME TypeOK, NEW p \in SlotType, NEW x \in LinkType, Store(p, x)
  PROVE  /\ heap' \in [Node -> NodeType]
         /\ DOMAIN tables' = TableId
         /\ \A i \in TableId : IsArray(tables'[i])
<1>1. CASE p.tb = 0
  <2>1. heap' = [heap EXCEPT ![p.ix].next = x] /\ tables' = tables
    BY <1>1 DEF Store
  <2> QED BY <2>1 DEF TypeOK, NodeType
<1>2. CASE p.tb # 0
  <2>1. tables' = [tables EXCEPT ![p.tb][p.ix] = x] /\ heap' = heap /\ p.tb \in TableId
    BY <1>2 DEF Store, SlotType
  <2> QED BY <2>1, ArrayUpdate DEF TypeOK
<1> QED BY <1>1, <1>2

(* The values local variables have between calls, and freed nodes, are of  *)
(* their types.                                                            *)
LEMMA BlankTypes ==
  /\ Blank \in NodeType
  /\ NoArgs \in CallType /\ NoWalk \in WalkType /\ NoTask \in TaskType /\ NoGrow \in GrowType
  /\ NoHazards \in [0 .. 2 -> PtrType]
  /\ NoCall \in RetType
BY ConstantsAssumption, CodeTypes
   DEF Blank, NodeType, NoArgs, CallType, NoWalk, WalkType, NoTask, TaskType, NoGrow, GrowType,
       NoHazards, NoPtr, Ptr, PtrType, NoCall, RetType, Slot, SlotType, Null, Link, LinkType,
       NIL, TableId, Kinds, Word

(* Values are numbers, as the results of calls are.                        *)
LEMMA ValueTypes == \A v \in Vals \cup {NIL} : v \in Nat
<1>1. Vals \subseteq Nat
  BY ConstantsAssumption
<1> QED BY <1>1 DEF NIL

(* Hazard pointers to arrays, nodes and values are of their type.          *)
LEMMA PtrTypes ==
  /\ \A a \in TableId : Ptr("table", a) \in PtrType
  /\ \A n \in Node \cup {NIL} : Ptr("node", n) \in PtrType
  /\ \A v \in Vals \cup {NIL} : Ptr("value", v) \in PtrType
BY ConstantsAssumption DEF Ptr, PtrType, TableId, Node, NIL

(* The return from a call keeps the types of what it resets.               *)
LEMMA ReturnType ==
  ASSUME TypeOK, NEW t \in Threads, NEW out \in Nat, Return(t, out)
  PROVE  /\ call' \in [Threads -> CallType] /\ walk' \in [Threads -> WalkType]
         /\ task' \in [Threads -> TaskType] /\ grow' \in [Threads -> GrowType]
         /\ ret' \in [Threads -> RetType] /\ pc' \in [Threads -> Labels]
<1>1. /\ call' \in [Threads -> CallType] /\ walk' \in [Threads -> WalkType]
      /\ task' \in [Threads -> TaskType] /\ grow' \in [Threads -> GrowType]
  BY BlankTypes DEF Return, TypeOK
<1>2. ret' \in [Threads -> RetType]
  BY LocalTypes DEF Return, TypeOK, RetType
<1>3. pc' \in [Threads -> Labels]
  BY DEF Return, TypeOK, Labels
<1> QED BY <1>1, <1>2, <1>3

(* Every step of a thread preserves the type invariant, given what Control *)
(* says of the step's starting point.                                      *)
LEMMA TypeStep ==
  ASSUME TypeOK, Control, NEW t \in Threads
  PROVE  Progress(t) \/ Begin(t) \/ Destroy(t) => TypeOK'
<1>1. ASSUME NEW k \in Keys, NEW v \in Vals, BeginInsert(t, k, v)
      PROVE  TypeOK'
  <2>1. k \in Nat /\ v \in Vals \cup {NIL}
    BY ConstantsAssumption
  <2>2. NewNode \in Node /\ live' \subseteq Node
    BY <1>1 DEF BeginInsert, NewNode, TypeOK
  <2>3. pc' \in [Threads -> Labels]
    BY <1>1 DEF BeginInsert, Goto, TypeOK, Labels
  <2>4. heap' \in [Node -> NodeType]
    BY <1>1, CodeTypes, <2>1 DEF BeginInsert, TypeOK, NodeType, LinkType, Null,
       Link, NIL
  <2>5. hz' \in [Threads -> [0 .. 2 -> PtrType]]
    BY <1>1, PtrTypes DEF BeginInsert, TypeOK, Protect
  <2>6. table \in TableId
    BY  DEF TypeOK
  <2>7. call' \in [Threads -> CallType]
    BY <1>1, <2>6, <2>1, <2>2 DEF BeginInsert, TypeOK, CallType, Kinds
  <2>8. calls' \in [Threads -> Nat]
    BY <1>1, LocalTypes DEF BeginInsert, TypeOK
  <2> QED BY <1>1, <2>1, <2>2, <2>3, <2>4, <2>5, <2>6, <2>7, <2>8 DEF BeginInsert,
     TypeOK, locals
<1>2. CASE InsertReadSize(t)
  <2>1. pc' \in [Threads -> Labels]
    BY <1>2 DEF InsertReadSize, Goto, TypeOK, Labels
  <2>2. Hash(call[t].key) % size \in Nat
    BY <1>2, CodeTypes, LocalTypes DEF InsertReadSize, TypeOK
  <2>3. call' \in [Threads -> CallType]
    BY <1>2, <2>2 DEF InsertReadSize, TypeOK, CallType
  <2> QED BY <1>2, <2>1, <2>2, <2>3 DEF InsertReadSize, TypeOK, locals
<1>3. ASSUME NEW kind \in {"find", "delete"}, NEW k \in Keys, BeginLookup(t, kind, k)
      PROVE  TypeOK'
  <2>1. k \in Nat
    BY ConstantsAssumption
  <2>2. pc' \in [Threads -> Labels]
    BY <1>3 DEF BeginLookup, Goto, TypeOK, Labels
  <2>3. Hash(k) % size \in Nat
    BY <1>3, CodeTypes, <2>1 DEF BeginLookup, TypeOK
  <2>4. call' \in [Threads -> CallType]
    BY <1>3, <2>3, <2>1, ConstantsAssumption DEF BeginLookup, TypeOK, CallType,
       Kinds, TableId
  <2>5. calls' \in [Threads -> Nat]
    BY <1>3, LocalTypes DEF BeginLookup, TypeOK
  <2> QED BY <1>3, <2>1, <2>2, <2>3, <2>4, <2>5 DEF BeginLookup, TypeOK, locals
<1>4. CASE LookupReadTable(t)
  <2>1. pc' \in [Threads -> Labels]
    BY <1>4 DEF LookupReadTable, Goto, TypeOK, Labels
  <2>2. call' \in [Threads -> CallType]
    BY <1>4 DEF LookupReadTable, TypeOK, CallType
  <2>3. hz' \in [Threads -> [0 .. 2 -> PtrType]]
    BY <1>4, PtrTypes DEF LookupReadTable, TypeOK, Protect
  <2> QED BY <1>4, <2>1, <2>2, <2>3 DEF LookupReadTable, TypeOK, locals
<1>5. CASE CheckBucket(t)
  <2>1. pc' \in [Threads -> Labels]
    BY <1>5 DEF CheckBucket, Goto, TypeOK, Labels
  <2>2. <<call[t].bucket>> \in Seq(Nat)
    BY LocalTypes
  <2>3. PICK s \in Seq(Nat) : task' = task \/ task' = [task EXCEPT ![t].todo = s]
    BY <1>5, <2>2 DEF CheckBucket, TypeOK
  <2>4. task' \in [Threads -> TaskType]
    <3>1. CASE task' = task
      BY <3>1 DEF TypeOK
    <3>2. CASE task' = [task EXCEPT ![t].todo = s]
      BY <2>3, <3>2 DEF TypeOK, TaskType
    <3> QED BY <2>3, <3>1, <3>2
  <2> QED BY <1>5, <2>1, <2>2, <2>3, <2>4 DEF CheckBucket, TypeOK, locals
<1>6. CASE InitCheckParent(t)
  <2>1. pc' \in [Threads -> Labels]
    BY <1>6 DEF InitCheckParent, Goto, TypeOK, Labels
  <2>2. Head(task[t].todo) \in Nat
    BY <1>6, LocalTypes DEF InitCheckParent, TypeOK, Control, ControlAt,
       Initializing, InInit
  <2>3. <<Parent(Head(task[t].todo))>> \o task[t].todo \in Seq(Nat)
    BY <1>6, CodeTypes, LocalTypes, <2>2 DEF InitCheckParent, TypeOK
  <2>4. PICK s \in Seq(Nat) : task' = task \/ task' = [task EXCEPT ![t].todo = s]
    BY <1>6, <2>3 DEF InitCheckParent, TypeOK
  <2>5. task' \in [Threads -> TaskType]
    <3>1. CASE task' = task
      BY <3>1 DEF TypeOK
    <3>2. CASE task' = [task EXCEPT ![t].todo = s]
      BY <2>4, <3>2 DEF TypeOK, TaskType
    <3> QED BY <2>4, <3>1, <3>2
  <2> QED BY <1>6, <2>1, <2>2, <2>3, <2>4, <2>5 DEF InitCheckParent, TypeOK, locals
<1>7. CASE InitAlloc(t)
  <2>1. NewNode \in Node /\ live' \subseteq Node
    BY <1>7 DEF InitAlloc, NewNode, TypeOK
  <2>2. pc' \in [Threads -> Labels]
    BY <1>7 DEF InitAlloc, Goto, TypeOK, Labels
  <2>3. Head(task[t].todo) \in Nat
    BY <1>7, LocalTypes DEF InitAlloc, TypeOK, Goto, Control, ControlAt,
       Initializing, InInit
  <2>4. heap' \in [Node -> NodeType]
    BY <1>7, CodeTypes, <2>3 DEF InitAlloc, TypeOK, NodeType, LinkType, Null, Link,
       NIL
  <2>5. task' \in [Threads -> TaskType]
    BY <1>7, <2>1 DEF InitAlloc, TypeOK, TaskType
  <2> QED BY <1>7, <2>1, <2>2, <2>3, <2>4, <2>5 DEF InitAlloc, TypeOK, locals
<1>8. CASE InitReload(t)
  <2>1. pc' \in [Threads -> Labels]
    BY <1>8 DEF InitReload, Goto, TypeOK, Labels
  <2>2. task' \in [Threads -> TaskType]
    BY <1>8 DEF InitReload, TypeOK, TaskType
  <2>3. hz' \in [Threads -> [0 .. 2 -> PtrType]]
    BY <1>8, PtrTypes DEF InitReload, TypeOK, Protect
  <2> QED BY <1>8, <2>1, <2>2, <2>3 DEF InitReload, TypeOK, locals
<1>9. CASE InitPublish(t)
  <2>1. pc' \in [Threads -> Labels]
    BY <1>9 DEF InitPublish, Goto, TypeOK, Labels
  <2>2. Link(task[t].res, 0) \in LinkType
    BY LocalTypes DEF Link, LinkType
  <2>3. DOMAIN tables' = TableId /\ \A i \in TableId : IsArray(tables'[i])
    BY <1>9, <2>2, LocalTypes, ArrayUpdate DEF InitPublish, TypeOK, Slot
  <2>4. Tail(task[t].todo) \in Seq(Nat)
    BY <1>9, LocalTypes DEF InitPublish, TypeOK, Control, ControlAt, Initializing, InInit
  <2>5. task' \in [Threads -> TaskType]
    BY <1>9, <2>4 DEF InitPublish, TypeOK, TaskType, NIL
  <2> QED BY <1>9, <2>1, <2>2, <2>3, <2>4, <2>5 DEF InitPublish, TypeOK, locals
<1>10. CASE FindReadTable(t)
  <2>1. pc' \in [Threads -> Labels]
    BY <1>10 DEF FindReadTable, Goto, TypeOK, Labels
  <2>2. Initializing(t) => Head(task[t].todo) \in Nat
    BY LocalTypes DEF Initializing
  <2>3. FindBucket(t) \in Nat
    BY CodeTypes, LocalTypes, <2>2 DEF FindBucket
  <2>4. Slot(table, FindBucket(t)) \in SlotType
    BY <2>3 DEF TypeOK, Slot, SlotType
  <2>5. walk' \in [Threads -> WalkType]
    BY <1>10, <2>4 DEF FindReadTable, TypeOK, WalkType
  <2>6. hz' \in [Threads -> [0 .. 2 -> PtrType]]
    BY <1>10, PtrTypes DEF FindReadTable, TypeOK, Protect
  <2> QED BY <1>10, <2>1, <2>2, <2>3, <2>4, <2>5, <2>6 DEF FindReadTable, TypeOK,
     locals
<1>11. CASE FindReadHead(t)
  <2>1. pc' \in [Threads -> Labels]
    BY <1>11 DEF FindReadHead, Goto, TypeOK, Labels
  <2>2. Load(walk[t].prev) \in LinkType
    BY <1>11, LoadType, LocalTypes DEF FindReadHead, TypeOK
  <2>3. walk' \in [Threads -> WalkType]
    BY <1>11, <2>2 DEF FindReadHead, TypeOK, WalkType
  <2>4. Load(walk[t].prev).node \in Node \cup {NIL}
    BY <2>2 DEF LinkType
  <2>5. hz' \in [Threads -> [0 .. 2 -> PtrType]]
    BY <1>11, <2>4, PtrTypes DEF FindReadHead, TypeOK, Protect
  <2> QED BY <1>11, <2>1, <2>2, <2>3, <2>4, <2>5 DEF FindReadHead, TypeOK, locals
<1>12. CASE FindReadNext(t)
  <2>1. pc' \in [Threads -> Labels]
    BY <1>12 DEF FindReadNext, Goto, TypeOK, Labels
  <2>2. walk[t].cur.node # NIL => /\ heap[walk[t].cur.node].next \in LinkType
                                  /\ heap[walk[t].cur.node].next.node \in Node \cup {NIL}
    BY <1>12, LocalTypes DEF FindReadNext, TypeOK, NodeType, LinkType
  <2>3. walk' \in [Threads -> WalkType]
    BY <1>12, <2>2 DEF FindReadNext, TypeOK, WalkType
  <2>4. hz' \in [Threads -> [0 .. 2 -> PtrType]]
    BY <1>12, <2>2, PtrTypes DEF FindReadNext, TypeOK, Protect
  <2> QED BY <1>12, <2>1, <2>2, <2>3, <2>4 DEF FindReadNext, TypeOK, locals
<1>13. CASE FindVerify(t)
  <2>1. pc' \in [Threads -> Labels]
    BY <1>13 DEF FindVerify, Goto, TypeOK, Labels
  <2>2. NextOf(walk[t].cur.node) \in SlotType
    BY <1>13, LocalTypes DEF FindVerify, TypeOK, Control, ControlAt, NextOf,
       SlotType
  <2>3. PICK p \in SlotType, x \in LinkType :
         walk' = walk \/ walk' = [walk EXCEPT ![t].prev = p, ![t].cur = x]
    BY <1>13, <2>2, LocalTypes DEF FindVerify, TypeOK
  <2>4. walk' \in [Threads -> WalkType]
    BY <2>3 DEF TypeOK, WalkType
  <2>5. PICK q \in PtrType, r \in PtrType :
         hz' = hz \/ hz' = [hz EXCEPT ![t][1] = q, ![t][2] = r]
    BY <1>13, LocalTypes, PtrTypes DEF FindVerify, TypeOK
  <2>6. hz' \in [Threads -> [0 .. 2 -> PtrType]]
    BY <2>5 DEF TypeOK
  <2> QED BY <1>13, <2>1, <2>2, <2>3, <2>4, <2>5, <2>6 DEF FindVerify, TypeOK,
     locals
<1>14. CASE FindUnlink(t)
  <2>1. pc' \in [Threads -> Labels]
    BY <1>14 DEF FindUnlink, Goto, TypeOK, Labels
  <2>2. Link(walk[t].nxt.node, 0) \in LinkType
    BY LocalTypes DEF Link, LinkType
  <2>3. /\ heap' \in [Node -> NodeType]
         /\ DOMAIN tables' = TableId
         /\ \A i \in TableId : IsArray(tables'[i])
    BY <1>14, <2>2, StoreType, LocalTypes DEF FindUnlink, TypeOK
  <2>4. PICK x \in LinkType : walk' = walk \/ walk' = [walk EXCEPT ![t].cur = x]
    BY <1>14, LocalTypes DEF FindUnlink, TypeOK
  <2>5. walk' \in [Threads -> WalkType]
    BY <2>4 DEF TypeOK, WalkType
  <2>6. PICK p \in PtrType : hz' = hz \/ hz' = [hz EXCEPT ![t][1] = p]
    BY <1>14, LocalTypes, PtrTypes DEF FindUnlink, TypeOK, Protect
  <2>7. hz' \in [Threads -> [0 .. 2 -> PtrType]]
    BY <2>6 DEF TypeOK
  <2> QED BY <1>14, <2>1, <2>2, <2>3, <2>4, <2>5, <2>6, <2>7 DEF FindUnlink, TypeOK,
     locals
<1>15. CASE InsertPrepare(t)
  <2>1. pc' \in [Threads -> Labels]
    BY <1>15 DEF InsertPrepare, Goto, TypeOK, Labels
  <2>2. Link(walk[t].cur.node, 0) \in LinkType /\ Inserted(t) \in Node \cup {NIL}
    BY LocalTypes DEF Link, LinkType, Inserted
  <2>3. heap' \in [Node -> NodeType]
    BY <1>15, <2>2 DEF InsertPrepare, TypeOK, NodeType
  <2>4. hz' \in [Threads -> [0 .. 2 -> PtrType]]
    BY <1>15, <2>2, PtrTypes DEF InsertPrepare, TypeOK, Protect
  <2> QED BY <1>15, <2>1, <2>2, <2>3, <2>4 DEF InsertPrepare, TypeOK, locals
<1>16. CASE InsertLink(t)
  <2>1. pc' \in [Threads -> Labels]
    BY <1>16 DEF InsertLink, Goto, TypeOK, Labels
  <2>2. Link(Inserted(t), 0) \in LinkType
    BY LocalTypes DEF Link, LinkType, Inserted
  <2>3. /\ heap' \in [Node -> NodeType]
         /\ DOMAIN tables' = TableId
         /\ \A i \in TableId : IsArray(tables'[i])
    BY <1>16, <2>2, StoreType, LocalTypes DEF InsertLink, TypeOK
  <2>4. call' = call \/ call' = [call EXCEPT ![t].mine = NIL]
    BY <1>16 DEF InsertLink, TypeOK
  <2>5. call' \in [Threads -> CallType]
    <3>1. CASE call' = call
      BY <3>1 DEF TypeOK
    <3>2. CASE call' = [call EXCEPT ![t].mine = NIL]
      BY <3>2 DEF TypeOK, CallType
    <3> QED BY <2>4, <3>1, <3>2
  <2>6. task' = task \/ task' = [task EXCEPT ![t].res = task[t].dummy, ![t].dummy = NIL]
    BY <1>16 DEF InsertLink, TypeOK
  <2>7. task' \in [Threads -> TaskType]
    <3>1. CASE task' = task
      BY <3>1 DEF TypeOK
    <3>2. CASE task' = [task EXCEPT ![t].res = task[t].dummy, ![t].dummy = NIL]
      BY LocalTypes, <3>2 DEF TypeOK, TaskType
    <3> QED BY <2>6, <3>1, <3>2
  <2> QED BY <1>16, <2>1, <2>2, <2>3, <2>4, <2>5, <2>6, <2>7 DEF InsertLink, TypeOK,
     locals
<1>17. CASE InitFoundDummy(t)
  <2>1. pc' \in [Threads -> Labels]
    BY <1>17 DEF InitFoundDummy, Goto, TypeOK, Labels
  <2>2. heap' \in [Node -> NodeType]
    BY <1>17, BlankTypes DEF InitFoundDummy, TypeOK
  <2>3. PICK r \in Node \cup {NIL} :
         task' = [task EXCEPT ![t].res = r, ![t].dummy = NIL]
    BY <1>17, LocalTypes DEF InitFoundDummy, TypeOK
  <2>4. task' \in [Threads -> TaskType]
    BY <2>3 DEF TypeOK, TaskType
  <2> QED BY <1>17, <2>1, <2>2, <2>3, <2>4 DEF InitFoundDummy, TypeOK, locals
<1>18. CASE InsertFoundKey(t)
  <2>1. heap' \in [Node -> NodeType]
    BY <1>18, BlankTypes DEF InsertFoundKey, TypeOK
  <2>2. hz' \in [Threads -> [0 .. 2 -> PtrType]]
    BY <1>18, BlankTypes DEF InsertFoundKey, TypeOK
  <2>3. Return(t, 0)
    BY <1>18 DEF InsertFoundKey
  <2>4. /\ call' \in [Threads -> CallType] /\ walk' \in [Threads -> WalkType]
         /\ task' \in [Threads -> TaskType] /\ grow' \in [Threads -> GrowType]
         /\ ret' \in [Threads -> RetType] /\ pc' \in [Threads -> Labels]
    BY <2>3, ReturnType
  <2> QED BY <1>18, <2>1, <2>2, <2>3, <2>4 DEF InsertFoundKey, TypeOK, locals
<1>19. CASE InsertLoadSize(t)
  <2>1. pc' \in [Threads -> Labels]
    BY <1>19 DEF InsertLoadSize, Goto, TypeOK, Labels
  <2>2. grow' \in [Threads -> GrowType]
    BY <1>19 DEF InsertLoadSize, TypeOK, GrowType
  <2> QED BY <1>19, <2>1, <2>2 DEF InsertLoadSize, TypeOK, locals
<1>20. CASE InsertCount(t)
  <2>1. count' \in Int
    BY <1>20, LocalTypes DEF InsertCount, TypeOK
  <2>2. CASE Overloaded(count, grow[t].sz)
    <3>1. pc' \in [Threads -> Labels]
      BY <1>20, <2>2 DEF InsertCount, Goto, TypeOK, Labels
    <3> QED BY <1>20, <2>1, <2>2, <3>1 DEF InsertCount, TypeOK, locals
  <2>3. CASE ~(Overloaded(count, grow[t].sz))
    <3>1. Return(t, 1)
      BY <1>20, <2>3 DEF InsertCount
    <3>2. /\ call' \in [Threads -> CallType] /\ walk' \in [Threads -> WalkType]
           /\ task' \in [Threads -> TaskType] /\ grow' \in [Threads -> GrowType]
           /\ ret' \in [Threads -> RetType] /\ pc' \in [Threads -> Labels]
      BY <3>1, ReturnType
    <3> QED BY <1>20, <2>1, <2>3, <3>2 DEF InsertCount, TypeOK, locals
  <2> QED BY <2>2, <2>3
<1>21. CASE ResizeAlloc(t)
  <2>1. pc' \in [Threads -> Labels]
    BY <1>21 DEF ResizeAlloc, Goto, TypeOK, Labels
  <2>2. NewTable \in TableId
    BY <1>21 DEF ResizeAlloc, TypeOK, NewTable, FreeTables
  <2>3. IsArray(Grown(grow[t].sz))
    BY LocalTypes DEF Grown, Doubled, IsArray, Null, Link, LinkType, NIL
  <2>4. DOMAIN tables' = TableId /\ \A i \in TableId : IsArray(tables'[i])
    BY <1>21, <2>3, ArrayReplace DEF ResizeAlloc, TypeOK
  <2>5. grow' \in [Threads -> GrowType]
    BY <1>21, <2>2 DEF ResizeAlloc, TypeOK, GrowType
  <2>6. hz' \in [Threads -> [0 .. 2 -> PtrType]]
    BY <1>21, PtrTypes DEF ResizeAlloc, TypeOK, Protect
  <2> QED BY <1>21, <2>1, <2>2, <2>3, <2>4, <2>5, <2>6 DEF ResizeAlloc, TypeOK,
     locals
<1>22. CASE ResizeCopy(t)
  <2>1. pc' \in [Threads -> Labels]
    BY <1>22 DEF ResizeCopy, Goto, TypeOK, Labels
  <2>2. Slot(grow[t].old, grow[t].i) \in SlotType
    BY LocalTypes DEF Slot, SlotType
  <2>3. Load(Slot(grow[t].old, grow[t].i)) \in LinkType
    BY <1>22, <2>2, LoadType DEF ResizeCopy, TypeOK
  <2>4. DOMAIN tables' = TableId /\ \A i \in TableId : IsArray(tables'[i])
    BY <1>22, <2>3, LocalTypes, ArrayUpdate DEF ResizeCopy, TypeOK, Slot
  <2>5. grow[t].i + 1 \in Nat /\ grow' = [grow EXCEPT ![t].i = grow[t].i + 1]
    BY <1>22, LocalTypes DEF ResizeCopy, TypeOK
  <2>6. grow' \in [Threads -> GrowType]
    BY <2>5 DEF TypeOK, GrowType
  <2> QED BY <1>22, <2>1, <2>2, <2>3, <2>4, <2>5, <2>6 DEF ResizeCopy, TypeOK,
     locals
<1>23. CASE ResizeGrow(t)
  <2>1. size' \in Nat \ {0}
    BY <1>23, LocalTypes DEF ResizeGrow, Doubled, TypeOK
  <2>2. DOMAIN tables' = TableId /\ \A i \in TableId : IsArray(tables'[i])
    BY <1>23, NoSlotsArray, ArrayReplace DEF ResizeGrow, TypeOK
  <2>3. CASE size = grow[t].sz
    <3>1. pc' \in [Threads -> Labels]
      BY <1>23, <2>3 DEF ResizeGrow, Goto, TypeOK, Labels
    <3> QED BY <1>23, <2>1, <2>2, <2>3, <3>1 DEF ResizeGrow, TypeOK, locals
  <2>4. CASE ~(size = grow[t].sz)
    <3>1. Return(t, 1)
      BY <1>23, <2>4 DEF ResizeGrow
    <3>2. /\ call' \in [Threads -> CallType] /\ walk' \in [Threads -> WalkType]
           /\ task' \in [Threads -> TaskType] /\ grow' \in [Threads -> GrowType]
           /\ ret' \in [Threads -> RetType] /\ pc' \in [Threads -> Labels]
      BY <3>1, ReturnType
    <3> QED BY <1>23, <2>1, <2>2, <2>4, <3>2 DEF ResizeGrow, TypeOK, locals
  <2> QED BY <2>3, <2>4
<1>24. CASE ResizeSwap(t)
  <2>1. DOMAIN tables' = TableId /\ \A i \in TableId : IsArray(tables'[i])
    BY <1>24, NoSlotsArray, ArrayReplace DEF ResizeSwap, TypeOK
  <2>2. table' \in TableId
    BY <1>24, LocalTypes DEF ResizeSwap, TypeOK
  <2>3. Return(t, 1)
    BY <1>24 DEF ResizeSwap
  <2>4. /\ call' \in [Threads -> CallType] /\ walk' \in [Threads -> WalkType]
         /\ task' \in [Threads -> TaskType] /\ grow' \in [Threads -> GrowType]
         /\ ret' \in [Threads -> RetType] /\ pc' \in [Threads -> Labels]
    BY <2>3, ReturnType
  <2> QED BY <1>24, <2>1, <2>2, <2>3, <2>4 DEF ResizeSwap, TypeOK, locals
<1>25. CASE FindMiss(t)
  <2>1. Return(t, NIL) /\ NIL \in Nat
    BY <1>25, ConstantsAssumption DEF FindMiss, NIL
  <2>2. /\ call' \in [Threads -> CallType] /\ walk' \in [Threads -> WalkType]
         /\ task' \in [Threads -> TaskType] /\ grow' \in [Threads -> GrowType]
         /\ ret' \in [Threads -> RetType] /\ pc' \in [Threads -> Labels]
    BY <2>1, ReturnType
  <2> QED BY <1>25, <2>1, <2>2 DEF FindMiss, TypeOK, locals
<1>26. CASE FindHit(t)
  <2>1. pc' \in [Threads -> Labels]
    BY <1>26 DEF FindHit, Goto, TypeOK, Labels
  <2> QED BY <1>26, <2>1 DEF FindHit, TypeOK, locals
<1>27. CASE FindValue(t)
  <2>1. heap[walk[t].cur.node].value \in Vals \cup {NIL}
    BY <1>27, LocalTypes DEF FindValue, TypeOK, Control, ControlAt, NodeType
  <2>2. hz' \in [Threads -> [0 .. 2 -> PtrType]]
    BY <1>27, <2>1, PtrTypes, BlankTypes DEF FindValue, TypeOK, ProtectValue
  <2>3. heap[walk[t].cur.node].value \in Nat
    BY ValueTypes, <2>1
  <2>4. Return(t, heap[walk[t].cur.node].value) /\ heap[walk[t].cur.node].value \in Nat
    BY <1>27, ConstantsAssumption, <2>3 DEF FindValue, NIL
  <2>5. /\ call' \in [Threads -> CallType] /\ walk' \in [Threads -> WalkType]
         /\ task' \in [Threads -> TaskType] /\ grow' \in [Threads -> GrowType]
         /\ ret' \in [Threads -> RetType] /\ pc' \in [Threads -> Labels]
    BY <2>4, ReturnType
  <2> QED BY <1>27, <2>1, <2>2, <2>3, <2>4, <2>5 DEF FindValue, TypeOK, locals
<1>28. CASE DeleteHit(t)
  <2>1. pc' \in [Threads -> Labels]
    BY <1>28 DEF DeleteHit, Goto, TypeOK, Labels
  <2> QED BY <1>28, <2>1 DEF DeleteHit, TypeOK, locals
<1>29. CASE DeleteMark(t)
  <2>1. pc' \in [Threads -> Labels]
    BY <1>29 DEF DeleteMark, Goto, TypeOK, Labels
  <2>2. Link(hz[t][0].id, 1) \in LinkType
    BY <1>29, LocalTypes DEF DeleteMark, TypeOK, Control, ControlAt, HasSuccessor,
       Link, LinkType
  <2>3. PICK x \in LinkType : heap' = heap \/ heap' = [heap EXCEPT ![walk[t].cur.node].next = x]
    BY <1>29, <2>2 DEF DeleteMark, TypeOK
  <2>4. heap' \in [Node -> NodeType]
    <3>1. CASE heap' = heap
      BY <3>1 DEF TypeOK
    <3>2. CASE heap' = [heap EXCEPT ![walk[t].cur.node].next = x]
      BY <2>3, <3>2 DEF TypeOK, NodeType
    <3> QED BY <2>3, <3>1, <3>2
  <2> QED BY <1>29, <2>1, <2>2, <2>3, <2>4 DEF DeleteMark, TypeOK, locals
<1>30. CASE DeleteDetach(t)
  <2>1. pc' \in [Threads -> Labels]
    BY <1>30 DEF DeleteDetach, Goto, TypeOK, Labels
  <2>2. Link(hz[t][0].id, 0) \in LinkType
    BY <1>30, LocalTypes DEF DeleteDetach, TypeOK, Goto, Control, ControlAt,
       HasSuccessor, Link, LinkType
  <2>3. /\ heap' \in [Node -> NodeType]
         /\ DOMAIN tables' = TableId
         /\ \A i \in TableId : IsArray(tables'[i])
    BY <1>30, <2>2, StoreType, LocalTypes DEF DeleteDetach, TypeOK
  <2> QED BY <1>30, <2>1, <2>2, <2>3 DEF DeleteDetach, TypeOK, locals
<1>31. CASE DeleteUncount(t)
  <2>1. pc' \in [Threads -> Labels]
    BY <1>31 DEF DeleteUncount, Goto, TypeOK, Labels
  <2>2. count' \in Int
    BY <1>31 DEF DeleteUncount, TypeOK
  <2> QED BY <1>31, <2>1, <2>2 DEF DeleteUncount, TypeOK, locals
<1>32. CASE DeleteTake(t)
  <2>1. pc' \in [Threads -> Labels]
    BY <1>32 DEF DeleteTake, Goto, TypeOK, Labels
  <2>2. heap[walk[t].cur.node].value \in Vals \cup {NIL}
    BY <1>32, LocalTypes DEF DeleteTake, TypeOK, Goto, Control, ControlAt, NodeType
  <2>3. hz' \in [Threads -> [0 .. 2 -> PtrType]]
    BY <1>32, <2>2, PtrTypes, BlankTypes DEF DeleteTake, TypeOK, ProtectValue
  <2>4. PICK v \in Vals \cup {NIL} : call' = [call EXCEPT ![t].val = v]
    BY <1>32, <2>2 DEF DeleteTake, TypeOK
  <2>5. call' \in [Threads -> CallType]
    BY <2>4 DEF TypeOK, CallType
  <2> QED BY <1>32, <2>1, <2>2, <2>3, <2>4, <2>5 DEF DeleteTake, TypeOK, locals
<1>33. CASE DeleteErase(t)
  <2>1. heap' \in [Node -> NodeType]
    BY <1>33 DEF DeleteErase, TypeOK, NodeType, NIL
  <2>2. Return(t, call[t].val) /\ call[t].val \in Nat
    BY <1>33, ConstantsAssumption, LocalTypes DEF DeleteErase, NIL
  <2>3. /\ call' \in [Threads -> CallType] /\ walk' \in [Threads -> WalkType]
         /\ task' \in [Threads -> TaskType] /\ grow' \in [Threads -> GrowType]
         /\ ret' \in [Threads -> RetType] /\ pc' \in [Threads -> Labels]
    BY <2>2, ReturnType
  <2> QED BY <1>33, <2>1, <2>2, <2>3 DEF DeleteErase, TypeOK, locals
<1>34. CASE Destroy(t)
  <2>1. DOMAIN tables' = TableId /\ \A i \in TableId : IsArray(tables'[i])
    BY <1>34, NoSlotsArray, ArrayReplace DEF Destroy, TypeOK
  <2>2. calls' \in [Threads -> Nat]
    BY <1>34, LocalTypes DEF Destroy, TypeOK
  <2> QED BY <1>34, <2>1, <2>2 DEF Destroy, TypeOK, locals
<1>35. CASE OutOfBounds(t)
  <2> QED BY <1>35 DEF OutOfBounds, TypeOK, locals
<1>36. CASE WildRead(t)
  <2> QED BY <1>36 DEF WildRead, TypeOK, locals
<1> QED
  BY <1>1, <1>2, <1>3, <1>4, <1>5, <1>6, <1>7, <1>8, <1>9, <1>10, <1>11, <1>12,
     <1>13, <1>14, <1>15, <1>16, <1>17, <1>18, <1>19, <1>20, <1>21, <1>22, <1>23,
     <1>24, <1>25, <1>26, <1>27, <1>28, <1>29, <1>30, <1>31, <1>32, <1>33, <1>34,
     <1>35, <1>36 DEF Progress, Begin, BucketInit, ListFind, Insert, Resize, Lookup,
     Delete, Fault

(* When the stack of hashtable_bucket_init's calls is empty: after neither a*)
(* push nor a pop of one of several frames.                                *)
LEMMA StackNotEmpty ==
  ASSUME NEW p \in Nat, NEW s \in Seq(Nat)
  PROVE  /\ <<p>> # <<>>
         /\ <<p>> \o s # <<>>
         /\ s # <<>> /\ Len(s) # 1 => Tail(s) # <<>>
<1>1. Len(<<p>>) = 1 /\ Len(<<>>) = 0
  OBVIOUS
<1>2. Len(<<p>> \o s) = 1 + Len(s)
  BY <1>1
<1>3. Len(s) \in Nat /\ (s # <<>> => Len(s) # 0)
  OBVIOUS
<1>4. ASSUME s # <<>> PROVE Len(Tail(s)) = Len(s) - 1
  BY <1>4, HeadTailProperties, Zenon
<1>5. ASSUME s # <<>>, Tail(s) = <<>> PROVE Len(s) = 1
  <2>1. Len(Tail(s)) = 0
    BY <1>1, <1>5
  <2> QED BY <2>1, <1>3, <1>4, <1>5
<1>6. <<p>> # <<>> /\ <<p>> \o s # <<>>
  BY <1>1, <1>2, <1>3
<1> QED BY <1>5, <1>6

(* The innermost bucket being initialized is a number.                     *)
LEMMA HeadType ==
  ASSUME NEW s \in Seq(Nat), s # <<>>
  PROVE  Head(s) \in Nat
OBVIOUS

(* A step of one thread leaves the other threads' local variables and hazard*)
(* pointers alone: the reason why a property of one thread's locals needs  *)
(* proof only for that thread's own steps.                                 *)
LEMMA OthersStay ==
  ASSUME TypeOK, NEW t \in Threads, Progress(t) \/ Begin(t) \/ Destroy(t),
         NEW u \in Threads \ {t}
  PROVE  /\ pc'[u] = pc[u] /\ call'[u] = call[u] /\ walk'[u] = walk[u]
         /\ task'[u] = task[u] /\ grow'[u] = grow[u] /\ hz'[u] = hz[u]
<1> USE DEF Goto, Protect, ProtectValue, Return, locals
<1>1. CASE Begin(t)
  BY <1>1 DEF Begin, BeginInsert, BeginLookup, TypeOK
<1>2. CASE Destroy(t)
  BY <1>2 DEF Destroy, TypeOK
<1>3. CASE CheckBucket(t) \/ LookupReadTable(t) \/ InsertReadSize(t)
  BY <1>3 DEF CheckBucket, LookupReadTable, InsertReadSize, TypeOK
<1>4. CASE BucketInit(t)
  BY <1>4 DEF BucketInit, InitCheckParent, InitAlloc, InitFoundDummy, InitReload, InitPublish,
     TypeOK
<1>5. CASE ListFind(t)
  BY <1>5 DEF ListFind, FindReadTable, FindReadHead, FindReadNext, FindVerify, FindUnlink,
     TypeOK
<1>6. CASE InsertPrepare(t) \/ InsertLink(t) \/ InsertFoundKey(t)
  BY <1>6 DEF InsertPrepare, InsertLink, InsertFoundKey, TypeOK
<1>7. CASE InsertLoadSize(t) \/ InsertCount(t)
  BY <1>7 DEF InsertLoadSize, InsertCount, TypeOK
<1>8. CASE Resize(t)
  BY <1>8 DEF Resize, ResizeAlloc, ResizeCopy, ResizeGrow, ResizeSwap, TypeOK
<1>9. CASE FindMiss(t) \/ FindHit(t) \/ FindValue(t)
  BY <1>9 DEF FindMiss, FindHit, FindValue, TypeOK
<1>10. CASE Delete(t)
  BY <1>10 DEF Delete, DeleteHit, DeleteMark, DeleteDetach, DeleteUncount, DeleteTake,
     DeleteErase, TypeOK
<1>11. CASE Fault(t)
  BY <1>11 DEF Fault, OutOfBounds, WildRead, TypeOK
<1> QED
  BY <1>1, <1>2, <1>3, <1>4, <1>5, <1>6, <1>7, <1>8, <1>9, <1>10, <1>11
     DEF Progress, Insert, Lookup

(* Every step preserves Control: a bucket is on the stack exactly where    *)
(* hashtable_bucket_init or a search it started runs, a current node exists*)
(* where it is read, and hazard pointer 0 still holds its successor where  *)
(* hashtable_list_delete takes it from there.                              *)
LEMMA ControlStep ==
  ASSUME TypeOK, Control, NEW t \in Threads, Progress(t) \/ Begin(t) \/ Destroy(t)
  PROVE  Control'
<1> SUFFICES ControlAt(t)'
  BY OthersStay DEF Control, ControlAt, Initializing, HasSuccessor, InInit, Searching
<1>0. ControlAt(t) /\ pc[t] \in Labels
  BY LocalTypes DEF Control
<1>1. CASE CheckBucket(t)
  <2>1. \/ pc'[t] = "init" /\ task'[t].todo = <<call[t].bucket>>
        \/ pc'[t] = "find"
    <3> DEFINE p == Slot(call[t].tbl, call[t].bucket)
    <3>1. CASE Load(p).node = NIL
      <4>1. /\ pc' = [pc EXCEPT ![t] = "init"]
            /\ task' = [task EXCEPT ![t].todo = <<call[t].bucket>>]
        BY <1>1, <3>1 DEF CheckBucket, Goto
      <4> QED BY <4>1, LocalTypes DEF TypeOK, TaskType
    <3>2. CASE Load(p).node # NIL
      BY <1>1, <3>2 DEF CheckBucket, Goto, TypeOK
    <3> QED BY <3>1, <3>2
  <2>2. pc'[t] = "init" => task'[t].todo # <<>>
    BY <2>1, StackNotEmpty, LocalTypes
  <2> QED BY <2>1, <2>2 DEF ControlAt, Initializing, HasSuccessor, InInit, Searching
<1>2. CASE InitCheckParent(t)
  <2>1. Parent(Head(task[t].todo)) \in Nat
    BY <1>2, <1>0, LocalTypes, HeadType, CodeTypes DEF InitCheckParent, ControlAt, Initializing, InInit
  <2>2. \/ pc'[t] = "init" /\ task'[t].todo = <<Parent(Head(task[t].todo))>> \o task[t].todo
        \/ pc'[t] = "alloc" /\ task'[t].todo = task[t].todo
    <3> DEFINE p == Slot(call[t].tbl, Parent(Head(task[t].todo)))
    <3>1. CASE Load(p).node = NIL
      <4>1. /\ pc' = [pc EXCEPT ![t] = "init"]
            /\ task' = [task EXCEPT ![t].todo = <<Parent(Head(task[t].todo))>> \o task[t].todo]
        BY <1>2, <3>1 DEF InitCheckParent, Goto
      <4> QED BY <4>1, LocalTypes DEF TypeOK, TaskType
    <3>2. CASE Load(p).node # NIL
      BY <1>2, <3>2 DEF InitCheckParent, Goto, TypeOK
    <3> QED BY <3>1, <3>2
  <2>3. task'[t].todo # <<>>
    BY <1>2, <1>0, <2>1, <2>2, StackNotEmpty, LocalTypes DEF InitCheckParent, ControlAt, Initializing, InInit
  <2> QED BY <2>2, <2>3 DEF ControlAt, Initializing, HasSuccessor, InInit, Searching
<1>3. CASE InitPublish(t)
  <2>1. /\ pc'[t] = IF Len(task[t].todo) = 1 THEN "find" ELSE "alloc"
        /\ task'[t].todo = Tail(task[t].todo)
    BY <1>3, LocalTypes DEF InitPublish, Goto, TypeOK
  <2>2. Len(task[t].todo) # 1 => task'[t].todo # <<>>
    BY <1>3, <1>0, <2>1, StackNotEmpty, LocalTypes DEF InitPublish, ControlAt, Initializing, InInit
  <2> QED BY <2>1, <2>2 DEF ControlAt, Initializing, HasSuccessor, InInit, Searching
<1>4. CASE FindReadNext(t)
  <2>1. CASE walk[t].cur.node = NIL
    BY <1>4, <2>1, LocalTypes DEF FindReadNext, Goto, TypeOK, ControlAt, HasSuccessor, InInit, Searching
  <2>2. CASE walk[t].cur.node # NIL
    <3> DEFINE next == heap[walk[t].cur.node].next
    <3>1. next.node \in Node \cup {NIL}
      BY <2>2, LocalTypes DEF TypeOK, NodeType, LinkType
    <3>2. /\ pc' = [pc EXCEPT ![t] = "verify"]
          /\ walk' = [walk EXCEPT ![t].nxt = next]
          /\ hz' = [hz EXCEPT ![t][0] = Ptr("node", next.node)]
      BY <1>4, <2>2 DEF FindReadNext, Goto, Protect
    <3>4. /\ pc'[t] = "verify" /\ walk'[t].cur = walk[t].cur /\ walk'[t].nxt = next
          /\ hz'[t][0] = Ptr("node", next.node)
      BY <3>2, LocalTypes DEF TypeOK, WalkType
    <3>3. hz'[t][0].id = next.node
      BY <3>1, <3>4 DEF Ptr
    <3> QED BY <2>2, <3>4, <3>3 DEF ControlAt, HasSuccessor, InInit, Searching
  <2> QED BY <2>1, <2>2
<1>5. CASE InsertLink(t)
  <2>1. \/ pc'[t] = "reload" /\ Initializing(t) /\ task'[t].todo = task[t].todo
        \/ pc'[t] = "load" /\ ~Initializing(t) /\ task'[t].todo = task[t].todo
        \/ pc'[t] = "find" /\ task'[t].todo = task[t].todo
    <3>1. CASE Initializing(t)
      <4>1. CASE UNCHANGED task
        BY <1>5, <3>1, <4>1 DEF InsertLink, Goto, TypeOK
      <4>2. CASE /\ pc' = [pc EXCEPT ![t] = "reload"]
                 /\ task' = [task EXCEPT ![t].res = task[t].dummy, ![t].dummy = NIL]
        BY <3>1, <4>2, LocalTypes DEF TypeOK, TaskType
      <4> QED BY <1>5, <3>1, <4>1, <4>2 DEF InsertLink, Goto
    <3>2. CASE ~Initializing(t)
      BY <1>5, <3>2 DEF InsertLink, Goto, TypeOK
    <3> QED BY <3>1, <3>2
  <2> QED BY <2>1 DEF ControlAt, Initializing, HasSuccessor, InInit, Searching
<1>6. CASE Begin(t)
  BY <1>0, <1>6 DEF Begin, BeginInsert, BeginLookup, Goto, Protect, TypeOK, ControlAt,
     Initializing, HasSuccessor, InInit, Searching
<1>7. CASE Destroy(t) \/ Fault(t)
  BY <1>0, <1>7 DEF Destroy, Fault, OutOfBounds, WildRead, locals, TypeOK, ControlAt,
     Initializing, HasSuccessor, InInit, Searching
<1>8. CASE InsertReadSize(t) \/ LookupReadTable(t) \/ FindHit(t)
  BY <1>0, <1>8 DEF InsertReadSize, LookupReadTable, FindHit, HoldsSought, Goto,
     Protect, locals, TypeOK, ControlAt, Initializing, HasSuccessor, InInit, Searching
<1>9. CASE InitAlloc(t) \/ InitReload(t)
  BY <1>0, <1>9 DEF InitAlloc, InitReload, Goto, Protect, TaskType, TypeOK, ControlAt,
     Initializing, HasSuccessor, InInit, Searching
<1>10. CASE InitFoundDummy(t)
  BY <1>0, <1>10 DEF InitFoundDummy, Goto, TaskType, TypeOK, ControlAt, Initializing,
     HasSuccessor, InInit, Searching
<1>11. CASE FindReadTable(t) \/ FindReadHead(t)
  BY <1>0, <1>11 DEF FindReadTable, FindReadHead, Goto, Protect, TypeOK, ControlAt,
     Initializing, HasSuccessor, InInit, Searching
<1>12. CASE FindVerify(t)
  BY <1>0, <1>12 DEF FindVerify, Goto, TypeOK, ControlAt, Initializing, HasSuccessor,
     InInit, Searching
<1>13. CASE FindUnlink(t)
  BY <1>0, <1>13 DEF FindUnlink, Goto, Protect, TypeOK, ControlAt, Initializing,
     HasSuccessor, InInit, Searching
<1>14. CASE InsertPrepare(t) \/ InsertLoadSize(t)
  BY <1>0, <1>14 DEF InsertPrepare, InsertLoadSize, Goto, Protect, locals, TypeOK,
     ControlAt, Initializing, HasSuccessor, InInit, Searching
<1>15. CASE InsertFoundKey(t) \/ FindMiss(t) \/ FindValue(t) \/ DeleteErase(t) \/ ResizeSwap(t)
  BY <1>0, <1>15 DEF InsertFoundKey, FindMiss, FindValue, DeleteErase, ResizeSwap,
     Return, NoTask, TypeOK, ControlAt, Initializing, HasSuccessor, InInit, Searching
<1>16. CASE InsertCount(t) \/ ResizeGrow(t)
  BY <1>0, <1>16 DEF InsertCount, ResizeGrow, Goto, Return, NoTask, locals, TypeOK,
     ControlAt, Initializing, HasSuccessor, InInit, Searching
<1>17. CASE ResizeAlloc(t) \/ ResizeCopy(t)
  BY <1>0, <1>17 DEF ResizeAlloc, ResizeCopy, Goto, Protect, TypeOK, ControlAt,
     Initializing, HasSuccessor, InInit, Searching
<1>18. CASE DeleteHit(t)
  BY <1>0, <1>18 DEF DeleteHit, ResultMatches, HoldsSought, Goto, locals, TypeOK,
     ControlAt, Initializing, HasSuccessor, InInit, Searching
<1>19. CASE DeleteMark(t) \/ DeleteDetach(t)
  BY <1>0, <1>19 DEF DeleteMark, DeleteDetach, Goto, locals, TypeOK, ControlAt,
     Initializing, HasSuccessor, InInit, Searching
<1>20. CASE DeleteUncount(t) \/ DeleteTake(t)
  BY <1>0, <1>20 DEF DeleteUncount, DeleteTake, Goto, locals, TypeOK, ControlAt,
     Initializing, HasSuccessor, InInit, Searching
<1> QED
  BY <1>1, <1>2, <1>3, <1>4, <1>5, <1>6, <1>7, <1>8, <1>9, <1>10, <1>11, <1>12, <1>13,
     <1>14, <1>15, <1>16, <1>17, <1>18, <1>19, <1>20 DEF Progress, BucketInit, ListFind,
     Insert, Resize, Lookup, Delete

(* No step changes the link of a node that is on the list and marked:      *)
(* every plain store goes to a node of the thread's own, and every         *)
(* compare-and-swap expects the mark bit to be clear.                      *)
LEMMA FrozenStep ==
  ASSUME TypeOK, NEW t \in Threads, Progress(t) \/ Begin(t) \/ Destroy(t),
         NEW n \in Shared, Marked(n)
  PROVE  heap'[n].next = heap[n].next
<1>1. n \in Node /\ n \in live /\ n \notin Own(t)
  BY DEF Shared, TypeOK
<1>2. CASE UNCHANGED heap
  BY <1>2
<1>3. ASSUME NEW m \in Node \cup {NIL}, NEW x, m # n, heap' = [heap EXCEPT ![m] = x]
      PROVE  heap'[n].next = heap[n].next
  BY <1>1, <1>3 DEF TypeOK
<1>4. ASSUME NEW p \in SlotType, NEW m, NEW x, LeadsTo(p, m), Store(p, x)
      PROVE  heap'[n].next = heap[n].next
  <2>1. CASE p.tb = 0
    <3>1. heap[p.ix].next.bit = 0 /\ heap' = [heap EXCEPT ![p.ix].next = x]
      BY <1>4, <2>1 DEF LeadsTo, Load, Link, Store
    <3>2. p.ix # n
      BY <3>1 DEF Marked
    <3> QED BY <1>1, <3>1, <3>2 DEF TypeOK
  <2>2. CASE p.tb # 0
    BY <1>4, <2>2 DEF Store
  <2> QED BY <2>1, <2>2
<1>5. CASE BeginInsert(t, call'[t].key, call'[t].val) \/ InitAlloc(t)
  <2>1. NewNode \in Node \ live
    BY <1>5 DEF BeginInsert, InitAlloc, NewNode
  <2> QED BY <1>1, <1>3, <1>5, <2>1 DEF BeginInsert, InitAlloc
<1>6. CASE InsertPrepare(t)
  <2>1. Inserted(t) # n /\ Inserted(t) \in Node \cup {NIL}
    BY <1>1, LocalTypes DEF Inserted, Own, NIL, Node
  <2> QED BY <1>1, <1>6, <2>1 DEF InsertPrepare, TypeOK
<1>7. CASE InitFoundDummy(t) \/ InsertFoundKey(t)
  <2>1. task[t].dummy # n /\ call[t].mine # n
    BY <1>1 DEF Own, NIL, Node
  <2>2. \/ heap' = [heap EXCEPT ![task[t].dummy] = Blank]
        \/ heap' = [heap EXCEPT ![call[t].mine] = Blank]
    BY <1>7 DEF InitFoundDummy, InsertFoundKey
  <2> QED BY <1>1, <2>1, <2>2 DEF TypeOK
<1>8. CASE FindUnlink(t) \/ InsertLink(t) \/ DeleteDetach(t)
  BY <1>2, <1>4, <1>8, LocalTypes DEF FindUnlink, InsertLink, DeleteDetach
<1>9. CASE DeleteMark(t)
  <2>1. CASE UNCHANGED heap
    BY <2>1
  <2>2. CASE heap' # heap
    <3>1. heap[walk[t].cur.node].next.bit = 0
      BY <1>9, <2>2 DEF DeleteMark, LeadsTo, Load, NextOf, Link
    <3>2. walk[t].cur.node # n
      BY <3>1 DEF Marked
    <3> QED BY <1>1, <1>9, <2>2, <3>2 DEF DeleteMark, TypeOK
  <2> QED BY <2>1, <2>2
<1>10. CASE DeleteErase(t)
  BY <1>1, <1>10 DEF DeleteErase, TypeOK, NodeType
<1> QED
  <2>1. CASE Begin(t)
    <3>1. ASSUME NEW k \in Keys, NEW v \in Vals, BeginInsert(t, k, v)
          PROVE  BeginInsert(t, call'[t].key, call'[t].val)
      <4>1. call'[t].key = k /\ call'[t].val = v
        BY <3>1 DEF BeginInsert, TypeOK
      <4> QED BY <3>1, <4>1
    <3> QED BY <1>2, <1>5, <2>1, <3>1 DEF Begin, BeginLookup
  <2>2. CASE Destroy(t) \/ Fault(t)
    BY <1>2, <2>2 DEF Destroy, Fault, OutOfBounds, WildRead
  <2>3. CASE CheckBucket(t) \/ BucketInit(t) \/ ListFind(t)
    BY <1>2, <1>5, <1>7, <1>8, <2>3 DEF CheckBucket, BucketInit, InitCheckParent, InitReload,
       InitPublish, ListFind, FindReadTable, FindReadHead, FindReadNext, FindVerify
  <2>4. CASE Insert(t) \/ Lookup(t)
    BY <1>2, <1>6, <1>7, <1>8, <2>4 DEF Insert, InsertReadSize, InsertLoadSize, InsertCount,
       Lookup, LookupReadTable, FindMiss, FindHit, FindValue
  <2>5. CASE Resize(t)
    BY <1>2, <2>5 DEF Resize, ResizeAlloc, ResizeCopy, ResizeGrow, ResizeSwap
  <2>6. CASE Delete(t)
    BY <1>2, <1>8, <1>9, <1>10, <2>6 DEF Delete, DeleteHit, DeleteUncount, DeleteTake
  <2> QED BY <2>1, <2>2, <2>3, <2>4, <2>5, <2>6 DEF Progress

(* hashtable_create starts from a state that satisfies both invariants.    *)
LEMMA InitTypes == Init => TypeOK /\ Control
<1> SUFFICES ASSUME Init PROVE TypeOK /\ Control
  OBVIOUS
<1>1. heap \in [Node -> NodeType]
  <2>1. DummyCode(0) \in Word /\ 0 \in Word
    BY CodeTypes DEF Word
  <2>2. \A c \in Word : [Blank EXCEPT !.code = c] \in NodeType
    BY BlankTypes DEF NodeType
  <2> QED BY <2>1, <2>2 DEF Init
<1>2. \A i \in TableId : IsArray(tables[i])
  BY NoSlotsArray, ConstantsAssumption
     DEF Init, IsArray, Null, Link, LinkType, NIL, Node
<1>3. TypeOK
  BY <1>1, <1>2, BlankTypes, ConstantsAssumption DEF Init, TypeOK, TableId, Node, Labels
<1>4. Control
  BY DEF Init, Control, ControlAt, Initializing, NoTask, HasSuccessor, InInit, Searching
<1> QED BY <1>3, <1>4

(* The type invariant and Control hold in every reachable state, for any   *)
(* number of threads, keys, nodes and bucket arrays.                       *)
THEOREM TypeCorrect == Spec => [](TypeOK /\ Control)
<1>1. TypeOK /\ Control /\ [Next]_vars => (TypeOK /\ Control)'
  <2> SUFFICES ASSUME TypeOK, Control, [Next]_vars PROVE (TypeOK /\ Control)'
    OBVIOUS
  <2>1. ASSUME NEW t \in Threads, Progress(t) \/ Begin(t) \/ Destroy(t)
        PROVE  (TypeOK /\ Control)'
    BY <2>1, TypeStep, ControlStep
  <2>2. CASE UNCHANGED vars
    BY <2>2 DEF vars, locals, TypeOK, Control, ControlAt, Initializing, HasSuccessor, InInit, Searching
  <2> QED BY <2>1, <2>2 DEF Next
<1> QED BY InitTypes, <1>1, PTL DEF Spec

(* A deleted node's link is never changed again (the mark compare-and-swap *)
(* of hashtable_list_delete, and the expected values of the others): no    *)
(* insertion behind a deleted node is lost and no deletion is undone.      *)
THEOREM Frozen == Spec => MarkedFrozen
<1> DEFINE Stays == \A n \in Shared : Marked(n) => heap'[n].next = heap[n].next
<1>1. TypeOK /\ [Next]_vars => [Stays]_vars
  BY FrozenStep DEF Next
<1> QED BY TypeCorrect, <1>1, PTL DEF Spec, MarkedFrozen

-----------------------------------------------------------------------------
(* Ownership.                                                              *)

(* A thread's own nodes and the shared nodes are nodes, and disjoint.      *)
LEMMA OwnTypes ==
  ASSUME TypeOK, NEW t \in Threads
  PROVE  /\ Own(t) \subseteq Node
         /\ Shared \subseteq Node /\ Shared \subseteq live
         /\ Shared \cap Own(t) = {}
         /\ NIL \notin Own(t) /\ NIL \notin Shared
         /\ Inserted(t) # NIL => Inserted(t) \in Own(t)
<1>1. Own(t) \subseteq Node /\ NIL \notin Own(t)
  BY LocalTypes DEF Own, NIL, Node
<1>2. Shared \subseteq live /\ Shared \cap Own(t) = {}
  BY DEF Shared
<1>3. Shared \subseteq Node /\ NIL \notin Shared
  BY <1>2 DEF TypeOK, NIL, Node
<1>4. Inserted(t) # NIL => Inserted(t) \in Own(t)
  BY DEF Inserted, Own
<1> QED BY <1>1, <1>2, <1>3, <1>4

(* A step of a thread preserves what Ownership says of that thread.        *)
LEMMA OwnStep ==
  ASSUME TypeOK, Control, Ownership, status = "running",
         NEW t \in Threads, Progress(t) \/ Begin(t)
  PROVE  OwnAt(t)'
<1>0. /\ OwnAt(t) /\ ControlAt(t) /\ call[t] \in CallType /\ task[t] \in TaskType
      /\ pc[t] \in Labels
  BY LocalTypes DEF Ownership, Control
<1> USE DEF Goto, locals, Initializing, Inserting, Own, InInit, Searching, Unlinked
<1>1. CASE Begin(t)
  <2>1. ASSUME NEW k \in Keys, NEW v \in Vals, BeginInsert(t, k, v) PROVE OwnAt(t)'
    BY <1>0, <2>1 DEF BeginInsert, Protect, NewNode, OwnAt, TypeOK, TaskType, NIL, Node
  <2>2. ASSUME NEW kind \in {"find", "delete"}, NEW k \in Keys, BeginLookup(t, kind, k)
        PROVE  OwnAt(t)'
    BY <1>0, <2>2 DEF BeginLookup, OwnAt, TypeOK
  <2> QED BY <1>1, <2>1, <2>2 DEF Begin
<1>2. CASE InsertReadSize(t) \/ LookupReadTable(t)
  BY <1>0, <1>2 DEF InsertReadSize, LookupReadTable, OwnAt, TypeOK, CallType, ControlAt
<1>3. CASE CheckBucket(t) \/ InitCheckParent(t)
  BY <1>0, <1>3 DEF CheckBucket, InitCheckParent, OwnAt, TypeOK, TaskType, ControlAt
<1>4. CASE InitAlloc(t)
  <2>1. NewNode \in Node \ live
    BY <1>4 DEF InitAlloc, NewNode
  <2> QED BY <1>0, <1>4, <2>1 DEF InitAlloc, OwnAt, TypeOK, TaskType, ControlAt, NIL, Node
<1>5. CASE InitFoundDummy(t) \/ InitReload(t)
  BY <1>0, <1>5 DEF InitFoundDummy, InitReload, OwnAt, TypeOK, TaskType, ControlAt
<1>6. CASE InitPublish(t)
  BY <1>0, <1>6 DEF InitPublish, OwnAt, TypeOK, TaskType, ControlAt
<1>7. CASE FindReadTable(t) \/ FindReadHead(t) \/ FindReadNext(t)
  BY <1>0, <1>7 DEF FindReadTable, FindReadHead, FindReadNext, OwnAt, TypeOK
<1>8. CASE FindVerify(t) \/ FindUnlink(t)
  BY <1>0, <1>8 DEF FindVerify, FindUnlink, OwnAt, TypeOK
<1>9. CASE InsertPrepare(t)
  BY <1>0, <1>9 DEF InsertPrepare, OwnAt, TypeOK, Inserted
<1>10. CASE InsertLink(t)
  <2>1. CASE pc'[t] = "find"
    BY <1>0, <1>10, <2>1 DEF InsertLink, OwnAt, TypeOK
  <2>2. CASE pc'[t] = "reload"
    <3>1. /\ Initializing(t)
          /\ task' = [task EXCEPT ![t].res = task[t].dummy, ![t].dummy = NIL]
      BY <1>10, <2>2 DEF InsertLink, TypeOK
    <3> QED BY <1>0, <1>10, <2>2, <3>1 DEF InsertLink, OwnAt, TypeOK, TaskType
  <2>3. CASE pc'[t] = "load"
    <3>1. ~Initializing(t) /\ call' = [call EXCEPT ![t].mine = NIL]
      BY <1>10, <2>3 DEF InsertLink, TypeOK
    <3> QED BY <1>0, <1>10, <2>3, <3>1 DEF InsertLink, OwnAt, TypeOK, CallType
  <2> QED BY <1>10, <2>1, <2>2, <2>3 DEF InsertLink, TypeOK
<1>11. CASE \E out : Return(t, out)
  BY <1>0, <1>11 DEF Return, OwnAt, TypeOK, NoArgs, NoTask
<1>12. CASE InsertLoadSize(t) \/ FindHit(t) \/ DeleteHit(t)
  BY <1>0, <1>12 DEF InsertLoadSize, FindHit, DeleteHit, OwnAt, TypeOK
<1>13. CASE InsertCount(t)
  <2>1. CASE Overloaded(count, grow[t].sz)
    BY <1>0, <1>13, <2>1 DEF InsertCount, OwnAt, TypeOK
  <2>2. CASE ~Overloaded(count, grow[t].sz)
    BY <1>11, <1>13, <2>2 DEF InsertCount
  <2> QED BY <2>1, <2>2
<1>14. CASE ResizeAlloc(t) \/ ResizeCopy(t)
  BY <1>0, <1>14 DEF ResizeAlloc, ResizeCopy, OwnAt, TypeOK
<1>15. CASE ResizeGrow(t) \/ ResizeSwap(t)
  <2>1. CASE size = grow[t].sz /\ ResizeGrow(t)
    BY <1>0, <2>1 DEF ResizeGrow, OwnAt, TypeOK
  <2> QED BY <1>11, <1>15, <2>1 DEF ResizeGrow, ResizeSwap
<1>16. CASE DeleteMark(t) \/ DeleteDetach(t) \/ DeleteUncount(t)
  BY <1>0, <1>16 DEF DeleteMark, DeleteDetach, DeleteUncount, OwnAt, TypeOK, ControlAt
<1>18. CASE DeleteTake(t)
  BY <1>0, <1>18 DEF DeleteTake, OwnAt, TypeOK, CallType
<1>19. CASE InsertFoundKey(t) \/ FindMiss(t) \/ FindValue(t) \/ DeleteErase(t)
  BY <1>11, <1>19 DEF InsertFoundKey, FindMiss, FindValue, DeleteErase
<1>17. CASE Fault(t)
  BY <1>0, <1>17 DEF Fault, OutOfBounds, WildRead, OwnAt
<1> QED
  BY <1>1, <1>2, <1>3, <1>4, <1>5, <1>6, <1>7, <1>8, <1>9, <1>10, <1>12, <1>13, <1>14,
     <1>15, <1>16, <1>17, <1>18, <1>19
     DEF Progress, BucketInit, ListFind, Insert, Resize, Lookup, Delete

(* What a step of thread t can do to the heap: it frees and forgets only   *)
(* nodes of its own, acquires only new ones, writes only its own and shared*)
(* nodes, and gives up a node without freeing it only by linking it.       *)
LEMMA Effects ==
  ASSUME TypeOK, Control, Ownership, NoDangling, status = "running",
         NEW t \in Threads, Progress(t) \/ Begin(t)
  PROVE  /\ live \ Own(t) \subseteq live'
         /\ Own(t)' \subseteq Own(t) \cup (live' \ live)
         /\ \A n \in live \ (Own(t) \cup Shared) : heap'[n] = heap[n]
         /\ \A n \in Own(t) \cap live' :
              n \in Own(t)' \/ (pc[t] = "link" /\ n = Inserted(t) /\ heap'[n] = heap[n])
<1>0. /\ OwnAt(t) /\ ControlAt(t) /\ call[t] \in CallType /\ task[t] \in TaskType
      /\ pc[t] \in Labels /\ live \subseteq Node /\ live' \ live \subseteq live'
      /\ Own(t) \subseteq live /\ NIL \notin live
  BY LocalTypes DEF Ownership, Control, OwnAt, TypeOK, NIL, Node
<1>00. /\ walk[t].prev.tb = 0 => walk[t].prev.ix \in Shared
       /\ walk[t].cur.node # NIL => walk[t].cur.node \in Shared
  BY DEF NoDangling, Target
<1> DEFINE Goal ==
      /\ live \ Own(t) \subseteq live'
      /\ Own(t)' \subseteq Own(t) \cup (live' \ live)
      /\ \A n \in live \ (Own(t) \cup Shared) : heap'[n] = heap[n]
      /\ \A n \in Own(t) \cap live' :
           n \in Own(t)' \/ (pc[t] = "link" /\ n = Inserted(t) /\ heap'[n] = heap[n])
<1> USE DEF Goto, locals
<1>1. CASE UNCHANGED <<heap, live>> /\ call'[t].mine = call[t].mine
           /\ task'[t].dummy = task[t].dummy
  <2>1. Own(t)' = Own(t)
    BY <1>1 DEF Own
  <2> QED BY <1>0, <1>1, <2>1
<1>2. CASE Begin(t)
  <2>1. ASSUME NEW k \in Keys, NEW v \in Vals, BeginInsert(t, k, v) PROVE Goal
    <3>1. NewNode \in Node \ live
      BY <2>1 DEF BeginInsert, NewNode
    <3>2. Own(t) = {}
      BY <1>0, <2>1 DEF Own, BeginInsert, OwnAt, Unlinked, InInit, Searching
    <3>3. Own(t)' \subseteq {NewNode} /\ live' = live \cup {NewNode}
      BY <1>0, <2>1, <3>2 DEF Own, BeginInsert, TypeOK
    <3>4. \A n \in live : heap'[n] = heap[n]
      BY <1>0, <2>1, <3>1 DEF BeginInsert, TypeOK
    <3> QED BY <3>1, <3>2, <3>3, <3>4
  <2>2. ASSUME NEW kind \in {"find", "delete"}, NEW k \in Keys, BeginLookup(t, kind, k)
        PROVE  Goal
    <3>1. Own(t) = {}
      BY <1>0, <2>2 DEF Own, BeginLookup, OwnAt, Unlinked, InInit, Searching
    <3>2. Own(t)' = {}
      BY <1>0, <2>2, <3>1 DEF Own, BeginLookup, TypeOK
    <3> QED BY <1>0, <2>2, <3>1, <3>2 DEF BeginLookup
  <2> QED BY <1>2, <2>1, <2>2 DEF Begin
<1>3. CASE InitAlloc(t)
  <2>1. NewNode \in Node \ live
    BY <1>3 DEF InitAlloc, NewNode
  <2>2. task[t].dummy = NIL
    BY <1>0, <1>3 DEF InitAlloc, OwnAt, Searching
  <2>3. Own(t)' = Own(t) \cup {NewNode} /\ live' = live \cup {NewNode}
    BY <1>0, <1>3, <2>1, <2>2 DEF Own, InitAlloc, TypeOK, TaskType, NIL, Node
  <2>4. \A n \in live : heap'[n] = heap[n]
    BY <1>0, <1>3, <2>1 DEF InitAlloc, TypeOK
  <2> QED BY <2>1, <2>3, <2>4
<1>4. CASE InitFoundDummy(t)
  <2>1. task[t].dummy # NIL
    BY <1>0, <1>4 DEF InitFoundDummy, OwnAt, Searching
  <2>2. Own(t)' = Own(t) \ {task[t].dummy} /\ live' = live \ {task[t].dummy}
    BY <1>0, <1>4, <2>1 DEF Own, InitFoundDummy, TypeOK, TaskType, OwnAt
  <2>3. \A n \in live : n # task[t].dummy => heap'[n] = heap[n]
    BY <1>0, <1>4 DEF InitFoundDummy, TypeOK
  <2>4. task[t].dummy \in Own(t)
    BY <2>1 DEF Own
  <2> QED BY <2>2, <2>3, <2>4
<1>5. CASE InsertFoundKey(t)
  <2>1. call[t].mine # NIL /\ task[t].dummy = NIL
    BY <1>0, <1>5 DEF InsertFoundKey, OwnAt, Unlinked, Searching
  <2>2. Own(t)' = {} /\ live' = live \ {call[t].mine}
    BY <1>0, <1>5, <2>1 DEF Own, InsertFoundKey, Return, TypeOK, NoArgs, NoTask
  <2>3. \A n \in live : n # call[t].mine => heap'[n] = heap[n]
    BY <1>0, <1>5 DEF InsertFoundKey, TypeOK
  <2>4. Own(t) = {call[t].mine}
    BY <2>1 DEF Own
  <2> QED BY <2>2, <2>3, <2>4
<1>6. CASE InsertPrepare(t)
  <2>1. Own(t)' = Own(t) /\ live' = live
    BY <1>6 DEF Own, InsertPrepare
  <2>2. \A n \in live : n # Inserted(t) => heap'[n] = heap[n]
    BY <1>0, <1>6 DEF InsertPrepare, TypeOK
  <2> QED BY <1>0, <2>1, <2>2, OwnTypes
<1>7. ASSUME live' = live, NEW x, Store(walk[t].prev, x)
      PROVE  \A n \in live : n \notin Shared => heap'[n] = heap[n]
  BY <1>0, <1>00, <1>7 DEF Store, TypeOK
<1>8. CASE FindUnlink(t) \/ DeleteDetach(t)
  <2>1. live' = live /\ Own(t)' = Own(t)
    BY <1>8 DEF FindUnlink, DeleteDetach, Own
  <2>2. \A n \in live : n \notin Shared => heap'[n] = heap[n]
    BY <1>7, <1>8, <2>1 DEF FindUnlink, DeleteDetach
  <2> QED BY <1>0, <2>1, <2>2
<1>9. CASE InsertLink(t)
  <2>1. \A n \in live : n \notin Shared => heap'[n] = heap[n]
    BY <1>7, <1>9 DEF InsertLink
  <2>2. live' = live /\ pc[t] = "link" /\ Inserted(t) \in Own(t)
    BY <1>0, <1>9, OwnTypes DEF InsertLink, OwnAt, Inserted, Inserting, Unlinked, Searching
  <2>3. \/ Own(t)' = Own(t)
        \/ Own(t)' = Own(t) \ {Inserted(t)}
    <3>1. CASE UNCHANGED <<call, task>>
      BY <3>1 DEF Own
    <3>2. CASE Initializing(t) /\ task' = [task EXCEPT ![t].res = task[t].dummy, ![t].dummy = NIL]
               /\ UNCHANGED call
      BY <1>0, <3>2 DEF Own, TypeOK, TaskType, Inserted, OwnAt
    <3>3. CASE ~Initializing(t) /\ call' = [call EXCEPT ![t].mine = NIL] /\ UNCHANGED task
      BY <1>0, <3>3 DEF Own, TypeOK, CallType, Inserted, OwnAt
    <3> QED BY <1>9, <3>1, <3>2, <3>3 DEF InsertLink
  <2> QED BY <1>0, <2>1, <2>2, <2>3, OwnTypes
<1>10. CASE DeleteMark(t)
  <2>1. \A n \in live : n \notin Shared => heap'[n] = heap[n]
    BY <1>0, <1>00, <1>10 DEF DeleteMark, ControlAt, TypeOK
  <2>2. live' = live /\ Own(t)' = Own(t)
    BY <1>10 DEF DeleteMark, Own
  <2> QED BY <2>1, <2>2
<1>11. ASSUME NEW out, Return(t, out), pc[t] \notin Unlinked \/ ~Inserting(t), live' = live,
              \A n \in live : n \notin Shared => heap'[n] = heap[n]
       PROVE  Goal
  <2>1. Own(t) = {}
    BY <1>0, <1>11 DEF Own, OwnAt, Inserting, Unlinked
  <2>2. Own(t)' = {}
    BY <1>11 DEF Own, Return, TypeOK, NoArgs, NoTask
  <2> QED BY <1>11, <2>1, <2>2
<1>12. CASE DeleteErase(t)
  <2>1. \A n \in live : n \notin Shared => heap'[n] = heap[n]
    BY <1>0, <1>00, <1>12 DEF DeleteErase, ControlAt, TypeOK
  <2> QED BY <1>11, <1>12, <2>1 DEF DeleteErase, Unlinked, InInit, Searching
<1>13. CASE FindMiss(t) \/ FindValue(t) \/ ResizeSwap(t)
  BY <1>11, <1>13 DEF FindMiss, FindValue, ResizeSwap, Unlinked, InInit, Searching
<1>14. CASE InsertCount(t)
  <2>1. CASE UNCHANGED locals
    BY <1>1, <1>14, <2>1 DEF InsertCount
  <2> QED BY <1>11, <1>14, <2>1 DEF InsertCount, Unlinked, InInit, Searching
<1>15. CASE ResizeGrow(t)
  <2>1. CASE UNCHANGED locals
    BY <1>1, <1>15, <2>1 DEF ResizeGrow
  <2> QED BY <1>11, <1>15, <2>1 DEF ResizeGrow, Unlinked, InInit, Searching
<1>16. CASE InsertReadSize(t) \/ LookupReadTable(t) \/ InsertLoadSize(t)
  BY <1>0, <1>1, <1>16 DEF InsertReadSize, LookupReadTable, InsertLoadSize, TypeOK, CallType
<1>17. CASE CheckBucket(t) \/ InitCheckParent(t) \/ InitReload(t) \/ InitPublish(t)
  BY <1>0, <1>1, <1>17
     DEF CheckBucket, InitCheckParent, InitReload, InitPublish, TypeOK, TaskType
<1>18. CASE FindReadTable(t) \/ FindReadHead(t) \/ FindReadNext(t) \/ FindVerify(t)
  BY <1>1, <1>18 DEF FindReadTable, FindReadHead, FindReadNext, FindVerify
<1>19. CASE ResizeAlloc(t) \/ ResizeCopy(t) \/ FindHit(t) \/ DeleteHit(t) \/ DeleteUncount(t)
  BY <1>1, <1>19 DEF ResizeAlloc, ResizeCopy, FindHit, DeleteHit, DeleteUncount
<1>20. CASE DeleteTake(t) \/ Fault(t)
  BY <1>0, <1>1, <1>20 DEF DeleteTake, Fault, OutOfBounds, WildRead, TypeOK, CallType
<1> QED
  BY <1>2, <1>3, <1>4, <1>5, <1>6, <1>8, <1>9, <1>10, <1>12, <1>13, <1>14, <1>15, <1>16,
     <1>17, <1>18, <1>19, <1>20
     DEF Progress, BucketInit, ListFind, Insert, Resize, Lookup, Delete

(* A node that has just been allocated belongs to the thread that did so.  *)
LEMMA NewNodeOwned ==
  ASSUME TypeOK, NEW t \in Threads, Progress(t) \/ Begin(t), NEW n \in live' \ live
  PROVE  n \in Own(t)'
<1>1. CASE Begin(t)
  <2>1. ASSUME NEW k \in Keys, NEW v \in Vals, BeginInsert(t, k, v) PROVE n \in Own(t)'
    <3>1. NewNode \in Node
      BY <2>1 DEF BeginInsert, NewNode
    <3> QED BY <2>1, <3>1 DEF BeginInsert, Own, TypeOK, NIL, Node
  <2> QED BY <1>1, <2>1 DEF Begin, BeginLookup
<1>2. CASE InitAlloc(t)
  <2>1. NewNode \in Node
    BY <1>2 DEF InitAlloc, NewNode
  <2> QED BY <1>2, <2>1, LocalTypes DEF InitAlloc, Own, TypeOK, TaskType, NIL, Node
<1>3. CASE CheckBucket(t) \/ ListFind(t) \/ Fault(t)
  BY <1>3 DEF CheckBucket, ListFind, FindReadTable, FindReadHead, FindReadNext, FindVerify,
     FindUnlink, Fault, OutOfBounds, WildRead
<1>4. CASE InitCheckParent(t) \/ InitFoundDummy(t) \/ InitReload(t) \/ InitPublish(t)
  BY <1>4 DEF InitCheckParent, InitFoundDummy, InitReload, InitPublish
<1>5. CASE Insert(t) \/ Lookup(t)
  BY <1>5 DEF Insert, InsertReadSize, InsertPrepare, InsertLink, InsertFoundKey,
     InsertLoadSize, InsertCount, Lookup, LookupReadTable, FindMiss, FindHit, FindValue
<1>6. CASE Resize(t) \/ Delete(t)
  BY <1>6 DEF Resize, ResizeAlloc, ResizeCopy, ResizeGrow, ResizeSwap, Delete, DeleteHit,
     DeleteMark, DeleteDetach, DeleteUncount, DeleteTake, DeleteErase
<1> QED BY <1>1, <1>2, <1>3, <1>4, <1>5, <1>6 DEF Progress, BucketInit

(* No node that has been on the list is ever freed while the table is in use*)
(* (the program does not reclaim deleted nodes), and the only new shared   *)
(* node is the one hashtable_list_insert links, which it leaves unchanged. *)
LEMMA SharedGrows ==
  ASSUME TypeOK, Control, Ownership, NoDangling, status = "running",
         NEW t \in Threads, Progress(t) \/ Begin(t)
  PROVE  /\ Shared \subseteq Shared'
         /\ \A n \in Shared' \ Shared :
              pc[t] = "link" /\ n = Inserted(t) /\ heap'[n] = heap[n]
<1>1. \A u \in Threads \ {t} : Own(u)' = Own(u)
  BY OthersStay DEF Own
<1>2. /\ live \ Own(t) \subseteq live'
      /\ Own(t)' \subseteq Own(t) \cup (live' \ live)
      /\ \A n \in Own(t) \cap live' :
           n \in Own(t)' \/ (pc[t] = "link" /\ n = Inserted(t) /\ heap'[n] = heap[n])
  BY Effects
<1>3. ASSUME NEW n \in Shared PROVE n \in Shared'
  <2>1. n \in live /\ \A u \in Threads : n \notin Own(u)
    BY DEF Shared
  <2>2. n \in live' /\ \A u \in Threads : n \notin Own(u)'
    BY <1>1, <1>2, <2>1
  <2> QED BY <2>2 DEF Shared
<1>4. ASSUME NEW n \in Shared' \ Shared
      PROVE  pc[t] = "link" /\ n = Inserted(t) /\ heap'[n] = heap[n]
  <2>1. n \in live' /\ \A u \in Threads : n \notin Own(u)'
    BY DEF Shared
  <2>2. n \in live
    <3> SUFFICES ASSUME n \notin live PROVE n \in Own(t)'
      BY <2>1
    <3> QED BY <2>1, NewNodeOwned
  <2>3. PICK u \in Threads : n \in Own(u)
    BY <2>2 DEF Shared
  <2>4. u = t
    BY <1>1, <2>1, <2>3
  <2> QED BY <1>2, <2>1, <2>3, <2>4
<1> QED BY <1>3, <1>4

(* Every step of a call preserves Ownership: the other threads' nodes are  *)
(* neither freed, nor taken, nor written.                                  *)
LEMMA OwnershipStep ==
  ASSUME TypeOK, Control, Ownership, NoDangling, status = "running",
         NEW t \in Threads, Progress(t) \/ Begin(t)
  PROVE  Ownership'
<1>0. /\ \A u \in Threads : OwnAt(u)
      /\ \A u, v \in Threads : u # v => Own(u) \cap Own(v) = {}
  BY DEF Ownership
<1>1. \A u \in Threads \ {t} : Own(u)' = Own(u) /\ Own(u) \subseteq live
                               /\ Own(u) \cap Own(t) = {} /\ Own(u) \cap Shared = {}
  BY <1>0, OthersStay, OwnTypes DEF Own, OwnAt
<1>2. /\ live \ Own(t) \subseteq live'
      /\ Own(t)' \subseteq Own(t) \cup (live' \ live)
      /\ \A n \in live \ (Own(t) \cup Shared) : heap'[n] = heap[n]
  BY Effects
<1>3. OwnAt(t)'
  BY OwnStep
<1>4. ASSUME NEW u \in Threads \ {t} PROVE OwnAt(u)'
  <2>1. /\ pc'[u] = pc[u] /\ call'[u] = call[u] /\ walk'[u] = walk[u]
        /\ task'[u] = task[u]
    BY OthersStay
  <2>2. Own(u)' \subseteq live'
    BY <1>1, <1>2
  <2>3. pc[u] = "link" => heap'[Inserted(u)] = heap[Inserted(u)]
    <3> SUFFICES ASSUME pc[u] = "link" PROVE heap'[Inserted(u)] = heap[Inserted(u)]
      OBVIOUS
    <3>1. Inserted(u) # NIL
      BY <1>0 DEF OwnAt, Inserting, Inserted, Unlinked, Searching
    <3>2. Inserted(u) \in Own(u)
      BY <3>1, OwnTypes
    <3> QED BY <1>1, <1>2, <3>2
  <2>4. Inserted(u)' = Inserted(u) /\ Inserting(u)' = Inserting(u)
    BY <2>1 DEF Inserted, Inserting, Initializing
  <2> QED BY <1>0, <2>1, <2>2, <2>3, <2>4 DEF OwnAt, Initializing
<1>5. ASSUME NEW u \in Threads, NEW v \in Threads, u # v
      PROVE  Own(u)' \cap Own(v)' = {}
  BY <1>0, <1>1, <1>2, <1>5
<1> QED BY <1>3, <1>4, <1>5 DEF Ownership

(* A store of a link that leads to a shared node, or nowhere, keeps all links*)
(* of shared nodes and bucket arrays so.                                   *)
LEMMA StoreLinks ==
  ASSUME TypeOK, NoDangling, status = "running", Shared \subseteq Shared',
         NEW p \in SlotType, NEW x, x.node \in Target', Store(p, x)
  PROVE  /\ \A n \in Shared : heap'[n].next.node \in Target'
         /\ \A i \in TableId : \A b \in DOMAIN tables'[i] : tables'[i][b].node \in Target'
<1>1. /\ \A n \in Shared : n \in Node /\ heap[n].next.node \in Target'
      /\ \A i \in TableId : \A b \in DOMAIN tables[i] : tables[i][b].node \in Target'
  BY OwnTypes DEF NoDangling, Target, Shared, TypeOK
<1>2. CASE p.tb = 0
  <2>1. heap' = [heap EXCEPT ![p.ix].next = x] /\ tables' = tables
    BY <1>2 DEF Store
  <2>2. \A n \in Node : heap'[n].next = IF n = p.ix THEN x ELSE heap[n].next
    BY <2>1 DEF TypeOK, NodeType
  <2> QED BY <1>1, <2>1, <2>2
<1>3. CASE p.tb # 0
  <2>1. tables' = [tables EXCEPT ![p.tb][p.ix] = x] /\ heap' = heap
    BY <1>3 DEF Store
  <2> QED BY <1>1, <2>1 DEF TypeOK
<1> QED BY <1>2, <1>3

(* After every step all links of the nodes that were shared and of the     *)
(* bucket arrays lead to shared nodes: each store and compare-and-swap     *)
(* writes a node the walk has met, or the thread's own node just as it     *)
(* becomes shared.                                                         *)
LEMMA LinksStep ==
  ASSUME TypeOK, Control, Ownership, NoDangling, status = "running",
         NEW t \in Threads, Progress(t) \/ Begin(t)
  PROVE  /\ \A n \in Shared : heap'[n].next.node \in Target'
         /\ \A i \in TableId : \A b \in DOMAIN tables'[i] : tables'[i][b].node \in Target'
<1>1. Shared \subseteq Shared' /\ Target \subseteq Target' /\ NIL \in Target'
  BY SharedGrows DEF Target
<1>2. /\ \A n \in Shared : n \in Node /\ n \in live /\ n \notin Own(t) /\ heap[n].next.node \in Target'
      /\ \A i \in TableId : \A b \in DOMAIN tables[i] : tables[i][b].node \in Target'
      /\ walk[t].cur.node \in Target' /\ walk[t].nxt.node \in Target' /\ task[t].res \in Target'
      /\ walk[t].cur.node # NIL => walk[t].cur.node \in Shared
  BY <1>1, OwnTypes DEF NoDangling, Target
<1>0. ControlAt(t) /\ OwnAt(t)
  BY DEF Control, Ownership
<1> DEFINE Heap == \A n \in Shared : heap'[n].next.node \in Target'
           Tabs == \A i \in TableId : \A b \in DOMAIN tables'[i] : tables'[i][b].node \in Target'
<1>3. \A n, b : Link(n, b).node = n
  BY DEF Link
<1>4. ASSUME UNCHANGED heap PROVE Heap
  BY <1>2, <1>4
<1>5. ASSUME UNCHANGED tables PROVE Tabs
  BY <1>2, <1>5
<1>6. ASSUME NEW m, m \notin Shared, NEW x, heap' = [heap EXCEPT ![m] = x] PROVE Heap
  BY <1>2, <1>6 DEF TypeOK
<1>7. CASE Begin(t) \/ InitAlloc(t)
  <2>1. ASSUME NewNode \in Node \ live, NEW x, heap' = [heap EXCEPT ![NewNode] = x] PROVE Heap
    BY <1>2, <1>6, <2>1
  <2>2. Node \ live # {} => NewNode \in Node \ live
    BY DEF NewNode
  <2> QED BY <1>4, <1>5, <1>7, <2>1, <2>2 DEF Begin, BeginInsert, BeginLookup, InitAlloc
<1>8. CASE InitFoundDummy(t) \/ InsertFoundKey(t)
  <2>1. task[t].dummy \notin Shared /\ call[t].mine \notin Shared
    BY <1>2, OwnTypes DEF Own
  <2> QED BY <1>5, <1>6, <1>8, <2>1 DEF InitFoundDummy, InsertFoundKey
<1>9. CASE InsertPrepare(t)
  <2>1. Inserted(t) \notin Shared
    BY <1>2, OwnTypes
  <2> QED BY <1>2, <1>5, <1>9, <2>1 DEF InsertPrepare, TypeOK
<1>10. CASE FindUnlink(t)
  <2>1. Link(walk[t].nxt.node, 0).node \in Target'
    BY <1>2, <1>3
  <2> QED BY <1>1, <1>4, <1>5, <1>10, <2>1, StoreLinks, LocalTypes DEF FindUnlink
<1>11. CASE InsertLink(t)
  <2>1. CASE UNCHANGED <<heap, tables>>
    BY <1>4, <1>5, <2>1
  <2>2. CASE Store(walk[t].prev, Link(Inserted(t), 0)) /\ pc'[t] # "find"
    <3>1. Inserted(t) \in Own(t) /\ Own(t) \subseteq live /\ Inserted(t) # NIL
      BY <1>0, <1>11, OwnTypes
         DEF InsertLink, OwnAt, Inserted, Inserting, Goto, Unlinked, Searching
    <3>2. Inserted(t) \notin Own(t)'
      <4>1. CASE Initializing(t)
        <5>1. task' = [task EXCEPT ![t].res = task[t].dummy, ![t].dummy = NIL] /\ call' = call
          BY <1>11, <2>2, <4>1 DEF InsertLink, Goto, TypeOK
        <5> QED BY <1>0, <3>1, <4>1, <5>1 DEF Own, Inserted, OwnAt, TypeOK, TaskType
      <4>2. CASE ~Initializing(t)
        <5>1. call' = [call EXCEPT ![t].mine = NIL] /\ task' = task
          BY <1>11, <2>2, <4>2 DEF InsertLink, Goto, TypeOK
        <5> QED BY <1>0, <3>1, <4>2, <5>1 DEF Own, Inserted, OwnAt, TypeOK, CallType
      <4> QED BY <4>1, <4>2
    <3>3. \A u \in Threads \ {t} : Inserted(t) \notin Own(u)'
      BY <3>1, OthersStay DEF Own, Ownership
    <3>4. Inserted(t) \in Shared'
      BY <1>11, <3>1, <3>2, <3>3 DEF Shared, InsertLink
    <3> QED BY <1>1, <1>3, <2>2, <3>4, StoreLinks, LocalTypes DEF Target
  <2> QED BY <1>11, <2>1, <2>2 DEF InsertLink, Goto, TypeOK
<1>12. CASE DeleteMark(t)
  <2>1. hz[t][0].id = walk[t].nxt.node
    BY <1>0, <1>12 DEF DeleteMark, ControlAt, HasSuccessor
  <2>2. heap' = heap \/ heap' = [heap EXCEPT ![walk[t].cur.node].next = Link(hz[t][0].id, 1)]
    BY <1>12 DEF DeleteMark
  <2>3. Heap
    BY <1>2, <1>3, <2>1, <2>2 DEF TypeOK, NodeType
  <2> QED BY <1>5, <1>12, <2>3 DEF DeleteMark
<1>13. CASE DeleteDetach(t)
  <2>1. hz[t][0].id = walk[t].nxt.node
    BY <1>0, <1>13 DEF DeleteDetach, Goto, ControlAt, HasSuccessor
  <2>2. Link(hz[t][0].id, 0).node \in Target'
    BY <1>2, <1>3, <2>1
  <2> QED BY <1>1, <1>4, <1>5, <1>13, <2>2, StoreLinks, LocalTypes DEF DeleteDetach
<1>14. CASE DeleteErase(t)
  BY <1>2, <1>5, <1>14 DEF DeleteErase, TypeOK, NodeType
<1>15. CASE InitPublish(t)
  BY <1>2, <1>3, <1>4, <1>15 DEF InitPublish, TypeOK
<1>16. CASE ResizeAlloc(t)
  BY <1>1, <1>2, <1>4, <1>16 DEF ResizeAlloc, Grown, Null, Link, TypeOK
<1>17. CASE ResizeCopy(t)
  <2>1. Load(Slot(grow[t].old, grow[t].i)).node \in Target'
    BY <1>2, <1>17, LocalTypes DEF ResizeCopy, InBounds, Load, Slot, TableId
  <2> QED BY <1>2, <1>4, <1>17, <2>1 DEF ResizeCopy, TypeOK
<1>18. CASE ResizeGrow(t) \/ ResizeSwap(t)
  BY <1>2, <1>4, <1>18 DEF ResizeGrow, ResizeSwap, NoSlots, TypeOK
<1>19. CASE CheckBucket(t) \/ InitCheckParent(t) \/ InitReload(t) \/ Fault(t)
  BY <1>4, <1>5, <1>19 DEF CheckBucket, InitCheckParent, InitReload, Fault, OutOfBounds, WildRead
<1>20. CASE FindReadTable(t) \/ FindReadHead(t) \/ FindReadNext(t) \/ FindVerify(t)
  BY <1>4, <1>5, <1>20 DEF FindReadTable, FindReadHead, FindReadNext, FindVerify
<1>21. CASE InsertReadSize(t) \/ InsertLoadSize(t) \/ InsertCount(t)
  BY <1>4, <1>5, <1>21 DEF InsertReadSize, InsertLoadSize, InsertCount
<1>22. CASE Lookup(t)
  BY <1>4, <1>5, <1>22 DEF Lookup, LookupReadTable, FindMiss, FindHit, FindValue
<1>23. CASE DeleteHit(t) \/ DeleteUncount(t) \/ DeleteTake(t)
  BY <1>4, <1>5, <1>23 DEF DeleteHit, DeleteUncount, DeleteTake
<1> QED
  BY <1>7, <1>8, <1>9, <1>10, <1>11, <1>12, <1>13, <1>14, <1>15, <1>16, <1>17, <1>18,
     <1>19, <1>20, <1>21, <1>22, <1>23
     DEF Progress, BucketInit, ListFind, Insert, Resize, Delete

(* A step's own thread ends with local pointers that lead to shared nodes. *)
LEMMA WalkStep ==
  ASSUME TypeOK, Control, Ownership, NoDangling, status = "running",
         NEW t \in Threads, Progress(t) \/ Begin(t)
  PROVE  /\ {walk[t].cur.node, walk[t].nxt.node, task[t].res}' \subseteq Target'
         /\ walk'[t].prev.tb = 0 => walk'[t].prev.ix \in Shared'
<1> DEFINE Goal == /\ {walk[t].cur.node, walk[t].nxt.node, task[t].res}' \subseteq Target'
                   /\ walk'[t].prev.tb = 0 => walk'[t].prev.ix \in Shared'
<1>1. Shared \subseteq Shared' /\ Target \subseteq Target' /\ NIL \in Target'
  BY SharedGrows DEF Target
<1>2. /\ walk[t].cur.node \in Target' /\ walk[t].nxt.node \in Target' /\ task[t].res \in Target'
      /\ walk[t].prev.tb = 0 => walk[t].prev.ix \in Shared'
      /\ walk[t].cur.node # NIL => walk[t].cur.node \in Shared'
  BY <1>1 DEF NoDangling, Target
<1>3. OwnAt(t) /\ ControlAt(t) /\ walk[t] \in WalkType /\ task[t] \in TaskType
  BY LocalTypes DEF Ownership, Control
<1>4. ASSUME walk'[t] = walk[t], task'[t].res = task[t].res PROVE Goal
  BY <1>2, <1>4
<1> USE DEF Goto, locals
<1>5. ASSUME NEW out, Return(t, out) PROVE Goal
  BY <1>1, <1>5 DEF Return, TypeOK, NoWalk, NoTask, Null, Link, Slot, NIL
<1>6. CASE Begin(t)
  BY <1>4, <1>6 DEF Begin, BeginInsert, BeginLookup
<1>7. CASE CheckBucket(t) \/ InitCheckParent(t) \/ InitAlloc(t) \/ InitReload(t)
  BY <1>3, <1>4, <1>7 DEF CheckBucket, InitCheckParent, InitAlloc, InitReload, TypeOK, TaskType
<1>8. CASE InitFoundDummy(t)
  BY <1>2, <1>3, <1>8 DEF InitFoundDummy, TypeOK, TaskType
<1>9. CASE InitPublish(t)
  BY <1>1, <1>2, <1>3, <1>9 DEF InitPublish, TypeOK, TaskType
<1>10. CASE FindReadTable(t)
  <2>1. table # 0
    BY DEF TypeOK, TableId
  <2> QED BY <1>2, <1>3, <1>10, <2>1 DEF FindReadTable, Slot, TypeOK, WalkType
<1>11. CASE FindReadHead(t)
  <2>1. Load(walk[t].prev).node \in Target'
    <3>1. CASE walk[t].prev.tb = 0
      BY <1>1, <3>1 DEF Load, NoDangling
    <3>2. CASE walk[t].prev.tb # 0
      BY <1>1, <1>3, <1>11, <3>2 DEF Load, NoDangling, FindReadHead, InBounds, WalkType, SlotType
    <3> QED BY <3>1, <3>2
  <2> QED BY <1>2, <1>3, <1>11, <2>1 DEF FindReadHead, TypeOK, WalkType
<1>12. CASE FindReadNext(t)
  <2>1. walk[t].cur.node # NIL => heap[walk[t].cur.node].next.node \in Target'
    BY <1>1 DEF NoDangling, Target
  <2> QED BY <1>2, <1>3, <1>12, <2>1 DEF FindReadNext, TypeOK, WalkType
<1>13. CASE FindVerify(t)
  <2>1. walk[t].cur.node # NIL
    BY <1>3, <1>13 DEF ControlAt, FindVerify
  <2>2. CASE UNCHANGED walk
    BY <1>4, <1>13, <2>2 DEF FindVerify
  <2>3. CASE walk' = [walk EXCEPT ![t].prev = NextOf(walk[t].cur.node), ![t].cur = walk[t].nxt]
    <3>1. /\ walk'[t].prev = NextOf(walk[t].cur.node)
          /\ walk'[t].cur = walk[t].nxt /\ walk'[t].nxt = walk[t].nxt
      BY <1>3, <2>3 DEF TypeOK, WalkType
    <3>2. walk'[t].prev.ix = walk[t].cur.node /\ task'[t].res = task[t].res
      BY <1>13, <3>1 DEF NextOf, FindVerify
    <3> QED BY <1>2, <2>1, <3>1, <3>2
  <2> QED BY <1>13, <2>2, <2>3 DEF FindVerify
<1>14. CASE FindUnlink(t)
  BY <1>2, <1>3, <1>14 DEF FindUnlink, TypeOK, WalkType
<1>15. CASE InsertLink(t)
  <2>1. CASE UNCHANGED task
    BY <1>4, <1>15, <2>1 DEF InsertLink
  <2>2. CASE /\ Store(walk[t].prev, Link(Inserted(t), 0))
             /\ Initializing(t)
             /\ task' = [task EXCEPT ![t].res = task[t].dummy, ![t].dummy = NIL]
    <3>1. task[t].dummy \in Target'
      <4>0. task[t].dummy \in live /\ task[t].dummy # NIL
        BY <1>3, <1>15, <2>2 DEF OwnAt, InsertLink, Own, Searching
      <4>1. Own(t)' = Own(t) \ {task[t].dummy} /\ live' = live /\ task[t].dummy \in Own(t)
        BY <1>3, <1>15, <2>2, <4>0 DEF InsertLink, Own, OwnAt, TypeOK, TaskType
      <4>2. \A u \in Threads \ {t} : Own(u)' = Own(u) /\ Own(u) \cap Own(t) = {}
        BY OthersStay DEF Own, Ownership
      <4>3. \A u \in Threads : task[t].dummy \notin Own(u)'
        BY <4>1, <4>2
      <4> QED BY <4>0, <4>1, <4>3 DEF Target, Shared
    <3> QED BY <1>2, <1>3, <1>15, <2>2, <3>1 DEF InsertLink, TypeOK, TaskType
  <2> QED BY <1>15, <2>1, <2>2 DEF InsertLink
<1>16. CASE InsertReadSize(t) \/ LookupReadTable(t) \/ InsertPrepare(t) \/ InsertLoadSize(t)
  BY <1>4, <1>16 DEF InsertReadSize, LookupReadTable, InsertPrepare, InsertLoadSize
<1>17. CASE InsertCount(t) \/ ResizeGrow(t) \/ InsertFoundKey(t)
  BY <1>4, <1>5, <1>17 DEF InsertCount, ResizeGrow, InsertFoundKey
<1>18. CASE ResizeAlloc(t) \/ ResizeCopy(t) \/ ResizeSwap(t)
  BY <1>4, <1>5, <1>18 DEF ResizeAlloc, ResizeCopy, ResizeSwap
<1>19. CASE FindMiss(t) \/ FindHit(t) \/ FindValue(t)
  BY <1>4, <1>5, <1>19 DEF FindMiss, FindHit, FindValue
<1>20. CASE Delete(t)
  BY <1>4, <1>5, <1>20 DEF Delete, DeleteHit, DeleteMark, DeleteDetach, DeleteUncount,
     DeleteTake, DeleteErase
<1>21. CASE Fault(t)
  BY <1>4, <1>21 DEF Fault, OutOfBounds, WildRead
<1> QED
  BY <1>6, <1>7, <1>8, <1>9, <1>10, <1>11, <1>12, <1>13, <1>14, <1>15, <1>16, <1>17, <1>18,
     <1>19, <1>20, <1>21
     DEF Progress, BucketInit, ListFind, Insert, Resize, Lookup

(* Every step of a call preserves NoDangling; a node being linked was      *)
(* prepared to lead to the walk's current node.                            *)
LEMMA NoDanglingStep ==
  ASSUME TypeOK, Control, Ownership, NoDangling, status = "running",
         NEW t \in Threads, Progress(t) \/ Begin(t)
  PROVE  NoDangling'
<1>1. Shared \subseteq Shared' /\ Target \subseteq Target'
  BY SharedGrows DEF Target
<1>2. ASSUME NEW n \in Shared' PROVE heap'[n].next.node \in Target'
  <2>1. CASE n \in Shared
    BY <2>1, LinksStep
  <2>2. CASE n \notin Shared
    <3>1. pc[t] = "link" /\ n = Inserted(t) /\ heap'[n] = heap[n]
      BY <2>2, SharedGrows
    <3>2. heap[n].next = Link(walk[t].cur.node, 0)
      BY <3>1 DEF Ownership, OwnAt
    <3>3. heap[n].next.node = walk[t].cur.node
      BY <3>2 DEF Link
    <3>4. walk[t].cur.node \in Target
      BY DEF NoDangling
    <3> QED BY <1>1, <3>1, <3>3, <3>4
  <2> QED BY <2>1, <2>2
<1>3. ASSUME NEW u \in Threads
      PROVE  /\ {walk[u].cur.node, walk[u].nxt.node, task[u].res}' \subseteq Target'
             /\ walk'[u].prev.tb = 0 => walk'[u].prev.ix \in Shared'
  <2>1. CASE u = t
    BY <2>1, WalkStep
  <2>2. CASE u # t
    <3>1. walk'[u] = walk[u] /\ task'[u] = task[u]
      BY <2>2, OthersStay
    <3> QED BY <1>1, <3>1 DEF NoDangling
  <2> QED BY <2>1, <2>2
<1> QED BY <1>2, <1>3, LinksStep DEF NoDangling

(* The table hashtable_create returns satisfies both invariants.           *)
LEMMA InitMemory == Init => Ownership /\ NoDangling
<1> SUFFICES ASSUME Init PROVE Ownership /\ NoDangling
  OBVIOUS
<1>1. \A t \in Threads : Own(t) = {}
  BY DEF Init, Own, NoArgs, NoTask
<1>2. Ownership
  BY <1>1 DEF Init, Ownership, OwnAt, NoArgs, NoTask, Initializing, Unlinked, InInit, Searching
<1>3. Shared = {1} /\ 1 \in Node
  BY <1>1, ConstantsAssumption DEF Init, Shared, Node
<1>4. \A n \in Node : heap[n].next = Null
  BY DEF Init, Blank
<1>5. \A i \in TableId : \A b \in DOMAIN tables[i] : tables[i][b].node \in {1, NIL}
  BY DEF Init, NoSlots, Link, Null
<1>6. Target = {1, NIL}
  BY <1>3 DEF Target
<1>7. heap[1].next.node \in Target
  BY <1>3, <1>4, <1>6 DEF Null, Link
<1>8. \A t \in Threads : /\ walk[t].cur.node = NIL /\ walk[t].nxt.node = NIL /\ task[t].res = NIL
                         /\ walk[t].prev.tb = 1
  BY DEF Init, NoWalk, NoTask, Null, Link, Slot
<1>9. NoDangling
  BY <1>3, <1>5, <1>6, <1>7, <1>8 DEF NoDangling
<1> QED BY <1>2, <1>9

(* Memory safety of every interleaving of hashtable_insert, hashtable_find,*)
(* hashtable_delete, bucket initialization and resizing: a node that is not*)
(* yet linked has exactly one owner, and no pointer that a thread can follow*)
(* leads to a node that was freed or was never published.                  *)
THEOREM MemorySafe == Spec => [](Ownership /\ NoDangling)
<1> DEFINE IInv == TypeOK /\ Control /\ Ownership /\ NoDangling
<1>1. Init => IInv
  BY InitTypes, InitMemory
<1>2. IInv /\ [Next]_vars => IInv'
  <2> SUFFICES ASSUME IInv, [Next]_vars PROVE IInv'
    OBVIOUS
  <2>1. ASSUME NEW t \in Threads, status = "running", Progress(t) \/ Begin(t) PROVE IInv'
    BY <2>1, TypeStep, ControlStep, OwnershipStep, NoDanglingStep
  <2>2. ASSUME NEW t \in Threads, Destroy(t) PROVE IInv'
    <3>1. TypeOK' /\ Control'
      BY <2>2, TypeStep, ControlStep
    <3>2. status' = "destroyed"
      BY <2>2 DEF Destroy
    <3> QED BY <3>1, <3>2 DEF Ownership, NoDangling
  <2>3. CASE UNCHANGED vars
    <3>1. TypeOK' /\ Control'
      BY <2>3 DEF vars, locals, TypeOK, Control, ControlAt, Initializing, HasSuccessor,
         InInit, Searching
    <3>2. Ownership'
      BY <2>3 DEF vars, locals, Ownership, OwnAt, Own, Initializing, Inserting, Inserted,
         Unlinked, InInit, Searching
    <3>3. NoDangling'
      BY <2>3 DEF vars, locals, NoDangling, Target, Shared, Own
    <3> QED BY <3>1, <3>2, <3>3
  <2> QED BY <2>1, <2>2, <2>3 DEF Next, Progress
<1> QED BY <1>1, <1>2, PTL DEF Spec

-----------------------------------------------------------------------------
(* Hazard pointers.                                                        *)

(* A walk starts at a slot, for which hazard pointer 2 is not needed.      *)
ProtectedAt(t) ==
  /\ pc[t] = "head" => walk[t].prev.tb # 0
  /\ pc[t] \in Walking =>
       /\ hz[t][1] = Ptr("node", walk[t].cur.node)
       /\ walk[t].prev.tb = 0 => hz[t][2] = Ptr("node", walk[t].prev.ix)

(* A step of hashtable_list_find, or of what follows it, keeps or sets the *)
(* hazard pointers its thread's walk needs.                                *)
LEMMA ProtectedStep ==
  ASSUME TypeOK, NEW t \in Threads, ProtectedAt(t), Progress(t) \/ Begin(t) \/ Destroy(t)
  PROVE  ProtectedAt(t)'
<1>0. /\ walk[t] \in WalkType /\ pc[t] \in Labels /\ hz[t] \in [0 .. 2 -> PtrType]
      /\ table # 0
  BY LocalTypes DEF TypeOK, TableId
<1> USE DEF Goto, locals, Walking
<1>1. CASE Begin(t)
  BY <1>0, <1>1 DEF Begin, BeginInsert, BeginLookup, TypeOK, ProtectedAt
<1>2. CASE Destroy(t)
  BY <1>0, <1>2 DEF Destroy, ProtectedAt
<1>3. CASE CheckBucket(t) \/ LookupReadTable(t) \/ InsertReadSize(t)
  BY <1>0, <1>3 DEF CheckBucket, LookupReadTable, InsertReadSize, TypeOK, ProtectedAt
<1>4. CASE BucketInit(t)
  BY <1>0, <1>4 DEF BucketInit, InitCheckParent, InitAlloc, InitFoundDummy, InitReload,
     InitPublish, TypeOK, ProtectedAt
<1>5. CASE FindReadTable(t)
  BY <1>0, <1>5 DEF FindReadTable, Slot, TypeOK, WalkType, ProtectedAt
<1>6. CASE FindReadHead(t)
  <2>1. walk'[t].prev.tb # 0 /\ hz'[t][1] = Ptr("node", walk'[t].cur.node)
    BY <1>0, <1>6 DEF FindReadHead, Protect, TypeOK, WalkType, ProtectedAt
  <2> QED BY <1>6, <2>1 DEF FindReadHead, TypeOK, ProtectedAt
<1>7. CASE FindReadNext(t)
  <2>1. /\ walk'[t].cur = walk[t].cur /\ walk'[t].prev = walk[t].prev
        /\ hz'[t][1] = hz[t][1] /\ hz'[t][2] = hz[t][2]
    BY <1>0, <1>7 DEF FindReadNext, Protect, TypeOK, WalkType
  <2> QED BY <1>7, <2>1 DEF FindReadNext, TypeOK, ProtectedAt
<1>8. CASE FindVerify(t)
  <2>1. CASE UNCHANGED <<hz, walk>>
    BY <1>8, <2>1 DEF FindVerify, TypeOK, ProtectedAt
  <2>2. CASE /\ hz' = [hz EXCEPT ![t][1] = Ptr("node", walk[t].nxt.node),
                                 ![t][2] = Ptr("node", walk[t].cur.node)]
             /\ walk' = [walk EXCEPT ![t].prev = NextOf(walk[t].cur.node), ![t].cur = walk[t].nxt]
    <3>1. walk'[t].cur = walk[t].nxt /\ walk'[t].prev = NextOf(walk[t].cur.node)
      BY <1>0, <2>2 DEF TypeOK, WalkType
    <3>2. hz'[t][1] = Ptr("node", walk[t].nxt.node) /\ hz'[t][2] = Ptr("node", walk[t].cur.node)
      BY <1>0, <2>2 DEF TypeOK
    <3>3. pc'[t] # "head"
      BY <1>8 DEF FindVerify, TypeOK
    <3>4. walk'[t].prev.ix = walk[t].cur.node
      BY <3>1 DEF NextOf
    <3> QED BY <3>1, <3>2, <3>3, <3>4 DEF ProtectedAt
  <2> QED BY <1>8, <2>1, <2>2 DEF FindVerify
<1>9. CASE FindUnlink(t)
  <2>1. CASE UNCHANGED <<hz, walk>>
    BY <1>9, <2>1 DEF FindUnlink, TypeOK, ProtectedAt
  <2>2. CASE /\ Protect(t, 1, Ptr("node", walk[t].nxt.node))
             /\ walk' = [walk EXCEPT ![t].cur = walk[t].nxt]
    <3>1. walk'[t].cur = walk[t].nxt /\ walk'[t].prev = walk[t].prev
      BY <1>0, <2>2 DEF TypeOK, WalkType
    <3>2. hz'[t][1] = Ptr("node", walk[t].nxt.node) /\ hz'[t][2] = hz[t][2]
      BY <1>0, <2>2 DEF Protect, TypeOK
    <3> QED BY <1>9, <3>1, <3>2 DEF FindUnlink, TypeOK, ProtectedAt
  <2> QED BY <1>9, <2>1, <2>2 DEF FindUnlink
<1>10. CASE InsertPrepare(t)
  BY <1>0, <1>10 DEF InsertPrepare, Protect, TypeOK, ProtectedAt
<1>11. CASE InsertLink(t)
  BY <1>0, <1>11 DEF InsertLink, TypeOK, ProtectedAt
<1>12. CASE InsertFoundKey(t) \/ FindMiss(t) \/ FindValue(t) \/ DeleteErase(t) \/ ResizeSwap(t)
  BY <1>0, <1>12 DEF InsertFoundKey, FindMiss, FindValue, DeleteErase, ResizeSwap, Return,
     TypeOK, ProtectedAt
<1>13. CASE InsertLoadSize(t) \/ InsertCount(t) \/ ResizeAlloc(t) \/ ResizeCopy(t)
  BY <1>0, <1>13 DEF InsertLoadSize, InsertCount, ResizeAlloc, ResizeCopy, Return, TypeOK,
     ProtectedAt
<1>14. CASE ResizeGrow(t)
  BY <1>0, <1>14 DEF ResizeGrow, Return, TypeOK, ProtectedAt
<1>15. CASE FindHit(t) \/ DeleteHit(t) \/ DeleteMark(t)
  BY <1>0, <1>15 DEF FindHit, DeleteHit, DeleteMark, TypeOK, ProtectedAt
<1>16. CASE DeleteDetach(t) \/ DeleteUncount(t) \/ DeleteTake(t)
  BY <1>0, <1>16 DEF DeleteDetach, DeleteUncount, DeleteTake, TypeOK, ProtectedAt
<1>17. CASE Fault(t)
  BY <1>0, <1>17 DEF Fault, OutOfBounds, WildRead, ProtectedAt
<1> QED
  BY <1>1, <1>2, <1>3, <1>4, <1>5, <1>6, <1>7, <1>8, <1>9, <1>10, <1>11, <1>12, <1>13,
     <1>14, <1>15, <1>16, <1>17 DEF Progress, ListFind, Insert, Resize, Lookup, Delete

(* The current node of a walk and the node whose link led to it are in the *)
(* thread's hazard pointers wherever the code goes on to use them.         *)
THEOREM WalkProtected == Spec => []Protected
<1> DEFINE IInv == \A t \in Threads : ProtectedAt(t)
<1>1. Init => IInv
  BY DEF Init, ProtectedAt, Walking
<1>2. TypeOK /\ IInv /\ [Next]_vars => IInv'
  <2> SUFFICES ASSUME TypeOK, IInv, [Next]_vars PROVE IInv'
    OBVIOUS
  <2>1. ASSUME NEW t \in Threads, Progress(t) \/ Begin(t) \/ Destroy(t) PROVE IInv'
    <3>1. ASSUME NEW u \in Threads \ {t} PROVE ProtectedAt(u)'
      BY <2>1, OthersStay DEF ProtectedAt, Walking
    <3> QED BY <2>1, <3>1, ProtectedStep
  <2>2. CASE UNCHANGED vars
    BY <2>2 DEF vars, locals, ProtectedAt, Walking
  <2> QED BY <2>1, <2>2 DEF Next
<1>3. IInv => Protected
  BY DEF ProtectedAt, Protected
<1> QED BY TypeCorrect, <1>1, <1>2, <1>3, PTL DEF Spec

-----------------------------------------------------------------------------
(* The count.                                                              *)

(* A node keeps its code as long as it is allocated, and a node on the list*)
(* its mark bit, except where hashtable_list_delete sets it: every other   *)
(* compare-and-swap expects the bit to be clear and leaves it so.          *)
LEMMA NodesStay ==
  ASSUME TypeOK, Control, Ownership, NoDangling, status = "running",
         NEW t \in Threads, Progress(t) \/ Begin(t)
  PROVE  /\ \A n \in live \cap live' : heap'[n].code = heap[n].code /\ heap'[n].key = heap[n].key
         /\ \A n \in Shared :
              heap'[n].next.bit =
                IF pc[t] = "mark" /\ pc'[t] = "detach" /\ n = walk[t].cur.node
                THEN 1 ELSE heap[n].next.bit
<1> DEFINE Code == \A n \in live \cap live' : heap'[n].code = heap[n].code /\ heap'[n].key = heap[n].key
           Bits == \A n \in Shared : heap'[n].next.bit = heap[n].next.bit
<1>0. /\ live \subseteq Node /\ Shared \subseteq live /\ Shared \subseteq live'
      /\ \A n \in Shared : n \notin Own(t)
      /\ heap \in [Node -> NodeType] /\ NIL \notin Node
  BY SharedGrows, OwnTypes DEF TypeOK, Shared, NIL, Node
<1>1. ASSUME UNCHANGED heap PROVE Code /\ Bits
  BY <1>1
<1>2. ASSUME NEW m, m \notin live \cap live', NEW x, heap' = [heap EXCEPT ![m] = x]
      PROVE  Code /\ Bits
  BY <1>0, <1>2
<1>3. ASSUME NEW p \in SlotType, NEW m, NEW n, LeadsTo(p, m), Store(p, Link(n, 0))
      PROVE  Code /\ Bits
  <2>1. CASE p.tb = 0
    <3>1. /\ heap[p.ix].next.bit = 0 /\ heap' = [heap EXCEPT ![p.ix].next = Link(n, 0)]
          /\ Link(n, 0).bit = 0
      BY <1>3, <2>1 DEF LeadsTo, Load, Link, Store
    <3>2. \A i \in Node : heap'[i] = IF i = p.ix THEN [heap[i] EXCEPT !.next = Link(n, 0)] ELSE heap[i]
      BY <1>0, <3>1
    <3> QED BY <1>0, <3>1, <3>2 DEF NodeType
  <2>2. CASE p.tb # 0
    BY <1>3, <2>2 DEF Store
  <2> QED BY <2>1, <2>2
<1>4. CASE Begin(t) \/ InitAlloc(t)
  <2>1. ASSUME NewNode \in Node \ live, NEW x, heap' = [heap EXCEPT ![NewNode] = x] PROVE Code /\ Bits
    BY <1>2, <2>1
  <2>2. Node \ live # {} => NewNode \in Node \ live
    BY DEF NewNode
  <2>3. Code /\ Bits
    BY <1>1, <1>4, <2>1, <2>2 DEF Begin, BeginInsert, BeginLookup, InitAlloc
  <2> QED BY <1>4, <2>3 DEF Begin, BeginInsert, BeginLookup, InitAlloc, Goto
<1>5. CASE InitFoundDummy(t) \/ InsertFoundKey(t)
  <2>1. \/ live' = live \ {task[t].dummy} /\ heap' = [heap EXCEPT ![task[t].dummy] = Blank]
        \/ live' = live \ {call[t].mine} /\ heap' = [heap EXCEPT ![call[t].mine] = Blank]
    BY <1>5 DEF InitFoundDummy, InsertFoundKey
  <2>2. Code /\ Bits
    BY <1>2, <2>1
  <2> QED BY <1>5, <2>2 DEF InitFoundDummy, InsertFoundKey, Goto
<1>6. CASE InsertPrepare(t)
  <2>1. Inserted(t) \notin Shared
    BY <1>0, OwnTypes
  <2>2. /\ heap' = [heap EXCEPT ![Inserted(t)].next = Link(walk[t].cur.node, 0)]
        /\ pc[t] = "found"
    BY <1>6 DEF InsertPrepare
  <2>3. \A i \in Node : heap'[i] = IF i = Inserted(t)
                                  THEN [heap[i] EXCEPT !.next = Link(walk[t].cur.node, 0)] ELSE heap[i]
    BY <1>0, <2>2
  <2> QED BY <1>0, <2>1, <2>2, <2>3 DEF NodeType
<1>7. CASE FindUnlink(t) \/ InsertLink(t) \/ DeleteDetach(t)
  <2>1. Code /\ Bits
    BY <1>1, <1>3, <1>7, LocalTypes DEF FindUnlink, InsertLink, DeleteDetach
  <2> QED BY <1>7, <2>1 DEF FindUnlink, InsertLink, DeleteDetach, Goto
<1>8. CASE DeleteMark(t)
  <2>1. CASE UNCHANGED heap /\ Goto(t, "mark", "find")
    BY <2>1 DEF Goto, TypeOK
  <2>2. CASE /\ heap' = [heap EXCEPT ![walk[t].cur.node].next = Link(hz[t][0].id, 1)]
             /\ Goto(t, "mark", "detach")
    <3>1. \A i \in Node : heap'[i] = IF i = walk[t].cur.node
                                    THEN [heap[i] EXCEPT !.next = Link(hz[t][0].id, 1)] ELSE heap[i]
      BY <1>0, <2>2
    <3>2. pc[t] = "mark" /\ pc'[t] = "detach" /\ Link(hz[t][0].id, 1).bit = 1
      BY <2>2 DEF Goto, TypeOK, Link
    <3> QED BY <1>0, <3>1, <3>2 DEF NodeType
  <2> QED BY <1>8, <2>1, <2>2 DEF DeleteMark
<1>9. CASE DeleteErase(t)
  <2>1. \A i \in Node : heap'[i] = IF i = walk[t].cur.node
                                  THEN [heap[i] EXCEPT !.value = NIL] ELSE heap[i]
    BY <1>0, <1>9 DEF DeleteErase
  <2> QED BY <1>0, <1>9, <2>1 DEF DeleteErase, NodeType
<1>10. CASE UNCHANGED heap /\ pc[t] # "mark"
  BY <1>10
<1> QED
  <2>1. CASE CheckBucket(t) \/ BucketInit(t) \/ ListFind(t)
    BY <1>4, <1>5, <1>7, <1>10, <2>1 DEF CheckBucket, BucketInit, InitCheckParent, InitReload,
       InitPublish, ListFind, FindReadTable, FindReadHead, FindReadNext, FindVerify, Goto
  <2>2. CASE Insert(t) \/ Lookup(t)
    BY <1>5, <1>6, <1>7, <1>10, <2>2 DEF Insert, InsertReadSize, InsertLoadSize, InsertCount,
       Lookup, LookupReadTable, FindMiss, FindHit, FindValue, Goto
  <2>3. CASE Resize(t) \/ Fault(t)
    BY <1>10, <2>3 DEF Resize, ResizeAlloc, ResizeCopy, ResizeGrow, ResizeSwap, Goto,
       Fault, OutOfBounds, WildRead
  <2>4. CASE Delete(t)
    BY <1>7, <1>8, <1>9, <1>10, <2>4 DEF Delete, DeleteHit, DeleteUncount, DeleteTake, Goto
  <2> QED BY <1>4, <2>1, <2>2, <2>3, <2>4 DEF Progress

(* The calls that have linked a node and not yet counted it, and those that*)
(* have marked one and not yet uncounted it.                               *)
Adding   == {"load", "count"}
Removing == {"detach", "uncount"}

(* Which steps of a call give it a node of its own, find one to mark, or   *)
(* change what CountExact sums up.                                         *)
LEMMA Transitions ==
  ASSUME TypeOK, NEW t \in Threads, Progress(t) \/ Begin(t)
  PROVE  /\ \/ call'[t].mine \in {NIL, call[t].mine}
            \/ \E k \in Keys, v \in Vals : BeginInsert(t, k, v)
         /\ task'[t].dummy \in {NIL, task[t].dummy} \/ InitAlloc(t)
         /\ pc'[t] = "mark" => DeleteHit(t) \/ Fault(t)
         /\ (pc'[t] \in Adding <=> pc[t] \in Adding) \/ InsertLink(t) \/ InsertCount(t)
         /\ (pc'[t] \in Removing <=> pc[t] \in Removing) \/ DeleteMark(t) \/ DeleteUncount(t)
         /\ count' = count \/ InsertCount(t) \/ DeleteUncount(t)
         /\ status' # "destroyed" \/ status = "destroyed"
<1>0. /\ call[t] \in CallType /\ task[t] \in TaskType /\ pc[t] \in Labels
  BY LocalTypes
<1> USE DEF Goto, locals, Adding, Removing
<1>1. CASE Begin(t)
  BY <1>0, <1>1 DEF Begin, BeginInsert, BeginLookup, TypeOK
<1>2. CASE CheckBucket(t) \/ LookupReadTable(t) \/ InsertReadSize(t)
  BY <1>0, <1>2 DEF CheckBucket, LookupReadTable, InsertReadSize, TypeOK, CallType, TaskType
<1>3. CASE InitCheckParent(t) \/ InitAlloc(t)
  BY <1>0, <1>3 DEF InitCheckParent, InitAlloc, TypeOK, TaskType
<1>4. CASE InitFoundDummy(t) \/ InitReload(t) \/ InitPublish(t)
  BY <1>0, <1>4 DEF InitFoundDummy, InitReload, InitPublish, TypeOK, TaskType
<1>5. CASE FindReadTable(t) \/ FindReadHead(t) \/ FindReadNext(t)
  BY <1>0, <1>5 DEF FindReadTable, FindReadHead, FindReadNext, TypeOK
<1>6. CASE FindVerify(t) \/ FindUnlink(t)
  BY <1>0, <1>6 DEF FindVerify, FindUnlink, TypeOK
<1>7. CASE InsertPrepare(t) \/ InsertLoadSize(t)
  BY <1>0, <1>7 DEF InsertPrepare, InsertLoadSize, TypeOK
<1>8. CASE InsertLink(t)
  <2>1. \/ UNCHANGED task \/ task' = [task EXCEPT ![t].res = task[t].dummy, ![t].dummy = NIL]
    BY <1>8 DEF InsertLink
  <2>2. task'[t].dummy \in {NIL, task[t].dummy}
    BY <1>0, <2>1 DEF TypeOK, TaskType
  <2>3. UNCHANGED call \/ call' = [call EXCEPT ![t].mine = NIL]
    BY <1>8 DEF InsertLink
  <2>4. call'[t].mine \in {NIL, call[t].mine}
    BY <1>0, <2>3 DEF TypeOK, CallType
  <2>5. pc'[t] \in {"find", "load", "reload"} /\ count' = count /\ status' = status
        /\ pc[t] = "link"
    BY <1>8 DEF InsertLink, TypeOK
  <2> QED BY <1>8, <2>2, <2>4, <2>5
<1>9. CASE InsertFoundKey(t) \/ FindMiss(t) \/ FindValue(t) \/ DeleteErase(t) \/ ResizeSwap(t)
  BY <1>0, <1>9 DEF InsertFoundKey, FindMiss, FindValue, DeleteErase, ResizeSwap, Return,
     NoArgs, NoTask, TypeOK
<1>10. CASE InsertCount(t)
  BY <1>0, <1>10 DEF InsertCount, Return, NoArgs, NoTask, TypeOK
<1>11. CASE ResizeAlloc(t) \/ ResizeCopy(t) \/ ResizeGrow(t)
  BY <1>0, <1>11 DEF ResizeAlloc, ResizeCopy, ResizeGrow, Return, NoArgs, NoTask, TypeOK
<1>12. CASE FindHit(t) \/ DeleteHit(t) \/ DeleteMark(t)
  BY <1>0, <1>12 DEF FindHit, DeleteHit, DeleteMark, TypeOK
<1>13. CASE DeleteDetach(t) \/ DeleteUncount(t) \/ DeleteTake(t)
  BY <1>0, <1>13 DEF DeleteDetach, DeleteUncount, DeleteTake, TypeOK, CallType
<1>14. CASE Fault(t)
  BY <1>0, <1>14 DEF Fault, OutOfBounds, WildRead
<1> QED
  BY <1>1, <1>2, <1>3, <1>4, <1>5, <1>6, <1>7, <1>8, <1>9, <1>10, <1>11, <1>12, <1>13,
     <1>14 DEF Progress, BucketInit, ListFind, Insert, Resize, Lookup, Delete

(* What a thread's own nodes and the node it is about to mark are: a key's *)
(* node, a bucket's, a key's.                                              *)
KindAt(t) ==
  /\ call[t].mine # NIL => IsRegular(heap[call[t].mine].code)
  /\ task[t].dummy # NIL => ~IsRegular(heap[task[t].dummy].code)
  /\ pc[t] = "mark" => IsRegular(heap[walk[t].cur.node].code)

(* Every step of a call preserves this for every thread.                   *)
LEMMA KindStep ==
  ASSUME TypeOK, Control, Ownership, NoDangling, status = "running",
         \A u \in Threads : KindAt(u),
         NEW t \in Threads, Progress(t) \/ Begin(t), NEW u \in Threads
  PROVE  KindAt(u)'
<1>0. /\ \A v \in Threads : OwnAt(v) /\ ControlAt(v) /\ KindAt(v) /\ Own(v) \subseteq live
      /\ \A n \in live \cap live' : heap'[n].code = heap[n].code
      /\ Shared \subseteq live \cap live'
  BY NodesStay, SharedGrows DEF Ownership, Control, OwnAt, Shared
<1>1. status' # "destroyed"
  BY Transitions
<1>2. Own(u)' \subseteq live'
  BY <1>1, OwnershipStep DEF Ownership, OwnAt
<1>3. walk[u].cur.node # NIL => walk[u].cur.node \in Shared
  BY DEF NoDangling, Target
<1>4. ASSUME call'[u].mine \in {NIL, call[u].mine}, call'[u].mine # NIL
      PROVE  IsRegular(heap'[call'[u].mine].code)
  <2>1. call'[u].mine \in live \cap live'
    BY <1>0, <1>2, <1>4 DEF Own
  <2> QED BY <1>0, <1>4, <2>1 DEF KindAt
<1>5. ASSUME task'[u].dummy \in {NIL, task[u].dummy}, task'[u].dummy # NIL
      PROVE  ~IsRegular(heap'[task'[u].dummy].code)
  <2>1. task'[u].dummy \in live \cap live'
    BY <1>0, <1>2, <1>5 DEF Own
  <2> QED BY <1>0, <1>5, <2>1 DEF KindAt
<1>6. CASE u # t
  <2>1. /\ pc'[u] = pc[u] /\ call'[u] = call[u] /\ walk'[u] = walk[u] /\ task'[u] = task[u]
    BY <1>6, OthersStay
  <2>2. pc[u] = "mark" => IsRegular(heap'[walk[u].cur.node].code)
    BY <1>0, <1>3 DEF ControlAt, KindAt
  <2> QED BY <1>4, <1>5, <2>1, <2>2 DEF KindAt
<1>7. CASE u = t
  <2>1. ASSUME NEW k \in Keys, NEW v \in Vals, BeginInsert(t, k, v)
        PROVE  IsRegular(heap'[call'[t].mine].code)
    <3>1. NewNode \in Node
      BY <2>1 DEF BeginInsert, NewNode
    <3>2. heap'[NewNode].code = RegularCode(Hash(k)) /\ call'[t].mine = NewNode
      BY <2>1, <3>1 DEF BeginInsert, TypeOK
    <3>3. k \in Nat
      BY ConstantsAssumption
    <3> QED BY <3>2, <3>3, CodeTypes, CodeKinds
  <2>2. ASSUME InitAlloc(t) PROVE ~IsRegular(heap'[task'[t].dummy].code)
    <3>1. NewNode \in Node
      BY <2>2 DEF InitAlloc, NewNode
    <3>2. heap'[NewNode].code = DummyCode(Head(task[t].todo)) /\ task'[t].dummy = NewNode
      BY <2>2, <3>1, LocalTypes DEF InitAlloc, TypeOK, TaskType
    <3>3. Head(task[t].todo) \in Nat
      BY <1>0, <2>2, HeadType, LocalTypes DEF InitAlloc, Goto, ControlAt, Initializing, InInit
    <3> QED BY <3>2, <3>3, CodeKinds
  <2>3. ASSUME DeleteHit(t) PROVE IsRegular(heap'[walk'[t].cur.node].code)
    <3>1. /\ walk' = walk /\ heap' = heap /\ ~Initializing(t)
          /\ heap[walk[t].cur.node].code = SoughtCode(t)
      BY <2>3 DEF DeleteHit, locals, ResultMatches, HoldsSought, CurCode
    <3>2. SoughtCode(t) = RegularCode(Hash(call[t].key)) /\ call[t].key \in Nat
      BY <3>1, LocalTypes DEF SoughtCode
    <3> QED BY <3>1, <3>2, CodeTypes, CodeKinds
  <2>4. ASSUME Fault(t) PROVE UNCHANGED <<pc, walk, heap>>
    BY <2>4 DEF Fault, OutOfBounds, WildRead, locals
  <2>5. pc'[t] = "mark" => IsRegular(heap'[walk'[t].cur.node].code)
    BY <1>0, <2>3, <2>4, Transitions DEF KindAt
  <2> QED BY <1>4, <1>5, <1>7, <2>1, <2>2, <2>5, Transitions DEF KindAt
<1> QED BY <1>6, <1>7

(* Only the two compare-and-swaps leave these places.                      *)
LEMMA LinkOrMark ==
  ASSUME NEW t \in Threads, Progress(t) \/ Begin(t)
  PROVE  /\ pc[t] = "link" => InsertLink(t)
         /\ pc[t] = "mark" => DeleteMark(t)
<1> USE DEF Goto
<1>1. CASE Begin(t) \/ Fault(t)
  BY <1>1 DEF Begin, BeginInsert, BeginLookup, Fault, OutOfBounds, WildRead
<1>2. CASE CheckBucket(t) \/ BucketInit(t) \/ ListFind(t)
  BY <1>2 DEF CheckBucket, BucketInit, InitCheckParent, InitAlloc, InitFoundDummy, InitReload,
     InitPublish, ListFind, FindReadTable, FindReadHead, FindReadNext, FindVerify, FindUnlink
<1>3. CASE InsertReadSize(t) \/ InsertPrepare(t) \/ InsertFoundKey(t)
  BY <1>3 DEF InsertReadSize, InsertPrepare, InsertFoundKey
<1>4. CASE InsertLoadSize(t) \/ InsertCount(t) \/ Lookup(t)
  BY <1>4 DEF InsertLoadSize, InsertCount, Lookup, LookupReadTable, FindMiss, FindHit, FindValue
<1>5. CASE Resize(t)
  BY <1>5 DEF Resize, ResizeAlloc, ResizeCopy, ResizeGrow, ResizeSwap
<1>6. CASE DeleteHit(t) \/ DeleteDetach(t) \/ DeleteUncount(t)
  BY <1>6 DEF DeleteHit, DeleteDetach, DeleteUncount
<1>7. CASE DeleteTake(t) \/ DeleteErase(t)
  BY <1>7 DEF DeleteTake, DeleteErase
<1>8. CASE InsertLink(t) \/ DeleteMark(t)
  <2>1. InsertLink(t) => pc[t] = "link"
    BY DEF InsertLink
  <2>2. DeleteMark(t) => pc[t] = "mark"
    BY DEF DeleteMark
  <2> QED BY <1>8, <2>1, <2>2
<1> QED
  BY <1>1, <1>2, <1>3, <1>4, <1>5, <1>6, <1>7, <1>8 DEF Progress, Insert, Delete

(* The linking compare-and-swap of an insertion makes its node shared.     *)
LEMMA LinkShares ==
  ASSUME TypeOK, Control, Ownership, NoDangling, status = "running",
         NEW t \in Threads, InsertLink(t)
  PROVE  /\ pc'[t] = "load" => /\ ~Initializing(t)
                              /\ call[t].mine \in Shared'
                              /\ call[t].mine \notin Shared
         /\ pc'[t] = "find" => Shared' = Shared
<1>0. OwnAt(t) /\ call[t] \in CallType /\ Progress(t)
  BY LocalTypes DEF Ownership, Progress, Insert
<1>1. \A u \in Threads \ {t} : Own(u)' = Own(u) /\ Own(u) \cap Own(t) = {}
  BY <1>0, OthersStay DEF Own, Ownership
<1>2. CASE pc'[t] = "load"
  <2>1. ~Initializing(t) /\ call' = [call EXCEPT ![t].mine = NIL] /\ task' = task /\ live' = live
    BY <1>2 DEF InsertLink, Goto, TypeOK
  <2>2. call[t].mine # NIL /\ task[t].dummy = NIL /\ call[t].mine \in live
    BY <1>0, <2>1 DEF InsertLink, OwnAt, Inserting, Unlinked, Searching, Own
  <2>3. call[t].mine \notin Own(t)'
    BY <1>0, <2>1, <2>2 DEF Own, TypeOK, CallType
  <2>4. \A u \in Threads : call[t].mine \notin Own(u)'
    BY <1>1, <2>2, <2>3 DEF Own
  <2>5. call[t].mine \notin Shared
    BY <2>2 DEF Shared, Own
  <2> QED BY <1>2, <2>1, <2>2, <2>4, <2>5 DEF Shared
<1>3. CASE pc'[t] = "find"
  BY <1>3 DEF InsertLink, Goto, TypeOK, Shared, Own
<1>4. CASE pc'[t] \notin {"load", "find"}
  BY <1>4
<1> QED BY <1>2, <1>3, <1>4

(* The keys present change exactly where an insertion links its node and   *)
(* where a deletion marks one.                                             *)
LEMMA PresentStep ==
  ASSUME TypeOK, Control, Ownership, NoDangling, status = "running",
         \A u \in Threads : KindAt(u),
         NEW t \in Threads, Progress(t) \/ Begin(t)
  PROVE  /\ pc[t] = "link" /\ pc'[t] = "load" =>
              Present' = Present \cup {call[t].mine} /\ call[t].mine \notin Present
         /\ pc[t] = "mark" /\ pc'[t] = "detach" =>
              Present' = Present \ {walk[t].cur.node} /\ walk[t].cur.node \in Present
         /\ \/ pc[t] = "link" /\ pc'[t] = "load"
            \/ pc[t] = "mark" /\ pc'[t] = "detach"
            \/ Present' = Present
<1>0. /\ Shared \subseteq Shared' /\ Shared \subseteq live \cap live'
      /\ OwnAt(t) /\ ControlAt(t) /\ KindAt(t)
  BY SharedGrows DEF Ownership, Control, Shared
<1>1. \A n \in Shared : heap'[n].code = heap[n].code
  BY <1>0, NodesStay
<1>2. CASE pc[t] = "link"
  <2>1. InsertLink(t)
    BY <1>2, LinkOrMark
  <2>2. \A n \in Shared : heap'[n].next.bit = heap[n].next.bit
    BY <1>2, NodesStay
  <2>3. \A n \in Shared' \ Shared :
           n = Inserted(t) /\ heap'[n] = heap[n] /\ heap[n].next.bit = 0
    BY <1>0, <1>2, SharedGrows DEF OwnAt, Link
  <2>4. pc'[t] \in {"load", "find", "reload"}
    BY <2>1 DEF InsertLink, Goto, TypeOK
  <2>5. CASE pc'[t] = "load"
    <3>1. /\ ~Initializing(t) /\ call[t].mine \in Shared' /\ call[t].mine \notin Shared
          /\ Inserted(t) = call[t].mine
      BY <2>1, <2>5, LinkShares DEF Inserted
    <3>2. IsRegular(heap[call[t].mine].code)
      BY <1>0, <1>2, <3>1 DEF KindAt, OwnAt, Inserting, Unlinked, Searching
    <3> QED BY <1>0, <1>1, <1>2, <2>2, <2>3, <2>5, <3>1, <3>2 DEF Present, Marked
  <2>6. CASE pc'[t] = "find"
    <3>1. Shared' = Shared
      BY <2>1, <2>6, LinkShares
    <3> QED BY <1>1, <1>2, <2>2, <2>6, <3>1 DEF Present, Marked
  <2>7. CASE pc'[t] = "reload"
    <3>1. Initializing(t) /\ Inserted(t) = task[t].dummy
      BY <2>1, <2>7 DEF InsertLink, Goto, TypeOK, Inserted
    <3>2. ~IsRegular(heap[task[t].dummy].code)
      BY <1>0, <1>2, <3>1 DEF KindAt, OwnAt, Searching
    <3> QED BY <1>0, <1>1, <1>2, <2>2, <2>3, <2>7, <3>1, <3>2 DEF Present, Marked
  <2> QED BY <2>4, <2>5, <2>6, <2>7
<1>3. CASE pc[t] # "link"
  <2>1. Shared' = Shared
    BY <1>0, <1>3, SharedGrows
  <2>2. CASE pc[t] = "mark" /\ pc'[t] = "detach"
    <3>1. /\ walk[t].cur.node \in Shared /\ IsRegular(heap[walk[t].cur.node].code)
      BY <1>0, <2>2 DEF NoDangling, Target, ControlAt, KindAt
    <3>2. heap[walk[t].cur.node].next.bit = 0
      <4>1. DeleteMark(t)
        BY <2>2, LinkOrMark
      <4> QED BY <4>1, <2>2 DEF DeleteMark, Goto, TypeOK, LeadsTo, Load, NextOf, Link
    <3>3. \A n \in Shared : heap'[n].next.bit = IF n = walk[t].cur.node THEN 1 ELSE heap[n].next.bit
      BY <2>2, NodesStay
    <3> QED BY <1>1, <2>1, <2>2, <3>1, <3>2, <3>3 DEF Present, Marked
  <2>3. CASE ~(pc[t] = "mark" /\ pc'[t] = "detach")
    <3>1. \A n \in Shared : heap'[n].next.bit = heap[n].next.bit
      BY <2>3, NodesStay
    <3> QED BY <1>1, <1>3, <2>1, <2>3, <3>1 DEF Present, Marked
  <2> QED BY <2>2, <2>3
<1> QED BY <1>2, <1>3

(* The calls that have linked and have yet to count, and their opposites.  *)
Adders   == {t \in Threads : pc[t] \in Adding}
Removers == {t \in Threads : pc[t] \in Removing}

(* However many threads there are, finitely many are in a call.            *)
FiniteCalls == IsFiniteSet({t \in Threads : pc[t] # "idle"})

(* So the calls that have yet to count, and the nodes, can be counted.     *)
LEMMA FinitelyMany ==
  ASSUME TypeOK, FiniteCalls
  PROVE  /\ IsFiniteSet(Adders) /\ IsFiniteSet(Removers) /\ IsFiniteSet(Present)
         /\ Cardinality(Adders) \in Nat /\ Cardinality(Removers) \in Nat
         /\ Cardinality(Present) \in Nat
<1>1. /\ Adders \subseteq {t \in Threads : pc[t] # "idle"}
      /\ Removers \subseteq {t \in Threads : pc[t] # "idle"}
  BY DEF Adders, Removers, Adding, Removing
<1>2. IsFiniteSet(Node) /\ Present \subseteq Node
  <2>1. 1 \in Int /\ MaxNodes \in Int
    BY ConstantsAssumption
  <2>2. IsFiniteSet(1 .. MaxNodes)
    BY <2>1, FS_Interval
  <2> QED BY <2>2 DEF Node, Present, Shared, TypeOK
<1>3. IsFiniteSet(Adders) /\ IsFiniteSet(Removers) /\ IsFiniteSet(Present)
  BY <1>1, <1>2, FS_Subset DEF FiniteCalls
<1> QED BY <1>3, FS_CardinalityType

(* A step of one thread changes its own membership only.                   *)
LEMMA SetsStep ==
  ASSUME TypeOK, NEW t \in Threads, Progress(t) \/ Begin(t) \/ Destroy(t)
  PROVE  /\ Adders' = IF pc'[t] \in Adding THEN Adders \cup {t} ELSE Adders \ {t}
         /\ Removers' = IF pc'[t] \in Removing THEN Removers \cup {t} ELSE Removers \ {t}
         /\ FiniteCalls => FiniteCalls'
<1>1. \A u \in Threads \ {t} : pc'[u] = pc[u]
  BY OthersStay
<1>2. {u \in Threads : pc[u] # "idle"}' \subseteq {u \in Threads : pc[u] # "idle"} \cup {t}
  BY <1>1
<1>3. FiniteCalls => FiniteCalls'
  BY <1>2, FS_AddElement, FS_Subset DEF FiniteCalls
<1> QED BY <1>1, <1>3 DEF Adders, Removers, Adding, Removing

(* Every step of a call keeps the balance.                                 *)
LEMMA CountStep ==
  ASSUME TypeOK, Control, Ownership, NoDangling, status = "running", FiniteCalls, CountExact,
         \A u \in Threads : KindAt(u),
         NEW t \in Threads, Progress(t) \/ Begin(t)
  PROVE  CountExact'
<1> DEFINE a == Cardinality(Adders)
           r == Cardinality(Removers)
           p == Cardinality(Present)
<1>0. /\ a \in Nat /\ r \in Nat /\ p \in Nat /\ count \in Int
      /\ IsFiniteSet(Adders) /\ IsFiniteSet(Removers) /\ IsFiniteSet(Present)
      /\ count + a = p + r
  BY FinitelyMany DEF CountExact, TypeOK, Adders, Removers, Adding, Removing
<1>1. /\ Adders' = IF pc'[t] \in Adding THEN Adders \cup {t} ELSE Adders \ {t}
      /\ Removers' = IF pc'[t] \in Removing THEN Removers \cup {t} ELSE Removers \ {t}
  BY SetsStep
<1>2. /\ t \in Adders <=> pc[t] \in Adding
      /\ t \in Removers <=> pc[t] \in Removing
  BY DEF Adders, Removers
<1>3. SUFFICES count' + a' = p' + r'
  BY DEF CountExact, Adders, Removers, Adding, Removing
<1>4. CASE pc[t] = "link" /\ pc'[t] = "load"
  <2>1. count' = count
    BY <1>4, Transitions DEF InsertCount, DeleteUncount, Goto
  <2>2. a' = a + 1
    BY <1>0, <1>1, <1>2, <1>4, FS_AddElement DEF Adding
  <2>3. r' = r
    <3>1. Removers' = Removers
      BY <1>1, <1>2, <1>4 DEF Removing
    <3> QED BY <3>1
  <2>4. p' = p + 1
    BY <1>0, <1>4, PresentStep, FS_AddElement
  <2> QED BY <1>0, <2>1, <2>2, <2>3, <2>4
<1>5. CASE pc[t] = "mark" /\ pc'[t] = "detach"
  <2>1. count' = count
    BY <1>5, Transitions DEF InsertCount, DeleteUncount, Goto
  <2>2. a' = a
    <3>1. Adders' = Adders
      BY <1>1, <1>2, <1>5 DEF Adding
    <3> QED BY <3>1
  <2>3. r' = r + 1
    BY <1>0, <1>1, <1>2, <1>5, FS_AddElement DEF Removing
  <2>4. p' = p - 1
    <3>1. Present' = Present \ {walk[t].cur.node} /\ walk[t].cur.node \in Present
      BY <1>5, PresentStep
    <3>2. Cardinality(Present \ {walk[t].cur.node}) = p - 1
      BY <1>0, <3>1, FS_RemoveElement
    <3> QED BY <3>1, <3>2
  <2> QED BY <1>0, <2>1, <2>2, <2>3, <2>4
<1>6. CASE InsertCount(t)
  <2>1. /\ pc[t] = "count" /\ count' = count + 1 /\ pc'[t] \in {"resize", "idle"}
    BY <1>6 DEF InsertCount, Goto, Return, TypeOK
  <2>2. a' = a - 1
    BY <1>0, <1>1, <1>2, <2>1, FS_RemoveElement DEF Adding
  <2>3. Removers' = Removers /\ Present' = Present
    BY <1>1, <1>2, <2>1, PresentStep DEF Removing
  <2> QED BY <1>0, <2>1, <2>2, <2>3
<1>7. CASE DeleteUncount(t)
  <2>1. /\ pc[t] = "uncount" /\ count' = count - 1 /\ pc'[t] = "take"
    BY <1>7 DEF DeleteUncount, Goto, TypeOK
  <2>2. r' = r - 1
    BY <1>0, <1>1, <1>2, <2>1, FS_RemoveElement DEF Removing
  <2>3. Adders' = Adders /\ Present' = Present
    BY <1>1, <1>2, <2>1, PresentStep DEF Adding
  <2> QED BY <1>0, <2>1, <2>2, <2>3
<1>8. CASE /\ ~(pc[t] = "link" /\ pc'[t] = "load")
           /\ ~(pc[t] = "mark" /\ pc'[t] = "detach")
           /\ ~InsertCount(t) /\ ~DeleteUncount(t)
  <2>1. count' = count /\ Present' = Present
    BY <1>8, Transitions, PresentStep
  <2>2. InsertLink(t) => (pc'[t] \in Adding <=> pc[t] \in Adding)
    BY <1>8 DEF InsertLink, Goto, Adding, TypeOK
  <2>3. DeleteMark(t) => (pc'[t] \in Removing <=> pc[t] \in Removing)
    BY <1>8 DEF DeleteMark, Goto, Removing, TypeOK
  <2>4. Adders' = Adders /\ Removers' = Removers
    BY <1>1, <1>2, <1>8, <2>2, <2>3, Transitions
  <2> QED BY <1>0, <2>1, <2>4
<1> QED BY <1>4, <1>5, <1>6, <1>7, <1>8

(* As long as the table exists every thread has nodes of the right kind,   *)
(* and the balance holds.                                                  *)
LEMMA CountInvariant ==
  Spec => [](CountExact /\ (status # "destroyed" => \A t \in Threads : KindAt(t)))
<1> DEFINE IInv == /\ TypeOK /\ Control /\ Ownership /\ NoDangling /\ FiniteCalls /\ CountExact
                   /\ status # "destroyed" => \A t \in Threads : KindAt(t)
<1>1. Init => IInv
  <2> SUFFICES ASSUME Init PROVE IInv
    OBVIOUS
  <2>1. TypeOK /\ Control /\ Ownership /\ NoDangling
    BY InitTypes, InitMemory
  <2>2. \A t \in Threads : pc[t] = "idle" /\ KindAt(t)
    BY DEF Init, KindAt, NoArgs, NoTask
  <2>3. {t \in Threads : pc[t] # "idle"} = {} /\ Adders = {} /\ Removers = {}
    BY <2>2 DEF Adders, Removers, Adding, Removing
  <2>4. Present = {}
    <3>1. Shared \subseteq {1} /\ 1 \in Node
      BY ConstantsAssumption DEF Init, Shared, Node
    <3>2. ~IsRegular(heap[1].code)
      BY <3>1, CodeKinds DEF Init, Blank
    <3> QED BY <3>1, <3>2 DEF Present
  <2>5. CountExact
    BY <2>3, <2>4, FS_EmptySet DEF Init, CountExact, Adders, Removers, Adding, Removing
  <2> QED BY <2>1, <2>2, <2>3, <2>5, FS_EmptySet DEF FiniteCalls
<1>2. IInv /\ [Next]_vars => IInv'
  <2> SUFFICES ASSUME IInv, [Next]_vars PROVE IInv'
    OBVIOUS
  <2>1. ASSUME NEW t \in Threads, status = "running", Progress(t) \/ Begin(t) PROVE IInv'
    <3>1. TypeOK' /\ Control' /\ Ownership' /\ NoDangling'
      BY <2>1, TypeStep, ControlStep, OwnershipStep, NoDanglingStep
    <3>2. FiniteCalls' /\ CountExact' /\ \A u \in Threads : KindAt(u)'
      BY <2>1, SetsStep, CountStep, KindStep
    <3> QED BY <3>1, <3>2
  <2>2. ASSUME NEW t \in Threads, Destroy(t) PROVE IInv'
    <3>1. TypeOK' /\ Control' /\ FiniteCalls'
      BY <2>2, TypeStep, ControlStep, SetsStep
    <3>2. status' = "destroyed"
      BY <2>2 DEF Destroy
    <3> QED BY <3>1, <3>2 DEF Ownership, NoDangling, CountExact
  <2>3. CASE UNCHANGED vars
    <3>1. TypeOK' /\ Control'
      BY <2>3 DEF vars, locals, TypeOK, Control, ControlAt, Initializing, HasSuccessor,
         InInit, Searching
    <3>2. Ownership'
      BY <2>3 DEF vars, locals, Ownership, OwnAt, Own, Initializing, Inserting, Inserted,
         Unlinked, InInit, Searching
    <3>3. NoDangling'
      BY <2>3 DEF vars, locals, NoDangling, Target, Shared, Own
    <3>4. FiniteCalls' /\ CountExact' /\ \A t \in Threads : KindAt(t)' <=> KindAt(t)
      BY <2>3 DEF vars, locals, FiniteCalls, CountExact, Present, Shared, Own, Marked, KindAt
    <3>5. status' = status
      BY <2>3 DEF vars
    <3> QED BY <3>1, <3>2, <3>3, <3>4, <3>5
  <2> QED BY <2>1, <2>2, <2>3 DEF Next, Progress
<1> QED BY <1>1, <1>2, PTL DEF Spec

(* The count is the number of keys in the table, give or take the calls    *)
(* between changing the list and changing the count, in every interleaving *)
(* of insertions, deletions and bucket initializations.                    *)
THEOREM CountCorrect == Spec => []CountExact
BY CountInvariant, PTL

-----------------------------------------------------------------------------
(* The size.                                                               *)

(* The slots of every bucket array.                                        *)
Slots == [a \in TableId |-> Cardinality(DOMAIN tables[a])]

Arrays == \A a \in TableId : Slots[a] \in Nat /\ DOMAIN tables[a] = 0 .. (Slots[a] - 1)

(* Where a resize has an array that is not yet in use.                     *)
Copying == {"copy", "grow", "swap"}

(* The array a resize fills is its own. The one it copies is in use, or was*)
(* and is smaller than the one in use, and it has the slots copied so far. *)
CopyAt(t) ==
  /\ grow[t].new # table
  /\ Slots[grow[t].new] = 2 * grow[t].sz
  /\ Slots[grow[t].old] > 0
  /\ grow[t].old = table \/ Slots[grow[t].old] < Slots[table]
  /\ pc[t] \in {"grow", "swap"} => grow[t].sz <= Slots[grow[t].old]

SwapAt(t) ==
  /\ grow[t].old = table
  /\ Slots[table] = grow[t].sz
  /\ size = 2 * grow[t].sz

Apart(t, u) ==
  /\ grow[t].new # grow[u].old
  /\ grow[t].new # grow[u].new

ResizeInv ==
  status = "running" =>
    /\ Arrays
    /\ Slots[table] > 0
    /\ Slots[table] = size \/ \E t \in Threads : pc[t] = "swap"
    /\ \A t \in Threads :
         /\ pc[t] \in {"count", "resize"} \cup Copying => grow[t].sz > 0
         /\ pc[t] \in Copying => CopyAt(t) /\ grow[t].new # grow[t].old
         /\ pc[t] = "swap" => SwapAt(t)
    /\ \A t, u \in Threads : pc[t] \in Copying /\ pc[u] \in Copying /\ t # u =>
         Apart(t, u) /\ ~(pc[t] = "swap" /\ pc[u] = "swap")

(* An array of n slots has n of them.                                      *)
LEMMA SlotCount ==
  ASSUME NEW n \in Nat
  PROVE  Cardinality(0 .. (n - 1)) = n
<1>1. 0 \in Int /\ n - 1 \in Int
  OBVIOUS
<1>2. Cardinality(0 .. (n - 1)) = IF 0 > n - 1 THEN 0 ELSE n - 1 - 0 + 1
  BY <1>1, FS_Interval
<1> QED BY <1>2

(* Storing into slots leaves the arrays as large as they were.             *)
LEMMA SlotsStay ==
  ASSUME \A a \in TableId : DOMAIN tables'[a] = DOMAIN tables[a]
  PROVE  Slots' = Slots /\ (Arrays => Arrays')
<1>1. Slots' = Slots
  BY DEF Slots
<1> QED BY <1>1 DEF Arrays

(* Allocating an array or freeing one changes that one.                    *)
LEMMA SlotsReplaced ==
  ASSUME TypeOK, Arrays, NEW a \in TableId, NEW n \in Nat, NEW x, DOMAIN x = 0 .. (n - 1),
         tables' = [tables EXCEPT ![a] = x]
  PROVE  /\ Slots' = [Slots EXCEPT ![a] = n]
         /\ Arrays'
<1>1. /\ DOMAIN tables'[a] = 0 .. (n - 1)
      /\ \A i \in TableId \ {a} : tables'[i] = tables[i]
  BY DEF TypeOK
<1>2. \A i \in TableId : Slots'[i] = IF i = a THEN n ELSE Slots[i]
  <2>1. \A i \in TableId : Slots'[i] = Cardinality(DOMAIN tables'[i])
                          /\ Slots[i] = Cardinality(DOMAIN tables[i])
    BY DEF Slots
  <2> QED BY <1>1, <2>1, SlotCount
<1>3. Slots' = [Slots EXCEPT ![a] = n]
  <2>1. Slots \in [TableId -> Nat]
    BY DEF Slots, Arrays
  <2>2. Slots' = [i \in TableId |-> Slots'[i]]
    BY DEF Slots
  <2> QED BY <1>2, <2>1, <2>2
<1> QED BY <1>1, <1>2, <1>3 DEF Arrays

(* A step outside of hashtable_resize keeps ResizeInv.                     *)
LEMMA OutsideStep ==
  ASSUME TypeOK, ResizeInv, status = "running", NEW t \in Threads,
         Progress(t) \/ Begin(t),
         pc[t] \notin Copying, pc'[t] \notin Copying,
         pc'[t] \in {"count", "resize"} => grow'[t].sz > 0,
         table' = table, size' = size,
         \A a \in TableId : DOMAIN tables'[a] = DOMAIN tables[a]
  PROVE  ResizeInv'
<1>1. Slots' = Slots /\ Arrays'
  BY SlotsStay DEF ResizeInv
<1>2. \A u \in Threads \ {t} : pc'[u] = pc[u] /\ grow'[u] = grow[u]
  BY OthersStay
<1>3. /\ Slots[table] > 0
      /\ Slots[table] = size \/ \E u \in Threads : pc[u] = "swap"
  BY DEF ResizeInv
<1>4. ASSUME NEW u \in Threads
      PROVE  /\ pc'[u] \in {"count", "resize"} \cup Copying => grow'[u].sz > 0
             /\ pc'[u] \in Copying => CopyAt(u)' /\ grow'[u].new # grow'[u].old
             /\ pc'[u] = "swap" => SwapAt(u)'
  <2>1. CASE u = t
    BY <2>1 DEF Copying
  <2>2. CASE u # t
    BY <1>1, <1>2, <2>2 DEF ResizeInv, CopyAt, SwapAt
  <2> QED BY <2>1, <2>2
<1>5. ASSUME NEW u \in Threads, NEW v \in Threads, pc'[u] \in Copying, pc'[v] \in Copying, u # v
      PROVE  Apart(u, v)' /\ ~(pc'[u] = "swap" /\ pc'[v] = "swap")
  BY <1>2, <1>5 DEF ResizeInv, Apart
<1>6. Slots'[table'] = size' \/ \E u \in Threads : pc'[u] = "swap"
  BY <1>1, <1>2, <1>3 DEF Copying
<1> QED BY <1>1, <1>3, <1>4, <1>5, <1>6 DEF ResizeInv, Copying

(* A new array is one nobody uses: those in use have slots.                *)
LEMMA AllocStep ==
  ASSUME TypeOK, ResizeInv, status = "running", NEW t \in Threads, ResizeAlloc(t)
  PROVE  ResizeInv'
<1> DEFINE a == NewTable
           n == 2 * grow[t].sz
<1>0. /\ Progress(t) /\ grow[t].sz \in Nat /\ grow[t].sz > 0 /\ table \in TableId
      /\ pc[t] = "resize" /\ grow[t] \in GrowType
  BY LocalTypes DEF Progress, Resize, ResizeAlloc, Goto, ResizeInv, TypeOK
<1>1. a \in TableId /\ DOMAIN tables[a] = {}
  BY DEF ResizeAlloc, NewTable, FreeTables
<1> HIDE DEF a
<1>2. Slots[a] = 0
  <2>1. DOMAIN tables[a] = 0 .. (Slots[a] - 1) /\ Slots[a] \in Nat
    BY <1>0, <1>1 DEF ResizeInv, Arrays
  <2>2. Slots[a] > 0 => 0 \in 0 .. (Slots[a] - 1)
    BY <2>1
  <2> QED BY <1>1, <2>1, <2>2
<1>3. /\ Slots' = [Slots EXCEPT ![a] = n]
      /\ Arrays'
  <2>1. n \in Nat /\ DOMAIN Grown(grow[t].sz) = 0 .. (n - 1)
    BY <1>0 DEF Grown, Doubled
  <2>2. tables' = [tables EXCEPT ![a] = Grown(grow[t].sz)]
    BY DEF ResizeAlloc, a
  <2>3. Arrays
    BY DEF ResizeInv
  <2> HIDE DEF n
  <2> QED BY <1>1, <2>1, <2>2, <2>3, SlotsReplaced
<1>4. /\ Slots'[a] = n
      /\ \A i \in TableId : i # a => Slots'[i] = Slots[i]
  BY <1>1, <1>3 DEF Slots
<1>5. /\ table' = table /\ size' = size /\ pc'[t] = "copy"
      /\ grow'[t].old = table /\ grow'[t].new = a /\ grow'[t].sz = grow[t].sz
  BY <1>0 DEF ResizeAlloc, a, Goto, TypeOK, GrowType
<1>6. \A u \in Threads \ {t} : pc'[u] = pc[u] /\ grow'[u] = grow[u]
  BY <1>0, OthersStay
<1>7. a # table /\ \A u \in Threads : pc[u] \in Copying => grow[u].old # a /\ grow[u].new # a
  <2>1. Slots[table] # Slots[a]
    BY <1>2 DEF ResizeInv
  <2>2. ASSUME NEW u \in Threads, pc[u] \in Copying PROVE grow[u].old # a /\ grow[u].new # a
    <3>1. CopyAt(u) /\ grow[u].sz > 0 /\ grow[u].sz \in Nat
      BY <2>2, LocalTypes DEF ResizeInv
    <3>2. Slots[grow[u].new] # 0 /\ Slots[grow[u].old] # 0
      BY <3>1 DEF CopyAt
    <3> QED BY <1>2, <3>2
  <2> QED BY <2>1, <2>2
<1>8. ASSUME NEW u \in Threads
      PROVE  /\ pc'[u] \in {"count", "resize"} \cup Copying => grow'[u].sz > 0
             /\ pc'[u] \in Copying => CopyAt(u)' /\ grow'[u].new # grow'[u].old
             /\ pc'[u] = "swap" => SwapAt(u)'
  <2>1. CASE u = t
    BY <1>0, <1>4, <1>5, <1>7, <2>1 DEF CopyAt, ResizeInv
  <2>2. CASE u # t
    <3>1. grow[u].old \in TableId /\ grow[u].new \in TableId
      BY LocalTypes
    <3> QED BY <1>0, <1>4, <1>5, <1>6, <1>7, <2>2, <3>1 DEF CopyAt, SwapAt, ResizeInv, Copying
  <2> QED BY <2>1, <2>2
<1>9. ASSUME NEW u \in Threads, NEW v \in Threads, pc'[u] \in Copying, pc'[v] \in Copying, u # v
      PROVE  Apart(u, v)' /\ ~(pc'[u] = "swap" /\ pc'[v] = "swap")
  <2>1. \A w \in Threads : pc[w] \in Copying => grow[w].new # table
    BY DEF ResizeInv, CopyAt
  <2> QED BY <1>5, <1>6, <1>7, <1>9, <2>1 DEF ResizeInv, Apart
<1>10. Slots'[table'] > 0
  BY <1>0, <1>4, <1>5, <1>7 DEF ResizeInv
<1>11. Slots'[table'] = size' \/ \E u \in Threads : pc'[u] = "swap"
  BY <1>0, <1>4, <1>5, <1>6, <1>7 DEF ResizeInv
<1> QED BY <1>3, <1>8, <1>9, <1>10, <1>11 DEF ResizeInv

(* Copying a slot in bounds shows that the old array has it.               *)
LEMMA CopyStep ==
  ASSUME TypeOK, ResizeInv, status = "running", NEW t \in Threads, ResizeCopy(t)
  PROVE  ResizeInv'
<1>0. /\ Progress(t) /\ grow[t].sz \in Nat /\ grow[t].i \in Nat /\ table \in TableId
      /\ grow[t].old \in TableId /\ pc[t] = "copy" /\ grow[t] \in GrowType
  BY LocalTypes DEF Progress, Resize, ResizeCopy, Goto, ResizeInv, TypeOK
<1>1. Slots' = Slots /\ Arrays'
  <2>1. \A a \in TableId : DOMAIN tables'[a] = DOMAIN tables[a]
    BY DEF ResizeCopy, TypeOK
  <2> QED BY <2>1, SlotsStay DEF ResizeInv
<1>2. /\ table' = table /\ size' = size /\ pc'[t] \in {"copy", "grow"}
      /\ grow'[t].old = grow[t].old /\ grow'[t].new = grow[t].new /\ grow'[t].sz = grow[t].sz
      /\ pc'[t] = "grow" => grow[t].i + 1 = grow[t].sz
  BY <1>0 DEF ResizeCopy, Goto, TypeOK, GrowType
<1>3. grow[t].i + 1 <= Slots[grow[t].old]
  <2>1. grow[t].i \in DOMAIN tables[grow[t].old]
    BY DEF ResizeCopy, InBounds, Slot
  <2> QED BY <1>0, <2>1 DEF ResizeInv, Arrays
<1>4. \A u \in Threads \ {t} : pc'[u] = pc[u] /\ grow'[u] = grow[u]
  BY <1>0, OthersStay
<1>5. ASSUME NEW u \in Threads
      PROVE  /\ pc'[u] \in {"count", "resize"} \cup Copying => grow'[u].sz > 0
             /\ pc'[u] \in Copying => CopyAt(u)' /\ grow'[u].new # grow'[u].old
             /\ pc'[u] = "swap" => SwapAt(u)'
  <2>1. CASE u = t
    BY <1>0, <1>1, <1>2, <1>3, <2>1 DEF CopyAt, ResizeInv, Copying
  <2>2. CASE u # t
    BY <1>1, <1>2, <1>4, <2>2 DEF CopyAt, SwapAt, ResizeInv
  <2> QED BY <2>1, <2>2
<1>6. ASSUME NEW u \in Threads, NEW v \in Threads, pc'[u] \in Copying, pc'[v] \in Copying, u # v
      PROVE  Apart(u, v)' /\ ~(pc'[u] = "swap" /\ pc'[v] = "swap")
  <2>1. \A w \in Threads : /\ pc'[w] \in Copying => pc[w] \in Copying
                           /\ grow'[w].new = grow[w].new /\ grow'[w].old = grow[w].old
                           /\ pc'[w] = "swap" => pc[w] = "swap"
    BY <1>0, <1>2, <1>4 DEF Copying
  <2>2. pc[u] \in Copying /\ pc[v] \in Copying
    BY <1>6, <2>1
  <2>3. Apart(u, v) /\ ~(pc[u] = "swap" /\ pc[v] = "swap")
    BY <1>6, <2>2 DEF ResizeInv
  <2> QED BY <2>1, <2>3 DEF Apart
<1>7. Slots'[table'] = size' \/ \E u \in Threads : pc'[u] = "swap"
  BY <1>0, <1>1, <1>2, <1>4 DEF ResizeInv
<1>8. Slots'[table'] > 0
  BY <1>1, <1>2 DEF ResizeInv
<1> QED BY <1>1, <1>5, <1>6, <1>7, <1>8 DEF ResizeInv

(* Only one thread can win the compare-and-swap of the size, and the array *)
(* it has copied is then the one in use: any smaller array has fewer slots *)
(* than the size it expects, and any other winner has made the size larger *)
(* than the array in use.                                                  *)
LEMMA WinnerStep ==
  ASSUME TypeOK, ResizeInv, status = "running", NEW t \in Threads, ResizeGrow(t),
         size = grow[t].sz
  PROVE  ResizeInv'
<1>0. /\ Progress(t) /\ grow[t].sz \in Nat /\ grow[t].sz > 0 /\ table \in TableId
      /\ pc[t] = "grow" /\ CopyAt(t) /\ grow[t].new # grow[t].old
      /\ grow[t].old \in TableId /\ Arrays
  BY LocalTypes DEF Progress, Resize, ResizeGrow, Goto, ResizeInv, TypeOK, Copying
<1>1. Slots[table] \in Nat /\ Slots[grow[t].old] \in Nat
  BY <1>0 DEF Arrays
<1>2. \A u \in Threads : pc[u] # "swap"
  <2> SUFFICES ASSUME NEW u \in Threads, pc[u] = "swap" PROVE FALSE
    OBVIOUS
  <2>1. Slots[table] = grow[u].sz /\ size = 2 * grow[u].sz /\ grow[u].sz \in Nat
    BY LocalTypes DEF ResizeInv, SwapAt
  <2>2. grow[t].sz <= Slots[grow[t].old] /\ Slots[grow[t].old] <= Slots[table]
    BY <1>0, <1>1 DEF CopyAt
  <2> QED BY <1>0, <1>1, <2>1, <2>2
<1>3. Slots[table] = size
  BY <1>2 DEF ResizeInv
<1>4. grow[t].old = table
  <2>1. grow[t].sz <= Slots[grow[t].old]
    BY <1>0 DEF CopyAt
  <2> QED BY <1>0, <1>1, <1>3, <2>1 DEF CopyAt
<1>5. /\ table' = table /\ size' = 2 * grow[t].sz /\ pc' = [pc EXCEPT ![t] = "swap"]
      /\ grow' = grow /\ tables' = tables
  BY DEF ResizeGrow, Doubled, Goto, locals
<1>6. /\ Slots' = Slots /\ Arrays' /\ pc'[t] = "swap"
      /\ \A u \in Threads \ {t} : pc'[u] = pc[u]
  BY <1>0, <1>5, SlotsStay DEF TypeOK
<1>7. ASSUME NEW u \in Threads
      PROVE  /\ pc'[u] \in {"count", "resize"} \cup Copying => grow'[u].sz > 0
             /\ pc'[u] \in Copying => CopyAt(u)' /\ grow'[u].new # grow'[u].old
             /\ pc'[u] = "swap" => SwapAt(u)'
  <2>1. CASE u = t
    BY <1>0, <1>3, <1>4, <1>5, <1>6, <2>1 DEF CopyAt, SwapAt
  <2>2. CASE u # t
    BY <1>2, <1>5, <1>6, <2>2 DEF CopyAt, ResizeInv
  <2> QED BY <2>1, <2>2
<1>8. ASSUME NEW u \in Threads, NEW v \in Threads, pc'[u] \in Copying, pc'[v] \in Copying, u # v
      PROVE  Apart(u, v)' /\ ~(pc'[u] = "swap" /\ pc'[v] = "swap")
  <2>1. pc[u] \in Copying /\ pc[v] \in Copying
    BY <1>0, <1>6, <1>8 DEF Copying
  <2>2. Apart(u, v)
    BY <1>8, <2>1 DEF ResizeInv
  <2> QED BY <1>2, <1>5, <1>6, <1>8, <2>2 DEF Apart
<1>9. Slots'[table'] > 0
  BY <1>5, <1>6 DEF ResizeInv
<1> QED BY <1>6, <1>7, <1>8, <1>9 DEF ResizeInv

(* A resize that lost frees its own array.                                 *)
LEMMA LoserStep ==
  ASSUME TypeOK, ResizeInv, status = "running", NEW t \in Threads, ResizeGrow(t),
         size # grow[t].sz
  PROVE  ResizeInv'
<1> DEFINE a == grow[t].new
<1>0. /\ Progress(t) /\ a \in TableId /\ table \in TableId
      /\ pc[t] = "grow" /\ CopyAt(t) /\ a # grow[t].old /\ a # table
  BY LocalTypes DEF Progress, Resize, ResizeGrow, Goto, ResizeInv, TypeOK, Copying, CopyAt
<1>1. /\ table' = table /\ size' = size /\ pc'[t] = "idle"
      /\ tables' = [tables EXCEPT ![a] = NoSlots]
  BY DEF ResizeGrow, Return, TypeOK
<1> HIDE DEF a
<1>2. Slots' = [Slots EXCEPT ![a] = 0] /\ Arrays'
  <2>1. 0 \in Nat /\ DOMAIN NoSlots = 0 .. (0 - 1)
    BY DEF NoSlots
  <2> QED BY <1>0, <1>1, <2>1, SlotsReplaced DEF ResizeInv
<1>3. \A i \in TableId : i # a => Slots'[i] = Slots[i]
  BY <1>0, <1>2 DEF Slots
<1>4. \A u \in Threads \ {t} : pc'[u] = pc[u] /\ grow'[u] = grow[u]
  BY <1>0, OthersStay
<1>5. \A u \in Threads \ {t} : pc[u] \in Copying => grow[u].old # a /\ grow[u].new # a
  BY <1>0 DEF ResizeInv, Apart, Copying, a
<1>6. ASSUME NEW u \in Threads
      PROVE  /\ pc'[u] \in {"count", "resize"} \cup Copying => grow'[u].sz > 0
             /\ pc'[u] \in Copying => CopyAt(u)' /\ grow'[u].new # grow'[u].old
             /\ pc'[u] = "swap" => SwapAt(u)'
  <2>1. CASE u = t
    BY <1>1, <2>1 DEF Copying
  <2>2. CASE u # t
    <3>1. grow[u].old \in TableId /\ grow[u].new \in TableId
      BY LocalTypes
    <3>2. pc'[u] \in {"count", "resize"} \cup Copying => grow'[u].sz > 0
      BY <1>4, <2>2 DEF ResizeInv
    <3>3. pc'[u] \in Copying => CopyAt(u)' /\ grow'[u].new # grow'[u].old
      BY <1>0, <1>1, <1>3, <1>4, <1>5, <2>2, <3>1 DEF ResizeInv, CopyAt
    <3>4. pc'[u] = "swap" => SwapAt(u)'
      BY <1>0, <1>1, <1>3, <1>4, <2>2 DEF ResizeInv, SwapAt
    <3> QED BY <3>2, <3>3, <3>4
  <2> QED BY <2>1, <2>2
<1>7. ASSUME NEW u \in Threads, NEW v \in Threads, pc'[u] \in Copying, pc'[v] \in Copying, u # v
      PROVE  Apart(u, v)' /\ ~(pc'[u] = "swap" /\ pc'[v] = "swap")
  <2>1. u # t /\ v # t
    BY <1>1, <1>7 DEF Copying
  <2>2. Apart(u, v) /\ ~(pc[u] = "swap" /\ pc[v] = "swap")
    BY <1>4, <1>7, <2>1 DEF ResizeInv
  <2> QED BY <1>4, <2>1, <2>2 DEF Apart
<1>8. Slots'[table'] > 0
  BY <1>0, <1>1, <1>3 DEF ResizeInv
<1>9. Slots'[table'] = size' \/ \E u \in Threads : pc'[u] = "swap"
  BY <1>0, <1>1, <1>3, <1>4 DEF ResizeInv
<1> QED BY <1>2, <1>6, <1>7, <1>8, <1>9 DEF ResizeInv

(* The winner replaces the array it has copied by one with as many slots as*)
(* the size says.                                                          *)
LEMMA SwapStep ==
  ASSUME TypeOK, ResizeInv, status = "running", NEW t \in Threads, ResizeSwap(t)
  PROVE  ResizeInv'
<1>0. /\ Progress(t) /\ grow[t].sz \in Nat /\ grow[t].sz > 0 /\ table \in TableId
      /\ pc[t] = "swap" /\ CopyAt(t) /\ SwapAt(t)
  BY LocalTypes DEF Progress, Resize, ResizeSwap, ResizeInv, TypeOK, Copying
<1>1. /\ table' = grow[t].new /\ size' = size /\ pc'[t] = "idle"
      /\ tables' = tables
  BY <1>0 DEF ResizeSwap, Return, TypeOK, SwapAt
<1>2. Slots' = Slots /\ Arrays'
  BY <1>1, SlotsStay DEF ResizeInv
<1>3. \A u \in Threads \ {t} : pc'[u] = pc[u] /\ grow'[u] = grow[u]
  BY <1>0, OthersStay
<1>4. Slots'[table'] = size' /\ Slots'[table'] > 0
  BY <1>0, <1>1, <1>2 DEF CopyAt, SwapAt
<1>5. ASSUME NEW u \in Threads
      PROVE  /\ pc'[u] \in {"count", "resize"} \cup Copying => grow'[u].sz > 0
             /\ pc'[u] \in Copying => CopyAt(u)' /\ grow'[u].new # grow'[u].old
             /\ pc'[u] = "swap" => SwapAt(u)'
  <2>1. CASE u = t
    BY <1>1, <2>1 DEF Copying
  <2>2. CASE u # t
    <3>1. pc'[u] \in {"count", "resize"} \cup Copying => grow'[u].sz > 0
      BY <1>3, <2>2 DEF ResizeInv
    <3>2. ASSUME pc[u] \in Copying PROVE CopyAt(u)' /\ grow'[u].new # grow'[u].old
      <4>1. CopyAt(u) /\ grow[u].new # grow[u].old /\ Apart(t, u)
        BY <1>0, <2>2, <3>2 DEF ResizeInv, Copying
      <4>2. Slots[grow[u].old] \in Nat /\ Slots[table] = grow[t].sz
            /\ Slots[table'] = 2 * grow[t].sz
        BY <1>0, <1>1, LocalTypes DEF CopyAt, SwapAt, ResizeInv, Arrays
      <4>3. Slots[grow[u].old] < Slots[table']
        BY <1>0, <4>1, <4>2 DEF CopyAt
      <4> QED BY <1>1, <1>2, <1>3, <2>2, <4>1, <4>3 DEF CopyAt, Apart
    <3>3. pc'[u] # "swap"
      BY <1>0, <1>3, <2>2 DEF ResizeInv, Copying
    <3> QED BY <1>3, <2>2, <3>1, <3>2, <3>3
  <2> QED BY <2>1, <2>2
<1>6. ASSUME NEW u \in Threads, NEW v \in Threads, pc'[u] \in Copying, pc'[v] \in Copying, u # v
      PROVE  Apart(u, v)' /\ ~(pc'[u] = "swap" /\ pc'[v] = "swap")
  <2>1. u # t /\ v # t
    BY <1>1, <1>6 DEF Copying
  <2>2. Apart(u, v) /\ ~(pc[u] = "swap" /\ pc[v] = "swap")
    BY <1>3, <1>6, <2>1 DEF ResizeInv
  <2> QED BY <1>3, <2>1, <2>2 DEF Apart
<1> QED BY <1>2, <1>4, <1>5, <1>6 DEF ResizeInv

(* A compare-and-swap of a link leaves every array as large as it was.     *)
LEMMA StoreDomains ==
  ASSUME TypeOK, NEW p, NEW x, Store(p, x)
  PROVE  \A a \in TableId : DOMAIN tables'[a] = DOMAIN tables[a]
BY DEF Store, TypeOK

(* Which steps are outside of hashtable_resize, and that they satisfy what *)
(* OutsideStep asks.                                                       *)
LEMMA Outside ==
  ASSUME TypeOK, NEW t \in Threads, Progress(t) \/ Begin(t), ~Fault(t), ~Resize(t)
  PROVE  /\ pc[t] \notin Copying /\ pc'[t] \notin Copying
         /\ pc'[t] \in {"count", "resize"} =>
              grow'[t].sz = size \/ (pc[t] = "count" /\ grow'[t].sz = grow[t].sz)
         /\ table' = table /\ size' = size
         /\ \A a \in TableId : DOMAIN tables'[a] = DOMAIN tables[a]
<1>0. grow[t] \in GrowType
  BY LocalTypes
<1> USE DEF Goto, locals, Copying
<1>1. CASE Begin(t)
  BY <1>1 DEF Begin, BeginInsert, BeginLookup, TypeOK
<1>2. CASE CheckBucket(t) \/ LookupReadTable(t) \/ InsertReadSize(t)
  BY <1>2 DEF CheckBucket, LookupReadTable, InsertReadSize, TypeOK
<1>3. CASE InitCheckParent(t) \/ InitAlloc(t) \/ InitFoundDummy(t) \/ InitReload(t)
  BY <1>3 DEF InitCheckParent, InitAlloc, InitFoundDummy, InitReload, TypeOK
<1>4. CASE InitPublish(t)
  <2>1. \A a \in TableId : DOMAIN tables'[a] = DOMAIN tables[a]
    BY <1>4 DEF InitPublish, TypeOK
  <2> QED BY <1>4, <2>1 DEF InitPublish, TypeOK
<1>5. CASE FindReadTable(t) \/ FindReadHead(t) \/ FindReadNext(t) \/ FindVerify(t)
  BY <1>5 DEF FindReadTable, FindReadHead, FindReadNext, FindVerify, TypeOK
<1>6. CASE FindUnlink(t)
  <2>1. \A a \in TableId : DOMAIN tables'[a] = DOMAIN tables[a]
    BY <1>6, StoreDomains DEF FindUnlink
  <2> QED BY <1>6, <2>1 DEF FindUnlink, TypeOK
<1>7. CASE InsertLink(t)
  <2>1. \A a \in TableId : DOMAIN tables'[a] = DOMAIN tables[a]
    BY <1>7, StoreDomains DEF InsertLink
  <2>2. pc[t] = "link" /\ pc'[t] \in {"reload", "load", "find"}
    BY <1>7 DEF InsertLink, TypeOK
  <2> QED BY <1>7, <2>1, <2>2 DEF InsertLink
<1>8. CASE InsertPrepare(t) \/ InsertFoundKey(t)
  BY <1>8 DEF InsertPrepare, InsertFoundKey, Return, TypeOK
<1>9. CASE InsertLoadSize(t)
  BY <1>0, <1>9 DEF InsertLoadSize, GrowType, TypeOK
<1>10. CASE InsertCount(t)
  BY <1>10 DEF InsertCount, Return, TypeOK
<1>11. CASE FindMiss(t) \/ FindHit(t) \/ FindValue(t)
  BY <1>11 DEF FindMiss, FindHit, FindValue, Return, TypeOK
<1>12. CASE DeleteHit(t) \/ DeleteMark(t)
  BY <1>12 DEF DeleteHit, DeleteMark, TypeOK
<1>13. CASE DeleteDetach(t)
  <2>1. \A a \in TableId : DOMAIN tables'[a] = DOMAIN tables[a]
    BY <1>13, StoreDomains DEF DeleteDetach
  <2> QED BY <1>13, <2>1 DEF DeleteDetach, TypeOK
<1>14. CASE DeleteUncount(t) \/ DeleteTake(t) \/ DeleteErase(t)
  BY <1>14 DEF DeleteUncount, DeleteTake, DeleteErase, Return, TypeOK
<1> QED
  BY <1>1, <1>2, <1>3, <1>4, <1>5, <1>6, <1>7, <1>8, <1>9, <1>10, <1>11, <1>12, <1>13,
     <1>14 DEF Progress, BucketInit, ListFind, Insert, Lookup, Delete

(* hashtable_create returns a size that is that of its array.              *)
LEMMA InitResize == Init => ResizeInv
<1> SUFFICES ASSUME Init PROVE ResizeInv
  OBVIOUS
<1>0. InitSize \in Nat \ {0} /\ 1 \in TableId
  BY ConstantsAssumption DEF TableId
<1>1. \A t \in Threads : pc[t] = "idle"
  BY DEF Init
<1>2. \A a \in TableId : DOMAIN tables[a] = IF a = 1 THEN 0 .. (InitSize - 1) ELSE {}
  BY DEF Init, NoSlots
<1>3. \A a \in TableId : Slots[a] = IF a = 1 THEN InitSize ELSE 0
  <2>1. Cardinality(0 .. (InitSize - 1)) = InitSize
    BY <1>0, SlotCount
  <2>2. \A a \in TableId : Slots[a] = Cardinality(DOMAIN tables[a])
    BY DEF Slots
  <2> QED BY <1>2, <2>1, <2>2, FS_EmptySet
<1>4. Arrays
  BY <1>0, <1>2, <1>3 DEF Arrays
<1>5. Slots[table] = size /\ Slots[table] > 0
  BY <1>0, <1>3 DEF Init
<1> QED BY <1>1, <1>4, <1>5 DEF ResizeInv, Copying

(* Every step preserves it.                                                *)
LEMMA ResizeInvariant == Spec => []ResizeInv
<1>1. TypeOK /\ ResizeInv /\ [Next]_vars => ResizeInv'
  <2> SUFFICES ASSUME TypeOK, ResizeInv, [Next]_vars PROVE ResizeInv'
    OBVIOUS
  <2>1. ASSUME NEW t \in Threads, status = "running", Progress(t) \/ Begin(t) PROVE ResizeInv'
    <3>1. CASE Fault(t)
      BY <3>1 DEF Fault, OutOfBounds, WildRead, ResizeInv
    <3>2. CASE Resize(t)
      BY <2>1, <3>2, AllocStep, CopyStep, WinnerStep, LoserStep, SwapStep DEF Resize
    <3>3. CASE ~Fault(t) /\ ~Resize(t)
      <4>1. pc'[t] \in {"count", "resize"} => grow'[t].sz > 0
        <5>1. size > 0 /\ (pc[t] = "count" => grow[t].sz > 0)
          BY <2>1 DEF ResizeInv, TypeOK
        <5> QED BY <2>1, <3>3, <5>1, Outside
      <4> QED BY <2>1, <3>3, <4>1, Outside, OutsideStep
    <3> QED BY <3>1, <3>2, <3>3
  <2>2. ASSUME NEW t \in Threads, Destroy(t) PROVE ResizeInv'
    BY <2>2 DEF Destroy, ResizeInv
  <2>3. CASE UNCHANGED vars
    BY <2>3 DEF vars, locals, ResizeInv, Slots, Arrays, CopyAt, SwapAt, Apart
  <2> QED BY <2>1, <2>2, <2>3 DEF Next, Progress
<1> QED BY TypeCorrect, InitResize, <1>1, PTL DEF Spec

(* The size is ahead of the bucket array only between the two compare-and- *)
(* swaps of one hashtable_resize, by one doubling, and the thread between  *)
(* them has copied the array in use, so that its second one succeeds.      *)
THEOREM SizeAtMostOneAhead == Spec => []SizeAhead
<1>1. TypeOK /\ ResizeInv => SizeAhead
  <2> SUFFICES ASSUME TypeOK, ResizeInv, status = "running"
      PROVE  LET slots == Cardinality(DOMAIN tables[table])
             IN  \/ slots = size
                 \/ \E t \in Threads : pc[t] = "swap" /\ grow[t].old = table /\ 2 * slots = size
    BY DEF SizeAhead
  <2>1. Slots[table] = Cardinality(DOMAIN tables[table])
    BY DEF Slots, TypeOK
  <2>2. \A t \in Threads : pc[t] = "swap" => grow[t].old = table /\ 2 * Slots[table] = size
    BY DEF ResizeInv, SwapAt
  <2> QED BY <2>1, <2>2 DEF ResizeInv
<1> QED BY TypeCorrect, ResizeInvariant, <1>1, PTL

-----------------------------------------------------------------------------
(* What one step does to the list and to the bucket arrays.                *)

(* What is known of a table that exists.                                   *)
Sound ==
  /\ TypeOK /\ Control /\ Ownership /\ NoDangling /\ ResizeInv
  /\ status = "running"
  /\ \A t \in Threads : KindAt(t)

(* Nothing.                                                                *)
Steady ==
  /\ UNCHANGED <<tables, table>>
  /\ Shared' = Shared
  /\ \A n \in Shared : heap'[n].next = heap[n].next

(* The compare-and-swap of hashtable_list_insert that links a node.        *)
Linking(t) ==
  /\ InsertLink(t)
  /\ pc'[t] # "find"
  /\ LeadsTo(walk[t].prev, walk[t].cur.node)
  /\ Store(walk[t].prev, Link(Inserted(t), 0))

(* Those of hashtable_list_find and hashtable_list_delete that unlink one. *)
Unlinking(t) ==
  /\ FindUnlink(t) \/ DeleteDetach(t)
  /\ LeadsTo(walk[t].prev, walk[t].cur.node)
  /\ Store(walk[t].prev, Link(walk[t].nxt.node, 0))

(* The one that marks a node.                                              *)
Marking(t) ==
  /\ DeleteMark(t)
  /\ pc'[t] = "detach"
  /\ heap[walk[t].cur.node].next = Link(walk[t].nxt.node, 0)
  /\ heap' = [heap EXCEPT ![walk[t].cur.node].next = Link(walk[t].nxt.node, 1)]

(* Every step of a call is one of these, or writes to a bucket array only. *)
LEMMA StepKinds ==
  ASSUME Sound, NEW t \in Threads, Progress(t) \/ Begin(t)
  PROVE  Steady \/ Linking(t) \/ Unlinking(t) \/ Marking(t) \/ InitPublish(t) \/ Resize(t)
<1>0. /\ ControlAt(t) /\ TypeOK /\ Shared \subseteq Node
      /\ \A n \in Shared : n \in live /\ n \notin Own(t)
  BY OwnTypes DEF Sound, Control
<1>1. pc[t] # "link" => Shared' = Shared
  BY SharedGrows DEF Sound
<1> DEFINE Next0 == \A n \in Shared : heap'[n].next = heap[n].next
<1> USE DEF Goto, locals
<1>2. ASSUME UNCHANGED heap PROVE Next0
  BY <1>2
<1>3. ASSUME NEW m, m \notin Shared, NEW x, heap' = [heap EXCEPT ![m] = x] PROVE Next0
  BY <1>0, <1>3 DEF TypeOK
<1>4. CASE Begin(t) \/ InitAlloc(t)
  <2>1. Node \ live # {} => NewNode \notin Shared
    BY <1>0 DEF NewNode
  <2>2. Next0
    BY <1>2, <1>3, <1>4, <2>1 DEF Begin, BeginInsert, BeginLookup, InitAlloc
  <2> QED BY <1>1, <1>4, <2>2 DEF Begin, BeginInsert, BeginLookup, InitAlloc, Steady
<1>5. CASE InitFoundDummy(t) \/ InsertFoundKey(t)
  <2>1. task[t].dummy \notin Shared /\ call[t].mine \notin Shared
    BY <1>0, OwnTypes DEF Own
  <2>2. Next0
    BY <1>3, <1>5, <2>1 DEF InitFoundDummy, InsertFoundKey
  <2> QED BY <1>1, <1>5, <2>2 DEF InitFoundDummy, InsertFoundKey, Steady
<1>6. CASE InsertPrepare(t)
  <2>1. Inserted(t) \notin Shared
    BY <1>0, OwnTypes
  <2>2. Next0
    BY <1>0, <1>6, <2>1 DEF InsertPrepare, TypeOK
  <2> QED BY <1>1, <1>6, <2>2 DEF InsertPrepare, Steady
<1>7. CASE FindUnlink(t)
  <2>1. CASE UNCHANGED <<heap, tables>>
    BY <1>1, <1>2, <1>7, <2>1 DEF FindUnlink, Steady
  <2> QED BY <1>7, <2>1 DEF FindUnlink, Unlinking
<1>8. CASE DeleteDetach(t)
  <2>1. CASE UNCHANGED <<heap, tables>>
    BY <1>1, <1>2, <1>8, <2>1 DEF DeleteDetach, Steady
  <2>2. hz[t][0].id = walk[t].nxt.node
    BY <1>0, <1>8 DEF DeleteDetach, ControlAt, HasSuccessor
  <2> QED BY <1>8, <2>1, <2>2 DEF DeleteDetach, Unlinking
<1>9. CASE DeleteMark(t)
  <2>1. hz[t][0].id = walk[t].nxt.node
    BY <1>0, <1>9 DEF DeleteMark, ControlAt, HasSuccessor
  <2>2. CASE UNCHANGED heap /\ pc'[t] = "find"
    BY <1>1, <1>2, <1>9, <2>2 DEF DeleteMark, Steady
  <2> QED BY <1>0, <1>9, <2>1, <2>2 DEF DeleteMark, Marking, LeadsTo, Load, NextOf, TypeOK
<1>10. CASE InsertLink(t)
  <2>1. CASE UNCHANGED <<heap, tables>> /\ pc'[t] = "find"
    <3>1. Shared' = Shared
      BY <1>10, <2>1, LinkShares DEF Sound
    <3> QED BY <1>2, <1>10, <2>1, <3>1 DEF InsertLink, Steady
  <2> QED BY <1>0, <1>10, <2>1 DEF InsertLink, Linking, TypeOK
<1>11. CASE DeleteErase(t)
  <2>1. Next0
    BY <1>0, <1>11 DEF DeleteErase, TypeOK, NodeType
  <2> QED BY <1>1, <1>11, <2>1 DEF DeleteErase, Steady
<1>12. CASE UNCHANGED <<heap, tables, table>> /\ pc[t] # "link"
  BY <1>1, <1>2, <1>12 DEF Steady
<1>13. CASE CheckBucket(t) \/ InitCheckParent(t) \/ InitReload(t)
  BY <1>12, <1>13 DEF CheckBucket, InitCheckParent, InitReload
<1>14. CASE FindReadTable(t) \/ FindReadHead(t) \/ FindReadNext(t) \/ FindVerify(t)
  BY <1>12, <1>14 DEF FindReadTable, FindReadHead, FindReadNext, FindVerify
<1>15. CASE InsertReadSize(t) \/ InsertLoadSize(t) \/ InsertCount(t) \/ Lookup(t)
  BY <1>12, <1>15 DEF InsertReadSize, InsertLoadSize, InsertCount,
     Lookup, LookupReadTable, FindMiss, FindHit, FindValue
<1>16. CASE DeleteHit(t) \/ DeleteUncount(t) \/ DeleteTake(t) \/ Fault(t)
  <2>1. pc[t] # "link"
    BY <1>16 DEF DeleteHit, DeleteUncount, DeleteTake, Fault, OutOfBounds, WildRead
  <2> QED BY <1>12, <1>16, <2>1 DEF DeleteHit, DeleteUncount, DeleteTake, Fault, OutOfBounds, WildRead
<1> QED
  BY <1>4, <1>5, <1>6, <1>7, <1>8, <1>9, <1>10, <1>11, <1>13, <1>14, <1>15, <1>16
     DEF Progress, BucketInit, ListFind, Insert, Delete

-----------------------------------------------------------------------------
(* Bucket 0.                                                               *)

(* A bucket array that has been in use, not one a resize is filling.       *)
Settled(a) ==
  /\ DOMAIN tables[a] # {}
  /\ \A t \in Threads : pc[t] \in Copying => grow[t].new # a

(* The array leads to the list's first node from slot 0.                   *)
Starts(a) == 0 \in DOMAIN tables[a] /\ tables[a][0] = Link(1, 0)

(* The node hashtable_create allocates for bucket 0 stays, unmarked, and no*)
(* node comes before it.                                                   *)
ZeroNode ==
  /\ 1 \in Shared /\ heap[1].code = 0 /\ heap[1].key = 0 /\ ~Marked(1)
  /\ \A n \in Shared : heap[n].next.node # 1

ZeroSlots ==
  /\ \A a \in TableId : \A b \in DOMAIN tables[a] : tables[a][b].bit = 0
  /\ \A a \in TableId : Settled(a) => Starts(a)

ZeroTodo(t) == \A i \in DOMAIN task[t].todo : task[t].todo[i] # 0

(* The empty slots a call meets are slots of settled arrays.               *)
ZeroTable(t) ==
  pc[t] \in {"size", "check", "init"} => Settled(call[t].tbl)

(* A resize copies slot 0 first.                                           *)
ZeroCopy(t) ==
  pc[t] \in Copying =>
    /\ Settled(grow[t].old)
    /\ 0 \in DOMAIN tables[grow[t].new]
    /\ grow[t].i = 0 \/ Starts(grow[t].new)
    /\ pc[t] # "copy" => grow[t].i # 0

(* A walk goes past bucket 0's dummy node, neither unlinking nor finding   *)
(* it: it is not what anyone looks for.                                    *)
ZeroWalk(t) ==
  /\ pc[t] = "head" => walk[t].prev.tb # 0
  /\ walk[t].nxt.node # 1
  /\ pc[t] \in Walking /\ walk[t].cur.node = 1 =>
       /\ pc[t] \in {"next", "verify"}
       /\ walk[t].cur.bit = 0
       /\ pc[t] = "verify" => walk[t].nxt.bit = 0

ZeroAt(t) == ZeroTodo(t) /\ ZeroTable(t) /\ ZeroCopy(t) /\ ZeroWalk(t)

ZeroState == ZeroNode /\ ZeroSlots /\ \A t \in Threads : ZeroAt(t)

(* The node stays, whatever a step does.                                   *)
LEMMA ZeroNodeStep ==
  ASSUME Sound, ZeroState, NEW t \in Threads, Progress(t) \/ Begin(t)
  PROVE  ZeroNode'
<1>0. /\ TypeOK /\ Shared \subseteq Node /\ OwnAt(t) /\ ZeroWalk(t) /\ ZeroNode
      /\ Shared \subseteq Shared' /\ Shared \subseteq live \cap live'
      /\ \A n \in Shared' \ Shared : pc[t] = "link" /\ n = Inserted(t) /\ heap'[n] = heap[n]
      /\ Inserted(t) \notin Shared
  BY OwnTypes, SharedGrows DEF Sound, ZeroState, ZeroAt, Ownership, Shared
<1>1. heap'[1].code = 0 /\ heap'[1].key = 0 /\ ~Marked(1)'
  <2>1. heap'[1].code = heap[1].code /\ heap'[1].key = heap[1].key
    BY <1>0, NodesStay DEF Sound, ZeroNode
  <2>2. heap'[1].next.bit = heap[1].next.bit
    BY <1>0, NodesStay DEF Sound, ZeroNode, ZeroWalk, Walking
  <2> QED BY <1>0, <2>1, <2>2 DEF ZeroNode, Marked
<1>2. ASSUME NEW n \in Shared' \ Shared PROVE heap'[n].next.node # 1
  BY <1>0, <1>2 DEF OwnAt, ZeroWalk, Walking, Link
<1>3. ASSUME NEW n \in Shared PROVE heap'[n].next.node # 1
  <2>0. heap[n].next.node # 1 /\ walk[t].nxt.node # 1 /\ Inserted(t) # 1
    BY <1>0 DEF ZeroNode, ZeroWalk
  <2>1. ASSUME NEW p, NEW m, m # 1, NEW b, heap' = [heap EXCEPT ![p].next = Link(m, b)]
        PROVE  heap'[n].next.node # 1
    <3>1. n \in Node
      BY <1>0
    <3> QED BY <2>0, <2>1, <3>1 DEF TypeOK, NodeType, Link, Sound
  <2>2. ASSUME UNCHANGED heap PROVE heap'[n].next.node # 1
    BY <2>0, <2>2
  <2>3. ASSUME NEW p, NEW m, m # 1, Store(p, Link(m, 0)) PROVE heap'[n].next.node # 1
    <3>1. UNCHANGED heap \/ heap' = [heap EXCEPT ![p.ix].next = Link(m, 0)]
      BY <2>3 DEF Store
    <3> QED BY <2>1, <2>2, <2>3, <3>1
  <2>4. CASE Linking(t) \/ Unlinking(t)
    BY <2>0, <2>3, <2>4 DEF Linking, Unlinking
  <2>5. CASE Marking(t)
    BY <2>0, <2>1, <2>5 DEF Marking
  <2>6. CASE InitPublish(t) \/ Resize(t)
    BY <2>2, <2>6 DEF InitPublish, Resize, ResizeAlloc, ResizeCopy, ResizeGrow, ResizeSwap
  <2>7. CASE Steady
    BY <1>3, <2>0, <2>7 DEF Steady
  <2> QED BY <2>4, <2>5, <2>6, <2>7, StepKinds
<1> QED BY <1>0, <1>1, <1>2, <1>3 DEF ZeroNode

(* An array that is settled stays settled: a resize frees or fills only the*)
(* array it has allocated.                                                 *)
LEMMA SettledStays ==
  ASSUME Sound, NEW t \in Threads, Progress(t) \/ Begin(t), NEW a \in TableId, Settled(a)
  PROVE  Settled(a)'
<1>0. /\ TypeOK /\ grow[t] \in GrowType
      /\ \A u \in Threads \ {t} : pc'[u] = pc[u] /\ grow'[u] = grow[u]
      /\ pc[t] \in Copying => grow[t].new # a
  BY OthersStay, LocalTypes DEF Sound, Settled
<1> SUFFICES DOMAIN tables'[a] # {} /\ (pc'[t] \in Copying => grow'[t].new # a)
  BY <1>0 DEF Settled
<1> USE DEF Settled, Goto
<1>1. CASE ResizeAlloc(t)
  <2>1. NewTable # a
    BY <1>1 DEF ResizeAlloc, NewTable, FreeTables
  <2>2. tables'[a] = tables[a] /\ grow'[t].new = NewTable
    BY <1>0, <1>1, <2>1 DEF ResizeAlloc, TypeOK, GrowType
  <2> QED BY <2>1, <2>2
<1>2. CASE ResizeCopy(t)
  BY <1>0, <1>2 DEF ResizeCopy, TypeOK, GrowType, Copying
<1>3. CASE ResizeGrow(t)
  <2>1. CASE UNCHANGED <<tables, locals>>
    BY <1>0, <1>3, <2>1 DEF ResizeGrow, locals, Copying
  <2>2. CASE Return(t, 1) /\ tables' = [tables EXCEPT ![grow[t].new] = NoSlots]
    BY <1>0, <1>3, <2>2 DEF ResizeGrow, Return, TypeOK, Copying
  <2> QED BY <1>3, <2>1, <2>2 DEF ResizeGrow
<1>4. CASE ResizeSwap(t)
  BY <1>0, <1>4 DEF ResizeSwap, Return, TypeOK, Copying
<1>5. CASE Fault(t)
  BY <1>0, <1>5 DEF Fault, OutOfBounds, WildRead, locals
<1>6. CASE ~Fault(t) /\ ~Resize(t)
  BY <1>0, <1>6, Outside
<1> QED BY <1>1, <1>2, <1>3, <1>4, <1>5, <1>6 DEF Resize

(* An array is settled when the resize that filled it puts it in use.      *)
LEMMA SettledBySwap ==
  ASSUME Sound, NEW t \in Threads, Progress(t) \/ Begin(t), NEW a \in TableId, Settled(a)'
  PROVE  Settled(a) \/ (ResizeSwap(t) /\ a = grow[t].new)
<1>0. /\ TypeOK /\ grow[t] \in GrowType /\ DOMAIN NoSlots = {}
      /\ \A u \in Threads \ {t} : pc'[u] = pc[u] /\ grow'[u] = grow[u]
      /\ DOMAIN tables'[a] # {} /\ (pc'[t] \in Copying => grow'[t].new # a)
      /\ \A u \in Threads \ {t} : pc[u] \in Copying => grow[u].new # a
  BY OthersStay, LocalTypes DEF Sound, Settled, NoSlots
<1> SUFFICES ASSUME ~(ResizeSwap(t) /\ a = grow[t].new)
             PROVE  DOMAIN tables[a] # {} /\ (pc[t] \in Copying => grow[t].new # a)
  BY <1>0 DEF Settled
<1> USE DEF Goto
<1>1. CASE ResizeAlloc(t)
  <2>1. pc'[t] = "copy" /\ pc[t] = "resize" /\ grow'[t].new = NewTable
    BY <1>0, <1>1 DEF ResizeAlloc, TypeOK, GrowType
  <2>2. tables'[a] = tables[a]
    BY <1>0, <1>1, <2>1 DEF ResizeAlloc, TypeOK, Copying
  <2> QED BY <1>0, <2>1, <2>2 DEF Copying
<1>2. CASE ResizeCopy(t)
  BY <1>0, <1>2 DEF ResizeCopy, TypeOK, GrowType, Copying
<1>3. CASE ResizeGrow(t)
  <2>1. CASE UNCHANGED <<tables, locals>> /\ pc' = [pc EXCEPT ![t] = "swap"]
    BY <1>0, <1>3, <2>1 DEF ResizeGrow, locals, Copying, TypeOK
  <2>2. CASE Return(t, 1) /\ tables' = [tables EXCEPT ![grow[t].new] = NoSlots]
    BY <1>0, <1>3, <2>2 DEF ResizeGrow, Return, TypeOK, Copying
  <2> QED BY <1>3, <2>1, <2>2 DEF ResizeGrow
<1>4. CASE ResizeSwap(t)
  BY <1>0, <1>4 DEF ResizeSwap, Return, TypeOK, Copying
<1>5. CASE Fault(t)
  BY <1>0, <1>5 DEF Fault, OutOfBounds, WildRead, locals
<1>6. CASE ~Fault(t) /\ ~Resize(t)
  BY <1>0, <1>6, Outside
<1> QED BY <1>1, <1>2, <1>3, <1>4, <1>5, <1>6 DEF Resize

(* The innermost bucket to initialize is not bucket 0.                     *)
LEMMA HeadNotZero ==
  ASSUME Sound, NEW t \in Threads, ZeroTodo(t), pc[t] \in InInit \/ Initializing(t)
  PROVE  /\ task[t].todo # <<>> /\ Head(task[t].todo) \in Nat \ {0}
         /\ Head(task[t].todo) = task[t].todo[1]
<1>1. task[t].todo # <<>> /\ task[t].todo \in Seq(Nat)
  BY LocalTypes DEF Sound, Control, ControlAt, Initializing
<1>2. 1 \in DOMAIN task[t].todo /\ Head(task[t].todo) = task[t].todo[1]
  BY <1>1
<1>3. Head(task[t].todo) \in Nat
  BY <1>1, HeadType
<1> QED BY <1>1, <1>2, <1>3 DEF ZeroTodo

(* No compare-and-swap expects bucket 0's dummy node, so that slot 0 keeps *)
(* leading to it.                                                          *)
LEMMA StartsStay ==
  ASSUME Sound, ZeroState, NEW t \in Threads, Progress(t) \/ Begin(t),
         NEW a \in TableId, Starts(a), pc[t] \in {"copy", "grow"} => grow[t].new # a
  PROVE  Starts(a)'
<1>0. /\ TypeOK /\ ZeroWalk(t) /\ ZeroTodo(t) /\ pc[t] \in Labels
      /\ 0 \in DOMAIN tables[a] /\ tables[a][0] = Link(1, 0)
  BY LocalTypes DEF Sound, ZeroState, ZeroAt, Starts
<1>1. CASE UNCHANGED tables
  BY <1>1 DEF Starts
<1>2. CASE Linking(t) \/ Unlinking(t)
  <2>1. /\ LeadsTo(walk[t].prev, walk[t].cur.node)
        /\ \E x : Store(walk[t].prev, x)
    BY <1>2 DEF Linking, Unlinking
  <2>2. walk[t].cur.node # 1
    BY <1>0, <1>2 DEF Linking, InsertLink, Unlinking, FindUnlink, DeleteDetach, Goto, ZeroWalk,
       Walking
  <2>3. PICK x : Store(walk[t].prev, x)
    BY <2>1
  <2>4. CASE walk[t].prev.tb = 0
    BY <1>1, <2>3, <2>4 DEF Store
  <2>5. CASE walk[t].prev.tb # 0
    <3>1. tables' = [tables EXCEPT ![walk[t].prev.tb][walk[t].prev.ix] = x]
      BY <2>3, <2>5 DEF Store
    <3>2. ~(walk[t].prev.tb = a /\ walk[t].prev.ix = 0)
      BY <1>0, <2>1, <2>2, <2>5 DEF LeadsTo, Load, Link
    <3> QED BY <1>0, <3>1, <3>2 DEF TypeOK, Starts
  <2> QED BY <2>4, <2>5
<1>3. CASE InitPublish(t)
  <2>1. Head(task[t].todo) # 0
    BY <1>0, <1>3, HeadNotZero DEF InitPublish, InInit
  <2>2. tables' = [tables EXCEPT ![task[t].dst][Head(task[t].todo)] = Link(task[t].res, 0)]
    BY <1>3 DEF InitPublish, Slot
  <2> QED BY <1>0, <2>1, <2>2 DEF TypeOK, Starts
<1>4. CASE ResizeAlloc(t)
  <2>1. NewTable # a
    BY <1>0, <1>4 DEF ResizeAlloc, NewTable, FreeTables
  <2> QED BY <1>0, <1>4, <2>1 DEF ResizeAlloc, TypeOK, Starts
<1>5. CASE ResizeCopy(t) \/ ResizeGrow(t)
  <2>1. grow[t].new # a
    BY <1>5 DEF ResizeCopy, ResizeGrow
  <2> QED BY <1>0, <1>5, <2>1 DEF ResizeCopy, ResizeGrow, TypeOK, Starts
<1>6. CASE ResizeSwap(t)
  <2>1. table = grow[t].old
    BY <1>6 DEF ResizeSwap, Sound, ResizeInv, SwapAt
  <2> QED BY <1>1, <1>6, <2>1 DEF ResizeSwap
<1> QED
  BY <1>1, <1>2, <1>3, <1>4, <1>5, <1>6, StepKinds
     DEF Steady, Marking, DeleteMark, Resize

(* No mark bit gets into a slot, and settled arrays start the list.        *)
LEMMA ZeroSlotsStep ==
  ASSUME Sound, ZeroState, NEW t \in Threads, Progress(t) \/ Begin(t)
  PROVE  ZeroSlots'
<1>0. /\ TypeOK /\ pc[t] \in Labels
      /\ \A a \in TableId : \A b \in DOMAIN tables[a] : tables[a][b].bit = 0
      /\ \A a \in TableId : Settled(a) => Starts(a)
  BY LocalTypes DEF Sound, ZeroState, ZeroSlots
<1>1. ASSUME NEW a \in TableId, Settled(a)' PROVE Starts(a)'
  <2>1. CASE Settled(a)
    BY <1>0, <1>1, <2>1, StartsStay DEF Settled, Copying
  <2>2. CASE ResizeSwap(t) /\ a = grow[t].new
    <3>1. Starts(a)
      BY <2>2 DEF ResizeSwap, ZeroState, ZeroAt, ZeroCopy, Copying
    <3> QED BY <2>2, <3>1, StartsStay DEF ResizeSwap
  <2> QED BY <1>1, <2>1, <2>2, SettledBySwap
<1>2. ASSUME NEW a \in TableId, NEW b \in DOMAIN tables'[a] PROVE tables'[a][b].bit = 0
  <2>1. CASE UNCHANGED tables
    BY <1>0, <1>2, <2>1
  <2>3. \A m : Link(m, 0).bit = 0
    BY DEF Link
  <2>4. ASSUME NEW p, NEW m, Store(p, Link(m, 0)) PROVE tables'[a][b].bit = 0
    <3>1. CASE tables' = [tables EXCEPT ![p.tb][p.ix] = Link(m, 0)]
      BY <1>0, <1>2, <2>3, <3>1 DEF TypeOK
    <3> QED BY <2>1, <2>4, <3>1 DEF Store
  <2>9. CASE Linking(t) \/ Unlinking(t)
    BY <2>4, <2>9 DEF Linking, Unlinking
  <2>5. CASE InitPublish(t)
    <3>1. tables' = [tables EXCEPT ![task[t].dst][Head(task[t].todo)] = Link(task[t].res, 0)]
      BY <2>5 DEF InitPublish, Slot
    <3> QED BY <1>0, <1>2, <2>3, <3>1 DEF TypeOK
  <2>6. CASE ResizeAlloc(t)
    BY <1>0, <1>2, <2>6 DEF ResizeAlloc, TypeOK, Grown, Null, Link
  <2>7. CASE ResizeCopy(t)
    <3>1. Load(Slot(grow[t].old, grow[t].i)).bit = 0
      BY <1>0, <2>7, LocalTypes DEF ResizeCopy, InBounds, Load, Slot, TableId
    <3>2. tables' = [tables EXCEPT ![grow[t].new][grow[t].i] = Load(Slot(grow[t].old, grow[t].i))]
      BY <2>7 DEF ResizeCopy
    <3>3. tables'[a][b] \in {Load(Slot(grow[t].old, grow[t].i)), tables[a][b]} /\ b \in DOMAIN tables[a]
      BY <1>0, <1>2, <3>2 DEF TypeOK
    <3> QED BY <1>0, <3>1, <3>3
  <2>8. CASE ResizeGrow(t) \/ ResizeSwap(t)
    <3>1. UNCHANGED tables \/ tables' = [tables EXCEPT ![grow[t].new] = NoSlots]
      BY <2>8 DEF ResizeGrow, ResizeSwap
    <3>2. DOMAIN NoSlots = {}
      BY DEF NoSlots
    <3> QED BY <1>0, <1>2, <2>1, <3>1, <3>2 DEF TypeOK
  <2> QED
    BY <2>1, <2>5, <2>6, <2>7, <2>8, <2>9, StepKinds DEF Steady, Marking, DeleteMark, Resize
<1> QED BY <1>1, <1>2 DEF ZeroSlots

(* No step takes slot 0 away from an array it does not free.               *)
LEMMA SlotKept ==
  ASSUME Sound, NEW t \in Threads, Progress(t) \/ Begin(t),
         NEW a \in TableId, 0 \in DOMAIN tables[a], pc[t] = "grow" => grow[t].new # a
  PROVE  0 \in DOMAIN tables'[a]
<1>0. TypeOK
  BY DEF Sound
<1>1. CASE ResizeAlloc(t)
  <2>1. NewTable # a
    BY <1>1 DEF ResizeAlloc, NewTable, FreeTables
  <2> QED BY <1>0, <1>1, <2>1 DEF ResizeAlloc, TypeOK
<1>2. CASE ResizeCopy(t) \/ ResizeGrow(t)
  BY <1>0, <1>2 DEF ResizeCopy, ResizeGrow, TypeOK
<1>3. CASE ResizeSwap(t)
  <2>1. table = grow[t].old
    BY <1>3 DEF ResizeSwap, Sound, ResizeInv, SwapAt
  <2> QED BY <1>3, <2>1 DEF ResizeSwap
<1>4. CASE Fault(t)
  BY <1>4 DEF Fault, OutOfBounds, WildRead
<1>5. CASE ~Fault(t) /\ ~Resize(t)
  BY <1>0, <1>5, Outside
<1> QED BY <1>1, <1>2, <1>3, <1>4, <1>5 DEF Resize

(* What holds of the other threads still does.                             *)
LEMMA ZeroOthers ==
  ASSUME Sound, ZeroState, NEW t \in Threads, Progress(t) \/ Begin(t), NEW u \in Threads \ {t}
  PROVE  ZeroAt(u)'
<1>0. /\ TypeOK /\ ZeroTodo(u) /\ ZeroTable(u) /\ ZeroCopy(u) /\ ZeroWalk(u)
      /\ pc'[u] = pc[u] /\ call'[u] = call[u] /\ walk'[u] = walk[u]
      /\ task'[u] = task[u] /\ grow'[u] = grow[u]
  BY OthersStay DEF Sound, ZeroState, ZeroAt
<1>1. /\ call[u].tbl \in TableId /\ grow[u].old \in TableId /\ grow[u].new \in TableId
  BY <1>0, LocalTypes
<1>2. ZeroTodo(u)' /\ ZeroWalk(u)'
  BY <1>0 DEF ZeroTodo, ZeroWalk
<1>3. ZeroTable(u)'
  BY <1>0, <1>1, SettledStays DEF ZeroTable
<1>4. ZeroCopy(u)'
  <2>1. SUFFICES ASSUME pc[u] \in Copying
                 PROVE  /\ Settled(grow[u].old)'
                        /\ 0 \in DOMAIN tables'[grow[u].new]
                        /\ Starts(grow[u].new) => Starts(grow[u].new)'
    BY <1>0 DEF ZeroCopy, Starts
  <2>2. pc[t] \in {"copy", "grow"} => grow[t].new # grow[u].new
    BY <2>1 DEF Sound, ResizeInv, Apart, Copying
  <2>3. Settled(grow[u].old) /\ 0 \in DOMAIN tables[grow[u].new]
    BY <1>0, <2>1 DEF ZeroCopy
  <2> HIDE DEF Starts
  <2>4. Starts(grow[u].new) => (Starts(grow[u].new))'
    <3>1. ASSUME NEW a \in TableId, a = grow[u].new, Starts(a) PROVE Starts(a)'
      BY <2>2, <3>1, StartsStay
    <3> QED BY <1>0, <1>1, <3>1 DEF Starts
  <2>5. Settled(grow[u].old)'
    BY <1>0, <1>1, <2>3, SettledStays DEF Settled
  <2> QED BY <1>1, <2>2, <2>3, <2>4, <2>5, SlotKept
<1> QED BY <1>2, <1>3, <1>4 DEF ZeroAt

(* Bucket 0's slot is never found empty.                                   *)
LEMMA ZeroTodoStep ==
  ASSUME Sound, ZeroState, NEW t \in Threads, Progress(t) \/ Begin(t)
  PROVE  ZeroTodo(t)'
<1>0. /\ TypeOK /\ ZeroTodo(t) /\ ZeroTable(t) /\ task[t] \in TaskType /\ call[t].tbl \in TableId
      /\ task[t].todo \in Seq(Nat)
      /\ \A a \in TableId : Settled(a) => Starts(a)
  BY LocalTypes DEF Sound, ZeroState, ZeroAt, ZeroSlots
<1>1. ASSUME task'[t].todo = task[t].todo PROVE ZeroTodo(t)'
  BY <1>0, <1>1 DEF ZeroTodo
<1>2. ASSUME NEW out, Return(t, out) PROVE ZeroTodo(t)'
  <2>1. task'[t].todo = <<>>
    BY <1>0, <1>2 DEF Return, TypeOK, NoTask
  <2> QED BY <2>1 DEF ZeroTodo
<1>3. ASSUME NEW b, pc[t] \in {"check", "init"}, Load(Slot(call[t].tbl, b)).node = NIL PROVE b # 0
  <2>1. Starts(call[t].tbl)
    BY <1>0, <1>3 DEF ZeroTable
  <2> QED BY <1>0, <1>3, <2>1 DEF Starts, Load, Slot, Link, NIL, TableId
<1>4. CASE CheckBucket(t)
  <2>1. CASE task' = [task EXCEPT ![t].todo = <<call[t].bucket>>]
             /\ Load(Slot(call[t].tbl, call[t].bucket)).node = NIL
    <3>1. task'[t].todo = <<call[t].bucket>>
      BY <1>0, <2>1 DEF TypeOK, TaskType
    <3>2. call[t].bucket # 0
      BY <1>3, <1>4, <2>1 DEF CheckBucket
    <3> QED BY <3>1, <3>2 DEF ZeroTodo
  <2> QED BY <1>1, <1>4, <2>1 DEF CheckBucket
<1>5. CASE InitCheckParent(t)
  <2> DEFINE p == Parent(Head(task[t].todo))
  <2>1. CASE task' = [task EXCEPT ![t].todo = <<p>> \o @] /\ Load(Slot(call[t].tbl, p)).node = NIL
    <3>1. task'[t].todo = <<p>> \o task[t].todo
      BY <1>0, <2>1 DEF TypeOK, TaskType
    <3>2. p # 0 /\ p \in Nat
      <4>1. Head(task[t].todo) \in Nat
        BY <1>0, <1>5, HeadNotZero DEF InitCheckParent, InInit
      <4> QED BY <1>3, <1>5, <2>1, <4>1, CodeTypes DEF InitCheckParent
    <3> HIDE DEF p
    <3>3. ASSUME NEW i \in DOMAIN task'[t].todo PROVE task'[t].todo[i] # 0
      <4>1. i \in 1 .. (1 + Len(task[t].todo)) /\ DOMAIN task[t].todo = 1 .. Len(task[t].todo)
            /\ Len(task[t].todo) \in Nat
        BY <1>0, <3>1, <3>2, <3>3
      <4>2. CASE i = 1
        BY <1>0, <3>1, <3>2, <4>2
      <4>3. CASE i # 1
        <5>1. i - 1 \in DOMAIN task[t].todo /\ task'[t].todo[i] = task[t].todo[i - 1]
          BY <1>0, <3>1, <3>2, <4>1, <4>3
        <5> QED BY <1>0, <5>1 DEF ZeroTodo
      <4> QED BY <4>2, <4>3
    <3> QED BY <3>3 DEF ZeroTodo
  <2> QED BY <1>1, <1>5, <2>1 DEF InitCheckParent
<1>6. CASE InitPublish(t)
  <2>1. task[t].todo # <<>>
    BY <1>0, <1>6, HeadNotZero DEF InitPublish, InInit
  <2>2. task'[t].todo = Tail(task[t].todo)
    BY <1>0, <1>6 DEF InitPublish, TypeOK, TaskType
  <2>3. \A i \in DOMAIN Tail(task[t].todo) :
          i + 1 \in DOMAIN task[t].todo /\ Tail(task[t].todo)[i] = task[t].todo[i + 1]
    BY <1>0, <2>1
  <2> QED BY <1>0, <2>2, <2>3 DEF ZeroTodo
<1>7. CASE Begin(t) \/ InitAlloc(t) \/ InitFoundDummy(t) \/ InitReload(t) \/ InsertLink(t)
  BY <1>0, <1>1, <1>7 DEF Begin, BeginInsert, BeginLookup, InitAlloc, InitFoundDummy, InitReload,
     InsertLink, TypeOK, TaskType
<1>8. CASE ListFind(t) \/ Fault(t)
  BY <1>1, <1>8 DEF ListFind, FindReadTable, FindReadHead, FindReadNext, FindVerify, FindUnlink,
     Fault, OutOfBounds, WildRead, locals
<1>9. CASE InsertReadSize(t) \/ InsertPrepare(t) \/ InsertFoundKey(t)
  BY <1>1, <1>2, <1>9 DEF InsertReadSize, InsertPrepare, InsertFoundKey, locals
<1>10. CASE InsertLoadSize(t) \/ InsertCount(t) \/ Resize(t)
  BY <1>1, <1>2, <1>10 DEF InsertLoadSize, InsertCount, Resize, ResizeAlloc, ResizeCopy,
     ResizeGrow, ResizeSwap, locals
<1>11. CASE Lookup(t) \/ Delete(t)
  BY <1>1, <1>2, <1>11 DEF Lookup, LookupReadTable, FindMiss, FindHit, FindValue, Delete,
     DeleteHit, DeleteMark, DeleteDetach, DeleteUncount, DeleteTake, DeleteErase, locals
<1> QED
  BY <1>4, <1>5, <1>6, <1>7, <1>8, <1>9, <1>10, <1>11 DEF Progress, BucketInit, Insert

(* The array in use is settled.                                            *)
LEMMA TableSettled ==
  ASSUME Sound
  PROVE  table \in TableId /\ Settled(table)
<1>1. table \in TableId /\ Slots[table] > 0 /\ Arrays
  BY DEF Sound, TypeOK, ResizeInv
<1>2. 0 \in DOMAIN tables[table]
  BY <1>1 DEF Arrays
<1>3. \A t \in Threads : pc[t] \in Copying => grow[t].new # table
  BY DEF Sound, ResizeInv, CopyAt
<1> QED BY <1>1, <1>2, <1>3 DEF Settled

(* A call uses the array it read, which was in use then.                   *)
LEMMA ZeroTableStep ==
  ASSUME Sound, ZeroState, NEW t \in Threads, Progress(t) \/ Begin(t)
  PROVE  ZeroTable(t)'
<1>0. /\ TypeOK /\ ZeroTable(t) /\ call[t] \in CallType /\ call[t].tbl \in TableId
      /\ pc[t] \in Labels /\ table \in TableId
  BY LocalTypes, TableSettled DEF Sound, ZeroState, ZeroAt
<1> DEFINE At == {"size", "check", "init"}
<1> USE DEF Goto, locals
<1>1. ASSUME pc'[t] \notin At PROVE ZeroTable(t)'
  BY <1>1 DEF ZeroTable
<1>2. ASSUME pc[t] \in At, call'[t].tbl = call[t].tbl PROVE ZeroTable(t)'
  <2>1. Settled(call[t].tbl)'
    <3>1. ASSUME NEW a \in TableId, a = call[t].tbl, Settled(a) PROVE Settled(a)'
      BY <3>1, SettledStays
    <3>2. Settled(call[t].tbl)
      BY <1>0, <1>2 DEF ZeroTable
    <3> QED BY <1>0, <1>2, <3>1, <3>2 DEF Settled
  <2> QED BY <1>2, <2>1 DEF ZeroTable, Settled
<1>3. ASSUME call'[t].tbl = table PROVE ZeroTable(t)'
  <2>1. ASSUME NEW a \in TableId, a = table PROVE Settled(a)'
    BY <2>1, TableSettled, SettledStays
  <2> QED BY <1>0, <1>3, <2>1 DEF ZeroTable, Settled
<1>4. CASE Begin(t)
  BY <1>0, <1>1, <1>3, <1>4 DEF Begin, BeginInsert, BeginLookup, TypeOK
<1>5. CASE LookupReadTable(t)
  BY <1>0, <1>3, <1>5 DEF LookupReadTable, TypeOK, CallType
<1>6. CASE InsertReadSize(t) \/ CheckBucket(t) \/ InitCheckParent(t)
  BY <1>0, <1>2, <1>6 DEF InsertReadSize, CheckBucket, InitCheckParent, TypeOK, CallType
<1>7. CASE Fault(t)
  BY <1>1, <1>2, <1>7 DEF Fault, OutOfBounds, WildRead
<1>8. CASE InitAlloc(t) \/ InitFoundDummy(t) \/ InitReload(t) \/ InitPublish(t) \/ ListFind(t)
  BY <1>0, <1>1, <1>8 DEF InitAlloc, InitFoundDummy, InitReload, InitPublish, ListFind,
     FindReadTable, FindReadHead, FindReadNext, FindVerify, FindUnlink, TypeOK
<1>9. CASE InsertPrepare(t) \/ InsertLink(t) \/ InsertFoundKey(t) \/ InsertLoadSize(t) \/ InsertCount(t)
  BY <1>0, <1>1, <1>9 DEF InsertPrepare, InsertLink, InsertFoundKey, InsertLoadSize, InsertCount,
     Return, TypeOK
<1>10. CASE Resize(t) \/ FindMiss(t) \/ FindHit(t) \/ FindValue(t)
  BY <1>0, <1>1, <1>10 DEF Resize, ResizeAlloc, ResizeCopy, ResizeGrow, ResizeSwap, FindMiss,
     FindHit, FindValue, Return, TypeOK
<1>11. CASE Delete(t)
  BY <1>0, <1>1, <1>11 DEF Delete, DeleteHit, DeleteMark, DeleteDetach, DeleteUncount,
     DeleteTake, DeleteErase, Return, TypeOK
<1> QED
  BY <1>4, <1>5, <1>6, <1>7, <1>8, <1>9, <1>10, <1>11 DEF Progress, BucketInit, Insert, Lookup

(* A resize copies slot 0 of an array that starts the list.                *)
LEMMA ZeroCopyStep ==
  ASSUME Sound, ZeroState, NEW t \in Threads, Progress(t) \/ Begin(t)
  PROVE  ZeroCopy(t)'
<1>0. /\ TypeOK /\ ZeroCopy(t) /\ grow[t] \in GrowType /\ pc[t] \in Labels
      /\ grow[t].new \in TableId /\ grow[t].old \in TableId /\ grow[t].i \in Nat
      /\ grow[t].sz \in Nat /\ table \in TableId
      /\ \A a \in TableId : Settled(a) => Starts(a)
  BY LocalTypes, TableSettled DEF Sound, ZeroState, ZeroAt, ZeroSlots
<1> USE DEF Goto
<1>1. ASSUME pc[t] \in Copying, grow'[t].old = grow[t].old PROVE Settled(grow[t].old)'
  <2>1. ASSUME NEW a \in TableId, a = grow[t].old, Settled(a) PROVE Settled(a)'
    BY <2>1, SettledStays
  <2>2. Settled(grow[t].old)
    BY <1>0, <1>1 DEF ZeroCopy
  <2> QED BY <1>0, <1>1, <2>1, <2>2 DEF Settled
<1>2. CASE ResizeAlloc(t)
  <2>1. NewTable \in TableId
    BY <1>2 DEF ResizeAlloc, NewTable, FreeTables
  <2>2. /\ grow'[t].old = table /\ grow'[t].new = NewTable /\ grow'[t].i = 0 /\ pc'[t] = "copy"
        /\ tables'[NewTable] = Grown(grow[t].sz) /\ pc[t] = "resize"
    BY <1>0, <1>2, <2>1 DEF ResizeAlloc, TypeOK, GrowType
  <2>3. grow[t].sz > 0
    BY <2>2 DEF Sound, ResizeInv
  <2>4. 0 \in DOMAIN Grown(grow[t].sz)
    BY <1>0, <2>3 DEF Grown, Doubled
  <2>5. ASSUME NEW a \in TableId, a = table PROVE Settled(a)'
    BY <2>5, TableSettled, SettledStays
  <2> QED BY <1>0, <2>2, <2>4, <2>5 DEF ZeroCopy, Settled
<1>3. CASE ResizeCopy(t)
  <2>1. /\ grow'[t].old = grow[t].old /\ grow'[t].new = grow[t].new
        /\ grow'[t].i = grow[t].i + 1 /\ pc[t] = "copy"
        /\ tables' = [tables EXCEPT ![grow[t].new][grow[t].i] = tables[grow[t].old][grow[t].i]]
    <3>1. Load(Slot(grow[t].old, grow[t].i)) = tables[grow[t].old][grow[t].i]
      BY <1>0 DEF Load, Slot, TableId
    <3>2. grow' = [grow EXCEPT ![t].i = grow[t].i + 1] /\ pc[t] = "copy"
      BY <1>3 DEF ResizeCopy
    <3>3. /\ grow'[t].old = grow[t].old /\ grow'[t].new = grow[t].new
          /\ grow'[t].i = grow[t].i + 1
      BY <1>0, <3>2 DEF TypeOK, GrowType
    <3> QED BY <1>3, <3>1, <3>2, <3>3 DEF ResizeCopy
  <2>2. /\ Settled(grow[t].old) /\ Starts(grow[t].old)
        /\ 0 \in DOMAIN tables[grow[t].new]
        /\ grow[t].i = 0 \/ Starts(grow[t].new)
    BY <1>0, <2>1 DEF ZeroCopy, Copying
  <2>3. DOMAIN tables'[grow[t].new] = DOMAIN tables[grow[t].new]
    BY <1>0, <2>1 DEF TypeOK
  <2>4. tables'[grow[t].new][0] = Link(1, 0)
    BY <1>0, <2>1, <2>2 DEF TypeOK, Starts
  <2>5. Settled(grow[t].old)'
    BY <1>1, <2>1 DEF Copying
  <2> QED BY <1>0, <2>1, <2>2, <2>3, <2>4, <2>5 DEF ZeroCopy, Starts, Settled
<1>4. CASE ResizeGrow(t)
  <2>1. CASE UNCHANGED <<tables, locals>>
    <3>1. Settled(grow[t].old)'
      BY <1>1, <1>4, <2>1 DEF ResizeGrow, Copying, locals
    <3> QED BY <1>0, <1>4, <2>1, <3>1 DEF ResizeGrow, ZeroCopy, Copying, locals, Settled, Starts
  <2> QED BY <1>4, <2>1 DEF ResizeGrow, Return, ZeroCopy, Copying, TypeOK, Sound
<1>5. CASE ResizeSwap(t)
  BY <1>5 DEF ResizeSwap, Return, ZeroCopy, Copying, TypeOK, Sound
<1>6. CASE Fault(t)
  <2>1. UNCHANGED <<tables, pc, grow>>
    BY <1>6 DEF Fault, OutOfBounds, WildRead, locals
  <2> QED BY <1>0, <2>1 DEF ZeroCopy, Starts, Settled
<1>7. CASE ~Fault(t) /\ ~Resize(t)
  BY <1>0, <1>7, Outside DEF ZeroCopy
<1> QED BY <1>2, <1>3, <1>4, <1>5, <1>6, <1>7 DEF Resize

(* What a walk looks for is a bucket other than 0 or a key.                *)
LEMMA SoughtTypes ==
  ASSUME Sound, NEW t \in Threads, ZeroTodo(t)
  PROVE  /\ SoughtCode(t) \in Word /\ SoughtKey(t) \in Nat
         /\ SoughtCode(t) # 0 \/ SoughtKey(t) # 0
<1>0. call[t].key \in Nat /\ Hash(call[t].key) \in Nat
  BY LocalTypes, CodeTypes DEF Sound
<1>1. CASE Initializing(t)
  <2>1. Head(task[t].todo) \in Nat \ {0}
    BY <1>1, HeadNotZero
  <2> QED BY <1>1, <2>1, CodeKinds DEF SoughtCode, SoughtKey
<1>2. CASE ~Initializing(t)
  BY <1>0, <1>2, CodeKinds DEF SoughtCode, SoughtKey, IsRegular
<1> QED BY <1>1, <1>2

(* Where the walk stops, if `current' has no mark bit.                     *)
LEMMA StopsOrNot ==
  ASSUME NEW t \in Threads, walk[t].cur.bit = 0
  PROVE  /\ TRUE \in StopsHere(t) => CurCode(t) > SoughtCode(t) \/ HoldsSought(t)
         /\ FALSE \in StopsHere(t) => ~(CurCode(t) > SoughtCode(t) \/ HoldsSought(t))
<1> DEFINE stops == CurCode(t) > SoughtCode(t) \/ HoldsSought(t)
<1>1. StopsHere(t) = {stops}
  BY DEF StopsHere
<1>2. stops \in BOOLEAN
  BY DEF HoldsSought
<1> HIDE DEF stops
<1>3. (TRUE \in {stops} => stops) /\ (FALSE \in {stops} => ~stops)
  BY <1>2
<1>4. (TRUE \in StopsHere(t) => stops) /\ (FALSE \in StopsHere(t) => ~stops)
  BY <1>1, <1>3
<1> QED BY <1>4 DEF stops

(* The walk goes past bucket 0's dummy node.                               *)
LEMMA ZeroWalkStep ==
  ASSUME Sound, ZeroState, NEW t \in Threads, Progress(t) \/ Begin(t)
  PROVE  ZeroWalk(t)'
<1>0. /\ TypeOK /\ ZeroWalk(t) /\ ZeroTodo(t) /\ walk[t] \in WalkType /\ pc[t] \in Labels
      /\ walk[t].prev \in SlotType /\ table \in TableId
      /\ walk[t].cur.node # NIL => walk[t].cur.node \in Shared
      /\ heap[1].code = 0 /\ heap[1].key = 0
      /\ \A n \in Shared : heap[n].next.node # 1
      /\ \A a \in TableId : \A b \in DOMAIN tables[a] : tables[a][b].bit = 0
  BY LocalTypes DEF Sound, ZeroState, ZeroAt, ZeroNode, ZeroSlots, Marked, NoDangling, Target, TypeOK
<1>00. heap[1].next.bit = 0
  <2>1. heap[1].next \in LinkType
    BY DEF Sound, TypeOK, NodeType, ZeroState, ZeroNode, Shared
  <2> QED BY <2>1 DEF ZeroState, ZeroNode, Marked, LinkType
<1> USE DEF Goto, Walking
<1>1. ASSUME walk'[t] = walk[t], pc'[t] \notin Walking, pc'[t] # "head" PROVE ZeroWalk(t)'
  BY <1>0, <1>1 DEF ZeroWalk
<1>2. ASSUME NEW out, Return(t, out) PROVE ZeroWalk(t)'
  BY <1>0, <1>2 DEF Return, ZeroWalk, TypeOK, NoWalk, Null, Link, NIL
<1>3. CASE FindReadTable(t)
  <2>1. walk'[t].prev.tb # 0 /\ walk'[t].nxt = walk[t].nxt /\ pc'[t] = "head"
    BY <1>0, <1>3 DEF FindReadTable, TypeOK, WalkType, Slot, TableId
  <2> QED BY <1>0, <2>1 DEF ZeroWalk
<1>4. CASE FindReadHead(t)
  <2>1. walk'[t].cur = Load(walk[t].prev) /\ walk'[t].nxt = walk[t].nxt /\ pc'[t] = "next"
    BY <1>0, <1>4 DEF FindReadHead, TypeOK, WalkType
  <2>2. walk[t].prev.tb \in TableId /\ Load(walk[t].prev) = tables[walk[t].prev.tb][walk[t].prev.ix]
    BY <1>0, <1>4 DEF FindReadHead, ZeroWalk, SlotType, Load
  <2>3. Load(walk[t].prev).bit = 0
    BY <1>0, <1>4, <2>2 DEF FindReadHead, InBounds
  <2> QED BY <1>0, <2>1, <2>3 DEF ZeroWalk
<1>5. CASE FindReadNext(t)
  <2>1. CASE walk[t].cur.node = NIL
    BY <1>0, <1>5, <2>1 DEF FindReadNext, ZeroWalk, TypeOK, NIL
  <2>2. CASE walk[t].cur.node # NIL
    <3>1. /\ walk'[t].nxt = heap[walk[t].cur.node].next /\ walk'[t].cur = walk[t].cur
          /\ pc[t] = "next" /\ pc'[t] = "verify"
      BY <1>0, <1>5, <2>2 DEF FindReadNext, TypeOK, WalkType
    <3> QED BY <1>0, <1>00, <2>2, <3>1 DEF ZeroWalk
  <2> QED BY <2>1, <2>2
<1>6. CASE FindVerify(t)
  <2>1. CASE pc' = [pc EXCEPT ![t] = "find"] /\ UNCHANGED walk
    BY <1>0, <1>1, <2>1 DEF TypeOK
  <2>2. CASE pc' = [pc EXCEPT ![t] = "unlink"] /\ UNCHANGED walk /\ walk[t].nxt.bit = 1
    BY <1>0, <1>6, <2>2 DEF FindVerify, ZeroWalk, TypeOK
  <2>3. CASE pc' = [pc EXCEPT ![t] = "found"] /\ UNCHANGED walk /\ TRUE \in StopsHere(t)
    <3>1. walk[t].cur.node # 1
      <4> SUFFICES ASSUME walk[t].cur.node = 1 PROVE FALSE
        OBVIOUS
      <4>1. walk[t].cur.bit = 0 /\ CurCode(t) = 0 /\ CurKey(t) = 0
        BY <1>0, <1>6 DEF FindVerify, ZeroWalk, CurCode, CurKey
      <4>2. 0 > SoughtCode(t) \/ HoldsSought(t)
        BY <2>3, <4>1, StopsOrNot
      <4>3. SoughtCode(t) \in Nat
        BY <1>0, SoughtTypes, WordIsPower
      <4>4. HoldsSought(t)
        BY <4>2, <4>3
      <4> QED BY <1>0, <4>1, <4>4, SoughtTypes DEF HoldsSought
    <3> QED BY <1>0, <2>3, <3>1 DEF ZeroWalk, TypeOK
  <2>4. CASE /\ pc' = [pc EXCEPT ![t] = "next"]
             /\ walk' = [walk EXCEPT ![t].prev = NextOf(walk[t].cur.node), ![t].cur = walk[t].nxt]
    <3>1. walk'[t].cur = walk[t].nxt /\ walk'[t].nxt = walk[t].nxt /\ pc'[t] = "next"
      BY <1>0, <2>4 DEF TypeOK, WalkType
    <3> QED BY <1>0, <3>1 DEF ZeroWalk
  <2> QED BY <1>6, <2>1, <2>2, <2>3, <2>4 DEF FindVerify
<1>7. CASE FindUnlink(t)
  <2>1. CASE pc' = [pc EXCEPT ![t] = "find"] /\ UNCHANGED walk
    BY <1>0, <1>1, <2>1 DEF TypeOK
  <2>2. CASE pc' = [pc EXCEPT ![t] = "next"] /\ walk' = [walk EXCEPT ![t].cur = walk[t].nxt]
    <3>1. walk'[t].cur = walk[t].nxt /\ walk'[t].nxt = walk[t].nxt /\ pc'[t] = "next"
      BY <1>0, <2>2 DEF TypeOK, WalkType
    <3> QED BY <1>0, <3>1 DEF ZeroWalk
  <2> QED BY <1>7, <2>1, <2>2 DEF FindUnlink
<1>8. CASE InsertPrepare(t) \/ FindHit(t) \/ DeleteHit(t) \/ DeleteMark(t)
  <2>1. pc[t] \in {"found", "mark"} /\ pc'[t] # "head" /\ walk'[t] = walk[t]
    BY <1>0, <1>8 DEF InsertPrepare, FindHit, DeleteHit, DeleteMark, locals, TypeOK
  <2> QED BY <1>0, <2>1 DEF ZeroWalk
<1>9. CASE Begin(t) \/ CheckBucket(t) \/ BucketInit(t)
  BY <1>0, <1>1, <1>9 DEF Begin, BeginInsert, BeginLookup, CheckBucket, BucketInit,
     InitCheckParent, InitAlloc, InitFoundDummy, InitReload, InitPublish, TypeOK
<1>10. CASE InsertReadSize(t) \/ InsertLink(t) \/ InsertFoundKey(t) \/ InsertLoadSize(t) \/ InsertCount(t)
  BY <1>0, <1>1, <1>2, <1>10 DEF InsertReadSize, InsertLink, InsertFoundKey, InsertLoadSize,
     InsertCount, locals, TypeOK
<1>11. CASE Resize(t)
  BY <1>0, <1>1, <1>2, <1>11 DEF Resize, ResizeAlloc, ResizeCopy, ResizeGrow, ResizeSwap, locals, TypeOK
<1>12. CASE LookupReadTable(t) \/ FindMiss(t) \/ FindValue(t)
  BY <1>0, <1>1, <1>2, <1>12 DEF LookupReadTable, FindMiss, FindValue, TypeOK
<1>13. CASE DeleteDetach(t) \/ DeleteUncount(t) \/ DeleteTake(t) \/ DeleteErase(t)
  BY <1>0, <1>1, <1>2, <1>13 DEF DeleteDetach, DeleteUncount, DeleteTake, DeleteErase, locals, TypeOK
<1>14. CASE Fault(t)
  BY <1>0, <1>14 DEF Fault, OutOfBounds, WildRead, locals, ZeroWalk
<1> QED
  BY <1>3, <1>4, <1>5, <1>6, <1>7, <1>8, <1>9, <1>10, <1>11, <1>12, <1>13, <1>14
     DEF Progress, ListFind, Insert, Lookup, Delete

(* Everything that was proved about a table that exists.                   *)
LEMMA SoundInvariant == Spec => [](status = "running" => Sound)
<1>1. TypeOK /\ Control /\ Ownership /\ NoDangling /\ ResizeInv
      /\ (status # "destroyed" => \A t \in Threads : KindAt(t))
      => (status = "running" => Sound)
  BY DEF Sound
<1> QED BY TypeCorrect, MemorySafe, ResizeInvariant, CountInvariant, <1>1, PTL

LEMMA InitZero == Init => ZeroState
<1> SUFFICES ASSUME Init PROVE ZeroState
  OBVIOUS
<1>1. /\ \A t \in Threads : pc[t] = "idle" /\ task[t].todo = <<>> /\ walk[t].nxt.node # 1 /\ Own(t) = {}
      /\ 1 \in Node /\ InitSize \in Nat \ {0}
  BY ConstantsAssumption DEF Init, NoTask, NoWalk, NoArgs, Null, Link, NIL, Own, Node
<1>2. Shared = {1}
  BY <1>1 DEF Init, Shared
<1>3. ZeroNode
  BY <1>1, <1>2, DummyZero DEF Init, ZeroNode, Blank, Marked, Null, Link, NIL
<1>4. \A a \in TableId : tables[a] = IF a = 1 THEN [b \in 0 .. (InitSize - 1) |-> IF b = 0 THEN Link(1, 0) ELSE Null]
                                     ELSE NoSlots
  BY DEF Init
<1>5. ZeroSlots
  <2>0. DOMAIN NoSlots = {}
    BY DEF NoSlots
  <2>1. ASSUME NEW a \in TableId, DOMAIN tables[a] # {}
        PROVE  /\ DOMAIN tables[a] = 0 .. (InitSize - 1)
               /\ \A b \in 0 .. (InitSize - 1) : tables[a][b] = IF b = 0 THEN Link(1, 0) ELSE Null
    <3>1. tables[a] = [b \in 0 .. (InitSize - 1) |-> IF b = 0 THEN Link(1, 0) ELSE Null]
      BY <1>4, <2>0, <2>1
    <3> QED BY <3>1
  <2>2. 0 \in 0 .. (InitSize - 1) /\ Link(1, 0).bit = 0 /\ Null.bit = 0
    BY <1>1 DEF Null, Link
  <2>3. ASSUME NEW a \in TableId, Settled(a) PROVE Starts(a)
    BY <2>1, <2>2, <2>3 DEF Settled, Starts
  <2>4. ASSUME NEW a \in TableId, NEW b \in DOMAIN tables[a] PROVE tables[a][b].bit = 0
    BY <2>1, <2>2, <2>4
  <2> QED BY <2>3, <2>4 DEF ZeroSlots
<1>6. \A t \in Threads : ZeroAt(t)
  BY <1>1 DEF ZeroAt, ZeroTodo, ZeroTable, ZeroCopy, ZeroWalk, Walking, Copying
<1> QED BY <1>3, <1>5, <1>6 DEF ZeroState

LEMMA ZeroStep ==
  ASSUME Sound, ZeroState, NEW t \in Threads, Progress(t) \/ Begin(t)
  PROVE  ZeroState'
<1>1. ZeroAt(t)'
  BY ZeroTodoStep, ZeroTableStep, ZeroCopyStep, ZeroWalkStep DEF ZeroAt
<1>2. \A u \in Threads : ZeroAt(u)'
  BY <1>1, ZeroOthers
<1> QED BY <1>2, ZeroNodeStep, ZeroSlotsStep DEF ZeroState

(* What is known of bucket 0 while the table exists.                       *)
LEMMA ZeroInvariant == Spec => []((status = "running" => ZeroState) /\ BucketZeroReady)
<1> DEFINE IInv == (status = "running" => ZeroState) /\ BucketZeroReady
<1>1. ZeroState => BucketZeroReady
  BY DEF ZeroState, ZeroAt, ZeroTodo, BucketZeroReady
<1>2. Init => IInv
  BY <1>1, InitZero
<1>3. (status = "running" => Sound) /\ IInv /\ [Next]_vars => IInv'
  <2> SUFFICES ASSUME status = "running" => Sound, IInv, [Next]_vars PROVE IInv'
    OBVIOUS
  <2>1. ASSUME NEW t \in Threads, status = "running", Progress(t) \/ Begin(t) PROVE IInv'
    <3>1. ZeroState'
      BY <2>1, ZeroStep
    <3>2. ZeroState' => BucketZeroReady'
      BY DEF ZeroState, ZeroAt, ZeroTodo, BucketZeroReady
    <3> QED BY <3>1, <3>2
  <2>2. ASSUME NEW t \in Threads, Destroy(t) PROVE IInv'
    BY <2>2 DEF Destroy, locals, BucketZeroReady
  <2>3. CASE UNCHANGED vars
    BY <2>3 DEF vars, locals, ZeroState, ZeroNode, ZeroSlots, ZeroAt, ZeroTodo, ZeroTable,
       ZeroCopy, ZeroWalk, Settled, Starts, Shared, Own, Marked, BucketZeroReady
  <2> QED BY <2>1, <2>2, <2>3 DEF Next, Progress
<1> HIDE DEF IInv
<1> QED BY <1>2, <1>3, SoundInvariant, PTL DEF Spec, IInv

(* Bucket 0 is never initialized: hashtable_bucket_parent, which would not *)
(* return for it, is never called with 0. Whatever resizes, deletions and  *)
(* other initializations do, the slot of bucket 0 is not empty in any array*)
(* that a call may use.                                                    *)
THEOREM BucketZero == Spec => []BucketZeroReady
BY ZeroInvariant, PTL

-----------------------------------------------------------------------------
(* Reachability, in any heap h: N stands for the nodes that are shared.    *)

Closed(h, S) == \A n \in S : h[n].next.node \in S \cup {NIL}

(* What is reached from node r by following links: the least set that has r*)
(* and the successors of its members.                                      *)
From(h, r) == {x \in Node : \A S \in SUBSET Node : r \in S /\ Closed(h, S) => x \in S}

After(h, r) == IF h[r].next.node = NIL THEN {} ELSE From(h, h[r].next.node)

LEMMA FromLeast ==
  ASSUME NEW h, NEW S \in SUBSET Node, NEW r \in S, Closed(h, S)
  PROVE  From(h, r) \subseteq S
BY DEF From

LEMMA FromClosed ==
  ASSUME NEW h, NEW N \in SUBSET Node, Closed(h, N), NEW r \in N
  PROVE  /\ From(h, r) \in SUBSET Node /\ r \in From(h, r)
         /\ From(h, r) \subseteq N
         /\ Closed(h, From(h, r))
<1>1. r \in From(h, r)
  BY DEF From
<1>2. From(h, r) \subseteq N
  BY FromLeast
<1>3. ASSUME NEW x \in From(h, r), h[x].next.node # NIL PROVE h[x].next.node \in From(h, r)
  <2>1. h[x].next.node \in Node
    BY <1>2, <1>3 DEF Closed
  <2>2. ASSUME NEW S \in SUBSET Node, r \in S, Closed(h, S) PROVE h[x].next.node \in S
    BY <1>3, <2>2 DEF From, Closed
  <2> QED BY <2>1, <2>2 DEF From
<1> QED BY <1>1, <1>2, <1>3 DEF Closed

LEMMA FromTransitive ==
  ASSUME NEW h, NEW N \in SUBSET Node, Closed(h, N), NEW r \in N, NEW x \in From(h, r)
  PROVE  From(h, x) \subseteq From(h, r)
BY FromClosed, FromLeast

(* A node reaches itself and what its successor reaches.                   *)
LEMMA FromSplits ==
  ASSUME NEW h, NEW N \in SUBSET Node, Closed(h, N), NEW r \in N
  PROVE  /\ From(h, r) = {r} \cup After(h, r)
         /\ After(h, r) \subseteq N
         /\ After(h, r) # {} => h[r].next.node \in N
<1>1. CASE h[r].next.node = NIL
  <2>1. After(h, r) = {} /\ Closed(h, {r})
    BY <1>1 DEF After, Closed
  <2> QED BY <2>1, FromLeast, FromClosed
<1>2. CASE h[r].next.node # NIL
  <2> DEFINE s == h[r].next.node
  <2>1. s \in N /\ s \in From(h, r) /\ After(h, r) = From(h, s)
    BY <1>2, FromClosed DEF Closed, After
  <2> HIDE DEF s
  <2>2. From(h, s) \subseteq From(h, r)
    BY <2>1, FromTransitive
  <2>3. From(h, s) \in SUBSET Node /\ s \in From(h, s) /\ Closed(h, From(h, s))
        /\ From(h, s) \subseteq N /\ From(h, r) \subseteq N
    BY <2>1, FromClosed
  <2>4. Closed(h, {r} \cup From(h, s)) /\ {r} \cup From(h, s) \in SUBSET Node
    BY <2>3 DEF Closed, s
  <2>5. From(h, r) \subseteq {r} \cup From(h, s)
    BY <2>4, FromLeast
  <2>6. r \in From(h, r)
    BY FromClosed
  <2> QED BY <2>1, <2>2, <2>3, <2>5, <2>6 DEF s
<1> QED BY <1>1, <1>2

(* Of two nodes that are reached from the same node, one reaches the other.*)
LEMMA FromOrder ==
  ASSUME NEW h, NEW N \in SUBSET Node, Closed(h, N), NEW r \in N,
         NEW x \in From(h, r), NEW y \in From(h, r)
  PROVE  y \in From(h, x) \/ x \in From(h, y)
<1> DEFINE T == {z \in From(h, r) : z \in From(h, x) \/ x \in From(h, z)}
<1>0. /\ From(h, r) \in SUBSET Node /\ From(h, r) \subseteq N /\ r \in From(h, r)
      /\ Closed(h, From(h, r)) /\ x \in N
  BY FromClosed
<1>1. r \in T
  BY <1>0
<1>2. ASSUME NEW z \in T, h[z].next.node # NIL PROVE h[z].next.node \in T
  <2> DEFINE s == h[z].next.node
  <2>1. s \in From(h, r) /\ z \in N /\ s \in N
    BY <1>0, <1>2 DEF Closed
  <2>2. CASE z \in From(h, x)
    <3>1. Closed(h, From(h, x))
      BY <1>0, FromClosed
    <3> QED BY <1>2, <2>1, <2>2, <3>1 DEF Closed
  <2>3. CASE x \in From(h, z) /\ z # x
    <3>1. x \in From(h, s)
      BY <1>2, <2>1, <2>3, FromSplits DEF After
    <3> QED BY <2>1, <3>1
  <2>4. CASE x = z
    <3>1. z \in From(h, x)
      BY <1>0, <2>4, FromClosed
    <3> QED BY <2>2, <3>1
  <2> QED BY <2>2, <2>3, <2>4
<1>3. Closed(h, T) /\ T \in SUBSET Node
  BY <1>0, <1>2 DEF Closed
<1> HIDE DEF T
<1>4. From(h, r) \subseteq T
  BY <1>1, <1>3, FromLeast
<1> QED BY <1>4 DEF T

(* Links that do not lead to smaller codes.                                *)
Increasing(h, N) ==
  \A n \in N : h[n].next.node # NIL => h[n].code <= h[h[n].next.node].code

LEMMA FromCodes ==
  ASSUME NEW h, NEW N \in SUBSET Node, Closed(h, N), Increasing(h, N),
         \A n \in N : h[n].code \in Int,
         NEW r \in N, NEW x \in From(h, r)
  PROVE  h[r].code <= h[x].code
<1> DEFINE T == {z \in N : h[r].code <= h[z].code}
<1>1. r \in T /\ T \in SUBSET Node
  OBVIOUS
<1>2. Closed(h, T)
  <2>1. ASSUME NEW z \in T, h[z].next.node # NIL PROVE h[z].next.node \in T
    <3>1. h[z].next.node \in N /\ h[z].code <= h[h[z].next.node].code
      BY <2>1 DEF Closed, Increasing
    <3> QED BY <3>1
  <2> QED BY <2>1 DEF Closed
<1> HIDE DEF T
<1>3. From(h, r) \subseteq T
  BY <1>1, <1>2, FromLeast
<1> QED BY <1>3 DEF T

(* Node n is linked behind node q.                                         *)
Inserts(g, h, N, q, n) ==
  /\ q \in N /\ n \in Node /\ n \notin N
  /\ h[q].next.node = n /\ h[n].next.node = g[q].next.node
  /\ \A m \in N \ {q} : h[m].next.node = g[m].next.node

(* Then nothing is lost.                                                   *)
LEMMA InsertKeeps ==
  ASSUME NEW g, NEW h, NEW N \in SUBSET Node, Closed(g, N), NEW q, NEW n, Inserts(g, h, N, q, n)
  PROVE  /\ \A r \in N : From(g, r) \subseteq From(h, r) /\ After(g, r) \subseteq After(h, r)
         /\ Closed(h, N \cup {n})
         /\ \A r \in N : q \in From(g, r) => n \in From(h, r)
<1> USE DEF Inserts
<1>0. NIL \notin Node
  BY DEF NIL, Node
<1>1. ASSUME NEW r \in N, NEW S \in SUBSET Node, r \in S, Closed(h, S)
      PROVE  From(g, r) \subseteq S
  <2>1. ASSUME NEW m \in S \cap N PROVE g[m].next.node \in (S \cap N) \cup {NIL}
    <3>1. g[m].next.node \in N \cup {NIL}
      BY DEF Closed
    <3>2. CASE m # q
      BY <1>1, <3>1, <3>2 DEF Closed
    <3>3. CASE m = q
      <4>1. n \in S
        BY <1>0, <1>1, <3>3 DEF Closed
      <4> QED BY <1>1, <3>1, <3>3, <4>1 DEF Closed
    <3> QED BY <3>2, <3>3
  <2>2. Closed(g, S \cap N) /\ S \cap N \in SUBSET Node /\ r \in S \cap N
    BY <1>1, <2>1 DEF Closed
  <2>3. From(g, r) \subseteq S \cap N
    BY <2>2, FromLeast
  <2> QED BY <2>3
<1>2. ASSUME NEW r \in N PROVE From(g, r) \subseteq From(h, r)
  BY <1>1 DEF From
<1>3. Closed(h, N \cup {n}) /\ N \cup {n} \in SUBSET Node
  BY DEF Closed
<1>4. ASSUME NEW r \in N PROVE After(g, r) \subseteq After(h, r)
  <2>1. CASE g[r].next.node = NIL
    BY <2>1 DEF After
  <2>2. CASE g[r].next.node # NIL /\ r # q
    <3>1. g[r].next.node \in N /\ h[r].next.node = g[r].next.node
      BY <2>2 DEF Closed
    <3> QED BY <1>2, <2>2, <3>1 DEF After
  <2>3. CASE g[r].next.node # NIL /\ r = q
    <3> DEFINE s == g[q].next.node
    <3>1. s \in N /\ After(g, r) = From(g, s) /\ After(h, r) = From(h, n) /\ After(h, n) = From(h, s)
      BY <1>0, <2>3 DEF After, Closed
    <3>2. From(h, n) = {n} \cup After(h, n)
      BY <1>3, FromSplits
    <3> QED BY <1>2, <3>1, <3>2
  <2> QED BY <2>1, <2>2, <2>3
<1>5. ASSUME NEW r \in N, q \in From(g, r) PROVE n \in From(h, r)
  <2>1. r \in N \cup {n}
    OBVIOUS
  <2>2. Closed(h, From(h, r))
    BY <1>3, <2>1, FromClosed
  <2>3. q \in From(h, r)
    BY <1>2, <1>5
  <2> QED BY <1>0, <2>2, <2>3 DEF Closed
<1> QED BY <1>2, <1>3, <1>4, <1>5

(* Unlinking node c from behind node q loses only c.                       *)
LEMMA RemoveKeeps ==
  ASSUME NEW g, NEW h, NEW N \in SUBSET Node, Closed(g, N),
         NEW q \in N, NEW c \in N,
         g[q].next.node = c, h[q].next.node = g[c].next.node,
         \A m \in N \ {q} : h[m].next.node = g[m].next.node
  PROVE  \A r \in N : /\ From(g, r) \subseteq From(h, r) \cup {c}
                      /\ After(g, r) \subseteq After(h, r) \cup {c}
<1>0. NIL \notin Node
  BY DEF NIL, Node
<1>1. ASSUME NEW r \in N, NEW S \in SUBSET Node, r \in S, Closed(h, S)
      PROVE  From(g, r) \subseteq S \cup {c}
  <2> DEFINE T == (S \cap N) \cup (IF q \in S THEN {c} ELSE {})
  <2>1. ASSUME NEW m \in T PROVE g[m].next.node \in T \cup {NIL}
    <3>1. m \in N /\ g[m].next.node \in N \cup {NIL}
      BY DEF Closed
    <3>2. CASE m = q
      BY <3>1, <3>2
    <3>3. CASE m # q /\ m \in S
      BY <1>1, <3>1, <3>3 DEF Closed
    <3>4. CASE m # q /\ m = c /\ q \in S
      BY <1>1, <3>1, <3>4 DEF Closed
    <3> QED BY <3>2, <3>3, <3>4
  <2>2. Closed(g, T) /\ T \in SUBSET Node /\ r \in T /\ T \subseteq S \cup {c}
    BY <1>1, <2>1 DEF Closed
  <2> HIDE DEF T
  <2>3. From(g, r) \subseteq T
    BY <2>2, FromLeast
  <2> QED BY <2>2, <2>3
<1>2. ASSUME NEW r \in N PROVE From(g, r) \subseteq From(h, r) \cup {c}
  <2>1. ASSUME NEW x \in From(g, r), x # c PROVE x \in From(h, r)
    BY <1>1, <2>1 DEF From
  <2> QED BY <2>1
<1>3. ASSUME NEW r \in N PROVE After(g, r) \subseteq After(h, r) \cup {c}
  <2>1. CASE g[r].next.node = NIL
    BY <2>1 DEF After
  <2>2. CASE g[r].next.node # NIL /\ r # q
    <3>1. g[r].next.node \in N /\ h[r].next.node = g[r].next.node
      BY <2>2 DEF Closed
    <3> QED BY <1>2, <2>2, <3>1 DEF After
  <2>3. CASE r = q
    <3>1. After(g, r) = From(g, c)
      BY <1>0, <2>3 DEF After
    <3>2. From(g, c) = {c} \cup After(g, c)
      BY FromSplits
    <3>3. After(g, c) \subseteq After(h, r) \cup {c}
      <4>1. CASE g[c].next.node = NIL
        BY <4>1 DEF After
      <4>2. CASE g[c].next.node # NIL
        BY <1>2, <2>3, <4>2 DEF After, Closed
      <4> QED BY <4>1, <4>2
    <3> QED BY <3>1, <3>2, <3>3
  <2> QED BY <2>1, <2>2, <2>3
<1> QED BY <1>2, <1>3

(* Where no successor changes, everything stays reachable.                 *)
LEMMA SameKeeps ==
  ASSUME NEW g, NEW h, NEW N \in SUBSET Node, Closed(g, N),
         \A m \in N : h[m].next.node = g[m].next.node
  PROVE  \A r \in N : From(g, r) \subseteq From(h, r) /\ After(g, r) \subseteq After(h, r)
<1>1. ASSUME NEW r \in N PROVE From(g, r) \subseteq From(h, r)
  <2>1. ASSUME NEW S \in SUBSET Node, r \in S, Closed(h, S) PROVE From(g, r) \subseteq S
    <3>1. Closed(g, S \cap N) /\ S \cap N \in SUBSET Node
      BY <2>1 DEF Closed
    <3> QED BY <2>1, <3>1, FromLeast
  <2> QED BY <2>1 DEF From
<1>2. ASSUME NEW r \in N PROVE After(g, r) \subseteq After(h, r)
  BY <1>1 DEF After, Closed
<1> QED BY <1>1, <1>2

-----------------------------------------------------------------------------
(* The walk of hashtable_destroy reaches everything there is to reach.     *)

(* The sequence of the nodes met is well defined.                          *)
LEMMA WalkUnfolds ==
  ASSUME Sound, ZeroState
  PROVE  /\ Walk \in [0 .. MaxNodes -> Node \cup {NIL}]
         /\ Walk[0] = 1
         /\ \A i \in 0 .. (MaxNodes - 1) :
              Walk[i + 1] = IF Walk[i] = NIL THEN NIL ELSE heap[Walk[i]].next.node
<1>0. /\ tables[table][0].node = 1 /\ 1 \in Node /\ MaxNodes \in Nat /\ 0 \in 0 .. MaxNodes
      /\ \A n \in Node : heap[n].next.node \in Node \cup {NIL}
  BY TableSettled, ConstantsAssumption
     DEF ZeroState, ZeroSlots, ZeroNode, Starts, Link, Sound, TypeOK, NodeType, LinkType, Node
<1> DEFINE Good(f, k) ==
      \A i \in 0 .. k : f[i] = IF i = 0 THEN tables[table][0].node
                               ELSE IF f[i - 1] = NIL THEN NIL ELSE heap[f[i - 1]].next.node
    S == {k \in Nat : \E f \in [0 .. k -> Node \cup {NIL}] : Good(f, k)}
<1>1. 0 \in S
  <2>1. Good([i \in 0 .. 0 |-> 1], 0)
    BY <1>0
  <2>2. [i \in 0 .. 0 |-> 1] \in [0 .. 0 -> Node \cup {NIL}]
    BY <1>0
  <2> QED BY <2>1, <2>2
<1>2. ASSUME NEW k \in Nat, k \in S PROVE k + 1 \in S
  <2>1. PICK f \in [0 .. k -> Node \cup {NIL}] : Good(f, k)
    BY <1>2
  <2> DEFINE x == IF f[k] = NIL THEN NIL ELSE heap[f[k]].next.node
             g == [i \in 0 .. (k + 1) |-> IF i = k + 1 THEN x ELSE f[i]]
  <2>2. f[k] \in Node \cup {NIL}
    BY <2>1
  <2>3. x \in Node \cup {NIL}
    BY <1>0, <2>2
  <2>4. g \in [0 .. (k + 1) -> Node \cup {NIL}]
    BY <2>1, <2>3
  <2>5. Good(g, k + 1)
    <3>1. ASSUME NEW i \in 0 .. (k + 1)
          PROVE  g[i] = IF i = 0 THEN tables[table][0].node
                        ELSE IF g[i - 1] = NIL THEN NIL ELSE heap[g[i - 1]].next.node
      <4>1. CASE i = k + 1
        <5>1. g[i] = x /\ g[i - 1] = f[k] /\ i # 0
          BY <4>1
        <5> QED BY <5>1
      <4>2. CASE i # k + 1
        <5>1. i \in 0 .. k /\ g[i] = f[i] /\ (i # 0 => g[i - 1] = f[i - 1])
          BY <4>2
        <5> HIDE DEF g, x
        <5> QED BY <2>1, <5>1
      <4> QED BY <4>1, <4>2
    <3> HIDE DEF g, x
    <3> QED BY <3>1
  <2> HIDE DEF g, x, Good
  <2> QED BY <2>4, <2>5
<1>3. MaxNodes \in S
  <2> HIDE DEF S
  <2> QED BY <1>0, <1>1, <1>2, NaturalInduction
<1>4. PICK f \in [0 .. MaxNodes -> Node \cup {NIL}] : Good(f, MaxNodes)
  BY <1>3
<1>5. f = [i \in 0 .. MaxNodes |->
             IF i = 0 THEN tables[table][0].node
             ELSE IF f[i - 1] = NIL THEN NIL ELSE heap[f[i - 1]].next.node]
  BY <1>4
<1>6. Walk = [i \in 0 .. MaxNodes |->
                IF i = 0 THEN tables[table][0].node
                ELSE IF Walk[i - 1] = NIL THEN NIL ELSE heap[Walk[i - 1]].next.node]
  BY <1>5 DEF Walk
<1>7. ASSUME NEW i \in 0 .. MaxNodes
      PROVE  Walk[i] = IF i = 0 THEN tables[table][0].node
                       ELSE IF Walk[i - 1] = NIL THEN NIL ELSE heap[Walk[i - 1]].next.node
  BY <1>6
<1>8. \A i \in 0 .. MaxNodes : Walk[i] \in Node \cup {NIL}
  <2> DEFINE T == {k \in Nat : k <= MaxNodes => Walk[k] \in Node \cup {NIL}}
  <2>1. 0 \in T
    BY <1>0, <1>7
  <2>2. ASSUME NEW k \in Nat, k \in T PROVE k + 1 \in T
    <3> SUFFICES ASSUME k + 1 <= MaxNodes PROVE Walk[k + 1] \in Node \cup {NIL}
      OBVIOUS
    <3>1. k \in 0 .. MaxNodes /\ k + 1 \in 0 .. MaxNodes /\ (k + 1) - 1 = k /\ k + 1 # 0
      BY <1>0
    <3>2. Walk[k + 1] = IF Walk[k] = NIL THEN NIL ELSE heap[Walk[k]].next.node
      BY <1>7, <3>1
    <3>3. Walk[k] \in Node \cup {NIL}
      BY <2>2, <3>1
    <3> QED BY <1>0, <3>2, <3>3
  <2> HIDE DEF T
  <2>3. \A k \in Nat : k \in T
    BY <2>1, <2>2, NaturalInduction
  <2> QED BY <2>3, <1>0 DEF T
<1>9. Walk \in [0 .. MaxNodes -> Node \cup {NIL}]
  BY <1>6, <1>8
<1>10. Walk[0] = 1
  BY <1>0, <1>7
<1>11. ASSUME NEW i \in 0 .. (MaxNodes - 1)
       PROVE  Walk[i + 1] = IF Walk[i] = NIL THEN NIL ELSE heap[Walk[i]].next.node
  <2>1. i + 1 \in 0 .. MaxNodes /\ i + 1 # 0 /\ (i + 1) - 1 = i
    BY <1>0
  <2> QED BY <1>7, <2>1
<1> QED BY <1>9, <1>10, <1>11

(* Nothing that can be reached from bucket 0's node is missed: the walk    *)
(* ends at NIL or comes back to a node it has met.                         *)
LEMMA ListReached ==
  ASSUME Sound, ZeroState
  PROVE  From(heap, 1) \subseteq OnList
<1>0. /\ MaxNodes \in Nat \ {0} /\ NIL \notin Node
      /\ Walk \in [0 .. MaxNodes -> Node \cup {NIL}] /\ Walk[0] = 1 /\ 1 # NIL
      /\ \A i \in 0 .. (MaxNodes - 1) :
           Walk[i + 1] = IF Walk[i] = NIL THEN NIL ELSE heap[Walk[i]].next.node
  BY WalkUnfolds, ConstantsAssumption DEF NIL, Node
<1>1. \E b \in 0 .. MaxNodes : Walk[b] = NIL \/ \E a \in 0 .. (b - 1) : Walk[a] = Walk[b]
  <2> SUFFICES ASSUME \A b \in 0 .. MaxNodes : Walk[b] # NIL
               PROVE  \E b \in 0 .. MaxNodes : \E a \in 0 .. (b - 1) : Walk[a] = Walk[b]
    OBVIOUS
  <2>1. Walk \in [0 .. MaxNodes -> Node]
    BY <1>0
  <2>2. IsFiniteSet(0 .. MaxNodes) /\ Cardinality(0 .. MaxNodes) = MaxNodes + 1
    BY <1>0, FS_Interval
  <2>3. IsFiniteSet(Node) /\ Cardinality(Node) = MaxNodes
    BY <1>0, FS_Interval DEF Node
  <2>4. Cardinality(Node) < Cardinality(0 .. MaxNodes)
    BY <1>0, <2>2, <2>3
  <2> DEFINE D == 0 .. MaxNodes
             W == Walk
  <2>5. \E x, y \in D : x # y /\ W[x] = W[y]
    <3>1. W \in [D -> Node] /\ IsFiniteSet(D) /\ Cardinality(Node) < Cardinality(D)
      BY <2>1, <2>2, <2>4
    <3> HIDE DEF D, W
    <3> QED BY <2>3, <3>1, FS_PigeonHole
  <2> QED BY <1>0, <2>5
<1>2. PICK b \in 0 .. MaxNodes : Walk[b] = NIL \/ \E a \in 0 .. (b - 1) : Walk[a] = Walk[b]
  BY <1>1
<1> DEFINE T == {Walk[i] : i \in 0 .. (b - 1)} \ {NIL}
<1>3. b # 0 /\ 0 \in 0 .. (b - 1)
  BY <1>0, <1>2
<1>4. T \in SUBSET Node /\ T \subseteq OnList /\ 1 \in T
  BY <1>0, <1>3 DEF OnList
<1>5. Closed(heap, T)
  <2>1. ASSUME NEW i \in 0 .. (b - 1), Walk[i] # NIL PROVE heap[Walk[i]].next.node \in T \cup {NIL}
    <3>1. i \in 0 .. (MaxNodes - 1) /\ heap[Walk[i]].next.node = Walk[i + 1]
      BY <1>0, <2>1
    <3>2. CASE i + 1 = b
      BY <1>0, <1>2, <3>1, <3>2
    <3>3. CASE i + 1 # b
      <4>1. i + 1 \in 0 .. (b - 1)
        BY <1>0, <3>3
      <4> QED BY <3>1, <4>1
    <3> QED BY <3>2, <3>3
  <2> QED BY <2>1 DEF Closed
<1> HIDE DEF T
<1> QED BY <1>4, <1>5, FromLeast

-----------------------------------------------------------------------------
(* The list, where the recorded defects do not show.                       *)

(* The table is not so large that bucket numbers lose their top bit, and no*)
(* walk reads an empty slot: the slot of a bucket that has been initialized*)
(* is empty only in an array that a resize copied while the slot was filled*)
(* (the run misplaced_dummy).                                              *)
Undisturbed ==
  /\ size <= Half
  /\ \A t \in Threads : pc[t] = "head" /\ InBounds(walk[t].prev) => Load(walk[t].prev).node # NIL

(* A walk that has unlinked a node reads the next one through a pointer    *)
(* that is off by one (the run find_misses_key). This says that it takes   *)
(* the right turn all the same: it stops only at a larger code, and goes on*)
(* only at one that is not larger and is not what it looks for.            *)
ReadsRight ==
  \A t \in Threads : pc[t] = "verify" /\ walk[t].cur.bit = 1 =>
    /\ pc'[t] = "found" => CurCode(t) > SoughtCode(t)
    /\ pc'[t] = "next" => CurCode(t) <= SoughtCode(t) /\ ~HoldsSought(t)

IsDummy(n, b) == n \in Shared /\ heap[n].code = DummyCode(b) /\ heap[n].key = b

(* A node on the list is the dummy node of its bucket, and unmarked, or    *)
(* holds a key; its code says which.                                       *)
NodeShape ==
  \A n \in Shared :
    \/ heap[n].code = DummyCode(heap[n].key) /\ ~Marked(n) /\ heap[n].key \in 0 .. (Half - 1)
    \/ heap[n].code = RegularCode(Hash(heap[n].key))

(* The slots of every array, in use or not, lead to their dummy nodes.     *)
SlotsLead ==
  \A a \in TableId : \A b \in DOMAIN tables[a] :
    tables[a][b].node # NIL => IsDummy(tables[a][b].node, b)

Connected == \A n \in Shared : ~Marked(n) => n \in From(heap, 1)

Distinct ==
  \A m, n \in Shared :
    ~Marked(m) /\ ~Marked(n) /\ heap[m].code = heap[n].code /\ heap[m].key = heap[n].key => m = n

(* The nodes with a code and a key that are in the list and not deleted.   *)
Holding(h, N, code, key) ==
  {n \in N : h[n].next.bit # 1 /\ h[n].code = code /\ h[n].key = key}

Sizes(n) == \E j \in 0 .. (Width - 1) : n = 2 ^ j

(* What a call looks for, the nodes it has made for it, and what it found. *)
Seeking == {"table", "check", "mark"} \cup InInit \cup Searching

BucketAt(t) ==
  pc[t] \in Seeking => \E j \in 0 .. (Width - 1) : call[t].bucket = Hash(call[t].key) % 2 ^ j

TodoAt(t) == \A i \in DOMAIN task[t].todo : task[t].todo[i] \in 1 .. (Half - 1)

MadeAt(t) ==
  /\ call[t].mine # NIL => /\ heap[call[t].mine].code = RegularCode(Hash(call[t].key))
                           /\ heap[call[t].mine].key = call[t].key
  /\ task[t].dummy # NIL => /\ heap[task[t].dummy].code = DummyCode(Head(task[t].todo))
                            /\ heap[task[t].dummy].key = Head(task[t].todo)

ResultAt(t) == pc[t] \in {"reload", "publish"} => IsDummy(task[t].res, Head(task[t].todo))

SoughtAt(t) == BucketAt(t) /\ TodoAt(t) /\ MadeAt(t) /\ ResultAt(t)

Stepping == {"next", "verify", "unlink", "found", "link"}

(* Where a walk starts.                                                    *)
StartAt(t) ==
  /\ pc[t] = "head" => walk[t].prev.tb # 0 /\ walk[t].prev.ix = FindBucket(t)
  /\ pc[t] \in Stepping \cup {"mark", "detach"} /\ walk[t].prev.tb # 0 =>
       /\ pc[t] \in {"next", "verify"}
       /\ walk[t].cur.bit = 0
       /\ IsDummy(walk[t].cur.node, FindBucket(t))
       /\ pc[t] = "verify" => walk[t].nxt.bit = 0

(* A walk has not gone past what it looks for: unless the node behind which*)
(* it is has been deleted, all there is of it comes after that node.       *)
Behind(p, code, key) ==
  /\ heap[p].code <= code
  /\ Marked(p) \/ Holding(heap, Shared, code, key) \subseteq After(heap, p)

BehindAt(t) ==
  pc[t] \in Stepping /\ walk[t].prev.tb = 0 =>
    Behind(walk[t].prev.ix, SoughtCode(t), SoughtKey(t))

(* Where it stops, and the deleted nodes it knows of.                      *)
StopAt(t) ==
  /\ pc[t] \in {"found", "link"} /\ walk[t].cur.node # NIL =>
       CurCode(t) > SoughtCode(t) \/ (pc[t] = "found" /\ walk[t].cur.bit = 0 /\ HoldsSought(t))
  /\ pc[t] \in {"verify", "unlink"} /\ walk[t].nxt.bit = 1 =>
       heap[walk[t].cur.node].next = walk[t].nxt
  /\ pc[t] = "unlink" => walk[t].nxt.bit = 1
  /\ pc[t] = "detach" => heap[walk[t].cur.node].next = Link(walk[t].nxt.node, 1)

ListAt(t) == SoughtAt(t) /\ StartAt(t) /\ BehindAt(t) /\ StopAt(t)

ListState ==
  /\ Sizes(size)
  /\ NodeShape /\ SlotsLead /\ Connected /\ Sorted /\ Distinct
  /\ \A t \in Threads : ListAt(t)

(* What a step leaves of the nodes that are on the list.                   *)
LEMMA ListNodesStay ==
  ASSUME Sound, NEW t \in Threads, Progress(t) \/ Begin(t)
  PROVE  /\ Shared \subseteq Shared' /\ Shared' \subseteq Node /\ NIL \notin Shared'
         /\ \A n \in Shared : heap'[n].code = heap[n].code /\ heap'[n].key = heap[n].key
         /\ \A n \in Shared : Marked(n) => heap'[n].next = heap[n].next
         /\ \A n \in Shared' : heap'[n].code \in Int /\ heap'[n].next.bit \in {0, 1}
         /\ \A n \in Shared : heap[n].code \in Int /\ heap[n].next.bit \in {0, 1}
         /\ Closed(heap, Shared) /\ Closed(heap', Shared')
<1>1. TypeOK' /\ NoDangling' /\ status' # "destroyed"
  <2>1. TypeOK'
    BY TypeStep DEF Sound
  <2>2. NoDangling'
    BY NoDanglingStep DEF Sound
  <2>3. status' # "destroyed"
    BY Transitions DEF Sound
  <2> QED BY <2>1, <2>2, <2>3
<1>2. Shared' \subseteq Node /\ NIL \notin Shared' /\ Shared \subseteq Node
  <2>1. Shared' \subseteq live' /\ live' \subseteq Node
    BY <1>1 DEF Shared, TypeOK
  <2>2. Shared \subseteq Node
    BY OwnTypes DEF Sound
  <2> QED BY <2>1, <2>2 DEF NIL, Node
<1>3. Closed(heap, Shared)
  BY DEF Sound, NoDangling, Target, Closed
<1>4. Closed(heap', Shared')
  BY <1>1 DEF NoDangling, Target, Closed
<1>5. \A n \in Node : heap'[n].code \in Int /\ heap'[n].next.bit \in {0, 1}
  BY <1>1, WordIsPower DEF TypeOK, NodeType, LinkType
<1>6. \A n \in Node : heap[n].code \in Int /\ heap[n].next.bit \in {0, 1}
  BY WordIsPower DEF Sound, TypeOK, NodeType, LinkType
<1>7. Shared \subseteq Shared' /\ Shared \subseteq live \cap live'
  BY SharedGrows DEF Sound, Shared
<1>8. \A n \in Shared : heap'[n].code = heap[n].code /\ heap'[n].key = heap[n].key
  BY <1>7, NodesStay DEF Sound
<1>9. \A n \in Shared : Marked(n) => heap'[n].next = heap[n].next
  BY FrozenStep DEF Sound
<1> QED BY <1>2, <1>3, <1>4, <1>5, <1>6, <1>7, <1>8, <1>9

(* What a walk looks for has a code.                                       *)
LEMMA SoughtCodes ==
  ASSUME Sound, ZeroState, NEW t \in Threads
  PROVE  SoughtCode(t) \in Int /\ SoughtKey(t) \in Nat
BY SoughtTypes, WordIsPower DEF ZeroState, ZeroAt

LEMMA LinkParts == \A n, b : Link(n, b).node = n /\ Link(n, b).bit = b
BY DEF Link

(* The effect of linking a node.                                           *)
LEMMA LinkEffect ==
  ASSUME Sound, ZeroState, ListState, NEW t \in Threads, Linking(t)
  PROVE  LET q == walk[t].prev.ix
             n == Inserted(t)
             c == walk[t].cur.node
         IN /\ q \in Shared /\ n \in Node \ Shared /\ c \in Shared \cup {NIL}
            /\ Shared' = Shared \cup {n}
            /\ heap[q].next = Link(c, 0) /\ heap[n].next = Link(c, 0)
            /\ heap' = [heap EXCEPT ![q].next = Link(n, 0)]
            /\ UNCHANGED <<tables, table>>
            /\ heap[n].code = SoughtCode(t) /\ heap[n].key = SoughtKey(t)
            /\ Behind(q, SoughtCode(t), SoughtKey(t))
            /\ c # NIL => heap[c].code > SoughtCode(t)
<1> DEFINE q == walk[t].prev.ix
           n == Inserted(t)
           c == walk[t].cur.node
<1>0. /\ TypeOK /\ Control /\ Ownership /\ NoDangling /\ status = "running" /\ pc[t] = "link"
      /\ ListAt(t) /\ OwnAt(t) /\ ControlAt(t) /\ InsertLink(t) /\ Progress(t) /\ pc'[t] # "find"
  BY DEF Sound, ListState, Ownership, Control, Linking, InsertLink, Goto, Progress, Insert
<1>1. walk[t].prev.tb = 0
  BY <1>0 DEF ListAt, StartAt, Stepping
<1>2. q \in Shared /\ c \in Shared \cup {NIL} /\ Shared \subseteq Node
  BY <1>0, <1>1, OwnTypes DEF NoDangling, Target
<1>3. n \in Own(t) /\ n \in Node /\ n \notin Shared /\ heap[n].next = Link(c, 0)
  <2>1. n # NIL
    BY <1>0 DEF OwnAt, Inserting, Inserted, Unlinked, Searching
  <2> QED BY <1>0, <2>1, OwnTypes DEF OwnAt
<1>4. heap[q].next = Link(c, 0)
  BY <1>1 DEF Linking, LeadsTo, Load
<1>5. heap' = [heap EXCEPT ![q].next = Link(n, 0)] /\ UNCHANGED <<tables, table>>
  BY <1>0, <1>1 DEF Linking, Store, InsertLink
<1>6. heap[n].code = SoughtCode(t) /\ heap[n].key = SoughtKey(t)
  BY <1>0, <1>3, OwnTypes DEF ListAt, SoughtAt, MadeAt, Inserted, SoughtCode, SoughtKey, Own
<1>7. Shared' = Shared \cup {n}
  <2>1. Shared \subseteq Shared' /\ \A m \in Shared' \ Shared : m = n
    BY <1>0, SharedGrows
  <2>2. n \in live /\ live' = live
    BY <1>0, <1>3 DEF OwnAt, InsertLink
  <2>3. \A u \in Threads \ {t} : Own(u)' = Own(u)
    BY <1>0, OthersStay DEF Own
  <2>4. n \notin Own(t)'
    <3>1. CASE Initializing(t)
      <4>1. task'[t].dummy = NIL /\ call' = call /\ n = task[t].dummy
        BY <1>0, <3>1, LocalTypes DEF InsertLink, Goto, TypeOK, TaskType, Inserted
      <4>2. call[t].mine # NIL => call[t].mine # task[t].dummy
        BY <1>0 DEF OwnAt
      <4> QED BY <1>3, <4>1, <4>2, OwnTypes, <1>0 DEF Own
    <3>2. CASE ~Initializing(t)
      <4>1. call'[t].mine = NIL /\ task' = task /\ n = call[t].mine
        BY <1>0, <3>2, LocalTypes DEF InsertLink, Goto, TypeOK, CallType, Inserted
      <4>2. task[t].dummy = NIL
        BY <1>0, <3>2 DEF OwnAt
      <4> QED BY <1>3, <4>1, <4>2, OwnTypes, <1>0 DEF Own
    <3> QED BY <3>1, <3>2
  <2>5. \A u \in Threads : n \notin Own(u)'
    <3>1. \A u \in Threads \ {t} : n \notin Own(u)
      BY <1>0, <1>3 DEF Ownership
    <3> QED BY <2>3, <2>4, <3>1
  <2>6. n \in Shared'
    BY <2>2, <2>5 DEF Shared
  <2> QED BY <2>1, <2>6
<1>8. Behind(q, SoughtCode(t), SoughtKey(t)) /\ (c # NIL => heap[c].code > SoughtCode(t))
  BY <1>0, <1>1 DEF ListAt, BehindAt, StopAt, Stepping, CurCode
<1> QED BY <1>2, <1>3, <1>4, <1>5, <1>6, <1>7, <1>8

(* The effect of unlinking one: it is a deleted node.                      *)
LEMMA UnlinkEffect ==
  ASSUME Sound, ListState, NEW t \in Threads, Unlinking(t)
  PROVE  LET q == walk[t].prev.ix
             c == walk[t].cur.node
         IN /\ q \in Shared /\ c \in Shared /\ q # c /\ Marked(c)
            /\ heap[q].next = Link(c, 0) /\ heap[c].next.node = walk[t].nxt.node
            /\ heap' = [heap EXCEPT ![q].next = Link(walk[t].nxt.node, 0)]
            /\ Shared' = Shared /\ UNCHANGED <<tables, table>>
<1> DEFINE q == walk[t].prev.ix
           c == walk[t].cur.node
<1>0. /\ TypeOK /\ Control /\ Ownership /\ NoDangling /\ status = "running"
      /\ pc[t] \in {"unlink", "detach"} /\ ListAt(t) /\ ControlAt(t) /\ Progress(t)
  BY DEF Sound, ListState, Control, Unlinking, FindUnlink, DeleteDetach, Goto, Progress, ListFind, Delete
<1>1. walk[t].prev.tb = 0
  BY <1>0 DEF ListAt, StartAt, Stepping
<1>2. q \in Shared /\ c \in Shared
  BY <1>0, <1>1 DEF NoDangling, Target, ControlAt
<1>3. heap[c].next.node = walk[t].nxt.node /\ Marked(c)
  BY <1>0 DEF ListAt, StopAt, Marked, Link
<1>4. heap[q].next = Link(c, 0)
  BY <1>1 DEF Unlinking, LeadsTo, Load
<1>5. q # c
  BY <1>3, <1>4 DEF Marked, Link
<1>6. heap' = [heap EXCEPT ![q].next = Link(walk[t].nxt.node, 0)] /\ UNCHANGED tables
  BY <1>1 DEF Unlinking, Store
<1>7. Shared' = Shared
  BY <1>0, SharedGrows
<1> QED BY <1>2, <1>3, <1>4, <1>5, <1>6, <1>7 DEF Unlinking, FindUnlink, DeleteDetach

(* The effect of marking one: a key's node.                                *)
LEMMA MarkEffect ==
  ASSUME Sound, NEW t \in Threads, Marking(t)
  PROVE  LET c == walk[t].cur.node
         IN /\ c \in Shared /\ IsRegular(heap[c].code) /\ ~Marked(c)
            /\ heap' = [heap EXCEPT ![c].next = Link(walk[t].nxt.node, 1)]
            /\ \A n \in Shared : heap'[n].next.node = heap[n].next.node
            /\ Shared' = Shared /\ UNCHANGED <<tables, table>>
<1> DEFINE c == walk[t].cur.node
<1>0. /\ TypeOK /\ Control /\ Ownership /\ NoDangling /\ status = "running"
      /\ pc[t] = "mark" /\ ControlAt(t) /\ Progress(t) /\ KindAt(t)
  BY DEF Sound, Control, Marking, DeleteMark, Progress, Delete, Goto
<1>1. c \in Shared /\ Shared \subseteq Node
  BY <1>0, OwnTypes DEF NoDangling, Target, ControlAt
<1>2. \A n \in Shared : heap'[n].next.node = heap[n].next.node
  BY <1>0, <1>1 DEF Marking, Link, TypeOK, NodeType
<1>3. Shared' = Shared
  BY <1>0, SharedGrows
<1> QED BY <1>0, <1>1, <1>2, <1>3 DEF Marking, DeleteMark, KindAt, Marked, Link

(* No other step changes a link between nodes.                             *)
LEMMA StillEffect ==
  ASSUME Sound, NEW t \in Threads, Progress(t) \/ Begin(t),
         Steady \/ InitPublish(t) \/ Resize(t)
  PROVE  Shared' = Shared /\ \A n \in Shared : heap'[n].next = heap[n].next
<1>1. CASE InitPublish(t) \/ Resize(t)
  <2>1. pc[t] # "link" /\ UNCHANGED heap
    BY <1>1 DEF InitPublish, Resize, ResizeAlloc, ResizeCopy, ResizeGrow, ResizeSwap, Goto
  <2>2. Shared' = Shared
    BY <2>1, SharedGrows DEF Sound
  <2> QED BY <2>1, <2>2
<1> QED BY <1>1 DEF Steady

(* The codes on the list.                                                  *)
LEMMA NodeShapeStep ==
  ASSUME Sound, ZeroState, ListState, NEW t \in Threads, Progress(t) \/ Begin(t)
  PROVE  NodeShape'
<1>0. /\ NodeShape /\ Shared \subseteq Shared'
      /\ \A n \in Shared : heap'[n].code = heap[n].code /\ heap'[n].key = heap[n].key
  BY ListNodesStay DEF ListState
<1>1. ASSUME Shared' = Shared, \A n \in Shared : heap'[n].next.bit = heap[n].next.bit PROVE NodeShape'
  BY <1>0, <1>1 DEF NodeShape, Marked
<1>2. CASE Steady \/ InitPublish(t) \/ Resize(t)
  BY <1>1, <1>2, StillEffect
<1>3. CASE Unlinking(t)
  <2> DEFINE q == walk[t].prev.ix
  <2>0. /\ q \in Shared /\ Shared' = Shared /\ heap[q].next = Link(walk[t].cur.node, 0)
        /\ heap' = [heap EXCEPT ![q].next = Link(walk[t].nxt.node, 0)]
    BY <1>3, UnlinkEffect
  <2>1. heap[q].next.bit = 0 /\ q \in Shared /\ Shared' = Shared
        /\ heap' = [heap EXCEPT ![q].next = Link(walk[t].nxt.node, 0)]
    BY <2>0, LinkParts
  <2>2. Shared \subseteq Node
    BY OwnTypes DEF Sound
  <2>3. \A n \in Shared : heap'[n].next.bit = heap[n].next.bit
    BY <2>1, <2>2 DEF Sound, TypeOK, NodeType, Link
  <2> QED BY <1>1, <2>1, <2>3
<1>4. CASE Marking(t)
  <2> DEFINE c == walk[t].cur.node
  <2>1. /\ c \in Shared /\ IsRegular(heap[c].code) /\ Shared' = Shared
        /\ heap' = [heap EXCEPT ![c].next = Link(walk[t].nxt.node, 1)]
    BY <1>4, MarkEffect
  <2>2. Shared \subseteq Node
    BY OwnTypes DEF Sound
  <2>3. \A n \in Shared : n = c \/ heap'[n] = heap[n]
    BY <2>1, <2>2 DEF Sound, TypeOK
  <2>4. heap[c].code = RegularCode(Hash(heap[c].key))
    <3>1. heap[c].key \in 0 .. (Half - 1) => ~IsRegular(DummyCode(heap[c].key))
      BY CodeKinds
    <3> QED BY <1>0, <2>1, <3>1 DEF NodeShape
  <2> QED BY <1>0, <2>1, <2>3, <2>4 DEF NodeShape, Marked
<1>5. CASE Linking(t)
  <2> DEFINE q == walk[t].prev.ix
             n == Inserted(t)
  <2>0. /\ q \in Shared /\ n \in Node \ Shared /\ Shared' = Shared \cup {n}
        /\ heap[q].next = Link(walk[t].cur.node, 0) /\ heap[n].next = Link(walk[t].cur.node, 0)
        /\ heap' = [heap EXCEPT ![q].next = Link(n, 0)]
        /\ heap[n].code = SoughtCode(t) /\ heap[n].key = SoughtKey(t)
    BY <1>5, LinkEffect
  <2>1. /\ q \in Shared /\ n \in Node \ Shared /\ Shared' = Shared \cup {n}
        /\ heap[q].next.bit = 0 /\ heap[n].next.bit = 0
        /\ heap' = [heap EXCEPT ![q].next = Link(n, 0)]
        /\ heap[n].code = SoughtCode(t) /\ heap[n].key = SoughtKey(t)
    BY <2>0, LinkParts
  <2>2. Shared \subseteq Node
    BY OwnTypes DEF Sound
  <2>3. /\ heap'[n] = heap[n]
        /\ \A m \in Shared : heap'[m].next.bit = heap[m].next.bit
    BY <2>1, <2>2 DEF Sound, TypeOK, NodeType, Link
  <2>4. \/ heap[n].code = DummyCode(heap[n].key) /\ ~Marked(n) /\ heap[n].key \in 0 .. (Half - 1)
        \/ heap[n].code = RegularCode(Hash(heap[n].key))
    <3>1. CASE Initializing(t)
      <4>1. Head(task[t].todo) = task[t].todo[1] /\ 1 \in DOMAIN task[t].todo
        BY <3>1, HeadNotZero, LocalTypes DEF ZeroState, ZeroAt, Sound, Initializing
      <4>2. Head(task[t].todo) \in 1 .. (Half - 1)
        BY <4>1 DEF ListState, ListAt, SoughtAt, TodoAt
      <4> QED BY <2>1, <3>1, <4>2 DEF SoughtCode, SoughtKey, Marked
    <3>2. CASE ~Initializing(t)
      BY <2>1, <3>2 DEF SoughtCode, SoughtKey
    <3> QED BY <3>1, <3>2
  <2> QED BY <1>0, <2>1, <2>3, <2>4 DEF NodeShape, Marked
<1> QED BY <1>2, <1>3, <1>4, <1>5, StepKinds

(* No step cuts anything off but deleted nodes.                            *)
LEMMA ReachStays ==
  ASSUME Sound, ZeroState, ListState, NEW t \in Threads, Progress(t) \/ Begin(t),
         NEW r \in Shared, NEW x \in Shared, ~Marked(x)
  PROVE  /\ x \in From(heap, r) => x \in From(heap', r)
         /\ x \in After(heap, r) => x \in After(heap', r)
<1>0. Shared \in SUBSET Node /\ Closed(heap, Shared) /\ TypeOK
  BY OwnTypes, ListNodesStay DEF Sound
<1>1. ASSUME \A m \in Shared : heap'[m].next.node = heap[m].next.node
      PROVE  From(heap, r) \subseteq From(heap', r) /\ After(heap, r) \subseteq After(heap', r)
  BY <1>0, <1>1, SameKeeps
<1>2. CASE Steady \/ InitPublish(t) \/ Resize(t) \/ Marking(t)
  <2>1. \A m \in Shared : heap'[m].next.node = heap[m].next.node
    BY <1>2, StillEffect, MarkEffect
  <2> QED BY <1>1, <2>1
<1>3. CASE Unlinking(t)
  <2> DEFINE q == walk[t].prev.ix
             c == walk[t].cur.node
  <2>1. /\ q \in Shared /\ c \in Shared /\ Marked(c)
        /\ heap[q].next = Link(c, 0) /\ heap[c].next.node = walk[t].nxt.node
        /\ heap' = [heap EXCEPT ![q].next = Link(walk[t].nxt.node, 0)]
    BY <1>3, UnlinkEffect
  <2>2. heap'[q].next.node = heap[c].next.node /\ \A m \in Shared \ {q} : heap'[m] = heap[m]
    BY <1>0, <2>1, LinkParts DEF TypeOK, NodeType
  <2>3. heap[q].next.node = c
    BY <2>1, LinkParts
  <2> HIDE DEF q, c
  <2>4. /\ q \in Shared /\ c \in Shared
        /\ heap[q].next.node = c /\ heap'[q].next.node = heap[c].next.node
        /\ \A m \in Shared \ {q} : heap'[m].next.node = heap[m].next.node
    BY <2>1, <2>2, <2>3
  <2>5. /\ From(heap, r) \subseteq From(heap', r) \cup {c}
        /\ After(heap, r) \subseteq After(heap', r) \cup {c}
    BY <1>0, <2>4, RemoveKeeps
  <2> QED BY <2>1, <2>5
<1>4. CASE Linking(t)
  <2> DEFINE q == walk[t].prev.ix
             n == Inserted(t)
             c == walk[t].cur.node
  <2>1. /\ q \in Shared /\ n \in Node \ Shared
        /\ heap[q].next = Link(c, 0) /\ heap[n].next = Link(c, 0)
        /\ heap' = [heap EXCEPT ![q].next = Link(n, 0)]
    BY <1>4, LinkEffect
  <2>2. /\ heap'[q].next.node = n /\ heap'[n] = heap[n] /\ \A m \in Shared \ {q} : heap'[m] = heap[m]
    BY <1>0, <2>1, LinkParts DEF TypeOK, NodeType
  <2>3. heap[q].next.node = c /\ heap[n].next.node = c
    BY <2>1, LinkParts
  <2> HIDE DEF q, c, n
  <2>4. Inserts(heap, heap', Shared, q, n)
    BY <2>1, <2>2, <2>3 DEF Inserts
  <2>5. From(heap, r) \subseteq From(heap', r) /\ After(heap, r) \subseteq After(heap', r)
    BY <1>0, <2>4, InsertKeeps
  <2> QED BY <2>5
<1> QED BY <1>2, <1>3, <1>4, StepKinds

(* A node that is linked can be reached.                                   *)
LEMMA LinkedReached ==
  ASSUME Sound, ZeroState, ListState, NEW t \in Threads, Linking(t)
  PROVE  Inserted(t) \in From(heap', 1)
<1> DEFINE q == walk[t].prev.ix
           n == Inserted(t)
           c == walk[t].cur.node
<1>0. Shared \in SUBSET Node /\ TypeOK /\ 1 \in Shared /\ Closed(heap, Shared)
  BY OwnTypes DEF Sound, ZeroState, ZeroNode, NoDangling, Target, Closed
<1>1. /\ q \in Shared /\ n \in Node \ Shared
      /\ heap[q].next = Link(c, 0) /\ heap[n].next = Link(c, 0)
      /\ heap' = [heap EXCEPT ![q].next = Link(n, 0)]
  BY LinkEffect
<1>2. /\ heap'[q].next.node = n /\ heap'[n] = heap[n] /\ \A m \in Shared \ {q} : heap'[m] = heap[m]
  BY <1>0, <1>1, LinkParts DEF TypeOK, NodeType
<1>3. heap[q].next.node = c /\ heap[n].next.node = c /\ heap[q].next.bit = 0
  BY <1>1, LinkParts
<1>4. q \in From(heap, 1)
  BY <1>1, <1>3 DEF ListState, Connected, Marked
<1> HIDE DEF q, c, n
<1>5. Inserts(heap, heap', Shared, q, n)
  BY <1>1, <1>2, <1>3 DEF Inserts
<1>6. n \in From(heap', 1)
  BY <1>0, <1>4, <1>5, InsertKeeps
<1> QED BY <1>6 DEF n

LEMMA ConnectedStep ==
  ASSUME Sound, ZeroState, ListState, NEW t \in Threads, Progress(t) \/ Begin(t)
  PROVE  Connected'
<1>1. ASSUME NEW x \in Shared, heap'[x].next.bit # 1 PROVE x \in From(heap', 1)
  <2>1. ~Marked(x)
    BY <1>1, ListNodesStay DEF Marked
  <2>2. 1 \in Shared /\ x \in From(heap, 1)
    BY <2>1 DEF ZeroState, ZeroNode, ListState, Connected
  <2> QED BY <2>1, <2>2, ReachStays
<1>2. ASSUME NEW x \in Shared' \ Shared PROVE x \in From(heap', 1)
  <2>1. Linking(t)
    BY <1>2, StepKinds, StillEffect, UnlinkEffect, MarkEffect
  <2>2. Shared' = Shared \cup {Inserted(t)}
    BY <2>1, LinkEffect
  <2> QED BY <1>2, <2>1, <2>2, LinkedReached
<1> QED BY <1>1, <1>2 DEF Connected, Marked

LEMMA SortedStep ==
  ASSUME Sound, ZeroState, ListState, NEW t \in Threads, Progress(t) \/ Begin(t)
  PROVE  Sorted'
<1>0. /\ Shared \in SUBSET Node /\ TypeOK /\ Sorted /\ Closed(heap, Shared)
      /\ \A n \in Shared : heap'[n].code = heap[n].code /\ heap[n].code \in Int
  BY OwnTypes, ListNodesStay DEF Sound, ListState
<1>1. ASSUME Shared' = Shared, \A m \in Shared : heap'[m].next.node = heap[m].next.node PROVE Sorted'
  BY <1>0, <1>1 DEF Sorted, Closed
<1>2. CASE Steady \/ InitPublish(t) \/ Resize(t) \/ Marking(t)
  BY <1>1, <1>2, StillEffect, MarkEffect
<1>3. CASE Unlinking(t)
  <2> DEFINE q == walk[t].prev.ix
             c == walk[t].cur.node
  <2>1. /\ q \in Shared /\ c \in Shared /\ Shared' = Shared
        /\ heap[q].next = Link(c, 0) /\ heap[c].next.node = walk[t].nxt.node
        /\ heap' = [heap EXCEPT ![q].next = Link(walk[t].nxt.node, 0)]
    BY <1>3, UnlinkEffect
  <2>2. heap'[q].next.node = heap[c].next.node /\ \A m \in Shared \ {q} : heap'[m] = heap[m]
    BY <1>0, <2>1, LinkParts DEF TypeOK, NodeType
  <2>3. heap[q].next.node = c /\ c # NIL
    BY <2>1, LinkParts, OwnTypes DEF Sound
  <2> HIDE DEF q, c
  <2>4. ASSUME heap[c].next.node # NIL PROVE heap[q].code <= heap[heap[c].next.node].code
    <3>1. heap[q].code <= heap[c].code /\ heap[c].code <= heap[heap[c].next.node].code
      BY <1>0, <2>1, <2>3, <2>4 DEF Sorted
    <3>2. heap[c].next.node \in Shared
      BY <1>0, <2>1, <2>4 DEF Closed
    <3> QED BY <1>0, <2>1, <3>1, <3>2
  <2>5. ASSUME NEW m \in Shared, heap'[m].next.node # NIL
        PROVE  heap'[m].code <= heap'[heap'[m].next.node].code
    <3>1. CASE m = q
      <4>1. heap[c].next.node \in Shared
        BY <1>0, <2>1, <2>2, <2>5, <3>1 DEF Closed
      <4> QED BY <1>0, <2>1, <2>2, <2>4, <2>5, <3>1, <4>1
    <3>2. CASE m # q
      BY <1>0, <2>2, <2>5, <3>2 DEF Sorted, Closed
    <3> QED BY <3>1, <3>2
  <2> QED BY <2>1, <2>5 DEF Sorted
<1>4. CASE Linking(t)
  <2> DEFINE q == walk[t].prev.ix
             n == Inserted(t)
             c == walk[t].cur.node
  <2>1. /\ q \in Shared /\ n \in Node \ Shared /\ c \in Shared \cup {NIL} /\ Shared' = Shared \cup {n}
        /\ heap[q].next = Link(c, 0) /\ heap[n].next = Link(c, 0)
        /\ heap' = [heap EXCEPT ![q].next = Link(n, 0)]
        /\ heap[n].code = SoughtCode(t)
        /\ Behind(q, SoughtCode(t), SoughtKey(t))
        /\ c # NIL => heap[c].code > SoughtCode(t)
    BY <1>4, LinkEffect
  <2>2. /\ heap'[q].next.node = n /\ heap'[n] = heap[n] /\ \A m \in Shared \ {q} : heap'[m] = heap[m]
    BY <1>0, <2>1, LinkParts DEF TypeOK, NodeType
  <2>3. heap[n].next.node = c /\ SoughtCode(t) \in Int
    BY <2>1, LinkParts, SoughtCodes
  <2>4. heap[q].code <= heap[n].code /\ (c # NIL => heap[n].code <= heap[c].code)
    BY <1>0, <2>1, <2>3 DEF Behind
  <2> HIDE DEF q, c, n
  <2>5. ASSUME NEW m \in Shared \cup {n}, heap'[m].next.node # NIL
        PROVE  heap'[m].code <= heap'[heap'[m].next.node].code
    <3>1. CASE m = q
      BY <1>0, <2>1, <2>2, <2>4, <3>1
    <3>2. CASE m = n
      BY <1>0, <2>1, <2>2, <2>3, <2>4, <2>5, <3>2
    <3>3. CASE m # q /\ m # n
      BY <1>0, <2>2, <2>5, <3>3 DEF Sorted, Closed
    <3> QED BY <3>1, <3>2, <3>3
  <2> QED BY <2>1, <2>5 DEF Sorted
<1> QED BY <1>2, <1>3, <1>4, StepKinds

(* What a step may add to the nodes with some code and key.                *)
LEMMA HoldingStep ==
  ASSUME Sound, ZeroState, ListState, NEW t \in Threads, Progress(t) \/ Begin(t),
         NEW code, NEW key, NEW x \in Holding(heap', Shared', code, key)
  PROVE  \/ x \in Holding(heap, Shared, code, key) /\ ~Marked(x)
         \/ /\ Linking(t) /\ x = Inserted(t) /\ Shared' = Shared \cup {x}
            /\ code = SoughtCode(t) /\ key = SoughtKey(t)
<1>0. x \in Shared' /\ heap'[x].next.bit # 1 /\ heap'[x].code = code /\ heap'[x].key = key
  BY DEF Holding
<1>1. CASE x \in Shared
  <2>1. ~Marked(x) /\ heap[x].code = code /\ heap[x].key = key
    BY <1>0, <1>1, ListNodesStay DEF Marked
  <2> QED BY <1>1, <2>1 DEF Holding, Marked
<1>2. CASE x \notin Shared
  <2>1. Linking(t)
    BY <1>0, <1>2, StepKinds, StillEffect, UnlinkEffect, MarkEffect
  <2>2. Shared' = Shared \cup {Inserted(t)}
    BY <2>1, LinkEffect
  <2>3. x = Inserted(t)
    BY <1>0, <1>2, <2>2
  <2>4. heap[x].code = SoughtCode(t) /\ heap[x].key = SoughtKey(t)
    BY <2>1, <2>3, LinkEffect
  <2>5. heap'[x] = heap[x]
    BY <1>0, <1>2, SharedGrows DEF Sound
  <2> QED BY <1>0, <2>1, <2>2, <2>3, <2>4, <2>5
<1> QED BY <1>1, <1>2

(* A node that is linked has larger codes behind it.                       *)
LEMMA LinkedBefore ==
  ASSUME Sound, ZeroState, ListState, NEW t \in Threads, Linking(t), Progress(t) \/ Begin(t),
         NEW x \in From(heap', Inserted(t)), x # Inserted(t)
  PROVE  heap'[x].code > SoughtCode(t)
<1> DEFINE q == walk[t].prev.ix
           n == Inserted(t)
           c == walk[t].cur.node
<1>0. /\ Shared' \in SUBSET Node /\ TypeOK /\ Closed(heap', Shared') /\ Sorted'
      /\ \A m \in Shared' : heap'[m].code \in Int
      /\ \A m \in Shared : heap'[m].code = heap[m].code
      /\ SoughtCode(t) \in Int
  BY ListNodesStay, SortedStep, SoughtCodes DEF Sound
<1>1. /\ q \in Shared /\ n \in Node \ Shared /\ c \in Shared \cup {NIL} /\ Shared' = Shared \cup {n}
      /\ heap[n].next = Link(c, 0)
      /\ heap' = [heap EXCEPT ![q].next = Link(n, 0)]
      /\ c # NIL => heap[c].code > SoughtCode(t)
  BY LinkEffect
<1>2. heap'[n].next.node = c
  BY <1>0, <1>1, LinkParts DEF TypeOK
<1>3. Increasing(heap', Shared')
  BY <1>0 DEF Sorted, Increasing
<1> HIDE DEF q, n, c
<1>4. n \in Shared' /\ x \in After(heap', n)
  <2>1. From(heap', n) = {n} \cup After(heap', n)
    BY <1>0, <1>1, FromSplits
  <2> QED BY <1>1, <2>1 DEF n
<1>5. c # NIL /\ x \in From(heap', c)
  BY <1>2, <1>4 DEF After
<1>6. c \in Shared' /\ heap'[c].code > SoughtCode(t)
  BY <1>0, <1>1, <1>5
<1>7. heap'[c].code <= heap'[x].code /\ x \in Shared'
  BY <1>0, <1>3, <1>5, <1>6, FromCodes, FromClosed
<1> QED BY <1>0, <1>6, <1>7

(* A walk that has not gone past what it looks for has not after a step of *)
(* any thread: a node linked or unlinked in the meantime changes nothing.  *)
LEMMA BehindStays ==
  ASSUME Sound, ZeroState, ListState, NEW t \in Threads, Progress(t) \/ Begin(t),
         NEW p \in Shared, NEW code \in Int, NEW key, Behind(p, code, key)
  PROVE  /\ heap'[p].code <= code
         /\ heap'[p].next.bit = 1 \/ Holding(heap', Shared', code, key) \subseteq After(heap', p)
<1>0. /\ Shared' \in SUBSET Node /\ Closed(heap', Shared') /\ 1 \in Shared /\ Shared \subseteq Shared'
      /\ heap'[p].code = heap[p].code /\ heap[p].code \in Int /\ heap[p].code <= code
      /\ \A m \in Shared : Marked(m) => heap'[m].next = heap[m].next
  BY ListNodesStay DEF Behind, ZeroState, ZeroNode
<1>1. CASE Marked(p)
  BY <1>0, <1>1 DEF Marked
<1>2. CASE ~Marked(p)
  <2> SUFFICES ASSUME NEW x \in Holding(heap', Shared', code, key), heap'[p].next.bit # 1
               PROVE  x \in After(heap', p)
    BY <1>0
  <2>1. CASE x \in Holding(heap, Shared, code, key) /\ ~Marked(x)
    <3>1. x \in Shared /\ x \in After(heap, p)
      BY <1>2, <2>1 DEF Behind, Holding
    <3> QED BY <2>1, <3>1, ReachStays
  <2>2. CASE Linking(t) /\ x = Inserted(t) /\ Shared' = Shared \cup {x} /\ code = SoughtCode(t)
    <3>1. x \in From(heap', 1) /\ x \notin Shared /\ x \in Shared'
      BY <2>2, LinkedReached, LinkEffect
    <3>2. p \in From(heap, 1)
      BY <1>2 DEF ListState, Connected
    <3>3. p \in From(heap', 1)
      BY <1>0, <1>2, <3>2, ReachStays
    <3>4. p \notin From(heap', x)
      BY <1>0, <2>2, <3>1, LinkedBefore
    <3>5. x \in From(heap', p)
      <4>1. 1 \in Shared'
        BY <1>0
      <4> QED BY <1>0, <3>1, <3>3, <3>4, <4>1, FromOrder
    <3>6. From(heap', p) = {p} \cup After(heap', p)
      <4>1. p \in Shared'
        BY <1>0
      <4> QED BY <1>0, <4>1, FromSplits
    <3> QED BY <3>1, <3>5, <3>6
  <2> QED BY <2>1, <2>2, HoldingStep
<1> QED BY <1>1, <1>2

(* A node is linked only where nothing with its code and key is.           *)
LEMMA LinkedAlone ==
  ASSUME Sound, ZeroState, ListState, NEW t \in Threads, Linking(t)
  PROVE  Holding(heap, Shared, SoughtCode(t), SoughtKey(t)) = {}
<1> DEFINE q == walk[t].prev.ix
           c == walk[t].cur.node
<1>0. Shared \in SUBSET Node /\ Closed(heap, Shared) /\ Increasing(heap, Shared)
      /\ (\A m \in Shared : heap[m].code \in Int) /\ SoughtCode(t) \in Int
  BY OwnTypes, SoughtCodes, WordIsPower
     DEF Sound, NoDangling, Target, Closed, ListState, Sorted, Increasing, TypeOK, NodeType
<1>1. /\ q \in Shared /\ heap[q].next = Link(c, 0) /\ c \in Shared \cup {NIL}
      /\ Behind(q, SoughtCode(t), SoughtKey(t))
      /\ c # NIL => heap[c].code > SoughtCode(t)
  BY LinkEffect
<1>2. heap[q].next.node = c /\ heap[q].next.bit = 0
  BY <1>1, LinkParts
<1>3. Holding(heap, Shared, SoughtCode(t), SoughtKey(t)) \subseteq After(heap, q)
  BY <1>1, <1>2 DEF Behind, Marked
<1> HIDE DEF q, c
<1>4. ASSUME NEW x \in Holding(heap, Shared, SoughtCode(t), SoughtKey(t)) PROVE FALSE
  <2>1. c # NIL /\ x \in From(heap, c) /\ heap[x].code = SoughtCode(t) /\ x \in Shared
    BY <1>2, <1>3, <1>4 DEF After, Holding
  <2>2. heap[c].code <= heap[x].code
    BY <1>0, <1>1, <2>1, FromCodes
  <2> QED BY <1>0, <1>1, <2>1, <2>2
<1> QED BY <1>4

LEMMA DistinctStep ==
  ASSUME Sound, ZeroState, ListState, NEW t \in Threads, Progress(t) \/ Begin(t)
  PROVE  Distinct'
<1>1. ASSUME NEW m \in Shared', NEW n \in Shared', heap'[m].next.bit # 1, heap'[n].next.bit # 1,
             heap'[m].code = heap'[n].code, heap'[m].key = heap'[n].key
      PROVE  m = n
  <2> DEFINE code == heap'[m].code
             key == heap'[m].key
  <2>1. m \in Holding(heap', Shared', code, key) /\ n \in Holding(heap', Shared', code, key)
    BY <1>1 DEF Holding
  <2> HIDE DEF code, key
  <2>2. CASE /\ m \in Holding(heap, Shared, code, key) /\ ~Marked(m)
             /\ n \in Holding(heap, Shared, code, key) /\ ~Marked(n)
    BY <2>2 DEF Holding, ListState, Distinct
  <2>3. CASE Linking(t) /\ code = SoughtCode(t) /\ key = SoughtKey(t)
    <3>1. Holding(heap, Shared, code, key) = {}
      BY <2>3, LinkedAlone
    <3> QED BY <2>1, <3>1, HoldingStep
  <2> QED BY <2>1, <2>2, <2>3, HoldingStep
<1> QED BY <1>1 DEF Distinct, Marked

LEMMA DummyStays ==
  ASSUME Sound, NEW t \in Threads, Progress(t) \/ Begin(t), NEW n, NEW b, IsDummy(n, b)
  PROVE  n \in Shared' /\ heap'[n].code = DummyCode(b) /\ heap'[n].key = b
BY ListNodesStay DEF IsDummy

(* Every slot keeps leading to its bucket's dummy node, and the slots that *)
(* are filled or copied do.                                                *)
LEMMA SlotsLeadStep ==
  ASSUME Sound, ZeroState, ListState, NEW t \in Threads, Progress(t) \/ Begin(t)
  PROVE  SlotsLead'
<1>0. /\ TypeOK
      /\ \A a \in TableId : \A b \in DOMAIN tables[a] :
           tables[a][b].node # NIL => IsDummy(tables[a][b].node, b)
  BY DEF Sound, ListState, SlotsLead
<1> SUFFICES ASSUME NEW a \in TableId, NEW b \in DOMAIN tables'[a], tables'[a][b].node # NIL
             PROVE  IsDummy(tables'[a][b].node, b)
  <2>1. ASSUME NEW a \in TableId, NEW b \in DOMAIN tables'[a], tables'[a][b].node # NIL,
               IsDummy(tables'[a][b].node, b)
        PROVE  /\ tables'[a][b].node \in Shared'
               /\ heap'[tables'[a][b].node].code = DummyCode(b) /\ heap'[tables'[a][b].node].key = b
    BY <2>1, DummyStays
  <2> QED BY <2>1 DEF SlotsLead, IsDummy
<1>1. ASSUME b \in DOMAIN tables[a], tables'[a][b] = tables[a][b] PROVE IsDummy(tables'[a][b].node, b)
  BY <1>0, <1>1
<1>2. CASE UNCHANGED tables
  BY <1>0, <1>2
<1>3. CASE InitPublish(t)
  <2>1. IsDummy(task[t].res, Head(task[t].todo))
    BY <1>3 DEF InitPublish, ListState, ListAt, SoughtAt, ResultAt
  <2>2. tables' = [tables EXCEPT ![task[t].dst][Head(task[t].todo)] = Link(task[t].res, 0)]
    BY <1>3 DEF InitPublish, Slot
  <2>3. CASE a = task[t].dst /\ b = Head(task[t].todo)
    <3>1. tables'[a][b] = Link(task[t].res, 0)
      BY <1>0, <2>2, <2>3 DEF TypeOK
    <3> QED BY <2>1, <2>3, <3>1, LinkParts
  <2>4. CASE ~(a = task[t].dst /\ b = Head(task[t].todo))
    BY <1>0, <1>1, <2>2, <2>4 DEF TypeOK
  <2> QED BY <2>3, <2>4
<1>4. CASE ResizeAlloc(t)
  <2>1. tables' = [tables EXCEPT ![NewTable] = Grown(grow[t].sz)]
    BY <1>4 DEF ResizeAlloc
  <2>2. a # NewTable
    BY <1>0, <2>1, LinkParts DEF TypeOK, Grown, Null
  <2> QED BY <1>0, <1>1, <2>1, <2>2 DEF TypeOK
<1>5. CASE ResizeCopy(t)
  <2> DEFINE i == grow[t].i
  <2>1. /\ grow[t].old \in TableId /\ i \in DOMAIN tables[grow[t].old]
        /\ Load(Slot(grow[t].old, i)) = tables[grow[t].old][i]
    BY <1>0, <1>5, LocalTypes DEF ResizeCopy, InBounds, Load, Slot, TableId
  <2>2. tables' = [tables EXCEPT ![grow[t].new][i] = tables[grow[t].old][i]]
    BY <1>5, <2>1 DEF ResizeCopy
  <2>3. CASE a = grow[t].new /\ b = i
    <3>1. tables'[a][b] = tables[grow[t].old][i]
      BY <1>0, <2>2, <2>3 DEF TypeOK
    <3> QED BY <1>0, <2>1, <2>3, <3>1
  <2>4. CASE ~(a = grow[t].new /\ b = i)
    BY <1>0, <1>1, <2>2, <2>4 DEF TypeOK
  <2> QED BY <2>3, <2>4
<1>6. CASE ResizeGrow(t) \/ ResizeSwap(t)
  <2>1. UNCHANGED tables \/ tables' = [tables EXCEPT ![grow[t].new] = NoSlots]
    BY <1>6 DEF ResizeGrow, ResizeSwap
  <2>2. DOMAIN NoSlots = {}
    BY DEF NoSlots
  <2> QED BY <1>0, <1>1, <1>2, <2>1, <2>2 DEF TypeOK
<1> QED
  BY <1>2, <1>3, <1>4, <1>5, <1>6, StepKinds, LinkEffect, UnlinkEffect, MarkEffect DEF Steady, Resize

(* The size stays a power of two, and no more than half the codes.         *)
LEMMA SizesStep ==
  ASSUME Sound, ListState, size' <= Half, NEW t \in Threads, Progress(t) \/ Begin(t)
  PROVE  Sizes(size')
<1>1. CASE UNCHANGED size
  BY <1>1 DEF ListState
<1>2. CASE size' = 2 * size
  <2>1. PICK j \in 0 .. (Width - 1) : size = 2 ^ j
    BY DEF ListState, Sizes
  <2>2. Width \in Nat \ {0} /\ j \in Nat /\ Half \in Nat \ {0} /\ 2 ^ Width = 2 * Half
    BY WidthAssumption, WordIsPower
  <2>3. size' = 2 ^ (j + 1)
    BY <1>2, <2>1, <2>2, PowerDoubles
  <2>4. j + 1 # Width
    BY <2>2, <2>3
  <2>5. j + 1 \in 0 .. (Width - 1)
    BY <2>2, <2>4
  <2> QED BY <2>3, <2>5 DEF Sizes
<1>3. CASE Resize(t)
  BY <1>1, <1>2, <1>3 DEF Resize, ResizeAlloc, ResizeCopy, ResizeGrow, ResizeSwap, Doubled
<1>4. CASE Fault(t)
  BY <1>1, <1>4 DEF Fault, OutOfBounds, WildRead
<1>5. CASE ~Fault(t) /\ ~Resize(t)
  BY <1>1, <1>5, Outside DEF Sound
<1> QED BY <1>3, <1>4, <1>5

(* What a step does to the locals of its own thread that matter here.      *)
LEMMA SoughtMoves ==
  ASSUME Sound, NEW t \in Threads, Progress(t) \/ Begin(t)
  PROVE  /\ call'[t].mine # NIL =>
              \/ call'[t].mine = call[t].mine /\ call'[t].key = call[t].key
              \/ \E k \in Keys, v \in Vals : BeginInsert(t, k, v)
         /\ task'[t].dummy # NIL =>
              InitAlloc(t) \/ (task'[t].dummy = task[t].dummy /\ task'[t].todo = task[t].todo)
         /\ pc'[t] \in Seeking =>
              \/ pc[t] \in Seeking /\ call'[t].bucket = call[t].bucket /\ call'[t].key = call[t].key
              \/ InsertReadSize(t)
              \/ \E kind \in {"find", "delete"}, k \in Keys : BeginLookup(t, kind, k)
         /\ pc'[t] \in {"reload", "publish"} =>
              \/ /\ pc[t] \in {"reload", "publish"}
                 /\ task'[t].res = task[t].res /\ task'[t].todo = task[t].todo
              \/ InitFoundDummy(t) \/ InsertLink(t)
         /\ task'[t].todo \in {<<>>, task[t].todo}
            \/ CheckBucket(t) \/ InitCheckParent(t) \/ InitPublish(t)
<1>0. /\ TypeOK /\ OwnAt(t) /\ call[t] \in CallType /\ task[t] \in TaskType /\ pc[t] \in Labels
  BY LocalTypes DEF Sound, Ownership
<1> USE DEF Goto, locals, Seeking, InInit, Searching
<1>1. ASSUME NEW out, Return(t, out)
      PROVE  pc'[t] = "idle" /\ call'[t].mine = NIL /\ task'[t].dummy = NIL /\ task'[t].todo = <<>>
  BY <1>0, <1>1 DEF Return, TypeOK, NoArgs, NoTask
<1>2. CASE Begin(t)
  BY <1>0, <1>2 DEF Begin, BeginInsert, BeginLookup, TypeOK
<1>3. CASE InsertReadSize(t) \/ LookupReadTable(t)
  BY <1>0, <1>3 DEF InsertReadSize, LookupReadTable, TypeOK, CallType
<1>4. CASE CheckBucket(t) \/ InitCheckParent(t)
  BY <1>0, <1>4 DEF CheckBucket, InitCheckParent, OwnAt, TypeOK, TaskType
<1>5. CASE InitAlloc(t) \/ InitReload(t) \/ InitFoundDummy(t) \/ InitPublish(t)
  <2>1. CASE InitPublish(t)
    <3>1. task[t].dummy = NIL /\ pc[t] = "publish" /\ call' = call
      BY <1>0, <2>1 DEF InitPublish, OwnAt
    <3>2. task'[t].dummy = task[t].dummy /\ pc'[t] \in {"find", "alloc"}
      BY <1>0, <2>1 DEF InitPublish, TypeOK, TaskType
    <3> QED BY <2>1, <3>1, <3>2
  <2> QED
    BY <1>0, <1>5, <2>1 DEF InitAlloc, InitReload, InitFoundDummy, OwnAt, TypeOK, TaskType
<1>6. CASE ListFind(t)
  BY <1>0, <1>6 DEF ListFind, FindReadTable, FindReadHead, FindReadNext, FindVerify, FindUnlink, TypeOK
<1>7. CASE InsertPrepare(t) \/ FindHit(t) \/ DeleteHit(t) \/ InsertLoadSize(t)
  BY <1>0, <1>7 DEF InsertPrepare, FindHit, DeleteHit, InsertLoadSize, TypeOK
<1>8. CASE InsertLink(t)
  BY <1>0, <1>8 DEF InsertLink, TypeOK, CallType, TaskType
<1>9. CASE InsertFoundKey(t) \/ FindMiss(t) \/ FindValue(t) \/ DeleteErase(t)
  BY <1>1, <1>9 DEF InsertFoundKey, FindMiss, FindValue, DeleteErase
<1>10. CASE InsertCount(t) \/ ResizeGrow(t) \/ ResizeSwap(t)
  BY <1>0, <1>1, <1>10 DEF InsertCount, ResizeGrow, ResizeSwap, TypeOK
<1>11. CASE ResizeAlloc(t) \/ ResizeCopy(t)
  BY <1>0, <1>11 DEF ResizeAlloc, ResizeCopy, TypeOK
<1>12. CASE DeleteMark(t) \/ DeleteDetach(t) \/ DeleteUncount(t) \/ DeleteTake(t)
  BY <1>0, <1>12 DEF DeleteMark, DeleteDetach, DeleteUncount, DeleteTake, TypeOK, CallType
<1>13. CASE Fault(t)
  BY <1>0, <1>13 DEF Fault, OutOfBounds, WildRead
<1> QED
  BY <1>2, <1>3, <1>4, <1>5, <1>6, <1>7, <1>8, <1>9, <1>10, <1>11, <1>12, <1>13
     DEF Progress, BucketInit, Insert, Resize, Lookup, Delete

(* Buckets are hashes modulo a size the table has had.                     *)
LEMMA BucketStep ==
  ASSUME Sound, ListState, NEW t \in Threads, Progress(t) \/ Begin(t)
  PROVE  BucketAt(t)'
<1>0. TypeOK /\ call[t] \in CallType /\ BucketAt(t) /\ Sizes(size)
  BY LocalTypes DEF Sound, ListState, ListAt, SoughtAt
<1>1. CASE InsertReadSize(t)
  <2>1. call'[t].bucket = Hash(call[t].key) % size /\ call'[t].key = call[t].key
    BY <1>0, <1>1 DEF InsertReadSize, TypeOK, CallType
  <2> QED BY <1>0, <2>1 DEF Sizes, BucketAt
<1>2. CASE \E kind \in {"find", "delete"}, k \in Keys : BeginLookup(t, kind, k)
  <2>1. call'[t].bucket = Hash(call'[t].key) % size
    BY <1>0, <1>2 DEF BeginLookup, TypeOK
  <2> QED BY <1>0, <2>1 DEF Sizes, BucketAt
<1>3. CASE pc[t] \in Seeking /\ call'[t].bucket = call[t].bucket /\ call'[t].key = call[t].key
  BY <1>0, <1>3 DEF BucketAt
<1> QED BY <1>1, <1>2, <1>3, SoughtMoves DEF BucketAt

(* So they are below half the codes, and so are their ancestors.           *)
LEMMA TodoStep ==
  ASSUME Sound, ZeroState, ListState, NEW t \in Threads, Progress(t) \/ Begin(t)
  PROVE  TodoAt(t)'
<1>0. /\ TypeOK /\ task[t] \in TaskType /\ task[t].todo \in Seq(Nat) /\ TodoAt(t) /\ BucketAt(t)
      /\ Half \in Nat \ {0} /\ call[t].key \in Nat /\ Hash(call[t].key) \in Nat
      /\ ZeroTodo(t) /\ ZeroTodo(t)'
  BY LocalTypes, CodeTypes, ZeroTodoStep DEF Sound, ListState, ListAt, SoughtAt, ZeroState, ZeroAt
<1>1. CASE task'[t].todo \in {<<>>, task[t].todo}
  BY <1>0, <1>1 DEF TodoAt
<1>2. CASE CheckBucket(t)
  <2>1. CASE task' = [task EXCEPT ![t].todo = <<call[t].bucket>>]
    <3>1. task'[t].todo = <<call[t].bucket>>
      BY <1>0, <2>1 DEF TypeOK, TaskType
    <3>2. PICK j \in 0 .. (Width - 1) : call[t].bucket = Hash(call[t].key) % 2 ^ j
      BY <1>0, <1>2 DEF CheckBucket, Goto, BucketAt, Seeking
    <3>3. Width - 1 \in Nat /\ j \in Nat /\ j <= Width - 1
      BY WidthAssumption
    <3>4. 2 ^ j <= Half /\ 2 ^ j \in Nat \ {0}
      BY <3>3, PowerMonotone, PowerPositive DEF Half
    <3> DEFINE b == call[t].bucket
    <3>5. b \in Nat /\ b < 2 ^ j
      BY <1>0, <3>2, <3>4
    <3>6. b # 0
      BY <1>0, <3>1 DEF ZeroTodo
    <3>7. b \in 1 .. (Half - 1)
      BY <1>0, <3>4, <3>5, <3>6
    <3> QED BY <3>1, <3>7 DEF TodoAt
  <2> QED BY <1>1, <1>2, <2>1 DEF CheckBucket
<1>3. CASE InitCheckParent(t)
  <2> DEFINE p == Parent(Head(task[t].todo))
  <2>1. CASE task' = [task EXCEPT ![t].todo = <<p>> \o @]
    <3>1. task'[t].todo = <<p>> \o task[t].todo
      BY <1>0, <2>1 DEF TypeOK, TaskType
    <3>2. Head(task[t].todo) \in 1 .. (Half - 1)
      <4>1. Head(task[t].todo) = task[t].todo[1] /\ task[t].todo # <<>>
        BY <1>0, <1>3, HeadNotZero DEF InitCheckParent, InInit
      <4>2. 1 \in DOMAIN task[t].todo
        BY <1>0, <4>1
      <4> QED BY <1>0, <4>1, <4>2 DEF TodoAt
    <3>3. p \in 0 .. (Head(task[t].todo) - 1)
      BY <3>2, ParentBefore
    <3> HIDE DEF p
    <3>4. p \in Nat /\ p <= Half - 1
      BY <1>0, <3>2, <3>3
    <3>5. ASSUME NEW i \in DOMAIN task'[t].todo PROVE task'[t].todo[i] \in 1 .. (Half - 1)
      <4>1. i \in 1 .. (1 + Len(task[t].todo)) /\ DOMAIN task[t].todo = 1 .. Len(task[t].todo)
            /\ Len(task[t].todo) \in Nat
        BY <1>0, <3>1, <3>4, <3>5
      <4>2. CASE i = 1
        <5>1. task'[t].todo[i] = p /\ task'[t].todo[i] # 0
          BY <1>0, <3>1, <3>4, <3>5, <4>2 DEF ZeroTodo
        <5> QED BY <1>0, <3>4, <5>1
      <4>3. CASE i # 1
        <5>1. i - 1 \in DOMAIN task[t].todo /\ task'[t].todo[i] = task[t].todo[i - 1]
          BY <1>0, <3>1, <3>4, <4>1, <4>3
        <5> QED BY <1>0, <5>1 DEF TodoAt
      <4> QED BY <4>2, <4>3
    <3> QED BY <3>5 DEF TodoAt
  <2> QED BY <1>1, <1>3, <2>1 DEF InitCheckParent
<1>4. CASE InitPublish(t)
  <2>1. task[t].todo # <<>>
    BY <1>0, <1>4, HeadNotZero DEF InitPublish, InInit
  <2>2. task'[t].todo = Tail(task[t].todo)
    BY <1>0, <1>4 DEF InitPublish, TypeOK, TaskType
  <2>3. \A i \in DOMAIN Tail(task[t].todo) :
          i + 1 \in DOMAIN task[t].todo /\ Tail(task[t].todo)[i] = task[t].todo[i + 1]
    BY <1>0, <2>1
  <2> QED BY <1>0, <2>2, <2>3 DEF TodoAt
<1> QED BY <1>1, <1>2, <1>3, <1>4, SoughtMoves

(* The nodes a call has made are what it was asked for.                    *)
LEMMA MadeStep ==
  ASSUME Sound, ListState, NEW t \in Threads, Progress(t) \/ Begin(t), NEW u \in Threads
  PROVE  MadeAt(u)'
<1>0. /\ TypeOK /\ call[u] \in CallType /\ task[u] \in TaskType /\ MadeAt(u) /\ Own(u) \subseteq live
      /\ \A n \in live \cap live' : heap'[n].code = heap[n].code /\ heap'[n].key = heap[n].key
  BY LocalTypes, NodesStay DEF Sound, ListState, ListAt, SoughtAt, Ownership, OwnAt
<1>1. Own(u)' \subseteq live'
  <2>1. status' # "destroyed"
    BY Transitions DEF Sound
  <2> QED BY <2>1, OwnershipStep DEF Sound, Ownership, OwnAt
<1>2. ASSUME call'[u].mine # NIL, call'[u].mine = call[u].mine, call'[u].key = call[u].key
      PROVE  /\ heap'[call'[u].mine].code = RegularCode(Hash(call'[u].key))
             /\ heap'[call'[u].mine].key = call'[u].key
  <2>1. call[u].mine \in live \cap live'
    BY <1>0, <1>1, <1>2 DEF Own
  <2> QED BY <1>0, <1>2, <2>1 DEF MadeAt
<1>3. ASSUME task'[u].dummy # NIL, task'[u].dummy = task[u].dummy, task'[u].todo = task[u].todo
      PROVE  /\ heap'[task'[u].dummy].code = DummyCode(Head(task'[u].todo))
             /\ heap'[task'[u].dummy].key = Head(task'[u].todo)
  <2>1. task[u].dummy \in live \cap live'
    BY <1>0, <1>1, <1>3 DEF Own
  <2> QED BY <1>0, <1>3, <2>1 DEF MadeAt
<1>4. ASSUME u = t, NEW k \in Keys, NEW v \in Vals, BeginInsert(t, k, v)
      PROVE  /\ heap'[call'[u].mine].code = RegularCode(Hash(call'[u].key))
             /\ heap'[call'[u].mine].key = call'[u].key
  <2>1. NewNode \in Node
    BY <1>4 DEF BeginInsert, NewNode
  <2> QED BY <1>0, <1>4, <2>1 DEF BeginInsert, TypeOK
<1>5. ASSUME u = t, InitAlloc(t)
      PROVE  /\ heap'[task'[u].dummy].code = DummyCode(Head(task'[u].todo))
             /\ heap'[task'[u].dummy].key = Head(task'[u].todo)
  <2>1. NewNode \in Node
    BY <1>5 DEF InitAlloc, NewNode
  <2> QED BY <1>0, <1>5, <2>1 DEF InitAlloc, TypeOK, TaskType
<1>6. CASE u = t
  BY <1>2, <1>3, <1>4, <1>5, <1>6, SoughtMoves DEF MadeAt
<1>7. CASE u # t
  <2>1. call'[u] = call[u] /\ task'[u] = task[u]
    BY <1>0, <1>7, OthersStay
  <2> QED BY <1>2, <1>3, <2>1 DEF MadeAt
<1> QED BY <1>6, <1>7

(* What hashtable_bucket_init publishes is the bucket's dummy node.        *)
LEMMA ResultStep ==
  ASSUME Sound, ZeroState, ListState, NEW t \in Threads, Progress(t) \/ Begin(t), NEW u \in Threads
  PROVE  ResultAt(u)'
<1>0. /\ TypeOK /\ task[u] \in TaskType /\ ResultAt(u)
      /\ walk[u].cur.node # NIL => walk[u].cur.node \in Shared
  BY LocalTypes DEF Sound, ListState, ListAt, SoughtAt, NoDangling, Target
<1>1. ASSUME NEW n, NEW b, IsDummy(n, b), task'[u].res = n, Head(task'[u].todo) = b
      PROVE  ResultAt(u)'
  BY <1>1, DummyStays DEF ResultAt, IsDummy
<1>2. ASSUME pc[u] \in {"reload", "publish"}, task'[u].res = task[u].res, task'[u].todo = task[u].todo
      PROVE  ResultAt(u)'
  BY <1>0, <1>1, <1>2 DEF ResultAt
<1>3. CASE u = t /\ InitFoundDummy(t)
  <2>1. task'[t].res = walk[t].cur.node /\ task'[t].todo = task[t].todo
    BY <1>0, <1>3 DEF InitFoundDummy, TypeOK, TaskType
  <2>2. IsDummy(walk[t].cur.node, Head(task[t].todo))
    BY <1>0, <1>3 DEF InitFoundDummy, ResultMatches, HoldsSought, SoughtCode, SoughtKey, IsDummy,
       CurCode, CurKey
  <2> QED BY <1>1, <1>3, <2>1, <2>2
<1>4. CASE u = t /\ InsertLink(t) /\ pc'[t] \in {"reload", "publish"}
  <2>1. Linking(t) /\ Initializing(t) /\ task'[t].res = task[t].dummy /\ task'[t].todo = task[t].todo
    BY <1>0, <1>4 DEF InsertLink, Linking, Goto, TypeOK, TaskType
  <2>2. /\ task[t].dummy \in Shared' /\ task[t].dummy \notin Shared
        /\ heap[task[t].dummy].code = DummyCode(Head(task[t].todo))
        /\ heap[task[t].dummy].key = Head(task[t].todo)
    BY <2>1, LinkEffect DEF Inserted, SoughtCode, SoughtKey
  <2>3. heap'[task[t].dummy] = heap[task[t].dummy]
    BY <2>2, SharedGrows DEF Sound
  <2> QED BY <1>4, <2>1, <2>2, <2>3 DEF ResultAt, IsDummy
<1>5. CASE u = t
  BY <1>2, <1>3, <1>4, <1>5, SoughtMoves DEF ResultAt
<1>6. CASE u # t
  <2>1. task'[u] = task[u] /\ pc'[u] = pc[u]
    BY <1>0, <1>6, OthersStay
  <2> QED BY <1>2, <2>1 DEF ResultAt
<1> QED BY <1>5, <1>6

(* What holds of the walk of another thread still does.                    *)
LEMMA WalkOthers ==
  ASSUME Sound, ZeroState, ListState, NEW t \in Threads, Progress(t) \/ Begin(t),
         NEW u \in Threads \ {t}
  PROVE  StartAt(u)' /\ BehindAt(u)' /\ StopAt(u)'
<1>0. /\ TypeOK /\ StartAt(u) /\ BehindAt(u) /\ StopAt(u) /\ ControlAt(u)
      /\ pc'[u] = pc[u] /\ call'[u] = call[u] /\ walk'[u] = walk[u] /\ task'[u] = task[u]
      /\ walk[u].cur.node # NIL => walk[u].cur.node \in Shared
      /\ walk[u].prev.tb = 0 => walk[u].prev.ix \in Shared
      /\ SoughtCode(u) \in Int
  BY OthersStay, SoughtCodes DEF Sound, ListState, ListAt, Control, NoDangling, Target
<1>1. FindBucket(u)' = FindBucket(u) /\ SoughtKey(u)' = SoughtKey(u) /\ SoughtCode(u)' = SoughtCode(u)
  BY <1>0 DEF FindBucket, SoughtKey, SoughtCode, Initializing
<1>2. /\ \A n \in Shared : heap'[n].code = heap[n].code /\ heap'[n].key = heap[n].key
      /\ \A n \in Shared : Marked(n) => heap'[n].next = heap[n].next
  BY ListNodesStay
<1>3. StartAt(u)'
  <2>1. \A n, b : IsDummy(n, b) => n \in Shared' /\ heap'[n].code = DummyCode(b) /\ heap'[n].key = b
    BY DummyStays
  <2>2. IsDummy(walk[u].cur.node, FindBucket(u)) => IsDummy(walk[u].cur.node, FindBucket(u))'
    BY <1>0, <1>1, <2>1 DEF IsDummy
  <2> QED BY <1>0, <1>1, <2>2 DEF StartAt
<1>4. BehindAt(u)'
  <2> SUFFICES ASSUME pc[u] \in Stepping, walk[u].prev.tb = 0
               PROVE  Behind(walk[u].prev.ix, SoughtCode(u), SoughtKey(u))'
    BY <1>0 DEF BehindAt
  <2>1. Behind(walk[u].prev.ix, SoughtCode(u), SoughtKey(u)) /\ walk[u].prev.ix \in Shared
    BY <1>0 DEF BehindAt
  <2>2. /\ heap'[walk[u].prev.ix].code <= SoughtCode(u)
        /\ \/ heap'[walk[u].prev.ix].next.bit = 1
           \/ Holding(heap', Shared', SoughtCode(u), SoughtKey(u)) \subseteq After(heap', walk[u].prev.ix)
    BY <1>0, <2>1, BehindStays
  <2> QED BY <1>0, <1>1, <2>2 DEF Behind, Marked
<1>5. StopAt(u)'
  <2>1. walk[u].cur.node # NIL => CurCode(u)' = CurCode(u) /\ CurKey(u)' = CurKey(u)
    BY <1>0, <1>2 DEF CurCode, CurKey
  <2>2. HoldsSought(u) => HoldsSought(u)'
    BY <1>0, <1>1, <2>1 DEF HoldsSought
  <2>3. pc[u] \in {"verify", "unlink", "detach"} => walk[u].cur.node # NIL
    BY <1>0 DEF ControlAt
  <2>4. heap[walk[u].cur.node].next.bit = 1 /\ walk[u].cur.node # NIL
          => heap'[walk[u].cur.node].next = heap[walk[u].cur.node].next
    BY <1>0, <1>2 DEF Marked
  <2>5. \A n : Link(n, 1).bit = 1
    BY LinkParts
  <2> QED BY <1>0, <1>1, <2>1, <2>2, <2>3, <2>4, <2>5 DEF StopAt
<1> QED BY <1>3, <1>4, <1>5

(* The dummy node a walk starts from comes before what it looks for.       *)
LEMMA StartBefore ==
  ASSUME Sound, ZeroState, ListState, NEW t \in Threads, pc[t] \in Searching
  PROVE  DummyCode(FindBucket(t)) < SoughtCode(t)
<1>0. TodoAt(t) /\ BucketAt(t) /\ ZeroTodo(t) /\ call[t].key \in Nat
  BY LocalTypes DEF Sound, ListState, ListAt, SoughtAt, ZeroState, ZeroAt
<1>1. CASE Initializing(t)
  <2>1. Head(task[t].todo) = task[t].todo[1] /\ 1 \in DOMAIN task[t].todo
    BY <1>0, <1>1, HeadNotZero, LocalTypes DEF Sound, Initializing
  <2>2. Head(task[t].todo) \in 1 .. (Half - 1)
    BY <1>0, <2>1 DEF TodoAt
  <2> QED BY <1>1, <2>2, ParentBefore DEF FindBucket, SoughtCode
<1>2. CASE ~Initializing(t)
  <2>1. PICK j \in 0 .. (Width - 1) : call[t].bucket = Hash(call[t].key) % 2 ^ j
    BY <1>0 DEF BucketAt, Seeking
  <2>2. Hash(call[t].key) \in Nat
    BY <1>0, CodeTypes
  <2> QED BY <1>2, <2>1, <2>2, StartBeforeKey DEF FindBucket, SoughtCode
<1> QED BY <1>1, <1>2

(* A walk that goes on past a node is behind it.                           *)
LEMMA GoesOn ==
  ASSUME Sound, ZeroState, ListState, NEW t \in Threads, pc[t] = "verify",
         LeadsTo(walk[t].prev, walk[t].cur.node), CurCode(t) <= SoughtCode(t), ~HoldsSought(t)
  PROVE  Behind(walk[t].cur.node, SoughtCode(t), SoughtKey(t))
<1> DEFINE c == walk[t].cur.node
           p == walk[t].prev.ix
           code == SoughtCode(t)
           key == SoughtKey(t)
<1>0. /\ c # NIL /\ c \in Shared /\ heap[c].code <= code /\ StartAt(t) /\ BehindAt(t)
      /\ walk[t].prev.tb = 0 => p \in Shared
      /\ Shared \in SUBSET Node /\ Closed(heap, Shared) /\ Increasing(heap, Shared)
      /\ \A n \in Shared : heap[n].code \in Int
      /\ code \in Int /\ 1 \in Shared
  BY OwnTypes, SoughtCodes, WordIsPower
     DEF Sound, Control, ControlAt, NoDangling, Target, Closed, ListState, ListAt, Sorted, Increasing,
         TypeOK, NodeType, CurCode, ZeroState, ZeroNode
<1>1. c \notin Holding(heap, Shared, code, key)
  BY <1>0 DEF Holding, HoldsSought, CurCode, CurKey
<1>2. From(heap, c) = {c} \cup After(heap, c)
  BY <1>0, FromSplits
<1>3. CASE walk[t].prev.tb = 0
  <2>1. heap[p].next.node = c /\ heap[p].next.bit = 0
    BY <1>3, LinkParts DEF LeadsTo, Load
  <2>2. Holding(heap, Shared, code, key) \subseteq After(heap, p)
    BY <1>0, <1>3, <2>1 DEF BehindAt, Behind, Marked, Stepping
  <2>3. After(heap, p) = From(heap, c)
    BY <1>0, <2>1 DEF After
  <2> QED BY <1>0, <1>1, <1>2, <2>2, <2>3 DEF Behind
<1>4. CASE walk[t].prev.tb # 0
  <2>1. IsDummy(c, FindBucket(t))
    BY <1>4, <1>0 DEF StartAt, Stepping
  <2>2. heap[c].code < code /\ ~Marked(c)
    <3>1. heap[c].code < code
      BY <2>1, StartBefore DEF IsDummy, Searching
    <3>2. FindBucket(t) \in Nat
      <4>1. Initializing(t) => Head(task[t].todo) \in Nat
        BY HeadNotZero DEF ZeroState, ZeroAt
      <4> QED BY <4>1, LocalTypes, CodeTypes DEF FindBucket, Sound
    <3>3. ~IsRegular(heap[c].code)
      BY <2>1, <3>2, CodeKinds DEF IsDummy
    <3>4. heap[c].code # RegularCode(Hash(heap[c].key))
      <4>1. Hash(heap[c].key) \in Nat
        BY <1>0, CodeTypes DEF Sound, TypeOK, NodeType
      <4> QED BY <3>3, <4>1, CodeKinds
    <3> QED BY <1>0, <3>1, <3>4 DEF ListState, NodeShape
  <2>3. ASSUME NEW x \in Holding(heap, Shared, code, key) PROVE x \in After(heap, c)
    <3>1. x \in Shared /\ x \in From(heap, 1) /\ c \in From(heap, 1) /\ heap[x].code = code
      BY <1>0, <2>2, <2>3 DEF Holding, Marked, ListState, Connected
    <3>2. c \notin From(heap, x)
      <4> SUFFICES ASSUME c \in From(heap, x) PROVE FALSE
        OBVIOUS
      <4>1. heap[x].code <= heap[c].code
        BY <1>0, <3>1, FromCodes
      <4> QED BY <1>0, <2>2, <3>1, <4>1
    <3>3. x \in From(heap, c)
      BY <1>0, <3>1, <3>2, FromOrder
    <3> QED BY <1>1, <1>2, <2>3, <3>3
  <2> QED BY <1>0, <2>3 DEF Behind
<1> QED BY <1>3, <1>4

(* A walk reads the slot of its bucket, and the dummy node there.          *)
LEMMA StartStep ==
  ASSUME Sound, ZeroState, ListState, Undisturbed, NEW t \in Threads,
         FindReadTable(t) \/ FindReadHead(t) \/ FindReadNext(t)
  PROVE  StartAt(t)' /\ BehindAt(t)' /\ StopAt(t)'
<1>0. /\ TypeOK /\ walk[t] \in WalkType /\ walk[t].prev \in SlotType /\ table \in TableId
      /\ StartAt(t) /\ BehindAt(t) /\ StopAt(t)
      /\ UNCHANGED <<heap, live, call, task>>
      /\ walk[t].cur.node # NIL => walk[t].cur.node \in Shared
      /\ NIL \notin Shared
  BY LocalTypes, OwnTypes DEF Sound, ListState, ListAt, FindReadTable, FindReadHead, FindReadNext,
     NoDangling, Target, TypeOK
<1>1. /\ FindBucket(t)' = FindBucket(t) /\ SoughtKey(t)' = SoughtKey(t)
      /\ SoughtCode(t)' = SoughtCode(t) /\ Shared' = Shared
  BY <1>0 DEF FindBucket, SoughtKey, SoughtCode, Initializing, Shared, Own
<1> USE DEF Goto, Stepping
<1>2. CASE FindReadTable(t)
  <2>1. pc'[t] = "head" /\ walk'[t].prev = Slot(table, FindBucket(t))
    BY <1>0, <1>2 DEF FindReadTable, TypeOK, WalkType
  <2>2. walk'[t].prev.tb # 0 /\ walk'[t].prev.ix = FindBucket(t)
    BY <1>0, <2>1 DEF Slot, TableId
  <2> QED BY <1>1, <2>1, <2>2 DEF StartAt, BehindAt, StopAt
<1>3. CASE FindReadHead(t)
  <2>1. /\ pc[t] = "head" /\ pc'[t] = "next" /\ walk'[t].cur = Load(walk[t].prev)
        /\ walk'[t].prev = walk[t].prev /\ Load(walk[t].prev).node # NIL
    BY <1>0, <1>3 DEF FindReadHead, TypeOK, WalkType, Undisturbed
  <2>2. /\ walk[t].prev.tb \in TableId /\ walk[t].prev.ix = FindBucket(t) /\ walk[t].prev.tb # 0
        /\ walk[t].prev.ix \in DOMAIN tables[walk[t].prev.tb]
        /\ Load(walk[t].prev) = tables[walk[t].prev.tb][walk[t].prev.ix]
    BY <1>0, <1>3, <2>1 DEF StartAt, SlotType, FindReadHead, InBounds, Load
  <2>3. Load(walk[t].prev).bit = 0 /\ IsDummy(Load(walk[t].prev).node, FindBucket(t))
    BY <2>1, <2>2 DEF ListState, SlotsLead, ZeroState, ZeroSlots
  <2> QED BY <1>0, <1>1, <2>1, <2>2, <2>3 DEF StartAt, BehindAt, StopAt, IsDummy
<1>4. CASE FindReadNext(t)
  <2>1. pc[t] = "next"
    BY <1>4 DEF FindReadNext
  <2>2. CASE walk[t].cur.node = NIL
    <3>1. pc'[t] = "found" /\ walk' = walk
      BY <1>0, <1>4, <2>2 DEF FindReadNext, TypeOK
    <3>2. walk[t].prev.tb = 0
      BY <1>0, <2>1, <2>2 DEF StartAt, IsDummy
    <3> QED BY <1>0, <1>1, <2>1, <2>2, <3>1, <3>2 DEF StartAt, BehindAt, StopAt, Behind, Marked
  <2>3. CASE walk[t].cur.node # NIL
    <3>1. /\ pc'[t] = "verify" /\ walk'[t].nxt = heap[walk[t].cur.node].next
          /\ walk'[t].cur = walk[t].cur /\ walk'[t].prev = walk[t].prev
      BY <1>0, <1>4, <2>3 DEF FindReadNext, TypeOK, WalkType
    <3>2. ASSUME walk[t].prev.tb # 0 PROVE heap[walk[t].cur.node].next.bit = 0
      <4>1. IsDummy(walk[t].cur.node, FindBucket(t))
        BY <1>0, <2>1, <3>2 DEF StartAt
      <4>2. FindBucket(t) \in Nat
        <5>1. Initializing(t) => Head(task[t].todo) \in Nat
          BY HeadNotZero DEF ZeroState, ZeroAt
        <5> QED BY <5>1, LocalTypes, CodeTypes DEF FindBucket, Sound
      <4>3. ~IsRegular(heap[walk[t].cur.node].code) /\ walk[t].cur.node \in Node
        BY <4>1, <4>2, CodeKinds, OwnTypes DEF IsDummy, Sound
      <4>4. Hash(heap[walk[t].cur.node].key) \in Nat
        BY <4>3, CodeTypes DEF Sound, TypeOK, NodeType
      <4>5. ~Marked(walk[t].cur.node)
        BY <4>1, <4>3, <4>4, CodeKinds DEF ListState, NodeShape, IsDummy
      <4> QED BY <4>3, <4>5 DEF Marked, Sound, TypeOK, NodeType, LinkType
    <3> QED BY <1>0, <1>1, <2>1, <3>1, <3>2 DEF StartAt, BehindAt, StopAt, Behind, Marked, IsDummy
  <2> QED BY <2>2, <2>3
<1> QED BY <1>2, <1>3, <1>4

(* It decides at the node whether to unlink, to stop or to go on.          *)
LEMMA VerifyStep ==
  ASSUME Sound, ZeroState, ListState, ReadsRight, NEW t \in Threads, FindVerify(t)
  PROVE  StartAt(t)' /\ BehindAt(t)' /\ StopAt(t)'
<1> DEFINE c == walk[t].cur.node
<1>0. /\ TypeOK /\ walk[t] \in WalkType /\ walk[t].cur.bit \in {0, 1} /\ walk[t].nxt.bit \in {0, 1}
      /\ StartAt(t) /\ BehindAt(t) /\ StopAt(t) /\ pc[t] = "verify" /\ pc[t] \in Searching
      /\ UNCHANGED <<heap, live, call, task>>
      /\ c # NIL /\ c \in Shared
  BY LocalTypes DEF Sound, ListState, ListAt, FindVerify, NoDangling, Target, Control, ControlAt,
     Searching, WalkType, LinkType
<1>1. /\ FindBucket(t)' = FindBucket(t) /\ SoughtKey(t)' = SoughtKey(t)
      /\ SoughtCode(t)' = SoughtCode(t) /\ Shared' = Shared
  BY <1>0 DEF FindBucket, SoughtKey, SoughtCode, Initializing, Shared, Own
<1>2. CurCode(t) \in Int /\ SoughtCode(t) \in Int
  BY <1>0, OwnTypes, SoughtCodes, WordIsPower DEF Sound, TypeOK, NodeType, CurCode
<1> USE DEF Goto, Stepping
<1>3. CASE pc'[t] = "find"
  BY <1>3 DEF StartAt, BehindAt, StopAt
<1>4. CASE walk[t].nxt.bit = 1 /\ pc'[t] = "unlink" /\ walk' = walk
  BY <1>0, <1>1, <1>4 DEF StartAt, BehindAt, StopAt, Behind, Marked
<1>5. CASE TRUE \in StopsHere(t) /\ pc'[t] = "found" /\ walk' = walk
  <2>1. CurCode(t) > SoughtCode(t) \/ (walk[t].cur.bit = 0 /\ HoldsSought(t))
    <3>1. CASE walk[t].cur.bit = 1
      BY <1>0, <1>5, <3>1 DEF ReadsRight
    <3>2. CASE walk[t].cur.bit = 0
      <4> DEFINE B == CurCode(t) > SoughtCode(t) \/ HoldsSought(t)
      <4>0. walk[t].cur.bit # 1
        BY <3>2
      <4>1. TRUE \in {B}
        BY <1>5, <4>0, Zenon DEF StopsHere
      <4>2. B
        BY <4>1, Zenon
      <4> QED BY <3>2, <4>2
    <3> QED BY <1>0, <3>1, <3>2
  <2>2. walk[t].prev.tb = 0
    <3> SUFFICES ASSUME walk[t].prev.tb # 0 PROVE FALSE
      OBVIOUS
    <3>1. CurCode(t) = DummyCode(FindBucket(t))
      BY <1>0 DEF StartAt, IsDummy, CurCode
    <3>2. CurCode(t) < SoughtCode(t)
      BY <1>0, <3>1, StartBefore
    <3> QED BY <1>2, <2>1, <3>2 DEF HoldsSought
  <2>3. CurCode(t)' = CurCode(t) /\ HoldsSought(t)' = HoldsSought(t)
    BY <1>0, <1>1, <1>5 DEF CurCode, CurKey, HoldsSought
  <2> QED BY <1>0, <1>1, <1>5, <2>1, <2>2, <2>3 DEF StartAt, BehindAt, StopAt, Behind, Marked
<1>6. CASE /\ FALSE \in StopsHere(t) /\ pc'[t] = "next" /\ LeadsTo(walk[t].prev, c)
           /\ walk' = [walk EXCEPT ![t].prev = NextOf(c), ![t].cur = walk[t].nxt]
  <2>1. CurCode(t) <= SoughtCode(t) /\ ~HoldsSought(t)
    <3>1. CASE walk[t].cur.bit = 1
      BY <1>0, <1>6, <3>1 DEF ReadsRight
    <3>2. CASE walk[t].cur.bit = 0
      <4> DEFINE B == CurCode(t) > SoughtCode(t) \/ HoldsSought(t)
      <4>0. walk[t].cur.bit # 1
        BY <3>2
      <4>1. FALSE \in {B}
        BY <1>6, <4>0, Zenon DEF StopsHere
      <4>2. ~B
        BY <4>1, Zenon
      <4> QED BY <1>2, <4>2
    <3> QED BY <1>0, <3>1, <3>2
  <2>2. Behind(c, SoughtCode(t), SoughtKey(t))
    BY <1>0, <1>6, <2>1, GoesOn
  <2>3. walk'[t].prev = NextOf(c)
    BY <1>0, <1>6 DEF TypeOK, WalkType
  <2>4. walk'[t].prev.tb = 0 /\ walk'[t].prev.ix = c
    BY <2>3 DEF NextOf
  <2> QED BY <1>0, <1>1, <1>6, <2>2, <2>4 DEF StartAt, BehindAt, StopAt, Behind, Marked
<1> QED BY <1>0, <1>3, <1>4, <1>5, <1>6 DEF FindVerify, TypeOK

(* It unlinks a node, prepares one to link it, or goes back to the start.  *)
LEMMA RestStep ==
  ASSUME Sound, ZeroState, ListState, NEW t \in Threads, Progress(t) \/ Begin(t),
         ~(FindReadTable(t) \/ FindReadHead(t) \/ FindReadNext(t) \/ FindVerify(t))
  PROVE  StartAt(t)' /\ BehindAt(t)' /\ StopAt(t)'
<1> DEFINE p == walk[t].prev.ix
           c == walk[t].cur.node
<1>0. /\ TypeOK /\ walk[t] \in WalkType /\ pc[t] \in Labels /\ walk[t].nxt \in LinkType
      /\ StartAt(t) /\ BehindAt(t) /\ StopAt(t)
      /\ walk[t].prev.tb = 0 => p \in Shared
      /\ c # NIL => c \in Shared
      /\ SoughtCode(t) \in Int /\ ControlAt(t)
  BY LocalTypes, SoughtCodes DEF Sound, ListState, ListAt, NoDangling, Target, WalkType, Control
<1>1. ASSUME walk[t].prev.tb = 0, Behind(p, SoughtCode(t), SoughtKey(t))
      PROVE  /\ heap'[p].code <= SoughtCode(t)
             /\ heap'[p].next.bit = 1 \/ Holding(heap', Shared', SoughtCode(t), SoughtKey(t)) \subseteq After(heap', p)
  BY <1>0, <1>1, BehindStays
<1>2. ASSUME UNCHANGED <<call, task>>
      PROVE  /\ FindBucket(t)' = FindBucket(t) /\ SoughtKey(t)' = SoughtKey(t)
             /\ SoughtCode(t)' = SoughtCode(t)
  BY <1>2 DEF FindBucket, SoughtKey, SoughtCode, Initializing
<1> USE DEF Goto, Stepping
<1>3. CASE pc'[t] \notin Stepping \cup {"head", "mark", "detach"}
  BY <1>3 DEF StartAt, BehindAt, StopAt
<1>4. CASE FindUnlink(t) /\ pc'[t] = "next"
  <2>1. /\ walk[t].prev.tb = 0 /\ Behind(p, SoughtCode(t), SoughtKey(t))
        /\ walk'[t].prev = walk[t].prev /\ UNCHANGED <<call, task>>
    BY <1>0, <1>4 DEF FindUnlink, StartAt, BehindAt, TypeOK, WalkType
  <2> QED BY <1>1, <1>2, <1>4, <2>1 DEF StartAt, BehindAt, StopAt, Behind, Marked
<1>5. CASE InsertPrepare(t)
  <2>1. /\ walk[t].prev.tb = 0 /\ Behind(p, SoughtCode(t), SoughtKey(t))
        /\ walk' = walk /\ UNCHANGED <<call, task>> /\ pc'[t] = "link"
    BY <1>0, <1>5 DEF InsertPrepare, StartAt, BehindAt, TypeOK, locals
  <2>2. c # NIL => CurCode(t) > SoughtCode(t)
    BY <1>0, <1>5 DEF InsertPrepare, ResultMatches, StopAt
  <2>3. c # NIL => CurCode(t)' = CurCode(t)
    BY <1>0, <2>1, ListNodesStay DEF CurCode
  <2> QED BY <1>1, <1>2, <2>1, <2>2, <2>3 DEF StartAt, BehindAt, StopAt, Behind, Marked
<1>6. CASE DeleteHit(t)
  BY <1>0, <1>6 DEF DeleteHit, StartAt, BehindAt, StopAt, TypeOK, locals
<1>7. CASE DeleteMark(t) /\ pc'[t] = "detach"
  <2>1. walk' = walk /\ pc[t] = "mark" /\ Marking(t) /\ walk[t].prev.tb = 0
    <3>1. ~Steady
      <4>1. hz[t][0].id = walk[t].nxt.node /\ c # NIL
        BY <1>0, <1>7 DEF DeleteMark, ControlAt, HasSuccessor
      <4>2. c \in Shared /\ heap[c].next.bit = 0 /\ heap'[c].next.bit = 1
        BY <1>0, <1>7, <4>1, OwnTypes DEF DeleteMark, LeadsTo, Load, NextOf, Link, Sound, TypeOK, NodeType
      <4> QED BY <4>2 DEF Steady
    <3>2. Marking(t)
      BY <1>7, <3>1, StepKinds DEF DeleteMark, Linking, InsertLink, Unlinking, FindUnlink, DeleteDetach,
         InitPublish, Resize, ResizeAlloc, ResizeCopy, ResizeGrow, ResizeSwap
    <3> QED BY <1>0, <1>7, <3>2 DEF DeleteMark, StartAt, locals
  <2>2. heap'[c].next = Link(walk[t].nxt.node, 1)
    <3>1. c \in Shared /\ heap' = [heap EXCEPT ![c].next = Link(walk[t].nxt.node, 1)]
      BY <2>1, MarkEffect
    <3> QED BY <3>1, OwnTypes DEF Sound, TypeOK, NodeType
  <2> QED BY <1>7, <2>1, <2>2 DEF StartAt, BehindAt, StopAt
<1>8. CASE Fault(t)
  <2>1. /\ UNCHANGED <<heap, live, call, task, walk, pc>>
    BY <1>8 DEF Fault, OutOfBounds, WildRead, locals
  <2>2. UNCHANGED Shared
    BY <2>1 DEF Shared, Own
  <2> QED BY <1>0, <2>1, <2>2, <1>2 DEF StartAt, BehindAt, StopAt, Behind, Marked, IsDummy,
     CurCode, CurKey, HoldsSought
<1>9. CASE Begin(t) \/ BucketInit(t) \/ CheckBucket(t)
  <2>1. pc'[t] \notin Stepping \cup {"head", "mark", "detach"}
    BY <1>0, <1>9 DEF Begin, BeginInsert, BeginLookup, BucketInit, InitCheckParent, InitAlloc, InitFoundDummy,
       InitReload, InitPublish, CheckBucket, TypeOK
  <2> QED BY <1>3, <2>1
<1>10. CASE Insert(t) /\ ~InsertPrepare(t)
  <2>1. pc'[t] \notin Stepping \cup {"head", "mark", "detach"}
    BY <1>0, <1>10 DEF Insert, InsertReadSize, InsertLink, InsertFoundKey, InsertLoadSize, InsertCount, Return, TypeOK
  <2> QED BY <1>3, <2>1
<1>11. CASE Resize(t) \/ Lookup(t)
  <2>1. pc'[t] \notin Stepping \cup {"head", "mark", "detach"}
    BY <1>0, <1>11 DEF Resize, ResizeAlloc, ResizeCopy, ResizeGrow, ResizeSwap, Return, TypeOK,
       Lookup, LookupReadTable, FindMiss, FindHit, FindValue
  <2> QED BY <1>3, <2>1
<1>12. CASE DeleteDetach(t) \/ DeleteUncount(t) \/ DeleteTake(t) \/ DeleteErase(t)
  <2>1. pc'[t] \notin Stepping \cup {"head", "mark", "detach"}
    BY <1>0, <1>12 DEF DeleteDetach, DeleteUncount, DeleteTake, DeleteErase, Return, TypeOK
  <2> QED BY <1>3, <2>1
<1>13. CASE FindUnlink(t) \/ DeleteMark(t)
  BY <1>0, <1>3, <1>4, <1>7, <1>13 DEF FindUnlink, DeleteMark, TypeOK
<1> QED
  BY <1>5, <1>6, <1>8, <1>9, <1>10, <1>11, <1>12, <1>13 DEF Progress, ListFind, Delete

LEMMA ListStep ==
  ASSUME Sound, ZeroState, ListState, Undisturbed, size' <= Half, ReadsRight,
         NEW t \in Threads, Progress(t) \/ Begin(t)
  PROVE  ListState'
<1>1. ListAt(t)'
  <2>1. SoughtAt(t)'
    BY BucketStep, TodoStep, MadeStep, ResultStep DEF SoughtAt
  <2>2. StartAt(t)' /\ BehindAt(t)' /\ StopAt(t)'
    BY StartStep, VerifyStep, RestStep
  <2> QED BY <2>1, <2>2 DEF ListAt
<1>2. ASSUME NEW u \in Threads \ {t} PROVE ListAt(u)'
  <2>1. call'[u] = call[u] /\ task'[u] = task[u] /\ pc'[u] = pc[u]
    BY OthersStay DEF Sound
  <2>2. BucketAt(u)' /\ TodoAt(u)'
    BY <2>1 DEF ListState, ListAt, SoughtAt, BucketAt, TodoAt
  <2>3. SoughtAt(u)'
    BY <2>2, MadeStep, ResultStep DEF SoughtAt
  <2> QED BY <2>3, WalkOthers DEF ListAt
<1>3. Sizes(size)'
  BY SizesStep
<1> QED
  BY <1>1, <1>2, <1>3, NodeShapeStep, SlotsLeadStep, ConnectedStep, SortedStep, DistinctStep
     DEF ListState

LEMMA InitList == Init => ListState
<1> SUFFICES ASSUME Init PROVE ListState
  OBVIOUS
<1>1. /\ \A t \in Threads : /\ pc[t] = "idle" /\ task[t].todo = <<>> /\ Own(t) = {}
                            /\ call[t].mine = NIL /\ task[t].dummy = NIL
      /\ 1 \in Node
  BY ConstantsAssumption DEF Init, NoTask, NoArgs, Own, Node
<1>2. Shared = {1}
  BY <1>1 DEF Init, Shared
<1>3. ZeroState
  BY InitZero
<1>4. heap[1].code = 0 /\ heap[1].key = 0 /\ ~Marked(1) /\ heap[1].next.node = NIL
  BY <1>1, <1>3 DEF ZeroState, ZeroNode, Init, Blank, Null, Link
<1>5. Sizes(size)
  BY SizeAssumption DEF Init, Sizes
<1>6. NodeShape /\ Sorted /\ Distinct
  <2>1. 0 \in 0 .. (Half - 1)
    BY CodeTypes
  <2> QED BY <1>2, <1>4, <2>1, DummyZero DEF NodeShape, Sorted, Distinct
<1>7. Connected
  BY <1>1, <1>2 DEF Connected, From
<1>8. SlotsLead
  <2> SUFFICES ASSUME NEW a \in TableId, NEW b \in DOMAIN tables[a], tables[a][b].node # NIL
               PROVE  IsDummy(tables[a][b].node, b)
    BY DEF SlotsLead
  <2>1. tables[a] = IF a = 1 THEN [i \in 0 .. (InitSize - 1) |-> IF i = 0 THEN Link(1, 0) ELSE Null]
                              ELSE NoSlots
    BY DEF Init
  <2>2. DOMAIN NoSlots = {}
    BY DEF NoSlots
  <2>3. a = 1 /\ b \in 0 .. (InitSize - 1)
    BY <2>1, <2>2
  <2>4. tables[a][b] = IF b = 0 THEN Link(1, 0) ELSE Null
    BY <2>1, <2>3
  <2>5. b = 0 /\ tables[a][b].node = 1
    BY <2>4, LinkParts DEF Null
  <2> QED BY <1>2, <1>4, <2>5, DummyZero DEF IsDummy
<1>9. \A t \in Threads : ListAt(t)
  BY <1>1 DEF ListAt, SoughtAt, BucketAt, TodoAt, MadeAt, ResultAt, StartAt, BehindAt, StopAt,
     Seeking, InInit, Searching, Stepping
<1> QED BY <1>5, <1>6, <1>7, <1>8, <1>9 DEF ListState

(* What the runs check of the list.                                        *)
ListSafe == Sorted /\ NoDuplicates /\ SlotsHoldDummies /\ Reachable /\ DestroyFreesList

LEMMA ListIsSafe ==
  ASSUME Sound, ZeroState, ListState
  PROVE  ListSafe
<1>1. NoDuplicates
  <2> SUFFICES ASSUME NEW m \in Present, NEW n \in Present, heap[m].key = heap[n].key PROVE m = n
    BY DEF NoDuplicates
  <2>1. ASSUME NEW x \in Present PROVE x \in Shared /\ ~Marked(x) /\ heap[x].code = RegularCode(Hash(heap[x].key))
    <3>1. x \in Shared /\ ~Marked(x) /\ IsRegular(heap[x].code)
      BY <2>1 DEF Present
    <3>2. heap[x].key \in 0 .. (Half - 1) => ~IsRegular(DummyCode(heap[x].key))
      BY CodeKinds
    <3> QED BY <3>1, <3>2 DEF ListState, NodeShape
  <2>2. heap[m].code = heap[n].code
    BY <2>1
  <2> QED BY <2>1, <2>2 DEF ListState, Distinct
<1>2. SlotsHoldDummies
  BY DEF SlotsHoldDummies, ListState, SlotsLead, IsDummy, Sound, TypeOK
<1>3. Reachable
  BY ListReached DEF Reachable, ListState, Connected
<1>4. DestroyFreesList
  BY DEF DestroyFreesList, Sound
<1> QED BY <1>1, <1>2, <1>3, <1>4 DEF ListSafe, ListState

(* hashtable_destroy is called when every call has returned, so that every *)
(* node is shared, and its walk meets all those that are not deleted.      *)
LEMMA DestroyStep ==
  ASSUME Sound, ZeroState, ListState, NEW t \in Threads, Destroy(t)
  PROVE  ListSafe'
<1>0. /\ UNCHANGED <<heap, call, task, table>> /\ live' = live \ OnList /\ status' = "destroyed"
      /\ tables' = [tables EXCEPT ![table] = NoSlots] /\ table \in TableId /\ TypeOK /\ ListSafe
  BY ListIsSafe DEF Destroy, locals, Sound, TypeOK
<1>1. \A u \in Threads : Own(u) = {} /\ Own(u)' = {}
  <2>1. \A u \in Threads : call[u].mine = NIL /\ task[u].dummy = NIL
    BY DEF Destroy, Sound, Ownership, OwnAt, Unlinked, Searching, InInit
  <2> QED BY <1>0, <2>1 DEF Own
<1>2. Shared = live /\ Shared' = live'
  BY <1>1 DEF Shared
<1>3. Sorted'
  BY <1>0, <1>2 DEF ListSafe, Sorted
<1>4. NoDuplicates'
  BY <1>0, <1>2 DEF ListSafe, NoDuplicates, Present, Marked
<1>5. SlotsHoldDummies'
  <2>1. tables'[table'] = NoSlots
    BY <1>0 DEF TypeOK
  <2> QED BY <2>1 DEF SlotsHoldDummies, NoSlots
<1>6. DestroyFreesList'
  BY <1>0, <1>2 DEF ListSafe, Reachable, DestroyFreesList, Marked, Sound
<1>7. Reachable'
  BY <1>0 DEF Reachable
<1> QED BY <1>3, <1>4, <1>5, <1>6, <1>7 DEF ListSafe

LEMMA ListUnchanged ==
  ASSUME ListState, UNCHANGED vars
  PROVE  ListState'
<1>1. UNCHANGED <<size, tables, heap, pc, call, walk, task, Shared>>
  BY DEF vars, locals, Shared, Own
<1> QED
  BY <1>1
     DEF ListState, Sizes, NodeShape, SlotsLead, Connected, Sorted, Distinct, ListAt, SoughtAt,
         StartAt, BehindAt, StopAt, BucketAt, TodoAt, MadeAt, ResultAt, IsDummy, Behind, Marked,
         CurCode, CurKey, HoldsSought, SoughtCode, SoughtKey, FindBucket, Initializing

(* Only a fault and hashtable_destroy end the run.                         *)
LEMMA StepsRun ==
  ASSUME status = "running", NEW t \in Threads, Progress(t) \/ Begin(t), ~Fault(t)
  PROVE  status' = "running"
BY DEF Begin, BeginInsert, BeginLookup, Progress, BucketInit, ListFind, Insert, Resize, Lookup, Delete,
   CheckBucket, InitCheckParent, InitAlloc, InitFoundDummy, InitReload, InitPublish,
   FindReadTable, FindReadHead, FindReadNext, FindVerify, FindUnlink,
   InsertReadSize, InsertPrepare, InsertLink, InsertFoundKey, InsertLoadSize, InsertCount,
   ResizeAlloc, ResizeCopy, ResizeGrow, ResizeSwap,
   LookupReadTable, FindMiss, FindHit, FindValue,
   DeleteHit, DeleteMark, DeleteDetach, DeleteUncount, DeleteTake, DeleteErase

(* While no defect shows, the list is what it should be.                   *)
LEMMA ListInvariant ==
  Spec /\ []Undisturbed /\ [][ReadsRight]_vars => [](ListSafe /\ (status = "running" => ListState))
<1> DEFINE IInv == IF status = "running" THEN ListState ELSE ListSafe
           Known == (status = "running" => Sound) /\ (status = "running" => ZeroState) /\ Undisturbed
<1>1. Init => IInv
  BY InitList DEF Init
<1>2. Known /\ IInv => ListSafe /\ (status = "running" => ListState)
  BY ListIsSafe
<1>3. Known /\ Known' /\ IInv /\ [Next]_vars /\ [ReadsRight]_vars => IInv'
  <2> SUFFICES ASSUME Known, Known', IInv, [Next]_vars, [ReadsRight]_vars PROVE IInv'
    OBVIOUS
  <2>1. CASE UNCHANGED vars
    <3>1. UNCHANGED <<Shared, Present, OnList>>
      BY <2>1 DEF vars, locals, Shared, Own, Present, Marked, OnList, Walk
    <3>2. CASE status = "running"
      <4>1. status' = "running" /\ ListState
        BY <2>1, <3>2 DEF vars
      <4>2. ListState'
        BY <2>1, <4>1, ListUnchanged
      <4> QED BY <4>1, <4>2
    <3>3. CASE status # "running"
      <4>1. status' # "running" /\ ListSafe
        BY <2>1, <3>3 DEF vars
      <4>2. ListSafe'
        BY <2>1, <3>1, <4>1 DEF vars, ListSafe, Sorted, NoDuplicates, SlotsHoldDummies, Reachable,
           DestroyFreesList, Marked
      <4> QED BY <4>1, <4>2
    <3> QED BY <3>2, <3>3
  <2>2. ASSUME NEW t \in Threads, Progress(t) \/ Begin(t), status = "running" PROVE IInv'
    <3>1. CASE UNCHANGED vars
      BY <2>1, <3>1
    <3>2. CASE Fault(t)
      <4>1. ListSafe
        BY <1>2, <2>2
      <4>2. /\ status' \in {"bounds", "wild"} /\ UNCHANGED <<table, tables, heap, live, call, task>>
        BY <3>2 DEF Fault, OutOfBounds, WildRead, locals
      <4>3. UNCHANGED <<Shared, Present>>
        BY <4>2 DEF Shared, Own, Present, Marked
      <4>4. ListSafe'
        BY <4>1, <4>2, <4>3 DEF ListSafe, Sorted, NoDuplicates, SlotsHoldDummies, Reachable,
           DestroyFreesList, Marked
      <4> QED BY <4>2, <4>4
    <3>3. CASE ~(UNCHANGED vars) /\ ~Fault(t)
      <4>1. ListState'
        BY <2>2, <3>3, ListStep DEF Undisturbed
      <4>2. status' = "running"
        BY <2>2, <3>3, StepsRun
      <4> QED BY <4>1, <4>2
    <3> QED BY <3>1, <3>2, <3>3
  <2>3. ASSUME NEW t \in Threads, Destroy(t), status = "running" PROVE IInv'
    BY <2>3, DestroyStep DEF Destroy
  <2> QED BY <2>1, <2>2, <2>3 DEF Next, Progress
<1> HIDE DEF IInv, Known
<1>4. Spec /\ []Undisturbed /\ [][ReadsRight]_vars => []Known
  BY SoundInvariant, ZeroInvariant, PTL DEF Known
<1> QED BY <1>1, <1>2, <1>3, <1>4, PTL DEF Spec

-----------------------------------------------------------------------------
(* Where some of them cannot show: clients that never delete.               *)

OnlyAdds == \A t \in Threads : "delete" \notin Client[t]

(* Then no link and no local variable carries a mark bit.                  *)
CleanState ==
  /\ \A n \in Node : heap[n].next.bit = 0
  /\ \A t \in Threads : walk[t].cur.bit = 0 /\ walk[t].nxt.bit = 0 /\ call[t].kind # "delete"

LEMMA CleanStep ==
  ASSUME OnlyAdds, Sound, ZeroState, CleanState, NEW t \in Threads, Progress(t) \/ Begin(t)
  PROVE  CleanState' /\ status' # "wild"
<1>0. /\ TypeOK /\ ControlAt(t) /\ walk[t] \in WalkType /\ call[t] \in CallType
      /\ call[t].kind # "delete" /\ pc[t] # "mark" /\ walk[t].cur.bit = 0 /\ walk[t].nxt.bit = 0
      /\ \A n \in Node : heap[n].next.bit = 0
      /\ \A n, b : Link(n, b).bit = b
      /\ status = "running"
  BY LocalTypes, LinkParts DEF Sound, Control, ControlAt, CleanState
<1> USE DEF Goto, locals
<1>1. ASSUME walk'[t].cur.bit = 0, walk'[t].nxt.bit = 0, call'[t].kind # "delete",
             \A n \in Node : heap'[n].next.bit = 0
      PROVE  CleanState'
  BY <1>1, OthersStay DEF Sound, CleanState
<1>2. ASSUME NEW m, NEW link, link.bit = 0, heap' = [heap EXCEPT ![m].next = link]
      PROVE  \A n \in Node : heap'[n].next.bit = 0
  BY <1>0, <1>2 DEF TypeOK, NodeType
<1>3. ASSUME NEW m, NEW x, x.next.bit = 0, heap' = [heap EXCEPT ![m] = x]
      PROVE  \A n \in Node : heap'[n].next.bit = 0
  BY <1>0, <1>3 DEF TypeOK
<1>4. ASSUME NEW p, NEW n, Store(p, Link(n, 0))
      PROVE  \A m \in Node : heap'[m].next.bit = 0
  <2>1. CASE heap' = [heap EXCEPT ![p.ix].next = Link(n, 0)]
    BY <1>0, <1>2, <2>1
  <2> QED BY <1>0, <1>4, <2>1 DEF Store
<1>5. ASSUME UNCHANGED <<call, walk>>
      PROVE  walk'[t].cur.bit = 0 /\ walk'[t].nxt.bit = 0 /\ call'[t].kind # "delete"
  BY <1>0, <1>5
<1>6. ASSUME NEW out, Return(t, out)
      PROVE  walk'[t].cur.bit = 0 /\ walk'[t].nxt.bit = 0 /\ call'[t].kind # "delete"
  BY <1>0, <1>6 DEF Return, NoWalk, NoArgs, Null, TypeOK
<1>7. CASE Begin(t)
  <2>1. walk' = walk /\ call'[t].kind # "delete" /\ status' = status
    BY <1>0, <1>7 DEF Begin, BeginInsert, BeginLookup, TypeOK, OnlyAdds
  <2>2. heap' = heap \/ \E x : x.next = Null /\ heap' = [heap EXCEPT ![NewNode] = x]
    BY <1>7 DEF Begin, BeginInsert, BeginLookup
  <2>3. \A n \in Node : heap'[n].next.bit = 0
    BY <1>0, <1>3, <2>2 DEF Null
  <2> QED BY <1>0, <1>1, <2>1, <2>3
<1>8. CASE BucketInit(t) \/ CheckBucket(t)
  <2>1. UNCHANGED <<call, walk, status>>
    BY <1>8 DEF BucketInit, CheckBucket, InitCheckParent, InitAlloc, InitFoundDummy, InitReload,
       InitPublish
  <2>2. heap' = heap \/ \E m, x : x.next = Null /\ heap' = [heap EXCEPT ![m] = x]
    <3>1. Blank.next = Null
      BY DEF Blank
    <3> QED
      BY <1>8, <3>1 DEF BucketInit, CheckBucket, InitCheckParent, InitAlloc, InitFoundDummy, InitReload,
         InitPublish
  <2>3. ASSUME NEW m, NEW x, x.next = Null, heap' = [heap EXCEPT ![m] = x]
        PROVE  \A n \in Node : heap'[n].next.bit = 0
    <3>1. x.next.bit = 0
      BY <1>0, <2>3 DEF Null
    <3> QED BY <1>3, <2>3, <3>1
  <2>4. \A n \in Node : heap'[n].next.bit = 0
    <3>1. CASE heap' = heap
      BY <1>0, <3>1
    <3>2. CASE \E m, x : x.next = Null /\ heap' = [heap EXCEPT ![m] = x]
      <4>1. PICK m, x : x.next = Null /\ heap' = [heap EXCEPT ![m] = x]
        BY <3>2
      <4> QED BY <2>3, <4>1
    <3> QED BY <2>2, <3>1, <3>2
  <2> QED BY <1>0, <1>1, <1>5, <2>1, <2>4
<1>9. CASE FindReadHead(t)
  <2>1. walk[t].prev.tb \in TableId /\ walk[t].prev.tb # 0 /\ walk[t].prev.ix \in DOMAIN tables[walk[t].prev.tb]
    BY <1>0, <1>9 DEF FindReadHead, ZeroState, ZeroAt, ZeroWalk, WalkType, SlotType, InBounds
  <2>2. Load(walk[t].prev).bit = 0
    BY <2>1 DEF Load, ZeroState, ZeroSlots
  <2>3. /\ walk'[t].cur = Load(walk[t].prev) /\ walk'[t].nxt = walk[t].nxt
        /\ UNCHANGED <<heap, call, status>>
    BY <1>0, <1>9 DEF FindReadHead, TypeOK, WalkType
  <2> QED BY <1>0, <1>1, <2>2, <2>3
<1>10. CASE FindReadTable(t) \/ FindReadNext(t) \/ FindVerify(t)
  <2>1. /\ UNCHANGED <<heap, call, status>>
        /\ walk'[t].cur \in {walk[t].cur, walk[t].nxt}
        /\ \/ walk'[t].nxt = walk[t].nxt
           \/ walk[t].cur.node # NIL /\ walk'[t].nxt = heap[walk[t].cur.node].next
    <3>1. CASE FindReadTable(t)
      BY <1>0, <3>1 DEF FindReadTable, TypeOK, WalkType
    <3>2. CASE FindReadNext(t)
      BY <1>0, <3>2 DEF FindReadNext, TypeOK, WalkType
    <3>3. CASE FindVerify(t)
      <4>1. walk' = walk \/ walk' = [walk EXCEPT ![t].prev = NextOf(walk[t].cur.node), ![t].cur = walk[t].nxt]
        BY <3>3 DEF FindVerify
      <4>2. walk'[t].cur \in {walk[t].cur, walk[t].nxt} /\ walk'[t].nxt = walk[t].nxt
        BY <1>0, <4>1 DEF TypeOK, WalkType
      <4> QED BY <3>3, <4>2 DEF FindVerify
    <3> QED BY <1>10, <3>1, <3>2, <3>3
  <2>2. walk[t].cur.node # NIL => walk[t].cur.node \in Node
    BY <1>0 DEF WalkType, LinkType
  <2> QED BY <1>0, <1>1, <2>1, <2>2
<1>11. CASE FindUnlink(t)
  <2>1. /\ heap' = heap \/ Store(walk[t].prev, Link(walk[t].nxt.node, 0))
        /\ UNCHANGED <<call, status>>
        /\ walk'[t].cur \in {walk[t].cur, walk[t].nxt} /\ walk'[t].nxt = walk[t].nxt
    BY <1>0, <1>11 DEF FindUnlink, TypeOK, WalkType
  <2> QED BY <1>0, <1>1, <1>4, <2>1
<1>12. CASE InsertReadSize(t) \/ InsertLink(t) \/ InsertLoadSize(t) \/ LookupReadTable(t)
  <2>1. /\ heap' = heap \/ Store(walk[t].prev, Link(Inserted(t), 0))
        /\ UNCHANGED <<walk, status>> /\ call'[t].kind = call[t].kind
    BY <1>0, <1>12 DEF InsertReadSize, InsertLink, InsertLoadSize, LookupReadTable, TypeOK, CallType
  <2> QED BY <1>0, <1>1, <1>4, <2>1
<1>13. CASE InsertPrepare(t)
  <2>1. /\ heap' = [heap EXCEPT ![Inserted(t)].next = Link(walk[t].cur.node, 0)]
        /\ UNCHANGED <<call, walk, status>>
    BY <1>13 DEF InsertPrepare
  <2> QED BY <1>0, <1>1, <1>2, <1>5, <2>1
<1>14. CASE InsertFoundKey(t)
  <2>1. heap' = [heap EXCEPT ![call[t].mine] = Blank] /\ Return(t, 0) /\ status' = status
    BY <1>14 DEF InsertFoundKey
  <2> QED BY <1>0, <1>1, <1>3, <1>6, <2>1 DEF Blank, Null
<1>15. CASE InsertCount(t) \/ Resize(t) \/ FindMiss(t) \/ FindHit(t) \/ FindValue(t)
  <2>1. UNCHANGED <<heap, status>> /\ (UNCHANGED <<call, walk>> \/ \E out : Return(t, out))
    BY <1>15 DEF InsertCount, Resize, ResizeAlloc, ResizeCopy, ResizeGrow, ResizeSwap, FindMiss,
       FindHit, FindValue
  <2> QED BY <1>0, <1>1, <1>5, <1>6, <2>1
<1>16. CASE Delete(t)
  <2>1. CASE DeleteDetach(t)
    <3>1. /\ heap' = heap \/ Store(walk[t].prev, Link(hz[t][0].id, 0))
          /\ UNCHANGED <<call, walk, status>>
      BY <2>1 DEF DeleteDetach
    <3> QED BY <1>0, <1>1, <1>4, <1>5, <3>1
  <2>2. CASE DeleteUncount(t) \/ DeleteTake(t)
    <3>1. UNCHANGED <<heap, walk, status>> /\ call'[t].kind = call[t].kind
      BY <1>0, <2>2 DEF DeleteUncount, DeleteTake, TypeOK, CallType
    <3> QED BY <1>0, <1>1, <3>1
  <2>3. CASE DeleteErase(t)
    <3>1. /\ \A n \in Node : heap'[n].next = heap[n].next
          /\ Return(t, call[t].val) /\ status' = status
      BY <1>0, <2>3 DEF DeleteErase, TypeOK, NodeType
    <3> QED BY <1>0, <1>1, <1>6, <3>1
  <2> QED BY <1>0, <1>16, <2>1, <2>2, <2>3 DEF Delete, DeleteHit, DeleteMark
<1>17. CASE Fault(t)
  BY <1>0, <1>1, <1>5, <1>17 DEF Fault, OutOfBounds, WildRead, DerefsMarkedNull
<1> QED
  BY <1>7, <1>8, <1>9, <1>10, <1>11, <1>12, <1>13, <1>14, <1>15, <1>16, <1>17
     DEF Progress, ListFind, Insert, Lookup

(* Clients that only add keys and look for them never mark a node, so that *)
(* no walk reads through a marked pointer: it takes the right turns, and no*)
(* operation reads through the marked null pointer.                        *)
LEMMA CleanInvariant ==
  ASSUME OnlyAdds
  PROVE  Spec => [](status # "wild") /\ [][ReadsRight]_vars
<1> DEFINE IInv == (status = "running" => CleanState) /\ status # "wild"
           Known == (status = "running" => Sound) /\ (status = "running" => ZeroState)
<1>1. Init => IInv
  <2> SUFFICES ASSUME Init PROVE IInv
    OBVIOUS
  <2>1. \A n \in Node : heap[n].next = Null
    BY DEF Init, Blank
  <2> QED BY <2>1, LinkParts DEF Init, CleanState, NoWalk, NoArgs, Null
<1>2. Known /\ IInv /\ [Next]_vars => IInv' /\ [ReadsRight]_vars
  <2> SUFFICES ASSUME Known, IInv, [Next]_vars PROVE IInv' /\ [ReadsRight]_vars
    OBVIOUS
  <2>1. CASE UNCHANGED vars
    BY <2>1 DEF vars, locals, CleanState
  <2>2. CASE Next
    <3>1. status = "running" /\ ReadsRight
      BY <2>2 DEF Next, Progress, ReadsRight, CleanState
    <3>2. ASSUME NEW t \in Threads, Progress(t) \/ Begin(t) PROVE IInv'
      BY <3>1, <3>2, CleanStep
    <3>3. ASSUME NEW t \in Threads, Destroy(t) PROVE IInv'
      BY <3>3 DEF Destroy
    <3> QED BY <2>2, <3>1, <3>2, <3>3 DEF Next
  <2> QED BY <2>1, <2>2
<1> HIDE DEF IInv, Known
<1>3. Spec => []Known
  BY SoundInvariant, ZeroInvariant, PTL DEF Known
<1>4. IInv => status # "wild"
  BY DEF IInv
<1> QED BY <1>1, <1>2, <1>3, <1>4, PTL DEF Spec

-----------------------------------------------------------------------------
(* Where a call is in the bucket array in use, when nothing replaces that  *)
(* array meanwhile: the slots it uses are there, the slot its walk starts  *)
(* from has been filled, and the buckets being initialized are each the    *)
(* parent of the next, up to the one the call needs.                       *)
Filled(b) == b \in 0 .. (size - 1) /\ tables[table][b].node # NIL

ChainAt(t) ==
  task[t].todo # <<>> =>
    /\ task[t].todo[Len(task[t].todo)] = call[t].bucket
    /\ \A i \in 1 .. (Len(task[t].todo) - 1) : task[t].todo[i] = Parent(task[t].todo[i + 1])
    /\ \A i \in 1 .. Len(task[t].todo) : task[t].todo[i] \in 0 .. (size - 1)

PlacedAt(t) ==
  /\ pc[t] \in {"size", "check", "init"} => call[t].tbl = table
  /\ pc[t] \in {"table", "check"} => call[t].bucket \in 0 .. (size - 1)
  /\ pc[t] = "publish" => task[t].dst = table
  /\ pc[t] = "head" => walk[t].prev.tb = table
  /\ pc[t] \in {"alloc", "reload", "publish", "mark"} \cup Searching => Filled(FindBucket(t))
  /\ ChainAt(t)

Whole == DOMAIN tables[table] = 0 .. (size - 1)

(* In an array that is not being replaced a slot, once filled, stays so.   *)
LEMMA FilledStays ==
  ASSUME Sound, ZeroState, ListState, Whole, NEW t \in Threads, Progress(t) \/ Begin(t),
         PlacedAt(t), ~Resize(t)
  PROVE  /\ size' = size /\ table' = table /\ Whole'
         /\ \A b : Filled(b) => Filled(b)'
         /\ \A b : InitPublish(t) /\ b = Head(task[t].todo) => Filled(b)'
<1>0. TypeOK /\ table \in TableId /\ PlacedAt(t) /\ DOMAIN tables[table] = 0 .. (size - 1)
  BY DEF Sound, Whole, TypeOK
<1>2. size' = size /\ table' = table
  BY DEF Begin, BeginInsert, BeginLookup, Progress, BucketInit, ListFind, Insert, Lookup, Delete,
     CheckBucket, InitCheckParent, InitAlloc, InitFoundDummy, InitReload, InitPublish,
     FindReadTable, FindReadHead, FindReadNext, FindVerify, FindUnlink,
     InsertReadSize, InsertPrepare, InsertLink, InsertFoundKey, InsertLoadSize, InsertCount,
     LookupReadTable, FindMiss, FindHit, FindValue,
     DeleteHit, DeleteMark, DeleteDetach, DeleteUncount, DeleteTake, DeleteErase, Fault, OutOfBounds, WildRead
<1>3. CASE InitPublish(t)
  <2> DEFINE b == Head(task[t].todo)
  <2>1. /\ pc[t] = "publish" /\ task[t].dst = table /\ b \in 0 .. (size - 1)
        /\ tables' = [tables EXCEPT ![table][b] = Link(task[t].res, 0)]
    BY <1>0, <1>3 DEF InitPublish, Slot, InBounds, PlacedAt
  <2>2. task[t].res # NIL
    BY <2>1, OwnTypes DEF ListState, ListAt, SoughtAt, ResultAt, IsDummy, Sound
  <2>3. /\ DOMAIN tables'[table] = DOMAIN tables[table] /\ tables'[table][b].node # NIL
        /\ \A i \in DOMAIN tables[table] : i # b => tables'[table][i] = tables[table][i]
    BY <1>0, <2>1, <2>2, LinkParts DEF TypeOK, IsArray
  <2> QED BY <1>0, <1>2, <1>3, <2>1, <2>3 DEF Filled, Whole
<1>4. CASE ~InitPublish(t)
  <2>1. UNCHANGED tables
    BY <1>4, StepKinds, LinkEffect, UnlinkEffect, MarkEffect DEF Steady
  <2> QED BY <1>0, <1>2, <1>4, <2>1 DEF Filled, Whole
<1> QED BY <1>2, <1>3, <1>4

LEMMA TailParts ==
  ASSUME NEW s \in Seq(Nat), s # <<>>
  PROVE  /\ Len(s) \in Nat \ {0} /\ Head(s) = s[1]
         /\ Tail(s) \in Seq(Nat) /\ Len(Tail(s)) = Len(s) - 1
         /\ \A i \in 1 .. (Len(s) - 1) : Tail(s)[i] = s[i + 1]
         /\ Tail(s) = <<>> <=> Len(s) = 1
<1>1. Len(s) \in Nat \ {0} /\ Tail(s) \in Seq(Nat) /\ Len(Tail(s)) = Len(s) - 1
  OBVIOUS
<1>2. Tail(s) = <<>> <=> Len(Tail(s)) = 0
  <2>1. \A x \in Seq(Nat) : x = <<>> <=> Len(x) = 0
    OBVIOUS
  <2> QED BY <1>1, <2>1
<1>3. Len(Tail(s)) = 0 <=> Len(s) = 1
  BY <1>1
<1> QED BY <1>1, <1>2, <1>3

LEMMA Shorter ==
  ASSUME NEW n \in Nat \ {0}
  PROVE  /\ 1 + 1 = 2
         /\ n # 1 => 1 \in 1 .. (n - 1) /\ n - 1 \in 1 .. (n - 1) /\ (n - 1) + 1 = n
         /\ \A i \in 1 .. n : i # 1 => i - 1 \in 1 .. (n - 1) /\ i - 1 \in 1 .. n /\ (i - 1) + 1 = i
         /\ \A i \in 1 .. (n - 2) : i \in 1 .. (n - 1) /\ i + 1 \in 1 .. (n - 1)
OBVIOUS

(* The thread that takes the step.                                         *)
LEMMA PlacedStep ==
  ASSUME Sound, ZeroState, ListState, Whole, NEW t \in Threads, Progress(t) \/ Begin(t),
         PlacedAt(t), ~Resize(t)
  PROVE  PlacedAt(t)'
<1>0. /\ TypeOK /\ PlacedAt(t) /\ ControlAt(t) /\ pc[t] \in Labels
      /\ call[t] \in CallType /\ task[t] \in TaskType /\ task[t].todo \in Seq(Nat) /\ walk[t] \in WalkType
      /\ size \in Nat \ {0} /\ table \in TableId /\ DOMAIN tables[table] = 0 .. (size - 1)
      /\ (Initializing(t) => pc[t] \in InInit \cup Searching)
      /\ (pc[t] \in InInit => Initializing(t))
  BY LocalTypes DEF Sound, TypeOK, Whole, Control, ControlAt
<1>1. size' = size /\ table' = table /\ \A b : Filled(b) => Filled(b)'
  BY FilledStays
<1> DEFINE Walks == {"alloc", "reload", "publish", "mark"} \cup Searching
<1> USE DEF Goto, locals, Searching, InInit
<1>3. ASSUME call'[t].bucket = call[t].bucket, task'[t].todo = task[t].todo,
             pc'[t] \notin {"size", "table", "check", "init"},
             pc'[t] = "publish" => task'[t].dst = table,
             pc'[t] = "head" => walk'[t].prev.tb = table,
             pc'[t] \in Walks => Filled(FindBucket(t))
      PROVE  PlacedAt(t)'
  <2>1. FindBucket(t)' = FindBucket(t)
    BY <1>3 DEF FindBucket, Initializing
  <2> QED BY <1>0, <1>1, <1>3, <2>1 DEF PlacedAt, ChainAt
<1>4. ASSUME NEW out, Return(t, out) PROVE PlacedAt(t)'
  <2>1. pc'[t] = "idle" /\ call'[t] = NoArgs /\ task'[t] = NoTask /\ walk'[t] = NoWalk
    BY <1>0, <1>4 DEF Return, TypeOK
  <2> QED BY <1>0, <2>1 DEF PlacedAt, ChainAt, NoArgs, NoTask, NoWalk, Slot
<1>5. ASSUME NEW h \in Nat PROVE h % size \in 0 .. (size - 1)
  BY <1>0
<1>6. CASE Begin(t) \/ InsertReadSize(t) \/ LookupReadTable(t)
  <2>1. /\ task' = task /\ walk' = walk /\ task[t].todo = <<>> /\ pc'[t] \in {"size", "table", "check"}
    BY <1>0, <1>6 DEF Begin, BeginInsert, BeginLookup, InsertReadSize, LookupReadTable, Initializing, TypeOK
  <2>2. pc'[t] \in {"size", "check"} => call'[t].tbl = table
    BY <1>0, <1>6 DEF Begin, BeginInsert, BeginLookup, InsertReadSize, LookupReadTable, PlacedAt, TypeOK, CallType
  <2>3. pc'[t] \in {"table", "check"} => call'[t].bucket \in 0 .. (size - 1)
    <3>1. CASE \E k \in Keys, v \in Vals : BeginInsert(t, k, v)
      BY <1>0, <3>1 DEF BeginInsert, TypeOK
    <3>2. CASE \E kind \in {"find", "delete"}, k \in Keys : BeginLookup(t, kind, k)
      <4>1. PICK kind \in {"find", "delete"}, k \in Keys : BeginLookup(t, kind, k)
        BY <3>2
      <4>2. Hash(k) \in Nat
        BY CodeTypes, ConstantsAssumption
      <4> QED BY <1>0, <1>5, <4>1, <4>2 DEF BeginLookup, TypeOK
    <3>3. CASE InsertReadSize(t)
      <4>1. Hash(call[t].key) \in Nat
        BY <1>0, CodeTypes DEF CallType
      <4> QED BY <1>0, <1>5, <3>3, <4>1 DEF InsertReadSize, TypeOK, CallType
    <3>4. CASE LookupReadTable(t)
      BY <1>0, <3>4 DEF LookupReadTable, PlacedAt, TypeOK, CallType
    <3> QED BY <1>6, <3>1, <3>2, <3>3, <3>4 DEF Begin
  <2> QED BY <1>0, <1>1, <2>1, <2>2, <2>3 DEF PlacedAt, ChainAt
<1>7. CASE CheckBucket(t)
  <2>0. /\ call'[t] = call[t] /\ walk'[t] = walk[t] /\ call[t].bucket \in Nat
        /\ task[t].todo = <<>> /\ pc[t] = "check"
    BY <1>0, <1>7 DEF CheckBucket, Initializing, CallType
  <2>1. CASE pc'[t] = "init" /\ task' = [task EXCEPT ![t].todo = <<call[t].bucket>>]
    <3>1. task'[t].todo = <<call[t].bucket>> /\ task'[t].dst = task[t].dst
      BY <1>0, <2>1 DEF TypeOK, TaskType
    <3>2. Len(task'[t].todo) = 1 /\ task'[t].todo[1] = call[t].bucket
      BY <2>0, <3>1
    <3>3. \A i \in 1 .. Len(task'[t].todo) : task'[t].todo[i] \in 0 .. (size - 1)
      BY <1>0, <2>0, <3>2 DEF PlacedAt
    <3> QED BY <1>0, <1>1, <2>0, <2>1, <3>1, <3>2, <3>3 DEF PlacedAt, ChainAt
  <2>2. CASE pc'[t] = "find" /\ task' = task /\ Load(Slot(call[t].tbl, call[t].bucket)).node # NIL
    <3>1. Filled(call[t].bucket)
      BY <1>0, <2>0, <2>2 DEF PlacedAt, Load, Slot, Filled, TableId
    <3>2. FindBucket(t) = call[t].bucket
      BY <2>0 DEF FindBucket, Initializing
    <3> QED BY <1>0, <1>3, <2>0, <2>2, <3>1, <3>2 DEF PlacedAt
  <2> QED BY <1>0, <1>7, <2>1, <2>2 DEF CheckBucket, TypeOK
<1>8. CASE InitCheckParent(t)
  <2> DEFINE p == Parent(Head(task[t].todo))
             s == task[t].todo
  <2>0. /\ call' = call /\ walk' = walk /\ s # <<>> /\ Head(s) = s[1] /\ p \in 0 .. (size - 1)
        /\ Len(s) \in Nat \ {0} /\ pc[t] = "init"
    BY <1>0, <1>8 DEF InitCheckParent, Initializing, InBounds, Slot, PlacedAt
  <2>1. CASE pc'[t] = "init" /\ task' = [task EXCEPT ![t].todo = <<p>> \o @]
    <3>1. task'[t].todo = <<p>> \o s /\ task'[t].dst = task[t].dst
      BY <1>0, <2>1 DEF TypeOK, TaskType
    <3>2. p = Parent(s[1]) /\ p \in Nat
      BY <2>0
    <3> HIDE DEF p
    <3>3. /\ Len(task'[t].todo) = Len(s) + 1 /\ task'[t].todo[1] = p
          /\ \A i \in 1 .. Len(s) : task'[t].todo[i + 1] = s[i]
      BY <1>0, <2>0, <3>1, <3>2
    <3>4. task'[t].todo[Len(s) + 1] = call[t].bucket
      <4>1. Len(s) \in 1 .. Len(s)
        BY <2>0
      <4>2. s[Len(s)] = call[t].bucket
        BY <1>0, <2>0 DEF PlacedAt, ChainAt
      <4> QED BY <3>3, <4>1, <4>2
    <3>5. ASSUME NEW i \in 1 .. Len(s) PROVE task'[t].todo[i] = Parent(task'[t].todo[i + 1])
      <4>1. CASE i = 1
        BY <2>0, <3>2, <3>3, <4>1
      <4>2. CASE i # 1
        <5>0. i - 1 \in 1 .. (Len(s) - 1) /\ i - 1 \in 1 .. Len(s) /\ (i - 1) + 1 = i
          BY <2>0, <4>2, Shorter
        <5>1. task'[t].todo[i] = s[i - 1] /\ task'[t].todo[i + 1] = s[i]
          <6>1. task'[t].todo[(i - 1) + 1] = s[i - 1]
            BY <3>3, <5>0
          <6> QED BY <3>3, <5>0, <6>1
        <5>2. s[i - 1] = Parent(s[(i - 1) + 1])
          BY <1>0, <2>0, <5>0 DEF PlacedAt, ChainAt
        <5> QED BY <5>0, <5>1, <5>2
      <4> QED BY <4>1, <4>2
    <3>6. ASSUME NEW i \in 1 .. (Len(s) + 1) PROVE task'[t].todo[i] \in 0 .. (size - 1)
      <4>1. CASE i = 1
        BY <2>0, <3>2, <3>3, <4>1 DEF p
      <4>2. CASE i # 1
        <5>1. i - 1 \in 1 .. Len(s) /\ (i - 1) + 1 = i
          BY <2>0, <4>2, Shorter
        <5>2. task'[t].todo[(i - 1) + 1] = s[i - 1] /\ s[i - 1] \in 0 .. (size - 1)
          BY <1>0, <2>0, <3>3, <5>1 DEF PlacedAt, ChainAt
        <5> QED BY <5>1, <5>2
      <4> QED BY <4>1, <4>2
    <3>7. Len(task'[t].todo) - 1 = Len(s) /\ Len(task'[t].todo) = Len(s) + 1
      BY <2>0, <3>3
    <3>8. ChainAt(t)'
      BY <1>1, <2>0, <3>4, <3>5, <3>6, <3>7 DEF ChainAt
    <3> QED BY <1>0, <1>1, <2>0, <2>1, <3>1, <3>8 DEF PlacedAt
  <2>2. CASE pc'[t] = "alloc" /\ task' = task /\ Load(Slot(call[t].tbl, p)).node # NIL
    <3>1. Filled(p)
      BY <1>0, <2>0, <2>2 DEF PlacedAt, Load, Slot, Filled, TableId
    <3>2. FindBucket(t) = p
      BY <2>0 DEF FindBucket, Initializing
    <3> QED BY <1>0, <1>3, <2>0, <2>2, <3>1, <3>2 DEF PlacedAt
  <2> QED BY <1>0, <1>8, <2>1, <2>2 DEF InitCheckParent, TypeOK
<1>9. CASE InitAlloc(t) \/ InitFoundDummy(t) \/ InitReload(t)
  <2>1. /\ call' = call /\ task'[t].todo = task[t].todo
        /\ pc[t] \in Walks /\ pc'[t] \in {"find", "reload", "publish"}
        /\ pc'[t] = "publish" => task'[t].dst = table
    BY <1>0, <1>9 DEF InitAlloc, InitFoundDummy, InitReload, PlacedAt, TypeOK, TaskType
  <2> QED BY <1>0, <1>3, <2>1 DEF PlacedAt
<1>10. CASE InitPublish(t)
  <2> DEFINE s == task[t].todo
  <2>0. /\ call' = call /\ walk' = walk /\ s # <<>> /\ Head(s) = s[1] /\ Len(s) \in Nat \ {0}
        /\ pc'[t] \in {"find", "alloc"} /\ task'[t].todo = Tail(s)
    BY <1>0, <1>10 DEF InitPublish, Initializing, TypeOK, TaskType
  <2>1. \A b : b = s[1] => Filled(b)'
    BY <1>10, <2>0, FilledStays
  <2>2. CASE Len(s) = 1
    <3>1. task'[t].todo = <<>>
      <4>1. Tail(s) = <<>>
        BY <1>0, <2>0, <2>2, TailParts
      <4> QED BY <2>0, <4>1
    <3>2. s[1] = call[t].bucket
      BY <1>0, <2>0, <2>2 DEF PlacedAt, ChainAt
    <3>3. FindBucket(t)' = s[1]
      BY <2>0, <3>1, <3>2 DEF FindBucket, Initializing
    <3> QED BY <1>0, <1>1, <2>0, <2>1, <3>1, <3>3 DEF PlacedAt, ChainAt
  <2>3. CASE Len(s) # 1
    <3>1. /\ Len(task'[t].todo) = Len(s) - 1 /\ task'[t].todo # <<>>
          /\ \A i \in 1 .. (Len(s) - 1) : task'[t].todo[i] = s[i + 1]
      <4>1. Len(Tail(s)) = Len(s) - 1 /\ Tail(s) # <<>>
            /\ \A i \in 1 .. (Len(s) - 1) : Tail(s)[i] = s[i + 1]
        BY <1>0, <2>0, <2>3, TailParts
      <4>2. task'[t].todo = Tail(s)
        BY <2>0
      <4> HIDE DEF s
      <4> QED BY <4>1, <4>2, Zenon
    <3>2. Head(task'[t].todo) = s[2] /\ s[1] = Parent(s[2])
      <4>1. 1 \in 1 .. (Len(s) - 1) /\ 1 + 1 = 2
        BY <2>0, <2>3, Shorter
      <4>2. Head(task'[t].todo) = task'[t].todo[1]
        <5>1. Tail(s) \in Seq(Nat)
          BY <1>0, <2>0
        <5> QED BY <2>0, <3>1, <5>1
      <4>3. s[1] = Parent(s[1 + 1])
        BY <1>0, <2>0, <4>1 DEF PlacedAt, ChainAt
      <4> QED BY <3>1, <4>1, <4>2, <4>3
    <3>3. FindBucket(t)' = s[1]
      BY <3>1, <3>2 DEF FindBucket, Initializing
    <3>4. ChainAt(t)'
      <4>1. task'[t].todo[Len(s) - 1] = call[t].bucket
        <5>1. Len(s) - 1 \in 1 .. (Len(s) - 1) /\ (Len(s) - 1) + 1 = Len(s)
          BY <2>0, <2>3, Shorter
        <5>2. s[Len(s)] = call[t].bucket
          BY <1>0, <2>0 DEF PlacedAt, ChainAt
        <5> QED BY <3>1, <5>1, <5>2
      <4>2. ASSUME NEW i \in 1 .. (Len(s) - 2) PROVE task'[t].todo[i] = Parent(task'[t].todo[i + 1])
        <5>1. /\ i \in 1 .. (Len(s) - 1) /\ i + 1 \in 1 .. (Len(s) - 1)
          BY <2>0, <2>3, Shorter
        <5>2. s[i + 1] = Parent(s[(i + 1) + 1])
          BY <1>0, <2>0, <5>1 DEF PlacedAt, ChainAt
        <5> QED BY <3>1, <5>1, <5>2
      <4>3. ASSUME NEW i \in 1 .. (Len(s) - 1) PROVE task'[t].todo[i] \in 0 .. (size - 1)
        <5>1. i + 1 \in 1 .. Len(s)
          BY <2>0
        <5> QED BY <1>0, <2>0, <3>1, <5>1 DEF PlacedAt, ChainAt
      <4>4. Len(task'[t].todo) - 1 = Len(s) - 2 /\ call' = call
        BY <2>0, <3>1
      <4> QED BY <1>1, <3>1, <4>1, <4>2, <4>3, <4>4 DEF ChainAt
    <3> QED BY <1>0, <1>1, <2>0, <2>1, <3>3, <3>4 DEF PlacedAt
  <2> QED BY <2>2, <2>3
<1>11. CASE ListFind(t)
  <2>1. /\ UNCHANGED <<call, task>> /\ pc[t] \in Walks
        /\ pc'[t] \in {"find", "head", "next", "verify", "unlink", "found"}
    BY <1>0, <1>11 DEF ListFind, FindReadTable, FindReadHead, FindReadNext, FindVerify, FindUnlink, TypeOK
  <2>2. pc'[t] = "head" => walk'[t].prev.tb = table
    <3>1. CASE FindReadTable(t)
      BY <1>0, <3>1 DEF FindReadTable, Slot, TypeOK, WalkType
    <3>2. CASE ~FindReadTable(t)
      BY <1>0, <1>11, <3>2 DEF ListFind, FindReadHead, FindReadNext, FindVerify, FindUnlink, TypeOK
    <3> QED BY <3>1, <3>2
  <2> QED BY <1>0, <1>3, <2>1, <2>2 DEF PlacedAt
<1>12. CASE InsertPrepare(t) \/ InsertLink(t) \/ FindHit(t) \/ DeleteHit(t) \/ DeleteMark(t)
  <2>1. /\ call'[t].bucket = call[t].bucket /\ task'[t].todo = task[t].todo /\ pc[t] \in Walks
        /\ pc'[t] \in {"link", "reload", "load", "find", "value", "mark", "detach"}
    BY <1>0, <1>12 DEF InsertPrepare, InsertLink, FindHit, DeleteHit, DeleteMark, TypeOK, CallType, TaskType
  <2> QED BY <1>0, <1>3, <2>1 DEF PlacedAt
<1>13. CASE InsertLoadSize(t) \/ DeleteDetach(t) \/ DeleteUncount(t) \/ DeleteTake(t)
  <2>1. /\ call'[t].bucket = call[t].bucket /\ task'[t].todo = task[t].todo
        /\ pc'[t] \in {"count", "uncount", "take", "erase"}
    BY <1>0, <1>13 DEF InsertLoadSize, DeleteDetach, DeleteUncount, DeleteTake, TypeOK, CallType, TaskType
  <2> QED BY <1>0, <1>3, <2>1 DEF PlacedAt
<1>14. CASE InsertFoundKey(t) \/ InsertCount(t) \/ FindMiss(t) \/ FindValue(t) \/ DeleteErase(t)
  <2>1. \/ \E out : Return(t, out)
        \/ UNCHANGED <<call, task>> /\ pc'[t] = "resize"
    BY <1>0, <1>14 DEF InsertFoundKey, InsertCount, FindMiss, FindValue, DeleteErase, TypeOK
  <2> QED BY <1>0, <1>3, <1>4, <2>1
<1>15. CASE Fault(t)
  <2>1. UNCHANGED <<pc, call, task, walk>>
    BY <1>15 DEF Fault, OutOfBounds, WildRead
  <2>2. FindBucket(t)' = FindBucket(t)
    BY <2>1 DEF FindBucket, Initializing
  <2> QED BY <1>0, <1>1, <2>1, <2>2 DEF PlacedAt, ChainAt
<1> QED
  BY <1>6, <1>7, <1>8, <1>9, <1>10, <1>11, <1>12, <1>13, <1>14, <1>15
     DEF Progress, BucketInit, Insert, Lookup, Delete

(* The slots of that array are then all a call uses, and no walk reads an  *)
(* empty one.                                                              *)
LEMMA PlacedBounds ==
  ASSUME Sound, ListState, Whole, NEW t \in Threads, PlacedAt(t), pc[t] # "copy"
  PROVE  /\ ~OutOfBounds(t)
         /\ pc[t] = "head" => Load(walk[t].prev).node # NIL
<1>0. /\ PlacedAt(t) /\ ListAt(t) /\ ControlAt(t) /\ DOMAIN tables[table] = 0 .. (size - 1)
      /\ task[t].todo \in Seq(Nat) /\ size \in Nat \ {0} /\ table \in TableId /\ table # 0
  BY LocalTypes DEF Sound, TypeOK, TableId, Control, Whole, ListState
<1>1. Initializing(t) => /\ Head(task[t].todo) \in 0 .. (size - 1)
                         /\ Parent(Head(task[t].todo)) \in 0 .. (size - 1)
  <2> SUFFICES ASSUME Initializing(t)
               PROVE  /\ Head(task[t].todo) \in 0 .. (size - 1)
                      /\ Parent(Head(task[t].todo)) \in 0 .. (size - 1)
    OBVIOUS
  <2>1. 1 \in 1 .. Len(task[t].todo) /\ DOMAIN task[t].todo = 1 .. Len(task[t].todo)
        /\ Head(task[t].todo) = task[t].todo[1] /\ task[t].todo # <<>>
    BY <1>0 DEF Initializing
  <2>2. Head(task[t].todo) \in 0 .. (size - 1) /\ Head(task[t].todo) \in 1 .. (Half - 1)
    BY <1>0, <2>1 DEF PlacedAt, ChainAt, ListAt, SoughtAt, TodoAt
  <2>3. Parent(Head(task[t].todo)) \in 0 .. (Head(task[t].todo) - 1)
    BY <2>2, ParentBefore
  <2> QED BY <1>0, <2>2, <2>3
<1>2. pc[t] = "head" => /\ walk[t].prev.tb = table /\ walk[t].prev.ix = FindBucket(t)
                        /\ Filled(FindBucket(t))
  BY <1>0 DEF PlacedAt, Searching, ListAt, StartAt
<1>3. pc[t] = "head" => Load(walk[t].prev).node # NIL
  BY <1>0, <1>2 DEF Load, Filled
<1>4. ~OutOfBounds(t)
  <2> SUFFICES ASSUME OutOfBounds(t) PROVE FALSE
    OBVIOUS
  <2> USE DEF OutOfBounds, SlotUsed, InBounds, Slot
  <2>1. CASE pc[t] = "check"
    BY <1>0, <2>1 DEF PlacedAt
  <2>2. CASE pc[t] = "init"
    BY <1>0, <1>1, <2>2 DEF PlacedAt, ControlAt, InInit
  <2>3. CASE pc[t] = "publish"
    BY <1>0, <1>1, <2>3 DEF PlacedAt, ControlAt, InInit
  <2>4. CASE pc[t] = "head"
    BY <1>0, <1>2, <2>4 DEF Filled
  <2> QED BY <2>1, <2>2, <2>3, <2>4
<1> QED BY <1>3, <1>4

-----------------------------------------------------------------------------
(* A table that never grows.                                               *)
NeverGrows == \A t \in Threads : pc[t] # "resize"

Growing == {"resize", "copy", "grow", "swap"}

FixedState == \A t \in Threads : PlacedAt(t) /\ pc[t] \notin Growing

LEMMA FixedWhole ==
  ASSUME Sound, FixedState
  PROVE  Whole
<1>1. Arrays /\ Slots[table] = size /\ table \in TableId
  BY DEF Sound, TypeOK, ResizeInv, FixedState, Growing
<1> QED BY <1>1 DEF Arrays, Whole

LEMMA FixedStep ==
  ASSUME Sound, ZeroState, ListState, FixedState, NeverGrows', NEW t \in Threads, Progress(t) \/ Begin(t)
  PROVE  FixedState' /\ size' = size
<1>0. Whole /\ PlacedAt(t) /\ pc[t] \notin Growing /\ TypeOK
  BY FixedWhole DEF Sound, FixedState
<1>1. ~Resize(t)
  BY <1>0 DEF Resize, ResizeAlloc, ResizeCopy, ResizeGrow, ResizeSwap, Goto, Growing
<1>2. size' = size /\ table' = table /\ \A b : Filled(b) => Filled(b)'
  BY <1>0, <1>1, FilledStays
<1>3. PlacedAt(t)'
  BY <1>0, <1>1, PlacedStep
<1>4. pc'[t] \notin Growing
  <2>1. CASE Fault(t)
    BY <1>0, <2>1 DEF Fault, OutOfBounds, WildRead
  <2>2. CASE ~Fault(t)
    BY <1>0, <1>1, <2>2, Outside DEF NeverGrows, Growing, Copying
  <2> QED BY <2>1, <2>2
<1>5. ASSUME NEW u \in Threads \ {t} PROVE PlacedAt(u)' /\ pc'[u] \notin Growing
  <2>1. /\ pc'[u] = pc[u] /\ call'[u] = call[u] /\ task'[u] = task[u] /\ walk'[u] = walk[u]
    BY <1>0, OthersStay
  <2>2. FindBucket(u)' = FindBucket(u)
    BY <2>1 DEF FindBucket, Initializing
  <2> QED BY <1>2, <2>1, <2>2 DEF FixedState, PlacedAt, ChainAt
<1> QED BY <1>2, <1>3, <1>4, <1>5 DEF FixedState

LEMMA SizesFit == Sizes(size) => size <= Half
<1> SUFFICES ASSUME Sizes(size) PROVE size <= Half
  OBVIOUS
<1>1. PICK j \in 0 .. (Width - 1) : size = 2 ^ j
  BY DEF Sizes
<1>2. Width - 1 \in Nat /\ j \in Nat /\ j <= Width - 1
  BY WidthAssumption
<1> QED BY <1>1, <1>2, PowerMonotone DEF Half

LEMMA FixedIsUndisturbed ==
  ASSUME Sound, ListState, FixedState
  PROVE  Undisturbed
<1>1. size <= Half
  BY SizesFit DEF ListState
<1>2. \A t \in Threads : pc[t] = "head" => Load(walk[t].prev).node # NIL
  BY FixedWhole, PlacedBounds DEF FixedState
<1> QED BY <1>1, <1>2 DEF Undisturbed

LEMMA InitPlaced == Init => \A t \in Threads : PlacedAt(t)
BY DEF Init, PlacedAt, ChainAt, NoTask, InInit, Searching

(* While the table does not grow no walk meets an empty slot, and no bucket*)
(* number is too large for the bucket array.                               *)
LEMMA FixedInvariant ==
  Spec /\ []NeverGrows /\ [][ReadsRight]_vars => []Undisturbed /\ [](status # "bounds")
<1> DEFINE IInv == /\ IF status = "running" THEN ListState /\ FixedState ELSE Undisturbed
                   /\ status # "bounds"
           Known == (status = "running" => Sound) /\ (status = "running" => ZeroState) /\ NeverGrows
<1>1. Init => IInv
  BY InitList, InitPlaced DEF Init, FixedState, Growing
<1>2. Known /\ IInv => Undisturbed /\ status # "bounds"
  BY FixedIsUndisturbed
<1>3. Known /\ Known' /\ IInv /\ [Next]_vars /\ [ReadsRight]_vars => IInv'
  <2> SUFFICES ASSUME Known, Known', IInv, [Next]_vars, [ReadsRight]_vars PROVE IInv'
    OBVIOUS
  <2>0. Undisturbed /\ size <= Half
    BY <1>2 DEF Undisturbed
  <2>1. CASE UNCHANGED vars
    <3>1. UNCHANGED <<Shared, status>>
      BY <2>1 DEF vars, locals, Shared, Own
    <3>2. CASE status = "running"
      <4>1. ListState'
        BY <2>1, <3>1, <3>2, ListUnchanged
      <4>2. FixedState'
        BY <2>1, <3>2 DEF vars, locals, FixedState, PlacedAt, ChainAt, Filled, FindBucket, Initializing
      <4> QED BY <3>1, <3>2, <4>1, <4>2
    <3>3. CASE status # "running"
      BY <2>0, <2>1, <3>1, <3>3 DEF vars, locals, Undisturbed, InBounds, Load
    <3> QED BY <3>2, <3>3
  <2>2. ASSUME NEW t \in Threads, Progress(t) \/ Begin(t), status = "running", ~UNCHANGED vars PROVE IInv'
    <3>1. CASE Fault(t)
      <4>1. status' = "wild" /\ UNCHANGED <<tables, heap, size, pc, walk>>
        BY <2>2, <3>1, FixedWhole, PlacedBounds DEF Fault, WildRead, locals, FixedState, Growing
      <4>2. Undisturbed'
        BY <2>0, <4>1 DEF Undisturbed, InBounds, Load
      <4> QED BY <4>1, <4>2
    <3>2. CASE ~Fault(t)
      <4>1. FixedState' /\ size' <= Half
        <5>1. FixedState' /\ size' = size
          BY <2>2, FixedStep
        <5> QED BY <2>0, <5>1
      <4>2. ListState'
        BY <2>0, <2>2, <4>1, ListStep
      <4>3. status' = "running"
        BY <2>2, <3>2, StepsRun
      <4> QED BY <4>1, <4>2, <4>3
    <3> QED BY <3>1, <3>2
  <2>3. ASSUME NEW t \in Threads, Destroy(t), status = "running" PROVE IInv'
    BY <2>0, <2>3 DEF Destroy, Undisturbed, locals
  <2> QED BY <2>1, <2>2, <2>3 DEF Next, Progress
<1> HIDE DEF IInv, Known
<1>4. Spec /\ []NeverGrows => []Known
  BY SoundInvariant, ZeroInvariant, PTL DEF Known
<1> QED BY <1>1, <1>2, <1>3, <1>4, PTL DEF Spec

-----------------------------------------------------------------------------
(* Calls that do not overlap.                                              *)
Alone == \A t, u \in Threads : pc[t] # "idle" /\ pc[u] # "idle" => t = u

(* The nodes a walk can meet then: those that are not deleted, and one that*)
(* is being deleted, until it is unlinked in the same call.                *)
Linked(n) ==
  /\ n \in Shared
  /\ Marked(n) => \E t \in Threads : pc[t] = "detach" /\ walk[t].cur.node = n

(* They lead to each other, and no two of them to the same node.           *)
LinkedOn == \A n : Linked(n) /\ heap[n].next.node # NIL => Linked(heap[n].next.node)

LinkedOnce ==
  \A m, n :
    Linked(m) /\ Linked(n) /\ heap[m].next.node = heap[n].next.node /\ heap[n].next.node # NIL => m = n

(* A resize copies the whole array in use.                                 *)
RoomAt(t) ==
  /\ pc[t] \in {"count", "resize", "copy", "grow"} => grow[t].sz = size
  /\ pc[t] \in {"copy", "grow"} => grow[t].old = table
  /\ pc[t] = "copy" => grow[t].i < grow[t].sz

(* A walk meets nothing to unlink, and where it stops nothing changes.     *)
StraightAt(t) ==
  /\ pc[t] # "unlink"
  /\ pc[t] \in {"next", "verify", "found", "link", "mark", "detach"} =>
       /\ walk[t].cur.bit = 0
       /\ walk[t].cur.node # NIL => Linked(walk[t].cur.node)
  /\ pc[t] = "verify" => walk[t].nxt = heap[walk[t].cur.node].next
  /\ pc[t] \in {"found", "mark", "detach"} /\ walk[t].cur.node # NIL =>
       LeadsTo(walk[t].prev, walk[t].cur.node)

AloneState ==
  /\ LinkedOn /\ LinkedOnce
  /\ \A t \in Threads : PlacedAt(t) /\ RoomAt(t) /\ StraightAt(t)

LEMMA OthersIdle ==
  ASSUME Sound, Alone, Alone', NEW t \in Threads, Progress(t) \/ Begin(t), NEW u \in Threads \ {t}
  PROVE  pc[u] = "idle" /\ pc'[u] = "idle"
<1>1. pc'[u] = pc[u] /\ TypeOK
  BY OthersStay DEF Sound
<1>2. CASE Begin(t)
  <2>1. pc'[t] # "idle"
    BY <1>1, <1>2 DEF Begin, BeginInsert, BeginLookup, Goto, TypeOK
  <2> QED BY <1>1, <2>1 DEF Alone
<1>3. CASE Progress(t)
  <2> USE DEF Goto
  <2>1. CheckBucket(t) \/ BucketInit(t) => pc[t] # "idle"
    BY DEF BucketInit, CheckBucket, InitCheckParent, InitAlloc, InitFoundDummy, InitReload, InitPublish
  <2>2. ListFind(t) => pc[t] # "idle"
    BY DEF ListFind, FindReadTable, FindReadHead, FindReadNext, FindVerify, FindUnlink
  <2>3. Insert(t) => pc[t] # "idle"
    BY DEF Insert, InsertReadSize, InsertPrepare, InsertLink, InsertFoundKey, InsertLoadSize, InsertCount
  <2>4. Resize(t) \/ Fault(t) => pc[t] # "idle"
    BY DEF Resize, ResizeAlloc, ResizeCopy, ResizeGrow, ResizeSwap, Fault, OutOfBounds, WildRead
  <2>5. Lookup(t) => pc[t] # "idle"
    BY DEF Lookup, LookupReadTable, FindMiss, FindHit, FindValue
  <2>6. Delete(t) => pc[t] # "idle"
    BY DEF Delete, DeleteHit, DeleteMark, DeleteDetach, DeleteUncount, DeleteTake, DeleteErase
  <2> QED BY <1>1, <1>3, <2>1, <2>2, <2>3, <2>4, <2>5, <2>6 DEF Alone, Progress
<1> QED BY <1>2, <1>3

LEMMA NoSwapWhole ==
  ASSUME Sound, \A t \in Threads : pc[t] # "swap"
  PROVE  Whole
<1>1. Arrays /\ table \in TableId /\ Slots[table] = size
  BY DEF Sound, TypeOK, ResizeInv
<1> QED BY <1>1 DEF Arrays, Whole

LEMMA RoomStep ==
  ASSUME Sound, AloneState, NEW t \in Threads, Progress(t) \/ Begin(t)
  PROVE  RoomAt(t)'
<1>0. /\ TypeOK /\ RoomAt(t) /\ grow[t] \in GrowType /\ size \in Nat /\ table \in TableId
      /\ pc[t] \in {"count", "resize", "copy"} => grow[t].sz > 0
      /\ pc[t] \in Labels
  BY LocalTypes DEF Sound, AloneState, ResizeInv, Copying, TypeOK
<1> USE DEF Goto, RoomAt
<1>1. CASE ResizeAlloc(t)
  <2>1. /\ pc[t] = "resize" /\ pc'[t] = "copy" /\ UNCHANGED <<size, table>>
        /\ grow'[t].sz = grow[t].sz /\ grow'[t].old = table /\ grow'[t].i = 0
    BY <1>0, <1>1 DEF ResizeAlloc, TypeOK, GrowType
  <2> QED BY <1>0, <2>1
<1>2. CASE ResizeCopy(t)
  <2>1. /\ pc[t] = "copy" /\ UNCHANGED <<size, table>>
        /\ pc'[t] = IF grow[t].i + 1 = grow[t].sz THEN "grow" ELSE "copy"
        /\ grow'[t].sz = grow[t].sz /\ grow'[t].old = grow[t].old /\ grow'[t].i = grow[t].i + 1
    BY <1>0, <1>2 DEF ResizeCopy, TypeOK, GrowType
  <2>2. grow[t].i \in Nat /\ grow[t].sz \in Nat
    BY <1>0 DEF GrowType
  <2> QED BY <1>0, <2>1, <2>2
<1>3. CASE ResizeGrow(t) \/ ResizeSwap(t)
  <2>1. pc'[t] \in {"swap", "idle"}
    BY <1>0, <1>3 DEF ResizeGrow, ResizeSwap, Return, TypeOK
  <2> QED BY <2>1
<1>4. CASE Fault(t)
  <2>1. UNCHANGED <<pc, grow, size, table>>
    BY <1>4 DEF Fault, OutOfBounds, WildRead, locals
  <2> QED BY <1>0, <2>1
<1>5. CASE ~Fault(t) /\ ~Resize(t)
  BY <1>0, <1>5, Outside DEF Copying
<1> QED BY <1>1, <1>2, <1>3, <1>4, <1>5 DEF Resize

(* No node leads to itself.                                                *)
LEMMA NoLoop ==
  ASSUME Sound, ZeroState, ListState, LinkedOn, LinkedOnce, NEW t \in Threads,
         NEW c, Linked(c), ~Marked(c)
  PROVE  heap[c].next.node # c
<1> SUFFICES ASSUME heap[c].next.node = c PROVE FALSE
  OBVIOUS
<1>0. /\ c \in Shared /\ Shared \subseteq Node /\ NIL \notin Shared /\ Linked(1)
      /\ c # 1 /\ Closed(heap, Shared)
      /\ \A n \in Shared : heap[n].next.node \in Shared \cup {NIL}
  BY OwnTypes DEF Sound, ZeroState, ZeroNode, Linked, NoDangling, Target, Closed
<1> DEFINE S == {n \in Shared : Linked(n) /\ n # c}
<1>1. S \in SUBSET Node /\ 1 \in S
  BY <1>0 DEF Linked
<1>2. Closed(heap, S)
  <2> SUFFICES ASSUME NEW n \in S PROVE heap[n].next.node \in S \cup {NIL}
    BY DEF Closed
  <2>1. heap[n].next.node # NIL => Linked(heap[n].next.node)
    BY DEF LinkedOn
  <2>2. heap[n].next.node # c
    BY <1>0 DEF LinkedOnce
  <2> QED BY <1>0, <2>1, <2>2
<1>3. c \in From(heap, 1)
  BY <1>0 DEF ListState, Connected
<1>4. From(heap, 1) \subseteq S
  BY <1>1, <1>2, FromLeast
<1> QED BY <1>3, <1>4

(* The steps at a call's last compare-and-swaps.                           *)
LEMMA StepAt ==
  ASSUME TypeOK, NEW t \in Threads, Progress(t) \/ Begin(t)
  PROVE  /\ pc[t] = "detach" => DeleteDetach(t)
         /\ pc'[t] = "detach" => DeleteMark(t)
<1> USE DEF Goto
<1>0. pc[t] \in Labels
  BY LocalTypes
<1>1. Begin(t) => pc[t] # "detach" /\ pc'[t] # "detach"
  BY DEF Begin, BeginInsert, BeginLookup, TypeOK
<1>2. CheckBucket(t) \/ BucketInit(t) => pc[t] # "detach" /\ pc'[t] # "detach"
  BY DEF BucketInit, CheckBucket, InitCheckParent, InitAlloc, InitFoundDummy, InitReload, InitPublish, TypeOK
<1>3. ListFind(t) => pc[t] # "detach" /\ pc'[t] # "detach"
  BY DEF ListFind, FindReadTable, FindReadHead, FindReadNext, FindVerify, FindUnlink, TypeOK
<1>4. Insert(t) => pc[t] # "detach" /\ pc'[t] # "detach"
  BY DEF Insert, InsertReadSize, InsertPrepare, InsertLink, InsertFoundKey, InsertLoadSize, InsertCount, Return, TypeOK
<1>5. Resize(t) => pc[t] # "detach" /\ pc'[t] # "detach"
  BY DEF Resize, ResizeAlloc, ResizeCopy, ResizeGrow, ResizeSwap, Return, TypeOK
<1>6. Fault(t) => pc[t] # "detach" /\ pc'[t] # "detach"
  BY DEF Fault, OutOfBounds, WildRead
<1>7. Lookup(t) => pc[t] # "detach" /\ pc'[t] # "detach"
  BY DEF Lookup, LookupReadTable, FindMiss, FindHit, FindValue, Return, TypeOK
<1>8. Delete(t) =>
        /\ pc[t] = "detach" => DeleteDetach(t)
        /\ pc'[t] = "detach" => DeleteMark(t)
  BY DEF Delete, DeleteHit, DeleteMark, DeleteDetach, DeleteUncount, DeleteTake, DeleteErase, Return, TypeOK
<1> QED BY <1>1, <1>2, <1>3, <1>4, <1>5, <1>6, <1>7, <1>8 DEF Progress

LEMMA IntoDetach ==
  ASSUME Sound, NEW t \in Threads, Progress(t) \/ Begin(t), pc'[t] = "detach"
  PROVE  Marking(t) /\ walk' = walk
<1> DEFINE c == walk[t].cur.node
<1>1. DeleteMark(t) /\ ControlAt(t) /\ TypeOK
  BY StepAt DEF Sound, Control
<1>2. pc[t] = "mark" /\ hz[t][0].id = walk[t].nxt.node /\ c # NIL
  BY <1>1 DEF DeleteMark, ControlAt, HasSuccessor
<1>3. /\ LeadsTo(NextOf(c), walk[t].nxt.node)
      /\ heap' = [heap EXCEPT ![c].next = Link(walk[t].nxt.node, 1)]
  BY <1>1, <1>2 DEF DeleteMark, Goto, TypeOK
<1>4. heap[c].next = Link(walk[t].nxt.node, 0)
  BY <1>3 DEF LeadsTo, Load, NextOf
<1> QED BY <1>1, <1>3, <1>4 DEF Marking, DeleteMark, locals

(* What a step does to these nodes.                                        *)
LEMMA LinkedStep ==
  ASSUME Sound, ZeroState, ListState, AloneState, Alone, Alone',
         NEW t \in Threads, Progress(t) \/ Begin(t)
  PROVE  /\ LinkedOn' /\ LinkedOnce'
         /\ \A n : Linked(n) /\ pc[t] # "detach" => Linked(n)'
<1> DEFINE q == walk[t].prev.ix
           c == walk[t].cur.node
           x == walk[t].nxt.node
           i == Inserted(t)
<1>0. /\ TypeOK /\ Shared \subseteq Node /\ NIL \notin Shared /\ LinkedOn /\ LinkedOnce /\ StraightAt(t)
      /\ ControlAt(t) /\ pc[t] # "unlink"
      /\ \A n \in Shared : heap[n].next.node \in Shared \cup {NIL}
      /\ \A n \in Node : heap[n].next.bit \in {0, 1} /\ heap[n] \in NodeType
  BY OwnTypes DEF Sound, AloneState, StraightAt, Control, NoDangling, Target, TypeOK, NodeType, LinkType
<1>1. \A n : Linked(n) <=> n \in Shared /\ (heap[n].next.bit = 1 => pc[t] = "detach" /\ c = n)
  BY OthersIdle DEF Linked, Marked
<1>2. \A n : Linked(n)' <=> n \in Shared' /\ (heap'[n].next.bit = 1 => pc'[t] = "detach" /\ walk'[t].cur.node = n)
  BY OthersIdle DEF Linked, Marked
<1>3. ASSUME \A n : Linked(n)' <=> Linked(n), \A n \in Shared : heap'[n].next.node = heap[n].next.node
      PROVE  LinkedOn' /\ LinkedOnce'
  <2>1. \A n : Linked(n) => n \in Shared
    BY DEF Linked
  <2> QED BY <1>0, <1>3, <2>1 DEF LinkedOn, LinkedOnce
<1>4. CASE pc[t] = "detach"
  <2>1. Unlinking(t) /\ pc'[t] # "detach"
    <3>1. DeleteDetach(t)
      BY <1>0, <1>4, StepAt
    <3>2. c # NIL /\ hz[t][0].id = x
      BY <1>0, <1>4 DEF ControlAt, HasSuccessor
    <3>3. LeadsTo(walk[t].prev, c)
      BY <1>0, <1>4, <3>2 DEF StraightAt
    <3> QED BY <1>0, <3>1, <3>2, <3>3 DEF DeleteDetach, Unlinking, Goto, TypeOK
  <2>2. /\ q \in Shared /\ c \in Shared /\ q # c /\ heap[c].next.bit = 1
        /\ heap[q].next = Link(c, 0) /\ heap[c].next.node = x
        /\ heap' = [heap EXCEPT ![q].next = Link(x, 0)] /\ Shared' = Shared
    BY <2>1, UnlinkEffect DEF Marked
  <2>3. /\ heap[q].next.node = c /\ heap[q].next.bit = 0
        /\ heap'[q].next.node = x /\ heap'[q].next.bit = 0
        /\ \A n \in Shared : n # q => heap'[n].next = heap[n].next
    BY <1>0, <2>2, LinkParts DEF TypeOK, NodeType
  <2>4. \A n : Linked(n)' <=> Linked(n) /\ n # c
    BY <1>0, <1>1, <1>2, <1>4, <2>1, <2>2, <2>3
  <2>5. Linked(c) /\ Linked(q)
    BY <1>1, <1>4, <2>2, <2>3
  <2>6. ASSUME NEW n, Linked(n)', heap'[n].next.node # NIL PROVE \A y : y = heap'[n].next.node => Linked(y)'
    <3>1. Linked(n) /\ n # c /\ n \in Shared
      BY <1>1, <2>4, <2>6
    <3>2. CASE n = q
      <4>1. Linked(x) /\ x # c
        BY <1>0, <2>2, <2>3, <2>5, <2>6, <3>2 DEF LinkedOn, LinkedOnce
      <4> QED BY <2>3, <2>4, <3>2, <4>1
    <3>3. CASE n # q
      <4>1. heap'[n].next.node = heap[n].next.node /\ heap[n].next.node # NIL
        BY <2>3, <2>6, <3>1, <3>3
      <4>2. heap[n].next.node # c
        BY <1>0, <2>3, <2>5, <3>1, <3>3, <4>1 DEF LinkedOnce
      <4>3. Linked(heap[n].next.node)
        BY <1>0, <3>1, <4>1 DEF LinkedOn
      <4> QED BY <2>4, <4>1, <4>2, <4>3
    <3> QED BY <3>2, <3>3
  <2>7. ASSUME NEW m, NEW n, Linked(m)', Linked(n)', heap'[m].next.node = heap'[n].next.node,
               heap'[n].next.node # NIL
        PROVE  m = n
    <3>1. /\ Linked(m) /\ m # c /\ m \in Shared
          /\ Linked(n) /\ n # c /\ n \in Shared
      BY <1>1, <2>4, <2>7
    <3>2. ASSUME NEW y, Linked(y), y # c, y # q, y \in Shared, heap'[y].next.node = x, x # NIL PROVE FALSE
      <4>1. heap[y].next.node = heap[c].next.node
        BY <2>2, <2>3, <3>2
      <4> QED BY <1>0, <2>2, <2>5, <3>2, <4>1 DEF LinkedOnce
    <3>3. m # q /\ n # q => m = n
      BY <1>0, <2>3, <2>7, <3>1 DEF LinkedOnce
    <3> QED BY <2>3, <2>7, <3>1, <3>2, <3>3
  <2>8. LinkedOn'
    BY <2>6 DEF LinkedOn, Linked
  <2>9. LinkedOnce'
    BY <2>7 DEF LinkedOnce, Linked
  <2> QED BY <1>4, <2>8, <2>9
<1>5. CASE pc[t] # "detach" /\ pc'[t] = "detach"
  <2>1. Marking(t) /\ walk' = walk
    BY <1>5, IntoDetach
  <2>2. /\ c \in Shared /\ heap[c].next.bit # 1
        /\ heap' = [heap EXCEPT ![c].next = Link(x, 1)]
        /\ \A n \in Shared : heap'[n].next.node = heap[n].next.node
        /\ Shared' = Shared
    BY <2>1, MarkEffect DEF Marked
  <2>3. \A n \in Shared : n # c => heap'[n].next = heap[n].next
    BY <1>0, <2>2
  <2>4. \A n : Linked(n)' <=> Linked(n)
    BY <1>1, <1>2, <1>5, <2>1, <2>2, <2>3
  <2> QED BY <1>3, <2>2, <2>4
<1>6. CASE pc[t] # "detach" /\ pc'[t] # "detach" /\ Linking(t)
  <2>1. /\ q \in Shared /\ i \in Node \ Shared /\ c \in Shared \cup {NIL}
        /\ Shared' = Shared \cup {i}
        /\ heap[q].next = Link(c, 0) /\ heap[i].next = Link(c, 0)
        /\ heap' = [heap EXCEPT ![q].next = Link(i, 0)]
    BY <1>6, LinkEffect
  <2>2. /\ heap[q].next.node = c /\ heap[q].next.bit = 0
        /\ heap'[q].next.node = i /\ heap'[q].next.bit = 0
        /\ heap'[i].next.node = c /\ heap'[i].next.bit = 0
        /\ \A n \in Shared : n # q => heap'[n].next = heap[n].next
    BY <1>0, <2>1, LinkParts DEF TypeOK, NodeType
  <2>3. \A n : Linked(n)' <=> Linked(n) \/ n = i
    BY <1>1, <1>2, <1>6, <2>1, <2>2
  <2>4. Linked(q) /\ (c # NIL => Linked(c))
    <3>1. Linked(q)
      BY <1>1, <2>1, <2>2
    <3> QED BY <1>0, <2>2, <3>1 DEF LinkedOn
  <2>5. ASSUME NEW n, Linked(n)', heap'[n].next.node # NIL PROVE \A y : y = heap'[n].next.node => Linked(y)'
    <3>1. CASE n = i
      BY <2>2, <2>3, <2>4, <2>5, <3>1
    <3>2. CASE n = q
      BY <2>2, <2>3, <3>2
    <3>3. CASE n # i /\ n # q
      <4>1. Linked(n) /\ heap'[n].next = heap[n].next
        BY <1>1, <2>2, <2>3, <2>5, <3>3
      <4>2. Linked(heap[n].next.node)
        BY <1>0, <2>5, <4>1 DEF LinkedOn
      <4> QED BY <2>3, <4>1, <4>2
    <3> QED BY <3>1, <3>2, <3>3
  <2>6. ASSUME NEW m, NEW n, Linked(m)', Linked(n)', heap'[m].next.node = heap'[n].next.node,
               heap'[n].next.node # NIL
        PROVE  m = n
    <3>1. ASSUME NEW y, Linked(y), y # q
          PROVE  y \in Shared /\ y # i /\ heap'[y].next.node = heap[y].next.node /\ heap[y].next.node # i
                 /\ (c # NIL => heap[y].next.node # c)
      <4>1. y \in Shared
        BY <1>1, <3>1
      <4>2. heap[y].next.node \in Shared \cup {NIL} /\ i # NIL
        BY <1>0, <2>1, <4>1 DEF Node, NIL
      <4> QED BY <1>0, <2>1, <2>2, <2>4, <3>1, <4>1, <4>2 DEF LinkedOnce
    <3>2. i # c /\ i # q
      BY <1>0, <2>1 DEF Node, NIL
    <3>3. CASE m # q /\ m # i /\ n # q /\ n # i
      BY <1>0, <2>3, <2>6, <3>1, <3>3 DEF LinkedOnce
    <3> QED BY <2>2, <2>3, <2>6, <3>1, <3>2, <3>3
  <2>7. LinkedOn'
    BY <2>5 DEF LinkedOn, Linked
  <2>8. LinkedOnce'
    BY <2>6 DEF LinkedOnce, Linked
  <2> QED BY <2>3, <2>7, <2>8
<1>7. CASE pc[t] # "detach" /\ pc'[t] # "detach" /\ ~Linking(t)
  <2>1. ~Unlinking(t) /\ ~Marking(t)
    BY <1>0, <1>7 DEF Unlinking, FindUnlink, DeleteDetach, Marking, Goto
  <2>2. Shared' = Shared /\ \A n \in Shared : heap'[n].next = heap[n].next
    BY <1>7, <2>1, StepKinds, StillEffect
  <2>3. \A n : Linked(n)' <=> Linked(n)
    BY <1>1, <1>2, <1>7, <2>2
  <2> QED BY <1>3, <2>2, <2>3
<1> QED BY <1>4, <1>5, <1>6, <1>7

(* A dummy node is not deleted.                                            *)
LEMMA DummyUnmarked ==
  ASSUME Sound, ListState, NEW n, NEW b \in Nat, IsDummy(n, b)
  PROVE  ~Marked(n)
<1>0. n \in Shared /\ heap[n].code = DummyCode(b) /\ heap[n].key \in Nat
  BY OwnTypes DEF IsDummy, Sound, TypeOK, NodeType
<1>1. ~IsRegular(heap[n].code)
  BY <1>0, CodeKinds
<1>2. heap[n].code # RegularCode(Hash(heap[n].key))
  <2>1. Hash(heap[n].key) \in Nat
    BY <1>0, CodeTypes
  <2> QED BY <1>1, <2>1, CodeKinds
<1> QED BY <1>0, <1>2 DEF ListState, NodeShape

(* What a walk relies on then.                                             *)
LEMMA StraightStep ==
  ASSUME Sound, ZeroState, ListState, AloneState, Alone, Alone',
         NEW t \in Threads, Progress(t) \/ Begin(t)
  PROVE  StraightAt(t)'
<1> DEFINE q == walk[t].prev.ix
           c == walk[t].cur.node
           x == walk[t].nxt.node
           Straight == walk[t].cur.bit = 0 /\ (walk[t].cur.node # NIL => Linked(walk[t].cur.node))
<1>0. /\ TypeOK /\ Shared \subseteq Node /\ NIL \notin Shared /\ LinkedOn /\ LinkedOnce /\ StraightAt(t)
      /\ walk[t] \in WalkType /\ walk[t].cur \in LinkType /\ pc[t] \in Labels
      /\ ControlAt(t) /\ pc[t] # "unlink" /\ StartAt(t)
      /\ \A n \in Node : heap[n].next.bit \in {0, 1} /\ heap[n] \in NodeType
  BY OwnTypes, LocalTypes
     DEF Sound, AloneState, StraightAt, Control, TypeOK, NodeType, LinkType, ListState, ListAt
<1>1. \A n : Linked(n) /\ pc[t] # "detach" => Linked(n)'
  BY LinkedStep
<1>2. \A n : Linked(n) /\ pc[t] # "detach" => n \in Shared /\ heap[n].next.bit # 1
  BY OthersIdle DEF Linked, Marked
<1>16. ASSUME walk'[t].cur.bit = 0, pc[t] # "detach",
              \A n : n = walk'[t].cur.node /\ n # NIL => Linked(n)
       PROVE  Straight'
  <2>1. \A n : n = walk'[t].cur.node /\ n # NIL => Linked(n)'
    BY <1>1, <1>16
  <2> QED BY <1>16, <2>1 DEF Linked, Marked
<1> DEFINE Spots == {"unlink", "next", "verify", "found", "link", "mark", "detach"}
<1> USE DEF Goto
<1>3. CASE pc'[t] \notin Spots
  BY <1>3 DEF StraightAt
<1>4. CASE FindReadHead(t)
  <2> DEFINE head == Load(walk[t].prev)
  <2>1. /\ walk[t].prev.tb # 0 /\ walk[t].prev.tb \in TableId /\ walk[t].prev.ix \in DOMAIN tables[walk[t].prev.tb]
        /\ walk[t].prev.ix \in Nat /\ head = tables[walk[t].prev.tb][walk[t].prev.ix]
    BY <1>0, <1>4 DEF FindReadHead, StartAt, InBounds, WalkType, SlotType, Load
  <2>2. head.bit = 0
    BY <2>1 DEF ZeroState, ZeroSlots
  <2>3. head.node # NIL => Linked(head.node)
    <3>1. head.node # NIL => IsDummy(head.node, walk[t].prev.ix)
      BY <2>1 DEF ListState, SlotsLead
    <3>2. head.node # NIL => head.node \in Shared /\ ~Marked(head.node)
      BY <2>1, <3>1, DummyUnmarked DEF IsDummy
    <3> QED BY <3>2 DEF Linked
  <2>4. pc[t] = "head" /\ pc'[t] = "next" /\ walk'[t].cur = head
    BY <1>0, <1>4 DEF FindReadHead, TypeOK, WalkType
  <2>5. Straight'
    BY <1>16, <2>2, <2>3, <2>4
  <2> QED BY <2>4, <2>5 DEF StraightAt
<1>5. CASE FindReadNext(t)
  <2>1. /\ pc[t] = "next" /\ walk[t].cur.bit = 0 /\ (c # NIL => Linked(c))
        /\ walk'[t].cur = walk[t].cur /\ UNCHANGED heap
        /\ pc'[t] = "found" => c = NIL
        /\ pc'[t] \in {"found", "verify"}
        /\ pc'[t] = "verify" => walk'[t].nxt = heap[c].next
    BY <1>0, <1>5 DEF FindReadNext, StraightAt, TypeOK, WalkType
  <2>2. Straight'
    BY <1>16, <2>1
  <2> QED BY <2>1, <2>2 DEF StraightAt
<1>6. CASE FindVerify(t)
  <2>1. /\ pc[t] = "verify" /\ walk[t].cur.bit = 0 /\ c # NIL /\ Linked(c) /\ walk[t].nxt = heap[c].next
        /\ UNCHANGED <<heap, tables>>
    BY <1>0, <1>6 DEF FindVerify, StraightAt, ControlAt
  <2>2. walk[t].nxt.bit = 0 /\ walk[t].nxt.bit # 1
    BY <1>0, <1>2, <2>1
  <2>3. CASE pc'[t] = "found"
    <3>1. walk' = walk /\ LeadsTo(walk[t].prev, c)
      BY <1>0, <1>6, <2>3 DEF FindVerify, TypeOK
    <3>2. Straight'
      BY <1>16, <2>1, <3>1
    <3> QED BY <2>1, <2>3, <3>1, <3>2 DEF StraightAt, LeadsTo, Load
  <2>4. CASE pc'[t] = "next"
    <3>1. walk'[t].cur = walk[t].nxt
      <4>1. walk' = [walk EXCEPT ![t].prev = NextOf(walk[t].cur.node), ![t].cur = walk[t].nxt]
        BY <1>0, <1>6, <2>4 DEF FindVerify, TypeOK
      <4>2. walk \in [Threads -> WalkType]
        BY <1>0 DEF TypeOK
      <4> QED BY <4>1, <4>2 DEF WalkType
    <3>2. x # NIL => Linked(x)
      BY <1>0, <2>1 DEF LinkedOn
    <3>3. Straight'
      BY <1>16, <2>1, <2>2, <3>1, <3>2
    <3> QED BY <2>4, <3>3 DEF StraightAt
  <2> QED BY <1>0, <1>3, <1>6, <2>2, <2>3, <2>4 DEF FindVerify, TypeOK
<1>7. CASE InsertPrepare(t)
  <2>1. pc[t] = "found" /\ pc'[t] = "link" /\ walk' = walk
    BY <1>0, <1>7 DEF InsertPrepare, TypeOK, locals
  <2>2. walk[t].cur.bit = 0 /\ (c # NIL => Linked(c))
    BY <1>0, <2>1 DEF StraightAt
  <2>3. Straight'
    BY <1>16, <2>1, <2>2
  <2> QED BY <2>1, <2>3 DEF StraightAt
<1>8. CASE DeleteHit(t)
  <2>1. pc[t] = "found" /\ pc'[t] = "mark" /\ UNCHANGED <<walk, heap, tables>>
    BY <1>0, <1>8 DEF DeleteHit, TypeOK, locals
  <2>2. walk[t].cur.bit = 0 /\ (c # NIL => Linked(c) /\ LeadsTo(walk[t].prev, c))
    BY <1>0, <2>1 DEF StraightAt
  <2>3. Straight'
    BY <1>16, <2>1, <2>2
  <2>4. c # NIL => LeadsTo(walk[t].prev, c)'
    BY <2>1, <2>2 DEF LeadsTo, Load
  <2> QED BY <2>1, <2>2, <2>3 DEF StraightAt, LeadsTo, Load
<1>9. CASE DeleteMark(t) /\ pc'[t] = "detach"
  <2>1. Marking(t) /\ walk' = walk /\ pc[t] = "mark"
    BY <1>9, IntoDetach DEF DeleteMark
  <2>2. c \in Shared /\ heap' = [heap EXCEPT ![c].next = Link(x, 1)]
    BY <2>1, MarkEffect
  <2>3. walk[t].cur.bit = 0 /\ Linked(c) /\ LeadsTo(walk[t].prev, c)
    BY <1>0, <2>1, <2>2 DEF StraightAt
  <2>4. walk[t].prev.tb = 0 /\ heap[q].next = Link(c, 0)
    BY <1>0, <2>1, <2>3 DEF StartAt, LeadsTo, Load
  <2>5. q # c
    <3>1. heap[c].next.node # c
      BY <1>0, <1>2, <2>1, <2>3, NoLoop DEF Marked
    <3> QED BY <2>4, <3>1, LinkParts
  <2>6. heap'[q].next = heap[q].next
    BY <1>0, <2>2, <2>5
  <2>8. Straight'
    BY <1>16, <2>1, <2>3
  <2> QED BY <1>9, <2>1, <2>4, <2>6, <2>8 DEF StraightAt, LeadsTo, Load
<1>10. CASE Fault(t)
  <2>1. UNCHANGED <<pc, walk, heap, tables>> /\ pc[t] # "detach"
    BY <1>10 DEF Fault, OutOfBounds, WildRead, locals
  <2>2. pc[t] \in Spots => Straight'
    BY <1>0, <1>16, <2>1 DEF StraightAt
  <2> QED BY <1>0, <2>1, <2>2 DEF StraightAt, LeadsTo, Load
<1>11. CASE Begin(t) \/ BucketInit(t) \/ CheckBucket(t)
  <2>1. pc'[t] \notin Spots
    BY <1>0, <1>11 DEF Begin, BeginInsert, BeginLookup, BucketInit, InitCheckParent, InitAlloc, InitFoundDummy,
       InitReload, InitPublish, CheckBucket, TypeOK
  <2> QED BY <1>3, <2>1
<1>12. CASE Insert(t) /\ ~InsertPrepare(t)
  <2>1. pc'[t] \notin Spots
    BY <1>0, <1>12 DEF Insert, InsertReadSize, InsertLink, InsertFoundKey, InsertLoadSize, InsertCount, Return, TypeOK
  <2> QED BY <1>3, <2>1
<1>13. CASE Resize(t) \/ Lookup(t)
  <2>1. pc'[t] \notin Spots
    BY <1>0, <1>13 DEF Resize, ResizeAlloc, ResizeCopy, ResizeGrow, ResizeSwap, Return, TypeOK,
       Lookup, LookupReadTable, FindMiss, FindHit, FindValue
  <2> QED BY <1>3, <2>1
<1>14. CASE FindReadTable(t) \/ FindUnlink(t)
  <2>1. pc'[t] \notin Spots
    BY <1>0, <1>14 DEF FindReadTable, FindUnlink, TypeOK
  <2> QED BY <1>3, <2>1
<1>15. CASE Delete(t) /\ ~DeleteHit(t) /\ ~(DeleteMark(t) /\ pc'[t] = "detach")
  <2>1. pc'[t] \notin Spots
    BY <1>0, <1>15 DEF Delete, DeleteMark, DeleteDetach, DeleteUncount, DeleteTake, DeleteErase, Return, TypeOK
  <2> QED BY <1>3, <2>1
<1> QED
  BY <1>4, <1>5, <1>6, <1>7, <1>8, <1>9, <1>10, <1>11, <1>12, <1>13, <1>14, <1>15 DEF Progress, ListFind

LEMMA AloneStep ==
  ASSUME Sound, ZeroState, ListState, AloneState, Alone, Alone',
         NEW t \in Threads, Progress(t) \/ Begin(t)
  PROVE  AloneState'
<1>0. /\ TypeOK /\ PlacedAt(t) /\ ControlAt(t)
      /\ \A u \in Threads : ControlAt(u)
  BY DEF Sound, AloneState, Control
<1>1. PlacedAt(t)'
  <2>1. CASE Resize(t)
    <3>1. pc[t] \in Growing /\ task[t].todo = <<>>
      BY <1>0, <2>1 DEF Resize, ResizeAlloc, ResizeCopy, ResizeGrow, ResizeSwap, Goto, Growing,
         ControlAt, Initializing, InInit, Searching
    <3>2. pc'[t] \in Growing \cup {"idle"} /\ task'[t].todo = <<>>
      <4>1. CASE UNCHANGED task
        BY <1>0, <2>1, <3>1, <4>1 DEF Resize, ResizeAlloc, ResizeCopy, ResizeGrow, ResizeSwap, Goto, Return,
           Growing, TypeOK
      <4>2. CASE \E out : Return(t, out)
        BY <1>0, <4>2 DEF Return, NoTask, TypeOK
      <4> QED BY <2>1, <4>1, <4>2
           DEF Resize, ResizeAlloc, ResizeCopy, ResizeGrow, ResizeSwap, locals
    <3> QED BY <3>2 DEF PlacedAt, ChainAt, Growing, InInit, Searching
  <2>2. CASE ~Resize(t)
    <3>1. pc[t] # "swap"
      BY <1>0, <2>2, Outside DEF Copying, Fault, OutOfBounds, WildRead
    <3>2. \A u \in Threads : pc[u] # "swap"
      BY <3>1, OthersIdle
    <3> QED BY <1>0, <2>2, <3>2, NoSwapWhole, PlacedStep
  <2> QED BY <2>1, <2>2
<1>2. ASSUME NEW u \in Threads \ {t} PROVE PlacedAt(u)' /\ RoomAt(u)' /\ StraightAt(u)'
  <2>1. pc[u] = "idle" /\ pc'[u] = "idle"
    BY OthersIdle
  <2>2. task[u].todo = <<>> /\ task'[u] = task[u]
    BY <1>0, <2>1, OthersStay DEF ControlAt, Initializing, InInit, Searching
  <2> QED BY <2>1, <2>2 DEF PlacedAt, ChainAt, InInit, Searching, RoomAt, StraightAt
<1> QED BY <1>1, <1>2, LinkedStep, RoomStep, StraightStep DEF AloneState

(* Neither defect shows then, and no step is a fault.                      *)
LEMMA AloneIsSafe ==
  ASSUME Sound, ListState, AloneState, Alone
  PROVE  Undisturbed /\ ReadsRight /\ \A t \in Threads : ~Fault(t)
<1>1. ASSUME NEW t \in Threads, pc[t] # "idle", pc[t] # "swap" PROVE Whole
  BY <1>1, NoSwapWhole DEF Alone
<1>2. Undisturbed
  <2>1. size <= Half
    BY SizesFit DEF ListState
  <2>2. \A t \in Threads : pc[t] = "head" => Load(walk[t].prev).node # NIL
    BY <1>1, PlacedBounds DEF AloneState
  <2> QED BY <2>1, <2>2 DEF Undisturbed
<1>3. ReadsRight
  BY DEF ReadsRight, AloneState, StraightAt
<1>4. ASSUME NEW t \in Threads, OutOfBounds(t) PROVE FALSE
  <2>1. pc[t] \in {"check", "init", "publish", "head", "copy"} /\ Whole
    BY <1>1, <1>4 DEF OutOfBounds
  <2>2. CASE pc[t] = "copy"
    <3>1. grow[t].old = table /\ grow[t].sz = size /\ grow[t].i < size /\ grow[t].i \in Nat /\ size \in Nat
      BY <2>2, LocalTypes DEF AloneState, RoomAt, Sound, TypeOK
    <3>2. DOMAIN tables[table] = 0 .. (size - 1)
      BY <2>1 DEF Whole
    <3> QED BY <1>4, <2>2, <3>1, <3>2 DEF OutOfBounds, SlotUsed, InBounds, Slot
  <2>3. CASE pc[t] # "copy"
    BY <1>4, <2>1, <2>3, PlacedBounds DEF AloneState
  <2> QED BY <2>2, <2>3
<1>5. ASSUME NEW t \in Threads, WildRead(t) PROVE FALSE
  <2>1. pc[t] = "found" /\ walk[t].cur = Link(NIL, 1)
    BY <1>5 DEF WildRead, DerefsMarkedNull
  <2>2. walk[t].cur.bit = 0
    BY <2>1 DEF AloneState, StraightAt
  <2> QED BY <2>1, <2>2, LinkParts
<1> QED BY <1>2, <1>3, <1>4, <1>5 DEF Fault

LEMMA InitAlone == Init => AloneState
<1> SUFFICES ASSUME Init PROVE AloneState
  OBVIOUS
<1>1. \A t \in Threads : PlacedAt(t) /\ RoomAt(t) /\ StraightAt(t)
  BY InitPlaced DEF Init, RoomAt, StraightAt
<1>2. \A n \in Node : heap[n].next.node = NIL
  BY LinkParts DEF Init, Blank, Null
<1>3. \A n : Linked(n) => n \in Node
  <2>1. live \subseteq Node
    BY ConstantsAssumption DEF Init, Node
  <2> QED BY <2>1 DEF Linked, Shared
<1> QED BY <1>1, <1>2, <1>3 DEF AloneState, LinkedOn, LinkedOnce

LEMMA AloneInvariant ==
  Spec /\ []Alone /\ [](size <= Half) =>
    [](ListSafe /\ NoWildAccess) /\ []Undisturbed /\ [][ReadsRight]_vars
<1> DEFINE IInv == /\ IF status = "running" THEN ListState /\ AloneState
                      ELSE ListSafe /\ \A t \in Threads : pc[t] = "idle"
                   /\ NoWildAccess
           Known == /\ (status = "running" => Sound) /\ (status = "running" => ZeroState)
                    /\ Alone /\ size <= Half
<1>1. Init => IInv
  BY InitList, InitAlone DEF Init, NoWildAccess
<1>2. Known /\ IInv => ListSafe /\ NoWildAccess /\ Undisturbed
  BY ListIsSafe, AloneIsSafe DEF Undisturbed
<1>5. Known /\ IInv /\ [Next]_vars => [ReadsRight]_vars
  BY AloneIsSafe DEF Next, Progress
<1>3. Known /\ Known' /\ IInv /\ [Next]_vars => IInv'
  <2> SUFFICES ASSUME Known, Known', IInv, [Next]_vars PROVE IInv'
    OBVIOUS
  <2>1. CASE UNCHANGED vars
    <3>1. UNCHANGED <<Shared, Present, OnList, status>>
      BY <2>1 DEF vars, locals, Shared, Own, Present, Marked, OnList, Walk
    <3>2. CASE status = "running"
      <4>1. ListState'
        BY <2>1, <3>2, ListUnchanged
      <4>2. AloneState'
        BY <2>1, <3>1, <3>2 DEF vars, locals, AloneState, LinkedOn, LinkedOnce, Linked, Marked, RoomAt, StraightAt,
           LeadsTo, Load, PlacedAt, ChainAt, Filled, FindBucket, Initializing
      <4> QED BY <3>1, <3>2, <4>1, <4>2 DEF NoWildAccess
    <3>3. CASE status # "running"
      BY <2>1, <3>1, <3>3 DEF vars, ListSafe, Sorted, NoDuplicates, SlotsHoldDummies, Reachable,
         DestroyFreesList, Marked, NoWildAccess
    <3> QED BY <3>2, <3>3
  <2>2. ASSUME NEW t \in Threads, Progress(t) \/ Begin(t), status = "running" PROVE IInv'
    <3>1. Undisturbed /\ ReadsRight /\ ~Fault(t)
      BY <2>2, AloneIsSafe
    <3>2. ListState' /\ AloneState'
      BY <2>2, <3>1, ListStep, AloneStep
    <3>3. status' = "running"
      BY <2>2, <3>1, StepsRun
    <3> QED BY <3>2, <3>3 DEF NoWildAccess
  <2>3. ASSUME NEW t \in Threads, Destroy(t), status = "running" PROVE IInv'
    BY <2>3, DestroyStep DEF Destroy, NoWildAccess
  <2> QED BY <2>1, <2>2, <2>3 DEF Next, Progress
<1> HIDE DEF IInv, Known
<1>4. Spec /\ []Alone /\ [](size <= Half) => []Known
  BY SoundInvariant, ZeroInvariant, PTL DEF Known
<1> QED BY <1>1, <1>2, <1>3, <1>4, <1>5, PTL DEF Spec

-----------------------------------------------------------------------------
(* The theorems. Each of these properties has a run that shows it on small *)
(* instances; in general the recorded defects can break it, so that each is*)
(* proved of the behaviours in which those defects do not show, and then of*)
(* uses of the table in which they cannot.                                 *)

(* The list stays sorted: hashtable_list_insert links a node where its code*)
(* belongs, whatever is linked, marked and unlinked around it between the  *)
(* end of the walk and the compare-and-swap.                               *)
THEOREM ListSorted == Spec /\ []Undisturbed /\ [][ReadsRight]_vars => []Sorted
<1>1. ListSafe => Sorted
  BY DEF ListSafe
<1> QED BY <1>1, ListInvariant, PTL

(* No key is in the table twice: two insertions of a key that race cannot  *)
(* both pass the walk and link their node.                                 *)
THEOREM KeysOnce == Spec /\ []Undisturbed /\ [][ReadsRight]_vars => []NoDuplicates
<1>1. ListSafe => NoDuplicates
  BY DEF ListSafe
<1> QED BY <1>1, ListInvariant, PTL

(* Every slot of the array in use that is not empty leads to the dummy node*)
(* of its bucket: initializations that race, of a bucket and of the parents*)
(* it needs, and resizes that copy the slots meanwhile, publish no other.  *)
THEOREM SlotsCorrect == Spec /\ []Undisturbed /\ [][ReadsRight]_vars => []SlotsHoldDummies
<1>1. ListSafe => SlotsHoldDummies
  BY DEF ListSafe
<1> QED BY <1>1, ListInvariant, PTL

(* No element is lost: unlinking a deleted node never cuts off a node that *)
(* was linked behind it or before it at the same time.                     *)
THEOREM NothingLost == Spec /\ []Undisturbed /\ [][ReadsRight]_vars => []Reachable
<1>1. ListSafe => Reachable
  BY DEF ListSafe
<1> QED BY <1>1, ListInvariant, PTL

(* hashtable_destroy frees every node that is not deleted, because its walk*)
(* from slot 0 meets them all.                                             *)
THEOREM DestroyComplete == Spec /\ []Undisturbed /\ [][ReadsRight]_vars => []DestroyFreesList
<1>1. ListSafe => DestroyFreesList
  BY DEF ListSafe
<1> QED BY <1>1, ListInvariant, PTL

(* A table that never grows: no walk meets an empty slot, so that all this *)
(* holds as long as walks behind a deleted node read on as they should, and*)
(* no bucket number is used that the bucket array does not have.           *)
THEOREM TableOfOneSize ==
  Spec /\ []NeverGrows /\ [][ReadsRight]_vars =>
    [](/\ Sorted /\ NoDuplicates /\ SlotsHoldDummies /\ Reachable /\ DestroyFreesList
       /\ status # "bounds")
<1>1. ListSafe => Sorted /\ NoDuplicates /\ SlotsHoldDummies /\ Reachable /\ DestroyFreesList
  BY DEF ListSafe
<1> QED BY <1>1, ListInvariant, FixedInvariant, PTL

(* When, moreover, no client deletes, no link is ever marked and there is  *)
(* nothing left to assume: the table is right, and no operation reads      *)
(* through the marked null pointer or past the end of the bucket array.    *)
THEOREM AddingIsSafe ==
  ASSUME OnlyAdds
  PROVE  Spec /\ []NeverGrows =>
           [](/\ Sorted /\ NoDuplicates /\ SlotsHoldDummies /\ Reachable /\ DestroyFreesList
              /\ NoWildAccess)
<1>1. ListSafe => Sorted /\ NoDuplicates /\ SlotsHoldDummies /\ Reachable /\ DestroyFreesList
  BY DEF ListSafe
<1>2. status # "wild" /\ status # "bounds" => NoWildAccess
  BY DEF NoWildAccess
<1> QED BY <1>1, <1>2, ListInvariant, FixedInvariant, CleanInvariant, PTL

(* Calls that do not overlap: the same holds whatever they delete and      *)
(* however far the table grows. The recorded defects take two at once.     *)
THEOREM OneCallAtATime ==
  Spec /\ []Alone /\ [](size <= Half) =>
    [](/\ Sorted /\ NoDuplicates /\ SlotsHoldDummies /\ Reachable /\ DestroyFreesList
       /\ NoWildAccess)
<1>1. ListSafe => Sorted /\ NoDuplicates /\ SlotsHoldDummies /\ Reachable /\ DestroyFreesList
  BY DEF ListSafe
<1> QED BY <1>1, AloneInvariant, PTL

=============================================================================
