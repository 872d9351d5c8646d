----------------------- MODULE HashtableHistoryProofs -----------------------
(***************************************************************************)
(* That the hashtable implements ConcurrentMap: every call takes effect at *)
(* one instant between its start and its return, where the recorded        *)
(* defects do not show.  LockFreeHashtableProofs proves what the list is;  *)
(* what is added here is what a call knows of the values its key has had   *)
(* since it began.                                                         *)
(***************************************************************************)
EXTENDS HashtableHistory, LockFreeHashtableProofs

-----------------------------------------------------------------------------
(* The inductive invariant.                                                *)

(* Where an insertion has linked its node, and a deletion marked one.      *)
Counting == {"load", "count"} \cup Growing
Taking   == {"detach", "uncount", "take", "erase"}

(* What a call was called with, and the value in the node it has made.     *)
KindsAt(t) ==
  /\ pc[t] = "idle" => call[t] = NoArgs
  /\ pc[t] # "idle" => call[t].kind \in Kinds /\ call[t].key \in Keys
  /\ pc[t] \in Counting => call[t].kind = "insert"
  /\ pc[t] \in Taking => call[t].kind = "delete"
  /\ pc[t] = "value" => call[t].kind = "find"
  /\ call[t].kind = "insert" => call[t].val \in Vals
  /\ call[t].mine # NIL => heap[call[t].mine].value = call[t].val

(* A call has seen the value its key has.                                  *)
SeenAt(t) ==
  IF pc[t] = "idle" THEN seen[t] = {} ELSE MapView[call[t].key] \in seen[t]

(* The current node, if it is the key's and was not deleted when its link  *)
(* was read, has the value the key had then, or none when it has been      *)
(* deleted since.                                                          *)
Met(t) ==
  /\ heap[walk[t].cur.node].value \in seen[t]
  /\ Marked(walk[t].cur.node) => NIL \in seen[t]
  /\ seen[t] \ {NIL} # {}

HitAt(t) ==
  /\ pc[t] \in {"mark", "value"} => HoldsSought(t)
  /\ /\ pc[t] \in {"found", "mark", "value"} \/ (pc[t] = "verify" /\ walk[t].nxt.bit = 0)
     /\ ~Initializing(t)
     /\ HoldsSought(t)
     => Met(t)

(* Where a walk ends without the key, or may be about to, the key was      *)
(* absent at some time: behind the last node there was nothing to find.    *)
Held(t) == Holding(heap, Shared, SoughtCode(t), SoughtKey(t))

MissAt(t) ==
  ~Initializing(t) =>
    /\ pc[t] = "next" /\ walk[t].cur.node = NIL => NIL \in seen[t]
    /\ pc[t] = "found" /\ (walk[t].cur.node = NIL \/ CurCode(t) > SoughtCode(t)) => NIL \in seen[t]
    /\ pc[t] = "verify" /\ walk[t].nxt = Null =>
         NIL \in seen[t] \/ Held(t) \cap After(heap, walk[t].cur.node) = {}

(* The node a deletion has marked, and the value it has taken from it.     *)
TakenAt(t) ==
  /\ pc[t] \in Taking => Marked(walk[t].cur.node)
  /\ pc[t] = "erase" => call[t].val = heap[walk[t].cur.node].value

(* No two deletions take the same node.                                    *)
TakenOnce ==
  \A t, u \in Threads :
    pc[t] \in Taking /\ pc[u] \in Taking /\ walk[t].cur.node = walk[u].cur.node => t = u

ValuesKept == \A n \in Present : heap[n].value \in Vals

CallsState ==
  /\ seen \in [Threads -> SUBSET (Vals \cup {NIL})]
  /\ ValuesKept /\ TakenOnce
  /\ \A t \in Threads : KindsAt(t) /\ SeenAt(t) /\ HitAt(t) /\ MissAt(t) /\ TakenAt(t)

-----------------------------------------------------------------------------
(* What the steps do to the values and to where the calls are.             *)

(* A node keeps its value while it is allocated, until the deletion that   *)
(* has marked it erases it.                                                *)
LEMMA ValuesStay ==
  ASSUME Sound, NEW t \in Threads, Progress(t) \/ Begin(t)
  PROVE  /\ \A n \in live \cap live' :
              heap'[n].value = heap[n].value \/ (DeleteErase(t) /\ n = walk[t].cur.node)
         /\ DeleteErase(t) => heap'[walk[t].cur.node].value = NIL
<1> DEFINE Stay == \A n \in live \cap live' : heap'[n].value = heap[n].value
<1>0. /\ live \subseteq Node /\ heap \in [Node -> NodeType]
      /\ walk[t].cur.node \in Node \/ ~DeleteErase(t)
  BY OwnTypes, LocalTypes DEF Sound, TypeOK, Control, ControlAt, DeleteErase
<1>1. ASSUME UNCHANGED heap PROVE Stay
  BY <1>1
<1>2. ASSUME NEW m, m \notin live \cap live', NEW x, heap' = [heap EXCEPT ![m] = x] PROVE Stay
  BY <1>0, <1>2
<1>3. ASSUME NEW m, NEW x, heap' = [heap EXCEPT ![m].next = x] PROVE Stay
  <2>1. \A i \in Node : heap'[i] = IF i = m THEN [heap[i] EXCEPT !.next = x] ELSE heap[i]
    BY <1>0, <1>3
  <2> QED BY <1>0, <2>1 DEF NodeType
<1>4. ASSUME NEW p, NEW x, Store(p, x) PROVE Stay
  <2>1. UNCHANGED heap \/ heap' = [heap EXCEPT ![p.ix].next = x]
    BY <1>4 DEF Store
  <2> QED BY <1>1, <1>3, <2>1
<1>5. CASE Begin(t) \/ InitAlloc(t)
  <2>1. Node \ live # {} => NewNode \notin live \cap live'
    BY DEF NewNode
  <2>2. Stay
    BY <1>1, <1>2, <1>5, <2>1 DEF Begin, BeginInsert, BeginLookup, InitAlloc
  <2>3. ~DeleteErase(t)
    BY <1>5 DEF Begin, BeginInsert, BeginLookup, InitAlloc, Goto, DeleteErase
  <2> QED BY <2>2, <2>3
<1>6. CASE InitFoundDummy(t) \/ InsertFoundKey(t)
  <2>1. \/ live' = live \ {task[t].dummy} /\ heap' = [heap EXCEPT ![task[t].dummy] = Blank]
        \/ live' = live \ {call[t].mine} /\ heap' = [heap EXCEPT ![call[t].mine] = Blank]
    BY <1>6 DEF InitFoundDummy, InsertFoundKey
  <2> QED BY <1>2, <1>6, <2>1 DEF InitFoundDummy, InsertFoundKey, DeleteErase
<1>7. CASE InsertPrepare(t) \/ DeleteMark(t)
  BY <1>1, <1>3, <1>7 DEF InsertPrepare, DeleteMark, DeleteErase
<1>8. CASE FindUnlink(t) \/ InsertLink(t) \/ DeleteDetach(t)
  BY <1>1, <1>4, <1>8 DEF FindUnlink, InsertLink, DeleteDetach, DeleteErase, Goto
<1>9. CASE DeleteErase(t)
  <2>1. \A i \in Node : heap'[i] = IF i = walk[t].cur.node
                                  THEN [heap[i] EXCEPT !.value = NIL] ELSE heap[i]
    BY <1>0, <1>9 DEF DeleteErase
  <2> QED BY <1>0, <1>9, <2>1 DEF NodeType
<1>10. CASE UNCHANGED heap /\ pc[t] # "erase"
  BY <1>1, <1>10 DEF DeleteErase
<1> USE DEF Goto
<1>11. CASE CheckBucket(t) \/ BucketInit(t) \/ ListFind(t)
  BY <1>5, <1>6, <1>8, <1>10, <1>11 DEF CheckBucket, BucketInit, InitCheckParent, InitReload,
     InitPublish, ListFind, FindReadTable, FindReadHead, FindReadNext, FindVerify
<1>12. CASE Insert(t) \/ Lookup(t)
  BY <1>6, <1>7, <1>8, <1>10, <1>12 DEF Insert, InsertReadSize, InsertLoadSize, InsertCount,
     Lookup, LookupReadTable, FindMiss, FindHit, FindValue
<1>13. CASE Resize(t) \/ Fault(t)
  BY <1>10, <1>13 DEF Resize, ResizeAlloc, ResizeCopy, ResizeGrow, ResizeSwap,
     Fault, OutOfBounds, WildRead
<1>14. CASE Delete(t)
  BY <1>7, <1>8, <1>9, <1>10, <1>14 DEF Delete, DeleteHit, DeleteUncount, DeleteTake
<1> QED BY <1>5, <1>11, <1>12, <1>13, <1>14 DEF Progress

(* A step that neither begins nor ends a call, nor links a key's node, nor *)
(* marks one.                                                              *)
Quiet(t) ==
  /\ pc[t] # "idle" /\ pc'[t] # "idle" /\ UNCHANGED ret
  /\ call'[t].kind = call[t].kind /\ call'[t].key = call[t].key
  /\ call'[t].val = call[t].val \/ pc[t] = "take"
  /\ pc'[t] \in Counting <=> pc[t] \in Counting
  /\ pc'[t] \in Taking <=> pc[t] \in Taking
  /\ pc'[t] = "value" => call[t].kind = "find"
  /\ pc[t] \in Taking => walk'[t] = walk[t]

(* One that links a key's node.                                            *)
Adds(t) ==
  /\ Linking(t) /\ pc[t] = "link" /\ pc' = [pc EXCEPT ![t] = "load"]
  /\ ~Initializing(t) /\ Inserted(t) = call[t].mine /\ call[t].mine # NIL /\ call[t].kind = "insert"
  /\ call' = [call EXCEPT ![t].mine = NIL]
  /\ UNCHANGED <<ret, walk, task>>

(* One that marks a key's node.                                            *)
Removes(t) ==
  /\ Marking(t) /\ pc[t] = "mark" /\ pc' = [pc EXCEPT ![t] = "detach"]
  /\ call[t].kind = "delete"
  /\ UNCHANGED <<ret, call, walk, task>>

(* One that ends a call.                                                   *)
Ends(t) ==
  \/ InsertFoundKey(t) \/ FindMiss(t) \/ FindValue(t) \/ DeleteErase(t)
  \/ pc[t] \in Counting /\ Return(t, 1) /\ UNCHANGED <<heap, live>>

(* There are no others.                                                    *)
LEMMA CallSteps ==
  ASSUME Sound, NEW t \in Threads, Progress(t)
  PROVE  Quiet(t) \/ Adds(t) \/ Removes(t) \/ Ends(t)
<1>0. /\ TypeOK /\ call[t] \in CallType /\ walk[t] \in WalkType /\ pc[t] \in Labels
      /\ ControlAt(t) /\ OwnAt(t)
  BY LocalTypes DEF Sound, Control, Ownership
<1> USE DEF Goto, locals, Counting, Growing, Taking
<1>1. CASE CheckBucket(t) \/ LookupReadTable(t) \/ InsertReadSize(t)
  BY <1>0, <1>1 DEF Quiet, CheckBucket, LookupReadTable, InsertReadSize, TypeOK, CallType
<1>2. CASE BucketInit(t)
  BY <1>0, <1>2 DEF Quiet, BucketInit, InitCheckParent, InitAlloc, InitFoundDummy, InitReload, InitPublish, TypeOK
<1>3. CASE ListFind(t)
  BY <1>0, <1>3 DEF Quiet, ListFind, FindReadTable, FindReadHead, FindReadNext, FindVerify, FindUnlink, TypeOK
<1>4. CASE InsertPrepare(t) \/ InsertLoadSize(t)
  BY <1>0, <1>4 DEF Quiet, InsertPrepare, InsertLoadSize, TypeOK
<1>5. CASE InsertLink(t)
  <2>1. CASE pc' = [pc EXCEPT ![t] = "find"] /\ UNCHANGED call
    BY <1>0, <1>5, <2>1 DEF Quiet, InsertLink, TypeOK
  <2>2. CASE pc' = [pc EXCEPT ![t] = "reload"] /\ UNCHANGED call
    BY <1>0, <1>5, <2>2 DEF Quiet, InsertLink, TypeOK
  <2>3. CASE /\ pc' = [pc EXCEPT ![t] = "load"] /\ call' = [call EXCEPT ![t].mine = NIL]
             /\ UNCHANGED task /\ ~Initializing(t)
             /\ LeadsTo(walk[t].prev, walk[t].cur.node)
             /\ Store(walk[t].prev, Link(Inserted(t), 0))
    <3>1. pc[t] = "link" /\ pc'[t] # "find" /\ UNCHANGED <<ret, walk>>
      BY <1>0, <1>5, <2>3 DEF InsertLink, TypeOK
    <3>2. call[t].kind = "insert" /\ call[t].mine # NIL
      BY <1>0, <2>3, <3>1 DEF OwnAt, Inserting, Unlinked, Searching
    <3> QED BY <1>5, <2>3, <3>1, <3>2 DEF Adds, Linking, Inserted
  <2> QED BY <1>5, <2>1, <2>2, <2>3 DEF InsertLink
<1>6. CASE InsertFoundKey(t) \/ FindMiss(t) \/ FindValue(t) \/ DeleteErase(t)
  BY <1>6 DEF Ends
<1>7. CASE InsertCount(t)
  <2>1. CASE pc' = [pc EXCEPT ![t] = "resize"] /\ UNCHANGED <<locals, ret>>
    BY <1>0, <1>7, <2>1 DEF Quiet, InsertCount, TypeOK
  <2> QED BY <1>7, <2>1 DEF InsertCount, Ends
<1>8. CASE ResizeAlloc(t) \/ ResizeCopy(t)
  BY <1>0, <1>8 DEF Quiet, ResizeAlloc, ResizeCopy, TypeOK
<1>9. CASE ResizeGrow(t) \/ ResizeSwap(t)
  <2>1. CASE pc[t] = "grow" /\ pc' = [pc EXCEPT ![t] = "swap"] /\ UNCHANGED <<locals, ret>>
    BY <1>0, <2>1 DEF Quiet, TypeOK
  <2> QED BY <1>9, <2>1 DEF ResizeGrow, ResizeSwap, Ends
<1>10. CASE FindHit(t) \/ DeleteHit(t)
  BY <1>0, <1>10 DEF Quiet, FindHit, DeleteHit, TypeOK
<1>11. CASE DeleteMark(t)
  <2>1. CASE pc' = [pc EXCEPT ![t] = "find"]
    BY <1>0, <1>11, <2>1 DEF Quiet, DeleteMark, TypeOK
  <2>2. CASE /\ pc' = [pc EXCEPT ![t] = "detach"]
             /\ LeadsTo(NextOf(walk[t].cur.node), hz[t][0].id)
             /\ heap' = [heap EXCEPT ![walk[t].cur.node].next = Link(hz[t][0].id, 1)]
    <3>1. pc[t] = "mark" /\ pc'[t] = "detach" /\ hz[t][0].id = walk[t].nxt.node
      BY <1>0, <1>11, <2>2 DEF DeleteMark, ControlAt, HasSuccessor, TypeOK
    <3> QED BY <1>0, <1>11, <2>2, <3>1
            DEF DeleteMark, Removes, Marking, LeadsTo, Load, NextOf, ControlAt
  <2> QED BY <1>11, <2>1, <2>2 DEF DeleteMark
<1>12. CASE DeleteDetach(t) \/ DeleteUncount(t) \/ DeleteTake(t)
  BY <1>0, <1>12 DEF Quiet, DeleteDetach, DeleteUncount, DeleteTake, TypeOK, CallType
<1>13. CASE Fault(t)
  BY <1>0, <1>13 DEF Quiet, Fault, OutOfBounds, WildRead
<1> QED
  BY <1>1, <1>2, <1>3, <1>4, <1>5, <1>6, <1>7, <1>8, <1>9, <1>10, <1>11, <1>12, <1>13
     DEF Progress, Insert, Resize, Lookup, Delete

LEMMA EndsCall ==
  ASSUME TypeOK, NEW t \in Threads, Ends(t)
  PROVE  /\ pc[t] # "idle" /\ pc'[t] = "idle" /\ call'[t] = NoArgs
         /\ \E out : Return(t, out)
<1>1. PICK out : Return(t, out)
  BY DEF Ends, InsertFoundKey, FindMiss, FindValue, DeleteErase
<1>2. pc[t] # "idle"
  BY DEF Ends, InsertFoundKey, FindMiss, FindValue, DeleteErase, Counting, Growing
<1> QED BY <1>1, <1>2 DEF Return, TypeOK

(* What a call was called with stays.                                      *)
LEMMA KindsStep ==
  ASSUME Sound, \A v \in Threads : KindsAt(v),
         NEW t \in Threads, Progress(t) \/ Begin(t), NEW u \in Threads
  PROVE  KindsAt(u)'
<1>0. /\ TypeOK /\ call[t] \in CallType /\ pc[t] \in Labels /\ KindsAt(u) /\ KindsAt(t) /\ OwnAt(u)
      /\ DeleteErase(t) => walk[t].cur.node \in Shared
  BY LocalTypes DEF Sound, Ownership, Control, ControlAt, NoDangling, Target, DeleteErase
<1>1. ASSUME call'[u].mine # NIL, call'[u].mine = call[u].mine, call'[u].val = call[u].val
      PROVE  heap'[call'[u].mine].value = call'[u].val
  <2>1. OwnAt(u)'
    <3>1. status' # "destroyed"
      BY Transitions DEF Sound
    <3> QED BY <3>1, OwnershipStep DEF Sound, Ownership
  <2>2. call[u].mine \in live \cap live' /\ call[u].mine \notin Shared
    <3>1. call[u].mine \in Own(u) /\ call'[u].mine \in Own(u)'
      BY <1>1 DEF Own
    <3> QED BY <1>0, <1>1, <2>1, <3>1, OwnTypes DEF OwnAt
  <2> QED BY <1>0, <1>1, <2>2, ValuesStay DEF KindsAt
<1>2. CASE u # t
  <2>1. pc'[u] = pc[u] /\ call'[u] = call[u]
    BY <1>0, <1>2, OthersStay
  <2> QED BY <1>0, <1>1, <2>1 DEF KindsAt
<1>3. CASE u = t /\ Begin(t)
  <2>1. ASSUME NEW k \in Keys, NEW v \in Vals, BeginInsert(t, k, v) PROVE KindsAt(t)'
    <3>1. NewNode \in Node
      BY <2>1 DEF BeginInsert, NewNode
    <3>2. /\ call'[t] = [kind |-> "insert", key |-> k, val |-> v, bucket |-> 0, tbl |-> table, mine |-> NewNode]
          /\ pc'[t] = "size" /\ heap'[NewNode].value = v
      BY <1>0, <2>1, <3>1 DEF BeginInsert, Goto, TypeOK
    <3> QED BY <3>2 DEF KindsAt, Counting, Growing, Taking, Kinds
  <2>2. ASSUME NEW kind \in {"find", "delete"}, NEW k \in Keys, BeginLookup(t, kind, k) PROVE KindsAt(t)'
    <3>1. /\ call'[t].kind = kind /\ call'[t].key = k /\ call'[t].mine = NIL
          /\ pc'[t] = "table"
      BY <1>0, <2>2 DEF BeginLookup, Goto, TypeOK
    <3> QED BY <3>1 DEF KindsAt, Counting, Growing, Taking, Kinds
  <2> QED BY <1>3, <2>1, <2>2 DEF Begin
<1>4. CASE u = t /\ Progress(t)
  <2>0. call'[t].mine \in {NIL, call[t].mine}
    <3>1. pc[t] # "idle"
      <4>1. Quiet(t) \/ Adds(t) \/ Removes(t) => pc[t] # "idle"
        BY DEF Quiet, Adds, Removes
      <4>2. Ends(t) => pc[t] # "idle"
        BY <1>0, EndsCall
      <4> QED BY <1>4, <4>1, <4>2, CallSteps
    <3>2. ~\E k \in Keys, v \in Vals : BeginInsert(t, k, v)
      BY <3>1 DEF BeginInsert, Goto
    <3> QED BY <1>0, <3>2, Transitions
  <2>1. CASE Quiet(t)
    <3>1. pc[t] = "take" => call'[t].mine = NIL
      BY <1>0, <1>4, <2>0 DEF KindsAt, OwnAt, Taking
    <3> QED BY <1>0, <1>1, <1>4, <2>0, <2>1, <3>1 DEF Quiet, KindsAt, Counting, Taking
  <2>2. CASE Adds(t)
    <3>1. /\ pc'[t] = "load" /\ call'[t].mine = NIL /\ call'[t].kind = "insert" /\ call'[t].key = call[t].key
          /\ call'[t].val = call[t].val /\ pc[t] = "link" /\ call[t].kind = "insert"
      <4>1. call' = [call EXCEPT ![t].mine = NIL] /\ pc' = [pc EXCEPT ![t] = "load"]
            /\ pc[t] = "link" /\ call[t].kind = "insert"
        BY <2>2 DEF Adds
      <4>2. call'[t] = [call[t] EXCEPT !.mine = NIL] /\ pc'[t] = "load"
        BY <1>0, <4>1 DEF TypeOK
      <4> QED BY <1>0, <4>1, <4>2 DEF CallType
    <3> QED BY <1>0, <1>4, <3>1 DEF KindsAt, Counting, Growing, Taking
  <2>3. CASE Removes(t)
    <3>1. pc'[t] = "detach" /\ call' = call /\ pc[t] = "mark"
      BY <1>0, <2>3 DEF Removes, TypeOK
    <3> QED BY <1>0, <1>1, <1>4, <2>3, <3>1 DEF KindsAt, Counting, Growing, Taking, Removes
  <2>4. CASE Ends(t)
    BY <1>0, <1>4, <2>4, EndsCall DEF KindsAt, NoArgs, Counting, Growing, Taking
  <2> QED BY <1>4, <2>1, <2>2, <2>3, <2>4, CallSteps
<1> QED BY <1>2, <1>3, <1>4

-----------------------------------------------------------------------------
(* What the steps do to the map.                                           *)

(* The value of key k, if the nodes P have one node for each key.          *)
ViewOf(h, P, k) ==
  IF \E n \in P : h[n].key = k THEN h[CHOOSE n \in P : h[n].key = k].value ELSE NIL

OneEach(h, P) == \A m, n \in P : h[m].key = h[n].key => m = n

LEMMA ViewAt ==
  ASSUME NEW h, NEW P, OneEach(h, P), NEW k
  PROVE  /\ \A n \in P : h[n].key = k => ViewOf(h, P, k) = h[n].value
         /\ (\A n \in P : h[n].key # k) => ViewOf(h, P, k) = NIL
<1>1. ASSUME NEW n \in P, h[n].key = k PROVE ViewOf(h, P, k) = h[n].value
  <2> DEFINE c == CHOOSE m \in P : h[m].key = k
  <2>1. c \in P /\ h[c].key = k
    BY <1>1
  <2>2. c = n
    BY <1>1, <2>1 DEF OneEach
  <2> QED BY <1>1, <2>2 DEF ViewOf
<1> QED BY <1>1 DEF ViewOf

LEMMA ViewIs == MapView = [k \in Keys |-> ViewOf(heap, Present, k)]
BY DEF MapView, ViewOf

(* The nodes that hold what a call looks for are those present with its key*)
LEMMA HeldIs ==
  ASSUME Sound, ListState, NEW t \in Threads, ~Initializing(t)
  PROVE  Held(t) = {n \in Present : heap[n].key = call[t].key}
<1>0. /\ call[t].key \in Nat /\ Hash(call[t].key) \in Nat /\ TypeOK
      /\ SoughtCode(t) = RegularCode(Hash(call[t].key)) /\ SoughtKey(t) = call[t].key
  BY LocalTypes, CodeTypes DEF Sound, SoughtCode, SoughtKey
<1>1. IsRegular(SoughtCode(t))
  BY <1>0, CodeKinds
<1>2. ASSUME NEW n \in Held(t) PROVE n \in Present /\ heap[n].key = call[t].key
  BY <1>0, <1>1, <1>2 DEF Held, Holding, Present, Marked
<1>3. ASSUME NEW n \in Present, heap[n].key = call[t].key PROVE n \in Held(t)
  <2>1. heap[n].code = RegularCode(Hash(heap[n].key))
    <3>1. heap[n].key \in 0 .. (Half - 1) => ~IsRegular(DummyCode(heap[n].key))
      BY CodeKinds
    <3> QED BY <3>1 DEF Present, ListState, NodeShape
  <2> QED BY <1>0, <1>3, <2>1 DEF Held, Holding, Present, Marked
<1> QED BY <1>2, <1>3

LEMMA ViewSame ==
  ASSUME NEW g, NEW P, OneEach(g, P), NEW h, NEW Q, OneEach(h, Q), NEW k,
         \A n \in P : g[n].key = k => n \in Q /\ h[n].key = k /\ h[n].value = g[n].value,
         \A n \in Q : h[n].key = k => n \in P /\ g[n].key = k
  PROVE  ViewOf(h, Q, k) = ViewOf(g, P, k)
<1>1. CASE \E n \in P : g[n].key = k
  <2>1. PICK n \in P : g[n].key = k
    BY <1>1
  <2>2. n \in Q /\ h[n].key = k /\ h[n].value = g[n].value
    BY <2>1
  <2>3. ViewOf(g, P, k) = g[n].value
    BY <2>1, ViewAt
  <2>4. ViewOf(h, Q, k) = h[n].value
    BY <2>2, ViewAt
  <2> QED BY <2>2, <2>3, <2>4
<1>2. CASE \A n \in P : g[n].key # k
  <2>1. \A n \in Q : h[n].key # k
    BY <1>2
  <2> QED BY <1>2, <2>1, ViewAt
<1> QED BY <1>1, <1>2

(* What becomes of the nodes that hold keys, and of their values.          *)
LEMMA PresentValues ==
  ASSUME Sound, \A v \in Threads : KindsAt(v) /\ TakenAt(v),
         NEW t \in Threads, Progress(t) \/ Begin(t)
  PROVE  /\ \A n \in Present : heap'[n].key = heap[n].key /\ heap'[n].value = heap[n].value
         /\ Adds(t) => /\ Present' = Present \cup {call[t].mine}
                       /\ heap'[call[t].mine].key = heap[call[t].mine].key
                       /\ heap'[call[t].mine].value = call[t].val
         /\ Removes(t) => walk[t].cur.node \in Present /\ Present' = Present \ {walk[t].cur.node}
         /\ ~Adds(t) /\ ~Removes(t) => Present' = Present
<1>0. /\ Present \subseteq Shared /\ Shared \subseteq Shared' /\ Shared \subseteq live /\ Shared' \subseteq live'
      /\ Present' \subseteq Shared' /\ TypeOK
  BY SharedGrows DEF Present, Shared, Sound
<1>1. \A n \in Present : heap'[n].key = heap[n].key /\ heap'[n].value = heap[n].value
  <2> SUFFICES ASSUME NEW n \in Present
               PROVE  heap'[n].key = heap[n].key /\ heap'[n].value = heap[n].value
    OBVIOUS
  <2>1. n \in live \cap live' /\ ~Marked(n)
    BY <1>0 DEF Present
  <2>2. ~(DeleteErase(t) /\ n = walk[t].cur.node)
    BY <2>1 DEF DeleteErase, TakenAt, Taking
  <2>3. heap'[n].key = heap[n].key
    BY <2>1, NodesStay DEF Sound
  <2> QED BY <2>1, <2>2, <2>3, ValuesStay
<1>2. ASSUME Adds(t)
      PROVE  /\ Present' = Present \cup {call[t].mine}
             /\ heap'[call[t].mine].key = heap[call[t].mine].key
             /\ heap'[call[t].mine].value = call[t].val
  <2>1. pc[t] = "link" /\ pc'[t] = "load" /\ call[t].mine # NIL
    BY <1>0, <1>2 DEF Adds, TypeOK
  <2>2. Present' = Present \cup {call[t].mine}
    BY <2>1, PresentStep DEF Sound
  <2>3. call[t].mine \in live \cap live'
    <3>1. call[t].mine \in Own(t) /\ OwnAt(t)
      BY <2>1 DEF Own, Sound, Ownership
    <3> QED BY <1>0, <2>2, <3>1 DEF OwnAt
  <2>4. ~DeleteErase(t)
    BY <2>1 DEF DeleteErase
  <2>5. heap'[call[t].mine].key = heap[call[t].mine].key
    BY <2>3, NodesStay DEF Sound
  <2> QED BY <2>1, <2>2, <2>3, <2>4, <2>5, ValuesStay DEF KindsAt
<1>3. ASSUME Removes(t)
      PROVE  walk[t].cur.node \in Present /\ Present' = Present \ {walk[t].cur.node}
  <2>1. pc[t] = "mark" /\ pc'[t] = "detach"
    BY <1>0, <1>3 DEF Removes, TypeOK
  <2> QED BY <2>1, PresentStep DEF Sound
<1>4. ASSUME ~Adds(t), ~Removes(t) PROVE Present' = Present
  <2>1. ~(pc[t] = "link" /\ pc'[t] = "load") /\ ~(pc[t] = "mark" /\ pc'[t] = "detach")
    <3>1. CASE Begin(t)
      BY <3>1 DEF Begin, BeginInsert, BeginLookup, Goto
    <3>2. CASE Quiet(t)
      BY <3>2 DEF Quiet, Counting, Growing, Taking
    <3>3. CASE Ends(t)
      BY <1>0, <3>3, EndsCall
    <3> QED BY <1>4, <3>1, <3>2, <3>3, CallSteps
  <2> QED BY <2>1, PresentStep DEF Sound
<1> QED BY <1>1, <1>2, <1>3, <1>4

(* Only the steps that link and mark change the map, and those that do not *)
(* know its value.                                                         *)
LEMMA ViewStep ==
  ASSUME Sound, ListState, ZeroState, NoDuplicates, NoDuplicates',
         \A v \in Threads : KindsAt(v) /\ TakenAt(v) /\ HitAt(v),
         NEW t \in Threads, Progress(t) \/ Begin(t)
  PROVE  /\ Adds(t) => /\ MapView[call[t].key] = NIL
                       /\ MapView' = [MapView EXCEPT ![call[t].key] = call[t].val]
         /\ Removes(t) => /\ heap[walk[t].cur.node].key = call[t].key
                          /\ MapView[call[t].key] = heap[walk[t].cur.node].value
                          /\ MapView' = [MapView EXCEPT ![call[t].key] = NIL]
         /\ ~Adds(t) /\ ~Removes(t) => MapView' = MapView
<1>0. OneEach(heap, Present) /\ OneEach(heap', Present')
  BY DEF OneEach, NoDuplicates
<1>1. /\ MapView = [k \in Keys |-> ViewOf(heap, Present, k)]
      /\ MapView' = [k \in Keys |-> ViewOf(heap', Present', k)]
  BY ViewIs DEF MapView, ViewOf
<1>2. \A n \in Present : heap'[n].key = heap[n].key /\ heap'[n].value = heap[n].value
  BY PresentValues
<1>3. ASSUME Adds(t)
      PROVE  /\ MapView[call[t].key] = NIL
             /\ MapView' = [MapView EXCEPT ![call[t].key] = call[t].val]
  <2> DEFINE m == call[t].mine
             x == call[t].key
  <2>0. /\ Present' = Present \cup {m} /\ heap'[m].key = heap[m].key /\ heap'[m].value = call[t].val
        /\ ~Initializing(t) /\ Linking(t) /\ m # NIL
    BY <1>3, PresentValues DEF Adds
  <2>1. heap[m].key = x /\ x \in Keys
    BY <1>3, <2>0 DEF ListState, ListAt, SoughtAt, MadeAt, KindsAt, Adds
  <2>2. \A n \in Present : heap[n].key # x
    <3>1. Held(t) = {}
      BY <2>0, LinkedAlone DEF Held
    <3> QED BY <2>0, <3>1, HeldIs
  <2> HIDE DEF m, x
  <2>3. ViewOf(heap, Present, x) = NIL
    BY <1>0, <2>2, ViewAt
  <2>4. ViewOf(heap', Present', x) = call[t].val
    BY <1>0, <2>0, <2>1, ViewAt
  <2>5. ASSUME NEW k, k # x PROVE ViewOf(heap', Present', k) = ViewOf(heap, Present, k)
    <3>1. /\ \A n \in Present : heap[n].key = k => n \in Present' /\ heap'[n].key = k /\ heap'[n].value = heap[n].value
          /\ \A n \in Present' : heap'[n].key = k => n \in Present /\ heap[n].key = k
      BY <1>2, <2>0, <2>1, <2>5
    <3> QED BY <1>0, <3>1, ViewSame
  <2>6. MapView' = [MapView EXCEPT ![x] = call[t].val]
    BY <1>1, <2>1, <2>4, <2>5
  <2> QED BY <1>1, <2>1, <2>3, <2>6 DEF x
<1>4. ASSUME Removes(t)
      PROVE  /\ heap[walk[t].cur.node].key = call[t].key
             /\ MapView[call[t].key] = heap[walk[t].cur.node].value
             /\ MapView' = [MapView EXCEPT ![call[t].key] = NIL]
  <2> DEFINE m == walk[t].cur.node
             x == call[t].key
  <2>0. m \in Present /\ Present' = Present \ {m}
    BY <1>4, PresentValues
  <2>1. heap[m].key = x /\ x \in Keys
    <3>1. ~Initializing(t) /\ pc[t] = "mark"
      BY <1>4 DEF Removes, Sound, Control, ControlAt, InInit, Searching
    <3> QED BY <3>1 DEF HitAt, HoldsSought, CurKey, SoughtKey, KindsAt
  <2> HIDE DEF m, x
  <2>3. ViewOf(heap, Present, x) = heap[m].value
    BY <1>0, <2>0, <2>1, ViewAt
  <2>4. ViewOf(heap', Present', x) = NIL
    <3>1. \A n \in Present' : heap'[n].key # x
      BY <1>0, <1>2, <2>0, <2>1 DEF OneEach
    <3> QED BY <1>0, <3>1, ViewAt
  <2>5. ASSUME NEW k, k # x PROVE ViewOf(heap', Present', k) = ViewOf(heap, Present, k)
    <3>1. /\ \A n \in Present : heap[n].key = k => n \in Present' /\ heap'[n].key = k /\ heap'[n].value = heap[n].value
          /\ \A n \in Present' : heap'[n].key = k => n \in Present /\ heap[n].key = k
      BY <1>2, <2>0, <2>1, <2>5
    <3> QED BY <1>0, <3>1, ViewSame
  <2>6. MapView' = [MapView EXCEPT ![x] = NIL]
    BY <1>1, <2>1, <2>4, <2>5
  <2> QED BY <1>1, <2>1, <2>3, <2>6 DEF x, m
<1>5. ASSUME ~Adds(t), ~Removes(t) PROVE MapView' = MapView
  <2>1. Present' = Present
    BY <1>5, PresentValues
  <2>2. ASSUME NEW k PROVE ViewOf(heap', Present', k) = ViewOf(heap, Present, k)
    <3>1. /\ \A n \in Present : heap[n].key = k => n \in Present' /\ heap'[n].key = k /\ heap'[n].value = heap[n].value
          /\ \A n \in Present' : heap'[n].key = k => n \in Present /\ heap[n].key = k
      BY <1>2, <2>1
    <3> QED BY <1>0, <3>1, ViewSame
  <2> QED BY <1>1, <2>2
<1> QED BY <1>3, <1>4, <1>5

LEMMA ValuesKeptStep ==
  ASSUME Sound, ValuesKept, \A v \in Threads : KindsAt(v) /\ TakenAt(v),
         NEW t \in Threads, Progress(t) \/ Begin(t)
  PROVE  ValuesKept'
<1>1. \A n \in Present : heap'[n].value \in Vals
  BY PresentValues DEF ValuesKept
<1>2. CASE Adds(t)
  <2>1. call[t].val \in Vals
    BY <1>2 DEF Adds, KindsAt
  <2> QED BY <1>1, <1>2, <2>1, PresentValues DEF ValuesKept
<1>3. CASE ~Adds(t)
  <2>1. Present' \subseteq Present
    BY <1>3, PresentValues
  <2> QED BY <1>1, <2>1 DEF ValuesKept
<1> QED BY <1>2, <1>3

(* Where the labels of the walk and of what follows it are reached from.   *)
LEMMA ReachedBy ==
  ASSUME TypeOK, NEW t \in Threads, Progress(t) \/ Begin(t), ~Fault(t)
  PROVE  /\ pc'[t] = "next" => FindReadHead(t) \/ FindVerify(t) \/ FindUnlink(t)
         /\ pc'[t] = "verify" => FindReadNext(t)
         /\ pc'[t] = "found" => FindReadNext(t) \/ FindVerify(t)
         /\ pc'[t] = "mark" => DeleteHit(t)
         /\ pc'[t] = "value" => FindHit(t)
         /\ pc'[t] = "erase" => DeleteTake(t)
<1>0. pc \in [Threads -> Labels]
  BY DEF TypeOK
<1> USE DEF Goto
<1>1. CASE Begin(t) \/ CheckBucket(t) \/ BucketInit(t)
  BY <1>0, <1>1 DEF Begin, BeginInsert, BeginLookup, CheckBucket,
     BucketInit, InitCheckParent, InitAlloc, InitFoundDummy, InitReload, InitPublish
<1>2. CASE ListFind(t)
  BY <1>0, <1>2 DEF ListFind, FindReadTable, FindReadHead, FindReadNext, FindVerify, FindUnlink
<1>3. CASE Insert(t)
  BY <1>0, <1>3 DEF Insert, InsertReadSize, InsertPrepare, InsertLink, InsertFoundKey, InsertLoadSize,
     InsertCount, Return
<1>4. CASE Resize(t)
  BY <1>0, <1>4 DEF Resize, ResizeAlloc, ResizeCopy, ResizeGrow, ResizeSwap, Return
<1>5. CASE Lookup(t)
  BY <1>0, <1>5 DEF Lookup, LookupReadTable, FindMiss, FindHit, FindValue, Return
<1>6. CASE Delete(t)
  BY <1>0, <1>6 DEF Delete, DeleteHit, DeleteMark, DeleteDetach, DeleteUncount, DeleteTake, DeleteErase, Return
<1> QED BY <1>1, <1>2, <1>3, <1>4, <1>5, <1>6 DEF Progress

LEMMA TakenStep ==
  ASSUME Sound, TakenOnce, \A v \in Threads : KindsAt(v) /\ TakenAt(v),
         NEW t \in Threads, Progress(t) \/ Begin(t), ~Fault(t)
  PROVE  TakenOnce' /\ \A u \in Threads : TakenAt(u)'
<1>0. /\ TypeOK
      /\ \A u \in Threads : pc[u] \in Taking => walk[u].cur.node \in Shared
      /\ Shared \subseteq live /\ Shared \subseteq Shared' /\ Shared' \subseteq live'
  <2>1. \A u \in Threads : pc[u] \in Taking => walk[u].cur.node # NIL
    BY DEF Taking, Sound, Control, ControlAt
  <2> QED BY <2>1, SharedGrows DEF Sound, NoDangling, Target, Shared
<1>1. \A n \in Shared : Marked(n) => Marked(n)'
  BY ListNodesStay DEF Marked
<1>2. \A u \in Threads \ {t} : pc'[u] = pc[u] /\ walk'[u] = walk[u] /\ call'[u] = call[u]
  BY <1>0, OthersStay
<1>3. \/ pc'[t] \notin Taking
      \/ pc[t] \in Taking /\ walk'[t] = walk[t]
      \/ /\ pc'[t] = "detach" /\ walk'[t] = walk[t]
         /\ walk[t].cur.node \in Shared /\ ~Marked(walk[t].cur.node) /\ Marked(walk[t].cur.node)'
  <2>1. CASE Begin(t)
    BY <1>0, <2>1 DEF Begin, BeginInsert, BeginLookup, Goto, TypeOK, Taking
  <2>2. CASE Quiet(t)
    BY <2>2 DEF Quiet
  <2>3. CASE Adds(t)
    BY <1>0, <2>3 DEF Adds, TypeOK, Taking
  <2>4. CASE Removes(t)
    <3>1. pc'[t] = "detach" /\ walk' = walk /\ Marking(t)
      BY <1>0, <2>4 DEF Removes, TypeOK
    <3>2. /\ walk[t].cur.node \in Shared /\ ~Marked(walk[t].cur.node)
          /\ heap' = [heap EXCEPT ![walk[t].cur.node].next = Link(walk[t].nxt.node, 1)]
      BY <3>1, MarkEffect
    <3>3. heap'[walk[t].cur.node].next.bit = 1
      BY <1>0, <3>2, LinkParts, OwnTypes DEF TypeOK, NodeType
    <3> QED BY <3>1, <3>2, <3>3 DEF Marked
  <2>5. CASE Ends(t)
    BY <1>0, <2>5, EndsCall DEF Taking
  <2> QED BY <2>1, <2>2, <2>3, <2>4, <2>5, CallSteps
<1>4. ASSUME NEW u \in Threads, pc'[u] \in Taking PROVE heap'[walk'[u].cur.node].next.bit = 1
  BY <1>0, <1>1, <1>2, <1>3, <1>4 DEF TakenAt, Marked
<1>5. ASSUME NEW u \in Threads, pc'[u] = "erase" PROVE call'[u].val = heap'[walk'[u].cur.node].value
  <2>1. CASE u # t
    <3>1. pc[u] = "erase" /\ walk[u].cur.node \in live \cap live'
      BY <1>0, <1>2, <1>5, <2>1 DEF Taking
    <3>2. ~(DeleteErase(t) /\ walk[u].cur.node = walk[t].cur.node)
      BY <2>1, <3>1 DEF TakenOnce, Taking, DeleteErase
    <3> QED BY <1>2, <2>1, <3>1, <3>2, ValuesStay DEF TakenAt
  <2>2. CASE u = t
    <3>1. DeleteTake(t)
      BY <1>5, <2>2, ReachedBy, <1>0
    <3>2. call'[t].val = heap[walk[t].cur.node].value /\ UNCHANGED <<heap, walk>>
      BY <1>0, <3>1 DEF DeleteTake, TypeOK, CallType
    <3> QED BY <2>2, <3>2
  <2> QED BY <2>1, <2>2
<1>6. TakenOnce'
  <2> SUFFICES ASSUME NEW u \in Threads, NEW v \in Threads, pc'[u] \in Taking, pc'[v] \in Taking,
                      walk'[u].cur.node = walk'[v].cur.node
               PROVE  u = v
    BY DEF TakenOnce, Taking
  <2> QED BY <1>2, <1>3 DEF TakenOnce, TakenAt
<1> QED BY <1>4, <1>5, <1>6 DEF TakenAt, Taking, Marked

-----------------------------------------------------------------------------
(* What the steps do not add to the list.                                  *)

LEMMA AfterClosed ==
  ASSUME NEW h, NEW N \in SUBSET Node, Closed(h, N), NEW r \in N
  PROVE  /\ After(h, r) \subseteq N
         /\ h[r].next.node # NIL => h[r].next.node \in After(h, r)
         /\ Closed(h, After(h, r))
         /\ NIL \notin After(h, r)
<1>0. NIL \notin Node
  BY DEF Node, NIL
<1>1. CASE h[r].next.node = NIL
  BY <1>1 DEF After, Closed
<1>2. CASE h[r].next.node # NIL
  <2> DEFINE s == h[r].next.node
  <2>1. s \in N /\ After(h, r) = From(h, s)
    BY <1>2 DEF Closed, After
  <2> HIDE DEF s
  <2>2. From(h, s) \subseteq N /\ s \in From(h, s) /\ Closed(h, From(h, s))
    BY <2>1, FromClosed
  <2> QED BY <1>0, <2>1, <2>2 DEF s
<1> QED BY <1>1, <1>2

(* Linking node n adds nothing else.                                       *)
LEMMA InsertAdds ==
  ASSUME NEW g, NEW h, NEW N \in SUBSET Node, Closed(g, N), NEW q, NEW n, Inserts(g, h, N, q, n),
         NEW r \in N
  PROVE  After(h, r) \subseteq After(g, r) \cup {n}
<1>0. /\ After(g, r) \subseteq N /\ n \in Node \ N
      /\ g[r].next.node # NIL => g[r].next.node \in After(g, r)
      /\ Closed(g, After(g, r))
  BY AfterClosed DEF Inserts
<1> DEFINE S == IF q = r \/ q \in After(g, r) THEN After(g, r) \cup {n} ELSE After(g, r)
<1>1. S \in SUBSET Node /\ S \subseteq After(g, r) \cup {n}
  BY <1>0
<1>2. Closed(h, S)
  <2> SUFFICES ASSUME NEW z \in S, h[z].next.node # NIL PROVE h[z].next.node \in S
    BY DEF Closed
  <2>1. CASE z = n
    BY <1>0, <2>1 DEF Inserts, Closed
  <2>2. CASE z = q /\ z # n
    BY <1>0, <2>2 DEF Inserts
  <2>3. CASE z # q /\ z # n
    BY <1>0, <2>3 DEF Inserts, Closed
  <2> QED BY <2>1, <2>2, <2>3
<1>3. h[r].next.node \in S \cup {NIL}
  BY <1>0 DEF Inserts
<1> HIDE DEF S
<1> QED BY <1>1, <1>2, <1>3, FromLeast DEF After

(* Unlinking a node adds nothing.                                          *)
LEMMA RemoveAdds ==
  ASSUME NEW g, NEW h, NEW N \in SUBSET Node, Closed(g, N),
         NEW q \in N, NEW c \in N,
         g[q].next.node = c, h[q].next.node = g[c].next.node,
         \A m \in N \ {q} : h[m].next.node = g[m].next.node,
         NEW r \in N
  PROVE  After(h, r) \subseteq After(g, r)
<1>0. /\ After(g, r) \subseteq N
      /\ g[r].next.node # NIL => g[r].next.node \in After(g, r)
      /\ Closed(g, After(g, r))
      /\ NIL \notin Node
  BY AfterClosed DEF Node, NIL
<1>1. Closed(h, After(g, r))
  <2> SUFFICES ASSUME NEW z \in After(g, r) PROVE h[z].next.node \in After(g, r) \cup {NIL}
    BY DEF Closed
  <2>1. CASE z = q
    BY <1>0, <2>1 DEF Closed
  <2>2. CASE z # q
    BY <1>0, <2>2 DEF Closed
  <2> QED BY <2>1, <2>2
<1>2. h[r].next.node \in After(g, r) \cup {NIL}
  BY <1>0 DEF Closed
<1> QED BY <1>0, <1>1, <1>2, FromLeast DEF After

(* What comes after a node, and was on the list before, came after it then.*)
LEMMA NothingNew ==
  ASSUME Sound, ZeroState, ListState, NEW t \in Threads, Progress(t) \/ Begin(t),
         NEW r \in Shared, NEW x \in Shared, x \in After(heap', r)
  PROVE  x \in After(heap, r)
<1>0. Shared \in SUBSET Node /\ Closed(heap, Shared) /\ TypeOK
  BY ListNodesStay, OwnTypes DEF Sound
<1>1. ASSUME \A n \in Shared : heap'[n].next.node = heap[n].next.node PROVE x \in After(heap, r)
  <2>1. Closed(heap', Shared)
    BY <1>0, <1>1 DEF Closed
  <2> QED BY <1>0, <1>1, <2>1, SameKeeps
<1>2. CASE Linking(t)
  <2> DEFINE q == walk[t].prev.ix
             n == Inserted(t)
             c == walk[t].cur.node
  <2>1. /\ q \in Shared /\ n \in Node \ Shared
        /\ heap[q].next = Link(c, 0) /\ heap[n].next = Link(c, 0)
        /\ heap' = [heap EXCEPT ![q].next = Link(n, 0)]
    BY <1>2, LinkEffect
  <2> HIDE DEF q, n, c
  <2>2. Inserts(heap, heap', Shared, q, n)
    BY <1>0, <2>1, LinkParts DEF Inserts, TypeOK, NodeType
  <2> QED BY <1>0, <2>1, <2>2, InsertAdds
<1>3. CASE Unlinking(t)
  <2> DEFINE q == walk[t].prev.ix
             c == walk[t].cur.node
             m == walk[t].nxt.node
  <2>1. /\ q \in Shared /\ c \in Shared
        /\ heap[q].next = Link(c, 0) /\ heap[c].next.node = m
        /\ heap' = [heap EXCEPT ![q].next = Link(m, 0)]
    BY <1>3, UnlinkEffect
  <2> HIDE DEF q, c, m
  <2>2. /\ heap[q].next.node = c /\ heap'[q].next.node = heap[c].next.node
        /\ \A k \in Shared \ {q} : heap'[k].next.node = heap[k].next.node
    BY <1>0, <2>1, LinkParts DEF TypeOK, NodeType
  <2>3. q \in Shared /\ c \in Shared
    BY <2>1
  <2> QED BY <1>0, <2>2, <2>3, RemoveAdds
<1> QED BY <1>1, <1>2, <1>3, StepKinds, MarkEffect, StillEffect

(* While a walk's link to its current node holds, what it looks for is not *)
(* before that node.                                                       *)
LEMMA HeldFromHere ==
  ASSUME Sound, ZeroState, ListState, NEW t \in Threads, pc[t] \in {"verify", "unlink"},
         LeadsTo(walk[t].prev, walk[t].cur.node), ~Initializing(t)
  PROVE  /\ walk[t].cur.node \in Shared
         /\ Held(t) \subseteq From(heap, walk[t].cur.node)
         /\ From(heap, walk[t].cur.node) = {walk[t].cur.node} \cup After(heap, walk[t].cur.node)
<1> DEFINE c == walk[t].cur.node
           p == walk[t].prev
<1>0. /\ c \in Shared /\ c # NIL /\ TypeOK /\ Shared \in SUBSET Node /\ Closed(heap, Shared)
      /\ StartAt(t) /\ BehindAt(t) /\ TodoAt(t) /\ BucketAt(t)
  <2>1. c # NIL
    BY DEF Sound, Control, ControlAt
  <2> QED BY <2>1, OwnTypes DEF Sound, NoDangling, Target, ListState, ListAt, SoughtAt, Closed
<1>1. From(heap, c) = {c} \cup After(heap, c)
  BY <1>0, FromSplits
<1>2. CASE p.tb = 0
  <2>1. Behind(p.ix, SoughtCode(t), SoughtKey(t))
    BY <1>0, <1>2 DEF BehindAt, Stepping
  <2>2. heap[p.ix].next = Link(c, 0)
    BY <1>2 DEF LeadsTo, Load
  <2>3. ~Marked(p.ix) /\ After(heap, p.ix) = From(heap, c)
    BY <1>0, <2>2, LinkParts DEF Marked, After
  <2> QED BY <1>0, <1>1, <2>1, <2>3 DEF Behind, Held
<1>3. CASE p.tb # 0
  <2>1. IsDummy(c, FindBucket(t)) /\ pc[t] = "verify"
    BY <1>0, <1>3 DEF StartAt, Stepping
  <2>2. heap[c].code < SoughtCode(t) /\ ~HoldsSought(t) /\ heap[c].code <= SoughtCode(t)
    <3>1. heap[c].code < SoughtCode(t)
      BY <2>1, StartBefore DEF IsDummy, Searching
    <3>2. heap[c].code \in Int /\ SoughtCode(t) \in Int
      BY <1>0, SoughtCodes, CodeTypes DEF TypeOK, NodeType, Word
    <3> QED BY <3>1, <3>2 DEF HoldsSought, CurCode
  <2>3. Behind(c, SoughtCode(t), SoughtKey(t))
    BY <2>1, <2>2, GoesOn DEF CurCode
  <2>4. ~Marked(c)
    <3>1. FindBucket(t) \in Nat
      BY LocalTypes DEF FindBucket, Sound
    <3> QED BY <2>1, <3>1, DummyUnmarked
  <2> QED BY <1>0, <1>1, <2>3, <2>4 DEF Behind, Held
<1> QED BY <1>0, <1>1, <1>2, <1>3

(* What is held is looked for.                                             *)
LEMMA HeldIsSought ==
  ASSUME NEW t \in Threads, walk[t].cur.node # NIL, walk[t].cur.node \in Held(t)
  PROVE  HoldsSought(t) /\ ~Marked(walk[t].cur.node)
BY DEF Held, Holding, HoldsSought, CurCode, CurKey, Marked

(* A call has seen the absence of a key that nothing holds.                *)
LEMMA SeenNothing ==
  ASSUME Sound, ListState, NoDuplicates, NEW t \in Threads, KindsAt(t), SeenAt(t), pc[t] # "idle",
         ~Initializing(t), Held(t) = {}
  PROVE  NIL \in seen[t]
<1>1. \A n \in Present : heap[n].key # call[t].key
  BY HeldIs
<1>2. ViewOf(heap, Present, call[t].key) = NIL
  BY <1>1, ViewAt DEF OneEach, NoDuplicates
<1> QED BY <1>2, ViewIs DEF SeenAt, KindsAt

(* And the value of one that an unmarked node holds.                       *)
LEMMA SeenValue ==
  ASSUME Sound, ListState, NoDuplicates, ValuesKept, NEW t \in Threads, KindsAt(t), SeenAt(t),
         pc[t] # "idle", ~Initializing(t), NEW n \in Held(t)
  PROVE  heap[n].value \in seen[t] /\ heap[n].value # NIL
<1>1. n \in Present /\ heap[n].key = call[t].key
  BY HeldIs
<1>2. ViewOf(heap, Present, call[t].key) = heap[n].value
  BY <1>1, ViewAt DEF OneEach, NoDuplicates
<1>3. heap[n].value # NIL
  BY <1>1, ConstantsAssumption DEF ValuesKept, NIL
<1> QED BY <1>2, <1>3, ViewIs DEF SeenAt, KindsAt

-----------------------------------------------------------------------------
(* What the steps do to what the calls know of their keys.                 *)

Before == Sound /\ ZeroState /\ ListState /\ NoDuplicates /\ CallsState

(* What HNext does to the history variable.                                *)
Witnessed ==
  seen' = [t \in Threads |-> IF pc'[t] = "idle" THEN {} ELSE seen[t] \cup {MapView'[call'[t].key]}]

LEMMA SeenStays ==
  ASSUME Before, Witnessed, NEW t \in Threads, Progress(t) \/ Begin(t),
         NEW u \in Threads, pc'[u] # "idle", pc[u] # "idle"
  PROVE  /\ seen[u] \subseteq seen'[u] /\ MapView'[call[u].key] \in seen'[u]
         /\ call'[u].key = call[u].key /\ call'[u].kind = call[u].kind
<1>0. TypeOK
  BY DEF Before, Sound
<1>1. call'[u].key = call[u].key /\ call'[u].kind = call[u].kind
  <2>1. CASE u # t
    BY <1>0, <2>1, OthersStay
  <2>2. CASE u = t /\ Progress(t)
    <3>1. ~Ends(t)
      BY <1>0, <2>2, EndsCall
    <3>2. Adds(t) => call'[t].key = call[t].key /\ call'[t].kind = call[t].kind
      BY <1>0, LocalTypes DEF Adds, TypeOK, CallType
    <3>3. Removes(t) => call'[t].key = call[t].key /\ call'[t].kind = call[t].kind
      BY DEF Removes
    <3> QED BY <2>2, <3>1, <3>2, <3>3, CallSteps DEF Before, Quiet
  <2>3. CASE u = t /\ Begin(t)
    BY <2>3 DEF Begin, BeginInsert, BeginLookup, Goto
  <2> QED BY <2>1, <2>2, <2>3
<1> QED BY <1>1 DEF Witnessed

LEMMA SeenStep ==
  ASSUME Before, Witnessed, ValuesKept', NoDuplicates', NEW t \in Threads, Progress(t) \/ Begin(t)
  PROVE  /\ \A u \in Threads : SeenAt(u)'
         /\ seen' \in [Threads -> SUBSET (Vals \cup {NIL})]
<1>1. \A u \in Threads : SeenAt(u)'
  BY DEF SeenAt, Witnessed
<1>2. \A u \in Threads : KindsAt(u)'
  BY KindsStep DEF Before, CallsState
<1>3. ASSUME NEW k \in Keys PROVE MapView'[k] \in Vals \cup {NIL}
  <2>1. MapView'[k] = ViewOf(heap', Present', k)
    BY DEF MapView, ViewOf
  <2>2. OneEach(heap', Present')
    BY DEF OneEach, NoDuplicates
  <2> QED BY <2>1, <2>2, ViewAt DEF ValuesKept
<1>4. ASSUME NEW u \in Threads PROVE (IF pc'[u] = "idle" THEN {} ELSE seen[u] \cup {MapView'[call'[u].key]}) \in SUBSET (Vals \cup {NIL})
  <2>1. seen[u] \subseteq Vals \cup {NIL}
    BY DEF Before, CallsState
  <2>2. pc'[u] # "idle" => call'[u].key \in Keys
    BY <1>2 DEF KindsAt
  <2> QED BY <1>3, <2>1, <2>2
<1> QED BY <1>1, <1>4 DEF Witnessed

(* The nodes of another call's walk stay what they are.                    *)
LEMMA OthersSought ==
  ASSUME Before, NEW t \in Threads, Progress(t) \/ Begin(t), NEW u \in Threads \ {t}
  PROVE  /\ pc'[u] = pc[u] /\ call'[u] = call[u] /\ walk'[u] = walk[u]
         /\ Initializing(u)' = Initializing(u)
         /\ SoughtCode(u)' = SoughtCode(u) /\ SoughtKey(u)' = SoughtKey(u)
         /\ walk[u].cur.node # NIL =>
              /\ walk[u].cur.node \in Shared /\ walk[u].cur.node \in live \cap live'
              /\ CurCode(u)' = CurCode(u)
         /\ HoldsSought(u)' = HoldsSought(u)
<1>1. /\ pc'[u] = pc[u] /\ call'[u] = call[u] /\ walk'[u] = walk[u] /\ task'[u] = task[u]
  BY OthersStay DEF Before, Sound
<1>2. /\ Initializing(u)' = Initializing(u)
      /\ SoughtCode(u)' = SoughtCode(u) /\ SoughtKey(u)' = SoughtKey(u)
  BY <1>1 DEF Initializing, SoughtCode, SoughtKey
<1>3. walk[u].cur.node # NIL =>
        walk[u].cur.node \in Shared /\ walk[u].cur.node \in live \cap live'
  BY SharedGrows DEF Before, Sound, NoDangling, Target, Shared
<1>4. walk[u].cur.node # NIL => CurCode(u)' = CurCode(u) /\ CurKey(u)' = CurKey(u)
  BY <1>1, <1>3, ListNodesStay DEF Before, CurCode, CurKey
<1> QED BY <1>1, <1>2, <1>3, <1>4 DEF HoldsSought

LEMMA HitOthers ==
  ASSUME Before, Witnessed, NoDuplicates', NEW t \in Threads, Progress(t) \/ Begin(t),
         NEW u \in Threads \ {t}
  PROVE  HitAt(u)'
<1> DEFINE c == walk[u].cur.node
<1>0. /\ HitAt(u) /\ HitAt(t) /\ KindsAt(u) /\ TakenAt(t)
      /\ \A v \in Threads : KindsAt(v) /\ TakenAt(v) /\ HitAt(v)
  BY DEF Before, CallsState
<1>1. pc'[u] \in {"mark", "value"} => HoldsSought(u)'
  BY <1>0, OthersSought DEF HitAt
<1>2. ASSUME pc[u] # "idle", Met(u), HoldsSought(u), ~Initializing(u) PROVE Met(u)'
  <2>0. /\ seen[u] \subseteq seen'[u] /\ MapView'[call[u].key] \in seen'[u]
        /\ c \in Shared /\ c \in live \cap live' /\ walk'[u] = walk[u]
    BY <1>2, SeenStays, OthersSought DEF HoldsSought
  <2>1. heap'[c].value \in seen'[u]
    <3>1. CASE heap'[c].value = heap[c].value
      BY <1>2, <2>0, <3>1 DEF Met
    <3>2. CASE DeleteErase(t) /\ c = walk[t].cur.node
      <4>1. heap'[c].value = NIL
        BY <3>2, ValuesStay DEF Before
      <4>2. Marked(c)
        BY <1>0, <3>2 DEF TakenAt, Taking, DeleteErase
      <4> QED BY <1>2, <2>0, <4>1, <4>2 DEF Met
    <3> QED BY <2>0, <3>1, <3>2, ValuesStay DEF Before
  <2>2. ASSUME heap'[c].next.bit = 1 PROVE NIL \in seen'[u]
    <3>1. CASE Marked(c)
      BY <1>2, <2>0, <3>1 DEF Met
    <3>2. CASE ~Marked(c)
      <4>1. pc[t] = "mark" /\ pc'[t] = "detach" /\ c = walk[t].cur.node
        BY <2>0, <2>2, <3>2, NodesStay DEF Before, Sound, Marked
      <4>2. Removes(t)
        <5>1. ~Begin(t) /\ ~Quiet(t) /\ ~Adds(t)
          BY <4>1 DEF Begin, BeginInsert, BeginLookup, Goto, Quiet, Taking, Adds
        <5>2. ~Ends(t)
          BY <4>1, EndsCall DEF Before, Sound
        <5> QED BY <5>1, <5>2, CallSteps DEF Before
      <4>3. /\ heap[c].key = call[t].key
            /\ MapView' = [MapView EXCEPT ![call[t].key] = NIL]
        BY <1>0, <4>1, <4>2, ViewStep DEF Before
      <4>4. heap[c].key = call[u].key
        BY <1>2 DEF HoldsSought, CurKey, SoughtKey
      <4>5. MapView'[call[u].key] = NIL
        BY <1>0, <1>2, <4>3, <4>4 DEF MapView, KindsAt
      <4> QED BY <2>0, <4>5
    <3> QED BY <3>1, <3>2
  <2>3. seen'[u] \ {NIL} # {}
    BY <1>2, <2>0 DEF Met
  <2> QED BY <2>0, <2>1, <2>2, <2>3 DEF Met, Marked
<1> QED BY <1>0, <1>1, <1>2, OthersSought DEF HitAt

LEMMA HitStep ==
  ASSUME Before, Witnessed, NEW t \in Threads, Progress(t) \/ Begin(t), ~Fault(t)
  PROVE  HitAt(t)'
<1>0. /\ TypeOK /\ HitAt(t) /\ KindsAt(t) /\ SeenAt(t) /\ walk[t] \in WalkType /\ call[t] \in CallType
      /\ \A v \in Threads : KindsAt(v)
  BY LocalTypes DEF Before, CallsState, Sound
<1> USE DEF Goto
<1>1. ASSUME FindVerify(t) \/ DeleteHit(t) \/ FindHit(t), pc'[t] \in {"found", "mark", "value"}
      PROVE  HitAt(t)'
  <2>1. /\ pc[t] \in {"found", "verify"} /\ walk'[t] = walk[t] /\ UNCHANGED <<heap, call, task>>
        /\ pc[t] = "verify" => walk[t].nxt.bit = 0
        /\ pc'[t] \in {"mark", "value"} => HoldsSought(t)
    BY <1>0, <1>1 DEF FindVerify, DeleteHit, FindHit, TypeOK, locals, ResultMatches
  <2>2. seen[t] \subseteq seen'[t]
    BY <1>1, <2>1, SeenStays
  <2>3. /\ HoldsSought(t)' = HoldsSought(t) /\ Initializing(t)' = Initializing(t)
    BY <2>1 DEF HoldsSought, CurCode, CurKey, SoughtCode, SoughtKey, Initializing
  <2>4. Met(t) => Met(t)'
    BY <2>1, <2>2 DEF Met, Marked
  <2> QED BY <1>0, <2>1, <2>3, <2>4 DEF HitAt
<1>2. CASE FindReadNext(t)
  <2>1. CASE walk[t].cur.node = NIL
    <3>1. pc'[t] = "found" /\ UNCHANGED <<heap, call, task, walk>>
      BY <1>0, <1>2, <2>1 DEF FindReadNext, TypeOK
    <3> QED BY <2>1, <3>1 DEF HitAt, HoldsSought
  <2>2. CASE walk[t].cur.node # NIL
    <3>1. /\ pc[t] = "next" /\ pc'[t] = "verify" /\ UNCHANGED <<heap, call, task>>
          /\ walk' = [walk EXCEPT ![t].nxt = heap[walk[t].cur.node].next]
      BY <1>0, <1>2, <2>2 DEF FindReadNext, TypeOK
    <3>2. walk'[t].cur = walk[t].cur /\ walk'[t].nxt = heap[walk[t].cur.node].next
      BY <1>0, <3>1 DEF TypeOK, WalkType
    <3>3. /\ HoldsSought(t)' = HoldsSought(t) /\ Initializing(t)' = Initializing(t)
      BY <3>1, <3>2 DEF HoldsSought, CurCode, CurKey, SoughtCode, SoughtKey, Initializing
    <3>4. seen[t] \subseteq seen'[t]
      BY <3>1, SeenStays
    <3>5. ASSUME walk'[t].nxt.bit = 0, ~Initializing(t), HoldsSought(t) PROVE Met(t)'
      <4>1. walk[t].cur.node \in Held(t)
        BY <2>2, <3>2, <3>5 DEF Before, Sound, NoDangling, Target, Held, Holding, HoldsSought, CurCode, CurKey
      <4>2. heap[walk[t].cur.node].value \in seen[t] /\ heap[walk[t].cur.node].value # NIL
        BY <1>0, <3>1, <3>5, <4>1, SeenValue DEF Before, CallsState
      <4> QED BY <3>1, <3>2, <3>4, <3>5, <4>2 DEF Met, Marked
    <3> QED BY <3>1, <3>2, <3>3, <3>5 DEF HitAt
  <2> QED BY <2>1, <2>2
<1>3. CASE pc'[t] \notin {"found", "mark", "value", "verify"}
  BY <1>3 DEF HitAt
<1> QED BY <1>0, <1>1, <1>2, <1>3, ReachedBy

LEMMA MissOthers ==
  ASSUME Before, Witnessed, NEW t \in Threads, Progress(t) \/ Begin(t), NEW u \in Threads \ {t}
  PROVE  MissAt(u)'
<1> DEFINE c == walk[u].cur.node
<1>0. MissAt(u) /\ KindsAt(u) /\ SeenAt(u) /\ pc'[u] = pc[u] /\ walk'[u] = walk[u]
  BY OthersSought DEF Before, CallsState
<1>1. pc[u] # "idle" => seen[u] \subseteq seen'[u]
  BY <1>0, SeenStays
<1>2. ASSUME pc[u] = "verify", ~Initializing(u), Held(u) \cap After(heap, c) = {}, NIL \notin seen[u]
      PROVE  Held(u)' \cap After(heap', c) = {}
  <2>0. c \in Shared /\ SoughtCode(u)' = SoughtCode(u) /\ SoughtKey(u)' = SoughtKey(u)
    BY <1>2, OthersSought DEF Before, Sound, Control, ControlAt
  <2> SUFFICES ASSUME NEW x \in Holding(heap', Shared', SoughtCode(u), SoughtKey(u)), x \in After(heap', c)
               PROVE  FALSE
    BY <2>0 DEF Held
  <2>1. CASE x \in Held(u)
    <3>1. x \in Shared
      BY <2>1 DEF Held, Holding
    <3> QED BY <1>2, <2>0, <2>1, <3>1, NothingNew DEF Before
  <2>2. CASE Linking(t) /\ SoughtCode(u) = SoughtCode(t) /\ SoughtKey(u) = SoughtKey(t)
    <3>1. Held(u) = {}
      BY <2>2, LinkedAlone DEF Before, Held
    <3> QED BY <1>0, <1>2, <3>1, SeenNothing DEF Before
  <2> QED BY <2>1, <2>2, HoldingStep DEF Before, Held
<1>3. ASSUME pc[u] = "found", c # NIL, CurCode(u)' > SoughtCode(u)' PROVE CurCode(u) > SoughtCode(u)
  BY <1>3, OthersSought
<1> QED BY <1>0, <1>1, <1>2, <1>3, OthersSought DEF MissAt

LEMMA MissStep ==
  ASSUME Before, Witnessed, Undisturbed, ReadsRight,
         NEW t \in Threads, Progress(t) \/ Begin(t), ~Fault(t)
  PROVE  MissAt(t)'
<1> DEFINE c == walk[t].cur.node
<1>0. /\ TypeOK /\ MissAt(t) /\ KindsAt(t) /\ SeenAt(t) /\ walk[t] \in WalkType
      /\ heap \in [Node -> NodeType] /\ NIL \notin Node
      /\ Shared \in SUBSET Node /\ Closed(heap, Shared)
  BY LocalTypes, OwnTypes, ListNodesStay DEF Before, CallsState, Sound, TypeOK, Node, NIL
<1> USE DEF Goto
<1>1. ASSUME UNCHANGED <<call, task>>
      PROVE  /\ Initializing(t)' = Initializing(t)
             /\ SoughtCode(t)' = SoughtCode(t) /\ SoughtKey(t)' = SoughtKey(t)
  BY <1>1 DEF SoughtCode, SoughtKey, Initializing
<1>2. CASE FindReadHead(t)
  <2>1. /\ pc[t] = "head" /\ pc'[t] = "next" /\ InBounds(walk[t].prev)
        /\ walk' = [walk EXCEPT ![t].cur = Load(walk[t].prev)]
    BY <1>0, <1>2 DEF FindReadHead, TypeOK
  <2>2. walk'[t].cur = Load(walk[t].prev)
    BY <1>0, <2>1 DEF TypeOK, WalkType
  <2>3. Load(walk[t].prev).node # NIL
    BY <2>1 DEF Undisturbed
  <2> QED BY <2>1, <2>2, <2>3 DEF MissAt
<1>3. CASE FindUnlink(t) /\ pc'[t] = "next"
  <2>1. /\ pc[t] = "unlink" /\ LeadsTo(walk[t].prev, c) /\ UNCHANGED <<call, task>>
        /\ Store(walk[t].prev, Link(walk[t].nxt.node, 0))
        /\ walk' = [walk EXCEPT ![t].cur = walk[t].nxt]
    BY <1>0, <1>3 DEF FindUnlink, TypeOK
  <2>2. walk'[t].cur = walk[t].nxt
    BY <1>0, <2>1 DEF TypeOK, WalkType
  <2>3. ASSUME walk[t].nxt.node = NIL, ~Initializing(t) PROVE NIL \in seen'[t]
    <3>1. c \in Shared /\ Marked(c) /\ heap[c].next.node = NIL
      BY <1>3, <2>1, <2>3, UnlinkEffect DEF Unlinking, Before
    <3>2. Held(t) \subseteq {c}
      BY <2>1, <2>3, <3>1, HeldFromHere DEF Before, After
    <3>3. Held(t) = {}
      BY <1>0, <3>1, <3>2, HeldIsSought
    <3>4. NIL \in seen[t]
      BY <1>0, <2>1, <2>3, <3>3, SeenNothing DEF Before
    <3> QED BY <1>3, <2>1, <3>4, SeenStays
  <2> QED BY <1>1, <1>3, <2>1, <2>2, <2>3 DEF MissAt
<1>4. CASE FindReadNext(t)
  <2>1. CASE c = NIL
    <3>1. pc[t] = "next" /\ pc'[t] = "found" /\ UNCHANGED <<heap, call, task, walk>>
      BY <1>0, <1>4, <2>1 DEF FindReadNext, TypeOK
    <3>2. seen[t] \subseteq seen'[t]
      BY <3>1, SeenStays
    <3> QED BY <1>0, <1>1, <2>1, <3>1, <3>2 DEF MissAt
  <2>2. CASE c # NIL
    <3>1. /\ pc'[t] = "verify" /\ UNCHANGED heap
          /\ walk' = [walk EXCEPT ![t].nxt = heap[c].next]
      BY <1>0, <1>4, <2>2 DEF FindReadNext, TypeOK
    <3>2. walk'[t].cur.node = c /\ walk'[t].nxt = heap[c].next
      BY <1>0, <3>1 DEF TypeOK, WalkType
    <3>3. walk'[t].nxt = Null => After(heap', c) = {}
      BY <3>1, <3>2, LinkParts DEF After, Null
    <3> QED BY <3>1, <3>2, <3>3 DEF MissAt
  <2> QED BY <2>1, <2>2
<1>5. CASE FindVerify(t) /\ pc'[t] \in {"found", "next"}
  <2>1. /\ pc[t] = "verify" /\ LeadsTo(walk[t].prev, c) /\ walk[t].nxt.bit = 0
        /\ UNCHANGED <<heap, call, task>> /\ c # NIL
        /\ \/ pc'[t] = "found" /\ walk' = walk
           \/ /\ pc'[t] = "next" /\ FALSE \in StopsHere(t)
              /\ walk' = [walk EXCEPT ![t].prev = NextOf(c), ![t].cur = walk[t].nxt]
    BY <1>0, <1>5 DEF FindVerify, TypeOK, Before, Sound, Control, ControlAt
  <2>2. seen[t] \subseteq seen'[t]
    BY <1>5, <2>1, SeenStays
  <2>3. ASSUME pc'[t] = "found", CurCode(t) > SoughtCode(t), ~Initializing(t) PROVE NIL \in seen'[t]
    <3>1. Held(t) = {}
      <4> SUFFICES ASSUME NEW x \in Held(t) PROVE FALSE
        OBVIOUS
      <4>1. x \in From(heap, c) /\ c \in Shared
        BY <2>1, <2>3, HeldFromHere DEF Before
      <4>2. Increasing(heap, Shared) /\ \A n \in Shared : heap[n].code \in Int
        BY ListNodesStay DEF Before, ListState, Sorted, Increasing
      <4>3. heap[c].code <= heap[x].code
        BY <1>0, <4>1, <4>2, FromCodes
      <4>4. x \in Shared /\ heap[x].code = SoughtCode(t)
        BY DEF Held, Holding
      <4> QED BY <2>3, <4>1, <4>2, <4>3, <4>4 DEF CurCode
    <3> QED BY <1>0, <2>1, <2>2, <2>3, <3>1, SeenNothing DEF Before
  <2>4. ASSUME pc'[t] = "next", walk[t].nxt.node = NIL, ~Initializing(t) PROVE NIL \in seen'[t]
    <3>1. walk[t].nxt = Null
      BY <1>0, <2>1, <2>4 DEF WalkType, LinkType, Null, Link
    <3>2. CASE NIL \in seen[t]
      BY <2>2, <3>2
    <3>3. CASE Held(t) \cap After(heap, c) = {}
      <4>1. ~HoldsSought(t)
        <5>1. CASE walk[t].cur.bit = 1
          BY <2>1, <2>4, <5>1 DEF ReadsRight
        <5>2. CASE walk[t].cur.bit = 0
          BY <2>1, <2>4, <5>2, StopsOrNot
        <5> QED BY <1>0, <5>1, <5>2 DEF WalkType, LinkType
      <4>2. Held(t) \subseteq {c}
        BY <2>1, <2>4, <3>3, HeldFromHere DEF Before
      <4>3. Held(t) = {}
        BY <2>1, <4>1, <4>2, HeldIsSought
      <4> QED BY <1>0, <2>1, <2>2, <2>4, <4>3, SeenNothing DEF Before
    <3> QED BY <1>0, <2>1, <2>4, <3>1, <3>2, <3>3 DEF MissAt
  <2>5. CASE pc'[t] = "found" /\ walk' = walk
    <3>1. CurCode(t)' = CurCode(t)
      BY <2>1, <2>5 DEF CurCode
    <3> QED BY <1>1, <2>1, <2>3, <2>5, <3>1 DEF MissAt
  <2>6. CASE pc'[t] = "next" /\ walk' = [walk EXCEPT ![t].prev = NextOf(c), ![t].cur = walk[t].nxt]
    <3>1. walk'[t].cur = walk[t].nxt
      BY <1>0, <2>6 DEF TypeOK, WalkType
    <3> QED BY <1>1, <2>1, <2>4, <2>6, <3>1 DEF MissAt
  <2> QED BY <2>1, <2>5, <2>6
<1>6. CASE pc'[t] \notin {"next", "found", "verify"}
  BY <1>6 DEF MissAt
<1> QED BY <1>0, <1>2, <1>3, <1>4, <1>5, <1>6, ReachedBy

(* The invariant is preserved.                                             *)
LEMMA CallsStep ==
  ASSUME Before, Witnessed, Undisturbed, ReadsRight, NoDuplicates',
         NEW t \in Threads, Progress(t) \/ Begin(t), ~Fault(t)
  PROVE  CallsState'
<1>1. \A v \in Threads : KindsAt(v) /\ TakenAt(v) /\ HitAt(v)
  BY DEF Before, CallsState
<1>2. ValuesKept'
  BY <1>1, ValuesKeptStep DEF Before, CallsState
<1>3. TakenOnce' /\ \A u \in Threads : TakenAt(u)'
  BY <1>1, TakenStep DEF Before, CallsState
<1>4. \A u \in Threads : KindsAt(u)'
  BY <1>1, KindsStep DEF Before
<1>5. ASSUME NEW u \in Threads PROVE HitAt(u)' /\ MissAt(u)'
  BY HitStep, HitOthers, MissStep, MissOthers
<1> QED BY <1>2, <1>3, <1>4, <1>5, SeenStep DEF CallsState

-----------------------------------------------------------------------------
(* The refinement, step by step.                                           *)

(* The operation of a call c, which has taken effect or not, on value v.   *)
Done == {"load", "count", "resize", "copy", "grow", "swap",
         "detach", "uncount", "take", "erase"}

Op(kind, key, val, done, took) ==
  [kind |-> kind, key |-> key, val |-> val, done |-> done, took |-> took]

OpOf(c, done, v) ==
  Op(c.kind, c.key, IF c.kind = "insert" THEN c.val ELSE NIL,
     done, IF c.kind = "delete" /\ done THEN v ELSE NIL)

LEMMA OpAt ==
  ASSUME NEW t \in Threads
  PROVE  /\ OpView[t] = OpOf(call[t], pc[t] \in Done, heap[walk[t].cur.node].value)
         /\ OpView'[t] = OpOf(call'[t], pc'[t] \in Done, heap'[walk'[t].cur.node].value)
BY DEF OpView, OpOf, Op, Completed, Done

LEMMA DoneWhere == \A x : x \in Done <=> x \in Counting \/ x \in Taking
BY DEF Done, Counting, Growing, Taking

LEMMA OpSame ==
  ASSUME NEW c, NEW d, NEW x, NEW y, NEW v, NEW w, x \in Done <=> y \in Done,
         d.kind = c.kind, d.key = c.key, c.kind = "insert" => d.val = c.val,
         c.kind = "delete" /\ x \in Done => w = v
  PROVE  OpOf(d, y \in Done, w) = OpOf(c, x \in Done, v)
<1>1. (y \in Done) = (x \in Done)
  OBVIOUS
<1>2. (IF d.kind = "insert" THEN d.val ELSE NIL) = (IF c.kind = "insert" THEN c.val ELSE NIL)
  OBVIOUS
<1>3. (IF d.kind = "delete" /\ y \in Done THEN w ELSE NIL) = (IF c.kind = "delete" /\ x \in Done THEN v ELSE NIL)
  OBVIOUS
<1> QED BY <1>1, <1>2, <1>3 DEF OpOf

(* The calls of other threads are what they were.                          *)
LEMMA OpOthers ==
  ASSUME Before, NEW t \in Threads, Progress(t) \/ Begin(t), NEW u \in Threads \ {t}
  PROVE  OpView'[u] = OpView[u]
<1>1. pc'[u] = pc[u] /\ call'[u] = call[u] /\ walk'[u] = walk[u]
  BY OthersSought
<1>2. ASSUME call[u].kind = "delete", pc[u] \in Done
      PROVE  heap'[walk[u].cur.node].value = heap[walk[u].cur.node].value
  <2>1. pc[u] \in Taking
    BY <1>2, DoneWhere DEF Before, CallsState, KindsAt
  <2>2. walk[u].cur.node # NIL
    BY <2>1 DEF Before, Sound, Control, ControlAt, Taking
  <2>3. walk[u].cur.node \in live \cap live'
    BY <2>2, OthersSought
  <2>4. ~(DeleteErase(t) /\ walk[u].cur.node = walk[t].cur.node)
    BY <2>1 DEF Before, CallsState, TakenOnce, DeleteErase, Taking
  <2> QED BY <2>3, <2>4, ValuesStay DEF Before
<1>3. OpOf(call'[u], pc'[u] \in Done, heap'[walk'[u].cur.node].value)
        = OpOf(call[u], pc[u] \in Done, heap[walk[u].cur.node].value)
  BY <1>1, <1>2, OpSame
<1> QED BY <1>3, OpAt

LEMMA OpNow ==
  ASSUME Before, NEW t \in Threads
  PROVE  /\ TypeOK /\ KindsAt(t) /\ call[t] \in CallType
         /\ OpView[t] = OpOf(call[t], pc[t] \in Done, heap[walk[t].cur.node].value)
         /\ OpView'[t] = OpOf(call'[t], pc'[t] \in Done, heap'[walk'[t].cur.node].value)
BY LocalTypes, OpAt DEF Before, CallsState, Sound

LEMMA OpQuiet ==
  ASSUME Before, NEW t \in Threads, Progress(t), Quiet(t)
  PROVE  OpView'[t] = OpView[t]
<1> DEFINE v == heap[walk[t].cur.node].value
           w == heap'[walk'[t].cur.node].value
<1>1. pc'[t] \in Done <=> pc[t] \in Done
  BY DoneWhere DEF Quiet
<1>2. call[t].kind = "insert" => call'[t].val = call[t].val
  BY OpNow DEF Quiet, KindsAt, Taking
<1>3. ASSUME call[t].kind = "delete", pc[t] \in Done PROVE w = v
  <2>1. pc[t] \in Taking
    BY <1>3, OpNow, DoneWhere DEF KindsAt
  <2>2. walk[t].cur.node \in Shared /\ walk'[t] = walk[t]
    BY <2>1 DEF Quiet, Before, Sound, Control, ControlAt, Taking, NoDangling, Target
  <2>3. walk[t].cur.node \in live \cap live'
    BY <2>2, SharedGrows DEF Before, Sound, Shared
  <2>4. ~DeleteErase(t)
    BY OpNow DEF Quiet, DeleteErase, Return, TypeOK
  <2> QED BY <2>2, <2>3, <2>4, ValuesStay DEF Before
<1>4. call'[t].kind = call[t].kind /\ call'[t].key = call[t].key
  BY DEF Quiet
<1>5. OpView[t] = OpOf(call[t], pc[t] \in Done, v) /\ OpView'[t] = OpOf(call'[t], pc'[t] \in Done, w)
  BY OpAt
<1> HIDE DEF v, w
<1> QED BY <1>1, <1>2, <1>3, <1>4, <1>5, OpSame

LEMMA OpAdds ==
  ASSUME Before, NEW t \in Threads, Progress(t), Adds(t)
  PROVE  /\ OpView[t].kind = "insert" /\ OpView[t].key = call[t].key
         /\ OpView[t].val = call[t].val /\ ~OpView[t].done
         /\ OpView'[t] = [OpView[t] EXCEPT !.done = TRUE]
<1>1. /\ pc[t] = "link" /\ pc'[t] = "load" /\ call[t].kind = "insert"
      /\ call'[t] = [call[t] EXCEPT !.mine = NIL]
  BY OpNow DEF Adds, TypeOK
<1>2. /\ call'[t].kind = "insert" /\ call'[t].key = call[t].key /\ call'[t].val = call[t].val
  BY OpNow, <1>1 DEF CallType
<1>3. (pc[t] \in Done) = FALSE /\ (pc'[t] \in Done) = TRUE
  BY <1>1 DEF Done
<1>4. /\ OpView[t] = Op("insert", call[t].key, call[t].val, FALSE, NIL)
      /\ OpView'[t] = Op("insert", call[t].key, call[t].val, TRUE, NIL)
  BY OpNow, <1>1, <1>2, <1>3 DEF OpOf
<1>5. \A d, e : /\ OpView[t] = Op("insert", call[t].key, call[t].val, d, NIL)
               /\ OpView'[t] = Op("insert", call[t].key, call[t].val, e, NIL)
               => OpView'[t] = [OpView[t] EXCEPT !.done = e]
  BY DEF Op
<1>6. OpView'[t] = [OpView[t] EXCEPT !.done = TRUE]
  BY <1>4, <1>5, Zenon
<1> QED BY <1>4, <1>6 DEF Op

LEMMA OpRemoves ==
  ASSUME Before, NEW t \in Threads, Progress(t), Removes(t)
  PROVE  /\ OpView[t].kind = "delete" /\ OpView[t].key = call[t].key
         /\ ~OpView[t].done
         /\ OpView'[t] = [OpView[t] EXCEPT !.done = TRUE,
                                          !.took = heap[walk[t].cur.node].value]
<1> DEFINE v == heap[walk[t].cur.node].value
           w == heap'[walk'[t].cur.node].value
<1>1. pc[t] = "mark" /\ pc'[t] = "detach" /\ call[t].kind = "delete" /\ call' = call /\ walk' = walk
  BY OpNow DEF Removes, TypeOK
<1>2. walk[t].cur.node \in Present
  BY PresentValues DEF Before, CallsState
<1>3. w = v
  BY <1>1, <1>2, PresentValues DEF Before, CallsState
<1>4. (pc[t] \in Done) = FALSE /\ (pc'[t] \in Done) = TRUE
  BY <1>1 DEF Done
<1>5. OpView[t] = OpOf(call[t], pc[t] \in Done, v) /\ OpView'[t] = OpOf(call'[t], pc'[t] \in Done, w)
  BY OpAt
<1> HIDE DEF v, w
<1>6. /\ OpView[t] = Op("delete", call[t].key, NIL, FALSE, NIL)
      /\ OpView'[t] = Op("delete", call[t].key, NIL, TRUE, v)
  BY <1>1, <1>3, <1>4, <1>5 DEF OpOf
<1>7. ASSUME NEW d, NEW e,
             OpView[t] = Op("delete", call[t].key, NIL, d, NIL),
             OpView'[t] = Op("delete", call[t].key, NIL, e, v)
      PROVE  OpView'[t] = [OpView[t] EXCEPT !.done = e, !.took = v]
  <2>1. [OpView[t] EXCEPT !.done = e] = Op("delete", call[t].key, NIL, e, NIL)
    BY <1>7 DEF Op
  <2>2. [Op("delete", call[t].key, NIL, e, NIL) EXCEPT !.took = v] = OpView'[t]
    BY <1>7 DEF Op
  <2> QED BY <2>1, <2>2, Zenon
<1>8. OpView'[t] = [OpView[t] EXCEPT !.done = TRUE, !.took = v]
  BY <1>6, <1>7, Zenon
<1>9. OpView[t].kind = "delete" /\ OpView[t].key = call[t].key /\ ~OpView[t].done
  BY <1>6 DEF Op
<1> USE DEF v
<1> QED BY <1>8, <1>9, Zenon

LEMMA OpEnds ==
  ASSUME Before, NEW t \in Threads, Ends(t)
  PROVE  OpView'[t] = Map!NoOp
<1> DEFINE w == heap'[walk'[t].cur.node].value
<1>1. pc'[t] = "idle" /\ call'[t] = NoArgs
  BY OpNow, EndsCall
<1>2. (pc'[t] \in Done) = FALSE
  BY <1>1 DEF Done
<1>3. OpView'[t] = OpOf(call'[t], pc'[t] \in Done, w)
  BY OpAt
<1> HIDE DEF w
<1>4. OpView'[t] = Op("none", 0, NIL, FALSE, NIL)
  <2>1. call'[t].kind = "none" /\ call'[t].key = 0
    BY <1>1 DEF NoArgs
  <2> QED BY <1>2, <1>3, <2>1 DEF OpOf
<1> QED BY <1>4, Zenon DEF Op, Map!NoOp

(* Only the operation of one thread changes.                               *)
LEMMA OpOne ==
  ASSUME Before, NEW t \in Threads, Progress(t) \/ Begin(t)
  PROVE  \A x : OpView'[t] = x => OpView' = [OpView EXCEPT ![t] = x]
<1>1. \A u \in Threads \ {t} : OpView'[u] = OpView[u]
  BY OpOthers
<1>2. /\ OpView = [u \in Threads |-> OpView[u]]
      /\ OpView' = [u \in Threads |-> OpView'[u]]
  BY DEF OpView
<1> QED BY <1>1, <1>2

(* A thread that is in no call has no operation.                           *)
LEMMA OpIdle ==
  ASSUME \A v \in Threads : KindsAt(v), NEW t \in Threads
  PROVE  /\ pc[t] = "idle" => OpView[t] = Map!NoOp
         /\ pc[t] # "idle" => OpView[t].kind # "none" /\ OpView[t] # Map!NoOp
         /\ OpView[t].key = call[t].key /\ OpView[t].kind = call[t].kind
         /\ pc[t] = "idle" => OpView[t].kind = "none"
<1>0. /\ OpView[t].key = call[t].key /\ OpView[t].kind = call[t].kind
  <2>1. \A d, v, w : Op(call[t].kind, call[t].key, v, d, w).key = call[t].key /\ Op(call[t].kind, call[t].key, v, d, w).kind = call[t].kind
    BY DEF Op
  <2> QED BY <2>1, OpAt DEF OpOf
<1>1. ASSUME pc[t] = "idle" PROVE OpView[t] = Map!NoOp
  <2>1. call[t] = NoArgs /\ (pc[t] \in Done) = FALSE
    BY <1>1 DEF KindsAt, Done
  <2>2. OpView[t] = Op("none", 0, NIL, FALSE, NIL)
    <3>1. call[t].kind = "none" /\ call[t].key = 0
      BY <2>1 DEF NoArgs
    <3> QED BY <2>1, <3>1, OpAt DEF OpOf
  <2> QED BY <2>2, Zenon DEF Op, Map!NoOp
<1>2. ASSUME pc[t] # "idle" PROVE OpView[t].kind # "none" /\ OpView[t] # Map!NoOp
  <2>1. OpView[t].kind # "none"
    BY <1>0, <1>2 DEF KindsAt, Kinds
  <2> QED BY <2>1 DEF Map!NoOp
<1>3. pc[t] = "idle" => OpView[t].kind = "none"
  BY <1>0 DEF KindsAt, NoArgs
<1> QED BY <1>0, <1>1, <1>2, <1>3

(* Where the map does not change, nothing more has been seen of it.        *)
LEMMA SeenSame ==
  ASSUME Before, Witnessed, NEW t \in Threads, Progress(t) \/ Begin(t),
         NEW u \in Threads, pc[u] # "idle" <=> pc'[u] # "idle",
         MapView'[call[u].key] = MapView[call[u].key]
  PROVE  seen'[u] = seen[u]
<1>1. CASE pc[u] = "idle"
  BY <1>1 DEF Witnessed, Before, CallsState, SeenAt
<1>2. CASE pc[u] # "idle"
  BY <1>2, SeenStays DEF Witnessed, Before, CallsState, SeenAt
<1> QED BY <1>1, <1>2

LEMMA SeenFun == Before /\ Witnessed => /\ seen = [u \in Threads |-> seen[u]]
                                        /\ seen' = [u \in Threads |-> seen'[u]]
BY DEF Before, CallsState, Witnessed



(* The other threads are in calls or not as before.                        *)
LEMMA OthersIn ==
  ASSUME Before, NEW t \in Threads, Progress(t) \/ Begin(t), NEW u \in Threads \ {t}
  PROVE  pc'[u] = pc[u]
BY OthersSought

(* A step that is none of the following does not show in the map.          *)
LEMMA QuietMaps ==
  ASSUME Before, Witnessed, NoDuplicates', NEW t \in Threads, Progress(t), Quiet(t)
  PROVE  UNCHANGED Map!vars
<1>1. ~Adds(t) /\ ~Removes(t)
  <2>1. ~Adds(t)
    <3> SUFFICES ASSUME Adds(t) PROVE FALSE
      OBVIOUS
    <3>1. pc[t] = "link" /\ pc'[t] = "load"
      BY DEF Adds, Before, Sound, TypeOK
    <3> QED BY <3>1 DEF Quiet, Counting, Growing
  <2>2. ~Removes(t)
    <3> SUFFICES ASSUME Removes(t) PROVE FALSE
      OBVIOUS
    <3>1. pc[t] = "mark" /\ pc'[t] = "detach"
      BY DEF Removes, Before, Sound, TypeOK
    <3> QED BY <3>1 DEF Quiet, Taking
  <2> QED BY <2>1, <2>2
<1>2. MapView' = MapView
  BY <1>1, ViewStep DEF Before, CallsState
<1>3. OpView' = OpView
  <2>1. OpView' = [OpView EXCEPT ![t] = OpView[t]]
    BY OpQuiet, OpOne
  <2> QED BY <2>1 DEF OpView
<1>4. seen' = seen
  <2>1. ASSUME NEW u \in Threads PROVE seen'[u] = seen[u]
    <3>1. pc[u] # "idle" <=> pc'[u] # "idle"
      BY OthersIn DEF Quiet
    <3> QED BY <1>2, <3>1, SeenSame
  <2> QED BY <2>1, SeenFun
<1>5. RetView' = RetView
  BY DEF RetView, Quiet
<1> QED BY <1>2, <1>3, <1>4, <1>5 DEF Map!vars

(* The call of an operation.                                               *)
LEMMA BeginMaps ==
  ASSUME Before, Witnessed, NoDuplicates', NEW t \in Threads, Begin(t)
  PROVE  Map!Next
<1>0. TypeOK /\ \A v \in Threads : KindsAt(v)
  BY DEF Before, CallsState, Sound
<1>1. pc[t] = "idle" /\ ret' = ret
  BY DEF Begin, BeginInsert, BeginLookup, Goto
<1>2. MapView' = MapView
  <2>1. ~Adds(t) /\ ~Removes(t)
    BY <1>1 DEF Adds, Removes
  <2> QED BY <2>1, ViewStep DEF Before, CallsState
<1>3. ASSUME NEW kind \in Kinds, NEW k \in Keys, NEW v, NEW arg,
             call'[t].kind = kind, call'[t].key = k,
             IF kind = "insert" THEN call'[t].val = v /\ arg = v ELSE arg = NIL, pc'[t] \in {"size", "table"}
      PROVE  Map!Call(t, kind, k, arg)
  <2>1. OpView[t] = Map!NoOp
    BY <1>0, <1>1, OpIdle
  <2>2. OpView' = [OpView EXCEPT ![t] = [Map!NoOp EXCEPT !.kind = kind, !.key = k, !.val = arg]]
    <3>1. (pc'[t] \in Done) = FALSE
      BY <1>3 DEF Done
    <3>2. OpView'[t] = Op(kind, k, arg, FALSE, NIL)
      BY <1>3, <3>1, OpAt DEF OpOf
    <3>3. \A d : /\ [Op("none", 0, NIL, d, NIL) EXCEPT !.kind = kind] = Op(kind, 0, NIL, d, NIL)
                /\ [Op(kind, 0, NIL, d, NIL) EXCEPT !.key = k] = Op(kind, k, NIL, d, NIL)
                /\ [Op(kind, k, NIL, d, NIL) EXCEPT !.val = arg] = Op(kind, k, arg, d, NIL)
      BY DEF Op
    <3>4. Map!NoOp = Op("none", 0, NIL, FALSE, NIL)
      BY Zenon DEF Op, Map!NoOp
    <3>5. [Map!NoOp EXCEPT !.kind = kind, !.key = k, !.val = arg] = Op(kind, k, arg, FALSE, NIL)
      BY <3>3, <3>4, Zenon
    <3> QED BY <3>2, <3>5, OpOne, Zenon
  <2>3. seen' = [seen EXCEPT ![t] = {MapView[k]}]
    <3>1. seen'[t] = {MapView[k]}
      BY <1>1, <1>2, <1>3 DEF Witnessed, Before, CallsState, SeenAt
    <3>2. ASSUME NEW u \in Threads \ {t} PROVE seen'[u] = seen[u]
      BY <1>2, SeenSame, OthersIn
    <3> QED BY <3>1, <3>2, SeenFun
  <2>4. UNCHANGED RetView
    BY <1>1 DEF RetView
  <2> QED BY <1>2, <2>1, <2>2, <2>3, <2>4 DEF Map!Call
<1>4. CASE \E k \in Keys, v \in Vals : BeginInsert(t, k, v)
  <2>1. PICK k \in Keys, v \in Vals : BeginInsert(t, k, v)
    BY <1>4
  <2>2. call'[t].kind = "insert" /\ call'[t].key = k /\ call'[t].val = v /\ pc'[t] = "size"
    BY <1>0, <2>1 DEF BeginInsert, Goto, TypeOK
  <2>3. Map!Call(t, "insert", k, v)
    BY <1>3, <2>2 DEF Kinds
  <2> QED BY <2>3 DEF Map!Next
<1>5. CASE \E kind \in {"find", "delete"}, k \in Keys : BeginLookup(t, kind, k)
  <2>1. PICK kind \in {"find", "delete"}, k \in Keys : BeginLookup(t, kind, k)
    BY <1>5
  <2>2. call'[t].kind = kind /\ call'[t].key = k /\ pc'[t] = "table"
    BY <1>0, <2>1 DEF BeginLookup, Goto, TypeOK
  <2>3. Map!Call(t, kind, k, NIL)
    BY <1>3, <2>2 DEF Kinds
  <2> QED BY <2>3 DEF Map!Next
<1> QED BY <1>4, <1>5 DEF Begin

(* What the others see of a step that changes the value of a key.          *)
LEMMA WitnessMaps ==
  ASSUME Before, Witnessed, NEW t \in Threads, Progress(t), pc[t] # "idle", pc'[t] # "idle",
         NEW k, NEW v, MapView' = [MapView EXCEPT ![k] = v], k \in Keys
  PROVE  Map!Witness(k, v)
<1>0. MapView = [j \in Keys |-> MapView[j]] /\ \A u \in Threads : KindsAt(u) /\ SeenAt(u)
  BY DEF MapView, Before, CallsState
<1>1. ASSUME NEW u \in Threads
      PROVE  seen'[u] = IF OpView[u].kind # "none" /\ OpView[u].key = k
                        THEN seen[u] \cup {v} ELSE seen[u]
  <2>1. pc[u] # "idle" <=> pc'[u] # "idle"
    BY OthersIn
  <2>2. CASE pc[u] = "idle"
    <3>1. OpView[u].kind = "none" /\ seen'[u] = {} /\ seen[u] = {}
      BY <1>0, <2>1, <2>2, OpIdle DEF Witnessed, SeenAt
    <3> QED BY <3>1
  <2>3. CASE pc[u] # "idle"
    <3>1. OpView[u].kind # "none" /\ OpView[u].key = call[u].key /\ call[u].key \in Keys
      BY <1>0, <2>3, OpIdle DEF KindsAt
    <3>2. seen'[u] = seen[u] \cup {MapView'[call[u].key]}
      BY <2>1, <2>3, SeenStays DEF Witnessed
    <3>3. MapView[call[u].key] \in seen[u]
      BY <1>0, <2>3 DEF SeenAt
    <3> QED BY <1>0, <3>1, <3>2, <3>3
  <2> QED BY <2>2, <2>3
<1> QED BY <1>1, SeenFun DEF Map!Witness

LEMMA AddsMaps ==
  ASSUME Before, Witnessed, NoDuplicates', NEW t \in Threads, Progress(t), Adds(t)
  PROVE  Map!InsertTakesEffect(t)
<1>1. /\ MapView[call[t].key] = NIL
      /\ MapView' = [MapView EXCEPT ![call[t].key] = call[t].val]
  BY ViewStep DEF Before, CallsState
<1>2. /\ OpView[t].kind = "insert" /\ OpView[t].key = call[t].key
      /\ OpView[t].val = call[t].val /\ ~OpView[t].done
      /\ OpView'[t] = [OpView[t] EXCEPT !.done = TRUE]
  BY OpAdds
<1>3. OpView' = [OpView EXCEPT ![t] = [OpView[t] EXCEPT !.done = TRUE]]
  BY <1>2, OpOne, Zenon
<1>4. pc[t] # "idle" /\ pc'[t] # "idle" /\ call[t].key \in Keys /\ ret' = ret
  BY DEF Adds, Before, Sound, TypeOK, CallsState, KindsAt
<1>5. Map!Witness(call[t].key, call[t].val)
  BY <1>1, <1>4, WitnessMaps
<1>6. UNCHANGED RetView
  BY <1>4 DEF RetView
<1> QED BY <1>1, <1>2, <1>3, <1>5, <1>6 DEF Map!InsertTakesEffect

LEMMA RemovesMaps ==
  ASSUME Before, Witnessed, NoDuplicates', NEW t \in Threads, Progress(t), Removes(t)
  PROVE  Map!DeleteTakesEffect(t)
<1> DEFINE v == heap[walk[t].cur.node].value
<1>1. /\ MapView[call[t].key] = v
      /\ MapView' = [MapView EXCEPT ![call[t].key] = NIL]
  BY ViewStep DEF Before, CallsState
<1>2. v # NIL
  <2>1. walk[t].cur.node \in Present
    BY PresentValues DEF Before, CallsState
  <2> QED BY <2>1, ConstantsAssumption DEF Before, CallsState, ValuesKept, NIL
<1>3. /\ OpView[t].kind = "delete" /\ OpView[t].key = call[t].key /\ ~OpView[t].done
      /\ OpView'[t] = [OpView[t] EXCEPT !.done = TRUE, !.took = v]
  BY OpRemoves, Zenon
<1>4. OpView' = [OpView EXCEPT ![t].done = TRUE, ![t].took = v]
  <2> HIDE DEF v
  <2>1. OpView' = [OpView EXCEPT ![t] = [OpView[t] EXCEPT !.done = TRUE, !.took = v]]
    BY <1>3, OpOne, Zenon
  <2>2. \A d : [OpView EXCEPT ![t] = [OpView[t] EXCEPT !.done = d, !.took = v]]
                 = [OpView EXCEPT ![t].done = d, ![t].took = v]
    BY DEF OpView
  <2> QED BY <2>1, <2>2, Zenon
<1> HIDE DEF v
<1>5. pc[t] # "idle" /\ pc'[t] # "idle" /\ call[t].key \in Keys /\ ret' = ret
  BY DEF Removes, Before, Sound, TypeOK, CallsState, KindsAt
<1>6. Map!Witness(call[t].key, NIL)
  BY <1>1, <1>5, WitnessMaps
<1>7. UNCHANGED RetView
  BY <1>5 DEF RetView
<1>8. OpView[t].key = call[t].key /\ MapView[OpView[t].key] = v
  BY <1>1, <1>3, Zenon
<1> QED BY <1>1, <1>2, <1>3, <1>4, <1>6, <1>7, <1>8, Zenon DEF Map!DeleteTakesEffect

(* The result of a call that ends is one its operation may have.           *)
LEMMA EndsResult ==
  ASSUME Before, NEW t \in Threads, Ends(t), NEW out, Return(t, out)
  PROVE  out \in Map!Results(t)
<1>0. /\ KindsAt(t) /\ HitAt(t) /\ MissAt(t) /\ TakenAt(t) /\ ListAt(t) /\ ControlAt(t)
      /\ TypeOK /\ call[t] \in CallType /\ seen[t] \subseteq Vals \cup {NIL}
  BY LocalTypes DEF Before, CallsState, ListState, Sound, Control
<1>1. OpView[t] = OpOf(call[t], pc[t] \in Done, heap[walk[t].cur.node].value)
      /\ OpView[t].kind = call[t].kind
  BY OpAt, OpIdle DEF Before, CallsState
<1>r. \A x : Return(t, x) => x = out
  <2>1. ASSUME NEW x, Return(t, x) PROVE ret'[t].out = x
    BY <1>0, <2>1 DEF Return, TypeOK
  <2> QED BY <2>1
<1>2. OpView[t].done = (pc[t] \in Done)
  BY <1>1 DEF OpOf, Op
<1>3. CASE InsertFoundKey(t)
  <2>1. /\ pc[t] = "found" /\ ~Initializing(t) /\ call[t].kind = "insert" /\ HoldsSought(t)
        /\ Return(t, 0)
    BY <1>3 DEF InsertFoundKey, ResultMatches
  <2>2. seen[t] \ {NIL} # {} /\ out = 0
    BY <1>0, <1>r, <2>1 DEF HitAt, Met
  <2>3. ~OpView[t].done
    BY <1>2, <2>1 DEF Done
  <2> QED BY <1>1, <2>1, <2>2, <2>3 DEF Map!Results
<1>4. CASE FindMiss(t)
  <2>1. /\ pc[t] = "found" /\ ~Initializing(t) /\ Return(t, NIL)
        /\ ~ResultMatches(t) /\ call[t].kind \in {"find", "delete"}
    BY <1>4 DEF FindMiss, ResultMatches, Inserting
  <2>2. NIL \in seen[t] /\ out = NIL
    BY <1>0, <1>r, <2>1 DEF MissAt, ListAt, StopAt, ResultMatches
  <2>3. ~OpView[t].done
    BY <1>2, <2>1 DEF Done
  <2> QED BY <1>1, <2>1, <2>2, <2>3 DEF Map!Results
<1>5. CASE FindValue(t)
  <2>1. pc[t] = "value" /\ Return(t, heap[walk[t].cur.node].value)
    BY <1>5 DEF FindValue
  <2>2. ~Initializing(t) /\ call[t].kind = "find"
    BY <1>0, <2>1 DEF KindsAt, ControlAt, InInit, Searching
  <2>3. heap[walk[t].cur.node].value \in seen[t] /\ out = heap[walk[t].cur.node].value
    BY <1>0, <1>r, <2>1, <2>2 DEF HitAt, Met
  <2> QED BY <1>1, <2>2, <2>3 DEF Map!Results
<1>6. CASE DeleteErase(t)
  <2>1. pc[t] = "erase" /\ Return(t, call[t].val)
    BY <1>6 DEF DeleteErase
  <2>2. call[t].kind = "delete" /\ call[t].val = heap[walk[t].cur.node].value /\ out = call[t].val
    BY <1>0, <1>r, <2>1 DEF KindsAt, TakenAt, Taking
  <2>3. OpView[t].done /\ OpView[t].took = out
    <3>1. pc[t] \in Done
      BY <2>1 DEF Done
    <3>2. \A d : OpView[t] = OpOf(call[t], d, heap[walk[t].cur.node].value) /\ d => OpView[t].took = out
      BY <2>2 DEF OpOf, Op
    <3>3. OpView[t].took = out
      BY <1>1, <3>1, <3>2, Zenon
    <3> QED BY <1>2, <3>1, <3>3, Zenon
  <2> QED BY <1>1, <2>2, <2>3 DEF Map!Results
<1>7. CASE pc[t] \in Counting /\ Return(t, 1)
  <2>1. call[t].kind = "insert" /\ pc[t] \in Done /\ out = 1
    BY <1>0, <1>r, <1>7, DoneWhere DEF KindsAt
  <2> QED BY <1>1, <1>2, <2>1 DEF Map!Results
<1> QED BY <1>3, <1>4, <1>5, <1>6, <1>7 DEF Ends

LEMMA EndsMaps ==
  ASSUME Before, Witnessed, NoDuplicates', NEW t \in Threads, Progress(t), Ends(t)
  PROVE  Map!Return(t)
<1>0. TypeOK /\ \A v \in Threads : KindsAt(v)
  BY DEF Before, CallsState, Sound
<1>1. pc[t] # "idle" /\ pc'[t] = "idle" /\ OpView[t] # Map!NoOp /\ \E out : Return(t, out)
  BY <1>0, EndsCall, OpIdle
<1>2. MapView' = MapView
  <2>1. ~Adds(t) /\ ~Removes(t)
    BY <1>0, <1>1 DEF Adds, Removes, TypeOK
  <2> QED BY <2>1, ViewStep DEF Before, CallsState
<1>3. OpView' = [OpView EXCEPT ![t] = Map!NoOp]
  BY OpEnds, OpOne, Zenon
<1>4. seen' = [seen EXCEPT ![t] = {}]
  <2>1. seen'[t] = {}
    BY <1>1 DEF Witnessed
  <2>2. ASSUME NEW u \in Threads \ {t} PROVE seen'[u] = seen[u]
    BY <1>2, SeenSame, OthersIn
  <2> QED BY <2>1, <2>2, SeenFun
<1>5. PICK out : Return(t, out)
  BY <1>1
<1>6. out \in Map!Results(t)
  BY <1>5, EndsResult
<1>7. RetView' = [RetView EXCEPT ![t] = [kind |-> OpView[t].kind, key |-> OpView[t].key, out |-> out]]
  <2>1. OpView[t].kind = call[t].kind /\ OpView[t].key = call[t].key
    BY <1>0, OpIdle
  <2> HIDE DEF OpView
  <2> QED BY <1>0, <1>5, <2>1 DEF Return, RetView, TypeOK
<1> QED BY <1>1, <1>2, <1>3, <1>4, <1>6, <1>7, Zenon DEF Map!Return

(* hashtable_destroy leaves no key.                                        *)
LEMMA DestroyMaps ==
  ASSUME Before, Witnessed, NEW t \in Threads, Destroy(t)
  PROVE  Map!Destroy
<1>1. /\ \A u \in Threads : pc[u] = "idle" /\ KindsAt(u) /\ seen[u] = {}
      /\ UNCHANGED <<heap, pc, call, walk, ret>> /\ status' = "destroyed"
  BY DEF Destroy, locals, Before, CallsState, SeenAt
<1>2. \A u \in Threads : OpView[u] = Map!NoOp
  BY <1>1, OpIdle
<1>3. MapView' = [k \in Keys |-> NIL]
  <2>1. ListSafe'
    BY DestroyStep DEF Before
  <2>2. Present' = {}
    BY <1>1, <2>1 DEF ListSafe, DestroyFreesList, Present, Shared, Marked
  <2> QED BY <2>2 DEF MapView
<1>4. OpView' = OpView
  BY <1>1 DEF OpView, Completed
<1>5. seen' = seen
  BY <1>1, SeenFun DEF Witnessed
<1>6. RetView' = RetView
  BY <1>1 DEF RetView
<1> QED BY <1>2, <1>3, <1>4, <1>5, <1>6 DEF Map!Destroy

-----------------------------------------------------------------------------
(* The invariant and the refinement of the whole.                          *)

LEMMA InitCalls == HInit => CallsState /\ Map!Init
<1> SUFFICES ASSUME HInit PROVE CallsState /\ Map!Init
  OBVIOUS
<1>1. /\ \A t \in Threads : /\ pc[t] = "idle" /\ call[t] = NoArgs /\ Own(t) = {} /\ seen[t] = {}
                            /\ ret[t] = NoCall
      /\ 1 \in Node
  BY ConstantsAssumption DEF HInit, Init, NoTask, NoArgs, Own, Node
<1>2. Present = {}
  <2>1. Shared = {1}
    BY <1>1 DEF HInit, Init, Shared
  <2>2. heap[1].code = DummyCode(0)
    BY <1>1 DEF HInit, Init, Blank
  <2> QED BY <2>1, <2>2, CodeKinds DEF Present
<1>3. \A t \in Threads : KindsAt(t)
  BY <1>1 DEF KindsAt, NoArgs, Counting, Growing, Taking
<1>4. CallsState
  <2>1. \A t \in Threads : SeenAt(t) /\ HitAt(t) /\ MissAt(t) /\ TakenAt(t)
    BY <1>1 DEF SeenAt, HitAt, MissAt, TakenAt, Taking
  <2>2. ValuesKept /\ TakenOnce
    BY <1>1, <1>2 DEF ValuesKept, TakenOnce, Taking
  <2> QED BY <1>3, <2>1, <2>2 DEF CallsState, HInit
<1>5. MapView = [k \in Keys |-> NIL]
  BY <1>2 DEF MapView
<1>6. OpView = [t \in Threads |-> Map!NoOp]
  <2>1. \A t \in Threads : OpView[t] = Map!NoOp
    BY <1>1, <1>3, OpIdle
  <2>2. OpView = [t \in Threads |-> OpView[t]]
    BY DEF OpView
  <2> QED BY <2>1, <2>2
<1>7. RetView = [t \in Threads |-> [kind |-> "none", key |-> 0, out |-> NIL]]
  BY <1>1 DEF RetView, NoCall, NIL
<1> QED BY <1>4, <1>5, <1>6, <1>7 DEF Map!Init, HInit

(* What changes nothing changes nothing of this.                           *)
LEMMA CallsUnchanged ==
  ASSUME UNCHANGED vars, seen' = seen
  PROVE  /\ CallsState => CallsState'
         /\ UNCHANGED Map!vars
<1>1. UNCHANGED <<heap, pc, call, walk, task, tables, ret, Shared, Present, MapView, seen>>
  BY DEF vars, locals, Shared, Own, Present, Marked, MapView
<1>2. ASSUME NEW t \in Threads
      PROVE  /\ HoldsSought(t)' = HoldsSought(t) /\ Initializing(t)' = Initializing(t)
             /\ Held(t)' = Held(t) /\ CurCode(t)' = CurCode(t) /\ SoughtCode(t)' = SoughtCode(t)
  BY <1>1 DEF HoldsSought, Initializing, Held, Holding, CurCode, CurKey, SoughtCode, SoughtKey
<1>3. \A a : After(heap, a)' = After(heap, a)
  BY <1>1 DEF After
<1>4. ASSUME CallsState PROVE CallsState'
  <2>1. ASSUME NEW t \in Threads PROVE KindsAt(t)' /\ SeenAt(t)' /\ TakenAt(t)' /\ HitAt(t)'
    BY <1>1, <1>2, <1>4 DEF CallsState, KindsAt, SeenAt, TakenAt, HitAt, Met, Marked
  <2>2. ASSUME NEW t \in Threads PROVE MissAt(t)'
    <3>1. MissAt(t) /\ After(heap, walk[t].cur.node)' = After(heap, walk[t].cur.node)
      BY <1>1, <1>4 DEF CallsState, After
    <3> QED BY <1>1, <1>2, <3>1 DEF MissAt
  <2> QED BY <1>1, <1>4, <2>1, <2>2 DEF CallsState, ValuesKept, TakenOnce
<1>5. OpView' = OpView /\ RetView' = RetView
  BY <1>1 DEF OpView, RetView, Completed
<1> QED BY <1>1, <1>4, <1>5 DEF Map!vars

(* Every step of a call keeps the invariant, unless it ends the run, and is*)
(* a step of the map or none.                                              *)
LEMMA HistoryStep ==
  ASSUME status = "running" => Sound /\ ZeroState /\ ListState,
         ListSafe, ListSafe', Undisturbed, [HNext]_hvars, [ReadsRight]_vars,
         status = "running" => CallsState
  PROVE  /\ status' = "running" => CallsState'
         /\ [Map!Next]_(Map!vars)
<1>1. CASE UNCHANGED hvars
  <2>1. UNCHANGED vars /\ seen' = seen
    BY <1>1 DEF hvars
  <2>2. status' = status
    BY <2>1 DEF vars
  <2> QED BY <2>1, <2>2, CallsUnchanged
<1>2. CASE HNext
  <2>1. status = "running"
    BY <1>2 DEF HNext, Next, Progress
  <2>2. Before /\ Witnessed /\ NoDuplicates'
    BY <1>2, <2>1 DEF Before, Witnessed, HNext, ListSafe
  <2>3. CASE UNCHANGED vars
    <3>1. ASSUME NEW t \in Threads PROVE seen'[t] = seen[t]
      <4>1. UNCHANGED <<pc, call, MapView>>
        BY <2>3 DEF vars, locals, MapView, Present, Shared, Own, Marked
      <4> QED BY <2>2, <4>1 DEF Witnessed, Before, CallsState, SeenAt
    <3>2. seen' = seen
      BY <2>2, <3>1, SeenFun
    <3>3. status' = status
      BY <2>3 DEF vars
    <3> QED BY <2>2, <2>3, <3>2, CallsUnchanged DEF Before
  <2>4. ASSUME NEW t \in Threads, Progress(t) \/ Begin(t), ReadsRight
        PROVE  /\ status' = "running" => CallsState'
               /\ [Map!Next]_(Map!vars)
    <3>1. CASE Fault(t)
      <4>1. status' # "running" /\ Quiet(t)
        <5>1. /\ status' \in {"wild", "bounds"} /\ UNCHANGED <<pc, locals, ret>>
              /\ pc[t] \in {"check", "init", "publish", "head", "copy", "found"}
          BY <3>1 DEF Fault, OutOfBounds, WildRead
        <5> QED BY <5>1 DEF locals, Quiet, Counting, Growing, Taking
      <4>2. Progress(t)
        BY <2>1, <3>1 DEF Progress
      <4> QED BY <2>2, <4>1, <4>2, QuietMaps
    <3>2. CASE ~Fault(t)
      <4>1. CallsState'
        BY <2>2, <2>4, <3>2, CallsStep
      <4>2. CASE Begin(t)
        BY <2>2, <4>1, <4>2, BeginMaps
      <4>3. CASE Progress(t) /\ Quiet(t)
        BY <2>2, <4>1, <4>3, QuietMaps
      <4>4. CASE Progress(t) /\ Adds(t)
        BY <2>2, <4>1, <4>4, AddsMaps DEF Map!Next
      <4>5. CASE Progress(t) /\ Removes(t)
        BY <2>2, <4>1, <4>5, RemovesMaps DEF Map!Next
      <4>6. CASE Progress(t) /\ Ends(t)
        BY <2>2, <4>1, <4>6, EndsMaps DEF Map!Next
      <4> QED BY <2>2, <2>4, <4>2, <4>3, <4>4, <4>5, <4>6, CallSteps DEF Before
    <3> QED BY <3>1, <3>2
  <2>5. ASSUME NEW t \in Threads, Destroy(t)
        PROVE  /\ status' = "running" => CallsState'
               /\ [Map!Next]_(Map!vars)
    <3>1. status' # "running"
      BY <2>5 DEF Destroy
    <3> QED BY <2>2, <2>5, <3>1, DestroyMaps DEF Map!Next
  <2> QED BY <1>2, <2>3, <2>4, <2>5 DEF HNext, Next
<1> QED BY <1>1, <1>2

-----------------------------------------------------------------------------
(* The theorems.                                                           *)

LEMMA HistoryRuns == HSpec => Spec
<1>1. HInit => Init
  BY DEF HInit
<1>2. [HNext]_hvars => [Next]_vars
  BY DEF HNext, hvars
<1> QED BY <1>1, <1>2, PTL DEF HSpec, Spec

(* Linearizability: while the recorded defects do not show, every call of  *)
(* hashtable_insert, hashtable_find and hashtable_delete takes effect at   *)
(* one instant between its start and its return.  For the calls that change*)
(* the table it is their compare-and-swap on the node's link; the others   *)
(* return what was true of their key at some time during the call, though  *)
(* the walk may have found it out from nodes marked or unlinked since.     *)
THEOREM CallsTakeEffect == HSpec /\ []Undisturbed /\ [][ReadsRight]_vars => Linearizable
<1> DEFINE IInv == status = "running" => CallsState
           Known == /\ (status = "running" => Sound) /\ (status = "running" => ZeroState)
                    /\ (status = "running" => ListState) /\ ListSafe /\ Undisturbed
<1>1. HInit => IInv /\ Map!Init
  BY InitCalls
<1>2. Known /\ Known' /\ IInv /\ [HNext]_hvars /\ [ReadsRight]_vars => IInv' /\ [Map!Next]_(Map!vars)
  BY HistoryStep
<1> HIDE DEF IInv, Known
<1>3. HSpec /\ []Undisturbed /\ [][ReadsRight]_vars => []Known
  BY HistoryRuns, SoundInvariant, ZeroInvariant, ListInvariant, PTL DEF Known
<1> QED BY <1>1, <1>2, <1>3, PTL DEF HSpec, Linearizable, Map!Spec

(* When no client deletes and the table does not grow, none of them can    *)
(* show, however many insertions and searches overlap.                     *)
THEOREM AddingTakesEffect ==
  ASSUME OnlyAdds
  PROVE  HSpec /\ []NeverGrows => Linearizable
BY HistoryRuns, CleanInvariant, FixedInvariant, CallsTakeEffect, PTL

(* Calls that do not overlap return what the map they see holds, whatever  *)
(* they delete and however far the table grows.                            *)
THEOREM OneCallTakesEffect == HSpec /\ []Alone /\ [](size <= Half) => Linearizable
BY HistoryRuns, AloneInvariant, CallsTakeEffect, PTL

=============================================================================
