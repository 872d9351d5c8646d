------------------------- MODULE LockFreeHashtable -------------------------
(***************************************************************************)
(* The lock-free, extensible hashtable of lock_free_hashtable.c.           *)
(*                                                                         *)
(* All nodes are in one linked list, sorted by split-order code; table     *)
(* slots point at the dummy node where a bucket's part of the list starts. *)
(* A node is deleted by setting the mark bit of its next link and then     *)
(* unlinking it with a second CAS.  Every step below makes at most one     *)
(* access to memory another thread may write, so that TLC interleaves the  *)
(* threads wherever the hardware can.                                      *)
(***************************************************************************)
EXTENDS SplitOrder, FiniteSets, Sequences

CONSTANTS
  Threads,
  Keys,         (* the keys the clients use                                 *)
  Vals,         (* the values they store: non-null pointers                 *)
  InitSize,     (* the size given to hashtable_create                       *)
  LValue,       (* the lvalue flag given to hashtable_create                *)
  Client,       (* which operations each thread calls                       *)
  Calls,        (* bound: how many operations each thread calls             *)
  MaxNodes,     (* bound: nodes allocated at one time                       *)
  MaxTables     (* bound: bucket arrays allocated at one time               *)

NIL     == 0
Node    == 1 .. MaxNodes
TableId == 1 .. MaxTables
Kinds   == {"insert", "find", "delete"}

ASSUME ConstantsAssumption ==
  /\ Keys \subseteq Nat
  /\ Vals \subseteq Nat \ {0}
  /\ InitSize \in Nat \ {0}
  /\ LValue \in BOOLEAN
  /\ Client \in [Threads -> SUBSET (Kinds \cup {"destroy"})]
  /\ Calls \in [Threads -> Nat]
  /\ MaxNodes \in Nat \ {0}
  /\ MaxTables \in Nat \ {0}

(* Bucket numbers are hashes modulo the size, and the bit reversal puts a  *)
(* bucket's nodes behind its dummy node only when that takes low bits.     *)
ASSUME SizeAssumption == \E i \in 0 .. (Width - 1) : InitSize = 2 ^ i

VARIABLES
  table,    (* hashtable->table: the bucket array in use                    *)
  size,     (* hashtable->size                                              *)
  count,    (* hashtable->count                                             *)
  tables,   (* the contents of every bucket array allocated                 *)
  heap,     (* the contents of every node                                   *)
  live,     (* the nodes allocated and not freed                            *)
  hz,       (* each thread's three hazard pointers                          *)
  pc,       (* where each thread is                                         *)
  call,     (* the operation each thread is in: arguments, bucket, new node *)
  walk,     (* the local variables of hashtable_list_find                   *)
  task,     (* those of hashtable_bucket_init, with the stack of its calls  *)
  grow,     (* those of hashtable_resize and of the code that calls it      *)
  ret,      (* the last call of each thread and what it returned            *)
  calls,    (* the calls each thread may still make                         *)
  status    (* "running", "destroyed", or the fault that ended the program  *)

locals == <<call, walk, task, grow>>
vars   == <<table, size, count, tables, heap, live, hz, pc, locals, ret, calls, status>>

-----------------------------------------------------------------------------
(* hash_mark_t: a node pointer and the mark bit kept in its lowest bit.    *)
Link(n, b) == [node |-> n, bit |-> b]
Null       == Link(NIL, 0)

(* A hazard pointer: to a bucket array, to a node, or to a value.          *)
Ptr(to, id) == [to |-> IF id = 0 THEN "null" ELSE to, id |-> id]
NoPtr       == Ptr("null", 0)
NoHazards   == [i \in 0 .. 2 |-> NoPtr]

(* A place that holds a link: slot ix of array tb, or, when tb is 0, the   *)
(* next field of node ix.                                                  *)
Slot(tb, ix)  == [tb |-> tb, ix |-> ix]
NextOf(n)     == [tb |-> 0, ix |-> n]

Load(p) == IF p.tb = 0 THEN heap[p.ix].next ELSE tables[p.tb][p.ix]

Store(p, link) ==
  \/ /\ p.tb = 0
     /\ heap' = [heap EXCEPT ![p.ix].next = link]
     /\ UNCHANGED tables
  \/ /\ p.tb # 0
     /\ tables' = [tables EXCEPT ![p.tb][p.ix] = link]
     /\ UNCHANGED heap

(* A mutant: the comparison ignores the mark bit.                          *)
LeadsToNode(p, n) == Load(p).node = n

(* A mutant: a plain store, which succeeds whatever the link is.           *)
LeadsAnywhere(p, n) == TRUE

(* A mutant: the expected link is built with the mark bit set.             *)
LeadsToMarked(p, n) == Load(p) = Link(n, 1)

(* The comparison of every compare-and-swap on a link: p still leads to    *)
(* node n and does not belong to a deleted node.                           *)
LeadsTo(p, n) == Load(p) = Link(n, 0)

InBounds(p) == p.ix \in DOMAIN tables[p.tb]

NewNode == CHOOSE n \in Node \ live : TRUE

(* A bucket array that is not allocated has no slots.                      *)
NoSlots    == [b \in {} |-> Null]
FreeTables == {i \in TableId : DOMAIN tables[i] = {}}
NewTable   == CHOOSE i \in FreeTables : TRUE

Blank == [code |-> 0, key |-> 0, value |-> NIL, next |-> Null]

(* The local variables between calls: values nothing reads.                *)
NoArgs == [kind |-> "none", key |-> 0, val |-> NIL, bucket |-> 0, tbl |-> 1, mine |-> NIL]
NoWalk == [prev |-> Slot(1, 0), cur |-> Null, nxt |-> Null]
NoTask == [todo |-> <<>>, dummy |-> NIL, res |-> NIL, dst |-> 1]
NoGrow == [sz |-> 0, old |-> 1, new |-> 1, i |-> 0]

NoCall == [kind |-> "none", key |-> 0, val |-> NIL, out |-> 0]

(* hashtable_create: an empty table whose slot 0 holds the dummy node of   *)
(* bucket 0.                                                               *)
Init ==
  /\ table = 1
  /\ size = InitSize
  /\ count = 0
  /\ tables = [i \in TableId |->
                 IF i = 1 THEN [b \in 0 .. (InitSize - 1) |-> IF b = 0 THEN Link(1, 0) ELSE Null]
                          ELSE NoSlots]
  /\ heap = [n \in Node |-> [Blank EXCEPT !.code = IF n = 1 THEN DummyCode(0) ELSE 0]]
  /\ live = {1}
  /\ hz = [t \in Threads |-> NoHazards]
  /\ pc = [t \in Threads |-> "idle"]
  /\ call = [t \in Threads |-> NoArgs]
  /\ walk = [t \in Threads |-> NoWalk]
  /\ task = [t \in Threads |-> NoTask]
  /\ grow = [t \in Threads |-> NoGrow]
  /\ ret = [t \in Threads |-> NoCall]
  /\ calls = Calls
  /\ status = "running"

-----------------------------------------------------------------------------
Goto(t, from, to) ==
  /\ pc[t] = from
  /\ pc' = [pc EXCEPT ![t] = to]

Return(t, out) ==
  /\ pc' = [pc EXCEPT ![t] = "idle"]
  /\ call' = [call EXCEPT ![t] = NoArgs]
  /\ walk' = [walk EXCEPT ![t] = NoWalk]
  /\ task' = [task EXCEPT ![t] = NoTask]
  /\ grow' = [grow EXCEPT ![t] = NoGrow]
  /\ ret' = [ret EXCEPT ![t] = [kind |-> call[t].kind, key |-> call[t].key,
                                val |-> call[t].val, out |-> out]]

(* A mutant: the hazard pointer is not set.                                *)
ProtectNothing(t, i, p) == UNCHANGED hz

Protect(t, i, p) == hz' = [hz EXCEPT ![t][i] = p]

(* With lvalue the value read stays protected by slot 0.                   *)
ProtectValue(t, v) ==
  hz' = [hz EXCEPT ![t] = IF LValue THEN [NoHazards EXCEPT ![0] = Ptr("value", v)]
                                    ELSE NoHazards]

(* What hashtable_list_find looks for: while a bucket is being initialized *)
(* the dummy node of that bucket, in its parent's bucket; then the key.    *)
Initializing(t) == task[t].todo # <<>>
FindBucket(t)   == IF Initializing(t) THEN Parent(Head(task[t].todo)) ELSE call[t].bucket
SoughtKey(t)    == IF Initializing(t) THEN Head(task[t].todo) ELSE call[t].key
SoughtCode(t)   == IF Initializing(t) THEN DummyCode(Head(task[t].todo))
                                      ELSE RegularCode(Hash(call[t].key))

CurCode(t) == heap[walk[t].cur.node].code
CurKey(t)  == heap[walk[t].cur.node].key

HoldsSought(t) ==
  /\ walk[t].cur.node # NIL
  /\ CurCode(t) = SoughtCode(t)
  /\ CurKey(t) = SoughtKey(t)

-----------------------------------------------------------------------------
(* The entry of the three operations.                                      *)

BeginInsert(t, k, v) ==
  /\ "insert" \in Client[t]
  /\ calls[t] > 0
  /\ Node \ live # {}
  /\ Goto(t, "idle", "size")
  /\ live' = live \cup {NewNode}
  /\ heap' = [heap EXCEPT ![NewNode] = [code |-> RegularCode(Hash(k)), key |-> k,
                                        value |-> v, next |-> Null]]
  /\ Protect(t, 0, Ptr("table", table))
  /\ call' = [call EXCEPT ![t] = [kind |-> "insert", key |-> k, val |-> v,
                                  bucket |-> 0, tbl |-> table, mine |-> NewNode]]
  /\ calls' = [calls EXCEPT ![t] = @ - 1]
  /\ UNCHANGED <<table, size, count, tables, walk, task, grow, ret, status>>

InsertReadSize(t) ==
  /\ Goto(t, "size", "check")
  /\ call' = [call EXCEPT ![t].bucket = Hash(call[t].key) % size]
  /\ UNCHANGED <<table, size, count, tables, heap, live, hz, walk, task, grow, ret, calls, status>>

(* hashtable_find and hashtable_delete read the size before the table.     *)
BeginLookup(t, kind, k) ==
  /\ kind \in Client[t]
  /\ calls[t] > 0
  /\ Goto(t, "idle", "table")
  /\ call' = [call EXCEPT ![t] = [kind |-> kind, key |-> k, val |-> NIL,
                                  bucket |-> Hash(k) % size, tbl |-> 1, mine |-> NIL]]
  /\ calls' = [calls EXCEPT ![t] = @ - 1]
  /\ UNCHANGED <<table, size, count, tables, heap, live, hz, walk, task, grow, ret, status>>

LookupReadTable(t) ==
  /\ Goto(t, "table", "check")
  /\ call' = [call EXCEPT ![t].tbl = table]
  /\ Protect(t, 0, Ptr("table", table))
  /\ UNCHANGED <<table, size, count, tables, heap, live, walk, task, grow, ret, calls, status>>

(* An empty slot is a bucket that has to be initialized first.             *)
CheckBucket(t) ==
  LET p == Slot(call[t].tbl, call[t].bucket) IN
  /\ pc[t] = "check"
  /\ InBounds(p)
  /\ IF Load(p).node = NIL
     THEN /\ Goto(t, "check", "init")
          /\ task' = [task EXCEPT ![t].todo = <<call[t].bucket>>]
     ELSE /\ Goto(t, "check", "find")
          /\ UNCHANGED task
  /\ UNCHANGED <<table, size, count, tables, heap, live, hz, call, walk, grow, ret, calls, status>>

-----------------------------------------------------------------------------
(* hashtable_bucket_init. The recursion on the parent is the stack todo,   *)
(* innermost bucket first; each frame resumes at the allocation.           *)

InitCheckParent(t) ==
  LET parent == Parent(Head(task[t].todo))
      p      == Slot(call[t].tbl, parent)
  IN
  /\ pc[t] = "init"
  /\ InBounds(p)
  /\ IF Load(p).node = NIL
     THEN /\ Goto(t, "init", "init")
          /\ task' = [task EXCEPT ![t].todo = <<parent>> \o @]
     ELSE /\ Goto(t, "init", "alloc")
          /\ UNCHANGED task
  /\ UNCHANGED <<table, size, count, tables, heap, live, hz, call, walk, grow, ret, calls, status>>

InitAlloc(t) ==
  LET b == Head(task[t].todo) IN
  /\ Node \ live # {}
  /\ Goto(t, "alloc", "find")
  /\ live' = live \cup {NewNode}
  /\ heap' = [heap EXCEPT ![NewNode] = [code |-> DummyCode(b), key |-> b,
                                        value |-> NIL, next |-> Null]]
  /\ task' = [task EXCEPT ![t].dummy = NewNode]
  /\ UNCHANGED <<table, size, count, tables, hz, call, walk, grow, ret, calls, status>>

(* The table is read again, and may be a newer one than the caller's.      *)
InitReload(t) ==
  /\ Goto(t, "reload", "publish")
  /\ task' = [task EXCEPT ![t].dst = table]
  /\ Protect(t, 1, Ptr("table", table))
  /\ UNCHANGED <<table, size, count, tables, heap, live, call, walk, grow, ret, calls, status>>

InitPublish(t) ==
  LET p == Slot(task[t].dst, Head(task[t].todo)) IN
  /\ pc[t] = "publish"
  /\ InBounds(p)
  /\ Goto(t, "publish", IF Len(task[t].todo) = 1 THEN "find" ELSE "alloc")
  /\ tables' = [tables EXCEPT ![p.tb][p.ix] = Link(task[t].res, 0)]
  /\ task' = [task EXCEPT ![t].todo = Tail(@), ![t].res = NIL]
  /\ UNCHANGED <<table, size, count, heap, live, hz, call, walk, grow, ret, calls, status>>

-----------------------------------------------------------------------------
(* hashtable_list_find.                                                    *)

FindReadTable(t) ==
  /\ Goto(t, "find", "head")
  /\ Protect(t, 0, Ptr("table", table))
  /\ walk' = [walk EXCEPT ![t].prev = Slot(table, FindBucket(t))]
  /\ UNCHANGED <<table, size, count, tables, heap, live, call, task, grow, ret, calls, status>>

FindReadHead(t) ==
  LET head == Load(walk[t].prev) IN
  /\ pc[t] = "head"
  /\ InBounds(walk[t].prev)
  /\ Goto(t, "head", "next")
  /\ Protect(t, 1, Ptr("node", head.node))
  /\ walk' = [walk EXCEPT ![t].cur = head]
  /\ UNCHANGED <<table, size, count, tables, heap, live, call, task, grow, ret, calls, status>>

FindReadNext(t) ==
  /\ pc[t] = "next"
  /\ \/ /\ walk[t].cur.node = NIL
        /\ Goto(t, "next", "found")
        /\ UNCHANGED <<hz, walk>>
     \/ /\ walk[t].cur.node # NIL
        /\ Goto(t, "next", "verify")
        /\ LET next == heap[walk[t].cur.node].next IN
           /\ Protect(t, 0, Ptr("node", next.node))
           /\ walk' = [walk EXCEPT ![t].nxt = next]
  /\ UNCHANGED <<table, size, count, tables, heap, live, call, task, grow, ret, calls, status>>

(* A mutant: the walk stops at the key only, not where the key would be.   *)
StopsAtKey(t) ==
  IF walk[t].cur.bit = 1 THEN BOOLEAN ELSE {HoldsSought(t)}

(* Does the walk stop at the current node? After an unlink `current' still *)
(* carries the mark bit of the link it was read from, and the code and key *)
(* are then read through a pointer that is off by one: the upper bytes of  *)
(* the code below the lowest byte of the key, which decides the comparison *)
(* and may be zero or not.                                                 *)
StopsHere(t) ==
  IF walk[t].cur.bit = 1
  THEN BOOLEAN
  ELSE {CurCode(t) > SoughtCode(t) \/ HoldsSought(t)}

FindVerify(t) ==
  /\ pc[t] = "verify"
  /\ \/ /\ ~LeadsTo(walk[t].prev, walk[t].cur.node)
        /\ Goto(t, "verify", "find")
        /\ UNCHANGED <<hz, walk>>
     \/ /\ LeadsTo(walk[t].prev, walk[t].cur.node)
        /\ walk[t].nxt.bit = 1
        /\ Goto(t, "verify", "unlink")
        /\ UNCHANGED <<hz, walk>>
     \/ /\ LeadsTo(walk[t].prev, walk[t].cur.node)
        /\ walk[t].nxt.bit = 0
        /\ TRUE \in StopsHere(t)
        /\ Goto(t, "verify", "found")
        /\ UNCHANGED <<hz, walk>>
     \/ /\ LeadsTo(walk[t].prev, walk[t].cur.node)
        /\ walk[t].nxt.bit = 0
        /\ FALSE \in StopsHere(t)
        /\ Goto(t, "verify", "next")
        /\ hz' = [hz EXCEPT ![t][1] = Ptr("node", walk[t].nxt.node),
                            ![t][2] = Ptr("node", walk[t].cur.node)]
        /\ walk' = [walk EXCEPT ![t].prev = NextOf(walk[t].cur.node), ![t].cur = walk[t].nxt]
  /\ UNCHANGED <<table, size, count, tables, heap, live, call, task, grow, ret, calls, status>>

(* A marked node met on the way is unlinked; `current' becomes the marked  *)
(* link, mark bit included.                                                *)
FindUnlink(t) ==
  /\ pc[t] = "unlink"
  /\ \/ /\ LeadsTo(walk[t].prev, walk[t].cur.node)
        /\ Goto(t, "unlink", "next")
        /\ Store(walk[t].prev, Link(walk[t].nxt.node, 0))
        /\ Protect(t, 1, Ptr("node", walk[t].nxt.node))
        /\ walk' = [walk EXCEPT ![t].cur = walk[t].nxt]
     \/ /\ ~LeadsTo(walk[t].prev, walk[t].cur.node)
        /\ Goto(t, "unlink", "find")
        /\ UNCHANGED <<heap, tables, hz, walk>>
  /\ UNCHANGED <<table, size, count, live, call, task, grow, ret, calls, status>>

-----------------------------------------------------------------------------
(* hashtable_list_insert, for a key or for a bucket's dummy node.          *)

Inserting(t) == Initializing(t) \/ call[t].kind = "insert"
Inserted(t)  == IF Initializing(t) THEN task[t].dummy ELSE call[t].mine

(* The result is compared as it was returned: a marked result is read off  *)
(* by one and does not match.                                              *)
ResultMatches(t) == walk[t].cur.bit = 0 /\ HoldsSought(t)

(* A marked null link is not NULL: the program reads through address 1.    *)
DerefsMarkedNull(t) == walk[t].cur = Link(NIL, 1) /\ (Inserting(t) \/ call[t].kind = "delete")

(* A mutant: the node's link is set in the first attempt only.             *)
InsertPreparesOnce(t) ==
  LET n == Inserted(t) IN
  /\ pc[t] = "found"
  /\ Inserting(t)
  /\ ~DerefsMarkedNull(t)
  /\ ~ResultMatches(t)
  /\ Goto(t, "found", "link")
  /\ heap' = [heap EXCEPT ![n].next = IF @ = Null THEN Link(walk[t].cur.node, 0) ELSE @]
  /\ Protect(t, 0, Ptr("node", n))
  /\ UNCHANGED <<table, size, count, tables, live, locals, ret, calls, status>>

InsertPrepare(t) ==
  LET n == Inserted(t) IN
  /\ pc[t] = "found"
  /\ Inserting(t)
  /\ ~DerefsMarkedNull(t)
  /\ ~ResultMatches(t)
  /\ Goto(t, "found", "link")
  /\ heap' = [heap EXCEPT ![n].next = Link(walk[t].cur.node, 0)]
  /\ Protect(t, 0, Ptr("node", n))
  /\ UNCHANGED <<table, size, count, tables, live, locals, ret, calls, status>>

InsertLink(t) ==
  /\ pc[t] = "link"
  /\ \/ /\ LeadsTo(walk[t].prev, walk[t].cur.node)
        /\ Store(walk[t].prev, Link(Inserted(t), 0))
        /\ IF Initializing(t)
           THEN /\ Goto(t, "link", "reload")
                /\ task' = [task EXCEPT ![t].res = task[t].dummy, ![t].dummy = NIL]
                /\ UNCHANGED call
           ELSE /\ Goto(t, "link", "load")
                /\ call' = [call EXCEPT ![t].mine = NIL]
                /\ UNCHANGED task
     \/ /\ ~LeadsTo(walk[t].prev, walk[t].cur.node)
        /\ Goto(t, "link", "find")
        /\ UNCHANGED <<heap, tables, call, task>>
  /\ UNCHANGED <<table, size, count, live, hz, walk, grow, ret, calls, status>>

(* A mutant: the node this thread allocated is published after its free.   *)
InitPublishesFreed(t) ==
  /\ pc[t] = "found"
  /\ Initializing(t)
  /\ ResultMatches(t)
  /\ Goto(t, "found", "reload")
  /\ live' = live \ {task[t].dummy}
  /\ heap' = [heap EXCEPT ![task[t].dummy] = Blank]
  /\ task' = [task EXCEPT ![t].res = task[t].dummy, ![t].dummy = NIL]
  /\ UNCHANGED <<table, size, count, tables, hz, call, walk, grow, ret, calls, status>>

(* Another thread has linked the bucket's dummy node already.              *)
InitFoundDummy(t) ==
  /\ pc[t] = "found"
  /\ Initializing(t)
  /\ ResultMatches(t)
  /\ Goto(t, "found", "reload")
  /\ live' = live \ {task[t].dummy}
  /\ heap' = [heap EXCEPT ![task[t].dummy] = Blank]
  /\ task' = [task EXCEPT ![t].res = walk[t].cur.node, ![t].dummy = NIL]
  /\ UNCHANGED <<table, size, count, tables, hz, call, walk, grow, ret, calls, status>>

InsertFoundKey(t) ==
  /\ pc[t] = "found"
  /\ ~Initializing(t)
  /\ call[t].kind = "insert"
  /\ ResultMatches(t)
  /\ live' = live \ {call[t].mine}
  /\ heap' = [heap EXCEPT ![call[t].mine] = Blank]
  /\ hz' = [hz EXCEPT ![t] = NoHazards]
  /\ Return(t, 0)
  /\ UNCHANGED <<table, size, count, tables, calls, status>>

InsertLoadSize(t) ==
  /\ Goto(t, "load", "count")
  /\ grow' = [grow EXCEPT ![t].sz = size]
  /\ UNCHANGED <<table, size, count, tables, heap, live, hz, call, walk, task, ret, calls, status>>

(* The load factor is 0.7. The count is compared as it was before the      *)
(* increment, and as an unsigned number: when a deletion has been counted  *)
(* before the insertion it undoes, the negative count is a huge one.       *)
Overloaded(c, sz) == c < 0 \/ 10 * c > 7 * sz

InsertCount(t) ==
  /\ pc[t] = "count"
  /\ count' = count + 1
  /\ IF Overloaded(count, grow[t].sz)
     THEN /\ Goto(t, "count", "resize")
          /\ UNCHANGED <<locals, ret>>
     ELSE Return(t, 1)
  /\ UNCHANGED <<table, size, tables, heap, live, hz, calls, status>>

-----------------------------------------------------------------------------
(* hashtable_resize. The copy reads one slot at a time; a bucket array     *)
(* that loses a race is freed.                                             *)

Doubled(sz) == 2 * sz

(* A mutant: the new array has no more slots than the old one.             *)
GrownKeepingSize(sz) == [b \in 0 .. (sz - 1) |-> Null]

Grown(sz) == [b \in 0 .. (Doubled(sz) - 1) |-> Null]

ResizeAlloc(t) ==
  /\ FreeTables # {}
  /\ Goto(t, "resize", "copy")
  /\ tables' = [tables EXCEPT ![NewTable] = Grown(grow[t].sz)]
  /\ grow' = [grow EXCEPT ![t].old = table, ![t].new = NewTable, ![t].i = 0]
  /\ Protect(t, 0, Ptr("table", table))
  /\ UNCHANGED <<table, size, count, heap, live, call, walk, task, ret, calls, status>>

(* A mutant: every slot is copied one place too far.                       *)
ResizeCopyShifted(t) ==
  LET i == grow[t].i
      p == Slot(grow[t].old, i)
  IN
  /\ pc[t] = "copy"
  /\ InBounds(p)
  /\ Goto(t, "copy", IF i + 1 = grow[t].sz THEN "grow" ELSE "copy")
  /\ tables' = [tables EXCEPT ![grow[t].new][i + 1] = Load(p)]
  /\ grow' = [grow EXCEPT ![t].i = i + 1]
  /\ UNCHANGED <<table, size, count, heap, live, hz, call, walk, task, ret, calls, status>>

ResizeCopy(t) ==
  LET i == grow[t].i
      p == Slot(grow[t].old, i)
  IN
  /\ pc[t] = "copy"
  /\ InBounds(p)
  /\ Goto(t, "copy", IF i + 1 = grow[t].sz THEN "grow" ELSE "copy")
  /\ tables' = [tables EXCEPT ![grow[t].new][i] = Load(p)]
  /\ grow' = [grow EXCEPT ![t].i = i + 1]
  /\ UNCHANGED <<table, size, count, heap, live, hz, call, walk, task, ret, calls, status>>

ResizeGrow(t) ==
  /\ pc[t] = "grow"
  /\ \/ /\ size = grow[t].sz
        /\ size' = Doubled(grow[t].sz)
        /\ Goto(t, "grow", "swap")
        /\ UNCHANGED <<tables, locals, ret>>
     \/ /\ size # grow[t].sz
        /\ tables' = [tables EXCEPT ![grow[t].new] = NoSlots]
        /\ Return(t, 1)
        /\ UNCHANGED size
  /\ UNCHANGED <<table, count, heap, live, hz, calls, status>>

ResizeSwap(t) ==
  /\ pc[t] = "swap"
  /\ IF table = grow[t].old
     THEN /\ table' = grow[t].new
          /\ UNCHANGED tables
     ELSE /\ tables' = [tables EXCEPT ![grow[t].new] = NoSlots]
          /\ UNCHANGED table
  /\ Return(t, 1)
  /\ UNCHANGED <<size, count, heap, live, hz, calls, status>>

-----------------------------------------------------------------------------
(* The rest of hashtable_find.                                             *)

FindMiss(t) ==
  /\ pc[t] = "found"
  /\ ~Inserting(t)
  /\ \/ call[t].kind = "find" /\ ~HoldsSought(t)
     \/ call[t].kind = "delete" /\ ~DerefsMarkedNull(t) /\ ~ResultMatches(t)
  /\ Return(t, NIL)
  /\ UNCHANGED <<table, size, count, tables, heap, live, hz, calls, status>>

FindHit(t) ==
  /\ pc[t] = "found"
  /\ ~Initializing(t)
  /\ call[t].kind = "find"
  /\ HoldsSought(t)
  /\ Goto(t, "found", "value")
  /\ UNCHANGED <<table, size, count, tables, heap, live, hz, locals, ret, calls, status>>

FindValue(t) ==
  LET v == heap[walk[t].cur.node].value IN
  /\ pc[t] = "value"
  /\ ProtectValue(t, v)
  /\ Return(t, v)
  /\ UNCHANGED <<table, size, count, tables, heap, live, calls, status>>

-----------------------------------------------------------------------------
(* The rest of hashtable_list_delete and hashtable_delete. The successor   *)
(* is taken from hazard pointer 0, where hashtable_list_find left it.      *)

DeleteHit(t) ==
  /\ pc[t] = "found"
  /\ ~Initializing(t)
  /\ call[t].kind = "delete"
  /\ ResultMatches(t)
  /\ Goto(t, "found", "mark")
  /\ UNCHANGED <<table, size, count, tables, heap, live, hz, locals, ret, calls, status>>

DeleteMark(t) ==
  LET n    == walk[t].cur.node
      next == hz[t][0].id
  IN
  /\ pc[t] = "mark"
  /\ \/ /\ LeadsTo(NextOf(n), next)
        /\ Goto(t, "mark", "detach")
        /\ heap' = [heap EXCEPT ![n].next = Link(next, 1)]
     \/ /\ ~LeadsTo(NextOf(n), next)
        /\ Goto(t, "mark", "find")
        /\ UNCHANGED heap
  /\ UNCHANGED <<table, size, count, tables, live, hz, locals, ret, calls, status>>

(* One attempt to unlink; if it fails a later walk will do it.             *)
DeleteDetach(t) ==
  /\ Goto(t, "detach", "uncount")
  /\ \/ /\ LeadsTo(walk[t].prev, walk[t].cur.node)
        /\ Store(walk[t].prev, Link(hz[t][0].id, 0))
     \/ /\ ~LeadsTo(walk[t].prev, walk[t].cur.node)
        /\ UNCHANGED <<heap, tables>>
  /\ UNCHANGED <<table, size, count, live, hz, locals, ret, calls, status>>

DeleteUncount(t) ==
  /\ Goto(t, "uncount", "take")
  /\ count' = count - 1
  /\ UNCHANGED <<table, size, tables, heap, live, hz, locals, ret, calls, status>>

DeleteTake(t) ==
  LET v == heap[walk[t].cur.node].value IN
  /\ Goto(t, "take", "erase")
  /\ call' = [call EXCEPT ![t].val = v]
  /\ ProtectValue(t, v)
  /\ UNCHANGED <<table, size, count, tables, heap, live, walk, task, grow, ret, calls, status>>

DeleteErase(t) ==
  /\ pc[t] = "erase"
  /\ heap' = [heap EXCEPT ![walk[t].cur.node].value = NIL]
  /\ Return(t, call[t].val)
  /\ UNCHANGED <<table, size, count, tables, live, hz, calls, status>>

-----------------------------------------------------------------------------
(* hashtable_destroy, called when no other call is in progress: it frees   *)
(* the nodes on the list, the bucket array in use, and nothing else.       *)

(* The list from slot 0, as the sequence of nodes met; NIL past its end.   *)
Walk[i \in 0 .. MaxNodes] ==
  IF i = 0 THEN tables[table][0].node
  ELSE IF Walk[i - 1] = NIL THEN NIL ELSE heap[Walk[i - 1]].next.node

(* A mutant: the loop also ends at the first node that holds a key.        *)
OnListUpToKey == {Walk[i] : i \in {j \in 0 .. MaxNodes :
                    \A h \in 0 .. (j - 1) : Walk[h] # NIL /\ ~IsRegular(heap[Walk[h]].code)}}
                 \ {NIL}

OnList == {Walk[i] : i \in 0 .. MaxNodes} \ {NIL}

Destroy(t) ==
  /\ "destroy" \in Client[t]
  /\ \A u \in Threads : pc[u] = "idle"
  /\ calls[t] > 0
  /\ calls' = [calls EXCEPT ![t] = @ - 1]
  /\ live' = live \ OnList
  /\ tables' = [tables EXCEPT ![table] = NoSlots]
  /\ status' = "destroyed"
  /\ UNCHANGED <<table, size, count, heap, hz, pc, locals, ret>>

-----------------------------------------------------------------------------
(* Undefined behaviour ends the run: an access past the end of a bucket    *)
(* array, and a read through the marked null pointer.                      *)

SlotUsed(t) ==
  CASE pc[t] = "check"   -> Slot(call[t].tbl, call[t].bucket)
    [] pc[t] = "init"    -> Slot(call[t].tbl, Parent(Head(task[t].todo)))
    [] pc[t] = "publish" -> Slot(task[t].dst, Head(task[t].todo))
    [] pc[t] = "head"    -> walk[t].prev
    [] pc[t] = "copy"    -> Slot(grow[t].old, grow[t].i)

OutOfBounds(t) ==
  /\ pc[t] \in {"check", "init", "publish", "head", "copy"}
  /\ ~InBounds(SlotUsed(t))
  /\ status' = "bounds"
  /\ UNCHANGED <<table, size, count, tables, heap, live, hz, pc, locals, ret, calls>>

WildRead(t) ==
  /\ pc[t] = "found"
  /\ DerefsMarkedNull(t)
  /\ status' = "wild"
  /\ UNCHANGED <<table, size, count, tables, heap, live, hz, pc, locals, ret, calls>>

-----------------------------------------------------------------------------
Begin(t) ==
  \/ \E k \in Keys, v \in Vals : BeginInsert(t, k, v)
  \/ \E kind \in {"find", "delete"}, k \in Keys : BeginLookup(t, kind, k)

BucketInit(t) ==
  InitCheckParent(t) \/ InitAlloc(t) \/ InitFoundDummy(t) \/ InitReload(t) \/ InitPublish(t)

ListFind(t) ==
  FindReadTable(t) \/ FindReadHead(t) \/ FindReadNext(t) \/ FindVerify(t) \/ FindUnlink(t)

Insert(t) ==
  \/ InsertReadSize(t) \/ InsertPrepare(t) \/ InsertLink(t) \/ InsertFoundKey(t)
  \/ InsertLoadSize(t) \/ InsertCount(t)

Resize(t) == ResizeAlloc(t) \/ ResizeCopy(t) \/ ResizeGrow(t) \/ ResizeSwap(t)

Lookup(t) == LookupReadTable(t) \/ FindMiss(t) \/ FindHit(t) \/ FindValue(t)

Delete(t) ==
  DeleteHit(t) \/ DeleteMark(t) \/ DeleteDetach(t) \/ DeleteUncount(t)
  \/ DeleteTake(t) \/ DeleteErase(t)

Fault(t) == OutOfBounds(t) \/ WildRead(t)

(* A call in progress takes its next step.                                 *)
Progress(t) ==
  /\ status = "running"
  /\ \/ CheckBucket(t) \/ BucketInit(t) \/ ListFind(t) \/ Insert(t) \/ Resize(t)
     \/ Lookup(t) \/ Delete(t) \/ Fault(t)

Next ==
  \E t \in Threads :
    \/ Progress(t)
    \/ status = "running" /\ (Begin(t) \/ Destroy(t))

Spec == Init /\ [][Next]_vars

(* Every thread inside a call keeps being scheduled; nothing makes a       *)
(* client call.                                                            *)
FairSpec == Spec /\ \A t \in Threads : WF_vars(Progress(t))

-----------------------------------------------------------------------------
(* Properties.                                                             *)

(* The nodes a thread has allocated and not yet linked are its own; all    *)
(* other allocated nodes have been on the list.                            *)
Own(t) == {call[t].mine, task[t].dummy} \ {NIL}
Shared == live \ UNION {Own(t) : t \in Threads}

Marked(n) == heap[n].next.bit = 1
Present   == {n \in Shared : IsRegular(heap[n].code) /\ ~Marked(n)}

(* Types of the variables.                                                 *)
LinkType == [node : Node \cup {NIL}, bit : {0, 1}]
PtrType  == [to : {"null", "table", "node", "value"}, id : Nat]
SlotType == [tb : TableId, ix : Nat] \cup [tb : {0}, ix : Node]
NodeType == [code : Word, key : Nat, value : Vals \cup {NIL}, next : LinkType]
CallType == [kind : Kinds \cup {"none"}, key : Nat, val : Vals \cup {NIL},
             bucket : Nat, tbl : TableId, mine : Node \cup {NIL}]
WalkType == [prev : SlotType, cur : LinkType, nxt : LinkType]
TaskType == [todo : Seq(Nat), dummy : Node \cup {NIL}, res : Node \cup {NIL}, dst : TableId]
GrowType == [sz : Nat, old : TableId, new : TableId, i : Nat]
RetType  == [kind : Kinds \cup {"none"}, key : Nat, val : Vals \cup {NIL}, out : Nat]
Labels   == {"idle", "size", "table", "check", "init", "alloc", "find", "head",
             "next", "verify", "unlink", "found", "link", "reload", "publish",
             "load", "count", "resize", "copy", "grow", "swap", "value", "mark",
             "detach", "uncount", "take", "erase"}

IsArray(a) == DOMAIN a \subseteq Nat /\ a \in [DOMAIN a -> LinkType]

TypeOK ==
  /\ table \in TableId
  /\ size \in Nat \ {0}
  /\ count \in Int
  /\ DOMAIN tables = TableId
  /\ \A i \in TableId : IsArray(tables[i])
  /\ heap \in [Node -> NodeType]
  /\ live \subseteq Node
  /\ hz \in [Threads -> [0 .. 2 -> PtrType]]
  /\ pc \in [Threads -> Labels]
  /\ call \in [Threads -> CallType]
  /\ walk \in [Threads -> WalkType]
  /\ task \in [Threads -> TaskType]
  /\ grow \in [Threads -> GrowType]
  /\ ret \in [Threads -> RetType]
  /\ calls \in [Threads -> Nat]
  /\ status \in {"running", "destroyed", "bounds", "wild"}

(* What a thread relies on where: a bucket to initialize, a current node,  *)
(* and the current node's successor, which hashtable_list_delete takes     *)
(* from the hazard pointer in which hashtable_list_find left it.           *)
HasSuccessor(t) ==
  \/ pc[t] \in {"verify", "unlink", "mark", "detach"}
  \/ pc[t] = "found" /\ walk[t].cur.node # NIL

(* Where hashtable_list_find or hashtable_list_insert runs, where          *)
(* hashtable_bucket_init calls them, and where an insertion may have a     *)
(* node that is not yet linked.                                            *)
Searching == {"find", "head", "next", "verify", "unlink", "found", "link"}
InInit    == {"init", "alloc", "reload", "publish"}
Unlinked  == {"size", "table", "check"} \cup InInit \cup Searching

ControlAt(t) ==
  /\ pc[t] \in InInit => Initializing(t)
  /\ Initializing(t) => pc[t] \in InInit \cup Searching
  /\ pc[t] = "mark" => call[t].kind = "delete"
  /\ pc[t] \in {"verify", "unlink", "value", "mark", "detach", "uncount", "take", "erase"}
       => walk[t].cur.node # NIL
  /\ HasSuccessor(t) => hz[t][0].id = walk[t].nxt.node

Control == \A t \in Threads : ControlAt(t)

OwnAt(t) ==
  /\ call[t].mine # NIL <=> call[t].kind = "insert" /\ pc[t] \in Unlinked
  /\ task[t].dummy # NIL <=> Initializing(t) /\ pc[t] \in Searching
  /\ call[t].mine # NIL => call[t].mine # task[t].dummy
  /\ Own(t) \subseteq live
  /\ pc[t] = "link" => /\ Inserting(t)
                       /\ heap[Inserted(t)].next = Link(walk[t].cur.node, 0)

(* A node not yet linked belongs to exactly one thread, which is inside    *)
(* the call that allocated it: none is leaked and none has two owners. Its *)
(* link leads where the CAS will expect it to.                             *)
Ownership ==
  status # "destroyed" =>
    /\ \A t \in Threads : OwnAt(t)
    /\ \A t, u \in Threads : t # u => Own(t) \cap Own(u) = {}

Target == Shared \cup {NIL}

(* Every pointer a thread may follow, in the list, in a bucket array or in *)
(* a local variable, leads to a node that is allocated and on the list:    *)
(* no thread reads or writes a node that was freed or never published.     *)
NoDangling ==
  status # "destroyed" =>
    /\ \A n \in Shared : heap[n].next.node \in Target
    /\ \A i \in TableId : \A b \in DOMAIN tables[i] : tables[i][b].node \in Target
    /\ \A t \in Threads :
         /\ {walk[t].cur.node, walk[t].nxt.node, task[t].res} \subseteq Target
         /\ walk[t].prev.tb = 0 => walk[t].prev.ix \in Shared

(* The list is sorted by split-order code: no link leads to a smaller code *)
(* ("preserving ordering of the elements", "sorted linked list"). Codes can*)
(* be equal: hashes that differ only in the top bit have the same one.     *)
Sorted ==
  \A n \in Shared : heap[n].next.node # NIL => heap[n].code <= heap[heap[n].next.node].code

(* No key has two unmarked nodes.                                          *)
NoDuplicates ==
  \A m, n \in Present : heap[m].key = heap[n].key => m = n

(* The count is the number of keys, give or take the calls that have       *)
(* changed the list and not yet the count.                                 *)
CountExact ==
  status # "destroyed" =>
    count + Cardinality({t \in Threads : pc[t] \in {"load", "count"}})
      = Cardinality(Present) + Cardinality({t \in Threads : pc[t] \in {"detach", "uncount"}})

(* No element is lost: what is not deleted can be reached from bucket 0.   *)
Reachable == 
  status = "running" => \A n \in Shared : Marked(n) \/ n \in OnList

(* A slot of the bucket array in use is empty or leads to the dummy node   *)
(* of its bucket.                                                          *)
SlotsHoldDummies ==
  \A b \in DOMAIN tables[table] :
    LET n == tables[table][b].node IN
    n # NIL => n \in Shared /\ heap[n].code = DummyCode(b) /\ heap[n].key = b

(* A deleted node's link never changes again: nothing is inserted behind   *)
(* a node that is about to be unlinked, and no deletion is undone.         *)
MarkedFrozen ==
  [][\A n \in Shared : Marked(n) => heap'[n].next = heap[n].next]_vars

(* The nodes a walk uses are protected by the thread's hazard pointers.    *)
Walking == {"next", "verify", "unlink", "found", "link", "value", "mark", "detach"}
Protected ==
  \A t \in Threads : pc[t] \in Walking =>
    /\ hz[t][1] = Ptr("node", walk[t].cur.node)
    /\ walk[t].prev.tb = 0 => hz[t][2] = Ptr("node", walk[t].prev.ix)

(* The size may be ahead of the bucket array in use only while one thread  *)
(* is between the two compare-and-swaps of hashtable_resize, and then that *)
(* thread's second one will succeed.                                       *)
SizeAhead ==
  status = "running" =>
    LET slots == Cardinality(DOMAIN tables[table]) IN
    \/ slots = size
    \/ \E t \in Threads : pc[t] = "swap" /\ grow[t].old = table /\ 2 * slots = size

(* Bucket 0 is never initialized: hashtable_bucket_parent would not return *)
(* for it.                                                                 *)
BucketZeroReady ==
  \A t \in Threads : \A i \in DOMAIN task[t].todo : task[t].todo[i] # 0

(* hashtable_destroy leaves nothing allocated but deleted nodes that were  *)
(* unlinked before it was called.                                          *)
DestroyFreesList == status = "destroyed" => \A n \in live : Marked(n)

(* No operation reads through the marked null pointer, or uses a bucket    *)
(* number that its bucket array does not have.                             *)
NoWildAccess == status \notin {"wild", "bounds"}

(* Every call returns, unless the program ends first.                      *)
Termination ==
  \A t \in Threads : pc[t] # "idle" ~> (pc[t] = "idle" \/ status # "running")

=============================================================================
