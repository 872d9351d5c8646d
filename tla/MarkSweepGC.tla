---------------------------- MODULE MarkSweepGC ----------------------------
(***************************************************************************)
(* The collector of mark_and_sweep_gc.c.  Marking needs no stack: while it *)
(* runs, the prev link of a marked object is not the list's but leads to   *)
(* the object from which it was reached, and index counts the references   *)
(* already looked at.  The sweep puts the list's links back.               *)
(*                                                                         *)
(* The collector has one caller, which does not touch the heap during a    *)
(* collection.  Marking and sweeping take one step for each reference and  *)
(* each object.                                                            *)
(***************************************************************************)
EXTENDS Naturals, FiniteSets

CONSTANTS
  MaxObjects,   (* bound: objects allocated at one time                     *)
  Children,     (* numbers of references an object may have                 *)
  Variables,    (* the caller's variables that it may make roots            *)
  GcRoots,      (* GC_ROOTS: 32                                             *)
  PtrSize,      (* the size of a pointer in bytes                           *)
  MaxCalls,     (* bound: calls of the collector                            *)
  MaxAssigned   (* bound: assignments the caller makes between them         *)

ASSUME ConstantsAssumption ==
  /\ MaxObjects \in Nat
  /\ Children \subseteq 0 .. 255
  /\ GcRoots \in Nat
  /\ PtrSize \in Nat \ {0}
  /\ {MaxCalls, MaxAssigned} \subseteq Nat
  /\ 0 \notin Variables

(* Objects are named by their addresses.                                   *)
NIL     == 0
Object  == 1 .. MaxObjects

(* A word that is not NIL and leads to no object of the collector: the     *)
(* address is above the heap, misaligned, or not preceded by GC_MAGIC.     *)
FOREIGN == MaxObjects + 1
Word    == Object \cup {NIL, FOREIGN}

VARIABLES
  head,       (* gc->head: the list of all objects                          *)
  data,       (* gc->root.data: the variables that are roots; 0: no entry   *)
  nroots,     (* gc->root.size                                              *)
  end,        (* gc->heap.end; heap.beg stays NULL, below every address     *)
  count,      (* gc->count                                                  *)
  magic,      (* the header of each object: magic = GC_MAGIC,               *)
  referenced, (* the mark,                                                  *)
  children,   (* the number of its references,                              *)
  index,      (* of those looked at,                                        *)
  next,       (* and the links                                              *)
  prev,
  refs,       (* the references of each object                              *)
  live,       (* the objects that are allocated                             *)
  var,        (* the caller's variables                                     *)
  pc,         (* "idle", or which loop of a collection runs                 *)
  i,          (* the locals of gc_collect and gc_mark                       *)
  object,
  last,       (* gc_collect's own prev                                      *)
  collected,
  status,     (* "running", "destroying", "destroyed", "misused"            *)
  calls,      (* the calls and                                              *)
  assigned    (* the assignments the caller has made                        *)

gc     == <<head, data, nroots, end, count>>
shape  == <<magic, children, refs>>
marks  == <<referenced, index>>
links  == <<next, prev>>
heap   == <<shape, marks, links, live>>
locals == <<pc, i, object, last, collected>>
caller == <<status, calls, assigned>>
vars   == <<gc, heap, var, locals, caller>>

(* gc_create.                                                              *)
Init ==
  /\ head = NIL
  /\ data = [e \in 1 .. GcRoots |-> 0]
  /\ nroots = 0
  /\ end = 0
  /\ count = 0
  /\ magic = [o \in Object |-> FALSE]
  /\ referenced = [o \in Object |-> FALSE]
  /\ children = [o \in Object |-> 0]
  /\ index = [o \in Object |-> 0]
  /\ next = [o \in Object |-> NIL]
  /\ prev = [o \in Object |-> NIL]
  /\ refs = [o \in Object |-> <<>>]
  /\ live = {}
  /\ var = [v \in Variables |-> NIL]
  /\ pc = "idle"
  /\ i = 1
  /\ object = NIL
  /\ last = NIL
  /\ collected = 0
  /\ status = "running"
  /\ calls = 0
  /\ assigned = 0

-----------------------------------------------------------------------------
(* The caller.                                                             *)

Called ==
  /\ calls < MaxCalls
  /\ calls' = calls + 1
  /\ UNCHANGED assigned

Assigned ==
  /\ assigned < MaxAssigned
  /\ assigned' = assigned + 1
  /\ UNCHANGED calls

(* Memory that is no object's.                                             *)
Blank(o) ==
  /\ magic' = [magic EXCEPT ![o] = FALSE]
  /\ referenced' = [referenced EXCEPT ![o] = FALSE]
  /\ children' = [children EXCEPT ![o] = 0]
  /\ index' = [index EXCEPT ![o] = 0]
  /\ refs' = [refs EXCEPT ![o] = <<>>]

(* gc_alloc, and gc_strdup with no children: the object goes to the front  *)
(* of the list.                                                            *)
AllocAt(o, n) ==
  /\ end' = IF o > end THEN o ELSE end
  /\ magic' = [magic EXCEPT ![o] = TRUE]
  /\ referenced' = [referenced EXCEPT ![o] = FALSE]
  /\ children' = [children EXCEPT ![o] = n]
  /\ index' = [index EXCEPT ![o] = 0]
  /\ refs' = [refs EXCEPT ![o] = [c \in 1 .. n |-> NIL]]
  /\ next' = [next EXCEPT ![o] = head]
  /\ prev' = [a \in Object |-> IF a = o THEN NIL ELSE IF a = head THEN o ELSE prev[a]]
  /\ head' = o
  /\ count' = count + 1
  /\ live' = live \cup {o}
  /\ UNCHANGED <<data, nroots, var, locals, status>>

(* Of the free addresses malloc returns the first, for the order of        *)
(* addresses decides only heap.end. A failed allocation changes nothing.   *)
Alloc(n) ==
  /\ live # Object
  /\ AllocAt(CHOOSE a \in Object : a \notin live, n)

(* gc_root: one entry more than there are fails an assertion. A variable   *)
(* that was no root may lead to an object that has been collected; then    *)
(* the caller sets it before it makes it one.                              *)
Root(v) ==
  /\ nroots < GcRoots
  /\ var[v] \in live \cup {NIL}
  /\ data' = [data EXCEPT ![nroots + 1] = v]
  /\ nroots' = nroots + 1
  /\ UNCHANGED <<head, end, count, heap, var, locals, status>>

(* gc_free: the object's neighbours, or head, are linked to each other.    *)
Free(o) ==
  /\ next' = [a \in Object |-> IF a = o THEN NIL ELSE IF a = prev[o] THEN next[o] ELSE next[a]]
  /\ prev' = [a \in Object |-> IF a = o THEN NIL ELSE IF a = next[o] THEN prev[o] ELSE prev[a]]
  /\ head' = IF prev[o] = NIL THEN next[o] ELSE head
  /\ Blank(o)
  /\ count' = count - 1
  /\ live' = live \ {o}

(* The caller frees only what nothing refers to.                           *)
CallFree(o) ==
  /\ o \in live
  /\ \A v \in Variables : var[v] # o
  /\ \A a \in live \ {o} : \A c \in DOMAIN refs[a] : refs[a][c] # o
  /\ Free(o)
  /\ UNCHANGED <<data, nroots, end, var, locals, status>>

SetRef(o, c, w) ==
  /\ o \in live
  /\ w \in live \cup {NIL, FOREIGN}
  /\ refs' = [refs EXCEPT ![o] = [@ EXCEPT ![c] = w]]
  /\ UNCHANGED <<gc, magic, children, marks, links, live, var, locals, status>>

SetVar(v, w) ==
  /\ w \in live \cup {NIL}
  /\ var' = [var EXCEPT ![v] = w]
  /\ UNCHANGED <<gc, heap, locals, status>>

(* gc_realloc passes realloc the address behind the object's header, which *)
(* malloc did not return: undefined behaviour.                             *)
Realloc(o) ==
  /\ o \in live
  /\ status' = "misused"
  /\ UNCHANGED <<gc, heap, var, locals>>

Collecting ==
  /\ pc' = "roots"
  /\ i' = 1
  /\ collected' = 0
  /\ UNCHANGED <<head, nroots, end, count, heap, var, object, last>>

Collect == Collecting /\ UNCHANGED <<data, status>>

(* A mutant: the memset ends one entry early.                              *)
ClearedOneLess == [e \in 1 .. GcRoots |-> IF e < GcRoots \div PtrSize THEN 0 ELSE data[e]]

(* memset is given the number of entries for their size in bytes.          *)
Cleared == [e \in 1 .. GcRoots |-> IF e <= GcRoots \div PtrSize THEN 0 ELSE data[e]]

(* gc_destroy clears roots, collects, and frees the collector (Finish).    *)
Destroy ==
  /\ data' = Cleared
  /\ status' = "destroying"
  /\ Collecting

Caller ==
  /\ status = "running"
  /\ pc = "idle"
  /\ \/ /\ Called
        /\ \/ \E n \in Children : Alloc(n)
           \/ \E v \in Variables : Root(v)
           \/ \E o \in Object : CallFree(o) \/ Realloc(o)
           \/ Collect
           \/ Destroy
     \/ /\ Assigned
        /\ \/ \E o \in Object, w \in Word : \E c \in DOMAIN refs[o] : SetRef(o, c, w)
           \/ \E v \in Variables, w \in Word : SetVar(v, w)

-----------------------------------------------------------------------------
(* A collection.                                                           *)

(* gc_collect's first loop, with the first lines of gc_mark.               *)
NextRoot ==
  /\ pc = "roots"
  /\ i <= GcRoots
  /\ IF data[i] # 0 /\ var[data[i]] # NIL /\ ~referenced[var[data[i]]]
     THEN /\ referenced' = [referenced EXCEPT ![var[data[i]]] = TRUE]
          /\ prev' = [prev EXCEPT ![var[data[i]]] = NIL]
          /\ object' = var[data[i]]
          /\ pc' = "mark"
          /\ UNCHANGED i
     ELSE /\ i' = i + 1
          /\ UNCHANGED <<referenced, prev, object, pc>>
  /\ UNCHANGED <<gc, shape, index, next, live, var, last, collected, caller>>

(* A mutant: an object that was marked before is entered again.            *)
EntersAgain(w) == w \in Object /\ w <= end /\ magic[w]

(* A mutant: the last object of the heap is taken to be outside it.        *)
EntersBelowEnd(w) == w \in Object /\ w < end /\ magic[w] /\ ~referenced[w]

(* The tests on a reference: is it the address of an unmarked object?      *)
Enters(w) == w \in Object /\ w <= end /\ magic[w] /\ ~referenced[w]

(* A mutant: the index is advanced only for the references that are entered. *)
MarkCountsEntered ==
  LET n == index[object] + 1
      w == refs[object][n]
  IN
  /\ pc = "mark"
  /\ object # NIL
  /\ index[object] < children[object]
  /\ Enters(w)
  /\ index' = [index EXCEPT ![object] = n]
  /\ prev' = [prev EXCEPT ![w] = object]
  /\ referenced' = [referenced EXCEPT ![w] = TRUE]
  /\ object' = w
  /\ UNCHANGED <<gc, shape, next, live, var, pc, i, last, collected, caller>>

(* One reference of the current object. An object that was not marked yet  *)
(* becomes the current one.                                                *)
MarkReference ==
  LET n == index[object] + 1
      w == refs[object][n]
  IN
  /\ pc = "mark"
  /\ object # NIL
  /\ index[object] < children[object]
  /\ index' = [index EXCEPT ![object] = n]
  /\ IF Enters(w)
     THEN /\ prev' = [prev EXCEPT ![w] = object]
          /\ referenced' = [referenced EXCEPT ![w] = TRUE]
          /\ object' = w
     ELSE UNCHANGED <<prev, referenced, object>>
  /\ UNCHANGED <<gc, shape, next, live, var, pc, i, last, collected, caller>>

(* The walk goes back to where the current object was reached from.        *)
MarkBack ==
  /\ pc = "mark"
  /\ object # NIL
  /\ index[object] >= children[object]
  /\ object' = prev[object]
  /\ UNCHANGED <<gc, heap, var, pc, i, last, collected, caller>>

MarkDone ==
  /\ pc = "mark"
  /\ object = NIL
  /\ pc' = "roots"
  /\ i' = i + 1
  /\ UNCHANGED <<gc, heap, var, object, last, collected, caller>>

StartSweep ==
  /\ pc = "roots"
  /\ i > GcRoots
  /\ pc' = "sweep"
  /\ object' = head
  /\ last' = NIL
  /\ UNCHANGED <<gc, heap, var, i, collected, caller>>

SweepFree ==
  /\ pc = "sweep"
  /\ object # NIL
  /\ ~referenced[object]
  /\ Free(object)
  /\ collected' = collected + 1
  /\ object' = next[object]
  /\ UNCHANGED <<data, nroots, end, var, pc, i, last, caller>>

(* A mutant: the index is not reset.                                       *)
SweepKeepIndex ==
  /\ pc = "sweep"
  /\ object # NIL
  /\ referenced[object]
  /\ prev' = [prev EXCEPT ![object] = last]
  /\ referenced' = [referenced EXCEPT ![object] = FALSE]
  /\ last' = object
  /\ object' = next[object]
  /\ UNCHANGED <<gc, shape, index, next, live, var, pc, i, collected, caller>>

SweepKeep ==
  /\ pc = "sweep"
  /\ object # NIL
  /\ referenced[object]
  /\ prev' = [prev EXCEPT ![object] = last]
  /\ referenced' = [referenced EXCEPT ![object] = FALSE]
  /\ index' = [index EXCEPT ![object] = 0]
  /\ last' = object
  /\ object' = next[object]
  /\ UNCHANGED <<gc, shape, next, live, var, pc, i, collected, caller>>

Finish ==
  /\ pc = "sweep"
  /\ object = NIL
  /\ pc' = "idle"
  /\ status' = IF status = "destroying" THEN "destroyed" ELSE status
  /\ UNCHANGED <<gc, heap, var, i, object, last, collected, calls, assigned>>

Collector ==
  \/ NextRoot \/ MarkReference \/ MarkBack \/ MarkDone
  \/ StartSweep \/ SweepFree \/ SweepKeep \/ Finish

Next == Caller \/ Collector

Spec == Init /\ [][Next]_vars

(* A collection that has begun goes on.                                    *)
FairSpec == Spec /\ WF_vars(Collector)

-----------------------------------------------------------------------------
(* Properties.                                                             *)

Labels == {"idle", "roots", "mark", "sweep"}

GcTypes ==
  /\ head \in Object \cup {NIL}
  /\ data \in [1 .. GcRoots -> Variables \cup {0}]
  /\ nroots \in 0 .. GcRoots
  /\ end \in 0 .. MaxObjects
  /\ count \in Nat

HeapTypes ==
  /\ magic \in [Object -> BOOLEAN] /\ referenced \in [Object -> BOOLEAN]
  /\ children \in [Object -> 0 .. 255] /\ index \in [Object -> 0 .. 255]
  /\ next \in [Object -> Object \cup {NIL}] /\ prev \in [Object -> Object \cup {NIL}]
  /\ DOMAIN refs = Object /\ \A o \in Object : refs[o] \in [1 .. children[o] -> Word]
  /\ live \subseteq Object

LocalTypes ==
  /\ pc \in Labels
  /\ i \in 1 .. (GcRoots + 1)
  /\ object \in Object \cup {NIL} /\ last \in Object \cup {NIL}
  /\ collected \in Nat

CallerTypes ==
  /\ var \in [Variables -> Word]
  /\ status \in {"running", "destroying", "destroyed", "misused"}
  /\ calls \in 0 .. MaxCalls
  /\ assigned \in 0 .. MaxAssigned

(* Types of the variables.                                                 *)
TypeOK == GcTypes /\ HeapTypes /\ LocalTypes /\ CallerTypes

(* What can be reached from the objects of A by the edges E.               *)
Closure(E, A) ==
  {o \in Object : \A S \in SUBSET Object :
                    A \subseteq S /\ (\A s \in S : E[s] \subseteq S) => o \in S}

(* The objects that the references of an object lead to, the one after it  *)
(* on the list, and the one its prev link leads to.                        *)
Referents == [o \in Object |-> {refs[o][c] : c \in DOMAIN refs[o]} \cap Object]
Nexts     == [o \in Object |-> {next[o]} \cap Object]
Prevs     == [o \in Object |-> {prev[o]} \cap Object]

(* What the caller can get at: the objects its root variables lead to, and *)
(* those that the references of such objects lead to.                      *)
RootObjects == {o \in Object : \E e \in 1 .. GcRoots : data[e] # 0 /\ var[data[e]] = o}
Reachable   == Closure(Referents, RootObjects)

OnList == Closure(Nexts, {head} \cap Object)

(* Between collections, whatever the last one did to prev, the list holds  *)
(* exactly the allocated objects, its links match, and every object is     *)
(* ready to be marked.                                                     *)
ListSound ==
  pc = "idle" =>
    /\ OnList = live
    /\ count = Cardinality(live)
    /\ \A o \in live :
         /\ prev[o] = NIL <=> o = head
         /\ next[o] # NIL => prev[next[o]] = o
         /\ ~referenced[o] /\ index[o] = 0

(* The path of the walk: the current object and those it was reached from. *)
OnPath == Closure(Prevs, {object} \cap Object)

(* Why marking misses nothing although it keeps no stack: the path leads   *)
(* back to the root by the references last looked at, every marked object  *)
(* off the path has been dealt with, and every reference dealt with leads  *)
(* to a marked object.                                                     *)
MarkWalk ==
  pc = "mark" =>
    /\ \A o \in OnPath :
         /\ referenced[o]
         /\ prev[o] # NIL => refs[prev[o]][index[prev[o]]] = o
         /\ prev[o] = NIL => o = var[data[i]]
    /\ \A o \in live : referenced[o] =>
         /\ o \in OnPath \/ index[o] = children[o]
         /\ \A c \in 1 .. index[o] :
              refs[o][c] \in Object => referenced[refs[o][c]]

(* A collection frees all garbage and nothing else.                        *)
CollectExact == pc = "sweep" /\ object = NIL => live = Reachable

(* gc_destroy leaves nothing behind if no more roots were registered than  *)
(* its memset clears, which is 4 of the 32 with pointers of 8 bytes.       *)
DestroyCollects == status = "destroyed" /\ nroots <= GcRoots \div PtrSize => live = {}

(* Every collection ends, on cyclic structures too.                        *)
Termination == pc # "idle" ~> pc = "idle"

=============================================================================
