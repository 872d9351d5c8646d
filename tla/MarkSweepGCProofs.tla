------------------------- MODULE MarkSweepGCProofs -------------------------
(***************************************************************************)
(* Proofs about MarkSweepGC, for heaps of any size and shape: the list     *)
(* survives every call and every collection, the walk misses nothing, and  *)
(* a collection frees all garbage and nothing else.                        *)
(***************************************************************************)
EXTENDS MarkSweepGC, FiniteSetTheorems, TLAPS

-----------------------------------------------------------------------------
(* What can be reached.                                                    *)

(* It contains where one starts, and where each step leads.                *)
LEMMA ClosureHolds ==
  ASSUME NEW E, NEW A, A \subseteq Object, \A o \in Object : E[o] \subseteq Object
  PROVE  /\ Closure(E, A) \subseteq Object
         /\ A \subseteq Closure(E, A)
         /\ \A s \in Closure(E, A) : E[s] \subseteq Closure(E, A)
BY DEF Closure

(* It is the least such set.                                               *)
LEMMA ClosureLeast ==
  ASSUME NEW E, NEW A, NEW S, S \subseteq Object, A \subseteq S,
         \A s \in S : E[s] \subseteq S
  PROVE  Closure(E, A) \subseteq S
BY DEF Closure

(* From nothing, nothing.                                                  *)
LEMMA ClosureEmpty == ASSUME NEW E PROVE Closure(E, {}) = {}
BY ClosureLeast, {} \subseteq Object

(* From one object: the object, and what can be reached one step further.  *)
LEMMA ClosureUnfold ==
  ASSUME NEW E, NEW o \in Object, \A s \in Object : E[s] \subseteq Object
  PROVE  Closure(E, {o}) = {o} \cup Closure(E, E[o])
<1> DEFINE C == Closure(E, {o})
           D == Closure(E, E[o])
<1>1. /\ C \subseteq Object /\ o \in C /\ \A s \in C : E[s] \subseteq C
      /\ D \subseteq Object /\ E[o] \subseteq D /\ \A s \in D : E[s] \subseteq D
  BY ClosureHolds, {o} \subseteq Object
<1> HIDE DEF C, D
<1>2. C \subseteq {o} \cup D
  <2>1. {o} \cup D \subseteq Object /\ \A s \in {o} \cup D : E[s] \subseteq {o} \cup D
    BY <1>1
  <2> QED BY <2>1, ClosureLeast DEF C
<1>3. D \subseteq C
  BY <1>1, ClosureLeast DEF D
<1> QED BY <1>1, <1>2, <1>3 DEF C, D

(* Edges elsewhere do not matter.                                          *)
LEMMA ClosureSame ==
  ASSUME NEW E, NEW F, NEW A, A \subseteq Object, \A o \in Object : E[o] \subseteq Object,
         \A o \in Object : F[o] \subseteq Object, \A s \in Closure(E, A) : F[s] = E[s]
  PROVE  Closure(F, A) = Closure(E, A)
<1> DEFINE C == Closure(E, A)
           D == Closure(F, A)
<1>1. /\ C \subseteq Object /\ A \subseteq C /\ \A s \in C : E[s] \subseteq C
      /\ D \subseteq Object /\ A \subseteq D /\ \A s \in D : F[s] \subseteq D
      /\ \A s \in C : F[s] = E[s]
  BY ClosureHolds
<1> HIDE DEF C, D
<1>2. D \subseteq C
  BY <1>1, ClosureLeast DEF D
<1>3. C \subseteq D
  BY <1>1, <1>2, ClosureLeast DEF C
<1> QED BY <1>2, <1>3 DEF C, D

(* Edges lead to objects.                                                  *)
LEMMA Edges ==
  \A o \in Object : Referents[o] \subseteq Object /\ Nexts[o] \subseteq Object
                    /\ Prevs[o] \subseteq Object
BY DEF Referents, Nexts, Prevs

-----------------------------------------------------------------------------
(* The invariant.                                                          *)

(* Following these edges from an object of S never leads back to it.       *)
Descending(E, S) == \E r \in [Object -> Nat] : \A o \in S : \A p \in E[o] : r[p] < r[o]

(* gc_mark recognizes the allocated objects, which it has not looked at    *)
(* before it marks them, and which lead to allocated objects.              *)
HeapInv ==
  /\ \A o \in Object : (magic[o] <=> o \in live) /\ index[o] <= children[o]
  /\ \A o \in live :
       /\ o <= end
       /\ ~referenced[o] => index[o] = 0
       /\ pc # "sweep" => Referents[o] \subseteq live

(* Roots are registered in order, lead to objects, and are cleared by      *)
(* gc_destroy as far as its memset goes.                                   *)
RootInv ==
  \A e \in 1 .. GcRoots :
    /\ data[e] # 0 => var[data[e]] \in live \cup {NIL}
    /\ e > nroots => data[e] = 0
    /\ status = "destroying" /\ nroots <= GcRoots \div PtrSize => data[e] = 0

(* The next links, which a collection never borrows.                       *)
ChainInv ==
  /\ head \in live \cup {NIL}
  /\ \A o \in live : next[o] # NIL => next[o] \in live /\ next[o] # head
  /\ \A o, p \in live : next[o] = next[p] /\ next[o] # NIL => o = p
  /\ OnList = live
  /\ Descending(Nexts, live)
  /\ count = Cardinality(live)

(* The prev link of an object is the list's unless the walk borrowed it.   *)
Linked(o) ==
  /\ o = head => prev[o] = NIL
  /\ \A p \in live : next[p] = o => prev[o] = p

LinkInv == \A o \in live : ~referenced[o] => Linked(o)

(* Marked objects can be reached and, unless they are on the path, are     *)
(* dealt with; the roots so far are marked.                                *)
MarkInv ==
  pc \in {"roots", "mark"} =>
    /\ \A o \in live : referenced[o] =>
         /\ o \in Reachable
         /\ (pc = "mark" /\ o \in OnPath) \/ index[o] = children[o]
         /\ \A c \in 1 .. index[o] :
              refs[o][c] \in Object => referenced[refs[o][c]]
    /\ \A e \in 1 .. (i - 1) :
         data[e] # 0 /\ var[data[e]] # NIL => referenced[var[data[e]]]

PathInv ==
  pc = "mark" =>
    /\ i \in 1 .. GcRoots /\ data[i] # 0 /\ var[data[i]] # NIL /\ referenced[var[data[i]]]
    /\ OnPath \subseteq live
    /\ object \in OnPath \cup {NIL}
    /\ \A o \in OnPath :
         /\ referenced[o]
         /\ prev[o] # NIL =>
              /\ prev[o] \in OnPath
              /\ index[prev[o]] \in 1 .. children[prev[o]]
              /\ refs[prev[o]][index[prev[o]]] = o
         /\ prev[o] = NIL => o = var[data[i]]
    /\ Descending(Prevs, OnPath)

(* The rest of the list is marked where it can be reached; what the sweep  *)
(* has passed is what it kept.                                             *)
Ahead == Closure(Nexts, {object} \cap Object)

SweepInv ==
  pc = "sweep" =>
    /\ object \in live \cup {NIL}
    /\ last = NIL => object = head
    /\ last # NIL => last \in live /\ next[last] = object
    /\ Reachable \subseteq live
    /\ \A o \in live :
         IF o \in Ahead THEN referenced[o] <=> o \in Reachable
         ELSE ~referenced[o] /\ o \in Reachable

IdleInv ==
  /\ pc = "idle" => \A o \in live : ~referenced[o]
  /\ status = "destroying" => pc # "idle"
  /\ status = "destroyed" => pc = "idle" /\ (nroots <= GcRoots \div PtrSize => live = {})
  /\ status = "misused" => pc = "idle"

GcInv ==
  TypeOK /\ HeapInv /\ RootInv /\ ChainInv /\ LinkInv /\ MarkInv /\ PathInv /\ SweepInv /\ IdleInv

-----------------------------------------------------------------------------
(* Types.                                                                  *)

(* There are finitely many objects, and none is allocated only if the      *)
(* count is 0.                                                             *)
LEMMA LiveCounted ==
  ASSUME TypeOK, ChainInv
  PROVE  /\ IsFiniteSet(live)
         /\ \A o \in live : count - 1 \in Nat /\ Cardinality(live \ {o}) = count - 1
         /\ \A o \in Object \ live : Cardinality(live \cup {o}) = count + 1
<1>1. IsFiniteSet(live)
  <2>1. 1 \in Int /\ MaxObjects \in Int
    BY ConstantsAssumption
  <2> QED BY <2>1, FS_Interval, FS_Subset DEF TypeOK, HeapTypes, Object
<1>2. ASSUME NEW o \in live
      PROVE  count - 1 \in Nat /\ Cardinality(live \ {o}) = count - 1
  <2>1. Cardinality(live \ {o}) = Cardinality(live) - 1 /\ Cardinality(live) \in Nat
        /\ Cardinality(live \ {o}) \in Nat
    BY <1>1, <1>2, FS_RemoveElement, FS_CardinalityType, FS_Subset
  <2> QED BY <2>1 DEF ChainInv
<1>3. ASSUME NEW o \in Object \ live PROVE Cardinality(live \cup {o}) = count + 1
  BY <1>1, <1>3, FS_AddElement DEF ChainInv
<1> QED BY <1>1, <1>2, <1>3

(* malloc finds an address that is not in use.                             *)
LEMMA AllocFresh ==
  ASSUME TypeOK, NEW n \in Children, Alloc(n)
  PROVE  n \in 0 .. 255 /\ \E o \in Object \ live : AllocAt(o, n)
<1>1. (CHOOSE a \in Object : a \notin live) \in Object \ live
  BY DEF Alloc, TypeOK, HeapTypes
<1>2. AllocAt(CHOOSE a \in Object : a \notin live, n)
  BY DEF Alloc
<1> QED BY <1>1, <1>2, ConstantsAssumption

(* gc_free keeps the types of what it changes.                             *)
LEMMA FreeTypes ==
  ASSUME TypeOK, ChainInv, NEW o \in live, Free(o), UNCHANGED <<data, nroots, end>>
  PROVE  GcTypes' /\ HeapTypes'
<1>1. o \in Object /\ next[o] \in Object \cup {NIL} /\ prev[o] \in Object \cup {NIL}
  BY DEF TypeOK, HeapTypes
<1>2. GcTypes'
  BY <1>1, LiveCounted DEF Free, TypeOK, GcTypes
<1>3. \A a \in Object : refs'[a] \in [1 .. children'[a] -> Word]
  BY <1>1, <<>> \in [1 .. 0 -> Word] DEF Free, Blank, TypeOK, HeapTypes
<1> QED BY <1>1, <1>2, <1>3 DEF Free, Blank, TypeOK, HeapTypes

(* So does gc_alloc.                                                       *)
LEMMA AllocTypes ==
  ASSUME TypeOK, NEW n \in 0 .. 255, NEW o \in Object \ live, AllocAt(o, n)
  PROVE  GcTypes' /\ HeapTypes'
<1>1. \A a \in Object : refs'[a] \in [1 .. children'[a] -> Word]
  BY DEF AllocAt, TypeOK, HeapTypes, Word
<1>2. HeapTypes'
  BY <1>1 DEF AllocAt, TypeOK, HeapTypes, GcTypes
<1>3. GcTypes'
  BY ConstantsAssumption DEF AllocAt, TypeOK, GcTypes, Object
<1> QED BY <1>2, <1>3

(* Calls that leave the heap alone.                                        *)
LEMMA SameHeap ==
  ASSUME TypeOK, UNCHANGED heap
  PROVE  HeapTypes'
BY DEF TypeOK, HeapTypes, heap, shape, marks, links

(* A call, or an assignment of the caller's, keeps all types.              *)
LEMMA CallerStepTypes ==
  ASSUME GcInv, Caller
  PROVE  TypeOK'
<1>0. /\ TypeOK /\ ChainInv
      /\ GcRoots \in Nat /\ MaxCalls \in Nat /\ MaxAssigned \in Nat
  BY ConstantsAssumption DEF GcInv
<1>1. calls' \in 0 .. MaxCalls /\ assigned' \in 0 .. MaxAssigned
  BY <1>0 DEF Caller, Called, Assigned, TypeOK, CallerTypes
<1>2. CASE \E n \in Children : Alloc(n)
  <2> PICK n \in Children : Alloc(n)
    BY <1>2
  <2> PICK o \in Object \ live : AllocAt(o, n)
    BY <1>0, AllocFresh
  <2>1. GcTypes' /\ HeapTypes'
    BY <1>0, AllocFresh, AllocTypes
  <2>2. LocalTypes'
    BY <1>0 DEF AllocAt, TypeOK, LocalTypes, locals
  <2>3. CallerTypes'
    BY <1>0, <1>1 DEF AllocAt, TypeOK, CallerTypes
  <2> QED BY <2>1, <2>2, <2>3 DEF TypeOK
<1>3. CASE \E v \in Variables : Root(v)
  BY <1>0, <1>1, <1>3, SameHeap DEF Root, TypeOK, GcTypes, LocalTypes, CallerTypes, locals
<1>4. CASE \E o \in Object : CallFree(o)
  BY <1>0, <1>1, <1>4, FreeTypes DEF CallFree, TypeOK, LocalTypes, CallerTypes, locals
<1>5. CASE \E o \in Object : Realloc(o)
  BY <1>0, <1>1, <1>5, SameHeap DEF Realloc, TypeOK, GcTypes, LocalTypes, CallerTypes, locals, gc
<1>6. CASE Collect \/ Destroy
  <2>1. data' \in [1 .. GcRoots -> Variables \cup {0}]
    BY <1>0, <1>6 DEF Collect, Destroy, Cleared, TypeOK, GcTypes
  <2> QED BY <1>0, <1>1, <1>6, <2>1, SameHeap
          DEF Collect, Destroy, Collecting, TypeOK, GcTypes, LocalTypes, CallerTypes, Labels
<1>7. CASE \E o \in Object, w \in Word : \E c \in DOMAIN refs[o] : SetRef(o, c, w)
  <2> PICK o \in Object, w \in Word : \E c \in DOMAIN refs[o] : SetRef(o, c, w)
    BY <1>7
  <2> PICK c \in DOMAIN refs[o] : SetRef(o, c, w)
    OBVIOUS
  <2>1. HeapTypes'
    BY <1>0 DEF SetRef, TypeOK, HeapTypes, marks, links
  <2> QED BY <1>0, <1>1, <2>1 DEF SetRef, TypeOK, GcTypes, LocalTypes, CallerTypes, locals, gc
<1>8. CASE \E v \in Variables, w \in Word : SetVar(v, w)
  BY <1>0, <1>1, <1>8, SameHeap DEF SetVar, TypeOK, GcTypes, LocalTypes, CallerTypes, locals, gc
<1> QED BY <1>2, <1>3, <1>4, <1>5, <1>6, <1>7, <1>8 DEF Caller

(* The reference the walk looks at next.                                   *)
LEMMA NextReference ==
  ASSUME TypeOK, object \in Object, index[object] < children[object]
  PROVE  /\ index[object] + 1 \in 1 .. children[object] /\ index[object] + 1 \in 0 .. 255
         /\ refs[object][index[object] + 1] \in Word
<1>1. /\ index[object] \in 0 .. 255 /\ children[object] \in 0 .. 255
      /\ refs[object] \in [1 .. children[object] -> Word]
  BY DEF TypeOK, HeapTypes
<1>2. \A a, b \in 0 .. 255 : a < b => a + 1 \in 1 .. b /\ a + 1 \in 0 .. 255
  OBVIOUS
<1> QED BY <1>1, <1>2

(* So does a step of a collection.                                         *)
LEMMA CollectorStepTypes ==
  ASSUME GcInv, Collector
  PROVE  TypeOK'
<1>0. /\ TypeOK /\ HeapInv /\ RootInv /\ ChainInv /\ PathInv /\ SweepInv
      /\ GcRoots \in Nat /\ object \in Object \cup {NIL}
  BY ConstantsAssumption DEF GcInv, TypeOK, LocalTypes
<1>1. CallerTypes'
  BY <1>0 DEF Collector, NextRoot, MarkReference, MarkBack, MarkDone, StartSweep, SweepFree,
              SweepKeep, Finish, TypeOK, CallerTypes, caller
<1>2. CASE NextRoot
  <2>1. i \in 1 .. GcRoots /\ (data[i] # 0 /\ var[data[i]] # NIL => var[data[i]] \in Object)
    BY <1>0, <1>2 DEF NextRoot, RootInv, TypeOK, LocalTypes, HeapTypes
  <2>2. HeapTypes'
    BY <1>0, <1>2, <2>1 DEF NextRoot, TypeOK, HeapTypes, shape, NIL
  <2> QED BY <1>0, <1>1, <1>2, <2>1, <2>2 DEF NextRoot, TypeOK, GcTypes, LocalTypes, gc, Labels
<1>3. CASE MarkReference
  <2>1. object \in Object
    BY <1>0, <1>3 DEF MarkReference
  <2>2. HeapTypes'
    <3> DEFINE w == refs[object][index[object] + 1]
    <3>1. /\ index' = [index EXCEPT ![object] = index[object] + 1]
          /\ index[object] + 1 \in 0 .. 255
          /\ prev' = prev \/ (w \in Object /\ prev' = [prev EXCEPT ![w] = object])
          /\ referenced' = referenced \/ referenced' = [referenced EXCEPT ![w] = TRUE]
          /\ UNCHANGED <<shape, next, live>>
      BY <1>0, <1>3, <2>1, NextReference DEF MarkReference, Enters
    <3> HIDE DEF w
    <3>2. index' \in [Object -> 0 .. 255]
      BY <1>0, <2>1, <3>1 DEF TypeOK, HeapTypes
    <3>3. prev' \in [Object -> Object \cup {NIL}]
      BY <1>0, <2>1, <3>1 DEF TypeOK, HeapTypes
    <3>4. referenced' \in [Object -> BOOLEAN]
      <4>1. referenced \in [Object -> BOOLEAN]
        BY <1>0 DEF TypeOK, HeapTypes
      <4>2. [referenced EXCEPT ![w] = TRUE] \in [Object -> BOOLEAN]
        BY <4>1
      <4> QED BY <3>1, <4>1, <4>2
    <3> QED BY <1>0, <3>1, <3>2, <3>3, <3>4 DEF TypeOK, HeapTypes, shape
  <2> QED BY <1>0, <1>1, <1>3, <2>2 DEF MarkReference, Enters, TypeOK, GcTypes, LocalTypes, gc
<1>4. CASE MarkBack
  <2>1. prev[object] \in Object \cup {NIL}
    BY <1>0, <1>4 DEF MarkBack, TypeOK, HeapTypes
  <2> QED BY <1>0, <1>1, <1>4, <2>1, SameHeap DEF MarkBack, TypeOK, GcTypes, LocalTypes, gc
<1>5. CASE MarkDone
  <2>1. i \in 1 .. GcRoots
    BY <1>0, <1>5 DEF MarkDone, PathInv
  <2> QED BY <1>0, <1>1, <1>5, <2>1, SameHeap
          DEF MarkDone, TypeOK, GcTypes, LocalTypes, gc, Labels
<1>6. CASE StartSweep
  BY <1>0, <1>1, <1>6, SameHeap DEF StartSweep, TypeOK, GcTypes, LocalTypes, gc, Labels
<1>7. CASE SweepFree
  <2>1. object \in live /\ next[object] \in Object \cup {NIL}
    BY <1>0, <1>7 DEF SweepFree, SweepInv, TypeOK, HeapTypes
  <2> QED BY <1>0, <1>1, <1>7, <2>1, FreeTypes DEF SweepFree, TypeOK, LocalTypes
<1>8. CASE SweepKeep
  <2>1. object \in Object /\ next[object] \in Object \cup {NIL}
    BY <1>0, <1>8 DEF SweepKeep, TypeOK, HeapTypes
  <2>2. HeapTypes'
    BY <1>0, <1>8, <2>1 DEF SweepKeep, TypeOK, HeapTypes, LocalTypes, shape
  <2> QED BY <1>0, <1>1, <1>8, <2>1, <2>2 DEF SweepKeep, TypeOK, GcTypes, LocalTypes, gc
<1>9. CASE Finish
  <2>1. CallerTypes' /\ GcTypes' /\ LocalTypes'
    BY <1>0, <1>1, <1>9 DEF Finish, TypeOK, GcTypes, LocalTypes, gc, Labels
  <2> QED BY <1>0, <1>9, <2>1, SameHeap DEF Finish, TypeOK
<1> QED BY <1>2, <1>3, <1>4, <1>5, <1>6, <1>7, <1>8, <1>9 DEF Collector

-----------------------------------------------------------------------------
(* The list.                                                               *)

(* Addresses are not NIL, and links lead where the edges do.               *)
LEMMA Addresses == NIL \notin Object /\ FOREIGN \notin Object /\ FOREIGN # NIL
BY ConstantsAssumption DEF NIL, Object, FOREIGN

(* Steps that leave the list alone.                                        *)
LEMMA ChainKept ==
  ASSUME ChainInv, UNCHANGED <<head, next, live, count>>
  PROVE  ChainInv'
BY DEF ChainInv, OnList, Nexts, Descending, Closure

(* Steps that change prev links of marked objects only.                    *)
LEMMA LinkKept ==
  ASSUME LinkInv, UNCHANGED <<head, next, live>>,
         \A o \in live : ~referenced'[o] => ~referenced[o] /\ prev'[o] = prev[o]
  PROVE  LinkInv'
BY DEF LinkInv, Linked

(* Every object but the first has one before it.                           *)
LEMMA Predecessor ==
  ASSUME TypeOK, ChainInv, NEW o \in live, o # head
  PROVE  \E p \in live : next[p] = o
<1> SUFFICES ASSUME \A p \in live : next[p] # o PROVE FALSE
  OBVIOUS
<1> DEFINE S == live \ {o}
<1>1. S \subseteq Object /\ {head} \cap Object \subseteq S
  BY Addresses DEF TypeOK, HeapTypes, ChainInv
<1>2. \A s \in S : Nexts[s] \subseteq S
  BY Addresses DEF TypeOK, HeapTypes, ChainInv, Nexts
<1>3. OnList \subseteq S
  BY <1>1, <1>2, ClosureLeast DEF OnList
<1> QED BY <1>3 DEF ChainInv

(* How gc_free links the neighbours of an object whose own links are good. *)
LEMMA FreeLinks ==
  ASSUME TypeOK, ChainInv, NEW o \in live, Linked(o), Free(o)
  PROVE  /\ live' = live \ {o} /\ next[o] # o
         /\ head' = IF o = head THEN next[o] ELSE head
         /\ o # head => prev[o] \in live \ {o} /\ next[prev[o]] = o
         /\ o = head => prev[o] = NIL
         /\ \A a \in live \ {o} :
              /\ next'[a] = IF next[a] = o THEN next[o] ELSE next[a]
              /\ prev'[a] = IF a = next[o] THEN prev[o] ELSE prev[a]
<1>1. next[o] # o
  <2>1. PICK r \in [Object -> Nat] : \A a \in live : \A b \in Nexts[a] : r[b] < r[a]
    BY DEF ChainInv, Descending
  <2>2. o \in Object /\ ~(r[o] < r[o])
    BY DEF TypeOK, HeapTypes
  <2> QED BY <2>1, <2>2 DEF Nexts
<1>2. o # head => prev[o] \in live \ {o} /\ next[prev[o]] = o
  BY <1>1, Predecessor DEF Linked
<1>3. o = head => prev[o] = NIL
  BY DEF Linked
<1>4. head' = IF o = head THEN next[o] ELSE head
  BY <1>2, <1>3, Addresses DEF Free, TypeOK, HeapTypes
<1>5. ASSUME NEW a \in live \ {o}
      PROVE  /\ next'[a] = IF next[a] = o THEN next[o] ELSE next[a]
             /\ prev'[a] = IF a = next[o] THEN prev[o] ELSE prev[a]
  <2>1. a = prev[o] <=> next[a] = o
    BY <1>2, <1>3, Addresses DEF Linked, TypeOK, HeapTypes
  <2> QED BY <2>1 DEF Free, TypeOK, HeapTypes
<1> QED BY <1>1, <1>2, <1>3, <1>4, <1>5 DEF Free

(* After gc_free the list leads to the other objects.                      *)
LEMMA FreeList ==
  ASSUME TypeOK, ChainInv, NEW o \in live, Linked(o), Free(o)
  PROVE  OnList' = live \ {o}
<1> DEFINE D == OnList'
           E == Nexts'
           first == {head'} \cap Object
<1>0. /\ live \subseteq Object /\ NIL \notin Object
      /\ \A a \in live : next[a] \in live \cup {NIL} /\ E[a] = {next'[a]} \cap Object
      /\ \A a \in Object : E[a] \subseteq Object
  BY Addresses DEF TypeOK, HeapTypes, ChainInv, Nexts
<1>1. D = Closure(E, first)
  BY DEF OnList
<1>2. D \subseteq live \ {o}
  <2>1. first \subseteq live \ {o} /\ \A s \in live \ {o} : E[s] \subseteq live \ {o}
    BY <1>0, FreeLinks DEF ChainInv
  <2> QED BY <1>0, <1>1, <2>1, ClosureLeast
<1>3. first \subseteq D /\ \A s \in D : E[s] \subseteq D
  BY <1>0, <1>1, ClosureHolds
<1>4. \A S \in SUBSET Object :
        {head} \cap Object \subseteq S /\ (\A s \in S : Nexts[s] \subseteq S) => live \subseteq S
  BY ClosureLeast DEF ChainInv, OnList
<1>5. \A a \in live : Nexts[a] = {next[a]} \cap Object
  BY <1>0 DEF Nexts
<1> HIDE DEF D, E
<1>6. CASE o = head
  <2>1. \A s \in D : next[s] # o /\ next'[s] = next[s]
    BY <1>0, <1>2, <1>6, FreeLinks DEF ChainInv
  <2>2. \A s \in D \cup {o} : Nexts[s] \subseteq D \cup {o}
    BY <1>0, <1>2, <1>3, <1>5, <1>6, <2>1, FreeLinks
  <2>3. D \cup {o} \in SUBSET Object /\ {head} \cap Object \subseteq D \cup {o}
    BY <1>0, <1>2, <1>6
  <2>4. live \subseteq D \cup {o}
    BY <1>4, <2>2, <2>3
  <2> QED BY <1>2, <2>4 DEF D
<1>7. CASE o # head /\ prev[o] \in D
  <2>1. next'[prev[o]] = next[o]
    BY <1>7, FreeLinks
  <2>2. \A s \in D \cup {o} : Nexts[s] \subseteq D \cup {o}
    BY <1>0, <1>2, <1>3, <1>5, <1>7, <2>1, FreeLinks
  <2>3. D \cup {o} \in SUBSET Object /\ {head} \cap Object \subseteq D \cup {o}
    BY <1>0, <1>2, <1>3, <1>7, FreeLinks
  <2>4. live \subseteq D \cup {o}
    BY <1>4, <2>2, <2>3
  <2> QED BY <1>2, <2>4 DEF D
<1>8. CASE o # head /\ prev[o] \notin D
  <2>1. \A s \in D : next[s] # o
    BY <1>2, <1>8 DEF Linked
  <2>2. \A s \in D : Nexts[s] \subseteq D
    BY <1>0, <1>2, <1>3, <1>5, <2>1, FreeLinks
  <2>3. D \in SUBSET Object /\ {head} \cap Object \subseteq D
    BY <1>0, <1>2, <1>3, <1>8, FreeLinks
  <2> QED BY <1>4, <1>8, <2>2, <2>3, FreeLinks
<1> QED BY <1>6, <1>7, <1>8

(* So it is a list again.                                                  *)
LEMMA FreeChain ==
  ASSUME TypeOK, ChainInv, NEW o \in live, Linked(o), Free(o)
  PROVE  ChainInv'
<1>0. /\ \A a \in live : next[a] # NIL => next[a] \in live /\ next[a] # head
      /\ \A a, b \in live : next[a] = next[b] /\ next[a] # NIL => a = b
      /\ o # NIL /\ live' = live \ {o} /\ next[o] # o
      /\ head' = IF o = head THEN next[o] ELSE head
      /\ \A a \in live \ {o} : next'[a] = IF next[a] = o THEN next[o] ELSE next[a]
  BY FreeLinks, Addresses DEF ChainInv, TypeOK, HeapTypes
<1>1. head' \in live' \cup {NIL}
  BY <1>0 DEF ChainInv
<1>2. ASSUME NEW a \in live', next'[a] # NIL
      PROVE  next'[a] \in live' /\ next'[a] # head'
  BY <1>0, <1>2
<1>3. ASSUME NEW a \in live', NEW b \in live', next'[a] = next'[b], next'[a] # NIL
      PROVE  a = b
  BY <1>0, <1>3
<1>4. Descending(Nexts', live')
  <2>1. PICK r \in [Object -> Nat] : \A a \in live : \A b \in Nexts[a] : r[b] < r[a]
    BY DEF ChainInv, Descending
  <2>2. ASSUME NEW a \in live', NEW b \in Nexts'[a] PROVE r[b] < r[a]
    <3>1. a \in live \ {o} /\ b = next'[a] /\ {a, b, o} \subseteq Object
      BY FreeLinks, <2>2 DEF Nexts, TypeOK, HeapTypes
    <3>2. CASE next[a] = o
      <4>1. b \in Nexts[o] /\ o \in Nexts[a]
        BY <3>1, <3>2, FreeLinks DEF Nexts
      <4>2. r[b] \in Nat /\ r[o] \in Nat /\ r[a] \in Nat /\ r[b] < r[o] /\ r[o] < r[a]
        BY <2>1, <3>1, <4>1
      <4> QED BY <4>2
    <3>3. CASE next[a] # o
      BY <2>1, <3>1, <3>3, FreeLinks DEF Nexts
    <3> QED BY <3>2, <3>3
  <2> QED BY <2>2 DEF Descending
<1>5. OnList' = live' /\ count' = Cardinality(live')
  BY FreeList, LiveCounted DEF Free
<1> QED BY <1>1, <1>2, <1>3, <1>4, <1>5 DEF ChainInv

(* The other objects' links are as good as they were.                      *)
LEMMA FreeKeepsLinks ==
  ASSUME TypeOK, ChainInv, LinkInv, NEW o \in live, Linked(o), Free(o)
  PROVE  LinkInv'
<1> SUFFICES ASSUME NEW a \in live \ {o}, ~referenced[a] PROVE Linked(a)'
  BY FreeLinks DEF LinkInv, Free, Blank, TypeOK, HeapTypes
<1>1. Linked(a)
  BY DEF LinkInv
<1>2. a = head' => prev'[a] = NIL
  BY <1>1, FreeLinks DEF Linked, ChainInv
<1>3. ASSUME NEW p \in live \ {o}, next'[p] = a PROVE prev'[a] = p
  BY <1>1, <1>3, FreeLinks, Addresses DEF Linked, ChainInv, TypeOK, HeapTypes
<1> QED BY <1>2, <1>3, FreeLinks DEF Linked

(* gc_alloc puts an object in front of the list.                           *)
LEMMA AllocChain ==
  ASSUME TypeOK, ChainInv, NEW n \in 0 .. 255, NEW o \in Object \ live, AllocAt(o, n)
  PROVE  ChainInv'
<1>0. /\ \A a \in live : next[a] # NIL => next[a] \in live /\ next[a] # head
      /\ \A a, b \in live : next[a] = next[b] /\ next[a] # NIL => a = b
      /\ head \in live \cup {NIL} /\ live \subseteq Object /\ NIL \notin Object
      /\ live' = live \cup {o} /\ head' = o /\ next'[o] = head
      /\ \A a \in Object \ {o} : next'[a] = next[a]
  BY Addresses DEF ChainInv, TypeOK, HeapTypes, AllocAt
<1>1. \A a \in live' : next'[a] # NIL => next'[a] \in live' /\ next'[a] # head'
  BY <1>0
<1>2. \A a, b \in live' : next'[a] = next'[b] /\ next'[a] # NIL => a = b
  BY <1>0
<1>3. \A a \in live : Nexts'[a] = Nexts[a]
  BY <1>0 DEF Nexts
<1>4. Descending(Nexts', live')
  <2>1. PICK r \in [Object -> Nat] : \A a \in live : \A b \in Nexts[a] : r[b] < r[a]
    BY DEF ChainInv, Descending
  <2> DEFINE q == [r EXCEPT ![o] = IF head = NIL THEN 0 ELSE r[head] + 1]
  <2>2. q \in [Object -> Nat]
    BY <1>0
  <2>3. ASSUME NEW a \in live', NEW b \in Nexts'[a] PROVE q[b] < q[a]
    <3>1. CASE a = o
      <4>1. b = head /\ head \in live /\ head # o /\ r[head] \in Nat
        BY <1>0, <2>3, <3>1 DEF Nexts
      <4> QED BY <1>0, <3>1, <4>1
    <3>2. CASE a # o
      <4>1. b \in Nexts[a] /\ a \in live /\ b \in live
        BY <1>0, <1>3, <2>3, <3>2 DEF Nexts
      <4>2. q[a] = r[a] /\ q[b] = r[b]
        BY <1>0, <3>2, <4>1
      <4> QED BY <2>1, <4>1, <4>2
    <3> QED BY <3>1, <3>2
  <2> HIDE DEF q
  <2> QED BY <2>2, <2>3 DEF Descending
<1>5. OnList' = live'
  <2>1. OnList' = Closure(Nexts', {o}) /\ Nexts'[o] = {head} \cap Object
    BY <1>0 DEF OnList, Nexts
  <2>2. \A s \in Object : Nexts[s] \subseteq Object /\ Nexts'[s] \subseteq Object
    BY DEF Nexts
  <2>3. Closure(Nexts', {o}) = {o} \cup Closure(Nexts', Nexts'[o])
    BY <2>2, ClosureUnfold
  <2>4. Closure(Nexts', {head} \cap Object) = OnList
    <3>1. \A s \in Closure(Nexts, {head} \cap Object) : Nexts'[s] = Nexts[s]
      BY <1>3 DEF ChainInv, OnList
    <3> QED BY <2>2, <3>1, ClosureSame DEF OnList
  <2> QED BY <1>0, <2>1, <2>3, <2>4 DEF ChainInv
<1>6. count' = Cardinality(live')
  BY LiveCounted DEF AllocAt
<1> QED BY <1>0, <1>1, <1>2, <1>4, <1>5, <1>6 DEF ChainInv

(* The links to and from the new object match.                             *)
LEMMA AllocLinks ==
  ASSUME TypeOK, ChainInv, LinkInv, \A a \in live : ~referenced[a],
         NEW n \in 0 .. 255, NEW o \in Object \ live, AllocAt(o, n)
  PROVE  LinkInv'
<1>0. /\ \A a \in live : next[a] # NIL => next[a] \in live /\ next[a] # head
      /\ head \in live \cup {NIL} /\ live \subseteq Object /\ NIL \notin Object
      /\ live' = live \cup {o} /\ head' = o /\ next'[o] = head
      /\ \A a \in Object \ {o} : next'[a] = next[a]
      /\ \A a \in Object : prev'[a] = IF a = o THEN NIL ELSE IF a = head THEN o ELSE prev[a]
      /\ \A a \in live : \A p \in live : next[p] = a => prev[a] = p
  BY Addresses DEF ChainInv, TypeOK, HeapTypes, AllocAt, LinkInv, Linked
<1>1. ASSUME NEW a \in live' PROVE Linked(a)'
  <2>1. a = head' => prev'[a] = NIL
    BY <1>0
  <2>2. ASSUME NEW p \in live', next'[p] = a PROVE prev'[a] = p
    BY <1>0, <2>2
  <2> QED BY <2>1, <2>2 DEF Linked
<1> QED BY <1>1 DEF LinkInv

-----------------------------------------------------------------------------
(* What the caller does.                                                   *)

(* Between collections nothing is borrowed and nothing is marked.          *)
LEMMA Idle ==
  ASSUME GcInv, Caller
  PROVE  /\ TypeOK /\ HeapInv /\ RootInv /\ ChainInv /\ LinkInv
         /\ pc = "idle" /\ status = "running"
         /\ \A o \in live : ~referenced[o] /\ Linked(o) /\ Referents[o] \subseteq live
BY DEF GcInv, Caller, IdleInv, LinkInv, HeapInv

(* The invariant after a call that does not collect.                       *)
LEMMA StaysIdle ==
  ASSUME pc' = "idle", status' \in {"running", "misused"}, \A o \in live' : ~referenced'[o]
  PROVE  MarkInv' /\ PathInv' /\ SweepInv' /\ IdleInv'
BY DEF MarkInv, PathInv, SweepInv, IdleInv

(* A step that leaves marks alone, and no reference to a freed object.     *)
LEMMA HeapKept ==
  ASSUME HeapInv, UNCHANGED <<magic, children, referenced, index, live, end>>,
         pc' # "sweep" => \A o \in live : Referents'[o] \subseteq live
  PROVE  HeapInv'
<1>1. \A o \in Object : (magic'[o] <=> o \in live') /\ index'[o] <= children'[o]
  BY DEF HeapInv
<1>2. \A o \in live' : o <= end' /\ (~referenced'[o] => index'[o] = 0)
  BY DEF HeapInv
<1> QED BY <1>1, <1>2 DEF HeapInv

(* gc_alloc keeps the invariant.                                           *)
LEMMA AllocStep ==
  ASSUME GcInv, Caller, NEW n \in Children, Alloc(n)
  PROVE  GcInv'
<1>1. PICK o \in Object \ live : AllocAt(o, n)
  BY AllocFresh, Idle
<1>2. n \in 0 .. 255
  BY ConstantsAssumption
<1>3. TypeOK' /\ ChainInv' /\ LinkInv'
  BY <1>1, <1>2, CallerStepTypes, AllocChain, AllocLinks, Idle
<1>4. /\ o \in Object /\ live' = live \cup {o}
      /\ UNCHANGED <<data, nroots, var, pc, status>>
      /\ \A a \in Object \ {o} : /\ magic'[a] = magic[a] /\ referenced'[a] = referenced[a]
                                 /\ children'[a] = children[a] /\ index'[a] = index[a]
                                 /\ refs'[a] = refs[a] /\ Referents'[a] = Referents[a]
      /\ magic'[o] /\ ~referenced'[o] /\ children'[o] = n /\ index'[o] = 0 /\ Referents'[o] = {}
  BY <1>1, Idle, Addresses DEF AllocAt, locals, TypeOK, HeapTypes, Referents
<1>5. \A a \in live' : a <= end'
  BY <1>1, Idle DEF AllocAt, TypeOK, HeapTypes, GcTypes, HeapInv, Object
<1>6. HeapInv'
  <2>1. \A a \in Object : (magic'[a] <=> a \in live') /\ index'[a] <= children'[a]
    BY <1>2, <1>4, Idle DEF HeapInv
  <2>2. \A a \in live' : (~referenced'[a] => index'[a] = 0) /\ Referents'[a] \subseteq live'
    BY <1>4, Idle DEF HeapInv, TypeOK, HeapTypes
  <2> QED BY <1>5, <2>1, <2>2 DEF HeapInv
<1>7. RootInv'
  BY <1>4, Idle DEF RootInv
<1>8. MarkInv' /\ PathInv' /\ SweepInv' /\ IdleInv'
  BY <1>4, Idle, StaysIdle DEF TypeOK, HeapTypes
<1> QED BY <1>3, <1>6, <1>7, <1>8 DEF GcInv

(* So does gc_free, called for an object nothing refers to.                *)
LEMMA CallFreeStep ==
  ASSUME GcInv, Caller, NEW o \in Object, CallFree(o)
  PROVE  GcInv'
<1>0. o \in live /\ Free(o) /\ UNCHANGED <<data, nroots, end, var, pc, status>>
  BY DEF CallFree, locals
<1>1. TypeOK' /\ ChainInv' /\ LinkInv'
  BY <1>0, CallerStepTypes, FreeChain, FreeKeepsLinks, Idle
<1>2. /\ live' = live \ {o}
      /\ \A a \in Object \ {o} : /\ magic'[a] = magic[a] /\ referenced'[a] = referenced[a]
                                 /\ children'[a] = children[a] /\ index'[a] = index[a]
                                 /\ refs'[a] = refs[a] /\ Referents'[a] = Referents[a]
      /\ ~magic'[o] /\ children'[o] = 0 /\ index'[o] = 0
  BY <1>0, Idle DEF Free, Blank, TypeOK, HeapTypes, Referents
<1>3. \A a \in live \ {o} : o \notin Referents[a]
  BY Idle DEF CallFree, Referents, TypeOK, HeapTypes
<1>4. HeapInv'
  <2>1. \A a \in Object : (magic'[a] <=> a \in live') /\ index'[a] <= children'[a]
    BY <1>0, <1>2, Idle DEF HeapInv
  <2>2. \A a \in live' : /\ a <= end' /\ (~referenced'[a] => index'[a] = 0)
                         /\ Referents'[a] \subseteq live'
    BY <1>0, <1>2, <1>3, Idle DEF HeapInv, TypeOK, HeapTypes
  <2> QED BY <2>1, <2>2 DEF HeapInv
<1>5. RootInv'
  BY <1>0, <1>2, Idle DEF CallFree, RootInv, TypeOK, GcTypes
<1>6. MarkInv' /\ PathInv' /\ SweepInv' /\ IdleInv'
  BY <1>0, <1>2, Idle, StaysIdle DEF TypeOK, HeapTypes
<1> QED BY <1>1, <1>4, <1>5, <1>6 DEF GcInv

(* gc_root.                                                                *)
LEMMA RootStep ==
  ASSUME GcInv, Caller, NEW v \in Variables, Root(v)
  PROVE  GcInv'
<1>1. /\ TypeOK' /\ UNCHANGED <<head, end, count, heap, var, pc, status>>
      /\ UNCHANGED <<magic, children, refs, referenced, index, next, prev, live>>
  BY CallerStepTypes DEF Root, heap, shape, marks, links, locals
<1>2. ChainInv' /\ LinkInv'
  BY <1>1, Idle, ChainKept, LinkKept
<1>3. HeapInv'
  BY <1>1, Idle DEF HeapInv, Referents
<1>4. RootInv'
  BY <1>1, Idle DEF Root, RootInv, TypeOK, GcTypes
<1>5. MarkInv' /\ PathInv' /\ SweepInv' /\ IdleInv'
  BY <1>1, Idle, StaysIdle
<1> QED BY <1>1, <1>2, <1>3, <1>4, <1>5 DEF GcInv

(* An assignment to a reference.                                           *)
LEMMA SetRefStep ==
  ASSUME GcInv, Caller, NEW o \in Object, NEW w \in Word, NEW c \in DOMAIN refs[o], SetRef(o, c, w)
  PROVE  GcInv'
<1>1. /\ TypeOK' /\ UNCHANGED <<head, end, count, data, nroots, var, pc, status>>
      /\ UNCHANGED <<magic, children, referenced, index, next, prev, live>>
  BY CallerStepTypes DEF SetRef, gc, marks, links, locals
<1>2. ChainInv' /\ LinkInv'
  BY <1>1, Idle, ChainKept, LinkKept
<1>3. \A a \in live : Referents'[a] \subseteq live
  <2>1. w \in live \cup {NIL, FOREIGN} /\ refs' = [refs EXCEPT ![o] = [refs[o] EXCEPT ![c] = w]]
    BY DEF SetRef
  <2>2. ASSUME NEW a \in live, NEW d \in DOMAIN refs'[a], refs'[a][d] \in Object
        PROVE  refs'[a][d] \in live
    <3>1. DOMAIN refs'[a] = DOMAIN refs[a] /\ (refs'[a][d] = w \/ refs'[a][d] = refs[a][d])
      BY <2>1, Idle DEF TypeOK, HeapTypes
    <3>2. CASE refs'[a][d] = w
      BY <2>1, <2>2, <3>2, Addresses
    <3>3. CASE refs'[a][d] = refs[a][d]
      <4>1. a \in Object /\ d \in DOMAIN refs[a] /\ refs[a][d] \in Object
        BY <2>2, <3>1, <3>3, Idle DEF TypeOK, HeapTypes
      <4>2. refs[a][d] \in Referents[a]
        BY <4>1 DEF Referents
      <4>3. Referents[a] \subseteq live
        BY <2>2, Idle
      <4> QED BY <3>3, <4>2, <4>3
    <3> QED BY <3>1, <3>2, <3>3
  <2> QED BY <2>2, Idle DEF Referents, TypeOK, HeapTypes
<1>4. HeapInv'
  BY <1>1, <1>3, Idle, HeapKept
<1>5. RootInv'
  BY <1>1, Idle DEF RootInv
<1>6. MarkInv' /\ PathInv' /\ SweepInv' /\ IdleInv'
  BY <1>1, Idle, StaysIdle
<1> QED BY <1>1, <1>2, <1>4, <1>5, <1>6 DEF GcInv

(* A call that changes none of the collector's state but the variables and *)
(* the roots, and may begin a collection.                                  *)
LEMMA OtherStep ==
  ASSUME GcInv, Caller,
         \/ \E v \in Variables, w \in Word : SetVar(v, w)
         \/ \E o \in Object : Realloc(o)
         \/ Collect \/ Destroy
  PROVE  GcInv'
<1>1. /\ TypeOK' /\ UNCHANGED <<head, end, count, heap, nroots>>
      /\ UNCHANGED <<magic, children, refs, referenced, index, next, prev, live>>
  BY CallerStepTypes
     DEF SetVar, Realloc, Collect, Destroy, Collecting, heap, shape, marks, links, gc
<1>2. ChainInv' /\ LinkInv'
  BY <1>1, Idle, ChainKept, LinkKept
<1>3. /\ pc' \in {"idle", "roots"} /\ status' \in {"running", "destroying", "misused"}
      /\ pc' = "roots" => i' = 1 /\ status' # "misused"
      /\ status' = "destroying" => pc' = "roots"
  BY Idle DEF SetVar, Realloc, Collect, Destroy, Collecting, locals
<1>4. HeapInv'
  <2>1. Referents' = Referents
    BY <1>1 DEF Referents
  <2> QED BY <1>1, <2>1, Idle, HeapKept
<1>5. RootInv'
  <2>1. CASE \E v \in Variables, w \in Word : SetVar(v, w)
    BY <1>1, <2>1, Idle DEF SetVar, RootInv, TypeOK, GcTypes, CallerTypes, gc
  <2>2. CASE (\E o \in Object : Realloc(o)) \/ Collect
    BY <1>1, <2>2, Idle DEF Realloc, Collect, Collecting, RootInv, gc
  <2>3. CASE Destroy
    <3>1. GcRoots \div PtrSize \in Int
      BY ConstantsAssumption
    <3> DEFINE D == GcRoots \div PtrSize
    <3>2. \A e \in 1 .. GcRoots : data'[e] = IF e <= D THEN 0 ELSE data[e]
      BY <2>3 DEF Destroy, Cleared
    <3>3. nroots \in Nat /\ nroots' = nroots /\ var' = var /\ live' = live
      BY <1>1, <2>3, Idle DEF TypeOK, GcTypes, Destroy, Collecting
    <3> HIDE DEF D
    <3>4. \A e \in 1 .. GcRoots : nroots <= D => data'[e] = 0
      BY <3>1, <3>2, <3>3, Idle DEF RootInv, D
    <3> QED BY <3>2, <3>3, <3>4, Idle DEF RootInv, D
  <2> QED BY <2>1, <2>2, <2>3
<1>6. MarkInv' /\ PathInv' /\ SweepInv' /\ IdleInv'
  BY <1>1, <1>3, Idle DEF MarkInv, PathInv, SweepInv, IdleInv
<1> QED BY <1>1, <1>2, <1>4, <1>5, <1>6 DEF GcInv

(* Whatever the caller does, the invariant holds.                          *)
LEMMA CallerStep == ASSUME GcInv, Caller PROVE GcInv'
BY AllocStep, CallFreeStep, RootStep, SetRefStep, OtherStep DEF Caller

-----------------------------------------------------------------------------
(* Marking.                                                                *)

(* What reachable objects refer to is reachable.                           *)
LEMMA ReachableHolds ==
  /\ Reachable \subseteq Object /\ RootObjects \subseteq Reachable
  /\ \A o \in Reachable : Referents[o] \subseteq Reachable
<1>1. RootObjects \subseteq Object
  BY DEF RootObjects
<1> QED BY <1>1, Edges, ClosureHolds DEF Reachable

(* What a root leads to is allocated and reachable.                        *)
LEMMA RootsReachable ==
  ASSUME TypeOK, RootInv, NEW e \in 1 .. GcRoots, data[e] # 0, var[data[e]] # NIL
  PROVE  var[data[e]] \in live /\ var[data[e]] \in Object /\ var[data[e]] \in Reachable
BY ReachableHolds DEF RootInv, RootObjects, TypeOK, HeapTypes

(* Nothing that was freed can be reached.                                  *)
LEMMA ReachableLive ==
  ASSUME TypeOK, HeapInv, RootInv, pc # "sweep"
  PROVE  Reachable \subseteq live
<1>1. RootObjects \subseteq live /\ live \subseteq Object
  BY Addresses DEF RootObjects, RootInv, TypeOK, HeapTypes
<1>2. \A o \in live : Referents[o] \subseteq live
  BY DEF HeapInv
<1> QED BY <1>1, <1>2, ClosureLeast DEF Reachable

(* gc_mark begins at a root: the path is that object alone.                *)
LEMMA NextRootStep ==
  ASSUME GcInv, NextRoot
  PROVE  GcInv'
<1>0. /\ TypeOK /\ HeapInv /\ RootInv /\ ChainInv /\ LinkInv /\ MarkInv /\ IdleInv /\ TypeOK'
      /\ pc = "roots" /\ i \in 1 .. GcRoots /\ GcRoots \in Nat
  BY CollectorStepTypes, ConstantsAssumption
     DEF GcInv, Collector, NextRoot, TypeOK, LocalTypes
<1>1. /\ UNCHANGED <<head, data, nroots, end, count, magic, children, refs, index, next, live, var,
                     status>>
      /\ Referents' = Referents /\ Reachable' = Reachable
  BY DEF NextRoot, gc, shape, caller, Referents, Reachable, RootObjects, Closure
<1>2. RootInv' /\ ChainInv'
  BY <1>0, <1>1, ChainKept DEF RootInv
<1>3. CASE data[i] # 0 /\ var[data[i]] # NIL /\ ~referenced[var[data[i]]]
  <2> DEFINE o == var[data[i]]
  <2>1. /\ o \in live /\ o \in Object /\ o \in Reachable /\ o # NIL
        /\ referenced' = [referenced EXCEPT ![o] = TRUE] /\ prev' = [prev EXCEPT ![o] = NIL]
        /\ object' = o /\ pc' = "mark" /\ i' = i /\ ~referenced[o] /\ o = var'[data'[i']]
    BY <1>0, <1>1, <1>3, RootsReachable DEF NextRoot
  <2>2. \A a \in Object : /\ referenced'[a] <=> referenced[a] \/ a = o
                          /\ a # o => prev'[a] = prev[a]
    BY <1>0, <2>1 DEF TypeOK, HeapTypes
  <2>3. prev'[o] = NIL
    BY <1>0, <2>1 DEF TypeOK, HeapTypes
  <2> HIDE DEF o
  <2>4. OnPath' = {o}
    <3>1. OnPath' = Closure(Prevs', {o}) /\ Prevs'[o] = {}
      BY <2>1, <2>3, Addresses DEF OnPath, Prevs
    <3>2. \A s \in Object : Prevs'[s] \subseteq Object
      BY DEF Prevs
    <3>3. Closure(Prevs', {o}) = {o} \cup Closure(Prevs', Prevs'[o])
      BY <2>1, <3>2, ClosureUnfold
    <3>4. Closure(Prevs', {}) = {}
      BY ClosureEmpty
    <3> QED BY <3>1, <3>3, <3>4
  <2>5. HeapInv'
    BY <1>0, <1>1, <2>1, <2>2 DEF HeapInv, TypeOK, HeapTypes
  <2>6. LinkInv'
    BY <1>0, <1>1, <2>2, LinkKept DEF TypeOK, HeapTypes
  <2>7. MarkInv'
    <3>1. ASSUME NEW a \in live, referenced'[a]
          PROVE  /\ a \in Reachable
                 /\ a \in OnPath' \/ index[a] = children[a]
                 /\ \A c \in 1 .. index[a] : refs[a][c] \in Object => referenced'[refs[a][c]]
      <4>1. CASE a = o
        BY <1>0, <2>1, <2>4, <4>1 DEF HeapInv
      <4>2. CASE a # o
        BY <1>0, <2>2, <3>1, <4>2 DEF MarkInv, TypeOK, HeapTypes
      <4> QED BY <4>1, <4>2
    <3>2. \A e \in 1 .. (i - 1) :
            data[e] # 0 /\ var[data[e]] # NIL => referenced'[var[data[e]]]
      BY <1>0, <2>2, RootsReachable DEF MarkInv
    <3> QED BY <1>1, <2>1, <3>1, <3>2 DEF MarkInv
  <2>8. PathInv'
    <3>1. Descending(Prevs', OnPath')
      <4>1. [x \in Object |-> 0] \in [Object -> Nat] /\ \A a \in OnPath' : Prevs'[a] = {}
        BY <2>1, <2>3, <2>4, Addresses DEF Prevs
      <4> QED BY <4>1 DEF Descending
    <3> QED BY <1>0, <1>1, <1>3, <2>1, <2>2, <2>3, <2>4, <3>1 DEF PathInv
  <2>9. SweepInv' /\ IdleInv'
    BY <1>0, <1>1, <2>1 DEF SweepInv, IdleInv
  <2> QED BY <1>0, <1>2, <2>5, <2>6, <2>7, <2>8, <2>9 DEF GcInv
<1>4. CASE ~(data[i] # 0 /\ var[data[i]] # NIL /\ ~referenced[var[data[i]]])
  <2>1. UNCHANGED <<referenced, prev, pc>> /\ i' = i + 1
    BY <1>4 DEF NextRoot
  <2>2. HeapInv' /\ LinkInv'
    BY <1>0, <1>1, <2>1, LinkKept, HeapKept DEF HeapInv
  <2>3. MarkInv'
    BY <1>0, <1>1, <1>4, <2>1 DEF MarkInv
  <2>4. PathInv' /\ SweepInv' /\ IdleInv'
    BY <1>0, <1>1, <2>1 DEF PathInv, SweepInv, IdleInv
  <2> QED BY <1>0, <1>2, <2>2, <2>3, <2>4 DEF GcInv
<1> QED BY <1>3, <1>4

(* The path does not lead back to the current object.                      *)
LEMMA PathEnds ==
  ASSUME TypeOK, PathInv, pc = "mark", object # NIL, NEW o \in OnPath
  PROVE  o \in live /\ o \in Object /\ prev[o] # object
<1>1. object \in OnPath /\ OnPath \subseteq live /\ live \subseteq Object
  BY DEF PathInv, TypeOK, HeapTypes
<1>2. PICK r \in [Object -> Nat] : \A a \in OnPath : \A b \in Prevs[a] : r[b] < r[a]
  BY DEF PathInv, Descending
<1> DEFINE S == {a \in OnPath : r[a] <= r[object]}
<1>3. \A a \in OnPath : Prevs[a] \subseteq OnPath
  BY Edges, ClosureHolds, {object} \cap Object \subseteq Object DEF OnPath
<1>4. S \subseteq Object /\ {object} \cap Object \subseteq S
  BY <1>1
<1>5. ASSUME NEW a \in S, NEW b \in Prevs[a] PROVE b \in S
  <2>1. b \in OnPath /\ r[b] \in Nat /\ r[a] \in Nat /\ r[object] \in Nat
        /\ r[b] < r[a] /\ r[a] <= r[object]
    BY <1>1, <1>2, <1>3, <1>5
  <2> QED BY <2>1
<1>6. OnPath \subseteq S
  BY <1>4, <1>5, ClosureLeast DEF OnPath
<1>7. ASSUME prev[o] = object PROVE FALSE
  <2>1. object \in Prevs[o]
    BY <1>1, <1>7 DEF Prevs
  <2>2. r[object] < r[o] /\ r[o] <= r[object] /\ r[o] \in Nat /\ r[object] \in Nat
    BY <1>1, <1>2, <1>6, <2>1
  <2> QED BY <2>2
<1> QED BY <1>1, <1>7

(* The walk enters an unmarked object, which becomes the end of the path,  *)
(* or passes a reference that needs no more.                               *)
LEMMA MarkReferenceStep ==
  ASSUME GcInv, MarkReference
  PROVE  GcInv'
<1> DEFINE n == index[object] + 1
           w == refs[object][n]
<1>0. /\ TypeOK /\ HeapInv /\ RootInv /\ ChainInv /\ LinkInv /\ MarkInv /\ PathInv /\ IdleInv
      /\ TypeOK' /\ pc = "mark" /\ object # NIL /\ object \in OnPath /\ object \in live
      /\ live \subseteq Object /\ referenced[object]
  BY CollectorStepTypes DEF GcInv, Collector, MarkReference, PathInv, TypeOK, HeapTypes
<1>1. /\ UNCHANGED <<head, data, nroots, end, count, magic, children, refs, next, live, var,
                     status, pc, i>>
      /\ Referents' = Referents /\ Reachable' = Reachable
  BY DEF MarkReference, gc, shape, caller, Referents, Reachable, RootObjects, Closure
<1>2. RootInv' /\ ChainInv' /\ SweepInv' /\ IdleInv'
  BY <1>0, <1>1, ChainKept DEF RootInv, SweepInv, IdleInv
<1>3. /\ n \in 1 .. children[object] /\ w \in Word
      /\ w \in Object => w \in Referents[object] /\ w \in live
  <2>1. n \in 1 .. children[object] /\ w \in Word
    BY <1>0, NextReference DEF MarkReference
  <2>2. w \in Object => w \in Referents[object]
    BY <1>0, <2>1 DEF Referents, TypeOK, HeapTypes
  <2> QED BY <1>0, <2>1, <2>2 DEF HeapInv
<1>4. /\ index'[object] = n /\ \A a \in Object \ {object} : index'[a] = index[a]
      /\ index[object] = n - 1 /\ n \in Nat
  <2>1. index[object] \in 0 .. 255 /\ index' = [index EXCEPT ![object] = n]
    BY <1>0 DEF MarkReference, TypeOK, HeapTypes
  <2>2. \A a \in Object \ {object} : index'[a] = index[a]
    BY <1>0, <2>1 DEF TypeOK, HeapTypes
  <2>3. index'[object] = n
    BY <1>0, <2>1 DEF TypeOK, HeapTypes
  <2> QED BY <2>1, <2>2, <2>3
<1>5. Enters(w) <=> w \in Object /\ ~referenced[w]
  BY <1>0, <1>3 DEF Enters, HeapInv
<1>6. \A a \in Object : index'[a] <= children'[a]
  BY <1>0, <1>1, <1>3, <1>4 DEF HeapInv, TypeOK, HeapTypes
<1> HIDE DEF n, w
<1>7. ASSUME \A a \in live : referenced[a] => referenced'[a],
             w \in Object => referenced'[w],
             NEW a \in live, referenced[a], NEW c \in 1 .. index'[a], refs[a][c] \in Object
      PROVE  a \in Reachable /\ refs[a][c] \in live /\ referenced'[refs[a][c]]
  <2>1. a \in Object /\ index[a] \in 0 .. 255 /\ index'[a] \in 0 .. 255
        /\ index'[a] <= children[a] /\ refs[a] \in [1 .. children[a] -> Word]
        /\ children[a] \in 0 .. 255
    BY <1>0, <1>1, <1>6 DEF TypeOK, HeapTypes
  <2>2. c \in 1 .. children[a]
    <3>1. \A x, y \in 0 .. 255 : x <= y => \A d \in 1 .. x : d \in 1 .. y
      OBVIOUS
    <3> QED BY <1>7, <2>1, <3>1
  <2>3. refs[a][c] \in live
    <3>1. Referents[a] \subseteq live
      BY <1>0, <1>7 DEF HeapInv
    <3>2. c \in DOMAIN refs[a]
      BY <2>1, <2>2
    <3>3. refs[a][c] \in Referents[a]
      BY <1>7, <2>1, <3>2 DEF Referents
    <3> QED BY <3>1, <3>3
  <2>4. CASE c \in 1 .. index[a]
    BY <1>0, <1>7, <2>3, <2>4 DEF MarkInv
  <2>5. CASE c \notin 1 .. index[a]
    <3>1. a = object
      BY <1>4, <1>7, <2>1, <2>5
    <3>2. c = n
      BY <1>4, <1>7, <2>1, <2>5, <3>1
    <3> QED BY <1>0, <1>7, <2>3, <3>1, <3>2 DEF MarkInv, w
  <2> QED BY <2>4, <2>5, <2>3, <1>0, <1>7 DEF MarkInv
<1>8. \A a \in OnPath : a \in live /\ a \in Object /\ prev[a] # object
  BY <1>0, PathEnds
<1>9. CASE Enters(w)
  <2>1. /\ w \in Object /\ w \in live /\ ~referenced[w] /\ w # NIL /\ object' = w
        /\ referenced' = [referenced EXCEPT ![w] = TRUE] /\ prev' = [prev EXCEPT ![w] = object]
    BY <1>3, <1>5, <1>9, Addresses DEF MarkReference, n, w
  <2>2. /\ \A a \in Object : (referenced'[a] <=> referenced[a] \/ a = w)
                             /\ (a # w => prev'[a] = prev[a])
        /\ prev'[w] = object /\ w \notin OnPath
    BY <1>0, <2>1 DEF TypeOK, HeapTypes, PathInv
  <2>3. OnPath' = {w} \cup OnPath
    <3>1. /\ OnPath' = Closure(Prevs', {w}) /\ Prevs'[w] = {object} \cap Object
          /\ \A s \in Object : Prevs'[s] \subseteq Object /\ Prevs[s] \subseteq Object
      BY <2>1, <2>2 DEF OnPath, Prevs
    <3>2. \A s \in OnPath : Prevs'[s] = Prevs[s]
      BY <1>8, <2>2 DEF Prevs
    <3>3. Closure(Prevs', {w}) = {w} \cup Closure(Prevs', Prevs'[w])
      BY <2>1, <3>1, ClosureUnfold
    <3>4. Closure(Prevs', {object} \cap Object) = OnPath
      BY <3>1, <3>2, ClosureSame DEF OnPath
    <3> QED BY <3>1, <3>3, <3>4
  <2>4. HeapInv'
    <3>1. \A a \in live : ~referenced'[a] => index'[a] = 0
      BY <1>0, <1>4, <2>2 DEF HeapInv
    <3> QED BY <1>0, <1>1, <1>6, <3>1 DEF HeapInv
  <2>5. LinkInv'
    BY <1>0, <1>1, <2>2, LinkKept
  <2>6. MarkInv'
    <3>1. \A a \in live : referenced[a] => referenced'[a]
      BY <1>0, <2>2
    <3>2. ASSUME NEW a \in live, referenced'[a]
          PROVE  /\ a \in Reachable
                 /\ a \in OnPath' \/ index'[a] = children[a]
                 /\ \A c \in 1 .. index'[a] : refs[a][c] \in Object => referenced'[refs[a][c]]
      <4>1. CASE a = w
        <5>1. index'[a] = 0
          BY <1>0, <1>4, <2>1, <4>1 DEF HeapInv
        <5>2. object \in Reachable
          BY <1>0 DEF MarkInv
        <5> QED BY <1>3, <2>1, <2>3, <4>1, <5>1, <5>2, ReachableHolds
      <4>2. CASE a # w
        <5>1. referenced[a] /\ a \in Object
          BY <1>0, <2>2, <3>2, <4>2
        <5>2. a \in Reachable /\ (a \in OnPath' \/ index'[a] = children[a])
          BY <1>0, <1>4, <2>3, <5>1 DEF MarkInv
        <5> QED BY <1>7, <2>2, <3>1, <5>1, <5>2
      <4> QED BY <4>1, <4>2
    <3>3. \A e \in 1 .. (i - 1) :
            data[e] # 0 /\ var[data[e]] # NIL => referenced'[var[data[e]]]
      <4>1. \A e \in 1 .. (i - 1) : e \in 1 .. GcRoots
        BY <1>0, ConstantsAssumption DEF PathInv
      <4> QED BY <1>0, <2>2, <4>1, RootsReachable DEF MarkInv
    <3> QED BY <1>0, <1>1, <3>2, <3>3 DEF MarkInv
  <2>7. PathInv'
    <3>1. Descending(Prevs', OnPath')
      <4>1. PICK r \in [Object -> Nat] : \A a \in OnPath : \A b \in Prevs[a] : r[b] < r[a]
        BY <1>0 DEF PathInv, Descending
      <4> DEFINE q == [r EXCEPT ![w] = r[object] + 1]
      <4>2. q \in [Object -> Nat]
        BY <1>0, <2>1
      <4>3. ASSUME NEW a \in OnPath', NEW b \in Prevs'[a] PROVE q[b] < q[a]
        <5>1. CASE a = w
          <6>1. b = object /\ object # w /\ object \in Object
            BY <1>0, <2>1, <2>2, <4>3, <5>1 DEF Prevs
          <6> QED BY <2>1, <5>1, <6>1
        <5>2. CASE a # w
          <6>1. a \in OnPath /\ a \in Object /\ b \in Prevs[a] /\ b = prev[a] /\ b \in Object
            BY <1>8, <2>2, <2>3, <4>3, <5>2 DEF Prevs
          <6>2. b # w
            BY <1>0, <2>2, <6>1, Addresses DEF PathInv
          <6> QED BY <4>1, <5>2, <6>1, <6>2
        <5> QED BY <5>1, <5>2
      <4> HIDE DEF q
      <4> QED BY <4>2, <4>3 DEF Descending
    <3>2. ASSUME NEW a \in OnPath'
          PROVE  /\ referenced'[a]
                 /\ prev'[a] # NIL =>
                      /\ prev'[a] \in OnPath'
                      /\ index'[prev'[a]] \in 1 .. children[prev'[a]]
                      /\ refs[prev'[a]][index'[prev'[a]]] = a
                 /\ prev'[a] = NIL => a = var[data[i]]
      <4>1. CASE a = w
        BY <1>0, <1>3, <1>4, <2>1, <2>2, <2>3, <4>1 DEF w
      <4>2. CASE a # w
        <5>1. a \in OnPath /\ prev'[a] = prev[a] /\ prev[a] # object /\ referenced[a]
              /\ a \in Object
          BY <1>0, <1>8, <2>2, <2>3, <4>2 DEF PathInv
        <5>2. prev[a] # NIL => index'[prev[a]] = index[prev[a]]
          BY <1>0, <1>4, <1>8, <5>1 DEF PathInv
        <5> QED BY <1>0, <2>2, <2>3, <5>1, <5>2 DEF PathInv
      <4> QED BY <4>1, <4>2
    <3>3. /\ i \in 1 .. GcRoots /\ data[i] # 0 /\ var[data[i]] # NIL
          /\ referenced'[var[data[i]]] /\ OnPath' \subseteq live
      BY <1>0, <1>8, <2>1, <2>2, <2>3, RootsReachable DEF PathInv
    <3> QED BY <1>1, <2>1, <2>3, <3>1, <3>2, <3>3 DEF PathInv
  <2> QED BY <1>0, <1>2, <2>4, <2>5, <2>6, <2>7 DEF GcInv
<1>10. CASE ~Enters(w)
  <2>1. UNCHANGED <<prev, referenced, object>> /\ (w \in Object => referenced[w])
    BY <1>5, <1>10 DEF MarkReference, n, w
  <2>2. OnPath' = OnPath /\ Prevs' = Prevs
    BY <2>1 DEF OnPath, Prevs, Closure
  <2>3. HeapInv'
    <3>1. \A a \in live : ~referenced'[a] => index'[a] = 0
      BY <1>0, <1>4, <2>1 DEF HeapInv
    <3> QED BY <1>0, <1>1, <1>6, <3>1 DEF HeapInv
  <2>4. LinkInv'
    BY <1>0, <1>1, <2>1, LinkKept
  <2>5. MarkInv'
    <3>1. ASSUME NEW a \in live, referenced[a]
          PROVE  /\ a \in Reachable
                 /\ a \in OnPath \/ index'[a] = children[a]
                 /\ \A c \in 1 .. index'[a] : refs[a][c] \in Object => referenced[refs[a][c]]
      <4>1. a \in Reachable /\ (a \in OnPath \/ index'[a] = children[a])
        BY <1>0, <1>4, <3>1 DEF MarkInv
      <4> QED BY <1>7, <2>1, <3>1, <4>1
    <3> QED BY <1>0, <1>1, <2>1, <2>2, <3>1 DEF MarkInv
  <2>6. PathInv'
    <3>1. ASSUME NEW a \in OnPath, prev[a] # NIL
          PROVE  index'[prev[a]] = index[prev[a]]
      BY <1>0, <1>4, <1>8, <3>1 DEF PathInv
    <3> QED BY <1>0, <1>1, <2>1, <2>2, <3>1 DEF PathInv
  <2> QED BY <1>0, <1>2, <2>3, <2>4, <2>5, <2>6 DEF GcInv
<1> QED BY <1>9, <1>10

(* Going back shortens the path by one object, which is dealt with.        *)
LEMMA MarkBackStep ==
  ASSUME GcInv, MarkBack
  PROVE  GcInv'
<1>0. /\ TypeOK /\ HeapInv /\ RootInv /\ ChainInv /\ LinkInv /\ MarkInv /\ PathInv /\ IdleInv
      /\ TypeOK' /\ pc = "mark" /\ object # NIL /\ object \in OnPath /\ object \in live
      /\ object \in Object /\ index[object] = children[object]
  <2>1. /\ TypeOK /\ HeapInv /\ PathInv /\ TypeOK' /\ pc = "mark" /\ object # NIL
        /\ index[object] >= children[object]
    BY CollectorStepTypes DEF GcInv, Collector, MarkBack
  <2>2. object \in OnPath /\ object \in live /\ object \in Object
    BY <2>1 DEF PathInv, TypeOK, HeapTypes
  <2>3. index[object] \in 0 .. 255 /\ children[object] \in 0 .. 255
        /\ index[object] <= children[object]
    BY <2>1, <2>2 DEF HeapInv, TypeOK, HeapTypes
  <2>4. \A a, b \in 0 .. 255 : a >= b /\ a <= b => a = b
    OBVIOUS
  <2> QED BY <2>1, <2>2, <2>3, <2>4 DEF GcInv
<1>1. /\ UNCHANGED <<head, data, nroots, end, count, magic, children, refs, next, live, var,
                     status, pc, i, index, prev, referenced>>
      /\ object' = prev[object]
      /\ Referents' = Referents /\ Reachable' = Reachable /\ Prevs' = Prevs
  BY DEF MarkBack, gc, heap, shape, marks, links, caller, Referents, Reachable, RootObjects,
         Closure, Prevs
<1>2. RootInv' /\ ChainInv' /\ SweepInv' /\ IdleInv' /\ HeapInv' /\ LinkInv'
  BY <1>0, <1>1, ChainKept, LinkKept, HeapKept DEF RootInv, SweepInv, IdleInv, HeapInv
<1>3. OnPath = {object} \cup OnPath'
  <2>1. /\ OnPath = Closure(Prevs, {object}) /\ OnPath' = Closure(Prevs, {object'} \cap Object)
        /\ Prevs[object] = {object'} \cap Object
    <3>1. {object} \cap Object = {object} /\ Prevs[object] = {prev[object]} \cap Object
      BY <1>0 DEF Prevs
    <3>2. OnPath' = Closure(Prevs, {object'} \cap Object)
      BY <1>1, Zenon DEF OnPath, Closure
    <3> QED BY <1>1, <3>1, <3>2 DEF OnPath
  <2>2. Closure(Prevs, {object}) = {object} \cup Closure(Prevs, Prevs[object])
    BY <1>0, Edges, ClosureUnfold
  <2> QED BY <2>1, <2>2
<1>4. object' \in OnPath' \cup {NIL} /\ \A a \in OnPath' : Prevs[a] \subseteq OnPath'
  <2>1. OnPath' = Closure(Prevs, {object'} \cap Object)
    BY <1>1 DEF OnPath, Closure
  <2>2. {object'} \cap Object \subseteq OnPath' /\ \A a \in OnPath' : Prevs[a] \subseteq OnPath'
    BY <2>1, Edges, ClosureHolds, {object'} \cap Object \subseteq Object
  <2> QED BY <1>0, <1>1, <2>2 DEF TypeOK, HeapTypes
<1>5. MarkInv'
  BY <1>0, <1>1, <1>3 DEF MarkInv
<1>6. PathInv'
  <2>1. Descending(Prevs', OnPath')
    BY <1>0, <1>1, <1>3 DEF PathInv, Descending
  <2>2. \A a \in OnPath' : prev[a] # NIL => prev[a] \in OnPath'
    BY <1>0, <1>3, <1>4 DEF PathInv, Prevs, TypeOK, HeapTypes
  <2> QED BY <1>0, <1>1, <1>3, <1>4, <2>1, <2>2 DEF PathInv
<1> QED BY <1>0, <1>2, <1>5, <1>6 DEF GcInv

(* Without a path, every marked object has been dealt with.                *)
LEMMA MarkDoneStep ==
  ASSUME GcInv, MarkDone
  PROVE  GcInv'
<1>0. /\ TypeOK /\ HeapInv /\ RootInv /\ ChainInv /\ LinkInv /\ MarkInv /\ PathInv /\ IdleInv
      /\ TypeOK' /\ pc = "mark" /\ object = NIL /\ i \in 1 .. GcRoots
  BY CollectorStepTypes DEF GcInv, Collector, MarkDone, PathInv
<1>1. /\ UNCHANGED <<head, data, nroots, end, count, magic, children, refs, next, live, var,
                     status, index, prev, referenced>>
      /\ pc' = "roots" /\ i' = i + 1
      /\ Referents' = Referents /\ Reachable' = Reachable
  BY DEF MarkDone, gc, heap, shape, marks, links, caller, Referents, Reachable, RootObjects,
         Closure
<1>2. RootInv' /\ ChainInv' /\ SweepInv' /\ IdleInv' /\ PathInv' /\ LinkInv'
  BY <1>0, <1>1, ChainKept, LinkKept DEF RootInv, SweepInv, IdleInv, PathInv
<1>3. HeapInv'
  BY <1>0, <1>1, HeapKept DEF HeapInv
<1>4. OnPath = {}
  BY <1>0, Addresses, ClosureEmpty, {NIL} \cap Object = {} DEF OnPath
<1>5. MarkInv'
  BY <1>0, <1>1, <1>4 DEF MarkInv, PathInv
<1> QED BY <1>0, <1>2, <1>3, <1>5 DEF GcInv

-----------------------------------------------------------------------------
(* Sweeping.                                                               *)

(* All roots are marked, and what marked objects refer to: so everything   *)
(* that can be reached is.                                                 *)
LEMMA StartSweepStep ==
  ASSUME GcInv, StartSweep
  PROVE  GcInv'
<1>0. /\ TypeOK /\ HeapInv /\ RootInv /\ ChainInv /\ LinkInv /\ MarkInv /\ IdleInv
      /\ TypeOK' /\ pc = "roots" /\ i > GcRoots /\ i \in Nat /\ GcRoots \in Nat
  BY CollectorStepTypes, ConstantsAssumption
     DEF GcInv, Collector, StartSweep, TypeOK, LocalTypes
<1>1. /\ UNCHANGED <<head, data, nroots, end, count, magic, children, refs, next, live, var,
                     status, index, prev, referenced>>
      /\ pc' = "sweep" /\ object' = head /\ last' = NIL
      /\ Referents' = Referents /\ Reachable' = Reachable /\ Nexts' = Nexts
  BY DEF StartSweep, gc, heap, shape, marks, links, caller, Referents, Reachable, RootObjects,
         Closure, Nexts
<1>2. RootInv' /\ ChainInv' /\ MarkInv' /\ IdleInv' /\ PathInv' /\ LinkInv'
  BY <1>0, <1>1, ChainKept, LinkKept DEF RootInv, MarkInv, IdleInv, PathInv
<1>3. HeapInv'
  BY <1>0, <1>1, HeapKept DEF HeapInv
<1>4. Reachable \subseteq live
  BY <1>0, ReachableLive
<1>5. Reachable \subseteq {o \in live : referenced[o]}
  <2> DEFINE S == {o \in live : referenced[o]}
  <2>1. RootObjects \subseteq S
    <3>1. \A e \in 1 .. GcRoots : e \in 1 .. (i - 1)
      BY <1>0 DEF TypeOK, LocalTypes
    <3> QED BY <1>0, <3>1, RootsReachable, Addresses DEF RootObjects, MarkInv
  <2>2. ASSUME NEW o \in S PROVE Referents[o] \subseteq S
    <3>1. /\ o \in Object /\ refs[o] \in [1 .. children[o] -> Word] /\ index[o] = children[o]
          /\ Referents[o] \subseteq live
      BY <1>0, <2>2 DEF MarkInv, HeapInv, TypeOK, HeapTypes
    <3>2. \A c \in 1 .. children[o] : refs[o][c] \in Object => referenced[refs[o][c]]
      BY <1>0, <2>2, <3>1 DEF MarkInv
    <3> QED BY <3>1, <3>2 DEF Referents
  <2>3. S \subseteq Object
    BY <1>0 DEF TypeOK, HeapTypes
  <2> QED BY <2>1, <2>2, <2>3, ClosureLeast DEF Reachable
<1>6. Ahead' = live
  BY <1>0, <1>1 DEF Ahead, ChainInv, OnList, Closure
<1>7. SweepInv'
  BY <1>0, <1>1, <1>4, <1>5, <1>6 DEF SweepInv, ChainInv, MarkInv
<1> QED BY <1>0, <1>2, <1>3, <1>7 DEF GcInv

(* The objects after the current one, to which no link leads back.         *)
Rest == Closure(Nexts, {next[object]} \cap Object)

(* The sweep passes each object once.                                      *)
LEMMA AheadParts ==
  ASSUME TypeOK, ChainInv, object \in live
  PROVE  /\ Ahead = {object} \cup Rest /\ Rest \subseteq live \ {object}
         /\ \A s \in Rest : next[s] # object
<1>1. /\ object \in Object /\ live \subseteq Object
      /\ Nexts[object] = {next[object]} \cap Object /\ {object} \cap Object = {object}
  BY DEF TypeOK, HeapTypes, Nexts
<1>2. Ahead = {object} \cup Rest
  <2>1. Closure(Nexts, {object}) = {object} \cup Closure(Nexts, Nexts[object])
    BY <1>1, Edges, ClosureUnfold
  <2> QED BY <1>1, <2>1 DEF Ahead, Rest
<1>3. PICK r \in [Object -> Nat] : \A a \in live : \A b \in Nexts[a] : r[b] < r[a]
  BY DEF ChainInv, Descending
<1> DEFINE S == {s \in live : r[s] < r[object]}
<1>4. \A a \in live : Nexts[a] \subseteq live
  BY <1>1, Addresses DEF ChainInv, Nexts
<1>5. Nexts[object] \subseteq S /\ S \subseteq Object
  BY <1>1, <1>3, <1>4
<1>6. ASSUME NEW a \in S, NEW b \in Nexts[a] PROVE b \in S
  <2>1. b \in live /\ r[b] \in Nat /\ r[a] \in Nat /\ r[object] \in Nat
        /\ r[b] < r[a] /\ r[a] < r[object]
    BY <1>1, <1>3, <1>4, <1>6
  <2> QED BY <2>1
<1>7. Rest \subseteq S
  BY <1>1, <1>5, <1>6, ClosureLeast DEF Rest
<1>8. ASSUME NEW s \in Rest, next[s] = object PROVE FALSE
  <2>1. s \in S /\ object \in Nexts[s]
    BY <1>1, <1>7, <1>8 DEF Nexts
  <2>2. r[object] < r[s] /\ r[s] < r[object] /\ r[s] \in Nat /\ r[object] \in Nat
    BY <1>1, <1>3, <2>1
  <2> QED BY <2>2
<1>9. object \notin S
  BY <1>1
<1> QED BY <1>2, <1>7, <1>8, <1>9

(* Garbage is unlinked: what can be reached is as before.                  *)
LEMMA SweepFreeStep ==
  ASSUME GcInv, SweepFree
  PROVE  GcInv'
<1>0. /\ TypeOK /\ HeapInv /\ RootInv /\ ChainInv /\ LinkInv /\ SweepInv /\ IdleInv
      /\ TypeOK' /\ pc = "sweep" /\ object \in live /\ object \in Object /\ live \subseteq Object
      /\ ~referenced[object] /\ Free(object) /\ object' = next[object]
      /\ UNCHANGED <<data, nroots, end, var, pc, last, status>>
  BY CollectorStepTypes DEF GcInv, Collector, SweepFree, SweepInv, caller, TypeOK, HeapTypes
<1>1. Linked(object) /\ object \in Ahead /\ object \notin Reachable /\ Reachable \subseteq live
  BY <1>0, AheadParts DEF LinkInv, SweepInv
<1>2. ChainInv' /\ LinkInv'
  BY <1>0, <1>1, FreeChain, FreeKeepsLinks
<1>3. /\ live' = live \ {object}
      /\ \A a \in Object \ {object} :
           /\ magic'[a] = magic[a] /\ referenced'[a] = referenced[a]
           /\ children'[a] = children[a] /\ index'[a] = index[a]
           /\ refs'[a] = refs[a] /\ Referents'[a] = Referents[a]
      /\ ~magic'[object] /\ children'[object] = 0 /\ index'[object] = 0
  BY <1>0 DEF Free, Blank, TypeOK, HeapTypes, Referents
<1>4. HeapInv'
  <2>1. \A a \in Object : (magic'[a] <=> a \in live') /\ index'[a] <= children'[a]
    BY <1>0, <1>3 DEF HeapInv
  <2>2. \A a \in live' : a <= end' /\ (~referenced'[a] => index'[a] = 0)
    BY <1>0, <1>3 DEF HeapInv
  <2> QED BY <1>0, <2>1, <2>2 DEF HeapInv
<1>5. RootInv'
  BY <1>0, <1>1, <1>3, RootsReachable DEF RootInv
<1>6. Reachable' = Reachable
  <2>1. RootObjects' = RootObjects
    BY <1>0 DEF RootObjects
  <2>2. \A s \in Reachable : Referents'[s] = Referents[s]
    BY <1>1, <1>3, ReachableHolds
  <2>3. \A s \in Object : Referents'[s] \subseteq Object /\ Referents[s] \subseteq Object
    BY DEF Referents
  <2>4. RootObjects \subseteq Object
    BY DEF RootObjects
  <2>5. Closure(Referents', RootObjects) = Closure(Referents, RootObjects)
    BY <2>2, <2>3, <2>4, ClosureSame DEF Reachable
  <2> QED BY <2>1, <2>5 DEF Reachable
<1>7. Ahead' = Rest
  <2>1. \A s \in Rest : Nexts'[s] = Nexts[s]
    <3>1. \A s \in Rest : s \in live \ {object} /\ next'[s] = next[s]
      BY <1>0, <1>1, AheadParts, FreeLinks
    <3> QED BY <1>0, <3>1 DEF Nexts
  <2>2. \A s \in Object : Nexts'[s] \subseteq Object /\ Nexts[s] \subseteq Object
    BY DEF Nexts
  <2>3. Closure(Nexts', {next[object]} \cap Object) = Rest
    BY <2>1, <2>2, ClosureSame DEF Rest
  <2> QED BY <1>0, <2>3 DEF Ahead
<1>8. SweepInv'
  <2>1. object' \in live' \cup {NIL}
    BY <1>0, <1>1, <1>3, FreeLinks DEF ChainInv
  <2>2. last' = NIL => object' = head'
    BY <1>0, <1>1, FreeLinks DEF SweepInv
  <2>3. last' # NIL => last' \in live' /\ next'[last'] = object'
    BY <1>0, <1>1, <1>3, FreeLinks DEF SweepInv
  <2>4. ASSUME NEW a \in live'
        PROVE  IF a \in Ahead' THEN referenced'[a] <=> a \in Reachable'
               ELSE ~referenced'[a] /\ a \in Reachable'
    <3>1. a \in live /\ a # object /\ (referenced'[a] <=> referenced[a])
          /\ (a \in Ahead' <=> a \in Ahead)
      BY <1>0, <1>3, <1>7, AheadParts
    <3> QED BY <1>0, <1>6, <3>1 DEF SweepInv
  <2>5. Reachable' \subseteq live'
    BY <1>1, <1>3, <1>6
  <2> QED BY <2>1, <2>2, <2>3, <2>4, <2>5 DEF SweepInv
<1>9. MarkInv' /\ PathInv'
  BY <1>0 DEF MarkInv, PathInv
<1>10. IdleInv'
  BY <1>0 DEF IdleInv
<1> QED BY <1>0, <1>2, <1>4, <1>5, <1>8, <1>9, <1>10 DEF GcInv

(* What is kept gets its link and its marks back.                          *)
LEMMA SweepKeepStep ==
  ASSUME GcInv, SweepKeep
  PROVE  GcInv'
<1>0. /\ TypeOK /\ HeapInv /\ RootInv /\ ChainInv /\ LinkInv /\ SweepInv /\ IdleInv
      /\ TypeOK' /\ pc = "sweep" /\ object \in live /\ object \in Object /\ live \subseteq Object
      /\ referenced[object] /\ object' = next[object] /\ last' = object
      /\ prev' = [prev EXCEPT ![object] = last]
      /\ referenced' = [referenced EXCEPT ![object] = FALSE]
      /\ index' = [index EXCEPT ![object] = 0]
  BY CollectorStepTypes DEF GcInv, Collector, SweepKeep, SweepInv, TypeOK, HeapTypes
<1>1. /\ UNCHANGED <<head, data, nroots, end, count, magic, children, refs, next, live, var,
                     status, pc>>
      /\ Referents' = Referents /\ Reachable' = Reachable /\ Nexts' = Nexts
  BY DEF SweepKeep, gc, shape, caller, Referents, Reachable, RootObjects, Closure, Nexts
<1>2. /\ ~referenced'[object] /\ index'[object] = 0 /\ prev'[object] = last
      /\ \A a \in Object \ {object} : /\ referenced'[a] = referenced[a]
                                      /\ index'[a] = index[a] /\ prev'[a] = prev[a]
  BY <1>0 DEF TypeOK, HeapTypes
<1>3. RootInv' /\ ChainInv' /\ MarkInv' /\ PathInv'
  BY <1>0, <1>1, ChainKept DEF RootInv, MarkInv, PathInv
<1>4. HeapInv'
  <2>1. \A a \in Object : (magic'[a] <=> a \in live') /\ index'[a] <= children'[a]
    <3>1. children \in [Object -> 0 .. 255]
      BY <1>0 DEF TypeOK, HeapTypes
    <3>2. 0 <= children[object]
      BY <1>0, <3>1
    <3> QED BY <1>0, <1>1, <1>2, <3>2 DEF HeapInv
  <2>2. \A a \in live' : a <= end' /\ (~referenced'[a] => index'[a] = 0)
    BY <1>0, <1>1, <1>2 DEF HeapInv
  <2> QED BY <1>0, <1>1, <2>1, <2>2 DEF HeapInv
<1>5. LinkInv'
  <2>1. ASSUME NEW a \in live, a = object PROVE Linked(a)'
    <3>1. object = head => last = NIL
      <4>1. object # NIL /\ (last # NIL => last \in live /\ next[last] = object)
        BY <1>0, Addresses DEF SweepInv
      <4> QED BY <1>0, <4>1 DEF ChainInv
    <3>2. ASSUME NEW p \in live, next[p] = object PROVE last = p
      BY <1>0, <3>2, Addresses DEF SweepInv, ChainInv
    <3> QED BY <1>1, <1>2, <2>1, <3>1, <3>2 DEF Linked
  <2>2. ASSUME NEW a \in live, a # object, ~referenced'[a] PROVE Linked(a)'
    BY <1>0, <1>1, <1>2, <2>2 DEF LinkInv, Linked
  <2> QED BY <1>1, <2>1, <2>2 DEF LinkInv
<1>6. Ahead' = Rest
  BY <1>0, <1>1 DEF Ahead, Rest, Closure
<1>7. SweepInv'
  <2>1. object' \in live \cup {NIL}
    BY <1>0 DEF ChainInv
  <2>2. last' # NIL /\ last' \in live /\ next[last'] = object'
    BY <1>0, Addresses
  <2>3. ASSUME NEW a \in live
        PROVE  IF a \in Ahead' THEN referenced'[a] <=> a \in Reachable
               ELSE ~referenced'[a] /\ a \in Reachable
    <3>1. CASE a = object
      BY <1>0, <1>2, <1>6, <3>1, AheadParts DEF SweepInv
    <3>2. CASE a # object
      <4>1. (a \in Ahead' <=> a \in Ahead) /\ (referenced'[a] <=> referenced[a])
        BY <1>0, <1>2, <1>6, <3>2, AheadParts
      <4> QED BY <1>0, <4>1 DEF SweepInv
    <3> QED BY <3>1, <3>2
  <2> QED BY <1>0, <1>1, <2>1, <2>2, <2>3 DEF SweepInv
<1>8. IdleInv'
  BY <1>0, <1>1 DEF IdleInv
<1> QED BY <1>0, <1>3, <1>4, <1>5, <1>7, <1>8 DEF GcInv

(* At the end of the list, what is left is what can be reached.            *)
LEMMA SweepEnds ==
  ASSUME GcInv, pc = "sweep", object = NIL
  PROVE  live = Reachable /\ \A o \in live : ~referenced[o]
<1>1. Ahead = {}
  BY Addresses, ClosureEmpty, {NIL} \cap Object = {} DEF Ahead
<1> QED BY <1>1 DEF GcInv, SweepInv

(* A collection that is over has left the heap as the caller expects it.   *)
LEMMA FinishStep ==
  ASSUME GcInv, Finish
  PROVE  GcInv'
<1>0. /\ TypeOK /\ HeapInv /\ RootInv /\ ChainInv /\ LinkInv /\ IdleInv
      /\ TypeOK' /\ pc = "sweep" /\ object = NIL /\ pc' = "idle"
      /\ status' = IF status = "destroying" THEN "destroyed" ELSE status
  BY CollectorStepTypes DEF GcInv, Collector, Finish
<1>1. UNCHANGED <<head, data, nroots, end, count, magic, children, refs, next, live, var,
                  index, prev, referenced>>
  BY DEF Finish, gc, heap, shape, marks, links
<1>2. ChainInv' /\ LinkInv' /\ MarkInv' /\ PathInv' /\ SweepInv'
  BY <1>0, <1>1, ChainKept, LinkKept DEF MarkInv, PathInv, SweepInv
<1>3. RootInv'
  BY <1>0, <1>1 DEF RootInv
<1>4. HeapInv'
  <2>1. \A o \in live : Referents'[o] \subseteq live
    BY <1>0, <1>1, SweepEnds, ReachableHolds DEF Referents
  <2> QED BY <1>0, <1>1, <2>1, HeapKept
<1>5. IdleInv'
  <2>1. ASSUME status = "destroying", nroots <= GcRoots \div PtrSize PROVE live = {}
    <3>1. RootObjects = {}
      BY <1>0, <2>1 DEF RootObjects, RootInv
    <3> QED BY <1>0, <3>1, SweepEnds, ClosureEmpty DEF Reachable
  <2> QED BY <1>0, <1>1, <2>1, SweepEnds DEF IdleInv
<1> QED BY <1>0, <1>2, <1>3, <1>4, <1>5 DEF GcInv

(* Whatever a collection does, the invariant holds.                        *)
LEMMA CollectorStep == ASSUME GcInv, Collector PROVE GcInv'
BY NextRootStep, MarkReferenceStep, MarkBackStep, MarkDoneStep, StartSweepStep, SweepFreeStep,
   SweepKeepStep, FinishStep DEF Collector

-----------------------------------------------------------------------------
(* The theorems.                                                           *)

(* A collector just created has no objects.                                *)
LEMMA InitGc == Init => GcInv
<1> SUFFICES ASSUME Init PROVE GcInv
  OBVIOUS
<1>1. TypeOK
  <2>1. HeapTypes
    BY <<>> \in [1 .. 0 -> Word] DEF Init, HeapTypes
  <2> QED BY <2>1, ConstantsAssumption DEF Init, TypeOK, GcTypes, LocalTypes, CallerTypes, Labels,
                                           Word
<1>2. HeapInv /\ RootInv /\ LinkInv
  BY DEF Init, HeapInv, RootInv, LinkInv
<1>3. ChainInv
  <2>1. OnList = {}
    BY Addresses, ClosureEmpty, {NIL} \cap Object = {} DEF Init, OnList
  <2>2. Descending(Nexts, {})
    BY [x \in Object |-> 0] \in [Object -> Nat] DEF Descending
  <2> QED BY <2>1, <2>2, FS_EmptySet DEF Init, ChainInv
<1>4. MarkInv /\ PathInv /\ SweepInv /\ IdleInv
  BY DEF Init, MarkInv, PathInv, SweepInv, IdleInv
<1> QED BY <1>1, <1>2, <1>3, <1>4 DEF GcInv

(* The invariant holds always.                                             *)
LEMMA Invariance == Spec => []GcInv
<1>1. GcInv /\ [Next]_vars => GcInv'
  <2> SUFFICES ASSUME GcInv, [Next]_vars PROVE GcInv'
    OBVIOUS
  <2>1. CASE Next
    BY <2>1, CallerStep, CollectorStep DEF Next
  <2>2. CASE UNCHANGED vars
    <3>1. /\ UNCHANGED <<head, data, nroots, end, count, magic, children, refs, next, live, var,
                         index, prev, referenced, pc, i, object, last, collected, status, calls,
                         assigned>>
      BY <2>2 DEF vars, gc, heap, shape, marks, links, locals, caller
    <3>2. /\ Referents' = Referents /\ Nexts' = Nexts /\ Prevs' = Prevs
          /\ Reachable' = Reachable /\ OnPath' = OnPath /\ Ahead' = Ahead
      BY <3>1 DEF Referents, Nexts, Prevs, Reachable, RootObjects, OnPath, Ahead, Closure
    <3>3. TypeOK'
      BY <3>1 DEF GcInv, TypeOK, GcTypes, HeapTypes, LocalTypes, CallerTypes
    <3>4. ChainInv' /\ LinkInv' /\ HeapInv'
      BY <3>1, <3>2, ChainKept, LinkKept DEF GcInv, HeapInv
    <3>5. RootInv' /\ MarkInv' /\ SweepInv' /\ IdleInv'
      BY <3>1, <3>2 DEF GcInv, RootInv, MarkInv, SweepInv, IdleInv
    <3>6. PathInv'
      BY <3>1, <3>2 DEF GcInv, PathInv, Descending
    <3> QED BY <3>3, <3>4, <3>5, <3>6 DEF GcInv
  <2> QED BY <2>1, <2>2
<1> QED BY <1>1, InitGc, PTL DEF Spec

(* The list is whole between collections, although each collection borrows *)
(* its links, and the count is the number of objects allocated.            *)
THEOREM ListIsSound == Spec => []ListSound
<1>1. ASSUME GcInv, pc = "idle" PROVE ListSound
  <2>1. /\ TypeOK /\ ChainInv /\ \A o \in live : ~referenced[o] /\ index[o] = 0 /\ Linked(o)
    BY <1>1 DEF GcInv, IdleInv, LinkInv, HeapInv
  <2>2. \A o \in live : prev[o] = NIL <=> o = head
    BY <2>1, Predecessor, Addresses DEF Linked, TypeOK, HeapTypes
  <2>3. \A o \in live : next[o] # NIL => prev[next[o]] = o
    BY <2>1 DEF Linked, ChainInv
  <2> QED BY <2>1, <2>2, <2>3 DEF ListSound, ChainInv
<1>2. GcInv => ListSound
  BY <1>1 DEF ListSound
<1> QED BY <1>2, Invariance, PTL

(* While gc_mark walks, the borrowed links lead back to the root, and      *)
(* whatever is off the path has been dealt with, with all it refers to.    *)
THEOREM WalkIsComplete == Spec => []MarkWalk
<1>1. GcInv => MarkWalk
  BY DEF GcInv, MarkWalk, PathInv, MarkInv
<1> QED BY <1>1, Invariance, PTL

(* A collection frees every object that cannot be reached from a root, and *)
(* no other, whatever the shape of the heap.                               *)
THEOREM CollectionIsExact == Spec => []CollectExact
<1>1. GcInv => CollectExact
  BY SweepEnds DEF CollectExact
<1> QED BY <1>1, Invariance, PTL

(* gc_destroy leaves no object if there are no more roots than its memset  *)
(* clears.                                                                 *)
THEOREM DestroyIsComplete == Spec => []DestroyCollects
<1>1. GcInv => DestroyCollects
  BY DEF GcInv, IdleInv, DestroyCollects
<1> QED BY <1>1, Invariance, PTL

=============================================================================
