---------------------------- MODULE LruSetProofs ----------------------------
(***************************************************************************)
(* The list of lru<K> is the recency of its calls, for all sets of keys    *)
(* and nodes and every capacity; so only the oldest key leaves, and the    *)
(* destructor deletes every node once. The same then for the pool of the   *)
(* cache-friendly header, whatever its bitmap held.                        *)
(*                                                                         *)
(* Three lemmas say what the helpers of lru_set.h do to a list that agrees *)
(* with the ages: MoveFront, RemoveBack and InsertFront leave it agreeing  *)
(* with the ages after the use, the loss and the arrival of a key.         *)
(***************************************************************************)
EXTENDS LruSetPool, FiniteSetTheorems, TLAPS

ListType ==
  [head : Pointer, tail : Pointer, size : Int,
   prev : [Nodes -> Pointer], next : [Nodes -> Pointer]]

(* The head of a list that is not empty is in use, and so is its tail.     *)
LEMMA Ends ==
  ASSUME NEW l \in ListType, NEW d \in [Nodes -> Keys], NEW m, NEW a \in [Keys -> Int],
         NEW S \in SUBSET Nodes, Agree(l, d, m, a, S)
  PROVE  /\ l.head # Null => l.head \in S /\ a[d[l.head]] = 0
         /\ l.tail # Null => l.tail \in S /\ a[d[l.tail]] = l.size - 1
         /\ l.head = Null <=> S = {}
         /\ l.tail = Null <=> S = {}
         /\ l.size = 0 <=> S = {}
<1>1. l.size = 0 => S = {}
  BY DEF Agree, AgesAreRanks
<1>2. ASSUME l.size # 0
      PROVE  /\ \E n \in S : a[d[n]] = 0
             /\ \E n \in S : a[d[n]] = l.size - 1
  <2>1. 0 \in 0 .. l.size - 1 /\ l.size - 1 \in 0 .. l.size - 1
    BY <1>2 DEF ListType, Agree
  <2> QED BY <2>1 DEF Agree, AgesAreRanks
<1>3. Null \notin S
  BY LruAssumption
<1> QED BY <1>1, <1>2, <1>3 DEF Agree, LinksFollowAges

(* A key that is used moves to the front.                                  *)
LEMMA Moved ==
  ASSUME NEW l \in ListType, NEW d \in [Nodes -> Keys], NEW m, NEW a \in [Keys -> Int],
         NEW S \in SUBSET Nodes, Agree(l, d, m, a, S), NEW n \in S
  PROVE  /\ MoveFront(l, n) \in ListType
         /\ MoveFront(l, n).size = l.size
         /\ Agree(MoveFront(l, n), d, m, Cache!Used(a, d[n]), S)
<1> DEFINE k == d[n]
           b == Cache!Used(a, k)
           o == MoveFront(l, n)
           p == l.prev[n]
           s == l.next[n]
<1>1. /\ \A j \in S : d[j] \in Keys /\ a[d[j]] \in 0 .. l.size - 1
      /\ \A j \in S : a[d[j]] \in Int /\ a[d[j]] >= 0 /\ a[d[j]] <= l.size - 1
      /\ l.size \in Int
  BY DEF ListType, Agree, AgesAreRanks
<1>2. /\ b \in [Keys -> Int]
      /\ b[d[n]] = 0
      /\ \A j \in S : j # n /\ a[d[j]] < a[k] => b[d[j]] = a[d[j]] + 1
      /\ \A j \in S : j # n /\ a[d[j]] >= a[k] => b[d[j]] = a[d[j]]
      /\ \A j \in Keys : b[j] = Cache!NoAge <=> a[j] = Cache!NoAge
  <2>1. b = [j \in Keys |->
               IF j = k THEN 0
               ELSE IF a[j] # -1 /\ (a[k] = -1 \/ a[j] < a[k]) THEN a[j] + 1
               ELSE a[j]]
    BY DEF Cache!Used, Cache!NoAge
  <2>2. k \in Keys /\ a[k] >= 0 /\ a[k] \in Int
    BY <1>1
  <2>3. b \in [Keys -> Int]
    BY <2>1, <2>2
  <2>4. \A j \in S : d[j] = k => j = n
    BY DEF Agree, MapAgrees
  <2>5. ASSUME NEW j \in S
        PROVE  b[d[j]] = IF j = n THEN 0
                         ELSE IF a[d[j]] < a[k] THEN a[d[j]] + 1 ELSE a[d[j]]
    <3>1. d[j] \in Keys /\ a[d[j]] # -1 /\ a[k] # -1
      BY <1>1, <2>2
    <3>2. b[d[j]] = IF d[j] = k THEN 0
                    ELSE IF a[d[j]] < a[k] THEN a[d[j]] + 1 ELSE a[d[j]]
      BY <2>1, <3>1
    <3> QED BY <2>4, <3>2
  <2>7. b[d[n]] = 0
    BY <2>5
  <2>8. ASSUME NEW j \in S, j # n, a[d[j]] < a[k] PROVE b[d[j]] = a[d[j]] + 1
    BY <2>5, <2>8
  <2>9. ASSUME NEW j \in S, j # n, a[d[j]] >= a[k] PROVE b[d[j]] = a[d[j]]
    BY <1>1, <2>2, <2>5, <2>9
  <2>6. ASSUME NEW j \in Keys PROVE b[j] = -1 <=> a[j] = -1
    <3>1. a[j] # -1 => a[j] >= 0
      BY <1>1 DEF Agree, MapAgrees, Cache!NoAge
    <3> QED BY <2>1, <2>2, <3>1
  <2> QED BY <2>3, <2>6, <2>7, <2>8, <2>9 DEF Cache!NoAge
<1>3. MapAgrees(d, m, b, S)
  BY <1>2 DEF Agree, MapAgrees
<1>4. CASE n = l.head
  <2>1. a[k] = 0 /\ o = l
    BY <1>4 DEF Agree, LinksFollowAges, MoveFront
  <2>2. ASSUME NEW j \in S PROVE b[d[j]] = a[d[j]]
    BY <1>1, <1>2, <2>1
  <2>3. AgesAreRanks(l, d, b, S)
    BY <2>2 DEF Agree, AgesAreRanks
  <2>4. LinksFollowAges(l, d, b, S)
    BY <2>2 DEF Agree, LinksFollowAges
  <2> QED BY <1>3, <2>1, <2>3, <2>4 DEF Agree
<1>5. CASE n # l.head
  <2>1. a[k] > 0 /\ p \in S /\ a[d[p]] = a[k] - 1 /\ p # n
    BY <1>1, <1>5 DEF Agree, LinksFollowAges
  <2>2. l.head \in S /\ a[d[l.head]] = 0 /\ l.head # Null /\ p # Null
    BY <2>1, Ends, LruAssumption
  <2>3. /\ s # Null => s \in S /\ a[d[s]] = a[k] + 1 /\ s # n /\ s # p
        /\ s = Null <=> a[k] = l.size - 1
    BY <1>1, <2>1, LruAssumption DEF Agree, LinksFollowAges
  <2>4. /\ o.head = n
        /\ o.tail = IF s = Null THEN p ELSE l.tail
        /\ o.size = l.size
        /\ o.next = [[l.next EXCEPT ![p] = s] EXCEPT ![n] = l.head]
        /\ o.prev = [(IF s = Null THEN l.prev ELSE [l.prev EXCEPT ![s] = p])
                       EXCEPT ![l.head] = n, ![n] = Null]
        /\ o \in ListType
    BY <1>5, <2>1, <2>2, <2>3, LruAssumption DEF MoveFront, Remove, InsertFront, ListType, Pointer
  <2>5. AgesAreRanks(o, d, b, S)
    <3>1. ASSUME NEW j \in S PROVE b[d[j]] \in 0 .. o.size - 1
      <4>1. a[d[j]] < a[k] \/ a[d[j]] >= a[k]
        BY <1>1
      <4>2. (a[d[j]] + 1 <= a[k] /\ a[k] <= l.size - 1) \/ a[d[j]] >= a[k]
        BY <1>1
      <4> QED BY <1>1, <1>2, <2>4, <4>1, <4>2
    <3>2. \A i, j \in S : b[d[i]] = b[d[j]] => i = j
      BY <1>1, <1>2 DEF Agree, AgesAreRanks
    <3>3. ASSUME NEW i \in 0 .. o.size - 1 PROVE \E j \in S : b[d[j]] = i
      <4>1. CASE i = 0
        BY <1>2, <4>1
      <4>2. CASE i > 0 /\ i <= a[k]
        <5>1. PICK j \in S : a[d[j]] = i - 1
          BY <2>4, <4>2, i - 1 \in 0 .. l.size - 1 DEF Agree, AgesAreRanks, ListType
        <5> QED BY <1>1, <1>2, <4>2, <5>1
      <4>3. CASE i > a[k]
        <5>1. PICK j \in S : a[d[j]] = i
          BY <2>4 DEF Agree, AgesAreRanks
        <5> QED BY <1>1, <1>2, <4>3, <5>1
      <4> QED BY <1>1, <4>1, <4>2, <4>3, <2>4 DEF ListType
    <3> QED BY <3>1, <3>2, <3>3 DEF AgesAreRanks
  <2>6. LinksFollowAges(o, d, b, S)
    <3>1. o.head \in S \cup {Null} /\ o.tail \in S \cup {Null}
      BY <2>1, <2>4 DEF Agree, LinksFollowAges
    <3>2. ASSUME NEW j \in S PROVE o.head = j <=> b[d[j]] = 0
      BY <1>1, <1>2, <2>1, <2>4
    <3>3. ASSUME NEW j \in S PROVE o.tail = j <=> b[d[j]] = o.size - 1
      BY <1>1, <1>2, <2>1, <2>3, <2>4 DEF Agree, LinksFollowAges, AgesAreRanks, ListType
    <3>4. ASSUME NEW j \in S
          PROVE  IF b[d[j]] = 0 THEN o.prev[j] = Null
                 ELSE o.prev[j] \in S /\ b[d[o.prev[j]]] = b[d[j]] - 1
      <4>1. CASE j = n
        BY <1>2, <2>4, <4>1 DEF ListType
      <4>2. CASE j # n /\ j = l.head
        BY <1>1, <1>2, <2>1, <2>2, <2>4, <4>2 DEF ListType
      <4>3. CASE j # n /\ j # l.head /\ j = s
        BY <1>1, <1>2, <2>1, <2>2, <2>3, <2>4, <4>3, LruAssumption DEF ListType
      <4>4. CASE j # n /\ j # l.head /\ j # s
        <5>1. o.prev[j] = l.prev[j] /\ l.prev[j] \in S /\ a[d[l.prev[j]]] = a[d[j]] - 1
          BY <1>1, <2>4, <4>4 DEF Agree, LinksFollowAges, ListType
        <5>2. l.prev[j] # n
          BY <1>1, <2>3, <4>4, <5>1 DEF Agree, LinksFollowAges, AgesAreRanks
        <5>3. a[d[j]] # a[k]
          BY <4>4 DEF Agree, AgesAreRanks
        <5>4. a[d[j]] # a[k] + 1
          BY <1>1, <2>3, <4>4 DEF Agree, AgesAreRanks
        <5>5. a[d[j]] \in Int /\ a[k] \in Int /\ a[d[l.prev[j]]] \in Int
          BY <1>1, <5>1
        <5> QED BY <1>1, <1>2, <4>4, <5>1, <5>2, <5>3, <5>4, <5>5
      <4> QED BY <4>1, <4>2, <4>3, <4>4
    <3>5. ASSUME NEW j \in S
          PROVE  IF b[d[j]] = o.size - 1 THEN o.next[j] = Null
                 ELSE o.next[j] \in S /\ b[d[o.next[j]]] = b[d[j]] + 1
      <4>1. CASE j = n
        BY <1>1, <1>2, <2>1, <2>2, <2>4, <4>1 DEF ListType
      <4>2. CASE j # n /\ j = p
        BY <1>1, <1>2, <2>1, <2>3, <2>4, <4>2 DEF ListType
      <4>3. CASE j # n /\ j # p
        <5>1. o.next[j] = l.next[j]
          BY <2>4, <4>3 DEF ListType
        <5>2. a[d[j]] # a[k] /\ a[d[j]] # a[k] - 1
          BY <2>1, <4>3 DEF Agree, AgesAreRanks
        <5>3. CASE a[d[j]] = l.size - 1
          BY <1>1, <1>2, <2>4, <4>3, <5>1, <5>2, <5>3 DEF Agree, LinksFollowAges, ListType
        <5>4. CASE a[d[j]] # l.size - 1
          <6>1. l.next[j] \in S /\ a[d[l.next[j]]] = a[d[j]] + 1
            BY <5>4 DEF Agree, LinksFollowAges
          <6>2. l.next[j] # n
            BY <1>1, <5>2, <6>1
          <6> QED BY <1>1, <1>2, <2>4, <4>3, <5>1, <5>2, <5>4, <6>1, <6>2 DEF ListType
        <5> QED BY <5>3, <5>4
      <4> QED BY <4>1, <4>2, <4>3
    <3> QED BY <3>1, <3>2, <3>3, <3>4, <3>5 DEF LinksFollowAges
  <2> QED BY <1>3, <2>4, <2>5, <2>6 DEF Agree
<1> QED BY <1>4, <1>5

(* The last node of the list holds the oldest key, and leaves it.          *)
LEMMA Dropped ==
  ASSUME NEW l \in ListType, NEW d \in [Nodes -> Keys],
         NEW m \in [Keys -> Nodes \cup {Absent}], NEW a \in [Keys -> Int],
         NEW S \in SUBSET Nodes, Agree(l, d, m, a, S), l.tail # Null
  PROVE  LET k == d[l.tail]
         IN /\ RemoveBack(l) \in ListType
            /\ RemoveBack(l).size = l.size - 1
            /\ k \in Keys /\ a[k] = l.size - 1 /\ a[k] >= 0
            /\ \A j \in Keys : a[j] <= a[k]
            /\ Agree(RemoveBack(l), d, [m EXCEPT ![k] = Absent],
                     [a EXCEPT ![k] = Cache!NoAge], S \ {l.tail})
<1> DEFINE t == l.tail
           k == d[t]
           p == l.prev[t]
           o == RemoveBack(l)
           b == [a EXCEPT ![k] = Cache!NoAge]
           w == [m EXCEPT ![k] = Absent]
           R == S \ {t}
<1>1. /\ t \in S /\ t \in Nodes /\ k \in Keys
      /\ a[k] = l.size - 1 /\ a[k] >= 0 /\ a[k] \in Int /\ l.size \in Int
  <2>1. t \in S /\ a[k] = l.size - 1
    BY Ends
  <2>2. l.size # 0 /\ l.size >= 0
    BY <2>1, Ends DEF Agree
  <2> QED BY <2>1, <2>2 DEF ListType
<1>2. \A j \in S : d[j] \in Keys /\ a[d[j]] \in Int /\ a[d[j]] >= 0 /\ a[d[j]] <= l.size - 1
  BY <1>1 DEF Agree, AgesAreRanks
<1>3. \A j \in Keys : a[j] = -1 \/ a[j] <= a[k]
  <2> SUFFICES ASSUME NEW j \in Keys, a[j] # -1 PROVE a[j] <= a[k]
    OBVIOUS
  <2>1. m[j] \in S /\ d[m[j]] = j
    BY DEF Agree, MapAgrees, Cache!NoAge
  <2> QED BY <1>1, <1>2, <2>1
<1>4. /\ o.head = IF p = Null THEN Null ELSE l.head
      /\ o.tail = p
      /\ o.size = l.size - 1
      /\ o.next = IF p = Null THEN l.next ELSE [l.next EXCEPT ![p] = Null]
      /\ o.prev = l.prev
      /\ o \in ListType
  BY <1>1 DEF RemoveBack, ListType, Pointer
<1>5. \A j \in R : d[j] # k /\ b[d[j]] = a[d[j]] /\ a[d[j]] < l.size - 1
  <2> SUFFICES ASSUME NEW j \in R PROVE d[j] # k /\ b[d[j]] = a[d[j]] /\ a[d[j]] < l.size - 1
    OBVIOUS
  <2>1. a[d[j]] # l.size - 1
    BY <1>1 DEF Agree, LinksFollowAges
  <2> QED BY <1>1, <1>2, <2>1
<1>6. MapAgrees(d, w, b, R)
  <2>1. ASSUME NEW j \in Keys, w[j] # Absent PROVE w[j] \in R /\ d[w[j]] = j
    <3>1. j # k /\ w[j] = m[j]
      BY <1>1, <2>1
    <3> QED BY <2>1, <3>1 DEF Agree, MapAgrees
  <2>2. ASSUME NEW j \in R PROVE w[d[j]] = j
    BY <1>2, <1>5 DEF Agree, MapAgrees
  <2>3. ASSUME NEW j \in Keys PROVE w[j] = Absent <=> b[j] = Cache!NoAge
    BY <1>1 DEF Agree, MapAgrees
  <2> QED BY <2>1, <2>2, <2>3 DEF MapAgrees
<1>7. AgesAreRanks(o, d, b, R)
  <2>1. ASSUME NEW j \in R PROVE b[d[j]] \in 0 .. o.size - 1
    BY <1>1, <1>2, <1>4, <1>5
  <2>2. ASSUME NEW i \in R, NEW j \in R, b[d[i]] = b[d[j]] PROVE i = j
    BY <1>5, <2>2 DEF Agree, AgesAreRanks
  <2>3. ASSUME NEW i \in 0 .. o.size - 1 PROVE \E j \in R : b[d[j]] = i
    <3>1. i \in 0 .. l.size - 1 /\ i # l.size - 1
      BY <1>1, <1>4
    <3>2. PICK j \in S : a[d[j]] = i
      BY <3>1 DEF Agree, AgesAreRanks
    <3>3. j \in R
      BY <1>1, <3>1, <3>2
    <3> QED BY <1>5, <3>2, <3>3
  <2> QED BY <2>1, <2>2, <2>3 DEF AgesAreRanks
<1>8. LinksFollowAges(o, d, b, R)
  <2>1. /\ p = Null <=> a[k] = 0
        /\ p # Null => p \in R /\ a[d[p]] = l.size - 2
    <3>1. a[k] # 0 => p \in S /\ a[d[p]] = a[k] - 1
      BY <1>1 DEF Agree, LinksFollowAges
    <3>2. a[k] = 0 => p = Null
      BY <1>1 DEF Agree, LinksFollowAges
    <3> QED BY <1>1, <3>1, <3>2, LruAssumption
  <2>2. o.tail \in R \cup {Null}
    BY <1>4, <2>1
  <2>3. o.head \in R \cup {Null}
    BY <1>1, <1>4, <2>1, Ends
  <2>4. ASSUME NEW j \in R PROVE o.head = j <=> b[d[j]] = 0
    <3>1. a[k] # 0
      BY <1>1, <1>2, <1>5
    <3> QED BY <1>4, <1>5, <2>1, <3>1 DEF Agree, LinksFollowAges
  <2>5. ASSUME NEW j \in R PROVE o.tail = j <=> b[d[j]] = o.size - 1
    <3>1. a[k] # 0
      BY <1>1, <1>2, <1>5
    <3> QED BY <1>1, <1>2, <1>4, <1>5, <2>1, <3>1 DEF Agree, AgesAreRanks
  <2>6. ASSUME NEW j \in R
        PROVE  IF b[d[j]] = 0 THEN o.prev[j] = Null
               ELSE o.prev[j] \in R /\ b[d[o.prev[j]]] = b[d[j]] - 1
    <3>1. CASE a[d[j]] = 0
      BY <1>4, <1>5, <3>1 DEF Agree, LinksFollowAges
    <3>2. CASE a[d[j]] # 0
      <4>1. l.prev[j] \in S /\ a[d[l.prev[j]]] = a[d[j]] - 1
        BY <3>2 DEF Agree, LinksFollowAges
      <4>2. l.prev[j] # t
        BY <1>1, <1>2, <1>5, <4>1
      <4> QED BY <1>4, <1>5, <3>2, <4>1, <4>2
    <3> QED BY <3>1, <3>2
  <2>7. ASSUME NEW j \in R
        PROVE  IF b[d[j]] = o.size - 1 THEN o.next[j] = Null
               ELSE o.next[j] \in R /\ b[d[o.next[j]]] = b[d[j]] + 1
    <3>1. j \in Nodes /\ l.next[j] \in S /\ a[d[l.next[j]]] = a[d[j]] + 1
      BY <1>5 DEF Agree, LinksFollowAges
    <3>2. a[k] # 0
      BY <1>1, <1>2, <1>5
    <3>3. CASE j = p
      <4>1. p # Null /\ o.next[j] = Null
        BY <1>4, <3>1, <3>3, LruAssumption DEF ListType
      <4>2. b[d[j]] = o.size - 1
        BY <1>1, <1>4, <1>5, <2>1, <3>3, <4>1
      <4> QED BY <4>1, <4>2
    <3>4. CASE j # p
      <4>1. a[d[j]] # l.size - 2
        BY <2>1, <3>2, <3>4 DEF Agree, AgesAreRanks
      <4>2. o.next[j] = l.next[j]
        BY <1>4, <2>1, <3>1, <3>4 DEF ListType
      <4>3. l.next[j] # t
        BY <1>1, <1>2, <3>1, <4>1
      <4> QED BY <1>1, <1>2, <1>4, <1>5, <3>1, <4>1, <4>2, <4>3
    <3> QED BY <3>3, <3>4
  <2> QED BY <2>2, <2>3, <2>4, <2>5, <2>6, <2>7 DEF LinksFollowAges
<1>9. ASSUME NEW j \in Keys PROVE a[j] <= a[k]
  BY <1>1, <1>3
<1>10. o.size >= 0
  BY <1>1, <1>4
<1> QED BY <1>1, <1>4, <1>6, <1>7, <1>8, <1>9, <1>10 DEF Agree

(* A node that was not in use comes to the front with a new key.           *)
LEMMA Arrived ==
  ASSUME NEW l \in ListType, NEW d \in [Nodes -> Keys],
         NEW m \in [Keys -> Nodes \cup {Absent}], NEW a \in [Keys -> Int],
         NEW S \in SUBSET Nodes, Agree(l, d, m, a, S),
         NEW k \in Keys, m[k] = Absent, NEW n \in Nodes \ S
  PROVE  LET o == InsertFront(Fresh(l, n), n)
         IN /\ o \in ListType
            /\ o.size = l.size + 1
            /\ Agree(o, [d EXCEPT ![n] = k], [m EXCEPT ![k] = n], Cache!Used(a, k), S \cup {n})
<1> DEFINE f == Fresh(l, n)
           o == InsertFront(f, n)
           e == [d EXCEPT ![n] = k]
           w == [m EXCEPT ![k] = n]
           b == Cache!Used(a, k)
           R == S \cup {n}
<1>1. /\ \A j \in S : j \in Nodes /\ d[j] \in Keys /\ j # n /\ d[j] # k
      /\ \A j \in S : a[d[j]] \in Int /\ a[d[j]] >= 0 /\ a[d[j]] <= l.size - 1
      /\ l.size \in Int /\ l.size >= 0 /\ a[k] = -1
  BY LruAssumption DEF ListType, Agree, MapAgrees, AgesAreRanks, Cache!NoAge
<1>2. /\ b \in [Keys -> Int]
      /\ b[k] = 0
      /\ \A j \in S : b[d[j]] = a[d[j]] + 1
      /\ \A j \in Keys : j # k => (b[j] = -1 <=> a[j] = -1)
  <2>1. b = [j \in Keys |-> IF j = k THEN 0 ELSE IF a[j] # -1 THEN a[j] + 1 ELSE a[j]]
    BY <1>1 DEF Cache!Used, Cache!NoAge
  <2>2. b \in [Keys -> Int] /\ b[k] = 0
    BY <2>1
  <2>3. ASSUME NEW j \in S PROVE b[d[j]] = a[d[j]] + 1
    BY <1>1, <2>1
  <2>4. ASSUME NEW j \in Keys, j # k PROVE b[j] = -1 <=> a[j] = -1
    <3>1. a[j] # -1 => a[j] >= 0 /\ a[j] \in Int
      BY <1>1 DEF Agree, MapAgrees, Cache!NoAge
    <3> QED BY <2>1, <2>4, <3>1
  <2> QED BY <2>2, <2>3, <2>4
<1>3. e \in [Nodes -> Keys] /\ e[n] = k /\ (\A j \in S : e[j] = d[j])
  BY <1>1
<1>4. MapAgrees(e, w, b, R)
  <2>1. ASSUME NEW j \in Keys, w[j] # Absent PROVE w[j] \in R /\ e[w[j]] = j
    <3>1. CASE j = k
      BY <1>3, <3>1
    <3>2. CASE j # k
      <4>1. m[j] \in S /\ d[m[j]] = j /\ w[j] = m[j]
        BY <2>1, <3>2 DEF Agree, MapAgrees
      <4> QED BY <1>3, <4>1
    <3> QED BY <3>1, <3>2
  <2>2. ASSUME NEW j \in R PROVE w[e[j]] = j
    BY <1>1, <1>3 DEF Agree, MapAgrees
  <2>3. ASSUME NEW j \in Keys PROVE w[j] = Absent <=> b[j] = Cache!NoAge
    <3>1. CASE j = k
      BY <1>2, <3>1, LruAssumption DEF Cache!NoAge
    <3>2. CASE j # k
      BY <1>2, <3>2 DEF Agree, MapAgrees, Cache!NoAge
    <3> QED BY <3>1, <3>2
  <2> QED BY <2>1, <2>2, <2>3 DEF MapAgrees
<1>5. /\ f \in ListType
      /\ f.head = l.head /\ f.tail = l.tail /\ f.size = l.size
      /\ f.prev = [l.prev EXCEPT ![n] = Null]
      /\ f.next = [l.next EXCEPT ![n] = Null]
  BY DEF Fresh, ListType, Pointer
<1>6. /\ l.head # Null => l.head \in S /\ a[d[l.head]] = 0
      /\ l.head = Null <=> S = {}
      /\ l.size = 0 <=> S = {}
  BY Ends
<1>7. /\ o \in ListType
      /\ o.head = n
      /\ o.tail = IF l.head = Null THEN n ELSE l.tail
      /\ o.size = l.size + 1
      /\ o.next = [l.next EXCEPT ![n] = l.head]
      /\ l.head = Null => o.prev = [l.prev EXCEPT ![n] = Null]
      /\ l.head # Null => o.prev = [l.prev EXCEPT ![l.head] = n, ![n] = Null]
  <2>1. CASE l.head = Null
    <3>1. o = [f EXCEPT !.head = n, !.tail = n, !.size = f.size + 1]
      BY <1>5, <2>1 DEF InsertFront
    <3> HIDE DEF f, o
    <3>2. /\ o.head = n /\ o.tail = n /\ o.size = f.size + 1
          /\ o.next = f.next /\ o.prev = f.prev
      BY <1>5, <3>1 DEF ListType
    <3>3. o \in ListType
      <4>1. n \in Pointer /\ f.size + 1 \in Int
        BY <1>1, <1>5 DEF Pointer
      <4> QED BY <1>5, <3>1, <4>1 DEF ListType
    <3> QED BY <1>5, <2>1, <3>2, <3>3
  <2>2. CASE l.head # Null
    BY <1>1, <1>5, <1>6, <2>2 DEF InsertFront, ListType, Pointer
  <2> QED BY <2>1, <2>2
<1>8. AgesAreRanks(o, e, b, R)
  <2>1. ASSUME NEW j \in R PROVE b[e[j]] \in 0 .. o.size - 1
    BY <1>1, <1>2, <1>3, <1>7
  <2>2. ASSUME NEW i \in R, NEW j \in R, b[e[i]] = b[e[j]] PROVE i = j
    BY <1>1, <1>2, <1>3, <2>2 DEF Agree, AgesAreRanks
  <2>3. ASSUME NEW i \in 0 .. o.size - 1 PROVE \E j \in R : b[e[j]] = i
    <3>1. CASE i = 0
      BY <1>2, <1>3, <3>1
    <3>2. CASE i # 0
      <4>1. i - 1 \in 0 .. l.size - 1
        BY <1>1, <1>7, <3>2
      <4>2. PICK j \in S : a[d[j]] = i - 1
        BY <4>1 DEF Agree, AgesAreRanks
      <4> QED BY <1>1, <1>2, <1>3, <4>2
    <3> QED BY <3>1, <3>2
  <2> QED BY <2>1, <2>2, <2>3 DEF AgesAreRanks
<1>9. LinksFollowAges(o, e, b, R)
  <2>1. o.head \in R \cup {Null} /\ o.tail \in R \cup {Null}
    BY <1>7 DEF Agree, LinksFollowAges
  <2>2. ASSUME NEW j \in R PROVE o.head = j <=> b[e[j]] = 0
    BY <1>1, <1>2, <1>3, <1>7
  <2>3. ASSUME NEW j \in R PROVE o.tail = j <=> b[e[j]] = o.size - 1
    <3>1. CASE l.head = Null
      BY <1>2, <1>3, <1>6, <1>7, <3>1
    <3>2. CASE l.head # Null
      <4>1. o.tail = l.tail /\ o.size - 1 = l.size /\ l.size # 0
        BY <1>1, <1>6, <1>7, <3>2
      <4>2. CASE j = n
        BY <1>1, <1>2, <1>3, <4>1, <4>2, LruAssumption DEF Agree, LinksFollowAges
      <4>3. CASE j # n
        <5>1. j \in S /\ b[e[j]] = a[d[j]] + 1 /\ (l.tail = j <=> a[d[j]] = l.size - 1)
          BY <1>2, <1>3, <4>3 DEF Agree, LinksFollowAges
        <5> QED BY <1>1, <4>1, <5>1
      <4> QED BY <4>2, <4>3
    <3> QED BY <3>1, <3>2
  <2>4. ASSUME NEW j \in R
        PROVE  IF b[e[j]] = 0 THEN o.prev[j] = Null
               ELSE o.prev[j] \in R /\ b[e[o.prev[j]]] = b[e[j]] - 1
    <3>1. CASE j = n
      BY <1>2, <1>3, <1>6, <1>7, <3>1 DEF ListType
    <3>2. CASE j # n
      <4>1. j \in S /\ l.head # Null /\ b[e[j]] = a[d[j]] + 1 /\ b[e[j]] # 0
        BY <1>1, <1>2, <1>3, <1>6, <3>2
      <4>2. CASE j = l.head
        BY <1>1, <1>2, <1>3, <1>6, <1>7, <4>1, <4>2 DEF ListType
      <4>3. CASE j # l.head
        <5>1. l.prev[j] \in S /\ a[d[l.prev[j]]] = a[d[j]] - 1
          BY <4>1, <4>3 DEF Agree, LinksFollowAges
        <5>2. o.prev[j] = l.prev[j]
          BY <1>7, <3>2, <4>1, <4>3 DEF ListType
        <5> QED BY <1>1, <1>2, <1>3, <4>1, <5>1, <5>2
      <4> QED BY <4>2, <4>3
    <3> QED BY <3>1, <3>2
  <2>5. ASSUME NEW j \in R
        PROVE  IF b[e[j]] = o.size - 1 THEN o.next[j] = Null
               ELSE o.next[j] \in R /\ b[e[o.next[j]]] = b[e[j]] + 1
    <3>1. CASE j = n
      BY <1>1, <1>2, <1>3, <1>6, <1>7, <3>1 DEF ListType
    <3>2. CASE j # n
      <4>1. j \in S /\ b[e[j]] = a[d[j]] + 1 /\ o.next[j] = l.next[j]
        BY <1>1, <1>2, <1>3, <1>7, <3>2 DEF ListType
      <4>2. CASE a[d[j]] = l.size - 1
        BY <1>1, <1>7, <4>1, <4>2 DEF Agree, LinksFollowAges
      <4>3. CASE a[d[j]] # l.size - 1
        <5>1. l.next[j] \in S /\ a[d[l.next[j]]] = a[d[j]] + 1
          BY <4>1, <4>3 DEF Agree, LinksFollowAges
        <5> QED BY <1>1, <1>2, <1>3, <1>7, <4>1, <4>3, <5>1
      <4> QED BY <4>2, <4>3
    <3> QED BY <3>1, <3>2
  <2> QED BY <2>1, <2>2, <2>3, <2>4, <2>5 DEF LinksFollowAges
<1> QED BY <1>1, <1>4, <1>7, <1>8, <1>9 DEF Agree

-----------------------------------------------------------------------------

Ops == {"idle", "evict", "destroy", "destroyed", "undefined", "aborted"}

CallType == [op : Ops, current : Pointer, goal : Int]

Types ==
  /\ max \in Nat
  /\ list \in ListType
  /\ data \in [Nodes -> Keys]
  /\ map \in [Keys -> Nodes \cup {Absent}]
  /\ live \in SUBSET Nodes
  /\ age \in [Keys -> Int]
  /\ call \in CallType

(* While the destructor runs, the nodes of the map are what the list held, *)
(* and those from the current one on are still allocated.                  *)
Mapped == {n \in Nodes : map[data[n]] = n}

Destroying ==
  call.op = "destroy" =>
    /\ Agree(list, data, map, age, Mapped)
    /\ call.current \in Mapped \cup {Null}
    /\ live = {n \in Mapped : call.current # Null /\ age[data[n]] >= age[data[call.current]]}

(* An eviction has not gone past its goal.                                 *)
Evicting == call.op = "evict" => call.goal \in 0 .. list.size

IInv ==
  /\ Types
  /\ Recency
  /\ Destroying
  /\ Evicting
  /\ AssertHolds
  /\ DestroysAll

(* The set begins empty.                                                   *)
LEMMA InitIInv == HInit => IInv
<1> SUFFICES ASSUME HInit PROVE IInv
  OBVIOUS
<1>1. /\ list = Empty /\ live = {}
      /\ data = [n \in Nodes |-> CHOOSE k \in Keys : TRUE]
      /\ map = [k \in Keys |-> Absent]
      /\ age = [k \in Keys |-> -1]
      /\ max \in Nat
      /\ call = [op |-> "idle", current |-> Null, goal |-> 0]
  BY LruAssumption DEF HInit, Init, Idle, Running, Cache!NoAge
<1>2. Empty \in ListType /\ Empty.size = 0 /\ Empty.head = Null /\ Empty.tail = Null
  BY DEF Empty, ListType, Pointer
<1>3. (CHOOSE k \in Keys : TRUE) \in Keys
  BY LruAssumption
<1>4. Types
  <2>1. data \in [Nodes -> Keys]
    BY <1>1, <1>3
  <2>2. map \in [Keys -> Nodes \cup {Absent}]
    BY <1>1
  <2>3. age \in [Keys -> Int]
    BY <1>1
  <2>4. call \in CallType
    BY <1>1 DEF CallType, Ops, Pointer
  <2> QED BY <1>1, <1>2, <2>1, <2>2, <2>3, <2>4 DEF Types
<1>5. Agree(list, data, map, age, live)
  <2>1. 0 .. list.size - 1 = {}
    BY <1>1, <1>2
  <2>2. MapAgrees(data, map, age, live)
    BY <1>1 DEF MapAgrees, Cache!NoAge
  <2>3. AgesAreRanks(list, data, age, live)
    BY <1>1, <2>1 DEF AgesAreRanks
  <2>4. LinksFollowAges(list, data, age, live)
    BY <1>1, <1>2 DEF LinksFollowAges
  <2> QED BY <1>1, <1>2, <2>2, <2>3, <2>4 DEF Agree
<1>6. Recency
  BY <1>1, <1>2, <1>5 DEF Recency
<1> QED BY <1>1, <1>4, <1>6 DEF IInv, Destroying, Evicting, AssertHolds, DestroysAll

(* What a call that uses key k leaves of the ages of keys that are lost.   *)
LEMMA Forgotten ==
  ASSUME IInv, call = Idle, NEW x \in Keys, map' = [map EXCEPT ![x] = Absent]
  PROVE  Forget = [age EXCEPT ![x] = Cache!NoAge]
<1>1. \A k \in Keys : map[k] = Absent <=> age[k] = Cache!NoAge
  BY DEF IInv, Recency, Idle, Running, Agree, MapAgrees
<1> QED BY <1>1 DEF IInv, Types, Forget

(* insert and operator[] of a key that is in the set.                      *)
LEMMA TouchStep ==
  ASSUME IInv, NEW k \in Keys, UNCHANGED <<max, map, live, call, data>>,
         call = Idle, map[k] # Absent, list' = MoveFront(list, map[k]),
         age' = Cache!Used(Forget, k)
  PROVE  IInv' /\ Cache!Touch(k)
<1>0. /\ list \in ListType /\ data \in [Nodes -> Keys]
      /\ live \in SUBSET Nodes /\ age \in [Keys -> Int]
  BY DEF IInv, Types
<1>1. Agree(list, data, map, age, live) /\ list.size <= max
  BY DEF IInv, Recency, Idle, Running
<1>2. map[k] \in live /\ data[map[k]] = k
  BY <1>1 DEF Agree, MapAgrees
<1>3. Forget = age
  BY <1>1 DEF Forget, IInv, Types, Agree, MapAgrees
<1>4. /\ list' \in ListType
      /\ list'.size = list.size
      /\ Agree(list', data, map, age', live)
  BY <1>0, <1>1, <1>2, <1>3, Moved
<1>5. age' \in [Keys -> Int] /\ age[k] # Cache!NoAge
  <2>1. \A j \in Keys : age[j] \in Int /\ age[j] + 1 \in Int
    BY <1>0
  <2> QED BY <1>1, <1>3, <2>1 DEF Cache!Used, Agree, MapAgrees
<1>6. Types'
  BY <1>4, <1>5 DEF IInv, Types
<1>7. Recency'
  BY <1>1, <1>4 DEF Recency
<1>8. Cache!Touch(k)
  BY <1>3, <1>5 DEF Cache!Touch
<1> QED BY <1>6, <1>7, <1>8
        DEF IInv, Idle, Running, Destroying, Evicting, AssertHolds, DestroysAll

(* What the types and the invariant say while no destructor runs.          *)
LEMMA Usable ==
  ASSUME IInv, call.op \in {"idle", "evict"}
  PROVE  /\ list \in ListType /\ data \in [Nodes -> Keys]
         /\ map \in [Keys -> Nodes \cup {Absent}]
         /\ live \in SUBSET Nodes /\ age \in [Keys -> Int]
         /\ Agree(list, data, map, age, live)
         /\ list.size \in Int /\ list.size >= 0 /\ list.size <= max
         /\ max \in Nat
BY DEF IInv, Types, Recency, Agree, ListType

(* A set has as many keys as it may exactly when some key has the last     *)
(* age.                                                                    *)
LEMMA FullSet ==
  ASSUME IInv, call.op \in {"idle", "evict"}
  PROVE  Cache!Full <=> list.size >= max /\ list.size # 0
<1>1. ASSUME NEW k \in Keys, age[k] # Cache!NoAge
      PROVE  age[k] \in Int /\ age[k] <= list.size - 1 /\ list.size # 0
  <2>1. map[k] \in live /\ data[map[k]] = k
    BY <1>1, Usable DEF Agree, MapAgrees
  <2>2. age[k] \in 0 .. list.size - 1
    BY <2>1, Usable DEF Agree, AgesAreRanks
  <2> QED BY <2>2, Usable
<1>2. ASSUME list.size >= max, list.size # 0 PROVE Cache!Full
  <2>1. list.size - 1 \in 0 .. list.size - 1
    BY <1>2, Usable
  <2>2. PICK n \in live : age[data[n]] = list.size - 1
    BY <2>1, Usable DEF Agree, AgesAreRanks
  <2>3. data[n] \in Keys /\ age[data[n]] # Cache!NoAge
    BY <2>1, <2>2, Usable DEF Cache!NoAge
  <2>4. age[data[n]] + 1 >= max
    BY <1>2, <2>2, Usable
  <2> QED BY <2>3, <2>4 DEF Cache!Full
<1>3. ASSUME Cache!Full PROVE list.size >= max /\ list.size # 0
  <2>1. PICK k \in Keys : age[k] + 1 >= max /\ age[k] # Cache!NoAge
    BY <1>3 DEF Cache!Full
  <2> QED BY <1>1, <2>1, Usable
<1> QED BY <1>2, <1>3

(* insert of a new key while there is room.                                *)
LEMMA AddStep ==
  ASSUME IInv, NEW k \in Keys, InsertNew(k), age' = Cache!Used(Forget, k)
  PROVE  IInv' /\ Cache!Add(k)
<1>1. /\ call = Idle /\ call.op = "idle" /\ map[k] = Absent /\ list.size < max
      /\ UNCHANGED <<max, call>>
  BY LruAssumption DEF InsertNew, Find, Idle, Running, IInv, Types
<1>2. PICK n \in Nodes \ live :
        /\ live' = live \cup {n}
        /\ data' = [data EXCEPT ![n] = k]
        /\ list' = InsertFront(Fresh(list, n), n)
        /\ map' = [map EXCEPT ![k] = n]
  BY DEF InsertNew
<1>3. Forget = age
  <2>1. ASSUME NEW j \in Keys, map'[j] = Absent PROVE age[j] = Cache!NoAge
    <3>1. map[j] = Absent
      BY <1>1, <1>2, <2>1, Usable, LruAssumption
    <3> QED BY <1>1, <3>1, Usable DEF Agree, MapAgrees
  <2> QED BY <1>1, <2>1, Usable DEF Forget
<1>4. /\ list' \in ListType
      /\ list'.size = list.size + 1
      /\ Agree(list', data', map', age', live')
  <2>1. LET o == InsertFront(Fresh(list, n), n)
        IN /\ o \in ListType
           /\ o.size = list.size + 1
           /\ Agree(o, [data EXCEPT ![n] = k], [map EXCEPT ![k] = n],
                    Cache!Used(age, k), live \cup {n})
    BY <1>1, Usable, Arrived
  <2>2. age' = Cache!Used(age, k)
    BY <1>3
  <2> QED BY <1>2, <2>1, <2>2
<1>5. age[k] = Cache!NoAge /\ age' \in [Keys -> Int]
  <2>1. \A j \in Keys : age[j] + 1 \in Int
    BY <1>1, Usable
  <2> QED BY <1>1, <1>3, <2>1, Usable DEF Cache!Used, Agree, MapAgrees
<1>6. Types'
  <2>1. /\ live' \in SUBSET Nodes /\ data' \in [Nodes -> Keys]
        /\ map' \in [Keys -> Nodes \cup {Absent}]
    BY <1>1, <1>2, Usable
  <2> QED BY <1>1, <1>4, <1>5, <2>1 DEF IInv, Types
<1>7. Recency'
  BY <1>1, <1>4, Usable DEF Recency
<1>8. ~Cache!Full
  BY <1>1, FullSet, Usable
<1> QED BY <1>1, <1>3, <1>5, <1>6, <1>7, <1>8
        DEF IInv, Destroying, Evicting, AssertHolds, DestroysAll, Cache!Add

(* remove_back takes the oldest key away.                                  *)
LEMMA Oldest ==
  ASSUME IInv, call.op \in {"idle", "evict"}, list.tail # Null
  PROVE  LET o == data[list.tail]
         IN /\ o \in Keys
            /\ Cache!IsOldest(o)
            /\ RemoveBack(list) \in ListType
            /\ RemoveBack(list).size = list.size - 1
            /\ list.size > 0
            /\ list.tail \in live
            /\ Agree(RemoveBack(list), data, [map EXCEPT ![o] = Absent],
                     [age EXCEPT ![o] = Cache!NoAge], live \ {list.tail})
<1> DEFINE o == data[list.tail]
<1>1. /\ RemoveBack(list) \in ListType
      /\ RemoveBack(list).size = list.size - 1
      /\ o \in Keys /\ age[o] = list.size - 1 /\ age[o] >= 0
      /\ \A j \in Keys : age[j] <= age[o]
      /\ Agree(RemoveBack(list), data, [map EXCEPT ![o] = Absent],
               [age EXCEPT ![o] = Cache!NoAge], live \ {list.tail})
  BY Usable, Dropped
<1>2. list.tail \in live
  BY Usable, Ends
<1>3. list.size > 0
  BY <1>1, Usable
<1>4. Cache!IsOldest(o)
  BY <1>1 DEF Cache!IsOldest, Cache!NoAge
<1> QED BY <1>1, <1>2, <1>3, <1>4

(* insert of a new key into a full set.                                    *)
LEMMA ReplaceStep ==
  ASSUME IInv, NEW k \in Keys, InsertReplacing(k), age' = Cache!Used(Forget, k)
  PROVE  IInv' /\ Cache!Replace(k)
<1> DEFINE o == data[list.tail]
           l == RemoveBack(list)
           m == [map EXCEPT ![o] = Absent]
           a == [age EXCEPT ![o] = Cache!NoAge]
           S == live \ {list.tail}
<1>1. /\ call = Idle /\ call.op = "idle" /\ map[k] = Absent /\ list.size >= max
      /\ list.tail # Null
      /\ UNCHANGED <<max, call>>
  BY LruAssumption DEF InsertReplacing, Find, Idle, Running, IInv, Types
<1>2. PICK n \in Nodes \ S :
        /\ live' = S \cup {n}
        /\ data' = [data EXCEPT ![n] = k]
        /\ list' = InsertFront(Fresh(l, n), n)
        /\ map' = [map EXCEPT ![o] = Absent, ![k] = n]
  BY DEF InsertReplacing
<1>3. /\ o \in Keys
      /\ Cache!IsOldest(o)
      /\ l \in ListType
      /\ l.size = list.size - 1
      /\ list.size > 0
      /\ list.tail \in live
      /\ Agree(l, data, m, a, S)
  BY <1>1, Oldest
<1>4. age[k] = Cache!NoAge /\ a[k] = Cache!NoAge /\ m[k] = Absent
  BY <1>1, <1>3, Usable DEF Agree, MapAgrees
<1>5. /\ m \in [Keys -> Nodes \cup {Absent}] /\ a \in [Keys -> Int]
      /\ S \in SUBSET Nodes /\ data \in [Nodes -> Keys]
  BY <1>1, <1>3, Usable DEF Cache!NoAge
<1>6. map' = [m EXCEPT ![k] = n]
  BY <1>1, <1>2, <1>3, Usable
<1> HIDE DEF o, l, m, a, S
<1>7. Forget = a
  <2>1. ASSUME NEW j \in Keys
        PROVE  (IF map'[j] = Absent THEN Cache!NoAge ELSE age[j]) = a[j]
    <3>1. CASE j = k
      BY <1>4, <1>5, <1>6, <3>1
    <3>2. CASE j # k
      <4>1. map'[j] = m[j] /\ (m[j] = Absent <=> a[j] = Cache!NoAge)
        BY <1>3, <1>5, <1>6, <3>2 DEF Agree, MapAgrees
      <4>2. a[j] # Cache!NoAge => a[j] = age[j]
        BY <1>1, <1>3, Usable DEF a
      <4> QED BY <4>1, <4>2
    <3> QED BY <3>1, <3>2
  <2> QED BY <1>5, <2>1 DEF Forget
<1>8. LET i == InsertFront(Fresh(l, n), n)
      IN /\ i \in ListType
         /\ i.size = l.size + 1
         /\ Agree(i, [data EXCEPT ![n] = k], [m EXCEPT ![k] = n], Cache!Used(a, k), S \cup {n})
  BY <1>3, <1>4, <1>5, Arrived
<1>9. /\ list' \in ListType
      /\ list'.size = list.size
      /\ Agree(list', data', map', age', live')
  <2>1. age' = Cache!Used(a, k)
    BY <1>7
  <2>2. list.size \in Int /\ l.size + 1 = list.size
    BY <1>1, <1>3, Usable
  <2>3. list' \in ListType /\ list'.size = l.size + 1
    BY <1>2, <1>8
  <2>4. Agree(list', data', map', age', live')
    BY <1>2, <1>6, <1>8, <2>1
  <2> QED BY <2>2, <2>3, <2>4
<1>10. Types'
  <2>1. age' \in [Keys -> Int]
    <3>1. \A j \in Keys : a[j] + 1 \in Int
      BY <1>5
    <3> QED BY <1>4, <1>5, <1>7, <3>1 DEF Cache!Used
  <2>2. /\ live' \in SUBSET Nodes /\ data' \in [Nodes -> Keys]
        /\ map' \in [Keys -> Nodes \cup {Absent}]
    BY <1>2, <1>5, <1>6
  <2> QED BY <1>1, <1>9, <2>1, <2>2 DEF IInv, Types
<1>11. Recency'
  BY <1>1, <1>9, Usable DEF Recency
<1>12. Cache!Replace(k)
  <2>1. Cache!Full
    BY <1>1, <1>3, FullSet, Usable
  <2>2. age' = Cache!Used([age EXCEPT ![o] = Cache!NoAge], k)
    BY <1>7 DEF a
  <2> QED BY <1>3, <1>4, <2>1, <2>2 DEF Cache!Replace
<1> QED BY <1>1, <1>10, <1>11, <1>12
        DEF IInv, Destroying, Evicting, AssertHolds, DestroysAll

(* One turn of evict's loop. There is a last node: the goal is smaller     *)
(* than the size.                                                          *)
LEMMA LoseStep ==
  ASSUME IInv, Lose
  PROVE  IInv' /\ Cache!Drop
<1> DEFINE o == data[list.tail]
<1>1. /\ call.op = "evict" /\ list.size # call.goal
      /\ call.goal \in 0 .. list.size
      /\ max' = max /\ data' = data /\ age' = Forget
  BY DEF Lose, EvictOne, IInv, Evicting
<1>2. list.size > 0 /\ list.tail # Null
  BY <1>1, Usable, Ends
<1>3. /\ list' = RemoveBack(list)
      /\ map' = [map EXCEPT ![o] = Absent]
      /\ live' = live \ {list.tail}
      /\ call' = call
  BY <1>2 DEF Lose, EvictOne
<1>4. /\ o \in Keys
      /\ Cache!IsOldest(o)
      /\ RemoveBack(list) \in ListType
      /\ RemoveBack(list).size = list.size - 1
      /\ Agree(RemoveBack(list), data, [map EXCEPT ![o] = Absent],
               [age EXCEPT ![o] = Cache!NoAge], live \ {list.tail})
  BY <1>1, <1>2, Oldest
<1>5. Forget = [age EXCEPT ![o] = Cache!NoAge]
  <2> HIDE DEF o
  <2>1. \A j \in Keys : map[j] = Absent <=> age[j] = Cache!NoAge
    BY <1>1, Usable DEF Agree, MapAgrees
  <2> QED BY <1>1, <1>3, <1>4, <2>1, Usable DEF Forget
<1>6. Types'
  <2>1. /\ live' \in SUBSET Nodes /\ map' \in [Keys -> Nodes \cup {Absent}]
        /\ age' \in [Keys -> Int]
    BY <1>1, <1>3, <1>4, <1>5, Usable DEF Cache!NoAge
  <2> QED BY <1>1, <1>3, <1>4, <2>1 DEF IInv, Types
<1>7. Recency' /\ Evicting'
  <2>1. Agree(list', data', map', age', live') /\ list'.size = list.size - 1
    BY <1>1, <1>3, <1>4, <1>5
  <2>2. list'.size <= max' /\ call'.goal \in 0 .. list'.size
    BY <1>1, <1>2, <1>3, <2>1, Usable
  <2> QED BY <2>1, <2>2 DEF Recency, Evicting
<1>8. Cache!Drop
  BY <1>1, <1>4, <1>5 DEF Cache!Drop
<1> QED BY <1>1, <1>3, <1>6, <1>7, <1>8 DEF IInv, Destroying, AssertHolds, DestroysAll

(* Any call that uses a key.                                               *)
LEMMA UseStep ==
  ASSUME IInv, NEW k \in Keys, Use(k)
  PROVE  IInv' /\ (Cache!Touch(k) \/ Cache!Add(k) \/ Cache!Replace(k)) /\ max' = max
<1>1. age' = Cache!Used(Forget, k)
  BY DEF Use
<1>2. CASE InsertKnown(k)
  <2>1. call = Idle /\ call.op = "idle" /\ map[k] # Absent /\ Find(k) = map[k]
    BY <1>2 DEF InsertKnown, Find, Idle, Running
  <2>2. data[map[k]] = k
    BY <2>1, Usable DEF Agree, MapAgrees
  <2>3. data' = data
    BY <1>2, <2>1, <2>2, Usable DEF InsertKnown
  <2>4. list' = MoveFront(list, map[k]) /\ UNCHANGED <<max, map, live, call>>
    BY <1>2, <2>1 DEF InsertKnown
  <2> QED BY <1>1, <2>1, <2>3, <2>4, TouchStep
<1>3. CASE InsertNew(k)
  BY <1>1, <1>3, AddStep DEF InsertNew
<1>4. CASE InsertReplacing(k)
  BY <1>1, <1>4, ReplaceStep DEF InsertReplacing
<1>5. CASE At(k) /\ map[k] # Absent
  BY <1>1, <1>5, TouchStep DEF At
<1> QED BY <1>2, <1>3, <1>4, <1>5 DEF Use

(* The destructor begins: it has the whole list before it.                 *)
LEMMA DestroyStep ==
  ASSUME IInv, Destroy, age' = age
  PROVE  IInv'
<1>1. /\ call.op = "idle"
      /\ call' = [op |-> "destroy", current |-> list.head, goal |-> 0]
      /\ UNCHANGED <<max, list, data, map, live, age>>
  BY DEF Destroy, Idle, Running
<1>2. /\ Agree(list, data, map, age, live)
      /\ data \in [Nodes -> Keys] /\ live \in SUBSET Nodes
      /\ list.head # Null => list.head \in live /\ age[data[list.head]] = 0
      /\ list.head = Null <=> live = {}
  BY <1>1, Usable, Ends
<1>3. Mapped = live
  BY <1>2, LruAssumption DEF Mapped, Agree, MapAgrees
<1>4. \A n \in live : age[data[n]] >= 0
  BY <1>1, <1>2, Usable DEF Agree, AgesAreRanks
<1>5. Destroying'
  <2>1. Mapped' = live
    BY <1>1, <1>3 DEF Mapped
  <2>2. live = {n \in live : list.head # Null /\ age[data[n]] >= age[data[list.head]]}
    BY <1>2, <1>4
  <2>3. list.head \in live \cup {Null}
    BY <1>2
  <2> QED BY <1>1, <1>2, <2>1, <2>2, <2>3 DEF Destroying
<1>6. Types'
  <2>1. list.head \in Pointer
    BY <1>2 DEF Pointer
  <2>2. call' \in CallType
    BY <1>1, <2>1 DEF CallType, Ops
  <2> QED BY <1>1, <2>2 DEF IInv, Types
<1>7. DestroysAll'
  BY <1>1, <1>2 DEF DestroysAll
<1> QED BY <1>1, <1>5, <1>6, <1>7 DEF IInv, Recency, Evicting, AssertHolds

(* One turn of the destructor's loop: the nodes left are those behind the  *)
(* one it deletes.                                                         *)
LEMMA DestroyOneStep ==
  ASSUME IInv, DestroyOne, age' = age
  PROVE  IInv'
<1> DEFINE c == call.current
           s == list.next[c]
<1>1. /\ call.op = "destroy" /\ c # Null
      /\ call' = [call EXCEPT !.current = s]
      /\ live' = live \ {c}
      /\ UNCHANGED <<max, list, data, map, age>>
  BY DEF DestroyOne
<1>2. /\ Agree(list, data, map, age, Mapped)
      /\ c \in Mapped
      /\ live = {n \in Mapped : age[data[n]] >= age[data[c]]}
      /\ Mapped \subseteq Nodes
      /\ Types
  BY <1>1 DEF IInv, Destroying, Mapped
<1>3. /\ \A n \in Mapped : age[data[n]] \in Int /\ age[data[n]] <= list.size - 1
      /\ list.size \in Int
  <2>1. list.size \in Int
    BY <1>2 DEF Types, ListType
  <2>2. \A n \in Mapped : age[data[n]] \in 0 .. list.size - 1
    BY <1>2 DEF Agree, AgesAreRanks
  <2> QED BY <2>1, <2>2
<1>4. \A n \in Mapped : age[data[n]] = age[data[c]] => n = c
  BY <1>2 DEF Agree, AgesAreRanks
<1>5. /\ s \in Mapped \cup {Null}
      /\ live' = {n \in Mapped : s # Null /\ age[data[n]] >= age[data[s]]}
  <2>1. CASE age[data[c]] = list.size - 1
    <3>1. s = Null
      BY <1>2, <2>1 DEF Agree, LinksFollowAges
    <3>2. live = {c}
      BY <1>2, <1>3, <1>4, <2>1
    <3> QED BY <1>1, <3>1, <3>2
  <2>2. CASE age[data[c]] # list.size - 1
    <3>1. s \in Mapped /\ age[data[s]] = age[data[c]] + 1
      BY <1>2, <2>2 DEF Agree, LinksFollowAges
    <3>2. s # Null
      BY <1>2, <3>1, LruAssumption
    <3>3. \A n \in Mapped : n # c /\ age[data[n]] >= age[data[c]] <=> age[data[n]] >= age[data[s]]
      BY <1>2, <1>3, <1>4, <3>1
    <3> QED BY <1>1, <1>2, <3>1, <3>2, <3>3
  <2> QED BY <2>1, <2>2
<1>6. Types'
  <2>1. s \in Pointer
    BY <1>2, <1>5 DEF Pointer
  <2>2. call' \in CallType
    BY <1>1, <1>2, <2>1 DEF Types, CallType
  <2> QED BY <1>1, <1>2, <2>2 DEF Types
<1>7. Mapped' = Mapped
  BY <1>1 DEF Mapped
<1>8. call'.op = "destroy" /\ call'.current = s
  BY <1>1, <1>2 DEF Types, CallType
<1>9. Destroying'
  BY <1>1, <1>2, <1>5, <1>7, <1>8 DEF Destroying
<1>10. DestroysAll'
  <2>1. s # Null => s \in live'
    BY <1>3, <1>5
  <2> QED BY <1>8, <2>1 DEF DestroysAll
<1> QED BY <1>6, <1>8, <1>9, <1>10 DEF IInv, Recency, Evicting, AssertHolds

(* The steps that give no key and lose none.                               *)
LEMMA OtherStep ==
  ASSUME IInv, Other
  PROVE  IInv' /\ UNCHANGED <<age, max>>
<1>1. UNCHANGED <<age, max>>
  BY DEF Other, InsertAsserts, At, Evict, EvictDone, Destroy, DestroyOne, DestroyDone
<1>2. ASSUME NEW k \in Keys, InsertAsserts(k) PROVE IInv'
  <2>1. /\ call.op = "idle" /\ list.size >= max /\ list.tail = Null
        /\ call' = [op |-> "aborted", current |-> Null, goal |-> 0]
        /\ UNCHANGED <<max, list, data, map, live>>
    BY <1>2 DEF InsertAsserts, Idle, Over, Running
  <2>2. ~(max > 0)
    <3>1. list.size = 0
      BY <2>1, Usable, Ends
    <3>2. max \in Nat
      BY <2>1, Usable
    <3> QED BY <2>1, <3>1, <3>2
  <2>3. Types'
    <3>1. call' = [op |-> "aborted", current |-> Null, goal |-> 0]
      BY <2>1
    <3>2. call' \in CallType
      BY <3>1 DEF CallType, Ops, Pointer
    <3> QED BY <1>1, <2>1, <3>2 DEF IInv, Types
  <2> QED BY <2>1, <2>2, <2>3 DEF IInv, Recency, Destroying, Evicting, AssertHolds, DestroysAll
<1>3. ASSUME NEW k \in Keys, At(k), map[k] = Absent PROVE IInv'
  <2>1. /\ call' = [op |-> "undefined", current |-> Null, goal |-> 0]
        /\ UNCHANGED <<max, list, data, map, live>>
    BY <1>3 DEF At, Over, Running
  <2>2. Types'
    <3>1. call' \in CallType
      BY <2>1 DEF CallType, Ops, Pointer
    <3> QED BY <1>1, <2>1, <3>1 DEF IInv, Types
  <2> QED BY <2>1, <2>2 DEF IInv, Recency, Destroying, Evicting, AssertHolds, DestroysAll
<1>4. ASSUME NEW goal \in 0 .. list.size - 1, Evict(goal) PROVE IInv'
  <2>1. /\ call.op = "idle"
        /\ call' = [op |-> "evict", current |-> Null, goal |-> goal]
        /\ UNCHANGED <<max, list, data, map, live>>
    BY <1>4 DEF Evict, Idle, Running
  <2>2. Types'
    <3>1. call' \in CallType
      BY <1>4, <2>1 DEF CallType, Ops, Pointer
    <3> QED BY <1>1, <2>1, <3>1 DEF IInv, Types
  <2>3. Recency' /\ Evicting'
    BY <1>1, <2>1, Usable DEF IInv, Recency, Evicting
  <2> QED BY <2>1, <2>2, <2>3 DEF IInv, Destroying, AssertHolds, DestroysAll
<1>5. ASSUME EvictDone PROVE IInv'
  <2>1. /\ call.op = "evict"
        /\ call' = [op |-> "idle", current |-> Null, goal |-> 0]
        /\ UNCHANGED <<max, list, data, map, live>>
    BY <1>5 DEF EvictDone, Idle, Running
  <2>2. Types'
    <3>1. call' \in CallType
      BY <2>1 DEF CallType, Ops, Pointer
    <3> QED BY <1>1, <2>1, <3>1 DEF IInv, Types
  <2> QED BY <1>1, <2>1, <2>2 DEF IInv, Recency, Destroying, Evicting, AssertHolds, DestroysAll
<1>6. ASSUME DestroyDone PROVE IInv'
  <2>1. /\ call.op = "destroy" /\ call.current = Null
        /\ list' = [list EXCEPT !.size = 0]
        /\ call' = [op |-> "destroyed", current |-> Null, goal |-> 0]
        /\ UNCHANGED <<max, data, map, live>>
    BY <1>6 DEF DestroyDone, Over, Running
  <2>2. Types'
    <3>1. list \in ListType /\ 0 \in Int
      BY DEF IInv, Types
    <3>2. list' \in ListType
      BY <2>1, <3>1 DEF ListType
    <3>3. call' \in CallType
      BY <2>1 DEF CallType, Ops, Pointer
    <3> QED BY <1>1, <2>1, <3>2, <3>3 DEF IInv, Types
  <2>3. live = {}
    BY <2>1 DEF IInv, Destroying
  <2> QED BY <2>1, <2>2, <2>3 DEF IInv, Recency, Destroying, Evicting, AssertHolds, DestroysAll
<1> QED
  BY <1>1, <1>2, <1>3, <1>4, <1>5, <1>6, DestroyStep, DestroyOneStep DEF Other

(* Every step keeps the invariant, and is one of LruCache or a stutter.    *)
LEMMA StepIInv == IInv /\ [HNext]_hvars => IInv' /\ [Cache!Next]_<<age, max>>
<1> SUFFICES ASSUME IInv, [HNext]_hvars PROVE IInv' /\ [Cache!Next]_<<age, max>>
  OBVIOUS
<1>1. ASSUME NEW k \in Keys, Use(k) PROVE IInv' /\ Cache!Next
  BY <1>1, UseStep DEF Cache!Next
<1>2. ASSUME Lose PROVE IInv' /\ Cache!Next
  <2>1. max' = max
    BY <1>2 DEF Lose, EvictOne
  <2> QED BY <1>2, <2>1, LoseStep DEF Cache!Next
<1>3. CASE UNCHANGED hvars
  BY <1>3 DEF hvars, vars, IInv, Types, Recency, Destroying, Mapped, Evicting, AssertHolds,
              DestroysAll
<1> QED BY <1>1, <1>2, <1>3, OtherStep DEF HNext

-----------------------------------------------------------------------------

(* Between calls the list of lru_set.h is the recency of the calls so far, *)
(* and map, list and m_size speak of the same keys, m_max at most.         *)
THEOREM ListRecency == HSpec => []ListIsRecency
<1>1. IInv => ListIsRecency
  BY DEF IInv, ListIsRecency
<1> QED BY <1>1, InitIInv, StepIInv, PTL DEF HSpec

(* remove_back's assertion holds whenever m_max is not 0, and the          *)
(* destructor deletes every node once.                                     *)
THEOREM NodesReleased == HSpec => [](AssertHolds /\ DestroysAll)
<1>1. IInv => AssertHolds /\ DestroysAll
  BY DEF IInv
<1> QED BY <1>1, InitIInv, StepIInv, PTL DEF HSpec

(* lru_set.h implements LruCache: only the oldest key ever leaves, and     *)
(* only when the set is full or evict asks for it.                         *)
THEOREM Implementation == HSpec => LeastRecentlyUsed
<1>1. HInit => Cache!Init
  BY LruAssumption DEF HInit, Init, Cache!Init
<1> QED BY <1>1, InitIInv, StepIInv, PTL DEF HSpec, LeastRecentlyUsed, Cache!Spec, Cache!vars

(* Every change of the ages is a step of LruCache.                         *)
THEOREM OnlyOldestLeaves == HSpec => OldestLeaves
<1>1. [Cache!Next]_<<age, max>> => [RanOut' \/ Cache!Next]_age
  OBVIOUS
<1> QED BY <1>1, InitIInv, StepIInv, PTL DEF HSpec, OldestLeaves

-----------------------------------------------------------------------------
(* The pool of the cache-friendly header.                                  *)

(* No two keys lead to one node.                                           *)
OneOwner == \A j, k \in Keys : map[j] = map[k] /\ map[j] \in Nodes => j = k

(* A node in use is a slot that has bits, all of them set, and none in     *)
(* common with another node in use.                                        *)
Marked ==
  /\ bits \in [Words -> SUBSET (0 .. WordBits - 1)]
  /\ \A n \in live : n \in Slots /\ Mask(n) # {} /\ Mask(n) \subseteq bits[Index(n)]
  /\ \A m, n \in live : Index(m) = Index(n) /\ m # n => Mask(m) \cap Mask(n) = {}

(* The bitmap that malloc left had no clear bit when the first key came:   *)
(* the map leads to null pointers, and the list stays empty.               *)
Exhausted ==
  /\ list.head = Null
  /\ list.tail = Null
  /\ live = {}
  /\ map \in [Keys -> {Null, Absent}]
  /\ RanOut
  /\ \A i \in Slots : NodeTest(i)
  /\ call.op = "destroy" => call.current = Null

PInv ==
  /\ OneOwner
  /\ max \in Capacities
  /\ ~pooled => IInv
  /\ pooled => /\ Marked
               /\ IInv \/ Exhausted
               /\ call.op # "evict"

(* The word of a slot is one of the pool's.                                *)
LEMMA SlotsHaveWords ==
  ASSUME max \in Nat, NEW i \in Slots
  PROVE  Index(i) \in Words
<1>1. /\ WordBits \in Nat /\ WordBits > 0 /\ i \in Nat /\ i < max
  BY PoolAssumption DEF Slots
<1>2. Index(i) \in Nat /\ Index(max) \in Nat /\ Index(i) <= Index(max)
  BY <1>1 DEF Index
<1> QED BY <1>2 DEF Words

(* While SlotsHaveBits, they do.                                           *)
LEMMA MaskNotEmpty ==
  ASSUME max \in Nat, pooled, SlotsHaveBits, NEW i \in Slots
  PROVE  Mask(i) # {} /\ Mask(i) \subseteq 0 .. WordBits - 1
<1>1. /\ WordBits \in Nat /\ IntBits \in Nat /\ IntBits > 0 /\ IntBits <= WordBits
      /\ i \in Nat /\ i < max /\ (wraps \/ max <= IntBits)
  BY PoolAssumption DEF Slots, SlotsHaveBits
<1>2. PICK o \in Nat : Mask(i) = Shifted(o) /\ o < IntBits
  <2>1. CASE wraps
    <3>1. Offset(i) \in Nat
      BY <1>1 DEF Offset
    <3>2. Offset(i) % IntBits \in Nat /\ Offset(i) % IntBits < IntBits
      BY <1>1, <3>1
    <3> QED BY <2>1, <3>2 DEF Mask
  <2>2. CASE ~wraps
    <3>1. i < WordBits
      BY <1>1, <2>2
    <3>2. Offset(i) = i
      BY <1>1, <3>1 DEF Offset
    <3> QED BY <1>1, <2>2, <3>2 DEF Mask
  <2> QED BY <2>1, <2>2
<1>3. o < IntBits - 1 => Mask(i) = {o}
  BY <1>2 DEF Shifted
<1>4. o = IntBits - 1 => Mask(i) = o .. WordBits - 1 /\ o \in o .. WordBits - 1
  BY <1>1, <1>2 DEF Shifted
<1>5. o < IntBits - 1 \/ o = IntBits - 1
  BY <1>1, <1>2
<1>6. {o} \subseteq 0 .. WordBits - 1 /\ o .. WordBits - 1 \subseteq 0 .. WordBits - 1
  BY <1>1, <1>2
<1> QED BY <1>3, <1>4, <1>5, <1>6

(* A step that leaves the bitmap alone and adds no node.                   *)
LEMMA MarkedStays ==
  ASSUME Marked, live' \subseteq live, UNCHANGED <<max, bits, wraps>>
  PROVE  Marked'
<1>1. Slots' = Slots /\ Words' = Words /\ \A n : Mask(n)' = Mask(n)
  BY DEF Slots, Words, Mask
<1> QED BY <1>1 DEF Marked

LEMMA TestsStay ==
  ASSUME \A i \in Slots : NodeTest(i), UNCHANGED <<max, bits, wraps>>
  PROVE  \A i \in Slots' : NodeTest(i)'
BY DEF Slots, NodeTest, Mask

(* Marking a slot that tests as clear: it was not in use, and has no bit   *)
(* in common with those that are.                                          *)
LEMMA MarkStep ==
  ASSUME Marked, max \in Nat, pooled, SlotsHaveBits,
         NEW x \in Slots, ~NodeTest(x)
  PROVE  /\ x \notin live
         /\ bits' = NodeMark(x) /\ live' = live \cup {x} /\ UNCHANGED <<max, wraps>>
              => Marked'
<1>1. Mask(x) # {} /\ Mask(x) \subseteq 0 .. WordBits - 1 /\ Index(x) \in Words
  BY MaskNotEmpty, SlotsHaveWords
<1>2. \A n \in live : Index(n) = Index(x) => Mask(n) \cap Mask(x) = {}
  BY DEF Marked, NodeTest
<1>3. x \notin live
  BY <1>1, <1>2 DEF Marked
<1>4. ASSUME bits' = NodeMark(x), live' = live \cup {x}, UNCHANGED <<max, wraps>>
      PROVE  Marked'
  <2>1. Slots' = Slots /\ Words' = Words /\ \A n : Mask(n)' = Mask(n)
    BY <1>4 DEF Slots, Words, Mask
  <2>2. bits' = [bits EXCEPT ![Index(x)] = @ \cup Mask(x)]
    BY <1>4 DEF NodeMark
  <2>3. bits' \in [Words -> SUBSET (0 .. WordBits - 1)]
    BY <1>1, <2>2 DEF Marked
  <2>4. \A w \in Words : bits[w] \subseteq bits'[w]
    BY <1>1, <2>2 DEF Marked
  <2>5. \A n \in live : Mask(n) \subseteq bits'[Index(n)]
    BY <2>4, SlotsHaveWords DEF Marked
  <2>6. Mask(x) \subseteq bits'[Index(x)]
    BY <1>1, <2>2 DEF Marked
  <2>7. \A n \in live' : n \in Slots /\ Mask(n) # {} /\ Mask(n) \subseteq bits'[Index(n)]
    BY <1>1, <1>4, <2>5, <2>6 DEF Marked
  <2>8. \A m, n \in live' : Index(m) = Index(n) /\ m # n => Mask(m) \cap Mask(n) = {}
    BY <1>2, <1>4 DEF Marked
  <2> QED BY <2>1, <2>3, <2>7, <2>8 DEF Marked
<1> QED BY <1>3, <1>4

(* Clearing a slot in use leaves the others' bits.                         *)
LEMMA ClearStep ==
  ASSUME Marked, max \in Nat, NEW x \in live,
         bits' = NodeClear(x), live' = live \ {x}, UNCHANGED <<max, wraps>>
  PROVE  Marked'
<1>1. Slots' = Slots /\ Words' = Words /\ \A n : Mask(n)' = Mask(n)
  BY DEF Slots, Words, Mask
<1>2. bits' = [bits EXCEPT ![Index(x)] = @ \ Mask(x)]
  BY DEF NodeClear
<1>3. bits' \in [Words -> SUBSET (0 .. WordBits - 1)]
  BY <1>2 DEF Marked
<1>4. ASSUME NEW n \in live' PROVE Mask(n) \subseteq bits'[Index(n)]
  <2>1. n \in Slots /\ Mask(n) \subseteq bits[Index(n)] /\ Index(n) \in Words
    BY SlotsHaveWords DEF Marked
  <2>2. Index(n) = Index(x) => Mask(n) \cap Mask(x) = {}
    BY DEF Marked
  <2> QED BY <1>2, <2>1, <2>2 DEF Marked
<1> QED BY <1>1, <1>3, <1>4 DEF Marked

(* nodeNext finds a slot that tests as clear when there is one.            *)
LEMMA FirstClear ==
  ASSUME max \in Nat, NEW x \in Slots, ~NodeTest(x)
  PROVE  NodeNext \in Slots /\ ~NodeTest(NodeNext)
<1> DEFINE U == {m \in 0 .. x : \A j \in 0 .. m - 1 : NodeTest(j)}
<1>1. ASSUME \A i \in Slots : ~NodeTest(i) => \E j \in 0 .. i - 1 : ~NodeTest(j)
      PROVE  FALSE
  <2>1. x \in Nat /\ 0 \in U /\ U \subseteq 0 .. x
    BY DEF Slots
  <2>2. ASSUME NEW m \in U PROVE m + 1 \in U \ {0}
    <3>1. m \in Slots /\ m \in Nat /\ \A j \in 0 .. m - 1 : NodeTest(j)
      BY <2>1 DEF Slots
    <3>2. NodeTest(m)
      BY <1>1, <3>1
    <3>3. m # x
      BY <3>2
    <3>4. \A j \in 0 .. (m + 1) - 1 : j \in 0 .. m - 1 \/ j = m
      BY <3>1
    <3>5. \A j \in 0 .. (m + 1) - 1 : NodeTest(j)
      BY <3>1, <3>2, <3>4
    <3>6. m + 1 \in 0 .. x /\ m + 1 # 0
      BY <2>1, <3>1, <3>3
    <3> QED BY <3>5, <3>6
  <2> HIDE DEF U
  <2>3. IsFiniteSet(U)
    <3>1. IsFiniteSet(0 .. x)
      BY <2>1, FS_Interval
    <3> QED BY <2>1, <3>1, FS_Subset
  <2>4. [m \in U |-> m + 1] \in Injection(U, U \ {0})
    <3>1. \A m, n \in U : m + 1 = n + 1 => m = n
      BY <2>1
    <3> QED BY <2>2, <3>1 DEF Injection, IsInjective
  <2>5. IsFiniteSet(U \ {0}) /\ Cardinality(U \ {0}) = Cardinality(U) - 1
    BY <2>1, <2>3, FS_RemoveElement
  <2>6. Cardinality(U) <= Cardinality(U \ {0})
    BY <2>4, <2>5, FS_Injection
  <2> QED BY <2>3, <2>5, <2>6, FS_CardinalityType
<1>2. \E i \in Slots : ~NodeTest(i) /\ \A j \in 0 .. i - 1 : NodeTest(j)
  BY <1>1
<1> QED BY <1>2 DEF NodeNext

(* While list and map agree, the map has no null pointer and no two keys   *)
(* lead to one node.                                                       *)
LEMMA Injective ==
  ASSUME IInv, call.op \in {"idle", "evict", "destroy"}
  PROVE  OneOwner
<1>1. PICK S : Agree(list, data, map, age, S)
  BY DEF IInv, Recency, Destroying
<1>2. ASSUME NEW j \in Keys, NEW k \in Keys, map[j] = map[k], map[j] \in Nodes
      PROVE  j = k
  <2>1. map[j] # Absent
    BY <1>2, LruAssumption
  <2>2. data[map[j]] = j /\ data[map[k]] = k
    BY <1>1, <1>2, <2>1 DEF Agree, MapAgrees
  <2> QED BY <1>2, <2>2
<1> QED BY <1>2 DEF OneOwner

LEMMA NotExhausted ==
  ASSUME IInv
  PROVE  ~RanOut
BY LruAssumption DEF IInv, Types, RanOut

(* A call that ends the object in any way but the destructor's.            *)
LEMMA OverStep ==
  ASSUME IInv, NEW end \in {"undefined", "aborted"}, call' = Over(end),
         end = "aborted" => max = 0,
         UNCHANGED <<max, list, data, map, live, age>>
  PROVE  IInv'
<1>1. call' = [op |-> end, current |-> Null, goal |-> 0]
  BY DEF Over, Running
<1>2. call' \in CallType
  BY <1>1 DEF CallType, Ops, Pointer
<1>3. Types'
  BY <1>2 DEF IInv, Types
<1>4. max \in Nat
  BY DEF IInv, Types
<1> QED BY <1>1, <1>3, <1>4
        DEF IInv, Recency, Destroying, Evicting, AssertHolds, DestroysAll

(* remove_back of the pool: the oldest key leaves, then a place of the     *)
(* pool is deleted.                                                        *)
LEMMA PoolRemoveBackStep ==
  ASSUME IInv, call = Idle, PoolRemoveBack, age' = Forget,
         list.size > 0 \/ list.size >= max
  PROVE  IInv' /\ [Cache!Next]_<<age, max>>
<1> DEFINE o == data[list.tail]
<1>1. call.op = "idle" /\ max' = max /\ data' = data
  BY DEF PoolRemoveBack, Idle, Running
<1>2. CASE list.tail = Null
  <2>1. UNCHANGED <<max, list, data, map, live>> /\ call' = Over("aborted")
    BY <1>2 DEF PoolRemoveBack
  <2>2. max = 0
    <3>1. list.size = 0
      BY <1>1, <1>2, Usable, Ends
    <3> QED BY <1>1, <3>1, Usable
  <2>3. age' = age
    BY <1>1, <2>1, Usable DEF Forget, Agree, MapAgrees
  <2> QED BY <2>1, <2>2, <2>3, OverStep
<1>3. CASE list.tail # Null
  <2>1. /\ list' = RemoveBack(list)
        /\ map' = [map EXCEPT ![o] = Absent]
        /\ live' = live \ {list.tail}
        /\ call' = [op |-> "undefined", current |-> Null, goal |-> 0]
    BY <1>3 DEF PoolRemoveBack, Over, Running
  <2>2. /\ o \in Keys
        /\ Cache!IsOldest(o)
        /\ RemoveBack(list) \in ListType
    BY <1>1, <1>3, Oldest
  <2>3. age' = [age EXCEPT ![o] = Cache!NoAge]
    BY <2>1, <2>2, Forgotten
  <2>4. Types'
    <3>1. call' \in CallType
      BY <2>1 DEF CallType, Ops, Pointer
    <3>2. /\ live' \in SUBSET Nodes /\ map' \in [Keys -> Nodes \cup {Absent}]
          /\ age' \in [Keys -> Int]
      BY <1>1, <2>1, <2>2, <2>3, Usable DEF Cache!NoAge
    <3> QED BY <1>1, <2>1, <2>2, <3>1, <3>2 DEF IInv, Types
  <2>5. Cache!Next
    BY <1>1, <2>2, <2>3 DEF Cache!Next, Cache!Drop
  <2> QED BY <1>1, <2>1, <2>4, <2>5
          DEF IInv, Recency, Destroying, Evicting, AssertHolds, DestroysAll
<1> QED BY <1>2, <1>3

(* A call that uses a key, while the pool has not run out.                 *)
LEMMA PoolUseStep ==
  ASSUME PInv, IInv, pooled, SlotsHaveBits, wraps' = wraps, NEW k \in Keys, PoolUse(k)
  PROVE  /\ IInv' \/ Exhausted'
         /\ OneOwner' /\ Marked' /\ max' = max /\ call'.op # "evict"
         /\ RanOut' \/ [Cache!Next]_<<age, max>>
<1>1. /\ call = Idle /\ call.op = "idle"
      /\ max' = max /\ max \in Capacities /\ max \in Nat
  BY DEF PoolUse, PoolInsertKnown, PoolInsertNew, PoolAt, Idle, Running, PInv, IInv, Types
<1>2. Marked /\ Slots \subseteq Nodes /\ Slots' = Slots
  BY <1>1, PoolAssumption DEF PInv, Slots
<1>3. ASSUME map[k] # Absent, list' = MoveFront(list, map[k]), age' = Cache!Used(Forget, k),
             UNCHANGED <<map, live, call, data, bits>>
      PROVE  IInv' /\ OneOwner' /\ Marked' /\ [Cache!Next]_<<age, max>>
  <2>1. IInv' /\ Cache!Touch(k)
    BY <1>1, <1>3, TouchStep
  <2>2. Marked'
    BY <1>1, <1>2, <1>3, MarkedStays
  <2> QED BY <1>1, <1>3, <2>1, <2>2 DEF PInv, OneOwner, Cache!Next
<1>4. CASE PoolInsertKnown(k)
  <2>1. map[k] # Absent /\ Find(k) = map[k]
    BY <1>4 DEF PoolInsertKnown, Find
  <2>2. data[map[k]] = k
    BY <1>1, <2>1, Usable DEF Agree, MapAgrees
  <2>3. data' = data
    BY <1>1, <1>4, <2>1, <2>2, Usable DEF PoolInsertKnown
  <2>4. /\ list' = MoveFront(list, map[k]) /\ age' = Cache!Used(Forget, k)
        /\ UNCHANGED <<map, live, call, bits>>
    BY <1>1, <1>4, <2>1 DEF PoolInsertKnown, PoolMoveFront, PoolUse
  <2> QED BY <1>1, <1>3, <2>1, <2>3, <2>4
<1>5. CASE PoolAt(k) /\ Find(k) # Null
  <2>1. map[k] # Absent /\ Find(k) = map[k]
    BY <1>5 DEF Find
  <2>2. /\ list' = MoveFront(list, map[k]) /\ age' = Cache!Used(Forget, k)
        /\ UNCHANGED <<map, live, call, data, bits>>
    BY <1>1, <1>5, <2>1 DEF PoolAt, PoolMoveFront, PoolUse
  <2> QED BY <1>1, <1>3, <2>1, <2>2
<1>6. CASE PoolInsertNew(k)
  <2>1. map[k] = Absent
    BY <1>1, <1>6, Usable, LruAssumption DEF PoolInsertNew, Find
  <2>2. CASE NodeNext = Null /\ list.head # Null
    <3>1. call' = Over("undefined") /\ UNCHANGED <<list, data, map, live, bits>>
      BY <1>6, <2>2 DEF PoolInsertNew
    <3>2. call'.op = "undefined"
      BY <3>1 DEF Over, Running
    <3>3. age' = age
      BY <3>2 DEF PoolUse
    <3>4. IInv'
      BY <1>1, <3>1, <3>3, OverStep
    <3>5. Marked'
      BY <1>1, <1>2, <3>1, MarkedStays
    <3> QED BY <1>1, <3>1, <3>2, <3>3, <3>4, <3>5 DEF PInv, OneOwner
  <2>3. CASE NodeNext = Null /\ list.head = Null
    <3>1. /\ list' = [list EXCEPT !.size = @ + 1]
          /\ map' = [map EXCEPT ![k] = Null]
          /\ UNCHANGED <<data, live, bits, call>>
      BY <1>6, <2>1, <2>3 DEF PoolInsertNew, PoolInsertFront, MapInsert
    <3>2. live = {} /\ list.tail = Null
      BY <1>1, <2>3, Usable, Ends
    <3>3. \A j \in Keys : map[j] = Absent
      BY <1>1, <3>2, Usable DEF Agree, MapAgrees
    <3>4. list'.head = Null /\ list'.tail = Null
      BY <1>1, <2>3, <3>1, <3>2, Usable DEF ListType
    <3>5. map' \in [Keys -> {Null, Absent}] /\ map'[k] = Null
      BY <1>1, <3>1, <3>3, Usable
    <3>6. \A i \in Slots' : NodeTest(i)'
      <4>1. \A i \in Slots : NodeTest(i)
        BY <1>1, <1>2, <2>3, FirstClear, LruAssumption
      <4> QED BY <1>1, <3>1, <4>1, TestsStay
    <3>7. RanOut' /\ Exhausted'
      BY <1>1, <3>1, <3>2, <3>4, <3>5, <3>6 DEF Exhausted, RanOut
    <3>8. OneOwner'
      BY <3>5, LruAssumption DEF OneOwner
    <3>9. Marked'
      BY <1>1, <1>2, <3>1, MarkedStays
    <3> QED BY <1>1, <3>1, <3>7, <3>8, <3>9
  <2>4. CASE NodeNext # Null
    <3> DEFINE n == NodeNext
    <3>1. \E i \in Slots : ~NodeTest(i)
      BY <2>4 DEF NodeNext
    <3>2. n \in Slots /\ ~NodeTest(n)
      BY <1>1, <3>1, FirstClear
    <3>3. n \in Nodes \ live
      BY <1>1, <1>2, <3>2, MarkStep
    <3> HIDE DEF n
    <3>4. /\ list' = InsertFront(Fresh(list, n), n)
          /\ map' = [map EXCEPT ![k] = n]
          /\ data' = [data EXCEPT ![n] = k]
          /\ live' = live \cup {n}
          /\ bits' = NodeMark(n)
          /\ call' = call
      BY <1>6, <2>1, <2>4 DEF PoolInsertNew, PoolInsertFront, MapInsert, n
    <3>5. InsertNew(k)
      BY <1>1, <1>6, <3>3, <3>4 DEF InsertNew, PoolInsertNew
    <3>6. age' = Cache!Used(Forget, k)
      BY <1>1, <3>4 DEF PoolUse
    <3>7. IInv' /\ Cache!Add(k)
      BY <3>5, <3>6, AddStep
    <3>8. OneOwner'
      <4>1. OneOwner' <=> \A i, j \in Keys : map'[i] = map'[j] /\ map'[i] \in Nodes => i = j
        BY DEF OneOwner
      <4>2. ASSUME NEW i \in Keys, map[i] = n PROVE FALSE
        <5>1. map[i] # Absent
          BY <3>3, <4>2, LruAssumption
        <5>2. map[i] \in live
          BY <1>1, <5>1, Usable DEF Agree, MapAgrees
        <5> QED BY <3>3, <4>2, <5>2
      <4>3. map \in [Keys -> Nodes \cup {Absent}]
        BY <1>1, Usable
      <4> QED BY <3>4, <4>1, <4>2, <4>3 DEF PInv, OneOwner
    <3>9. Marked'
      BY <1>1, <1>2, <3>2, <3>4, MarkStep
    <3>10. Cache!Next
      BY <1>1, <3>7 DEF Cache!Next
    <3> QED BY <1>1, <3>4, <3>7, <3>8, <3>9, <3>10
  <2> QED BY <2>2, <2>3, <2>4
<1> QED BY <1>4, <1>5, <1>6 DEF PoolUse

(* The other calls, while the pool has not run out.                        *)
LEMMA PoolOtherStep ==
  ASSUME PInv, IInv, pooled, wraps' = wraps, PoolOther
  PROVE  /\ IInv' /\ OneOwner' /\ Marked' /\ max' = max /\ call'.op # "evict"
         /\ [Cache!Next]_<<age, max>>
<1>1. /\ max' = max /\ max \in Capacities
      /\ Marked /\ Slots' = Slots /\ OneOwner
      /\ call.op # "evict"
  BY DEF PInv, Slots, PoolOther, PoolEvict, PoolInsertFull, PoolRemoveBack, PoolAt,
         Destroy, DestroyDone, PoolDestroyOne
<1>2. ASSUME call = Idle, PoolRemoveBack, age' = Forget,
             list.size > 0 \/ list.size >= max
      PROVE  /\ IInv' /\ OneOwner' /\ Marked' /\ call'.op # "evict"
             /\ [Cache!Next]_<<age, max>>
  <2>1. IInv' /\ [Cache!Next]_<<age, max>>
    BY <1>2, PoolRemoveBackStep
  <2>2. bits' = bits /\ live' \subseteq live /\ call'.op # "evict"
    BY <1>2 DEF PoolRemoveBack, Over, Running
  <2>3. \A j \in Keys : map'[j] = map[j] \/ map'[j] = Absent
    <3>1. map \in [Keys -> Nodes \cup {Absent}]
      BY DEF IInv, Types
    <3> QED BY <1>2, <3>1 DEF PoolRemoveBack
  <2>4. OneOwner'
    BY <1>1, <2>3, LruAssumption DEF OneOwner
  <2>5. Marked'
    BY <1>1, <2>2, MarkedStays
  <2> QED BY <2>1, <2>2, <2>4, <2>5
<1>3. ASSUME PoolEvict /\ age' = Forget
      PROVE  /\ IInv' /\ OneOwner' /\ Marked' /\ call'.op # "evict"
             /\ [Cache!Next]_<<age, max>>
  BY <1>2, <1>3 DEF PoolEvict
<1>4. ASSUME NEW k \in Keys, PoolInsertFull(k) /\ age' = Forget
      PROVE  /\ IInv' /\ OneOwner' /\ Marked' /\ call'.op # "evict"
             /\ [Cache!Next]_<<age, max>>
  BY <1>2, <1>4 DEF PoolInsertFull
<1>5. ASSUME NEW k \in Keys, PoolAt(k), Find(k) = Null, age' = age
      PROVE  IInv' /\ OneOwner' /\ Marked' /\ call'.op # "evict"
  <2>1. call' = Over("undefined") /\ UNCHANGED <<max, list, data, map, live, bits>>
    BY <1>5 DEF PoolAt
  <2>2. call'.op # "evict"
    BY <2>1 DEF Over, Running
  <2>3. IInv'
    BY <1>5, <2>1, OverStep
  <2>4. Marked'
    BY <1>1, <2>1, MarkedStays
  <2> QED BY <1>1, <2>1, <2>2, <2>3, <2>4 DEF OneOwner
<1>6. ASSUME Destroy \/ DestroyDone, UNCHANGED <<bits, age>>
      PROVE  IInv' /\ OneOwner' /\ Marked' /\ call'.op # "evict"
  <2>1. IInv'
    BY <1>6, OtherStep DEF Other
  <2>2. UNCHANGED <<map, live>> /\ call'.op # "evict"
    BY <1>6 DEF Destroy, DestroyDone, Over, Running
  <2>3. Marked'
    BY <1>1, <1>6, <2>2, MarkedStays
  <2> QED BY <1>1, <2>1, <2>2, <2>3 DEF OneOwner
<1>7. ASSUME PoolDestroyOne, age' = age
      PROVE  IInv' /\ OneOwner' /\ Marked' /\ call'.op # "evict"
  <2>1. DestroyOne /\ bits' = NodeClear(call.current)
    BY <1>7 DEF PoolDestroyOne, DestroyOne
  <2>2. IInv'
    BY <1>7, <2>1, DestroyOneStep
  <2>3. map' = map /\ live' = live \ {call.current}
    BY <2>1 DEF DestroyOne
  <2>4. call \in CallType /\ call.op = "destroy"
    BY <2>1 DEF IInv, Types, DestroyOne
  <2>5. call'.op # "evict"
    BY <2>1, <2>4 DEF DestroyOne, CallType
  <2>6. call.current \in live /\ max \in Nat
    BY <2>1 DEF IInv, Types, DestroysAll, DestroyOne
  <2>7. Marked'
    BY <1>1, <2>1, <2>3, <2>6, ClearStep
  <2> QED BY <1>1, <2>2, <2>3, <2>5, <2>7 DEF OneOwner
<1> QED BY <1>1, <1>3, <1>4, <1>5, <1>6, <1>7 DEF PoolOther

(* A pool that ran out stays empty: every other key finds no place either. *)
LEMMA ExhaustedStep ==
  ASSUME PInv, Exhausted, pooled, wraps' = wraps, (\E k \in Keys : PoolUse(k)) \/ PoolOther
  PROVE  Exhausted' /\ OneOwner' /\ Marked' /\ max' = max /\ call'.op # "evict"
<1>1. /\ max' = max /\ Slots' = Slots /\ Marked /\ call.op # "evict"
  BY DEF PInv, Slots, PoolUse, PoolInsertKnown, PoolInsertNew, PoolOther, PoolEvict,
         PoolInsertFull, PoolRemoveBack, PoolAt, Destroy, DestroyDone, PoolDestroyOne
<1>2. \A k \in Keys : Find(k) = Null
  BY DEF Find, Exhausted
<1>3. ~PoolDestroyOne /\ \A k \in Keys : ~PoolInsertKnown(k)
  BY <1>2 DEF Exhausted, PoolDestroyOne, PoolInsertKnown
<1>4. ASSUME map' \in [Keys -> {Null, Absent}], RanOut', UNCHANGED <<live, bits>>,
             list'.head = Null, list'.tail = Null, call'.op # "evict",
             call'.op = "destroy" => call'.current = Null
      PROVE  Exhausted' /\ OneOwner' /\ Marked' /\ call'.op # "evict"
  <2>1. \A i \in Slots' : NodeTest(i)'
    BY <1>1, <1>4, TestsStay DEF Exhausted
  <2>2. Exhausted' /\ Marked'
    BY <1>1, <1>4, <2>1, MarkedStays DEF Exhausted
  <2>3. OneOwner'
    BY <1>4, LruAssumption DEF OneOwner
  <2> QED BY <1>4, <2>2, <2>3
<1>5. ASSUME NEW end, end \in {"undefined", "aborted", "destroyed"}, call' = Over(end),
             UNCHANGED <<map, live, bits>>, list'.head = list.head, list'.tail = list.tail
      PROVE  Exhausted' /\ OneOwner' /\ Marked' /\ call'.op # "evict"
  <2>1. call'.op # "evict" /\ call'.op # "destroy"
    BY <1>5 DEF Over, Running
  <2>2. RanOut'
    BY <1>5 DEF Exhausted, RanOut
  <2> QED BY <1>4, <1>5, <2>1, <2>2 DEF Exhausted
<1>6. ASSUME NEW k \in Keys, PoolInsertNew(k)
      PROVE  Exhausted' /\ OneOwner' /\ Marked' /\ call'.op # "evict"
  <2>1. NodeNext = Null
    BY DEF NodeNext, Exhausted
  <2>2. /\ list' = [list EXCEPT !.size = @ + 1]
        /\ map' = IF map[k] = Absent THEN [map EXCEPT ![k] = Null] ELSE map
        /\ UNCHANGED <<live, bits, call>>
    BY <1>6, <2>1 DEF PoolInsertNew, PoolInsertFront, MapInsert, Exhausted
  <2>3. list'.head = Null /\ list'.tail = Null
    BY <2>2 DEF Exhausted
  <2>4. map' \in [Keys -> {Null, Absent}] /\ RanOut'
    BY <2>2 DEF Exhausted, RanOut
  <2> QED BY <1>1, <1>4, <2>2, <2>3, <2>4 DEF Exhausted
<1>7. ASSUME NEW k \in Keys, PoolAt(k)
      PROVE  Exhausted' /\ OneOwner' /\ Marked' /\ call'.op # "evict"
  BY <1>2, <1>5, <1>7 DEF PoolAt
<1>8. ASSUME PoolRemoveBack
      PROVE  Exhausted' /\ OneOwner' /\ Marked' /\ call'.op # "evict"
  BY <1>5, <1>8 DEF PoolRemoveBack, Exhausted
<1>9. ASSUME Destroy, bits' = bits
      PROVE  Exhausted' /\ OneOwner' /\ Marked' /\ call'.op # "evict"
  <2>1. /\ call' = [op |-> "destroy", current |-> Null, goal |-> 0]
        /\ UNCHANGED <<list, map, live>>
    BY <1>9 DEF Destroy, Running, Exhausted
  <2>2. RanOut'
    BY <2>1 DEF Exhausted, RanOut
  <2> QED BY <1>4, <1>9, <2>1, <2>2 DEF Exhausted
<1>10. ASSUME DestroyDone, bits' = bits
       PROVE  Exhausted' /\ OneOwner' /\ Marked' /\ call'.op # "evict"
  <2>1. /\ list' = [list EXCEPT !.size = 0] /\ call' = Over("destroyed")
        /\ UNCHANGED <<map, live>>
    BY <1>10 DEF DestroyDone
  <2>2. list'.head = list.head /\ list'.tail = list.tail
    BY <2>1
  <2> QED BY <1>5, <1>10, <2>1, <2>2
<1> QED BY <1>1, <1>3, <1>6, <1>7, <1>8, <1>9, <1>10
        DEF PoolUse, PoolOther, PoolEvict, PoolInsertFull

LEMMA InitPInv == PoolInit => PInv
<1> SUFFICES ASSUME PoolInit PROVE PInv
  OBVIOUS
<1>1. /\ IInv /\ pooled \in BOOLEAN /\ max \in Capacities
      /\ call.op = "idle" /\ live = {}
  BY InitIInv DEF PoolInit, HInit, Init, Idle, Running
<1>2. OneOwner
  BY <1>1, Injective
<1>3. pooled => Marked
  BY <1>1 DEF PoolInit, Marked
<1> QED BY <1>1, <1>2, <1>3 DEF PInv

(* Every step of either header keeps the invariant, and is one of LruCache *)
(* or a stutter unless the pool ran out.                                   *)
LEMMA StepPInv ==
  PInv /\ SlotsHaveBits /\ [PoolNext]_pvars => PInv' /\ [RanOut' \/ Cache!Next]_age
<1> SUFFICES ASSUME PInv, SlotsHaveBits, [PoolNext]_pvars
             PROVE  PInv' /\ [RanOut' \/ Cache!Next]_age
  OBVIOUS
<1>1. CASE UNCHANGED pvars
  <2>1. IInv' = IInv
    BY <1>1 DEF pvars, hvars, vars, IInv, Types, Recency, Destroying, Mapped, Evicting,
                AssertHolds, DestroysAll
  <2>2. pooled => Marked' /\ (Exhausted => Exhausted')
    BY <1>1, MarkedStays, TestsStay DEF pvars, hvars, vars, PInv, Exhausted, RanOut
  <2> QED BY <1>1, <2>1, <2>2 DEF pvars, hvars, vars, PInv, OneOwner
<1>2. ASSUME ~pooled, HNext, pooled' = pooled PROVE PInv' /\ [RanOut' \/ Cache!Next]_age
  <2>1. IInv /\ max \in Capacities /\ OneOwner
    BY <1>2 DEF PInv
  <2>2. IInv' /\ [Cache!Next]_<<age, max>>
    BY <1>2, <2>1, StepIInv
  <2>3. max' = max
    BY <2>2 DEF Cache!Next
  <2>4. OneOwner'
    <3>1. CASE call'.op \in {"idle", "evict", "destroy"}
      <4>1. PICK S : Agree(list', data', map', age', S)
        BY <2>2, <3>1 DEF IInv, Recency, Destroying
      <4>2. ASSUME NEW j \in Keys, NEW k \in Keys, map'[j] = map'[k], map'[j] \in Nodes
            PROVE  j = k
        BY <4>1, <4>2, LruAssumption DEF Agree, MapAgrees
      <4> QED BY <4>2 DEF OneOwner
    <3>2. CASE call'.op \notin {"idle", "evict", "destroy"}
      <4>1. call \in CallType
        BY <2>1 DEF IInv, Types
      <4>2. map' = map
        BY <1>2, <3>2, <4>1
           DEF HNext, Use, Lose, Other, InsertKnown, InsertNew, InsertReplacing, At, InsertAsserts,
               Evict, EvictOne, EvictDone, Destroy, DestroyOne, DestroyDone, Idle, Running, CallType
      <4> QED BY <2>1, <4>2 DEF OneOwner
    <3> QED BY <3>1, <3>2
  <2> QED BY <1>2, <2>1, <2>2, <2>3, <2>4 DEF PInv
<1>3. ASSUME pooled, pooled' = pooled, wraps' = wraps, (\E k \in Keys : PoolUse(k)) \/ PoolOther
      PROVE  PInv' /\ [RanOut' \/ Cache!Next]_age
  <2>1. IInv \/ Exhausted
    BY <1>3 DEF PInv
  <2>2. ASSUME IInv, NEW k \in Keys, PoolUse(k) PROVE PInv' /\ [RanOut' \/ Cache!Next]_age
    BY <1>3, <2>2, PoolUseStep DEF PInv
  <2>3. ASSUME IInv, PoolOther PROVE PInv' /\ [RanOut' \/ Cache!Next]_age
    BY <1>3, <2>3, PoolOtherStep DEF PInv
  <2>4. ASSUME Exhausted PROVE PInv' /\ [RanOut' \/ Cache!Next]_age
    <3>1. Exhausted' /\ OneOwner' /\ Marked' /\ max' = max /\ call'.op # "evict"
      BY <1>3, <2>4, ExhaustedStep
    <3>2. RanOut'
      BY <3>1 DEF Exhausted
    <3> QED BY <1>3, <3>1, <3>2 DEF PInv
  <2> QED BY <1>3, <2>1, <2>2, <2>3, <2>4
<1> QED BY <1>1, <1>2, <1>3 DEF PoolNext

(* The capacity and the processor stay what they are.                      *)
LEMMA BitsStay == [PoolNext]_pvars => (SlotsHaveBits' <=> SlotsHaveBits)
BY DEF pvars, hvars, vars, SlotsHaveBits, PoolNext, PoolUse, PoolOther, PoolInsertKnown,
       PoolInsertNew, PoolInsertFull, PoolEvict, PoolRemoveBack, PoolAt, PoolDestroyOne, Destroy,
       DestroyDone, HNext, Use, Lose, Other, InsertKnown, InsertNew, InsertReplacing, At,
       InsertAsserts, Evict, EvictOne, EvictDone, DestroyOne

(* Nodes have one owner and are given back, in either header and for every *)
(* capacity whose slots have bits: no two keys share a node, a slot in use *)
(* tests as taken, and the destructor reaches every node exactly once.     *)
THEOREM PoolNodesOwned == PoolSpec => []NodesOwned
<1>1. PInv => NodesOwned
  <2>1. PInv /\ pooled => \A n \in live : n \in Slots /\ NodeTest(n)
    BY DEF PInv, Marked, NodeTest
  <2> QED BY <2>1 DEF PInv, NodesOwned, OneOwner, IInv, Exhausted, DestroysAll
<1>2. ~SlotsHaveBits => NodesOwned
  BY DEF NodesOwned
<1> QED BY <1>1, <1>2, InitPInv, StepPInv, BitsStay, PTL DEF PoolSpec

(* The list is the recency of the calls in either header, until the map    *)
(* of the cache-friendly one has a null pointer in it.                     *)
THEOREM PoolListRecency == PoolSpec => []PoolIsRecency
<1>1. PInv => PoolIsRecency
  BY DEF PInv, PoolIsRecency, ListIsRecency, IInv, Exhausted
<1>2. ~SlotsHaveBits => PoolIsRecency
  BY DEF PoolIsRecency
<1> QED BY <1>1, <1>2, InitPInv, StepPInv, BitsStay, PTL DEF PoolSpec

(* In either header only the oldest key leaves, and only when the set is   *)
(* full or evict asks for it, until that happens.                          *)
THEOREM PoolOldestLeaves == PoolSpec => PoolDropsOldest
<1>1. [RanOut' \/ Cache!Next]_age => [SlotsHaveBits => RanOut' \/ Cache!Next]_age
  OBVIOUS
<1>2. ~SlotsHaveBits => [SlotsHaveBits => RanOut' \/ Cache!Next]_age
  OBVIOUS
<1> QED BY <1>1, <1>2, InitPInv, StepPInv, BitsStay, PTL DEF PoolSpec, PoolDropsOldest

=============================================================================
