------------------------------ MODULE AvlTree ------------------------------
(***************************************************************************)
(* The search tree of 50_loc_avl_bsearch_tree.c. A tree is a value here: a *)
(* pointer to a node is the node, and storing through a node_t ** is the   *)
(* tree with that part replaced. A call is one step.                       *)
(***************************************************************************)
EXTENDS Integers

CONSTANTS Keys, Nil

VARIABLES root, crashed

Height(t) == IF t = Nil THEN 0 ELSE t.h

(* The macro H.                                                            *)
H(t, i) == Height(t.c[i])

Update(t) == [t EXCEPT !.h = IF H(t, 0) > H(t, 1) THEN H(t, 0) + 1 ELSE H(t, 1) + 1]

(* A mutant: t gets the wrong child of the one that comes up.              *)
RotateWrong(t, i) ==
  LET s == t.c[i]
  IN Update([s EXCEPT !.c[1 - i] = Update([t EXCEPT !.c[i] = s.c[i]])])

(* The child i of t comes up and t goes down on the other side.            *)
Rotate(t, i) ==
  LET s == t.c[i]
  IN Update([s EXCEPT !.c[1 - i] = Update([t EXCEPT !.c[i] = s.c[1 - i]])])

(* A mutant: equally high grandchildren turn the inner way, too.           *)
BalanceInside(t, i, e) ==
  LET s == t.c[i]
  IN Rotate(IF H(s, 0) - H(s, 1) \in {e, 0} THEN [t EXCEPT !.c[i] = Rotate(s, 1 - i)] ELSE t, i)

Balance(t, i, e) ==
  LET s == t.c[i]
  IN Rotate(IF H(s, 0) - H(s, 1) = e THEN [t EXCEPT !.c[i] = Rotate(s, 1 - i)] ELSE t, i)

Rebalance(t) ==
  IF H(t, 0) - H(t, 1) = 2 THEN Balance(t, 0, -1)
  ELSE IF H(t, 0) - H(t, 1) = -2 THEN Balance(t, 1, 1)
  ELSE t

Side(k, t) == IF k < t.k THEN 0 ELSE 1

(* The height comes from the child that was descended into, whatever the   *)
(* other one's.                                                            *)
RECURSIVE Inserted(_, _)
Inserted(k, t) ==
  IF t = Nil THEN [k |-> k, h |-> 1, c |-> [i \in {0, 1} |-> Nil]]
  ELSE IF k = t.k THEN t
  ELSE LET i == Side(k, t)
           s == Inserted(k, t.c[i])
       IN Rebalance([t EXCEPT !.c[i] = s, !.h = s.h + 1])

RECURSIVE Search(_, _)
Search(k, t) == t # Nil /\ (k = t.k \/ Search(k, t.c[Side(k, t)]))

RECURSIVE Last(_)
Last(t) == IF t.c[1] = Nil THEN t.k ELSE Last(t.c[1])

(* k is in the tree.                                                       *)
RECURSIVE Deleted(_, _)
Deleted(k, t) ==
  LET i == Side(k, t)
      p == Last(t.c[0])
  IN IF k # t.k THEN Rebalance(Update([t EXCEPT !.c[i] = Deleted(k, @)]))
     ELSE IF t.c[0] = Nil THEN t.c[1]
     ELSE IF t.c[1] = Nil THEN t.c[0]
     ELSE Rebalance(Update([t EXCEPT !.c[0] = Deleted(p, @), !.k = p]))

Init == root = Nil /\ crashed = FALSE

Insert(k) ==
  /\ ~crashed
  /\ root' = Inserted(k, root)
  /\ UNCHANGED crashed

(* A key that is not there is looked for behind a null pointer: the test   *)
(* for null is of the address of the pointer.                              *)
Delete(k) ==
  /\ ~crashed
  /\ IF Search(k, root)
     THEN root' = Deleted(k, root) /\ UNCHANGED crashed
     ELSE crashed' = TRUE /\ UNCHANGED root

-----------------------------------------------------------------------------

RECURSIVE Subtrees(_)
Subtrees(t) ==
  IF t = Nil THEN {} ELSE {t} \cup Subtrees(t.c[0]) \cup Subtrees(t.c[1])

RECURSIVE Depth(_)
Depth(t) == IF t = Nil THEN 0 ELSE LET l == Depth(t.c[0])
                                       r == Depth(t.c[1])
                                   IN IF l > r THEN l + 1 ELSE r + 1

Abs(x) == IF x < 0 THEN -x ELSE x

(* Every node has a height, which is never more than its depth.            *)
HeightsFit == \A t \in Subtrees(root) : 1 <= t.h /\ t.h <= Depth(t)

Even(t) == \A s \in Subtrees(t) : Abs(Depth(s.c[0]) - Depth(s.c[1])) <= 1

(* What makes a search tree an AVL tree: the depths of the two sides of a  *)
(* node differ by 1 at most. An insertion takes the height from the side   *)
(* it went down, and may lose what the other side is deeper; after that    *)
(* rebalance, which looks for a difference of exactly 2, does not see all. *)
Balanced == Even(root)

(* And its heights are its depths.                                         *)
IsAvl(t) == Even(t) /\ \A s \in Subtrees(t) : s.h = Depth(s)

=============================================================================
