----------------------------- MODULE BinaryTree -----------------------------
(***************************************************************************)
(* The search tree of bt_haskell.hs. The functions of the file have no     *)
(* state; what has one is the program that uses them, which goes on with   *)
(* the tree a function returned.                                           *)
(***************************************************************************)
EXTENDS Naturals, Sequences

CONSTANTS Keys, Nil

Seqs == INSTANCE SequencesExt

VARIABLE tree

Node(l, v, r) == [left |-> l, v |-> v, right |-> r]

RECURSIVE Contains(_, _)
Contains(t, x) ==
  t # Nil /\ (x = t.v \/ Contains(IF x < t.v THEN t.left ELSE t.right, x))

RECURSIVE Inserted(_, _)
Inserted(t, x) ==
  IF t = Nil THEN Node(Nil, x, Nil)
  ELSE IF t.v = x THEN t
  ELSE IF t.v < x THEN [t EXCEPT !.right = Inserted(@, x)]
  ELSE [t EXCEPT !.left = Inserted(@, x)]

RECURSIVE LeftistElement(_)
LeftistElement(t) == IF t.left = Nil THEN t.v ELSE LeftistElement(t.left)

(* A mutant: the smallest element of the left comes up.                    *)
DeleteXFromLeft(t) ==
  IF t.left = Nil THEN t.right
  ELSE IF t.right = Nil THEN t.left
  ELSE [t EXCEPT !.v = LeftistElement(t.left)]

(* What comes up from the right stays there, too: that it is deleted there *)
(* is commented out.                                                       *)
DeleteX(t) ==
  IF t.left = Nil THEN t.right
  ELSE IF t.right = Nil THEN t.left
  ELSE [t EXCEPT !.v = LeftistElement(t.right)]

RECURSIVE Deleted(_, _)
Deleted(t, x) ==
  IF t = Nil THEN Nil
  ELSE IF x = t.v THEN DeleteX(t)
  ELSE IF x < t.v THEN [t EXCEPT !.left = Deleted(@, x)]
  ELSE [t EXCEPT !.right = Deleted(@, x)]

Ctree(s) == Seqs!FoldLeft(Inserted, Nil, s)

RECURSIVE Qsort(_)
Qsort(s) ==
  IF s = <<>> THEN <<>>
  ELSE LET Smaller(x) == x < Head(s)
           Other(x)   == x >= Head(s)
       IN Qsort(SelectSeq(Tail(s), Smaller)) \o <<Head(s)>> \o Qsort(SelectSeq(Tail(s), Other))

(* mEl goes through the list twice as fast as through its copy.            *)
MiddleEl(s) == s[Len(s) \div 2 + 1]

RECURSIVE Cpb(_, _)
Cpb(t, s) ==
  IF s = <<>> THEN t
  ELSE Cpb(Inserted(t, MiddleEl(s)), Seqs!RemoveFirst(s, MiddleEl(s)))

CtreePB(s) == Cpb(Nil, Qsort(s))

RECURSIVE Inorder(_)
Inorder(t) == IF t = Nil THEN <<>> ELSE Inorder(t.left) \o <<t.v>> \o Inorder(t.right)

RECURSIVE Preorder(_)
Preorder(t) == IF t = Nil THEN <<>> ELSE <<t.v>> \o Preorder(t.left) \o Preorder(t.right)

RECURSIVE Postorder(_)
Postorder(t) == IF t = Nil THEN <<>> ELSE Postorder(t.left) \o Postorder(t.right) \o <<t.v>>

(* step of levelorder: the trees of one level, then those below them.      *)
RECURSIVE Step(_)
Step(ts) ==
  LET IsNode(t)     == t # Nil
      nodes         == SelectSeq(ts, IsNode)
  IN IF ts = <<>> THEN <<>>
     ELSE [i \in DOMAIN nodes |-> nodes[i].v]
            \o Step(Seqs!FlattenSeq([i \in DOMAIN nodes |-> <<nodes[i].left, nodes[i].right>>]))

Levelorder(t) == Step(<<t>>)

Insert(x) == tree' = Inserted(tree, x)
Delete(x) == tree' = Deleted(tree, x)

-----------------------------------------------------------------------------

(* Whatever is inserted and deleted: reading the tree in order gives a     *)
(* sorted list, contains finds what is in it, and the other three orders   *)
(* read the same elements.                                                 *)
InOrder ==
  LET s     == Inorder(tree)
      In(x) == Seqs!ToSet(x)
  IN /\ \A i \in 1 .. Len(s) - 1 : s[i] <= s[i + 1]
     /\ \A x \in Keys : Contains(tree, x) <=> x \in In(s)
     /\ \A t \in {Preorder(tree), Postorder(tree), Levelorder(tree)} :
          Qsort(t) = s

(* From a tree that has no element twice a deletion takes that element and *)
(* no other. One that came up stays below as well, though, and of the two  *)
(* the upper is then replaced by the lower: it cannot be deleted any more. *)
DeletesOne ==
  LET s == Inorder(tree)
  IN (\A i \in 1 .. Len(s) - 1 : s[i] < s[i + 1]) =>
        \A x \in Keys : Seqs!ToSet(Inorder(Deleted(tree, x))) = Seqs!ToSet(s) \ {x}

=============================================================================
