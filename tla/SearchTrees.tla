---------------------------- MODULE SearchTrees -----------------------------
(***************************************************************************)
(* Two more programs beside those of SmallPrograms, whose data and         *)
(* functions are recursive: the tree of 50_loc_avl_bsearch_tree.c and the  *)
(* tree of bt_haskell.hs. What the calls of either put in and took out is  *)
(* kept beside it, and the tree is asked for it.                           *)
(***************************************************************************)
EXTENDS SmallPrograms

CONSTANTS
  AvlKeys, TreeKeys,
  MaxList   (* bound: the elements of a list that a tree is made from       *)

VARIABLES
  elements,           (* what was put in and not taken out                  *)
  root, crashed,      (* see AvlTree                                        *)
  tree                (* see BinaryTree                                     *)

treeVars == <<elements, root, crashed, tree>>

Avl  == INSTANCE AvlTree WITH Keys <- AvlKeys
Tree == INSTANCE BinaryTree WITH Keys <- TreeKeys

Put(k)  == elements' = elements \cup {k}
Take(k) == elements' = elements \ {k}

Lists == UNION {[1 .. c -> TreeKeys] : c \in 0 .. MaxList}

InitTrees ==
  /\ program \in Programs \cup {"avl", "tree"}
  /\ Start
  /\ Avl!Init
  /\ \E s \in IF program = "tree" THEN Lists ELSE {<<>>} :
       /\ tree \in {Tree!Ctree(s), Tree!CtreePB(s)}
       /\ elements = {s[j] : j \in DOMAIN s}

AvlCall ==
  /\ program = "avl"
  /\ \E k \in AvlKeys :
       \/ Avl!Insert(k) /\ Put(k)
       \/ Avl!Delete(k) /\ Take(k)
  /\ UNCHANGED <<vars, tree>>

TreeCall ==
  /\ program = "tree"
  /\ \E k \in TreeKeys :
       \/ Tree!Insert(k) /\ Put(k)
       \/ Tree!Delete(k) /\ Take(k)
  /\ UNCHANGED <<vars, root, crashed>>

NextTrees ==
  \/ Next /\ UNCHANGED treeVars
  \/ AvlCall
  \/ TreeCall

SpecTrees == InitTrees /\ [][NextTrees]_<<vars, treeVars>>

-----------------------------------------------------------------------------

(* 50_loc_avl_bsearch_tree.c: search finds exactly the keys inserted and   *)
(* not deleted, whatever was rotated, and no height that is kept is more   *)
(* than the depth, see AvlTree.                                            *)
AvlFinds ==
  program = "avl" /\ ~crashed =>
    /\ \A k \in AvlKeys : Avl!Search(k, root) <=> k \in elements
    /\ Avl!HeightsFit

(* A deletion from an AVL tree leaves an AVL tree, although an insertion   *)
(* may not: both rotations are the right ones, also where the grandchildren*)
(* are equally high, see AvlTree.                                          *)
DeletionBalances ==
  [][program = "avl" /\ elements' # elements /\ elements' \subseteq elements /\ Avl!IsAvl(root)
       => Avl!IsAvl(root')]_<<vars, treeVars>>

(* bt_haskell.hs: a deletion takes no other element with it, it takes the  *)
(* one it is given unless the tree has an element twice, and the tree stays*)
(* in order, see BinaryTree.                                               *)
TreeFinds ==
  program = "tree" =>
    /\ \A k \in elements : Tree!Contains(tree, k)
    /\ Tree!InOrder
    /\ Tree!DeletesOne

(* What the name of 50_loc_avl_bsearch_tree.c says: the tree is balanced.  *)
(* It is not, see AvlTree.                                                 *)
AvlBalanced == program = "avl" => Avl!Balanced

=============================================================================
