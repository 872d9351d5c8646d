-------------------------- MODULE MCSmallPrograms ---------------------------
(***************************************************************************)
(* Instances for TLC of SearchTrees, and with it of SmallPrograms.         *)
(***************************************************************************)
EXTENDS SearchTrees

(* Floats on both sides of every case of the conversions: the exponents    *)
(* where zero, small, normal and infinite halves begin, and where the      *)
(* product of SSE2 begins to be rounded; mantissas next to a multiple of   *)
(* what a half can tell apart.                                             *)
Exponents == {0, 87, 88, 89, 90, 101, 102, 103, 104, 112, 113, 127, 142, 143, 254, 255}
Mantissas == {0, 1, 8191, 8192, 4194304, 4194305, 8388607}

(* Arrays of one float, of every length up to two blocks and one more, and *)
(* arrays of three different ones.                                         *)
UniformArrays ==
  {[j \in 1 .. c |-> [sign |-> s, exp |-> e, man |-> m]] :
     c \in {0, 1, 3, 4, 5, 6, 7, 8, 9}, s \in {0, 1}, e \in Exponents, m \in Mantissas}
MixedArrays ==
  UNION {[1 .. c -> {[sign |-> 1, exp |-> 127, man |-> 0],
                     [sign |-> 0, exp |-> 112, man |-> 8388607],
                     [sign |-> 0, exp |-> 255, man |-> 1]}] : c \in 2 .. 5}
SomeArrays == UniformArrays \cup MixedArrays

(* Keys of which several, a negative one among them, want the same slot of *)
(* four, and more keys than slots.                                         *)
SpreadKeys == {-4, -1, 0, 1, 4, 5}

(* The behaviours of the preprocessor alone.                               *)
MacroSpec == SpecTrees /\ program = "macros"

(* The behaviours of the AVL tree alone.                                   *)
AvlSpec == SpecTrees /\ program = "avl"

=============================================================================
