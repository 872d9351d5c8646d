----------------------------- MODULE RadixSort -----------------------------
(***************************************************************************)
(* sort of distance_sort_magic.cpp: objects are sorted by a float, in      *)
(* three passes over the three digits of its bits. A float is its digits:  *)
(* the lower two have kHist values, the upper one, which begins with the   *)
(* sign, has Top. A call takes one step for the histograms and one for     *)
(* each object that a pass moves.                                          *)
(***************************************************************************)
EXTENDS Integers, FiniteSets

CONSTANTS
  kHist,      (* 2048                                                       *)
  Top,        (* 1024                                                       *)
  MaxElements (* bound: the objects sorted                                  *)

VARIABLES
  contents, sorted,   (* the arrays: objects with an id and a key           *)
  hist,               (* b0, b1 and b2                                      *)
  pass,               (* 0: the histograms; 4: done                         *)
  moved,              (* i: the objects that this pass has moved            *)
  given               (* the objects as they were given                     *)

Digit(d) == IF d = 3 THEN 0 .. Top - 1 ELSE 0 .. kHist - 1
Key      == Digit(1) \X Digit(2) \X Digit(3)

Negative(key) == key[3] >= Top \div 2

(* A mutant: of a negative number just the sign is turned over, too.       *)
FlipSign(key) == [key EXCEPT ![3] = (@ + Top \div 2) % Top]

(* All bits of a negative number are turned over, else just the sign.      *)
Flip(key) ==
  IF Negative(key)
  THEN <<kHist - 1 - key[1], kHist - 1 - key[2], Top - 1 - key[3]>>
  ELSE [key EXCEPT ![3] = @ + Top \div 2]

Init ==
  /\ \E n \in 0 .. MaxElements : \E keys \in [1 .. n -> Key] :
       contents = [i \in 1 .. n |-> [id |-> i, key |-> keys[i]]]
  /\ given = contents
  /\ sorted = [i \in DOMAIN contents |-> [id |-> 0, key |-> <<0, 0, 0>>]]
  /\ hist = [d \in 1 .. 3 |-> [v \in Digit(d) |-> 0]]
  /\ pass = 0 /\ moved = 0

(* How many of the flipped keys have less than v for digit d. An entry     *)
(* begins one below the place for the first of its objects: -1 is          *)
(* 0xFFFFFFFF, and the increment before the first use wraps it around.     *)
Less(d, v) == Cardinality({j \in DOMAIN contents : Flip(contents[j].key)[d] < v})

Histograms ==
  /\ pass = 0
  /\ hist' = [d \in 1 .. 3 |-> [v \in Digit(d) |-> Less(d, v) - 1]]
  /\ pass' = 1
  /\ UNCHANGED <<contents, sorted, moved, given>>

ToMove == pass \in 1 .. 3 /\ moved + 1 \in DOMAIN given

(* The object a pass moves next. The first pass flips its key.             *)
Object ==
  LET o == IF pass = 2 THEN sorted[moved + 1] ELSE contents[moved + 1]
  IN IF pass = 1 THEN [o EXCEPT !.key = Flip(@)] ELSE o

(* An object goes to the place after the last one with its digit.          *)
Place == hist[pass][Object.key[pass]] + 2

Move ==
  /\ ToMove
  /\ hist' = [hist EXCEPT ![pass][Object.key[pass]] = @ + 1]
  /\ IF pass = 2
     THEN contents' = [contents EXCEPT ![Place] = Object] /\ UNCHANGED sorted
     ELSE /\ contents' = [contents EXCEPT ![moved + 1] = Object]
          /\ sorted' = [sorted EXCEPT ![Place] = Object]
  /\ moved' = moved + 1
  /\ UNCHANGED <<pass, given>>

NextPass ==
  /\ pass \in 1 .. 3 /\ ~ToMove
  /\ pass' = pass + 1
  /\ moved' = 0
  /\ UNCHANGED <<contents, sorted, hist, given>>

Next == Histograms \/ Move \/ NextPass

-----------------------------------------------------------------------------

(* The order of the numbers: sign and magnitude.                           *)
Below(x, y) ==
  LET Smaller(a, b) == \/ a[3] < b[3]
                       \/ a[3] = b[3] /\ a[2] < b[2]
                       \/ a[3] = b[3] /\ a[2] = b[2] /\ a[1] < b[1]
  IN IF Negative(x) THEN ~Negative(y) \/ Smaller(y, x) ELSE ~Negative(y) /\ Smaller(x, y)

(* At the end the objects given, all of them, stand in the order of their  *)
(* numbers, negative ones first, and equal ones in the order given. No     *)
(* object is written past the end of an array.                             *)
SortsByDistance ==
  /\ ToMove => Place \in DOMAIN given
  /\ pass = 4 =>
       /\ \A i \in DOMAIN given : \E j \in DOMAIN sorted : sorted[j].id = i
       /\ \A i, j \in DOMAIN sorted : i < j =>
            LET x == given[sorted[i].id].key
                y == given[sorted[j].id].key
            IN Below(x, y) \/ (x = y /\ sorted[i].id < sorted[j].id)

=============================================================================
