----------------------------- MODULE HalfFloat -----------------------------
(***************************************************************************)
(* half_float.cpp: floats become halves, one by one by way of a table, or  *)
(* four at a time by SSE2. A float is its sign, its exponent with the bias *)
(* and its mantissa; a half is its bits.                                   *)
(*                                                                         *)
(* convertToHalf of an array takes one step for each turn of its loops.    *)
(***************************************************************************)
EXTENDS Integers, Sequences

CONSTANTS
  Arrays,     (* of floats                                                  *)
  Nothing     (* an element of a result that was not converted              *)

VARIABLES
  sse2,             (* whether the build has SSE2                           *)
  in, result,
  where, i,         (* the locals of the loops                              *)
  status

Floats == [sign : {0, 1}, exp : 0 .. 255, man : 0 .. 2 ^ 23 - 1]

Sign(f) == f.sign * 32768   \* 0x8000

(* halfData: baseTable and shiftTable, by the exponent without its bias.   *)
Base(f) ==
  LET e == f.exp - 127
  IN Sign(f) + (IF e < -24 THEN 0
                ELSE IF e < -14 THEN 1024 \div 2 ^ (-e - 14)
                ELSE IF e <= 15 THEN (e + 15) * 1024
                ELSE 31 * 1024)

(* A mutant: the mantissa of a small number is shifted once more.          *)
ShiftTwice(f) ==
  LET e == f.exp - 127
  IN IF e < -24 THEN 24
     ELSE IF e < -14 THEN -e
     ELSE IF e <= 15 THEN 13
     ELSE IF e < 128 THEN 24
     ELSE 13

Shift(f) ==
  LET e == f.exp - 127
  IN IF e < -24 THEN 24
     ELSE IF e < -14 THEN -e - 1
     ELSE IF e <= 15 THEN 13
     ELSE IF e < 128 THEN 24
     ELSE 13

ConvertToHalf(f) == Base(f) + f.man \div 2 ^ Shift(f)

(* n / 2^b to the nearest integer, or to the even one of two.              *)
Nearest(n, b) ==
  LET q == n \div 2 ^ b
      r == n % 2 ^ b
  IN IF 2 * r > 2 ^ b \/ (2 * r = 2 ^ b /\ q % 2 = 1) THEN q + 1 ELSE q

(* The bits of a float that is clamped and multiplied by 2^-112, shifted   *)
(* by 13. A product too small for the exponent is rounded to a multiple of *)
(* the smallest float.                                                     *)
Scaled(f) ==
  IF f.exp >= 143 THEN 31 * 1024
  ELSE IF f.exp > 112 THEN (f.exp - 112) * 1024 + f.man \div 2 ^ 13
  ELSE IF f.exp < 89 THEN 0
  ELSE Nearest(2 ^ 23 + f.man, 113 - f.exp) \div 2 ^ 13

(* convertToHalfSSE2, for one of the four.                                 *)
ConvertToHalfSSE2(f) ==
  Sign(f) + (IF f.exp = 255 THEN 31 * 1024 + f.man \div 2 ^ 13 ELSE Scaled(f))

Length == Len(in)
InBlocks == 4 * (Length \div 4)
Rest == Length % 4

Init ==
  /\ sse2 \in BOOLEAN
  /\ in \in Arrays
  /\ result = [j \in DOMAIN in |-> Nothing]
  /\ where = 0
  /\ i = 0
  /\ status = "running"

(* A turn of the loop over blocks of four.                                 *)
Block ==
  /\ status = "running" /\ sse2
  /\ where < InBlocks
  /\ result' = [j \in DOMAIN in |->
                  IF j \in where + 1 .. where + 4 THEN ConvertToHalfSSE2(in[j]) ELSE result[j]]
  /\ where' = where + 4
  /\ UNCHANGED <<sse2, in, i, status>>

(* A turn of the loop over the rest, which advances i and where both and   *)
(* adds them up.                                                           *)
Remainder ==
  /\ status = "running" /\ sse2
  /\ where >= InBlocks
  /\ i < Rest
  /\ IF where + i < Length
     THEN /\ result' = [result EXCEPT ![where + i + 1] = ConvertToHalf(in[where + i + 1])]
          /\ UNCHANGED status
     ELSE status' = "overrun" /\ UNCHANGED result
  /\ i' = i + 1
  /\ where' = where + 1
  /\ UNCHANGED <<sse2, in>>

(* A turn of the loop of a build without SSE2.                             *)
OneByOne ==
  /\ status = "running" /\ ~sse2
  /\ i < Length
  /\ result' = [result EXCEPT ![i + 1] = ConvertToHalf(in[i + 1])]
  /\ i' = i + 1
  /\ UNCHANGED <<sse2, in, where, status>>

Return ==
  /\ status = "running"
  /\ IF sse2 THEN where >= InBlocks /\ i = Rest ELSE i = Length
  /\ status' = "done"
  /\ UNCHANGED <<sse2, in, result, where, i>>

Next == Block \/ Remainder \/ OneByOne \/ Return

-----------------------------------------------------------------------------

(* The float that is the finite half h of 0 and above: its exponent and    *)
(* its mantissa.                                                           *)
Widened(h) ==
  LET top == CHOOSE b \in 0 .. 9 : 2 ^ b <= h /\ h < 2 ^ (b + 1)
  IN IF h = 0 THEN <<0, 0>>
     ELSE IF h < 1024 THEN <<top + 103, (h - 2 ^ top) * 2 ^ (23 - top)>>
     ELSE <<h \div 1024 + 112, (h % 1024) * 2 ^ 13>>

AtMost(x, y) == x[1] < y[1] \/ (x[1] = y[1] /\ x[2] <= y[2])

Infinity == 31 * 1024

(* An infinity stays one. A NaN stays one, with the ten bits of its        *)
(* mantissa that a half has room for; if these are 0, it does not, against *)
(* the comment in halfData, and nothing is claimed of what it becomes.     *)
StaysSpecial(f, a) ==
  /\ f.man = 0 => a = Infinity
  /\ f.man >= 2 ^ 13 => a \in Infinity + 1 .. Infinity + 1023 /\ a = Infinity + f.man \div 2 ^ 13

(* The half that a float becomes is the next one towards zero: among the   *)
(* halves there is none between the two. What is too large is infinite.    *)
IsTowardsZero(f, h) ==
  LET x == <<f.exp, f.man>>
      a == h - Sign(f)
  IN IF f.exp = 255 THEN StaysSpecial(f, a)
     ELSE IF f.exp >= 143 THEN a = Infinity
     ELSE /\ a \in 0 .. 31 * 1024 - 1
          /\ AtMost(Widened(a), x)
          /\ a + 1 < 31 * 1024 => ~AtMost(Widened(a + 1), x)

(* The result does not depend on the build, or on the place in the array,  *)
(* by more than this: SSE2 yields the next half if a float below 2^-14 was *)
(* rounded up to it. Every element is converted, unless SSE2 leaves two or *)
(* three for the loop over the rest, which then misses the array's end. Of *)
(* a NaN whose upper ten bits are 0 this says nothing: it becomes infinity.*)
HalvesAgree ==
  /\ \A j \in DOMAIN in :
       \/ result[j] = Nothing
       \/ IsTowardsZero(in[j], result[j])
       \/ /\ sse2 /\ j <= InBlocks
          /\ in[j].exp <= 112
          /\ IsTowardsZero(in[j], result[j] - 1)
          /\ Nearest(2 ^ 23 + in[j].man, 113 - in[j].exp) % 2 ^ 13 = 0
  /\ status = "done" => \A j \in DOMAIN in : result[j] # Nothing
  /\ status = "overrun" => sse2 /\ Rest >= 2

=============================================================================
