---------------------------- MODULE ColorGrader ----------------------------
(***************************************************************************)
(* grader of color_grader.cpp, on one texel of its texture. A colour is    *)
(* three bytes. Doubles are modelled by the quotients they stand for: the  *)
(* operators below compute what the functions do to any three bytes, the   *)
(* rounding included. Only the hue may come out on either side of a tie.   *)
(*                                                                         *)
(* Brightness and contrast keep their defaults, with which                 *)
(* brightnessContrast changes nothing. The balances may be anything: what  *)
(* m_balanceLookup makes of the three bytes is any three bytes.            *)
(***************************************************************************)
EXTENDS Integers

CONSTANTS
  Coordinates,   (* in the texture: some of 0 .. 15                         *)
  Levels,        (* bytes that m_balanceLookup may yield                    *)
  MaxGrades      (* bound: calls of grade                                   *)

VARIABLES
  data,      (* the texel of m_data                                         *)
  m_preserveLuma,
  grades     (* the calls of grade                                          *)

Byte == 0 .. 255

Larger(a, b)  == IF a > b THEN a ELSE b
Smaller(a, b) == IF a < b THEN a ELSE b
Max3(c) == Larger(c[1], Larger(c[2], c[3]))
Min3(c) == Smaller(c[1], Smaller(c[2], c[3]))

(* u::round(n / d), for n of 0 and above.                                  *)
Round(n, d) == (2 * n + d) \div (2 * d)
IsTie(n, d) == (2 * n + d) % (2 * d) = 0

RGB2L(c) == Round(Max3(c) + Min3(c), 2)

(* 42.5 times the sextant and the place in it; the quotient is over        *)
(* 2 * delta.                                                              *)
Hue(c) ==
  LET delta == Max3(c) - Min3(c)
      h     == 85 * (IF c[1] = Max3(c) THEN c[2] - c[3]
                     ELSE IF c[2] = Max3(c) THEN 2 * delta + c[3] - c[1]
                     ELSE 4 * delta + c[1] - c[2])
  IN IF h < 0 THEN h + 255 * 2 * delta ELSE h

Saturation(c) ==
  LET sum == Max3(c) + Min3(c)
  IN Round(255 * (Max3(c) - Min3(c)), IF sum < 256 THEN sum ELSE 511 - sum)

RGB2HSL(c) ==
  LET delta == Max3(c) - Min3(c)
      h     == Round(Hue(c), 2 * delta)
  IN IF delta = 0 THEN {<<0, 0, RGB2L(c)>>}
     ELSE {<<i, Saturation(c), RGB2L(c)>> :
             i \in IF IsTie(Hue(c), 2 * delta) THEN {h, h - 1} ELSE {h}}

(* n1 and n2 are over 65025, the value is over 65025 * 85.                 *)
HSLINT(n1, n2, hue) ==
  LET h == IF hue > 255 THEN hue - 255 ELSE IF hue < 0 THEN hue + 255 ELSE hue
      v == IF 2 * h < 85 THEN n1 * 85 + (n2 - n1) * 2 * h
           ELSE IF 2 * h < 255 THEN n2 * 85
           ELSE IF h < 170 THEN n1 * 85 + (n2 - n1) * 2 * (170 - h)
           ELSE n1 * 85
  IN Round(v, 255 * 85)

HSL2RGB(c) ==
  LET h  == c[1]
      s  == c[2]
      l  == c[3]
      m2 == IF l < 128 THEN l * (255 + s) ELSE 255 * (l + s) - l * s
      m1 == 510 * l - m2
  IN IF s = 0 THEN <<l, l, l>>
     ELSE <<HSLINT(m1, m2, h + 85), HSLINT(m1, m2, h), HSLINT(m1, m2, h - 85)>>

(* A mutant: the lightness is that of the new colour.                      *)
GradedAnew(c, n) ==
  IF m_preserveLuma
  THEN {HSL2RGB([hsl EXCEPT ![3] = RGB2L(n)]) : hsl \in RGB2HSL(n)}
  ELSE {n}

(* What grade makes of the colour c, which the lookup turns into n.        *)
Graded(c, n) ==
  IF m_preserveLuma
  THEN {HSL2RGB([hsl EXCEPT ![3] = RGB2L(c)]) : hsl \in RGB2HSL(n)}
  ELSE {n}

(* generateTexture, and the other members' first values.                   *)
Init ==
  /\ data \in {<<17 * x, 17 * y, 17 * z>> : x, y, z \in Coordinates}
  /\ m_preserveLuma = TRUE
  /\ grades = 0

SetLuma(keep) ==
  /\ m_preserveLuma' = keep
  /\ UNCHANGED <<data, grades>>

(* grade works on what it made the last time.                              *)
Grade(n) ==
  /\ grades < MaxGrades
  /\ grades' = grades + 1
  /\ data' \in Graded(data, n)
  /\ UNCHANGED m_preserveLuma

Next ==
  \/ \E keep \in BOOLEAN : SetLuma(keep)
  \/ \E n \in Levels \X Levels \X Levels \cup {data} : Grade(n)

-----------------------------------------------------------------------------

(* "With the option to preserve luminosity": whatever the balances do to a *)
(* colour, and however often it is graded, its lightness is exactly what   *)
(* it was, and every channel fits in its byte. When they do nothing, the   *)
(* way to HSL and back moves no channel by more than 4.                    *)
KeepsLuma ==
  m_preserveLuma /\ data' # data =>
    /\ RGB2L(data') = RGB2L(data)
    /\ data' \in Byte \X Byte \X Byte
    /\ data' \in Graded(data, data) =>
         \A i \in 1 .. 3 : data'[i] - data[i] \in -4 .. 4

=============================================================================
