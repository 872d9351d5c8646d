------------------------------ MODULE Getline ------------------------------
(***************************************************************************)
(* my_getline of getline.c, called again and again with the same buffer.   *)
(* A turn of its loop is one step. What fgetc returns, and whether malloc  *)
(* and realloc succeed, is not the function's choice.                      *)
(*                                                                         *)
(* chr is an int, made from sizes that are not. What does not fit wraps,   *)
(* and pos, which is computed from chr when the buffer grows, goes where   *)
(* that leads. *n itself cannot overflow when it doubles: a block of *n    *)
(* bytes exists.                                                           *)
(***************************************************************************)
EXTENDS Integers

CONSTANTS
  Sizes,     (* of the buffer that the first call is given; 0: none         *)
  MaxLine,   (* bound: the characters of a line                             *)
  IntMax,    (* 2^31 - 1                                                    *)
  Memory     (* the largest block that realloc can give                     *)

VARIABLES
  alloc,     (* the bytes behind *lineptr; 0: a null pointer                *)
  n, chr,
  pos,       (* its distance from *lineptr                                  *)
  fed,       (* the characters that fgetc gave this call                    *)
  stream,    (* "good", "end" or "broken"                                   *)
  outcome    (* "reading", what the last call returned, or "overrun"        *)

(* A size_t or a difference of pointers as an int.                         *)
AsInt(x) == ((x + IntMax + 1) % (2 * (IntMax + 1))) - (IntMax + 1)

(* A mutant: *n becomes what it should grow by.                            *)
GrownFrom0(size) == IF size > 16 THEN size ELSE 64

Grown(size) == size + (IF size > 16 THEN size ELSE 64)

Init ==
  /\ alloc \in Sizes
  /\ n = alloc
  /\ chr = 0 /\ pos = 0 /\ fed = 0
  /\ stream = "good"
  /\ outcome = "idle"

(* What comes before the loop.                                             *)
Begin ==
  /\ outcome \in {"idle", "line", "none"}
  /\ pos' = 0 /\ fed' = 0
  /\ n' = IF alloc = 0 THEN 64 ELSE n
  /\ \/ alloc' = n' /\ chr' = AsInt(n') /\ outcome' = "reading"
     \/ alloc = 0 /\ outcome' = "none" /\ UNCHANGED <<alloc, chr>>
  /\ UNCHANGED stream

(* Buffer and locals once there is room, which is before the character is  *)
(* looked at.                                                              *)
Room ==
  LET size == Grown(n)
      left == AsInt(size - pos)
  IN IF chr < 2 THEN [n |-> size, chr |-> left, pos |-> size - left]
     ELSE [n |-> n, chr |-> chr, pos |-> pos]

HasRoom ==
  /\ chr < 2 => Room.n <= Memory
  /\ n' = Room.n /\ alloc' = Room.n

(* If the buffer cannot grow, the character is gone, and with it the line: *)
(* no pointer leads to it now.                                             *)
OutOfMemory ==
  /\ chr < 2
  /\ n' = Grown(n)
  /\ chr' = AsInt(n' - pos)
  /\ alloc' = 0
  /\ outcome' = "none"
  /\ UNCHANGED pos

(* The byte that ends the string is written to p.                          *)
Ended(p) == IF p < Room.n THEN "line" ELSE "overrun"

(* fgetc returns a character, which may end the line.                      *)
Character ==
  /\ outcome = "reading" /\ stream = "good"
  /\ fed < MaxLine
  /\ fed' = fed + 1
  /\ \/ /\ HasRoom
        /\ pos' = Room.pos + 1 /\ chr' = Room.chr - 1
        /\ outcome' \in IF Room.pos < Room.n THEN {"reading", Ended(pos')} ELSE {"overrun"}
     \/ OutOfMemory
  /\ UNCHANGED stream

(* fgetc returns EOF. A line that has no end is a line.                    *)
EndOfFile ==
  /\ outcome = "reading" /\ stream # "broken"
  /\ stream' = "end"
  /\ \/ /\ HasRoom
        /\ pos' = Room.pos /\ chr' = Room.chr
        /\ outcome' = IF pos' = 0 THEN "none" ELSE Ended(pos')
     \/ OutOfMemory
  /\ UNCHANGED fed

ReadError ==
  /\ outcome = "reading"
  /\ stream' = "broken"
  /\ \/ HasRoom /\ pos' = Room.pos /\ chr' = Room.chr /\ outcome' = "none"
     \/ OutOfMemory
  /\ UNCHANGED fed

Next == Begin \/ Character \/ EndOfFile \/ ReadError

-----------------------------------------------------------------------------

(* As long as the size of the buffer is an int: while a line is read, and  *)
(* when it is returned, all its characters are in the buffer, with a byte  *)
(* to spare for the one that ends the string; the counters agree with the  *)
(* buffer, however it grew; nothing is written behind it. Characters that  *)
(* were read are only lost to a failure of realloc or of the stream. Of    *)
(* larger buffers nothing is promised: chr has wrapped, and what is        *)
(* written may lie behind them.                                            *)
LinesKept ==
  n <= IntMax =>
    /\ alloc \in {0, n}
    /\ outcome = "reading" => alloc = n /\ chr = n - pos
    /\ outcome \in {"reading", "line"} => fed = pos /\ (pos > 0 => pos < alloc)
    /\ outcome = "none" /\ fed > 0 => alloc = 0 \/ stream = "broken"
    /\ outcome # "overrun"

=============================================================================
