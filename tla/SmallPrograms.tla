--------------------------- MODULE SmallPrograms ----------------------------
(***************************************************************************)
(* The small sequential programs of the repository side by side: the sort  *)
(* of distance_sort_magic.cpp, the halves of half_float.cpp, the colours   *)
(* of color_grader.cpp, the lines of getline.c, the text of                *)
(* perl_regex_preprocessor_macros.c, the table of small_hashtable.c. They  *)
(* share nothing; a behaviour is one of one of them, and the variables of  *)
(* the others are Nil. SearchTrees adds two programs that are recursive.   *)
(***************************************************************************)
EXTENDS Integers, Sequences

CONSTANTS
  kHist, Top, MaxElements,                   (* see RadixSort               *)
  Arrays, Nil,                               (* see HalfFloat               *)
  Coordinates, Levels, MaxGrades,            (* see ColorGrader             *)
  Sizes, MaxLine, IntMax, Memory,            (* see Getline                 *)
  Pieces, MaxPieces, Chunk, Capacity,        (* see Preprocessor            *)
  SIZE, TableKeys, Vals                      (* see SmallHashtable          *)

ASSUME SortAssumption ==
  /\ kHist \in Nat \ {0}
  /\ Top \in Nat \ {0} /\ Top = 2 * (Top \div 2)
  /\ MaxElements \in Nat

ASSUME GradeAssumption == Coordinates \subseteq 0 .. 15 /\ Levels \subseteq 0 .. 255

ASSUME GetlineAssumption == Sizes \subseteq Nat /\ IntMax \in Nat /\ Memory \in Nat

VARIABLES
  program,
  contents, sorted, hist, pass, moved, unsorted,
  sse2, in, result, where, turn, status,
  texel, m_preserveLuma, grades,
  alloc, n, chr, pos, fed, stream, outcome,
  given, text, i, o, out, data, list, applied, phase,
  tab, state, kept

sortVars    == <<contents, sorted, hist, pass, moved, unsorted>>
halfVars    == <<sse2, in, result, where, turn, status>>
gradeVars   == <<texel, m_preserveLuma, grades>>
getlineVars == <<alloc, n, chr, pos, fed, stream, outcome>>
macroVars   == <<given, text, i, o, out, data, list, applied, phase>>
tableVars   == <<tab, state, kept>>

Sort  == INSTANCE RadixSort WITH given <- unsorted
Half  == INSTANCE HalfFloat WITH i <- turn, Nothing <- Nil
Grade == INSTANCE ColorGrader WITH data <- texel
Lines == INSTANCE Getline
Macro == INSTANCE Preprocessor
Table == INSTANCE SmallHashtable WITH Keys <- TableKeys, Empty <- Nil, contents <- kept

SortIdle  == /\ contents = Nil /\ sorted = Nil /\ hist = Nil /\ pass = Nil
             /\ moved = Nil /\ unsorted = Nil
HalfIdle  == sse2 = Nil /\ in = Nil /\ result = Nil /\ where = Nil /\ turn = Nil /\ status = Nil
GradeIdle == texel = Nil /\ m_preserveLuma = FALSE /\ grades = Nil
LinesIdle == /\ alloc = Nil /\ n = Nil /\ chr = Nil /\ pos = Nil /\ fed = Nil
             /\ stream = Nil /\ outcome = Nil
MacroIdle == /\ given = Nil /\ text = Nil /\ i = Nil /\ o = Nil /\ out = Nil
             /\ data = Nil /\ list = Nil /\ applied = Nil /\ phase = Nil
TableIdle == tab = Nil /\ state = Nil /\ kept = Nil

ASSUME MacroAssumption ==
  /\ Pieces \subseteq {"code", "slash", "define", "line", "block", "string", "char", "macro",
                      "openLine", "openBlock", "openString", "halfMacro", "lastMacro"}
  /\ MaxPieces \in Nat
  /\ Chunk \in Nat \ {0} /\ Capacity \in Nat /\ Chunk <= Capacity

ASSUME HalfAssumption == Arrays \subseteq Seq(Half!Floats) /\ Nil \notin Int

ASSUME TableAssumption ==
  /\ SIZE \in Nat \ {0}
  /\ TableKeys \subseteq Int
  /\ Nil \notin [key : TableKeys, val : Vals]

Is(p, init, idle) == IF program = p THEN init ELSE idle

Programs == {"sort", "half", "grade", "getline", "macros", "table"}

(* How the program begins, whichever it is.                                *)
Start ==
  /\ Is("sort", Sort!Init, SortIdle)
  /\ Is("half", Half!Init, HalfIdle)
  /\ Is("grade", Grade!Init, GradeIdle)
  /\ Is("getline", Lines!Init, LinesIdle)
  /\ Is("macros", Macro!Init, MacroIdle)
  /\ Is("table", Table!Init, TableIdle)

Init == program \in Programs /\ Start

Sorting ==
  /\ program = "sort" /\ Sort!Next
  /\ UNCHANGED <<program, halfVars, gradeVars, getlineVars, macroVars, tableVars>>

Converting ==
  /\ program = "half" /\ Half!Next
  /\ UNCHANGED <<program, sortVars, gradeVars, getlineVars, macroVars, tableVars>>

Grading ==
  /\ program = "grade" /\ Grade!Next
  /\ UNCHANGED <<program, sortVars, halfVars, getlineVars, macroVars, tableVars>>

Reading ==
  /\ program = "getline" /\ Lines!Next
  /\ UNCHANGED <<program, sortVars, halfVars, gradeVars, macroVars, tableVars>>

Preprocessing ==
  /\ program = "macros" /\ Macro!Next
  /\ UNCHANGED <<program, sortVars, halfVars, gradeVars, getlineVars, tableVars>>

Tabling ==
  /\ program = "table" /\ Table!Next
  /\ UNCHANGED <<program, sortVars, halfVars, gradeVars, getlineVars, macroVars>>

Next == Sorting \/ Converting \/ Grading \/ Reading \/ Preprocessing \/ Tabling

vars == <<program, sortVars, halfVars, gradeVars, getlineVars, macroVars, tableVars>>

Spec == Init /\ [][Next]_vars

-----------------------------------------------------------------------------

(* distance_sort_magic.cpp: three passes over the digits sort floats of    *)
(* any sign, and keep the order of equal ones, see RadixSort.              *)
SortsByDistance == program = "sort" => Sort!SortsByDistance

(* half_float.cpp: both ways to convert a float yield the half next to it, *)
(* see HalfFloat.                                                          *)
HalvesAgree == program = "half" => Half!HalvesAgree

(* color_grader.cpp: grading preserves the lightness, see ColorGrader.     *)
LumaPreserved == [][program = "grade" => Grade!KeepsLuma]_texel

(* getline.c: a line is returned whole, see Getline.                       *)
LinesKept == program = "getline" => Lines!LinesKept

(* perl_regex_preprocessor_macros.c: comments, but for the marks that end  *)
(* them, and macros are taken out, and nothing else, see Preprocessor.     *)
ScansLikeC == program = "macros" => Macro!ScansLikeC

(* perl_regex_preprocessor_macros.c: comments are skipped altogether, see  *)
(* Preprocessor.                                                           *)
CommentsTakenOut == program = "macros" => Macro!CommentsTakenOut

(* small_hashtable.c: a key is found in the table as long as it has room,  *)
(* see SmallHashtable.                                                     *)
TableFinds == program = "table" => Table!TableFinds

=============================================================================
