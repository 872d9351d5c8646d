---------------------------- MODULE Preprocessor ----------------------------
(***************************************************************************)
(* perl_regex_preprocessor_macros.c: a text is read, its comments and its  *)
(* macros #define s/.../.../ are taken out, and the macros' substitutions  *)
(* are applied to what is left, by perl. A character that matters stands   *)
(* for itself, "quote" for a double one, "c" for any other, and "#define"  *)
(* is taken as one.                                                        *)
(*                                                                         *)
(* process takes one step for each turn of its loop, read one for each     *)
(* call of fread. Inputs are put together from pieces of C.                *)
(***************************************************************************)
EXTENDS Naturals, Sequences

CONSTANTS
  Pieces,      (* names of pieces, see below                                *)
  MaxPieces,   (* bound: the pieces of an input                             *)
  Chunk,       (* 1024: what one fread returns                              *)
  Capacity     (* 2^20: what a buffer begins with                           *)

Seqs == INSTANCE SequencesExt

VARIABLES
  given,       (* the pieces of the input                                   *)
  text,        (* its characters                                            *)
  i, o,        (* the buffers of main, without what is in them              *)
  out,         (* what is in o                                              *)
  data,        (* the place in the text                                     *)
  list,        (* the macros not yet applied                                *)
  applied,     (* those perl has applied to the file                        *)
  phase

Characters(piece) ==
  CASE piece = "code"     -> <<"c">>
    [] piece = "slash"    -> <<"/">>
    [] piece = "define"   -> <<"#define", "sp", "c">>
    [] piece = "line"     -> <<"/", "/", "*", "'", "nl">>
    [] piece = "block"    -> <<"/", "*", "c", "/", "/", "nl", "*", "/">>
    [] piece = "string"   -> <<"quote", "/", "*", "'", "quote">>
    [] piece = "char"     -> <<"'", "quote", "'">>
    [] piece = "macro"    -> <<"#define", "sp", "s", "/", "c", "/", "'", "/", "nl">>
    [] piece = "openLine" -> <<"/", "/", "c">>
    [] piece = "openBlock"  -> <<"/", "*", "c">>
    [] piece = "openString" -> <<"quote", "c", "nl">>
    [] piece = "halfMacro"  -> <<"#define", "s", "/", "c", "/", "nl">>
    [] piece = "lastMacro"  -> <<"#define", "s", "/", "/", "/">>

BufferInit == [capacity |-> Capacity, length |-> 0]

(* A mutant: no byte is left for the one that ends the text.               *)
BufferAppendTight(b, length) ==
  [length   |-> b.length + length,
   capacity |-> IF b.length + length > b.capacity THEN 2 * b.capacity ELSE b.capacity]

(* The capacity is doubled once.                                           *)
BufferAppend(b, length) ==
  [length   |-> b.length + length,
   capacity |-> IF b.length + length >= b.capacity THEN 2 * b.capacity ELSE b.capacity]

(* Characters are appended one at a time.                                  *)
AppendEach(b, count) ==
  LET after[k \in 0 .. count] == IF k = 0 THEN b ELSE BufferAppend(after[k - 1], 1)
  IN after[count]

At(k) == IF k \in DOMAIN text THEN text[k] ELSE "NUL"

(* The first place from k on with one of the characters, if any.           *)
Places(k, chars) == {p \in k .. Len(text) + 1 : At(p) \in chars}
First(places)    == CHOOSE p \in places : \A q \in places : p <= q

Init ==
  /\ \E n \in 0 .. MaxPieces : given \in [1 .. n -> Pieces]
  /\ text = Seqs!FlattenSeq([p \in DOMAIN given |-> Characters(given[p])])
  /\ i = BufferInit /\ o = BufferInit
  /\ out = <<>> /\ list = <<>> /\ applied = <<>>
  /\ data = 1
  /\ phase = "reading"

Crash(how) ==
  /\ phase' = how
  /\ UNCHANGED <<given, text, i, o, out, data, list, applied>>

(* If a buffer is to grow and cannot, main gives up.                       *)
CanFail(before, after) == before.capacity < after.capacity /\ Crash("aborted")

Read ==
  LET left  == Len(text) - i.length
      count == IF left < Chunk THEN left ELSE Chunk
      b     == BufferAppend(i, count)
  IN /\ phase = "reading"
     /\ \/ /\ i' = b
           /\ phase' = IF count < Chunk THEN "scanning" ELSE "reading"
           /\ UNCHANGED <<given, text, o, out, data, list, applied>>
        \/ CanFail(i, b)

(* What every turn ends with: the character at end is kept, even the one   *)
(* that ends the text, behind which the loop then goes on.                 *)
Advance(kept, end, entries) ==
  LET b == AppendEach(o, Len(kept) + 1)
  IN \/ /\ out' = out \o kept \o <<At(end)>>
        /\ o' = b
        /\ data' = end + 1
        /\ list' = entries
        /\ phase' = IF end > Len(text) THEN "wild" ELSE "scanning"
        /\ UNCHANGED <<given, text, i, applied>>
     \/ CanFail(o, b)

Opens(a, b) == phase = "scanning" /\ At(data) = a /\ At(data + 1) = b

LineComment ==
  /\ Opens("/", "/")
  /\ Advance(<<>>, First(Places(data, {"nl", "NUL"})), list)

(* The place where the comment ends is its "*".                            *)
BlockComment ==
  LET ends == {p \in Places(data, {"*"}) : At(p + 1) = "/"}
  IN /\ Opens("/", "*")
     /\ IF ends = {} THEN Crash("wild") ELSE Advance(<<>>, First(ends), list)

Quoted ==
  LET end == First(Places(data + 1, {At(data), "NUL"}))
  IN /\ phase = "scanning"
     /\ At(data) \in {"'", "quote"}
     /\ Advance(SubSeq(text, data, end - 1), end, list)

(* Where s/ is looked for, behind #define. A macro may find no memory.      *)
Macro     == First(Places(data + 1, {At(p) : p \in 1 .. Len(text) + 1} \ {"sp", "nl"}))
IsMacro   == At(data) = "#define" /\ At(Macro) = "s" /\ At(Macro + 1) = "/"

Define ==
  LET begin  == Macro + 2
      search == Places(begin, {"/"})
      middle == First(search)
      replace == search \ {middle}
      end    == First(replace)
  IN /\ phase = "scanning" /\ IsMacro
     /\ IF search = {} THEN Crash("wild")
        ELSE IF replace = {} THEN Crash("aborted")
        ELSE \/ Advance(<<>>, end + 1, Append(list, <<SubSeq(text, begin, middle - 1),
                                                      SubSeq(text, middle + 1, end - 1)>>))
             \/ Crash("aborted")

Other ==
  /\ phase = "scanning"
  /\ At(data) \notin {"NUL", "'", "quote"}
  /\ ~Opens("/", "/") /\ ~Opens("/", "*")
  /\ ~IsMacro
  /\ Advance(<<>>, data, list)

(* The file is written.                                                    *)
EndOfText ==
  /\ phase = "scanning" /\ At(data) = "NUL"
  /\ phase' = "applying"
  /\ UNCHANGED <<given, text, i, o, out, data, list, applied>>

(* perl changes the file; the macro is destroyed.                          *)
Apply ==
  /\ phase = "applying" /\ list # <<>>
  /\ applied' = Append(applied, Head(list))
  /\ list' = Tail(list)
  /\ UNCHANGED <<given, text, i, o, out, data, phase>>

Finish ==
  /\ phase = "applying" /\ list = <<>>
  /\ phase' = "done"
  /\ UNCHANGED <<given, text, i, o, out, data, list, applied>>

Next ==
  \/ Read
  \/ LineComment \/ BlockComment \/ Quoted \/ Define \/ Other
  \/ EndOfText \/ Apply \/ Finish

-----------------------------------------------------------------------------

(* What should be left of a piece by itself: comments are skipped.         *)
Kept(piece) ==
  CASE piece \in {"line", "macro"} -> <<"nl">>
    [] piece = "block"             -> <<>>
    [] OTHER                       -> Characters(piece)

(* What is left where each comment /* */ may leave its end mark.           *)
KeptWith(marks) ==
  Seqs!FlattenSeq([p \in DOMAIN given |-> IF given[p] = "block" THEN marks[p] ELSE Kept(given[p])])

Open == {"openLine", "openBlock", "openString", "halfMacro", "lastMacro"}

(* A slash at the end of a piece makes a comment of a piece that begins    *)
(* with one.                                                               *)
Meet(pieces) ==
  \E p \in 1 .. Len(given) - 1 :
    /\ given[p] \in pieces
    /\ given[p + 1] \in {"slash", "line", "block", "openLine", "openBlock"}

Mixed == Meet({"slash", "block"})

Ends == given # <<>> /\ given[Len(given)] \in Open

(* For texts whose comments, strings and macros all end, and do not touch: *)
(* the same is left of a piece wherever it stands, so that nothing in a    *)
(* comment or a string is taken for a macro, or the other way round; of a  *)
(* comment /* */ no more than the mark that ends it is left; the macros    *)
(* are applied once each, in order. The loop gets past the end of the text *)
(* only if its last piece is open. The buffers always have room for the    *)
(* byte that ends them.                                                    *)
ScansLikeC ==
  /\ \A b \in {i, o} : b.length < b.capacity
  /\ o.length = Len(out)
  /\ ~Mixed /\ (\A p \in 1 .. Len(given) - 1 : given[p] \notin Open) =>
       /\ phase = "done" =>
            /\ ~Ends
            /\ \E marks \in [DOMAIN given -> {<<>>, <<"*", "/">>}] : out = KeptWith(marks)
            /\ applied = Seqs!FlattenSeq([p \in DOMAIN given |->
                 IF given[p] = "macro" THEN <<<<<<"c">>, <<"'">>>>>> ELSE <<>>])
       /\ phase = "wild" => Ends

(* Comments are skipped, as the comments in process say: nothing is left   *)
(* of a comment /* */, not the mark that ends it either, whose slash may   *)
(* begin another comment with what comes next.                             *)
CommentsTakenOut ==
  /\ phase = "done"
  /\ ~Meet({"slash"}) /\ \A p \in DOMAIN given : given[p] \notin Open
  => out = Seqs!FlattenSeq([p \in DOMAIN given |-> Kept(given[p])])

=============================================================================
