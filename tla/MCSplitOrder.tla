---------------------------- MODULE MCSplitOrder ----------------------------
(***************************************************************************)
(* An instance for TLC of SplitOrderDoubling, with BitReversal's machine   *)
(* beside it: words of Width = 8 bits are the bytes that the macros of     *)
(* lock_free_hashtable.c reverse. The byte is reversed, then used.         *)
(***************************************************************************)
EXTENDS SplitOrderDoubling

VARIABLES k, i, r

Loop == INSTANCE BitReversal

(* The bits of a number that are set.                                      *)
Bits(w) == {n \in 0 .. (Width - 1) : Bit(w, n) = 1}

(* Words with byte b in one place and zeroes elsewhere, or in all four: of *)
(* the words there are, TLC looks at these.                                *)
WordsOf(b) == {Loop!ShiftLeft(b, p) : p \in Loop!Place} \cup {Loop!Times(b, Loop!Place)}

MCInit == Init /\ k \in WordsOf(Bits(hash)) /\ Loop!Init

MCNext ==
  \/ Loop!Next /\ UNCHANGED vars
  \/ i = 32 /\ Double /\ UNCHANGED <<k, i, r>>

MCSpec == MCInit /\ [][MCNext]_<<vars, k, i, r>>

(* The fast reversal of a word computes what the loop kept for reference   *)
(* computes where longs have 64 bits, and adds bits to it where they have  *)
(* 32; no product carries (see BitReversal). Where longs have 64 bits it is*)
(* what Reversed says, by which SplitOrder defines the codes without any   *)
(* arithmetic: for words of 32 bits, and for those of TLC's instance, which*)
(* are bytes.                                                              *)
AgreesWithReference ==
  /\ Loop!AgreesWithReference
  /\ Loop!LeaksOnlyAdd
  /\ Loop!CarryFree
  /\ Width = 32 => Bits(Reversed[hash]) = Loop!Rvalue(Bits(hash))
  /\ Width = 8 => Bits(Reversed[hash]) = Loop!Byte64(Bits(hash))

(* A key comes behind its bucket's dummy node, whichever macro the width of*)
(* a long selects and however large the table is, see BitReversal.         *)
DummyFirst == Loop!DummyFirst

=============================================================================
