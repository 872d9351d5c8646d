------------------------- MODULE MCHashtableHistory -------------------------
(***************************************************************************)
(* Instances of HashtableHistory for TLC: which thread calls what, and how *)
(* often.                                                                  *)
(***************************************************************************)
EXTENDS HashtableHistory, TLC

(* Thread 1 owns the table.                                                *)
InsertersAndFinders == (1 :> {"insert", "find", "destroy"}) @@ (2 :> {"insert", "find"})
Everyone == [t \in Threads |-> {"insert", "delete", "find"}]

(* Thread 1 changes the table while thread 2 searches it.                  *)
ChangerAndFinder == (1 :> {"insert", "delete"}) @@ (2 :> {"find"})

Once  == [t \in Threads |-> 1]
Twice == [t \in Threads |-> 2]
ThriceAndOnce == (1 :> 3) @@ (2 :> 1)

=============================================================================
