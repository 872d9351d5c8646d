------------------------ MODULE MCLockFreeHashtable ------------------------
(***************************************************************************)
(* Instances of LockFreeHashtable for TLC: which thread calls what, and    *)
(* how often.                                                              *)
(***************************************************************************)
EXTENDS LockFreeHashtable

Inserters == [t \in Threads |-> {"insert"}]
Changers  == [t \in Threads |-> {"insert", "delete"}]

Twice == [t \in Threads |-> 2]

=============================================================================
