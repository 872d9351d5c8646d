----------------------------- MODULE AtomicWord -----------------------------
(***************************************************************************)
(* What the operations of armv6_atomics.c promise: each of them reads and  *)
(* changes the word at one instant between its call and its return.        *)
(***************************************************************************)
EXTENDS Naturals

CONSTANTS Threads, Modulus

Value == 0 .. (Modulus - 1)

(* A call: what it compares the word with (cas only) and its operand.      *)
Calls == [kind : {"cas"}, cmp : Value, val : Value]
           \cup [kind : {"swap", "add", "store"}, cmp : {0}, val : Value]

VARIABLES
  word,   (* the shared word                                                *)
  op      (* of each thread: its call, how far it has come, its result      *)

vars == <<word, op>>

NoOp == [stage |-> "idle", call |-> [kind |-> "none", cmp |-> 0, val |-> 0], res |-> 0]

(* The word after call c took effect on value w. Every call that returns a *)
(* value returns the one the word had before.                              *)
Apply(c, w) ==
  CASE c.kind = "cas"              -> IF w = c.cmp THEN c.val ELSE w
    [] c.kind \in {"swap", "store"} -> c.val
    [] c.kind = "add"              -> (w + c.val) % Modulus

Init ==
  /\ word \in Value
  /\ op = [t \in Threads |-> NoOp]

Call(t) ==
  /\ op[t].stage = "idle"
  /\ \E c \in Calls : op' = [op EXCEPT ![t] = [stage |-> "pending", call |-> c, res |-> 0]]
  /\ UNCHANGED word

TakeEffect(t) ==
  /\ op[t].stage = "pending"
  /\ word' = Apply(op[t].call, word)
  /\ op' = [op EXCEPT ![t] = [stage |-> "done", call |-> op[t].call, res |-> word]]

Return(t) ==
  /\ op[t].stage = "done"
  /\ op' = [op EXCEPT ![t] = NoOp]
  /\ UNCHANGED word

Next == \E t \in Threads : Call(t) \/ TakeEffect(t) \/ Return(t)

Spec == Init /\ [][Next]_vars

=============================================================================
