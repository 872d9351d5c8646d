---------------------------- MODULE Armv6Atomics ----------------------------
(***************************************************************************)
(* The atomic operations of armv6_atomics.c: retry loops around a          *)
(* compare-and-swap that consists of a load-exclusive and a conditional    *)
(* store-exclusive. The processor's exclusive monitor lets the store       *)
(* happen only if the word was not written since the thread's own load,    *)
(* and may forget a reservation at any time (interrupts do that).          *)
(***************************************************************************)
EXTENDS Naturals

CONSTANTS
  Threads,
  Modulus,      (* ints wrap: 2^32 in the program                           *)
  MaxCalls,     (* bound: calls each thread makes                           *)
  MaxLosses     (* bound: reservations lost without a write                 *)

ASSUME ConstantsAssumption ==
  /\ Modulus \in Nat \ {0, 1}
  /\ MaxCalls \in Nat
  /\ MaxLosses \in Nat

VARIABLES
  word,       (* *ptr                                                       *)
  reserved,   (* the threads whose monitor holds a reservation of it        *)
  pc,
  call,       (* of each thread: operation and arguments                    *)
  saved,      (* its local of that name, where its result ends up           *)
  old,        (* the arguments `int' and `ins' of armv6_cas_impl            *)
  ins,
  calls,      (* the calls each thread may still make                       *)
  losses      (* the losses of reservations there may still be              *)

vars == <<word, reserved, pc, call, saved, old, ins, calls, losses>>

Value == 0 .. (Modulus - 1)
Calls == [kind : {"cas"}, cmp : Value, val : Value]
           \cup [kind : {"swap", "add", "store"}, cmp : {0}, val : Value]

NoCall == [kind |-> "none", cmp |-> 0, val |-> 0]

Init ==
  /\ word \in Value
  /\ reserved = {}
  /\ pc = [t \in Threads |-> "idle"]
  /\ call = [t \in Threads |-> NoCall]
  /\ saved = [t \in Threads |-> 0]
  /\ old = [t \in Threads |-> 0]
  /\ ins = [t \in Threads |-> 0]
  /\ calls = [t \in Threads |-> MaxCalls]
  /\ losses = MaxLosses

Goto(t, from, to) ==
  /\ pc[t] = from
  /\ pc' = [pc EXCEPT ![t] = to]

(* armv6_inc and armv6_dec are "add" with 1 and, as ints wrap, -1.         *)
Begin(t) ==
  /\ calls[t] > 0
  /\ calls' = [calls EXCEPT ![t] = @ - 1]
  /\ \E c \in Calls :
       /\ call' = [call EXCEPT ![t] = c]
       /\ IF c.kind = "cas"
          THEN /\ Goto(t, "idle", "ldrex")
               /\ old' = [old EXCEPT ![t] = c.cmp]
               /\ ins' = [ins EXCEPT ![t] = c.val]
          ELSE /\ Goto(t, "idle", "read")
               /\ UNCHANGED <<old, ins>>
  /\ UNCHANGED <<word, reserved, saved, losses>>

Sum(a, b) == (a + b) % Modulus

(* saved = *x, and the arguments of the compare-and-swap made of it.       *)
Read(t) ==
  /\ Goto(t, "read", "ldrex")
  /\ saved' = [saved EXCEPT ![t] = word]
  /\ old' = [old EXCEPT ![t] = word]
  /\ ins' = [ins EXCEPT ![t] = IF call[t].kind = "add" THEN Sum(word, call[t].val)
                                                      ELSE call[t].val]
  /\ UNCHANGED <<word, reserved, call, calls, losses>>

(* Where a non-zero result of armv6_cas_impl leads.                        *)
Retry(t) == IF call[t].kind = "cas" THEN "reread" ELSE "read"

(* A mutant: the comparison before the store is left out.                  *)
LoadExclusiveOnly(t) ==
  /\ Goto(t, "ldrex", "strex")
  /\ reserved' = reserved \cup {t}
  /\ UNCHANGED <<word, call, saved, old, ins, calls, losses>>

(* ldrex and subs: strexeq is executed only if the difference is zero. No  *)
(* path clears the reservation.                                            *)
LoadExclusive(t) ==
  /\ Goto(t, "ldrex", IF word = old[t] THEN "strex" ELSE Retry(t))
  /\ reserved' = reserved \cup {t}
  /\ UNCHANGED <<word, call, saved, old, ins, calls, losses>>

(* A mutant: a plain store.                                                *)
StoreAlways(t) ==
  /\ Goto(t, "strex", "return")
  /\ word' = ins[t]
  /\ saved' = [saved EXCEPT ![t] = old[t]]
  /\ reserved' = {}
  /\ UNCHANGED <<call, old, ins, calls, losses>>

(* A mutant: a store that was done is reported as one that was not.        *)
StoreReportsFailure(t) ==
  /\ t \in reserved
  /\ Goto(t, "strex", Retry(t))
  /\ word' = ins[t]
  /\ reserved' = {}
  /\ UNCHANGED <<call, saved, old, ins, calls, losses>>

(* strexeq: a store ends every thread's reservation of the word, and a     *)
(* failed one the thread's own. armv6_cas returns t, the others saved.     *)
StoreExclusive(t) ==
  \/ /\ t \in reserved
     /\ Goto(t, "strex", "return")
     /\ word' = ins[t]
     /\ saved' = [saved EXCEPT ![t] = old[t]]
     /\ reserved' = {}
     /\ UNCHANGED <<call, old, ins, calls, losses>>
  \/ /\ t \notin reserved
     /\ Goto(t, "strex", Retry(t))
     /\ UNCHANGED <<word, reserved, call, saved, old, ins, calls, losses>>

(* armv6_cas: it fails only with a value that is not the expected one.     *)
Reread(t) ==
  /\ Goto(t, "reread", IF word = call[t].cmp THEN "ldrex" ELSE "return")
  /\ saved' = [saved EXCEPT ![t] = word]
  /\ UNCHANGED <<word, reserved, call, old, ins, calls, losses>>

Return(t) ==
  /\ Goto(t, "return", "idle")
  /\ UNCHANGED <<word, reserved, call, saved, old, ins, calls, losses>>

(* The processor forgets a reservation.                                    *)
LoseReservation(t) ==
  /\ t \in reserved
  /\ losses > 0
  /\ losses' = losses - 1
  /\ reserved' = reserved \ {t}
  /\ UNCHANGED <<word, pc, call, saved, old, ins, calls>>

Step(t) ==
  Read(t) \/ LoadExclusive(t) \/ StoreExclusive(t) \/ Reread(t) \/ Return(t)

Next == \E t \in Threads : Begin(t) \/ Step(t) \/ LoseReservation(t)

Spec == Init /\ [][Next]_vars

(* A thread inside a call keeps being scheduled.                           *)
FairSpec == Spec /\ \A t \in Threads : WF_vars(Step(t))

-----------------------------------------------------------------------------
Labels == {"idle", "read", "ldrex", "strex", "reread", "return"}

(* Types of the variables.                                                 *)
TypeOK ==
  /\ word \in Value
  /\ reserved \subseteq Threads
  /\ pc \in [Threads -> Labels]
  /\ call \in [Threads -> Calls \cup {NoCall}]
  /\ saved \in [Threads -> Value]
  /\ old \in [Threads -> Value]
  /\ ins \in [Threads -> Value]
  /\ calls \in [Threads -> Nat]
  /\ losses \in Nat

(* Why the store may be done without looking at the word again: while the  *)
(* reservation lasts, the word is the one that was compared.               *)
ReservationValid ==
  \A t \in Threads : pc[t] = "strex" /\ t \in reserved => word = old[t]

(* A call in progress, as its caller sees it.                              *)
OpView ==
  [t \in Threads |->
     CASE pc[t] = "idle"   -> [stage |-> "idle", call |-> NoCall, res |-> 0]
       [] pc[t] = "return" -> [stage |-> "done", call |-> call[t], res |-> saved[t]]
       [] OTHER            -> [stage |-> "pending", call |-> call[t], res |-> 0]]

Atomic == INSTANCE AtomicWord WITH op <- OpView

(* Each operation is atomic: no other operation's effect is lost, and each *)
(* returns the value that its own change replaced.                         *)
Linearizable == Atomic!Spec

(* Every operation returns: a store-exclusive fails only because another   *)
(* operation has succeeded, or because a reservation was lost, and there   *)
(* are finitely many of each.                                              *)
Termination == \A t \in Threads : pc[t] # "idle" ~> pc[t] = "idle"

=============================================================================
