------------------------ MODULE Armv6AtomicsProofs ------------------------
(***************************************************************************)
(* Armv6Atomics implements AtomicWord, for any number of threads and any   *)
(* size of the word. The inductive invariant is that a reservation that    *)
(* still holds vouches for the value compared, and that the value to store *)
(* is what the operation makes of that value.                              *)
(***************************************************************************)
EXTENDS Armv6Atomics, TLAPS

(* What armv6_cas_impl was called with belongs to the operation.           *)
Arguments ==
  \A t \in Threads :
    /\ pc[t] # "idle" => call[t] \in Calls
    /\ pc[t] \in {"ldrex", "strex", "reread"} => ins[t] = Atomic!Apply(call[t], old[t])
    /\ pc[t] \in {"ldrex", "strex", "reread"} /\ call[t].kind = "cas" => old[t] = call[t].cmp
    /\ pc[t] = "reread" => call[t].kind = "cas"
    /\ pc[t] = "read" => call[t].kind # "cas"

IInv == TypeOK /\ ReservationValid /\ Arguments

(* Sums wrap: they are values of the word's type.                          *)
LEMMA SumType == \A a, b \in Value : Sum(a, b) \in Value
BY ConstantsAssumption DEF Sum, Value

(* The initial states satisfy the inductive invariant.                     *)
LEMMA InitIInv == Init => IInv
BY ConstantsAssumption DEF Init, IInv, TypeOK, ReservationValid, Arguments, Labels, NoCall, Value

(* Every step preserves it.                                                *)
LEMMA StepIInv == IInv /\ [Next]_vars => IInv'
<1> SUFFICES ASSUME IInv, [Next]_vars PROVE IInv'
  OBVIOUS
<1> USE DEF Goto, Retry
<1>1. ASSUME NEW t \in Threads, Begin(t) PROVE IInv'
  <2>1. PICK c \in Calls :
          /\ call' = [call EXCEPT ![t] = c]
          /\ IF c.kind = "cas"
             THEN /\ Goto(t, "idle", "ldrex")
                  /\ old' = [old EXCEPT ![t] = c.cmp]
                  /\ ins' = [ins EXCEPT ![t] = c.val]
             ELSE /\ Goto(t, "idle", "read")
                  /\ UNCHANGED <<old, ins>>
    BY <1>1 DEF Begin
  <2>2. c.cmp \in Value /\ c.val \in Value
    BY ConstantsAssumption DEF Calls, Value
  <2>3. TypeOK'
    BY <1>1, <2>1, <2>2 DEF Begin, IInv, TypeOK, Labels
  <2>4. ReservationValid'
    BY <1>1, <2>1 DEF Begin, IInv, TypeOK, ReservationValid
  <2>5. Arguments'
    <3>1. CASE c.kind = "cas"
      <4>1. Atomic!Apply(c, c.cmp) = c.val
        BY <3>1 DEF Atomic!Apply
      <4> QED BY <1>1, <2>1, <3>1, <4>1 DEF Begin, IInv, TypeOK, Arguments
    <3>2. CASE c.kind # "cas"
      BY <1>1, <2>1, <3>2 DEF Begin, IInv, TypeOK, Arguments
    <3> QED BY <3>1, <3>2
  <2> QED BY <2>3, <2>4, <2>5 DEF IInv
<1>2. ASSUME NEW t \in Threads, Read(t) PROVE IInv'
  <2>1. call[t] \in Calls /\ call[t].val \in Value /\ word \in Value
    BY <1>2 DEF Read, IInv, Arguments, Calls, TypeOK
  <2>2. TypeOK'
    BY <1>2, <2>1, SumType DEF Read, IInv, TypeOK, Labels
  <2>3. ReservationValid'
    BY <1>2 DEF Read, IInv, TypeOK, ReservationValid
  <2>4. Arguments'
    BY <1>2, <2>1 DEF Read, IInv, TypeOK, Arguments, Atomic!Apply, Sum, Calls
  <2> QED BY <2>2, <2>3, <2>4 DEF IInv
<1>3. ASSUME NEW t \in Threads, LoadExclusive(t) PROVE IInv'
  <2>1. TypeOK'
    BY <1>3 DEF LoadExclusive, IInv, TypeOK, Labels
  <2>2. ReservationValid'
    BY <1>3 DEF LoadExclusive, IInv, TypeOK, ReservationValid
  <2>3. Arguments'
    BY <1>3 DEF LoadExclusive, IInv, TypeOK, Arguments
  <2> QED BY <2>1, <2>2, <2>3 DEF IInv
<1>4. ASSUME NEW t \in Threads, StoreExclusive(t) PROVE IInv'
  <2>1. TypeOK'
    BY <1>4 DEF StoreExclusive, IInv, TypeOK, Labels
  <2>2. ReservationValid'
    BY <1>4 DEF StoreExclusive, IInv, TypeOK, ReservationValid
  <2>3. Arguments'
    BY <1>4 DEF StoreExclusive, IInv, TypeOK, Arguments
  <2> QED BY <2>1, <2>2, <2>3 DEF IInv
<1>5. ASSUME NEW t \in Threads, Reread(t) PROVE IInv'
  <2>1. TypeOK'
    BY <1>5 DEF Reread, IInv, TypeOK, Labels
  <2>2. ReservationValid'
    BY <1>5 DEF Reread, IInv, TypeOK, ReservationValid
  <2>3. Arguments'
    BY <1>5 DEF Reread, IInv, TypeOK, Arguments
  <2> QED BY <2>1, <2>2, <2>3 DEF IInv
<1>6. ASSUME NEW t \in Threads, Return(t) \/ LoseReservation(t) PROVE IInv'
  BY <1>6 DEF Return, LoseReservation, IInv, TypeOK, ReservationValid, Arguments, Labels
<1>7. CASE UNCHANGED vars
  BY <1>7 DEF vars, IInv, TypeOK, ReservationValid, Arguments
<1> QED BY <1>1, <1>2, <1>3, <1>4, <1>5, <1>6, <1>7 DEF Next, Step

(* Types, and that a store-exclusive replaces the value compared, in every *)
(* reachable state.                                                        *)
THEOREM Safe == Spec => [](TypeOK /\ ReservationValid)
<1>1. IInv => TypeOK /\ ReservationValid
  BY DEF IInv
<1> QED BY InitIInv, StepIInv, <1>1, PTL DEF Spec

(* A step of the code is a step of AtomicWord or leaves what its callers   *)
(* see unchanged: the store-exclusive that succeeds and the second read    *)
(* with which armv6_cas fails are the instants at which operations take    *)
(* effect.                                                                 *)
LEMMA StepRefines == IInv /\ [Next]_vars => [Atomic!Next]_(Atomic!vars)
<1> SUFFICES ASSUME IInv, [Next]_vars PROVE [Atomic!Next]_(Atomic!vars)
  OBVIOUS
<1> USE DEF Goto, Retry
<1>1. ASSUME NEW t \in Threads, Begin(t) PROVE Atomic!Call(t)
  <2>1. PICK c \in Calls : call' = [call EXCEPT ![t] = c]
    BY <1>1 DEF Begin
  <2>2. pc[t] = "idle" /\ pc' \in {[pc EXCEPT ![t] = "ldrex"], [pc EXCEPT ![t] = "read"]}
    BY <1>1 DEF Begin
  <2>3. word' = word /\ saved' = saved
    BY <1>1 DEF Begin
  <2>4. OpView' = [OpView EXCEPT ![t] = [stage |-> "pending", call |-> c, res |-> 0]]
    BY <2>1, <2>2, <2>3 DEF OpView, IInv, TypeOK
  <2>5. OpView[t].stage = "idle"
    BY <2>2 DEF OpView
  <2>6. c \in Atomic!Calls
    BY DEF Calls, Atomic!Calls, Value, Atomic!Value
  <2> QED BY <2>3, <2>4, <2>5, <2>6 DEF Atomic!Call
<1>2. ASSUME NEW t \in Threads, Read(t) \/ LoadExclusive(t) \/ LoseReservation(t)
      PROVE  UNCHANGED Atomic!vars
  BY <1>2 DEF Read, LoadExclusive, LoseReservation, OpView, IInv, TypeOK, Atomic!vars
<1>3. ASSUME NEW t \in Threads, StoreExclusive(t) PROVE [Atomic!Next]_(Atomic!vars)
  <2>1. CASE t \notin reserved
    BY <1>3, <2>1 DEF StoreExclusive, OpView, IInv, TypeOK, Atomic!vars
  <2>2. CASE t \in reserved
    <3>1. pc[t] = "strex" /\ word = old[t] /\ ins[t] = Atomic!Apply(call[t], old[t])
      BY <1>3, <2>2 DEF StoreExclusive, IInv, ReservationValid, Arguments
    <3>2. OpView[t].stage = "pending" /\ OpView[t].call = call[t]
      BY <3>1 DEF OpView
    <3>3. OpView' = [OpView EXCEPT ![t] = [stage |-> "done", call |-> call[t], res |-> word]]
      BY <1>3, <2>2, <3>1 DEF StoreExclusive, OpView, IInv, TypeOK
    <3>4. word' = Atomic!Apply(call[t], word)
      BY <1>3, <2>2, <3>1 DEF StoreExclusive
    <3> QED BY <3>2, <3>3, <3>4 DEF Atomic!TakeEffect, Atomic!Next
  <2> QED BY <2>1, <2>2
<1>4. ASSUME NEW t \in Threads, Reread(t) PROVE [Atomic!Next]_(Atomic!vars)
  <2>1. CASE word = call[t].cmp
    BY <1>4, <2>1 DEF Reread, OpView, IInv, TypeOK, Atomic!vars
  <2>2. CASE word # call[t].cmp
    <3>1. pc[t] = "reread" /\ call[t].kind = "cas"
      BY <1>4 DEF Reread, IInv, Arguments
    <3>2. OpView[t].stage = "pending" /\ OpView[t].call = call[t]
      BY <3>1 DEF OpView
    <3>3. OpView' = [OpView EXCEPT ![t] = [stage |-> "done", call |-> call[t], res |-> word]]
      BY <1>4, <2>2, <3>1 DEF Reread, OpView, IInv, TypeOK
    <3>4. word' = Atomic!Apply(call[t], word)
      BY <1>4, <2>2, <3>1 DEF Reread, Atomic!Apply
    <3> QED BY <3>2, <3>3, <3>4 DEF Atomic!TakeEffect, Atomic!Next
  <2> QED BY <2>1, <2>2
<1>5. ASSUME NEW t \in Threads, Return(t) PROVE Atomic!Return(t)
  <2>1. pc[t] = "return" /\ word' = word
    BY <1>5 DEF Return
  <2>2. OpView[t].stage = "done"
    BY <2>1 DEF OpView
  <2>3. OpView' = [OpView EXCEPT ![t] = [stage |-> "idle", call |-> NoCall, res |-> 0]]
    BY <1>5 DEF Return, OpView, IInv, TypeOK
  <2> QED BY <2>1, <2>2, <2>3 DEF Atomic!Return, Atomic!NoOp, NoCall
<1>6. CASE UNCHANGED vars
  BY <1>6 DEF vars, OpView, Atomic!vars
<1> QED BY <1>1, <1>2, <1>3, <1>4, <1>5, <1>6 DEF Next, Step, Atomic!Next

(* The operations of armv6_atomics.c are atomic: every behaviour of the    *)
(* retry loops is one of AtomicWord.                                       *)
THEOREM Refinement == Spec => Linearizable
<1>1. Init => Atomic!Init
  BY DEF Init, Atomic!Init, OpView, Value, Atomic!Value, Atomic!NoOp, NoCall
<1> QED BY <1>1, InitIInv, StepIInv, StepRefines, PTL DEF Spec, Linearizable, Atomic!Spec

=============================================================================
