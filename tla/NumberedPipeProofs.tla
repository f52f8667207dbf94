------------------------- MODULE NumberedPipeProofs -------------------------
(***************************************************************************)
(* Proofs about NumberedPipe, for every set of numbers and every bound.    *)
(***************************************************************************)
EXTENDS NumberedPipe, TLAPS

(* ReadOnce is not inductive alone: it needs that a source is pending at   *)
(* one command only, and that every reader is a command already executed.  *)
IInv ==
    /\ TypeOK
    /\ NothingOverdue
    /\ ReadOnce
    /\ \A p, q \in pending : p[1] = q[1] => p = q
    /\ \A g \in got : g[1] < now

LEMMA ExecuteInv ==
  ASSUME IInv, NEW forks \in BOOLEAN, NEW n \in Int, Execute(forks, n)
  PROVE  IInv'
<1> USE DEF IInv
<1>0. now \in Nat \ {0} /\ now' = now + 1
  BY DEF TypeOK, Execute
<1>1. \A x \in pending' : \/ x \in pending /\ x[2] # now
                          \/ n > 0 /\ x = <<now, now + n>>
  BY DEF Execute, Output
<1>2. \A x \in got' : \/ x \in got
                      \/ \E p \in pending : p[2] = now /\ x = <<now, p[1]>>
  BY DEF Execute, Input
<1>3. \A p \in pending : p[1] \in Nat /\ p[2] \in Int /\ p = <<p[1], p[2]>> /\ p[1] < now /\ p[2] >= now
  BY DEF TypeOK, NothingOverdue
<1>4. \A g \in got : g[1] \in Nat /\ g[2] \in Nat /\ g[2] < g[1] /\ g[1] < now
  BY DEF TypeOK, ReadOnce
<1>5. TypeOK'
  <2>1. pending' \subseteq Nat \X Int
    BY <1>0, <1>1, <1>3
  <2>2. got' \subseteq Nat \X Nat
    BY <1>0, <1>2, <1>3 DEF TypeOK
  <2> QED
    BY <1>0, <2>1, <2>2 DEF TypeOK
<1>6. NothingOverdue'
  BY <1>0, <1>1, <1>3 DEF NothingOverdue
<1>7. \A p, q \in pending' : p[1] = q[1] => p = q
  BY <1>0, <1>1, <1>3
<1>8. \A g \in got' : g[1] < now'
  BY <1>0, <1>2, <1>4
<1>9. ReadOnce'
  <2>1. ASSUME NEW g \in got', NEW h \in got', g[2] = h[2] PROVE g[1] = h[1]
    <3>1. CASE g \in got /\ h \in got
      BY <2>1, <3>1 DEF ReadOnce
    <3>2. CASE g \notin got
      <4>1. PICK p \in pending : g = <<now, p[1]>>
        BY <1>2, <3>2
      <4>2. h \notin got
        BY <2>1, <4>1 DEF ReadOnce
      <4> QED
        BY <1>2, <4>1, <4>2
    <3>3. CASE h \notin got
      <4>1. PICK p \in pending : h = <<now, p[1]>>
        BY <1>2, <3>3
      <4>2. g \notin got
        BY <2>1, <4>1 DEF ReadOnce
      <4> QED
        BY <1>2, <4>1, <4>2
    <3> QED
      BY <3>1, <3>2, <3>3
  <2>2. ASSUME NEW g \in got' PROVE g[2] < g[1]
    BY <1>0, <1>2, <1>3, <1>4
  <2>3. ASSUME NEW g \in got', NEW p \in pending' PROVE p[1] # g[2]
    <3>1. CASE p = <<now, now + n>>
      BY <1>0, <1>2, <1>3, <1>4, <3>1
    <3>2. CASE p \in pending /\ p[2] # now
      <4>1. CASE g \in got
        BY <3>2, <4>1 DEF ReadOnce
      <4>2. CASE \E q \in pending : q[2] = now /\ g = <<now, q[1]>>
        BY <1>3, <3>2, <4>2
      <4> QED
        BY <1>2, <4>1, <4>2
    <3> QED
      BY <1>1, <3>1, <3>2
  <2> QED
    BY <2>1, <2>2, <2>3 DEF ReadOnce
<1> QED
  BY <1>5, <1>6, <1>7, <1>8, <1>9

(* Whatever numbers are written after the pipe signs, no output misses its *)
(* turn, and none is read twice.                                           *)
THEOREM DeliverySafe == Spec => [](TypeOK /\ Delivery)
<1>1. Init => IInv
  BY DEF Init, IInv, TypeOK, NothingOverdue, ReadOnce
<1>2. IInv /\ [Next]_vars => IInv'
  <2> SUFFICES ASSUME IInv, [Next]_vars PROVE IInv'
    OBVIOUS
  <2>1. ASSUME NEW forks \in BOOLEAN, NEW n \in Offset \cup {NoPipe}, Execute(forks, n)
        PROVE  IInv'
    BY <2>1, ExecuteInv, OffsetAssumption DEF NoPipe
  <2>2. CASE UNCHANGED vars
    BY <2>2 DEF vars, IInv, TypeOK, NothingOverdue, ReadOnce
  <2> QED
    BY <2>1, <2>2 DEF Next
<1>3. IInv => TypeOK /\ Delivery
  BY DEF IInv, Delivery
<1> QED
  BY <1>1, <1>2, <1>3, PTL DEF Spec

(* The numbers stay numbers of commands, whatever is typed.                *)
THEOREM NumbersTyped == Spec => []TypeOK
BY DeliverySafe, PTL
=============================================================================
