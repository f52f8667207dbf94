--------------------------- MODULE NpShellProofs ---------------------------
(***************************************************************************)
(* Proofs about npshell, for every set of lines and descriptors, every     *)
(* pipe capacity and every bound: first its table alone, which is the      *)
(* module ShellPipes, then the shell with its children.                    *)
(***************************************************************************)
EXTENDS NpShell, FiniteSetTheorems, WellFoundedInduction, TLAPS

(* The table between two commands, as a property of its three parts: the   *)
(* entries, the descriptors, and the last command m that made a pipe.      *)
Typed(pv, t) == pv \subseteq PipeFd /\ t \in [Fd -> End]
Unique(pv) == \A d, e \in pv : d.count = e.count => d = e
Intact(pv, t, m) ==
    \A e \in pv : \E k \in 1 .. m : t[e.out_fd] = <<"r", k>> /\ t[e.in_fd] = <<"w", k>>
Owned(pv, t) ==
    \A f \in Fd : t[f][1] \in {"r", "w"} => \E e \in pv : f \in {e.in_fd, e.out_fd}
Unshared(pv) ==
    \A d, e \in pv : \A f \in Fd : f \in {d.in_fd, d.out_fd} /\ f \in {e.in_fd, e.out_fd} => d = e
EndsDiffer(t) ==
    \A f, g \in Fd : t[f] = t[g] /\ t[f][1] \in {"r", "w"} => f = g
EndsOld(t, m) == \A f \in Fd : t[f][1] \in {"r", "w", "file"} => t[f][2] \in 1 .. m

GoodTable(pv, t, m) ==
    /\ Typed(pv, t)
    /\ Unique(pv)
    /\ Intact(pv, t, m)
    /\ Owned(pv, t)
    /\ Unshared(pv)
    /\ EndsDiffer(t)
    /\ EndsOld(t, m)

(* The strengthening of the invariants that is inductive.  In phase "ran"  *)
(* the write end of the due pipe is closed; the rest of the table is good. *)
PipeNumbersOld == \A p \in wrote : p[1] < now /\ p[2] < now

IInv ==
    /\ TypeOK
    /\ UniqueCounts
    /\ PipesIntact
    /\ OneOwner
    /\ EndsDiffer(fdt)
    /\ EndsOld(fdt, now - 1)
    /\ PipeNumbersOld

LEMMA ReadyTable ==
  ASSUME IInv, phase = "ready"
  PROVE  GoodTable(pipe_vector_, fdt, now - 1)
  BY DEF IInv, TypeOK, UniqueCounts, PipesIntact, OneOwner, Owners, WriteEndClosed, GoodTable,
         Typed, Unique, Intact, Owned, Unshared, PipeFd

LEMMA NoResultFreed ==
  ASSUME IInv, phase = "ready", NEW e \in pipe_vector_, NEW f \in Free
  PROVE  f \notin {e.in_fd, e.out_fd}
  BY ReadyTable DEF GoodTable, Intact, Free, Closed

LEMMA RedirectShapes ==
  ASSUME NEW c \in Command, NEW r \in Redirect(c)
  PROVE  \/ /\ c.op # "pipe"
            /\ r = Result(pipe_vector_, fdt, {})
         \/ /\ c.op = "file"
            /\ \E f \in Free : r = Result(pipe_vector_, [fdt EXCEPT ![f] = <<"file", now>>], {f})
         \/ /\ c.op = "pipe"
            /\ \E e \in SamePipe(c.num) : r = Result(pipe_vector_, fdt, {e.in_fd})
         \/ /\ c.op = "pipe"
            /\ SamePipe(c.num) = {}
            /\ \E w, g \in Free : w # g /\ r = NewPipe(w, g, c.num)
<1>0. c.op \in {"none", "file", "pipe"}
  BY CommandAssumption DEF Redirection
<1>1. CASE c.op = "none"
  BY <1>1 DEF Redirect
<1>2. CASE c.op = "file"
  BY <1>2 DEF Redirect, OpenFile, Lowest
<1>3. CASE c.op = "pipe"
  <2>1. r \in CreatePipe(c.num)
    BY <1>3 DEF Redirect
  <2>2. CASE SamePipe(c.num) # {}
    BY <1>3, <2>1, <2>2 DEF CreatePipe
  <2>3. CASE SamePipe(c.num) = {}
    BY <1>3, <2>1, <2>3 DEF CreatePipe, Lowest
  <2> QED
    BY <2>2, <2>3
<1> QED
  BY <1>0, <1>1, <1>2, <1>3

LEMMA RedirectGood ==
  ASSUME IInv, phase = "ready", NEW c \in Command, NEW r \in Redirect(c)
  PROVE  GoodTable(r.pv, r.t, now)
<1>0. now \in Nat \ {0} /\ c.num \in Int
  BY CommandAssumption DEF IInv, TypeOK
<1>1. GoodTable(pipe_vector_, fdt, now - 1)
  BY ReadyTable
<1>2. GoodTable(pipe_vector_, fdt, now)
  <2>1. 1 .. now - 1 \subseteq 1 .. now
    BY <1>0
  <2>2. Intact(pipe_vector_, fdt, now)
    BY <1>1, <2>1 DEF GoodTable, Intact
  <2>3. EndsOld(fdt, now)
    BY <1>1, <2>1 DEF GoodTable, EndsOld
  <2> QED
    BY <1>1, <2>2, <2>3 DEF GoodTable
<1>3. ASSUME NEW f \in Free
      PROVE  GoodTable(pipe_vector_, [fdt EXCEPT ![f] = <<"file", now>>], now)
  <2> DEFINE t == [fdt EXCEPT ![f] = <<"file", now>>]
  <2>1. t \in [Fd -> End] /\ t[f] = <<"file", now>> /\ \A g \in Fd \ {f} : t[g] = fdt[g]
    BY <1>0, <1>2 DEF GoodTable, Typed, End, Free
  <2>2. \A e \in pipe_vector_ : f \notin {e.in_fd, e.out_fd}
    BY NoResultFreed
  <2>3. Intact(pipe_vector_, t, now)
    BY <1>2, <2>1, <2>2 DEF GoodTable, Intact, Typed, PipeFd
  <2> HIDE DEF t
  <2>4. Owned(pipe_vector_, t) /\ EndsDiffer(t)
    BY <1>2, <2>1 DEF GoodTable, Owned, EndsDiffer
  <2>5. EndsOld(t, now)
    BY <1>0, <1>2, <2>1 DEF GoodTable, EndsOld
  <2> QED
    BY <1>2, <2>1, <2>3, <2>4, <2>5 DEF GoodTable, Typed
<1>4. ASSUME NEW w \in Free, NEW g \in Free, w # g, SamePipe(c.num) = {}
      PROVE  GoodTable(NewPipe(w, g, c.num).pv, NewPipe(w, g, c.num).t, now)
  <2> DEFINE e == [in_fd |-> w, out_fd |-> g, count |-> c.num]
             t == [fdt EXCEPT ![w] = <<"w", now>>, ![g] = <<"r", now>>]
             pv == pipe_vector_ \cup {e}
  <2>0. NewPipe(w, g, c.num).pv = pv /\ NewPipe(w, g, c.num).t = t
    BY DEF NewPipe, Result
  <2>1. t \in [Fd -> End] /\ t[w] = <<"w", now>> /\ t[g] = <<"r", now>> 
        /\ \A h \in Fd \ {w, g} : t[h] = fdt[h]
    BY <1>0, <1>2, <1>4 DEF GoodTable, Typed, End, Free
  <2>2. \A d \in pipe_vector_ : {w, g} \cap {d.in_fd, d.out_fd} = {}
    BY NoResultFreed
  <2>3. pv \subseteq PipeFd
    BY <1>0, <1>2 DEF GoodTable, Typed, PipeFd, Free
  <2>4. Unique(pv)
    BY <1>2, <1>4 DEF GoodTable, Unique, SamePipe
  <2>5. Intact(pv, t, now)
    <3>1. ASSUME NEW d \in pipe_vector_
          PROVE  \E k \in 1 .. now : t[d.out_fd] = <<"r", k>> /\ t[d.in_fd] = <<"w", k>>
      BY <1>2, <2>1, <2>2 DEF GoodTable, Intact, Typed, PipeFd
    <3>2. e.out_fd = g /\ e.in_fd = w /\ now \in 1 .. now
      BY <1>0
    <3>3. t[e.out_fd] = <<"r", now>> /\ t[e.in_fd] = <<"w", now>>
      BY <2>1, <3>2
    <3> HIDE DEF t, e
    <3> QED
      BY <3>1, <3>2, <3>3 DEF Intact
  <2>a. e.out_fd = g /\ e.in_fd = w
    OBVIOUS
  <2>6. Owned(pv, t)
    <3> HIDE DEF t, e
    <3> QED
      BY <1>2, <2>1, <2>a DEF GoodTable, Owned
  <2>7. Unshared(pv)
    <3> HIDE DEF t, e
    <3> QED
      BY <1>2, <2>2, <2>a DEF GoodTable, Unshared
  <2>8. EndsOld(t, now)
    <3> HIDE DEF t
    <3> QED
      BY <1>0, <1>2, <2>1 DEF GoodTable, EndsOld
  <2>9. EndsDiffer(t)
    <3> HIDE DEF t
    <3>1. \A h \in Fd \ {w, g} : fdt[h] # <<"w", now>> /\ fdt[h] # <<"r", now>>
      BY <1>0, <1>1 DEF GoodTable, EndsOld
    <3> QED
      BY <1>2, <2>1, <3>1 DEF GoodTable, EndsDiffer
  <2> QED
    BY <2>0, <2>1, <2>3, <2>4, <2>5, <2>6, <2>7, <2>8, <2>9 DEF GoodTable, Typed
<1> QED
  BY <1>2, <1>3, <1>4, RedirectShapes DEF Result

-----------------------------------------------------------------------------
(* A good table whose due write end is closed is what Begin leaves behind, *)
(* and closing the due pipe of such a table is what Finish does.           *)
LEMMA BeginInv ==
  ASSUME IInv, NEW c \in Command, Begin(c)
  PROVE  IInv'
<1>0. now \in Nat \ {0} /\ now' = now + 1 /\ phase = "ready" /\ phase' = "ran"
  BY DEF IInv, TypeOK, Begin, Ready
<1> PICK r \in Redirect(c) : /\ pipe_vector_' = r.pv
                            /\ fdt' = GetPipeFd(r.pv, r.t)
                            /\ ExecCmd(c, r.pv, GetPipeFd(r.pv, r.t), r.out)
  BY DEF Begin
<1>1. GoodTable(r.pv, r.t, now)
  BY <1>0, RedirectGood
<1>2. /\ fdt' \in [Fd -> End]
      /\ \A f \in Fd : fdt'[f] = IF \E e \in r.pv : e.count = 0 /\ e.in_fd = f
                                  THEN Closed ELSE r.t[f]
  BY <1>1 DEF GoodTable, Typed, GetPipeFd, CloseAll, Due, End, Closed
<1>3. UniqueCounts'
  BY <1>1 DEF GoodTable, Unique, UniqueCounts
<1>4. PipesIntact'
  <2> SUFFICES ASSUME NEW e \in r.pv
               PROVE  \E k \in 1 .. now :
                         /\ fdt'[e.out_fd] = <<"r", k>>
                         /\ fdt'[e.in_fd] = IF e.count = 0 THEN Closed ELSE <<"w", k>>
    BY <1>0 DEF PipesIntact, WriteEndClosed
  <2>1. PICK k \in 1 .. now : r.t[e.out_fd] = <<"r", k>> /\ r.t[e.in_fd] = <<"w", k>>
    BY <1>1 DEF GoodTable, Intact
  <2>2. e.in_fd \in Fd /\ e.out_fd \in Fd
    BY <1>1 DEF GoodTable, Typed, PipeFd
  <2>3. \A d \in r.pv : d.in_fd # e.out_fd
    <3> SUFFICES ASSUME NEW d \in r.pv, d.in_fd = e.out_fd PROVE FALSE
      OBVIOUS
    <3>1. PICK j \in 1 .. now : r.t[d.in_fd] = <<"w", j>>
      BY <1>1 DEF GoodTable, Intact
    <3> QED
      BY <2>1, <3>1
  <2>4. \A d \in r.pv : d.in_fd = e.in_fd => d = e
    BY <1>1, <2>2 DEF GoodTable, Unshared
  <2> QED
    BY <1>2, <2>1, <2>2, <2>3, <2>4
<1>5. OneOwner'
  <2>1. \A f \in Fd : fdt'[f][1] \in {"r", "w", "file"} => fdt'[f] = r.t[f]
    BY <1>2 DEF Closed
  <2> QED
    BY <1>1, <2>1 DEF GoodTable, Owned, Unshared, OneOwner, Owners
<1>6. EndsDiffer(fdt)' /\ EndsOld(fdt, now - 1)'
  <2>1. \A f \in Fd : fdt'[f][1] \in {"r", "w", "file"} => fdt'[f] = r.t[f]
    BY <1>2 DEF Closed
  <2>2. EndsDiffer(fdt)'
    BY <1>1, <2>1 DEF GoodTable, EndsDiffer
  <2>3. now' - 1 = now
    BY <1>0
  <2> QED
    BY <1>1, <2>1, <2>2, <2>3 DEF GoodTable, EndsOld
<1>7. wrote' \subseteq Nat \X Nat /\ PipeNumbersOld'
  <2>1. ASSUME NEW p \in WritesTo(r.out, fdt')
        PROVE  p \in Nat \X Nat /\ p[1] < now' /\ p[2] < now'
    <3>1. PICK f \in r.out : fdt'[f][1] = "w" /\ p = <<fdt'[f][2], now>>
      BY <2>1 DEF WritesTo
    <3>2. f \in Fd
      BY RedirectShapes, <1>1 DEF Result, NewPipe, GoodTable, Typed, PipeFd, Free, SamePipe, IInv, TypeOK
    <3>3. fdt'[f][2] \in 1 .. now
      BY <1>0, <1>6, <3>1, <3>2 DEF EndsOld
    <3> QED
      BY <1>0, <3>1, <3>3
  <2>2. wrote' \subseteq wrote \cup WritesTo(r.out, fdt')
    BY DEF ExecCmd
  <2> QED
    BY <1>0, <2>1, <2>2 DEF IInv, TypeOK, PipeNumbersOld
<1>8. got' \subseteq Nat \X Nat
  BY <1>0 DEF ExecCmd, ReadsFrom, IInv, TypeOK
<1>9. TypeOK'
  BY <1>0, <1>1, <1>2, <1>7, <1>8 DEF TypeOK, GoodTable, Typed, IInv, Begin
<1> QED
  BY <1>3, <1>4, <1>5, <1>6, <1>7, <1>9 DEF IInv

LEMMA FinishInv ==
  ASSUME IInv, Finish
  PROVE  IInv'
<1> USE DEF IInv
<1>0. now \in Nat \ {0} /\ now' = now /\ phase = "ran" /\ phase' = "ready"
  BY DEF TypeOK, Finish
<1>1. /\ fdt' \in [Fd -> End]
      /\ \A f \in Fd : fdt'[f] = IF \E e \in pipe_vector_ : e.count = 0 /\ f \in {e.in_fd, e.out_fd}
                                  THEN Closed ELSE fdt[f]
  BY DEF TypeOK, Finish, CloseAll, EraseCloses, Due, End, Closed
<1>2. \A d \in pipe_vector_' :
         \E e \in pipe_vector_ : /\ e.count # 0 /\ e \in PipeFd
                                /\ d = [e EXCEPT !.count = @ - 1]
  BY DEF TypeOK, Finish, CountdownPipeVector, ErasePipeVector, Due
<1>3. \A d \in pipe_vector_' :
         \E e \in pipe_vector_ : /\ e.count # 0 /\ d.count = e.count - 1 /\ e \in PipeFd
                                /\ d \in PipeFd /\ d.in_fd = e.in_fd /\ d.out_fd = e.out_fd
                                /\ d = [e EXCEPT !.count = @ - 1]
  BY <1>2 DEF PipeFd
<1>4. TypeOK'
  BY <1>1, <1>3 DEF TypeOK, Finish
<1>5. UniqueCounts'
  BY <1>3 DEF UniqueCounts, PipeFd
<1>6. PipesIntact'
  <2> SUFFICES ASSUME NEW d \in pipe_vector_'
               PROVE  \E k \in 1 .. now - 1 : fdt'[d.out_fd] = <<"r", k>> /\ fdt'[d.in_fd] = <<"w", k>>
    BY <1>0 DEF PipesIntact, WriteEndClosed
  <2>1. PICK e \in pipe_vector_ : /\ e.count # 0 /\ e \in PipeFd
                                 /\ d.in_fd = e.in_fd /\ d.out_fd = e.out_fd
    BY <1>3
  <2>2. PICK k \in 1 .. now - 1 : fdt[e.out_fd] = <<"r", k>> /\ fdt[e.in_fd] = <<"w", k>>
    BY <2>1 DEF PipesIntact, WriteEndClosed
  <2>3. \A b \in pipe_vector_ : b.count = 0 => {e.in_fd, e.out_fd} \cap {b.in_fd, b.out_fd} = {}
    BY <2>1 DEF OneOwner, Owners, PipeFd
  <2> QED
    BY <1>1, <2>1, <2>2, <2>3 DEF PipeFd
<1>7. OneOwner'
  <2>1. ASSUME NEW f \in Fd, fdt'[f][1] \in {"r", "w"}
        PROVE  \E d \in pipe_vector_' : f \in {d.in_fd, d.out_fd}
    <3>1. fdt'[f] = fdt[f]
      BY <1>1, <2>1 DEF Closed
    <3>2. PICK e \in pipe_vector_ : f \in {e.in_fd, e.out_fd}
      BY <2>1, <3>1 DEF OneOwner, Owners
    <3>3. e.count # 0
      BY <1>1, <2>1, <3>2 DEF Closed
    <3>4. [e EXCEPT !.count = @ - 1] \in pipe_vector_'
      BY <3>3 DEF Finish, CountdownPipeVector, ErasePipeVector, Due
    <3>5. e \in PipeFd
      BY DEF TypeOK
    <3> QED
      BY <3>2, <3>4, <3>5 DEF PipeFd
  <2>2. ASSUME NEW f \in Fd, NEW b \in pipe_vector_', NEW d \in pipe_vector_',
               f \in {b.in_fd, b.out_fd}, f \in {d.in_fd, d.out_fd}
        PROVE  b = d
    <3>1. PICK e \in pipe_vector_ : b = [e EXCEPT !.count = @ - 1] /\ f \in {e.in_fd, e.out_fd}
      BY <1>3, <2>2
    <3>2. PICK a \in pipe_vector_ : d = [a EXCEPT !.count = @ - 1] /\ f \in {a.in_fd, a.out_fd}
      BY <1>3, <2>2
    <3>3. e = a
      BY <3>1, <3>2 DEF OneOwner, Owners
    <3> QED
      BY <3>1, <3>2, <3>3
  <2> QED
    BY <2>1, <2>2 DEF OneOwner, Owners
<1>8. EndsDiffer(fdt)' /\ EndsOld(fdt, now - 1)'
  <2>1. \A f \in Fd : fdt'[f][1] \in {"r", "w", "file"} => fdt'[f] = fdt[f]
    BY <1>1 DEF Closed
  <2> QED
    BY <1>0, <2>1 DEF EndsDiffer, EndsOld
<1>9. PipeNumbersOld'
  BY DEF PipeNumbersOld, Finish
<1> QED
  BY <1>4, <1>5, <1>6, <1>7, <1>8, <1>9

LEMMA InitInv == Init => IInv
<1> SUFFICES ASSUME Init PROVE IInv
  OBVIOUS
<1>1. fdt \in [Fd -> End] /\ \A f \in Fd : fdt[f][1] = "closed"
  BY DEF Init, End, Closed
<1>2. TypeOK
  BY <1>1 DEF Init, TypeOK
<1>3. OneOwner /\ EndsDiffer(fdt) /\ EndsOld(fdt, now - 1)
  BY <1>1 DEF Init, OneOwner, Owners, EndsDiffer, EndsOld
<1> QED
  BY <1>2, <1>3 DEF Init, IInv, UniqueCounts, PipesIntact, PipeNumbersOld

LEMMA StutterInv ==
  ASSUME IInv, pipe_vector_' = pipe_vector_, fdt' = fdt, wrote' = wrote, got' = got,
         now' = now, phase' = phase, alive' \in BOOLEAN
  PROVE  IInv'
  BY DEF IInv, TypeOK, UniqueCounts, PipesIntact, WriteEndClosed, OneOwner, Owners, EndsDiffer,
         EndsOld, PipeNumbersOld

LEMMA NextInv == IInv /\ [Next]_pipeVars => IInv'
<1> SUFFICES ASSUME IInv, [Next]_pipeVars PROVE IInv'
  OBVIOUS
<1>1. CASE \E c \in Command : Begin(c)
  BY <1>1, BeginInv
<1>2. CASE \E c \in Command : Exit(c)
  BY <1>2, StutterInv DEF Exit
<1>3. CASE Finish
  BY <1>3, FinishInv
<1>4. CASE EndOfInput
  BY <1>4, StutterInv DEF EndOfInput
<1>5. CASE UNCHANGED pipeVars
  BY <1>5, StutterInv DEF pipeVars, IInv, TypeOK
<1> QED
  BY <1>1, <1>2, <1>3, <1>4, <1>5 DEF Next

(* Whatever is typed, the pipe table and the descriptor table stay         *)
(* consistent: one pipe due at a command, every pending pipe intact, every *)
(* pipe descriptor owned by one entry.                                     *)
THEOREM TableSafe == Spec => [](TypeOK /\ TableIntact)
<1>1. IInv => TypeOK /\ TableIntact
  BY DEF IInv, TableIntact
<1> QED
  BY InitInv, NextInv, <1>1, PTL DEF Spec

(* The table never holds anything but descriptors of the shell, and the    *)
(* descriptors never anything but ends of pipes and files of commands.     *)
THEOREM TableTyped == Spec => []TypeOK
BY TableSafe, PTL

-----------------------------------------------------------------------------
(* Begin closes nothing but the write end of the due pipe, which may be    *)
(* the pipe it has just made (|0): a descriptor that was open before       *)
(* belongs to an entry that was there before.                              *)
LEMMA BeginCloses ==
  ASSUME IInv, NEW c \in Command, Begin(c), NEW f \in Fd, fdt[f] # Closed, fdt'[f] = Closed
  PROVE  \E e \in Due(pipe_vector_) : f \in {e.in_fd, e.out_fd}
<1>0. phase = "ready"
  BY DEF Begin, Ready
<1> PICK r \in Redirect(c) : pipe_vector_' = r.pv /\ fdt' = GetPipeFd(r.pv, r.t)
  BY DEF Begin
<1>1. GoodTable(r.pv, r.t, now)
  BY <1>0, RedirectGood
<1>2. f \notin Free /\ fdt \in [Fd -> End]
  BY DEF Free, IInv, TypeOK
<1>3. r.t[f] = fdt[f]
  BY <1>2, RedirectShapes DEF Result, NewPipe, Free
<1>4. PICK e \in r.pv : e.count = 0 /\ e.in_fd = f
  BY <1>3 DEF GetPipeFd, CloseAll, Due
<1>5. e \in pipe_vector_
  BY <1>2, <1>4, RedirectShapes DEF Result, NewPipe
<1> QED
  BY <1>4, <1>5 DEF Due

(* No step closes a descriptor that is not an end of the due pipe.         *)
THEOREM ClosingConfined == Spec => CloseOnlyDue
<1> DEFINE Confined ==
      \A f \in Fd : fdt[f] # Closed /\ fdt'[f] = Closed =>
         \E e \in Due(pipe_vector_) : f \in {e.in_fd, e.out_fd}
<1>1. IInv /\ [Next]_pipeVars => [Confined]_pipeVars
  <2> SUFFICES ASSUME IInv, Next PROVE Confined
    OBVIOUS
  <2>1. CASE \E c \in Command : Begin(c)
    BY <2>1, BeginCloses
  <2>2. CASE \E c \in Command : Exit(c)
    BY <2>2 DEF Exit
  <2>3. CASE Finish
    BY <2>3 DEF Finish, CloseAll, EraseCloses
  <2>4. CASE EndOfInput
    BY <2>4 DEF EndOfInput
  <2> QED
    BY <2>1, <2>2, <2>3, <2>4 DEF Next
<1> QED
  BY InitInv, NextInv, <1>1, PTL DEF Spec, CloseOnlyDue

-----------------------------------------------------------------------------
(* The refinement.  First, what Pending holds in either phase.             *)
LEMMA PendingReady ==
  ASSUME IInv, phase = "ready", NEW x
  PROVE  x \in Pending <=>
           \E p \in wrote, e \in pipe_vector_ :
              e.count >= 0 /\ fdt[e.out_fd] = <<"r", p[1]>> /\ x = <<p[2], now + e.count>>
<1>1. Lag = 0
  BY DEF Lag
<1>2. \A e \in pipe_vector_ : now + e.count - 0 = now + e.count
  BY DEF IInv, TypeOK, PipeFd
<1> QED
  BY <1>1, <1>2 DEF Pending, LivePipes

LEMMA PendingRan ==
  ASSUME IInv, phase = "ran", NEW x
  PROVE  x \in Pending <=>
           \E p \in wrote, e \in pipe_vector_ :
              e.count >= 1 /\ fdt[e.out_fd] = <<"r", p[1]>> /\ x = <<p[2], now + e.count - 1>>
<1>1. Lag = 1
  BY DEF Lag
<1> QED
  BY <1>1 DEF Pending, LivePipes

(* Finish drops only what was delivered, and counting down makes up for    *)
(* the end of the lag.                                                     *)
LEMMA FinishStutters ==
  ASSUME IInv, Finish
  PROVE  Pending' = Pending
<1>0. phase = "ran" /\ phase' = "ready" /\ now' = now /\ wrote' = wrote /\ now \in Nat
  BY DEF Finish, IInv, TypeOK
<1>1. IInv'
  BY FinishInv
<1>2. \A e \in pipe_vector_ : e \in PipeFd
  BY DEF IInv, TypeOK
<1>3. \A d : d \in pipe_vector_' <=>
         \E e \in pipe_vector_ : e.count # 0 /\ d = [e EXCEPT !.count = @ - 1]
  BY DEF Finish, CountdownPipeVector, ErasePipeVector, Due
<1>4. \A e \in pipe_vector_ : e.count # 0 => fdt'[e.out_fd] = fdt[e.out_fd]
  <2> SUFFICES ASSUME NEW e \in pipe_vector_, e.count # 0
               PROVE  fdt'[e.out_fd] = fdt[e.out_fd]
    OBVIOUS
  <2>1. e.out_fd \in Fd
    BY <1>2 DEF PipeFd
  <2>2. \A b \in pipe_vector_ : b.count = 0 => e.out_fd \notin {b.in_fd, b.out_fd}
    BY <2>1 DEF IInv, OneOwner, Owners
  <2> QED
    BY <2>1, <2>2 DEF Finish, CloseAll, EraseCloses, Due
<1>5. ASSUME NEW x \in Pending PROVE x \in Pending'
  <2>1. PICK p \in wrote, e \in pipe_vector_ :
           e.count >= 1 /\ fdt[e.out_fd] = <<"r", p[1]>> /\ x = <<p[2], now + e.count - 1>>
    BY <1>0, PendingRan
  <2> DEFINE d == [e EXCEPT !.count = @ - 1]
  <2>2. e.count \in Int /\ e.count # 0
    BY <1>2, <2>1 DEF PipeFd
  <2>3. d.count = e.count - 1 /\ d.out_fd = e.out_fd /\ d \in pipe_vector_'
    BY <1>2, <1>3, <2>2 DEF PipeFd
  <2> HIDE DEF d
  <2>4. d.count >= 0 /\ now' + d.count = now + e.count - 1
    BY <1>0, <2>1, <2>2, <2>3
  <2>5. fdt'[d.out_fd] = <<"r", p[1]>> /\ p \in wrote'
    BY <1>0, <1>4, <2>1, <2>2, <2>3
  <2>6. Lag' = 0 /\ now' + d.count - 0 = now' + d.count
    BY <1>0, <2>2, <2>3 DEF Lag
  <2> QED
    BY <2>1, <2>3, <2>4, <2>5, <2>6 DEF Pending, LivePipes
<1>6. ASSUME NEW x \in Pending' PROVE x \in Pending
  <2>1. PICK p \in wrote, d \in pipe_vector_' :
           d.count >= 0 /\ fdt'[d.out_fd] = <<"r", p[1]>> /\ x = <<p[2], now + d.count - 0>>
    BY <1>0 DEF Pending, LivePipes, Lag
  <2>2. PICK e \in pipe_vector_ : e.count # 0 /\ d = [e EXCEPT !.count = @ - 1]
    BY <1>3
  <2>3. e.count \in Int /\ d.count = e.count - 1 /\ d.out_fd = e.out_fd
    BY <1>2, <2>2 DEF PipeFd
  <2>4. e.count >= 1 /\ now + d.count - 0 = now + e.count - 1
    BY <1>0, <2>1, <2>3
  <2> QED
    BY <1>0, <1>4, <2>1, <2>2, <2>3, <2>4, PendingRan
<1> QED
  BY <1>5, <1>6

(* What Begin(c) does to the table, in the terms of the refinement: the    *)
(* read ends of the pending pipes stay, a pipe it makes has no writer yet, *)
(* and the command's output goes to the pipe numbered c.num, if anywhere.  *)
LEMMA BeginFacts ==
  ASSUME IInv, NEW c \in Command, NEW r \in Redirect(c), phase = "ready",
         pipe_vector_' = r.pv, fdt' = GetPipeFd(r.pv, r.t), IInv'
  PROVE  /\ pipe_vector_ \subseteq r.pv
         /\ \A e \in pipe_vector_ : fdt'[e.out_fd] = fdt[e.out_fd]
         /\ \A e \in r.pv : e \in pipe_vector_ \/ fdt'[e.out_fd] = <<"r", now>>
         /\ c.op = "pipe" => \E e \in r.pv : e.count = c.num /\ r.out = {e.in_fd}
         /\ c.op # "pipe" => \A f \in r.out : fdt'[f][1] # "w"
<1>1. GoodTable(r.pv, r.t, now)
  BY RedirectGood
<1>2. GoodTable(pipe_vector_, fdt, now - 1)
  BY ReadyTable
<1>3. \A e \in r.pv : e.out_fd \in Fd /\ fdt'[e.out_fd] = r.t[e.out_fd]
  <2> SUFFICES ASSUME NEW e \in r.pv
               PROVE  e.out_fd \in Fd /\ \A d \in r.pv : d.in_fd # e.out_fd
    BY DEF GetPipeFd, CloseAll, Due
  <2>1. e.out_fd \in Fd
    BY <1>1 DEF GoodTable, Typed, PipeFd
  <2>2. \A d \in r.pv : r.t[e.out_fd][1] = "r" /\ r.t[d.in_fd][1] = "w"
    BY <1>1 DEF GoodTable, Intact
  <2> QED
    BY <2>1, <2>2
<1>4. pipe_vector_ \subseteq r.pv
  BY RedirectShapes DEF Result, NewPipe
<1>5. \A e \in pipe_vector_ : r.t[e.out_fd] = fdt[e.out_fd]
  <2>1. \A e \in pipe_vector_ : \A f \in Free : f # e.out_fd
    BY NoResultFreed
  <2>2. \A e \in pipe_vector_ : e.out_fd \in Fd
    BY <1>2 DEF GoodTable, Typed, PipeFd
  <2>3. fdt \in [Fd -> End]
    BY <1>2 DEF GoodTable, Typed
  <2> QED
    BY <2>1, <2>2, <2>3, RedirectShapes DEF Result, NewPipe
<1>6. \A e \in r.pv : e \in pipe_vector_ \/ r.t[e.out_fd] = <<"r", now>>
  <2>1. fdt \in [Fd -> End]
    BY <1>2 DEF GoodTable, Typed
  <2> QED
    BY <2>1, RedirectShapes DEF Result, NewPipe, Free
<1>7. c.op = "pipe" => \E e \in r.pv : e.count = c.num /\ r.out = {e.in_fd}
  <2>1. ASSUME NEW e \in SamePipe(c.num), r = Result(pipe_vector_, fdt, {e.in_fd})
        PROVE  e \in r.pv /\ e.count = c.num /\ r.out = {e.in_fd}
    BY <2>1 DEF Result, SamePipe
  <2>2. ASSUME NEW w, NEW g, r = NewPipe(w, g, c.num)
        PROVE  \E e \in r.pv : e.count = c.num /\ r.out = {e.in_fd}
    <3>1. [in_fd |-> w, out_fd |-> g, count |-> c.num] \in r.pv /\ r.out = {w}
      BY <2>2 DEF Result, NewPipe
    <3> QED
      BY <3>1
  <2> QED
    BY <2>1, <2>2, RedirectShapes
<1>8. c.op # "pipe" => \A f \in r.out : fdt'[f][1] # "w"
  <2> SUFFICES ASSUME c.op # "pipe", NEW f \in r.out PROVE fdt'[f][1] # "w"
    OBVIOUS
  <2>1. f \in Fd /\ r.t[f] = <<"file", now>>
    BY <1>2, RedirectShapes DEF Result, Free, GoodTable, Typed
  <2> QED
    BY <2>1 DEF GetPipeFd, CloseAll, Closed
<1> QED
  BY <1>3, <1>4, <1>5, <1>6, <1>7, <1>8

LEMMA BeginExecutes ==
  ASSUME IInv, NEW c \in Command, Begin(c)
  PROVE  Promise!Execute(Forked(c), IF c.op = "pipe" THEN c.num ELSE 0)
<1> DEFINE n == IF c.op = "pipe" THEN c.num ELSE 0
<1>0. /\ now \in Nat \ {0} /\ now' = now + 1 /\ now <= MaxCmd
      /\ phase = "ready" /\ phase' = "ran" /\ n \in Int
  BY CommandAssumption DEF IInv, TypeOK, Begin, Ready
<1> PICK r \in Redirect(c) : /\ pipe_vector_' = r.pv
                            /\ fdt' = GetPipeFd(r.pv, r.t)
                            /\ ExecCmd(c, r.pv, fdt', r.out)
  BY DEF Begin
<1>1. IInv'
  BY BeginInv
<1>2. /\ pipe_vector_ \subseteq r.pv
      /\ \A e \in pipe_vector_ : fdt'[e.out_fd] = fdt[e.out_fd]
      /\ \A e \in r.pv : e \in pipe_vector_ \/ fdt'[e.out_fd] = <<"r", now>>
      /\ c.op = "pipe" => \E e \in r.pv : e.count = c.num /\ r.out = {e.in_fd}
      /\ c.op # "pipe" => \A f \in r.out : fdt'[f][1] # "w"
  BY <1>0, <1>1, BeginFacts
<1>3. /\ \A e \in r.pv : e.count \in Int /\ e.in_fd \in Fd /\ e.out_fd \in Fd
      /\ \A e \in r.pv : e.count # 0 =>
            \E k \in 1 .. now : fdt'[e.out_fd] = <<"r", k>> /\ fdt'[e.in_fd] = <<"w", k>>
      /\ \A e \in r.pv : e.count = 0 => fdt'[e.in_fd] = Closed
      /\ \A d, e \in r.pv : d.out_fd = e.out_fd => d = e
      /\ \A d, e \in r.pv : d.count = e.count => d = e
  <2>1. \A e \in r.pv : e.count \in Int /\ e.in_fd \in Fd /\ e.out_fd \in Fd
    BY <1>1 DEF IInv, TypeOK, PipeFd
  <2>2. \A e \in r.pv : \E k \in 1 .. now :
           /\ fdt'[e.out_fd] = <<"r", k>>
           /\ fdt'[e.in_fd] = IF e.count = 0 THEN Closed ELSE <<"w", k>>
    <3>1. PipesIntact'
      BY <1>1 DEF IInv
    <3>2. \A k : k \in 1 .. now' - 1 <=> k \in 1 .. now
      BY <1>0
    <3> QED
      BY <1>0, <3>1, <3>2 DEF PipesIntact, WriteEndClosed
  <2>3. \A d, e \in r.pv : d.out_fd = e.out_fd => d = e
    BY <1>1, <2>1 DEF IInv, OneOwner, Owners
  <2>4. \A d, e \in r.pv : d.count = e.count => d = e
    BY <1>1 DEF IInv, UniqueCounts
  <2> QED
    BY <2>1, <2>2, <2>3, <2>4
<1>4. \A p \in wrote : p[1] # now
  BY <1>0 DEF IInv, PipeNumbersOld
<1>5. \A p \in wrote, e \in r.pv : fdt'[e.out_fd] = <<"r", p[1]>> =>
         e \in pipe_vector_ /\ fdt[e.out_fd] = <<"r", p[1]>>
  BY <1>2, <1>4
<1>6. got' = got \cup Promise!Input(Forked(c))
  <2>1. \A x : x \in ReadsFrom(r.pv, fdt') <=>
           \E p \in wrote, e \in pipe_vector_ :
              e.count = 0 /\ fdt[e.out_fd] = <<"r", p[1]>> /\ x = <<now, p[2]>>
    BY <1>2, <1>5 DEF ReadsFrom, Due
  <2>2. \A x : x \in Pending /\ x[2] = now <=>
           \E p \in wrote, e \in pipe_vector_ :
              e.count = 0 /\ fdt[e.out_fd] = <<"r", p[1]>> /\ x = <<p[2], now>>
    <3>1. \A e \in pipe_vector_ : (now + e.count = now <=> e.count = 0)
                                  /\ (e.count = 0 => e.count >= 0 /\ now + e.count = now)
      BY <1>0, <1>2, <1>3
    <3>2. \A p, e : <<p[2], now + e.count>>[2] = now + e.count
      OBVIOUS
    <3> QED
      BY <1>0, <3>1, <3>2, PendingReady
  <2>3. \A x : x \in Promise!Input(Forked(c)) <=>
           Forked(c) /\ \E y \in Pending : y[2] = now /\ x = <<now, y[1]>>
    BY DEF Promise!Input
  <2>4. ASSUME NEW x
        PROVE  x \in ReadsFrom(r.pv, fdt') <=> \E y \in Pending : y[2] = now /\ x = <<now, y[1]>>
    <3>1. ASSUME x \in ReadsFrom(r.pv, fdt')
          PROVE  \E y \in Pending : y[2] = now /\ x = <<now, y[1]>>
      <4>1. PICK p \in wrote, e \in pipe_vector_ :
               e.count = 0 /\ fdt[e.out_fd] = <<"r", p[1]>> /\ x = <<now, p[2]>>
        BY <2>1, <3>1
      <4>2. <<p[2], now>> \in Pending /\ <<p[2], now>>[2] = now /\ <<p[2], now>>[1] = p[2]
        BY <2>2, <4>1
      <4> QED
        BY <4>1, <4>2
    <3>2. ASSUME NEW y \in Pending, y[2] = now, x = <<now, y[1]>>
          PROVE  x \in ReadsFrom(r.pv, fdt')
      <4>1. PICK p \in wrote, e \in pipe_vector_ :
               e.count = 0 /\ fdt[e.out_fd] = <<"r", p[1]>> /\ y = <<p[2], now>>
        BY <2>2, <3>2
      <4> QED
        BY <2>1, <3>2, <4>1
    <3> QED
      BY <3>1, <3>2
  <2>5. Forked(c) => ReadsFrom(r.pv, fdt') = Promise!Input(Forked(c))
    BY <2>3, <2>4
  <2>6. ~Forked(c) => Promise!Input(Forked(c)) = {}
    BY <2>3
  <2> QED
    BY <2>5, <2>6 DEF ExecCmd
<1>7. \A x : x \in Pending' <=>
         \E p \in wrote', e \in r.pv :
            e.count >= 1 /\ fdt'[e.out_fd] = <<"r", p[1]>> /\ x = <<p[2], now + e.count>>
  <2>1. Lag' = 1 /\ \A e \in r.pv : now' + e.count - 1 = now + e.count
    BY <1>0, <1>3 DEF Lag
  <2> QED
    BY <2>1 DEF Pending, LivePipes
<1>8. \A x : x \in Promise!Output(Forked(c), n) <=> Forked(c) /\ n > 0 /\ x = <<now, now + n>>
  BY DEF Promise!Output
<1>9. Pending' = {p \in Pending : p[2] # now} \cup Promise!Output(Forked(c), n)
  <2>1. ASSUME NEW x \in Pending'
        PROVE  x \in {p \in Pending : p[2] # now} \cup Promise!Output(Forked(c), n)
    <3>1. PICK p \in wrote', e \in r.pv :
             e.count >= 1 /\ fdt'[e.out_fd] = <<"r", p[1]>> /\ x = <<p[2], now + e.count>>
      BY <1>7, <2>1
    <3>2. CASE p \in wrote
      <4>1. x \in Pending
        BY <1>0, <1>3, <1>5, <3>1, <3>2, PendingReady
      <4> QED
        BY <1>0, <1>3, <3>1, <4>1
    <3>3. CASE p \notin wrote
      <4>1. Forked(c) /\ p \in WritesTo(r.out, fdt')
        BY <3>3 DEF ExecCmd
      <4>2. PICK f \in r.out : fdt'[f][1] = "w" /\ p = <<fdt'[f][2], now>>
        BY <4>1 DEF WritesTo
      <4>3. c.op = "pipe"
        BY <1>2, <4>2
      <4>4. PICK d \in r.pv : d.count = c.num /\ f = d.in_fd
        BY <1>2, <4>3, <4>2
      <4>5. d.count # 0
        BY <1>3, <4>2, <4>4 DEF Closed
      <4>6. PICK k \in 1 .. now : fdt'[d.out_fd] = <<"r", k>> /\ fdt'[d.in_fd] = <<"w", k>>
        BY <1>3, <4>5
      <4>7. fdt'[e.out_fd] = fdt'[d.out_fd]
        BY <3>1, <4>2, <4>4, <4>6
      <4>8. e.out_fd = d.out_fd
        <5>1. fdt'[e.out_fd][1] = "r"
          BY <3>1
        <5> QED
          BY <1>1, <1>3, <4>7, <5>1 DEF IInv, EndsDiffer
      <4>9. e = d /\ p[2] = now
        BY <1>3, <4>8, <4>2
      <4>10. n = c.num /\ e.count = n
        BY <4>3, <4>4, <4>9
      <4>11. x = <<now, now + n>> /\ n > 0
        BY <1>0, <3>1, <4>9, <4>10
      <4> QED
        BY <1>8, <4>1, <4>11
    <3> QED
      BY <3>2, <3>3
  <2>2. ASSUME NEW x \in Pending, x[2] # now
        PROVE  x \in Pending'
    <3>1. PICK p \in wrote, e \in pipe_vector_ :
             e.count >= 0 /\ fdt[e.out_fd] = <<"r", p[1]>> /\ x = <<p[2], now + e.count>>
      BY <1>0, PendingReady
    <3>2. e.count >= 1
      BY <1>0, <1>2, <1>3, <2>2, <3>1
    <3>3. p \in wrote'
      BY DEF ExecCmd
    <3> QED
      BY <1>2, <1>7, <3>1, <3>2, <3>3
  <2>3. ASSUME Forked(c), n > 0
        PROVE  <<now, now + n>> \in Pending'
    <3>1. PICK e \in r.pv : e.count = n /\ r.out = {e.in_fd}
      BY <1>2, <2>3
    <3>2. e.count # 0 /\ e.count >= 1
      BY <1>0, <2>3, <3>1
    <3>3. PICK k \in 1 .. now : fdt'[e.out_fd] = <<"r", k>> /\ fdt'[e.in_fd] = <<"w", k>>
      BY <1>3, <3>2
    <3>4. <<k, now>> \in WritesTo(r.out, fdt')
      <4>1. fdt'[e.in_fd][1] = "w" /\ fdt'[e.in_fd][2] = k
        BY <3>3
      <4> QED
        BY <3>1, <4>1 DEF WritesTo
    <3>5. <<k, now>> \in wrote'
      BY <2>3, <3>4 DEF ExecCmd
    <3> HIDE DEF n
    <3> QED
      BY <1>7, <3>1, <3>2, <3>3, <3>5
  <2> QED
    BY <1>8, <2>1, <2>2, <2>3
<1> QED
  BY <1>0, <1>6, <1>9 DEF Promise!Execute

(* Every execution of the shell's pipe table is an execution of the        *)
(* numbered pipes it promises: each output reaches the command it was      *)
(* numbered for, and no other.                                             *)
THEOREM PromiseKept == Spec => ImplementsPromise
<1>1. Init => Promise!Init
  BY DEF Init, Promise!Init, Pending
<1>2. IInv /\ [Next]_pipeVars => [Promise!Next]_Promise!vars
  <2> SUFFICES ASSUME IInv, [Next]_pipeVars PROVE [Promise!Next]_Promise!vars
    OBVIOUS
  <2>1. ASSUME NEW c \in Command, Begin(c) PROVE Promise!Next
    <3>1. Forked(c) \in BOOLEAN
      BY DEF Forked
    <3>2. (IF c.op = "pipe" THEN c.num ELSE 0) \in Offset \cup {Promise!NoPipe}
      BY DEF Offset, Promise!NoPipe
    <3>3. Promise!Execute(Forked(c), IF c.op = "pipe" THEN c.num ELSE 0)
      BY <2>1, BeginExecutes
    <3> QED
      BY <3>1, <3>2, <3>3 DEF Promise!Next
  <2>2. ASSUME NEW c \in Command, Exit(c) PROVE UNCHANGED Promise!vars
    BY <2>2 DEF Exit, Promise!vars, Pending, LivePipes, Lag
  <2>3. CASE Finish
    BY <2>3, FinishStutters DEF Finish, Promise!vars
  <2>4. CASE EndOfInput
    BY <2>4 DEF EndOfInput, Promise!vars, Pending, LivePipes, Lag
  <2>5. CASE UNCHANGED pipeVars
    BY <2>5 DEF pipeVars, Promise!vars, Pending, LivePipes, Lag
  <2> QED
    BY <2>1, <2>2, <2>3, <2>4, <2>5 DEF Next
<1> QED
  BY InitInv, NextInv, <1>1, <1>2, PTL DEF Spec, ImplementsPromise, Promise!Spec

-----------------------------------------------------------------------------
(* The shell with its children.                                            *)

(* Every step of the shell with its children is a step of its pipe table   *)
(* or leaves the table alone; only commands that were typed are executed.  *)
LineTyped == cmds_ \in Seq(Command)

LEMMA NpStep == LineTyped /\ [NpNext]_npVars => LineTyped' /\ [Next]_pipeVars
<1> SUFFICES ASSUME cmds_ \in Seq(Command), [NpNext]_npVars
             PROVE  cmds_' \in Seq(Command) /\ [Next]_pipeVars
  BY DEF LineTyped
<1>1. CASE ReadLine
  BY <1>1, LineAssumption DEF ReadLine
<1>2. CASE Leave
  BY <1>2 DEF Leave, Next
<1>3. CASE Exec
  BY <1>3, Head(cmds_) \in Command DEF Exec, Next
<1>4. CASE Quit
  BY <1>4, Head(cmds_) \in Command DEF Quit, Next
<1>5. CASE Tidy
  BY <1>5 DEF Tidy, Next
<1>6. CASE ChildHandler
  BY <1>6 DEF ChildHandler
<1>7. ASSUME NEW c \in Cmd, ChildStep(c) PROVE UNCHANGED <<pipeVars, cmds_>>
  BY <1>7 DEF ChildStep, ReadUnit, WriteUnit, ChildExit
<1>8. CASE UNCHANGED npVars
  BY <1>8 DEF npVars
<1> QED
  BY <1>1, <1>2, <1>3, <1>4, <1>5, <1>6, <1>7, <1>8 DEF NpNext, ShellStep

(* What is proved of the pipe table holds in the complete shell.           *)
THEOREM ShellUsesTable == NpSpec => Spec
<1>1. NpInit => Init /\ LineTyped
  BY DEF NpInit, LineTyped
<1> QED
  BY <1>1, NpStep, PTL DEF NpSpec, Spec

(* In the complete shell, with children running beside it, every output is *)
(* delivered to the command it was numbered for.                           *)
THEOREM ShellKeepsPromise == NpSpec => ImplementsPromise /\ CloseOnlyDue
  BY ShellUsesTable, PromiseKept, ClosingConfined

-----------------------------------------------------------------------------
(* The invariant behind WaitsOnlyBackwards: once a pipe is some command's  *)
(* input, its write end is gone from the shell's table, so no child forked *)
(* later inherits it.                                                      *)
ForkedBefore == \A c \in Cmd : c >= now => proc[c].in = {} /\ proc[c].held = {}

InputsClosed ==
    \A c \in Cmd : \A k \in proc[c].in :
        /\ k \in 1 .. now - 1
        /\ \A f \in Fd : fdt[f] # <<"w", k>>
        /\ \A d \in Cmd : <<"w", k>> \in proc[d].held => d < c

NpInv ==
    /\ IInv
    /\ LineTyped
    /\ DOMAIN proc = Cmd
    /\ ForkedBefore
    /\ InputsClosed

LEMMA ExecInputsClosed ==
  ASSUME NpInv, Exec
  PROVE  ForkedBefore' /\ InputsClosed' /\ DOMAIN proc' = Cmd
<1> USE DEF NpInv, LineTyped
<1> DEFINE h == Head(cmds_)
<1>0. /\ now \in Nat \ {0} /\ now' = now + 1 /\ now \in Cmd /\ phase' = "ran"
      /\ h \in Command /\ Begin(h)
  BY MaxCmdAssumption DEF IInv, TypeOK, Exec, Begin, Ready, Cmd
<1>1. IInv'
  BY <1>0, BeginInv
<1>2. \A k \in 1 .. now - 1 : (\A f \in Fd : fdt[f] # <<"w", k>>) => \A f \in Fd : fdt'[f] # <<"w", k>>
  <2> SUFFICES ASSUME NEW k \in 1 .. now - 1, \A f \in Fd : fdt[f] # <<"w", k>>, NEW f \in Fd
               PROVE  fdt'[f] # <<"w", k>>
    OBVIOUS
  <2> PICK r \in Redirect(h) : fdt' = GetPipeFd(r.pv, r.t)
    BY <1>0 DEF Begin
  <2>1. fdt \in [Fd -> End]
    BY DEF IInv, TypeOK
  <2>2. r.t[f] # <<"w", k>>
    BY <1>0, <2>1, RedirectShapes DEF Result, NewPipe, Free
  <2> QED
    BY <2>2 DEF GetPipeFd, CloseAll, Closed
<1>3. \A c \in Cmd \ {now} : proc'[c] = proc[c]
  BY DEF Exec
<1>4. DOMAIN proc' = Cmd
  BY DEF Exec
<1>5. CASE ~Forked(h)
  <2>1. proc' = proc
    BY <1>5 DEF Exec
  <2> QED
    <3>1. ForkedBefore'
      BY <1>0, <2>1 DEF ForkedBefore, Cmd
    <3>2. InputsClosed'
      <4>1. \A k \in 1 .. now - 1 : k \in 1 .. now' - 1
        BY <1>0
      <4> QED
        BY <1>2, <2>1, <4>1 DEF InputsClosed
    <3> QED
      BY <1>4, <3>1, <3>2
<1>6. CASE Forked(h)
  <2>1. /\ proc'[now].in = {fdt'[e.out_fd][2] : e \in Due(pipe_vector_')}
        /\ proc'[now].held = {fdt'[f] : f \in Fd} \ {Closed}
    BY <1>0, <1>6 DEF Exec, Fork
  <2>2. ForkedBefore'
    BY <1>0, <1>3 DEF ForkedBefore
  <2>3. ASSUME NEW c \in Cmd \ {now}, NEW k \in proc'[c].in
        PROVE  /\ k \in 1 .. now' - 1 /\ \A f \in Fd : fdt'[f] # <<"w", k>>
               /\ \A d \in Cmd : <<"w", k>> \in proc'[d].held => d < c
    <3>1. /\ k \in proc[c].in /\ k \in 1 .. now - 1 /\ \A f \in Fd : fdt[f] # <<"w", k>>
          /\ \A d \in Cmd : <<"w", k>> \in proc[d].held => d < c
      BY <1>3, <2>3 DEF InputsClosed
    <3>2. \A f \in Fd : fdt'[f] # <<"w", k>>
      BY <1>2, <3>1
    <3>3. <<"w", k>> \notin proc'[now].held
      BY <2>1, <3>2
    <3>4. k \in 1 .. now' - 1
      BY <1>0, <3>1
    <3> QED
      BY <1>3, <3>1, <3>2, <3>3, <3>4
  <2>4. ASSUME NEW k \in proc'[now].in
        PROVE  /\ k \in 1 .. now' - 1 /\ \A f \in Fd : fdt'[f] # <<"w", k>>
               /\ \A d \in Cmd : <<"w", k>> \in proc'[d].held => d < now
    <3>1. PICK e \in pipe_vector_' : e.count = 0 /\ k = fdt'[e.out_fd][2]
      BY <2>1, <2>4 DEF Due
    <3>2. PICK j \in 1 .. now : fdt'[e.out_fd] = <<"r", j>> /\ fdt'[e.in_fd] = Closed
      <4>1. PICK i \in 1 .. now' - 1 :
               /\ fdt'[e.out_fd] = <<"r", i>>
               /\ fdt'[e.in_fd] = IF e.count = 0 THEN Closed ELSE <<"w", i>>
        BY <1>0, <1>1 DEF IInv, PipesIntact, WriteEndClosed
      <4> QED
        BY <1>0, <3>1, <4>1
    <3>3. k = j
      BY <3>1, <3>2
    <3>4. \A f \in Fd : fdt'[f] # <<"w", k>>
      <4> SUFFICES ASSUME NEW f \in Fd, fdt'[f] = <<"w", k>> PROVE FALSE
        OBVIOUS
      <4>1. fdt'[f][1] = "w"
        OBVIOUS
      <4>2. PICK d \in pipe_vector_' : f \in {d.in_fd, d.out_fd}
        BY <1>1, <4>1 DEF IInv, OneOwner, Owners
      <4>3. PICK i \in 1 .. now' - 1 :
               /\ fdt'[d.out_fd] = <<"r", i>>
               /\ fdt'[d.in_fd] = IF d.count = 0 THEN Closed ELSE <<"w", i>>
        BY <1>0, <1>1 DEF IInv, PipesIntact, WriteEndClosed
      <4>4. d.count # 0 /\ i = k
        BY <4>1, <4>2, <4>3 DEF Closed
      <4>5. d.out_fd \in Fd /\ e.out_fd \in Fd
        BY <1>1 DEF IInv, TypeOK, PipeFd
      <4>6. fdt'[d.out_fd] = fdt'[e.out_fd] /\ fdt'[d.out_fd][1] = "r"
        BY <3>2, <3>3, <4>3, <4>4
      <4>7. d.out_fd = e.out_fd
        BY <1>1, <4>5, <4>6 DEF IInv, EndsDiffer
      <4>8. d = e
        BY <1>1, <4>5, <4>7 DEF IInv, OneOwner, Owners
      <4> QED
        BY <3>1, <4>4, <4>8
    <3>5. \A d \in Cmd : <<"w", k>> \in proc'[d].held => d < now
      <4>1. <<"w", k>> \notin proc'[now].held
        BY <2>1, <3>4
      <4>2. \A d \in Cmd : d > now => proc'[d].held = {}
        BY <1>0, <1>3 DEF ForkedBefore, Cmd
      <4> QED
        BY <1>0, <4>1, <4>2 DEF Cmd
    <3> QED
      BY <1>0, <3>3, <3>4, <3>5
  <2>5. InputsClosed'
    BY <2>3, <2>4 DEF InputsClosed
  <2> QED
    BY <1>4, <2>2, <2>5
<1> QED
  BY <1>5, <1>6

(* Every other step forks nothing and opens nothing.                       *)
LEMMA OtherInputsClosed ==
  ASSUME NpInv, now' = now, DOMAIN proc' = Cmd,
         \A c \in Cmd : proc'[c].in = proc[c].in /\ proc'[c].held = proc[c].held,
         \A f \in Fd : fdt'[f] = fdt[f] \/ fdt'[f] = Closed
  PROVE  ForkedBefore' /\ InputsClosed' /\ DOMAIN proc' = Cmd
  BY DEF NpInv, ForkedBefore, InputsClosed, Closed

LEMMA NpNextInv == NpInv /\ [NpNext]_npVars => NpInv'
<1> SUFFICES ASSUME NpInv, [NpNext]_npVars PROVE NpInv'
  OBVIOUS
<1> USE DEF NpInv
<1>1. LineTyped' /\ IInv'
  BY NpStep, NextInv
<1>2. ForkedBefore' /\ InputsClosed' /\ DOMAIN proc' = Cmd
  <2>1. CASE Exec
    BY <2>1, ExecInputsClosed
  <2>2. CASE Tidy
    <3>1. \A f \in Fd : fdt'[f] = fdt[f] \/ fdt'[f] = Closed
      BY <2>2 DEF Tidy, Finish, CloseAll
    <3>2. DOMAIN proc' = Cmd /\ \A c \in Cmd : proc'[c].in = proc[c].in /\ proc'[c].held = proc[c].held
      BY <2>2 DEF Tidy
    <3> QED
      BY <2>2, <3>1, <3>2, OtherInputsClosed DEF Tidy, Finish
  <2>3. CASE ChildHandler
    <3>1. DOMAIN proc' = Cmd /\ \A c \in Cmd : proc'[c].in = proc[c].in /\ proc'[c].held = proc[c].held
      BY <2>3 DEF ChildHandler
    <3> QED
      BY <2>3, <3>1, OtherInputsClosed DEF ChildHandler, pipeVars
  <2>4. ASSUME NEW c \in Cmd, ChildStep(c) PROVE ForkedBefore' /\ InputsClosed' /\ DOMAIN proc' = Cmd
    <3>1. DOMAIN proc' = Cmd /\ \A d \in Cmd : proc'[d].in = proc[d].in /\ proc'[d].held = proc[d].held
      <4>1. CASE ReadUnit(c)
        BY <4>1 DEF ReadUnit
      <4>2. CASE WriteUnit(c)
        BY <4>2 DEF WriteUnit
      <4>3. CASE ChildExit(c)
        BY <4>3 DEF ChildExit
      <4> QED
        BY <2>4, <4>1, <4>2, <4>3 DEF ChildStep
    <3>2. UNCHANGED pipeVars
      BY <2>4 DEF ChildStep, ReadUnit, WriteUnit, ChildExit
    <3> QED
      BY <3>1, <3>2, OtherInputsClosed DEF pipeVars
  <2>5. CASE ReadLine \/ Leave \/ Quit \/ UNCHANGED npVars
    <3>1. UNCHANGED <<now, fdt, proc>>
      BY <2>5 DEF ReadLine, Leave, EndOfInput, Quit, Exit, npVars, pipeVars, childVars
    <3> QED
      BY <3>1, OtherInputsClosed
  <2> QED
    BY <2>1, <2>2, <2>3, <2>4, <2>5 DEF NpNext, ShellStep
<1> QED
  BY <1>1, <1>2

(* However the children inherit descriptors, a reader waits for end of     *)
(* file only on commands executed before it: never on the shell, on itself *)
(* or on a later command.                                                  *)
THEOREM WaitingAcyclic == NpSpec => []WaitsOnlyBackwards
<1>1. NpInit => NpInv
  BY InitInv DEF NpInit, NpInv, LineTyped, ForkedBefore, InputsClosed, NoChild
<1>2. NpInv => WaitsOnlyBackwards
  BY DEF NpInv, InputsClosed, WaitsOnlyBackwards, Holders, ShellHolds
<1> QED
  BY <1>1, <1>2, NpNextInv, PTL DEF NpSpec
-----------------------------------------------------------------------------
(* What is true of the children besides, whatever they have done so far.   *)

(* At most one pipe is due at a command, and a command is redirected at    *)
(* most once: a child reads one pipe and writes one pipe, both ends of     *)
(* which it holds.                                                         *)
OneInput == \A c \in Cmd : \A j, k \in proc[c].in : j = k
OneOutput ==
    \A c \in Cmd :
        /\ \A j, k \in proc[c].out : j = k
        /\ \A k \in proc[c].out : <<"r", k>> \in proc[c].held /\ <<"w", k>> \in proc[c].held

(* The history variables speak about these children.                       *)
WritersKnown == \A p \in wrote : p[2] \in Cmd /\ <<"w", p[1]>> \in proc[p[2]].held
ReadersKnown ==
    \A g \in got : g[1] \in Cmd /\ \E k \in proc[g[1]].in : <<k, g[2]>> \in wrote

(* last is the command executed last, and its child is the last one.       *)
Count == now <= MaxCmd + 1 /\ (phase = "ran" => now > 1)
LastKnown ==
    now > 1 /\ Forked(last) =>
        /\ proc[now - 1].st # "none"
        /\ proc[now - 1].prog = last.prog
        /\ last.op # "pipe" => proc[now - 1].out = {}

(* The foreground child is dead at the prompt.                             *)
LastWaited == phase = "ready" /\ now > 1 /\ InForeground => ~Running(now - 1)

(* A reader that has come to its end has outlived all that could write to  *)
(* its input; nobody gets hold of the write end later.                     *)
ReadersOutlive ==
    \A c \in Cmd : proc[c].prog = "cat" /\ proc[c].st \in {"zombie", "reaped"} =>
        \A k \in proc[c].in : Holders(<<"w", k>>) = {}

ChildInv ==
    /\ NpTypeOK
    /\ OneInput
    /\ OneOutput
    /\ WritersKnown
    /\ ReadersKnown
    /\ Count
    /\ LastKnown
    /\ LastWaited
    /\ ReadersOutlive
(* What Exec gives the child it forks.                                     *)
LEMMA ForkFacts ==
    ASSUME NpInv, Exec, Forked(Head(cmds_))
    PROVE  LET h == Head(cmds_)
               p == Fork(h)
           IN  /\ \A j, k \in p.in : j = k
               /\ p.in \subseteq 1 .. now
               /\ p.held \subseteq {"r", "w", "file"} \X (1 .. now)
               /\ \A j, k \in p.out : j = k
               /\ \A k \in p.out : <<"r", k>> \in p.held /\ <<"w", k>> \in p.held
               /\ p.out \subseteq 1 .. now
               /\ h.op # "pipe" => p.out = {}
               /\ \A q \in wrote' : q \in wrote \/ (q[2] = now /\ <<"w", q[1]>> \in p.held)
               /\ \A g \in got' : g \in got
                                    \/ (g[1] = now /\ \E k \in p.in : <<k, g[2]>> \in wrote)
<1> DEFINE h == Head(cmds_)
           p == Fork(h)
<1>1. /\ now \in Nat \ {0} /\ now' = now + 1 /\ now' - 1 = now /\ phase = "ready"
      /\ phase' = "ran" /\ h \in Command /\ Begin(h) /\ IInv
  BY DEF NpInv, LineTyped, IInv, TypeOK, Exec, Begin, Ready
<1>2. IInv'
  BY <1>1, BeginInv
<1>3. PICK r \in Redirect(h) : /\ pipe_vector_' = r.pv
                               /\ fdt' = GetPipeFd(r.pv, r.t)
                               /\ ExecCmd(h, r.pv, fdt', r.out)
  BY <1>1 DEF Begin
<1>4. /\ h.op = "pipe" => \E e \in r.pv : r.out = {e.in_fd}
      /\ h.op # "pipe" => \A f \in r.out : fdt'[f][1] # "w"
  BY <1>1, <1>2, <1>3, BeginFacts
<1>5. /\ wrote' = wrote \cup WritesTo(r.out, fdt')
      /\ got' = got \cup ReadsFrom(r.pv, fdt')
  BY <1>3 DEF ExecCmd
<1>6. /\ p.in = {fdt'[e.out_fd][2] : e \in Due(r.pv)}
      /\ p.out = {q[1] : q \in wrote' \ wrote}
      /\ p.held = {fdt'[f] : f \in Fd} \ {Closed}
  BY <1>3 DEF Fork
<1>7. fdt' \in [Fd -> End] /\ r.pv \subseteq PipeFd
  BY <1>2, <1>3 DEF IInv, TypeOK
<1>8. \A e \in r.pv : \E k \in 1 .. now :
         /\ fdt'[e.out_fd] = <<"r", k>>
         /\ fdt'[e.in_fd] = <<"w", k>> \/ fdt'[e.in_fd] = Closed
  BY <1>1, <1>2, <1>3 DEF IInv, PipesIntact
<1>a. \A j, k \in p.in : j = k
  <2>1. \A d, e \in Due(r.pv) : d = e
    BY <1>2, <1>3 DEF IInv, UniqueCounts, Due
  <2> QED
    BY <1>6, <2>1
<1>b. p.in \subseteq 1 .. now
  <2> SUFFICES ASSUME NEW e \in Due(r.pv) PROVE fdt'[e.out_fd][2] \in 1 .. now
    BY <1>6
  <2>1. PICK k \in 1 .. now : fdt'[e.out_fd] = <<"r", k>>
    BY <1>8 DEF Due
  <2> QED
    BY <2>1
<1>c. p.held \subseteq {"r", "w", "file"} \X (1 .. now)
  <2> SUFFICES ASSUME NEW f \in Fd, fdt'[f] # Closed
               PROVE  fdt'[f] \in {"r", "w", "file"} \X (1 .. now)
    BY <1>6
  <2>1. fdt'[f] \in {"r", "w", "file"} \X Nat
    BY <1>7 DEF End
  <2>2. fdt'[f] = <<fdt'[f][1], fdt'[f][2]>> /\ fdt'[f][1] \in {"r", "w", "file"}
    BY <2>1
  <2>3. fdt'[f][2] \in 1 .. now
    BY <1>1, <1>2, <2>2 DEF IInv, EndsOld
  <2> QED
    BY <2>2, <2>3
<1>9. \A q \in wrote' \ wrote :
         \E f \in r.out : fdt'[f][1] = "w" /\ q = <<fdt'[f][2], now>>
  BY <1>5 DEF WritesTo
<1>10. ASSUME NEW q \in wrote' \ wrote
       PROVE  /\ h.op = "pipe"
              /\ \E e \in r.pv : /\ r.out = {e.in_fd}
                                 /\ \E k \in 1 .. now : /\ fdt'[e.out_fd] = <<"r", k>>
                                                        /\ fdt'[e.in_fd] = <<"w", k>>
                                                        /\ q = <<k, now>>
  <2>1. PICK f \in r.out : fdt'[f][1] = "w" /\ q = <<fdt'[f][2], now>>
    BY <1>9
  <2>2. h.op = "pipe"
    BY <1>4, <2>1
  <2>3. PICK e \in r.pv : r.out = {e.in_fd}
    BY <1>4, <2>2
  <2>4. f = e.in_fd
    BY <2>3
  <2>5. PICK k \in 1 .. now : /\ fdt'[e.out_fd] = <<"r", k>>
                              /\ fdt'[e.in_fd] = <<"w", k>> \/ fdt'[e.in_fd] = Closed
    BY <1>8
  <2>6. fdt'[e.in_fd] = <<"w", k>>
    BY <2>1, <2>4, <2>5 DEF Closed
  <2> QED
    BY <2>1, <2>2, <2>3, <2>4, <2>5, <2>6
<1>d. \A j, k \in p.out : j = k
  <2> SUFFICES ASSUME NEW q \in wrote' \ wrote, NEW s \in wrote' \ wrote
               PROVE  q[1] = s[1]
    BY <1>6
  <2>1. PICK f \in r.out : q = <<fdt'[f][2], now>>
    BY <1>9
  <2>2. PICK g \in r.out : s = <<fdt'[g][2], now>>
    BY <1>9
  <2>3. f = g
    BY <1>10
  <2> QED
    BY <2>1, <2>2, <2>3
<1>11. ASSUME NEW q \in wrote' \ wrote
       PROVE  /\ q[1] \in 1 .. now /\ q[2] = now
              /\ <<"r", q[1]>> \in p.held /\ <<"w", q[1]>> \in p.held
  <2>1. PICK e \in r.pv, k \in 1 .. now :
           fdt'[e.out_fd] = <<"r", k>> /\ fdt'[e.in_fd] = <<"w", k>> /\ q = <<k, now>>
    BY <1>10
  <2>2. e.in_fd \in Fd /\ e.out_fd \in Fd
    BY <1>7 DEF PipeFd
  <2>3. <<"r", k>> # Closed /\ <<"w", k>> # Closed
    BY DEF Closed
  <2> QED
    BY <1>6, <2>1, <2>2, <2>3
<1>e. \A k \in p.out : <<"r", k>> \in p.held /\ <<"w", k>> \in p.held /\ k \in 1 .. now
  BY <1>6, <1>11
<1>f. h.op # "pipe" => p.out = {}
  BY <1>6, <1>10
<1>g. \A q \in wrote' : q \in wrote \/ (q[2] = now /\ <<"w", q[1]>> \in p.held)
  BY <1>11
<1>h. ASSUME NEW g \in got', g \notin got
      PROVE  g[1] = now /\ \E k \in p.in : <<k, g[2]>> \in wrote
  <2>1. PICK q \in wrote, e \in Due(r.pv) : g = <<now, q[2]>> /\ fdt'[e.out_fd] = <<"r", q[1]>>
    BY <1>5, <1>h DEF ReadsFrom
  <2>2. q = <<q[1], q[2]>>
    BY <1>1 DEF IInv, TypeOK
  <2>3. q[1] \in p.in
    BY <1>6, <2>1
  <2> QED
    BY <2>1, <2>2, <2>3
<1> HIDE DEF p
<1> QED
  BY <1>a, <1>b, <1>c, <1>d, <1>e, <1>f, <1>g, <1>h DEF p
(* Every step of the children, and of the shell but for fork, leaves the   *)
(* wiring alone and starts nobody.                                         *)
LEMMA WiringStays ==
    ASSUME ChildInv, UNCHANGED <<wrote, got>>,
           \A c \in Cmd : /\ proc'[c].in = proc[c].in
                          /\ proc'[c].out = proc[c].out
                          /\ proc'[c].held = proc[c].held
    PROVE  OneInput' /\ OneOutput' /\ WritersKnown' /\ ReadersKnown'
<1> USE DEF ChildInv
<1>1. OneInput' /\ OneOutput'
  BY DEF OneInput, OneOutput
<1>2. WritersKnown' /\ ReadersKnown'
  BY DEF WritersKnown, ReadersKnown
<1> QED
  BY <1>1, <1>2

LEMMA OutliveStays ==
    ASSUME ReadersOutlive,
           \A c \in Cmd : /\ proc'[c].in = proc[c].in /\ proc'[c].held = proc[c].held
                          /\ proc'[c].prog = proc[c].prog
                          /\ Running(c)' => Running(c)
                          /\ proc'[c].st \in {"zombie", "reaped"} /\ proc[c].prog = "cat" =>
                                \/ proc[c].st \in {"zombie", "reaped"}
                                \/ \A k \in proc[c].in : Holders(<<"w", k>>) = {}
    PROVE  ReadersOutlive'
<1>1. \A k : Holders(<<"w", k>>)' \subseteq Holders(<<"w", k>>)
  BY DEF Holders
<1> QED
  BY <1>1 DEF ReadersOutlive

LEMMA ExecChild == ASSUME NpInv, ChildInv, Exec PROVE ChildInv'
<1> DEFINE h == Head(cmds_)
           p == Fork(h)
<1>0. /\ now \in Nat \ {0} /\ now' = now + 1 /\ now' - 1 = now /\ now \in Cmd
      /\ phase = "ready" /\ phase' = "ran" /\ h \in Command /\ Begin(h) /\ IInv
      /\ now' <= MaxCmd + 1 /\ now' > 1 /\ last' = h
  BY MaxCmdAssumption DEF NpInv, LineTyped, IInv, TypeOK, Exec, Begin, Ready, Cmd
<1>1. TypeOK'
  BY <1>0, BeginInv DEF IInv
<1>2. 1 .. now \subseteq Cmd
  BY <1>0, MaxCmdAssumption DEF Cmd
<1>3. /\ cmds_' \in Seq(Command) /\ last' \in [prog : Program, op : Redirection, num : Int]
      /\ buf' \in [Cmd -> 0 .. Cap] /\ sigchld' \in BOOLEAN
  BY <1>0, CommandAssumption DEF ChildInv, NpTypeOK, Exec
<1>4. Count' /\ LastWaited'
  BY <1>0 DEF Count, LastWaited
<1>5. CASE ~Forked(h)
  <2>1. proc' = proc
    BY <1>5 DEF Exec
  <2>2. wrote' = wrote /\ got' = got
    BY <1>0, <1>5 DEF Begin, ExecCmd
  <2>3. OneInput' /\ OneOutput' /\ WritersKnown' /\ ReadersKnown'
    BY <2>1, <2>2, WiringStays
  <2>4. ReadersOutlive'
    BY <2>1 DEF ChildInv, ReadersOutlive, Holders, Running
  <2>5. LastKnown'
    BY <1>0, <1>5 DEF LastKnown, Forked
  <2>6. NpTypeOK'
    BY <1>1, <1>3, <2>1 DEF ChildInv, NpTypeOK
  <2> QED
    BY <1>4, <2>3, <2>4, <2>5, <2>6 DEF ChildInv
<1>6. CASE Forked(h)
  <2>1. /\ \A j, k \in p.in : j = k
        /\ p.in \subseteq 1 .. now
        /\ p.held \subseteq {"r", "w", "file"} \X (1 .. now)
        /\ \A j, k \in p.out : j = k
        /\ \A k \in p.out : <<"r", k>> \in p.held /\ <<"w", k>> \in p.held
        /\ p.out \subseteq 1 .. now
        /\ h.op # "pipe" => p.out = {}
        /\ \A q \in wrote' : q \in wrote \/ (q[2] = now /\ <<"w", q[1]>> \in p.held)
        /\ \A g \in got' : g \in got
                             \/ (g[1] = now /\ \E k \in p.in : <<k, g[2]>> \in wrote)
    BY <1>6, ForkFacts
  <2>2. proc' = [proc EXCEPT ![now] = p] /\ proc \in [Cmd -> Child]
    BY <1>6 DEF Exec, ChildInv, NpTypeOK
  <2>3. proc'[now] = p /\ \A c \in Cmd \ {now} : proc'[c] = proc[c]
    BY <1>0, <2>2
  <2>4. p.st = "running" /\ p.prog = h.prog /\ h.prog \in {"noop", "cat"} /\ p.left \in Nat
    BY <1>0, <1>6, CommandAssumption, FileSizeAssumption DEF Fork, Forked, Program
  <2>5. p \in Child
    <3>1. p = [st |-> p.st, prog |-> p.prog, in |-> p.in, out |-> p.out, held |-> p.held,
               left |-> p.left]
      BY DEF Fork
    <3>2. p.in \subseteq Cmd /\ p.out \subseteq Cmd /\ p.held \subseteq {"r", "w", "file"} \X Cmd
      BY <1>2, <2>1
    <3> HIDE DEF p
    <3> QED
      BY <2>4, <3>1, <3>2 DEF Child
  <2> HIDE DEF p
  <2>6. NpTypeOK'
    BY <1>0, <1>1, <1>3, <2>2, <2>5 DEF NpTypeOK
  <2>7. OneInput' /\ OneOutput'
    BY <2>1, <2>3 DEF ChildInv, OneInput, OneOutput
  <2>8. WritersKnown'
    <3> SUFFICES ASSUME NEW q \in wrote'
                 PROVE  q[2] \in Cmd /\ <<"w", q[1]>> \in proc'[q[2]].held
      BY DEF WritersKnown
    <3>1. CASE q \in wrote
      <4>1. q[2] \in Cmd /\ <<"w", q[1]>> \in proc[q[2]].held /\ q[2] < now /\ q[2] # now
        BY <1>0, <3>1 DEF ChildInv, WritersKnown, IInv, PipeNumbersOld
      <4> QED
        BY <2>3, <4>1
    <3>2. CASE q[2] = now /\ <<"w", q[1]>> \in p.held
      BY <1>0, <2>3, <3>2
    <3> QED
      BY <2>1, <3>1, <3>2
  <2>9. wrote \subseteq wrote'
    BY <1>0, <1>6 DEF Begin, ExecCmd
  <2>10. ReadersKnown'
    <3> SUFFICES ASSUME NEW g \in got'
                 PROVE  g[1] \in Cmd /\ \E k \in proc'[g[1]].in : <<k, g[2]>> \in wrote'
      BY DEF ReadersKnown
    <3>1. CASE g \in got
      <4>1. PICK k \in proc[g[1]].in : g[1] \in Cmd /\ <<k, g[2]>> \in wrote
        BY <3>1 DEF ChildInv, ReadersKnown
      <4>2. g[1] # now
        BY <1>0, <4>1 DEF NpInv, ForkedBefore
      <4> QED
        BY <2>3, <2>9, <4>1, <4>2
    <3>2. CASE g[1] = now /\ \E k \in p.in : <<k, g[2]>> \in wrote
      BY <1>0, <2>3, <2>9, <3>2
    <3> QED
      BY <2>1, <3>1, <3>2
  <2>11. LastKnown'
    BY <1>0, <2>1, <2>3, <2>4 DEF LastKnown
  <2>12. ReadersOutlive'
    <3> SUFFICES ASSUME NEW c \in Cmd, proc'[c].prog = "cat",
                        proc'[c].st \in {"zombie", "reaped"},
                        NEW k \in proc'[c].in, NEW d \in Holders(<<"w", k>>)'
                 PROVE  FALSE
      BY DEF ReadersOutlive
    <3>1. c # now /\ proc'[c] = proc[c]
      BY <2>3, <2>4
    <3>2. d \in Cmd /\ Running(d)' /\ <<"w", k>> \in proc'[d].held
      BY DEF Holders
    <3>3. Holders(<<"w", k>>) = {}
      BY <3>1 DEF ChildInv, ReadersOutlive
    <3>4. d = now
      BY <2>3, <3>2, <3>3 DEF Holders, Running
    <3>5. InputsClosed'
      BY ExecInputsClosed
    <3>6. \A f \in Fd : fdt'[f] # <<"w", k>>
      BY <3>5 DEF InputsClosed
    <3>7. p.held = {fdt'[f] : f \in Fd} \ {Closed}
      BY DEF p, Fork
    <3> QED
      BY <2>3, <3>2, <3>4, <3>6, <3>7
  <2> QED
    BY <1>4, <2>6, <2>7, <2>8, <2>10, <2>11, <2>12 DEF ChildInv
<1> QED
  BY <1>5, <1>6
LEMMA TidyChild == ASSUME NpInv, ChildInv, Tidy PROVE ChildInv'
<1> USE DEF ChildInv
<1>0. /\ now \in Nat \ {0} /\ now > 1 /\ now <= MaxCmd + 1 /\ now - 1 \in Cmd
      /\ proc \in [Cmd -> Child] /\ phase = "ran" /\ UNCHANGED <<now, alive, wrote, got>>
  BY MaxCmdAssumption DEF NpTypeOK, TypeOK, Count, Tidy, Finish, Cmd
<1>1. TypeOK'
  BY FinishInv DEF NpInv, IInv, Tidy
<1>2. /\ proc' \in [Cmd -> Child]
      /\ \A c \in Cmd : proc'[c] = proc[c]
           \/ (c = now - 1 /\ InForeground /\ proc'[c] = [proc[c] EXCEPT !.st = "reaped"])
  BY <1>0 DEF Tidy, Child
<1>3. NpTypeOK'
  BY <1>1, <1>2 DEF NpTypeOK, Tidy
<1>4. \A c \in Cmd : /\ proc'[c].in = proc[c].in
                     /\ proc'[c].out = proc[c].out
                     /\ proc'[c].held = proc[c].held
                     /\ proc'[c].prog = proc[c].prog
                     /\ Running(c)' => Running(c)
  BY <1>0, <1>2 DEF Child, Running
<1>5. OneInput' /\ OneOutput' /\ WritersKnown' /\ ReadersKnown'
  BY <1>0, <1>4, WiringStays
<1>6. Count'
  BY <1>0 DEF Count
<1>7. LastKnown'
  BY <1>0, <1>2, <1>4 DEF LastKnown, Tidy, Child
<1>8. LastWaited'
  <2>1. CASE InForeground
    BY <1>0, <2>1 DEF LastWaited, Tidy, Running
  <2>2. CASE ~InForeground
    BY <2>2 DEF LastWaited, Tidy, InForeground
  <2> QED
    BY <2>1, <2>2
<1>9. ReadersOutlive'
  <2>1. ASSUME NEW c \in Cmd, proc'[c].st \in {"zombie", "reaped"}
        PROVE  proc[c].st \in {"zombie", "reaped"}
    <3>1. CASE c = now - 1 /\ InForeground
      <4>1. ~Running(c) /\ proc[c].st # "none"
        BY <1>0, <3>1 DEF Tidy, LastKnown, InForeground
      <4>2. proc[c].st \in {"none", "running", "zombie", "reaped"}
        BY <1>0 DEF Child
      <4> QED
        BY <4>1, <4>2 DEF Running
    <3> QED
      BY <1>2, <2>1, <3>1
  <2> QED
    BY <1>4, <2>1, OutliveStays
<1> QED
  BY <1>3, <1>5, <1>6, <1>7, <1>8, <1>9

(* A step that changes nothing but what the children have done.            *)
LEMMA ChildrenAct ==
    ASSUME ChildInv, UNCHANGED <<pipeVars, cmds_, last>>,
           proc' \in [Cmd -> Child], buf' \in [Cmd -> 0 .. Cap], sigchld' \in BOOLEAN,
           \A c \in Cmd : /\ proc'[c].in = proc[c].in
                          /\ proc'[c].out = proc[c].out
                          /\ proc'[c].held = proc[c].held
                          /\ proc'[c].prog = proc[c].prog
                          /\ Running(c)' => Running(c)
                          /\ proc[c].st # "none" => proc'[c].st # "none",
           ReadersOutlive'
    PROVE  ChildInv'
<1> USE DEF ChildInv, pipeVars
<1>1. NpTypeOK'
  BY DEF NpTypeOK, TypeOK
<1>2. OneInput' /\ OneOutput' /\ WritersKnown' /\ ReadersKnown'
  BY WiringStays
<1>3. Count'
  BY DEF Count
<1>4. now > 1 => now - 1 \in Cmd
  BY MaxCmdAssumption DEF Count, NpTypeOK, TypeOK, Cmd
<1>5. LastKnown' /\ LastWaited'
  BY <1>4 DEF LastKnown, LastWaited, InForeground
<1> QED
  BY <1>1, <1>2, <1>3, <1>5

LEMMA HandlerChild == ASSUME ChildInv, ChildHandler PROVE ChildInv'
<1>1. proc \in [Cmd -> Child] /\ buf \in [Cmd -> 0 .. Cap]
  BY DEF ChildInv, NpTypeOK
<1>2. \A c \in Cmd : proc'[c] = proc[c]
         \/ (proc[c].st = "zombie" /\ proc'[c] = [proc[c] EXCEPT !.st = "reaped"])
  BY DEF ChildHandler
<1>3. proc' \in [Cmd -> Child]
  <2>1. \A c \in Cmd : [proc[c] EXCEPT !.st = "reaped"] \in Child
    BY <1>1 DEF Child
  <2> QED
    BY <1>1, <2>1 DEF ChildHandler
<1>4. \A c \in Cmd : /\ proc'[c].in = proc[c].in
                     /\ proc'[c].out = proc[c].out
                     /\ proc'[c].held = proc[c].held
                     /\ proc'[c].prog = proc[c].prog
                     /\ Running(c)' => Running(c)
                     /\ proc[c].st # "none" => proc'[c].st # "none"
                     /\ proc'[c].st \in {"zombie", "reaped"} =>
                           proc[c].st \in {"zombie", "reaped"}
  <2> TAKE c \in Cmd
  <2>1. CASE proc'[c] = proc[c]
    BY <2>1 DEF Running
  <2>2. CASE proc[c].st = "zombie" /\ proc'[c] = [proc[c] EXCEPT !.st = "reaped"]
    <3>1. proc[c] \in Child
      BY <1>1
    <3> QED
      BY <2>2, <3>1 DEF Child, Running
  <2> QED
    BY <1>2, <2>1, <2>2
<1>5. ReadersOutlive'
  BY <1>4, OutliveStays DEF ChildInv
<1> QED
  BY <1>1, <1>3, <1>4, <1>5, ChildrenAct DEF ChildHandler

LEMMA StepChild == ASSUME NpInv, ChildInv, NEW c \in Cmd, ChildStep(c) PROVE ChildInv'
<1>0. /\ proc \in [Cmd -> Child] /\ buf \in [Cmd -> 0 .. Cap] /\ sigchld \in BOOLEAN
      /\ Running(c) /\ UNCHANGED <<pipeVars, cmds_, last>>
  BY DEF ChildInv, NpTypeOK, ChildStep, ReadUnit, WriteUnit, ChildExit
<1>1. CASE ReadUnit(c) \/ WriteUnit(c)
  <2>1. PICK n \in Nat : proc' = [proc EXCEPT ![c].left = n]
    <3>1. CASE ReadUnit(c)
      BY <3>1 DEF ReadUnit
    <3>2. CASE WriteUnit(c)
      <4>1. proc[c].left \in Nat /\ proc[c].left > 0
        BY <1>0, <3>2 DEF WriteUnit, CanWrite, Child
      <4>2. proc[c].left - 1 \in Nat
        BY <4>1
      <4> QED
        BY <3>2, <4>2 DEF WriteUnit
    <3> QED
      BY <1>1, <3>1, <3>2
  <2>2. proc' \in [Cmd -> Child]
    BY <1>0, <2>1 DEF Child
  <2>3. buf' \in [Cmd -> 0 .. Cap]
    <3>1. CASE ReadUnit(c)
      <4>1. \A k \in proc[c].in : buf[k] > 0
        BY <3>1 DEF ReadUnit, CanRead, ChildInv, OneInput
      <4>2. \A k \in proc[c].in : buf[k] - 1 \in 0 .. Cap
        <5>1. \A k \in proc[c].in : k \in Cmd
          BY <1>0 DEF Child
        <5> QED
          BY <1>0, <4>1, <5>1, CapAssumption
      <4> QED
        BY <1>0, <3>1, <4>2 DEF ReadUnit
    <3>2. CASE WriteUnit(c)
      <4>1. \A k \in proc[c].out : k \in Cmd
        BY <1>0 DEF Child
      <4>2. \A k \in proc[c].out : buf[k] + 1 \in 0 .. Cap
        BY <1>0, <3>2, <4>1, CapAssumption DEF WriteUnit, CanWrite
      <4> QED
        BY <1>0, <3>2, <4>2 DEF WriteUnit
    <3> QED
      BY <1>1, <3>1, <3>2
  <2>4. \A d \in Cmd : /\ proc'[d].in = proc[d].in
                       /\ proc'[d].out = proc[d].out
                       /\ proc'[d].held = proc[d].held
                       /\ proc'[d].prog = proc[d].prog
                       /\ proc'[d].st = proc[d].st
    BY <1>0, <2>1 DEF Child
  <2>5. ReadersOutlive'
    BY <2>4, OutliveStays DEF ChildInv, Running
  <2>6. sigchld' \in BOOLEAN
    BY <1>0, <1>1 DEF ReadUnit, WriteUnit
  <2> QED
    BY <1>0, <2>2, <2>3, <2>4, <2>5, <2>6, ChildrenAct DEF Running
<1>2. CASE ChildExit(c)
  <2>1. proc' = [proc EXCEPT ![c].st = "zombie"] /\ buf' = buf /\ sigchld' = TRUE
    BY <1>2 DEF ChildExit
  <2>2. proc' \in [Cmd -> Child]
    BY <1>0, <2>1 DEF Child
  <2>3. \A d \in Cmd : /\ proc'[d].in = proc[d].in
                       /\ proc'[d].out = proc[d].out
                       /\ proc'[d].held = proc[d].held
                       /\ proc'[d].prog = proc[d].prog
                       /\ proc'[d].st = IF d = c THEN "zombie" ELSE proc[d].st
    BY <1>0, <2>1 DEF Child
  <2>4. proc[c].prog = "cat" => \A k \in proc[c].in : Holders(<<"w", k>>) = {}
    BY <1>2 DEF ChildExit, Finished, AtEOF
  <2>5. ReadersOutlive'
    BY <2>3, <2>4, OutliveStays DEF ChildInv, Running
  <2> QED
    BY <1>0, <2>1, <2>2, <2>3, <2>5, ChildrenAct DEF Running
<1> QED
  BY <1>1, <1>2 DEF ChildStep

(* ReadLine, Leave, Quit and stuttering.                                   *)
LEMMA IdleChild ==
    ASSUME NpInv, ChildInv, ReadLine \/ Leave \/ Quit \/ UNCHANGED npVars PROVE ChildInv'
<1>1. LineTyped' /\ TypeOK' /\ UNCHANGED <<now, phase, wrote, got, last, childVars>>
  <2>1. LineTyped' /\ IInv'
    BY NpStep, NextInv DEF NpNext, ShellStep, NpInv
  <2>2. UNCHANGED <<now, phase, wrote, got, last, childVars>>
    BY DEF ReadLine, Leave, Quit, EndOfInput, Exit, npVars, pipeVars
  <2> QED
    BY <2>1, <2>2 DEF IInv
<1>2. NpTypeOK'
  BY <1>1 DEF ChildInv, NpTypeOK, childVars, LineTyped
<1>3. OneInput' /\ OneOutput' /\ WritersKnown' /\ ReadersKnown'
  BY <1>1, WiringStays DEF childVars
<1>4. Count' /\ LastKnown' /\ ReadersOutlive'
  BY <1>1 DEF ChildInv, Count, LastKnown, ReadersOutlive, Holders, Running, childVars
<1>5. cmds_' = cmds_ \/ cmds_' # <<>>
  BY LineAssumption DEF ReadLine, Leave, Quit, npVars
<1>6. LastWaited'
  BY <1>1, <1>5 DEF ChildInv, LastWaited, InForeground, Running, childVars
<1> QED
  BY <1>2, <1>3, <1>4, <1>6 DEF ChildInv

LEMMA ChildInit == NpInit => ChildInv
<1> SUFFICES ASSUME NpInit PROVE ChildInv
  OBVIOUS
<1>1. NoChild \in Child
  BY DEF NoChild, Child
<1>2. NpTypeOK
  <2>1. TypeOK
    BY InitInv DEF NpInit, IInv
  <2>2. 0 \in 0 .. Cap
    BY CapAssumption
  <2>3. last \in [prog : Program, op : Redirection, num : Int]
    BY DEF NpInit, Program, Redirection
  <2> QED
    <3>1. proc \in [Cmd -> Child]
      BY <1>1 DEF NpInit
    <3>2. buf \in [Cmd -> 0 .. Cap]
      BY <2>2 DEF NpInit
    <3>3. cmds_ \in Seq(Command)
      BY DEF NpInit
    <3> QED
      BY <2>1, <2>3, <3>1, <3>2, <3>3 DEF NpInit, NpTypeOK
<1>3. Count
  BY MaxCmdAssumption DEF NpInit, Init, Count
<1> QED
  BY <1>2, <1>3 DEF NpInit, Init, ChildInv, OneInput, OneOutput, WritersKnown, ReadersKnown,
                    LastKnown, LastWaited, ReadersOutlive, NoChild

LEMMA ChildAlways == NpSpec => [](NpInv /\ ChildInv)
<1>1. NpInit => NpInv
  BY InitInv DEF NpInit, NpInv, LineTyped, ForkedBefore, InputsClosed, NoChild
<1>2. NpInv /\ ChildInv /\ [NpNext]_npVars => ChildInv'
  BY ExecChild, TidyChild, HandlerChild, StepChild, IdleChild DEF NpNext, ShellStep
<1> QED
  BY <1>1, <1>2, NpNextInv, ChildInit, PTL DEF NpSpec

(* The types: no pipe is read below empty or written above its capacity.   *)
THEOREM ShellTyped == NpSpec => []NpTypeOK
<1>1. ChildInv => NpTypeOK
  BY DEF ChildInv
<1> QED
  BY <1>1, ChildAlways, PTL

(* Why no action for SIGPIPE is missing: a child always holds the read end *)
(* of the pipe it writes to itself.                                        *)
THEOREM WriterSafe == NpSpec => []WriterKeepsReader
<1>1. ChildInv => WriterKeepsReader
  BY DEF ChildInv, OneOutput, WriterKeepsReader
<1> QED
  BY <1>1, ChildAlways, PTL

(* The prompt comes after the output of the last command, and when that    *)
(* read its input to the end, after every command that wrote to it.        *)
THEOREM PromptOrdered == NpSpec => []PromptAfterOutput
<1>1. ChildInv => PromptAfterOutput
  <2> SUFFICES ASSUME ChildInv, Prompt, now > 1, Forked(last), last.op # "pipe"
               PROVE  /\ ~Running(now - 1)
                      /\ last.prog = "cat" =>
                            \A s \in Cmd : <<now - 1, s>> \in got => ~Running(s)
    BY DEF PromptAfterOutput
  <2> USE DEF ChildInv
  <2>1. now - 1 \in Cmd /\ proc \in [Cmd -> Child]
    BY MaxCmdAssumption DEF Count, NpTypeOK, TypeOK, Cmd
  <2>2. ~Running(now - 1)
    BY DEF LastWaited, Prompt, InForeground
  <2>3. proc[now - 1].st \in {"zombie", "reaped"} /\ proc[now - 1].prog = last.prog
    BY <2>1, <2>2 DEF LastKnown, Child, Running
  <2>4. ASSUME last.prog = "cat", NEW s \in Cmd, <<now - 1, s>> \in got, Running(s)
        PROVE  FALSE
    <3>1. PICK k \in proc[now - 1].in : <<k, s>> \in wrote
      BY <2>4 DEF ReadersKnown
    <3>2. s \in Holders(<<"w", k>>)
      BY <2>4, <3>1 DEF WritersKnown, Holders
    <3> QED
      BY <2>1, <2>3, <2>4, <3>1, <3>2 DEF ReadersOutlive
  <2> QED
    BY <2>2, <2>4
<1> QED
  BY <1>1, ChildAlways, PTL
-----------------------------------------------------------------------------
(* Being stuck.                                                            *)

(* Numbers have a least element.                                           *)
LEMMA LeastElement ==
    ASSUME NEW D \in SUBSET Nat, D # {} PROVE \E m \in D : \A d \in D : m <= d
<1> DEFINE S == FiniteSubsetsOf(Nat)
           T == {1 .. d : d \in D}
<1>1. IsWellFoundedOn(StrictSubsetOrdering(Nat), S)
  BY FS_StrictSubsetOrderingWellFounded
<1>2. T \subseteq S
  <2> SUFFICES ASSUME NEW d \in D PROVE 1 .. d \in SUBSET Nat /\ IsFiniteSet(1 .. d)
    BY DEF FiniteSubsetsOf
  <2> QED
    BY FS_Interval
<1>3. T # {}
  OBVIOUS
<1>4. PICK x \in T : \A y \in T : <<y, x>> \notin StrictSubsetOrdering(Nat)
  <2> HIDE DEF S, T
  <2> QED
    BY <1>1, <1>2, <1>3, WFMin
<1>5. PICK m \in D : x = 1 .. m
  OBVIOUS
<1>6. ASSUME NEW d \in D, ~(m <= d) PROVE FALSE
  <2>1. d \in Nat /\ m \in Nat /\ d < m
    BY <1>6
  <2>2. 1 .. d \subseteq 1 .. m /\ m \in 1 .. m /\ m \notin 1 .. d
    BY <2>1
  <2>3. <<1 .. d, 1 .. m>> \in StrictSubsetOrdering(Nat)
    BY <2>1, <2>2 DEF StrictSubsetOrdering
  <2> QED
    BY <1>4, <1>5, <2>3
<1> QED
  BY <1>6

(* A child that cannot go on and has nothing left to write waits for       *)
(* another one to close its input.  If that one writes to it too, it has   *)
(* nothing left to write either: the pipe is empty.                        *)
Idle(c) == Running(c) /\ proc[c].left = 0 /\ ~(CanRead(c) \/ CanWrite(c) \/ Finished(c))

LEMMA IdleWaits ==
    ASSUME NpInv, ChildInv, alive, NEW c \in Cmd, Idle(c),
           \A d \in Cmd : Running(d) => ~(CanRead(d) \/ CanWrite(d) \/ Finished(d)),
           \A k \in Cmd : Bystanders(k) = {}
    PROVE  \E d \in Cmd : Idle(d) /\ d < c
<1>0. proc \in [Cmd -> Child] /\ buf \in [Cmd -> 0 .. Cap]
  BY DEF ChildInv, NpTypeOK
<1>1. proc[c].prog = "cat" /\ ~AtEOF(c)
  BY <1>0 DEF Idle, Finished, Child
<1>2. \A k \in proc[c].in : k \in Cmd /\ buf[k] = 0
  <2>1. \A k \in proc[c].in : k \in Cmd /\ buf[k] \in Nat
    BY <1>0 DEF Child
  <2> QED
    BY <1>1, <2>1 DEF Idle, CanRead
<1>3. PICK k \in proc[c].in : Holders(<<"w", k>>) # {}
  BY <1>1, <1>2 DEF AtEOF, NpInv, InputsClosed, ShellHolds
<1>4. PICK d \in Cmd : Running(d) /\ <<"w", k>> \in proc[d].held
  BY <1>3 DEF Holders
<1>5. d < c
  BY <1>4 DEF NpInv, InputsClosed
<1>6. k \in proc[d].out
  BY <1>2, <1>4 DEF Bystanders, Holders
<1>7. proc[d].left = 0
  <2>1. \A j \in proc[d].out : j = k
    BY <1>6 DEF ChildInv, OneOutput
  <2>2. \A j \in proc[d].out : buf[j] < Cap
    BY <1>2, <2>1, CapAssumption
  <2>3. ~(proc[d].left > 0)
    BY <1>4, <2>2 DEF CanWrite
  <2>4. proc[d].left \in Nat
    BY <1>0 DEF Child
  <2> QED
    BY <2>3, <2>4
<1> QED
  BY <1>4, <1>5, <1>7 DEF Idle

(* When the shell waits for ever, some child keeps a write end open that   *)
(* it does not use: without such inheritance, each child that waits does   *)
(* so for an earlier one which waits too, and there is a first.            *)
THEOREM StuckExplained == NpSpec => []StuckOnlyByInheritance
<1>1. NpInv /\ ChildInv => StuckOnlyByInheritance
  <2> SUFFICES ASSUME NpInv, ChildInv, Stuck, \A k \in Cmd : Bystanders(k) = {}
               PROVE  FALSE
    BY DEF StuckOnlyByInheritance
  <2> DEFINE D == {c \in Cmd : Idle(c)}
  <2>1. now - 1 \in Cmd /\ now > 1 /\ proc \in [Cmd -> Child]
    BY MaxCmdAssumption DEF Stuck, ChildInv, Count, NpTypeOK, TypeOK, Cmd
  <2>2. proc[now - 1].out = {} /\ proc[now - 1].left \in Nat
    BY <2>1 DEF Stuck, InForeground, ChildInv, LastKnown, Child
  <2>3. Idle(now - 1)
    BY <2>1, <2>2 DEF Stuck, Idle, CanWrite
  <2>4. D # {} /\ D \in SUBSET Nat
    BY <2>1, <2>3 DEF Cmd
  <2>5. PICK m \in D : \A d \in D : m <= d
    <3> HIDE DEF D
    <3> QED
      BY <2>4, LeastElement
  <2>6. PICK d \in Cmd : Idle(d) /\ d < m
    BY <2>5, IdleWaits DEF Stuck
  <2> QED
    BY <2>4, <2>5, <2>6
<1> QED
  BY <1>1, ChildAlways, PTL
=============================================================================
