-------------------------- MODULE SingleProcProofs --------------------------
(***************************************************************************)
(* Proofs about SingleProc, for every number of users and descriptors.     *)
(***************************************************************************)
EXTENDS SingleProc, FiniteSetTheorems, WellFoundedInduction, TLAPS

(* The lines the model is about: the numbers of users are ids, and once a  *)
(* command has taken its input from a user pipe nothing but a numbered     *)
(* pipe follows, so that it cannot fail half-way.                          *)
OnlyPipes(r) == \A k \in DOMAIN r : r[k].op = "pipe"
Plain(r) ==
    /\ \A k \in DOMAIN r : r[k].op # "pipe" => r[k].num \in Id
    /\ \A j, k \in DOMAIN r : r[j].op = "from" /\ j < k => r[k].op = "pipe"

PlainLines == \A l \in Line : \A k \in DOMAIN l : Plain(l[k].redir)
-----------------------------------------------------------------------------
(* The invariant that holds even after a client was lost.                  *)

(* No two descriptors are open on the same end; the sockets of users who   *)
(* are served are monitored, and those of the ones turned away are not.    *)
Sockets ==
    /\ \A f, g \in Fd : fdt[f] = fdt[g] => f = g \/ fdt[f] = Closed
    /\ \A f \in Fd : \A c \in Conn : fdt[f] = <<"sock", c>> =>
          IF f \in afds THEN peer[c] \in {"here", "hungup"} ELSE peer[c] = "left"
    /\ \A f \in afds : \E c \in Conn : fdt[f] = <<"sock", c>>
    /\ \A c \in Conn : peer[c] \in {"here", "hungup"} => \E f \in afds : fdt[f] = <<"sock", c>>

Position == DOMAIN client_table
NumberPipes(i) == client_table[i].pipe_vector_
UserPipes(i) == client_table[i].userpipe_vector_

(* The descriptors in the tables are the two ends of one pipe; of a user   *)
(* pipe that was taken the write end is closed.                            *)
PipesWhole ==
    /\ \A f \in Fd : fdt[f][1] \in {"r", "w"} => fdt[f][2] \in 1 .. Len(made)
    /\ \A i \in Position : \A e \in NumberPipes(i) :
          fdt[e.out_fd][1] = "r" /\ fdt[e.in_fd] = <<"w", fdt[e.out_fd][2]>>
    /\ \A i \in Position : \A u \in UserPipes(i) :
          fdt[u.out_fd][1] = "r" /\ (~u.is_used => fdt[u.in_fd] = <<"w", fdt[u.out_fd][2]>>)

(* No descriptor is in the tables twice.                                   *)
PipesDiffer ==
    /\ \A i, j \in Position : \A d \in NumberPipes(i), e \in NumberPipes(j) :
          d.out_fd = e.out_fd => i = j /\ d = e
    /\ \A i, j \in Position : \A u \in UserPipes(i), v \in UserPipes(j) :
          u.out_fd = v.out_fd => i = j /\ u = v
    /\ \A i, j \in Position : \A e \in NumberPipes(i), u \in UserPipes(j) : u.out_fd # e.out_fd

(* The client that is served is in the table, monitored, and not readable  *)
(* any more; 1 and 2 are its socket.  Who has an end of the line open and  *)
(* has not hung up gets no reset.                                          *)
Serving ==
    /\ pc \in {"exec", "return"} =>
          /\ cli \in Position
          /\ self.fd \in afds /\ self.fd \notin rfds
          /\ std \in Conn /\ fdt[self.fd] = <<"sock", std>>
    /\ std # Nobody => peer[std] \in {"here", "hungup", "lost"}
    /\ \A c \in broken : peer[c] \notin {"away", "calling", "quit", "here"}

(* While a line is executed: a user pipe is flagged as used only if it was *)
(* taken for the present command, which then cannot fail any more.         *)
Reading ==
    /\ pc = "exec" => cmds_ # <<>>
    /\ \A k \in DOMAIN cmds_ : Plain(cmds_[k].redir)
    /\ pc = "exec" /\ taken # {} => OnlyPipes(Head(cmds_).redir)
    /\ \A i \in Position : \A u \in UserPipes(i) : u.is_used =>
          pc \in {"exec", "dead"} /\ \E id \in taken : i \in GetClientByID(id)
    /\ \A f \in in_fd : \E i \in Position : \E u \in UserPipes(i) : u.is_used /\ u.out_fd = f

Inv == TypeOK /\ Sockets /\ PipesWhole /\ PipesDiffer /\ Serving /\ Reading

(* What holds besides as long as nobody was lost.                          *)

(* The ids in use are those of the clients, the monitored sockets theirs.  *)
Unique ==
    /\ \A i, j \in Position : i # j =>
          client_table[i].id # client_table[j].id /\ client_table[i].fd # client_table[j].fd
    /\ \A id \in Id : id_table[id] = 1 <=> \E i \in Position : client_table[i].id = id
    /\ \A i \in Position : client_table[i].fd \in afds
    /\ \A f \in afds : \E i \in Position : client_table[i].fd = f

(* Pipes are in the table of whoever made them, and their addressees are   *)
(* still the ones they were made for.                                      *)
Meant ==
    /\ \A i \in Position : \A e \in NumberPipes(i) :
          made[fdt[e.out_fd][2]] = [from |-> User(client_table[i]), to |-> Nobody]
    /\ \A i \in Position : \A u \in UserPipes(i) :
          /\ u.source_id = client_table[i].id
          /\ u.is_used /\ pc = "exec" => u.target_id = self.id
          /\ \E j \in Position :
                /\ client_table[j].id = u.target_id
                /\ made[fdt[u.out_fd][2]] =
                      [from |-> User(client_table[i]), to |-> User(client_table[j])]

(* Every end that is open is in a table, or its maker has left.            *)
Owned ==
    /\ \A f \in Fd : fdt[f][1] = "r" =>
          \/ peer[made[fdt[f][2]].from] = "left"
          \/ \E i \in Position : \E e \in NumberPipes(i) : e.out_fd = f
          \/ \E i \in Position : \E u \in UserPipes(i) : u.out_fd = f
    /\ \A f \in Fd : fdt[f][1] = "w" =>
          \/ peer[made[fdt[f][2]].from] = "left"
          \/ \E i \in Position : \E e \in NumberPipes(i) : e.in_fd = f
          \/ \E i \in Position : \E u \in UserPipes(i) : ~u.is_used /\ u.in_fd = f

Agreed == NobodyLost => Unique /\ Meant /\ Owned /\ ReachesAddressee
-----------------------------------------------------------------------------
(* Sequences.                                                              *)

(* Those who are kept in the client table keep their order: each is at one *)
(* place after, and nobody else is.                                        *)
LEMMA Erasing ==
    ASSUME client_table \in Seq(Client), NEW id, EraseClientVector(id)
    PROVE  \E h \in [DOMAIN client_table' -> DOMAIN client_table] :
              /\ Len(client_table') \in Nat /\ DOMAIN client_table' = 1 .. Len(client_table')
              /\ client_table' = [k \in DOMAIN client_table' |-> WithoutPipesTo(id)[h[k]]]
              /\ \A j, k \in DOMAIN client_table' : h[j] = h[k] => j = k
              /\ \A i \in DOMAIN client_table :
                    client_table[i].id # id <=> \E k \in DOMAIN client_table' : h[k] = i
<1> DEFINE Kept == {i \in DOMAIN client_table : client_table[i].id # id}
           n == Cardinality(Kept)
<1>1. PICK h \in [1 .. n -> Kept] :
         /\ \A j, k \in DOMAIN h : j < k => h[j] < h[k]
         /\ client_table' = [k \in DOMAIN h |-> WithoutPipesTo(id)[h[k]]]
  BY DEF EraseClientVector, KeptAt, Keeps
<1>2. DOMAIN client_table = 1 .. Len(client_table) /\ Len(client_table) \in Nat
  OBVIOUS
<1>3. IsFiniteSet(Kept)
  <2>1. IsFiniteSet(DOMAIN client_table) /\ Kept \in SUBSET DOMAIN client_table
    BY <1>2, FS_Interval
  <2> QED
    BY <2>1, FS_Subset
<1>4. n \in Nat /\ IsFiniteSet(1 .. n) /\ Cardinality(1 .. n) = n
  <2>1. n \in Nat
    BY <1>3, FS_CardinalityType
  <2> QED
    BY <2>1, FS_Interval
<1>5. \A j, k \in 1 .. n : h[j] = h[k] => j = k
  <2> SUFFICES ASSUME NEW j \in 1 .. n, NEW k \in 1 .. n, h[j] = h[k] PROVE j = k
    OBVIOUS
  <2>1. h[j] \in Nat /\ h[k] \in Nat
    BY <1>2
  <2>2. j \in Nat /\ k \in Nat /\ ~(j < k) /\ ~(k < j)
    BY <1>1, <1>4, <2>1
  <2> QED
    BY <2>2
<1>6. \A i \in Kept : \E k \in 1 .. n : h[k] = i
  <2>1. h \in Injection(1 .. n, Kept)
    BY <1>5 DEF Injection, IsInjective
  <2> HIDE DEF Kept
  <2>2. h \in Surjection(1 .. n, Kept)
    BY <2>1, <1>3, <1>4, FS_Injection
  <2> QED
    BY <2>2 DEF Surjection
<1>7. DOMAIN h = 1 .. n /\ DOMAIN client_table' = 1 .. n
  BY <1>1
<1>8. Len(client_table') = n
  BY <1>4, <1>7, <1>1
<1>9. h \in [DOMAIN client_table' -> DOMAIN client_table]
  BY <1>1, <1>7
<1>10. client_table' = [k \in DOMAIN client_table' |-> WithoutPipesTo(id)[h[k]]]
  BY <1>1, <1>7
<1>11. \A i \in DOMAIN client_table : client_table[i].id # id <=> \E k \in 1 .. n : h[k] = i
  BY <1>6, <1>1
<1> QED
  BY <1>4, <1>5, <1>7, <1>8, <1>9, <1>10, <1>11

(* Going on to the next redirection.                                       *)
LEMMA Redirected ==
    ASSUME cmds_ \in Seq(Command), cmds_ # <<>>, Head(cmds_).redir # <<>>, NextRedirection
    PROVE  /\ cmds_' \in Seq(Command) /\ cmds_' # <<>>
           /\ Head(cmds_').redir = Tail(Head(cmds_).redir)
           /\ DOMAIN cmds_' = DOMAIN cmds_
           /\ \A k \in DOMAIN cmds_ : cmds_'[k].redir =
                IF k = 1 THEN Tail(cmds_[1].redir) ELSE cmds_[k].redir
<1> DEFINE h == [Head(cmds_) EXCEPT !.redir = Tail(@)]
<1>1. Head(cmds_) \in Command /\ Tail(cmds_) \in Seq(Command) /\ Head(cmds_) = cmds_[1]
  OBVIOUS
<1>2. Head(cmds_).redir \in Seq(Redirection) /\ Tail(Head(cmds_).redir) \in Seq(Redirection)
  BY <1>1 DEF Command
<1>3. h \in Command /\ h.redir = Tail(Head(cmds_).redir)
  BY <1>1, <1>2 DEF Command
<1>4. cmds_' = <<h>> \o Tail(cmds_)
  BY DEF NextRedirection
<1> HIDE DEF h
<1>5. <<h>> \in Seq(Command) /\ Len(<<h>>) = 1 /\ <<h>>[1] = h
  BY <1>3
<1>6. cmds_' \in Seq(Command) /\ Len(cmds_') = Len(cmds_)
  BY <1>1, <1>4, <1>5
<1>7. cmds_'[1] = h /\ \A k \in 2 .. Len(cmds_) : cmds_'[k] = cmds_[k]
  BY <1>1, <1>4, <1>5
<1> QED
  BY <1>1, <1>3, <1>6, <1>7
-----------------------------------------------------------------------------
(* Steps that leave the tables as they are.                                *)

LEMMA InvInit == Init => Inv /\ Agreed
<1> SUFFICES ASSUME Init PROVE Inv /\ Agreed
  OBVIOUS
<1>1. client_table \in Seq(Client) /\ Position = {} /\ Len(client_table) = 0
  BY DEF Init, Position
<1>2. cmds_ \in Seq(Command) /\ DOMAIN cmds_ = {}
  BY DEF Init
<1>3. made \in Seq(Pipe) /\ Len(made) <= MaxPipe
  BY MaxPipeAssumption DEF Init
<1>4. fdt \in [Fd -> End]
  BY DEF Init, End
<1>5. \A f \in Fd : fdt[f] = Closed /\ fdt[f][1] = "closed"
  BY DEF Init, Closed
<1>6. \A f \in Fd : \A c \in Conn : fdt[f] # <<"sock", c>>
  BY <1>5
<1>7. TypeOK
  <2>1. inbox \in [Conn -> {<<>>} \cup {<<l>> : l \in Line}]
    BY DEF Init
  <2>2. cli \in 0 .. Len(client_table)
    BY <1>1 DEF Init
  <2> QED
    BY <1>1, <1>2, <1>3, <1>4, <2>1, <2>2 DEF Init, TypeOK
<1>8. Sockets
  <2>1. afds = {} /\ \A c \in Conn : peer[c] = "away"
    BY DEF Init
  <2> QED
    BY <1>5, <1>6, <2>1 DEF Sockets
<1>9. PipesWhole /\ PipesDiffer
  BY <1>1, <1>5 DEF PipesWhole, PipesDiffer
<1>10. Serving /\ Reading
  BY <1>1, <1>2 DEF Init, Serving, Reading
<1>11. Unique
  BY <1>1 DEF Init, Unique
<1>12. Meant /\ Owned
  BY <1>1, <1>5 DEF Meant, Owned
<1>13. ReachesAddressee
  BY DEF Init, ReachesAddressee
<1> QED
  BY <1>7, <1>8, <1>9, <1>10, <1>11, <1>12, <1>13 DEF Inv, Agreed

(* The types of what the tables hold.                                      *)
LEMMA Facts ==
    ASSUME Inv
    PROVE  /\ Len(client_table) \in Nat /\ Position = 1 .. Len(client_table)
           /\ \A i \in Position :
                 /\ client_table[i] \in Client
                 /\ client_table[i].fd \in Fd /\ client_table[i].id \in Id
                 /\ NumberPipes(i) \in SUBSET PipeFd /\ UserPipes(i) \in SUBSET UserPipeFd
           /\ \A p \in 1 .. Len(made) : made[p] \in Pipe /\ made[p].from \in Conn
           /\ \A f \in Fd : fdt[f] \in End
           /\ \A f \in Fd : fdt[f][1] \in {"r", "w"} =>
                 fdt[f][2] \in 1 .. Len(made) /\ made[fdt[f][2]].from \in Conn
<1> USE DEF Inv
<1>1. Len(client_table) \in Nat /\ Position = 1 .. Len(client_table)
  BY DEF TypeOK, Position
<1>2. ASSUME NEW i \in Position
      PROVE  /\ client_table[i] \in Client
             /\ client_table[i].fd \in Fd /\ client_table[i].id \in Id
             /\ NumberPipes(i) \in SUBSET PipeFd /\ UserPipes(i) \in SUBSET UserPipeFd
  <2>1. client_table[i] \in Client
    BY <1>1 DEF TypeOK
  <2> QED
    BY <2>1 DEF Client, NumberPipes, UserPipes
<1>3. \A p \in 1 .. Len(made) : made[p] \in Pipe
  BY DEF TypeOK
<1>4. \A f \in Fd : fdt[f] \in End
  BY DEF TypeOK
<1>5. \A p \in 1 .. Len(made) : made[p].from \in Conn
  BY <1>3 DEF Pipe
<1> QED
  BY <1>1, <1>2, <1>3, <1>4, <1>5 DEF PipesWhole

LEMMA TablesStay ==
    ASSUME Inv, UNCHANGED <<client_table, fdt, made, afds>>,
           \A c \in Conn : (peer'[c] \in {"here", "hungup"}) <=> (peer[c] \in {"here", "hungup"}),
           \A c \in Conn : (peer'[c] = "left") <=> (peer[c] = "left")
    PROVE  Sockets' /\ PipesWhole' /\ PipesDiffer'
<1>1. Sockets'
  BY DEF Inv, Sockets, Closed
<1>2. PipesWhole' /\ PipesDiffer'
  <2>1. PipesWhole'
    BY DEF Inv, PipesWhole, Position, NumberPipes, UserPipes
  <2>2. PipesDiffer'
    BY DEF Inv, PipesDiffer, Position, NumberPipes, UserPipes
  <2> QED
    BY <2>1, <2>2
<1> QED
  BY <1>1, <1>2

LEMMA AgreedStays ==
    ASSUME Inv, Agreed, UNCHANGED <<client_table, id_table, fdt, made, afds, got>>,
           \A c \in Conn : peer[c] = "lost" => peer'[c] = "lost",
           \A c \in Conn : peer[c] = "left" => peer'[c] = "left",
           \/ pc' # "exec"
           \/ pc = "exec" /\ cli' = cli
           \/ \A i \in Position : \A u \in UserPipes(i) : ~u.is_used
    PROVE  Agreed'
<1> SUFFICES ASSUME NobodyLost' PROVE Unique' /\ Meant' /\ Owned' /\ ReachesAddressee'
  BY DEF Agreed
<1>1. Unique /\ Meant /\ Owned /\ ReachesAddressee
  BY DEF NobodyLost, Agreed
<1>2. Unique'
  BY <1>1 DEF Unique, Position
<1>3. Meant'
  BY <1>1 DEF Meant, Position, NumberPipes, UserPipes, User, self
<1>4. \A f \in Fd : fdt[f][1] \in {"r", "w"} => made[fdt[f][2]].from \in Conn
  BY Facts
<1>5. Owned'
  BY <1>1, <1>4 DEF Owned, Position, NumberPipes, UserPipes
<1>6. ReachesAddressee'
  BY <1>1 DEF ReachesAddressee, NobodyLost, Nobody
<1> QED
  BY <1>2, <1>3, <1>5, <1>6

(* What a step writes makes nobody broken who is there and has not hung up.*)
LEMMA Written ==
    ASSUME Inv, NEW T \in SUBSET Conn, NEW U, NEW l, Writes(T, U, l),
           \A c \in T : peer[c] # "away" /\ (peer[c] = "quit" => peer'[c] = "hungup"),
           \A c \in Conn : peer'[c] \in {"away", "calling", "quit", "here"} =>
              peer[c] = peer'[c] \/ peer[c] \in {"away", "calling", "quit"}
    PROVE  /\ broken' \subseteq Conn /\ pc' \in {l, "dead"}
           /\ \A c \in broken' : peer'[c] \notin {"away", "calling", "quit", "here"}
<1>1. broken \subseteq Conn /\ \A c \in broken : peer[c] \notin {"away", "calling", "quit", "here"}
  BY DEF Inv, TypeOK, Serving
<1>2. pc' \in {l, "dead"}
  BY DEF Writes
<1>3. broken' = broken \cup HungUp(T)
  BY DEF Writes
<1>4. \A c \in HungUp(T) : c \in T /\ peer[c] \notin {"here", "calling"}
  BY DEF HungUp
<1>5. peer \in [Conn -> {"away", "calling", "quit", "here", "hungup", "left", "lost"}]
  BY DEF Inv, TypeOK
<1> QED
  BY <1>1, <1>2, <1>3, <1>4, <1>5

LEMMA UserSteps ==
    ASSUME Inv, Agreed, NEW c \in Conn, Connect(c) \/ Type(c) \/ HangUp(c)
    PROVE  Inv' /\ Agreed'
<1>1. /\ pc = "select" /\ pc' = pc
      /\ UNCHANGED <<id_table, client_table, afds, rfds, fdt, std, cli, cmds_, in_fd, out_fd,
                     taken, status, made, got>>
  BY DEF Connect, Type, HangUp, table, exec, history
<1>2. /\ peer' \in [Conn -> {"away", "calling", "quit", "here", "hungup", "left", "lost"}]
      /\ inbox' \in [Conn -> {<<>>} \cup {<<l>> : l \in Line}]
      /\ broken' \subseteq Conn
  BY DEF Inv, TypeOK, Connect, Type, HangUp
<1>3. \A d \in Conn : \/ peer'[d] = peer[d]
                      \/ peer[d] = "away" /\ peer'[d] = "calling"
                      \/ peer[d] = "calling" /\ peer'[d] = "quit"
                      \/ peer[d] = "here" /\ peer'[d] = "hungup"
  BY DEF Inv, TypeOK, Connect, Type, HangUp
<1>4. \A d \in broken' : d \in broken \/ peer'[d] = "hungup"
  BY DEF Inv, TypeOK, Connect, Type, HangUp
<1>5. TypeOK'
  BY <1>1, <1>2 DEF Inv, TypeOK
<1>6. Sockets' /\ PipesWhole' /\ PipesDiffer'
  BY <1>1, <1>3, TablesStay
<1>7. Serving'
  BY <1>1, <1>3, <1>4 DEF Inv, TypeOK, Serving, Nobody
<1>8. Reading'
  BY <1>1 DEF Inv, Reading, Position, UserPipes, GetClientByID, Lowest
<1>9. Agreed'
  BY <1>1, <1>3, AgreedStays
<1> QED
  BY <1>5, <1>6, <1>7, <1>8, <1>9 DEF Inv

LEMMA LoopSteps ==
    ASSUME Inv, Agreed, Select \/ AcceptError \/ ScanDone \/ PipeError
    PROVE  Inv' /\ Agreed'
<1>1. /\ UNCHANGED <<id_table, client_table, afds, fdt, std, cli, cmds_, in_fd, out_fd,
                     taken, status, peer, inbox, broken, made, got>>
      /\ rfds' \subseteq afds
      /\ \/ pc \in {"select", "accept", "scan"} /\ pc' \in {"select", "accept", "scan"}
         \/ pc = "exec" /\ pc' = "dead"
  BY DEF Inv, TypeOK, Select, AcceptError, ScanDone, PipeError, table, exec, users, history
<1>2. TypeOK'
  BY <1>1 DEF Inv, TypeOK
<1>3. Sockets' /\ PipesWhole' /\ PipesDiffer'
  BY <1>1, TablesStay
<1>4. Serving'
  BY <1>1 DEF Inv, Serving, Nobody
<1>5. Reading'
  BY <1>1 DEF Inv, Reading, Position, UserPipes, GetClientByID, Lowest
<1>6. Agreed'
  BY <1>1, AgreedStays
<1> QED
  BY <1>2, <1>3, <1>4, <1>5, <1>6 DEF Inv

LEMMA ReceiveStep ==
    ASSUME PlainLines, Inv, Agreed, Receive
    PROVE  Inv' /\ Agreed'
<1>1. PICK f \in rfds, i \in Position, c \in Conn :
         /\ client_table[i].fd = f
         /\ fdt[f] = <<"sock", c>> /\ inbox[c] # <<>>
         /\ rfds' = rfds \ {f} /\ std' = c /\ cli' = i
         /\ cmds_' = Head(inbox[c]) /\ inbox' = [inbox EXCEPT ![c] = <<>>]
  BY DEF Receive, Lowest, GetClientByFd, Position
<1>2. /\ in_fd' = {} /\ out_fd' = {} /\ taken' = {} /\ status' = 0
      /\ pc = "scan" /\ pc' = "exec"
      /\ UNCHANGED <<id_table, client_table, afds, fdt, peer, broken, made, got>>
  BY DEF Receive, table, history
<1>3. i \in Position /\ client_table[i].fd = f /\ f \in afds
  BY <1>1 DEF Inv, TypeOK
<1>4. PICK l \in Line : inbox[c] = <<l>>
  BY <1>1 DEF Inv, TypeOK
<1>5. cmds_' = l /\ l \in Seq(Command) /\ l # <<>>
  BY <1>1, <1>4, LineAssumption
<1>6. \A k \in DOMAIN l : Plain(l[k].redir)
  BY DEF PlainLines
<1>7. TypeOK'
  <2>1. inbox' \in [Conn -> {<<>>} \cup {<<m>> : m \in Line}]
    BY <1>1 DEF Inv, TypeOK
  <2>2. cli' \in 0 .. Len(client_table')
    BY <1>1, <1>2, <1>3, Facts
  <2>3. rfds' \subseteq afds' /\ std' \in Conn \cup {Nobody}
    BY <1>1, <1>2 DEF Inv, TypeOK
  <2> QED
    BY <1>2, <1>5, <2>1, <2>2, <2>3 DEF Inv, TypeOK, Nobody
<1>8. Sockets' /\ PipesWhole' /\ PipesDiffer'
  BY <1>2, TablesStay
<1>9. Serving'
  <2>1. peer[c] \in {"here", "hungup"}
    BY <1>1, <1>3 DEF Inv, TypeOK, Sockets
  <2>2. self' = client_table[i]
    BY <1>1, <1>2 DEF self
  <2> QED
    BY <1>1, <1>2, <1>3, <2>1, <2>2 DEF Inv, Serving, Position
<1>10. \A j \in Position : \A u \in UserPipes(j) : ~u.is_used
  BY <1>2 DEF Inv, Reading
<1>11. Reading'
  <2>1. \A j \in Position' : \A u \in UserPipes(j)' : ~u.is_used
    BY <1>2, <1>10 DEF Position, UserPipes
  <2> QED
    BY <1>2, <1>5, <1>6, <2>1 DEF Reading
<1>12. Agreed'
  BY <1>2, <1>10, AgreedStays
<1> QED
  BY <1>7, <1>8, <1>9, <1>11, <1>12 DEF Inv

(* The user who is served.                                                 *)
LEMMA Served ==
    ASSUME Inv, pc \in {"exec", "return"}
    PROVE  /\ cli \in Position /\ self \in Client /\ self.fd \in afds /\ self.fd \notin rfds
           /\ std \in Conn /\ fdt[self.fd] = <<"sock", std>> /\ User(self) = std
           /\ peer[std] \in {"here", "hungup"}
<1>1. cli \in Position /\ self.fd \in afds /\ self.fd \notin rfds
      /\ std \in Conn /\ fdt[self.fd] = <<"sock", std>>
  BY DEF Inv, Serving
<1>2. self \in Client
  BY <1>1, Facts DEF self
<1>3. self.fd \in Fd
  BY <1>2 DEF Client
<1>4. peer[std] \in {"here", "hungup"}
  BY <1>1, <1>3 DEF Inv, Sockets
<1> QED
  BY <1>1, <1>2, <1>4 DEF User

(* Before a user pipe is taken none is flagged as used.                    *)
LEMMA Untaken ==
    ASSUME Inv, taken = {} \/ pc \notin {"exec", "dead"}
    PROVE  in_fd = {} /\ \A i \in Position : \A u \in UserPipes(i) : ~u.is_used
BY DEF Inv, TypeOK, Reading

LEMMA AbandonStep ==
    ASSUME Inv, Agreed, UserPipeOutError \/ UserPipeInError
    PROVE  Inv' /\ Agreed'
<1>1. pc = "exec" /\ Head(cmds_).redir # <<>> /\ Head(Head(cmds_).redir).op # "pipe" /\ Abandon
  BY DEF UserPipeOutError, UserPipeInError, At
<1>2. taken = {}
  <2>1. Head(cmds_) \in Command
    BY <1>1 DEF Inv, TypeOK, Reading
  <2>2. Head(cmds_).redir \in Seq(Redirection)
    BY <2>1 DEF Command
  <2>3. 1 \in DOMAIN Head(cmds_).redir /\ Head(cmds_).redir[1].op # "pipe"
    BY <1>1, <2>2
  <2> QED
    BY <1>1, <2>3 DEF Inv, Reading, OnlyPipes
<1>3. /\ cmds_' = <<>> /\ status' = 0 /\ Writes({User(self)}, {}, "return")
      /\ UNCHANGED <<id_table, client_table, afds, rfds, fdt, std, cli, in_fd, out_fd, taken,
                     peer, inbox, made, got>>
  BY <1>1 DEF Abandon, table, history
<1>4. in_fd = {} /\ \A i \in Position : \A u \in UserPipes(i) : ~u.is_used
  BY <1>2, Untaken
<1>5. /\ broken' \subseteq Conn /\ pc' \in {"return", "dead"}
      /\ \A c \in broken' : peer'[c] \notin {"away", "calling", "quit", "here"}
  <2>1. {User(self)} \in SUBSET Conn /\ \A c \in {User(self)} : peer[c] \in {"here", "hungup"}
    BY <1>1, Served
  <2> QED
    BY <1>3, <2>1, Written
<1>6. TypeOK'
  <2>1. cmds_' \in Seq(Command)
    BY <1>3
  <2> QED
    BY <1>3, <1>5, <2>1 DEF Inv, TypeOK
<1>7. Sockets' /\ PipesWhole' /\ PipesDiffer'
  BY <1>3, TablesStay
<1>8. Serving'
  BY <1>1, <1>3, <1>5 DEF Inv, Serving, Position, self, Nobody
<1>9. Reading'
  <2>1. \A j \in Position' : \A u \in UserPipes(j)' : ~u.is_used
    BY <1>3, <1>4 DEF Position, UserPipes
  <2>2. DOMAIN cmds_' = {}
    BY <1>3
  <2> QED
    BY <1>3, <1>4, <1>5, <2>1, <2>2 DEF Reading
<1>10. Agreed'
  BY <1>3, <1>5, AgreedStays
<1> QED
  BY <1>6, <1>7, <1>8, <1>9, <1>10 DEF Inv

LEMMA ReturnStep ==
    ASSUME Inv, Agreed, Return
    PROVE  Inv' /\ Agreed'
<1>1. /\ pc = "return" /\ Writes({User(self)}, {}, "scan")
      /\ cli' = 0 /\ in_fd' = {} /\ out_fd' = {} /\ taken' = {}
      /\ UNCHANGED <<id_table, client_table, afds, rfds, fdt, std, cmds_, status, peer, inbox,
                     made, got>>
  BY DEF Return, table, history
<1>2. \A i \in Position : \A u \in UserPipes(i) : ~u.is_used
  BY <1>1, Untaken
<1>3. /\ broken' \subseteq Conn /\ pc' \in {"scan", "dead"}
      /\ \A c \in broken' : peer'[c] \notin {"away", "calling", "quit", "here"}
  <2>1. {User(self)} \in SUBSET Conn /\ \A c \in {User(self)} : peer[c] \in {"here", "hungup"}
    BY <1>1, Served
  <2> QED
    BY <1>1, <2>1, Written
<1>4. TypeOK'
  BY <1>1, <1>3 DEF Inv, TypeOK
<1>5. Sockets' /\ PipesWhole' /\ PipesDiffer'
  BY <1>1, TablesStay
<1>6. Serving'
  BY <1>1, <1>3 DEF Inv, Serving, Nobody
<1>7. Reading'
  <2>1. \A j \in Position' : \A u \in UserPipes(j)' : ~u.is_used
    BY <1>1, <1>2 DEF Position, UserPipes
  <2> QED
    BY <1>1, <1>3, <2>1 DEF Inv, Reading
<1>8. Agreed'
  BY <1>1, <1>3, AgreedStays
<1> QED
  BY <1>4, <1>5, <1>6, <1>7, <1>8 DEF Inv
-----------------------------------------------------------------------------
(* A user is accepted.                                                     *)

(* No descriptor of a table is closed, but for the write ends of user      *)
(* pipes that were taken.                                                  *)
LEMMA TablesOpen ==
    ASSUME Inv, NEW f \in Fd, fdt[f] = Closed
    PROVE  /\ f \notin afds
           /\ \A i \in Position : \A e \in NumberPipes(i) : e.in_fd # f /\ e.out_fd # f
           /\ \A i \in Position : \A u \in UserPipes(i) : u.out_fd # f /\ (~u.is_used => u.in_fd # f)
<1>1. fdt[f][1] = "closed"
  BY DEF Closed
<1>2. f \notin afds
  BY <1>1 DEF Inv, Sockets
<1>3. \A i \in Position : \A e \in NumberPipes(i) : e.in_fd # f /\ e.out_fd # f
  BY <1>1 DEF Inv, PipesWhole
<1>4. ASSUME NEW i \in Position, NEW u \in UserPipes(i)
      PROVE  u.out_fd # f /\ (~u.is_used => u.in_fd # f)
  <2>1. fdt[u.out_fd][1] = "r" /\ (~u.is_used => fdt[u.in_fd] = <<"w", fdt[u.out_fd][2]>>)
    BY DEF Inv, PipesWhole
  <2>2. ~u.is_used => fdt[u.in_fd][1] = "w"
    BY <2>1
  <2> QED
    BY <1>1, <2>1, <2>2
<1> QED
  BY <1>2, <1>3, <1>4

(* The pipes of the clients, when the others are as before and a new one   *)
(* has none.                                                               *)
LEMMA SocketOpened ==
    ASSUME Inv, pc \notin {"exec", "dead"}, NEW f \in Fd, fdt[f] = Closed, NEW c \in Conn,
           fdt' = [fdt EXCEPT ![f] = <<"sock", c>>], made' = made,
           Position \subseteq Position',
           \A i \in Position : client_table'[i] = client_table[i],
           \A i \in Position' \ Position : NumberPipes(i)' = {} /\ UserPipes(i)' = {}
    PROVE  /\ PipesWhole' /\ PipesDiffer'
           /\ \A i \in Position' : \A u \in UserPipes(i)' : ~u.is_used
<1>1. \A i \in Position : NumberPipes(i)' = NumberPipes(i) /\ UserPipes(i)' = UserPipes(i)
  BY DEF NumberPipes, UserPipes
<1>2. \A i \in Position' : \A u \in UserPipes(i)' : ~u.is_used
  BY <1>1, Untaken
<1>3. PipesDiffer'
  BY <1>1 DEF Inv, PipesDiffer
<1>4. \A g \in Fd : IF g = f THEN fdt'[g] = <<"sock", c>> /\ fdt'[g][1] = "sock" ELSE fdt'[g] = fdt[g]
  BY DEF Inv, TypeOK
<1>5. \A g \in Fd : fdt'[g][1] \in {"r", "w"} => fdt'[g][2] \in 1 .. Len(made')
  BY <1>4 DEF Inv, PipesWhole
<1>6. ASSUME NEW i \in Position', NEW e \in NumberPipes(i)'
      PROVE  fdt'[e.out_fd][1] = "r" /\ fdt'[e.in_fd] = <<"w", fdt'[e.out_fd][2]>>
  <2>1. i \in Position /\ e \in NumberPipes(i)
    BY <1>1, <1>6
  <2>2. e.in_fd \in Fd /\ e.out_fd \in Fd
    BY <2>1, Facts DEF PipeFd
  <2>3. e.in_fd # f /\ e.out_fd # f
    BY <2>1, TablesOpen
  <2> QED
    BY <1>4, <2>1, <2>2, <2>3 DEF Inv, PipesWhole
<1>7. ASSUME NEW i \in Position', NEW u \in UserPipes(i)'
      PROVE  fdt'[u.out_fd][1] = "r" /\ (~u.is_used => fdt'[u.in_fd] = <<"w", fdt'[u.out_fd][2]>>)
  <2>1. i \in Position /\ u \in UserPipes(i) /\ ~u.is_used
    BY <1>1, <1>2, <1>7
  <2>2. u.in_fd \in Fd /\ u.out_fd \in Fd
    BY <2>1, Facts DEF UserPipeFd
  <2>3. u.in_fd # f /\ u.out_fd # f
    BY <2>1, TablesOpen
  <2> QED
    BY <1>4, <2>1, <2>2, <2>3 DEF Inv, PipesWhole
<1>8. PipesWhole'
  BY <1>5, <1>6, <1>7 DEF PipesWhole
<1> QED
  BY <1>2, <1>3, <1>8

LEMMA SocketMonitored ==
    ASSUME Inv, NEW f \in Fd, fdt[f] = Closed, NEW c \in Conn, peer[c] \in {"calling", "quit"},
           fdt' = [fdt EXCEPT ![f] = <<"sock", c>>],
           \A d \in Conn : d # c => peer'[d] = peer[d],
           \/ afds' = afds /\ peer'[c] = "left"
           \/ afds' = afds \cup {f} /\ peer'[c] \in {"here", "hungup"}
    PROVE  Sockets'
<1> USE DEF Inv
<1>1. \A g \in Fd : fdt'[g] = IF g = f THEN <<"sock", c>> ELSE fdt[g]
  BY DEF TypeOK
<1>2. \A g \in Fd : fdt[g] # <<"sock", c>>
  BY DEF Sockets
<1>3. f \notin afds /\ afds \subseteq Fd /\ f \in Fd
  BY TablesOpen DEF TypeOK
<1>4. \A g, h \in Fd : fdt'[g] = fdt'[h] => g = h \/ fdt'[g] = Closed
  BY <1>1, <1>2 DEF Sockets
<1>5. ASSUME NEW g \in Fd, NEW d \in Conn, fdt'[g] = <<"sock", d>>
      PROVE  IF g \in afds' THEN peer'[d] \in {"here", "hungup"} ELSE peer'[d] = "left"
  <2>1. CASE g = f
    BY <1>1, <1>3, <1>5, <2>1
  <2>2. CASE g # f
    <3>1. fdt[g] = <<"sock", d>> /\ d # c /\ peer'[d] = peer[d]
      BY <1>1, <1>2, <1>5, <2>2
    <3> QED
      BY <3>1, <2>2 DEF Sockets
  <2> QED
    BY <2>1, <2>2
<1>6. \A g \in afds' : \E d \in Conn : fdt'[g] = <<"sock", d>>
  BY <1>1, <1>3 DEF Sockets
<1>7. ASSUME NEW d \in Conn, peer'[d] \in {"here", "hungup"}
      PROVE  \E g \in afds' : fdt'[g] = <<"sock", d>>
  <2>1. CASE d = c
    BY <1>1, <1>3, <1>7, <2>1
  <2>2. CASE d # c
    <3>1. PICK g \in afds : fdt[g] = <<"sock", d>>
      BY <1>7, <2>2 DEF Sockets
    <3> QED
      BY <1>1, <1>3, <3>1
  <2> QED
    BY <2>1, <2>2
<1> QED
  BY <1>4, <1>5, <1>6, <1>7 DEF Sockets, Closed

LEMMA SocketAgreed ==
    ASSUME Inv, NobodyLost, Unique, Meant, Owned, pc \notin {"exec", "dead"},
           NEW f \in Fd, fdt[f] = Closed, NEW c \in Conn,
           fdt' = [fdt EXCEPT ![f] = <<"sock", c>>], made' = made,
           Position \subseteq Position',
           \A i \in Position : client_table'[i] = client_table[i],
           \A i \in Position' \ Position : NumberPipes(i)' = {} /\ UserPipes(i)' = {},
           \A d \in Conn : peer[d] = "left" => peer'[d] = "left"
    PROVE  Meant' /\ Owned'
<1>1. \A i \in Position : NumberPipes(i)' = NumberPipes(i) /\ UserPipes(i)' = UserPipes(i)
  BY DEF NumberPipes, UserPipes
<1>2. \A g \in Fd : IF g = f THEN fdt'[g][1] = "sock" ELSE fdt'[g] = fdt[g]
  BY DEF Inv, TypeOK
<1>3. \A i \in Position : User(client_table[i])' = User(client_table[i])
  <2> SUFFICES ASSUME NEW i \in Position PROVE User(client_table[i])' = User(client_table[i])
    OBVIOUS
  <2>1. client_table[i].fd \in afds /\ client_table[i].fd \in Fd
    BY Facts DEF Unique
  <2>2. client_table[i].fd # f
    BY <2>1, TablesOpen
  <2>3. client_table'[i].fd = client_table[i].fd
    OBVIOUS
  <2> QED
    BY <1>2, <2>1, <2>2, <2>3 DEF User
<1>4. ASSUME NEW i \in Position', NEW e \in NumberPipes(i)'
      PROVE  made'[fdt'[e.out_fd][2]] = [from |-> User(client_table[i])', to |-> Nobody]
  <2>1. i \in Position /\ e \in NumberPipes(i)
    BY <1>1, <1>4
  <2>2. e.out_fd \in Fd /\ e.out_fd # f
    BY <2>1, Facts, TablesOpen DEF PipeFd
  <2> QED
    BY <1>2, <1>3, <2>1, <2>2 DEF Meant
<1>5. ASSUME NEW i \in Position', NEW u \in UserPipes(i)'
      PROVE  /\ u.source_id = client_table'[i].id
             /\ ~u.is_used
             /\ \E j \in Position' :
                   /\ client_table'[j].id = u.target_id
                   /\ made'[fdt'[u.out_fd][2]] =
                         [from |-> User(client_table[i])', to |-> User(client_table[j])']
  <2>1. i \in Position /\ u \in UserPipes(i) /\ ~u.is_used
    BY <1>1, <1>5, Untaken
  <2>2. u.out_fd \in Fd /\ u.out_fd # f
    BY <2>1, Facts, TablesOpen DEF UserPipeFd
  <2>3. u.source_id = client_table[i].id
    BY <2>1 DEF Meant
  <2>4. PICK j \in Position :
           /\ client_table[j].id = u.target_id
           /\ made[fdt[u.out_fd][2]] =
                 [from |-> User(client_table[i]), to |-> User(client_table[j])]
    BY <2>1 DEF Meant
  <2> QED
    BY <1>2, <1>3, <2>1, <2>2, <2>3, <2>4
<1>6. Meant'
  BY <1>4, <1>5 DEF Meant, Nobody
<1>7. \A g \in Fd : fdt'[g][1] \in {"r", "w"} => fdt'[g] = fdt[g]
  BY <1>2
<1>8. \A g \in Fd : fdt'[g][1] \in {"r", "w"} /\ peer[made[fdt[g][2]].from] = "left" =>
         peer'[made'[fdt'[g][2]].from] = "left"
  BY <1>7, Facts
<1>9. Owned'
  <2>1. ASSUME NEW g \in Fd, fdt'[g][1] = "r"
        PROVE  \/ peer'[made'[fdt'[g][2]].from] = "left"
               \/ \E i \in Position' : \E e \in NumberPipes(i)' : e.out_fd = g
               \/ \E i \in Position' : \E u \in UserPipes(i)' : u.out_fd = g
    BY <1>1, <1>7, <1>8, <2>1 DEF Owned
  <2>2. ASSUME NEW g \in Fd, fdt'[g][1] = "w"
        PROVE  \/ peer'[made'[fdt'[g][2]].from] = "left"
               \/ \E i \in Position' : \E e \in NumberPipes(i)' : e.in_fd = g
               \/ \E i \in Position' : \E u \in UserPipes(i)' : ~u.is_used /\ u.in_fd = g
    BY <1>1, <1>7, <1>8, <2>2 DEF Owned
  <2> QED
    BY <2>1, <2>2 DEF Owned
<1> QED
  BY <1>6, <1>9

LEMMA AcceptStep ==
    ASSUME Inv, Agreed, Accept
    PROVE  Inv' /\ Agreed'
<1> DEFINE Turned(c) == /\ peer' = [peer EXCEPT ![c] = "left"]
                        /\ Writes(Console, {}, "select")
                        /\ UNCHANGED table
           Welcome(c, f) ==
              /\ peer' = [peer EXCEPT ![c] = IF @ = "quit" THEN "hungup" ELSE "here"]
              /\ \E i \in GetAvaliableID :
                    /\ id_table' = [id_table EXCEPT ![i] = 1]
                    /\ client_table' = Append(client_table, ClientInfo(f, i))
              /\ afds' = afds \cup {f}
              /\ Writes(Audience \cup {c}, {c}, "scan")
<1>1. PICK c \in Calling, f \in Lowest(Free(fdt)) :
         /\ fdt' = [fdt EXCEPT ![f] = <<"sock", c>>]
         /\ Turned(c) \/ Welcome(c, f)
  BY DEF Accept
<1>2. /\ pc = "accept"
      /\ UNCHANGED <<rfds, std, cli, cmds_, in_fd, out_fd, taken, status, inbox, made, got>>
  BY DEF Accept, exec, history
<1>3. /\ c \in Conn /\ peer[c] \in {"calling", "quit"} /\ f \in Fd /\ fdt[f] = Closed /\ f \notin afds
  <2>1. c \in Conn /\ peer[c] \in {"calling", "quit"} /\ f \in Fd /\ fdt[f] = Closed
    BY <1>1 DEF Calling, Lowest, Free
  <2> QED
    BY <2>1, TablesOpen
<1>4. /\ \A g \in Fd : fdt'[g] = IF g = f THEN <<"sock", c>> ELSE fdt[g]
      /\ fdt' \in [Fd -> End]
      /\ \A d \in Conn : \A g \in Fd : fdt[g] = <<"sock", d>> => d # c
  <2>1. fdt' \in [Fd -> End] /\ \A g \in Fd : fdt'[g] = IF g = f THEN <<"sock", c>> ELSE fdt[g]
    BY <1>1, <1>3 DEF Inv, TypeOK, End
  <2>2. \A g \in Fd : fdt[g] # <<"sock", c>>
    BY <1>3 DEF Inv, Sockets
  <2> QED
    BY <2>1, <2>2
<1>5. \A d \in Conn : d # c => peer'[d] = peer[d]
  BY <1>1, <1>3 DEF Inv, TypeOK
<1>6. CASE Turned(c)
  <2>1. /\ peer'[c] = "left" /\ UNCHANGED <<id_table, client_table, afds>>
        /\ peer' \in [Conn -> {"away", "calling", "quit", "here", "hungup", "left", "lost"}]
    BY <1>3, <1>6 DEF table, Inv, TypeOK
  <2>2. /\ broken' \subseteq Conn /\ pc' \in {"select", "dead"}
        /\ \A d \in broken' : peer'[d] \notin {"away", "calling", "quit", "here"}
    <3>1. Console \in SUBSET Conn /\ \A d \in Console : peer[d] \in {"here", "hungup", "lost"}
      BY DEF Console, Inv, TypeOK, Serving
    <3>2. Writes(Console, {}, "select")
      BY <1>6
    <3>3. \A d \in Conn : peer'[d] = peer[d] \/ peer'[d] = "left"
      BY <1>5, <2>1
    <3> QED
      BY <3>1, <3>2, <3>3, Written
  <2>3. TypeOK'
    BY <1>2, <1>4, <2>1, <2>2 DEF Inv, TypeOK
  <2>4. Sockets'
    BY <1>1, <1>3, <1>5, <2>1, SocketMonitored
  <2> /\ \A i \in Position : client_table'[i] = client_table[i]
      /\ Position' = Position
    BY <2>1 DEF Position
  <2>5. /\ PipesWhole' /\ PipesDiffer'
        /\ \A i \in Position' : \A u \in UserPipes(i)' : ~u.is_used
    BY <1>1, <1>2, <1>3, SocketOpened
  <2>6. Serving'
    BY <1>2, <1>3, <1>5, <2>1, <2>2 DEF Inv, TypeOK, Serving, Nobody
  <2>7. Reading'
    BY <1>2, <2>2, <2>5, Untaken DEF Inv, Reading
  <2>8. ASSUME NobodyLost' PROVE Unique' /\ Meant' /\ Owned' /\ ReachesAddressee'
    <3>1. NobodyLost
      BY <1>3, <1>5, <2>8 DEF NobodyLost
    <3>2. Unique /\ Meant /\ Owned /\ ReachesAddressee
      BY <3>1 DEF Agreed
    <3>3. Unique'
      BY <2>1, <3>2 DEF Unique, Position
    <3>4. \A d \in Conn : peer[d] = "left" => peer'[d] = "left"
      BY <1>3, <1>5
    <3>5. Meant' /\ Owned'
      BY <1>1, <1>2, <1>3, <3>1, <3>2, <3>4, SocketAgreed
    <3>6. ReachesAddressee'
      BY <1>2, <3>1, <3>2 DEF ReachesAddressee, Nobody
    <3> QED
      BY <3>3, <3>5, <3>6
  <2> QED
    BY <2>3, <2>4, <2>5, <2>6, <2>7, <2>8 DEF Inv, Agreed
<1>7. CASE Welcome(c, f)
  <2> DEFINE n == Len(client_table) + 1
  <2>1. PICK k \in GetAvaliableID :
           /\ id_table' = [id_table EXCEPT ![k] = 1]
           /\ client_table' = Append(client_table, ClientInfo(f, k))
    BY <1>7
  <2>2. /\ k \in Id /\ id_table[k] = 0
        /\ ClientInfo(f, k).fd = f /\ ClientInfo(f, k).id = k
        /\ ClientInfo(f, k).pipe_vector_ = {} /\ ClientInfo(f, k).userpipe_vector_ = {}
        /\ ClientInfo(f, k) \in Client
    BY <1>3 DEF GetAvaliableID, Lowest, ClientInfo, Client
  <2>3. /\ client_table' \in Seq(Client) /\ Position' = Position \cup {n} /\ n \notin Position
        /\ \A i \in Position : client_table'[i] = client_table[i]
        /\ client_table'[n] = ClientInfo(f, k)
        /\ Len(client_table') = n /\ Len(client_table) \in Nat
    BY <2>1, <2>2 DEF Inv, TypeOK, Position
  <2> HIDE DEF n
  <2>4. \A i \in Position' \ Position : NumberPipes(i)' = {} /\ UserPipes(i)' = {}
    BY <2>2, <2>3 DEF NumberPipes, UserPipes
  <2>5. /\ peer'[c] \in {"here", "hungup"} /\ (peer[c] = "quit" => peer'[c] = "hungup")
        /\ afds' = afds \cup {f}
        /\ peer' \in [Conn -> {"away", "calling", "quit", "here", "hungup", "left", "lost"}]
    BY <1>3, <1>7 DEF Inv, TypeOK
  <2>6. /\ broken' \subseteq Conn /\ pc' \in {"scan", "dead"}
        /\ \A d \in broken' : peer'[d] \notin {"away", "calling", "quit", "here"}
    <3>1. Audience \in SUBSET Conn /\ \A d \in Audience : peer[d] \in {"here", "hungup"}
      BY DEF Audience, Inv, TypeOK, Sockets
    <3>2. Audience \cup {c} \in SUBSET Conn
      BY <1>3, <3>1
    <3>3. \A d \in Audience \cup {c} : peer[d] # "away" /\ (peer[d] = "quit" => peer'[d] = "hungup")
      BY <1>3, <2>5, <3>1
    <3>4. \A d \in Conn : peer'[d] \in {"away", "calling", "quit", "here"} =>
              peer[d] = peer'[d] \/ peer[d] \in {"away", "calling", "quit"}
      BY <1>3, <1>5
    <3>5. Writes(Audience \cup {c}, {c}, "scan")
      BY <1>7
    <3> QED
      BY <3>2, <3>3, <3>4, <3>5, Written
  <2>7. TypeOK'
    <3>1. id_table' \in [Id -> {0, 1}] /\ cli \in 0 .. Len(client_table')
      BY <2>1, <2>2, <2>3 DEF Inv, TypeOK
    <3>2. afds' \subseteq Fd /\ rfds \subseteq afds'
      BY <1>3, <2>5 DEF Inv, TypeOK
    <3> QED
      BY <1>2, <1>4, <2>3, <2>5, <2>6, <3>1, <3>2 DEF Inv, TypeOK
  <2>8. Sockets'
    BY <1>1, <1>3, <1>5, <2>5, SocketMonitored
  <2>9. Position \subseteq Position'
    BY <2>3
  <2>10. /\ PipesWhole' /\ PipesDiffer'
         /\ \A i \in Position' : \A u \in UserPipes(i)' : ~u.is_used
    BY <1>1, <1>2, <1>3, <2>3, <2>4, <2>9, SocketOpened
  <2>11. Serving'
    <3>1. std # Nobody => peer[std] \in {"here", "hungup", "lost"} /\ std \in Conn
      BY DEF Inv, TypeOK, Serving
    <3>2. std # Nobody => peer'[std] \in {"here", "hungup", "lost"}
      BY <1>3, <1>5, <3>1
    <3> QED
      BY <1>2, <2>6, <3>2 DEF Serving, Nobody
  <2>12. Reading'
    BY <1>2, <2>6, <2>10, Untaken DEF Inv, Reading
  <2>13. ASSUME NobodyLost' PROVE Unique' /\ Meant' /\ Owned' /\ ReachesAddressee'
    <3>1. NobodyLost
      BY <1>3, <1>5, <2>13 DEF NobodyLost
    <3>2. Unique /\ Meant /\ Owned /\ ReachesAddressee
      BY <3>1 DEF Agreed
    <3>3. Unique'
      <4>1. \A i \in Position : client_table[i].id # k /\ client_table[i].fd # f
        BY <1>3, <2>2, <3>2 DEF Unique
      <4>2. \A i, j \in Position' : i # j =>
               client_table'[i].id # client_table'[j].id /\ client_table'[i].fd # client_table'[j].fd
        BY <2>2, <2>3, <3>2, <4>1 DEF Unique
      <4>3. \A id \in Id : id_table'[id] = 1 <=> \E i \in Position' : client_table'[i].id = id
        <5> SUFFICES ASSUME NEW id \in Id
                     PROVE  id_table'[id] = 1 <=> \E i \in Position' : client_table'[i].id = id
          OBVIOUS
        <5>1. CASE id = k
          <6>1. id_table'[id] = 1
            BY <2>1, <2>2, <5>1 DEF Inv, TypeOK
          <6>2. n \in Position' /\ client_table'[n].id = id
            BY <2>2, <2>3, <5>1
          <6> QED
            BY <6>1, <6>2
        <5>2. CASE id # k
          <6>1. id_table'[id] = id_table[id]
            BY <2>1, <2>2, <5>2 DEF Inv, TypeOK
          <6>2. (\E i \in Position' : client_table'[i].id = id)
                   <=> \E i \in Position : client_table[i].id = id
            BY <2>2, <2>3, <5>2
          <6> QED
            BY <3>2, <6>1, <6>2 DEF Unique
        <5> QED
          BY <5>1, <5>2
      <4>4. \A i \in Position' : client_table'[i].fd \in afds'
        BY <2>2, <2>3, <2>5, <3>2 DEF Unique
      <4>5. \A g \in afds' : \E i \in Position' : client_table'[i].fd = g
        BY <2>2, <2>3, <2>5, <3>2 DEF Unique
      <4> QED
        BY <4>2, <4>3, <4>4, <4>5 DEF Unique
    <3>4. \A d \in Conn : peer[d] = "left" => peer'[d] = "left"
      BY <1>3, <1>5
    <3>5. Meant' /\ Owned'
      BY <1>1, <1>2, <1>3, <2>3, <2>4, <2>9, <3>1, <3>2, <3>4, SocketAgreed
    <3>6. ReachesAddressee'
      BY <1>2, <3>1, <3>2 DEF ReachesAddressee, Nobody
    <3> QED
      BY <3>3, <3>5, <3>6
  <2> QED
    BY <2>7, <2>8, <2>10, <2>11, <2>12, <2>13 DEF Inv, Agreed
<1> QED
  BY <1>1, <1>6, <1>7
-----------------------------------------------------------------------------
(* A pipe is made.                                                         *)

LEMMA PipeOpened ==
    ASSUME Inv, pc = "exec", NEW w \in Fd, NEW r \in Fd, w # r, fdt[w] = Closed, fdt[r] = Closed,
           NEW to \in Conn \cup Nat, NewPipe(w, r, to), UNCHANGED <<afds, peer>>
    PROVE  /\ made' \in Seq(Pipe) /\ Len(made') = Len(made) + 1 /\ Len(made') <= MaxPipe
           /\ Len(made) \in Nat
           /\ made'[Len(made')] = [from |-> User(self), to |-> to]
           /\ \A p \in 1 .. Len(made) : made'[p] = made[p]
           /\ fdt' \in [Fd -> End]
           /\ fdt'[w] = <<"w", Len(made')>> /\ fdt'[r] = <<"r", Len(made')>>
           /\ \A g \in Fd : g # w /\ g # r => fdt'[g] = fdt[g]
           /\ out_fd' = {w}
           /\ Sockets'
<1> USE DEF Inv
<1>1. made \in Seq(Pipe) /\ Len(made) \in Nat /\ MaxPipe \in Nat
  BY MaxPipeAssumption DEF TypeOK
<1>2. [from |-> User(self), to |-> to] \in Pipe
  BY Served DEF Pipe
<1>3. /\ made' = Append(made, [from |-> User(self), to |-> to]) /\ Len(made) < MaxPipe
      /\ out_fd' = {w}
  BY DEF NewPipe
<1>4. /\ made' \in Seq(Pipe) /\ Len(made') = Len(made) + 1 /\ Len(made') <= MaxPipe
      /\ made'[Len(made')] = [from |-> User(self), to |-> to]
      /\ \A p \in 1 .. Len(made) : made'[p] = made[p]
  BY <1>1, <1>2, <1>3
<1>5. fdt' = [fdt EXCEPT ![w] = <<"w", Len(made')>>, ![r] = <<"r", Len(made')>>]
  BY <1>4 DEF NewPipe
<1>6. Len(made') \in 1 .. MaxPipe
  BY <1>1, <1>4
<1>7. <<"w", Len(made')>> \in End /\ <<"r", Len(made')>> \in End
  BY <1>6 DEF End
<1>8. /\ fdt' \in [Fd -> End]
      /\ fdt'[w] = <<"w", Len(made')>> /\ fdt'[r] = <<"r", Len(made')>>
      /\ \A g \in Fd : g # w /\ g # r => fdt'[g] = fdt[g]
  BY <1>5, <1>7 DEF TypeOK
<1>9. \A g \in Fd : fdt[g] # fdt'[w] /\ fdt[g] # fdt'[r]
  <2> SUFFICES ASSUME NEW g \in Fd PROVE fdt[g] # fdt'[w] /\ fdt[g] # fdt'[r]
    OBVIOUS
  <2>1. fdt[g][1] \in {"r", "w"} => fdt[g][2] \in 1 .. Len(made)
    BY DEF PipesWhole
  <2>2. Len(made') \notin 1 .. Len(made)
    BY <1>1, <1>4
  <2> QED
    BY <1>8, <2>1, <2>2
<1>10. Sockets'
  <2>1. w \notin afds /\ r \notin afds
    BY TablesOpen
  <2>2. \A f, g \in Fd : fdt'[f] = fdt'[g] => f = g \/ fdt'[f] = Closed
    <3>1. fdt'[w] # fdt'[r]
      BY <1>8
    <3> QED
      BY <1>8, <1>9, <3>1 DEF Sockets
  <2>3. \A f \in Fd : \A c \in Conn : fdt'[f] = <<"sock", c>> => f # w /\ f # r /\ fdt[f] = <<"sock", c>>
    BY <1>8
  <2>4. \A f \in afds : fdt'[f] = fdt[f] /\ f \in Fd
    BY <1>8, <2>1 DEF TypeOK
  <2>5. \A f \in afds' : \E c \in Conn : fdt'[f] = <<"sock", c>>
    BY <2>4 DEF Sockets
  <2>6. \A c \in Conn : peer'[c] \in {"here", "hungup"} => \E f \in afds' : fdt'[f] = <<"sock", c>>
    BY <2>4 DEF Sockets
  <2>7. \A f \in Fd : \A c \in Conn : fdt'[f] = <<"sock", c>> =>
           IF f \in afds' THEN peer'[c] \in {"here", "hungup"} ELSE peer'[c] = "left"
    BY <2>3 DEF Sockets
  <2> QED
    BY <2>2, <2>5, <2>6, <2>7 DEF Sockets, Closed
<1> QED
  BY <1>1, <1>3, <1>4, <1>8, <1>10

(* It is entered into one of the vectors of the client that is served: x   *)
(* is the only member of E, or of V.                                       *)
Entered(x, to, E, V) ==
    /\ pc = "exec"
    /\ x.in_fd \in Fd /\ x.out_fd \in Fd /\ x.in_fd # x.out_fd
    /\ fdt[x.in_fd] = Closed /\ fdt[x.out_fd] = Closed
    /\ to \in Conn \cup Nat /\ NewPipe(x.in_fd, x.out_fd, to)
    /\ UNCHANGED <<afds, peer>>
    /\ \/ E = {} /\ V = {x}
       \/ E = {x} /\ V = {}
    /\ Position' = Position
    /\ \A i \in Position : NumberPipes(i)' = NumberPipes(i) \cup (IF i = cli THEN E ELSE {})
    /\ \A i \in Position : UserPipes(i)' = UserPipes(i) \cup (IF i = cli THEN V ELSE {})

LEMMA PipeEntered ==
    ASSUME Inv, NEW x, NEW to, NEW E, NEW V, Entered(x, to, E, V)
    PROVE  PipesWhole' /\ PipesDiffer'
<1> USE DEF Inv, Entered
<1> DEFINE w == x.in_fd
           r == x.out_fd
<1>1. /\ Len(made') = Len(made) + 1 /\ Len(made) \in Nat
      /\ fdt'[w] = <<"w", Len(made')>> /\ fdt'[r] = <<"r", Len(made')>>
      /\ \A g \in Fd : g # w /\ g # r => fdt'[g] = fdt[g]
  BY PipeOpened
<1>2. \A i \in Position : \A e \in NumberPipes(i) :
         e.in_fd \in Fd \ {w, r} /\ e.out_fd \in Fd \ {w, r}
  BY Facts, TablesOpen DEF PipeFd
<1>3. \A i \in Position : \A u \in UserPipes(i) :
         u.out_fd \in Fd \ {w, r} /\ (~u.is_used => u.in_fd \in Fd \ {w, r})
  BY Facts, TablesOpen DEF UserPipeFd
<1>4. \A i \in Position : \A e : e \in NumberPipes(i)' <=> e \in NumberPipes(i) \/ (i = cli /\ e \in E)
  OBVIOUS
<1>5. \A i \in Position : \A e : e \in UserPipes(i)' <=> e \in UserPipes(i) \/ (i = cli /\ e \in V)
  OBVIOUS
<1>6. \A e : (e \in E => e = x) /\ (e \in V => e = x) /\ ~(e \in E /\ x \in V) /\ ~(e \in V /\ x \in E)
  OBVIOUS
<1>7. PipesDiffer'
  <2>1. ASSUME NEW i \in Position, NEW j \in Position, NEW d \in NumberPipes(i)',
               NEW e \in NumberPipes(j)', d.out_fd = e.out_fd
        PROVE  i = j /\ d = e
    <3>1. CASE d \in NumberPipes(i) /\ e \in NumberPipes(j)
      BY <2>1, <3>1 DEF PipesDiffer
    <3>2. CASE i = cli /\ j = cli /\ d = x /\ e = x
      BY <3>2
    <3>3. (d \in NumberPipes(i) => d.out_fd # r) /\ (e \in NumberPipes(j) => e.out_fd # r)
      BY <1>2
    <3> QED
      BY <1>4, <1>6, <2>1, <3>1, <3>2, <3>3
  <2>2. ASSUME NEW i \in Position, NEW j \in Position, NEW u \in UserPipes(i)',
               NEW v \in UserPipes(j)', u.out_fd = v.out_fd
        PROVE  i = j /\ u = v
    <3>1. CASE u \in UserPipes(i) /\ v \in UserPipes(j)
      BY <2>2, <3>1 DEF PipesDiffer
    <3>2. CASE i = cli /\ j = cli /\ u = x /\ v = x
      BY <3>2
    <3>3. (u \in UserPipes(i) => u.out_fd # r) /\ (v \in UserPipes(j) => v.out_fd # r)
      BY <1>3
    <3> QED
      BY <1>5, <1>6, <2>2, <3>1, <3>2, <3>3
  <2>3. ASSUME NEW i \in Position, NEW j \in Position, NEW e \in NumberPipes(i)',
               NEW u \in UserPipes(j)'
        PROVE  u.out_fd # e.out_fd
    <3>1. CASE e \in NumberPipes(i) /\ u \in UserPipes(j)
      BY <3>1 DEF PipesDiffer
    <3>2. (e \in NumberPipes(i) => e.out_fd # r) /\ (u \in UserPipes(j) => u.out_fd # r)
      BY <1>2, <1>3
    <3> QED
      BY <1>4, <1>5, <1>6, <3>1, <3>2
  <2> QED
    BY <2>1, <2>2, <2>3 DEF PipesDiffer
<1>8. PipesWhole'
  <2>1. \A f \in Fd : fdt'[f][1] \in {"r", "w"} => fdt'[f][2] \in 1 .. Len(made')
    <3> SUFFICES ASSUME NEW f \in Fd, fdt'[f][1] \in {"r", "w"} PROVE fdt'[f][2] \in 1 .. Len(made')
      OBVIOUS
    <3>1. CASE f = w \/ f = r
      BY <1>1, <3>1
    <3>2. CASE f # w /\ f # r
      <4>1. fdt[f][2] \in 1 .. Len(made)
        BY <1>1, <3>2 DEF PipesWhole
      <4> QED
        BY <1>1, <3>2, <4>1
    <3> QED
      BY <3>1, <3>2
  <2>2. fdt'[x.out_fd][1] = "r" /\ fdt'[x.in_fd] = <<"w", fdt'[x.out_fd][2]>>
    BY <1>1
  <2>3. ASSUME NEW i \in Position, NEW e \in NumberPipes(i)'
        PROVE  fdt'[e.out_fd][1] = "r" /\ fdt'[e.in_fd] = <<"w", fdt'[e.out_fd][2]>>
    <3>1. CASE e \in NumberPipes(i)
      BY <1>1, <1>2, <3>1 DEF PipesWhole
    <3> QED
      BY <1>4, <1>6, <2>2, <3>1
  <2>4. ASSUME NEW i \in Position, NEW u \in UserPipes(i)'
        PROVE  fdt'[u.out_fd][1] = "r" /\ (~u.is_used => fdt'[u.in_fd] = <<"w", fdt'[u.out_fd][2]>>)
    <3>1. CASE u \in UserPipes(i)
      BY <1>1, <1>3, <3>1 DEF PipesWhole
    <3> QED
      BY <1>5, <1>6, <2>2, <3>1
  <2> QED
    BY <2>1, <2>3, <2>4 DEF PipesWhole
<1> QED
  BY <1>7, <1>8

LEMMA PipeMeant ==
    ASSUME Inv, NobodyLost, Unique, Meant, Owned, ReachesAddressee,
           NEW x, NEW to, NEW E, NEW V, Entered(x, to, E, V),
           UNCHANGED <<id_table, pc, cli, got>>,
           \A i \in Position : client_table'[i].id = client_table[i].id,
           \A i \in Position : client_table'[i].fd = client_table[i].fd,
           x \in E => to = Nobody,
           x \in V => /\ x.source_id = self.id /\ ~x.is_used
                      /\ \E j \in Position : client_table[j].id = x.target_id /\ to = User(client_table[j])
    PROVE  Unique' /\ Meant' /\ Owned' /\ ReachesAddressee'
<1> USE DEF Inv, Entered
<1> DEFINE w == x.in_fd
           r == x.out_fd
<1>1. /\ Len(made') = Len(made) + 1 /\ Len(made) \in Nat
      /\ made'[Len(made')] = [from |-> User(self), to |-> to]
      /\ \A p \in 1 .. Len(made) : made'[p] = made[p]
      /\ fdt'[w] = <<"w", Len(made')>> /\ fdt'[r] = <<"r", Len(made')>>
      /\ \A g \in Fd : g # w /\ g # r => fdt'[g] = fdt[g]
  BY PipeOpened
<1>2. ASSUME NEW i \in Position, NEW e \in NumberPipes(i)
      PROVE  e.out_fd \in Fd \ {w, r} /\ fdt[e.out_fd][2] \in 1 .. Len(made)
  <2>1. e.out_fd \in Fd \ {w, r}
    BY Facts, TablesOpen DEF PipeFd
  <2> QED
    BY <2>1 DEF PipesWhole
<1>3. ASSUME NEW i \in Position, NEW u \in UserPipes(i)
      PROVE  u.out_fd \in Fd \ {w, r} /\ fdt[u.out_fd][2] \in 1 .. Len(made)
  <2>1. u.out_fd \in Fd \ {w, r}
    BY Facts, TablesOpen DEF UserPipeFd
  <2> QED
    BY <2>1 DEF PipesWhole
<1>4. \A i \in Position : \A e : e \in NumberPipes(i)' <=> e \in NumberPipes(i) \/ (i = cli /\ e \in E)
  OBVIOUS
<1>5. \A i \in Position : \A e : e \in UserPipes(i)' <=> e \in UserPipes(i) \/ (i = cli /\ e \in V)
  OBVIOUS
<1>6. \A e : (e \in E => e = x) /\ (e \in V => e = x)
  OBVIOUS
<1>7. \A i \in Position : User(client_table[i])' = User(client_table[i])
  <2> SUFFICES ASSUME NEW i \in Position PROVE User(client_table[i])' = User(client_table[i])
    OBVIOUS
  <2>1. client_table[i].fd \in afds /\ client_table[i].fd \in Fd
    BY Facts DEF Unique
  <2>2. client_table[i].fd # w /\ client_table[i].fd # r
    BY <2>1, TablesOpen
  <2> QED
    BY <1>1, <2>1, <2>2 DEF User
<1>8. Unique'
  BY DEF Unique
<1>9. cli \in Position /\ self' = client_table'[cli] /\ self'.id = self.id
  BY Served DEF self
<1>10. Meant'
  <2>1. ASSUME NEW i \in Position, NEW e \in NumberPipes(i)'
        PROVE  made'[fdt'[e.out_fd][2]] = [from |-> User(client_table[i])', to |-> Nobody]
    <3>1. CASE e \in NumberPipes(i)
      BY <1>1, <1>2, <1>7, <3>1 DEF Meant
    <3>2. CASE i = cli /\ e \in E
      <4>1. e = x /\ made'[fdt'[e.out_fd][2]] = [from |-> User(self), to |-> to] /\ to = Nobody
        BY <1>1, <1>6, <3>2
      <4> QED
        BY <1>7, <3>2, <4>1 DEF self
    <3> QED
      BY <1>4, <3>1, <3>2
  <2>2. ASSUME NEW i \in Position, NEW u \in UserPipes(i)'
        PROVE  /\ u.source_id = client_table'[i].id
               /\ u.is_used => u.target_id = self'.id
               /\ \E j \in Position :
                     /\ client_table'[j].id = u.target_id
                     /\ made'[fdt'[u.out_fd][2]] =
                           [from |-> User(client_table[i])', to |-> User(client_table[j])']
    <3>1. CASE u \in UserPipes(i)
      <4>1. u.source_id = client_table'[i].id /\ (u.is_used => u.target_id = self'.id)
        BY <1>9, <3>1 DEF Meant
      <4>2. PICK j \in Position :
               /\ client_table[j].id = u.target_id
               /\ made[fdt[u.out_fd][2]] =
                     [from |-> User(client_table[i]), to |-> User(client_table[j])]
        BY <3>1 DEF Meant
      <4>3. made'[fdt'[u.out_fd][2]] = made[fdt[u.out_fd][2]]
        BY <1>1, <1>3, <3>1
      <4>4. User(client_table[i])' = User(client_table[i]) /\ User(client_table[j])' = User(client_table[j])
        BY <1>7
      <4> QED
        BY <4>1, <4>2, <4>3, <4>4
    <3>2. CASE i = cli /\ u \in V
      <4>1. u = x /\ made'[fdt'[u.out_fd][2]] = [from |-> User(self), to |-> to]
        BY <1>1, <1>6, <3>2
      <4>2. PICK j \in Position : client_table[j].id = x.target_id /\ to = User(client_table[j])
        BY <3>2, <4>1
      <4>3. User(client_table[i])' = User(self) /\ User(client_table[j])' = to
        BY <1>7, <3>2, <4>2 DEF self
      <4>4. ~u.is_used /\ u.source_id = client_table'[i].id
        BY <3>2, <4>1 DEF self
      <4> QED
        BY <4>1, <4>2, <4>3, <4>4
    <3> QED
      BY <1>5, <3>1, <3>2
  <2> QED
    BY <2>1, <2>2 DEF Meant, Nobody
<1>11. Owned'
  <2>1. \A g \in Fd : g # w /\ g # r /\ fdt[g][1] \in {"r", "w"} =>
           made'[fdt'[g][2]] = made[fdt[g][2]]
    BY <1>1 DEF PipesWhole
  <2>2. x \in E \/ x \in V
    OBVIOUS
  <2>3. x \in NumberPipes(cli)' \/ (x \in UserPipes(cli)' /\ ~x.is_used)
    BY <1>4, <1>5, <1>9, <2>2
  <2>4. ASSUME NEW g \in Fd, fdt'[g][1] = "r"
        PROVE  \/ peer'[made'[fdt'[g][2]].from] = "left"
               \/ \E i \in Position : \E e \in NumberPipes(i)' : e.out_fd = g
               \/ \E i \in Position : \E u \in UserPipes(i)' : u.out_fd = g
    <3>1. CASE g = r
      BY <1>9, <2>3, <3>1
    <3>2. CASE g # r
      <4>1. g # w /\ fdt[g] = fdt'[g]
        BY <1>1, <2>4, <3>2
      <4> QED
        BY <1>4, <1>5, <2>1, <2>4, <3>2, <4>1 DEF Owned
    <3> QED
      BY <3>1, <3>2
  <2>5. ASSUME NEW g \in Fd, fdt'[g][1] = "w"
        PROVE  \/ peer'[made'[fdt'[g][2]].from] = "left"
               \/ \E i \in Position : \E e \in NumberPipes(i)' : e.in_fd = g
               \/ \E i \in Position : \E u \in UserPipes(i)' : ~u.is_used /\ u.in_fd = g
    <3>1. CASE g = w
      BY <1>9, <2>3, <3>1
    <3>2. CASE g # w
      <4>1. g # r /\ fdt[g] = fdt'[g]
        BY <1>1, <2>5, <3>2
      <4> QED
        BY <1>4, <1>5, <2>1, <2>5, <3>2, <4>1 DEF Owned
    <3> QED
      BY <3>1, <3>2
  <2> QED
    BY <2>4, <2>5 DEF Owned
<1>12. ReachesAddressee'
  <2>1. \A g \in got : g[2] \in 1 .. Len(made)
    BY DEF TypeOK
  <2>2. \A g \in got : made'[g[2]] = made[g[2]]
    BY <1>1, <2>1
  <2> QED
    BY <2>2 DEF ReachesAddressee, Nobody, NobodyLost
<1> QED
  BY <1>8, <1>10, <1>11, <1>12

(* What is left of a line is as plain as it was.                           *)
LEMMA Onward ==
    ASSUME Inv, pc = "exec", Head(cmds_).redir # <<>>, NextRedirection
    PROVE  /\ cmds_' \in Seq(Command) /\ cmds_' # <<>>
           /\ \A k \in DOMAIN cmds_' : Plain(cmds_'[k].redir)
           /\ OnlyPipes(Head(cmds_).redir) => OnlyPipes(Head(cmds_').redir)
           /\ Head(Head(cmds_).redir).op = "from" => OnlyPipes(Head(cmds_').redir)
           /\ OnlyPipes(Head(cmds_).redir) => Head(Head(cmds_).redir).op = "pipe"
           /\ Num \in Int /\ (Head(Head(cmds_).redir).op # "pipe" => Num \in Id)
<1>1. cmds_ \in Seq(Command) /\ cmds_ # <<>> /\ \A k \in DOMAIN cmds_ : Plain(cmds_[k].redir)
  BY DEF Inv, TypeOK, Reading
<1>2. /\ cmds_' \in Seq(Command) /\ cmds_' # <<>>
      /\ Head(cmds_').redir = Tail(Head(cmds_).redir)
      /\ DOMAIN cmds_' = DOMAIN cmds_
      /\ \A k \in DOMAIN cmds_ : cmds_'[k].redir =
           IF k = 1 THEN Tail(cmds_[1].redir) ELSE cmds_[k].redir
  BY <1>1, Redirected
<1>3. Head(cmds_) = cmds_[1] /\ 1 \in DOMAIN cmds_ /\ cmds_[1] \in Command
  BY <1>1
<1> DEFINE r == cmds_[1].redir
<1>4. r \in Seq(Redirection) /\ r # <<>> /\ Plain(r)
  BY <1>1, <1>3 DEF Command
<1> HIDE DEF r
<1>5. /\ Tail(r) \in Seq(Redirection) /\ Head(r) = r[1] /\ r[1] \in Redirection
      /\ Len(r) \in Nat /\ DOMAIN r = 1 .. Len(r) /\ 1 \in DOMAIN r
      /\ DOMAIN Tail(r) = 1 .. Len(r) - 1
      /\ \A k \in 1 .. Len(r) - 1 : Tail(r)[k] = r[k + 1]
  BY <1>4
<1>6. \A k \in DOMAIN Tail(r) : k + 1 \in DOMAIN r /\ Tail(r)[k] = r[k + 1] /\ 1 < k + 1
  BY <1>5
<1>7. Plain(Tail(r))
  <2>1. \A k \in DOMAIN Tail(r) : Tail(r)[k].op # "pipe" => Tail(r)[k].num \in Id
    BY <1>4, <1>6 DEF Plain
  <2>2. ASSUME NEW j \in DOMAIN Tail(r), NEW k \in DOMAIN Tail(r), Tail(r)[j].op = "from", j < k
        PROVE  Tail(r)[k].op = "pipe"
    <3>1. j + 1 < k + 1
      BY <1>5, <2>2
    <3> QED
      BY <1>4, <1>6, <2>2, <3>1 DEF Plain
  <2> QED
    BY <2>1, <2>2 DEF Plain
<1>8. OnlyPipes(r) => OnlyPipes(Tail(r)) /\ r[1].op = "pipe"
  BY <1>5, <1>6 DEF OnlyPipes
<1>9. r[1].op = "from" => OnlyPipes(Tail(r))
  BY <1>4, <1>5, <1>6 DEF OnlyPipes, Plain
<1>10. r[1].num \in Int /\ (r[1].op # "pipe" => r[1].num \in Id)
  BY <1>4, <1>5 DEF Redirection, Plain
<1>11. Head(cmds_).redir = r /\ Head(cmds_').redir = Tail(r) /\ Num = r[1].num
       /\ Head(Head(cmds_).redir).op = r[1].op
  BY <1>2, <1>3, <1>5 DEF Num, r
<1>12. \A k \in DOMAIN cmds_' : Plain(cmds_'[k].redir)
  BY <1>1, <1>2, <1>7 DEF r
<1> QED
  BY <1>2, <1>8, <1>9, <1>10, <1>11, <1>12

LEMMA TwoFreed ==
    ASSUME NEW q \in TwoFree
    PROVE  /\ q[1] \in Fd /\ q[2] \in Fd /\ q[1] # q[2]
           /\ fdt[q[1]] = Closed /\ fdt[q[2]] = Closed
BY DEF TwoFree, Free, Lowest

LEMMA UserPipeOutStep ==
    ASSUME Inv, Agreed, UserPipeOut
    PROVE  Inv' /\ Agreed'
<1>1. /\ pc = "exec" /\ Head(cmds_).redir # <<>> /\ Head(Head(cmds_).redir).op = "to"
      /\ NextRedirection
      /\ UNCHANGED <<id_table, afds, rfds, std, pc, cli, in_fd, taken, status, peer, inbox, broken, got>>
  BY DEF UserPipeOut, At, users
<1>2. PICK q \in TwoFree, j \in GetClientByID(Num) :
         /\ NewPipe(q[1], q[2], User(client_table[j]))
         /\ client_table' = [client_table EXCEPT ![cli].userpipe_vector_ = @ \cup
               {[in_fd |-> q[1], out_fd |-> q[2], source_id |-> self.id, target_id |-> Num,
                 is_used |-> FALSE]}]
  BY DEF UserPipeOut
<1>3. /\ q[1] \in Fd /\ q[2] \in Fd /\ q[1] # q[2]
      /\ fdt[q[1]] = Closed /\ fdt[q[2]] = Closed
  BY TwoFreed
<1>4. /\ cmds_' \in Seq(Command) /\ cmds_' # <<>>
      /\ \A k \in DOMAIN cmds_' : Plain(cmds_'[k].redir)
      /\ ~OnlyPipes(Head(cmds_).redir) /\ Num \in Id
  BY <1>1, Onward
<1>5. taken = {} /\ in_fd = {} /\ \A i \in Position : \A u \in UserPipes(i) : ~u.is_used
  <2>1. taken = {}
    BY <1>1, <1>4 DEF Inv, Reading
  <2> QED
    BY <2>1, Untaken
<1> DEFINE x == [in_fd |-> q[1], out_fd |-> q[2], source_id |-> self.id, target_id |-> Num,
                 is_used |-> FALSE]
           c == [client_table[cli] EXCEPT !.userpipe_vector_ = @ \cup {x}]
           none == {}
           only == {x}
<1>6. cli \in Position /\ self = client_table[cli] /\ self \in Client /\ client_table \in Seq(Client)
  BY <1>1, Served DEF self, Inv, TypeOK
<1>7. x \in UserPipeFd
  BY <1>3, <1>4, <1>6 DEF UserPipeFd, Client
<1>8. x.in_fd = q[1] /\ x.out_fd = q[2] /\ x.source_id = self.id /\ x.target_id = Num /\ ~x.is_used
  OBVIOUS
<1>9. client_table' = [client_table EXCEPT ![cli].userpipe_vector_ = @ \cup {x}]
  BY <1>2
<1> HIDE DEF x
<1>10. /\ c \in Client /\ c.id = self.id /\ c.fd = self.fd
       /\ c.pipe_vector_ = self.pipe_vector_ /\ c.userpipe_vector_ = self.userpipe_vector_ \cup {x}
  BY <1>6, <1>7 DEF Client
<1>11. client_table' = [client_table EXCEPT ![cli] = c]
  BY <1>6, <1>9
<1> HIDE DEF c
<1>12. /\ client_table' \in Seq(Client) /\ Position' = Position /\ Len(client_table') = Len(client_table)
       /\ \A i \in Position : client_table'[i] = IF i = cli THEN c ELSE client_table[i]
  BY <1>6, <1>10, <1>11 DEF Position
<1>13. /\ \A i \in Position : client_table'[i].id = client_table[i].id
       /\ \A i \in Position : client_table'[i].fd = client_table[i].fd
       /\ \A i \in Position : NumberPipes(i)' = NumberPipes(i) \cup (IF i = cli THEN none ELSE {})
       /\ \A i \in Position : UserPipes(i)' = UserPipes(i) \cup (IF i = cli THEN only ELSE {})
       /\ none = {} /\ only = {x}
  BY <1>6, <1>10, <1>12 DEF NumberPipes, UserPipes
<1> HIDE DEF none, only
<1>14. j \in Position /\ client_table[j].id = Num
  BY DEF GetClientByID, Lowest, Position
<1>15. User(client_table[j]) \in Conn \cup Nat
  <2>1. fdt[client_table[j].fd] \in End
    BY <1>14, Facts
  <2> QED
    BY <2>1, MaxPipeAssumption DEF User, End, Closed
<1>16. NewPipe(x.in_fd, x.out_fd, User(client_table[j]))
  BY <1>2, <1>8
<1>17. /\ made' \in Seq(Pipe) /\ Len(made') = Len(made) + 1 /\ Len(made') <= MaxPipe /\ Len(made) \in Nat
       /\ fdt' \in [Fd -> End] /\ out_fd' = {q[1]} /\ Sockets'
       /\ \A g \in Fd : g # q[1] /\ g # q[2] => fdt'[g] = fdt[g]
  BY <1>1, <1>2, <1>3, <1>15, PipeOpened
<1>18. Entered(x, User(client_table[j]), none, only)
  <2>1. /\ x.in_fd \in Fd /\ x.out_fd \in Fd /\ x.in_fd # x.out_fd
        /\ fdt[x.in_fd] = Closed /\ fdt[x.out_fd] = Closed
    BY <1>3, <1>8
  <2>2. pc = "exec" /\ UNCHANGED <<afds, peer>> /\ Position' = Position
    BY <1>1, <1>12
  <2> QED
    BY <1>13, <1>15, <1>16, <2>1, <2>2 DEF Entered
<1>23. PipesWhole' /\ PipesDiffer'
  BY <1>18, PipeEntered
<1>19. TypeOK'
  <2>1. got' \subseteq Conn \X (1 .. Len(made'))
    BY <1>1, <1>17 DEF Inv, TypeOK
  <2>2. out_fd' \subseteq Fd /\ cli' \in 0 .. Len(client_table')
    BY <1>1, <1>3, <1>12, <1>17 DEF Inv, TypeOK
  <2> QED
    BY <1>1, <1>4, <1>12, <1>17, <2>1, <2>2 DEF Inv, TypeOK
<1>20. Serving'
  <2>1. self.fd \in afds /\ self.fd \in Fd /\ self.fd # q[1] /\ self.fd # q[2]
    BY <1>1, <1>3, <1>6, Served, TablesOpen DEF Client
  <2>2. self'.fd = self.fd
    BY <1>1, <1>6, <1>13 DEF self
  <2>3. fdt'[self'.fd] = <<"sock", std'>> /\ std \in Conn /\ self.fd \notin rfds
    BY <1>1, <1>17, <2>1, <2>2, Served
  <2> QED
    BY <1>1, <1>6, <1>12, <2>1, <2>2, <2>3 DEF Inv, Serving, Nobody
<1>21. Reading'
  <2>1. \A i \in Position' : \A u \in UserPipes(i)' : ~u.is_used
    BY <1>5, <1>8, <1>12, <1>13
  <2> QED
    BY <1>1, <1>4, <1>5, <2>1 DEF Reading
<1>22. ASSUME NobodyLost' PROVE Unique' /\ Meant' /\ Owned' /\ ReachesAddressee'
  <2>1. NobodyLost
    BY <1>1, <1>22 DEF NobodyLost
  <2>2. Unique /\ Meant /\ Owned /\ ReachesAddressee
    BY <2>1 DEF Agreed
  <2>3. x \in only /\ x \notin none
    BY <1>13
  <2> QED
    BY <1>1, <1>8, <1>13, <1>14, <1>18, <2>1, <2>2, <2>3, PipeMeant
<1> QED
  BY <1>17, <1>19, <1>20, <1>21, <1>22, <1>23 DEF Inv, Agreed

(* The clients that are looked up stay the same when no id changes.        *)
LEMMA SameClients ==
    ASSUME Position' = Position, \A i \in Position : client_table'[i].id = client_table[i].id
    PROVE  \A id : GetClientByID(id)' = GetClientByID(id)
BY DEF GetClientByID, Lowest, Position

LEMMA CreatePipeStep ==
    ASSUME Inv, Agreed, CreatePipe
    PROVE  Inv' /\ Agreed'
<1>1. /\ pc = "exec" /\ Head(cmds_).redir # <<>> /\ Head(Head(cmds_).redir).op = "pipe"
      /\ NextRedirection
      /\ UNCHANGED <<id_table, afds, rfds, std, pc, cli, in_fd, taken, status, peer, inbox, broken, got>>
  BY DEF CreatePipe, At, users
<1>2. /\ cmds_' \in Seq(Command) /\ cmds_' # <<>>
      /\ \A k \in DOMAIN cmds_' : Plain(cmds_'[k].redir)
      /\ OnlyPipes(Head(cmds_).redir) => OnlyPipes(Head(cmds_').redir)
      /\ Num \in Int
  BY <1>1, Onward
<1>3. cli \in Position /\ self = client_table[cli] /\ self \in Client /\ client_table \in Seq(Client)
  BY <1>1, Served DEF self, Inv, TypeOK
<1>4. ASSUME SamePipe(Num) # {}, out_fd' = {e.in_fd : e \in SamePipe(Num)},
             UNCHANGED <<fdt, client_table, made>>
      PROVE  Inv' /\ Agreed'
  <2>1. out_fd' \subseteq Fd
    BY <1>3, <1>4, Facts DEF SamePipe, NumberPipes, PipeFd
  <2>2. TypeOK'
    BY <1>1, <1>2, <1>4, <2>1 DEF Inv, TypeOK
  <2>3. Sockets' /\ PipesWhole' /\ PipesDiffer'
    BY <1>1, <1>4, TablesStay
  <2>4. Serving'
    BY <1>1, <1>4 DEF Inv, Serving, Nobody, Position, self
  <2>5. Reading'
    BY <1>1, <1>2, <1>4 DEF Inv, Reading, Position, UserPipes, GetClientByID, Lowest
  <2>6. Agreed'
    BY <1>1, <1>4, AgreedStays
  <2> QED
    BY <2>2, <2>3, <2>4, <2>5, <2>6 DEF Inv
<1>5. ASSUME NEW q \in TwoFree, NewPipe(q[1], q[2], Nobody),
             client_table' = [client_table EXCEPT ![cli].pipe_vector_ = @ \cup
                                 {[in_fd |-> q[1], out_fd |-> q[2], count |-> Num]}]
      PROVE  Inv' /\ Agreed'
  <2>1. /\ q[1] \in Fd /\ q[2] \in Fd /\ q[1] # q[2]
        /\ fdt[q[1]] = Closed /\ fdt[q[2]] = Closed
    BY TwoFreed
  <2> DEFINE x == [in_fd |-> q[1], out_fd |-> q[2], count |-> Num]
             c == [client_table[cli] EXCEPT !.pipe_vector_ = @ \cup {x}]
             none == {}
             only == {x}
  <2>2. x \in PipeFd /\ x.in_fd = q[1] /\ x.out_fd = q[2]
    BY <1>2, <2>1 DEF PipeFd
  <2>3. client_table' = [client_table EXCEPT ![cli].pipe_vector_ = @ \cup {x}]
    BY <1>5
  <2> HIDE DEF x
  <2>4. /\ c \in Client /\ c.id = self.id /\ c.fd = self.fd
        /\ c.userpipe_vector_ = self.userpipe_vector_ /\ c.pipe_vector_ = self.pipe_vector_ \cup {x}
    BY <1>3, <2>2 DEF Client
  <2>5. client_table' = [client_table EXCEPT ![cli] = c]
    BY <1>3, <2>3
  <2> HIDE DEF c
  <2>6. /\ client_table' \in Seq(Client) /\ Position' = Position /\ Len(client_table') = Len(client_table)
        /\ \A i \in Position : client_table'[i] = IF i = cli THEN c ELSE client_table[i]
    BY <1>3, <2>4, <2>5 DEF Position
  <2>7. /\ \A i \in Position : client_table'[i].id = client_table[i].id
        /\ \A i \in Position : client_table'[i].fd = client_table[i].fd
        /\ \A i \in Position : NumberPipes(i)' = NumberPipes(i) \cup (IF i = cli THEN only ELSE {})
        /\ \A i \in Position : UserPipes(i)' = UserPipes(i) \cup (IF i = cli THEN none ELSE {})
        /\ none = {} /\ only = {x}
    BY <1>3, <2>4, <2>6 DEF NumberPipes, UserPipes
  <2> HIDE DEF none, only
  <2>8. NewPipe(x.in_fd, x.out_fd, Nobody) /\ Nobody \in Conn \cup Nat
    BY <1>5, <2>2 DEF Nobody
  <2>9. /\ made' \in Seq(Pipe) /\ Len(made') = Len(made) + 1 /\ Len(made') <= MaxPipe /\ Len(made) \in Nat
        /\ fdt' \in [Fd -> End] /\ out_fd' = {q[1]} /\ Sockets'
        /\ \A g \in Fd : g # q[1] /\ g # q[2] => fdt'[g] = fdt[g]
    BY <1>1, <1>5, <2>1, <2>8, PipeOpened
  <2>10. Entered(x, Nobody, only, none)
    <3>1. /\ x.in_fd \in Fd /\ x.out_fd \in Fd /\ x.in_fd # x.out_fd
          /\ fdt[x.in_fd] = Closed /\ fdt[x.out_fd] = Closed
      BY <2>1, <2>2
    <3>2. pc = "exec" /\ UNCHANGED <<afds, peer>> /\ Position' = Position
      BY <1>1, <2>6
    <3> QED
      BY <2>7, <2>8, <3>1, <3>2 DEF Entered
  <2>11. PipesWhole' /\ PipesDiffer'
    BY <2>10, PipeEntered
  <2>12. TypeOK'
    <3>1. got' \subseteq Conn \X (1 .. Len(made'))
      BY <1>1, <2>9 DEF Inv, TypeOK
    <3>2. out_fd' \subseteq Fd /\ cli' \in 0 .. Len(client_table')
      BY <1>1, <2>1, <2>6, <2>9 DEF Inv, TypeOK
    <3> QED
      BY <1>1, <1>2, <2>6, <2>9, <3>1, <3>2 DEF Inv, TypeOK
  <2>13. Serving'
    <3>1. self.fd \in afds /\ self.fd \in Fd /\ self.fd # q[1] /\ self.fd # q[2]
      BY <1>1, <1>3, <2>1, Served, TablesOpen DEF Client
    <3>2. self'.fd = self.fd
      BY <1>1, <1>3, <2>7 DEF self
    <3>3. fdt'[self'.fd] = <<"sock", std'>> /\ std \in Conn /\ self.fd \notin rfds
      BY <1>1, <2>9, <3>1, <3>2, Served
    <3> QED
      BY <1>1, <1>3, <2>6, <3>1, <3>2, <3>3 DEF Inv, Serving, Nobody
  <2>14. Reading'
    <3>1. \A i \in Position : UserPipes(i)' = UserPipes(i)
      BY <2>7
    <3>2. \A id : GetClientByID(id)' = GetClientByID(id)
      BY <2>6, <2>7, SameClients
    <3> QED
      BY <1>1, <1>2, <2>6, <3>1, <3>2 DEF Inv, Reading
  <2>15. ASSUME NobodyLost' PROVE Unique' /\ Meant' /\ Owned' /\ ReachesAddressee'
    <3>1. NobodyLost
      BY <1>1, <2>15 DEF NobodyLost
    <3>2. Unique /\ Meant /\ Owned /\ ReachesAddressee
      BY <3>1 DEF Agreed
    <3>3. x \in only /\ x \notin none
      BY <2>7
    <3> QED
      BY <1>1, <2>7, <2>10, <3>1, <3>2, <3>3, PipeMeant
  <2> QED
    BY <2>9, <2>11, <2>12, <2>13, <2>14, <2>15 DEF Inv, Agreed
<1> QED
  BY <1>4, <1>5 DEF CreatePipe
-----------------------------------------------------------------------------
(* Descriptors are closed, and what is open on them is dropped.            *)

(* The client now at k was at h[k], and the pipes it still has are some it *)
(* had; no end of theirs is in C, of what is closed.                       *)
Shrunk(h, C) ==
    /\ fdt' = CloseAll(fdt, C) /\ made' = made
    /\ h \in [Position' -> Position]
    /\ \A j, k \in Position' : h[j] = h[k] => j = k
    /\ \A k \in Position' :
          client_table'[k].id = client_table[h[k]].id /\ client_table'[k].fd = client_table[h[k]].fd
    /\ \A k \in Position' : \A e \in NumberPipes(k)' : \E d \in NumberPipes(h[k]) :
          e.in_fd = d.in_fd /\ e.out_fd = d.out_fd /\ d.in_fd \notin C /\ d.out_fd \notin C
    /\ \A k \in Position' : \A d, e \in NumberPipes(k)' : d.out_fd = e.out_fd => d = e
    /\ \A k \in Position' : \A v \in UserPipes(k)' : \E u \in UserPipes(h[k]) :
          /\ v.in_fd = u.in_fd /\ v.out_fd = u.out_fd
          /\ v.source_id = u.source_id /\ v.target_id = u.target_id
          /\ u.out_fd \notin C /\ (~v.is_used => ~u.is_used /\ u.in_fd \notin C)
    /\ \A k \in Position' : \A u, v \in UserPipes(k)' : u.out_fd = v.out_fd => u = v

LEMMA Closing ==
    ASSUME Inv, NEW C, fdt' = CloseAll(fdt, C)
    PROVE  /\ fdt' \in [Fd -> End]
           /\ \A g \in Fd : fdt'[g] = IF g \in C THEN Closed ELSE fdt[g]
           /\ \A g \in Fd : fdt'[g][1] # "closed" => g \notin C /\ fdt'[g] = fdt[g]
BY DEF Inv, TypeOK, CloseAll, End, Closed

LEMMA Shrinking ==
    ASSUME Inv, NEW h, NEW C, Shrunk(h, C)
    PROVE  PipesWhole' /\ PipesDiffer'
<1>1. /\ \A g \in Fd : fdt'[g] = IF g \in C THEN Closed ELSE fdt[g]
      /\ \A g \in Fd : fdt'[g][1] # "closed" => g \notin C /\ fdt'[g] = fdt[g]
      /\ made' = made
  BY Closing DEF Shrunk
<1>2. \A k \in Position' : h[k] \in Position
  BY DEF Shrunk
<1>3. \A k \in Position' : \A e \in NumberPipes(k)' : \E d \in NumberPipes(h[k]) :
          e.in_fd = d.in_fd /\ e.out_fd = d.out_fd /\ d.in_fd \notin C /\ d.out_fd \notin C
  BY DEF Shrunk
<1>4. \A k \in Position' : \A v \in UserPipes(k)' : \E u \in UserPipes(h[k]) :
          /\ v.in_fd = u.in_fd /\ v.out_fd = u.out_fd
          /\ u.out_fd \notin C /\ (~v.is_used => ~u.is_used /\ u.in_fd \notin C)
  BY DEF Shrunk
<1>5. PipesDiffer'
  <2>1. ASSUME NEW i \in Position', NEW j \in Position', NEW d \in NumberPipes(i)',
               NEW e \in NumberPipes(j)', d.out_fd = e.out_fd
        PROVE  i = j /\ d = e
    <3>1. PICK d0 \in NumberPipes(h[i]) : d.out_fd = d0.out_fd
      BY <1>3
    <3>2. PICK e0 \in NumberPipes(h[j]) : e.out_fd = e0.out_fd
      BY <1>3
    <3>3. h[i] = h[j]
      BY <1>2, <2>1, <3>1, <3>2 DEF Inv, PipesDiffer
    <3> QED
      BY <2>1, <3>3 DEF Shrunk
  <2>2. ASSUME NEW i \in Position', NEW j \in Position', NEW u \in UserPipes(i)',
               NEW v \in UserPipes(j)', u.out_fd = v.out_fd
        PROVE  i = j /\ u = v
    <3>1. PICK u0 \in UserPipes(h[i]) : u.out_fd = u0.out_fd
      BY <1>4
    <3>2. PICK v0 \in UserPipes(h[j]) : v.out_fd = v0.out_fd
      BY <1>4
    <3>3. h[i] = h[j]
      BY <1>2, <2>2, <3>1, <3>2 DEF Inv, PipesDiffer
    <3> QED
      BY <2>2, <3>3 DEF Shrunk
  <2>3. ASSUME NEW i \in Position', NEW j \in Position', NEW e \in NumberPipes(i)',
               NEW u \in UserPipes(j)'
        PROVE  u.out_fd # e.out_fd
    <3>1. PICK e0 \in NumberPipes(h[i]) : e.out_fd = e0.out_fd
      BY <1>3
    <3>2. PICK u0 \in UserPipes(h[j]) : u.out_fd = u0.out_fd
      BY <1>4
    <3> QED
      BY <1>2, <3>1, <3>2 DEF Inv, PipesDiffer
  <2> QED
    BY <2>1, <2>2, <2>3 DEF PipesDiffer
<1>6. PipesWhole'
  <2>1. \A f \in Fd : fdt'[f][1] \in {"r", "w"} => fdt'[f][2] \in 1 .. Len(made')
    BY <1>1 DEF Inv, PipesWhole
  <2>2. ASSUME NEW i \in Position', NEW e \in NumberPipes(i)'
        PROVE  fdt'[e.out_fd][1] = "r" /\ fdt'[e.in_fd] = <<"w", fdt'[e.out_fd][2]>>
    <3>1. PICK d \in NumberPipes(h[i]) :
             e.in_fd = d.in_fd /\ e.out_fd = d.out_fd /\ d.in_fd \notin C /\ d.out_fd \notin C
      BY <1>3
    <3>2. d.in_fd \in Fd /\ d.out_fd \in Fd
      BY <1>2, <3>1, Facts DEF PipeFd
    <3>3. fdt[d.out_fd][1] = "r" /\ fdt[d.in_fd] = <<"w", fdt[d.out_fd][2]>>
      BY <1>2, <3>1 DEF Inv, PipesWhole
    <3> QED
      BY <1>1, <3>1, <3>2, <3>3
  <2>3. ASSUME NEW i \in Position', NEW v \in UserPipes(i)'
        PROVE  fdt'[v.out_fd][1] = "r" /\ (~v.is_used => fdt'[v.in_fd] = <<"w", fdt'[v.out_fd][2]>>)
    <3>1. PICK u \in UserPipes(h[i]) :
             /\ v.in_fd = u.in_fd /\ v.out_fd = u.out_fd
             /\ u.out_fd \notin C /\ (~v.is_used => ~u.is_used /\ u.in_fd \notin C)
      BY <1>4
    <3>2. u.in_fd \in Fd /\ u.out_fd \in Fd
      BY <1>2, <3>1, Facts DEF UserPipeFd
    <3>3. fdt[u.out_fd][1] = "r" /\ (~u.is_used => fdt[u.in_fd] = <<"w", fdt[u.out_fd][2]>>)
      BY <1>2, <3>1 DEF Inv, PipesWhole
    <3> QED
      BY <1>1, <3>1, <3>2, <3>3
  <2> QED
    BY <2>1, <2>2, <2>3 DEF PipesWhole
<1> QED
  BY <1>5, <1>6

(* Closing pipes leaves the sockets alone.                                 *)
LEMMA SocketsKept ==
    ASSUME Inv, NEW C, \A g \in C \cap Fd : fdt[g][1] \in {"r", "w"},
           fdt' = CloseAll(fdt, C), UNCHANGED <<afds, peer>>
    PROVE  Sockets'
<1>1. \A g \in Fd : fdt'[g] = IF g \in C THEN Closed ELSE fdt[g]
  BY Closing
<1>2. \A f, g \in Fd : fdt'[f] = fdt'[g] => f = g \/ fdt'[f] = Closed
  BY <1>1 DEF Inv, Sockets
<1>3. \A g \in Fd : \A c \in Conn : fdt'[g] = <<"sock", c>> <=> fdt[g] = <<"sock", c>>
  BY <1>1 DEF Closed
<1>4. afds \subseteq Fd
  BY DEF Inv, TypeOK
<1> QED
  BY <1>2, <1>3, <1>4 DEF Inv, Sockets, Closed

(* The socket of a client who is gone is closed and not monitored any more.*)
LEMMA SocketClosed ==
    ASSUME Inv, NEW P, \A g \in P \cap Fd : fdt[g][1] \in {"r", "w"},
           NEW f \in afds, NEW c \in Conn, fdt[f] = <<"sock", c>>,
           fdt' = CloseAll(fdt, P \cup {f}), afds' = afds \ {f},
           peer'[c] \notin {"here", "hungup"}, \A d \in Conn : d # c => peer'[d] = peer[d]
    PROVE  Sockets'
<1>1. \A g \in Fd : fdt'[g] = IF g \in P \cup {f} THEN Closed ELSE fdt[g]
  BY Closing
<1>2. ASSUME NEW g \in Fd, NEW k \in Fd, fdt'[g] = fdt'[k], fdt'[g] # Closed
      PROVE  g = k
  <2>1. fdt[g] = fdt[k] /\ fdt[g] # Closed
    BY <1>1, <1>2
  <2> QED
    BY <2>1 DEF Inv, Sockets
<1>3. \A g \in Fd : \A d \in Conn : fdt'[g] = <<"sock", d>> <=> g # f /\ fdt[g] = <<"sock", d>>
  BY <1>1 DEF Closed
<1>4. afds \subseteq Fd /\ f \in Fd
  BY DEF Inv, TypeOK
<1>5. \A g \in Fd : g # f => fdt[g] # <<"sock", c>>
  BY <1>4 DEF Inv, Sockets, Closed
<1>6. ASSUME NEW g \in Fd, NEW d \in Conn, fdt'[g] = <<"sock", d>>
      PROVE  IF g \in afds' THEN peer'[d] \in {"here", "hungup"} ELSE peer'[d] = "left"
  <2>1. g # f /\ fdt[g] = <<"sock", d>> /\ d # c
    BY <1>3, <1>5, <1>6
  <2> QED
    BY <2>1 DEF Inv, Sockets
<1>7. ASSUME NEW g \in afds' PROVE \E d \in Conn : fdt'[g] = <<"sock", d>>
  <2>1. g \in afds /\ g # f /\ g \in Fd
    BY <1>4
  <2>2. PICK d \in Conn : fdt[g] = <<"sock", d>>
    BY <2>1 DEF Inv, Sockets
  <2> QED
    BY <1>3, <2>1, <2>2
<1>8. ASSUME NEW d \in Conn, peer'[d] \in {"here", "hungup"}
      PROVE  \E g \in afds' : fdt'[g] = <<"sock", d>>
  <2>1. d # c /\ peer[d] \in {"here", "hungup"}
    BY <1>8
  <2>2. PICK g \in afds : fdt[g] = <<"sock", d>>
    BY <2>1 DEF Inv, Sockets
  <2>3. g # f
    BY <2>1, <2>2
  <2> QED
    BY <1>3, <1>4, <2>2, <2>3
<1> QED
  BY <1>2, <1>6, <1>7, <1>8 DEF Sockets, Closed

(* The pipes that are kept are meant for whom they were.                   *)
LEMMA MeantKept ==
    ASSUME Inv, Unique, Meant, NEW h, NEW C, Shrunk(h, C),
           \A k \in Position' : client_table[h[k]].fd \notin C,
           \A k \in Position' : \A v \in UserPipes(k)' :
              /\ v.is_used /\ pc' = "exec" => v.target_id = self'.id
              /\ \E j \in Position' : client_table'[j].id = v.target_id
    PROVE  Meant'
<1>1. /\ \A g \in Fd : fdt'[g] = IF g \in C THEN Closed ELSE fdt[g]
      /\ made' = made
  BY Closing DEF Shrunk
<1>2. \A k \in Position' :
         h[k] \in Position /\ client_table'[k].id = client_table[h[k]].id
           /\ client_table'[k].fd = client_table[h[k]].fd
  BY DEF Shrunk
<1>3. \A k \in Position' : User(client_table[k])' = User(client_table[h[k]])
  <2> SUFFICES ASSUME NEW k \in Position' PROVE User(client_table[k])' = User(client_table[h[k]])
    OBVIOUS
  <2>1. client_table[h[k]].fd \in Fd /\ client_table[h[k]].fd \notin C
    BY <1>2, Facts
  <2> QED
    BY <1>1, <1>2, <2>1 DEF User
<1>4. ASSUME NEW k \in Position', NEW e \in NumberPipes(k)'
      PROVE  made'[fdt'[e.out_fd][2]] = [from |-> User(client_table[k])', to |-> Nobody]
  <2>1. PICK d \in NumberPipes(h[k]) : e.out_fd = d.out_fd /\ d.out_fd \notin C
    BY DEF Shrunk
  <2>2. d.out_fd \in Fd
    BY <1>2, <2>1, Facts DEF PipeFd
  <2>3. made[fdt[d.out_fd][2]] = [from |-> User(client_table[h[k]]), to |-> Nobody]
    BY <1>2, <2>1 DEF Meant
  <2> QED
    BY <1>1, <1>3, <2>1, <2>2, <2>3
<1>5. ASSUME NEW k \in Position', NEW v \in UserPipes(k)'
      PROVE  /\ v.source_id = client_table'[k].id
             /\ \E j \in Position' :
                   /\ client_table'[j].id = v.target_id
                   /\ made'[fdt'[v.out_fd][2]] =
                         [from |-> User(client_table[k])', to |-> User(client_table[j])']
  <2>1. PICK u \in UserPipes(h[k]) :
           /\ v.out_fd = u.out_fd /\ v.source_id = u.source_id /\ v.target_id = u.target_id
           /\ u.out_fd \notin C
    BY DEF Shrunk
  <2>2. u.out_fd \in Fd
    BY <1>2, <2>1, Facts DEF UserPipeFd
  <2>3. u.source_id = client_table[h[k]].id
    BY <1>2, <2>1 DEF Meant
  <2>4. PICK i \in Position :
           /\ client_table[i].id = u.target_id
           /\ made[fdt[u.out_fd][2]] = [from |-> User(client_table[h[k]]), to |-> User(client_table[i])]
    BY <1>2, <2>1 DEF Meant
  <2>5. PICK j \in Position' : client_table'[j].id = v.target_id
    OBVIOUS
  <2>6. h[j] = i
    BY <1>2, <2>1, <2>4, <2>5 DEF Unique
  <2>7. made'[fdt'[v.out_fd][2]] = made[fdt[u.out_fd][2]]
    BY <1>1, <2>1, <2>2
  <2> QED
    BY <1>2, <1>3, <2>1, <2>3, <2>4, <2>5, <2>6, <2>7
<1> QED
  BY <1>4, <1>5 DEF Meant, Nobody

(* The two ends of the pipes in the tables.                                *)
LEMMA Ends ==
    ASSUME Inv
    PROVE  /\ \A i \in Position : \A e \in NumberPipes(i) :
                 /\ e.in_fd \in Fd /\ e.out_fd \in Fd
                 /\ fdt[e.out_fd][1] = "r" /\ fdt[e.in_fd][1] = "w"
                 /\ fdt[e.in_fd][2] = fdt[e.out_fd][2]
           /\ \A i \in Position : \A u \in UserPipes(i) :
                 /\ u.in_fd \in Fd /\ u.out_fd \in Fd
                 /\ fdt[u.out_fd][1] = "r"
                 /\ ~u.is_used => fdt[u.in_fd][1] = "w" /\ fdt[u.in_fd][2] = fdt[u.out_fd][2]
<1>1. ASSUME NEW i \in Position, NEW e \in NumberPipes(i)
      PROVE  /\ e.in_fd \in Fd /\ e.out_fd \in Fd
             /\ fdt[e.out_fd][1] = "r" /\ fdt[e.in_fd][1] = "w"
             /\ fdt[e.in_fd][2] = fdt[e.out_fd][2]
  <2>1. e.in_fd \in Fd /\ e.out_fd \in Fd
    BY Facts DEF PipeFd
  <2>2. fdt[e.out_fd][1] = "r" /\ fdt[e.in_fd] = <<"w", fdt[e.out_fd][2]>>
    BY DEF Inv, PipesWhole
  <2> QED
    BY <2>1, <2>2
<1>2. ASSUME NEW i \in Position, NEW u \in UserPipes(i)
      PROVE  /\ u.in_fd \in Fd /\ u.out_fd \in Fd
             /\ fdt[u.out_fd][1] = "r"
             /\ ~u.is_used => fdt[u.in_fd][1] = "w" /\ fdt[u.in_fd][2] = fdt[u.out_fd][2]
  <2>1. u.in_fd \in Fd /\ u.out_fd \in Fd
    BY Facts DEF UserPipeFd
  <2>2. fdt[u.out_fd][1] = "r" /\ (~u.is_used => fdt[u.in_fd] = <<"w", fdt[u.out_fd][2]>>)
    BY DEF Inv, PipesWhole
  <2>3. ~u.is_used => fdt[u.in_fd][1] = "w" /\ fdt[u.in_fd][2] = fdt[u.out_fd][2]
    BY <2>2
  <2> QED
    BY <2>1, <2>2, <2>3
<1> QED
  BY <1>1, <1>2

(* What is open afterwards is in a table: the ends of the pipes that are   *)
(* not kept are closed, or else their maker has left.                      *)
LEMMA OwnedKept ==
    ASSUME Inv, Owned, NEW h, NEW C, Shrunk(h, C),
           \A c \in Conn : peer[c] = "left" => peer'[c] = "left",
           \A i \in Position : \A e \in NumberPipes(i) :
              \/ peer'[made[fdt[e.out_fd][2]].from] = "left"
              \/ e.in_fd \in C /\ e.out_fd \in C
              \/ \E k \in Position' : \E d \in NumberPipes(k)' : d.in_fd = e.in_fd /\ d.out_fd = e.out_fd,
           \A i \in Position : \A u \in UserPipes(i) :
              \/ peer'[made[fdt[u.out_fd][2]].from] = "left"
              \/ u.out_fd \in C /\ (~u.is_used => u.in_fd \in C)
              \/ \E k \in Position' : \E v \in UserPipes(k)' :
                    v.out_fd = u.out_fd /\ (~u.is_used => u.in_fd \in C \/ (~v.is_used /\ v.in_fd = u.in_fd))
    PROVE  Owned'
<1>1. /\ \A g \in Fd : fdt'[g][1] # "closed" => g \notin C /\ fdt'[g] = fdt[g]
      /\ made' = made
  BY Closing DEF Shrunk
<1>2. ASSUME NEW f \in Fd, fdt'[f][1] = "r"
      PROVE  \/ peer'[made'[fdt'[f][2]].from] = "left"
             \/ \E k \in Position' : \E e \in NumberPipes(k)' : e.out_fd = f
             \/ \E k \in Position' : \E v \in UserPipes(k)' : v.out_fd = f
  <2>1. f \notin C /\ fdt'[f] = fdt[f] /\ fdt[f][1] = "r" /\ made[fdt[f][2]].from \in Conn
    BY <1>1, <1>2, Facts
  <2>2. CASE peer[made[fdt[f][2]].from] = "left"
    BY <1>1, <2>1, <2>2
  <2>3. ASSUME NEW i \in Position, NEW e \in NumberPipes(i), e.out_fd = f
        PROVE  \/ peer'[made[fdt[f][2]].from] = "left"
               \/ \E k \in Position' : \E d \in NumberPipes(k)' : d.out_fd = f
    BY <2>1, <2>3
  <2>4. ASSUME NEW i \in Position, NEW u \in UserPipes(i), u.out_fd = f
        PROVE  \/ peer'[made[fdt[f][2]].from] = "left"
               \/ \E k \in Position' : \E v \in UserPipes(k)' : v.out_fd = f
    BY <2>1, <2>4
  <2> QED
    BY <1>1, <2>1, <2>2, <2>3, <2>4 DEF Owned
<1>3. ASSUME NEW f \in Fd, fdt'[f][1] = "w"
      PROVE  \/ peer'[made'[fdt'[f][2]].from] = "left"
             \/ \E k \in Position' : \E e \in NumberPipes(k)' : e.in_fd = f
             \/ \E k \in Position' : \E v \in UserPipes(k)' : ~v.is_used /\ v.in_fd = f
  <2>1. f \notin C /\ fdt'[f] = fdt[f] /\ fdt[f][1] = "w" /\ made[fdt[f][2]].from \in Conn
    BY <1>1, <1>3, Facts
  <2>2. CASE peer[made[fdt[f][2]].from] = "left"
    BY <1>1, <2>1, <2>2
  <2>3. ASSUME NEW i \in Position, NEW e \in NumberPipes(i), e.in_fd = f
        PROVE  \/ peer'[made[fdt[f][2]].from] = "left"
               \/ \E k \in Position' : \E d \in NumberPipes(k)' : d.in_fd = f
    <3>1. fdt[f][2] = fdt[e.out_fd][2]
      BY <2>3, Ends
    <3> QED
      BY <2>1, <2>3, <3>1
  <2>4. ASSUME NEW i \in Position, NEW u \in UserPipes(i), ~u.is_used, u.in_fd = f
        PROVE  \/ peer'[made[fdt[f][2]].from] = "left"
               \/ \E k \in Position' : \E v \in UserPipes(k)' : ~v.is_used /\ v.in_fd = f
    <3>1. fdt[f][2] = fdt[u.out_fd][2]
      BY <2>4, Ends
    <3> QED
      BY <2>1, <2>4, <3>1
  <2> QED
    BY <1>1, <2>1, <2>2, <2>3, <2>4 DEF Owned
<1> QED
  BY <1>2, <1>3 DEF Owned

(* The descriptors of different pipes differ.                              *)
LEMMA EndsDiffer ==
    ASSUME Inv
    PROVE  /\ \A i, j \in Position : \A d \in NumberPipes(i), e \in NumberPipes(j) :
                 d.in_fd = e.in_fd => i = j /\ d = e
           /\ \A i, j \in Position : \A u \in UserPipes(i), v \in UserPipes(j) :
                 ~u.is_used /\ ~v.is_used /\ u.in_fd = v.in_fd => i = j /\ u = v
           /\ \A i, j \in Position : \A e \in NumberPipes(i), u \in UserPipes(j) :
                 ~u.is_used => u.in_fd # e.in_fd
           /\ \A i, j \in Position : \A d \in NumberPipes(i), e \in NumberPipes(j) : d.in_fd # e.out_fd
           /\ \A i, j \in Position : \A e \in NumberPipes(i), u \in UserPipes(j) :
                 e.in_fd # u.out_fd /\ (~u.is_used => u.in_fd # e.out_fd)
           /\ \A i, j \in Position : \A u \in UserPipes(i), v \in UserPipes(j) :
                 ~u.is_used => u.in_fd # v.out_fd
<1>1. \A f, g \in Fd : fdt[f][1] = "r" /\ fdt[g][1] = "r" /\ fdt[f][2] = fdt[g][2] => f = g
  <2> SUFFICES ASSUME NEW f \in Fd, NEW g \in Fd, fdt[f][1] = "r", fdt[g][1] = "r", fdt[f][2] = fdt[g][2]
               PROVE  f = g
    OBVIOUS
  <2>1. fdt[f] = fdt[g] /\ fdt[f] # Closed
    BY Facts DEF End, Closed
  <2> QED
    BY <2>1 DEF Inv, Sockets
<1>2. \A i \in Position : \A e \in NumberPipes(i) :
         e.out_fd \in Fd /\ fdt[e.out_fd][1] = "r" /\ fdt[e.in_fd][1] = "w"
           /\ fdt[e.in_fd][2] = fdt[e.out_fd][2]
  BY Ends
<1>3. \A i \in Position : \A u \in UserPipes(i) :
         u.out_fd \in Fd /\ fdt[u.out_fd][1] = "r"
           /\ (~u.is_used => fdt[u.in_fd][1] = "w" /\ fdt[u.in_fd][2] = fdt[u.out_fd][2])
  BY Ends
<1>4. PipesDiffer
  BY DEF Inv
<1>5. \A i, j \in Position : \A d \in NumberPipes(i), e \in NumberPipes(j) :
         d.in_fd = e.in_fd => i = j /\ d = e
  BY <1>1, <1>2, <1>4 DEF PipesDiffer
<1>6. \A i, j \in Position : \A u \in UserPipes(i), v \in UserPipes(j) :
         ~u.is_used /\ ~v.is_used /\ u.in_fd = v.in_fd => i = j /\ u = v
  BY <1>1, <1>3, <1>4 DEF PipesDiffer
<1>7. \A i, j \in Position : \A e \in NumberPipes(i), u \in UserPipes(j) :
         ~u.is_used => u.in_fd # e.in_fd
  BY <1>1, <1>2, <1>3, <1>4 DEF PipesDiffer
<1>8. \A i, j \in Position : \A d \in NumberPipes(i), e \in NumberPipes(j) : d.in_fd # e.out_fd
  BY <1>2
<1>9. \A i, j \in Position : \A e \in NumberPipes(i), u \in UserPipes(j) :
         e.in_fd # u.out_fd /\ (~u.is_used => u.in_fd # e.out_fd)
  BY <1>2, <1>3
<1>10. \A i, j \in Position : \A u \in UserPipes(i), v \in UserPipes(j) :
          ~u.is_used => u.in_fd # v.out_fd
  BY <1>3
<1> QED
  BY <1>5, <1>6, <1>7, <1>8, <1>9, <1>10

LEMMA UserPipeInStep ==
    ASSUME Inv, Agreed, UserPipeIn
    PROVE  Inv' /\ Agreed'
<1>1. /\ pc = "exec" /\ Head(cmds_).redir # <<>> /\ Head(Head(cmds_).redir).op = "from"
      /\ NextRedirection /\ taken' = taken \cup {Num}
      /\ UNCHANGED <<id_table, afds, rfds, std, pc, cli, out_fd, status, peer, inbox, broken, made, got>>
  BY DEF UserPipeIn, At, users, history
<1>2. PICK o \in Offered(Num) : GetUserPipeFd(o[1], o[2])
  BY DEF UserPipeIn
<1>3. PICK j \in GetClientByID(Num) : \E u \in UserPipes(j) : u.target_id = self.id /\ o = <<j, u>>
  BY <1>2 DEF Offered, UserPipes
<1>4. PICK u \in UserPipes(j) : u.target_id = self.id /\ o = <<j, u>>
  BY <1>3
<1>5. /\ cmds_' \in Seq(Command) /\ cmds_' # <<>>
      /\ \A k \in DOMAIN cmds_' : Plain(cmds_'[k].redir)
      /\ ~OnlyPipes(Head(cmds_).redir) /\ Num \in Id
      /\ OnlyPipes(Head(cmds_').redir)
  BY <1>1, Onward
<1>6. taken = {} /\ \A i \in Position : \A v \in UserPipes(i) : ~v.is_used
  <2>1. taken = {}
    BY <1>1, <1>5 DEF Inv, Reading
  <2> QED
    BY <2>1, Untaken
<1>7. /\ j \in Position /\ client_table \in Seq(Client) /\ client_table[j] \in Client
      /\ cli \in Position /\ self = client_table[cli]
  BY <1>1, Facts, Served DEF GetClientByID, Lowest, Position, self, Inv, TypeOK
<1> DEFINE x == [u EXCEPT !.is_used = TRUE]
           c == [client_table[j] EXCEPT !.userpipe_vector_ = (@ \ {u}) \cup {x}]
           C == {u.in_fd}
           h == [k \in Position |-> k]
<1>8. /\ u \in UserPipeFd /\ x \in UserPipeFd /\ ~u.is_used /\ x.is_used
      /\ x.in_fd = u.in_fd /\ x.out_fd = u.out_fd
      /\ x.source_id = u.source_id /\ x.target_id = u.target_id
  BY <1>6, <1>7, Facts DEF UserPipeFd
<1>9. /\ fdt' = CloseAll(fdt, C) /\ in_fd' = {u.out_fd}
      /\ client_table' = [client_table EXCEPT ![j].userpipe_vector_ = (@ \ {u}) \cup {x}]
  BY <1>2, <1>4 DEF GetUserPipeFd
<1> HIDE DEF x, C
<1>10. /\ c \in Client /\ c.id = client_table[j].id /\ c.fd = client_table[j].fd
       /\ c.pipe_vector_ = NumberPipes(j) /\ c.userpipe_vector_ = (UserPipes(j) \ {u}) \cup {x}
  BY <1>7, <1>8 DEF Client, NumberPipes, UserPipes
<1>11. client_table' = [client_table EXCEPT ![j] = c]
  BY <1>7, <1>9
<1> HIDE DEF c
<1>12. /\ client_table' \in Seq(Client) /\ Position' = Position /\ Len(client_table') = Len(client_table)
       /\ \A i \in Position : client_table'[i] = IF i = j THEN c ELSE client_table[i]
  BY <1>7, <1>10, <1>11 DEF Position
<1>13. /\ \A i \in Position : client_table'[i].id = client_table[i].id
       /\ \A i \in Position : client_table'[i].fd = client_table[i].fd
       /\ \A i \in Position : NumberPipes(i)' = NumberPipes(i)
       /\ \A i \in Position : i # j => UserPipes(i)' = UserPipes(i)
       /\ UserPipes(j)' = (UserPipes(j) \ {u}) \cup {x}
  BY <1>7, <1>10, <1>12 DEF NumberPipes, UserPipes
<1>14. \A i \in Position : \A v \in UserPipes(i)' :
          \/ v \in UserPipes(i) /\ ~v.is_used /\ v # u
          \/ i = j /\ v = x
  <2>1. \A i \in Position : u \in UserPipes(i) => i = j
    BY <1>7 DEF Inv, PipesDiffer
  <2> QED
    BY <1>6, <1>13, <2>1
<1>15. Shrunk(h, C)
  <2>1. h \in [Position' -> Position] /\ \A k \in Position' : h[k] = k
    BY <1>12
  <2> HIDE DEF h
  <2>2. ASSUME NEW k \in Position', NEW e \in NumberPipes(k)'
        PROVE  \E d \in NumberPipes(h[k]) :
                  e.in_fd = d.in_fd /\ e.out_fd = d.out_fd /\ d.in_fd \notin C /\ d.out_fd \notin C
    <3>1. k \in Position /\ e \in NumberPipes(k) /\ h[k] = k
      BY <1>12, <1>13, <2>1, <2>2
    <3>2. e.in_fd # u.in_fd /\ e.out_fd # u.in_fd
      BY <1>7, <1>8, <3>1, EndsDiffer
    <3> QED
      BY <3>1, <3>2 DEF C
  <2>3. ASSUME NEW k \in Position', NEW d \in NumberPipes(k)', NEW e \in NumberPipes(k)', d.out_fd = e.out_fd
        PROVE  d = e
    BY <1>12, <1>13, <2>3 DEF Inv, PipesDiffer
  <2>4. ASSUME NEW k \in Position', NEW v \in UserPipes(k)'
        PROVE  \E t \in UserPipes(h[k]) :
                  /\ v.in_fd = t.in_fd /\ v.out_fd = t.out_fd
                  /\ v.source_id = t.source_id /\ v.target_id = t.target_id
                  /\ t.out_fd \notin C /\ (~v.is_used => ~t.is_used /\ t.in_fd \notin C)
    <3>1. CASE v \in UserPipes(k) /\ ~v.is_used /\ v # u
      <4>1. v.in_fd # u.in_fd /\ v.out_fd # u.in_fd
        BY <1>7, <1>8, <1>12, <2>4, <3>1, EndsDiffer
      <4> QED
        BY <2>1, <3>1, <4>1 DEF C
    <3>2. CASE k = j /\ v = x
      <4>1. u.out_fd # u.in_fd
        BY <1>7, <1>8, EndsDiffer
      <4> QED
        BY <1>8, <2>1, <3>2, <4>1 DEF C
    <3> QED
      BY <1>12, <1>14, <2>4, <3>1, <3>2
  <2>5. ASSUME NEW k \in Position', NEW t \in UserPipes(k)', NEW v \in UserPipes(k)', t.out_fd = v.out_fd
        PROVE  t = v
    <3>1. k \in Position
      BY <1>12
    <3>2. (t \in UserPipes(k) /\ t # u) \/ (k = j /\ t = x)
      BY <1>14, <3>1, <2>5
    <3>3. (v \in UserPipes(k) /\ v # u) \/ (k = j /\ v = x)
      BY <1>14, <3>1, <2>5
    <3> QED
      BY <1>8, <2>5, <3>1, <3>2, <3>3 DEF Inv, PipesDiffer
  <2> QED
    BY <1>1, <1>9, <1>12, <1>13, <2>1, <2>2, <2>3, <2>4, <2>5 DEF Shrunk
<1>16. PipesWhole' /\ PipesDiffer'
  BY <1>15, Shrinking
<1>17. /\ fdt' \in [Fd -> End]
       /\ \A g \in Fd : fdt'[g] = IF g \in C THEN Closed ELSE fdt[g]
  BY <1>9, Closing
<1>18. \A g \in C \cap Fd : fdt[g][1] \in {"r", "w"}
  BY <1>7, <1>8, Ends DEF C
<1>19. Sockets'
  BY <1>1, <1>9, <1>18, SocketsKept
<1>20. TypeOK'
  <2>1. taken' \subseteq Id /\ in_fd' \subseteq Fd /\ cli' \in 0 .. Len(client_table')
    BY <1>1, <1>5, <1>8, <1>9, <1>12 DEF Inv, TypeOK, UserPipeFd
  <2> QED
    BY <1>1, <1>5, <1>12, <1>17, <2>1 DEF Inv, TypeOK
<1>21. \A i \in Position : client_table[i].fd \in Fd
  BY Facts
<1>22. Serving'
  <2>1. self.fd \in afds /\ self.fd \notin C /\ self.fd \in Fd
    BY <1>1, <1>7, <1>18, <1>21, Served
  <2>2. self'.fd = self.fd
    BY <1>1, <1>7, <1>13 DEF self
  <2>3. fdt'[self'.fd] = <<"sock", std'>> /\ std \in Conn /\ self.fd \notin rfds
    BY <1>1, <1>17, <2>1, <2>2, Served
  <2> QED
    BY <1>1, <1>7, <1>12, <2>1, <2>2, <2>3 DEF Inv, Serving, Nobody
<1>23. Reading'
  <2>1. \A id : GetClientByID(id)' = GetClientByID(id)
    BY <1>12, <1>13, SameClients
  <2>2. \A i \in Position : \A v \in UserPipes(i)' : v.is_used =>
           \E id \in taken' : i \in GetClientByID(id)'
    BY <1>1, <1>14, <2>1
  <2>3. x \in UserPipes(j)' /\ x.out_fd = u.out_fd
    BY <1>8, <1>13
  <2>4. \A f \in in_fd' : \E i \in Position : \E v \in UserPipes(i)' : v.is_used /\ v.out_fd = f
    BY <1>7, <1>8, <1>9, <2>3
  <2> QED
    BY <1>1, <1>5, <1>12, <2>2, <2>4 DEF Reading
<1>24. ASSUME NobodyLost' PROVE Unique' /\ Meant' /\ Owned' /\ ReachesAddressee'
  <2>1. NobodyLost
    BY <1>1, <1>24 DEF NobodyLost
  <2>2. Unique /\ Meant /\ Owned /\ ReachesAddressee
    BY <2>1 DEF Agreed
  <2>3. Unique'
    BY <1>1, <1>12, <1>13, <2>2 DEF Unique
  <2>4. Meant'
    <3>1. \A k \in Position' : client_table[h[k]].fd \notin C
      <4> SUFFICES ASSUME NEW k \in Position PROVE client_table[k].fd \notin C
        BY <1>12
      <4>1. client_table[k].fd \in afds
        BY <2>2 DEF Unique
      <4>2. PICK d \in Conn : fdt[client_table[k].fd] = <<"sock", d>>
        BY <4>1 DEF Inv, Sockets
      <4> QED
        BY <1>18, <1>21, <4>2
    <3>2. ASSUME NEW k \in Position', NEW v \in UserPipes(k)'
          PROVE  /\ v.is_used /\ pc' = "exec" => v.target_id = self'.id
                 /\ \E i \in Position' : client_table'[i].id = v.target_id
      <4>1. self'.id = self.id
        BY <1>1, <1>7, <1>13 DEF self
      <4>2. CASE v \in UserPipes(k) /\ ~v.is_used
        <5>1. PICK i \in Position : client_table[i].id = v.target_id
          BY <1>12, <2>2, <4>2 DEF Meant
        <5>2. i \in Position' /\ client_table'[i].id = v.target_id
          BY <1>12, <1>13, <5>1
        <5> QED
          BY <4>2, <5>2
      <4>3. CASE v = x
        <5>1. v.target_id = self.id /\ cli \in Position' /\ client_table'[cli].id = self.id
          BY <1>4, <1>7, <1>8, <1>12, <1>13, <4>3
        <5> QED
          BY <4>1, <5>1
      <4> QED
        BY <1>12, <1>14, <3>2, <4>2, <4>3
    <3> QED
      BY <1>15, <2>2, <3>1, <3>2, MeantKept
  <2>5. Owned'
    <3>1. \A i \in Position : \A e \in NumberPipes(i) :
             \E k \in Position' : \E d \in NumberPipes(k)' : d.in_fd = e.in_fd /\ d.out_fd = e.out_fd
      BY <1>12, <1>13
    <3>2. ASSUME NEW i \in Position, NEW v \in UserPipes(i)
          PROVE  \E k \in Position' : \E t \in UserPipes(k)' :
                    t.out_fd = v.out_fd /\ (~v.is_used => v.in_fd \in C \/ (~t.is_used /\ t.in_fd = v.in_fd))
      <4>1. CASE v # u
        BY <1>12, <1>13, <4>1, <1>6
      <4>2. CASE v = u
        <5>1. x \in UserPipes(j)' /\ u.in_fd \in C
          BY <1>13 DEF C
        <5> QED
          BY <1>7, <1>8, <1>12, <4>2, <5>1
      <4> QED
        BY <4>1, <4>2
    <3> QED
      BY <1>1, <1>15, <2>2, <3>1, <3>2, OwnedKept
  <2>6. ReachesAddressee'
    BY <1>1, <2>2 DEF ReachesAddressee, Nobody, NobodyLost
  <2> QED
    BY <2>3, <2>4, <2>5, <2>6
<1> QED
  BY <1>16, <1>19, <1>20, <1>22, <1>23, <1>24 DEF Inv, Agreed
-----------------------------------------------------------------------------
(* A command is run.                                                       *)

(* What is closed are the ends of the due pipe and the read ends of the    *)
(* user pipes that were taken.                                             *)
LEMMA RunClosed ==
    ASSUME Inv, pc = "exec"
    PROVE  /\ \A e \in Due(self) : e \in NumberPipes(cli) /\ e.in_fd \in RunCloses /\ e.out_fd \in RunCloses
           /\ \A i \in Position : \A u \in UserPipes(i) : u.is_used => i \in Cleared /\ u.out_fd \in RunCloses
           /\ Cleared \subseteq Position /\ cli \in Position
           /\ \A g \in RunCloses :
                 \/ \E e \in Due(self) : g = e.in_fd \/ g = e.out_fd
                 \/ \E i \in Position : \E u \in UserPipes(i) : u.is_used /\ g = u.out_fd
           /\ \A g \in Input :
                 \/ \E e \in Due(self) : g = e.out_fd
                 \/ \E i \in Position : \E u \in UserPipes(i) : u.is_used /\ g = u.out_fd
<1>1. cli \in Position /\ self = client_table[cli]
  BY Served DEF self
<1>2. Cleared \subseteq Position
  BY <1>1 DEF Cleared, GetClientByID, Lowest, Position
<1> DEFINE A == UNION {{e.in_fd, e.out_fd} : e \in Due(self)}
           B == UNION {{u.out_fd : u \in Used(i)} : i \in Cleared}
<1>7. \A g : g \in A <=> \E e \in Due(self) : g = e.in_fd \/ g = e.out_fd
  OBVIOUS
<1>8. \A g : g \in B <=> \E i \in Cleared : \E u \in Used(i) : g = u.out_fd
  OBVIOUS
<1>9. RunCloses = A \cup (IF Due(self) # {} \/ taken # {} THEN Input ELSE {}) \cup B
  BY DEF RunCloses
<1> HIDE DEF A, B
<1>3. \A e \in Due(self) : e \in NumberPipes(cli) /\ e.in_fd \in RunCloses /\ e.out_fd \in RunCloses
  <2>1. \A e \in Due(self) : e \in NumberPipes(cli)
    BY <1>1 DEF Due, NumberPipes
  <2> QED
    BY <1>7, <1>9, <2>1
<1>4. ASSUME NEW i \in Position, NEW u \in UserPipes(i), u.is_used
      PROVE  i \in Cleared /\ u.out_fd \in RunCloses
  <2>1. PICK id \in taken : i \in GetClientByID(id)
    BY <1>4 DEF Inv, Reading
  <2>2. i \in Cleared
    BY <2>1 DEF Cleared
  <2>3. u \in Used(i)
    BY <1>4 DEF Used, UserPipes
  <2> QED
    BY <1>8, <1>9, <2>2, <2>3
<1>5. ASSUME NEW g \in Input
      PROVE  \/ \E e \in Due(self) : g = e.out_fd
             \/ \E i \in Position : \E u \in UserPipes(i) : u.is_used /\ g = u.out_fd
  <2>1. g \in in_fd => \E i \in Position : \E u \in UserPipes(i) : u.is_used /\ g = u.out_fd
    BY DEF Inv, Reading
  <2> QED
    BY <2>1 DEF Input
<1>6. ASSUME NEW g \in RunCloses
      PROVE  \/ \E e \in Due(self) : g = e.in_fd \/ g = e.out_fd
             \/ \E i \in Position : \E u \in UserPipes(i) : u.is_used /\ g = u.out_fd
  <2>1. \/ \E e \in Due(self) : g = e.in_fd \/ g = e.out_fd
        \/ g \in Input
        \/ \E i \in Cleared : \E u \in Used(i) : g = u.out_fd
    BY <1>7, <1>8, <1>9
  <2>2. ASSUME NEW i \in Cleared, NEW u \in Used(i), g = u.out_fd
        PROVE  i \in Position /\ u \in UserPipes(i) /\ u.is_used
    BY <1>2 DEF Used, UserPipes
  <2> QED
    BY <1>5, <2>1, <2>2
<1> QED
  BY <1>1, <1>2, <1>3, <1>4, <1>5, <1>6

(* The tables afterwards.                                                  *)
LEMMA RunTables ==
    ASSUME Inv, Run
    PROVE  /\ client_table' \in Seq(Client) /\ Position' = Position
           /\ Len(client_table') = Len(client_table)
           /\ \A i \in Position : client_table'[i].id = client_table[i].id
           /\ \A i \in Position : client_table'[i].fd = client_table[i].fd
           /\ \A i \in Position :
                 NumberPipes(i)' = IF i = cli THEN Counted(NumberPipes(i)) ELSE NumberPipes(i)
           /\ \A i \in Position : UserPipes(i)' = {u \in UserPipes(i) : ~u.is_used}
<1>1. /\ pc = "exec"
      /\ client_table' = [i \in DOMAIN client_table |->
          [client_table[i] EXCEPT !.pipe_vector_ = IF i = cli THEN Counted(@) ELSE @,
                                  !.userpipe_vector_ = IF i \in Cleared THEN @ \ Used(i) ELSE @]]
  BY DEF Run
<1>2. /\ client_table \in Seq(Client) /\ cli \in Position
      /\ Len(client_table) \in Nat /\ Position = 1 .. Len(client_table)
      /\ Position = DOMAIN client_table
  BY <1>1, Facts, Served DEF Inv, TypeOK, Position
<1>3. ASSUME NEW i \in Position
      PROVE  /\ client_table'[i] \in Client
             /\ client_table'[i].id = client_table[i].id
             /\ client_table'[i].fd = client_table[i].fd
             /\ client_table'[i].pipe_vector_ = IF i = cli THEN Counted(NumberPipes(i)) ELSE NumberPipes(i)
             /\ client_table'[i].userpipe_vector_ = {u \in UserPipes(i) : ~u.is_used}
  <2> DEFINE P == IF i = cli THEN Counted(NumberPipes(i)) ELSE NumberPipes(i)
             U == IF i \in Cleared THEN UserPipes(i) \ Used(i) ELSE UserPipes(i)
  <2>1. client_table[i] \in Client /\ NumberPipes(i) \in SUBSET PipeFd /\ UserPipes(i) \in SUBSET UserPipeFd
    BY Facts
  <2>2. client_table'[i] = [client_table[i] EXCEPT !.pipe_vector_ = P, !.userpipe_vector_ = U]
    BY <1>1, <1>2, <2>1 DEF NumberPipes, UserPipes, Client
  <2>3. P \in SUBSET PipeFd
    <3>1. ASSUME NEW d \in PipeFd PROVE [d EXCEPT !.count = @ - 1] \in PipeFd
      BY DEF PipeFd
    <3> QED
      BY <2>1, <3>1 DEF Counted
  <2>4. U = {u \in UserPipes(i) : ~u.is_used}
    <3>1. \A u \in UserPipes(i) : u.is_used => i \in Cleared
      BY <1>1, RunClosed
    <3>2. Used(i) = {u \in UserPipes(i) : u.is_used}
      BY DEF Used, UserPipes
    <3> QED
      BY <3>1, <3>2
  <2> HIDE DEF P, U
  <2>5. U \in SUBSET UserPipeFd
    BY <2>1, <2>4
  <2>6. /\ client_table'[i] \in Client
        /\ client_table'[i].id = client_table[i].id
        /\ client_table'[i].fd = client_table[i].fd
        /\ client_table'[i].pipe_vector_ = P /\ client_table'[i].userpipe_vector_ = U
    BY <2>1, <2>2, <2>3, <2>5 DEF Client
  <2> QED
    BY <2>4, <2>6 DEF P
<1>4. DOMAIN client_table' = 1 .. Len(client_table)
  BY <1>1, <1>2
<1>5. client_table' \in Seq(Client) /\ Len(client_table') = Len(client_table)
  <2>1. client_table' = [i \in 1 .. Len(client_table) |-> client_table'[i]]
    BY <1>1, <1>2
  <2>2. client_table' \in [1 .. Len(client_table) -> Client]
    BY <1>2, <1>3, <2>1
  <2> QED
    BY <1>2, <2>2
<1>6. Position' = Position
  BY <1>2, <1>4 DEF Position
<1>7. \A i \in Position : client_table'[i].id = client_table[i].id
  BY <1>3
<1>8. \A i \in Position : client_table'[i].fd = client_table[i].fd
  BY <1>3
<1>9. \A i \in Position : NumberPipes(i)' = IF i = cli THEN Counted(NumberPipes(i)) ELSE NumberPipes(i)
  BY <1>3 DEF NumberPipes
<1>10. \A i \in Position : UserPipes(i)' = {u \in UserPipes(i) : ~u.is_used}
  BY <1>3 DEF UserPipes
<1> QED
  BY <1>5, <1>6, <1>7, <1>8, <1>9, <1>10

(* Only what is used up is closed.                                         *)
LEMMA RunShrinks ==
    ASSUME Inv, Run
    PROVE  Shrunk([i \in Position |-> i], RunCloses)
<1> DEFINE h == [i \in Position |-> i]
<1>1. pc = "exec" /\ fdt' = CloseAll(fdt, RunCloses) /\ made' = made
  BY DEF Run
<1>2. /\ Position' = Position
      /\ \A i \in Position : client_table'[i].id = client_table[i].id
      /\ \A i \in Position : client_table'[i].fd = client_table[i].fd
      /\ \A i \in Position :
            NumberPipes(i)' = IF i = cli THEN Counted(NumberPipes(i)) ELSE NumberPipes(i)
      /\ \A i \in Position : UserPipes(i)' = {u \in UserPipes(i) : ~u.is_used}
  BY RunTables
<1>3. h \in [Position' -> Position] /\ \A i \in Position : h[i] = i
  BY <1>2
<1> HIDE DEF h
<1>4. \A d \in Due(self) : d \in NumberPipes(cli) /\ d.count = 0 /\ cli \in Position
  BY <1>1, RunClosed DEF Due
<1>5. ASSUME NEW i \in Position, NEW e \in NumberPipes(i), i = cli => e.count # 0
      PROVE  e.in_fd \notin RunCloses /\ e.out_fd \notin RunCloses
  <2>1. ASSUME NEW d \in Due(self), e.in_fd = d.in_fd \/ e.out_fd = d.out_fd PROVE FALSE
    <3>1. i = cli /\ e = d
      BY <1>4, <2>1, EndsDiffer DEF Inv, PipesDiffer
    <3> QED
      BY <1>4, <1>5, <3>1
  <2>2. \A d \in Due(self) : e.in_fd # d.out_fd /\ e.out_fd # d.in_fd
    BY <1>4, EndsDiffer
  <2>3. \A j \in Position : \A u \in UserPipes(j) : e.in_fd # u.out_fd /\ e.out_fd # u.out_fd
    BY EndsDiffer DEF Inv, PipesDiffer
  <2> QED
    BY <1>1, <2>1, <2>2, <2>3, RunClosed
<1>6. ASSUME NEW i \in Position, NEW u \in UserPipes(i), ~u.is_used
      PROVE  u.in_fd \notin RunCloses /\ u.out_fd \notin RunCloses
  <2>1. \A d \in Due(self) : /\ u.in_fd # d.in_fd /\ u.in_fd # d.out_fd
                             /\ u.out_fd # d.in_fd /\ u.out_fd # d.out_fd
    BY <1>4, <1>6, EndsDiffer DEF Inv, PipesDiffer
  <2>2. \A j \in Position : \A v \in UserPipes(j) : v.is_used =>
           u.in_fd # v.out_fd /\ u.out_fd # v.out_fd
    BY <1>6, EndsDiffer DEF Inv, PipesDiffer
  <2> QED
    BY <1>1, <2>1, <2>2, RunClosed
<1>7. ASSUME NEW i \in Position, NEW e \in NumberPipes(i)'
      PROVE  \E d \in NumberPipes(i) :
                e.in_fd = d.in_fd /\ e.out_fd = d.out_fd /\ (i = cli => d.count # 0 /\ e = [d EXCEPT !.count = @ - 1])
  <2>1. CASE i # cli
    BY <1>2, <2>1
  <2>2. CASE i = cli
    <3>1. PICK d \in NumberPipes(i) : d.count # 0 /\ e = [d EXCEPT !.count = @ - 1]
      BY <1>2, <2>2 DEF Counted
    <3>2. d \in PipeFd
      BY Facts
    <3>3. e.in_fd = d.in_fd /\ e.out_fd = d.out_fd
      BY <3>1, <3>2 DEF PipeFd
    <3> QED
      BY <3>1, <3>3
  <2> QED
    BY <2>1, <2>2
<1>8. ASSUME NEW k \in Position', NEW e \in NumberPipes(k)'
      PROVE  \E d \in NumberPipes(h[k]) :
                /\ e.in_fd = d.in_fd /\ e.out_fd = d.out_fd
                /\ d.in_fd \notin RunCloses /\ d.out_fd \notin RunCloses
  <2>1. k \in Position /\ h[k] = k
    BY <1>2, <1>3
  <2>2. PICK d \in NumberPipes(k) :
           e.in_fd = d.in_fd /\ e.out_fd = d.out_fd /\ (k = cli => d.count # 0)
    BY <1>7, <2>1
  <2> QED
    BY <1>5, <2>1, <2>2
<1>9. ASSUME NEW k \in Position', NEW d \in NumberPipes(k)', NEW e \in NumberPipes(k)', d.out_fd = e.out_fd
      PROVE  d = e
  <2>1. PICK d0 \in NumberPipes(k) : d.out_fd = d0.out_fd /\ (k = cli => d = [d0 EXCEPT !.count = @ - 1])
    BY <1>2, <1>7
  <2>2. PICK e0 \in NumberPipes(k) : e.out_fd = e0.out_fd /\ (k = cli => e = [e0 EXCEPT !.count = @ - 1])
    BY <1>2, <1>7
  <2>3. CASE k = cli
    <3>2. k \in Position /\ d0.out_fd = e0.out_fd
      BY <1>2, <1>9, <2>1, <2>2
    <3>1. d0 = e0
      BY <3>2 DEF Inv, PipesDiffer
    <3> QED
      BY <2>1, <2>2, <2>3, <3>1
  <2>4. CASE k # cli
    BY <1>2, <1>9, <2>4 DEF Inv, PipesDiffer
  <2> QED
    BY <2>3, <2>4
<1>10. \A k \in Position' : \A v \in UserPipes(k)' : \E u \in UserPipes(h[k]) :
          /\ v.in_fd = u.in_fd /\ v.out_fd = u.out_fd
          /\ v.source_id = u.source_id /\ v.target_id = u.target_id
          /\ u.out_fd \notin RunCloses /\ (~v.is_used => ~u.is_used /\ u.in_fd \notin RunCloses)
  BY <1>2, <1>3, <1>6
<1>11. \A k \in Position' : \A u, v \in UserPipes(k)' : u.out_fd = v.out_fd => u = v
  BY <1>2 DEF Inv, PipesDiffer
<1>12. /\ \A j, k \in Position' : h[j] = h[k] => j = k
       /\ \A k \in Position' :
             client_table'[k].id = client_table[h[k]].id /\ client_table'[k].fd = client_table[h[k]].fd
  BY <1>2, <1>3
<1>13. Shrunk(h, RunCloses)
  BY <1>1, <1>3, <1>8, <1>9, <1>10, <1>11, <1>12 DEF Shrunk
<1> QED
  BY <1>13 DEF h

(* What a command prints goes to users who are there or have been, and     *)
(* what it reads was meant for the user who typed it.                      *)
LEMMA RunWrites ==
    ASSUME Inv, pc = "exec", NEW n
    PROVE  \A c \in Heard(n) \cup Printed : c \in Conn /\ peer[c] \in {"here", "hungup", "left"}
<1>1. User(self) \in Conn /\ peer[User(self)] \in {"here", "hungup"}
  BY Served
<1>2. \A f \in Fd : \A c \in Conn : fdt[f] = <<"sock", c>> => peer[c] \in {"here", "hungup", "left"}
  BY DEF Inv, Sockets
<1>3. afds \subseteq Fd
  BY DEF Inv, TypeOK
<1>4. \A c \in Audience : c \in Conn /\ peer[c] \in {"here", "hungup", "left"}
  BY <1>2, <1>3 DEF Audience
<1>5. ASSUME NEW id, NEW c \in Tell(id) PROVE c \in Conn /\ peer[c] \in {"here", "hungup", "left"}
  <2>1. CASE c = User(self)
    BY <1>1, <2>1
  <2>2. ASSUME c \in Conn, NEW j \in GetClientByID(id), fdt[client_table[j].fd] = <<"sock", c>>
        PROVE  peer[c] \in {"here", "hungup", "left"}
    <3>1. client_table[j].fd \in Fd
      BY Facts DEF GetClientByID, Lowest, Position
    <3> QED
      BY <1>2, <2>2, <3>1
  <2> QED
    BY <2>1, <2>2 DEF Tell
<1>6. \A c \in Printed : c = User(self) \/ \E id : c \in Tell(id)
  BY DEF Printed
<1> QED
  BY <1>1, <1>4, <1>5, <1>6 DEF Heard

LEMMA RunReads ==
    ASSUME Inv, pc = "exec"
    PROVE  \A f \in Input : /\ f \in Fd /\ fdt[f][2] \in 1 .. Len(made)
                            /\ Unique /\ Meant =>
                                  made[fdt[f][2]].to \in {Nobody, User(self)}
                                    /\ (made[fdt[f][2]].to = Nobody => made[fdt[f][2]].from = User(self))
<1> SUFFICES ASSUME NEW f \in Input
             PROVE  /\ f \in Fd /\ fdt[f][2] \in 1 .. Len(made)
                    /\ Unique /\ Meant =>
                          made[fdt[f][2]].to \in {Nobody, User(self)}
                            /\ (made[fdt[f][2]].to = Nobody => made[fdt[f][2]].from = User(self))
  OBVIOUS
<1>1. cli \in Position /\ self = client_table[cli] /\ User(self) \in Conn
  BY Served DEF self
<1>2. CASE \E e \in Due(self) : f = e.out_fd
  <2>1. PICK e \in NumberPipes(cli) : f = e.out_fd
    BY <1>2, RunClosed
  <2>2. f \in Fd /\ fdt[f][2] \in 1 .. Len(made)
    BY <1>1, <2>1, Ends, Facts
  <2>3. Meant => made[fdt[f][2]] = [from |-> User(self), to |-> Nobody]
    BY <1>1, <2>1 DEF Meant
  <2> QED
    BY <2>2, <2>3
<1>3. CASE \E i \in Position : \E u \in UserPipes(i) : u.is_used /\ f = u.out_fd
  <2>1. PICK i \in Position, u \in UserPipeFd : u \in UserPipes(i) /\ u.is_used /\ f = u.out_fd
    BY <1>3, Facts
  <2>2. f \in Fd /\ fdt[f][2] \in 1 .. Len(made)
    BY <2>1, Ends, Facts
  <2>3. ASSUME Unique, Meant
        PROVE  made[fdt[f][2]].to = User(self)
    <3>1. u.target_id = self.id
      BY <2>1, <2>3 DEF Meant
    <3>2. PICK j \in Position :
             /\ client_table[j].id = u.target_id
             /\ made[fdt[f][2]] = [from |-> User(client_table[i]), to |-> User(client_table[j])]
      BY <2>1, <2>3 DEF Meant
    <3>3. j = cli
      BY <1>1, <2>3, <3>1, <3>2 DEF Unique
    <3> QED
      BY <1>1, <3>2, <3>3
  <2>4. User(self) # Nobody
    BY <1>1, ConnAssumption DEF Nobody
  <2> QED
    BY <2>2, <2>3, <2>4
<1> QED
  BY <1>2, <1>3, RunClosed

LEMMA RunStep ==
    ASSUME Inv, Agreed, Run
    PROVE  Inv' /\ Agreed'
<1> DEFINE l == IF Tail(cmds_) = <<>> THEN "return" ELSE "exec"
           T == Heard(1) \cup Printed
           h == [i \in Position |-> i]
<1>1. /\ pc = "exec" /\ cmds_ # <<>> /\ cmds_' = Tail(cmds_)
      /\ status' \in {0, -1} /\ in_fd' = {} /\ out_fd' = {} /\ taken' = {}
      /\ fdt' = CloseAll(fdt, RunCloses)
      /\ Writes(T, Heard(2) \cup (Heard(1) \cap Printed), l)
      /\ UNCHANGED <<id_table, afds, rfds, std, cli, peer, inbox, made>>
  BY DEF Run
<1>2. /\ client_table' \in Seq(Client) /\ Position' = Position
      /\ Len(client_table') = Len(client_table)
      /\ \A i \in Position : client_table'[i].id = client_table[i].id
      /\ \A i \in Position : client_table'[i].fd = client_table[i].fd
      /\ \A i \in Position :
            NumberPipes(i)' = IF i = cli THEN Counted(NumberPipes(i)) ELSE NumberPipes(i)
      /\ \A i \in Position : UserPipes(i)' = {u \in UserPipes(i) : ~u.is_used}
  BY RunTables
<1>3. Shrunk(h, RunCloses) /\ \A i \in Position : h[i] = i
  BY RunShrinks
<1> HIDE DEF h
<1>4. /\ broken' \subseteq Conn /\ pc' \in {l, "dead"}
      /\ \A c \in broken' : peer'[c] \notin {"away", "calling", "quit", "here"}
  <2>1. \A c \in T : c \in Conn /\ peer[c] \in {"here", "hungup", "left"}
    BY <1>1, RunWrites
  <2> HIDE DEF T
  <2>2. T \in SUBSET Conn
    BY <2>1
  <2>3. \A c \in T : peer[c] # "away" /\ (peer[c] = "quit" => peer'[c] = "hungup")
    BY <2>1
  <2>4. \A c \in Conn : peer'[c] = peer[c]
    BY <1>1
  <2> HIDE DEF l
  <2> QED
    BY <1>1, <2>2, <2>3, <2>4, Written
<1>5. /\ fdt' \in [Fd -> End]
      /\ \A g \in Fd : fdt'[g] = IF g \in RunCloses THEN Closed ELSE fdt[g]
  BY <1>1, Closing
<1>6. PipesWhole' /\ PipesDiffer'
  BY <1>3, Shrinking
<1>7. ASSUME NEW g \in RunCloses PROVE g \in Fd /\ fdt[g][1] \in {"r", "w"}
  BY <1>1, RunClosed, Ends
<1>8. Sockets'
  BY <1>1, <1>7, SocketsKept
<1>9. got' \subseteq Conn \X (1 .. Len(made'))
  <2>1. got \subseteq Conn \X (1 .. Len(made)) /\ User(self) \in Conn
    BY <1>1, Served DEF Inv, TypeOK
  <2>2. \A f \in Input : <<User(self), fdt[f][2]>> \in Conn \X (1 .. Len(made))
    BY <1>1, <2>1, RunReads
  <2> QED
    BY <1>1, <2>1, <2>2 DEF Run
<1>10. cmds_ \in Seq(Command) /\ cmds_' \in Seq(Command)
  BY <1>1 DEF Inv, TypeOK
<1>11. TypeOK'
  <2>1. cli' \in 0 .. Len(client_table')
    BY <1>1, <1>2 DEF Inv, TypeOK
  <2> QED
    BY <1>1, <1>2, <1>4, <1>5, <1>9, <1>10, <2>1 DEF Inv, TypeOK
<1>12. /\ cli \in Position /\ self = client_table[cli] /\ self.fd \in afds /\ self.fd \notin rfds
       /\ std \in Conn /\ fdt[self.fd] = <<"sock", std>> /\ self.fd \in Fd
  BY <1>1, Served DEF self, Client
<1>13. self'.fd = self.fd /\ self'.id = self.id
  BY <1>1, <1>2, <1>12 DEF self
<1>14. Serving'
  <2>1. self.fd \notin RunCloses
    BY <1>7, <1>12
  <2>2. fdt'[self'.fd] = <<"sock", std'>>
    BY <1>1, <1>5, <1>12, <1>13, <2>1
  <2> QED
    BY <1>1, <1>2, <1>4, <1>12, <1>13, <2>2 DEF Inv, Serving, Nobody
<1>15. \A i \in Position' : \A u \in UserPipes(i)' : ~u.is_used
  BY <1>2
<1>16. Reading'
  <2>1. pc' = "exec" => cmds_' # <<>>
    BY <1>1, <1>4
  <2>2. \A k \in DOMAIN cmds_' : Plain(cmds_'[k].redir)
    <3>1. \A k \in DOMAIN cmds_' : k + 1 \in DOMAIN cmds_ /\ cmds_'[k] = cmds_[k + 1]
      BY <1>1, <1>10
    <3> QED
      BY <3>1 DEF Inv, Reading
  <2> QED
    BY <1>1, <1>15, <2>1, <2>2 DEF Reading
<1>17. ASSUME NobodyLost' PROVE Unique' /\ Meant' /\ Owned' /\ ReachesAddressee'
  <2>1. NobodyLost
    BY <1>1, <1>17 DEF NobodyLost
  <2>2. Unique /\ Meant /\ Owned /\ ReachesAddressee
    BY <2>1 DEF Agreed
  <2>3. Unique'
    BY <1>1, <1>2, <2>2 DEF Unique
  <2>4. Meant'
    <3>1. \A k \in Position' : client_table[h[k]].fd \notin RunCloses
      <4> SUFFICES ASSUME NEW k \in Position PROVE client_table[k].fd \notin RunCloses
        BY <1>2, <1>3
      <4>1. client_table[k].fd \in afds
        BY <2>2 DEF Unique
      <4>2. PICK d \in Conn : fdt[client_table[k].fd] = <<"sock", d>>
        BY <4>1 DEF Inv, Sockets
      <4> QED
        BY <1>7, <4>2
    <3>2. ASSUME NEW k \in Position', NEW v \in UserPipes(k)'
          PROVE  /\ v.is_used /\ pc' = "exec" => v.target_id = self'.id
                 /\ \E i \in Position' : client_table'[i].id = v.target_id
      <4>1. v \in UserPipes(k) /\ ~v.is_used /\ k \in Position
        BY <1>2
      <4>2. PICK i \in Position : client_table[i].id = v.target_id
        BY <2>2, <4>1 DEF Meant
      <4>3. i \in Position' /\ client_table'[i].id = v.target_id
        BY <1>2, <4>2
      <4> QED
        BY <4>1, <4>3
    <3> QED
      BY <1>3, <2>2, <3>1, <3>2, MeantKept
  <2>5. Owned'
    <3>1. ASSUME NEW i \in Position, NEW e \in NumberPipes(i)
          PROVE  \/ e.in_fd \in RunCloses /\ e.out_fd \in RunCloses
                 \/ \E k \in Position' : \E d \in NumberPipes(k)' : d.in_fd = e.in_fd /\ d.out_fd = e.out_fd
      <4>1. CASE i # cli
        BY <1>2, <4>1
      <4>2. CASE i = cli /\ e.count = 0
        <5>1. e \in Due(self)
          BY <1>12, <4>2 DEF Due, NumberPipes
        <5> QED
          BY <1>1, <5>1, RunClosed
      <4>3. CASE i = cli /\ e.count # 0
        <5> DEFINE d == [e EXCEPT !.count = @ - 1]
        <5>1. e \in PipeFd
          BY Facts
        <5>2. d.in_fd = e.in_fd /\ d.out_fd = e.out_fd
          BY <5>1 DEF PipeFd
        <5>3. d \in NumberPipes(i)'
          BY <1>2, <4>3 DEF Counted
        <5> HIDE DEF d
        <5> QED
          BY <1>2, <5>2, <5>3
      <4> QED
        BY <4>1, <4>2, <4>3
    <3>2. ASSUME NEW i \in Position, NEW u \in UserPipes(i)
          PROVE  \/ u.out_fd \in RunCloses /\ u.is_used
                 \/ \E k \in Position' : \E v \in UserPipes(k)' :
                       v.out_fd = u.out_fd /\ ~v.is_used /\ v.in_fd = u.in_fd
      <4>1. CASE u.is_used
        BY <1>1, <4>1, RunClosed
      <4>2. CASE ~u.is_used
        BY <1>2, <4>2
      <4> QED
        BY <4>1, <4>2
    <3> QED
      BY <1>1, <1>3, <2>2, <3>1, <3>2, OwnedKept
  <2>6. ReachesAddressee'
    <3>1. \A f \in Input :
             /\ fdt[f][2] \in 1 .. Len(made)
             /\ made[fdt[f][2]].to \in {Nobody, User(self)}
             /\ made[fdt[f][2]].to = Nobody => made[fdt[f][2]].from = User(self)
      BY <1>1, <2>2, RunReads
    <3>2. \A g \in got' : g \in got \/ \E f \in Input : g = <<User(self), fdt[f][2]>>
      BY DEF Run
    <3>3. \A g \in got : g[1] = IF made[g[2]].to = Nobody THEN made[g[2]].from ELSE made[g[2]].to
      BY <2>1, <2>2 DEF ReachesAddressee
    <3>4. \A g \in got' : g[1] = IF made[g[2]].to = Nobody THEN made[g[2]].from ELSE made[g[2]].to
      BY <3>1, <3>2, <3>3
    <3> QED
      BY <1>1, <3>4 DEF ReachesAddressee, Nobody
  <2> QED
    BY <2>3, <2>4, <2>5, <2>6
<1> QED
  BY <1>6, <1>8, <1>11, <1>14, <1>16, <1>17 DEF Inv, Agreed
-----------------------------------------------------------------------------
(* A client is erased.                                                     *)

LEMMA EraseClosed ==
    ASSUME Inv, pc \notin {"exec", "dead"}, NEW id
    PROVE  /\ \A i \in Position : \A u \in UserPipes(i) : u.target_id = id =>
                 u.in_fd \in EraseCloses(id) /\ u.out_fd \in EraseCloses(id)
           /\ \A g \in EraseCloses(id) :
                 /\ \E i \in Position : \E u \in UserPipes(i) :
                       u.target_id = id /\ (g = u.in_fd \/ g = u.out_fd)
                 /\ g \in Fd /\ fdt[g][1] \in {"r", "w"}
<1>1. \A u : u \in PipesTo(id) <=> \E i \in Position : u \in UserPipes(i) /\ u.target_id = id
  BY DEF PipesTo, UserPipes, Position
<1>2. \A g : g \in EraseCloses(id) <=> \E u \in PipesTo(id) : g = u.in_fd \/ g = u.out_fd
  BY DEF EraseCloses
<1>3. \A i \in Position : \A u \in UserPipes(i) : ~u.is_used
  BY Untaken
<1>4. \A i \in Position : \A u \in UserPipes(i) :
         u.in_fd \in Fd /\ u.out_fd \in Fd /\ fdt[u.out_fd][1] = "r" /\ fdt[u.in_fd][1] = "w"
  BY <1>3, Ends
<1>5. \A g \in EraseCloses(id) : \E i \in Position : \E u \in UserPipes(i) :
         u.target_id = id /\ (g = u.in_fd \/ g = u.out_fd)
  BY <1>1, <1>2
<1>6. \A i \in Position : \A u \in UserPipes(i) : u.target_id = id =>
         u.in_fd \in EraseCloses(id) /\ u.out_fd \in EraseCloses(id)
  BY <1>1, <1>2
<1> QED
  BY <1>4, <1>5, <1>6

(* The tables when the clients with an id are erased, the pipes to them    *)
(* closed, and a socket, f.                                                *)
Erased(h, id, f) ==
    /\ Shrunk(h, EraseCloses(id) \cup {f})
    /\ client_table' \in Seq(Client) /\ Len(client_table') \in Nat
    /\ \A i \in Position : client_table[i].id # id <=> \E k \in Position' : h[k] = i
    /\ \A k \in Position' :
          /\ NumberPipes(k)' = NumberPipes(h[k])
          /\ UserPipes(k)' = {u \in UserPipes(h[k]) : u.target_id # id}

LEMMA EraseTables ==
    ASSUME Inv, pc \notin {"exec", "dead"}, NEW id, EraseClientVector(id),
           NEW f \in Fd, fdt[f][1] = "sock",
           fdt' = CloseAll(fdt, EraseCloses(id) \cup {f}), made' = made
    PROVE  \E h : Erased(h, id, f)
<1> DEFINE C == EraseCloses(id) \cup {f}
<1>1. client_table \in Seq(Client) /\ Position = DOMAIN client_table /\ Position' = DOMAIN client_table'
  BY DEF Inv, TypeOK, Position
<1>2. PICK h \in [Position' -> Position] :
         /\ Len(client_table') \in Nat /\ Position' = 1 .. Len(client_table')
         /\ client_table' = [k \in Position' |-> WithoutPipesTo(id)[h[k]]]
         /\ \A j, k \in Position' : h[j] = h[k] => j = k
         /\ \A i \in Position : client_table[i].id # id <=> \E k \in Position' : h[k] = i
  BY <1>1, Erasing
<1>3. ASSUME NEW k \in Position'
      PROVE  /\ h[k] \in Position /\ client_table'[k] \in Client
             /\ client_table'[k].id = client_table[h[k]].id
             /\ client_table'[k].fd = client_table[h[k]].fd
             /\ NumberPipes(k)' = NumberPipes(h[k])
             /\ UserPipes(k)' = {u \in UserPipes(h[k]) : u.target_id # id}
  <2> DEFINE U == {u \in UserPipes(h[k]) : u.target_id # id}
  <2>1. h[k] \in Position
    BY <1>2
  <2>2. client_table[h[k]] \in Client /\ UserPipes(h[k]) \in SUBSET UserPipeFd
    BY <2>1, Facts
  <2>3. client_table'[k] = [client_table[h[k]] EXCEPT !.userpipe_vector_ = U]
    BY <1>1, <1>2, <2>1, <2>2 DEF WithoutPipesTo, UserPipes, Client
  <2>4. U \in SUBSET UserPipeFd
    BY <2>2
  <2> HIDE DEF U
  <2>5. /\ client_table'[k] \in Client
        /\ client_table'[k].id = client_table[h[k]].id
        /\ client_table'[k].fd = client_table[h[k]].fd
        /\ client_table'[k].pipe_vector_ = client_table[h[k]].pipe_vector_
        /\ client_table'[k].userpipe_vector_ = U
    BY <2>2, <2>3, <2>4 DEF Client
  <2> QED
    BY <2>1, <2>5 DEF NumberPipes, UserPipes, U
<1>4. client_table' \in Seq(Client)
  <2>1. client_table' \in [1 .. Len(client_table') -> Client]
    <3>1. client_table' = [k \in 1 .. Len(client_table') |-> client_table'[k]]
      BY <1>2
    <3> QED
      BY <1>2, <1>3, <3>1
  <2> QED
    BY <1>2, <2>1
<1>5. ASSUME NEW i \in Position, NEW e \in NumberPipes(i)
      PROVE  e.in_fd \notin C /\ e.out_fd \notin C
  <2>1. \A j \in Position : \A u \in UserPipes(j) :
           /\ e.in_fd # u.in_fd /\ e.in_fd # u.out_fd
           /\ e.out_fd # u.in_fd /\ e.out_fd # u.out_fd
    BY Untaken, EndsDiffer DEF Inv, PipesDiffer
  <2>2. e.in_fd # f /\ e.out_fd # f
    BY Ends
  <2> QED
    BY <2>1, <2>2, EraseClosed
<1>6. ASSUME NEW i \in Position, NEW v \in UserPipes(i), v.target_id # id
      PROVE  ~v.is_used /\ v.in_fd \notin C /\ v.out_fd \notin C
  <2>1. \A j \in Position : \A u \in UserPipes(j) : u # v =>
           /\ v.in_fd # u.in_fd /\ v.in_fd # u.out_fd
           /\ v.out_fd # u.in_fd /\ v.out_fd # u.out_fd
    BY Untaken, EndsDiffer DEF Inv, PipesDiffer
  <2>2. ~v.is_used /\ v.in_fd # f /\ v.out_fd # f
    BY Ends, Untaken
  <2> QED
    BY <1>6, <2>1, <2>2, EraseClosed
<1> HIDE DEF C
<1>7. Shrunk(h, C)
  <2>1. /\ fdt' = CloseAll(fdt, C) /\ made' = made
        /\ h \in [Position' -> Position]
        /\ \A j, k \in Position' : h[j] = h[k] => j = k
    BY <1>2 DEF C
  <2>2. \A k \in Position' :
          client_table'[k].id = client_table[h[k]].id /\ client_table'[k].fd = client_table[h[k]].fd
    BY <1>3
  <2>3. \A k \in Position' : \A e \in NumberPipes(k)' : \E d \in NumberPipes(h[k]) :
           e.in_fd = d.in_fd /\ e.out_fd = d.out_fd /\ d.in_fd \notin C /\ d.out_fd \notin C
    BY <1>3, <1>5
  <2>4. \A k \in Position' : \A d, e \in NumberPipes(k)' : d.out_fd = e.out_fd => d = e
    BY <1>3 DEF Inv, PipesDiffer
  <2>5. \A k \in Position' : \A v \in UserPipes(k)' : \E u \in UserPipes(h[k]) :
          /\ v.in_fd = u.in_fd /\ v.out_fd = u.out_fd
          /\ v.source_id = u.source_id /\ v.target_id = u.target_id
          /\ u.out_fd \notin C /\ (~v.is_used => ~u.is_used /\ u.in_fd \notin C)
    BY <1>3, <1>6
  <2>6. \A k \in Position' : \A u, v \in UserPipes(k)' : u.out_fd = v.out_fd => u = v
    BY <1>3 DEF Inv, PipesDiffer
  <2> QED
    BY <2>1, <2>2, <2>3, <2>4, <2>5, <2>6 DEF Shrunk
<1>8. Shrunk(h, EraseCloses(id) \cup {f})
  BY <1>7 DEF C
<1>9. Len(client_table') \in Nat /\ \A i \in Position : client_table[i].id # id <=> \E k \in Position' : h[k] = i
  BY <1>2
<1>10. \A k \in Position' :
          /\ NumberPipes(k)' = NumberPipes(h[k])
          /\ UserPipes(k)' = {u \in UserPipes(h[k]) : u.target_id # id}
  BY <1>3
<1> QED
  BY <1>4, <1>8, <1>9, <1>10 DEF Erased

LEMMA LogoutStep ==
    ASSUME Inv, Agreed, Logout
    PROVE  Inv' /\ Agreed'
<1>1. PICK f \in rfds, i \in Position, c \in Conn :
         /\ client_table[i].fd = f
         /\ fdt[f] = <<"sock", c>>
         /\ id_table' = [id_table EXCEPT ![client_table[i].id] = 0]
         /\ EraseClientVector(client_table[i].fd)
         /\ fdt' = CloseAll(fdt, EraseCloses(client_table[i].fd) \cup {f})
         /\ Unmonitor(f)
         /\ rfds' = rfds \ {f}
         /\ peer' = [peer EXCEPT ![c] = "lost"]
         /\ cli' = 0
  BY DEF Logout, Lowest, GetClientByFd, Position
<1>2. /\ pc = "scan" /\ Writes(Console \cup Audience, Console \cap Audience, "scan")
      /\ UNCHANGED <<std, cmds_, in_fd, out_fd, taken, status, inbox, made, got>>
  BY DEF Logout, history
<1> DEFINE id == client_table[i].fd
           P == EraseCloses(id)
<1>3. afds' = afds \ {f} /\ f \in afds /\ f \in Fd /\ fdt[f][1] = "sock"
  BY <1>1 DEF Unmonitor, Inv, TypeOK
<1>16. PICK h : Erased(h, id, f)
  <2>1. /\ EraseClientVector(id) /\ fdt' = CloseAll(fdt, EraseCloses(id) \cup {f}) /\ made' = made
        /\ pc \notin {"exec", "dead"} /\ f \in Fd /\ fdt[f][1] = "sock"
    BY <1>1, <1>2, <1>3
  <2> HIDE DEF id
  <2> QED
    BY <2>1, EraseTables
<1>4. /\ Shrunk(h, P \cup {f})
      /\ client_table' \in Seq(Client) /\ Len(client_table') \in Nat
      /\ \A k \in Position' :
            /\ NumberPipes(k)' = NumberPipes(h[k])
            /\ UserPipes(k)' = {u \in UserPipes(h[k]) : u.target_id # id}
  BY <1>16 DEF Erased
<1>5. PipesWhole' /\ PipesDiffer'
  BY <1>4, Shrinking
<1>6. \A g \in P \cap Fd : fdt[g][1] \in {"r", "w"}
  BY <1>2, EraseClosed
<1> HIDE DEF id, P
<1>7. fdt' = CloseAll(fdt, P \cup {f})
  BY <1>1 DEF P, id
<1>8. /\ peer'[c] = "lost" /\ \A d \in Conn : d # c => peer'[d] = peer[d]
      /\ peer' \in [Conn -> {"away", "calling", "quit", "here", "hungup", "left", "lost"}]
  BY <1>1 DEF Inv, TypeOK
<1>9. Sockets'
  <2>1. fdt[f] = <<"sock", c>> /\ peer'[c] \notin {"here", "hungup"}
    BY <1>1, <1>8
  <2> QED
    BY <1>3, <1>6, <1>7, <1>8, <2>1, SocketClosed
<1>10. /\ broken' \subseteq Conn /\ pc' \in {"scan", "dead"}
       /\ \A d \in broken' : peer'[d] \notin {"away", "calling", "quit", "here"}
  <2>1. \A d \in Audience : d \in Conn /\ peer[d] \in {"here", "hungup"}
    BY DEF Audience, Inv, TypeOK, Sockets
  <2>2. \A d \in Console : d \in Conn /\ peer[d] \in {"here", "hungup", "lost"}
    BY DEF Console, Inv, TypeOK, Serving
  <2>3. Console \cup Audience \in SUBSET Conn
    BY <2>1, <2>2
  <2>4. \A d \in Console \cup Audience : peer[d] # "away" /\ (peer[d] = "quit" => peer'[d] = "hungup")
    BY <2>1, <2>2
  <2>5. \A d \in Conn : peer'[d] \in {"away", "calling", "quit", "here"} => peer[d] = peer'[d]
    BY <1>8
  <2> QED
    BY <1>2, <2>3, <2>4, <2>5, Written
<1>11. fdt' \in [Fd -> End]
  BY <1>7, Closing
<1>12. TypeOK'
  <2>1. id_table' \in [Id -> {0, 1}]
    BY <1>1 DEF Inv, TypeOK
  <2>2. afds' \subseteq Fd /\ rfds' \subseteq afds' /\ cli' \in 0 .. Len(client_table')
    BY <1>1, <1>3, <1>4 DEF Inv, TypeOK
  <2> QED
    BY <1>2, <1>4, <1>8, <1>10, <1>11, <2>1, <2>2 DEF Inv, TypeOK
<1>13. Serving'
  BY <1>2, <1>8, <1>10 DEF Inv, TypeOK, Serving, Nobody
<1>14. Reading'
  <2>1. in_fd = {} /\ \A j \in Position : \A u \in UserPipes(j) : ~u.is_used
    BY <1>2, Untaken
  <2>2. \A k \in Position' : \A u \in UserPipes(k)' : ~u.is_used
    BY <1>4, <2>1 DEF Shrunk
  <2> QED
    BY <1>2, <1>10, <2>1, <2>2 DEF Inv, Reading
<1>15. Agreed'
  BY <1>1, <1>8 DEF Agreed, NobodyLost
<1> QED
  BY <1>5, <1>9, <1>12, <1>13, <1>14, <1>15 DEF Inv

LEMMA ExitStep ==
    ASSUME Inv, Agreed, Exit
    PROVE  Inv' /\ Agreed'
<1> DEFINE id == self.id
           f == self.fd
           P == EraseCloses(id)
           C == P \cup {f}
<1>1. /\ pc = "return" /\ Writes(Audience, {User(self)}, "scan")
      /\ id_table' = [id_table EXCEPT ![id] = 0]
      /\ EraseClientVector(id)
      /\ fdt' = CloseAll(fdt, C) /\ afds' = afds \ {f} /\ std' = Nobody
      /\ peer' = [peer EXCEPT ![User(self)] = "left"]
      /\ cli' = 0 /\ status' = 0
      /\ UNCHANGED <<rfds, cmds_, in_fd, out_fd, taken, inbox, made, got>>
  BY DEF Exit, history, Unmonitor, RestoreStd
<1>2. /\ cli \in Position /\ self = client_table[cli] /\ f \in afds /\ f \notin rfds
      /\ std \in Conn /\ fdt[f] = <<"sock", std>> /\ User(self) = std
      /\ peer[std] \in {"here", "hungup"} /\ f \in Fd /\ id \in Id
  BY <1>1, Served DEF self, Client
<1>3. fdt[f][1] = "sock"
  BY <1>2
<1>4. PICK h : Erased(h, id, f)
  <2> HIDE DEF id, f
  <2> QED
    BY <1>1, <1>2, <1>3, EraseTables DEF C, P
<1>5. \A g \in P \cap Fd : fdt[g][1] \in {"r", "w"}
  BY <1>1, EraseClosed
<1>6. \A i \in Position : \A u \in UserPipes(i) : u.target_id = id => u.in_fd \in C /\ u.out_fd \in C
  BY <1>1, EraseClosed
<1>7. /\ Shrunk(h, C)
      /\ client_table' \in Seq(Client) /\ Len(client_table') \in Nat
      /\ \A i \in Position : client_table[i].id # id <=> \E k \in Position' : h[k] = i
      /\ \A k \in Position' :
            /\ NumberPipes(k)' = NumberPipes(h[k])
            /\ UserPipes(k)' = {u \in UserPipes(h[k]) : u.target_id # id}
  BY <1>4 DEF Erased
<1>8. \A k \in Position' : /\ h[k] \in Position
                           /\ client_table'[k].id = client_table[h[k]].id
                           /\ client_table'[k].fd = client_table[h[k]].fd
  BY <1>7 DEF Shrunk
<1>9. f \in C /\ \A g \in C : g \in P \/ g = f
  OBVIOUS
<1>10. fdt' = CloseAll(fdt, P \cup {f})
  BY <1>1
<1> HIDE DEF id, f, P, C
<1>11. PipesWhole' /\ PipesDiffer'
  BY <1>7, Shrinking
<1>12. /\ peer'[std] = "left" /\ \A d \in Conn : d # std => peer'[d] = peer[d]
       /\ peer' \in [Conn -> {"away", "calling", "quit", "here", "hungup", "left", "lost"}]
  BY <1>1, <1>2 DEF Inv, TypeOK
<1>13. Sockets'
  <2>1. peer'[std] \notin {"here", "hungup"}
    BY <1>12
  <2> QED
    BY <1>1, <1>2, <1>5, <1>10, <1>12, <2>1, SocketClosed
<1>14. /\ broken' \subseteq Conn /\ pc' \in {"scan", "dead"}
       /\ \A d \in broken' : peer'[d] \notin {"away", "calling", "quit", "here"}
  <2>1. \A d \in Audience : d \in Conn /\ peer[d] \in {"here", "hungup"}
    BY DEF Audience, Inv, TypeOK, Sockets
  <2>2. Audience \in SUBSET Conn
    BY <2>1
  <2>3. \A d \in Audience : peer[d] # "away" /\ (peer[d] = "quit" => peer'[d] = "hungup")
    BY <2>1
  <2>4. \A d \in Conn : peer'[d] \in {"away", "calling", "quit", "here"} => peer[d] = peer'[d]
    BY <1>12
  <2> QED
    BY <1>1, <2>2, <2>3, <2>4, Written
<1>15. fdt' \in [Fd -> End] /\ \A g \in Fd : fdt'[g] = IF g \in C THEN Closed ELSE fdt[g]
  BY <1>1, Closing
<1>16. TypeOK'
  <2>1. id_table' \in [Id -> {0, 1}]
    BY <1>1, <1>2 DEF Inv, TypeOK
  <2>2. afds' \subseteq Fd /\ rfds' \subseteq afds' /\ cli' \in 0 .. Len(client_table')
    BY <1>1, <1>2, <1>7 DEF Inv, TypeOK
  <2> QED
    BY <1>1, <1>7, <1>12, <1>14, <1>15, <2>1, <2>2 DEF Inv, TypeOK
<1>17. Serving'
  BY <1>1, <1>14 DEF Serving
<1>18. \A k \in Position' : \A u \in UserPipes(k)' : ~u.is_used /\ u \in UserPipes(h[k]) /\ u.target_id # id
  BY <1>1, <1>7, <1>8, Untaken
<1>19. Reading'
  <2>1. in_fd = {}
    BY <1>1, Untaken
  <2> QED
    BY <1>1, <1>14, <1>18, <2>1 DEF Inv, Reading
<1>20. ASSUME NobodyLost' PROVE Unique' /\ Meant' /\ Owned' /\ ReachesAddressee'
  <2>1. NobodyLost
    BY <1>2, <1>12, <1>20 DEF NobodyLost
  <2>2. Unique /\ Meant /\ Owned /\ ReachesAddressee
    BY <2>1 DEF Agreed
  <2>3. \A i \in Position : (client_table[i].id = id <=> i = cli) /\ (client_table[i].fd = f <=> i = cli)
    BY <1>2, <2>2 DEF Unique, id, f
  <2>4. \A k \in Position' : h[k] # cli
    BY <1>7, <1>8, <2>3
  <2>5. Unique'
    <3>1. \A j, k \in Position' : j # k =>
             client_table'[j].id # client_table'[k].id /\ client_table'[j].fd # client_table'[k].fd
      BY <1>7, <1>8, <2>2 DEF Unique, Shrunk
    <3>2. ASSUME NEW n \in Id
          PROVE  id_table'[n] = 1 <=> \E k \in Position' : client_table'[k].id = n
      <4>1. CASE n = id
        <5>1. id_table'[n] = 0
          BY <1>1, <4>1 DEF Inv, TypeOK
        <5>2. \A k \in Position' : client_table'[k].id # n
          BY <1>8, <2>3, <2>4, <4>1
        <5> QED
          BY <5>1, <5>2
      <4>2. CASE n # id
        <5>1. id_table'[n] = id_table[n]
          BY <1>1, <4>2 DEF Inv, TypeOK
        <5>2. (\E k \in Position' : client_table'[k].id = n) => \E i \in Position : client_table[i].id = n
          BY <1>8
        <5>3. ASSUME NEW i \in Position, client_table[i].id = n
              PROVE  \E k \in Position' : client_table'[k].id = n
          BY <1>7, <1>8, <4>2, <5>3
        <5> QED
          BY <2>2, <5>1, <5>2, <5>3 DEF Unique
      <4> QED
        BY <4>1, <4>2
    <3>3. \A k \in Position' : client_table'[k].fd \in afds'
      BY <1>1, <1>8, <2>2, <2>3, <2>4 DEF Unique
    <3>4. ASSUME NEW g \in afds' PROVE \E k \in Position' : client_table'[k].fd = g
      <4>1. PICK i \in Position : client_table[i].fd = g /\ i # cli
        BY <1>1, <2>2, <2>3 DEF Unique
      <4> QED
        BY <1>7, <1>8, <2>3, <4>1
    <3> QED
      BY <3>1, <3>2, <3>3, <3>4 DEF Unique
  <2>6. Meant'
    <3>1. ASSUME NEW k \in Position' PROVE client_table[h[k]].fd \notin C
      <4>1. client_table[h[k]].fd \in afds /\ client_table[h[k]].fd \in Fd
        BY <1>8, <2>2, Facts DEF Unique
      <4>2. PICK d \in Conn : fdt[client_table[h[k]].fd] = <<"sock", d>>
        BY <4>1 DEF Inv, Sockets
      <4>3. client_table[h[k]].fd # f
        BY <1>8, <2>3, <2>4
      <4> QED
        BY <1>5, <1>9, <4>1, <4>2, <4>3
    <3>2. ASSUME NEW k \in Position', NEW v \in UserPipes(k)'
          PROVE  /\ v.is_used /\ pc' = "exec" => v.target_id = self'.id
                 /\ \E i \in Position' : client_table'[i].id = v.target_id
      <4>1. ~v.is_used /\ v \in UserPipes(h[k]) /\ h[k] \in Position /\ v.target_id # id
        BY <1>8, <1>18
      <4>2. PICK i \in Position : client_table[i].id = v.target_id
        BY <2>2, <4>1 DEF Meant
      <4>3. PICK j \in Position' : h[j] = i
        BY <1>7, <4>1, <4>2
      <4> QED
        BY <1>8, <4>1, <4>2, <4>3
    <3> QED
      BY <1>7, <2>2, <3>1, <3>2, MeantKept
  <2>7. Owned'
    <3>1. \A c \in Conn : peer[c] = "left" => peer'[c] = "left"
      BY <1>2, <1>12
    <3>2. ASSUME NEW i \in Position, NEW e \in NumberPipes(i)
          PROVE  \/ peer'[made[fdt[e.out_fd][2]].from] = "left"
                 \/ \E k \in Position' : \E d \in NumberPipes(k)' : d.in_fd = e.in_fd /\ d.out_fd = e.out_fd
      <4>1. CASE i = cli
        <5>1. made[fdt[e.out_fd][2]] = [from |-> User(client_table[cli]), to |-> Nobody]
          BY <2>2, <4>1 DEF Meant
        <5>2. User(client_table[cli]) = std
          BY <1>2
        <5> QED
          BY <1>12, <5>1, <5>2
      <4>2. CASE i # cli
        BY <1>7, <2>3, <4>2
      <4> QED
        BY <4>1, <4>2
    <3>3. ASSUME NEW i \in Position, NEW u \in UserPipes(i)
          PROVE  \/ peer'[made[fdt[u.out_fd][2]].from] = "left"
                 \/ u.out_fd \in C /\ u.in_fd \in C
                 \/ \E k \in Position' : \E v \in UserPipes(k)' :
                       v.out_fd = u.out_fd /\ ~v.is_used /\ v.in_fd = u.in_fd
      <4>1. CASE i = cli
        <5>1. PICK j \in Position :
                 made[fdt[u.out_fd][2]] = [from |-> User(client_table[cli]), to |-> User(client_table[j])]
          BY <2>2, <4>1 DEF Meant
        <5>2. User(client_table[cli]) = std
          BY <1>2
        <5> QED
          BY <1>12, <5>1, <5>2
      <4>2. CASE u.target_id = id
        BY <1>6, <4>2
      <4>3. CASE i # cli /\ u.target_id # id
        BY <1>7, <1>18, <2>3, <4>3
      <4> QED
        BY <4>1, <4>2, <4>3
    <3> QED
      BY <1>7, <2>2, <3>1, <3>2, <3>3, OwnedKept
  <2>8. ReachesAddressee'
    BY <1>1, <2>1, <2>2 DEF ReachesAddressee, Nobody
  <2> QED
    BY <2>5, <2>6, <2>7, <2>8
<1> QED
  BY <1>11, <1>13, <1>16, <1>17, <1>19, <1>20 DEF Inv, Agreed
-----------------------------------------------------------------------------
(* The invariant.                                                          *)

LEMMA InvNext ==
    ASSUME PlainLines, Inv, Agreed, [Next]_vars
    PROVE  Inv' /\ Agreed'
<1>1. CASE UNCHANGED vars
  <2>1. /\ UNCHANGED <<id_table, client_table, afds, rfds, fdt, std, pc, cli, cmds_, in_fd, out_fd>>
        /\ UNCHANGED <<taken, status, peer, inbox, broken, made, got>>
    BY <1>1 DEF vars, table, exec, users, history
  <2>2. TypeOK'
    BY <2>1 DEF Inv, TypeOK
  <2>3. Sockets' /\ PipesWhole' /\ PipesDiffer'
    BY <2>1, TablesStay
  <2>4. Serving'
    BY <2>1 DEF Inv, Serving, Position, self, Nobody
  <2>5. Reading'
    BY <2>1 DEF Inv, Reading, Position, UserPipes, GetClientByID, Lowest
  <2>6. Agreed'
    BY <2>1, AgreedStays
  <2> QED
    BY <2>2, <2>3, <2>4, <2>5, <2>6 DEF Inv
<1>2. ASSUME NEW c \in Conn, Connect(c) \/ Type(c) \/ HangUp(c) PROVE Inv' /\ Agreed'
  BY <1>2, UserSteps
<1>3. CASE Select \/ AcceptError \/ ScanDone \/ PipeError
  BY <1>3, LoopSteps
<1>4. CASE UserPipeOutError \/ UserPipeInError
  BY <1>4, AbandonStep
<1> QED
  BY <1>1, <1>2, <1>3, <1>4, AcceptStep, ReceiveStep, LogoutStep, UserPipeOutStep, UserPipeInStep,
     CreatePipeStep, RunStep, ReturnStep, ExitStep DEF Next

LEMMA InvAlways == ASSUME PlainLines PROVE Spec => [](Inv /\ Agreed)
<1>1. Inv /\ Agreed /\ [Next]_vars => (Inv /\ Agreed)'
  BY InvNext
<1> QED
  BY InvInit, <1>1, PTL DEF Spec

(* Every variable keeps its type: the client that is served has a place in *)
(* the table, ids are those the server hands out, no more descriptors are  *)
(* monitored than there are.                                               *)
THEOREM TypeSafe == ASSUME PlainLines PROVE Spec => []TypeOK
<1>1. Inv /\ Agreed => TypeOK
  BY DEF Inv
<1> QED
  BY <1>1, InvAlways, PTL

(* The first entry that matches is found, and is the only one.             *)
LEMMA Found ==
    ASSUME Inv, Unique
    PROVE  /\ \A id \in Id : GetClientByID(id) # {} <=> \E i \in Position : client_table[i].id = id
           /\ \A f : GetClientByFd(f) # {} <=> \E i \in Position : client_table[i].fd = f
           /\ \A id : \A i \in GetClientByID(id) : i \in Position /\ client_table[i].id = id
<1>1. Position = DOMAIN client_table /\ \A i \in Position : i \in Nat /\ i <= i
  BY Facts DEF Position
<1>2. \A id : \A i \in GetClientByID(id) : i \in Position /\ client_table[i].id = id
  BY <1>1 DEF GetClientByID, Lowest
<1>3. ASSUME NEW id, NEW i \in Position, client_table[i].id = id PROVE i \in GetClientByID(id)
  BY <1>1, <1>3 DEF GetClientByID, Lowest, Unique
<1>4. ASSUME NEW f, NEW i \in Position, client_table[i].fd = f PROVE i \in GetClientByFd(f)
  BY <1>1, <1>4 DEF GetClientByFd, Lowest, Unique
<1>5. \A f : \A i \in GetClientByFd(f) : i \in Position /\ client_table[i].fd = f
  BY <1>1 DEF GetClientByFd, Lowest
<1> QED
  BY <1>2, <1>3, <1>4, <1>5

(* The tables agree: the monitored descriptors are the sockets of the      *)
(* users who are logged in, each once, and as long as nobody hung up they  *)
(* are those of the clients, each with an id and a descriptor of its own.  *)
THEOREM TablesSafe == ASSUME PlainLines PROVE Spec => []TablesAgree
<1>1. Inv /\ Agreed => TablesAgree
  <2> SUFFICES ASSUME Inv, Agreed PROVE TablesAgree
    OBVIOUS
  <2>1. MonitoredExact
    <3>1. \A f \in afds : \E c \in Conn : fdt[f] = <<"sock", c>> /\ peer[c] \in {"here", "hungup"}
      BY DEF Inv, TypeOK, Sockets
    <3>2. ASSUME NEW c \in Conn, peer[c] \in {"here", "hungup"}
          PROVE  Cardinality({f \in afds : fdt[f] = <<"sock", c>>}) = 1
      <4>1. PICK f \in afds : fdt[f] = <<"sock", c>>
        BY <3>2 DEF Inv, Sockets
      <4>2. ASSUME NEW g \in afds, fdt[g] = <<"sock", c>> PROVE g = f
        <5>1. f \in Fd /\ g \in Fd
          BY DEF Inv, TypeOK
        <5>2. fdt[g] = fdt[f] /\ fdt[g] # Closed
          BY <4>1, <4>2 DEF Closed
        <5> QED
          BY <5>1, <5>2 DEF Inv, Sockets
      <4>3. {g \in afds : fdt[g] = <<"sock", c>>} = {f}
        BY <4>1, <4>2
      <4> QED
        BY <4>3, FS_Singleton
    <3> QED
      BY <3>1, <3>2 DEF MonitoredExact
  <2>2. ASSUME NobodyLost PROVE Unique
    BY <2>2 DEF Agreed
  <2>3. EveryoneKnown
    BY <2>2, Found DEF EveryoneKnown, Unique
  <2>4. IdsExact
    <3> SUFFICES ASSUME NobodyLost
                 PROVE  /\ \A i, j \in DOMAIN client_table : i # j =>
                              /\ client_table[i].id # client_table[j].id
                              /\ client_table[i].fd # client_table[j].fd
                        /\ \A id \in Id : id_table[id] = 1 <=> GetClientByID(id) # {}
                        /\ \A i \in DOMAIN client_table : client_table[i].fd \in afds
      BY DEF IdsExact
    <3> QED
      BY <2>2, Found DEF Unique, Position
  <2> QED
    BY <2>1, <2>3, <2>4 DEF TablesAgree
<1> QED
  BY <1>1, InvAlways, PTL

(* As long as nobody hung up, between two lines every user pipe is intact  *)
(* and offered to somebody who is logged in, and whatever was read from a  *)
(* pipe was meant for the user who read it.                                *)
THEOREM PipesSafe == ASSUME PlainLines PROVE Spec => []PipedToOne
<1>1. Inv /\ Agreed => PipedToOne
  <2> SUFFICES ASSUME Inv, Agreed, NobodyLost
               PROVE  /\ pc \in {"select", "accept", "scan"} =>
                            \A i \in Position : \A u \in UserPipes(i) :
                              /\ ~u.is_used
                              /\ u.source_id = client_table[i].id
                              /\ id_table[u.target_id] = 1
                              /\ \E p \in 1 .. Len(made) :
                                    fdt[u.in_fd] = <<"w", p>> /\ fdt[u.out_fd] = <<"r", p>>
                      /\ ReachesAddressee
    BY DEF PipedToOne, UserPipesIntact, Agreed, Position, UserPipes, ReachesAddressee
  <2>1. Unique /\ Meant /\ ReachesAddressee
    BY DEF Agreed
  <2>2. ASSUME pc \in {"select", "accept", "scan"}, NEW i \in Position, NEW u \in UserPipes(i)
        PROVE  /\ ~u.is_used
               /\ u.source_id = client_table[i].id
               /\ id_table[u.target_id] = 1
               /\ \E p \in 1 .. Len(made) :
                     fdt[u.in_fd] = <<"w", p>> /\ fdt[u.out_fd] = <<"r", p>>
    <3>1. ~u.is_used
      BY <2>2, Untaken
    <3>2. u.source_id = client_table[i].id /\ \E j \in Position : client_table[j].id = u.target_id
      BY <2>1 DEF Meant
    <3>3. u.target_id \in Id
      BY Facts DEF UserPipeFd
    <3>4. id_table[u.target_id] = 1
      BY <2>1, <3>2, <3>3 DEF Unique
    <3>5. fdt[u.out_fd][1] = "r" /\ fdt[u.in_fd] = <<"w", fdt[u.out_fd][2]>>
      BY <3>1 DEF Inv, PipesWhole
    <3>6. u.out_fd \in Fd /\ fdt[u.out_fd][2] \in 1 .. Len(made) /\ fdt[u.out_fd] \in End
      BY <3>5, Ends, Facts
    <3>7. fdt[u.out_fd] = <<"r", fdt[u.out_fd][2]>>
      BY <3>5, <3>6 DEF End, Closed
    <3> QED
      BY <3>1, <3>2, <3>4, <3>5, <3>6, <3>7
  <2> QED
    BY <2>1, <2>2
<1> QED
  BY <1>1, InvAlways, PTL

(* As long as nobody hung up, a pipe end that is open belongs to a pipe in *)
(* a table, or to a user who left with pipes pending.                      *)
THEOREM LeakSafe == ASSUME PlainLines PROVE Spec => []LeakOnlyOnLeaving
<1>1. Inv /\ Agreed => LeakOnlyOnLeaving
  <2> SUFFICES ASSUME Inv, Agreed, NobodyLost, NEW f \in Fd, fdt[f][1] \in {"r", "w"}
               PROVE  \/ \E i \in DOMAIN client_table : f \in EndsOf(client_table[i])
                      \/ peer[made[fdt[f][2]].from] = "left"
    BY DEF LeakOnlyOnLeaving
  <2>1. Owned
    BY DEF Agreed
  <2>2. ASSUME NEW i \in Position, NEW e \in NumberPipes(i) \cup UserPipes(i), f = e.in_fd \/ f = e.out_fd
        PROVE  i \in DOMAIN client_table /\ f \in EndsOf(client_table[i])
    BY <2>2 DEF EndsOf, NumberPipes, UserPipes, Position
  <2> QED
    BY <2>1, <2>2 DEF Owned
<1> QED
  BY <1>1, InvAlways, PTL

(* Whoever says exit is hung up: its socket is the one descriptor that is  *)
(* open on the connection, and it is closed; 1 and 2 are not any more.     *)
THEOREM HangUpSafe == ASSUME PlainLines PROVE Spec => ExitHangsUp
<1>1. Inv /\ Agreed /\ [Next]_vars =>
         [NobodyLost /\ Exit =>
            \A f \in Fd : fdt'[f] # <<"sock", User(self)>> /\ std' # User(self)]_vars
  <2> SUFFICES ASSUME Inv, Exit, NEW f \in Fd
               PROVE  fdt'[f] # <<"sock", User(self)>> /\ std' # User(self)
    OBVIOUS
  <2>1. /\ pc = "return" /\ std' = Nobody
        /\ fdt' = CloseAll(fdt, EraseCloses(self.id) \cup {self.fd})
    BY DEF Exit, RestoreStd
  <2>2. /\ std \in Conn /\ fdt[self.fd] = <<"sock", std>> /\ User(self) = std
        /\ self \in Client /\ self.fd \in Fd
    BY <2>1, Served DEF Client
  <2>3. ASSUME fdt'[f] = <<"sock", std>> PROVE FALSE
    <3>1. fdt'[f][1] # "closed"
      BY <2>3
    <3>2. f \notin EraseCloses(self.id) \cup {self.fd} /\ fdt'[f] = fdt[f]
      BY <2>1, <3>1, Closing
    <3>3. fdt[f] = fdt[self.fd] /\ fdt[f] # Closed /\ f # self.fd
      BY <2>2, <2>3, <3>2 DEF Closed
    <3> QED
      BY <2>2, <3>3 DEF Inv, Sockets
  <2> QED
    BY <2>1, <2>2, <2>3, ConnAssumption DEF Nobody
<1> QED
  BY <1>1, InvAlways, PTL DEF Spec, ExitHangsUp
-----------------------------------------------------------------------------
(* What ends the server.                                                   *)

(* Numbers have a least element.                                           *)
LEMMA LeastElement ==
    ASSUME NEW D \in SUBSET Nat, D # {} PROVE \E m \in D : \A d \in D : m <= d
<1> DEFINE S == FiniteSubsetsOf(Nat)
           T == {1 .. d : d \in D}
<1>1. IsWellFoundedOn(StrictSubsetOrdering(Nat), S)
  BY FS_StrictSubsetOrderingWellFounded
<1>2. T \subseteq S
  <2> SUFFICES ASSUME NEW d \in D PROVE 1 .. d \in SUBSET Nat /\ IsFiniteSet(1 .. d)
    BY DEF FiniteSubsetsOf
  <2> QED
    BY FS_Interval
<1>3. T # {}
  OBVIOUS
<1>4. PICK x \in T : \A y \in T : <<y, x>> \notin StrictSubsetOrdering(Nat)
  <2> HIDE DEF S, T
  <2> QED
    BY <1>1, <1>2, <1>3, WFMin
<1>5. PICK m \in D : x = 1 .. m
  OBVIOUS
<1>6. ASSUME NEW d \in D, ~(m <= d) PROVE FALSE
  <2>1. d \in Nat /\ m \in Nat /\ d < m
    BY <1>6
  <2>2. 1 .. d \subseteq 1 .. m /\ m \in 1 .. m /\ m \notin 1 .. d
    BY <2>1
  <2>3. <<1 .. d, 1 .. m>> \in StrictSubsetOrdering(Nat)
    BY <2>1, <2>2 DEF StrictSubsetOrdering
  <2> QED
    BY <1>4, <1>5, <2>3
<1> QED
  BY <1>6

(* pipe() fails only when fewer than two descriptors are free.             *)
LEMMA PipeFails ==
    ASSUME TwoFree = {} PROVE Cardinality(Free(fdt)) < 2
<1> DEFINE F == Free(fdt)
<1>1. F \in SUBSET Nat
  BY FdAssumption DEF Free
<1>2. CASE F = {}
  <2>1. Cardinality(F) = 0
    BY <1>2, FS_EmptySet
  <2> QED
    BY <2>1
<1>3. CASE F # {}
  <2> HIDE DEF F
  <2>1. PICK r \in F : \A d \in F : r <= d
    BY <1>1, <1>3, LeastElement
  <2>2. F \ {r} = {}
    <3> SUFFICES ASSUME F \ {r} # {} PROVE FALSE
      OBVIOUS
    <3>1. F \ {r} \in SUBSET Nat
      BY <1>1
    <3>2. PICK w \in F \ {r} : \A d \in F \ {r} : w <= d
      BY <3>1, LeastElement
    <3>3. r \in Lowest(F) /\ w \in Lowest(F \ {r})
      BY <2>1, <3>2 DEF Lowest
    <3>4. <<w, r>> \in F \X F /\ <<w, r>>[1] = w /\ <<w, r>>[2] = r
      BY <2>1, <3>2
    <3>5. <<w, r>> \in TwoFree
      BY <3>3, <3>4 DEF TwoFree, F
    <3> QED
      BY <3>5
  <2>3. F = {r}
    BY <2>1, <2>2
  <2>4. Cardinality(F) = 1
    BY <2>3, FS_Singleton
  <2> QED
    BY <2>4 DEF F
<1> QED
  BY <1>2, <1>3

(* Whoever the server writes to without being able to is not there any     *)
(* more.                                                                   *)
LEMMA Refused ==
    ASSUME Inv, NEW T \in SUBSET Conn, NEW D \in SUBSET Conn, NEW l, Writes(T, D, l), l # "dead", pc' = "dead",
           \A c \in T : peer[c] \in {"here", "hungup", "lost"},
           \A c \in D : peer[c] \in {"here", "hungup", "lost"}
    PROVE  \E c \in Conn : peer[c] \in {"hungup", "lost"}
<1>1. PICK c \in (T \cap broken) \cup HungUp(D) : TRUE
  BY DEF Writes
<1>2. c \in Conn /\ peer[c] \in {"here", "hungup", "lost"}
  BY <1>1 DEF HungUp
<1>3. peer[c] # "here"
  BY <1>1 DEF HungUp, Inv, Serving
<1> QED
  BY <1>2, <1>3

(* What is printed goes to users who are there or hung up, unless somebody *)
(* was lost.                                                               *)
LEMMA RunWritesHere ==
    ASSUME Inv, Agreed, NobodyLost, pc = "exec", NEW n
    PROVE  \A c \in Heard(n) \cup Printed : peer[c] \in {"here", "hungup"}
<1>1. User(self) \in Conn /\ peer[User(self)] \in {"here", "hungup"}
  BY Served
<1>2. \A f \in afds : \A c \in Conn : fdt[f] = <<"sock", c>> => peer[c] \in {"here", "hungup"}
  BY DEF Inv, TypeOK, Sockets
<1>3. \A c \in Audience : peer[c] \in {"here", "hungup"}
  BY <1>2 DEF Audience
<1>4. Unique
  BY DEF Agreed
<1>5. ASSUME NEW id, NEW c \in Tell(id) PROVE peer[c] \in {"here", "hungup"}
  <2>1. CASE c = User(self)
    BY <1>1, <2>1
  <2>2. ASSUME c \in Conn, NEW j \in GetClientByID(id), fdt[client_table[j].fd] = <<"sock", c>>
        PROVE  peer[c] \in {"here", "hungup"}
    <3>1. client_table[j].fd \in afds
      BY <1>4, Found DEF Unique
    <3> QED
      BY <1>2, <2>2, <3>1
  <2> QED
    BY <2>1, <2>2 DEF Tell
<1>6. \A c \in Printed : c = User(self) \/ \E id : c \in Tell(id)
  BY DEF Printed
<1> QED
  BY <1>1, <1>3, <1>5, <1>6 DEF Heard

LEMMA AcceptSurvives ==
    ASSUME Inv, Accept, pc' = "dead"
    PROVE  \E c \in Conn : {peer[c], peer'[c]} \cap {"hungup", "lost"} # {}
<1>1. PICK c \in Calling :
         \/ Writes(Console, {}, "select")
         \/ /\ peer' = [peer EXCEPT ![c] = IF @ = "quit" THEN "hungup" ELSE "here"]
            /\ Writes(Audience \cup {c}, {c}, "scan")
  BY DEF Accept
<1>2. c \in Conn /\ peer[c] \in {"calling", "quit"}
  BY DEF Calling
<1>3. CASE Writes(Console, {}, "select")
  <2>1. Console \in SUBSET Conn /\ {} \in SUBSET Conn
        /\ \A d \in Console : peer[d] \in {"here", "hungup", "lost"}
    BY DEF Console, Inv, TypeOK, Serving
  <2> QED
    BY <1>3, <2>1, Refused
<1>4. ASSUME peer' = [peer EXCEPT ![c] = IF @ = "quit" THEN "hungup" ELSE "here"],
             Writes(Audience \cup {c}, {c}, "scan")
      PROVE  \E d \in Conn : {peer[d], peer'[d]} \cap {"hungup", "lost"} # {}
  <2>1. PICK d \in ((Audience \cup {c}) \cap broken) \cup HungUp({c}) : TRUE
    BY <1>4 DEF Writes
  <2>2. CASE d = c
    <3>1. peer[c] = "quit"
      BY <1>2, <2>1, <2>2 DEF HungUp, Inv, Serving
    <3>2. peer'[c] = "hungup"
      BY <1>2, <1>4, <3>1 DEF Inv, TypeOK
    <3> QED
      BY <1>2, <3>2
  <2>3. CASE d # c
    <3>1. d \in Audience /\ d \in broken
      BY <2>1, <2>3 DEF HungUp
    <3>2. d \in Conn /\ peer[d] = "hungup"
      BY <3>1 DEF Audience, Inv, TypeOK, Sockets, Serving
    <3> QED
      BY <3>2
  <2> QED
    BY <2>2, <2>3
<1> QED
  BY <1>1, <1>3, <1>4

(* The server ends only when pipe() has no two descriptors left, or when   *)
(* somebody has hung up: whatever it writes to those who are there, to     *)
(* whoever says exit or in place of those turned away does not end it.     *)
THEOREM SurvivesSafe == ASSUME PlainLines PROVE Spec => ServerSurvives
<1> DEFINE Reason == \/ Cardinality(Free(fdt)) < 2
                     \/ \E c \in Conn : {peer[c], peer'[c]} \cap {"hungup", "lost"} # {}
<1>1. Inv /\ Agreed /\ [Next]_vars => [pc' = "dead" => Reason]_vars
  <2> SUFFICES ASSUME Inv, Agreed, Next, pc' = "dead" PROVE Reason
    OBVIOUS
  <2>1. (\E c \in Conn : peer[c] \in {"hungup", "lost"}) => Reason
    OBVIOUS
  <2>2. Audience \in SUBSET Conn /\ \A d \in Audience : peer[d] \in {"here", "hungup"}
    BY DEF Audience, Inv, TypeOK, Sockets
  <2>3. CASE Accept
    BY <2>3, AcceptSurvives
  <2>4. CASE Logout
    <3>1. PICK c \in Conn : peer' = [peer EXCEPT ![c] = "lost"]
      BY <2>4 DEF Logout
    <3>2. peer'[c] = "lost"
      BY <3>1 DEF Inv, TypeOK
    <3> QED
      BY <3>2
  <2>5. CASE UserPipeOutError \/ UserPipeInError \/ Return
    <3>1. pc \in {"exec", "return"} /\ \E l \in {"return", "scan"} : Writes({User(self)}, {}, l)
      BY <2>5 DEF UserPipeOutError, UserPipeInError, At, Abandon, Return
    <3>2. PICK l \in {"return", "scan"} : Writes({User(self)}, {}, l)
      BY <3>1
    <3>3. User(self) \in Conn /\ peer[User(self)] \in {"here", "hungup"}
      BY <3>1, Served
    <3>4. {User(self)} \in SUBSET Conn /\ {} \in SUBSET Conn /\ l # "dead"
      BY <3>3
    <3> HIDE DEF Reason
    <3> QED
      BY <2>1, <3>2, <3>3, <3>4, Refused
  <2>6. CASE PipeError
    <3>1. Cardinality(Free(fdt)) < 2
      BY <2>6, PipeFails DEF PipeError
    <3> QED
      BY <3>1
  <2>7. CASE Run
    <3> DEFINE T == Heard(1) \cup Printed
               D == Heard(2) \cup (Heard(1) \cap Printed)
               l == IF Tail(cmds_) = <<>> THEN "return" ELSE "exec"
    <3>1. pc = "exec" /\ Writes(T, D, l)
      BY <2>7 DEF Run
    <3>2. CASE NobodyLost
      <4>1. \A c \in T \cup D : c \in Conn /\ peer[c] \in {"here", "hungup"}
        BY <3>1, <3>2, RunWrites, RunWritesHere
      <4>2. l # "dead"
        OBVIOUS
      <4> HIDE DEF T, D, l, Reason
      <4>3. T \in SUBSET Conn /\ D \in SUBSET Conn
        BY <4>1
      <4>4. /\ \A c \in T : peer[c] \in {"here", "hungup", "lost"}
            /\ \A c \in D : peer[c] \in {"here", "hungup", "lost"}
        BY <4>1
      <4> QED
        BY <2>1, <3>1, <4>2, <4>3, <4>4, Refused
    <3>3. CASE ~NobodyLost
      BY <2>1, <3>3 DEF NobodyLost
    <3> QED
      BY <3>2, <3>3
  <2>8. CASE Exit
    <3>1. pc = "return" /\ Writes(Audience, {User(self)}, "scan")
      BY <2>8 DEF Exit
    <3>2. User(self) \in Conn /\ peer[User(self)] \in {"here", "hungup"}
      BY <3>1, Served
    <3>3. {User(self)} \in SUBSET Conn
      BY <3>2
    <3> HIDE DEF Reason
    <3> QED
      BY <2>1, <2>2, <3>1, <3>2, <3>3, Refused
  <2>9. /\ ~(\E c \in Conn : Connect(c) \/ Type(c) \/ HangUp(c))
        /\ ~Select /\ ~AcceptError /\ ~ScanDone /\ ~Receive
        /\ ~UserPipeOut /\ ~UserPipeIn /\ ~CreatePipe
    BY DEF Connect, Type, HangUp, Select, AcceptError, ScanDone, Receive, UserPipeOut, UserPipeIn,
           CreatePipe, At
  <2> HIDE DEF Reason
  <2> QED
    BY <2>3, <2>4, <2>5, <2>6, <2>7, <2>8, <2>9 DEF Next
<1> QED
  BY <1>1, InvAlways, PTL DEF Spec, ServerSurvives
=============================================================================
