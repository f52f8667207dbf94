--------------------------- MODULE UserFifoProofs ---------------------------
(***************************************************************************)
(* np_multi_proc: what is proved of its user pipes, for any number of users*)
(* and lines.                                                              *)
(*                                                                         *)
(* The order is: the invariant; the types and what every action does, one  *)
(* lemma per action; the parts of the invariant that an action leaves      *)
(* alone (frames); the descriptors; then the invariant, one lemma per      *)
(* action, and the theorems.                                               *)
(***************************************************************************)
EXTENDS UserFifo, TLAPS

(* Places, and what a process has chosen when it is there.                 *)
Placed ==
    /\ \A c \in Conn :
          /\ sh[c].pc \notin {"away"} => sh[c].id \in Id
          /\ sh[c].pc = "away" => sh[c].id = 0 /\ sh[c].held = {}
          /\ sh[c].pc \in {"check", "mkfifo", "name", "signal"} => sh[c].target_id \in Id
          /\ sh[c].pc \in {"check", "mkfifo"} =>
                sh[c].meant \in Conn /\ sh[sh[c].meant].id = sh[c].target_id
          /\ sh[c].pc \in {"offered", "take", "unlink", "forget", "clean"} => sh[c].source_id \in Id
          /\ sh[c].pc \in {"check", "mkfifo", "name", "signal", "offered", "take"} => Redir(c) # <<>>
          /\ sh[c].pc = "wait" => sh[c].child \in DOMAIN proc
          /\ ~Alive(c) => sh[c].h = 0
          /\ sh[c].h = 0 => sh[c].opening = 0
          /\ sh[c].woken => sh[c].opening # 0
    /\ \A j \in DOMAIN proc :
          /\ proc[j].st = "fork" \/ proc[j].wr # 0 => proc[j].to \in Pair
          /\ proc[j].st \in {"open", "record"} => proc[j].to \in Pair
          /\ proc[j].st = "fork" => proc[j].wr = 0
    /\ \A i \in Id : shm_cli[i].valid = 1 =>
          shm_cli[i].pid \in Conn /\ sh[shm_cli[i].pid].id = i

(* A FIFO has one name, that of the ids of those who made it for each other.*)
Named ==
    /\ \A p, q \in Pair : file[p] = file[q] /\ file[p] # 0 => p = q
    /\ \A p \in Pair : file[p] # 0 =>
          sh[made[file[p]].from].id = p[1] /\ sh[made[file[p]].to].id = p[2]

Slots ==
    \A c \in Conn : sh[c].id # 0 =>
        /\ shm_cli[sh[c].id].pid = c
        /\ sh[c].pc \in {"clean", "gone"} => shm_cli[sh[c].id].valid = 0

(* c has made a FIFO with this line, and not yet forked the command for it.*)
Sent(c) == sh[c].target_id # 0 /\ sh[c].pc \in {"line", "offered", "take"}
Owner(c) == sh[c].pc \in {"name", "signal"} \/ Sent(c)
Forking(j) == j \in DOMAIN proc /\ proc[j].st = "fork"
Fresh(p) == file[p] # 0 /\ NotOpened(p)

OneWriter ==
    /\ \A c \in Conn : Owner(c) =>
          Fresh(Out(c)) /\ \A j \in DOMAIN proc : Forking(j) => proc[j].to # Out(c)
    /\ \A i \in DOMAIN proc : Forking(i) =>
          Fresh(proc[i].to) /\ \A j \in DOMAIN proc : Forking(j) /\ proc[j].to = proc[i].to => i = j
    /\ \A i, j \in DOMAIN proc : proc[i].wr = proc[j].wr /\ proc[i].wr # 0 => i = j
    /\ \A j \in DOMAIN proc :
          /\ proc[j].wr # 0 => \A p \in Pair : file[p] = proc[j].wr => proc[j].to = p
          /\ proc[j].st \in {"open", "record"} => proc[j].wr # 0

(* An entry offers a FIFO that has its name and a writer, and is used only *)
(* while it offers one.                                                    *)
Used(p) == file[p] # 0 /\ ~NotOpened(p)
Offers ==
    /\ \A p \in Pair : shm_fifo[p].out_fd # None =>
          Used(p) /\ \E c \in Conn : sh[c].id = p[2] /\ shm_fifo[p].out_fd = <<c, file[p]>>
    /\ \A p \in Pair : shm_fifo[p].is_used => shm_fifo[p].out_fd # None

(* What a process relies on while it works on an entry; when it opens once *)
(* more the FIFO it is about to remove, nobody will answer.                *)
Working(c) ==
    /\ sh[c].opening # 0 =>
          /\ file[Entry(c)] = sh[c].opening
          /\ shm_fifo[Entry(c)].name /\ shm_fifo[Entry(c)].out_fd = None
    /\ sh[c].woken => Used(Entry(c))
    /\ sh[c].pc = "take" => shm_fifo[In(c)].out_fd # None
    /\ sh[c].pc = "unlink" =>
          /\ Used(In(c)) /\ Writers(file[In(c)]) = {} /\ shm_fifo[In(c)].out_fd = None
          /\ sh[c].h = sh[c].source_id => ~sh[c].woken

Reads(c) == sh[c].source_id # 0 \/ \E i \in DOMAIN Redir(c) : Redir(c)[i].op = "from"
LinePlace == {"line", "check", "mkfifo", "name", "signal", "offered", "take", "wait", "erase"}
Reading(c) ==
    /\ sh[c].pc \in LinePlace /\ Reads(c) =>
          /\ sh[c].line.prog = "program" /\ sh[c].target_id = 0
          /\ \A i \in DOMAIN Redir(c) : Redir(c)[i].op = "from"
    /\ sh[c].source_id # 0 /\ sh[c].pc \in {"line", "wait", "erase"} =>
          shm_fifo[In(c)].out_fd # None /\ sh[c].in_fd = shm_fifo[In(c)].out_fd
    /\ sh[c].source_id # 0 /\ sh[c].pc = "wait" => proc[sh[c].child].rd = sh[c].in_fd
    /\ sh[c].source_id # 0 /\ sh[c].pc = "erase" =>
          \E j \in DOMAIN proc : proc[j].st = "done" /\ proc[j].rd = sh[c].in_fd

Fds ==
    /\ \A p \in Pair : shm_fifo[p].out_fd # None => sh[shm_fifo[p].out_fd[1]].id = p[2]
    /\ \A c \in Conn : sh[c].in_fd # None => sh[c].in_fd[1] = c
    /\ OwnDescriptors

ReadToEnd ==
    /\ \A c \in Conn : sh[c].in_fd # None => \E j \in DOMAIN proc : proc[j].wr = sh[c].in_fd[2]
    /\ \A j \in DOMAIN proc : \A k \in Input(j) :
        /\ \E i \in DOMAIN proc : proc[i].wr = k
        /\ proc[j].st = "done" => content[k] = {} /\ Writers(k) = {}

(* While a command is to write to a FIFO, its handler is still to come to  *)
(* the entry.                                                              *)
Served(p) ==
    \/ \E j \in DOMAIN proc : Forking(j) /\ proc[j].to = p
    \/ Writers(file[p]) # {}
Asked(p) == Served(p) \/ \E c \in Conn : Sent(c) /\ Out(c) = p
Open(p) == shm_fifo[p].name /\ file[p] # 0
To(d, s) == <<s, sh[d].id>>
Comes(d) ==
    \A s \in Id :
       Alive(d) /\ Open(To(d, s)) /\ shm_fifo[To(d, s)].out_fd = None /\ Asked(To(d, s)) =>
          d \in usr2 \/ sh[d].h \in 1 .. s \/ (sh[d].pc = "unlink" /\ sh[d].source_id = s)

(* What a process has cleaned up stays so.                                 *)
Cleaned(d) ==
    /\ sh[d].pc = "clean" => \A s \in Id : s < sh[d].source_id =>
          /\ shm_fifo[To(d, s)].out_fd = None
          /\ Open(To(d, s)) => ~Served(To(d, s))
          /\ sh[d].h = s => ~sh[d].woken
    /\ sh[d].pc = "gone" => \A s \in Id : shm_fifo[To(d, s)].out_fd = None

(* A FIFO a process has opened is one that was made for it, and has been   *)
(* offered or read since, or still waits for a writer.                     *)
Kept(c, k) ==
    \/ sh[c].opening = k
    \/ \E p \in Pair : shm_fifo[p].out_fd = <<c, k>>
    \/ \E j \in DOMAIN proc : k \in Input(j)
Held ==
    /\ \A c \in Conn : \A k \in sh[c].held : made[k].to = c
    /\ \A c \in Conn : sh[c].opening # 0 => sh[c].opening \in sh[c].held
    /\ \A j \in DOMAIN proc : proc[j].held \subseteq sh[proc[j].by].held
    /\ \A k \in DOMAIN content : content[k] # {} => k \in sh[made[k].to].held
    /\ \A c \in Conn : Listening(c) => \A k \in sh[c].held : Kept(c, k)

Types == TypeOK /\ Placed /\ Named

Core ==
    /\ Slots /\ OneWriter /\ Offers /\ Fds /\ ReadToEnd /\ CheckMisses /\ Held
    /\ \A c \in Conn : Working(c) /\ Reading(c) /\ Comes(c) /\ Cleaned(c)

-----------------------------------------------------------------------------
LEMMA IdFacts == 1 \in Id /\ 0 \notin Id /\ Id \subseteq Nat /\ MaxClient \in Id
BY MaxClientAssumption DEF Id

LEMMA NoneFacts ==
    /\ None \in Fd
    /\ \A c, k : <<c, k>> # None
    /\ \A x \in Fd : x # None => x[1] \in Conn /\ x[2] \in 1 .. Len(made) /\ x = <<x[1], x[2]>>
BY DEF None, Fd

LEMMA SameTypes ==
    ASSUME made' = made, Len(proc') = Len(proc)
    PROVE  Fd' = Fd /\ Entries' = Entries /\ Processes' = Processes /\ Children' = Children
BY DEF Fd, Entries, Processes, Children

LEMMA ProcessStep ==
    ASSUME TypeOK, NEW c \in Conn, NEW s \in Processes, sh' = [sh EXCEPT ![c] = s],
           UNCHANGED <<file, made, proc, content>>,
           shm_cli' \in [Id -> [valid : {0, 1}, pid : Conn \cup {Nobody}]],
           shm_fifo' \in [Pair -> Entries],
           usr2' \subseteq Conn, typed' \in 0 .. MaxLine
    PROVE  TypeOK'
<1>1. Entries' = Entries /\ Processes' = Processes /\ Children' = Children
  BY SameTypes
<1> QED
  BY <1>1 DEF TypeOK

LEMMA ProcessType == ASSUME TypeOK PROVE \A c \in Conn : sh[c] \in Processes
BY DEF TypeOK

LEMMA OnlyProcess ==
    ASSUME TypeOK, NEW c \in Conn, NEW s \in Processes, sh' = [sh EXCEPT ![c] = s],
           UNCHANGED <<shm, file, made, usr2, proc, content, typed>>
    PROVE  TypeOK'
BY ProcessStep DEF TypeOK, shm

LEMMA TypesLogin == ASSUME TypeOK, NEW c \in Conn, Login(c) PROVE TypeOK'
<1>1. PICK i \in Id : /\ shm_cli' = [shm_cli EXCEPT ![i] = [valid |-> 1, pid |-> c]]
                      /\ sh' = [sh EXCEPT ![c] = [@ EXCEPT !.pc = "prompt", !.id = i]]
  BY DEF Login, Lowest
<1> DEFINE s == [sh[c] EXCEPT !.pc = "prompt", !.id = i]
<1>2. s \in Processes
  BY ProcessType DEF Processes, Place
<1>3. shm_cli' \in [Id -> [valid : {0, 1}, pid : Conn \cup {Nobody}]]
  BY <1>1 DEF TypeOK
<1> QED
  BY <1>1, <1>2, <1>3, ProcessStep DEF Login, TypeOK

LEMMA TypesGoto ==
    ASSUME TypeOK, NEW c \in Conn, NEW l \in Place, Goto(c, l),
           UNCHANGED <<shm, file, made, usr2, proc, content, typed>>
    PROVE  TypeOK'
<1> DEFINE s == [sh[c] EXCEPT !.pc = l]
<1>2. s \in Processes
  BY ProcessType DEF Processes
<1> QED
  BY <1>2, OnlyProcess DEF Goto

LEMMA TypesFindTarget == ASSUME TypeOK, NEW c \in Conn, FindTarget(c) PROVE TypeOK'
<1> DEFINE n == Num(c)
           m == shm_cli[n].pid
           s == [sh[c] EXCEPT !.pc = "check", !.target_id = n, !.meant = m]
<1>1. CASE Listed(Num(c))
  <2>1. n \in Id /\ m \in Conn \cup {Nobody}
    BY <1>1 DEF TypeOK, Listed
  <2>3. sh' = [sh EXCEPT ![c] = s]
    BY <1>1 DEF FindTarget
  <2> HIDE DEF n, m
  <2>2. s \in Processes
    <3>1. sh[c] \in Processes
      BY ProcessType
    <3>2. "check" \in Place
      BY DEF Place
    <3> QED
      BY <2>1, <3>1, <3>2 DEF Processes
  <2> QED
    BY <2>2, <2>3, OnlyProcess DEF FindTarget
<1>2. CASE ~Listed(Num(c))
  BY <1>2, TypesGoto DEF FindTarget, Goto, Place
<1> QED
  BY <1>1, <1>2

LEMMA TypesFindSource == ASSUME TypeOK, NEW c \in Conn, FindSource(c) PROVE TypeOK'
<1> DEFINE s == [sh[c] EXCEPT !.pc = "offered", !.source_id = Num(c)]
<1>1. CASE Listed(Num(c))
  <2>1. Num(c) \in Id
    BY <1>1 DEF Listed
  <2>2. s \in Processes
    BY <2>1, ProcessType DEF Processes, Place
  <2>3. sh' = [sh EXCEPT ![c] = s]
    BY <1>1 DEF FindSource
  <2> QED
    BY <2>2, <2>3, OnlyProcess DEF FindSource
<1>2. CASE ~Listed(Num(c))
  BY <1>2, TypesGoto DEF FindSource, Goto, Place
<1> QED
  BY <1>1, <1>2

LEMMA TypesReadLine == ASSUME TypeOK, NEW c \in Conn, ReadLine(c) PROVE TypeOK'
<1>1. PICK l \in Line :
          sh' = [sh EXCEPT ![c] = [@ EXCEPT !.pc = IF l.prog = "exit" THEN "slot" ELSE "line",
                       !.line = l, !.in_fd = None, !.source_id = 0, !.target_id = 0]]
  BY DEF ReadLine
<1> DEFINE q == IF l.prog = "exit" THEN "slot" ELSE "line"
           s == [sh[c] EXCEPT !.pc = q, !.line = l, !.in_fd = None, !.source_id = 0, !.target_id = 0]
<1>2. q \in Place /\ l \in Command /\ None \in Fd
  BY LineAssumption, NoneFacts DEF Place
<1> HIDE DEF q
<1>3. s \in Processes
  BY <1>2, ProcessType DEF Processes
<1>4. sh' = [sh EXCEPT ![c] = s]
  BY <1>1 DEF q
<1>5. typed' \in 0 .. MaxLine
  BY MaxLineAssumption DEF ReadLine, TypeOK
<1> HIDE DEF s
<1> QED
  BY <1>3, <1>4, <1>5, ProcessStep DEF ReadLine, TypeOK, shm

(* The redirections of a line, one after the other.                        *)
LEMMA DoneType == ASSUME TypeOK, NEW c \in Conn, Redir(c) # <<>> PROVE Done(c) \in Processes
<1>1. sh[c] \in Processes
  BY ProcessType
<1>2. sh[c].line \in Command
  BY <1>1 DEF Processes
<1>3. Tail(Redir(c)) \in Seq(Redirection)
  BY <1>2 DEF Command, Redir
<1>4. [sh[c].line EXCEPT !.redir = Tail(Redir(c))] \in Command
  BY <1>2, <1>3 DEF Command
<1>5. Done(c) = [sh[c] EXCEPT !.pc = "line", !.line = [sh[c].line EXCEPT !.redir = Tail(Redir(c))]]
  BY <1>1 DEF Done, Redir, Processes
<1> QED
  BY <1>1, <1>4, <1>5 DEF Processes, Place

LEMMA TypesSignal == ASSUME TypeOK, Placed, NEW c \in Conn, Signal(c) PROVE TypeOK'
<1>1. Done(c) \in Processes
  BY DoneType DEF Placed, Signal
<1> QED
  BY <1>1, ProcessStep DEF Signal, TypeOK, shm

LEMMA PairFacts ==
    ASSUME TypeOK, Placed, NEW c \in Conn
    PROVE  /\ sh[c].pc \in {"check", "mkfifo", "name", "signal"} => Out(c) \in Pair
           /\ sh[c].pc \in {"offered", "take", "unlink", "forget", "clean"} => In(c) \in Pair
           /\ sh[c].source_id # 0 /\ sh[c].pc # "away" => In(c) \in Pair
           /\ sh[c].target_id # 0 /\ sh[c].pc # "away" => Out(c) \in Pair
           /\ sh[c].h # 0 => Entry(c) \in Pair /\ Alive(c)
<1>1. sh[c].id \in Id \cup {0} /\ sh[c].target_id \in Id \cup {0} /\ sh[c].source_id \in Id \cup {0}
         /\ sh[c].h \in Id \cup {0}
  BY ProcessType DEF Processes
<1> QED
  BY <1>1 DEF Placed, Out, In, Entry, Pair, Alive

LEMMA TypesGetUserPipeFd == ASSUME TypeOK, Placed, NEW c \in Conn, GetUserPipeFd(c) PROVE TypeOK'
<1>1. In(c) \in Pair
  BY PairFacts DEF GetUserPipeFd, At
<1>2. shm_fifo[In(c)] \in Entries
  BY <1>1 DEF TypeOK
<1> DEFINE d == Done(c)
           o == shm_fifo[In(c)].out_fd
           s == [d EXCEPT !.in_fd = o]
           e == [shm_fifo[In(c)] EXCEPT !.in_fd = FALSE, !.is_used = TRUE]
<1>3. o \in Fd /\ e \in Entries
  BY <1>2 DEF Entries
<1>4. d \in Processes
  BY DoneType DEF Placed, GetUserPipeFd, At
<1>5. sh' = [sh EXCEPT ![c] = s] /\ shm_fifo' = [shm_fifo EXCEPT ![In(c)] = e]
  BY DEF GetUserPipeFd
<1> HIDE DEF d, o, e
<1>6. s \in Processes
  BY <1>3, <1>4 DEF Processes
<1>7. shm_fifo' \in [Pair -> Entries]
  BY <1>1, <1>3, <1>5 DEF TypeOK
<1> HIDE DEF s
<1> QED
  BY <1>5, <1>6, <1>7, ProcessStep DEF GetUserPipeFd, TypeOK

LEMMA EntryType ==
    ASSUME NEW e \in Entries
    PROVE  /\ NoEntry \in Entries
           /\ \A b \in BOOLEAN : [e EXCEPT !.name = b] \in Entries /\ [e EXCEPT !.in_fd = b] \in Entries
           /\ \A x \in Fd : [e EXCEPT !.out_fd = x] \in Entries
           /\ [NoEntry EXCEPT !.name = e.name] \in Entries
<1>1. NoEntry \in Entries
  BY NoneFacts DEF NoEntry, Entries
<1>2. ASSUME NEW f \in Entries, NEW b \in BOOLEAN PROVE [f EXCEPT !.name = b] \in Entries
  BY DEF Entries
<1>3. ASSUME NEW b \in BOOLEAN PROVE [e EXCEPT !.in_fd = b] \in Entries
  BY DEF Entries
<1>4. ASSUME NEW x \in Fd PROVE [e EXCEPT !.out_fd = x] \in Entries
  BY DEF Entries
<1>5. e.name \in BOOLEAN
  BY DEF Entries
<1> QED
  BY <1>1, <1>2, <1>3, <1>4, <1>5

LEMMA TypesEraseUserPipe == ASSUME TypeOK, Placed, NEW c \in Conn, EraseUserPipe(c) PROVE TypeOK'
<1> DEFINE q == IF sh[c].source_id # 0 /\ shm_fifo[In(c)].is_used THEN "unlink" ELSE "prompt"
           s == [sh[c] EXCEPT !.pc = q]
<1>1. q \in Place /\ sh' = [sh EXCEPT ![c] = s]
  BY DEF Place, EraseUserPipe, Goto
<1> HIDE DEF q
<1>2. s \in Processes
  BY <1>1, ProcessType DEF Processes
<1>3. shm_fifo' \in [Pair -> Entries]
  <2>1. CASE sh[c].source_id # 0 /\ shm_fifo[In(c)].is_used
    <3>1. shm_fifo[In(c)] \in Entries
      BY <2>1, PairFacts DEF TypeOK, EraseUserPipe, At
    <3>2. [NoEntry EXCEPT !.name = shm_fifo[In(c)].name] \in Entries
      BY <3>1, EntryType
    <3>3. shm_fifo' = [shm_fifo EXCEPT ![In(c)] = [NoEntry EXCEPT !.name = shm_fifo[In(c)].name]]
      BY <2>1 DEF EraseUserPipe
    <3> QED
      BY <3>2, <3>3 DEF TypeOK
  <2>2. CASE ~(sh[c].source_id # 0 /\ shm_fifo[In(c)].is_used)
    BY <2>2 DEF EraseUserPipe, TypeOK
  <2> QED
    BY <2>1, <2>2
<1> HIDE DEF s
<1> QED
  BY <1>1, <1>2, <1>3, ProcessStep DEF EraseUserPipe, TypeOK

LEMMA SetNameType ==
    ASSUME TypeOK, NEW p \in Pair, NEW b \in BOOLEAN, shm_fifo' = [shm_fifo EXCEPT ![p].name = b]
    PROVE  shm_fifo' \in [Pair -> Entries]
<1>1. [shm_fifo[p] EXCEPT !.name = b] \in Entries
  BY EntryType DEF TypeOK
<1> QED
  BY <1>1 DEF TypeOK

LEMMA TypesNames == ASSUME TypeOK, Placed, NEW c \in Conn, SetName(c) \/ ForgetName(c) PROVE TypeOK'
<1>1. PICK l \in Place : sh' = [sh EXCEPT ![c].pc = l]
  BY DEF SetName, ForgetName, Goto, Place
<1> DEFINE s == [sh[c] EXCEPT !.pc = l]
<1>2. s \in Processes
  BY ProcessType DEF Processes
<1>3. shm_fifo' \in [Pair -> Entries]
  BY SetNameType, PairFacts DEF SetName, ForgetName, At
<1> QED
  BY <1>1, <1>2, <1>3, ProcessStep DEF SetName, ForgetName, TypeOK

LEMMA TypesMkfifo == ASSUME TypeOK, Placed, NEW c \in Conn, Mkfifo(c) PROVE TypeOK'
<1>1. CASE file[Out(c)] # 0
  BY <1>1, TypesGoto DEF Mkfifo, Place
<1>2. CASE file[Out(c)] = 0
  <2>1. /\ content' = Append(content, {}) /\ made' = Append(made, [from |-> c, to |-> sh[c].meant])
        /\ file' = [file EXCEPT ![Out(c)] = Len(made) + 1] /\ sh' = [sh EXCEPT ![c].pc = "name"]
        /\ UNCHANGED <<shm_cli, shm_fifo, usr2, proc, typed>>
    BY <1>2 DEF Mkfifo, Goto, shm
  <2>2. sh[c].meant \in Conn
    BY DEF Placed, Mkfifo, At
  <2>3. /\ made' \in Seq([from : Conn, to : Conn]) /\ Len(made') = Len(made) + 1
        /\ content' \in Seq(SUBSET (1 .. Len(proc'))) /\ Len(content') = Len(made')
    BY <2>1, <2>2 DEF TypeOK
  <2>4. file' \in [Pair -> 0 .. Len(made')]
    BY <2>1, <2>3, PairFacts DEF TypeOK, Mkfifo, At
  <2>5. Len(made) \in Nat /\ 1 .. Len(made) \subseteq 1 .. Len(made') /\ 0 .. Len(made) \subseteq 0 .. Len(made')
    BY <2>3 DEF TypeOK
  <2>6. Fd \subseteq Fd'
    BY <2>5 DEF Fd
  <2>7. Entries \subseteq Entries'
    BY <2>6 DEF Entries
  <2>8. Children \subseteq Children'
    BY <2>5, <2>6 DEF Children
  <2>9. Processes \subseteq Processes'
    BY <2>1, <2>5, <2>6 DEF Processes
  <2> DEFINE s == [sh[c] EXCEPT !.pc = "name"]
  <2>10. s \in Processes
    BY ProcessType DEF Processes, Place
  <2>11. sh' \in [Conn -> Processes']
    BY <2>1, <2>9, <2>10 DEF TypeOK
  <2>12. shm_fifo' \in [Pair -> Entries'] /\ proc' \in Seq(Children')
    BY <2>1, <2>7, <2>8 DEF TypeOK
  <2>13. shm_cli' \in [Id -> [valid : {0, 1}, pid : Conn \cup {Nobody}]] /\ usr2' \subseteq Conn /\ typed' \in 0 .. MaxLine
    BY <2>1 DEF TypeOK
  <2> QED
    BY <2>3, <2>4, <2>11, <2>12, <2>13 DEF TypeOK
<1> QED
  BY <1>1, <1>2

LEMMA TypesExecCmd == ASSUME TypeOK, Placed, NEW c \in Conn, ExecCmd(c) PROVE TypeOK'
<1>1. CASE sh[c].line.prog = "builtin"
  BY <1>1, TypesGoto DEF ExecCmd, Place
<1>2. CASE sh[c].line.prog # "builtin"
  <2> DEFINE q == IF sh[c].target_id = 0 THEN "wait" ELSE "erase"
             n == Len(proc) + 1
             s == [sh[c] EXCEPT !.pc = q, !.child = n]
  <2>1. proc' = Append(proc, Child(c)) /\ sh' = [sh EXCEPT ![c] = s]
        /\ UNCHANGED <<shm, file, made, usr2, content, typed>>
    BY <1>2 DEF ExecCmd
  <2>2. q \in Place
    BY DEF Place
  <2>3. sh[c] \in Processes /\ sh[c].id \in Id
    BY ProcessType DEF Placed, ExecCmd, Ready, At
  <2>4. Child(c) \in Children
    BY <2>3 DEF Child, Children, Processes, Out
  <2>5. proc' \in Seq(Children) /\ Len(proc') = n /\ n \in 0 .. n /\ 0 .. Len(proc) \subseteq 0 .. n
        /\ 1 .. Len(proc) \subseteq 1 .. n
    BY <2>1, <2>4 DEF TypeOK
  <2>6. Processes \subseteq Processes'
    BY <2>1, <2>5 DEF Processes, Fd
  <2>7. Fd' = Fd /\ Entries' = Entries /\ Children' = Children
    BY <2>1 DEF Fd, Entries, Children
  <2> HIDE DEF q
  <2>8. s \in Processes'
    <3>1. sh[c] \in Processes' /\ n \in 0 .. Len(proc')
      BY <2>3, <2>5, <2>6
    <3> HIDE DEF n
    <3> QED
      BY <2>2, <3>1 DEF Processes
  <2>9. sh' \in [Conn -> Processes']
    BY <2>1, <2>6, <2>8 DEF TypeOK
  <2> QED
    BY <2>1, <2>5, <2>7, <2>9 DEF TypeOK, shm
<1> QED
  BY <1>1, <1>2

LEMMA TypesUnlink == ASSUME TypeOK, Placed, NEW c \in Conn, Unlink(c) PROVE TypeOK'
<1> DEFINE s == [sh[c] EXCEPT !.pc = "forget"]
<1>1. s \in Processes
  BY ProcessType DEF Processes, Place
<1>2. file' \in [Pair -> 0 .. Len(made)]
  BY PairFacts DEF Unlink, TypeOK, At
<1>3. Entries' = Entries /\ Processes' = Processes /\ Children' = Children
  BY SameTypes DEF Unlink
<1> QED
  BY <1>1, <1>2, <1>3 DEF Unlink, Goto, TypeOK, shm

LEMMA ChildType == ASSUME TypeOK PROVE \A j \in DOMAIN proc : proc[j] \in Children
BY DEF TypeOK

LEMMA FunSeq ==
    ASSUME NEW S, NEW n \in Nat, NEW f \in [1 .. n -> S]
    PROVE  f \in Seq(S) /\ Len(f) = n
OBVIOUS

LEMMA TypesOpenToWrite ==
    ASSUME TypeOK, Placed, NEW j \in DOMAIN proc, OpenToWrite(j)
    PROVE  TypeOK'
<1> DEFINE k == file[proc[j].to]
           q == IF k = 0 \/ HasReader(k) THEN "record" ELSE "open"
           r == [proc[j] EXCEPT !.wr = k, !.st = q]
<1>1. k \in 0 .. Len(made)
  BY DEF OpenToWrite, Placed, TypeOK
<1>2. q \in {"record", "open"}
  OBVIOUS
<1>3. proc' = [proc EXCEPT ![j] = r]
  BY DEF OpenToWrite
<1>4. \A c \in Conn : sh'[c] = [sh[c] EXCEPT !.woken = @ \/ (k # 0 /\ sh[c].opening = k)]
  BY DEF OpenToWrite
<1>5. DOMAIN sh' = Conn /\ sh' = [c \in Conn |-> sh'[c]]
  BY DEF OpenToWrite
<1> HIDE DEF k, q
<1>6. r \in Children
  BY <1>1, <1>2, ChildType DEF Children
<1> HIDE DEF r
<1>7. proc' \in Seq(Children) /\ Len(proc') = Len(proc)
  BY <1>3, <1>6 DEF TypeOK
<1>8. ASSUME NEW c \in Conn PROVE sh'[c] \in Processes
  <2> DEFINE w == sh[c].woken \/ (k # 0 /\ sh[c].opening = k)
  <2>1. sh'[c] = [sh[c] EXCEPT !.woken = w]
    BY <1>4
  <2>2. w \in BOOLEAN
    OBVIOUS
  <2> HIDE DEF w
  <2> QED
    BY <2>1, <2>2, ProcessType DEF Processes
<1>9. sh' \in [Conn -> Processes]
  BY <1>5, <1>8
<1>10. UNCHANGED <<shm, file, made, usr2, content, typed>>
  BY DEF OpenToWrite
<1>11. Entries' = Entries /\ Processes' = Processes /\ Children' = Children
  BY <1>7, <1>10, SameTypes
<1> QED
  BY <1>7, <1>9, <1>10, <1>11 DEF TypeOK, shm

LEMMA TypesRecord == ASSUME TypeOK, Placed, NEW j \in DOMAIN proc, Record(j) PROVE TypeOK'
<1> DEFINE r == [proc[j] EXCEPT !.st = "run"]
           e == [shm_fifo[proc[j].to] EXCEPT !.in_fd = (proc[j].wr # 0)]
<1>1. proc[j].to \in Pair
  BY DEF Record, Placed
<1>2. e \in Entries
  BY <1>1, EntryType DEF TypeOK
<1>3. r \in Children
  BY ChildType DEF Children
<1>4. proc' = [proc EXCEPT ![j] = r] /\ shm_fifo' = [shm_fifo EXCEPT ![proc[j].to] = e]
      /\ UNCHANGED <<shm_cli, file, made, sh, usr2, content, typed>>
  BY DEF Record
<1> HIDE DEF r, e
<1>5. proc' \in Seq(Children) /\ Len(proc') = Len(proc) /\ shm_fifo' \in [Pair -> Entries]
  BY <1>1, <1>2, <1>3, <1>4 DEF TypeOK
<1>6. Entries' = Entries /\ Processes' = Processes /\ Children' = Children
  BY <1>4, <1>5, SameTypes
<1> QED
  BY <1>4, <1>5, <1>6 DEF TypeOK

LEMMA TypesRun == ASSUME TypeOK, NEW j \in DOMAIN proc, Run(j) PROVE TypeOK'
<1> DEFINE r == [proc[j] EXCEPT !.st = "done"]
           new(k) == (IF k \in Input(j) THEN {} ELSE content[k])
                        \cup (IF k = proc[j].wr /\ HasReader(k) THEN {j} ELSE {})
<1>1. r \in Children
  BY ChildType DEF Children
<1>2. proc' = [proc EXCEPT ![j] = r] /\ content' = [k \in DOMAIN content |-> new(k)]
      /\ UNCHANGED <<shm, file, made, sh, usr2, typed>>
  BY DEF Run
<1>3. j \in 1 .. Len(proc) /\ DOMAIN content = 1 .. Len(made) /\ Len(made) \in Nat
  BY DEF TypeOK
<1>4. ASSUME NEW k \in DOMAIN content PROVE new(k) \in SUBSET (1 .. Len(proc))
  BY <1>3, <1>4 DEF TypeOK
<1> HIDE DEF r, new
<1>5. proc' \in Seq(Children) /\ Len(proc') = Len(proc)
  BY <1>1, <1>2 DEF TypeOK
<1>6. content' \in Seq(SUBSET (1 .. Len(proc))) /\ Len(content') = Len(made)
  BY <1>2, <1>3, <1>4, FunSeq
<1>7. Entries' = Entries /\ Processes' = Processes /\ Children' = Children
  BY <1>2, <1>5, SameTypes
<1> QED
  BY <1>2, <1>5, <1>6, <1>7 DEF TypeOK, shm

LEMMA OnwardsType ==
    ASSUME TypeOK, NEW c \in Conn PROVE Onwards(c) \in Processes
<1> DEFINE m == IF sh[c].h < MaxClient THEN sh[c].h + 1 ELSE 0
<1>1. sh[c] \in Processes
  BY ProcessType
<1>2. m \in Id \cup {0}
  <2>1. sh[c].h \in Id \cup {0}
    BY <1>1 DEF Processes
  <2> QED
    BY <2>1, MaxClientAssumption DEF Id
<1>3. 0 \in 0 .. Len(made)
  BY DEF TypeOK
<1>4. Onwards(c) = [sh[c] EXCEPT !.h = m, !.opening = 0, !.woken = FALSE]
  BY DEF Onwards
<1> HIDE DEF m
<1> QED
  BY <1>1, <1>2, <1>3, <1>4 DEF Processes

LEMMA TypesSkip == ASSUME TypeOK, NEW c \in Conn, CatchSignal(c) \/ SkipEntry(c) PROVE TypeOK'
<1>1. CASE CatchSignal(c)
  <2> DEFINE s == [sh[c] EXCEPT !.h = 1]
  <2>1. s \in Processes
    BY ProcessType, IdFacts DEF Processes
  <2>2. sh' = [sh EXCEPT ![c] = s] /\ usr2' = usr2 \ {c} /\ UNCHANGED <<shm, file, made, proc, content, typed>>
    BY <1>1 DEF CatchSignal
  <2> HIDE DEF s
  <2> QED
    BY <2>1, <2>2, ProcessStep DEF TypeOK, shm
<1>2. CASE SkipEntry(c)
  BY <1>2, OnwardsType, OnlyProcess DEF SkipEntry
<1> QED
  BY <1>1, <1>2

LEMMA TypesOpenToRead == ASSUME TypeOK, Placed, NEW c \in Conn, OpenToRead(c) PROVE TypeOK'
<1> DEFINE k == file[Entry(c)]
           w == Writers(k) # {}
           hd == sh[c].held \cup {k}
           s == [sh[c] EXCEPT !.held = hd, !.opening = k, !.woken = w]
<1>1. k \in 1 .. Len(made)
  <2>1. Entry(c) \in Pair /\ k # 0
    BY PairFacts DEF OpenToRead, ToOpen, InHandler
  <2> QED
    BY <2>1 DEF TypeOK
<1>2. sh[c] \in Processes
  BY ProcessType
<1>3. w \in BOOLEAN /\ hd \in SUBSET (1 .. Len(made))
  BY <1>1, <1>2 DEF Processes
<1>4. /\ sh' = [sh EXCEPT ![c] = s]
      /\ proc' = [j \in DOMAIN proc |-> Connected(proc[j], k)]
      /\ UNCHANGED <<shm, file, made, usr2, content, typed>>
  <2>1. sh' = [sh EXCEPT ![c] = s]
    BY DEF OpenToRead
  <2>2. proc' = [j \in DOMAIN proc |-> Connected(proc[j], k)]
    BY DEF OpenToRead
  <2> QED
    BY <2>1, <2>2 DEF OpenToRead
<1>5. ASSUME NEW j \in DOMAIN proc PROVE Connected(proc[j], k) \in Children
  <2>1. proc[j] \in Children
    BY ChildType
  <2>2. [proc[j] EXCEPT !.st = "record"] \in Children
    BY <2>1 DEF Children
  <2> QED
    BY <2>1, <2>2 DEF Connected
<1>6. DOMAIN proc = 1 .. Len(proc) /\ Len(proc) \in Nat
  BY DEF TypeOK
<1> HIDE DEF k, w, hd
<1>7. s \in Processes
  <2>1. k \in 0 .. Len(made)
    BY <1>1
  <2> QED
    BY <2>1, <1>2, <1>3 DEF Processes
<1> HIDE DEF s
<1>8. proc' \in Seq(Children) /\ Len(proc') = Len(proc)
  BY <1>4, <1>5, <1>6, FunSeq
<1>9. Entries' = Entries /\ Processes' = Processes /\ Children' = Children
  BY <1>4, <1>8, SameTypes
<1> QED
  BY <1>4, <1>7, <1>8, <1>9 DEF TypeOK, shm

LEMMA TypesOpened == ASSUME TypeOK, Placed, NEW c \in Conn, Opened(c) PROVE TypeOK'
<1> DEFINE x == <<c, sh[c].opening>>
           e == [shm_fifo[Entry(c)] EXCEPT !.out_fd = x]
<1>1. Entry(c) \in Pair /\ sh[c].opening \in 1 .. Len(made)
  <2>1. sh[c].opening \in 0 .. Len(made) /\ sh[c].opening # 0 /\ sh[c].h # 0
    BY ProcessType DEF Processes, Opened, Placed
  <2> QED
    BY <2>1, PairFacts DEF TypeOK
<1>2. x \in Fd
  BY <1>1 DEF Fd
<1> HIDE DEF x
<1>3. e \in Entries
  BY <1>1, <1>2, EntryType DEF TypeOK
<1>4. shm_fifo' = [shm_fifo EXCEPT ![Entry(c)] = e]
  BY DEF Opened, x
<1> HIDE DEF e
<1>5. shm_fifo' \in [Pair -> Entries]
  BY <1>1, <1>3, <1>4 DEF TypeOK
<1> QED
  BY <1>5, OnwardsType, ProcessStep DEF Opened, TypeOK

LEMMA TypesFreeSlot == ASSUME TypeOK, Placed, NEW c \in Conn, FreeSlot(c) PROVE TypeOK'
<1> DEFINE s == [sh[c] EXCEPT !.pc = "clean", !.source_id = 1]
<1>1. s \in Processes
  BY ProcessType, IdFacts DEF Processes, Place
<1>2. sh' = [sh EXCEPT ![c] = s]
  BY DEF FreeSlot
<1>3. shm_cli' \in [Id -> [valid : {0, 1}, pid : Conn \cup {Nobody}]]
  BY DEF FreeSlot, TypeOK
<1> HIDE DEF s
<1> QED
  BY <1>1, <1>2, <1>3, ProcessStep DEF FreeSlot, TypeOK

LEMMA TypesClean == ASSUME TypeOK, Placed, NEW c \in Conn, Clean(c) PROVE TypeOK'
<1>1. In(c) \in Pair
  BY PairFacts DEF Clean, At
<1>2. PICK s \in Processes : sh' = [sh EXCEPT ![c] = s]
  <2>1. CASE sh[c].source_id < MaxClient
    <3> DEFINE n == sh[c].source_id + 1
    <3>1. n \in Id
      BY <2>1, MaxClientAssumption DEF Clean, At, Placed, Id
    <3>2. sh' = [sh EXCEPT ![c] = [sh[c] EXCEPT !.source_id = n]]
      BY <2>1 DEF Clean
    <3> HIDE DEF n
    <3>3. [sh[c] EXCEPT !.source_id = n] \in Processes
      BY <3>1, ProcessType DEF Processes
    <3> QED
      BY <3>2, <3>3
  <2>2. CASE ~(sh[c].source_id < MaxClient)
    <3>1. sh' = [sh EXCEPT ![c] = [sh[c] EXCEPT !.pc = "gone"]]
      BY <2>2 DEF Clean
    <3>2. [sh[c] EXCEPT !.pc = "gone"] \in Processes
      BY ProcessType DEF Processes, Place
    <3> QED
      BY <3>1, <3>2
  <2> QED
    BY <2>1, <2>2
<1>3. shm_fifo' \in [Pair -> Entries] /\ file' \in [Pair -> 0 .. Len(made)]
  <2>1. NoEntry \in Entries
    BY <1>1, EntryType DEF TypeOK
  <2>2. shm_fifo' = shm_fifo \/ shm_fifo' = [shm_fifo EXCEPT ![In(c)] = NoEntry]
    BY DEF Clean
  <2>3. file' = file \/ file' = [file EXCEPT ![In(c)] = 0]
    BY DEF Clean
  <2>4. shm_fifo' \in [Pair -> Entries]
    BY <1>1, <2>1, <2>2 DEF TypeOK
  <2>5. file \in [Pair -> 0 .. Len(made)] /\ 0 \in 0 .. Len(made)
    BY DEF TypeOK
  <2>6. file' \in [Pair -> 0 .. Len(made)]
    BY <1>1, <2>3, <2>5
  <2> QED
    BY <2>4, <2>6
<1>4. Entries' = Entries /\ Processes' = Processes /\ Children' = Children
  BY SameTypes DEF Clean
<1> QED
  BY <1>2, <1>3, <1>4 DEF Clean, TypeOK
-----------------------------------------------------------------------------
(* What an action does to the processes, field by field.                   *)

Others(c) == \A d \in Conn : d # c => sh'[d] = sh[d]
SameLine(c) ==
    /\ sh'[c].line = sh[c].line /\ sh'[c].in_fd = sh[c].in_fd
    /\ sh'[c].source_id = sh[c].source_id /\ sh'[c].target_id = sh[c].target_id
    /\ sh'[c].meant = sh[c].meant /\ sh'[c].child = sh[c].child
SameHandler(c) ==
    /\ sh'[c].held = sh[c].held /\ sh'[c].h = sh[c].h
    /\ sh'[c].opening = sh[c].opening /\ sh'[c].woken = sh[c].woken
LEMMA GotoEffect ==
    ASSUME TypeOK, NEW c \in Conn, NEW l, Goto(c, l)
    PROVE  /\ Others(c) /\ sh'[c].pc = l /\ sh'[c].id = sh[c].id
           /\ SameLine(c) /\ SameHandler(c)
<1>1. sh[c] \in Processes /\ DOMAIN sh = Conn
  BY DEF TypeOK
<1>2. sh' = [sh EXCEPT ![c] = [sh[c] EXCEPT !.pc = l]]
  BY DEF Goto
<1> QED
  BY <1>1, <1>2 DEF Processes, Others, SameLine, SameHandler

LEMMA FindTargetEffect ==
    ASSUME TypeOK, NEW c \in Conn, FindTarget(c), Listed(Num(c))
    PROVE  /\ Others(c) /\ sh'[c].pc = "check" /\ sh'[c].target_id = (Num(c))
           /\ sh'[c].meant = (shm_cli[Num(c)].pid) /\ sh'[c].id = sh[c].id
           /\ sh'[c].line = sh[c].line /\ sh'[c].in_fd = sh[c].in_fd
           /\ sh'[c].source_id = sh[c].source_id
           /\ sh'[c].child = sh[c].child /\ SameHandler(c)
<1>1. sh[c] \in Processes /\ DOMAIN sh = Conn
  BY DEF TypeOK
<1> DEFINE n == Num(c)
           m == shm_cli[Num(c)].pid
<1>2. sh' = [sh EXCEPT ![c] = [sh[c] EXCEPT !.pc = "check", !.target_id = n, !.meant = m]]
  BY DEF FindTarget
<1> HIDE DEF n, m
<1>3. /\ Others(c) /\ sh'[c].pc = "check" /\ sh'[c].target_id = n
      /\ sh'[c].meant = m /\ sh'[c].id = sh[c].id /\ sh'[c].line = sh[c].line
      /\ sh'[c].in_fd = sh[c].in_fd /\ sh'[c].source_id = sh[c].source_id
      /\ sh'[c].child = sh[c].child /\ SameHandler(c)
  BY <1>1, <1>2 DEF Processes, Others, SameLine, SameHandler
<1> QED
  BY <1>3, Zenon DEF n, m

LEMMA FindSourceEffect ==
    ASSUME TypeOK, NEW c \in Conn, FindSource(c), Listed(Num(c))
    PROVE  /\ Others(c) /\ sh'[c].pc = "offered"
           /\ sh'[c].source_id = (Num(c)) /\ sh'[c].id = sh[c].id
           /\ sh'[c].line = sh[c].line /\ sh'[c].in_fd = sh[c].in_fd
           /\ sh'[c].target_id = sh[c].target_id
           /\ sh'[c].meant = sh[c].meant /\ sh'[c].child = sh[c].child
           /\ SameHandler(c)
<1>1. sh[c] \in Processes /\ DOMAIN sh = Conn
  BY DEF TypeOK
<1> DEFINE n == Num(c)
<1>2. sh' = [sh EXCEPT ![c] = [sh[c] EXCEPT !.pc = "offered", !.source_id = n]]
  BY DEF FindSource
<1> HIDE DEF n
<1>3. /\ Others(c) /\ sh'[c].pc = "offered" /\ sh'[c].source_id = n
      /\ sh'[c].id = sh[c].id /\ sh'[c].line = sh[c].line
      /\ sh'[c].in_fd = sh[c].in_fd /\ sh'[c].target_id = sh[c].target_id
      /\ sh'[c].meant = sh[c].meant /\ sh'[c].child = sh[c].child
      /\ SameHandler(c)
  BY <1>1, <1>2 DEF Processes, Others, SameLine, SameHandler
<1> QED
  BY <1>3, Zenon DEF n

LEMMA ExecEffect ==
    ASSUME TypeOK, NEW c \in Conn, ExecCmd(c), sh[c].line.prog # "builtin"
    PROVE  /\ Others(c)
           /\ sh'[c].pc = (IF sh[c].target_id = 0 THEN "wait" ELSE "erase")
           /\ sh'[c].child = (Len(proc) + 1) /\ sh'[c].id = sh[c].id
           /\ sh'[c].line = sh[c].line /\ sh'[c].in_fd = sh[c].in_fd
           /\ sh'[c].source_id = sh[c].source_id
           /\ sh'[c].target_id = sh[c].target_id
           /\ sh'[c].meant = sh[c].meant /\ SameHandler(c)
<1>1. sh[c] \in Processes /\ DOMAIN sh = Conn
  BY DEF TypeOK
<1> DEFINE q == IF sh[c].target_id = 0 THEN "wait" ELSE "erase"
           n == Len(proc) + 1
<1>2. sh' = [sh EXCEPT ![c] = [sh[c] EXCEPT !.pc = q, !.child = n]]
  BY DEF ExecCmd
<1> HIDE DEF q, n
<1>3. /\ Others(c) /\ sh'[c].pc = q /\ sh'[c].child = n
      /\ sh'[c].id = sh[c].id /\ sh'[c].line = sh[c].line
      /\ sh'[c].in_fd = sh[c].in_fd /\ sh'[c].source_id = sh[c].source_id
      /\ sh'[c].target_id = sh[c].target_id /\ sh'[c].meant = sh[c].meant
      /\ SameHandler(c)
  BY <1>1, <1>2 DEF Processes, Others, SameLine, SameHandler
<1> QED
  BY <1>3, Zenon DEF q, n

LEMMA CatchSignalEffect ==
    ASSUME TypeOK, NEW c \in Conn, CatchSignal(c)
    PROVE  /\ Others(c) /\ sh'[c].h = 1 /\ sh'[c].pc = sh[c].pc
           /\ sh'[c].id = sh[c].id /\ SameLine(c) /\ sh'[c].held = sh[c].held
           /\ sh'[c].opening = sh[c].opening /\ sh'[c].woken = sh[c].woken
<1>1. sh[c] \in Processes /\ DOMAIN sh = Conn
  BY DEF TypeOK
<1>2. sh' = [sh EXCEPT ![c] = [sh[c] EXCEPT !.h = 1]]
  BY DEF CatchSignal
<1> QED
  BY <1>1, <1>2 DEF Processes, Others, SameLine, SameHandler

LEMMA OpenToReadEffect ==
    ASSUME TypeOK, NEW c \in Conn, OpenToRead(c)
    PROVE  /\ Others(c) /\ sh'[c].held = (sh[c].held \cup {file[Entry(c)]})
           /\ sh'[c].opening = (file[Entry(c)])
           /\ sh'[c].woken = (Writers(file[Entry(c)]) # {})
           /\ sh'[c].pc = sh[c].pc /\ sh'[c].id = sh[c].id /\ SameLine(c)
           /\ sh'[c].h = sh[c].h
<1>1. sh[c] \in Processes /\ DOMAIN sh = Conn
  BY DEF TypeOK
<1> DEFINE k == file[Entry(c)]
           w == Writers(file[Entry(c)]) # {}
           hd == sh[c].held \cup {file[Entry(c)]}
<1>2. sh' = [sh EXCEPT ![c] = [sh[c] EXCEPT !.held = hd, !.opening = k, !.woken = w]]
  BY DEF OpenToRead
<1> HIDE DEF k, w, hd
<1>3. /\ Others(c) /\ sh'[c].held = hd /\ sh'[c].opening = k
      /\ sh'[c].woken = w /\ sh'[c].pc = sh[c].pc /\ sh'[c].id = sh[c].id
      /\ SameLine(c) /\ sh'[c].h = sh[c].h
  BY <1>1, <1>2 DEF Processes, Others, SameLine, SameHandler
<1> QED
  BY <1>3, Zenon DEF k, w, hd

LEMMA FreeSlotEffect ==
    ASSUME TypeOK, NEW c \in Conn, FreeSlot(c)
    PROVE  /\ Others(c) /\ sh'[c].pc = "clean" /\ sh'[c].source_id = 1
           /\ sh'[c].id = sh[c].id /\ sh'[c].line = sh[c].line
           /\ sh'[c].in_fd = sh[c].in_fd
           /\ sh'[c].target_id = sh[c].target_id
           /\ sh'[c].meant = sh[c].meant /\ sh'[c].child = sh[c].child
           /\ SameHandler(c)
<1>1. sh[c] \in Processes /\ DOMAIN sh = Conn
  BY DEF TypeOK
<1>2. sh' = [sh EXCEPT ![c] = [sh[c] EXCEPT !.pc = "clean", !.source_id = 1]]
  BY DEF FreeSlot
<1> QED
  BY <1>1, <1>2 DEF Processes, Others, SameLine, SameHandler

LEMMA CleanEffect ==
    ASSUME TypeOK, NEW c \in Conn, sh' = [sh EXCEPT ![c].source_id = @ + 1]
    PROVE  /\ Others(c) /\ sh'[c].source_id = (sh[c].source_id + 1)
           /\ sh'[c].pc = sh[c].pc /\ sh'[c].id = sh[c].id
           /\ sh'[c].line = sh[c].line /\ sh'[c].in_fd = sh[c].in_fd
           /\ sh'[c].target_id = sh[c].target_id
           /\ sh'[c].meant = sh[c].meant /\ sh'[c].child = sh[c].child
           /\ SameHandler(c)
<1>1. sh[c] \in Processes /\ DOMAIN sh = Conn
  BY DEF TypeOK
<1> DEFINE n == sh[c].source_id + 1
<1>2. sh' = [sh EXCEPT ![c] = [sh[c] EXCEPT !.source_id = n]]
  BY DEF Goto
<1> HIDE DEF n
<1>3. /\ Others(c) /\ sh'[c].source_id = n /\ sh'[c].pc = sh[c].pc
      /\ sh'[c].id = sh[c].id /\ sh'[c].line = sh[c].line
      /\ sh'[c].in_fd = sh[c].in_fd /\ sh'[c].target_id = sh[c].target_id
      /\ sh'[c].meant = sh[c].meant /\ sh'[c].child = sh[c].child
      /\ SameHandler(c)
  BY <1>1, <1>2 DEF Processes, Others, SameLine, SameHandler
<1> QED
  BY <1>3, Zenon DEF n

LEMMA DoneEffect ==
    ASSUME TypeOK, NEW c \in Conn
    PROVE  LET s == Done(c)
           IN  /\ s.pc = "line" /\ s.id = sh[c].id /\ s.line.prog = sh[c].line.prog
               /\ s.line.redir = Tail(Redir(c)) /\ s.in_fd = sh[c].in_fd
               /\ s.source_id = sh[c].source_id /\ s.target_id = sh[c].target_id
               /\ s.meant = sh[c].meant /\ s.child = sh[c].child /\ s.held = sh[c].held
               /\ s.h = sh[c].h /\ s.opening = sh[c].opening /\ s.woken = sh[c].woken
<1>1. sh[c] \in Processes
  BY DEF TypeOK
<1>2. sh[c].line \in Command
  BY <1>1 DEF Processes
<1> DEFINE l == [sh[c].line EXCEPT !.redir = Tail(Redir(c))]
<1>3. l.prog = sh[c].line.prog /\ l.redir = Tail(Redir(c))
  BY <1>2 DEF Command
<1>4. Done(c) = [sh[c] EXCEPT !.pc = "line", !.line = l]
  BY <1>1 DEF Done, Redir, Processes
<1> HIDE DEF l
<1> QED
  BY <1>1, <1>3, <1>4 DEF Processes


LEMMA OnwardsEffect ==
    ASSUME TypeOK, NEW c \in Conn, sh' = [sh EXCEPT ![c] = Onwards(c)]
    PROVE  /\ Others(c) /\ sh'[c].opening = 0 /\ ~sh'[c].woken
           /\ sh[c].h < MaxClient => sh'[c].h = sh[c].h + 1
           /\ ~(sh[c].h < MaxClient) => sh'[c].h = 0
           /\ sh'[c].pc = sh[c].pc /\ sh'[c].id = sh[c].id /\ SameLine(c)
           /\ sh'[c].held = sh[c].held
<1>1. sh[c] \in Processes /\ DOMAIN sh = Conn
  BY DEF TypeOK
<1> DEFINE n == IF sh[c].h < MaxClient THEN sh[c].h + 1 ELSE 0
           w == FALSE
           s == [sh[c] EXCEPT !.h = n, !.opening = 0, !.woken = w]
<1>2. sh' = [sh EXCEPT ![c] = s]
  BY DEF Onwards
<1>3. (sh[c].h < MaxClient => n = sh[c].h + 1) /\ (~(sh[c].h < MaxClient) => n = 0) /\ ~w
  OBVIOUS
<1> HIDE DEF n, w
<1>4. /\ s.h = n /\ s.opening = 0 /\ s.woken = w /\ s.pc = sh[c].pc /\ s.id = sh[c].id
      /\ s.line = sh[c].line /\ s.in_fd = sh[c].in_fd /\ s.source_id = sh[c].source_id
      /\ s.target_id = sh[c].target_id /\ s.meant = sh[c].meant /\ s.child = sh[c].child
      /\ s.held = sh[c].held
  BY <1>1 DEF Processes
<1> HIDE DEF s
<1>5. sh'[c] = s /\ Others(c)
  BY <1>1, <1>2 DEF Others
<1> QED
  BY <1>3, <1>4, <1>5 DEF SameLine

(* What an action does to all variables.                                   *)
AllShell == <<shm_cli, shm_fifo, file, made, usr2, proc, content, typed>>

LEMMA LoginFacts ==
    ASSUME TypeOK, NEW c \in Conn, Login(c)
    PROVE  /\ sh[c].pc = "away" /\ sh'[c].pc = "prompt" /\ Others(c) /\ SameLine(c) /\ SameHandler(c)
           /\ sh'[c].id \in Id /\ shm_cli[sh'[c].id].valid = 0
           /\ \A i \in Id : shm_cli'[i] = IF i = sh'[c].id THEN [valid |-> 1, pid |-> c] ELSE shm_cli[i]
           /\ UNCHANGED <<shm_fifo, file, made, usr2, proc, content>>
<1>1. PICK i \in Id : /\ shm_cli[i].valid = 0
                      /\ shm_cli' = [shm_cli EXCEPT ![i] = [valid |-> 1, pid |-> c]]
                      /\ sh' = [sh EXCEPT ![c] = [@ EXCEPT !.pc = "prompt", !.id = i]]
  BY DEF Login, Lowest
<1>2. sh[c] \in Processes /\ DOMAIN sh = Conn /\ DOMAIN shm_cli = Id
  BY DEF TypeOK
<1>3. /\ Others(c) /\ sh'[c].pc = "prompt" /\ sh'[c].id = i /\ SameLine(c) /\ SameHandler(c)
  BY <1>1, <1>2 DEF Processes, Others, SameLine, SameHandler
<1>4. \A x \in Id : shm_cli'[x] = IF x = i THEN [valid |-> 1, pid |-> c] ELSE shm_cli[x]
  BY <1>1, <1>2
<1> QED
  BY <1>1, <1>3, <1>4 DEF Login

LEMMA ReadLineFacts ==
    ASSUME TypeOK, NEW c \in Conn, ReadLine(c)
    PROVE  /\ sh[c].pc = "prompt" /\ c \notin usr2 /\ sh[c].h = 0
           /\ sh'[c].pc \in {"slot", "line"} /\ Others(c) /\ SameHandler(c) /\ sh'[c].id = sh[c].id
           /\ sh'[c].line \in Line /\ sh'[c].in_fd = None
           /\ sh'[c].source_id = 0 /\ sh'[c].target_id = 0
           /\ UNCHANGED <<shm_cli, shm_fifo, file, made, usr2, proc, content>>
<1>1. PICK l \in Line :
          sh' = [sh EXCEPT ![c] = [@ EXCEPT !.pc = IF l.prog = "exit" THEN "slot" ELSE "line",
                       !.line = l, !.in_fd = None, !.source_id = 0, !.target_id = 0]]
  BY DEF ReadLine
<1> DEFINE q == IF l.prog = "exit" THEN "slot" ELSE "line"
<1>2. sh' = [sh EXCEPT ![c] = [@ EXCEPT !.pc = q, !.line = l, !.in_fd = None,
                                        !.source_id = 0, !.target_id = 0]]
  BY <1>1
<1>3. q \in {"slot", "line"}
  OBVIOUS
<1> HIDE DEF q
<1>4. sh[c] \in Processes /\ DOMAIN sh = Conn
  BY DEF TypeOK
<1>5. /\ Others(c) /\ sh'[c].pc = q /\ sh'[c].line = l /\ sh'[c].in_fd = None
      /\ sh'[c].source_id = 0 /\ sh'[c].target_id = 0 /\ sh'[c].id = sh[c].id /\ SameHandler(c)
  BY <1>2, <1>4 DEF Processes, Others, SameHandler
<1> QED
  BY <1>3, <1>5 DEF ReadLine, At, shm

(* A step from one place to another, and nothing else.                     *)
Moves(c, l) ==
    /\ Others(c) /\ SameLine(c) /\ SameHandler(c) /\ sh'[c].pc = l /\ sh'[c].id = sh[c].id
    /\ c \notin usr2 /\ sh[c].h = 0

LEMMA MoveFacts ==
    ASSUME TypeOK, NEW c \in Conn,
           \/ CheckFree(c) \/ CheckOffered(c) \/ Crash(c) \/ Wait(c)
           \/ FindTarget(c) /\ ~Listed(Num(c))
           \/ FindSource(c) /\ ~Listed(Num(c))
           \/ ExecCmd(c) /\ sh[c].line.prog = "builtin"
    PROVE  /\ \/ sh[c].pc = "check" /\ Moves(c, "prompt")
              \/ sh[c].pc = "check" /\ Moves(c, "mkfifo")
              \/ sh[c].pc = "offered" /\ Moves(c, "prompt")
              \/ sh[c].pc = "offered" /\ Moves(c, "take") /\ shm_fifo[In(c)].out_fd # None
              \/ sh[c].pc = "line" /\ Moves(c, "dead")
              \/ sh[c].pc = "wait" /\ Moves(c, "erase") /\ proc[sh[c].child].st = "done"
              \/ sh[c].pc = "line" /\ Moves(c, "prompt")
              \/ sh[c].pc = "line" /\ Moves(c, "erase") /\ sh[c].line.prog = "builtin"
           /\ UNCHANGED AllShell
<1>1. CASE CheckFree(c)
  BY <1>1, GotoEffect DEF CheckFree, At, Moves, shm, AllShell
<1>2. CASE CheckOffered(c)
  BY <1>2, GotoEffect DEF CheckOffered, At, Moves, shm, AllShell
<1>3. CASE Crash(c)
  BY <1>3, GotoEffect DEF Crash, Ready, At, Moves, shm, AllShell
<1>4. CASE Wait(c)
  BY <1>4, GotoEffect DEF Wait, At, Moves, shm, AllShell
<1>5. CASE FindTarget(c) /\ ~Listed(Num(c))
  <2>1. Goto(c, "prompt")
    BY <1>5 DEF FindTarget, Goto
  <2> QED
    BY <1>5, <2>1, GotoEffect DEF FindTarget, AtRedir, At, Moves, shm, AllShell
<1>6. CASE FindSource(c) /\ ~Listed(Num(c))
  <2>1. Goto(c, "prompt")
    BY <1>6 DEF FindSource, Goto
  <2> QED
    BY <1>6, <2>1, GotoEffect DEF FindSource, AtRedir, At, Moves, shm, AllShell
<1>7. CASE ExecCmd(c) /\ sh[c].line.prog = "builtin"
  BY <1>7, GotoEffect DEF ExecCmd, Ready, At, Moves, shm, AllShell
<1> QED
  BY <1>1, <1>2, <1>3, <1>4, <1>5, <1>6, <1>7

LEMMA FindFacts ==
    ASSUME TypeOK, NEW c \in Conn, FindTarget(c) \/ FindSource(c), Listed(Num(c))
    PROVE  /\ Others(c) /\ SameHandler(c) /\ sh'[c].id = sh[c].id /\ sh'[c].line = sh[c].line
           /\ sh'[c].in_fd = sh[c].in_fd /\ sh'[c].child = sh[c].child
           /\ sh[c].pc = "line" /\ c \notin usr2 /\ sh[c].h = 0 /\ Redir(c) # <<>>
           /\ \/ /\ sh'[c].pc = "check" /\ sh'[c].target_id = Num(c) /\ sh'[c].meant = shm_cli[Num(c)].pid
                 /\ sh'[c].source_id = sh[c].source_id /\ Head(Redir(c)).op = "to"
              \/ /\ sh'[c].pc = "offered" /\ sh'[c].source_id = Num(c)
                 /\ sh'[c].target_id = sh[c].target_id /\ Head(Redir(c)).op = "from"
           /\ UNCHANGED AllShell
<1>1. CASE FindTarget(c)
  BY <1>1, FindTargetEffect DEF FindTarget, AtRedir, At, shm, AllShell
<1>2. CASE FindSource(c)
  BY <1>2, FindSourceEffect DEF FindSource, AtRedir, At, shm, AllShell
<1> QED
  BY <1>1, <1>2

EntriesBut(p) == \A q \in Pair : q # p => shm_fifo'[q] = shm_fifo[q]
FilesBut(p) == \A q \in Pair : q # p => file'[q] = file[q]

LEMMA MkfifoFacts ==
    ASSUME TypeOK, Placed, NEW c \in Conn, Mkfifo(c)
    PROVE  /\ sh[c].pc = "mkfifo" /\ Out(c) \in Pair
           /\ UNCHANGED <<shm_cli, shm_fifo, usr2, proc>>
           /\ \/ file[Out(c)] # 0 /\ Moves(c, "dead") /\ UNCHANGED <<file, made, content>>
              \/ /\ file[Out(c)] = 0 /\ Moves(c, "name")
                 /\ file'[Out(c)] = Len(made) + 1 /\ FilesBut(Out(c))
                 /\ Len(made') = Len(made) + 1
                 /\ \A k \in 1 .. Len(made) : made'[k] = made[k] /\ content'[k] = content[k]
                 /\ made'[Len(made) + 1] = [from |-> c, to |-> sh[c].meant]
                 /\ content'[Len(made) + 1] = {}
                 /\ DOMAIN content = 1 .. Len(made) /\ DOMAIN content' = 1 .. Len(made')
<1>1. Out(c) \in Pair
  BY PairFacts DEF Mkfifo, At
<1>2. CASE file[Out(c)] # 0
  BY <1>1, <1>2, GotoEffect DEF Mkfifo, At, Moves, shm
<1>3. CASE file[Out(c)] = 0
  <2>1. /\ content' = Append(content, {}) /\ made' = Append(made, [from |-> c, to |-> sh[c].meant])
        /\ file' = [file EXCEPT ![Out(c)] = Len(made) + 1] /\ Goto(c, "name")
        /\ UNCHANGED <<shm_cli, shm_fifo, usr2, proc>>
    BY <1>3 DEF Mkfifo, shm
  <2>2. Moves(c, "name") /\ sh[c].pc = "mkfifo"
    BY <2>1, GotoEffect DEF Mkfifo, At, Moves
  <2>3. file'[Out(c)] = Len(made) + 1 /\ FilesBut(Out(c))
    BY <1>1, <2>1 DEF TypeOK, FilesBut
  <2>4. /\ Len(made') = Len(made) + 1
        /\ \A k \in 1 .. Len(made) : made'[k] = made[k]
        /\ made'[Len(made) + 1] = [from |-> c, to |-> sh[c].meant]
    BY <2>1 DEF TypeOK
  <2>5. /\ \A k \in 1 .. Len(made) : content'[k] = content[k]
        /\ content'[Len(made) + 1] = {}
        /\ DOMAIN content = 1 .. Len(made) /\ DOMAIN content' = 1 .. Len(made) + 1
    BY <2>1 DEF TypeOK
  <2> QED
    BY <1>1, <1>3, <2>1, <2>2, <2>3, <2>4, <2>5
<1> QED
  BY <1>2, <1>3

LEMMA NameFacts ==
    ASSUME TypeOK, Placed, NEW c \in Conn, NEW p \in Pair, NEW b \in BOOLEAN,
           shm_fifo' = [shm_fifo EXCEPT ![p].name = b]
    PROVE  /\ EntriesBut(p) /\ shm_fifo'[p].name = b /\ shm_fifo'[p].in_fd = shm_fifo[p].in_fd
           /\ shm_fifo'[p].out_fd = shm_fifo[p].out_fd /\ shm_fifo'[p].is_used = shm_fifo[p].is_used
<1>1. shm_fifo[p] \in Entries /\ DOMAIN shm_fifo = Pair
  BY DEF TypeOK
<1> QED
  BY <1>1 DEF Entries, EntriesBut

LEMMA SetNameFacts ==
    ASSUME TypeOK, Placed, NEW c \in Conn, SetName(c)
    PROVE  /\ sh[c].pc = "name" /\ Out(c) \in Pair /\ c \notin usr2 /\ sh[c].h = 0
           /\ Moves(c, "signal") \/ Moves(c, "dead")
           /\ EntriesBut(Out(c)) /\ shm_fifo'[Out(c)].name
           /\ shm_fifo'[Out(c)].in_fd = shm_fifo[Out(c)].in_fd
           /\ shm_fifo'[Out(c)].out_fd = shm_fifo[Out(c)].out_fd
           /\ shm_fifo'[Out(c)].is_used = shm_fifo[Out(c)].is_used
           /\ UNCHANGED <<shm_cli, file, made, usr2, proc, content>>
<1>1. Out(c) \in Pair
  BY PairFacts DEF SetName, At
<1>2. Moves(c, "signal") \/ Moves(c, "dead")
  BY GotoEffect DEF SetName, At, Moves
<1> DEFINE b == TRUE
<1>3. shm_fifo' = [shm_fifo EXCEPT ![Out(c)].name = b] /\ b \in BOOLEAN
  BY DEF SetName
<1>4. b
  OBVIOUS
<1> HIDE DEF b
<1>5. /\ EntriesBut(Out(c)) /\ shm_fifo'[Out(c)].name = b
      /\ shm_fifo'[Out(c)].in_fd = shm_fifo[Out(c)].in_fd
      /\ shm_fifo'[Out(c)].out_fd = shm_fifo[Out(c)].out_fd
      /\ shm_fifo'[Out(c)].is_used = shm_fifo[Out(c)].is_used
  BY <1>1, <1>3, NameFacts
<1> QED
  BY <1>1, <1>2, <1>4, <1>5 DEF SetName, At

LEMMA ForgetNameFacts ==
    ASSUME TypeOK, Placed, NEW c \in Conn, ForgetName(c)
    PROVE  /\ sh[c].pc = "forget" /\ In(c) \in Pair /\ c \notin usr2 /\ sh[c].h = 0
           /\ Moves(c, "prompt")
           /\ EntriesBut(In(c)) /\ ~shm_fifo'[In(c)].name
           /\ shm_fifo'[In(c)].in_fd = shm_fifo[In(c)].in_fd
           /\ shm_fifo'[In(c)].out_fd = shm_fifo[In(c)].out_fd
           /\ shm_fifo'[In(c)].is_used = shm_fifo[In(c)].is_used
           /\ UNCHANGED <<shm_cli, file, made, usr2, proc, content>>
<1>1. In(c) \in Pair
  BY PairFacts DEF ForgetName, At
<1>2. Moves(c, "prompt")
  BY GotoEffect DEF ForgetName, At, Moves
<1> DEFINE b == FALSE
<1>3. shm_fifo' = [shm_fifo EXCEPT ![In(c)].name = b] /\ b \in BOOLEAN
  BY DEF ForgetName
<1>4. ~b
  OBVIOUS
<1> HIDE DEF b
<1>5. /\ EntriesBut(In(c)) /\ shm_fifo'[In(c)].name = b
      /\ shm_fifo'[In(c)].in_fd = shm_fifo[In(c)].in_fd
      /\ shm_fifo'[In(c)].out_fd = shm_fifo[In(c)].out_fd
      /\ shm_fifo'[In(c)].is_used = shm_fifo[In(c)].is_used
  BY <1>1, <1>3, NameFacts
<1> QED
  BY <1>1, <1>2, <1>4, <1>5 DEF ForgetName, At

LEMMA SignalFacts ==
    ASSUME TypeOK, Placed, NEW c \in Conn, Signal(c)
    PROVE  /\ sh[c].pc = "signal" /\ sh[c].h = 0 /\ sh'[c].pc = "line" /\ Others(c)
           /\ sh'[c].id = sh[c].id /\ SameHandler(c)
           /\ sh'[c].line.prog = sh[c].line.prog /\ sh'[c].line.redir = Tail(Redir(c))
           /\ sh'[c].in_fd = sh[c].in_fd /\ sh'[c].source_id = sh[c].source_id
           /\ sh'[c].target_id = sh[c].target_id
           /\ usr2' = usr2 \cup {d \in Conn : Alive(d) /\ d = shm_cli[sh[c].target_id].pid}
           /\ UNCHANGED <<shm_cli, shm_fifo, file, made, proc, content>>
<1>1. DOMAIN sh = Conn
  BY DEF TypeOK
<1>2. sh'[c] = Done(c) /\ Others(c)
  BY <1>1 DEF Signal, Others
<1> QED
  BY <1>2, DoneEffect DEF Signal, SameHandler, shm

LEMMA GetUserPipeFdFacts ==
    ASSUME TypeOK, Placed, NEW c \in Conn, GetUserPipeFd(c)
    PROVE  /\ sh[c].pc = "take" /\ sh[c].h = 0 /\ c \notin usr2 /\ In(c) \in Pair
           /\ sh'[c].pc = "line" /\ Others(c)
           /\ sh'[c].id = sh[c].id /\ SameHandler(c)
           /\ sh'[c].line.prog = sh[c].line.prog /\ sh'[c].line.redir = Tail(Redir(c))
           /\ sh'[c].in_fd = shm_fifo[In(c)].out_fd /\ sh'[c].source_id = sh[c].source_id
           /\ sh'[c].target_id = sh[c].target_id
           /\ EntriesBut(In(c)) /\ shm_fifo'[In(c)].name = shm_fifo[In(c)].name
           /\ ~shm_fifo'[In(c)].in_fd /\ shm_fifo'[In(c)].is_used
           /\ shm_fifo'[In(c)].out_fd = shm_fifo[In(c)].out_fd
           /\ UNCHANGED <<shm_cli, file, made, usr2, proc, content>>
<1>1. DOMAIN sh = Conn /\ DOMAIN shm_fifo = Pair
  BY DEF TypeOK
<1>2. In(c) \in Pair
  BY PairFacts DEF GetUserPipeFd, At
<1> DEFINE d == Done(c)
           o == shm_fifo[In(c)].out_fd
           f == FALSE
           t == TRUE
           e == [shm_fifo[In(c)] EXCEPT !.in_fd = f, !.is_used = t]
           s == [d EXCEPT !.in_fd = o]
<1>3. sh' = [sh EXCEPT ![c] = s] /\ shm_fifo' = [shm_fifo EXCEPT ![In(c)] = e] /\ ~f /\ t
  BY DEF GetUserPipeFd
<1>4. d \in Processes
  BY DoneType DEF GetUserPipeFd, At, Placed
<1>5. shm_fifo[In(c)] \in Entries
  BY <1>2 DEF TypeOK
<1> HIDE DEF d, o, f, t
<1>6. /\ s.pc = d.pc /\ s.id = d.id /\ s.line = d.line /\ s.in_fd = o /\ s.source_id = d.source_id
      /\ s.target_id = d.target_id /\ s.held = d.held /\ s.h = d.h /\ s.opening = d.opening
      /\ s.woken = d.woken
  BY <1>4 DEF Processes
<1>7. e.name = shm_fifo[In(c)].name /\ e.in_fd = f /\ e.is_used = t /\ e.out_fd = shm_fifo[In(c)].out_fd
  BY <1>5 DEF Entries
<1> HIDE DEF s, e
<1>8. sh'[c] = s /\ Others(c) /\ shm_fifo'[In(c)] = e /\ EntriesBut(In(c))
  BY <1>1, <1>2, <1>3 DEF Others, EntriesBut
<1> QED
  <2>1. /\ d.pc = "line" /\ d.id = sh[c].id /\ d.line.prog = sh[c].line.prog
        /\ d.line.redir = Tail(Redir(c)) /\ d.source_id = sh[c].source_id
        /\ d.target_id = sh[c].target_id /\ d.held = sh[c].held /\ d.h = sh[c].h
        /\ d.opening = sh[c].opening /\ d.woken = sh[c].woken
    BY DoneEffect DEF d
  <2>2. o = shm_fifo[In(c)].out_fd
    BY DEF o
  <2>3. sh[c].pc = "take" /\ sh[c].h = 0 /\ c \notin usr2
        /\ UNCHANGED <<shm_cli, file, made, usr2, proc, content>>
    BY DEF GetUserPipeFd, At
  <2> QED
    BY <1>2, <1>3, <1>6, <1>7, <1>8, <2>1, <2>2, <2>3 DEF SameHandler

LEMMA EraseFacts ==
    ASSUME TypeOK, Placed, NEW c \in Conn, EraseUserPipe(c)
    PROVE  /\ sh[c].pc = "erase"
           /\ \/ Moves(c, "prompt") /\ shm_fifo' = shm_fifo
              \/ /\ Moves(c, "unlink") /\ In(c) \in Pair /\ sh[c].source_id \in Id
                 /\ shm_fifo[In(c)].is_used
                 /\ EntriesBut(In(c)) /\ shm_fifo'[In(c)].name = shm_fifo[In(c)].name
                 /\ ~shm_fifo'[In(c)].in_fd /\ ~shm_fifo'[In(c)].is_used
                 /\ shm_fifo'[In(c)].out_fd = None
           /\ UNCHANGED <<shm_cli, file, made, usr2, proc, content>>
<1>1. CASE sh[c].source_id # 0 /\ shm_fifo[In(c)].is_used
  <2>1. In(c) \in Pair /\ sh[c].source_id \in Id
    BY <1>1, PairFacts, ProcessType DEF EraseUserPipe, At, Processes
  <2>2. shm_fifo' = [shm_fifo EXCEPT ![In(c)] = [NoEntry EXCEPT !.name = shm_fifo[In(c)].name]]
        /\ Goto(c, "unlink")
    BY <1>1 DEF EraseUserPipe
  <2> DEFINE e == [NoEntry EXCEPT !.name = shm_fifo[In(c)].name]
  <2>3. e.name = shm_fifo[In(c)].name /\ ~e.in_fd /\ ~e.is_used /\ e.out_fd = None
    BY DEF NoEntry
  <2>4. DOMAIN shm_fifo = Pair
    BY DEF TypeOK
  <2> HIDE DEF e
  <2>5. shm_fifo'[In(c)] = e /\ EntriesBut(In(c))
    BY <2>1, <2>2, <2>4 DEF EntriesBut, e
  <2> QED
    BY <1>1, <2>1, <2>2, <2>3, <2>5, GotoEffect DEF EraseUserPipe, At, Moves
<1>2. CASE ~(sh[c].source_id # 0 /\ shm_fifo[In(c)].is_used)
  BY <1>2, GotoEffect DEF EraseUserPipe, At, Moves
<1> QED
  BY <1>1, <1>2

LEMMA UnlinkFacts ==
    ASSUME TypeOK, Placed, NEW c \in Conn, Unlink(c)
    PROVE  /\ sh[c].pc = "unlink" /\ In(c) \in Pair /\ Moves(c, "forget")
           /\ FilesBut(In(c))
           /\ shm_fifo[In(c)].name => file'[In(c)] = 0
           /\ ~shm_fifo[In(c)].name => file' = file
           /\ UNCHANGED <<shm_cli, shm_fifo, made, usr2, proc, content>>
<1>1. In(c) \in Pair /\ DOMAIN file = Pair
  BY PairFacts DEF Unlink, At, TypeOK
<1> QED
  BY <1>1, GotoEffect DEF Unlink, At, Moves, FilesBut, shm

SameChild(j) ==
    /\ proc'[j].by = proc[j].by /\ proc'[j].to = proc[j].to /\ proc'[j].rd = proc[j].rd
    /\ proc'[j].held = proc[j].held
OtherChildren(j) == \A i \in DOMAIN proc : i # j => proc'[i] = proc[i]

LEMMA ExecFacts ==
    ASSUME TypeOK, Placed, NEW c \in Conn, ExecCmd(c), sh[c].line.prog # "builtin"
    PROVE  /\ sh[c].pc = "line" /\ Redir(c) = <<>> /\ sh[c].h = 0 /\ c \notin usr2 /\ UsersThere(c)
           /\ Others(c) /\ SameHandler(c) /\ sh'[c].id = sh[c].id /\ sh'[c].line = sh[c].line
           /\ sh'[c].in_fd = sh[c].in_fd /\ sh'[c].source_id = sh[c].source_id
           /\ sh'[c].target_id = sh[c].target_id
           /\ sh'[c].child = Len(proc) + 1
           /\ sh[c].target_id = 0 => sh'[c].pc = "wait"
           /\ sh[c].target_id # 0 => sh'[c].pc = "erase"
           /\ DOMAIN proc = 1 .. Len(proc) /\ DOMAIN proc' = 1 .. Len(proc) + 1 /\ Len(proc) \in Nat
           /\ \A j \in DOMAIN proc : proc'[j] = proc[j]
           /\ LET r == proc'[Len(proc) + 1]
              IN  /\ r.by = c /\ r.to = Out(c) /\ r.wr = 0 /\ r.rd = sh[c].in_fd /\ r.held = sh[c].held
                  /\ sh[c].target_id = 0 => r.st = "run"
                  /\ sh[c].target_id # 0 => r.st = "fork"
           /\ UNCHANGED <<shm_cli, shm_fifo, file, made, usr2, content>>
<1>1. proc' = Append(proc, Child(c)) /\ UNCHANGED <<shm_cli, shm_fifo, file, made, usr2, content>>
  BY DEF ExecCmd, shm
<1> DEFINE r == Child(c)
<1>2. /\ r.by = c /\ r.to = Out(c) /\ r.wr = 0 /\ r.rd = sh[c].in_fd /\ r.held = sh[c].held
      /\ sh[c].target_id = 0 => r.st = "run"
      /\ sh[c].target_id # 0 => r.st = "fork"
  BY DEF Child
<1> HIDE DEF r
<1>3. /\ DOMAIN proc = 1 .. Len(proc) /\ DOMAIN proc' = 1 .. Len(proc) + 1 /\ Len(proc) \in Nat
      /\ \A j \in DOMAIN proc : proc'[j] = proc[j]
      /\ proc'[Len(proc) + 1] = r
  BY <1>1 DEF TypeOK, r
<1>4. /\ Others(c) /\ SameHandler(c) /\ sh'[c].id = sh[c].id /\ sh'[c].line = sh[c].line
      /\ sh'[c].in_fd = sh[c].in_fd /\ sh'[c].source_id = sh[c].source_id
      /\ sh'[c].target_id = sh[c].target_id /\ sh'[c].child = Len(proc) + 1
      /\ sh[c].target_id = 0 => sh'[c].pc = "wait"
      /\ sh[c].target_id # 0 => sh'[c].pc = "erase"
  BY ExecEffect
<1>5. sh[c].pc = "line" /\ Redir(c) = <<>> /\ sh[c].h = 0 /\ c \notin usr2 /\ UsersThere(c)
  BY DEF ExecCmd, Ready, At
<1> QED
  BY <1>1, <1>2, <1>3, <1>4, <1>5

LEMMA CatchSignalFacts ==
    ASSUME TypeOK, Placed, NEW c \in Conn, CatchSignal(c)
    PROVE  /\ Alive(c) /\ sh[c].h = 0 /\ Others(c) /\ SameLine(c) /\ sh'[c].id = sh[c].id
           /\ sh'[c].pc = sh[c].pc /\ sh'[c].h = 1 /\ sh'[c].opening = sh[c].opening
           /\ sh'[c].woken = sh[c].woken /\ sh'[c].held = sh[c].held
           /\ usr2' = usr2 \ {c} /\ UNCHANGED <<shm_cli, shm_fifo, file, made, proc, content>>
BY CatchSignalEffect DEF CatchSignal, shm

(* On to the next entry, or out of the handler.                            *)
GoesOn(c) ==
    /\ Others(c) /\ SameLine(c) /\ sh'[c].id = sh[c].id /\ sh'[c].pc = sh[c].pc
    /\ sh'[c].opening = 0 /\ ~sh'[c].woken /\ sh'[c].held = sh[c].held
    /\ \/ sh[c].h < MaxClient /\ sh'[c].h = sh[c].h + 1
       \/ sh[c].h = MaxClient /\ sh'[c].h = 0

LEMMA OnwardsFacts ==
    ASSUME TypeOK, NEW c \in Conn, sh' = [sh EXCEPT ![c] = Onwards(c)]
    PROVE  GoesOn(c)
<1>1. sh[c].h \in Id \cup {0}
  BY ProcessType DEF Processes
<1>2. sh[c].h < MaxClient \/ sh[c].h = MaxClient
  BY <1>1, MaxClientAssumption DEF Id
<1>3. sh[c].h = MaxClient => ~(sh[c].h < MaxClient)
  BY MaxClientAssumption
<1> QED
  BY <1>2, <1>3, OnwardsEffect DEF GoesOn

LEMMA SkipEntryFacts ==
    ASSUME TypeOK, Placed, NEW c \in Conn, SkipEntry(c)
    PROVE  /\ InHandler(c) /\ ~ToOpen(c) /\ GoesOn(c) /\ UNCHANGED AllShell
BY OnwardsFacts DEF SkipEntry, shm, AllShell

LEMMA OpenedFacts ==
    ASSUME TypeOK, Placed, NEW c \in Conn, Opened(c)
    PROVE  /\ Alive(c) /\ sh[c].woken /\ GoesOn(c) /\ Entry(c) \in Pair /\ sh[c].h \in Id
           /\ sh[c].opening \in 1 .. Len(made)
           /\ EntriesBut(Entry(c)) /\ shm_fifo'[Entry(c)].name = shm_fifo[Entry(c)].name
           /\ shm_fifo'[Entry(c)].in_fd = shm_fifo[Entry(c)].in_fd
           /\ shm_fifo'[Entry(c)].is_used = shm_fifo[Entry(c)].is_used
           /\ shm_fifo'[Entry(c)].out_fd = <<c, sh[c].opening>>
           /\ UNCHANGED <<shm_cli, file, made, usr2, proc, content>>
<1>1. sh[c].h # 0 /\ sh[c].h \in Id \cup {0} /\ sh[c].opening \in 0 .. Len(made) /\ sh[c].opening # 0
  BY ProcessType DEF Processes, Opened, Placed
<1>2. Entry(c) \in Pair /\ sh[c].h \in Id /\ sh[c].opening \in 1 .. Len(made)
  BY <1>1, PairFacts DEF TypeOK
<1> DEFINE x == <<c, sh[c].opening>>
           e == [shm_fifo[Entry(c)] EXCEPT !.out_fd = x]
<1>3. shm_fifo' = [shm_fifo EXCEPT ![Entry(c)] = e]
  BY DEF Opened
<1>4. shm_fifo[Entry(c)] \in Entries /\ DOMAIN shm_fifo = Pair
  BY <1>2 DEF TypeOK
<1> HIDE DEF x
<1>5. e.name = shm_fifo[Entry(c)].name /\ e.in_fd = shm_fifo[Entry(c)].in_fd
      /\ e.is_used = shm_fifo[Entry(c)].is_used /\ e.out_fd = x
  BY <1>4 DEF Entries
<1> HIDE DEF e
<1>6. shm_fifo'[Entry(c)] = e /\ EntriesBut(Entry(c))
  BY <1>2, <1>3, <1>4 DEF EntriesBut
<1> QED
  BY <1>2, <1>5, <1>6, OnwardsFacts DEF Opened, x

LEMMA OpenToReadFacts ==
    ASSUME TypeOK, Placed, NEW c \in Conn, OpenToRead(c)
    PROVE  LET k == file[Entry(c)]
           IN  /\ InHandler(c) /\ ToOpen(c) /\ Entry(c) \in Pair /\ k \in 1 .. Len(made)
               /\ Others(c) /\ SameLine(c) /\ sh'[c].id = sh[c].id /\ sh'[c].pc = sh[c].pc
               /\ sh'[c].h = sh[c].h /\ sh'[c].opening = k
               /\ sh'[c].woken <=> Writers(k) # {}
               /\ sh'[c].held = sh[c].held \cup {k}
               /\ DOMAIN proc' = DOMAIN proc
               /\ \A j \in DOMAIN proc :
                     /\ SameChild(j) /\ proc'[j].wr = proc[j].wr
                     /\ proc[j].st = "open" /\ proc[j].wr = k => proc'[j].st = "record"
                     /\ ~(proc[j].st = "open" /\ proc[j].wr = k) => proc'[j].st = proc[j].st
               /\ UNCHANGED <<shm_cli, shm_fifo, file, made, usr2, content>>
<1> DEFINE k == file[Entry(c)]
<1>1. InHandler(c) /\ ToOpen(c) /\ Entry(c) \in Pair /\ k # 0
      /\ UNCHANGED <<shm_cli, shm_fifo, file, made, usr2, content>>
  BY PairFacts DEF OpenToRead, ToOpen, InHandler, shm
<1>2. k \in 1 .. Len(made)
  BY <1>1 DEF TypeOK
<1>3. /\ Others(c) /\ SameLine(c) /\ sh'[c].id = sh[c].id /\ sh'[c].pc = sh[c].pc
      /\ sh'[c].h = sh[c].h /\ sh'[c].opening = k /\ sh'[c].held = sh[c].held \cup {k}
      /\ sh'[c].woken = (Writers(k) # {})
  BY OpenToReadEffect
<1>4. proc' = [j \in DOMAIN proc |-> Connected(proc[j], k)]
  BY DEF OpenToRead
<1> HIDE DEF k
<1>5. ASSUME NEW j \in DOMAIN proc
      PROVE  /\ SameChild(j) /\ proc'[j].wr = proc[j].wr
             /\ proc[j].st = "open" /\ proc[j].wr = k => proc'[j].st = "record"
             /\ ~(proc[j].st = "open" /\ proc[j].wr = k) => proc'[j].st = proc[j].st
  <2>1. proc'[j] = Connected(proc[j], k)
    BY <1>4
  <2>2. proc[j] \in Children
    BY ChildType
  <2>3. CASE proc[j].st = "open" /\ proc[j].wr = k
    <3>1. proc'[j] = [proc[j] EXCEPT !.st = "record"]
      BY <2>1, <2>3 DEF Connected
    <3> QED
      BY <2>2, <2>3, <3>1 DEF Children, SameChild
  <2>4. CASE ~(proc[j].st = "open" /\ proc[j].wr = k)
    BY <2>1, <2>4 DEF Connected, SameChild
  <2> QED
    BY <2>3, <2>4
<1> QED
  BY <1>1, <1>2, <1>3, <1>4, <1>5 DEF k

LEMMA FreeSlotFacts ==
    ASSUME TypeOK, Placed, NEW c \in Conn, FreeSlot(c)
    PROVE  /\ sh[c].pc = "slot" /\ sh'[c].pc = "clean" /\ sh'[c].source_id = 1 /\ Others(c) /\ SameHandler(c)
           /\ sh'[c].id = sh[c].id /\ sh'[c].line = sh[c].line /\ sh'[c].in_fd = sh[c].in_fd
           /\ sh'[c].target_id = sh[c].target_id
           /\ c \notin usr2 /\ sh[c].h = 0 /\ sh[c].id \in Id
           /\ \A i \in Id : /\ shm_cli'[i].pid = shm_cli[i].pid
                            /\ i # sh[c].id => shm_cli'[i].valid = shm_cli[i].valid
           /\ shm_cli'[sh[c].id].valid = 0
           /\ UNCHANGED <<shm_fifo, file, made, usr2, proc, content>>
<1>1. sh[c].id \in Id
  BY DEF FreeSlot, At, Placed
<1>2. /\ \A i \in Id : /\ shm_cli'[i].pid = shm_cli[i].pid
                       /\ i # sh[c].id => shm_cli'[i].valid = shm_cli[i].valid
      /\ shm_cli'[sh[c].id].valid = 0
  BY <1>1 DEF FreeSlot, TypeOK
<1> QED
  BY <1>1, <1>2, FreeSlotEffect DEF FreeSlot, At

LEMMA CleanFacts ==
    ASSUME TypeOK, Placed, NEW c \in Conn, Clean(c)
    PROVE  LET o == shm_fifo[In(c)].out_fd
           IN  /\ sh[c].pc = "clean" /\ In(c) \in Pair /\ Others(c) /\ SameHandler(c) /\ sh'[c].id = sh[c].id
               /\ c \notin usr2 /\ sh[c].h = 0 /\ sh[c].source_id \in Id
               /\ sh'[c].in_fd = sh[c].in_fd /\ sh'[c].target_id = sh[c].target_id /\ sh'[c].line = sh[c].line
               /\ \/ sh'[c].pc = "clean" /\ sh'[c].source_id = sh[c].source_id + 1 /\ sh'[c].source_id \in Id
                  \/ sh'[c].pc = "gone" /\ sh'[c].source_id = sh[c].source_id /\ sh[c].source_id = MaxClient
               /\ EntriesBut(In(c)) /\ FilesBut(In(c))
               /\ o = None => UNCHANGED <<shm_fifo, file>>
               /\ o # None => /\ shm_fifo'[In(c)].out_fd = None /\ ~shm_fifo'[In(c)].name
                              /\ ~shm_fifo'[In(c)].is_used /\ ~shm_fifo'[In(c)].in_fd
                              /\ o[1] = c => Writers(o[2]) = {}
                              /\ shm_fifo[In(c)].name => file'[In(c)] = 0
                              /\ ~shm_fifo[In(c)].name => file' = file
               /\ UNCHANGED <<shm_cli, made, usr2, proc, content>>
<1>1. In(c) \in Pair /\ sh[c].source_id \in Id /\ DOMAIN shm_fifo = Pair /\ DOMAIN file = Pair
  BY PairFacts DEF Clean, At, Placed, TypeOK
<1>2. \/ sh'[c].pc = "clean" /\ sh'[c].source_id = sh[c].source_id + 1 /\ sh'[c].source_id \in Id
         /\ sh'[c].line = sh[c].line
         /\ Others(c) /\ SameHandler(c) /\ sh'[c].id = sh[c].id
         /\ sh'[c].in_fd = sh[c].in_fd /\ sh'[c].target_id = sh[c].target_id
      \/ sh'[c].pc = "gone" /\ sh'[c].source_id = sh[c].source_id /\ sh[c].source_id = MaxClient
         /\ sh'[c].line = sh[c].line
         /\ Others(c) /\ SameHandler(c) /\ sh'[c].id = sh[c].id
         /\ sh'[c].in_fd = sh[c].in_fd /\ sh'[c].target_id = sh[c].target_id
  <2>1. CASE sh[c].source_id < MaxClient
    <3>1. sh' = [sh EXCEPT ![c].source_id = @ + 1]
      BY <2>1 DEF Clean
    <3>2. sh[c].source_id + 1 \in Id
      BY <1>1, <2>1, MaxClientAssumption DEF Id
    <3> QED
      BY <3>1, <3>2, CleanEffect DEF Clean, At
  <2>2. CASE ~(sh[c].source_id < MaxClient)
    <3>1. Goto(c, "gone")
      BY <2>2 DEF Clean, Goto
    <3>2. sh[c].source_id = MaxClient
      BY <1>1, <2>2, MaxClientAssumption DEF Id
    <3> QED
      BY <3>1, <3>2, GotoEffect DEF SameLine
  <2> QED
    BY <2>1, <2>2
<1>3. shm_fifo[In(c)].out_fd # None =>
        /\ shm_fifo' = [shm_fifo EXCEPT ![In(c)] = NoEntry]
        /\ file' = IF shm_fifo[In(c)].name THEN [file EXCEPT ![In(c)] = 0] ELSE file
        /\ shm_fifo[In(c)].out_fd[1] = c => Writers(shm_fifo[In(c)].out_fd[2]) = {}
  BY DEF Clean
<1>4. shm_fifo[In(c)].out_fd = None => UNCHANGED <<shm_fifo, file>>
  BY DEF Clean
<1>5. ~NoEntry.name /\ ~NoEntry.in_fd /\ ~NoEntry.is_used /\ NoEntry.out_fd = None
  BY DEF NoEntry
<1>6. sh[c].pc = "clean" /\ c \notin usr2 /\ sh[c].h = 0 /\ UNCHANGED <<shm_cli, made, usr2, proc, content>>
  BY DEF Clean, At
<1>7. shm_fifo[In(c)].out_fd # None =>
        /\ EntriesBut(In(c)) /\ FilesBut(In(c)) /\ shm_fifo'[In(c)] = NoEntry
        /\ shm_fifo[In(c)].name => file'[In(c)] = 0
        /\ ~shm_fifo[In(c)].name => file' = file
  BY <1>1, <1>3 DEF EntriesBut, FilesBut
<1>8. shm_fifo[In(c)].out_fd = None => EntriesBut(In(c)) /\ FilesBut(In(c))
  BY <1>4 DEF EntriesBut, FilesBut
<1> QED
  BY <1>1, <1>2, <1>3, <1>4, <1>5, <1>6, <1>7, <1>8

(* A child has opened a FIFO, and woken who opens it for reading.          *)
LEMMA OpenToWriteFacts ==
    ASSUME TypeOK, Placed, NEW j \in DOMAIN proc, OpenToWrite(j)
    PROVE  LET k == file[proc[j].to]
           IN  /\ proc[j].st = "fork" /\ proc[j].to \in Pair
               /\ k \in 0 .. Len(made)
               /\ DOMAIN proc' = DOMAIN proc /\ OtherChildren(j) /\ SameChild(j)
               /\ proc'[j].wr = k
               /\ k = 0 \/ HasReader(k) => proc'[j].st = "record"
               /\ ~(k = 0 \/ HasReader(k)) => proc'[j].st = "open"
               /\ \A c \in Conn :
                     /\ SameLine(c) /\ sh'[c].pc = sh[c].pc /\ sh'[c].id = sh[c].id
                     /\ sh'[c].held = sh[c].held /\ sh'[c].h = sh[c].h /\ sh'[c].opening = sh[c].opening
                     /\ sh'[c].woken <=> sh[c].woken \/ (k # 0 /\ sh[c].opening = k)
               /\ UNCHANGED <<shm_cli, shm_fifo, file, made, usr2, content>>
<1> DEFINE k == file[proc[j].to]
           q == IF k = 0 \/ HasReader(k) THEN "record" ELSE "open"
           r == [proc[j] EXCEPT !.wr = k, !.st = q]
<1>1. k \in 0 .. Len(made) /\ proc[j].st = "fork" /\ proc[j].to \in Pair
  BY DEF OpenToWrite, Placed, TypeOK
<1>2. (k = 0 \/ HasReader(k) => q = "record") /\ (~(k = 0 \/ HasReader(k)) => q = "open")
  OBVIOUS
<1>3. proc' = [proc EXCEPT ![j] = r]
  BY DEF OpenToWrite
<1>4. \A c \in Conn : sh'[c] = [sh[c] EXCEPT !.woken = @ \/ (k # 0 /\ sh[c].opening = k)]
  BY DEF OpenToWrite
<1>5. UNCHANGED <<shm_cli, shm_fifo, file, made, usr2, content>>
  BY DEF OpenToWrite, shm
<1> HIDE DEF k, q
<1>6. r.wr = k /\ r.st = q /\ r.by = proc[j].by /\ r.to = proc[j].to /\ r.rd = proc[j].rd
      /\ r.held = proc[j].held
  BY ChildType DEF Children
<1> HIDE DEF r
<1>7. DOMAIN proc' = DOMAIN proc /\ OtherChildren(j) /\ proc'[j] = r
  BY <1>3 DEF OtherChildren
<1>8. ASSUME NEW c \in Conn
      PROVE  /\ SameLine(c) /\ sh'[c].pc = sh[c].pc /\ sh'[c].id = sh[c].id
             /\ sh'[c].held = sh[c].held /\ sh'[c].h = sh[c].h /\ sh'[c].opening = sh[c].opening
             /\ sh'[c].woken <=> sh[c].woken \/ (k # 0 /\ sh[c].opening = k)
  <2> DEFINE w == sh[c].woken \/ (k # 0 /\ sh[c].opening = k)
  <2>1. sh'[c] = [sh[c] EXCEPT !.woken = w]
    BY <1>4
  <2>2. w <=> sh[c].woken \/ (k # 0 /\ sh[c].opening = k)
    OBVIOUS
  <2> HIDE DEF w
  <2>3. /\ SameLine(c) /\ sh'[c].pc = sh[c].pc /\ sh'[c].id = sh[c].id
        /\ sh'[c].held = sh[c].held /\ sh'[c].h = sh[c].h /\ sh'[c].opening = sh[c].opening
        /\ sh'[c].woken = w
    BY <2>1, ProcessType DEF Processes, SameLine
  <2> QED
    BY <2>2, <2>3
<1>9. SameChild(j)
  BY <1>6, <1>7 DEF SameChild
<1> QED
  BY <1>1, <1>2, <1>5, <1>6, <1>7, <1>8, <1>9 DEF k

LEMMA RecordFacts ==
    ASSUME TypeOK, Placed, NEW j \in DOMAIN proc, Record(j)
    PROVE  LET p == proc[j].to
           IN  /\ proc[j].st = "record" /\ p \in Pair
               /\ DOMAIN proc' = DOMAIN proc /\ OtherChildren(j) /\ SameChild(j)
               /\ proc'[j].wr = proc[j].wr /\ proc'[j].st = "run"
               /\ EntriesBut(p) /\ shm_fifo'[p].name = shm_fifo[p].name
               /\ shm_fifo'[p].in_fd <=> proc[j].wr # 0
               /\ shm_fifo'[p].out_fd = shm_fifo[p].out_fd /\ shm_fifo'[p].is_used = shm_fifo[p].is_used
               /\ UNCHANGED <<shm_cli, file, made, sh, usr2, content>>
<1> DEFINE r == [proc[j] EXCEPT !.st = "run"]
           b == proc[j].wr # 0
           e == [shm_fifo[proc[j].to] EXCEPT !.in_fd = b]
<1>1. proc[j].to \in Pair /\ proc[j].st = "record" /\ DOMAIN shm_fifo = Pair
  BY DEF Record, Placed, TypeOK
<1>2. shm_fifo[proc[j].to] \in Entries /\ proc[j] \in Children
  BY <1>1, ChildType DEF TypeOK
<1>3. b <=> proc[j].wr # 0
  OBVIOUS
<1>4. proc' = [proc EXCEPT ![j] = r] /\ shm_fifo' = [shm_fifo EXCEPT ![proc[j].to] = e]
      /\ UNCHANGED <<shm_cli, file, made, sh, usr2, content>>
  BY DEF Record
<1> HIDE DEF b
<1>5. /\ r.wr = proc[j].wr /\ r.st = "run" /\ r.by = proc[j].by /\ r.to = proc[j].to /\ r.rd = proc[j].rd
      /\ r.held = proc[j].held
  BY <1>2 DEF Children
<1>6. e.name = shm_fifo[proc[j].to].name /\ e.in_fd = b /\ e.out_fd = shm_fifo[proc[j].to].out_fd
      /\ e.is_used = shm_fifo[proc[j].to].is_used
  BY <1>2 DEF Entries
<1> HIDE DEF r, e
<1>7. DOMAIN proc' = DOMAIN proc /\ OtherChildren(j) /\ proc'[j] = r
      /\ shm_fifo'[proc[j].to] = e /\ EntriesBut(proc[j].to)
  BY <1>1, <1>4 DEF OtherChildren, EntriesBut
<1> QED
  BY <1>1, <1>3, <1>4, <1>5, <1>6, <1>7 DEF SameChild

LEMMA RunFacts ==
    ASSUME TypeOK, NEW j \in DOMAIN proc, Run(j)
    PROVE  /\ proc[j].st = "run" /\ \A k \in Input(j) : Writers(k) = {}
           /\ DOMAIN proc' = DOMAIN proc /\ OtherChildren(j) /\ SameChild(j)
           /\ proc'[j].wr = proc[j].wr /\ proc'[j].st = "done"
           /\ DOMAIN content' = DOMAIN content
           /\ \A k \in DOMAIN content :
                 content'[k] = (IF k \in Input(j) THEN {} ELSE content[k])
                                 \cup (IF k = proc[j].wr /\ HasReader(k) THEN {j} ELSE {})
           /\ UNCHANGED <<shm_cli, shm_fifo, file, made, sh, usr2>>
<1> DEFINE r == [proc[j] EXCEPT !.st = "done"]
           new(k) == (IF k \in Input(j) THEN {} ELSE content[k])
                        \cup (IF k = proc[j].wr /\ HasReader(k) THEN {j} ELSE {})
<1>1. proc' = [proc EXCEPT ![j] = r] /\ content' = [k \in DOMAIN content |-> new(k)]
      /\ UNCHANGED <<shm_cli, shm_fifo, file, made, sh, usr2>>
      /\ proc[j].st = "run" /\ \A k \in Input(j) : Writers(k) = {}
  BY DEF Run, shm
<1>2. r.wr = proc[j].wr /\ r.st = "done" /\ r.by = proc[j].by /\ r.to = proc[j].to /\ r.rd = proc[j].rd
      /\ r.held = proc[j].held
  BY ChildType DEF Children
<1> HIDE DEF r
<1>3. DOMAIN proc' = DOMAIN proc /\ OtherChildren(j) /\ proc'[j] = r
  BY <1>1 DEF OtherChildren
<1>4. SameChild(j)
  BY <1>2, <1>3 DEF SameChild
<1> QED
  BY <1>1, <1>2, <1>3, <1>4

-----------------------------------------------------------------------------
(* Placed and Named are invariants.                                        *)

LEMMA MadeType ==
    ASSUME TypeOK
    PROVE  /\ \A k \in 1 .. Len(made) : made[k].from \in Conn /\ made[k].to \in Conn
           /\ \A p \in Pair : file[p] # 0 =>
                 file[p] \in 1 .. Len(made) /\ made[file[p]].from \in Conn /\ made[file[p]].to \in Conn
<1> DEFINE S == [from : Conn, to : Conn]
<1>1. \A k \in 1 .. Len(made) : made[k] \in S
  <2>1. made \in Seq(S)
    BY DEF TypeOK
  <2> HIDE DEF S
  <2> QED
    BY <2>1
<1>2. \A p \in Pair : file[p] # 0 => file[p] \in 1 .. Len(made)
  <2>1. file \in [Pair -> 0 .. Len(made)] /\ Len(made) \in Nat
    BY DEF TypeOK
  <2>2. \A p \in Pair : file[p] \in 0 .. Len(made)
    BY <2>1
  <2> QED
    BY <2>1, <2>2
<1> QED
  BY <1>1, <1>2

(* Only Login gives an id.                                                 *)
LEMMA SameIds ==
    ASSUME TypeOK, Placed, NEW c \in Conn, ReadLine(c) \/ ShellStep(c) \/ Handler(c)
    PROVE  \A d \in Conn : sh'[d].id = sh[d].id
<1>1. CASE ReadLine(c)
  BY <1>1, ReadLineFacts DEF Others
<1>2. CASE Handler(c)
  BY <1>2, CatchSignalFacts, SkipEntryFacts, OpenToReadFacts, OpenedFacts DEF Others, Handler, GoesOn
<1>3. CASE \/ CheckFree(c) \/ CheckOffered(c) \/ Crash(c) \/ Wait(c)
           \/ FindTarget(c) /\ ~Listed(Num(c))
           \/ FindSource(c) /\ ~Listed(Num(c))
           \/ ExecCmd(c) /\ sh[c].line.prog = "builtin"
  <2>1. \E l \in Place : Moves(c, l)
    BY <1>3, MoveFacts DEF Place
  <2> QED
    BY <2>1 DEF Moves, Others
<1>4. CASE (FindTarget(c) \/ FindSource(c)) /\ Listed(Num(c))
  BY <1>4, FindFacts DEF Others
<1>5. CASE Mkfifo(c) \/ SetName(c) \/ EraseUserPipe(c) \/ Unlink(c) \/ ForgetName(c)
  <2>1. \E l \in Place : Moves(c, l)
    BY <1>5, MkfifoFacts, SetNameFacts, EraseFacts, UnlinkFacts, ForgetNameFacts DEF Place
  <2> QED
    BY <2>1 DEF Moves, Others
<1>6. CASE Signal(c) \/ GetUserPipeFd(c)
  BY <1>6, SignalFacts, GetUserPipeFdFacts DEF Others
<1>7. CASE ExecCmd(c) /\ sh[c].line.prog # "builtin"
  BY <1>7, ExecFacts DEF Others
<1>8. CASE FreeSlot(c) \/ Clean(c)
  BY <1>8, FreeSlotFacts, CleanFacts DEF Others
<1> QED
  BY <1>1, <1>2, <1>3, <1>4, <1>5, <1>6, <1>7, <1>8 DEF ShellStep

LEMMA PlacedLogin == ASSUME TypeOK, Placed, Named, NEW c \in Conn, Login(c) PROVE Placed' /\ Named'
<1>1. /\ sh[c].pc = "away" /\ sh'[c].pc = "prompt" /\ Others(c) /\ SameLine(c) /\ SameHandler(c)
      /\ sh'[c].id \in Id
      /\ \A i \in Id : shm_cli'[i] = IF i = sh'[c].id THEN [valid |-> 1, pid |-> c] ELSE shm_cli[i]
      /\ UNCHANGED <<file, made, proc>>
  BY LoginFacts
<1>2. sh[c].id = 0 /\ 0 \notin Id
  BY <1>1, IdFacts DEF Placed
<1>3. Placed'
  <2>1. \A i \in Id : (shm_cli[i].valid = 1 => shm_cli[i].pid \in Conn /\ sh[shm_cli[i].pid].id = i)'
    BY <1>1, <1>2 DEF Placed, Others
  <2>2. \A d \in Conn : sh[d].pc \in {"check", "mkfifo"} => sh[d].target_id \in Id
    BY DEF Placed
  <2> QED
    BY <1>1, <1>2, <2>1, <2>2 DEF Placed, Others, SameLine, SameHandler, Redir, Alive
<1>4. Named'
  <2>1. \A p \in Pair : file[p] # 0 => made[file[p]].from \in Conn /\ made[file[p]].to \in Conn
    BY MadeType
  <2> QED
    BY <1>1, <1>2, <2>1 DEF Named, Pair, Others
<1> QED
  BY <1>3, <1>4

LEMMA PlacedReadLine == ASSUME TypeOK, Placed, NEW c \in Conn, ReadLine(c) PROVE Placed'
<1>1. sh'[c].pc \notin {"away", "check", "mkfifo", "name", "signal", "offered", "take", "unlink",
                        "forget", "clean", "wait", "gone", "dead"}
  BY ReadLineFacts
<1> QED
  BY <1>1, ReadLineFacts DEF Placed, Others, SameHandler, Redir, Alive

MovesOn(c) ==
    \E l \in Place :
       /\ Moves(c, l)
       /\ sh[c].pc # "away"
       /\ \/ l \in {"prompt", "dead", "erase"}
          \/ l = "mkfifo" /\ sh[c].pc = "check"
          \/ l = "take" /\ sh[c].pc = "offered"
          \/ l = "name" /\ sh[c].pc = "mkfifo"
          \/ l = "signal" /\ sh[c].pc = "name"
          \/ l = "unlink" /\ sh[c].source_id \in Id
          \/ l = "forget" /\ sh[c].pc = "unlink"

LEMMA PlacedMove ==
    ASSUME TypeOK, Placed, NEW c \in Conn, MovesOn(c), UNCHANGED <<shm_cli, proc>>
    PROVE  Placed'
BY DEF Placed, MovesOn, Moves, Others, SameLine, SameHandler, Redir, Alive

LEMMA PlacedFind ==
    ASSUME TypeOK, Placed, NEW c \in Conn, FindTarget(c) \/ FindSource(c), Listed(Num(c))
    PROVE  Placed'
<1>1. /\ Num(c) \in Id
      /\ shm_cli[Num(c)].pid \in Conn /\ sh[shm_cli[Num(c)].pid].id = Num(c)
  BY DEF Listed, Placed
<1> QED
  BY <1>1, FindFacts DEF Placed, AllShell, Others, SameHandler, Redir, Alive

LEMMA PlacedDone ==
    ASSUME TypeOK, Placed, NEW c \in Conn, Signal(c) \/ GetUserPipeFd(c)
    PROVE  Placed'
<1>1. /\ sh[c].pc \in {"signal", "take"} /\ sh[c].h = 0 /\ sh'[c].pc = "line" /\ Others(c)
      /\ sh'[c].id = sh[c].id /\ SameHandler(c)
      /\ UNCHANGED <<shm_cli, proc>>
  BY SignalFacts, GetUserPipeFdFacts
<1> QED
  BY <1>1 DEF Placed, Others, SameHandler, Redir, Alive

LEMMA PlacedExec ==
    ASSUME TypeOK, Placed, NEW c \in Conn, ExecCmd(c), sh[c].line.prog # "builtin"
    PROVE  Placed'
<1>1. \A d \in Conn : sh'[d].pc = sh[d].pc \/ (d = c /\ sh'[d].pc = "erase")
                        \/ (d = c /\ sh'[d].pc = "wait" /\ sh'[d].child \in DOMAIN proc')
  BY ExecFacts DEF Others
<1>2. sh[c].target_id # 0 => Out(c) \in Pair
  BY PairFacts, ExecFacts
<1>3. \A j \in DOMAIN proc' :
        (/\ proc[j].st = "fork" \/ proc[j].wr # 0 => proc[j].to \in Pair
         /\ proc[j].st \in {"open", "record"} => proc[j].to \in Pair
         /\ proc[j].st = "fork" => proc[j].wr = 0)'
  BY <1>2, ExecFacts DEF Placed
<1>4. /\ sh[c].pc = "line" /\ Others(c) /\ SameHandler(c) /\ sh'[c].id = sh[c].id /\ sh'[c].line = sh[c].line
      /\ sh[c].target_id = 0 => sh'[c].pc = "wait"
      /\ sh[c].target_id # 0 => sh'[c].pc = "erase"
      /\ DOMAIN proc \subseteq DOMAIN proc' /\ sh'[c].child \in DOMAIN proc'
      /\ shm_cli' = shm_cli
  BY ExecFacts
<1> QED
  BY <1>3, <1>4 DEF Placed, Others, SameHandler, Redir, Alive

LEMMA PlacedHandler ==
    ASSUME TypeOK, Placed, NEW c \in Conn, Handler(c)
    PROVE  Placed'
<1>1. CASE CatchSignal(c)
  BY <1>1, CatchSignalFacts, IdFacts DEF Placed, Others, SameLine, Redir, Alive
<1>2. CASE SkipEntry(c)
  BY <1>2, SkipEntryFacts DEF Placed, Others, SameLine, Redir, Alive, GoesOn, AllShell, InHandler
<1>3. CASE OpenToRead(c)
  <2>1. \A j \in DOMAIN proc' :
        (/\ proc[j].st = "fork" \/ proc[j].wr # 0 => proc[j].to \in Pair
         /\ proc[j].st \in {"open", "record"} => proc[j].to \in Pair)'
    BY <1>3, OpenToReadFacts DEF Placed, SameChild
  <2> QED
    BY <1>3, <2>1, OpenToReadFacts DEF Placed, Others, SameLine, Redir, Alive, InHandler
<1>4. CASE Opened(c)
  BY <1>4, OpenedFacts DEF Placed, Others, SameLine, Redir, Alive, GoesOn
<1> QED
  BY <1>1, <1>2, <1>3, <1>4 DEF Handler

LEMMA PlacedLogout ==
    ASSUME TypeOK, Placed, NEW c \in Conn, FreeSlot(c) \/ Clean(c)
    PROVE  Placed'
<1>1. CASE FreeSlot(c)
  BY <1>1, FreeSlotFacts, IdFacts DEF Placed, Others, SameHandler, Redir, Alive
<1>2. CASE Clean(c)
  BY <1>2, CleanFacts DEF Placed, Others, SameHandler, Redir, Alive
<1> QED
  BY <1>1, <1>2

LEMMA PlacedChild ==
    ASSUME TypeOK, Placed, NEW j \in DOMAIN proc, ChildStep(j)
    PROVE  Placed'
<1>1. CASE OpenToWrite(j)
  BY <1>1, OpenToWriteFacts DEF Placed, SameChild, OtherChildren, SameLine, Redir, Alive
<1>2. CASE Record(j)
  BY <1>2, RecordFacts DEF Placed, SameChild, OtherChildren, Redir, Alive
<1>3. CASE Run(j)
  BY <1>3, RunFacts DEF Placed, SameChild, OtherChildren, Redir, Alive
<1> QED
  BY <1>1, <1>2, <1>3 DEF ChildStep

LEMMA PlacedStep == ASSUME TypeOK, Placed, Named, Next PROVE Placed'
<1>1. CASE \E j \in DOMAIN proc : ChildStep(j)
  BY <1>1, PlacedChild
<1>2. ASSUME NEW c \in Conn, Login(c) \/ ReadLine(c) \/ ShellStep(c) \/ Handler(c)
      PROVE  Placed'
  <2>1. CASE Login(c)
    BY <2>1, PlacedLogin
  <2>2. CASE ReadLine(c)
    BY <2>2, PlacedReadLine
  <2>3. CASE Handler(c)
    BY <2>3, PlacedHandler
  <2>4. CASE \/ CheckFree(c) \/ CheckOffered(c) \/ Crash(c) \/ Wait(c)
             \/ FindTarget(c) /\ ~Listed(Num(c))
             \/ FindSource(c) /\ ~Listed(Num(c))
             \/ ExecCmd(c) /\ sh[c].line.prog = "builtin"
    <3>1. MovesOn(c) /\ UNCHANGED <<shm_cli, proc>>
      BY <2>4, MoveFacts DEF MovesOn, Place, AllShell
    <3> QED
      BY <3>1, PlacedMove
  <2>5. CASE (FindTarget(c) \/ FindSource(c)) /\ Listed(Num(c))
    BY <2>5, PlacedFind
  <2>6. CASE Mkfifo(c)
    <3>1. MovesOn(c) /\ UNCHANGED <<shm_cli, proc>>
      BY <2>6, MkfifoFacts DEF MovesOn, Place
    <3> QED
      BY <3>1, PlacedMove
  <2>7. CASE SetName(c)
    <3>1. MovesOn(c) /\ UNCHANGED <<shm_cli, proc>>
      BY <2>7, SetNameFacts DEF MovesOn, Place
    <3> QED
      BY <3>1, PlacedMove
  <2>8. CASE Signal(c) \/ GetUserPipeFd(c)
    BY <2>8, PlacedDone
  <2>9. CASE ExecCmd(c) /\ sh[c].line.prog # "builtin"
    BY <2>9, PlacedExec
  <2>10. CASE EraseUserPipe(c)
    <3>1. MovesOn(c) /\ UNCHANGED <<shm_cli, proc>>
      BY <2>10, EraseFacts DEF MovesOn, Place
    <3> QED
      BY <3>1, PlacedMove
  <2>11. CASE Unlink(c)
    <3>1. MovesOn(c) /\ UNCHANGED <<shm_cli, proc>>
      BY <2>11, UnlinkFacts DEF MovesOn, Place
    <3> QED
      BY <3>1, PlacedMove
  <2>12. CASE ForgetName(c)
    <3>1. MovesOn(c) /\ UNCHANGED <<shm_cli, proc>>
      BY <2>12, ForgetNameFacts DEF MovesOn, Place
    <3> QED
      BY <3>1, PlacedMove
  <2>13. CASE FreeSlot(c) \/ Clean(c)
    BY <2>13, PlacedLogout
  <2> QED
    BY <1>2, <2>1, <2>2, <2>3, <2>4, <2>5, <2>6, <2>7, <2>8, <2>9, <2>10, <2>11, <2>12, <2>13 DEF ShellStep
<1> QED
  BY <1>1, <1>2 DEF Next

LEMMA NamedStep == ASSUME TypeOK, Placed, Named, Next PROVE Named'
<1>1. CASE \E c \in Conn : Login(c)
  BY <1>1, PlacedLogin
<1>2. ASSUME NEW c \in Conn, Mkfifo(c), file[Out(c)] = 0 PROVE Named'
  <2>1. /\ sh[c].pc = "mkfifo" /\ Out(c) \in Pair /\ Moves(c, "name") /\ FilesBut(Out(c))
        /\ file'[Out(c)] = Len(made) + 1
        /\ \A k \in 1 .. Len(made) : made'[k] = made[k]
        /\ made'[Len(made) + 1] = [from |-> c, to |-> sh[c].meant]
    BY <1>2, MkfifoFacts
  <2>2. /\ \A p \in Pair : file[p] \in 0 .. Len(made)
        /\ Len(made) \in Nat
    BY DEF TypeOK
  <2>3. sh[c].meant \in Conn /\ sh[sh[c].meant].id = sh[c].target_id
    BY <2>1 DEF Placed
  <2>4. \A d \in Conn : sh'[d].id = sh[d].id
    BY <2>1 DEF Moves, Others
  <2>5. made'[Len(made) + 1].from = c /\ made'[Len(made) + 1].to = sh[c].meant
    BY <2>1
  <2>6. ASSUME NEW p \in Pair, file'[p] # 0
        PROVE  (sh[made[file[p]].from].id = p[1] /\ sh[made[file[p]].to].id = p[2])'
    <3>1. CASE p = Out(c)
      BY <2>1, <2>3, <2>4, <2>5, <3>1 DEF Out
    <3>2. CASE p # Out(c)
      <4>1. file'[p] = file[p] /\ file[p] \in 1 .. Len(made)
        BY <2>1, <2>2, <2>6, <3>2 DEF FilesBut
      <4>2. made'[file[p]] = made[file[p]]
        BY <2>1, <4>1
      <4>3. made[file[p]].from \in Conn /\ made[file[p]].to \in Conn
        BY <4>1, MadeType
      <4>4. sh[made[file[p]].from].id = p[1] /\ sh[made[file[p]].to].id = p[2]
        BY <4>1, IdFacts DEF Named
      <4> QED
        BY <2>4, <4>1, <4>2, <4>3, <4>4
    <3> QED
      BY <3>1, <3>2
  <2>7. \A p, q \in Pair : file'[p] = file'[q] /\ file'[p] # 0 => p = q
    BY <2>1, <2>2 DEF Named, FilesBut
  <2> QED
    BY <2>6, <2>7 DEF Named
<1>3. ASSUME \A d \in Conn : sh'[d].id = sh[d].id, made' = made,
             \A p \in Pair : file'[p] = file[p] \/ file'[p] = 0
      PROVE  Named'
  BY <1>3, MadeType DEF Named
<1>4. ASSUME NEW c \in Conn, ReadLine(c) \/ ShellStep(c) \/ Handler(c), ~(Mkfifo(c) /\ file[Out(c)] = 0)
      PROVE  Named'
  <2>1. \A d \in Conn : sh'[d].id = sh[d].id
    BY <1>4, SameIds
  <2>2. made' = made /\ \A p \in Pair : file'[p] = file[p] \/ file'[p] = 0
    <3>1. CASE Unlink(c)
      BY <3>1, UnlinkFacts DEF FilesBut
    <3>2. CASE Clean(c)
      <4>1. /\ FilesBut(In(c)) /\ made' = made
            /\ file' = file \/ file'[In(c)] = 0
        BY <3>2, CleanFacts
      <4> QED
        BY <4>1 DEF FilesBut
    <3>3. CASE UNCHANGED <<made, file>>
      BY <3>3
    <3> QED
      BY <1>4, <3>1, <3>2, <3>3
         DEF ReadLine, ShellStep, Handler, FindTarget, CheckFree, Mkfifo, SetName, Signal, FindSource,
             CheckOffered, GetUserPipeFd, Crash, ExecCmd, Wait, EraseUserPipe, ForgetName, FreeSlot,
             CatchSignal, SkipEntry, OpenToRead, Opened
  <2> QED
    BY <1>3, <2>1, <2>2
<1>5. ASSUME NEW j \in DOMAIN proc, ChildStep(j) PROVE Named'
  <2>1. \A d \in Conn : sh'[d].id = sh[d].id
    BY <1>5, OpenToWriteFacts, RecordFacts, RunFacts DEF ChildStep
  <2>2. made' = made /\ file' = file
    BY <1>5 DEF ChildStep, OpenToWrite, Record, Run
  <2> QED
    BY <1>3, <2>1, <2>2
<1> QED
  BY <1>1, <1>2, <1>4, <1>5 DEF Next

LEMMA TypesStep == ASSUME TypeOK, Placed, Next PROVE TypeOK'
<1>1. ASSUME NEW c \in Conn, Login(c) \/ ReadLine(c) \/ ShellStep(c) \/ Handler(c)
      PROVE  TypeOK'
  <2>1. CASE CheckFree(c) \/ CheckOffered(c) \/ Crash(c) \/ Wait(c)
    BY <2>1, TypesGoto DEF CheckFree, CheckOffered, Crash, Wait, Place
  <2> QED
    BY <1>1, <2>1, TypesLogin, TypesReadLine, TypesFindTarget, TypesMkfifo, TypesNames, TypesSignal,
       TypesFindSource, TypesGetUserPipeFd, TypesExecCmd, TypesEraseUserPipe, TypesUnlink, TypesFreeSlot,
       TypesClean, TypesSkip, TypesOpenToRead, TypesOpened DEF ShellStep, Handler
<1>2. ASSUME NEW j \in DOMAIN proc, ChildStep(j) PROVE TypeOK'
  BY <1>2, TypesOpenToWrite, TypesRecord, TypesRun DEF ChildStep
<1> QED
  BY <1>1, <1>2 DEF Next


LEMMA TypesInit == Init => Types
<1> SUFFICES ASSUME Init PROVE Types
  OBVIOUS
<1>1. DOMAIN proc = {} /\ Len(proc) = 0 /\ Len(made) = 0 /\ Len(content) = 0
  BY DEF Init
<1>2. Away.id = 0 /\ Away.pc = "away" /\ Away.held = {} /\ Away.h = 0 /\ Away.opening = 0 /\ ~Away.woken
  BY DEF Away
<1>3. \A c \in Conn : sh[c] = Away
  BY DEF Init
<1>4. Placed
  <2>1. \A i \in Id : shm_cli[i].valid = 0
    BY DEF Init
  <2> QED
    BY <1>1, <1>2, <1>3, <2>1 DEF Placed, Alive
<1>5. Named
  <2>1. \A p \in Pair : file[p] = 0
    BY DEF Init
  <2> QED
    BY <2>1 DEF Named
<1>6. TypeOK
  <2>1. NoEntry \in Entries
    BY NoneFacts DEF NoEntry, Entries
  <2>2. Away \in Processes
    <3>1. [prog |-> "exit", redir |-> <<>>] \in Command
      BY DEF Command
    <3>2. 0 \in 0 .. Len(proc) /\ 0 \in 0 .. Len(made)
      BY <1>1
    <3> QED
      BY <3>1, <3>2, NoneFacts DEF Away, Processes, Place
  <2>3. shm_cli \in [Id -> [valid : {0, 1}, pid : Conn \cup {Nobody}]]
    BY DEF Init
  <2>4. shm_fifo \in [Pair -> Entries] /\ sh \in [Conn -> Processes]
    BY <2>1, <2>2 DEF Init
  <2>5. made \in Seq([from : Conn, to : Conn]) /\ proc \in Seq(Children)
        /\ content \in Seq(SUBSET (1 .. Len(proc))) /\ Len(content) = Len(made)
    BY DEF Init
  <2>6. file \in [Pair -> 0 .. Len(made)]
    BY <1>1 DEF Init
  <2> QED
    BY <2>3, <2>4, <2>5, <2>6, MaxLineAssumption DEF Init, TypeOK
<1> QED
  BY <1>4, <1>5, <1>6 DEF Types

LEMMA TypesStutter == ASSUME Types, UNCHANGED vars PROVE Types'
<1>1. UNCHANGED <<shm_cli, shm_fifo, file, made, sh, usr2, proc, content, typed>>
  BY DEF vars, shm
<1>2. Fd' = Fd /\ Entries' = Entries /\ Processes' = Processes /\ Children' = Children
  BY <1>1, SameTypes
<1>3. TypeOK'
  BY <1>1, <1>2 DEF Types, TypeOK
<1>4. Placed'
  BY <1>1 DEF Types, Placed, Redir, Alive
<1>5. Named'
  BY <1>1 DEF Types, Named
<1> QED
  BY <1>3, <1>4, <1>5 DEF Types

(* Descriptors are of FIFOs that were made, the loops stay in the table    *)
(* (np_multi_proc.h:1182, np_multi_proc.cpp:65), and no process gets to a  *)
(* place without what it uses there.                                       *)
THEOREM TypeCorrect == Spec => []TypeOK
<1>1. Types /\ [Next]_vars => Types'
  BY TypesStep, PlacedStep, NamedStep, TypesStutter DEF Types
<1>2. Types => TypeOK
  BY DEF Types
<1> QED
  BY TypesInit, <1>1, <1>2, PTL DEF Spec

-----------------------------------------------------------------------------
(* What the invariants below share.                                        *)

(* An id is given once at most later only if it was given once before.     *)
LEMMA IdsKept ==
    ASSUME TypeOK, Placed, Next
    PROVE  \/ \A d \in Conn : sh'[d].id = sh[d].id
           \/ \E c \in Conn : Login(c)
<1>1. ASSUME NEW j \in DOMAIN proc, ChildStep(j) PROVE \A d \in Conn : sh'[d].id = sh[d].id
  BY <1>1, OpenToWriteFacts, RecordFacts, RunFacts DEF ChildStep
<1> QED
  BY <1>1, SameIds DEF Next

LEMMA IdsOnceBefore == ASSUME TypeOK, Placed, Next, IdsOnce' PROVE IdsOnce
<1>1. CASE \A d \in Conn : sh'[d].id = sh[d].id
  BY <1>1 DEF IdsOnce
<1>2. ASSUME NEW c \in Conn, Login(c) PROVE IdsOnce
  <2>1. sh[c].id = 0 /\ Others(c)
    BY <1>2, LoginFacts DEF Placed
  <2> QED
    BY <2>1 DEF IdsOnce, Others
<1> QED
  BY <1>1, <1>2, IdsKept

(* The entries two processes work on are not the same.                     *)
LEMMA Apart ==
    ASSUME IdsOnce, NEW c \in Conn, NEW d \in Conn, c # d, sh[d].id # 0
    PROVE  /\ In(c) # In(d) /\ In(c) # Entry(d) /\ Entry(c) # Entry(d) /\ Entry(c) # In(d)
           /\ Out(c) # Out(d)
BY DEF IdsOnce, In, Out, Entry

LEMMA OthersStep ==
    ASSUME TypeOK, Placed, NEW c \in Conn, Login(c) \/ ReadLine(c) \/ ShellStep(c) \/ Handler(c)
    PROVE  Others(c)
<1>1. CASE \/ CheckFree(c) \/ CheckOffered(c) \/ Crash(c) \/ Wait(c)
           \/ FindTarget(c) /\ ~Listed(Num(c))
           \/ FindSource(c) /\ ~Listed(Num(c))
           \/ ExecCmd(c) /\ sh[c].line.prog = "builtin"
  BY <1>1, MoveFacts DEF Moves
<1>2. CASE \/ Mkfifo(c) \/ SetName(c) \/ EraseUserPipe(c) \/ Unlink(c) \/ ForgetName(c)
  BY <1>2, MkfifoFacts, SetNameFacts, EraseFacts, UnlinkFacts, ForgetNameFacts DEF Moves
<1>3. CASE \/ (FindTarget(c) \/ FindSource(c)) /\ Listed(Num(c))
           \/ ExecCmd(c) /\ sh[c].line.prog # "builtin"
           \/ Login(c) \/ ReadLine(c) \/ Signal(c) \/ GetUserPipeFd(c) \/ FreeSlot(c) \/ Clean(c)
  BY <1>3, FindFacts, ExecFacts, LoginFacts, ReadLineFacts, SignalFacts, GetUserPipeFdFacts,
     FreeSlotFacts, CleanFacts
<1>4. CASE Handler(c)
  BY <1>4, CatchSignalFacts, SkipEntryFacts, OpenToReadFacts, OpenedFacts DEF Handler, GoesOn
<1> QED
  BY <1>1, <1>2, <1>3, <1>4 DEF ShellStep

(* Only Mkfifo gives a FIFO an owner, and only Signal makes the owner go   *)
(* on to the command.                                                      *)
LEMMA ClaimsKept ==
    ASSUME TypeOK, Placed, NEW c \in Conn, Login(c) \/ ReadLine(c) \/ ShellStep(c) \/ Handler(c)
    PROVE  \A d \in Conn :
              /\ Owner(d)' => (Owner(d) /\ Out(d)' = Out(d)) \/ (d = c /\ Mkfifo(c) /\ file[Out(c)] = 0)
              /\ Sent(d)' => (Sent(d) /\ Out(d)' = Out(d)) \/ (d = c /\ Signal(c))
<1>1. Others(c)
  BY OthersStep
<1>2. \A d \in Conn : d # c => (Owner(d)' <=> Owner(d)) /\ (Sent(d)' <=> Sent(d)) /\ Out(d)' = Out(d)
  BY <1>1 DEF Others, Owner, Sent, Out
<1>3. CASE \/ CheckFree(c) \/ CheckOffered(c) \/ Crash(c) \/ Wait(c)
           \/ FindTarget(c) /\ ~Listed(Num(c))
           \/ FindSource(c) /\ ~Listed(Num(c))
           \/ ExecCmd(c) /\ sh[c].line.prog = "builtin"
  <2>1. \/ ~Owner(c)' /\ ~Sent(c)'
        \/ Sent(c) /\ Out(c)' = Out(c)
    BY <1>3, MoveFacts DEF Moves, SameLine, Owner, Sent, Out
  <2> QED
    BY <1>2, <2>1 DEF Owner
<1>4. CASE Mkfifo(c) /\ file[Out(c)] = 0
  <2>1. ~Sent(c)'
    BY <1>4, MkfifoFacts DEF Moves, Sent
  <2> QED
    BY <1>2, <1>4, <2>1
<1>5. CASE (FindTarget(c) \/ FindSource(c)) /\ Listed(Num(c))
  <2>1. \/ ~Owner(c)' /\ ~Sent(c)'
        \/ (Sent(c)' <=> Sent(c)) /\ Out(c)' = Out(c) /\ (Owner(c)' <=> Sent(c)')
    BY <1>5, FindFacts DEF Owner, Sent, Out
  <2> QED
    BY <1>2, <2>1 DEF Owner
<1>6. CASE SetName(c) \/ (Mkfifo(c) /\ file[Out(c)] # 0)
  <2>1. ~Sent(c)' /\ (Owner(c)' => Owner(c) /\ Out(c)' = Out(c))
    BY <1>6, SetNameFacts, MkfifoFacts DEF Moves, SameLine, Owner, Sent, Out
  <2> QED
    BY <1>2, <2>1
<1>7. CASE Signal(c)
  <2>1. Owner(c) /\ Out(c)' = Out(c)
    BY <1>7, SignalFacts DEF Owner, Out
  <2> QED
    BY <1>2, <1>7, <2>1
<1>8. CASE GetUserPipeFd(c)
  <2>1. (Sent(c)' <=> Sent(c)) /\ Out(c)' = Out(c) /\ (Owner(c)' <=> Sent(c)')
    BY <1>8, GetUserPipeFdFacts DEF Owner, Sent, Out
  <2> QED
    BY <1>2, <2>1 DEF Owner
<1>9. CASE Handler(c)
  <2>1. sh'[c].pc = sh[c].pc /\ sh'[c].target_id = sh[c].target_id /\ sh'[c].id = sh[c].id
    BY <1>9, CatchSignalFacts, SkipEntryFacts, OpenToReadFacts, OpenedFacts DEF Handler, GoesOn, SameLine
  <2> QED
    BY <1>2, <2>1 DEF Owner, Sent, Out
<1>10. CASE \/ Login(c) \/ ReadLine(c) \/ (ExecCmd(c) /\ sh[c].line.prog # "builtin")
            \/ EraseUserPipe(c) \/ Unlink(c) \/ ForgetName(c) \/ FreeSlot(c) \/ Clean(c)
  <2>1. ~Owner(c)' /\ ~Sent(c)'
    <3>1. CASE Login(c)
      BY <3>1, LoginFacts DEF Owner, Sent
    <3>2. CASE ReadLine(c)
      BY <3>2, ReadLineFacts DEF Owner, Sent
    <3>3. CASE ExecCmd(c) /\ sh[c].line.prog # "builtin"
      BY <3>3, ExecFacts DEF Owner, Sent
    <3>4. CASE EraseUserPipe(c) \/ Unlink(c) \/ ForgetName(c)
      BY <3>4, EraseFacts, UnlinkFacts, ForgetNameFacts DEF Owner, Sent, Moves
    <3>5. CASE FreeSlot(c) \/ Clean(c)
      BY <3>5, FreeSlotFacts, CleanFacts DEF Owner, Sent
    <3> QED
      BY <1>10, <3>1, <3>2, <3>3, <3>4, <3>5
  <2> QED
    BY <1>2, <2>1
<1>11. CASE ShellStep(c)
  BY <1>3, <1>4, <1>5, <1>6, <1>7, <1>8, <1>10, <1>11, Zenon DEF ShellStep
<1> QED
  BY <1>9, <1>10, <1>11

(* The children go on, or are joined by others.                            *)
ProcsKept ==
    \A j \in DOMAIN proc :
       /\ j \in DOMAIN proc' /\ SameChild(j)
       /\ proc[j].wr # 0 => proc'[j].wr = proc[j].wr
       /\ proc[j].st = "done" => proc'[j].st = "done"

(* The children are as they were, but that an open has returned.           *)
SameProcs ==
    /\ DOMAIN proc' = DOMAIN proc
    /\ \A j \in DOMAIN proc :
          /\ SameChild(j) /\ proc'[j].wr = proc[j].wr
          /\ proc'[j].st = proc[j].st \/ (proc[j].st = "open" /\ proc'[j].st = "record")

(* Nobody has come to a FIFO as a writer, and no command has started.      *)
ChildrenGoOn ==
    /\ DOMAIN proc' = DOMAIN proc
    /\ \A j \in DOMAIN proc :
          /\ SameChild(j) /\ proc'[j].wr = proc[j].wr
          /\ proc'[j].st = "fork" => proc[j].st = "fork"
          /\ proc'[j].st \in {"open", "record"} => proc[j].st \in {"open", "record"}
          /\ proc[j].st = "done" => proc'[j].st = "done"

NoNewWriters == \A k : k # 0 /\ Writers(k) = {} => Writers(k)' = {}

LEMMA GoOnFacts ==
    ASSUME ChildrenGoOn
    PROVE  /\ ProcsKept /\ NoNewWriters
           /\ \A k : Writers(k)' \subseteq Writers(k)
           /\ \A j \in DOMAIN proc : Input(j)' = Input(j)
           /\ \A j : Forking(j)' => Forking(j)
<1>1. \A k : Writers(k)' \subseteq Writers(k)
  BY DEF ChildrenGoOn, Writers
<1> QED
  BY <1>1 DEF ChildrenGoOn, SameChild, Input, Forking, ProcsKept, NoNewWriters

LEMMA SameProcsFacts ==
    ASSUME SameProcs
    PROVE  /\ ChildrenGoOn /\ ProcsKept /\ NoNewWriters
           /\ \A k : Writers(k)' = Writers(k)
           /\ \A j \in DOMAIN proc : Input(j)' = Input(j)
           /\ \A j : Forking(j)' <=> Forking(j)
<1>1. \A k : Writers(k)' = Writers(k)
  BY DEF SameProcs, Writers
<1>2. ChildrenGoOn
  BY DEF SameProcs, ChildrenGoOn
<1> QED
  BY <1>1, <1>2, GoOnFacts DEF SameProcs, Forking

LEMMA UnchangedProcs == ASSUME proc' = proc PROVE SameProcs
BY DEF SameProcs, SameChild

(* An entry, and its FIFO, as far as it was set.                           *)
SameEntry(p) ==
    /\ shm_fifo'[p].out_fd = shm_fifo[p].out_fd
    /\ shm_fifo[p].name => shm_fifo'[p].name
    /\ file[p] # 0 => file'[p] = file[p]

LEMMA UsedKept ==
    ASSUME ProcsKept, NEW p, Used(p), file'[p] = file[p]
    PROVE  Used(p)'
BY DEF Used, NotOpened, ProcsKept

LEMMA OneWriterKept ==
    ASSUME OneWriter, ChildrenGoOn, file' = file,
           \A d \in Conn : Owner(d)' => Owner(d) /\ Out(d)' = Out(d)
    PROVE  OneWriter'
<1>1. ASSUME NEW d \in Conn, Owner(d)'
      PROVE  Fresh(Out(d))' /\ \A j \in DOMAIN proc' : Forking(j)' => proc'[j].to # Out(d)'
  <2>1. Owner(d) /\ Out(d)' = Out(d)
    BY <1>1
  <2>2. Fresh(Out(d))'
    BY <2>1 DEF OneWriter, Fresh, NotOpened, ChildrenGoOn
  <2> QED
    BY <2>1, <2>2, GoOnFacts DEF OneWriter, ChildrenGoOn, SameChild
<1>2. ASSUME NEW i \in DOMAIN proc', Forking(i)'
      PROVE  Fresh(proc[i].to)' /\ \A j \in DOMAIN proc' : Forking(j)' /\ proc'[j].to = proc'[i].to => i = j
  <2>1. i \in DOMAIN proc /\ Forking(i) /\ proc'[i].to = proc[i].to
    BY <1>2, GoOnFacts DEF ChildrenGoOn, SameChild
  <2>2. Fresh(proc[i].to)'
    BY <2>1 DEF OneWriter, Fresh, NotOpened, ChildrenGoOn
  <2> QED
    BY <2>1, <2>2, GoOnFacts DEF OneWriter, ChildrenGoOn, SameChild
<1>3. \A i, j \in DOMAIN proc' : proc'[i].wr = proc'[j].wr /\ proc'[i].wr # 0 => i = j
  BY DEF OneWriter, ChildrenGoOn
<1>4. \A j \in DOMAIN proc' :
          /\ proc'[j].wr # 0 => \A p \in Pair : file'[p] = proc'[j].wr => proc'[j].to = p
          /\ proc'[j].st \in {"open", "record"} => proc'[j].wr # 0
  BY DEF OneWriter, ChildrenGoOn, SameChild
<1> QED
  BY <1>1, <1>2, <1>3, <1>4 DEF OneWriter

LEMMA OffersKept ==
    ASSUME Offers, ProcsKept,
           \A d \in Conn : sh[d].id # 0 => sh'[d].id = sh[d].id,
           \A p \in Pair :
              /\ shm_fifo'[p].out_fd # None => shm_fifo'[p].out_fd = shm_fifo[p].out_fd /\ file'[p] = file[p]
              /\ shm_fifo'[p].is_used => shm_fifo'[p].out_fd # None
    PROVE  Offers'
<1>1. ASSUME NEW p \in Pair, shm_fifo'[p].out_fd # None
      PROVE  Used(p)' /\ \E c \in Conn : sh'[c].id = p[2] /\ shm_fifo'[p].out_fd = <<c, file'[p]>>
  <2>1. /\ shm_fifo'[p].out_fd = shm_fifo[p].out_fd /\ file'[p] = file[p] /\ shm_fifo[p].out_fd # None
    BY <1>1
  <2>2. PICK c \in Conn : sh[c].id = p[2] /\ shm_fifo[p].out_fd = <<c, file[p]>>
    BY <2>1 DEF Offers
  <2>3. sh[c].id # 0
    BY <2>2, IdFacts DEF Pair
  <2>4. Used(p)'
    BY <2>1, UsedKept DEF Offers
  <2> QED
    BY <2>1, <2>2, <2>3, <2>4
<1> QED
  BY <1>1 DEF Offers

LEMMA WorkingKept ==
    ASSUME NEW d \in Conn, Working(d), ProcsKept, NoNewWriters, sh'[d] = sh[d],
           sh[d].opening # 0 \/ sh[d].woken => SameEntry(Entry(d)),
           sh[d].pc \in {"take", "unlink"} => SameEntry(In(d))
    PROVE  Working(d)'
<1>1. Entry(d)' = Entry(d) /\ In(d)' = In(d)
  BY DEF Entry, In
<1>2. ASSUME sh[d].opening # 0
      PROVE  /\ file'[Entry(d)] = sh[d].opening
             /\ shm_fifo'[Entry(d)].name /\ shm_fifo'[Entry(d)].out_fd = None
  BY <1>2 DEF Working, SameEntry
<1>3. sh[d].woken => Used(Entry(d))'
  <2>1. sh[d].woken => Used(Entry(d)) /\ file'[Entry(d)] = file[Entry(d)]
    BY DEF Working, SameEntry, Used
  <2> QED
    BY <1>1, <2>1 DEF Used, NotOpened, ProcsKept
<1>4. sh[d].pc = "take" => shm_fifo'[In(d)].out_fd # None
  BY DEF Working, SameEntry
<1>5. ASSUME sh[d].pc = "unlink"
      PROVE  Used(In(d))' /\ Writers(file[In(d)])' = {} /\ shm_fifo'[In(d)].out_fd = None
  <2>1. Used(In(d)) /\ Writers(file[In(d)]) = {} /\ shm_fifo[In(d)].out_fd = None /\ file[In(d)] # 0
        /\ file'[In(d)] = file[In(d)] /\ shm_fifo'[In(d)].out_fd = None
    BY <1>5 DEF Working, SameEntry, Used
  <2>2. Used(In(d))'
    BY <1>1, <2>1 DEF Used, NotOpened, ProcsKept
  <2>3. \A k : k = file[In(d)] => Writers(k)' = {}
    BY <2>1 DEF NoNewWriters
  <2>4. Writers(file[In(d)])' = {}
    BY <1>1, <2>1, <2>3 DEF Writers
  <2> QED
    BY <2>1, <2>2, <2>4
<1> QED
  BY <1>1, <1>2, <1>3, <1>4, <1>5 DEF Working

LEMMA ReadingKept ==
    ASSUME NEW d \in Conn, TypeOK, Placed, Reading(d), ProcsKept, sh'[d] = sh[d],
           sh[d].source_id # 0 /\ sh[d].pc \in {"line", "wait", "erase"} =>
              shm_fifo'[In(d)].out_fd = shm_fifo[In(d)].out_fd
    PROVE  Reading(d)'
BY DEF Reading, Reads, Redir, In, ProcsKept, SameChild, Placed

(* The other processes: what c changes is not theirs.                      *)
LEMMA OthersWork ==
    ASSUME TypeOK, Placed, IdsOnce, Core, NEW c \in Conn, Others(c), ProcsKept, NoNewWriters,
           \A p \in Pair : p = In(c) \/ p = Entry(c) \/ SameEntry(p)
    PROVE  \A d \in Conn : d # c => Working(d)' /\ Reading(d)'
<1> SUFFICES ASSUME NEW d \in Conn, d # c PROVE Working(d)' /\ Reading(d)'
  OBVIOUS
<1>1. /\ sh[d].opening # 0 \/ sh[d].woken => Entry(d) \in Pair /\ sh[d].id # 0
      /\ sh[d].pc \in {"take", "unlink"} => In(d) \in Pair /\ sh[d].id # 0
      /\ sh[d].source_id # 0 /\ sh[d].pc \in {"line", "wait", "erase"} => In(d) \in Pair /\ sh[d].id # 0
  BY PairFacts, IdFacts DEF Placed, Alive
<1>2. sh[d].id # 0 =>
         In(d) # In(c) /\ In(d) # Entry(c) /\ Entry(d) # In(c) /\ Entry(d) # Entry(c)
  BY Apart
<1>3. sh'[d] = sh[d] /\ Working(d) /\ Reading(d)
  BY DEF Others, Core
<1>4. Working(d)'
  BY <1>1, <1>2, <1>3, WorkingKept
<1>5. sh[d].source_id # 0 /\ sh[d].pc \in {"line", "wait", "erase"} =>
         shm_fifo'[In(d)].out_fd = shm_fifo[In(d)].out_fd
  BY <1>1, <1>2 DEF SameEntry
<1> QED
  BY <1>3, <1>4, <1>5, ReadingKept

LEMMA OthersServed ==
    ASSUME TypeOK, Placed, IdsOnce, Core, NEW c \in Conn, Others(c), usr2 \ {c} \subseteq usr2',
           \A p \in Pair : p = In(c) \/ p = Entry(c) \/
              /\ shm_fifo'[p].out_fd = shm_fifo[p].out_fd
              /\ Open(p)' /\ Served(p)' => Open(p) /\ Served(p)
              /\ Open(p)' /\ Asked(p)' => Open(p) /\ Asked(p)
    PROVE  \A d \in Conn : d # c => Comes(d)' /\ Cleaned(d)'
<1> SUFFICES ASSUME NEW d \in Conn, d # c PROVE Comes(d)' /\ Cleaned(d)'
  OBVIOUS
<1>1. sh'[d] = sh[d] /\ Comes(d) /\ Cleaned(d)
  BY DEF Others, Core
<1>2. ASSUME NEW s \in Id PROVE To(d, s)' = To(d, s)
  BY <1>1 DEF To
<1>3. ASSUME NEW s \in Id, sh[d].id # 0
      PROVE  LET p == To(d, s)
             IN  /\ p \in Pair /\ shm_fifo'[p].out_fd = shm_fifo[p].out_fd
                 /\ Open(p)' /\ Served(p)' => Open(p) /\ Served(p)
                 /\ Open(p)' /\ Asked(p)' => Open(p) /\ Asked(p)
  <2>1. To(d, s) \in Pair
    BY <1>3, ProcessType DEF To, Pair, Processes
  <2>2. To(d, s) # In(c) /\ To(d, s) # Entry(c)
    BY <1>3 DEF To, In, Entry, IdsOnce
  <2> QED
    BY <1>2, <2>1, <2>2
<1>4. sh[d].pc # "away" => sh[d].id # 0
  BY IdFacts DEF Placed
<1>5. Comes(d)'
  BY <1>1, <1>2, <1>3, <1>4 DEF Comes, Alive
<1>6. Cleaned(d)'
  BY <1>1, <1>2, <1>3, <1>4 DEF Cleaned
<1> QED
  BY <1>5, <1>6

LEMMA SlotsKept ==
    ASSUME Slots, shm_cli' = shm_cli,
           \A d \in Conn : /\ sh'[d].id = sh[d].id
                           /\ sh'[d].pc \in {"clean", "gone"} => sh[d].pc \in {"clean", "gone"}
    PROVE  Slots'
BY DEF Slots

LEMMA FdsKept ==
    ASSUME Fds, \A d \in Conn : /\ sh[d].id # 0 => sh'[d].id = sh[d].id
                                /\ sh'[d].in_fd # None => sh'[d].in_fd = sh[d].in_fd,
           TypeOK,
           \A p \in Pair : shm_fifo'[p].out_fd # None => shm_fifo'[p].out_fd = shm_fifo[p].out_fd,
           DOMAIN proc' = DOMAIN proc, ProcsKept
    PROVE  Fds'
<1>1. ASSUME NEW p \in Pair, shm_fifo'[p].out_fd # None PROVE sh'[shm_fifo'[p].out_fd[1]].id = p[2]
  <2>1. shm_fifo'[p].out_fd = shm_fifo[p].out_fd /\ shm_fifo[p].out_fd # None
    BY <1>1
  <2>2. shm_fifo[p].out_fd[1] \in Conn
    <3>1. shm_fifo[p] \in Entries
      BY DEF TypeOK
    <3>2. shm_fifo[p].out_fd \in Fd
      BY <3>1 DEF Entries
    <3> QED
      BY <2>1, <3>2, NoneFacts
  <2>3. sh[shm_fifo[p].out_fd[1]].id = p[2] /\ p[2] # 0
    BY <2>1, IdFacts DEF Fds, Pair
  <2> QED
    BY <2>1, <2>2, <2>3
<1>2. \A d \in Conn : sh'[d].in_fd # None => sh'[d].in_fd[1] = d
  BY DEF Fds
<1>3. OwnDescriptors'
  BY DEF Fds, OwnDescriptors, ProcsKept, SameChild
<1> QED
  BY <1>1, <1>2, <1>3 DEF Fds

LEMMA ReadToEndKept ==
    ASSUME ReadToEnd, TypeOK, OwnDescriptors, DOMAIN proc' = DOMAIN proc, ProcsKept, NoNewWriters,
           \A j \in DOMAIN proc : proc'[j].st = "done" => proc[j].st = "done",
           \A k \in 1 .. Len(made) : content[k] = {} => content'[k] = {},
           \A d \in Conn : sh'[d].in_fd # None => sh'[d].in_fd = sh[d].in_fd
    PROVE  ReadToEnd'
<1>1. ASSUME NEW x \in Fd, x # None, \E j \in DOMAIN proc : proc[j].wr = x[2]
      PROVE  \E j \in DOMAIN proc' : proc'[j].wr = x[2]
  BY <1>1, NoneFacts DEF ProcsKept
<1>2. \A d \in Conn : sh'[d].in_fd # None => \E j \in DOMAIN proc' : proc'[j].wr = sh'[d].in_fd[2]
  <2>1. \A d \in Conn : sh[d].in_fd \in Fd
    BY ProcessType DEF Processes
  <2> QED
    BY <1>1, <2>1 DEF ReadToEnd
<1>3. ASSUME NEW j \in DOMAIN proc, NEW k \in Input(j)'
      PROVE  /\ \E i \in DOMAIN proc' : proc'[i].wr = k
             /\ proc'[j].st = "done" => content'[k] = {} /\ Writers(k)' = {}
  <2>1. k \in Input(j)
    BY <1>3 DEF Input, ProcsKept, SameChild
  <2>2. k \in 1 .. Len(made)
    <3>1. proc[j].rd \in Fd
      BY ChildType DEF Children
    <3> QED
      BY <2>1, <3>1, NoneFacts DEF Input
  <2>3. \E i \in DOMAIN proc' : proc'[i].wr = k
    BY <2>1, <2>2 DEF ReadToEnd, ProcsKept
  <2>4. proc'[j].st = "done" => content[k] = {} /\ Writers(k) = {}
    BY <2>1 DEF ReadToEnd
  <2> QED
    BY <2>2, <2>3, <2>4 DEF NoNewWriters
<1> QED
  BY <1>2, <1>3 DEF ReadToEnd

LEMMA CheckMissesKept ==
    ASSUME CheckMisses, SameProcs,
           \A p \in Pair :
              \/ /\ file'[p] = file[p] /\ shm_fifo'[p].in_fd = shm_fifo[p].in_fd
                 /\ shm_fifo'[p].name => shm_fifo[p].name
                 /\ BeingRead(p) => BeingRead(p)'
              \/ file'[p] = 0 \/ NotOpened(p)' \/ BeingRead(p)' \/ ~shm_fifo'[p].name
    PROVE  CheckMisses'
<1> SUFFICES ASSUME NEW p \in Pair, file'[p] # 0, ~shm_fifo'[p].in_fd
             PROVE  NotOpened(p)' \/ NotRecorded(p)' \/ BeingRead(p)' \/ ~shm_fifo'[p].name
  BY DEF CheckMisses
<1>1. NotRecorded(p) => NotRecorded(p)'
  BY DEF NotRecorded, SameProcs, SameChild
<1>2. file'[p] = file[p] /\ NotOpened(p) => NotOpened(p)'
  BY DEF NotOpened, SameProcs
<1> QED
  BY <1>1, <1>2 DEF CheckMisses

(* Nobody goes from or to "unlink".                                        *)
LEMMA BeingReadKept ==
    ASSUME NEW p \in Pair, shm_fifo'[p].is_used = shm_fifo[p].is_used,
           \A d \in Conn : sh[d].pc = "unlink" =>
               sh'[d].pc = "unlink" /\ sh'[d].source_id = sh[d].source_id /\ sh'[d].id = sh[d].id
    PROVE  BeingRead(p) => BeingRead(p)'
BY DEF BeingRead, In

LEMMA HeldKept ==
    ASSUME Held, TypeOK, DOMAIN proc' = DOMAIN proc, ProcsKept,
           \A k \in 1 .. Len(made) : made'[k] = made[k],
           \A k \in DOMAIN content' : content'[k] # {} => k \in DOMAIN content /\ content[k] # {},
           \A d \in Conn : /\ sh'[d].held = sh[d].held /\ sh'[d].opening = sh[d].opening
                           /\ Listening(d)' => Listening(d) \/ sh[d].held = {},
           \A p \in Pair : \A d \in Conn : \A k :
               Listening(d)' /\ shm_fifo[p].out_fd = <<d, k>> => Kept(d, k)'
    PROVE  Held'
<1>1. \A j \in DOMAIN proc : proc[j].by \in Conn
  BY ChildType DEF Children
<1>2. /\ \A k \in DOMAIN content : made[k].to \in Conn /\ k \in 1 .. Len(made)
      /\ \A d \in Conn : sh[d].held \subseteq 1 .. Len(made)
  <2>1. DOMAIN content = 1 .. Len(made)
    BY DEF TypeOK
  <2> QED
    BY <2>1, MadeType, ProcessType DEF Processes
<1>3. ASSUME NEW d \in Conn, Listening(d)', NEW k \in sh[d].held PROVE Kept(d, k)'
  <2>1. Kept(d, k)
    BY <1>3 DEF Held
  <2>2. CASE sh[d].opening = k
    BY <2>2 DEF Kept
  <2>3. CASE \E p \in Pair : shm_fifo[p].out_fd = <<d, k>>
    BY <1>3, <2>3
  <2>4. CASE \E j \in DOMAIN proc : k \in Input(j)
    BY <2>4 DEF Kept, Input, ProcsKept, SameChild
  <2> QED
    BY <2>1, <2>2, <2>3, <2>4 DEF Kept
<1>4. /\ \A d \in Conn : \A k \in sh'[d].held : made'[k].to = d
      /\ \A d \in Conn : sh'[d].opening # 0 => sh'[d].opening \in sh'[d].held
      /\ \A k \in DOMAIN content' : content'[k] # {} => k \in sh'[made'[k].to].held
  BY <1>2 DEF Held
<1>5. \A j \in DOMAIN proc' : proc'[j].held \subseteq sh'[proc'[j].by].held
  BY <1>1 DEF Held, ProcsKept, SameChild
<1> QED
  BY <1>3, <1>4, <1>5 DEF Held

LEMMA ServedKept ==
    ASSUME ChildrenGoOn, NEW p, file'[p] = file[p], shm_fifo'[p].name => shm_fifo[p].name
    PROVE  /\ Served(p)' => Served(p)
           /\ Open(p)' => Open(p)
           /\ (\A d \in Conn : Sent(d)' => Sent(d) /\ Out(d)' = Out(d)) /\ Asked(p)' => Asked(p)
<1>1. Served(p)' => Served(p)
  BY GoOnFacts DEF Served, ChildrenGoOn, SameChild, Forking
<1> QED
  BY <1>1 DEF Open, Asked

LEMMA ToPair == ASSUME Placed, NEW c \in Conn, sh[c].pc # "away" PROVE \A s \in Id : To(c, s) \in Pair
BY DEF Placed, To, Pair

LEMMA ComesKept ==
    ASSUME NEW c \in Conn, Comes(c), Alive(c)' => Alive(c), sh'[c].id = sh[c].id, sh'[c].h = sh[c].h,
           c \in usr2 => c \in usr2',
           sh[c].pc # "unlink",
           \A s \in Id : To(c, s) \in Pair,
           \A p \in Pair : /\ shm_fifo'[p].out_fd = None => shm_fifo[p].out_fd = None
                           /\ Open(p)' /\ Asked(p)' => Open(p) /\ Asked(p)
    PROVE  Comes(c)'
<1>1. \A s \in Id : \A p : p = To(c, s) => To(c, s)' = p
  BY DEF To
<1>2. ASSUME NEW s \in Id,
             Alive(c)' /\ Open(To(c, s))' /\ shm_fifo'[To(c, s)'].out_fd = None /\ Asked(To(c, s))'
      PROVE  c \in usr2' \/ sh'[c].h \in 1 .. s
  <2>1. \A p : p = To(c, s) => Open(p)' /\ shm_fifo'[p].out_fd = None /\ Asked(p)'
    BY <1>1, <1>2
  <2>2. Open(To(c, s)) /\ shm_fifo[To(c, s)].out_fd = None /\ Asked(To(c, s))
    BY <2>1
  <2> QED
    BY <1>2, <2>2 DEF Comes
<1> QED
  BY <1>2 DEF Comes

LEMMA CleanedElsewhere ==
    ASSUME NEW c \in Conn, sh'[c].pc \notin {"clean", "gone"} PROVE Cleaned(c)'
BY DEF Cleaned

-----------------------------------------------------------------------------
(* A descriptor stays with the process that opened it, whatever is typed:  *)
(* only three actions hand one on.                                         *)
LEMMA EntryOwner ==
    ASSUME TypeOK, NEW p \in Pair, shm_fifo[p].out_fd # None
    PROVE  shm_fifo[p].out_fd[1] \in Conn
<1>1. shm_fifo[p] \in Entries
  BY DEF TypeOK
<1>2. shm_fifo[p].out_fd \in Fd
  BY <1>1 DEF Entries
<1> QED
  BY <1>2, NoneFacts

LEMMA FdsTake == ASSUME TypeOK, Placed, IdsOnce, Fds, NEW c \in Conn, GetUserPipeFd(c) PROVE Fds'
<1>1. /\ Others(c) /\ sh'[c].id = sh[c].id /\ sh'[c].in_fd = shm_fifo[In(c)].out_fd
      /\ In(c) \in Pair /\ In(c)[2] = sh[c].id /\ sh[c].id # 0
      /\ \A p \in Pair : shm_fifo'[p].out_fd = shm_fifo[p].out_fd
      /\ proc' = proc
  <2>1. sh[c].id # 0
    BY IdFacts, GetUserPipeFdFacts DEF Placed
  <2> QED
    BY <2>1, GetUserPipeFdFacts DEF EntriesBut, In
<1>2. \A d \in Conn : sh'[d].id = sh[d].id
  BY <1>1 DEF Others
<1>3. shm_fifo[In(c)].out_fd # None => shm_fifo[In(c)].out_fd[1] = c
  BY <1>1, EntryOwner DEF Fds, IdsOnce
<1>4. \A d \in Conn : sh'[d].in_fd # None => sh'[d].in_fd[1] = d
  BY <1>1, <1>3 DEF Fds, Others
<1> QED
  BY <1>1, <1>2, <1>4, EntryOwner DEF Fds, OwnDescriptors

LEMMA FdsExec == ASSUME TypeOK, Placed, Fds, NEW c \in Conn, ExecCmd(c), sh[c].line.prog # "builtin" PROVE Fds'
<1> DEFINE n == Len(proc) + 1
<1>1. /\ Others(c) /\ sh'[c].id = sh[c].id /\ sh'[c].in_fd = sh[c].in_fd
      /\ DOMAIN proc' = DOMAIN proc \cup {n} /\ \A j \in DOMAIN proc : proc'[j] = proc[j]
      /\ proc'[n].by = c /\ proc'[n].rd = sh[c].in_fd
      /\ shm_fifo' = shm_fifo
  <2>1. DOMAIN proc = 1 .. Len(proc) /\ DOMAIN proc' = 1 .. Len(proc) + 1 /\ Len(proc) \in Nat
    BY ExecFacts
  <2>2. DOMAIN proc' = DOMAIN proc \cup {n}
    BY <2>1
  <2> QED
    BY <2>2, ExecFacts
<1> HIDE DEF n
<1>2. \A d \in Conn : sh'[d].in_fd = sh[d].in_fd /\ sh'[d].id = sh[d].id
  BY <1>1 DEF Others
<1>3. OwnDescriptors'
  BY <1>1 DEF Fds, OwnDescriptors
<1>4. \A p \in Pair : shm_fifo'[p].out_fd # None => sh'[shm_fifo'[p].out_fd[1]].id = p[2]
  BY <1>1, <1>2, EntryOwner DEF Fds
<1> QED
  BY <1>2, <1>3, <1>4 DEF Fds

LEMMA FdsOpened == ASSUME TypeOK, Placed, Fds, NEW c \in Conn, Opened(c) PROVE Fds'
<1>1. /\ Others(c) /\ SameLine(c) /\ sh'[c].id = sh[c].id
      /\ EntriesBut(Entry(c)) /\ shm_fifo'[Entry(c)].out_fd[1] = c /\ Entry(c)[2] = sh[c].id
      /\ proc' = proc
  BY OpenedFacts DEF GoesOn, Entry
<1>2. \A d \in Conn : sh'[d].in_fd = sh[d].in_fd /\ sh'[d].id = sh[d].id
  BY <1>1 DEF Others, SameLine
<1>3. ASSUME NEW p \in Pair, shm_fifo'[p].out_fd # None PROVE sh'[shm_fifo'[p].out_fd[1]].id = p[2]
  <2>1. CASE p = Entry(c)
    BY <1>1, <2>1
  <2>2. CASE p # Entry(c)
    BY <1>1, <1>2, <1>3, <2>2, EntryOwner DEF Fds, EntriesBut
  <2> QED
    BY <2>1, <2>2
<1> QED
  BY <1>1, <1>2, <1>3 DEF Fds, OwnDescriptors

LEMMA FdsShell ==
    ASSUME TypeOK, Placed, Fds, NEW c \in Conn, Login(c) \/ ReadLine(c) \/ ShellStep(c) \/ Handler(c),
           ~GetUserPipeFd(c), ~(ExecCmd(c) /\ sh[c].line.prog # "builtin"), ~Opened(c)
    PROVE  Fds'
<1>1. Others(c)
  BY OthersStep
<1>2. CASE \/ CheckFree(c) \/ CheckOffered(c) \/ Crash(c) \/ Wait(c)
           \/ FindTarget(c) /\ ~Listed(Num(c))
           \/ FindSource(c) /\ ~Listed(Num(c))
           \/ ExecCmd(c) /\ sh[c].line.prog = "builtin"
  <2>1. sh'[c].id = sh[c].id /\ sh'[c].in_fd = sh[c].in_fd /\ shm_fifo' = shm_fifo /\ proc' = proc
    BY <1>2, MoveFacts DEF Moves, SameLine, AllShell
  <2> QED
    BY <1>1, <2>1, UnchangedProcs, SameProcsFacts, FdsKept DEF Others
<1>3. CASE Mkfifo(c) \/ SetName(c) \/ Unlink(c) \/ ForgetName(c)
  <2>1. /\ sh'[c].id = sh[c].id /\ sh'[c].in_fd = sh[c].in_fd /\ proc' = proc
        /\ \A p \in Pair : shm_fifo'[p].out_fd = shm_fifo[p].out_fd
    BY <1>3, MkfifoFacts, SetNameFacts, UnlinkFacts, ForgetNameFacts DEF Moves, SameLine, EntriesBut
  <2> QED
    BY <1>1, <2>1, UnchangedProcs, SameProcsFacts, FdsKept DEF Others
<1>4. CASE EraseUserPipe(c) \/ Clean(c)
  <2>1. /\ sh'[c].id = sh[c].id /\ sh'[c].in_fd = sh[c].in_fd /\ proc' = proc
        /\ \A p \in Pair : shm_fifo'[p].out_fd # None => shm_fifo'[p].out_fd = shm_fifo[p].out_fd
    BY <1>4, EraseFacts, CleanFacts DEF Moves, SameLine, EntriesBut
  <2> QED
    BY <1>1, <2>1, UnchangedProcs, SameProcsFacts, FdsKept DEF Others
<1>5. CASE Login(c) \/ ReadLine(c)
  <2>1. /\ sh[c].id # 0 => sh'[c].id = sh[c].id
        /\ sh'[c].in_fd # None => sh'[c].in_fd = sh[c].in_fd
        /\ proc' = proc /\ shm_fifo' = shm_fifo
    BY <1>5, LoginFacts, ReadLineFacts DEF SameLine, Placed
  <2> QED
    BY <1>1, <2>1, UnchangedProcs, SameProcsFacts, FdsKept DEF Others
<1>6. CASE ((FindTarget(c) \/ FindSource(c)) /\ Listed(Num(c))) \/ Signal(c) \/ FreeSlot(c)
  <2>1. sh'[c].id = sh[c].id /\ sh'[c].in_fd = sh[c].in_fd /\ shm_fifo' = shm_fifo /\ proc' = proc
    BY <1>6, FindFacts, SignalFacts, FreeSlotFacts DEF AllShell
  <2> QED
    BY <1>1, <2>1, UnchangedProcs, SameProcsFacts, FdsKept DEF Others
<1>7. CASE Handler(c)
  <2>1. /\ sh'[c].id = sh[c].id /\ sh'[c].in_fd = sh[c].in_fd /\ shm_fifo' = shm_fifo
        /\ DOMAIN proc' = DOMAIN proc /\ ProcsKept
    <3>1. CASE CatchSignal(c) \/ SkipEntry(c)
      BY <3>1, CatchSignalFacts, SkipEntryFacts, UnchangedProcs, SameProcsFacts DEF GoesOn, SameLine, AllShell
    <3>2. CASE OpenToRead(c)
      BY <3>2, OpenToReadFacts DEF SameLine, ProcsKept
    <3> QED
      BY <1>7, <3>1, <3>2 DEF Handler
  <2> QED
    BY <1>1, <2>1, FdsKept DEF Others
<1> QED
  BY <1>2, <1>3, <1>4, <1>5, <1>6, <1>7 DEF ShellStep

LEMMA FdsChild == ASSUME TypeOK, Placed, Fds, NEW j \in DOMAIN proc, ChildStep(j) PROVE Fds'
<1>1. /\ DOMAIN proc' = DOMAIN proc /\ OtherChildren(j) /\ SameChild(j)
      /\ \A c \in Conn : sh'[c].id = sh[c].id /\ sh'[c].in_fd = sh[c].in_fd
      /\ \A p \in Pair : shm_fifo'[p].out_fd = shm_fifo[p].out_fd
  BY OpenToWriteFacts, RecordFacts, RunFacts DEF ChildStep, SameLine, EntriesBut
<1>2. ProcsKept
  <2>1. proc[j].wr # 0 => proc'[j].wr = proc[j].wr
    BY OpenToWriteFacts, RecordFacts, RunFacts DEF ChildStep, Placed
  <2>2. proc[j].st = "done" => proc'[j].st = "done"
    BY OpenToWriteFacts, RecordFacts, RunFacts DEF ChildStep
  <2>3. ASSUME NEW i \in DOMAIN proc
        PROVE  /\ i \in DOMAIN proc' /\ SameChild(i)
               /\ proc[i].wr # 0 => proc'[i].wr = proc[i].wr
               /\ proc[i].st = "done" => proc'[i].st = "done"
    <3>1. CASE i = j
      BY <1>1, <2>1, <2>2, <3>1
    <3>2. CASE i # j
      BY <1>1, <3>2 DEF OtherChildren, SameChild
    <3> QED
      BY <3>1, <3>2
  <2> QED
    BY <2>3 DEF ProcsKept
<1> QED
  BY <1>1, <1>2, FdsKept

LEMMA FdsStep == ASSUME Types, IdsOnce, Fds, Next PROVE Fds'
<1>1. ASSUME NEW c \in Conn, Login(c) \/ ReadLine(c) \/ ShellStep(c) \/ Handler(c) PROVE Fds'
  BY <1>1, FdsTake, FdsExec, FdsOpened, FdsShell DEF Types
<1> QED
  BY <1>1, FdsChild DEF Next, Types

OwnFds == Types /\ (IdsOnce => Fds)

(* Nobody's command is ever run on a descriptor that another process has   *)
(* opened (np_multi_proc.h:852), whatever the users type, as long as no id *)
(* is given twice.                                                         *)
THEOREM DescriptorsOwn == Spec => [](IdsOnce => OwnDescriptors)
<1>1. Init => OwnFds
  <2> SUFFICES ASSUME Init PROVE Fds
    BY TypesInit DEF OwnFds
  <2>1. /\ \A c \in Conn : sh[c].in_fd = None
        /\ \A p \in Pair : shm_fifo[p].out_fd = None
        /\ DOMAIN proc = {}
    BY DEF Init, Away, NoEntry
  <2> QED
    BY <2>1 DEF Fds, OwnDescriptors
<1>2. OwnFds /\ [Next]_vars => OwnFds'
  <2> SUFFICES ASSUME OwnFds, [Next]_vars PROVE OwnFds'
    OBVIOUS
  <2>1. CASE Next
    <3>1. Types'
      BY <2>1, TypesStep, PlacedStep, NamedStep DEF OwnFds, Types
    <3>2. IdsOnce' => Fds'
      BY <2>1, IdsOnceBefore, FdsStep DEF OwnFds, Types
    <3> QED
      BY <3>1, <3>2 DEF OwnFds
  <2>2. CASE UNCHANGED vars
    <3>1. (IdsOnce' => IdsOnce) /\ (Fds => Fds')
      BY <2>2 DEF IdsOnce, Fds, OwnDescriptors, vars, shm
    <3> QED
      BY <2>2, <3>1, TypesStutter DEF OwnFds
  <2> QED
    BY <2>1, <2>2
<1>3. OwnFds => (IdsOnce => OwnDescriptors)
  BY DEF OwnFds, Fds
<1> QED
  BY <1>1, <1>2, <1>3, PTL DEF Spec

-----------------------------------------------------------------------------
(* Core, action by action.                                                 *)

(* Steps that change a process, and neither the table nor the files.       *)
LEMMA CoreQuiet ==
    ASSUME Types, IdsOnce, Core, NEW c \in Conn, ReadLine(c) \/ ShellStep(c), ~Signal(c),
           ~(Mkfifo(c) /\ file[Out(c)] = 0),
           UNCHANGED <<shm_cli, shm_fifo, file, made, usr2, proc, content>>,
           sh'[c].pc \notin {"away", "unlink", "clean", "gone"}, sh[c].pc \in LinePlace \cup {"prompt"},
           Others(c), SameHandler(c), sh'[c].id = sh[c].id, sh[c].h = 0,
           sh'[c].in_fd # None => sh'[c].in_fd = sh[c].in_fd,
           Reading(c)',
           sh'[c].pc = "take" => shm_fifo[In(c)].out_fd # None /\ In(c)' = In(c)
    PROVE  Core'
<1>1. \A d \in Conn : /\ Owner(d)' => Owner(d) /\ Out(d)' = Out(d)
                      /\ Sent(d)' => Sent(d) /\ Out(d)' = Out(d)
  BY ClaimsKept DEF Types
<1>2. SameProcs /\ ChildrenGoOn /\ ProcsKept /\ NoNewWriters
  BY UnchangedProcs, SameProcsFacts
<1>3. \A p : /\ SameEntry(p)
             /\ Open(p)' /\ Served(p)' => Open(p) /\ Served(p)
             /\ Open(p)' /\ Asked(p)' => Open(p) /\ Asked(p)
  BY <1>1, <1>2, ServedKept DEF SameEntry
<1>4. sh[c].id # 0 /\ sh[c].pc \notin {"away", "unlink", "clean", "gone"}
  BY IdFacts DEF Types, Placed, LinePlace
<1>5. Slots'
  BY <1>4, SlotsKept DEF Core, Others
<1>6. OneWriter'
  BY <1>1, <1>2, OneWriterKept DEF Core
<1>7. Offers'
  BY <1>2, OffersKept DEF Core, Offers, Others
<1>8. Fds'
  BY <1>2, FdsKept DEF Core, Types, Others
<1>9. ReadToEnd'
  BY <1>2, ReadToEndKept DEF Core, Types, Others, Fds
<1>10. CheckMisses'
  BY <1>2, <1>4, CheckMissesKept, BeingReadKept DEF Core, Others
<1>11. Held'
  <2>1. \A d \in Conn : sh'[d].held = sh[d].held /\ sh'[d].opening = sh[d].opening
                        /\ (Listening(d)' => Listening(d))
    BY <1>4 DEF Others, SameHandler, Listening, Alive, LinePlace
  <2>2. \A p \in Pair : \A d \in Conn : \A k : shm_fifo[p].out_fd = <<d, k>> => Kept(d, k)'
    BY DEF Kept
  <2> QED
    BY <1>2, <2>1, <2>2, HeldKept DEF Core, Types
<1>12. \A d \in Conn : d # c => Working(d)' /\ Reading(d)'
  BY <1>2, <1>3, <1>4, OthersWork DEF Types
<1>13. \A d \in Conn : d # c => Comes(d)' /\ Cleaned(d)'
  BY <1>3, <1>4, OthersServed DEF Types, SameEntry
<1>14. Working(c)'
  <2>1. sh'[c].opening = 0 /\ ~sh'[c].woken
    BY DEF SameHandler, Types, Placed
  <2> QED
    BY <2>1 DEF Working
<1>15. Comes(c)'
  BY <1>3, <1>4, ComesKept, ToPair DEF Core, Types, Alive, LinePlace, SameHandler
<1>16. Cleaned(c)'
  BY CleanedElsewhere
<1> QED
  BY <1>5, <1>6, <1>7, <1>8, <1>9, <1>10, <1>11, <1>12, <1>13, <1>14, <1>15, <1>16 DEF Core

LEMMA CoreMove ==
    ASSUME Types, IdsOnce, Core, NEW c \in Conn,
           \/ CheckFree(c) \/ CheckOffered(c) \/ Crash(c) \/ Wait(c)
           \/ FindTarget(c) /\ ~Listed(Num(c))
           \/ FindSource(c) /\ ~Listed(Num(c))
           \/ ExecCmd(c) /\ sh[c].line.prog = "builtin"
    PROVE  Core'
<1>1. /\ \/ sh[c].pc = "check" /\ Moves(c, "prompt")
         \/ sh[c].pc = "check" /\ Moves(c, "mkfifo")
         \/ sh[c].pc = "offered" /\ Moves(c, "prompt")
         \/ sh[c].pc = "offered" /\ Moves(c, "take") /\ shm_fifo[In(c)].out_fd # None
         \/ sh[c].pc = "line" /\ Moves(c, "dead")
         \/ sh[c].pc = "wait" /\ Moves(c, "erase") /\ proc[sh[c].child].st = "done"
         \/ sh[c].pc = "line" /\ Moves(c, "prompt")
         \/ sh[c].pc = "line" /\ Moves(c, "erase") /\ sh[c].line.prog = "builtin"
      /\ UNCHANGED AllShell
  BY MoveFacts DEF Types
<1>2. UNCHANGED <<shm_cli, shm_fifo, file, made, usr2, proc, content, typed>>
  BY <1>1 DEF AllShell
<1>3. /\ Others(c) /\ SameLine(c) /\ SameHandler(c) /\ sh'[c].id = sh[c].id /\ sh[c].h = 0
      /\ sh'[c].pc \in {"prompt", "mkfifo", "take", "dead", "erase"}
      /\ sh[c].pc \in LinePlace /\ sh[c].pc \notin {"signal", "mkfifo"}
  BY <1>1 DEF Moves, LinePlace
<1>4. Reading(c)'
  <2>1. Reading(c) /\ Redir(c)' = Redir(c) /\ (Reads(c)' <=> Reads(c))
    BY <1>3 DEF Core, Redir, SameLine, Reads
  <2>2. sh'[c].pc \in LinePlace /\ Reads(c)' =>
          /\ sh'[c].line.prog = "program" /\ sh'[c].target_id = 0
          /\ \A i \in DOMAIN Redir(c)' : Redir(c)'[i].op = "from"
    BY <1>3, <2>1 DEF Reading, SameLine, LinePlace
  <2>3. CASE sh'[c].pc = "erase" /\ sh[c].source_id # 0
    <3>1. Reads(c)
      BY <2>3 DEF Reads
    <3>2. sh[c].pc = "wait" /\ proc[sh[c].child].st = "done"
      BY <1>1, <1>3, <2>1, <2>3, <3>1 DEF Moves, Reading
    <3>3. sh[c].child \in DOMAIN proc /\ proc[sh[c].child].rd = sh[c].in_fd
      BY <2>1, <2>3, <3>2 DEF Reading, Types, Placed
    <3>4. shm_fifo[In(c)].out_fd # None /\ sh[c].in_fd = shm_fifo[In(c)].out_fd /\ In(c)' = In(c)
      BY <1>3, <2>1, <2>3, <3>2 DEF Reading, In, SameLine
    <3> QED
      BY <1>2, <1>3, <2>2, <2>3, <3>2, <3>3, <3>4 DEF Reading, SameLine
  <2>4. CASE ~(sh'[c].pc = "erase" /\ sh[c].source_id # 0)
    BY <1>3, <2>2, <2>4 DEF Reading, SameLine
  <2> QED
    BY <2>3, <2>4
<1>5. ShellStep(c) /\ ~Signal(c) /\ ~Mkfifo(c)
  BY <1>3 DEF ShellStep, Signal, Mkfifo, At
<1>6. In(c)' = In(c) /\ (sh'[c].pc = "take" => shm_fifo[In(c)].out_fd # None)
  BY <1>1, <1>3 DEF In, SameLine, Moves
<1> QED
  BY <1>2, <1>3, <1>4, <1>5, <1>6, CoreQuiet DEF SameLine

LEMMA CoreFind ==
    ASSUME Types, IdsOnce, Core, NEW c \in Conn, FindTarget(c) \/ FindSource(c), Listed(Num(c))
    PROVE  Core'
<1>1. /\ Others(c) /\ SameHandler(c) /\ sh'[c].id = sh[c].id /\ sh'[c].line = sh[c].line
      /\ sh'[c].in_fd = sh[c].in_fd
      /\ sh[c].pc = "line" /\ sh[c].h = 0 /\ Redir(c) # <<>>
      /\ \/ /\ sh'[c].pc = "check" /\ sh'[c].source_id = sh[c].source_id /\ Head(Redir(c)).op = "to"
         \/ /\ sh'[c].pc = "offered" /\ sh'[c].target_id = sh[c].target_id /\ Head(Redir(c)).op = "from"
      /\ UNCHANGED AllShell
  BY FindFacts DEF Types
<1>2. UNCHANGED <<shm_cli, shm_fifo, file, made, usr2, proc, content, typed>>
  BY <1>1 DEF AllShell
<1>3. Redir(c) \in Seq(Redirection) /\ Redir(c)' = Redir(c)
  BY <1>1, ProcessType DEF Types, Processes, Command, Redir
<1>4. 1 \in DOMAIN Redir(c) /\ Head(Redir(c)) = Redir(c)[1]
  BY <1>1, <1>3
<1>5. Reading(c)'
  <2>1. Reading(c) /\ sh[c].pc \in LinePlace
    BY <1>1 DEF Core, LinePlace
  <2>2. CASE sh'[c].pc = "check"
    <3>1. ~Reads(c)
      BY <1>1, <1>4, <2>1, <2>2 DEF Reading
    <3>2. ~Reads(c)'
      BY <1>1, <1>3, <2>2, <3>1 DEF Reads
    <3> QED
      BY <2>2, <3>2 DEF Reading
  <2>3. CASE sh'[c].pc = "offered"
    <3>1. Reads(c)
      BY <1>1, <1>4, <2>3 DEF Reads
    <3> QED
      BY <1>1, <1>3, <2>1, <2>3, <3>1 DEF Reading
  <2> QED
    BY <1>1, <2>2, <2>3
<1>6. ShellStep(c) /\ ~Signal(c) /\ ~Mkfifo(c)
  BY <1>1 DEF ShellStep, Signal, Mkfifo, At
<1> QED
  BY <1>1, <1>2, <1>5, <1>6, CoreQuiet DEF LinePlace

LEMMA CoreReadLine == ASSUME PlainLines, Types, IdsOnce, Core, NEW c \in Conn, ReadLine(c) PROVE Core'
<1>1. /\ sh[c].pc = "prompt" /\ sh[c].h = 0
      /\ sh'[c].pc \in {"slot", "line"} /\ Others(c) /\ SameHandler(c) /\ sh'[c].id = sh[c].id
      /\ sh'[c].line \in Line /\ sh'[c].in_fd = None
      /\ sh'[c].source_id = 0 /\ sh'[c].target_id = 0
      /\ UNCHANGED <<shm_cli, shm_fifo, file, made, usr2, proc, content>>
  BY ReadLineFacts DEF Types
<1>2. Reading(c)'
  <2>1. Reads(c)' => /\ sh'[c].line.prog = "program"
                     /\ \A i \in DOMAIN Redir(c)' : Redir(c)'[i].op = "from"
    BY <1>1 DEF Reads, Redir, PlainLines
  <2> QED
    BY <1>1, <2>1 DEF Reading
<1>3. ~Signal(c) /\ ~Mkfifo(c)
  BY <1>1 DEF Signal, Mkfifo, At
<1> QED
  BY <1>1, <1>2, <1>3, CoreQuiet

LEMMA CoreLogin == ASSUME Types, IdsOnce, IdsOnce', Core, NEW c \in Conn, Login(c) PROVE Core'
<1>1. /\ sh[c].pc = "away" /\ sh'[c].pc = "prompt" /\ Others(c) /\ SameLine(c) /\ SameHandler(c)
      /\ sh'[c].id \in Id
      /\ \A i \in Id : shm_cli'[i] = IF i = sh'[c].id THEN [valid |-> 1, pid |-> c] ELSE shm_cli[i]
      /\ UNCHANGED <<shm_fifo, file, made, usr2, proc, content>>
  BY LoginFacts DEF Types
<1>2. /\ sh[c].id = 0 /\ sh[c].h = 0 /\ sh[c].opening = 0 /\ ~sh[c].woken /\ sh[c].held = {}
      /\ 0 \notin Id
  BY <1>1, IdFacts DEF Types, Placed, Alive
<1>3. \A d \in Conn : d # c => sh'[d] = sh[d] /\ sh[d].id # sh'[c].id
  BY <1>1, <1>2 DEF Others, IdsOnce
<1>4. SameProcs /\ ChildrenGoOn /\ ProcsKept /\ NoNewWriters
  BY <1>1, UnchangedProcs, SameProcsFacts
<1>5. \A d \in Conn : /\ Owner(d)' => Owner(d) /\ Out(d)' = Out(d)
                      /\ Sent(d)' => Sent(d) /\ Out(d)' = Out(d)
  BY <1>1, ClaimsKept DEF Types, Mkfifo, Signal, At
<1>6. \A p : /\ SameEntry(p)
             /\ Open(p)' /\ Served(p)' => Open(p) /\ Served(p)
             /\ Open(p)' /\ Asked(p)' => Open(p) /\ Asked(p)
  BY <1>1, <1>4, <1>5, ServedKept DEF SameEntry
<1>7. Slots'
  <2>1. ASSUME NEW d \in Conn, d # c, sh[d].id # 0
        PROVE  shm_cli'[sh[d].id] = shm_cli[sh[d].id]
    <3>1. sh[d].id \in Id
      BY <2>1 DEF Types, Placed
    <3> QED
      BY <1>1, <1>3, <2>1, <3>1
  <2>2. shm_cli'[sh'[c].id].pid = c
    BY <1>1
  <2> QED
    BY <1>1, <1>3, <2>1, <2>2 DEF Core, Slots
<1>8. OneWriter'
  BY <1>1, <1>4, <1>5, OneWriterKept DEF Core
<1>9. \A d \in Conn : sh[d].id # 0 => sh'[d].id = sh[d].id
  BY <1>2, <1>3
<1>10. Offers'
  BY <1>1, <1>4, <1>9, OffersKept DEF Core, Offers
<1>11. \A d \in Conn : sh'[d].in_fd = sh[d].in_fd
  BY <1>1, <1>3 DEF SameLine
<1>12. Fds'
  BY <1>1, <1>4, <1>9, <1>11, FdsKept DEF Core, Types
<1>13. ReadToEnd'
  BY <1>1, <1>4, <1>11, ReadToEndKept DEF Core, Types, Fds
<1>14. CheckMisses'
  BY <1>1, <1>3, <1>4, CheckMissesKept, BeingReadKept DEF Core
<1>15. Held'
  <2>1. \A d \in Conn : sh'[d].held = sh[d].held /\ sh'[d].opening = sh[d].opening
                        /\ (Listening(d)' => Listening(d) \/ sh[d].held = {})
    BY <1>1, <1>2, <1>3 DEF SameHandler, Listening, Alive
  <2>2. \A p \in Pair : \A d \in Conn : \A k : shm_fifo[p].out_fd = <<d, k>> => Kept(d, k)'
    BY <1>1 DEF Kept
  <2> QED
    BY <1>1, <1>4, <2>1, <2>2, HeldKept DEF Core, Types
<1>16. \A d \in Conn : d # c => Working(d)' /\ Reading(d)'
  BY <1>1, <1>4, <1>6, OthersWork DEF Types
<1>17. \A d \in Conn : d # c => Comes(d)' /\ Cleaned(d)'
  BY <1>1, <1>6, OthersServed DEF Types, SameEntry
<1>18. Working(c)' /\ Reading(c)' /\ Cleaned(c)'
  BY <1>1, <1>2 DEF Working, Reading, LinePlace, Cleaned, SameHandler
<1>19. Comes(c)'
  <2>1. ASSUME NEW s \in Id, NEW p, p = To(c, s)' PROVE file'[p] = 0
    <3>1. p \in Pair /\ p[2] = sh'[c].id
      BY <1>1, <2>1 DEF To, Pair
    <3>2. file[p] # 0 => made[file[p]].to \in Conn /\ sh[made[file[p]].to].id = sh'[c].id
      BY <3>1, MadeType DEF Types, Named
    <3> QED
      BY <1>1, <1>2, <1>3, <3>2
  <2>2. ASSUME NEW s \in Id PROVE ~Open(To(c, s))'
    BY <2>1 DEF Open
  <2> QED
    BY <2>2 DEF Comes
<1> QED
  BY <1>7, <1>8, <1>10, <1>12, <1>13, <1>14, <1>15, <1>16, <1>17, <1>18, <1>19 DEF Core

LEMMA ReadsNothing ==
    ASSUME Types, Core, NEW c \in Conn, sh[c].pc \in {"check", "mkfifo", "name", "signal"}
    PROVE  ~Reads(c)
BY IdFacts DEF Types, Placed, Core, Reading, LinePlace

LEMMA ChildWrites == ASSUME TypeOK PROVE \A j \in DOMAIN proc : proc[j].wr \in 0 .. Len(made)
BY ChildType DEF Children

(* The FIFO is new: nobody writes to it.                                   *)
LEMMA CoreMkfifo == ASSUME Types, IdsOnce, Core, NEW c \in Conn, Mkfifo(c) PROVE Core'
<1>1. /\ sh[c].pc = "mkfifo" /\ Out(c) \in Pair
      /\ UNCHANGED <<shm_cli, shm_fifo, usr2, proc>>
      /\ \/ file[Out(c)] # 0 /\ Moves(c, "dead") /\ UNCHANGED <<file, made, content>>
         \/ /\ file[Out(c)] = 0 /\ Moves(c, "name")
            /\ file'[Out(c)] = Len(made) + 1 /\ FilesBut(Out(c))
            /\ Len(made') = Len(made) + 1
            /\ \A k \in 1 .. Len(made) : made'[k] = made[k] /\ content'[k] = content[k]
            /\ content'[Len(made) + 1] = {}
            /\ DOMAIN content = 1 .. Len(made) /\ DOMAIN content' = 1 .. Len(made')
  BY MkfifoFacts DEF Types
<1>2. ~Reads(c) /\ ShellStep(c) /\ ~Signal(c)
  BY <1>1, ReadsNothing DEF ShellStep, Signal
<1>3. ASSUME file[Out(c)] # 0 PROVE Core'
  <2>1. Moves(c, "dead") /\ UNCHANGED <<shm_cli, shm_fifo, file, made, usr2, proc, content>>
    BY <1>1, <1>3
  <2>2. Reading(c)'
    BY <2>1 DEF Moves, Reading, LinePlace
  <2> QED
    BY <1>1, <1>2, <1>3, <2>1, <2>2, CoreQuiet DEF Moves, SameLine, LinePlace
<1>4. ASSUME file[Out(c)] = 0 PROVE Core'
  <2> DEFINE n == Len(made) + 1
  <2>1. /\ Others(c) /\ SameLine(c) /\ SameHandler(c) /\ sh'[c].pc = "name" /\ sh'[c].id = sh[c].id
        /\ sh[c].h = 0
        /\ UNCHANGED <<shm_cli, shm_fifo, usr2, proc>>
        /\ file'[Out(c)] = n /\ FilesBut(Out(c))
        /\ \A k \in 1 .. Len(made) : made'[k] = made[k] /\ content'[k] = content[k]
        /\ \A k \in DOMAIN content' : content'[k] # {} => k \in DOMAIN content /\ content[k] # {}
    BY <1>1, <1>4 DEF Moves, Types, TypeOK
  <2>2. /\ n # 0 /\ \A p \in Pair : file[p] # n
        /\ \A j \in DOMAIN proc : proc[j].wr # n
    BY ChildWrites DEF Types, TypeOK
  <2> HIDE DEF n
  <2>3. SameProcs /\ ChildrenGoOn /\ ProcsKept /\ NoNewWriters
    BY <2>1, UnchangedProcs, SameProcsFacts
  <2>4. \A d \in Conn : /\ Owner(d)' => (Owner(d) /\ Out(d)' = Out(d)) \/ d = c
                        /\ Sent(d)' => Sent(d) /\ Out(d)' = Out(d)
    BY <1>2, ClaimsKept DEF Types
  <2>5. \A d \in Conn : Owner(d) => Out(d) # Out(c)
    BY <1>4 DEF Core, OneWriter, Fresh
  <2>6. \A j \in DOMAIN proc : Forking(j) => proc[j].to # Out(c)
    BY <1>4 DEF Core, OneWriter, Fresh
  <2>7. Out(c)' = Out(c)
    BY <2>1 DEF Out, SameLine
  <2>8. \A p \in Pair : p # Out(c) => file'[p] = file[p]
    BY <2>1 DEF FilesBut
  <2>9. ~Asked(Out(c))' /\ NotOpened(Out(c))'
    <3>1. \A p : p = Out(c) => ~Asked(p)' /\ NotOpened(p)'
      <4>1. ASSUME NEW p, p = Out(c) PROVE ~Served(p)' /\ NotOpened(p)'
        BY <2>1, <2>2, <2>6, <4>1 DEF Served, Writers, NotOpened, Forking
      <4>2. ASSUME NEW p, p = Out(c), NEW d \in Conn, Sent(d)' PROVE Out(d)' # p
        BY <2>4, <2>5, <4>2 DEF Owner
      <4> QED
        BY <4>1, <4>2 DEF Asked
    <3> QED
      BY <2>7, <3>1
  <2>10. \A p : p = Out(c) => ~Asked(p)' /\ NotOpened(p)'
    BY <2>7, <2>9
  <2>11. OneWriter'
    <3>1. ASSUME NEW d \in Conn, Owner(d)'
          PROVE  Fresh(Out(d))' /\ \A j \in DOMAIN proc' : Forking(j)' => proc'[j].to # Out(d)'
      <4>1. CASE d = c
        BY <2>1, <2>2, <2>6, <2>7, <4>1 DEF Fresh, NotOpened, Forking
      <4>2. CASE d # c
        <5>1. Owner(d) /\ Out(d)' = Out(d) /\ Out(d) # Out(c) /\ Out(d) \in Pair
          <6>1. Owner(d) /\ Out(d)' = Out(d) /\ Out(d) # Out(c)
            BY <2>4, <2>5, <3>1, <4>2
          <6> QED
            BY <6>1, PairFacts DEF Types, Owner, Sent
        <5> QED
          BY <2>1, <2>8, <5>1 DEF Core, OneWriter, Fresh, NotOpened, Forking
      <4> QED
        BY <4>1, <4>2
    <3>2. ASSUME NEW i \in DOMAIN proc', Forking(i)'
          PROVE  Fresh(proc[i].to)' /\ \A j \in DOMAIN proc' : Forking(j)' /\ proc'[j].to = proc'[i].to => i = j
      <4>1. Forking(i) /\ proc[i].to # Out(c) /\ proc[i].to \in Pair
        BY <2>1, <2>6, <3>2 DEF Forking, Types, Placed
      <4> QED
        BY <2>1, <2>8, <4>1 DEF Core, OneWriter, Fresh, NotOpened, Forking
    <3>3. \A j \in DOMAIN proc' :
            /\ proc'[j].wr # 0 => \A p \in Pair : file'[p] = proc'[j].wr => proc'[j].to = p
            /\ proc'[j].st \in {"open", "record"} => proc'[j].wr # 0
      BY <2>1, <2>2, <2>8 DEF Core, OneWriter
    <3>4. \A i, j \in DOMAIN proc' : proc'[i].wr = proc'[j].wr /\ proc'[i].wr # 0 => i = j
      BY <2>1 DEF Core, OneWriter
    <3> QED
      BY <3>1, <3>2, <3>3, <3>4 DEF OneWriter
  <2>12. \A p \in Pair : /\ SameEntry(p)
                         /\ Open(p)' /\ Served(p)' => Open(p) /\ Served(p)
                         /\ Open(p)' /\ Asked(p)' => Open(p) /\ Asked(p)
    <3>1. ASSUME NEW p \in Pair, p # Out(c)
          PROVE  /\ Open(p)' /\ Served(p)' => Open(p) /\ Served(p)
                 /\ Open(p)' /\ Asked(p)' => Open(p) /\ Asked(p)
      BY <2>1, <2>3, <2>4, <2>8, <3>1, ServedKept
    <3> QED
      BY <1>4, <2>1, <2>8, <2>10, <3>1 DEF SameEntry, Asked
  <2>13. Slots'
    BY <2>1, SlotsKept DEF Core, Others
  <2>14. Offers'
    <3>1. \A p \in Pair : shm_fifo[p].out_fd # None => file'[p] = file[p]
      BY <1>4, <2>8 DEF Core, Offers, Used
    <3> QED
      BY <2>1, <2>3, <3>1, OffersKept DEF Core, Offers, Others
  <2>15. Fds'
    BY <2>1, <2>3, FdsKept DEF Core, Types, Others, SameLine
  <2>16. ReadToEnd'
    BY <2>1, <2>3, ReadToEndKept DEF Core, Types, Others, SameLine, Fds
  <2>17. CheckMisses'
    BY <1>1, <2>1, <2>3, <2>8, <2>10, CheckMissesKept, BeingReadKept DEF Core, Others
  <2>18. Held'
    <3>1. \A d \in Conn : sh'[d].held = sh[d].held /\ sh'[d].opening = sh[d].opening
                          /\ (Listening(d)' => Listening(d))
      BY <1>1, <2>1 DEF Others, SameHandler, Listening, Alive
    <3>2. \A p \in Pair : \A d \in Conn : \A k : shm_fifo[p].out_fd = <<d, k>> => Kept(d, k)'
      BY <2>1 DEF Kept
    <3> QED
      BY <2>1, <2>3, <3>1, <3>2, HeldKept DEF Core, Types
  <2>19. \A d \in Conn : d # c => Working(d)' /\ Reading(d)'
    BY <2>1, <2>3, <2>12, OthersWork DEF Types
  <2>20. \A d \in Conn : d # c => Comes(d)' /\ Cleaned(d)'
    BY <2>1, <2>12, OthersServed DEF Types, SameEntry
  <2>21. Working(c)' /\ Reading(c)' /\ Cleaned(c)'
    <3>1. sh'[c].opening = 0 /\ ~sh'[c].woken
      BY <2>1 DEF SameHandler, Types, Placed
    <3>2. ~Reads(c)' /\ sh'[c].source_id = 0
      BY <1>2, <2>1 DEF Reads, SameLine, Redir
    <3> QED
      BY <2>1, <3>1, <3>2 DEF Working, Reading, Cleaned
  <2>22. Comes(c)'
    BY <1>1, <2>1, <2>12, ToPair, ComesKept DEF Core, Types, Alive, SameHandler
  <2> QED
    BY <2>11, <2>13, <2>14, <2>15, <2>16, <2>17, <2>18, <2>19, <2>20, <2>21, <2>22 DEF Core
<1> QED
  BY <1>3, <1>4

(* Until the signal is sent, nobody else has to do with the FIFO.          *)
LEMMA NotAsked ==
    ASSUME Types, IdsOnce, Core, NEW c \in Conn, Owner(c), ~Sent(c), sh[c].id # 0
    PROVE  ~Asked(Out(c)) /\ NotOpened(Out(c))
<1>1. NotOpened(Out(c)) /\ file[Out(c)] # 0 /\ \A j \in DOMAIN proc : Forking(j) => proc[j].to # Out(c)
  BY DEF Core, OneWriter, Fresh
<1>2. Writers(file[Out(c)]) = {}
  BY <1>1 DEF NotOpened, Writers
<1>3. \A d \in Conn : Sent(d) => Out(d) # Out(c)
  BY Apart
<1> QED
  BY <1>1, <1>2, <1>3 DEF Asked, Served

LEMMA CoreSetName == ASSUME Types, IdsOnce, Core, NEW c \in Conn, SetName(c) PROVE Core'
<1>1. /\ sh[c].pc = "name" /\ Out(c) \in Pair /\ sh[c].h = 0
      /\ Others(c) /\ SameLine(c) /\ SameHandler(c) /\ sh'[c].pc \in {"signal", "dead"} /\ sh'[c].id = sh[c].id
      /\ EntriesBut(Out(c)) /\ shm_fifo'[Out(c)].name
      /\ shm_fifo'[Out(c)].in_fd = shm_fifo[Out(c)].in_fd
      /\ shm_fifo'[Out(c)].out_fd = shm_fifo[Out(c)].out_fd
      /\ shm_fifo'[Out(c)].is_used = shm_fifo[Out(c)].is_used
      /\ UNCHANGED <<shm_cli, file, made, usr2, proc, content>>
  BY SetNameFacts DEF Types, Moves
<1>2. ~Reads(c) /\ ShellStep(c) /\ ~Signal(c) /\ ~Mkfifo(c)
  BY <1>1, ReadsNothing DEF ShellStep, Signal, Mkfifo, At
<1>3. SameProcs /\ ChildrenGoOn /\ ProcsKept /\ NoNewWriters
  BY <1>1, UnchangedProcs, SameProcsFacts
<1>4. \A d \in Conn : /\ Owner(d)' => Owner(d) /\ Out(d)' = Out(d)
                      /\ Sent(d)' => Sent(d) /\ Out(d)' = Out(d)
  BY <1>2, ClaimsKept DEF Types
<1>5. Owner(c) /\ ~Sent(c) /\ sh[c].id # 0 /\ sh[c].pc # "away"
  BY <1>1, IdFacts DEF Owner, Sent, Types, Placed
<1>6. ~Asked(Out(c)) /\ NotOpened(Out(c))
  BY <1>5, NotAsked
<1>7. \A p \in Pair : p # Out(c) => shm_fifo'[p] = shm_fifo[p]
  BY <1>1 DEF EntriesBut
<1>8. \A p \in Pair : p = Out(c) => ~Asked(p)' /\ ~Served(p)' /\ NotOpened(p)'
  <2>1. ASSUME NEW p \in Pair, p = Out(c) PROVE ~Served(p)' /\ NotOpened(p)'
    BY <1>1, <1>6, <2>1 DEF Asked, Served, NotOpened, Forking, Writers
  <2>2. ASSUME NEW p \in Pair, p = Out(c), NEW d \in Conn, Sent(d)' PROVE Out(d)' # p
    BY <1>4, <1>6, <2>2 DEF Asked
  <2> QED
    BY <2>1, <2>2 DEF Asked
<1>9. \A p \in Pair : /\ SameEntry(p)
                      /\ Open(p)' /\ Served(p)' => Open(p) /\ Served(p)
                      /\ Open(p)' /\ Asked(p)' => Open(p) /\ Asked(p)
  <2>1. ASSUME NEW p \in Pair, p # Out(c)
        PROVE  /\ Open(p)' /\ Served(p)' => Open(p) /\ Served(p)
               /\ Open(p)' /\ Asked(p)' => Open(p) /\ Asked(p)
    BY <1>1, <1>3, <1>4, <1>7, <2>1, ServedKept
  <2> QED
    BY <1>1, <1>7, <1>8, <2>1 DEF SameEntry
<1>10. Slots'
  BY <1>1, SlotsKept DEF Core, Others
<1>11. OneWriter'
  BY <1>1, <1>3, <1>4, OneWriterKept DEF Core
<1>12. \A p \in Pair : shm_fifo'[p].out_fd = shm_fifo[p].out_fd /\ shm_fifo'[p].is_used = shm_fifo[p].is_used
                       /\ shm_fifo'[p].in_fd = shm_fifo[p].in_fd
  BY <1>1, <1>7
<1>13. Offers'
  BY <1>1, <1>3, <1>12, OffersKept DEF Core, Offers, Others
<1>14. Fds'
  BY <1>1, <1>3, <1>12, FdsKept DEF Core, Types, Others, SameLine
<1>15. ReadToEnd'
  BY <1>1, <1>3, ReadToEndKept DEF Core, Types, Others, SameLine, Fds
<1>16. CheckMisses'
  <2>1. \A p \in Pair : BeingRead(p) => BeingRead(p)'
    BY <1>1, <1>12, BeingReadKept DEF Others
  <2> QED
    BY <1>1, <1>3, <1>7, <1>8, <1>12, <2>1, CheckMissesKept DEF Core
<1>17. Held'
  <2>1. \A d \in Conn : sh'[d].held = sh[d].held /\ sh'[d].opening = sh[d].opening
                        /\ (Listening(d)' => Listening(d))
    BY <1>1 DEF Others, SameHandler, Listening, Alive
  <2>2. \A p \in Pair : \A d \in Conn : \A k : shm_fifo[p].out_fd = <<d, k>> => Kept(d, k)'
    BY <1>12 DEF Kept
  <2> QED
    BY <1>1, <1>3, <2>1, <2>2, HeldKept DEF Core, Types
<1>18. \A d \in Conn : d # c => Working(d)' /\ Reading(d)'
  BY <1>1, <1>3, <1>9, OthersWork DEF Types
<1>19. \A d \in Conn : d # c => Comes(d)' /\ Cleaned(d)'
  BY <1>1, <1>9, OthersServed DEF Types, SameEntry
<1>20. Working(c)' /\ Reading(c)' /\ Cleaned(c)'
  <2>1. sh'[c].opening = 0 /\ ~sh'[c].woken
    BY <1>1 DEF SameHandler, Types, Placed
  <2>2. ~Reads(c)' /\ sh'[c].source_id = 0
    BY <1>1, <1>2 DEF Reads, SameLine, Redir
  <2> QED
    BY <1>1, <2>1, <2>2 DEF Working, Reading, Cleaned
<1>21. Comes(c)'
  BY <1>1, <1>5, <1>9, ToPair, ComesKept DEF Core, Types, Alive, SameHandler, SameEntry
<1> QED
  BY <1>10, <1>11, <1>13, <1>14, <1>15, <1>16, <1>17, <1>18, <1>19, <1>20, <1>21 DEF Core

(* The signal goes to the process the FIFO is for, which takes it later.   *)
LEMMA CoreSignal == ASSUME Types, IdsOnce, Core, NEW c \in Conn, Signal(c) PROVE Core'
<1>1. /\ sh[c].pc = "signal" /\ sh[c].h = 0 /\ sh'[c].pc = "line" /\ Others(c)
      /\ sh'[c].id = sh[c].id /\ SameHandler(c)
      /\ sh'[c].line.prog = sh[c].line.prog /\ sh'[c].line.redir = Tail(Redir(c))
      /\ sh'[c].in_fd = sh[c].in_fd /\ sh'[c].source_id = sh[c].source_id
      /\ sh'[c].target_id = sh[c].target_id
      /\ usr2' = usr2 \cup {d \in Conn : Alive(d) /\ d = shm_cli[sh[c].target_id].pid}
      /\ UNCHANGED <<shm_cli, shm_fifo, file, made, proc, content>>
  BY SignalFacts DEF Types
<1>2. ~Reads(c) /\ ShellStep(c) /\ ~Mkfifo(c) /\ Out(c) \in Pair
  BY <1>1, ReadsNothing, PairFacts DEF ShellStep, Mkfifo, At, Types
<1>3. SameProcs /\ ChildrenGoOn /\ ProcsKept /\ NoNewWriters
  BY <1>1, UnchangedProcs, SameProcsFacts
<1>4. \A d \in Conn : /\ Owner(d)' => Owner(d) /\ Out(d)' = Out(d)
                      /\ Sent(d)' => (Sent(d) \/ d = c) /\ Out(d)' = Out(d)
  <2>1. Out(c)' = Out(c)
    BY <1>1 DEF Out
  <2> QED
    BY <1>2, <2>1, ClaimsKept DEF Types
<1>5. \A p : /\ SameEntry(p)
             /\ Served(p)' => Served(p)
             /\ Open(p)' => Open(p)
             /\ Asked(p)' => Asked(p) \/ p = Out(c)
  <2>1. ASSUME NEW p PROVE (Served(p)' => Served(p)) /\ (Open(p)' => Open(p))
    BY <1>1, <1>3, ServedKept
  <2> QED
    BY <1>1, <1>4, <2>1 DEF SameEntry, Asked
<1>6. Slots'
  BY <1>1, SlotsKept DEF Core, Others
<1>7. OneWriter'
  BY <1>1, <1>3, <1>4, OneWriterKept DEF Core
<1>8. Offers'
  BY <1>1, <1>3, OffersKept DEF Core, Offers, Others
<1>9. Fds'
  BY <1>1, <1>3, FdsKept DEF Core, Types, Others
<1>10. ReadToEnd'
  BY <1>1, <1>3, ReadToEndKept DEF Core, Types, Others, Fds
<1>11. CheckMisses'
  BY <1>1, <1>3, CheckMissesKept, BeingReadKept DEF Core, Others
<1>12. Held'
  <2>1. \A d \in Conn : sh'[d].held = sh[d].held /\ sh'[d].opening = sh[d].opening
                        /\ (Listening(d)' => Listening(d))
    BY <1>1 DEF Others, SameHandler, Listening, Alive
  <2>2. \A p \in Pair : \A d \in Conn : \A k : shm_fifo[p].out_fd = <<d, k>> => Kept(d, k)'
    BY <1>1 DEF Kept
  <2> QED
    BY <1>1, <1>3, <2>1, <2>2, HeldKept DEF Core, Types
<1>13. \A d \in Conn : d # c => Working(d)' /\ Reading(d)'
  BY <1>1, <1>3, <1>5, OthersWork DEF Types
<1>14. Working(c)' /\ Reading(c)' /\ Cleaned(c)'
  <2>1. sh'[c].opening = 0 /\ ~sh'[c].woken
    BY <1>1 DEF SameHandler, Types, Placed
  <2>2. ~Reads(c)' /\ sh'[c].source_id = 0
    <3>1. Redir(c) \in Seq(Redirection) /\ Redir(c) # <<>>
      BY <1>1, ProcessType DEF Types, Processes, Command, Redir, Placed
    <3>2. \A i \in DOMAIN Tail(Redir(c)) : i + 1 \in DOMAIN Redir(c) /\ Tail(Redir(c))[i] = Redir(c)[i + 1]
      BY <3>1
    <3> QED
      BY <1>1, <1>2, <3>2 DEF Reads, Redir
  <2> QED
    BY <1>1, <2>1, <2>2 DEF Working, Reading, Cleaned
<1>15. ASSUME NEW d \in Conn PROVE Comes(d)'
  <2>1. /\ sh'[d].id = sh[d].id /\ sh'[d].h = sh[d].h /\ sh'[d].source_id = sh[d].source_id
        /\ sh[d].pc = "unlink" => sh'[d].pc = "unlink"
        /\ Alive(d)' => Alive(d)
    BY <1>1 DEF Others, SameHandler, Alive
  <2>2. ASSUME NEW s \in Id, NEW p, p = To(d, s), Alive(d), Open(p)', shm_fifo'[p].out_fd = None, Asked(p)'
        PROVE  d \in usr2' \/ sh[d].h \in 1 .. s \/ (sh[d].pc = "unlink" /\ sh[d].source_id = s)
    <3>1. CASE Asked(p)
      BY <1>1, <1>5, <2>2, <3>1 DEF Core, Comes
    <3>2. CASE p = Out(c)
      <4>1. sh[c].target_id = sh[d].id /\ sh[d].id # 0
        BY <1>2, <2>2, <3>2, IdFacts DEF To, Out, Pair
      <4> QED
        BY <1>1, <2>2, <4>1 DEF Core, Slots
    <3> QED
      BY <1>5, <2>2, <3>1, <3>2
  <2>3. \A s \in Id : \A p : p = To(d, s) => To(d, s)' = p
    BY <2>1 DEF To
  <2>4. ASSUME NEW s \in Id,
               Alive(d)' /\ Open(To(d, s))' /\ shm_fifo'[To(d, s)'].out_fd = None /\ Asked(To(d, s))'
        PROVE  d \in usr2' \/ sh[d].h \in 1 .. s \/ (sh[d].pc = "unlink" /\ sh[d].source_id = s)
    <3>1. \A p : p = To(d, s) => Open(p)' /\ shm_fifo'[p].out_fd = None /\ Asked(p)'
      BY <2>3, <2>4
    <3> QED
      BY <2>1, <2>2, <2>4, <3>1
  <2> QED
    BY <2>1, <2>4 DEF Comes
<1>16. ASSUME NEW d \in Conn, d # c PROVE Cleaned(d)'
  <2>1. sh'[d] = sh[d] /\ Cleaned(d)
    BY <1>1, <1>16 DEF Core, Others
  <2>2. \A s \in Id : \A p : p = To(d, s) => To(d, s)' = p
    BY <2>1 DEF To
  <2>3. \A s \in Id : Open(To(d, s))' /\ Served(To(d, s))' => Open(To(d, s)) /\ Served(To(d, s))
    BY <1>5, <2>2
  <2> QED
    BY <1>1, <2>1, <2>2, <2>3 DEF Cleaned
<1> QED
  BY <1>6, <1>7, <1>8, <1>9, <1>10, <1>11, <1>12, <1>13, <1>14, <1>15, <1>16 DEF Core

(* The command takes the descriptor the handler of this process entered.   *)
LEMMA CoreTake == ASSUME Types, IdsOnce, Core, NEW c \in Conn, GetUserPipeFd(c) PROVE Core'
<1>1. /\ sh[c].pc = "take" /\ sh[c].h = 0 /\ In(c) \in Pair /\ sh[c].source_id # 0 /\ sh[c].id # 0
      /\ sh'[c].pc = "line" /\ Others(c) /\ sh'[c].id = sh[c].id /\ SameHandler(c)
      /\ sh'[c].line.prog = sh[c].line.prog /\ sh'[c].line.redir = Tail(Redir(c))
      /\ sh'[c].in_fd = shm_fifo[In(c)].out_fd /\ sh'[c].source_id = sh[c].source_id
      /\ sh'[c].target_id = sh[c].target_id
      /\ \A p \in Pair : /\ shm_fifo'[p].name = shm_fifo[p].name /\ shm_fifo'[p].out_fd = shm_fifo[p].out_fd
                         /\ p # In(c) => shm_fifo'[p] = shm_fifo[p]
      /\ shm_fifo'[In(c)].is_used
      /\ UNCHANGED <<shm_cli, file, made, usr2, proc, content>>
  <2>1. sh[c].source_id # 0 /\ sh[c].id # 0
    BY IdFacts, GetUserPipeFdFacts DEF Types, Placed
  <2> QED
    BY <2>1, GetUserPipeFdFacts DEF EntriesBut, Types
<1>2. ShellStep(c) /\ ~Signal(c) /\ ~Mkfifo(c) /\ Redir(c) # <<>>
  BY <1>1 DEF ShellStep, Signal, Mkfifo, At, Types, Placed
<1>3. SameProcs /\ ChildrenGoOn /\ ProcsKept /\ NoNewWriters
  BY <1>1, UnchangedProcs, SameProcsFacts
<1>4. \A d \in Conn : /\ Owner(d)' => Owner(d) /\ Out(d)' = Out(d)
                      /\ Sent(d)' => Sent(d) /\ Out(d)' = Out(d)
  BY <1>2, ClaimsKept DEF Types
<1>5. \A p \in Pair : /\ SameEntry(p)
                      /\ Open(p)' /\ Served(p)' => Open(p) /\ Served(p)
                      /\ Open(p)' /\ Asked(p)' => Open(p) /\ Asked(p)
  BY <1>1, <1>3, <1>4, ServedKept DEF SameEntry
<1>6. /\ shm_fifo[In(c)].out_fd # None
      /\ shm_fifo[In(c)].out_fd = <<c, file[In(c)]>> /\ Used(In(c))
  <2>1. shm_fifo[In(c)].out_fd # None
    BY <1>1 DEF Core, Working
  <2>2. PICK d \in Conn : sh[d].id = In(c)[2] /\ shm_fifo[In(c)].out_fd = <<d, file[In(c)]>>
    BY <1>1, <2>1 DEF Core, Offers
  <2>3. d = c
    BY <1>1, <2>2 DEF In, IdsOnce
  <2> QED
    BY <1>1, <2>1, <2>2, <2>3 DEF Core, Offers
<1>7. In(c)' = In(c)
  BY <1>1 DEF In
<1>8. Slots'
  BY <1>1, SlotsKept DEF Core, Others
<1>9. OneWriter'
  BY <1>1, <1>3, <1>4, OneWriterKept DEF Core
<1>10. Offers'
  <2>1. \A p \in Pair : shm_fifo'[p].is_used => shm_fifo'[p].out_fd # None
    BY <1>1, <1>6 DEF Core, Offers
  <2> QED
    BY <1>1, <1>3, <2>1, OffersKept DEF Core, Others
<1>11. Fds'
  BY FdsTake DEF Core, Types
<1>12. ReadToEnd'
  <2>1. \E j \in DOMAIN proc : proc[j].wr = file[In(c)]
    BY <1>6 DEF Used, NotOpened
  <2>2. \A d \in Conn : sh'[d].in_fd # None => \E j \in DOMAIN proc' : proc'[j].wr = sh'[d].in_fd[2]
    BY <1>1, <1>6, <2>1 DEF Core, ReadToEnd, Others
  <2>3. \A k : Writers(k)' = Writers(k)
    BY <1>1 DEF Writers
  <2>4. \A j \in DOMAIN proc : Input(j)' = Input(j)
    BY <1>1 DEF Input
  <2>5. ASSUME NEW j \in DOMAIN proc', NEW k \in Input(j)'
        PROVE  /\ \E i \in DOMAIN proc' : proc'[i].wr = k
               /\ proc'[j].st = "done" => content'[k] = {} /\ Writers(k)' = {}
    BY <1>1, <2>3, <2>4, <2>5 DEF Core, ReadToEnd
  <2> QED
    BY <2>2, <2>5 DEF ReadToEnd
<1>13. CheckMisses'
  <2>1. \A p \in Pair : p # In(c) => (BeingRead(p) => BeingRead(p)')
    BY <1>1, BeingReadKept DEF Others
  <2>2. BeingRead(In(c))'
    BY <1>1, <1>7 DEF BeingRead
  <2>3. \A p \in Pair : p = In(c) => BeingRead(p)'
    BY <1>7, <2>2 DEF BeingRead
  <2> QED
    BY <1>1, <1>3, <2>1, <2>3, CheckMissesKept DEF Core
<1>14. Held'
  <2>1. \A d \in Conn : sh'[d].held = sh[d].held /\ sh'[d].opening = sh[d].opening
                        /\ (Listening(d)' => Listening(d))
    BY <1>1 DEF Others, SameHandler, Listening, Alive
  <2>2. \A p \in Pair : \A d \in Conn : \A k : shm_fifo[p].out_fd = <<d, k>> => Kept(d, k)'
    BY <1>1 DEF Kept
  <2> QED
    BY <1>1, <1>3, <2>1, <2>2, HeldKept DEF Core, Types
<1>15. \A d \in Conn : d # c => Working(d)' /\ Reading(d)'
  BY <1>1, <1>3, <1>5, OthersWork DEF Types
<1>16. \A d \in Conn : d # c => Comes(d)' /\ Cleaned(d)'
  BY <1>1, <1>5, OthersServed DEF Types, SameEntry
<1>17. Working(c)' /\ Cleaned(c)'
  <2>1. sh'[c].opening = 0 /\ ~sh'[c].woken
    BY <1>1 DEF SameHandler, Types, Placed
  <2> QED
    BY <1>1, <2>1 DEF Working, Cleaned
<1>18. Reading(c)'
  <2>1. /\ sh[c].line.prog = "program" /\ sh[c].target_id = 0
        /\ \A i \in DOMAIN Redir(c) : Redir(c)[i].op = "from"
    BY <1>1 DEF Core, Reading, Reads, LinePlace
  <2>2. Redir(c) \in Seq(Redirection)
    BY ProcessType DEF Types, Processes, Command, Redir
  <2>3. \A i \in DOMAIN Tail(Redir(c)) : Tail(Redir(c))[i].op = "from"
    <3>1. \A i \in DOMAIN Tail(Redir(c)) : i + 1 \in DOMAIN Redir(c) /\ Tail(Redir(c))[i] = Redir(c)[i + 1]
      BY <1>2, <2>2
    <3> QED
      BY <2>1, <3>1
  <2>4. Redir(c)' = Tail(Redir(c))
    BY <1>1 DEF Redir
  <2>5. shm_fifo'[In(c)'].out_fd = shm_fifo[In(c)].out_fd
    BY <1>1, <1>7
  <2> QED
    BY <1>1, <1>6, <2>1, <2>3, <2>4, <2>5 DEF Reading
<1>19. Comes(c)'
  BY <1>1, <1>5, ToPair, ComesKept DEF Core, Types, Alive, SameHandler, SameEntry
<1> QED
  BY <1>8, <1>9, <1>10, <1>11, <1>12, <1>13, <1>14, <1>15, <1>16, <1>17, <1>18, <1>19 DEF Core

(* Forgetting the name only takes an entry from those that are open.       *)
LEMMA CoreForget == ASSUME Types, IdsOnce, Core, NEW c \in Conn, ForgetName(c) PROVE Core'
<1>1. /\ sh[c].pc = "forget" /\ In(c) \in Pair /\ sh[c].h = 0
      /\ Others(c) /\ SameLine(c) /\ SameHandler(c) /\ sh'[c].pc = "prompt" /\ sh'[c].id = sh[c].id
      /\ EntriesBut(In(c)) /\ ~shm_fifo'[In(c)].name
      /\ shm_fifo'[In(c)].in_fd = shm_fifo[In(c)].in_fd
      /\ shm_fifo'[In(c)].out_fd = shm_fifo[In(c)].out_fd
      /\ shm_fifo'[In(c)].is_used = shm_fifo[In(c)].is_used
      /\ UNCHANGED <<shm_cli, file, made, usr2, proc, content>>
  BY ForgetNameFacts DEF Types, Moves
<1>2. ShellStep(c) /\ ~Signal(c) /\ ~Mkfifo(c)
  BY <1>1 DEF ShellStep, Signal, Mkfifo, At
<1>3. SameProcs /\ ChildrenGoOn /\ ProcsKept /\ NoNewWriters
  BY <1>1, UnchangedProcs, SameProcsFacts
<1>4. \A d \in Conn : /\ Owner(d)' => Owner(d) /\ Out(d)' = Out(d)
                      /\ Sent(d)' => Sent(d) /\ Out(d)' = Out(d)
  BY <1>2, ClaimsKept DEF Types
<1>5. \A p \in Pair : /\ shm_fifo'[p].out_fd = shm_fifo[p].out_fd /\ shm_fifo'[p].is_used = shm_fifo[p].is_used
                      /\ shm_fifo'[p].in_fd = shm_fifo[p].in_fd /\ (shm_fifo'[p].name => shm_fifo[p].name)
                      /\ p # In(c) => SameEntry(p)
  BY <1>1 DEF EntriesBut, SameEntry
<1>6. \A p \in Pair : /\ Open(p)' /\ Served(p)' => Open(p) /\ Served(p)
                      /\ Open(p)' /\ Asked(p)' => Open(p) /\ Asked(p)
  BY <1>1, <1>3, <1>4, <1>5, ServedKept
<1>7. Slots'
  BY <1>1, SlotsKept DEF Core, Others
<1>8. OneWriter'
  BY <1>1, <1>3, <1>4, OneWriterKept DEF Core
<1>9. Offers'
  BY <1>1, <1>3, <1>5, OffersKept DEF Core, Offers, Others
<1>10. Fds'
  BY <1>1, <1>3, <1>5, FdsKept DEF Core, Types, Others, SameLine
<1>11. ReadToEnd'
  BY <1>1, <1>3, ReadToEndKept DEF Core, Types, Others, SameLine, Fds
<1>12. CheckMisses'
  <2>1. \A p \in Pair : BeingRead(p) => BeingRead(p)'
    BY <1>1, <1>5, BeingReadKept DEF Others
  <2> QED
    BY <1>1, <1>3, <1>5, <2>1, CheckMissesKept DEF Core
<1>13. Held'
  <2>1. \A d \in Conn : sh'[d].held = sh[d].held /\ sh'[d].opening = sh[d].opening
                        /\ (Listening(d)' => Listening(d))
    BY <1>1 DEF Others, SameHandler, Listening, Alive
  <2>2. \A p \in Pair : \A d \in Conn : \A k : shm_fifo[p].out_fd = <<d, k>> => Kept(d, k)'
    BY <1>5 DEF Kept
  <2> QED
    BY <1>1, <1>3, <2>1, <2>2, HeldKept DEF Core, Types
<1>14. \A d \in Conn : d # c => Working(d)' /\ Reading(d)'
  BY <1>1, <1>3, <1>5, OthersWork DEF Types
<1>15. \A d \in Conn : d # c => Comes(d)' /\ Cleaned(d)'
  BY <1>1, <1>5, <1>6, OthersServed DEF Types
<1>16. Working(c)' /\ Reading(c)' /\ Cleaned(c)'
  <2>1. sh'[c].opening = 0 /\ ~sh'[c].woken
    BY <1>1 DEF SameHandler, Types, Placed
  <2> QED
    BY <1>1, <2>1 DEF Working, Reading, LinePlace, Cleaned
<1>17. Comes(c)'
  BY <1>1, <1>5, <1>6, ToPair, ComesKept DEF Core, Types, Alive, SameHandler
<1> QED
  BY <1>7, <1>8, <1>9, <1>10, <1>11, <1>12, <1>13, <1>14, <1>15, <1>16, <1>17 DEF Core

LEMMA InputIs ==
    ASSUME NEW j \in DOMAIN proc, NEW k, proc[j].rd = <<proc[j].by, k>>
    PROVE  k \in Input(j)
BY NoneFacts DEF Input

(* A used entry is reset once the command that read its FIFO has ended.    *)
LEMMA CoreErase == ASSUME Types, IdsOnce, Core, NEW c \in Conn, EraseUserPipe(c) PROVE Core'
<1>1. /\ sh[c].pc = "erase" /\ sh[c].h = 0 /\ sh[c].id # 0
      /\ \/ Moves(c, "prompt") /\ shm_fifo' = shm_fifo
         \/ /\ Moves(c, "unlink") /\ In(c) \in Pair /\ sh[c].source_id \in Id
            /\ shm_fifo[In(c)].is_used
            /\ EntriesBut(In(c)) /\ shm_fifo'[In(c)].name = shm_fifo[In(c)].name
            /\ ~shm_fifo'[In(c)].in_fd /\ ~shm_fifo'[In(c)].is_used
            /\ shm_fifo'[In(c)].out_fd = None
      /\ UNCHANGED <<shm_cli, file, made, usr2, proc, content>>
  <2>1. sh[c].id # 0 /\ sh[c].h = 0
    BY IdFacts, EraseFacts DEF Types, Placed, Moves
  <2> QED
    BY <2>1, EraseFacts DEF Types
<1>2. ShellStep(c) /\ ~Signal(c) /\ ~Mkfifo(c)
  BY <1>1 DEF ShellStep, Signal, Mkfifo, At
<1>3. CASE Moves(c, "prompt") /\ shm_fifo' = shm_fifo
  <2>1. /\ Others(c) /\ SameLine(c) /\ SameHandler(c) /\ sh'[c].pc = "prompt" /\ sh'[c].id = sh[c].id
    BY <1>3 DEF Moves
  <2>2. Reading(c)'
    BY <2>1 DEF Reading, LinePlace
  <2> QED
    BY <1>1, <1>2, <1>3, <2>1, <2>2, CoreQuiet DEF SameLine, LinePlace
<1>4. ASSUME Moves(c, "unlink"), In(c) \in Pair, sh[c].source_id \in Id,
             shm_fifo[In(c)].is_used,
             EntriesBut(In(c)), shm_fifo'[In(c)].name = shm_fifo[In(c)].name,
             ~shm_fifo'[In(c)].in_fd, ~shm_fifo'[In(c)].is_used, shm_fifo'[In(c)].out_fd = None
      PROVE  Core'
  <2>1. /\ Others(c) /\ SameLine(c) /\ SameHandler(c) /\ sh'[c].pc = "unlink" /\ sh'[c].id = sh[c].id
        /\ In(c)' = In(c) /\ sh[c].source_id # 0
        /\ \A p \in Pair : p # In(c) => shm_fifo'[p] = shm_fifo[p]
    BY <1>4, IdFacts DEF Moves, SameLine, In, EntriesBut
  <2>2. SameProcs /\ ChildrenGoOn /\ ProcsKept /\ NoNewWriters /\ \A j \in DOMAIN proc : Input(j)' = Input(j)
    BY <1>1, UnchangedProcs, SameProcsFacts
  <2>3. \A d \in Conn : /\ Owner(d)' => Owner(d) /\ Out(d)' = Out(d)
                        /\ Sent(d)' => Sent(d) /\ Out(d)' = Out(d)
    BY <1>2, ClaimsKept DEF Types
  <2>4. \A p \in Pair : /\ p # In(c) => SameEntry(p)
                        /\ Open(p)' /\ Served(p)' => Open(p) /\ Served(p)
                        /\ Open(p)' /\ Asked(p)' => Open(p) /\ Asked(p)
    <3>1. \A p \in Pair : shm_fifo'[p].name = shm_fifo[p].name
      BY <1>4, <2>1
    <3> QED
      BY <1>1, <2>1, <2>2, <2>3, <3>1, ServedKept DEF SameEntry
  <2>5. PICK d \in Conn : sh[d].id = In(c)[2] /\ shm_fifo[In(c)].out_fd = <<d, file[In(c)]>>
    BY <1>4 DEF Core, Offers
  <2>6. d = c
    BY <1>1, <2>5 DEF In, IdsOnce
  <2>7. shm_fifo[In(c)].out_fd = <<c, file[In(c)]>> /\ shm_fifo[In(c)].out_fd # None /\ Used(In(c))
    BY <1>4, <2>5, <2>6 DEF Core, Offers
  <2>8. PICK j \in DOMAIN proc : proc[j].st = "done" /\ proc[j].rd = shm_fifo[In(c)].out_fd
    BY <1>1, <2>1 DEF Core, Reading
  <2>9. proc[j].by = c /\ file[In(c)] \in Input(j)
    <3>1. proc[j].by = c
      <4>1. proc[j].rd # None => proc[j].rd[1] = proc[j].by
        BY DEF Core, Fds, OwnDescriptors
      <4>2. proc[j].rd # None /\ proc[j].rd = <<c, file[In(c)]>>
        BY <2>7, <2>8
      <4> QED
        BY <4>1, <4>2
    <3>2. j \in DOMAIN proc /\ proc[j].rd = <<proc[j].by, file[In(c)]>>
      BY <2>7, <2>8, <3>1
    <3>3. file[In(c)] \in Input(j)
      BY <3>2, InputIs
    <3> QED
      BY <3>1, <3>3
  <2>10. Writers(file[In(c)]) = {}
    BY <2>8, <2>9 DEF Core, ReadToEnd
  <2>11. Slots'
    BY <1>1, <2>1, SlotsKept DEF Core, Others
  <2>12. OneWriter'
    BY <1>1, <2>2, <2>3, OneWriterKept DEF Core
  <2>13. Offers'
    <3>1. \A p \in Pair : /\ shm_fifo'[p].out_fd # None => shm_fifo'[p].out_fd = shm_fifo[p].out_fd
                          /\ shm_fifo'[p].is_used => shm_fifo'[p].out_fd # None
      BY <1>4, <2>1 DEF Core, Offers
    <3> QED
      BY <1>1, <2>1, <2>2, <3>1, OffersKept DEF Core, Others
  <2>14. Fds'
    <3>1. \A p \in Pair : shm_fifo'[p].out_fd # None => shm_fifo'[p].out_fd = shm_fifo[p].out_fd
      BY <1>4, <2>1
    <3> QED
      BY <1>1, <2>1, <2>2, <3>1, FdsKept DEF Core, Types, Others, SameLine
  <2>15. ReadToEnd'
    BY <1>1, <2>1, <2>2, ReadToEndKept DEF Core, Types, Others, SameLine, Fds
  <2>16. CheckMisses'
    <3>1. \A p \in Pair : p # In(c) => (BeingRead(p) => BeingRead(p)')
      BY <1>1, <2>1, BeingReadKept DEF Others
    <3>2. \A p \in Pair : p = In(c) => BeingRead(p)'
      BY <2>1 DEF BeingRead
    <3> QED
      BY <1>1, <2>1, <2>2, <3>1, <3>2, CheckMissesKept DEF Core
  <2>17. Held'
    <3>1. \A x \in Conn : sh'[x].held = sh[x].held /\ sh'[x].opening = sh[x].opening
                          /\ (Listening(x)' => Listening(x))
      BY <1>1, <2>1 DEF Others, SameHandler, Listening, Alive
    <3>2. ASSUME NEW p \in Pair, NEW x \in Conn, NEW k, shm_fifo[p].out_fd = <<x, k>> PROVE Kept(x, k)'
      <4>1. CASE p # In(c)
        BY <2>1, <3>2, <4>1 DEF Kept
      <4>2. CASE p = In(c)
        BY <1>1, <2>2, <2>7, <2>9, <3>2, <4>2 DEF Kept
      <4> QED
        BY <4>1, <4>2
    <3> QED
      BY <1>1, <2>2, <3>1, <3>2, HeldKept DEF Core, Types
  <2>18. \A x \in Conn : x # c => Working(x)' /\ Reading(x)'
    BY <2>1, <2>2, <2>4, OthersWork DEF Types
  <2>19. \A x \in Conn : x # c => Comes(x)' /\ Cleaned(x)'
    BY <1>1, <2>1, <2>4, OthersServed DEF Types
  <2>20. Working(c)' /\ Reading(c)' /\ Cleaned(c)'
    <3>1. sh'[c].opening = 0 /\ ~sh'[c].woken
      BY <1>1, <2>1 DEF SameHandler, Types, Placed
    <3>2. \A p : p = In(c) => Used(p)' /\ Writers(file[p])' = {}
      <4>1. \A p : p = In(c) => Used(p)'
        BY <1>1, <2>2, <2>7, UsedKept
      <4>2. \A k : Writers(k)' = Writers(k)
        BY <1>1 DEF Writers
      <4>3. \A p : Writers(file[p])' = Writers(file[p])
        BY <1>1 DEF Writers
      <4> QED
        BY <2>10, <4>1, <4>3
    <3>3. Used(In(c))' /\ Writers(file[In(c)])' = {}
      BY <2>1, <3>2 DEF Used, NotOpened, Writers
    <3> QED
      BY <1>4, <2>1, <3>1, <3>3 DEF Working, Reading, LinePlace, Cleaned
  <2>21. Comes(c)'
    <3>1. ASSUME NEW s \in Id, s # sh[c].source_id,
                 Open(To(c, s))' /\ shm_fifo'[To(c, s)'].out_fd = None /\ Asked(To(c, s))'
          PROVE  c \in usr2' \/ sh'[c].h \in 1 .. s
      <4>1. To(c, s) \in Pair /\ To(c, s)' = To(c, s) /\ To(c, s) # In(c)
        BY <1>1, <2>1, <3>1, ToPair DEF Types, To, In
      <4>2. \A p : p = To(c, s) => Open(p)' /\ Asked(p)' /\ shm_fifo'[p].out_fd = None
        BY <3>1, <4>1
      <4>3. Open(To(c, s)) /\ Asked(To(c, s)) /\ shm_fifo[To(c, s)].out_fd = None
        BY <2>1, <2>4, <4>1, <4>2
      <4> QED
        BY <1>1, <2>1, <4>3 DEF Core, Comes, Alive, SameHandler
    <3> QED
      BY <2>1, <3>1 DEF Comes, SameLine
  <2> QED
    BY <2>11, <2>12, <2>13, <2>14, <2>15, <2>16, <2>17, <2>18, <2>19, <2>20, <2>21 DEF Core
<1> QED
  BY <1>1, <1>3, <1>4

(* The name that is removed is that of the FIFO that has been read: no     *)
(* other was made in its place.                                            *)
LEMMA CoreUnlink == ASSUME Types, IdsOnce, Core, NEW c \in Conn, Unlink(c) PROVE Core'
<1>1. /\ sh[c].pc = "unlink" /\ In(c) \in Pair /\ sh[c].h = 0
      /\ Others(c) /\ SameLine(c) /\ SameHandler(c) /\ sh'[c].pc = "forget" /\ sh'[c].id = sh[c].id
      /\ \A p \in Pair : p # In(c) => file'[p] = file[p]
      /\ shm_fifo[In(c)].name => file'[In(c)] = 0
      /\ ~shm_fifo[In(c)].name => file' = file
      /\ UNCHANGED <<shm_cli, shm_fifo, made, usr2, proc, content>>
  BY UnlinkFacts DEF Types, Moves, FilesBut
<1>2. ShellStep(c) /\ ~Signal(c) /\ ~Mkfifo(c)
  BY <1>1 DEF ShellStep, Signal, Mkfifo, At
<1>3. SameProcs /\ ChildrenGoOn /\ ProcsKept /\ NoNewWriters
  BY <1>1, UnchangedProcs, SameProcsFacts
<1>4. \A d \in Conn : /\ Owner(d)' => Owner(d) /\ Out(d)' = Out(d)
                      /\ Sent(d)' => Sent(d) /\ Out(d)' = Out(d)
  BY <1>2, ClaimsKept DEF Types
<1>5. Used(In(c)) /\ shm_fifo[In(c)].out_fd = None
  BY <1>1 DEF Core, Working
<1>6. \A p \in Pair : /\ p # In(c) => SameEntry(p)
                      /\ Open(p)' /\ Served(p)' => Open(p) /\ Served(p)
                      /\ Open(p)' /\ Asked(p)' => Open(p) /\ Asked(p)
  <2>1. ~Open(In(c))' /\ ~(shm_fifo'[In(c)].name /\ file'[In(c)] # 0)
    BY <1>1 DEF Open, In, SameLine
  <2>2. ASSUME NEW p \in Pair, p = In(c) PROVE ~Open(p)'
    BY <2>1, <2>2 DEF Open
  <2>3. ASSUME NEW p \in Pair, p # In(c)
        PROVE  /\ SameEntry(p)
               /\ Open(p)' /\ Served(p)' => Open(p) /\ Served(p)
               /\ Open(p)' /\ Asked(p)' => Open(p) /\ Asked(p)
    BY <1>1, <1>3, <1>4, <2>3, ServedKept DEF SameEntry
  <2> QED
    BY <2>2, <2>3
<1>7. \A p \in Pair : Fresh(p) => file'[p] = file[p] /\ \A j \in DOMAIN proc' : proc'[j].wr # file'[p]
  <2>1. \A p \in Pair : Fresh(p) => p # In(c)
    BY <1>5 DEF Used, Fresh
  <2> QED
    BY <1>1, <2>1 DEF Fresh, NotOpened
<1>8. OneWriter'
  <2>1. ASSUME NEW d \in Conn, Owner(d)'
        PROVE  Fresh(Out(d))' /\ \A j \in DOMAIN proc' : Forking(j)' => proc'[j].to # Out(d)'
    <3>1. Owner(d) /\ Out(d)' = Out(d) /\ Out(d) \in Pair
      <4>1. Owner(d) /\ Out(d)' = Out(d)
        BY <1>4, <2>1
      <4> QED
        BY <4>1, PairFacts DEF Types, Owner, Sent
    <3> QED
      BY <1>1, <1>7, <3>1 DEF Core, OneWriter, Fresh, NotOpened, Forking
  <2>2. ASSUME NEW i \in DOMAIN proc', Forking(i)'
        PROVE  Fresh(proc[i].to)' /\ \A j \in DOMAIN proc' : Forking(j)' /\ proc'[j].to = proc'[i].to => i = j
    <3>1. Forking(i) /\ proc[i].to \in Pair
      BY <1>1, <2>2 DEF Forking, Types, Placed
    <3> QED
      BY <1>1, <1>7, <3>1 DEF Core, OneWriter, Fresh, NotOpened, Forking
  <2>3. \A j \in DOMAIN proc' :
          /\ proc'[j].wr # 0 => \A p \in Pair : file'[p] = proc'[j].wr => proc'[j].to = p
          /\ proc'[j].st \in {"open", "record"} => proc'[j].wr # 0
    <3>1. \A p \in Pair : file'[p] # 0 => file'[p] = file[p]
      BY <1>1
    <3> QED
      BY <1>1, <3>1 DEF Core, OneWriter
  <2>4. \A i, j \in DOMAIN proc' : proc'[i].wr = proc'[j].wr /\ proc'[i].wr # 0 => i = j
    BY <1>1 DEF Core, OneWriter
  <2> QED
    BY <2>1, <2>2, <2>3, <2>4 DEF OneWriter
<1>9. Slots'
  BY <1>1, SlotsKept DEF Core, Others
<1>10. Offers'
  BY <1>1, <1>3, <1>5, OffersKept DEF Core, Offers, Others
<1>11. Fds'
  BY <1>1, <1>3, FdsKept DEF Core, Types, Others, SameLine
<1>12. ReadToEnd'
  BY <1>1, <1>3, ReadToEndKept DEF Core, Types, Others, SameLine, Fds
<1>13. CheckMisses'
  <2>1. \A p \in Pair : p # In(c) => (BeingRead(p) => BeingRead(p)')
    BY <1>1 DEF BeingRead, In, Others
  <2> QED
    BY <1>1, <1>3, <2>1, CheckMissesKept DEF Core
<1>14. Held'
  <2>1. \A d \in Conn : sh'[d].held = sh[d].held /\ sh'[d].opening = sh[d].opening
                        /\ (Listening(d)' => Listening(d))
    BY <1>1 DEF Others, SameHandler, Listening, Alive
  <2>2. \A p \in Pair : \A d \in Conn : \A k : shm_fifo[p].out_fd = <<d, k>> => Kept(d, k)'
    BY <1>1 DEF Kept
  <2> QED
    BY <1>1, <1>3, <2>1, <2>2, HeldKept DEF Core, Types
<1>15. \A d \in Conn : d # c => Working(d)' /\ Reading(d)'
  BY <1>1, <1>3, <1>6, OthersWork DEF Types
<1>16. \A d \in Conn : d # c => Comes(d)' /\ Cleaned(d)'
  BY <1>1, <1>6, OthersServed DEF Types
<1>17. Working(c)' /\ Reading(c)' /\ Cleaned(c)'
  <2>1. sh'[c].opening = 0 /\ ~sh'[c].woken
    BY <1>1 DEF SameHandler, Types, Placed
  <2> QED
    BY <1>1, <2>1 DEF Working, Reading, LinePlace, Cleaned
<1>18. Comes(c)'
  <2>1. ASSUME NEW s \in Id,
               Open(To(c, s))' /\ shm_fifo'[To(c, s)'].out_fd = None /\ Asked(To(c, s))'
        PROVE  c \in usr2' \/ sh'[c].h \in 1 .. s
    <3>1. To(c, s) \in Pair /\ To(c, s)' = To(c, s)
      BY <1>1, ToPair DEF Types, To
    <3>2. \A p : p = To(c, s) => Open(p)' /\ Asked(p)' /\ shm_fifo'[p].out_fd = None
      BY <2>1, <3>1
    <3>3. Open(To(c, s)) /\ Asked(To(c, s)) /\ shm_fifo[To(c, s)].out_fd = None
      BY <1>1, <1>6, <3>1, <3>2
    <3>4. s # sh[c].source_id
      <4>1. \A p : p = In(c) => ~Open(p)'
        BY <1>1 DEF Open
      <4> QED
        BY <3>2, <4>1 DEF To, In
    <3> QED
      BY <1>1, <3>3, <3>4 DEF Core, Comes, Alive, SameHandler
  <2> QED
    BY <2>1 DEF Comes
<1> QED
  BY <1>8, <1>9, <1>10, <1>11, <1>12, <1>13, <1>14, <1>15, <1>16, <1>17, <1>18 DEF Core

(* The child is forked: the FIFO that was made for its output is now its.  *)
LEMMA CoreExec ==
    ASSUME Types, IdsOnce, Core, NEW c \in Conn, ExecCmd(c), sh[c].line.prog # "builtin"
    PROVE  Core'
<1> DEFINE n == Len(proc) + 1
<1>1. /\ sh[c].pc = "line" /\ sh[c].h = 0 /\ UsersThere(c) /\ sh[c].id # 0
      /\ Others(c) /\ SameHandler(c) /\ sh'[c].id = sh[c].id /\ sh'[c].line = sh[c].line
      /\ sh'[c].in_fd = sh[c].in_fd /\ sh'[c].source_id = sh[c].source_id
      /\ sh'[c].target_id = sh[c].target_id
      /\ sh'[c].child = n
      /\ sh[c].target_id = 0 => sh'[c].pc = "wait"
      /\ sh[c].target_id # 0 => sh'[c].pc = "erase"
      /\ n \notin DOMAIN proc /\ DOMAIN proc' = DOMAIN proc \cup {n}
      /\ \A j \in DOMAIN proc : proc'[j] = proc[j]
      /\ proc'[n].by = c /\ proc'[n].to = Out(c) /\ proc'[n].wr = 0 /\ proc'[n].rd = sh[c].in_fd
      /\ proc'[n].held = sh[c].held
      /\ sh[c].target_id = 0 => proc'[n].st = "run"
      /\ sh[c].target_id # 0 => proc'[n].st = "fork"
      /\ UNCHANGED <<shm_cli, shm_fifo, file, made, usr2, content>>
  <2>1. sh[c].id # 0
    BY IdFacts, ExecFacts DEF Types, Placed
  <2>2. DOMAIN proc = 1 .. Len(proc) /\ DOMAIN proc' = 1 .. Len(proc) + 1 /\ Len(proc) \in Nat
    BY ExecFacts DEF Types
  <2>3. n \notin DOMAIN proc /\ DOMAIN proc' = DOMAIN proc \cup {n}
    BY <2>2
  <2>4. /\ proc'[n].by = c /\ proc'[n].to = Out(c) /\ proc'[n].wr = 0 /\ proc'[n].rd = sh[c].in_fd
        /\ proc'[n].held = sh[c].held
        /\ sh[c].target_id = 0 => proc'[n].st = "run"
        /\ sh[c].target_id # 0 => proc'[n].st = "fork"
    BY ExecFacts DEF Types
  <2>5. sh'[c].child = n /\ \A j \in DOMAIN proc : proc'[j] = proc[j]
    BY ExecFacts DEF Types
  <2> QED
    BY <2>1, <2>3, <2>4, <2>5, ExecFacts DEF Types
<1> HIDE DEF n
<1>2. ShellStep(c) /\ ~Signal(c) /\ ~Mkfifo(c) /\ sh'[c].pc \in {"wait", "erase"}
  BY <1>1 DEF ShellStep, Signal, Mkfifo, At
<1>3. ProcsKept
  BY <1>1 DEF ProcsKept, SameChild
<1>4. \A k : k # 0 => Writers(k)' = Writers(k)
  BY <1>1 DEF Writers
<1>5. NoNewWriters
  BY <1>4 DEF NoNewWriters
<1>6. \A d \in Conn : /\ Owner(d)' => Owner(d) /\ Out(d)' = Out(d) /\ d # c
                      /\ Sent(d)' => Sent(d) /\ Out(d)' = Out(d) /\ d # c
  <2>1. ~Owner(c)' /\ ~Sent(c)'
    BY <1>2 DEF Owner, Sent
  <2> QED
    BY <1>2, <2>1, ClaimsKept DEF Types
<1>7. \A j : Forking(j)' <=> Forking(j) \/ (j = n /\ sh[c].target_id # 0)
  BY <1>1 DEF Forking
<1>8. sh[c].target_id # 0 => Owner(c) /\ Sent(c)
  BY <1>1 DEF Owner, Sent
<1>9. \A p \in Pair : Open(p)' /\ Served(p)' => Open(p) /\ (Served(p) \/ (p = Out(c) /\ Sent(c)))
  <2>1. ASSUME NEW p \in Pair, Open(p)', Served(p)' PROVE Open(p) /\ (Served(p) \/ (p = Out(c) /\ Sent(c)))
    <3>1. Open(p) /\ file[p] # 0
      BY <1>1, <2>1 DEF Open
    <3>2. Writers(file[p])' = Writers(file[p])
      BY <1>1, <1>4, <3>1 DEF Writers
    <3>3. ASSUME NEW j \in DOMAIN proc', Forking(j)', proc'[j].to = p
          PROVE  Served(p) \/ (p = Out(c) /\ Sent(c))
      <4>1. CASE j = n /\ sh[c].target_id # 0
        BY <1>1, <1>8, <3>3, <4>1
      <4>2. CASE Forking(j)
        BY <1>1, <3>3, <4>2 DEF Served, Forking
      <4> QED
        BY <1>7, <3>3, <4>1, <4>2
    <3> QED
      BY <2>1, <3>1, <3>2, <3>3 DEF Served
  <2> QED
    BY <2>1
<1>10. \A p \in Pair : Open(p)' /\ Asked(p)' => Open(p) /\ Asked(p)
  <2>1. \A p \in Pair : Open(p)' => Open(p)
    BY <1>1 DEF Open
  <2> QED
    BY <1>6, <1>9, <2>1 DEF Asked
<1>11. Slots'
  BY <1>1, <1>2, SlotsKept DEF Core, Others
<1>12. OneWriter'
  <2>1. \A p : Fresh(p) => Fresh(p)'
    BY <1>1 DEF Fresh, NotOpened
  <2>2. ASSUME NEW d \in Conn, Owner(d)'
        PROVE  Fresh(Out(d))' /\ \A j \in DOMAIN proc' : Forking(j)' => proc'[j].to # Out(d)'
    <3>1. Owner(d) /\ Out(d)' = Out(d) /\ d # c
      BY <1>6, <2>2
    <3>2. Out(d) # Out(c)
      BY <1>1, <3>1, Apart
    <3>3. Fresh(Out(d))'
      BY <1>1, <3>1 DEF Core, OneWriter, Fresh, NotOpened
    <3>4. ASSUME NEW j \in DOMAIN proc', Forking(j)' PROVE proc'[j].to # Out(d)
      BY <1>1, <1>7, <3>1, <3>2, <3>4 DEF Core, OneWriter, Forking
    <3> QED
      BY <3>1, <3>3, <3>4
  <2>3. ASSUME NEW i \in DOMAIN proc', Forking(i)'
        PROVE  Fresh(proc[i].to)' /\ \A j \in DOMAIN proc' : Forking(j)' /\ proc'[j].to = proc'[i].to => i = j
    <3>1. CASE i = n /\ sh[c].target_id # 0
      <4>1. Fresh(Out(c)) /\ \A j \in DOMAIN proc : Forking(j) => proc[j].to # Out(c)
        BY <1>8, <3>1 DEF Core, OneWriter
      <4>2. Fresh(proc[i].to)'
        BY <1>1, <3>1, <4>1 DEF Fresh, NotOpened
      <4> QED
        BY <1>1, <1>7, <3>1, <4>1, <4>2 DEF Forking
    <3>2. CASE Forking(i)
      <4>1. i \in DOMAIN proc /\ proc'[i].to = proc[i].to
        BY <1>1, <3>2 DEF Forking
      <4>2. Fresh(proc[i].to)'
        BY <1>1, <3>2, <4>1 DEF Core, OneWriter, Fresh, NotOpened
      <4>3. ASSUME NEW j \in DOMAIN proc', Forking(j)', proc'[j].to = proc'[i].to PROVE i = j
        <5>1. CASE Forking(j)
          BY <1>1, <3>2, <4>1, <4>3, <5>1 DEF Core, OneWriter, Forking
        <5>2. CASE j = n /\ sh[c].target_id # 0
          BY <1>1, <1>8, <3>2, <4>1, <4>3, <5>2 DEF Core, OneWriter
        <5> QED
          BY <1>7, <4>3, <5>1, <5>2
      <4> QED
        BY <4>2, <4>3
    <3> QED
      BY <1>7, <2>3, <3>1, <3>2
  <2>4. \A j \in DOMAIN proc' :
          /\ proc'[j].wr # 0 => \A p \in Pair : file'[p] = proc'[j].wr => proc'[j].to = p
          /\ proc'[j].st \in {"open", "record"} => proc'[j].wr # 0
    BY <1>1 DEF Core, OneWriter
  <2>5. \A i, j \in DOMAIN proc' : proc'[i].wr = proc'[j].wr /\ proc'[i].wr # 0 => i = j
    BY <1>1 DEF Core, OneWriter
  <2> QED
    BY <2>2, <2>3, <2>4, <2>5 DEF OneWriter
<1>13. Offers'
  BY <1>1, <1>3, OffersKept DEF Core, Offers, Others
<1>14. \A d \in Conn : sh'[d].in_fd = sh[d].in_fd /\ sh'[d].id = sh[d].id
  BY <1>1 DEF Others
<1>15. Fds'
  BY FdsExec DEF Core, Types
<1>16. \A j \in DOMAIN proc : Input(j)' = Input(j)
  BY <1>1 DEF Input
<1>17. ReadToEnd'
  <2>1. \A d \in Conn : sh'[d].in_fd # None => \E j \in DOMAIN proc' : proc'[j].wr = sh'[d].in_fd[2]
    <3>1. ASSUME NEW d \in Conn, sh[d].in_fd # None
          PROVE  \E j \in DOMAIN proc' : proc'[j].wr = sh[d].in_fd[2]
      <4>1. PICK j \in DOMAIN proc : proc[j].wr = sh[d].in_fd[2]
        BY <3>1 DEF Core, ReadToEnd
      <4> QED
        BY <1>1, <4>1
    <3> QED
      BY <1>14, <3>1
  <2>2. ASSUME NEW j \in DOMAIN proc', NEW k \in Input(j)'
        PROVE  /\ \E i \in DOMAIN proc' : proc'[i].wr = k
               /\ proc'[j].st = "done" => content'[k] = {} /\ Writers(k)' = {}
    <3>1. CASE j = n
      <4>1. k = sh'[c].in_fd[2] /\ sh'[c].in_fd # None
        BY <1>1, <2>2, <3>1 DEF Input
      <4>2. proc'[j].st # "done"
        BY <1>1, <3>1
      <4> QED
        BY <2>1, <4>1, <4>2
    <3>2. CASE j \in DOMAIN proc
      <4>1. k \in Input(j) /\ proc'[j] = proc[j]
        BY <1>1, <1>16, <2>2, <3>2
      <4>2. PICK i \in DOMAIN proc : proc[i].wr = k
        BY <3>2, <4>1 DEF Core, ReadToEnd
      <4>3. k # 0
        <5>1. proc[j].rd \in Fd
          BY <3>2, ChildType DEF Types, Children
        <5> QED
          BY <4>1, <5>1, NoneFacts DEF Input
      <4>4. proc[j].st = "done" => content[k] = {} /\ Writers(k) = {}
        BY <3>2, <4>1 DEF Core, ReadToEnd
      <4> QED
        BY <1>1, <1>4, <4>1, <4>2, <4>3, <4>4
    <3> QED
      BY <1>1, <2>2, <3>1, <3>2
  <2> QED
    BY <2>1, <2>2 DEF ReadToEnd
<1>18. CheckMisses'
  <2>1. \A p \in Pair : BeingRead(p) => BeingRead(p)'
    BY <1>1, BeingReadKept DEF Others
  <2>2. \A p \in Pair : NotRecorded(p) => NotRecorded(p)'
    BY <1>1 DEF NotRecorded
  <2>3. \A p \in Pair : file[p] # 0 /\ NotOpened(p) => NotOpened(p)'
    BY <1>1 DEF NotOpened
  <2> QED
    BY <1>1, <2>1, <2>2, <2>3 DEF Core, CheckMisses
<1>19. Held'
  <2>1. \A d \in Conn : sh'[d].held = sh[d].held /\ sh'[d].opening = sh[d].opening
                        /\ (Listening(d)' => Listening(d))
    BY <1>1, <1>2 DEF Others, SameHandler, Listening, Alive
  <2>2. ASSUME NEW d \in Conn, NEW k, Kept(d, k) PROVE Kept(d, k)'
    <3>1. CASE sh[d].opening = k \/ \E p \in Pair : shm_fifo[p].out_fd = <<d, k>>
      BY <1>1, <2>1, <3>1 DEF Kept
    <3>2. CASE \E j \in DOMAIN proc : k \in Input(j)
      BY <1>1, <1>16, <3>2 DEF Kept
    <3> QED
      BY <2>2, <3>1, <3>2 DEF Kept
  <2>3. \A k \in DOMAIN content : made[k].to \in Conn
    <3>1. DOMAIN content = 1 .. Len(made)
      BY DEF Types, TypeOK
    <3> QED
      BY <3>1, MadeType DEF Types
  <2>4. \A j \in DOMAIN proc : proc[j].by \in Conn
    BY ChildType DEF Types, Children
  <2>5. \A d \in Conn : Listening(d)' => \A k \in sh'[d].held : Kept(d, k)'
    BY <2>1, <2>2 DEF Core, Held
  <2>6. \A j \in DOMAIN proc' : proc'[j].held \subseteq sh'[proc'[j].by].held
    BY <1>1, <2>1, <2>4 DEF Core, Held
  <2>7. /\ \A d \in Conn : \A k \in sh'[d].held : made'[k].to = d
        /\ \A d \in Conn : sh'[d].opening # 0 => sh'[d].opening \in sh'[d].held
        /\ \A k \in DOMAIN content' : content'[k] # {} => k \in sh'[made'[k].to].held
    BY <1>1, <2>1, <2>3 DEF Core, Held
  <2> QED
    BY <2>5, <2>6, <2>7 DEF Held
<1>20. \A d \in Conn : d # c => Working(d)' /\ Reading(d)'
  BY <1>1, <1>3, <1>5, OthersWork DEF Types, SameEntry
<1>21. Working(c)' /\ Cleaned(c)'
  <2>1. sh'[c].opening = 0 /\ ~sh'[c].woken
    BY <1>1 DEF SameHandler, Types, Placed
  <2> QED
    BY <1>2, <2>1 DEF Working, Cleaned
<1>22. Reading(c)'
  <2>1. Redir(c)' = Redir(c) /\ In(c)' = In(c) /\ (Reads(c)' <=> Reads(c))
    BY <1>1 DEF Redir, In, Reads
  <2>2. sh[c].pc \in LinePlace /\ sh'[c].pc \in LinePlace
    BY <1>1, <1>2 DEF LinePlace
  <2>3. sh[c].source_id # 0 => Reads(c) /\ sh'[c].pc = "wait"
    BY <1>1, <2>2 DEF Core, Reading, Reads
  <2>4. /\ Reads(c) => /\ sh[c].line.prog = "program" /\ sh[c].target_id = 0
                       /\ \A i \in DOMAIN Redir(c) : Redir(c)[i].op = "from"
        /\ sh[c].source_id # 0 => shm_fifo[In(c)].out_fd # None /\ sh[c].in_fd = shm_fifo[In(c)].out_fd
    BY <1>1, <2>2 DEF Core, Reading
  <2> QED
    BY <1>1, <2>1, <2>2, <2>3, <2>4 DEF Reading
<1>23. ASSUME NEW d \in Conn PROVE Comes(d)'
  <2>1. /\ sh'[d].id = sh[d].id /\ sh'[d].h = sh[d].h /\ sh'[d].source_id = sh[d].source_id
        /\ (Alive(d)' => Alive(d)) /\ (sh[d].pc = "unlink" => sh'[d].pc = "unlink")
    BY <1>1, <1>2 DEF Others, SameHandler, Alive
  <2>2. ASSUME NEW s \in Id,
               Alive(d)', Open(To(d, s))' /\ shm_fifo'[To(d, s)'].out_fd = None /\ Asked(To(d, s))'
        PROVE  d \in usr2' \/ sh'[d].h \in 1 .. s \/ (sh'[d].pc = "unlink" /\ sh'[d].source_id = s)
    <3>1. To(d, s) \in Pair /\ To(d, s)' = To(d, s)
      BY <2>1, <2>2, ToPair DEF Types, To, Alive
    <3>2. \A p : p = To(d, s) => Open(p)' /\ Asked(p)' /\ shm_fifo'[p].out_fd = None
      BY <2>2, <3>1
    <3>3. Open(To(d, s)) /\ Asked(To(d, s)) /\ shm_fifo[To(d, s)].out_fd = None
      BY <1>1, <1>10, <3>1, <3>2
    <3> QED
      BY <1>1, <2>1, <2>2, <3>3 DEF Core, Comes
  <2> QED
    BY <2>2 DEF Comes
<1>24. ASSUME NEW d \in Conn, d # c PROVE Cleaned(d)'
  <2>1. sh'[d] = sh[d] /\ Cleaned(d)
    BY <1>1, <1>24 DEF Core, Others
  <2>2. ASSUME sh[d].pc = "clean", NEW s \in Id, s < sh[d].source_id, Open(To(d, s))', Served(To(d, s))'
        PROVE  FALSE
    <3>1. To(d, s) \in Pair /\ To(d, s)' = To(d, s)
      BY <2>1, <2>2, ToPair DEF Types, To
    <3>2. \A p : p = To(d, s) => Open(p)' /\ Served(p)'
      BY <2>2, <3>1
    <3>3. Open(To(d, s)) /\ (Served(To(d, s)) \/ (To(d, s) = Out(c) /\ Sent(c)))
      BY <1>9, <3>1, <3>2
    <3>4. CASE Served(To(d, s))
      BY <2>1, <2>2, <3>3, <3>4 DEF Cleaned
    <3>5. CASE To(d, s) = Out(c) /\ Sent(c)
      <4>1. sh[d].id = sh[c].target_id /\ sh[c].target_id # 0
        BY <3>5 DEF To, Out, Sent
      <4>2. shm_cli[sh[d].id].valid = 1
        BY <1>1, <4>1 DEF UsersThere, Listed
      <4> QED
        BY <2>2, <4>1, <4>2 DEF Core, Slots
    <3> QED
      BY <3>3, <3>4, <3>5
  <2>3. \A s \in Id : \A p : p = To(d, s) => To(d, s)' = p
    BY <2>1 DEF To
  <2>4. sh'[d].pc = "clean" => \A s \in Id : s < sh'[d].source_id => (Open(To(d, s))' => ~Served(To(d, s))')
    BY <2>1, <2>2
  <2> QED
    BY <1>1, <2>1, <2>3, <2>4 DEF Cleaned
<1> QED
  BY <1>11, <1>12, <1>13, <1>15, <1>17, <1>18, <1>19, <1>20, <1>21, <1>22, <1>23, <1>24 DEF Core

(* The slot is free before the entries are cleaned up.                     *)
LEMMA CoreFreeSlot == ASSUME Types, IdsOnce, Core, NEW c \in Conn, FreeSlot(c) PROVE Core'
<1>1. /\ sh[c].pc = "slot" /\ sh'[c].pc = "clean" /\ sh'[c].source_id = 1 /\ Others(c) /\ SameHandler(c)
      /\ sh'[c].id = sh[c].id /\ sh'[c].in_fd = sh[c].in_fd
      /\ sh[c].h = 0 /\ sh[c].id \in Id
      /\ \A i \in Id : /\ shm_cli'[i].pid = shm_cli[i].pid
                       /\ i # sh[c].id => shm_cli'[i].valid = shm_cli[i].valid
      /\ shm_cli'[sh[c].id].valid = 0
      /\ UNCHANGED <<shm_fifo, file, made, usr2, proc, content>>
  BY FreeSlotFacts DEF Types
<1>2. ShellStep(c) /\ ~Signal(c) /\ ~Mkfifo(c)
  BY <1>1 DEF ShellStep, Signal, Mkfifo, At
<1>3. SameProcs /\ ChildrenGoOn /\ ProcsKept /\ NoNewWriters
  BY <1>1, UnchangedProcs, SameProcsFacts
<1>4. \A d \in Conn : /\ Owner(d)' => Owner(d) /\ Out(d)' = Out(d)
                      /\ Sent(d)' => Sent(d) /\ Out(d)' = Out(d)
  BY <1>2, ClaimsKept DEF Types
<1>5. \A p : /\ SameEntry(p)
             /\ Open(p)' /\ Served(p)' => Open(p) /\ Served(p)
             /\ Open(p)' /\ Asked(p)' => Open(p) /\ Asked(p)
  BY <1>1, <1>3, <1>4, ServedKept DEF SameEntry
<1>6. Slots'
  <2>1. ASSUME NEW d \in Conn, sh'[d].id # 0
        PROVE  /\ shm_cli'[sh'[d].id].pid = d
               /\ sh'[d].pc \in {"clean", "gone"} => shm_cli'[sh'[d].id].valid = 0
    <3>1. sh'[d].id = sh[d].id /\ sh[d].id \in Id
      BY <1>1, <2>1 DEF Others, Types, Placed
    <3>2. CASE d = c
      BY <1>1, <2>1, <3>1, <3>2 DEF Core, Slots
    <3>3. CASE d # c
      <4>1. sh'[d] = sh[d] /\ sh[d].id # sh[c].id
        BY <1>1, <2>1, <3>3 DEF Others, IdsOnce
      <4> QED
        BY <1>1, <2>1, <3>1, <4>1 DEF Core, Slots
    <3> QED
      BY <3>2, <3>3
  <2> QED
    BY <2>1 DEF Slots
<1>7. OneWriter'
  BY <1>1, <1>3, <1>4, OneWriterKept DEF Core
<1>8. Offers'
  BY <1>1, <1>3, OffersKept DEF Core, Offers, Others
<1>9. Fds'
  BY <1>1, <1>3, FdsKept DEF Core, Types, Others
<1>10. ReadToEnd'
  BY <1>1, <1>3, ReadToEndKept DEF Core, Types, Others, Fds
<1>11. CheckMisses'
  BY <1>1, <1>3, CheckMissesKept, BeingReadKept DEF Core, Others
<1>12. Held'
  <2>1. \A d \in Conn : sh'[d].held = sh[d].held /\ sh'[d].opening = sh[d].opening
                        /\ (Listening(d)' => Listening(d))
    BY <1>1 DEF Others, SameHandler, Listening, Alive
  <2>2. \A p \in Pair : \A d \in Conn : \A k : shm_fifo[p].out_fd = <<d, k>> => Kept(d, k)'
    BY <1>1 DEF Kept
  <2> QED
    BY <1>1, <1>3, <2>1, <2>2, HeldKept DEF Core, Types
<1>13. \A d \in Conn : d # c => Working(d)' /\ Reading(d)'
  BY <1>1, <1>3, <1>5, OthersWork DEF Types
<1>14. \A d \in Conn : d # c => Comes(d)' /\ Cleaned(d)'
  BY <1>1, <1>5, OthersServed DEF Types, SameEntry
<1>15. Working(c)' /\ Reading(c)' /\ Cleaned(c)'
  <2>1. sh'[c].opening = 0 /\ ~sh'[c].woken
    BY <1>1 DEF SameHandler, Types, Placed
  <2>2. \A s \in Id : ~(s < 1)
    BY DEF Id
  <2> QED
    BY <1>1, <2>1, <2>2 DEF Working, Reading, LinePlace, Cleaned
<1>16. Comes(c)'
  BY <1>1, <1>5, ToPair, ComesKept DEF Core, Types, Alive, SameHandler, SameEntry
<1> QED
  BY <1>6, <1>7, <1>8, <1>9, <1>10, <1>11, <1>12, <1>13, <1>14, <1>15, <1>16 DEF Core

(* An entry that is cleaned up is one of this process; one that is not     *)
(* open has no writer that counts on it.                                   *)
LEMMA CoreClean == ASSUME Types, IdsOnce, Core, NEW c \in Conn, Clean(c) PROVE Core'
<1> DEFINE o == shm_fifo[In(c)].out_fd
<1>1. /\ sh[c].pc = "clean" /\ In(c) \in Pair /\ Others(c) /\ SameHandler(c) /\ sh'[c].id = sh[c].id
      /\ c \notin usr2 /\ sh[c].h = 0 /\ sh[c].source_id \in Id /\ sh[c].id # 0
      /\ sh'[c].in_fd = sh[c].in_fd
      /\ \/ sh'[c].pc = "clean" /\ sh'[c].source_id = sh[c].source_id + 1 /\ sh'[c].source_id \in Id
         \/ sh'[c].pc = "gone" /\ sh'[c].source_id = sh[c].source_id /\ sh[c].source_id = MaxClient
      /\ \A p \in Pair : p # In(c) => shm_fifo'[p] = shm_fifo[p] /\ file'[p] = file[p]
      /\ o = None => UNCHANGED <<shm_fifo, file>>
      /\ o # None => /\ shm_fifo'[In(c)].out_fd = None /\ ~shm_fifo'[In(c)].name
                     /\ ~shm_fifo'[In(c)].is_used /\ ~shm_fifo'[In(c)].in_fd
                     /\ shm_fifo[In(c)].name => file'[In(c)] = 0
                     /\ ~shm_fifo[In(c)].name => file' = file
      /\ UNCHANGED <<shm_cli, made, usr2, proc, content>>
  <2>1. sh[c].id # 0
    BY CleanFacts, IdFacts DEF Types, Placed
  <2> QED
    BY <2>1, CleanFacts DEF Types, EntriesBut, FilesBut
<1>2. ShellStep(c) /\ ~Signal(c) /\ ~Mkfifo(c)
  BY <1>1 DEF ShellStep, Signal, Mkfifo, At
<1>3. SameProcs /\ ChildrenGoOn /\ ProcsKept /\ NoNewWriters
  BY <1>1, UnchangedProcs, SameProcsFacts
<1>4. \A d \in Conn : /\ Owner(d)' => Owner(d) /\ Out(d)' = Out(d)
                      /\ Sent(d)' => Sent(d) /\ Out(d)' = Out(d)
  BY <1>2, ClaimsKept DEF Types
<1>5. o # None => Used(In(c)) /\ \A d : \A k : o = <<d, k>> => d = c
  <2>1. ASSUME o # None PROVE Used(In(c)) /\ \A d : \A k : o = <<d, k>> => d = c
    <3>1. PICK d \in Conn : sh[d].id = In(c)[2] /\ o = <<d, file[In(c)]>>
      BY <1>1, <2>1 DEF Core, Offers
    <3>2. d = c
      BY <1>1, <3>1 DEF In, IdsOnce
    <3>3. \A x : \A k : o = <<x, k>> => x = c
      BY <3>1, <3>2
    <3>4. Used(In(c))
      BY <1>1, <2>1 DEF Core, Offers
    <3> QED
      BY <3>3, <3>4
  <2> QED
    BY <2>1
<1>6. \A p \in Pair : /\ SameEntry(p) \/ p = In(c)
                      /\ Open(p)' => Open(p) /\ file'[p] = file[p] /\ shm_fifo'[p] = shm_fifo[p]
                      /\ file'[p] # 0 => file'[p] = file[p]
                      /\ shm_fifo'[p].out_fd # None => shm_fifo'[p] = shm_fifo[p] /\ file'[p] = file[p]
                      /\ shm_fifo'[p].is_used => shm_fifo'[p] = shm_fifo[p]
                      /\ shm_fifo'[p].name => shm_fifo'[p] = shm_fifo[p] /\ file'[p] = file[p]
  <2>1. CASE o = None
    BY <1>1, <2>1 DEF SameEntry, Open
  <2>2. ASSUME o # None, NEW p \in Pair, p # In(c)
        PROVE  SameEntry(p) /\ (Open(p)' => Open(p)) /\ file'[p] = file[p] /\ shm_fifo'[p] = shm_fifo[p]
    BY <1>1, <2>2 DEF SameEntry, Open
  <2>3. ASSUME o # None, NEW p \in Pair, p = In(c)
        PROVE  /\ ~Open(p)' /\ (file'[p] # 0 => file'[p] = file[p])
               /\ shm_fifo'[p].out_fd = None /\ ~shm_fifo'[p].is_used /\ ~shm_fifo'[p].name
    BY <1>1, <2>3 DEF Open
  <2> QED
    BY <2>1, <2>2, <2>3
<1>7. \A p \in Pair : /\ Open(p)' /\ Served(p)' => Open(p) /\ Served(p)
                      /\ Open(p)' /\ Asked(p)' => Open(p) /\ Asked(p)
  BY <1>3, <1>4, <1>6, ServedKept
<1>8. \A p \in Pair : Fresh(p) => file'[p] = file[p] /\ \A j \in DOMAIN proc' : proc'[j].wr # file'[p]
  <2>1. \A p \in Pair : Fresh(p) => p # In(c) \/ o = None
    BY <1>5 DEF Used, Fresh
  <2> QED
    BY <1>1, <2>1 DEF Fresh, NotOpened
<1>9. OneWriter'
  <2>1. ASSUME NEW d \in Conn, Owner(d)'
        PROVE  Fresh(Out(d))' /\ \A j \in DOMAIN proc' : Forking(j)' => proc'[j].to # Out(d)'
    <3>1. Owner(d) /\ Out(d)' = Out(d) /\ Out(d) \in Pair
      <4>1. Owner(d) /\ Out(d)' = Out(d)
        BY <1>4, <2>1
      <4> QED
        BY <4>1, PairFacts DEF Types, Owner, Sent
    <3> QED
      BY <1>1, <1>8, <3>1 DEF Core, OneWriter, Fresh, NotOpened, Forking
  <2>2. ASSUME NEW i \in DOMAIN proc', Forking(i)'
        PROVE  Fresh(proc[i].to)' /\ \A j \in DOMAIN proc' : Forking(j)' /\ proc'[j].to = proc'[i].to => i = j
    <3>1. Forking(i) /\ proc[i].to \in Pair
      BY <1>1, <2>2 DEF Forking, Types, Placed
    <3> QED
      BY <1>1, <1>8, <3>1 DEF Core, OneWriter, Fresh, NotOpened, Forking
  <2>3. \A j \in DOMAIN proc' :
          /\ proc'[j].wr # 0 => \A p \in Pair : file'[p] = proc'[j].wr => proc'[j].to = p
          /\ proc'[j].st \in {"open", "record"} => proc'[j].wr # 0
    BY <1>1, <1>6 DEF Core, OneWriter
  <2>4. \A i, j \in DOMAIN proc' : proc'[i].wr = proc'[j].wr /\ proc'[i].wr # 0 => i = j
    BY <1>1 DEF Core, OneWriter
  <2> QED
    BY <2>1, <2>2, <2>3, <2>4 DEF OneWriter
<1>10. Slots'
  BY <1>1, SlotsKept DEF Core, Others
<1>11. Offers'
  <2>1. \A p \in Pair : /\ shm_fifo'[p].out_fd # None =>
                              shm_fifo'[p].out_fd = shm_fifo[p].out_fd /\ file'[p] = file[p]
                        /\ shm_fifo'[p].is_used => shm_fifo'[p].out_fd # None
    BY <1>6 DEF Core, Offers
  <2> QED
    BY <1>1, <1>3, <2>1, OffersKept DEF Core, Others
<1>12. Fds'
  <2>1. \A p \in Pair : shm_fifo'[p].out_fd # None => shm_fifo'[p].out_fd = shm_fifo[p].out_fd
    BY <1>6
  <2> QED
    BY <1>1, <1>3, <2>1, FdsKept DEF Core, Types, Others
<1>13. ReadToEnd'
  BY <1>1, <1>3, ReadToEndKept DEF Core, Types, Others, Fds
<1>14. CheckMisses'
  <2>1. \A p \in Pair : shm_fifo'[p] = shm_fifo[p] => (BeingRead(p) => BeingRead(p)')
    BY <1>1, BeingReadKept DEF Others
  <2>2. \A p \in Pair : \/ /\ file'[p] = file[p] /\ shm_fifo'[p].in_fd = shm_fifo[p].in_fd
                           /\ shm_fifo'[p].name => shm_fifo[p].name
                           /\ BeingRead(p) => BeingRead(p)'
                        \/ ~shm_fifo'[p].name
    BY <1>6, <2>1
  <2> QED
    BY <1>3, <2>2, CheckMissesKept DEF Core
<1>15. Held'
  <2>1. \A d \in Conn : sh'[d].held = sh[d].held /\ sh'[d].opening = sh[d].opening
                        /\ (Listening(d)' => Listening(d) /\ d # c)
    BY <1>1 DEF Others, SameHandler, Listening, Alive
  <2>2. ASSUME NEW p \in Pair, NEW d \in Conn, NEW k, Listening(d)', shm_fifo[p].out_fd = <<d, k>>
        PROVE  Kept(d, k)'
    <3>1. CASE p = In(c)
      <4>1. o = <<d, k>>
        BY <2>2, <3>1
      <4>2. o # None
        BY <4>1, NoneFacts
      <4>3. d = c
        BY <1>5, <4>1, <4>2
      <4> QED
        BY <2>1, <2>2, <4>3
    <3>2. CASE p # In(c)
      BY <1>1, <2>2, <3>2 DEF Kept
    <3> QED
      BY <3>1, <3>2
  <2> QED
    BY <1>1, <1>3, <2>1, <2>2, HeldKept DEF Core, Types
<1>16. \A d \in Conn : d # c => Working(d)' /\ Reading(d)'
  BY <1>1, <1>3, <1>6, OthersWork DEF Types
<1>17. \A d \in Conn : d # c => Comes(d)' /\ Cleaned(d)'
  BY <1>1, <1>6, <1>7, OthersServed DEF Types, SameEntry
<1>18. Working(c)' /\ Reading(c)'
  <2>1. sh'[c].opening = 0 /\ ~sh'[c].woken
    BY <1>1 DEF SameHandler, Types, Placed
  <2> QED
    BY <1>1, <2>1 DEF Working, Reading, LinePlace
<1>19. \A s \in Id : /\ To(c, s) \in Pair /\ To(c, s)' = To(c, s)
                     /\ s = sh[c].source_id => To(c, s) = In(c)
                     /\ s # sh[c].source_id => To(c, s) # In(c)
  BY <1>1, ToPair DEF Types, To, In
<1>20. Comes(c)'
  <2>1. ASSUME NEW s \in Id,
               Alive(c)', Open(To(c, s))' /\ shm_fifo'[To(c, s)'].out_fd = None /\ Asked(To(c, s))'
        PROVE  c \in usr2' \/ sh'[c].h \in 1 .. s
    <3>1. \A p : p = To(c, s) => Open(p)' /\ Asked(p)'
      BY <1>19, <2>1
    <3>2. Open(To(c, s)) /\ Asked(To(c, s)) /\ shm_fifo[To(c, s)].out_fd = None
      BY <1>6, <1>7, <1>19, <2>1, <3>1
    <3> QED
      BY <1>1, <3>2 DEF Core, Comes, Alive, SameHandler
  <2> QED
    BY <2>1 DEF Comes
<1>21. \A s \in Id : s <= sh[c].source_id =>
          \A p : p = To(c, s) => shm_fifo'[p].out_fd = None /\ (Open(p)' => ~Served(p)')
  <2>1. ASSUME NEW s \in Id, s < sh[c].source_id, NEW p, p = To(c, s)
        PROVE  shm_fifo'[p].out_fd = None /\ (Open(p)' => ~Served(p)')
    <3>1. shm_fifo[p].out_fd = None /\ (Open(p) => ~Served(p))
      BY <1>1, <2>1 DEF Core, Cleaned
    <3>2. shm_fifo'[p] = shm_fifo[p] /\ p \in Pair
      BY <1>1, <1>19, <2>1, IdFacts
    <3> QED
      BY <1>7, <3>1, <3>2
  <2>2. ASSUME NEW p, p = In(c) PROVE shm_fifo'[p].out_fd = None /\ (Open(p)' => ~Served(p)')
    <3>1. CASE o # None
      BY <1>1, <2>2, <3>1 DEF Open
    <3>2. CASE o = None
      <4>1. ~(Open(In(c)) /\ Asked(In(c)))
        <5>1. In(c) = To(c, sh[c].source_id)
          BY <1>1, <1>19
        <5>2. Alive(c) /\ sh[c].h \notin 1 .. sh[c].source_id
          BY <1>1 DEF Alive
        <5>3. ~(Open(To(c, sh[c].source_id)) /\ Asked(To(c, sh[c].source_id)))
          BY <1>1, <3>2, <5>1, <5>2 DEF Core, Comes
        <5> QED
          BY <5>1, <5>3
      <4>2. Open(In(c)) => ~Served(In(c))
        BY <4>1 DEF Asked
      <4> QED
        BY <1>1, <1>7, <2>2, <3>2, <4>2
    <3> QED
      BY <3>1, <3>2
  <2>3. ASSUME NEW s \in Id, s <= sh[c].source_id PROVE s < sh[c].source_id \/ To(c, s) = In(c)
    BY <1>1, <1>19, <2>3 DEF Id
  <2> QED
    BY <2>1, <2>2, <2>3
<1>22. \A s \in Id : s <= sh[c].source_id =>
          shm_fifo'[To(c, s)'].out_fd = None /\ (Open(To(c, s))' => ~Served(To(c, s))')
  BY <1>19, <1>21
<1>23. Cleaned(c)'
  <2>1. ~sh'[c].woken
    BY <1>1 DEF SameHandler, Types, Placed
  <2>2. CASE sh'[c].pc = "clean"
    <3>1. \A s \in Id : s < sh'[c].source_id => s <= sh[c].source_id
      BY <1>1, <2>2 DEF Id
    <3> QED
      BY <1>22, <2>1, <2>2, <3>1 DEF Cleaned
  <2>3. CASE sh'[c].pc = "gone"
    <3>1. \A s \in Id : s <= sh[c].source_id
      BY <1>1, <2>3 DEF Id
    <3> QED
      BY <1>22, <2>3, <3>1 DEF Cleaned
  <2> QED
    BY <1>1, <2>2, <2>3
<1> QED
  BY <1>9, <1>10, <1>11, <1>12, <1>13, <1>14, <1>15, <1>16, <1>17, <1>18, <1>20, <1>23 DEF Core

(* The handler: what the process was doing stays as it was.                *)
LEMMA StaysPut ==
    ASSUME Types, Core, NEW c \in Conn, ProcsKept, SameLine(c), sh'[c].pc = sh[c].pc, sh'[c].id = sh[c].id,
           In(c) \in Pair /\ shm_fifo[In(c)].out_fd # None => shm_fifo'[In(c)].out_fd = shm_fifo[In(c)].out_fd
    PROVE  Reading(c)'
<1>1. Redir(c)' = Redir(c) /\ In(c)' = In(c) /\ (Reads(c)' <=> Reads(c))
  BY DEF SameLine, Redir, In, Reads
<1>2. sh[c].source_id # 0 /\ sh[c].pc \in LinePlace => In(c) \in Pair
  BY PairFacts DEF Types, LinePlace
<1>3. ASSUME sh[c].source_id # 0, sh[c].pc \in {"line", "wait", "erase"}
      PROVE  /\ shm_fifo'[In(c)].out_fd # None /\ sh[c].in_fd = shm_fifo'[In(c)].out_fd
             /\ sh[c].pc = "wait" => proc'[sh[c].child].rd = sh[c].in_fd
             /\ sh[c].pc = "erase" =>
                   \E j \in DOMAIN proc' : proc'[j].st = "done" /\ proc'[j].rd = sh[c].in_fd
  <2>1. /\ shm_fifo[In(c)].out_fd # None /\ sh[c].in_fd = shm_fifo[In(c)].out_fd
        /\ sh[c].pc = "wait" => proc[sh[c].child].rd = sh[c].in_fd /\ sh[c].child \in DOMAIN proc
        /\ sh[c].pc = "erase" => \E j \in DOMAIN proc : proc[j].st = "done" /\ proc[j].rd = sh[c].in_fd
    BY <1>3 DEF Core, Reading, Types, Placed
  <2>2. In(c) \in Pair
    BY <1>2, <1>3 DEF LinePlace
  <2> QED
    BY <2>1, <2>2 DEF ProcsKept, SameChild
<1>4. sh[c].pc \in LinePlace /\ Reads(c) =>
          /\ sh[c].line.prog = "program" /\ sh[c].target_id = 0
          /\ \A i \in DOMAIN Redir(c) : Redir(c)[i].op = "from"
  BY DEF Core, Reading
<1> QED
  BY <1>1, <1>3, <1>4 DEF Reading, SameLine

(* A signal is taken, or an entry skipped.                                 *)
LEMMA CoreLoop ==
    ASSUME Types, IdsOnce, Core, NEW c \in Conn, Handler(c), Others(c), SameLine(c),
           sh'[c].pc = sh[c].pc, sh'[c].id = sh[c].id, sh'[c].held = sh[c].held, sh[c].pc # "away",
           sh[c].opening = 0, sh'[c].opening = 0, ~sh'[c].woken,
           usr2 \ {c} \subseteq usr2',
           UNCHANGED <<shm_cli, shm_fifo, file, made, proc, content>>,
           Comes(c)'
    PROVE  Core'
<1>1. SameProcs /\ ChildrenGoOn /\ ProcsKept /\ NoNewWriters
  BY UnchangedProcs, SameProcsFacts
<1>2. \A d \in Conn : /\ Owner(d)' => Owner(d) /\ Out(d)' = Out(d)
                      /\ Sent(d)' => Sent(d) /\ Out(d)' = Out(d)
  BY DEF Owner, Sent, Out, Others, SameLine
<1>3. \A p : /\ SameEntry(p)
             /\ Open(p)' /\ Served(p)' => Open(p) /\ Served(p)
             /\ Open(p)' /\ Asked(p)' => Open(p) /\ Asked(p)
  BY <1>1, <1>2, ServedKept DEF SameEntry
<1>4. Slots'
  BY SlotsKept DEF Core, Others
<1>5. OneWriter'
  BY <1>1, <1>2, OneWriterKept DEF Core
<1>6. Offers'
  BY <1>1, OffersKept DEF Core, Offers, Others
<1>7. Fds'
  BY <1>1, FdsKept DEF Core, Types, Others, SameLine
<1>8. ReadToEnd'
  BY <1>1, ReadToEndKept DEF Core, Types, Others, Fds, SameLine
<1>9. CheckMisses'
  BY <1>1, CheckMissesKept, BeingReadKept DEF Core, Others, SameLine
<1>10. Held'
  <2>1. \A d \in Conn : sh'[d].held = sh[d].held /\ sh'[d].opening = sh[d].opening
                        /\ (Listening(d)' => Listening(d))
    BY DEF Others, Listening, Alive
  <2>2. \A p \in Pair : \A d \in Conn : \A k : shm_fifo[p].out_fd = <<d, k>> => Kept(d, k)'
    BY DEF Kept
  <2> QED
    BY <1>1, <2>1, <2>2, HeldKept DEF Core, Types
<1>11. \A d \in Conn : d # c => Working(d)' /\ Reading(d)'
  BY <1>1, <1>3, OthersWork DEF Types
<1>12. \A d \in Conn : d # c => Comes(d)' /\ Cleaned(d)'
  BY <1>3, OthersServed DEF Types, SameEntry
<1>13. Reading(c)'
  BY <1>1, StaysPut
<1>14. Working(c)'
  <2>1. In(c)' = In(c) /\ \A p : (Used(p)' <=> Used(p)) /\ Writers(file[p])' = Writers(file[p])
    BY DEF In, SameLine, Used, NotOpened, Writers
  <2>2. (Used(In(c))' <=> Used(In(c))) /\ Writers(file[In(c)])' = Writers(file[In(c)])
    BY <2>1 DEF Used, NotOpened, Writers
  <2> QED
    BY <2>1, <2>2 DEF Core, Working, SameLine
<1>15. Cleaned(c)'
  <2>1. \A s \in Id : \A p : p = To(c, s) => To(c, s)' = p
    BY DEF To
  <2>2. \A p : Open(p)' /\ Served(p)' => Open(p) /\ Served(p)
    BY <1>3
  <2>3. \A s \in Id : Open(To(c, s))' /\ Served(To(c, s))' => Open(To(c, s)) /\ Served(To(c, s))
    BY <2>1, <2>2
  <2> QED
    BY <2>1, <2>3 DEF Core, Cleaned, SameLine
<1> QED
  BY <1>4, <1>5, <1>6, <1>7, <1>8, <1>9, <1>10, <1>11, <1>12, <1>13, <1>14, <1>15 DEF Core

LEMMA CoreCatch == ASSUME Types, IdsOnce, Core, NEW c \in Conn, CatchSignal(c) PROVE Core'
<1>1. /\ Alive(c) /\ sh[c].h = 0 /\ Others(c) /\ SameLine(c) /\ sh'[c].id = sh[c].id
      /\ sh'[c].pc = sh[c].pc /\ sh'[c].h = 1 /\ sh'[c].opening = sh[c].opening
      /\ sh'[c].woken = sh[c].woken /\ sh'[c].held = sh[c].held
      /\ usr2' = usr2 \ {c} /\ UNCHANGED <<shm_cli, shm_fifo, file, made, proc, content>>
  BY CatchSignalFacts DEF Types
<1>2. sh[c].opening = 0 /\ ~sh[c].woken /\ sh[c].pc # "away" /\ Handler(c)
  BY <1>1 DEF Types, Placed, Alive, Handler
<1>3. \A s \in Id : 1 \in 1 .. s
  BY DEF Id
<1>4. Comes(c)'
  BY <1>1, <1>3 DEF Comes
<1> QED
  BY <1>1, <1>2, <1>4, CoreLoop

(* The loop goes on from the entry it has dealt with to the next one.      *)
LEMMA NextEntry ==
    ASSUME Types, Core, NEW c \in Conn, GoesOn(c), sh[c].h # 0, sh[c].pc # "away",
           c \in usr2 => c \in usr2',
           \A p \in Pair : /\ shm_fifo'[p].out_fd = None => shm_fifo[p].out_fd = None
                           /\ Open(p)' /\ Asked(p)' => Open(p) /\ Asked(p),
           \A p : p = Entry(c) => ~(Open(p)' /\ shm_fifo'[p].out_fd = None)
    PROVE  Comes(c)'
<1>1. ASSUME NEW s \in Id,
             Alive(c)' /\ Open(To(c, s))' /\ shm_fifo'[To(c, s)'].out_fd = None /\ Asked(To(c, s))'
      PROVE  c \in usr2' \/ sh'[c].h \in 1 .. s \/ (sh'[c].pc = "unlink" /\ sh'[c].source_id = s)
  <2>1. /\ To(c, s) \in Pair /\ To(c, s)' = To(c, s) /\ (s = sh[c].h => To(c, s) = Entry(c))
        /\ sh[c].h \in Id
    <3>1. sh[c].h \in Id \cup {0}
      BY ProcessType DEF Types, Processes
    <3> QED
      BY <3>1, ToPair DEF Types, To, GoesOn, Entry
  <2>2. \A p : p = To(c, s) => Open(p)' /\ Asked(p)' /\ shm_fifo'[p].out_fd = None
    BY <1>1, <2>1
  <2>3. Open(To(c, s)) /\ Asked(To(c, s)) /\ shm_fifo[To(c, s)].out_fd = None
    BY <2>1, <2>2
  <2>4. c \in usr2 \/ sh[c].h \in 1 .. s \/ (sh[c].pc = "unlink" /\ sh[c].source_id = s)
    BY <1>1, <2>3 DEF Core, Comes, GoesOn, Alive
  <2>5. s # sh[c].h
    BY <2>1, <2>2
  <2>6. CASE sh[c].h \in 1 .. s
    <3>1. sh[c].h + 1 \in 1 .. s /\ sh[c].h < MaxClient
      BY <2>1, <2>5, <2>6, MaxClientAssumption DEF Id
    <3> QED
      BY <2>1, <3>1, MaxClientAssumption DEF GoesOn, Id
  <2> QED
    BY <2>4, <2>6 DEF GoesOn, SameLine
<1> QED
  BY <1>1 DEF Comes

LEMMA CoreSkip == ASSUME Types, IdsOnce, Core, NEW c \in Conn, SkipEntry(c) PROVE Core'
<1>1. /\ Alive(c) /\ sh[c].h # 0 /\ sh[c].opening = 0 /\ ~ToOpen(c) /\ GoesOn(c) /\ Handler(c)
      /\ sh[c].pc # "away"
      /\ UNCHANGED <<shm_cli, shm_fifo, file, made, usr2, proc, content>>
  BY SkipEntryFacts DEF Types, InHandler, AllShell, Handler, Alive
<1>2. ChildrenGoOn
  BY <1>1, UnchangedProcs, SameProcsFacts
<1>3. \A d \in Conn : Sent(d)' => Sent(d) /\ Out(d)' = Out(d)
  BY <1>1 DEF Sent, Out, GoesOn, Others, SameLine
<1>4. \A p : Open(p)' /\ Asked(p)' => Open(p) /\ Asked(p)
  BY <1>1, <1>2, <1>3, ServedKept
<1>5. \A p : p = Entry(c) => ~(Open(p)' /\ shm_fifo'[p].out_fd = None)
  BY <1>1 DEF ToOpen, Open
<1>6. Comes(c)'
  BY <1>1, <1>4, <1>5, NextEntry
<1> QED
  BY <1>1, <1>6, CoreLoop DEF GoesOn

(* The descriptor of the FIFO is entered in the table: it has a writer now.*)
LEMMA CoreOpened == ASSUME Types, IdsOnce, Core, NEW c \in Conn, Opened(c) PROVE Core'
<1> DEFINE k == sh[c].opening
           e == Entry(c)
<1>1. /\ Alive(c) /\ sh[c].woken /\ GoesOn(c) /\ e \in Pair /\ sh[c].h \in Id /\ sh[c].id # 0
      /\ sh[c].pc \notin {"away", "gone"} /\ k # 0 /\ sh[c].h # 0
      /\ \A p \in Pair : /\ p # e => shm_fifo'[p] = shm_fifo[p]
                         /\ shm_fifo'[p].name = shm_fifo[p].name
                         /\ shm_fifo'[p].in_fd = shm_fifo[p].in_fd
                         /\ shm_fifo'[p].is_used = shm_fifo[p].is_used
      /\ shm_fifo'[e].out_fd = <<c, k>>
      /\ UNCHANGED <<shm_cli, file, made, usr2, proc, content>>
  <2>1. Alive(c) /\ sh[c].woken /\ sh[c].h \in Id
    BY OpenedFacts DEF Types
  <2>2. sh[c].id # 0 /\ sh[c].pc \notin {"away", "gone"} /\ k # 0 /\ sh[c].h # 0
    BY <2>1, IdFacts DEF Types, Placed, Alive
  <2> QED
    BY <2>1, <2>2, OpenedFacts DEF Types, EntriesBut
<1>2. /\ Others(c) /\ SameLine(c) /\ sh'[c].id = sh[c].id /\ sh'[c].pc = sh[c].pc
      /\ sh'[c].opening = 0 /\ ~sh'[c].woken /\ sh'[c].held = sh[c].held
  BY <1>1 DEF GoesOn
<1>3. file[e] = k /\ shm_fifo[e].name /\ shm_fifo[e].out_fd = None /\ Used(e)
  BY <1>1 DEF Core, Working
<1>4. e[2] = sh[c].id /\ <<c, k>> # None
  BY NoneFacts DEF Entry
<1> HIDE DEF k, e
<1>5. SameProcs /\ ChildrenGoOn /\ ProcsKept /\ NoNewWriters
  BY <1>1, UnchangedProcs, SameProcsFacts
<1>6. \A d \in Conn : /\ Owner(d)' => Owner(d) /\ Out(d)' = Out(d)
                      /\ Sent(d)' => Sent(d) /\ Out(d)' = Out(d)
  BY <1>2 DEF Owner, Sent, Out, Others, SameLine
<1>7. \A p \in Pair : /\ p # e => SameEntry(p)
                      /\ shm_fifo[p].out_fd # None => p # e
                      /\ shm_fifo'[p].out_fd = None => shm_fifo[p].out_fd = None
                      /\ Open(p)' /\ Served(p)' => Open(p) /\ Served(p)
                      /\ Open(p)' /\ Asked(p)' => Open(p) /\ Asked(p)
  <2>1. \A p \in Pair : /\ Open(p)' /\ Served(p)' => Open(p) /\ Served(p)
                        /\ Open(p)' /\ Asked(p)' => Open(p) /\ Asked(p)
    BY <1>1, <1>5, <1>6, ServedKept
  <2> QED
    BY <1>1, <1>3, <2>1 DEF SameEntry
<1>8. Slots'
  BY <1>1, <1>2, SlotsKept DEF Core, Others
<1>9. OneWriter'
  BY <1>1, <1>5, <1>6, OneWriterKept DEF Core
<1>10. Offers'
  <2>1. ASSUME NEW p \in Pair, shm_fifo'[p].out_fd # None
        PROVE  Used(p)' /\ \E d \in Conn : sh'[d].id = p[2] /\ shm_fifo'[p].out_fd = <<d, file'[p]>>
    <3>1. CASE p = e
      <4>1. Used(p)'
        BY <1>1, <1>3, <1>5, <3>1, UsedKept
      <4> QED
        BY <1>1, <1>2, <1>3, <1>4, <3>1, <4>1
    <3>2. CASE p # e
      <4>1. PICK d \in Conn : sh[d].id = p[2] /\ shm_fifo[p].out_fd = <<d, file[p]>>
        BY <1>1, <2>1, <3>2 DEF Core, Offers
      <4>2. Used(p)'
        BY <1>1, <1>5, <2>1, <3>2, UsedKept DEF Core, Offers
      <4> QED
        BY <1>1, <1>2, <3>2, <4>1, <4>2 DEF Others
    <3> QED
      BY <3>1, <3>2
  <2>2. \A p \in Pair : shm_fifo'[p].is_used => shm_fifo'[p].out_fd # None
    BY <1>1, <1>4 DEF Core, Offers
  <2> QED
    BY <2>1, <2>2 DEF Offers
<1>11. Fds'
  BY FdsOpened DEF Core, Types
<1>12. ReadToEnd'
  BY <1>1, <1>2, <1>5, ReadToEndKept DEF Core, Types, Others, Fds, SameLine
<1>13. CheckMisses'
  <2>1. \A p \in Pair : BeingRead(p) => BeingRead(p)'
    BY <1>1, <1>2, BeingReadKept DEF Others, SameLine
  <2> QED
    BY <1>1, <1>5, <2>1, CheckMissesKept DEF Core
<1>14. Held'
  <2>1. \A d \in Conn : /\ sh'[d].held = sh[d].held /\ (Listening(d)' => Listening(d))
                        /\ sh'[d].opening = sh[d].opening \/ (d = c /\ sh'[d].opening = 0)
    BY <1>2 DEF Others, Listening, Alive
  <2>2. ASSUME NEW d \in Conn, NEW x, Kept(d, x) PROVE Kept(d, x)' \/ x = 0
    <3>1. CASE sh[d].opening = x
      <4>1. CASE d = c
        BY <1>1, <3>1, <4>1 DEF Kept, k
      <4>2. CASE d # c
        BY <2>1, <3>1, <4>2 DEF Kept
      <4> QED
        BY <4>1, <4>2
    <3>2. ASSUME NEW p \in Pair, shm_fifo[p].out_fd = <<d, x>> PROVE Kept(d, x)'
      <4>1. shm_fifo'[p].out_fd = <<d, x>>
        <5>1. shm_fifo[p].out_fd # None
          BY <3>2, NoneFacts
        <5>2. p # e
          BY <1>7, <5>1
        <5> QED
          BY <1>1, <3>2, <5>2
      <4> QED
        BY <4>1 DEF Kept
    <3>3. CASE \E j \in DOMAIN proc : x \in Input(j)
      BY <1>1, <3>3 DEF Kept, Input
    <3> QED
      BY <2>2, <3>1, <3>2, <3>3 DEF Kept
  <2>3. \A d \in Conn : 0 \notin sh[d].held
    BY ProcessType DEF Types, Processes
  <2>4. ASSUME NEW d \in Conn, Listening(d)', NEW x \in sh'[d].held PROVE Kept(d, x)'
    BY <2>1, <2>2, <2>3, <2>4 DEF Core, Held
  <2>5. /\ \A j \in DOMAIN proc : proc[j].by \in Conn
        /\ \A x \in DOMAIN content : made[x].to \in Conn
    <3>1. DOMAIN content = 1 .. Len(made)
      BY DEF Types, TypeOK
    <3> QED
      BY <3>1, MadeType, ChildType DEF Types, Children
  <2>6. /\ \A d \in Conn : \A x \in sh'[d].held : made'[x].to = d
        /\ \A d \in Conn : sh'[d].opening # 0 => sh'[d].opening \in sh'[d].held
        /\ \A j \in DOMAIN proc' : proc'[j].held \subseteq sh'[proc'[j].by].held
        /\ \A x \in DOMAIN content' : content'[x] # {} => x \in sh'[made'[x].to].held
    BY <1>1, <2>1, <2>5 DEF Core, Held
  <2> QED
    BY <2>4, <2>6 DEF Held
<1>15. \A d \in Conn : d # c => Working(d)' /\ Reading(d)'
  BY <1>2, <1>5, <1>7, OthersWork DEF Types, e
<1>16. \A d \in Conn : d # c => Comes(d)' /\ Cleaned(d)'
  BY <1>1, <1>2, <1>7, OthersServed DEF Types, e, SameEntry
<1>17. Working(c)'
  <2>1. In(c)' = In(c) /\ sh'[c].source_id = sh[c].source_id
    BY <1>2 DEF In, SameLine
  <2>2. sh[c].pc = "take" => shm_fifo'[In(c)].out_fd # None
    <3>1. sh[c].pc = "take" => In(c) \in Pair /\ shm_fifo[In(c)].out_fd # None
      BY PairFacts DEF Types, Core, Working
    <3> QED
      BY <1>1, <1>7, <3>1
  <2>3. ASSUME sh[c].pc = "unlink"
        PROVE  Used(In(c))' /\ Writers(file[In(c)])' = {} /\ shm_fifo'[In(c)].out_fd = None
    <3>1. /\ Used(In(c)) /\ Writers(file[In(c)]) = {} /\ shm_fifo[In(c)].out_fd = None
          /\ sh[c].h # sh[c].source_id /\ In(c) \in Pair
      BY <1>1, <2>3, PairFacts DEF Core, Working, Types
    <3>2. In(c) # e
      BY <3>1 DEF In, Entry, e
    <3>3. \A p : (Used(p)' <=> Used(p)) /\ Writers(file[p])' = Writers(file[p])
      BY <1>1 DEF Used, NotOpened, Writers
    <3>4. (Used(In(c))' <=> Used(In(c))) /\ Writers(file[In(c)])' = Writers(file[In(c)])
      BY <1>1, <2>1 DEF Used, NotOpened, Writers
    <3> QED
      BY <1>1, <3>1, <3>2, <3>4
  <2> QED
    BY <1>2, <2>1, <2>2, <2>3 DEF Working
<1>18. Reading(c)'
  <2>1. In(c) \in Pair /\ shm_fifo[In(c)].out_fd # None => shm_fifo'[In(c)].out_fd = shm_fifo[In(c)].out_fd
    BY <1>1, <1>7
  <2> QED
    BY <1>2, <1>5, <2>1, StaysPut
<1>19. Comes(c)'
  <2>1. \A p : p = Entry(c) => ~(Open(p)' /\ shm_fifo'[p].out_fd = None)
    BY <1>1, <1>4 DEF e
  <2> QED
    BY <1>1, <1>7, <2>1, NextEntry
<1>20. Cleaned(c)'
  <2>1. ASSUME sh[c].pc = "clean", NEW s \in Id, s < sh[c].source_id
        PROVE  \A p : p = To(c, s) => shm_fifo'[p].out_fd = None /\ (Open(p)' => ~Served(p)')
    <3>1. shm_fifo[To(c, s)].out_fd = None /\ (Open(To(c, s)) => ~Served(To(c, s))) /\ sh[c].h # s
      BY <1>1, <2>1 DEF Core, Cleaned
    <3>2. To(c, s) \in Pair /\ To(c, s) # e
      BY <1>1, <3>1, ToPair DEF Types, To, Entry, e
    <3> QED
      BY <1>1, <1>7, <3>1, <3>2
  <2>2. \A s \in Id : To(c, s)' = To(c, s)
    BY <1>2 DEF To
  <2> QED
    BY <1>1, <1>2, <2>1, <2>2 DEF Cleaned, SameLine
<1> QED
  BY <1>8, <1>9, <1>10, <1>11, <1>12, <1>13, <1>14, <1>15, <1>16, <1>17, <1>18, <1>19, <1>20 DEF Core

(* A FIFO is opened for reading by the user it was made for; whoever waits *)
(* to write to it goes on.                                                 *)
LEMMA CoreOpenToRead == ASSUME Types, IdsOnce, Core, NEW c \in Conn, OpenToRead(c) PROVE Core'
<1> DEFINE e == Entry(c)
           k == file[e]
<1>1. /\ Alive(c) /\ sh[c].opening = 0 /\ e \in Pair /\ k \in 1 .. Len(made) /\ sh[c].id # 0
      /\ shm_fifo[e].out_fd = None /\ shm_fifo[e].name /\ k # 0
      /\ sh[c].pc \notin {"away", "gone"}
      /\ Others(c) /\ SameLine(c) /\ sh'[c].id = sh[c].id /\ sh'[c].pc = sh[c].pc
      /\ sh'[c].h = sh[c].h /\ sh'[c].opening = k
      /\ sh'[c].woken <=> Writers(k) # {}
      /\ sh'[c].held = sh[c].held \cup {k}
      /\ SameProcs
      /\ UNCHANGED <<shm_cli, shm_fifo, file, made, usr2, content>>
  <2>1. Alive(c) /\ ToOpen(c) /\ SameProcs /\ sh[c].opening = 0
    BY OpenToReadFacts DEF Types, InHandler, SameProcs
  <2>2. sh[c].id # 0 /\ sh[c].pc \notin {"away", "gone"}
    BY <2>1, IdFacts DEF Types, Placed, Alive
  <2> QED
    BY <2>1, <2>2, OpenToReadFacts DEF Types, ToOpen
<1>2. e[2] = sh[c].id /\ Entry(c)' = e
  BY <1>1 DEF Entry
<1>3. Entry(c) = e /\ k = file[e]
  OBVIOUS
<1> HIDE DEF k, e
<1>4. SameProcs /\ ChildrenGoOn /\ ProcsKept /\ NoNewWriters /\ \A x : Writers(x)' = Writers(x)
  BY <1>1, SameProcsFacts
<1>5. \A d \in Conn : /\ Owner(d)' => Owner(d) /\ Out(d)' = Out(d)
                      /\ Sent(d)' => Sent(d) /\ Out(d)' = Out(d)
  BY <1>1 DEF Owner, Sent, Out, Others, SameLine
<1>6. \A p : /\ SameEntry(p)
             /\ Open(p)' /\ Served(p)' => Open(p) /\ Served(p)
             /\ Open(p)' /\ Asked(p)' => Open(p) /\ Asked(p)
  BY <1>1, <1>4, <1>5, ServedKept DEF SameEntry
<1>7. Slots'
  BY <1>1, SlotsKept DEF Core, Others
<1>8. OneWriter'
  BY <1>1, <1>4, <1>5, OneWriterKept DEF Core
<1>9. Offers'
  BY <1>1, <1>4, OffersKept DEF Core, Offers, Others
<1>10. DOMAIN proc' = DOMAIN proc /\ \A j \in DOMAIN proc : proc'[j].st = "done" => proc[j].st = "done"
  BY <1>4 DEF SameProcs
<1>11. Fds'
  BY <1>1, <1>4, <1>10, FdsKept DEF Core, Types, Others, SameLine
<1>12. ReadToEnd'
  BY <1>1, <1>4, <1>10, ReadToEndKept DEF Core, Types, Others, Fds, SameLine
<1>13. CheckMisses'
  <2>1. \A p \in Pair : BeingRead(p) => BeingRead(p)'
    BY <1>1, BeingReadKept DEF Others, SameLine
  <2> QED
    BY <1>1, <1>4, <2>1, CheckMissesKept DEF Core
<1>14. Held'
  <2>1. \A d \in Conn : /\ Listening(d)' => Listening(d)
                        /\ d # c => sh'[d].held = sh[d].held /\ sh'[d].opening = sh[d].opening
                        /\ sh[d].held \subseteq sh'[d].held
    BY <1>1 DEF Others, Listening, Alive
  <2>2. made[k].to = c
    <3>1. made[k].to \in Conn /\ sh[made[k].to].id = sh[c].id
      BY <1>1, <1>2, <1>3, MadeType DEF Types, Named
    <3> QED
      BY <1>1, <3>1 DEF IdsOnce
  <2>3. ASSUME NEW d \in Conn, NEW x \in sh[d].held, Kept(d, x) PROVE Kept(d, x)'
    <3>1. ASSUME sh[d].opening = x PROVE Kept(d, x)'
      <4>1. x # 0
        BY ProcessType DEF Types, Processes
      <4> QED
        BY <1>1, <2>1, <3>1, <4>1 DEF Kept
    <3>2. CASE \E p \in Pair : shm_fifo[p].out_fd = <<d, x>>
      BY <1>1, <3>2 DEF Kept
    <3>3. CASE \E j \in DOMAIN proc : x \in Input(j)
      BY <1>1, <1>10, <3>3, SameProcsFacts DEF Kept
    <3> QED
      BY <2>3, <3>1, <3>2, <3>3 DEF Kept
  <2>4. ASSUME NEW d \in Conn, Listening(d)', NEW x \in sh'[d].held PROVE Kept(d, x)'
    <3>1. CASE x \in sh[d].held
      BY <2>1, <2>3, <2>4, <3>1 DEF Core, Held
    <3>2. CASE d = c /\ x = k
      BY <1>1, <3>2 DEF Kept
    <3> QED
      BY <1>1, <2>1, <2>4, <3>1, <3>2
  <2>5. /\ \A j \in DOMAIN proc : proc[j].by \in Conn
        /\ \A x \in DOMAIN content : made[x].to \in Conn
    <3>1. DOMAIN content = 1 .. Len(made)
      BY DEF Types, TypeOK
    <3> QED
      BY <3>1, MadeType, ChildType DEF Types, Children
  <2>6. \A d \in Conn : \A x \in sh'[d].held : made'[x].to = d
    BY <1>1, <2>1, <2>2 DEF Core, Held
  <2>7. \A d \in Conn : sh'[d].opening # 0 => sh'[d].opening \in sh'[d].held
    BY <1>1, <2>1 DEF Core, Held
  <2>8. \A j \in DOMAIN proc' : proc'[j].held \subseteq sh'[proc'[j].by].held
    BY <1>4, <2>1, <2>5 DEF Core, Held, SameProcs, SameChild
  <2>9. \A x \in DOMAIN content' : content'[x] # {} => x \in sh'[made'[x].to].held
    BY <1>1, <2>1, <2>5 DEF Core, Held
  <2> QED
    BY <2>4, <2>6, <2>7, <2>8, <2>9 DEF Held
<1>15. \A d \in Conn : d # c => Working(d)' /\ Reading(d)'
  BY <1>1, <1>4, <1>6, OthersWork DEF Types
<1>16. \A d \in Conn : d # c => Comes(d)' /\ Cleaned(d)'
  BY <1>1, <1>6, OthersServed DEF Types, SameEntry
<1>17. Reading(c)'
  BY <1>1, <1>4, StaysPut
<1>18. Comes(c)'
  <2>1. ASSUME NEW s \in Id,
               Alive(c)', Open(To(c, s))' /\ shm_fifo'[To(c, s)'].out_fd = None /\ Asked(To(c, s))'
        PROVE  c \in usr2' \/ sh'[c].h \in 1 .. s \/ (sh'[c].pc = "unlink" /\ sh'[c].source_id = s)
    <3>1. To(c, s)' = To(c, s)
      BY <1>1 DEF To
    <3>2. \A p : p = To(c, s) => Open(p)' /\ Asked(p)' /\ shm_fifo'[p].out_fd = None
      BY <2>1, <3>1
    <3>3. Open(To(c, s)) /\ Asked(To(c, s)) /\ shm_fifo[To(c, s)].out_fd = None
      BY <1>1, <1>6, <3>2
    <3> QED
      BY <1>1, <3>3 DEF Core, Comes, SameLine
  <2> QED
    BY <2>1 DEF Comes
<1>19. \A p \in Pair : p = e /\ sh'[c].woken => Used(p)'
  <2>1. \A j \in DOMAIN proc : proc'[j].wr = proc[j].wr
    BY <1>4 DEF SameProcs
  <2> QED
    BY <1>1, <1>3, <1>10, <2>1 DEF Used, NotOpened, Writers
<1>20. Working(c)'
  <2>1. In(c)' = In(c) /\ sh'[c].source_id = sh[c].source_id
    BY <1>1 DEF In, SameLine
  <2>2. sh[c].pc = "take" => shm_fifo'[In(c)].out_fd # None
    BY <1>1 DEF Core, Working
  <2>3. ASSUME sh[c].pc = "unlink"
        PROVE  /\ Used(In(c))' /\ Writers(file[In(c)])' = {} /\ shm_fifo'[In(c)].out_fd = None
               /\ sh[c].h = sh[c].source_id => ~sh'[c].woken
    <3>1. Used(In(c)) /\ Writers(file[In(c)]) = {} /\ shm_fifo[In(c)].out_fd = None
      BY <2>3 DEF Core, Working
    <3>2. \A p : p = In(c) => Used(p)' /\ Writers(file[p])' = {}
      <4>1. \A p : p = In(c) => Used(p)'
        BY <1>1, <1>4, <3>1, UsedKept
      <4>2. \A p : Writers(file[p])' = Writers(file[p])
        BY <1>1, <1>4 DEF Writers, SameProcs
      <4> QED
        BY <3>1, <4>1, <4>2
    <3>3. Used(In(c))' /\ Writers(file[In(c)])' = {}
      BY <2>1, <3>2 DEF Used, NotOpened, Writers
    <3>4. sh[c].h = sh[c].source_id => ~sh'[c].woken
      <4>1. sh[c].h = sh[c].source_id => In(c) = e
        BY <1>3 DEF In, Entry
      <4> QED
        BY <1>1, <1>3, <3>1, <4>1
    <3> QED
      BY <1>1, <3>1, <3>3, <3>4
  <2>4. /\ file'[Entry(c)'] = sh'[c].opening
        /\ shm_fifo'[Entry(c)'].name /\ shm_fifo'[Entry(c)'].out_fd = None
    BY <1>1, <1>2, <1>3
  <2>5. sh'[c].woken => Used(Entry(c))'
    BY <1>1, <1>2, <1>19 DEF Used, NotOpened
  <2> QED
    BY <1>1, <2>1, <2>2, <2>3, <2>4, <2>5 DEF Working
<1>21. Cleaned(c)'
  <2>1. ASSUME sh[c].pc = "clean", NEW s \in Id, s < sh[c].source_id
        PROVE  /\ \A p : p = To(c, s) => shm_fifo'[p].out_fd = None /\ (Open(p)' => ~Served(p)')
               /\ sh'[c].h = s => ~sh'[c].woken
    <3>1. shm_fifo[To(c, s)].out_fd = None /\ (Open(To(c, s)) => ~Served(To(c, s)))
      BY <2>1 DEF Core, Cleaned
    <3>2. ASSUME sh[c].h = s PROVE ~sh'[c].woken
      <4>1. To(c, s) = e /\ Open(e)
        BY <1>1, <1>3, <3>2 DEF To, Entry, Open
      <4>2. Writers(k) = {}
        BY <1>3, <3>1, <4>1 DEF Served
      <4> QED
        BY <1>1, <4>2
    <3> QED
      BY <1>1, <1>6, <3>1, <3>2
  <2>2. \A s \in Id : To(c, s)' = To(c, s)
    BY <1>1 DEF To
  <2> QED
    BY <1>1, <2>1, <2>2 DEF Cleaned, SameLine
<1> QED
  BY <1>7, <1>8, <1>9, <1>11, <1>12, <1>13, <1>14, <1>15, <1>16, <1>17, <1>18, <1>20, <1>21 DEF Core

(* The children: whatever a process counts on stays so.                    *)
LEMMA AllServed ==
    ASSUME Types, Core, usr2' = usr2,
           \A d \in Conn : /\ SameLine(d) /\ sh'[d].pc = sh[d].pc /\ sh'[d].id = sh[d].id
                           /\ sh'[d].h = sh[d].h,
           \A p \in Pair : /\ shm_fifo'[p].out_fd = shm_fifo[p].out_fd
                           /\ Open(p)' /\ Served(p)' => Open(p) /\ Served(p)
                           /\ Open(p)' /\ Asked(p)' => Open(p) /\ Asked(p),
           \A d \in Conn : sh[d].pc = "clean" =>
               \A s \in Id : s < sh[d].source_id => (sh[d].h = s => ~sh'[d].woken)
    PROVE  \A d \in Conn : Comes(d)' /\ Cleaned(d)'
<1> SUFFICES ASSUME NEW d \in Conn PROVE Comes(d)' /\ Cleaned(d)'
  OBVIOUS
<1>1. /\ SameLine(d) /\ sh'[d].pc = sh[d].pc /\ sh'[d].id = sh[d].id /\ sh'[d].h = sh[d].h
      /\ Comes(d) /\ Cleaned(d)
  BY DEF Core
<1>2. \A s \in Id : To(d, s)' = To(d, s)
  BY <1>1 DEF To
<1>3. ASSUME NEW s \in Id, sh[d].pc # "away"
      PROVE  \A p : p = To(d, s) =>
                /\ shm_fifo'[p].out_fd = shm_fifo[p].out_fd
                /\ Open(p)' /\ Served(p)' => Open(p) /\ Served(p)
                /\ Open(p)' /\ Asked(p)' => Open(p) /\ Asked(p)
  BY <1>3, ToPair DEF Types
<1>4. Comes(d)'
  BY <1>1, <1>2, <1>3 DEF Comes, Alive, SameLine
<1>5. Cleaned(d)'
  BY <1>1, <1>2, <1>3 DEF Cleaned, SameLine
<1> QED
  BY <1>4, <1>5

LEMMA WokenNot ==
    ASSUME Core, sh' = sh
    PROVE  \A d \in Conn : sh[d].pc = "clean" =>
               \A s \in Id : s < sh[d].source_id => (sh[d].h = s => ~sh'[d].woken)
BY DEF Core, Cleaned

(* The write end is recorded, which nothing but the check looks at.        *)
LEMMA CoreRecord == ASSUME Types, IdsOnce, Core, NEW j \in DOMAIN proc, Record(j) PROVE Core'
<1> DEFINE e == proc[j].to
<1>1. /\ proc[j].st = "record" /\ e \in Pair
      /\ DOMAIN proc' = DOMAIN proc /\ OtherChildren(j) /\ SameChild(j)
      /\ proc'[j].wr = proc[j].wr /\ proc'[j].st = "run"
      /\ \A p \in Pair : p # e => shm_fifo'[p] = shm_fifo[p]
      /\ shm_fifo'[e].name = shm_fifo[e].name
      /\ shm_fifo'[e].in_fd <=> proc[j].wr # 0
      /\ shm_fifo'[e].out_fd = shm_fifo[e].out_fd /\ shm_fifo'[e].is_used = shm_fifo[e].is_used
      /\ UNCHANGED <<shm_cli, file, made, sh, usr2, content>>
  BY RecordFacts DEF Types, EntriesBut
<1> HIDE DEF e
<1>2. ChildrenGoOn
  BY <1>1 DEF ChildrenGoOn, OtherChildren, SameChild
<1>3. ProcsKept /\ NoNewWriters
  BY <1>2, GoOnFacts
<1>4. \A d \in Conn : /\ Owner(d)' => Owner(d) /\ Out(d)' = Out(d)
                      /\ Sent(d)' => Sent(d) /\ Out(d)' = Out(d)
  BY <1>1 DEF Owner, Sent, Out
<1>5. \A p \in Pair : /\ shm_fifo'[p].name = shm_fifo[p].name /\ shm_fifo'[p].out_fd = shm_fifo[p].out_fd
                      /\ shm_fifo'[p].is_used = shm_fifo[p].is_used
  BY <1>1
<1>6. \A p \in Pair : /\ SameEntry(p)
                      /\ Open(p)' /\ Served(p)' => Open(p) /\ Served(p)
                      /\ Open(p)' /\ Asked(p)' => Open(p) /\ Asked(p)
  BY <1>1, <1>2, <1>4, <1>5, ServedKept DEF SameEntry
<1>7. Slots'
  BY <1>1, SlotsKept DEF Core
<1>8. OneWriter'
  BY <1>1, <1>2, <1>4, OneWriterKept DEF Core
<1>9. Offers'
  BY <1>1, <1>3, <1>5, OffersKept DEF Core, Offers
<1>10. Fds'
  BY <1>1, <1>3, <1>5, FdsKept DEF Core, Types
<1>11. ReadToEnd'
  <2>1. \A i \in DOMAIN proc : proc'[i].st = "done" => proc[i].st = "done"
    BY <1>1 DEF OtherChildren
  <2> QED
    BY <1>1, <1>3, <2>1, ReadToEndKept DEF Core, Types, Fds
<1>12. CheckMisses'
  <2>1. shm_fifo'[e].in_fd
    BY <1>1 DEF Core, OneWriter
  <2>2. ASSUME NEW p \in Pair, p # e, file[p] # 0, ~shm_fifo'[p].in_fd
        PROVE  NotOpened(p)' \/ NotRecorded(p)' \/ BeingRead(p)' \/ ~shm_fifo'[p].name
    <3>1. NotRecorded(p) => NotRecorded(p)'
      BY <1>1, <2>2 DEF NotRecorded, OtherChildren, e
    <3>2. NotOpened(p) => NotOpened(p)'
      BY <1>1 DEF NotOpened, OtherChildren
    <3>3. BeingRead(p) => BeingRead(p)'
      BY <1>1, <1>5, BeingReadKept
    <3> QED
      BY <1>1, <2>2, <3>1, <3>2, <3>3 DEF Core, CheckMisses
  <2> QED
    BY <1>1, <2>1, <2>2 DEF CheckMisses
<1>13. Held'
  <2>1. \A d \in Conn : sh'[d].held = sh[d].held /\ sh'[d].opening = sh[d].opening
                        /\ (Listening(d)' => Listening(d))
    BY <1>1 DEF Listening, Alive
  <2>2. \A p \in Pair : \A d \in Conn : \A k : shm_fifo[p].out_fd = <<d, k>> => Kept(d, k)'
    BY <1>5 DEF Kept
  <2> QED
    BY <1>1, <1>3, <2>1, <2>2, HeldKept DEF Core, Types
<1>14. \A d \in Conn : Working(d)' /\ Reading(d)'
  <2>1. \A d \in Conn : Working(d)'
    <3>1. ASSUME NEW d \in Conn
          PROVE  /\ sh[d].opening # 0 \/ sh[d].woken => Entry(d) \in Pair
                 /\ sh[d].pc \in {"take", "unlink"} => In(d) \in Pair
      BY PairFacts DEF Types, Placed
    <3> QED
      BY <1>1, <1>3, <1>6, <3>1, WorkingKept DEF Core
  <2>2. \A d \in Conn : Reading(d)'
    <3>1. ASSUME NEW d \in Conn PROVE sh[d].source_id # 0 /\ sh[d].pc \in {"line", "wait", "erase"} => In(d) \in Pair
      BY PairFacts DEF Types
    <3> QED
      BY <1>1, <1>3, <1>5, <3>1, ReadingKept DEF Core, Types
  <2> QED
    BY <2>1, <2>2
<1>15. \A d \in Conn : Comes(d)' /\ Cleaned(d)'
  BY <1>1, <1>5, <1>6, WokenNot, AllServed DEF SameLine
<1> QED
  BY <1>7, <1>8, <1>9, <1>10, <1>11, <1>12, <1>13, <1>14, <1>15 DEF Core

(* A command reads its input to the end and writes its output, which       *)
(* stays in the FIFO when its user has it open.                            *)
LEMMA CoreRun == ASSUME Types, IdsOnce, Core, NEW j \in DOMAIN proc, Run(j) PROVE Core'
<1>1. /\ proc[j].st = "run" /\ \A k \in Input(j) : Writers(k) = {}
      /\ DOMAIN proc' = DOMAIN proc /\ OtherChildren(j) /\ SameChild(j)
      /\ proc'[j].wr = proc[j].wr /\ proc'[j].st = "done"
      /\ DOMAIN content' = DOMAIN content
      /\ \A k \in DOMAIN content :
            content'[k] = (IF k \in Input(j) THEN {} ELSE content[k])
                            \cup (IF k = proc[j].wr /\ HasReader(k) THEN {j} ELSE {})
      /\ UNCHANGED <<shm_cli, shm_fifo, file, made, sh, usr2>>
  BY RunFacts DEF Types
<1>2. ChildrenGoOn
  BY <1>1 DEF ChildrenGoOn, OtherChildren, SameChild
<1>3. /\ ProcsKept /\ NoNewWriters /\ \A k : Writers(k)' \subseteq Writers(k)
      /\ \A i \in DOMAIN proc : Input(i)' = Input(i)
  BY <1>2, GoOnFacts
<1>4. \A d \in Conn : /\ Owner(d)' => Owner(d) /\ Out(d)' = Out(d)
                      /\ Sent(d)' => Sent(d) /\ Out(d)' = Out(d)
  BY <1>1 DEF Owner, Sent, Out
<1>5. \A p : /\ SameEntry(p)
             /\ Open(p)' /\ Served(p)' => Open(p) /\ Served(p)
             /\ Open(p)' /\ Asked(p)' => Open(p) /\ Asked(p)
  BY <1>1, <1>2, <1>4, ServedKept DEF SameEntry
<1>6. Slots'
  BY <1>1, SlotsKept DEF Core
<1>7. OneWriter'
  BY <1>1, <1>2, <1>4, OneWriterKept DEF Core
<1>8. Offers'
  BY <1>1, <1>3, OffersKept DEF Core, Offers
<1>9. Fds'
  BY <1>1, <1>3, FdsKept DEF Core, Types
<1>10. /\ DOMAIN content = 1 .. Len(made)
       /\ \A i \in DOMAIN proc : Input(i) \subseteq DOMAIN content
  <2>1. DOMAIN content = 1 .. Len(made)
    BY DEF Types, TypeOK
  <2>2. \A i \in DOMAIN proc : proc[i].rd \in Fd
    BY ChildType DEF Types, Children
  <2>3. \A i \in DOMAIN proc : Input(i) \subseteq 1 .. Len(made)
    BY <2>2, NoneFacts DEF Input
  <2> QED
    BY <2>1, <2>3
<1>11. ReadToEnd'
  <2>1. \A d \in Conn : sh'[d].in_fd # None => \E i \in DOMAIN proc' : proc'[i].wr = sh'[d].in_fd[2]
    BY <1>1 DEF Core, ReadToEnd, OtherChildren
  <2>2. j \in Writers(proc[j].wr)
    BY <1>1 DEF Writers
  <2>3. ASSUME NEW i \in DOMAIN proc, NEW k \in Input(i)
        PROVE  /\ \E x \in DOMAIN proc : proc'[x].wr = k
               /\ proc'[i].st = "done" => content'[k] = {} /\ Writers(k)' = {}
    <3>1. PICK x \in DOMAIN proc : proc[x].wr = k
      BY <2>3 DEF Core, ReadToEnd
    <3>2. proc'[x].wr = k
      BY <1>1, <3>1 DEF OtherChildren
    <3>3. ASSUME proc'[i].st = "done" PROVE content'[k] = {} /\ Writers(k)' = {}
      <4>1. Writers(k) = {} /\ (i = j \/ content[k] = {})
        BY <1>1, <2>3, <3>3 DEF Core, ReadToEnd, OtherChildren
      <4>2. k # proc[j].wr
        BY <2>2, <4>1
      <4>3. content'[k] = {}
        BY <1>1, <1>10, <2>3, <4>1, <4>2
      <4> QED
        BY <1>3, <4>1, <4>3
    <3> QED
      BY <3>2, <3>3
  <2>4. \A i \in DOMAIN proc' : \A k \in Input(i)' :
           /\ \E x \in DOMAIN proc' : proc'[x].wr = k
           /\ proc'[i].st = "done" => content'[k] = {} /\ Writers(k)' = {}
    BY <1>1, <1>3, <2>3
  <2> QED
    BY <2>1, <2>4 DEF ReadToEnd
<1>12. CheckMisses'
  <2>1. ASSUME NEW p \in Pair
        PROVE  /\ NotRecorded(p) => NotRecorded(p)'
               /\ NotOpened(p) => NotOpened(p)'
               /\ BeingRead(p) => BeingRead(p)'
    BY <1>1, BeingReadKept DEF NotRecorded, NotOpened, OtherChildren
  <2> QED
    BY <1>1, <2>1 DEF Core, CheckMisses
<1>13. Held'
  <2>1. \A i \in DOMAIN proc : proc[i].by \in Conn
    BY ChildType DEF Types, Children
  <2>2. ASSUME NEW d \in Conn, NEW k, Kept(d, k) PROVE Kept(d, k)'
    BY <1>1, <1>3, <2>2 DEF Kept
  <2>3. ASSUME NEW k \in DOMAIN content, content'[k] # {} PROVE k \in sh[made[k].to].held
    <3>1. CASE content[k] # {}
      BY <3>1 DEF Core, Held
    <3>2. CASE content[k] = {}
      <4>1. HasReader(k)
        BY <1>1, <2>3, <3>2
      <4>2. PICK d \in Conn : k \in sh[d].held
        BY <2>1, <4>1 DEF HasReader, Core, Held
      <4> QED
        BY <4>2 DEF Core, Held
    <3> QED
      BY <3>1, <3>2
  <2>4. \A i \in DOMAIN proc' : proc'[i].held \subseteq sh'[proc'[i].by].held
    BY <1>1, <2>1 DEF Core, Held, OtherChildren, SameChild
  <2>5. \A d \in Conn : Listening(d)' => \A k \in sh'[d].held : Kept(d, k)'
    BY <1>1, <2>2 DEF Core, Held, Listening, Alive
  <2>6. \A k \in DOMAIN content' : content'[k] # {} => k \in sh'[made'[k].to].held
    BY <1>1, <2>3
  <2> QED
    BY <1>1, <2>4, <2>5, <2>6 DEF Core, Held
<1>14. \A d \in Conn : Working(d)' /\ Reading(d)'
  BY <1>1, <1>3, <1>5, WorkingKept, ReadingKept DEF Core, Types
<1>15. \A d \in Conn : Comes(d)' /\ Cleaned(d)'
  BY <1>1, <1>5, WokenNot, AllServed DEF SameLine
<1> QED
  BY <1>6, <1>7, <1>8, <1>9, <1>11, <1>12, <1>13, <1>14, <1>15 DEF Core

(* The command opens the FIFO that was made for it, which no other has;    *)
(* the handler that waits for it goes on.                                  *)
LEMMA CoreOpenToWrite == ASSUME Types, IdsOnce, Core, NEW j \in DOMAIN proc, OpenToWrite(j) PROVE Core'
<1> DEFINE e == proc[j].to
           k == file[e]
<1>1. /\ proc[j].st = "fork" /\ e \in Pair /\ proc[j].wr = 0
      /\ DOMAIN proc' = DOMAIN proc /\ OtherChildren(j) /\ SameChild(j)
      /\ proc'[j].wr = k /\ proc'[j].st \in {"open", "record"}
      /\ \A c \in Conn :
            /\ SameLine(c) /\ sh'[c].pc = sh[c].pc /\ sh'[c].id = sh[c].id
            /\ sh'[c].held = sh[c].held /\ sh'[c].h = sh[c].h /\ sh'[c].opening = sh[c].opening
            /\ sh'[c].woken <=> sh[c].woken \/ (k # 0 /\ sh[c].opening = k)
      /\ UNCHANGED <<shm_cli, shm_fifo, file, made, usr2, content>>
  <2>1. proc[j].st = "fork" /\ proc[j].wr = 0
    BY OpenToWriteFacts DEF Types, Placed
  <2>2. proc'[j].st \in {"open", "record"}
    BY OpenToWriteFacts DEF Types
  <2> QED
    BY <2>1, <2>2, OpenToWriteFacts DEF Types
<1>2. k = file[e] /\ proc[j].to = e
  OBVIOUS
<1> HIDE DEF k, e
<1>3. Forking(j) /\ Fresh(e) /\ k # 0
  BY <1>1, <1>2 DEF Forking, Core, OneWriter, Fresh
<1>4. /\ \A p \in Pair : p # e => file[p] # k
      /\ \A i \in DOMAIN proc : proc[i].wr # k
      /\ \A i \in DOMAIN proc : Forking(i) /\ proc[i].to = e => i = j
      /\ \A c \in Conn : Owner(c) => Out(c) # e
  <2>1. \A p \in Pair : p # e => file[p] # k
    BY <1>1, <1>2, <1>3 DEF Types, Named
  <2> QED
    BY <1>2, <1>3, <2>1 DEF Core, OneWriter, Fresh, NotOpened
<1>5. ProcsKept
  <2>1. ASSUME NEW i \in DOMAIN proc
        PROVE  /\ i \in DOMAIN proc' /\ SameChild(i)
               /\ proc[i].wr # 0 => proc'[i].wr = proc[i].wr
               /\ proc[i].st = "done" => proc'[i].st = "done"
    <3>1. CASE i = j
      BY <1>1, <3>1
    <3>2. CASE i # j
      BY <1>1, <3>2 DEF OtherChildren, SameChild
    <3> QED
      BY <3>1, <3>2
  <2> QED
    BY <2>1 DEF ProcsKept
<1>6. \A x : x # k => Writers(x)' \subseteq Writers(x)
  BY <1>1 DEF Writers, OtherChildren
<1>7. \A c \in Conn : /\ Owner(c)' => Owner(c) /\ Out(c)' = Out(c)
                      /\ Sent(c)' => Sent(c) /\ Out(c)' = Out(c)
  BY <1>1 DEF Owner, Sent, Out, SameLine
<1>8. \A i : Forking(i)' => Forking(i) /\ i # j /\ proc'[i] = proc[i]
  BY <1>1 DEF Forking, OtherChildren
<1>9. \A p \in Pair : Fresh(p) /\ p # e => Fresh(p)'
  BY <1>1, <1>4 DEF Fresh, NotOpened, OtherChildren
<1>10. Slots'
  BY <1>1, SlotsKept DEF Core
<1>11. OneWriter'
  <2>1. ASSUME NEW c \in Conn, Owner(c)'
        PROVE  Fresh(Out(c))' /\ \A i \in DOMAIN proc' : Forking(i)' => proc'[i].to # Out(c)'
    <3>1. Owner(c) /\ Out(c)' = Out(c) /\ Out(c) \in Pair
      <4>1. Owner(c) /\ Out(c)' = Out(c)
        BY <1>7, <2>1
      <4> QED
        BY <4>1, PairFacts DEF Types, Owner, Sent
    <3>2. Fresh(Out(c)) /\ \A i \in DOMAIN proc : Forking(i) => proc[i].to # Out(c)
      BY <3>1 DEF Core, OneWriter
    <3>3. \A p : p = Out(c) => Fresh(p)'
      BY <1>4, <1>9, <3>1, <3>2
    <3>4. Fresh(Out(c))'
      BY <3>1, <3>3 DEF Fresh, NotOpened
    <3> QED
      BY <1>1, <1>8, <3>1, <3>2, <3>4
  <2>2. ASSUME NEW i \in DOMAIN proc', Forking(i)'
        PROVE  Fresh(proc[i].to)' /\ \A x \in DOMAIN proc' : Forking(x)' /\ proc'[x].to = proc'[i].to => i = x
    <3>1. Forking(i) /\ i # j /\ proc'[i] = proc[i] /\ i \in DOMAIN proc
      BY <1>1, <1>8, <2>2
    <3>2. Fresh(proc[i].to) /\ proc[i].to # e /\ proc[i].to \in Pair
      BY <1>4, <3>1 DEF Core, OneWriter, Types, Placed, Forking
    <3>3. \A p : p = proc[i].to => Fresh(p)'
      BY <1>9, <3>2
    <3>4. Fresh(proc[i].to)'
      BY <3>1, <3>3 DEF Fresh, NotOpened
    <3>5. \A x \in DOMAIN proc : Forking(x) /\ proc[x].to = proc[i].to => i = x
      BY <3>1 DEF Core, OneWriter
    <3> QED
      BY <1>1, <1>8, <3>1, <3>4, <3>5
  <2>3. \A x \in DOMAIN proc' :
          /\ proc'[x].wr # 0 => \A p \in Pair : file'[p] = proc'[x].wr => proc'[x].to = p
          /\ proc'[x].st \in {"open", "record"} => proc'[x].wr # 0
    <3>1. ASSUME NEW x \in DOMAIN proc', x # j
          PROVE  /\ proc'[x].wr # 0 => \A p \in Pair : file'[p] = proc'[x].wr => proc'[x].to = p
                 /\ proc'[x].st \in {"open", "record"} => proc'[x].wr # 0
      BY <1>1, <3>1 DEF Core, OneWriter, OtherChildren
    <3>2. /\ \A p \in Pair : file'[p] = proc'[j].wr => proc'[j].to = p
          /\ proc'[j].wr # 0
      BY <1>1, <1>2, <1>3, <1>4 DEF SameChild
    <3> QED
      BY <3>1, <3>2
  <2>4. \A x, y \in DOMAIN proc' : proc'[x].wr = proc'[y].wr /\ proc'[x].wr # 0 => x = y
    <3>1. ASSUME NEW x \in DOMAIN proc, NEW y \in DOMAIN proc, proc'[x].wr = proc'[y].wr, proc'[x].wr # 0
          PROVE  x = y
      <4>1. CASE x # j /\ y # j
        BY <1>1, <3>1, <4>1 DEF Core, OneWriter, OtherChildren
      <4>2. CASE x = j /\ y # j
        BY <1>1, <1>4, <3>1, <4>2 DEF OtherChildren
      <4>3. CASE x # j /\ y = j
        BY <1>1, <1>4, <3>1, <4>3 DEF OtherChildren
      <4> QED
        BY <4>1, <4>2, <4>3
    <3> QED
      BY <1>1, <3>1
  <2> QED
    BY <2>1, <2>2, <2>3, <2>4 DEF OneWriter
<1>12. Offers'
  BY <1>1, <1>5, OffersKept DEF Core, Offers
<1>13. \A c \in Conn : sh'[c].in_fd = sh[c].in_fd
  BY <1>1 DEF SameLine
<1>14. Fds'
  BY <1>1, <1>5, <1>13, FdsKept DEF Core, Types
<1>15. \A i \in DOMAIN proc : Input(i)' = Input(i)
  BY <1>5 DEF Input, ProcsKept, SameChild
<1>16. ReadToEnd'
  <2>1. \A x \in DOMAIN proc : proc[x].wr # 0 => proc'[x].wr = proc[x].wr
    BY <1>5 DEF ProcsKept
  <2>2. ASSUME NEW c \in Conn, sh'[c].in_fd # None
        PROVE  \E i \in DOMAIN proc' : proc'[i].wr = sh'[c].in_fd[2]
    <3>1. PICK i \in DOMAIN proc : proc[i].wr = sh[c].in_fd[2]
      BY <1>13, <2>2 DEF Core, ReadToEnd
    <3>2. sh[c].in_fd[2] # 0
      <4>1. sh[c].in_fd \in Fd
        BY ProcessType DEF Types, Processes
      <4> QED
        BY <1>13, <2>2, <4>1, NoneFacts
    <3> QED
      BY <1>1, <1>13, <2>1, <3>1, <3>2
  <2>3. ASSUME NEW i \in DOMAIN proc, NEW x \in Input(i)
        PROVE  /\ \E y \in DOMAIN proc : proc'[y].wr = x
               /\ proc'[i].st = "done" => content[x] = {} /\ Writers(x)' = {}
    <3>1. PICK y \in DOMAIN proc : proc[y].wr = x
      BY <2>3 DEF Core, ReadToEnd
    <3>2. x # 0
      <4>1. proc[i].rd \in Fd
        BY ChildType DEF Types, Children
      <4> QED
        BY <2>3, <4>1, NoneFacts DEF Input
    <3>3. x # k
      BY <1>4, <3>1
    <3>4. proc'[i].st = "done" => proc[i].st = "done"
      BY <1>1 DEF OtherChildren
    <3>5. proc[i].st = "done" => content[x] = {} /\ Writers(x) = {}
      BY <2>3 DEF Core, ReadToEnd
    <3>6. Writers(x)' \subseteq Writers(x)
      BY <1>6, <3>3
    <3> QED
      BY <2>1, <3>1, <3>2, <3>4, <3>5, <3>6
  <2>4. \A i \in DOMAIN proc' : \A x \in Input(i)' :
           /\ \E y \in DOMAIN proc' : proc'[y].wr = x
           /\ proc'[i].st = "done" => content'[x] = {} /\ Writers(x)' = {}
    BY <1>1, <1>15, <2>3
  <2> QED
    BY <2>2, <2>4 DEF ReadToEnd
<1>17. CheckMisses'
  <2>1. ASSUME NEW p \in Pair, p # e
        PROVE  /\ NotRecorded(p) => NotRecorded(p)'
               /\ NotOpened(p) => NotOpened(p)'
               /\ BeingRead(p) => BeingRead(p)'
    <3>1. BeingRead(p) => BeingRead(p)'
      BY <1>1, BeingReadKept DEF SameLine
    <3> QED
      BY <1>1, <1>4, <2>1, <3>1 DEF NotRecorded, NotOpened, OtherChildren
  <2>2. \A p : p = e => NotRecorded(p)'
    <3>1. j \in DOMAIN proc' /\ proc'[j].to = e /\ proc'[j].st \in {"open", "record"}
      BY <1>1, <1>2 DEF SameChild
    <3> QED
      BY <3>1 DEF NotRecorded
  <2> QED
    BY <1>1, <2>1, <2>2 DEF Core, CheckMisses
<1>18. Held'
  <2>1. \A c \in Conn : sh'[c].held = sh[c].held /\ sh'[c].opening = sh[c].opening
                        /\ (Listening(c)' => Listening(c))
    BY <1>1 DEF Listening, Alive
  <2>2. \A p \in Pair : \A c \in Conn : \A x : shm_fifo[p].out_fd = <<c, x>> => Kept(c, x)'
    BY <1>1 DEF Kept
  <2> QED
    BY <1>1, <1>5, <2>1, <2>2, HeldKept DEF Core, Types
<1>19. \A p : Used(p) => Used(p)'
  BY <1>1, <1>5, UsedKept
<1>20. ASSUME NEW c \in Conn, sh'[c].woken, ~sh[c].woken
       PROVE  Entry(c) = e /\ shm_fifo[e].name /\ sh[c].h # 0
  <2>1. sh[c].opening = k /\ sh[c].h # 0
    BY <1>1, <1>3, <1>20 DEF Types, Placed
  <2>2. Entry(c) \in Pair /\ file[Entry(c)] = k /\ shm_fifo[Entry(c)].name
    BY <1>3, <2>1, PairFacts DEF Types, Core, Working
  <2> QED
    BY <1>4, <2>1, <2>2
<1>21. ASSUME NEW c \in Conn PROVE Working(c)'
  <2>1. In(c)' = In(c) /\ Entry(c)' = Entry(c) /\ Working(c)
    BY <1>1 DEF In, Entry, SameLine, Core
  <2>2. sh'[c].woken => Used(Entry(c))'
    <3>1. ASSUME sh'[c].woken PROVE \A p : p = Entry(c) => Used(p)'
      <4>1. CASE sh[c].woken
        BY <1>19, <2>1, <4>1 DEF Working
      <4>2. CASE ~sh[c].woken
        BY <1>1, <1>2, <1>3, <1>20, <3>1, <4>2 DEF Used, NotOpened
      <4> QED
        BY <4>1, <4>2
    <3> QED
      BY <2>1, <3>1 DEF Used, NotOpened
  <2>3. ASSUME sh[c].pc = "unlink"
        PROVE  /\ Used(In(c))' /\ Writers(file[In(c)])' = {} /\ shm_fifo'[In(c)].out_fd = None
               /\ sh[c].h = sh[c].source_id => ~sh'[c].woken
    <3>1. /\ Used(In(c)) /\ Writers(file[In(c)]) = {} /\ shm_fifo[In(c)].out_fd = None
          /\ sh[c].h = sh[c].source_id => ~sh[c].woken
          /\ In(c) \in Pair
      BY <2>1, <2>3, PairFacts DEF Working, Types
    <3>2. In(c) # e
      BY <1>3, <3>1 DEF Used, Fresh
    <3>3. \A p : p = In(c) => Used(p)' /\ Writers(file[p])' = {}
      <4>1. \A p : p = In(c) => Used(p)'
        BY <1>19, <3>1
      <4>2. \A x : x = file[In(c)] => Writers(x)' = {}
        BY <1>4, <1>6, <3>1, <3>2
      <4>3. \A p : \A x : x = file[p] => Writers(file[p])' = Writers(x)'
        BY <1>1 DEF Writers
      <4> QED
        BY <4>1, <4>2, <4>3
    <3>4. Used(In(c))' /\ Writers(file[In(c)])' = {}
      BY <2>1, <3>3 DEF Used, NotOpened, Writers
    <3>5. sh[c].h = sh[c].source_id => ~sh'[c].woken
      <4>1. sh[c].h = sh[c].source_id => Entry(c) = In(c)
        BY DEF Entry, In
      <4> QED
        BY <1>20, <3>1, <3>2, <4>1
    <3> QED
      BY <1>1, <3>1, <3>4, <3>5
  <2>4. /\ sh[c].opening # 0 => /\ file[Entry(c)] = sh[c].opening
                                /\ shm_fifo[Entry(c)].name /\ shm_fifo[Entry(c)].out_fd = None
        /\ sh[c].pc = "take" => shm_fifo[In(c)].out_fd # None
    BY <2>1 DEF Working
  <2> QED
    BY <1>1, <2>1, <2>2, <2>3, <2>4 DEF Working, SameLine
<1>22. \A c \in Conn : Reading(c)'
  BY <1>1, <1>5, StaysPut
<1>23. \A p \in Pair : /\ Open(p)' /\ Served(p)' => Open(p) /\ Served(p)
                       /\ Open(p)' /\ Asked(p)' => Open(p) /\ Asked(p)
  <2>1. ASSUME NEW p \in Pair, Open(p)', Served(p)' PROVE Open(p) /\ Served(p)
    <3>1. Open(p)
      BY <1>1, <2>1 DEF Open
    <3>2. CASE p = e
      BY <1>2, <1>3, <3>1, <3>2 DEF Served
    <3>3. CASE p # e
      <4>1. file[p] # k
        BY <1>4, <3>3
      <4>2. \A x : x = file[p] => Writers(x)' \subseteq Writers(x)
        BY <1>6, <4>1
      <4>3. Writers(file[p])' \subseteq Writers(file[p])
        <5>1. \A x : x = file[p] => Writers(file[p])' = Writers(x)'
          BY <1>1 DEF Writers
        <5> QED
          BY <4>2, <5>1
      <4>4. \A i \in DOMAIN proc' : Forking(i)' /\ proc'[i].to = p => Forking(i) /\ proc[i].to = p
        BY <1>8
      <4> QED
        BY <1>1, <2>1, <3>1, <4>3, <4>4 DEF Served
    <3> QED
      BY <3>2, <3>3
  <2>2. ASSUME NEW p \in Pair, Open(p)', Asked(p)' PROVE Open(p) /\ Asked(p)
    <3>1. CASE Served(p)'
      BY <2>1, <2>2, <3>1 DEF Asked
    <3>2. CASE ~Served(p)'
      BY <1>1, <1>7, <2>2, <3>2 DEF Asked, Open
    <3> QED
      BY <3>1, <3>2
  <2> QED
    BY <2>1, <2>2
<1>24. \A c \in Conn : sh[c].pc = "clean" =>
          \A s \in Id : s < sh[c].source_id => (sh[c].h = s => ~sh'[c].woken)
  <2>1. ASSUME NEW c \in Conn, sh[c].pc = "clean", NEW s \in Id, s < sh[c].source_id, sh[c].h = s, sh'[c].woken
        PROVE  FALSE
    <3>1. ~sh[c].woken /\ (Open(To(c, s)) => ~Served(To(c, s)))
      BY <2>1 DEF Core, Cleaned
    <3>2. To(c, s) = e /\ shm_fifo[e].name
      BY <1>20, <2>1, <3>1 DEF To, Entry
    <3>3. Open(e) /\ Served(e)
      BY <1>2, <1>3, <3>2 DEF Open, Served
    <3> QED
      BY <3>1, <3>2, <3>3
  <2> QED
    BY <2>1
<1>25. \A c \in Conn : Comes(c)' /\ Cleaned(c)'
  BY <1>1, <1>23, <1>24, AllServed
<1> QED
  BY <1>10, <1>11, <1>12, <1>14, <1>16, <1>17, <1>18, <1>21, <1>22, <1>25 DEF Core

-----------------------------------------------------------------------------
(* The invariant of every step, and the theorems.                          *)
LEMMA CoreInit == Init => Core
<1> SUFFICES ASSUME Init PROVE Core
  OBVIOUS
<1>1. /\ \A c \in Conn : sh[c] = Away
      /\ \A p \in Pair : file[p] = 0 /\ shm_fifo[p] = NoEntry
      /\ DOMAIN proc = {} /\ DOMAIN content = {}
  BY DEF Init
<1>2. /\ Away.pc = "away" /\ Away.id = 0 /\ Away.in_fd = None /\ Away.source_id = 0
      /\ Away.target_id = 0 /\ Away.opening = 0 /\ ~Away.woken /\ Away.held = {} /\ Away.h = 0
      /\ NoEntry.out_fd = None /\ ~NoEntry.name /\ ~NoEntry.is_used
  BY DEF Away, NoEntry
<1>3. Slots /\ OneWriter
  BY <1>1, <1>2 DEF Slots, OneWriter, Owner, Sent, Forking
<1>4. Offers /\ Fds /\ ReadToEnd /\ CheckMisses
  BY <1>1, <1>2 DEF Offers, Fds, OwnDescriptors, ReadToEnd, CheckMisses
<1>5. Held
  BY <1>1, <1>2 DEF Held
<1>6. ASSUME NEW c \in Conn PROVE Working(c) /\ Reading(c) /\ Comes(c) /\ Cleaned(c)
  BY <1>1, <1>2 DEF Working, Reading, LinePlace, Comes, Cleaned, Alive
<1> QED
  BY <1>3, <1>4, <1>5, <1>6 DEF Core

LEMMA CoreStutter == ASSUME Core, UNCHANGED vars PROVE Core'
<1>1. UNCHANGED <<shm_cli, shm_fifo, file, made, sh, usr2, proc, content>>
  BY DEF vars, shm
<1>2. /\ \A c : Sent(c)' = Sent(c) /\ Out(c)' = Out(c) /\ In(c)' = In(c) /\ Entry(c)' = Entry(c)
      /\ \A c : Redir(c)' = Redir(c) /\ Alive(c)' = Alive(c) /\ Listening(c)' = Listening(c)
      /\ \A c, s : To(c, s)' = To(c, s)
      /\ \A j : Forking(j)' = Forking(j) /\ Input(j)' = Input(j)
      /\ \A k : Writers(k)' = Writers(k)
      /\ \A p : NotOpened(p)' = NotOpened(p) /\ Open(p)' = Open(p) /\ NotRecorded(p)' = NotRecorded(p)
  BY <1>1 DEF Sent, Out, In, Entry, Redir, Alive, Listening, To, Forking, Input, Writers, NotOpened, Open,
              NotRecorded
<1>3. /\ \A c : Owner(c)' = Owner(c) /\ Reads(c)' = Reads(c)
      /\ \A p : Fresh(p)' = Fresh(p) /\ Used(p)' = Used(p)
      /\ \A p : BeingRead(p)' = BeingRead(p) /\ Served(p)' = Served(p)
      /\ \A c, k : Kept(c, k)' = Kept(c, k)
  BY <1>1, <1>2 DEF Owner, Reads, Fresh, Used, BeingRead, Served, Kept
<1>4. \A p : Asked(p)' = Asked(p)
  BY <1>1, <1>2, <1>3 DEF Asked
<1>5. Slots' /\ Offers' /\ Fds' /\ ReadToEnd'
  BY <1>1, <1>2, <1>3 DEF Core, Slots, Offers, Fds, OwnDescriptors, ReadToEnd
<1>6. OneWriter'
  BY <1>1, <1>2, <1>3 DEF Core, OneWriter
<1>7. CheckMisses' /\ Held'
  BY <1>1, <1>2, <1>3 DEF Core, CheckMisses, Held
<1>8. ASSUME NEW c \in Conn PROVE Working(c)' /\ Reading(c)' /\ Comes(c)' /\ Cleaned(c)'
  <2>1. Working(c)' /\ Reading(c)'
    BY <1>1, <1>2, <1>3 DEF Core, Working, Reading
  <2>2. Comes(c)' /\ Cleaned(c)'
    BY <1>1, <1>2, <1>3, <1>4 DEF Core, Comes, Cleaned
  <2> QED
    BY <2>1, <2>2
<1> QED
  BY <1>5, <1>6, <1>7, <1>8 DEF Core

LEMMA CoreStep == ASSUME PlainLines, Types, IdsOnce, IdsOnce', Core, Next PROVE Core'
<1>1. ASSUME NEW c \in Conn, ShellStep(c) PROVE Core'
  <2>1. CASE FindTarget(c) \/ FindSource(c)
    BY <2>1, CoreFind, CoreMove
  <2>2. CASE ExecCmd(c)
    BY <2>2, CoreExec, CoreMove
  <2>3. CASE CheckFree(c) \/ CheckOffered(c) \/ Crash(c) \/ Wait(c)
    BY <2>3, CoreMove
  <2> QED
    BY <1>1, <2>1, <2>2, <2>3, CoreMkfifo, CoreSetName, CoreSignal, CoreTake, CoreErase, CoreUnlink,
       CoreForget, CoreFreeSlot, CoreClean DEF ShellStep
<1>2. ASSUME NEW c \in Conn, Handler(c) PROVE Core'
  BY <1>2, CoreCatch, CoreSkip, CoreOpenToRead, CoreOpened DEF Handler
<1>3. ASSUME NEW j \in DOMAIN proc, ChildStep(j) PROVE Core'
  BY <1>3, CoreOpenToWrite, CoreRecord, CoreRun DEF ChildStep
<1> QED
  BY <1>1, <1>2, <1>3, CoreLogin, CoreReadLine DEF Next

Inv == Types /\ (IdsOnce => Core)

LEMMA InvStep == ASSUME PlainLines, Inv, [Next]_vars PROVE Inv'
<1>1. CASE Next
  <2>1. Types'
    BY <1>1, TypesStep, PlacedStep, NamedStep DEF Inv, Types
  <2>2. ASSUME IdsOnce' PROVE Core'
    BY <1>1, <2>2, IdsOnceBefore, CoreStep DEF Inv, Types
  <2> QED
    BY <2>1, <2>2 DEF Inv
<1>2. CASE UNCHANGED vars
  <2>1. IdsOnce' => IdsOnce
    BY <1>2 DEF IdsOnce, vars
  <2> QED
    BY <1>2, <2>1, TypesStutter, CoreStutter DEF Inv
<1> QED
  BY <1>1, <1>2

LEMMA Invariance == ASSUME PlainLines PROVE Spec => []Inv
<1>1. Init => Inv
  BY TypesInit, CoreInit DEF Inv
<1>2. Inv /\ [Next]_vars => Inv'
  BY InvStep
<1> QED
  BY <1>1, <1>2, PTL DEF Spec

(* Whatever the table says of the FIFOs that is relied on is right, as     *)
(* long as no id is given twice: every command is run on a descriptor of   *)
(* its own process, no entry outlives the process it was opened by, and    *)
(* the check for an existing pipe (np_multi_proc.h:450) passes a FIFO      *)
(* that exists only in the states it names.                                *)
THEOREM EntriesCorrect == ASSUME PlainLines PROVE Spec => []EntriesReal
<1>1. ASSUME Inv PROVE EntriesReal
  <2> SUFFICES ASSUME IdsOnce PROVE OwnDescriptors /\ OffersReal /\ CheckMisses
    BY DEF EntriesReal
  <2>1. Types /\ Core
    BY <1>1 DEF Inv
  <2>2. ASSUME NEW p \in Pair, shm_fifo[p].out_fd # None
        PROVE  \E c \in Conn : sh[c].id = p[2] /\ shm_fifo[p].out_fd[1] = c /\ sh[c].pc # "gone"
    <3>1. PICK c \in Conn : sh[c].id = p[2] /\ shm_fifo[p].out_fd = <<c, file[p]>>
      BY <2>1, <2>2 DEF Core, Offers
    <3>2. p = To(c, p[1]) /\ p[1] \in Id
      BY <3>1 DEF To, Pair
    <3>3. sh[c].pc # "gone"
      BY <2>1, <2>2, <3>2 DEF Core, Cleaned
    <3> QED
      BY <3>1, <3>3
  <2> QED
    BY <2>1, <2>2 DEF Core, Fds, OffersReal
<1> QED
  BY <1>1, Invariance, PTL

(* What was written to a FIFO is not lost before its reader has had it, as *)
(* long as no id is given twice and only programs read from users: the     *)
(* table offers it (np_multi_proc.h:504), the handler of the addressee is  *)
(* about to enter it, or a command of the addressee is reading it.         *)
THEOREM NothingDropped == ASSUME PlainLines PROVE Spec => []UnreadOffered
<1>1. ASSUME Inv PROVE UnreadOffered
  <2> SUFFICES ASSUME IdsOnce, NEW k \in DOMAIN content, content[k] # {}, Listening(made[k].to)
               PROVE  Offered(k)
    BY DEF UnreadOffered
  <2>1. Types /\ Core
    BY <1>1 DEF Inv
  <2>2. made[k].to \in Conn
    BY <2>1, MadeType DEF Types, TypeOK
  <2>3. Kept(made[k].to, k)
    BY <2>1, <2>2 DEF Core, Held
  <2>4. \A j \in DOMAIN proc : k \in Input(j) => proc[j].st # "done"
    BY <2>1 DEF Core, ReadToEnd
  <2> QED
    BY <2>3, <2>4 DEF Kept, Offered
<1> QED
  BY <1>1, Invariance, PTL
=============================================================================
