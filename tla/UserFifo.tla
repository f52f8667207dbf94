------------------------------ MODULE UserFifo ------------------------------
(***************************************************************************)
(* np_multi_proc: user pipes.  "cmd >n" makes a FIFO in the file system,   *)
(* enters its name in a shared table and sends SIGUSR2 to user n, whose    *)
(* handler opens it for reading; the child that runs cmd opens it for      *)
(* writing.  Each open waits for the other one.  "cmd <n" runs cmd on the  *)
(* descriptor the handler has entered in the table, and then removes the   *)
(* FIFO.  Nothing is locked.                                               *)
(*                                                                         *)
(* Logging in is one step here (ClientShm has the steps).  A FIFO is its   *)
(* inode, numbered as they are made: the name in the file system can come  *)
(* to stand for another one.  A handler runs to its end before its process *)
(* goes on.                                                                *)
(***************************************************************************)
EXTENDS Integers, Sequences, FiniteSets

CONSTANTS
    Conn,         \* the connections users make, each once; also names its process
    MaxClient,    \* MAX_CLIENT_SIZE
    Line,         \* the lines a user may type
    MaxLine       \* bound: the lines that are typed

(* A line is one command with its redirections, >n ("to") and <n ("from"). *)
Redirection == [op : {"to", "from"}, num : Nat]
Command == [prog : {"program", "builtin", "exit"}, redir : Seq(Redirection)]

ASSUME MaxClientAssumption == MaxClient \in Nat \ {0}
ASSUME LineAssumption ==
    Line \subseteq Command
ASSUME MaxLineAssumption == MaxLine \in Nat

VARIABLES
    shm_cli,      \* the client slots
    shm_fifo,     \* the FIFO table: from source to target id
    file,         \* the FIFO that has the name of each pair in user_pipe/, or 0
    made,         \* history: by whom and for whom each FIFO was made
    sh,           \* the process of each connection
    usr2,         \* the processes for which a SIGUSR2 is pending
    proc,         \* the children, in the order they were forked
    content,      \* the children whose output is in each FIFO
    typed         \* the lines typed so far, for the bound

shm == <<shm_cli, shm_fifo>>
vars == <<shm, file, made, sh, usr2, proc, content, typed>>

Id == 1 .. MaxClient
Nobody == 0
None == <<>>
Pair == Id \X Id

(* An entry of the table.  in_fd is only compared with -1: TRUE is any     *)
(* other value.  out_fd is a descriptor of one process for one FIFO.       *)
NoEntry == [name |-> FALSE, in_fd |-> FALSE, out_fd |-> None, is_used |-> FALSE]

(* A process: its place, its id, what is left of its line, the descriptor  *)
(* that is to be the input, source_id and target_id (0 for -1), whom the   *)
(* user meant by the target, the child it waits for, the FIFOs it has open *)
(* for reading or is opening; the entry its SIGUSR2 handler is at, and the *)
(* FIFO the handler waits for, until it is woken.                          *)
Away == [pc |-> "away", id |-> 0, line |-> [prog |-> "exit", redir |-> <<>>], in_fd |-> None,
         source_id |-> 0, target_id |-> 0, meant |-> Nobody, child |-> 0,
         held |-> {}, h |-> 0, opening |-> 0, woken |-> FALSE]

Init ==
    /\ shm_cli = [i \in Id |-> [valid |-> 0, pid |-> Nobody]]
    /\ shm_fifo = [p \in Pair |-> NoEntry]
    /\ file = [p \in Pair |-> 0]
    /\ made = <<>>
    /\ sh = [c \in Conn |-> Away]
    /\ usr2 = {}
    /\ proc = <<>>
    /\ content = <<>>
    /\ typed = 0

Place == {"away", "prompt", "line", "check", "mkfifo", "name", "signal", "offered", "take",
          "wait", "erase", "unlink", "forget", "slot", "clean", "gone", "dead"}

Fd == {None} \cup (Conn \X (1 .. Len(made)))
Entries == [name : BOOLEAN, in_fd : BOOLEAN, out_fd : Fd, is_used : BOOLEAN]
Processes ==
    [pc : Place, id : Id \cup {0}, line : Command, in_fd : Fd, source_id : Id \cup {0},
     target_id : Id \cup {0}, meant : Conn \cup {Nobody}, child : 0 .. Len(proc),
     held : SUBSET (1 .. Len(made)), h : Id \cup {0}, opening : 0 .. Len(made), woken : BOOLEAN]
Children ==
    [by : Conn, st : {"fork", "open", "record", "run", "done"}, to : Id \X (Id \cup {0}),
     wr : 0 .. Len(made), rd : Fd, held : SUBSET (1 .. Len(made))]

(* Every variable has its type: descriptors are of FIFOs that were made,   *)
(* and the loops over the ids stay within the table (np_multi_proc.h:1182, *)
(* np_multi_proc.cpp:65).                                                  *)
TypeOK ==
    /\ shm_cli \in [Id -> [valid : {0, 1}, pid : Conn \cup {Nobody}]]
    /\ shm_fifo \in [Pair -> Entries]
    /\ file \in [Pair -> 0 .. Len(made)]
    /\ made \in Seq([from : Conn, to : Conn])
    /\ sh \in [Conn -> Processes]
    /\ usr2 \subseteq Conn
    /\ proc \in Seq(Children)
    /\ content \in Seq(SUBSET (1 .. Len(proc))) /\ Len(content) = Len(made)
    /\ typed \in 0 .. MaxLine

Alive(c) == sh[c].pc \notin {"away", "gone", "dead"}

(* The process is at l, and no signal is in its way.                       *)
At(c, l) == sh[c].pc = l /\ c \notin usr2 /\ sh[c].h = 0

Goto(c, l) == sh' = [sh EXCEPT ![c].pc = l]
Listed(i) == i \in Id /\ shm_cli[i].valid = 1

-----------------------------------------------------------------------------
(* Logging in, and typing a line.                                          *)

Lowest(S) == {x \in S : \A y \in S : x <= y}
Login(c) ==
    /\ sh[c].pc = "away"
    /\ \E i \in Lowest({j \in Id : shm_cli[j].valid = 0}) :
          /\ shm_cli' = [shm_cli EXCEPT ![i] = [valid |-> 1, pid |-> c]]
          /\ sh' = [sh EXCEPT ![c] = [@ EXCEPT !.pc = "prompt", !.id = i]]
    /\ UNCHANGED <<shm_fifo, file, made, usr2, proc, content, typed>>

ReadLine(c) ==
    /\ At(c, "prompt")
    /\ \E l \in Line :
          /\ typed < MaxLine
          /\ sh' = [sh EXCEPT ![c] = [@ EXCEPT !.pc = IF l.prog = "exit" THEN "slot" ELSE "line",
                       !.line = l, !.in_fd = None, !.source_id = 0, !.target_id = 0]]
          /\ typed' = typed + 1
    /\ UNCHANGED <<shm, file, made, usr2, proc, content>>

Redir(c) == sh[c].line.redir
AtRedir(c, op) == At(c, "line") /\ Redir(c) # <<>> /\ Head(Redir(c)).op = op
Num(c) == Head(Redir(c)).num
Done(c) == [sh[c] EXCEPT !.pc = "line", !.line.redir = Tail(@)]

-----------------------------------------------------------------------------
(* cmd >n                                                                  *)

FindTarget(c) ==
    /\ AtRedir(c, "to")
    /\ sh' = IF Listed(Num(c))
               THEN [sh EXCEPT ![c] = [@ EXCEPT !.pc = "check", !.target_id = Num(c),
                                                !.meant = shm_cli[Num(c)].pid]]
               ELSE [sh EXCEPT ![c].pc = "prompt"]
    /\ UNCHANGED <<shm, file, made, usr2, proc, content, typed>>

Out(c) == <<sh[c].id, sh[c].target_id>>
(* Mutation of In: the entry of the way back.                              *)
InReversed(c) == <<sh[c].id, sh[c].source_id>>

In(c) == <<sh[c].source_id, sh[c].id>>

CheckFree(c) ==
    /\ At(c, "check")
    /\ Goto(c, IF shm_fifo[Out(c)].in_fd THEN "prompt" ELSE "mkfifo")
    /\ UNCHANGED <<shm, file, made, usr2, proc, content, typed>>

(* When the name exists mkfifo fails and the process exits: its slot stays.*)
Mkfifo(c) ==
    /\ At(c, "mkfifo")
    /\ IF file[Out(c)] # 0
         THEN Goto(c, "dead") /\ UNCHANGED <<file, made, content, typed>>
         ELSE /\ content' = Append(content, {})
              /\ made' = Append(made, [from |-> c, to |-> sh[c].meant])
              /\ file' = [file EXCEPT ![Out(c)] = Len(made) + 1]
              /\ Goto(c, "name")
    /\ UNCHANGED <<shm, usr2, proc, typed>>

(* The target is looked up again; if it has left the process dereferences  *)
(* NULL for the pid to signal.                                             *)
SetName(c) ==
    /\ At(c, "name")
    /\ shm_fifo' = [shm_fifo EXCEPT ![Out(c)].name = TRUE]
    /\ Goto(c, IF Listed(sh[c].target_id) THEN "signal" ELSE "dead")
    /\ UNCHANGED <<shm_cli, file, made, usr2, proc, content, typed>>

Signal(c) ==
    /\ sh[c].pc = "signal" /\ sh[c].h = 0
    /\ usr2' = usr2 \cup {d \in Conn : Alive(d) /\ d = shm_cli[sh[c].target_id].pid}
    /\ sh' = [sh EXCEPT ![c] = Done(c)]
    /\ UNCHANGED <<shm, file, made, proc, content, typed>>

-----------------------------------------------------------------------------
(* cmd <n                                                                  *)

FindSource(c) ==
    /\ AtRedir(c, "from")
    /\ sh' = IF Listed(Num(c))
               THEN [sh EXCEPT ![c] = [@ EXCEPT !.pc = "offered", !.source_id = Num(c)]]
               ELSE [sh EXCEPT ![c].pc = "prompt"]
    /\ UNCHANGED <<shm, file, made, usr2, proc, content, typed>>

CheckOffered(c) ==
    /\ At(c, "offered")
    /\ Goto(c, IF shm_fifo[In(c)].out_fd = None THEN "prompt" ELSE "take")
    /\ UNCHANGED <<shm, file, made, usr2, proc, content, typed>>

GetUserPipeFd(c) ==
    /\ At(c, "take")
    /\ shm_fifo' = [shm_fifo EXCEPT ![In(c)] = [@ EXCEPT !.in_fd = FALSE, !.is_used = TRUE]]
    /\ sh' = [sh EXCEPT ![c] = [Done(c) EXCEPT !.in_fd = shm_fifo[In(c)].out_fd]]
    /\ UNCHANGED <<shm_cli, file, made, usr2, proc, content, typed>>

-----------------------------------------------------------------------------
(* The command.                                                            *)

Ready(c) == At(c, "line") /\ Redir(c) = <<>>
UsersThere(c) == \A i \in {sh[c].source_id, sh[c].target_id} \ {0} : Listed(i)

(* The messages "just piped" and "just received" name the other user: NULL *)
(* is dereferenced if it has left.                                         *)
Crash(c) ==
    /\ Ready(c)
    /\ ~UsersThere(c)
    /\ Goto(c, "dead")
    /\ UNCHANGED <<shm, file, made, usr2, proc, content, typed>>

(* A child is forked unless the command is a built-in.  The shell waits    *)
(* for it unless its output goes to a user pipe.                           *)
Child(c) ==
    [by |-> c, st |-> IF sh[c].target_id = 0 THEN "run" ELSE "fork",
     to |-> Out(c), wr |-> 0, rd |-> sh[c].in_fd, held |-> sh[c].held]

ExecCmd(c) ==
    /\ Ready(c)
    /\ UsersThere(c)
    /\ IF sh[c].line.prog = "builtin"
         THEN Goto(c, "erase") /\ UNCHANGED proc
         ELSE /\ proc' = Append(proc, Child(c))
              /\ sh' = [sh EXCEPT ![c] = [@ EXCEPT !.pc = IF sh[c].target_id = 0 THEN "wait" ELSE "erase",
                                                   !.child = Len(proc) + 1]]
    /\ UNCHANGED <<shm, file, made, usr2, content, typed>>

Wait(c) ==
    /\ At(c, "wait")
    /\ proc[sh[c].child].st = "done"
    /\ Goto(c, "erase")
    /\ UNCHANGED <<shm, file, made, usr2, proc, content, typed>>

(* The entry is reset, the FIFO removed by its name, and then the name:    *)
(* three steps.  The descriptor is not closed.                             *)
EraseUserPipe(c) ==
    /\ At(c, "erase")
    /\ IF sh[c].source_id # 0 /\ shm_fifo[In(c)].is_used
         THEN /\ shm_fifo' = [shm_fifo EXCEPT ![In(c)] = [NoEntry EXCEPT !.name = shm_fifo[In(c)].name]]
              /\ Goto(c, "unlink")
         ELSE Goto(c, "prompt") /\ UNCHANGED shm_fifo
    /\ UNCHANGED <<shm_cli, file, made, usr2, proc, content, typed>>

(* Mutation of Unlink: the FIFO of the way back.                           *)
UnlinkReversed(c) ==
    /\ At(c, "unlink")
    /\ file' = [file EXCEPT ![<<sh[c].id, sh[c].source_id>>] = 0]
    /\ Goto(c, "forget")
    /\ UNCHANGED <<shm, made, usr2, proc, content, typed>>

Unlink(c) ==
    /\ At(c, "unlink")
    /\ file' = IF shm_fifo[In(c)].name THEN [file EXCEPT ![In(c)] = 0] ELSE file
    /\ Goto(c, "forget")
    /\ UNCHANGED <<shm, made, usr2, proc, content, typed>>

ForgetName(c) ==
    /\ At(c, "forget")
    /\ shm_fifo' = [shm_fifo EXCEPT ![In(c)].name = FALSE]
    /\ Goto(c, "prompt")
    /\ UNCHANGED <<shm_cli, file, made, usr2, proc, content, typed>>

-----------------------------------------------------------------------------
(* FIFOs.                                                                  *)

(* The children that have a FIFO open for writing, or wait for that; and   *)
(* whether anybody has it open for reading, or waits for that.  A shell    *)
(* never closes the read end, and its children inherit it.                 *)
Writers(k) == {j \in DOMAIN proc : proc[j].wr = k /\ proc[j].st # "done"}
HasReader(k) ==
    \/ \E c \in Conn : Alive(c) /\ k \in sh[c].held
    \/ \E j \in DOMAIN proc : proc[j].st # "done" /\ k \in proc[j].held

(* SetUserPipeOut: the child opens the name for writing, which wakes a     *)
(* reader; without one it waits.  If the name is gone, open fails and the  *)
(* output goes to the user.                                                *)
OpenToWrite(j) ==
    LET k == file[proc[j].to]
    IN  /\ proc[j].st = "fork"
        /\ proc' = [proc EXCEPT ![j].wr = k,
                                ![j].st = IF k = 0 \/ HasReader(k) THEN "record" ELSE "open"]
        /\ sh' = [c \in Conn |-> [sh[c] EXCEPT !.woken = @ \/ (k # 0 /\ sh[c].opening = k)]]
        /\ UNCHANGED <<shm, file, made, usr2, content, typed>>

(* Mutation of Record: the write end is not recorded.                      *)
RecordNothing(j) ==
    /\ proc[j].st = "record"
    /\ proc' = [proc EXCEPT ![j].st = "run"]
    /\ UNCHANGED <<shm, file, made, sh, usr2, content, typed>>

Record(j) ==
    /\ proc[j].st = "record"
    /\ shm_fifo' = [shm_fifo EXCEPT ![proc[j].to].in_fd = (proc[j].wr # 0)]
    /\ proc' = [proc EXCEPT ![j].st = "run"]
    /\ UNCHANGED <<shm_cli, file, made, sh, usr2, content, typed>>

(* A program reads its input to the end, writes its output, and exits.  A  *)
(* descriptor of another process is not open in this one.                  *)
Input(j) == IF proc[j].rd # None /\ proc[j].rd[1] = proc[j].by THEN {proc[j].rd[2]} ELSE {}

Run(j) ==
    /\ proc[j].st = "run"
    /\ \A k \in Input(j) : Writers(k) = {}
    /\ content' = [k \in DOMAIN content |->
          (IF k \in Input(j) THEN {} ELSE content[k])
            \cup (IF k = proc[j].wr /\ HasReader(k) THEN {j} ELSE {})]
    /\ proc' = [proc EXCEPT ![j].st = "done"]
    /\ UNCHANGED <<shm, file, made, sh, usr2, typed>>

-----------------------------------------------------------------------------
(* SigHandler for SIGUSR2: every FIFO to this user that has a name and is  *)
(* not open yet is opened.                                                 *)

(* Mutation of Entry: the entries from this user.                          *)
EntryReversed(c) == <<sh[c].id, sh[c].h>>

Entry(c) == <<sh[c].h, sh[c].id>>
(* Mutation of Onwards: the loop runs one entry too far.                   *)
OnwardsTooFar(c) == [sh[c] EXCEPT !.h = IF @ <= MaxClient THEN @ + 1 ELSE 0,
                                  !.opening = 0, !.woken = FALSE]

Onwards(c) == [sh[c] EXCEPT !.h = IF @ < MaxClient THEN @ + 1 ELSE 0,
                            !.opening = 0, !.woken = FALSE]
ToOpen(c) == shm_fifo[Entry(c)].out_fd = None /\ shm_fifo[Entry(c)].name /\ file[Entry(c)] # 0
InHandler(c) == Alive(c) /\ sh[c].h # 0 /\ sh[c].opening = 0

CatchSignal(c) ==
    /\ Alive(c)
    /\ c \in usr2
    /\ sh[c].h = 0
    /\ usr2' = usr2 \ {c}
    /\ sh' = [sh EXCEPT ![c].h = 1]
    /\ UNCHANGED <<shm, file, made, proc, content, typed>>

(* Mutation of SkipEntry: the loop ends at the first entry to skip.        *)
SkipRest(c) ==
    /\ InHandler(c)
    /\ ~ToOpen(c)
    /\ sh' = [sh EXCEPT ![c].h = 0]
    /\ UNCHANGED <<shm, file, made, usr2, proc, content, typed>>

SkipEntry(c) ==
    /\ InHandler(c)
    /\ ~ToOpen(c)
    /\ sh' = [sh EXCEPT ![c] = Onwards(c)]
    /\ UNCHANGED <<shm, file, made, usr2, proc, content, typed>>

(* open wakes the writers that wait, and returns if there is a writer.     *)
Connected(r, k) == IF r.st = "open" /\ r.wr = k THEN [r EXCEPT !.st = "record"] ELSE r

OpenToRead(c) ==
    LET k == file[Entry(c)]
    IN  /\ InHandler(c)
        /\ ToOpen(c)
        /\ sh' = [sh EXCEPT ![c] = [@ EXCEPT !.held = sh[c].held \cup {k}, !.opening = k,
                                             !.woken = Writers(k) # {}]]
        /\ proc' = [j \in DOMAIN proc |-> Connected(proc[j], k)]
        /\ UNCHANGED <<shm, file, made, usr2, content, typed>>

Opened(c) ==
    /\ Alive(c)
    /\ sh[c].woken
    /\ shm_fifo' = [shm_fifo EXCEPT ![Entry(c)].out_fd = <<c, sh[c].opening>>]
    /\ sh' = [sh EXCEPT ![c] = Onwards(c)]
    /\ UNCHANGED <<shm_cli, file, made, usr2, proc, content, typed>>

-----------------------------------------------------------------------------
(* Logging out: the slot is freed, and then the FIFOs to this user that    *)
(* were opened are read to the end and removed, one source id after the    *)
(* other.  Those from this user, and those not opened, stay.               *)

FreeSlot(c) ==
    /\ At(c, "slot")
    /\ shm_cli' = [shm_cli EXCEPT ![sh[c].id].valid = 0]
    /\ sh' = [sh EXCEPT ![c] = [@ EXCEPT !.pc = "clean", !.source_id = 1]]
    /\ UNCHANGED <<shm_fifo, file, made, usr2, proc, content, typed>>

(* Mutation of Clean: the first source is left out.                        *)
CleanShort(c) ==
    LET e == shm_fifo[In(c)]
    IN  /\ At(c, "clean")
        /\ IF e.out_fd # None /\ sh[c].source_id > 1
             THEN /\ shm_fifo' = [shm_fifo EXCEPT ![In(c)] = NoEntry]
                  /\ file' = IF e.name THEN [file EXCEPT ![In(c)] = 0] ELSE file
             ELSE UNCHANGED <<shm_fifo, file>>
        /\ sh' = IF sh[c].source_id < MaxClient
                   THEN [sh EXCEPT ![c].source_id = @ + 1] ELSE [sh EXCEPT ![c].pc = "gone"]
        /\ UNCHANGED <<shm_cli, made, usr2, proc, content, typed>>

Clean(c) ==
    LET e == shm_fifo[In(c)]
    IN  /\ At(c, "clean")
        /\ e.out_fd # None /\ e.out_fd[1] = c => Writers(e.out_fd[2]) = {}
        /\ IF e.out_fd # None
             THEN /\ shm_fifo' = [shm_fifo EXCEPT ![In(c)] = NoEntry]
                  /\ file' = IF e.name THEN [file EXCEPT ![In(c)] = 0] ELSE file
             ELSE UNCHANGED <<shm_fifo, file>>
        /\ sh' = IF sh[c].source_id < MaxClient
                   THEN [sh EXCEPT ![c].source_id = @ + 1] ELSE [sh EXCEPT ![c].pc = "gone"]
        /\ UNCHANGED <<shm_cli, made, usr2, proc, content, typed>>

ShellStep(c) ==
    \/ FindTarget(c) \/ CheckFree(c) \/ Mkfifo(c) \/ SetName(c) \/ Signal(c)
    \/ FindSource(c) \/ CheckOffered(c) \/ GetUserPipeFd(c)
    \/ Crash(c) \/ ExecCmd(c) \/ Wait(c) \/ EraseUserPipe(c) \/ Unlink(c) \/ ForgetName(c)
    \/ FreeSlot(c) \/ Clean(c)

Handler(c) == CatchSignal(c) \/ SkipEntry(c) \/ OpenToRead(c) \/ Opened(c)

ChildStep(j) == OpenToWrite(j) \/ Record(j) \/ Run(j)

Next ==
    \/ \E c \in Conn : Login(c) \/ ReadLine(c) \/ ShellStep(c) \/ Handler(c)
    \/ \E j \in DOMAIN proc : ChildStep(j)

Spec == Init /\ [][Next]_vars

(* The kernel schedules every process, and delivers its signals; users owe *)
(* nothing.                                                                *)
Fairness ==
    /\ \A c \in Conn : WF_vars(ShellStep(c) \/ Handler(c))
    /\ \A j \in 1 .. MaxLine : WF_vars(j \in DOMAIN proc /\ ChildStep(j))

FairSpec == Spec /\ Fairness

-----------------------------------------------------------------------------
(* No id is given a second time.  When it is, the process that had it and  *)
(* the one that has it share the entries of the table while the first one  *)
(* cleans up, and nothing below is certain any more.                       *)
IdsOnce == \A c, d \in Conn : sh[c].id = sh[d].id /\ sh[c].id # 0 => c = d

(* The lines for which the readers of FIFOs are waited for: a command that *)
(* reads from a user is a program, and does not write to one as well.  With*)
(* both redirections the shell removes the FIFO while it is read, and a    *)
(* built-in reads nothing.                                                 *)
PlainLines ==
    \A l \in Line : (\E i \in DOMAIN l.redir : l.redir[i].op = "from") =>
        l.prog = "program" /\ \A i \in DOMAIN l.redir : l.redir[i].op = "from"

(* A command is never run on a descriptor that was opened by another       *)
(* process, in which the number means something else.                      *)
OwnDescriptors == \A j \in DOMAIN proc : proc[j].rd # None => proc[j].rd[1] = proc[j].by

(* The table offers no descriptor of a process that has gone: whoever gets *)
(* its id next would run a command on it.                                  *)
OffersReal ==
    \A p \in Pair : shm_fifo[p].out_fd # None =>
        \E c \in Conn : sh[c].id = p[2] /\ shm_fifo[p].out_fd[1] = c /\ sh[c].pc # "gone"

(* "check if user pipe already exists" looks at in_fd.  It passes although *)
(* the FIFO is there, and the process then ends in mkfifo, only while no   *)
(* command has opened the FIFO yet, or the one that has has not recorded   *)
(* it; while the FIFO is being read; or when the name is no longer in the  *)
(* table, and the FIFO stays for ever.                                     *)
NotOpened(p) == \A j \in DOMAIN proc : proc[j].wr # file[p]
NotRecorded(p) == \E j \in DOMAIN proc : proc[j].to = p /\ proc[j].st \in {"open", "record"}
BeingRead(p) == shm_fifo[p].is_used \/ \E c \in Conn : sh[c].pc = "unlink" /\ In(c) = p

CheckMisses ==
    \A p \in Pair : file[p] # 0 /\ ~shm_fifo[p].in_fd =>
        NotOpened(p) \/ NotRecorded(p) \/ BeingRead(p) \/ ~shm_fifo[p].name

(* What the table says of the FIFOs is right as far as it is relied on.    *)
EntriesReal == IdsOnce => OwnDescriptors /\ OffersReal /\ CheckMisses

(* No message is dropped, except by a built-in with a redirection from the *)
(* user, which reads nothing: what was written to a FIFO is offered to the *)
(* user it was for, or about to be, or being read, until it has been read. *)
Offered(k) ==
    \/ \E p \in Pair : shm_fifo[p].out_fd = <<made[k].to, k>>
    \/ sh[made[k].to].opening = k
    \/ \E j \in DOMAIN proc : proc[j].st # "done" /\ k \in Input(j)

Listening(c) == Alive(c) /\ sh[c].pc \notin {"slot", "clean"}

UnreadOffered == IdsOnce =>
    \A k \in DOMAIN content :
        content[k] # {} /\ Listening(made[k].to) => Offered(k)

(* A process that opens a FIFO for reading, in its signal handler, does    *)
(* not wait for ever, except when another signal came between the reset of *)
(* an entry and the removal of its FIFO, so that it opens once more the    *)
(* FIFO it has read; or when the process that made the FIFO has died, or   *)
(* waits in its own handler, before it forked the command.                 *)
Reopens(c) == sh[c].pc = "unlink" /\ sh[c].h = sh[c].source_id
Forked(k) == \E j \in DOMAIN proc : proc[j].wr = k \/ (proc[j].st = "fork" /\ file[proc[j].to] = k)
Forks(m) == sh[m].pc # "dead" /\ (sh[m].opening # 0 => sh[m].pc \notin {"name", "signal", "line"})
Abandoned(k) == ~Forked(k) /\ ~Forks(made[k].from)
Stuck(c) == Reopens(c) \/ Abandoned(sh[c].opening)
WaitsToRead(c) == IdsOnce /\ sh[c].opening # 0 /\ ~Stuck(c)

OpensReturn == \A c \in Conn : WaitsToRead(c) ~> ~WaitsToRead(c)

(* A command that writes to a user does not wait for ever to open its FIFO,*)
(* as long as that user is there, is not itself kept waiting as above, and *)
(* the FIFO's name is in the table: one signal is enough, whatever the     *)
(* addressee is doing when it arrives.                                     *)
WaitsToWrite(j) ==
    /\ IdsOnce
    /\ j \in DOMAIN proc
    /\ proc[j].st = "open"
    /\ shm_fifo[proc[j].to].name
    /\ LET d == made[proc[j].wr].to IN Alive(d) /\ (sh[d].opening # 0 => ~Stuck(d))

WritersServed == \A j \in 1 .. MaxLine : WaitsToWrite(j) ~> ~WaitsToWrite(j)

(* The two ends of a FIFO meet: neither side waits in open for ever.       *)
OpensMeet == OpensReturn /\ WritersServed
=============================================================================
