----------------------------- MODULE SingleProc -----------------------------
(***************************************************************************)
(* np_single_proc: one process that serves every client from a select      *)
(* loop, with an id table, a client table, one descriptor table for        *)
(* sockets and pipes, numbered pipes of each client and user pipes between *)
(* clients.                                                                *)
(*                                                                         *)
(* The server is sequential; what interleaves with it are the users, who   *)
(* connect, type lines and hang up while it waits in select.  Forked       *)
(* programs are not modelled as processes: running a command records what  *)
(* its input and output are connected to.  Of the messages the server      *)
(* writes only the sockets matter: a connection that is closed at the      *)
(* other end answers the first write with a reset, and when that is there  *)
(* the next write is a SIGPIPE, which ends the server.                     *)
(*                                                                         *)
(* Three things the code does not survive are left out.  As long as nobody *)
(* hangs up, invariants show that they do not arise: a readable socket     *)
(* without a client (EveryoneKnown; GetClientByFd would return end()), an  *)
(* id without a client (IdsExact; so would GetClientByID), and a closed    *)
(* descriptor in afds (MonitoredExact; select would fail with EBADF).      *)
(* After a hang-up the first two do (see Logout); the model stops there.   *)
(***************************************************************************)
EXTENDS Integers, Sequences, FiniteSets

CONSTANTS
    Conn,         \* the connections users make, each once
    Fd,           \* the descriptors after the listening socket
    MaxClient,    \* MAX_CLIENT_SIZE
    Line,         \* the lines a user may type
    MayHangUp,    \* whether users leave by closing the connection, too
    MaxPipe       \* bound: the number of pipes made in a run

(* A line is a sequence of commands [prog, redir]; redir is the sequence   *)
(* of redirections of the command, as they are written: a user pipe to     *)
(* (>n) or from (<n) user n, and at the end a numbered pipe (|n).  arg is  *)
(* whom tell is for; "name" is a yell, as it is told to everyone, or says  *)
(* why not to its user, like "who".                                        *)
Program == {"noop", "who", "tell", "yell", "exit"}
Redirection == [op : {"to", "from", "pipe"}, num : Int]
Command == [prog : Program, redir : Seq(Redirection), arg : Nat]

ASSUME ConnAssumption == 0 \notin Conn       \* Nobody
ASSUME FdAssumption == Fd \subseteq Nat
ASSUME MaxClientAssumption == MaxClient \in Nat \ {0}
ASSUME LineAssumption == Line \subseteq Seq(Command) \ {<<>>}
ASSUME MayHangUpAssumption == MayHangUp \in BOOLEAN
ASSUME MaxPipeAssumption == MaxPipe \in Nat

VARIABLES
    id_table,       \* 1 for the ids in use
    client_table,   \* the clients, in the order they logged in
    afds,           \* the client sockets that are monitored
    rfds,           \* the sockets select found readable and not yet served
    fdt,            \* the descriptor table
    std,            \* the connection descriptors 1 and 2 are open on, or Nobody
    pc,             \* where the server is: select, accept, scan, exec, return
    cli,            \* position of the client being served
    cmds_,          \* the rest of its line, with the redirections not yet done
    in_fd, out_fd,  \* what replaces the socket as input and output, if anything
    taken,          \* need_erase_cli_ids: whose user pipes the command reads
    status,         \* -1 when the command run last was exit
    peer,           \* each user: away, calling, quit, here, hungup, left, or lost
    broken,         \* the connections a reset has come for, or is about to
    inbox,          \* the line each user has sent and the server not received
    made,           \* history: the pipes made, with the users at their ends
    got             \* history: <<reader, pipe>>

table == <<id_table, client_table, afds>>
exec == <<cli, cmds_, in_fd, out_fd, taken, status>>
users == <<peer, inbox, broken>>
history == <<made, got>>
vars == <<table, rfds, fdt, std, pc, exec, users, history>>

Nobody == 0
Closed == <<"closed", 0>>
Id == 1 .. MaxClient

PipeFd == [in_fd : Fd, out_fd : Fd, count : Int]
UserPipeFd == [in_fd : Fd, out_fd : Fd, source_id : Id, target_id : Id, is_used : BOOLEAN]
Client == [fd : Fd, id : Id, pipe_vector_ : SUBSET PipeFd, userpipe_vector_ : SUBSET UserPipeFd]
ClientInfo(f, id) == [fd |-> f, id |-> id, pipe_vector_ |-> {}, userpipe_vector_ |-> {}]

(* What a descriptor is open on.  The addressee of a pipe may be anything  *)
(* once a client that was lost is still in the table.                      *)
End == {Closed} \cup ({"sock"} \X Conn) \cup ({"r", "w"} \X (1 .. MaxPipe))
Pipe == [from : Conn, to : Conn \cup Nat]

TypeOK ==
    /\ id_table \in [Id -> {0, 1}]
    /\ client_table \in Seq(Client)
    /\ afds \subseteq Fd
    /\ rfds \subseteq afds
    /\ fdt \in [Fd -> End]
    /\ std \in Conn \cup {Nobody}
    /\ pc \in {"select", "accept", "scan", "exec", "return", "dead"}
    /\ cli \in 0 .. Len(client_table)
    /\ cmds_ \in Seq(Command)
    /\ in_fd \subseteq Fd /\ out_fd \subseteq Fd /\ taken \subseteq Id
    /\ status \in {0, -1}
    /\ peer \in [Conn -> {"away", "calling", "quit", "here", "hungup", "left", "lost"}]
    /\ broken \subseteq Conn
    /\ inbox \in [Conn -> {<<>>} \cup {<<l>> : l \in Line}]
    /\ made \in Seq(Pipe) /\ Len(made) <= MaxPipe
    /\ got \subseteq Conn \X (1 .. Len(made))

Init ==
    /\ id_table = [i \in Id |-> 0]
    /\ client_table = <<>>
    /\ afds = {} /\ rfds = {}
    /\ fdt = [f \in Fd |-> Closed]
    /\ std = Nobody
    /\ pc = "select"
    /\ cli = 0 /\ cmds_ = <<>> /\ in_fd = {} /\ out_fd = {} /\ taken = {} /\ status = 0
    /\ peer = [c \in Conn |-> "away"]
    /\ inbox = [c \in Conn |-> <<>>]
    /\ broken = {}
    /\ made = <<>> /\ got = {}

-----------------------------------------------------------------------------
(* The users.  They act while the server waits in select: what they do     *)
(* while it is busy is only seen when it gets there.                       *)

Connect(c) ==
    /\ pc = "select"
    /\ peer[c] = "away"
    /\ peer' = [peer EXCEPT ![c] = "calling"]
    /\ UNCHANGED <<table, rfds, fdt, std, pc, exec, inbox, broken, history>>

Type(c) ==
    /\ pc = "select"
    /\ peer[c] = "here"
    /\ inbox[c] = <<>>
    /\ \E l \in Line : inbox' = [inbox EXCEPT ![c] = <<l>>]
    /\ UNCHANGED <<table, rfds, fdt, std, pc, exec, peer, broken, history>>

(* Whoever hangs up before having read everything resets the connection.   *)
HangUp(c) ==
    /\ MayHangUp
    /\ pc = "select"
    /\ \/ peer[c] = "calling" /\ peer' = [peer EXCEPT ![c] = "quit"] /\ UNCHANGED broken
       \/ /\ peer[c] = "here"
          /\ peer' = [peer EXCEPT ![c] = "hungup"]
          /\ broken' \in {broken, broken \cup {c}}
    /\ UNCHANGED <<table, rfds, fdt, std, pc, exec, inbox, history>>

-----------------------------------------------------------------------------
(* The select loop.                                                        *)

Lowest(S) == {x \in S : \A y \in S : x <= y}
Free(t) == {f \in Fd : t[f] = Closed}
CloseAll(t, fds) == [f \in Fd |-> IF f \in fds THEN Closed ELSE t[f]]

Calling == {c \in Conn : peer[c] \in {"calling", "quit"}}
Readable(f) == \E c \in Conn : fdt[f] = <<"sock", c>> /\ (inbox[c] # <<>> \/ peer[c] = "hungup")

(* Mutation of Audience: it is every socket that is open.                  *)
AudienceOpen == {c \in Conn : \E f \in Fd : fdt[f] = <<"sock", c>>}

(* Whom BroadCast writes to, whether they are still there or not.          *)
Audience == {c \in Conn : \E f \in afds : fdt[f] = <<"sock", c>>}
HungUp(T) == {c \in T : peer[c] \notin {"here", "calling"}}

(* The server has written to T, more than once to D, and goes on at l.     *)
Writes(T, D, l) ==
    /\ broken' = broken \cup HungUp(T)
    /\ pc' \in {l} \cup {"dead" : c \in (T \cap broken) \cup HungUp(D)}

Console == {std} \ {Nobody}

(* rfds is a copy of afds, cut down by select to the readable sockets; the *)
(* listening socket is one of them when a user calls.                      *)
Select ==
    /\ pc = "select"
    /\ rfds' = {f \in afds : Readable(f)}
    /\ rfds' # {} \/ Calling # {}
    /\ pc' = IF Calling # {} THEN "accept" ELSE "scan"
    /\ UNCHANGED <<table, fdt, std, exec, users, history>>

(* Mutations of GetAvaliableID: the index is returned, not the id; an id   *)
(* in use is handed out.                                                   *)
AvailableIndex == {i - 1 : i \in Lowest({i \in Id : id_table[i] = 0})}
AnyID == Lowest(Id)

GetAvaliableID == Lowest({i \in Id : id_table[i] = 0})

(* With no id left the connection stays open, unmonitored, and the sockets *)
(* that were readable wait for the next round.  The line that says so, as  *)
(* everything the server prints, goes to the user it served last.  A new   *)
(* user is welcomed, told of its own login and prompted.                   *)
Accept ==
    /\ pc = "accept"
    /\ \E c \in Calling, f \in Lowest(Free(fdt)) :
          /\ fdt' = [fdt EXCEPT ![f] = <<"sock", c>>]
          /\ IF GetAvaliableID = {}
               THEN /\ peer' = [peer EXCEPT ![c] = "left"]
                    /\ Writes(Console, {}, "select")
                    /\ UNCHANGED table
               ELSE /\ peer' = [peer EXCEPT ![c] = IF @ = "quit" THEN "hungup" ELSE "here"]
                    /\ \E i \in GetAvaliableID :
                          /\ id_table' = [id_table EXCEPT ![i] = 1]
                          /\ client_table' = Append(client_table, ClientInfo(f, i))
                    /\ afds' = afds \cup {f}
                    /\ Writes(Audience \cup {c}, {c}, "scan")
    /\ UNCHANGED <<rfds, std, exec, inbox, history>>

(* accept fails for lack of a descriptor; the caller stays in the queue.   *)
AcceptError ==
    /\ pc = "accept"
    /\ Free(fdt) = {}
    /\ pc' = "scan"
    /\ UNCHANGED <<table, rfds, fdt, std, exec, users, history>>

ScanDone ==
    /\ pc = "scan"
    /\ rfds = {}
    /\ pc' = "select"
    /\ UNCHANGED <<table, rfds, fdt, std, exec, users, history>>

(* The first entry that matches, as the table is searched from the front.  *)
(* Mutation of GetClientByFd: the descriptor is compared with the ids.     *)
GetClientByFdAsId(f) == Lowest({i \in DOMAIN client_table : client_table[i].id = f})

GetClientByFd(f) == Lowest({i \in DOMAIN client_table : client_table[i].fd = f})
GetClientByID(id) == Lowest({i \in DOMAIN client_table : client_table[i].id = id})

(* A line has arrived: 1 and 2 become the client's socket, and its line is *)
(* executed.                                                               *)
Receive ==
    /\ pc = "scan"
    /\ \E f \in Lowest(rfds) : \E i \in GetClientByFd(f), c \in Conn :
          /\ fdt[f] = <<"sock", c>>
          /\ inbox[c] # <<>>
          /\ rfds' = rfds \ {f}
          /\ std' = c
          /\ cli' = i
          /\ cmds_' = Head(inbox[c])
          /\ inbox' = [inbox EXCEPT ![c] = <<>>]
    /\ in_fd' = {} /\ out_fd' = {} /\ taken' = {} /\ status' = 0
    /\ pc' = "exec"
    /\ UNCHANGED <<table, fdt, peer, broken, history>>

(* EraseClientVector drops every client with the id, and closes and drops  *)
(* every user pipe to it.  The client's own pipes are dropped unclosed.    *)
PipesTo(id) ==
    UNION {{u \in client_table[i].userpipe_vector_ : u.target_id = id} : i \in DOMAIN client_table}

(* Mutation of WithoutPipesTo: pipes to the client stay in the table.      *)
PipesToStay(id) == client_table

WithoutPipesTo(id) ==
    [i \in DOMAIN client_table |->
        [client_table[i] EXCEPT !.userpipe_vector_ = {u \in @ : u.target_id # id}]]

Keeps(id, c) == c.id # id

(* Where those who are kept were, in order: the only increasing function.  *)
KeptAt(id) ==
    LET Kept == {i \in DOMAIN client_table : Keeps(id, client_table[i])}
    IN  {h \in [1 .. Cardinality(Kept) -> Kept] : \A j, k \in DOMAIN h : j < k => h[j] < h[k]}

EraseClientVector(id) ==
    \E h \in KeptAt(id) : client_table' = [k \in DOMAIN h |-> WithoutPipesTo(id)[h[k]]]

EraseCloses(id) == UNION {{u.in_fd, u.out_fd} : u \in PipesTo(id)}

(* Mutation of Unmonitor: FD_CLR is forgotten.                             *)
StaysMonitored(f) == UNCHANGED afds

Unmonitor(f) == afds' = afds \ {f}

(* recv returned 0 or failed.  That is printed, and everyone is told, the  *)
(* client that left too.  The client table is searched for its descriptor, *)
(* not for its id.                                                         *)
Logout ==
    /\ pc = "scan"
    /\ \E f \in Lowest(rfds) : \E i \in GetClientByFd(f), c \in Conn :
          /\ fdt[f] = <<"sock", c>>
          /\ inbox[c] = <<>>
          /\ id_table' = [id_table EXCEPT ![client_table[i].id] = 0]
          /\ EraseClientVector(client_table[i].fd)
          /\ fdt' = CloseAll(fdt, EraseCloses(client_table[i].fd) \cup {f})
          /\ Unmonitor(f)
          /\ rfds' = rfds \ {f}
          /\ peer' = [peer EXCEPT ![c] = "lost"]
          /\ cli' = 0
    /\ Writes(Console \cup Audience, Console \cap Audience, "scan")
    /\ UNCHANGED <<std, cmds_, in_fd, out_fd, taken, status, inbox, history>>

-----------------------------------------------------------------------------
(* ExecCmds: the redirections of a command one after the other, then the   *)
(* command.                                                                *)

self == client_table[cli]
User(c) == fdt[c.fd][2]
At(op) == pc = "exec" /\ Head(cmds_).redir # <<>> /\ Head(Head(cmds_).redir).op = op
Num == Head(Head(cmds_).redir).num
NextRedirection == cmds_' = <<[Head(cmds_) EXCEPT !.redir = Tail(@)]>> \o Tail(cmds_)

(* An error in a redirection is printed and drops the rest of the line.    *)
Abandon ==
    /\ cmds_' = <<>>
    /\ status' = 0
    /\ Writes({User(self)}, {}, "return")
    /\ UNCHANGED <<table, rfds, fdt, std, cli, in_fd, out_fd, taken, peer, inbox, history>>

NewPipe(w, r, to) ==
    /\ Len(made) < MaxPipe
    /\ fdt' = [fdt EXCEPT ![w] = <<"w", Len(made) + 1>>, ![r] = <<"r", Len(made) + 1>>]
    /\ made' = Append(made, [from |-> User(self), to |-> to])
    /\ out_fd' = {w}

(* The write end and the read end pipe() makes of the lowest that are free.*)
TwoFree == {q \in Free(fdt) \X Free(fdt) :
              q[2] \in Lowest(Free(fdt)) /\ q[1] \in Lowest(Free(fdt) \ {q[2]})}

HasPipeTo(c, id) == \E u \in c.userpipe_vector_ : u.target_id = id

UserPipeOut ==
    /\ At("to")
    /\ id_table[Num] = 1
    /\ ~HasPipeTo(self, Num)
    /\ \E q \in TwoFree, j \in GetClientByID(Num) :
          /\ NewPipe(q[1], q[2], User(client_table[j]))
          /\ client_table' = [client_table EXCEPT ![cli].userpipe_vector_ = @ \cup
                {[in_fd |-> q[1], out_fd |-> q[2], source_id |-> self.id, target_id |-> Num,
                  is_used |-> FALSE]}]
    /\ NextRedirection
    /\ UNCHANGED <<id_table, afds, rfds, std, pc, cli, in_fd, taken, status, users, got>>

UserPipeOutError ==
    /\ At("to")
    /\ id_table[Num] = 0 \/ HasPipeTo(self, Num)
    /\ Abandon

(* The user pipe is taken: its write end is closed, and it is flagged for  *)
(* EraseUserPipeVector.                                                    *)
(* Mutation of Offered: the addressee is not compared.                     *)
OfferedToAnyone(id) ==
    UNION {{j} \X {u \in client_table[j].userpipe_vector_ : u.source_id = client_table[j].id} :
           j \in GetClientByID(id)}

Offered(id) ==
    UNION {{j} \X {u \in client_table[j].userpipe_vector_ :
                      u.source_id = client_table[j].id /\ u.target_id = self.id} :
           j \in GetClientByID(id)}

GetUserPipeFd(j, u) ==
    /\ fdt' = CloseAll(fdt, {u.in_fd})
    /\ in_fd' = {u.out_fd}
    /\ client_table' = [client_table EXCEPT ![j].userpipe_vector_ =
                            (@ \ {u}) \cup {[u EXCEPT !.is_used = TRUE]}]

UserPipeIn ==
    /\ At("from")
    /\ id_table[Num] = 1
    /\ \E o \in Offered(Num) : GetUserPipeFd(o[1], o[2])
    /\ taken' = taken \cup {Num}
    /\ NextRedirection
    /\ UNCHANGED <<id_table, afds, rfds, std, pc, cli, out_fd, status, users, history>>

UserPipeInError ==
    /\ At("from")
    /\ id_table[Num] = 0 \/ Offered(Num) = {}
    /\ Abandon

SamePipe(n) == {e \in self.pipe_vector_ : e.count = n}

CreatePipe ==
    /\ At("pipe")
    /\ IF SamePipe(Num) # {}
         THEN out_fd' = {e.in_fd : e \in SamePipe(Num)} /\ UNCHANGED <<fdt, client_table, made>>
         ELSE \E q \in TwoFree :
                /\ NewPipe(q[1], q[2], Nobody)
                /\ client_table' = [client_table EXCEPT ![cli].pipe_vector_ = @ \cup
                                       {[in_fd |-> q[1], out_fd |-> q[2], count |-> Num]}]
    /\ NextRedirection
    /\ UNCHANGED <<id_table, afds, rfds, std, pc, cli, in_fd, taken, status, users, got>>

(* pipe() fails: the whole server exits.                                   *)
PipeError ==
    /\ pc = "exec"
    /\ Head(cmds_).redir # <<>>
    /\ \/ At("pipe") /\ SamePipe(Num) = {}
       \/ At("to") /\ id_table[Num] = 1 /\ ~HasPipeTo(self, Num)
    /\ TwoFree = {}
    /\ pc' = "dead"
    /\ UNCHANGED <<table, rfds, fdt, std, exec, users, history>>

(* The due numbered pipe takes precedence over a user pipe as input.  The  *)
(* command runs with what is open then; afterwards the due pipe, the       *)
(* command's input and the user pipes flagged as used (the client's own    *)
(* and those of the clients it read from) are closed and dropped.          *)
Due(c) == {e \in c.pipe_vector_ : e.count = 0}
Input == IF Due(self) # {} THEN {e.out_fd : e \in Due(self)} ELSE in_fd
Used(i) == {u \in client_table[i].userpipe_vector_ : u.is_used}
Cleared == {cli} \cup UNION {GetClientByID(id) : id \in taken}

(* Mutation of RunCloses: the read ends are forgotten.                     *)
RunClosesWriteEnds == {e.in_fd : e \in Due(self)}

RunCloses ==
    (UNION {{e.in_fd, e.out_fd} : e \in Due(self)})
      \cup (IF Due(self) # {} \/ taken # {} THEN Input ELSE {})
      \cup (UNION {{u.out_fd : u \in Used(i)} : i \in Cleared})

Counted(pv) == {[e EXCEPT !.count = @ - 1] : e \in {d \in pv : d.count # 0}}

(* What is told to everyone when a command runs, and to whom else it       *)
(* prints.  A program prints too, but SIGPIPE ends only its own process.   *)
prog == Head(cmds_).prog
Piped == \E f \in out_fd : made[fdt[f][2]].to # Nobody
Announced ==
    (IF taken # {} THEN {"recv"} ELSE {}) \cup (IF Piped THEN {"send"} ELSE {})
      \cup (IF prog = "yell" THEN {"yell"} ELSE {})

Tell(id) ==
    IF id_table[id] = 0 THEN {User(self)}
    ELSE {c \in Conn : \E j \in GetClientByID(id) : fdt[client_table[j].fd] = <<"sock", c>>}

Printed ==
    CASE prog = "who" -> {User(self)}
      [] prog = "tell" -> Tell(Head(cmds_).arg)
      [] OTHER -> {}

Heard(n) == IF Cardinality(Announced) >= n THEN Audience ELSE {}

(* The ids in use that a command looks up in the client table.             *)
LookedUp ==
    {id \in Id : id_table[id] = 1 /\ (prog = "who" \/ (prog = "tell" /\ Head(cmds_).arg = id))}

Run ==
    /\ pc = "exec"
    /\ cmds_ # <<>>
    /\ Head(cmds_).redir = <<>>
    /\ \A id \in LookedUp : GetClientByID(id) # {}
    /\ got' = IF prog = "noop"
                THEN got \cup {<<User(self), fdt[f][2]>> : f \in {g \in Input : fdt[g][1] = "r"}}
                ELSE got
    /\ fdt' = CloseAll(fdt, RunCloses)
    /\ client_table' = [i \in DOMAIN client_table |->
          [client_table[i] EXCEPT !.pipe_vector_ = IF i = cli THEN Counted(@) ELSE @,
                                  !.userpipe_vector_ = IF i \in Cleared THEN @ \ Used(i) ELSE @]]
    /\ cmds_' = Tail(cmds_)
    /\ status' = IF prog = "exit" THEN -1 ELSE 0
    /\ Writes(Heard(1) \cup Printed, Heard(2) \cup (Heard(1) \cap Printed),
              IF Tail(cmds_) = <<>> THEN "return" ELSE "exec")
    /\ in_fd' = {} /\ out_fd' = {} /\ taken' = {}
    /\ UNCHANGED <<id_table, afds, rfds, std, cli, peer, inbox, made>>

(* ClientExec prompts and returns.  The client that said exit is logged    *)
(* out, and everyone told.                                                 *)
Return ==
    /\ pc = "return"
    /\ status = 0
    /\ Writes({User(self)}, {}, "scan")
    /\ cli' = 0 /\ in_fd' = {} /\ out_fd' = {} /\ taken' = {}
    /\ UNCHANGED <<table, rfds, fdt, std, cmds_, status, peer, inbox, history>>

(* The server's own output leaves the client's socket.                     *)
(* Mutation: 1 and 2 stay open on it.                                      *)
StdStays == UNCHANGED std
RestoreStd == std' = Nobody

Exit ==
    /\ pc = "return"
    /\ status = -1
    /\ id_table' = [id_table EXCEPT ![self.id] = 0]
    /\ EraseClientVector(self.id)
    /\ fdt' = CloseAll(fdt, EraseCloses(self.id) \cup {self.fd})
    /\ Unmonitor(self.fd)
    /\ RestoreStd
    /\ peer' = [peer EXCEPT ![User(self)] = "left"]
    /\ Writes(Audience, {User(self)}, "scan")
    /\ cli' = 0 /\ status' = 0
    /\ UNCHANGED <<rfds, cmds_, in_fd, out_fd, taken, inbox, history>>

Next ==
    \/ \E c \in Conn : Connect(c) \/ Type(c) \/ HangUp(c)
    \/ Select \/ Accept \/ AcceptError \/ ScanDone \/ Receive \/ Logout
    \/ UserPipeOut \/ UserPipeOutError \/ UserPipeIn \/ UserPipeInError
    \/ CreatePipe \/ PipeError \/ Run \/ Return \/ Exit

Spec == Init /\ [][Next]_vars

-----------------------------------------------------------------------------
(* The monitored descriptors are the sockets of the users who are logged   *)
(* in, each once: nobody is overlooked by select, and no closed descriptor *)
(* makes it fail.                                                          *)
MonitoredExact ==
    /\ \A f \in afds : \E c \in Conn : fdt[f] = <<"sock", c>> /\ peer[c] \in {"here", "hungup"}
    /\ \A c \in Conn : peer[c] \in {"here", "hungup"} =>
          Cardinality({f \in afds : fdt[f] = <<"sock", c>>}) = 1

(* What Logout leaves behind breaks the agreement of the tables            *)
(* (LogoutRemovesClient).  The following holds as long as nobody was lost. *)
NobodyLost == \A c \in Conn : peer[c] # "lost"

(* Whoever is served is in the client table: GetClientByFd finds an entry  *)
(* for every descriptor that may become readable.                          *)
EveryoneKnown == NobodyLost => \A f \in afds : GetClientByFd(f) # {}

(* The ids in use are those of the client table, each of one client on a   *)
(* descriptor of its own.                                                  *)
IdsExact == NobodyLost =>
    /\ \A i, j \in DOMAIN client_table : i # j =>
          client_table[i].id # client_table[j].id /\ client_table[i].fd # client_table[j].fd
    /\ \A id \in Id : id_table[id] = 1 <=> GetClientByID(id) # {}
    /\ \A i \in DOMAIN client_table : client_table[i].fd \in afds

(* The tables agree with each other, and with what the server waits for.   *)
TablesAgree == MonitoredExact /\ EveryoneKnown /\ IdsExact

(* Between two lines every user pipe is intact, unused, registered with    *)
(* its sender, and addressed to a user who is still logged in.             *)
UserPipesIntact ==
    NobodyLost /\ pc \in {"select", "accept", "scan"} =>
        \A i \in DOMAIN client_table : \A u \in client_table[i].userpipe_vector_ :
            /\ ~u.is_used
            /\ u.source_id = client_table[i].id
            /\ id_table[u.target_id] = 1
            /\ \E p \in 1 .. Len(made) : fdt[u.in_fd] = <<"w", p>> /\ fdt[u.out_fd] = <<"r", p>>

(* Everything that is read was meant for its reader: a user pipe is read   *)
(* by the user it was addressed to, not by another who has the same id     *)
(* later; a numbered pipe by the user who made it.                         *)
ReachesAddressee == NobodyLost =>
    \A g \in got : g[1] = IF made[g[2]].to = Nobody THEN made[g[2]].from ELSE made[g[2]].to

(* A user pipe is there for its addressee and for nobody else.             *)
PipedToOne == UserPipesIntact /\ ReachesAddressee

(* Pipe descriptors leak only when a user leaves with pipes pending: every *)
(* open end belongs to a pipe in a table, or its maker has left.           *)
EndsOf(c) == UNION {{e.in_fd, e.out_fd} : e \in c.pipe_vector_ \cup c.userpipe_vector_}

LeakOnlyOnLeaving == NobodyLost =>
    \A f \in Fd : fdt[f][1] \in {"r", "w"} =>
        \/ \E i \in DOMAIN client_table : f \in EndsOf(client_table[i])
        \/ peer[made[fdt[f][2]].from] = "left"

(* A connection that ended with exit is hung up: no descriptor of the      *)
(* server is open on it, standard output included.                         *)
ExitHangsUp ==
    [][NobodyLost /\ Exit => \A f \in Fd : fdt'[f] # <<"sock", User(self)>> /\ std' # User(self)]_vars

(* The server ends only when pipe() has no two descriptors left, or when a *)
(* user has closed its connection and is still written to: nothing that is *)
(* written to those who stayed, to the one who says exit, or in place of   *)
(* those turned away can be the SIGPIPE that ends everyone's session.      *)
ServerSurvives ==
    [][pc' = "dead" =>
          \/ Cardinality(Free(fdt)) < 2
          \/ \E c \in Conn : {peer[c], peer'[c]} \cap {"hungup", "lost"} # {}]_vars

(* The branch commented "client logout": it removes the client that left   *)
(* from the table, and only that one.                                      *)
LogoutRemovesClient ==
    [][Logout => \A f \in Fd :
          GetClientByFd(f)' # {} <=> GetClientByFd(f) # {} /\ f \in afds']_vars
=============================================================================
