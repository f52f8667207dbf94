----------------------------- MODULE ClientShm -----------------------------
(***************************************************************************)
(* np_multi_proc: the client slots and the message buffer in shared        *)
(* memory, and broadcasting by SIGUSR1.  The server forks one process for  *)
(* each connection; the processes read and write the shared memory without *)
(* locks, so every step below is one access that others can come between.  *)
(*                                                                         *)
(* SIGUSR1 is pending or not: a second one before the first is handled is  *)
(* the same one.  A process that has not installed its handler yet is      *)
(* killed by it, and so is the server, which never installs one.  A new    *)
(* segment is filled with zeros, and kill(0, sig) signals the whole        *)
(* process group: the server and every client.                             *)
(***************************************************************************)
EXTENDS Integers, FiniteSets

CONSTANTS
    Conn,         \* the connections users make, each once; also names its process
    MaxClient,    \* MAX_CLIENT_SIZE
    Command,      \* what users do: "yell", "tell", "exit", "eof"
    SerialLogin,  \* no connection is made while another is logging in
    MaxSay        \* bound: how often each user yells or tells

ASSUME ConnAssumption == 0 \notin Conn       \* no process has the pid 0
ASSUME MaxClientAssumption == MaxClient \in Nat \ {0}
ASSUME CommandAssumption == Command \subseteq {"yell", "tell", "exit", "eof"}
ASSUME SerialLoginAssumption == SerialLogin \in BOOLEAN
ASSUME MaxSayAssumption == MaxSay \in Nat

VARIABLES
    server,       \* the accepting process is running
    shm_cli,      \* the client slots
    shm_msg,      \* the message buffer
    pc,           \* where each process is
    cur_id,       \* its id; -1 when no slot was free
    at,           \* the slot its loop is at, or the user it talks to
    sending,      \* the kind of message it is sending
    pending,      \* the processes for which a SIGUSR1 is pending
    screen,       \* the message each user has seen last
    said          \* how often each user has yelled or told

vars == <<server, shm_cli, shm_msg, pc, cur_id, at, sending, pending, screen, said>>

Id == 1 .. MaxClient
Nobody == 0      \* a pid of 0
Kind == {"none", "login", "yell", "tell", "logout"}
Msg == [kind : Kind, from : Conn \cup {Nobody}, n : 0 .. MaxSay, to : SUBSET Conn]
NoMsg == [kind |-> "none", from |-> Nobody, n |-> 0, to |-> {}]

(* Processes of users who are logged in: they have installed the handlers. *)
Serving(c) == pc[c] \in {"prompt", "look", "write", "kill", "killone", "clear", "ghost"}
Alive(c) == Serving(c) \/ pc[c] \in {"scan", "claim", "add", "handlers"}
Listed(c) == Serving(c) /\ cur_id[c] \in Id
               /\ shm_cli[cur_id[c]].valid = 1 /\ shm_cli[cur_id[c]].pid = c

TypeOK ==
    /\ server \in BOOLEAN
    /\ shm_cli \in [Id -> [valid : {0, 1}, id : Id \cup {0}, pid : Conn \cup {Nobody}]]
    /\ shm_msg \in Msg
    /\ pc \in [Conn -> {"away", "scan", "claim", "add", "handlers", "prompt", "look", "write",
                        "kill", "killone", "clear", "ghost", "gone", "killed"}]
    /\ cur_id \in [Conn -> Id \cup {-1, 0}]
    /\ at \in [Conn -> 0 .. MaxClient]
    /\ sending \in [Conn -> Kind]
    /\ pending \subseteq Conn
    /\ screen \in [Conn -> Msg]
    /\ said \in [Conn -> 0 .. MaxSay]

Init ==
    /\ server = TRUE
    /\ shm_cli = [i \in Id |-> [valid |-> 0, id |-> 0, pid |-> Nobody]]
    /\ shm_msg = NoMsg
    /\ pc = [c \in Conn |-> "away"]
    /\ cur_id = [c \in Conn |-> 0]
    /\ at = [c \in Conn |-> 0]
    /\ sending = [c \in Conn |-> "none"]
    /\ pending = {}
    /\ screen = [c \in Conn |-> NoMsg]
    /\ said = [c \in Conn |-> 0]

(* A process that is signalled handles it before it goes on: when that is  *)
(* depends on when it is scheduled next.                                   *)
At(c, l) == pc[c] = l /\ c \notin pending
Goto(c, l) == pc' = [pc EXCEPT ![c] = l]
LoggingIn == {c \in Conn : pc[c] \in {"scan", "claim", "add", "handlers"}}

-----------------------------------------------------------------------------
(* Logging in.                                                             *)

Accept(c) ==
    /\ server
    /\ pc[c] = "away"
    /\ SerialLogin => LoggingIn = {}
    /\ Goto(c, "scan")
    /\ at' = [at EXCEPT ![c] = 1]
    /\ UNCHANGED <<server, shm_cli, shm_msg, cur_id, sending, pending, screen, said>>

(* GetAvaliableIDFromSHM looks for a slot that is not valid and then makes *)
(* it valid: two steps.  Without a free slot the id is -1, AddClient does  *)
(* nothing, and the user is served all the same.                           *)
Scan(c) ==
    /\ At(c, "scan")
    /\ IF shm_cli[at[c]].valid = 0
         THEN Goto(c, "claim") /\ UNCHANGED <<at, cur_id>>
         ELSE IF at[c] < MaxClient
           THEN at' = [at EXCEPT ![c] = @ + 1] /\ UNCHANGED <<pc, cur_id>>
           ELSE Goto(c, "handlers") /\ cur_id' = [cur_id EXCEPT ![c] = -1] /\ UNCHANGED at
    /\ UNCHANGED <<server, shm_cli, shm_msg, sending, pending, screen, said>>

Claim(c) ==
    /\ At(c, "claim")
    /\ shm_cli' = [shm_cli EXCEPT ![at[c]].valid = 1]
    /\ cur_id' = [cur_id EXCEPT ![c] = at[c]]
    /\ Goto(c, "add")
    /\ at' = [at EXCEPT ![c] = 0]
    /\ UNCHANGED <<server, shm_msg, sending, pending, screen, said>>

(* The fields are written one by one; what comes between makes no          *)
(* difference that it does not make before AddClient or after it.          *)
AddClient(c) ==
    /\ At(c, "add")
    /\ shm_cli' = [shm_cli EXCEPT ![cur_id[c]] = [valid |-> 1, id |-> cur_id[c], pid |-> c]]
    /\ Goto(c, "handlers")
    /\ UNCHANGED <<server, shm_msg, cur_id, at, sending, pending, screen, said>>

(* ClientExec: the handlers, then the login message.                       *)
InstallHandlers(c) ==
    /\ At(c, "handlers")
    /\ Goto(c, "look")
    /\ sending' = [sending EXCEPT ![c] = "login"]
    /\ UNCHANGED <<server, shm_cli, shm_msg, cur_id, at, pending, screen, said>>

-----------------------------------------------------------------------------
(* Broadcast and BroadcastOne.                                             *)

GetClientByID(id) == {i \in Id : shm_cli[i].valid = 1 /\ shm_cli[i].id = id}

(* What follows a message: the prompt, or after "logout" clearing the slot.*)
(* Mutation of Done: the process exits without clearing it.                *)
DoneExits(c) == Goto(c, IF sending[c] = "logout" THEN "gone" ELSE "prompt")

Done(c) == Goto(c, IF sending[c] = "logout" THEN "clear" ELSE "prompt")

(* The sender looks itself up.  If it is not in the table, Broadcast       *)
(* returns; BroadcastOne dereferences NULL and the process dies.           *)
Look(c) ==
    /\ At(c, "look")
    /\ IF GetClientByID(cur_id[c]) # {}
         THEN Goto(c, "write")
         ELSE IF sending[c] = "tell" THEN Goto(c, "killed") ELSE Done(c)
    /\ UNCHANGED <<server, shm_cli, shm_msg, cur_id, at, sending, pending, screen, said>>

Addressees(c) ==
    IF sending[c] = "tell"
      THEN {d \in Conn : Listed(d) /\ cur_id[d] = at[c]}
      ELSE {d \in Conn : Listed(d)}

Write(c) ==
    /\ At(c, "write")
    /\ shm_msg' = [kind |-> sending[c], from |-> c, n |-> said[c], to |-> Addressees(c)]
    /\ IF sending[c] = "tell"
         THEN Goto(c, "killone") /\ UNCHANGED at
         ELSE Goto(c, "kill") /\ at' = [at EXCEPT ![c] = 1]
    /\ UNCHANGED <<server, shm_cli, cur_id, sending, pending, screen, said>>

(* The processes a signal to pid reaches.  The sender handles its own      *)
(* before kill returns; the others some time later.                        *)
Reached(pid) == {d \in Conn : Alive(d) /\ pid \in {d, Nobody}}

Signal(c, pid) ==
    /\ pending' = (pending \cup Reached(pid)) \ (Reached(pid) \cap {c})
    /\ screen' = IF c \in Reached(pid) THEN [screen EXCEPT ![c] = shm_msg] ELSE screen
    /\ server' = (server /\ pid # Nobody)

(* Mutation of Kill: the loop runs one slot too far.                       *)
KillOneMore(c) ==
    /\ At(c, "kill")
    /\ IF shm_cli[at[c]].valid = 1
         THEN Signal(c, shm_cli[at[c]].pid)
         ELSE UNCHANGED <<pending, screen, server>>
    /\ IF at[c] <= MaxClient
         THEN at' = [at EXCEPT ![c] = @ + 1] /\ UNCHANGED pc
         ELSE Done(c) /\ at' = [at EXCEPT ![c] = 0]
    /\ UNCHANGED <<shm_cli, shm_msg, cur_id, sending, said>>

(* Mutation of Kill: the loop ends at the first free slot.                 *)
KillUntilGap(c) ==
    /\ At(c, "kill")
    /\ IF shm_cli[at[c]].valid = 1
         THEN Signal(c, shm_cli[at[c]].pid)
         ELSE UNCHANGED <<pending, screen, server>>
    /\ IF at[c] < MaxClient /\ shm_cli[at[c]].valid = 1
         THEN at' = [at EXCEPT ![c] = @ + 1] /\ UNCHANGED pc
         ELSE Done(c) /\ at' = [at EXCEPT ![c] = 0]
    /\ UNCHANGED <<shm_cli, shm_msg, cur_id, sending, said>>

Kill(c) ==
    /\ At(c, "kill")
    /\ IF shm_cli[at[c]].valid = 1
         THEN Signal(c, shm_cli[at[c]].pid)
         ELSE UNCHANGED <<pending, screen, server>>
    /\ IF at[c] < MaxClient
         THEN at' = [at EXCEPT ![c] = @ + 1] /\ UNCHANGED pc
         ELSE Done(c) /\ at' = [at EXCEPT ![c] = 0]
    /\ UNCHANGED <<shm_cli, shm_msg, cur_id, sending, said>>

KillOne(c) ==
    /\ At(c, "killone")
    /\ Signal(c, shm_cli[at[c]].pid)
    /\ Done(c)
    /\ at' = [at EXCEPT ![c] = 0]
    /\ UNCHANGED <<shm_cli, shm_msg, cur_id, sending, said>>

(* SigHandler prints what is in the buffer by now.  Without a handler the  *)
(* process dies, and by SIGPIPE when its user has closed the connection;   *)
(* its slot stays as it is.                                                *)
Deliver(c) ==
    /\ c \in pending
    /\ Alive(c)
    /\ pending' = pending \ {c}
    /\ \/ Serving(c) /\ screen' = [screen EXCEPT ![c] = shm_msg] /\ UNCHANGED pc
       \/ ~Serving(c) /\ Goto(c, "killed") /\ UNCHANGED screen
       \/ pc[c] = "ghost" /\ Goto(c, "killed") /\ UNCHANGED screen
    /\ UNCHANGED <<server, shm_cli, shm_msg, cur_id, at, sending, said>>

-----------------------------------------------------------------------------
(* What users do at the prompt.                                            *)

Yell(c) ==
    /\ "yell" \in Command /\ At(c, "prompt") /\ said[c] < MaxSay
    /\ said' = [said EXCEPT ![c] = @ + 1]
    /\ sending' = [sending EXCEPT ![c] = "yell"]
    /\ Goto(c, "look")
    /\ UNCHANGED <<server, shm_cli, shm_msg, cur_id, at, pending, screen>>

Tell(c) ==
    /\ "tell" \in Command /\ At(c, "prompt") /\ said[c] < MaxSay
    /\ \E t \in Id :
          /\ shm_cli[t].valid # 0
          /\ at' = [at EXCEPT ![c] = t]
    /\ said' = [said EXCEPT ![c] = @ + 1]
    /\ sending' = [sending EXCEPT ![c] = "tell"]
    /\ Goto(c, "look")
    /\ UNCHANGED <<server, shm_cli, shm_msg, cur_id, pending, screen>>

Exit(c) ==
    /\ "exit" \in Command /\ At(c, "prompt")
    /\ sending' = [sending EXCEPT ![c] = "logout"]
    /\ Goto(c, "look")
    /\ UNCHANGED <<server, shm_cli, shm_msg, cur_id, at, pending, screen, said>>

(* End of input is not "exit": ClientExec returns 1, and the process goes  *)
(* round the accept loop of main on a socket it has closed, for ever.      *)
EndOfInput(c) ==
    /\ "eof" \in Command /\ At(c, "prompt")
    /\ Goto(c, "ghost")
    /\ UNCHANGED <<server, shm_cli, shm_msg, cur_id, at, sending, pending, screen, said>>

(* Mutation of Clear: the slot is wiped, not just marked free.             *)
ClearWipes(c) ==
    /\ At(c, "clear")
    /\ shm_cli' = [i \in Id |-> IF i = cur_id[c]
                                  THEN [valid |-> 0, id |-> 0, pid |-> Nobody] ELSE shm_cli[i]]
    /\ Goto(c, "gone")
    /\ UNCHANGED <<server, shm_msg, cur_id, at, sending, pending, screen, said>>

(* Mutation of Clear: the id is taken for the index.                       *)
ClearNext(c) ==
    /\ At(c, "clear")
    /\ shm_cli' = [i \in Id |-> IF i = cur_id[c] + 1 THEN [shm_cli[i] EXCEPT !.valid = 0]
                                                     ELSE shm_cli[i]]
    /\ Goto(c, "gone")
    /\ UNCHANGED <<server, shm_msg, cur_id, at, sending, pending, screen, said>>

(* With the id -1 the write goes to unused memory before the table.        *)
Clear(c) ==
    /\ At(c, "clear")
    /\ shm_cli' = [i \in Id |-> IF i = cur_id[c] THEN [shm_cli[i] EXCEPT !.valid = 0]
                                                 ELSE shm_cli[i]]
    /\ Goto(c, "gone")
    /\ UNCHANGED <<server, shm_msg, cur_id, at, sending, pending, screen, said>>

Login(c) == Accept(c) \/ Scan(c) \/ Claim(c) \/ AddClient(c) \/ InstallHandlers(c)
User(c) == Yell(c) \/ Tell(c) \/ Exit(c) \/ EndOfInput(c)
Send(c) == Look(c) \/ Write(c) \/ Kill(c) \/ KillOne(c) \/ Clear(c)

Next == \E c \in Conn : Login(c) \/ User(c) \/ Send(c) \/ Deliver(c)

Spec == Init /\ [][Next]_vars

(* The kernel schedules every process and delivers its signals; users owe  *)
(* nothing.                                                                *)
FairSpec ==
    /\ Spec
    /\ \A c \in Conn : WF_vars(Send(c)) /\ WF_vars(Deliver(c))

-----------------------------------------------------------------------------
(* The newest message arrives: unless it is overwritten, every user who    *)
(* was listed when it was written to the buffer sees it, or leaves.  One   *)
(* pending signal is enough, as it is handled after the write.             *)
LatestArrives ==
    \A d \in Conn :
        (d \in shm_msg.to /\ screen[d] # shm_msg)
            ~> (d \notin shm_msg.to \/ screen[d] = shm_msg \/ ~Listed(d))

(* Nobody is dropped from the table: a user who is being served is listed  *)
(* under an id nobody else has, until the slot is cleared on leaving.      *)
(* It takes logins that do not overlap.                                    *)
ServingListed ==
    \A c \in Conn : Serving(c) /\ cur_id[c] \in Id =>
        /\ Listed(c)
        /\ \A d \in Conn : Serving(d) /\ d # c => cur_id[d] # cur_id[c]

(* Slots are lost only to end of input and to processes killed while they  *)
(* log in: every slot in use is that of a process that has not exited.     *)
SlotsReturned ==
    \A i \in Id : shm_cli[i].valid = 1 =>
        \E c \in Conn : cur_id[c] = i /\ pc[c] \notin {"away", "scan", "claim", "gone"}

(* Signals reach those they are meant for, once every slot was used: no    *)
(* broadcast kills the server, and being told something signals nobody but *)
(* the user with that id, even if it leaves or another one takes its slot  *)
(* at that moment.  Until then the pid in a slot that is claimed and not   *)
(* yet filled in is 0, which stands for the whole process group.           *)
Used(i) == \E c \in Conn : cur_id[c] = i /\ (Serving(c) \/ pc[c] \in {"handlers", "gone"})

SignalsMeant ==
    [][(\A i \in Id : Used(i)) =>
          /\ server' = server
          /\ \A c \in Conn : KillOne(c) => pending' \ pending \subseteq {d \in Conn : cur_id[d] = at[c]}]_vars
=============================================================================
