------------------------------ MODULE Console ------------------------------
(***************************************************************************)
(* console.cgi of projects 3 and 4: one process that connects to the       *)
(* shells of several hosts, directly or through a SOCKS server, plays a    *)
(* script to each of them, a line for each prompt, and shows the browser   *)
(* what comes back.  The sessions share the process and its one thread.    *)
(*                                                                         *)
(* A shell is modelled by what the console needs of it: it prints a prompt *)
(* in one write, takes a line, prints its output and prompts again, and    *)
(* closes the connection at exit.  Its bytes arrive in pieces of any size. *)
(* The percent sign and the space are told apart from all other bytes.     *)
(***************************************************************************)
EXTENDS Integers, Sequences

CONSTANTS
    Host,        \* the hosts of the query string
    Script(_),   \* the lines of the test case of each host
    Output,      \* what commands print
    Size,        \* max_length: the cells of data_
    Endpoint,    \* endpoints a name resolves to
    MaxLine      \* bound: lines sent to one host

Byte == {"percent", "space", "other"}
Text == {"cmd", "exit", "empty"}
Cells == 1 .. Size

ASSUME ScriptAssumption == \A h \in Host : Script(h) \in Seq(Text)
ASSUME OutputAssumption == Output \subseteq Seq(Byte)
ASSUME SizeAssumption == Size \in Nat /\ Size >= 2 /\ Endpoint \in Nat \ {0} /\ MaxLine \in Nat

VARIABLES
    proxy,       \* the console of project 4
    missing,     \* hosts whose test case is not there
    running,     \* the process has not called exit
    stage,       \* how far the connection of each host is
    endpoint,    \* the endpoint that is tried
    granted,     \* hosts whose request the SOCKS server has granted
    shell,       \* what the shell of each host is doing
    wire,        \* what the shell has printed and the console has not read
    typed,       \* lines sent that the shell has not read
    spoken,      \* the shell's side of the dialogue
    data_,       \* the array that is read into
    line,        \* lines of the test case that were sent
    exit_,       \* the line sent last was exit
    screen,      \* what the browser shows
    split,       \* hosts whose prompt was read in two pieces
    percent      \* hosts that printed a percent sign that is no prompt

connection == <<stage, endpoint, granted>>
remote == <<shell, spoken, percent>>
session == <<data_, line, exit_, screen, split>>
vars == <<proxy, missing, running, connection, remote, wire, typed, session>>

Prompt == <<"percent", "space">>

TypeOK ==
    /\ proxy \in BOOLEAN /\ running \in BOOLEAN
    /\ missing \subseteq Host /\ granted \subseteq Host
    /\ split \subseteq Host /\ percent \subseteq Host /\ exit_ \subseteq Host
    /\ stage \in [Host -> {"resolve", "dst", "connect", "reply", "session", "done", "failed"}]
    /\ endpoint \in [Host -> 1 .. Endpoint]
    /\ shell \in [Host -> {"none", "prompt", "busy", "closed"}]
    /\ data_ \in [Host -> [Cells -> Byte \cup {"0"}]]
    /\ line \in [Host -> 0 .. MaxLine]
    /\ wire \in [Host -> Seq(Byte)] /\ typed \in [Host -> Seq(Text)]
    /\ spoken \in [Host -> Seq(Byte \cup Text)] /\ screen \in [Host -> Seq(Byte \cup Text)]

(* data_ is not initialised: it holds what was in the memory, no prompt.   *)
Init ==
    /\ proxy \in BOOLEAN /\ missing \in SUBSET Host
    /\ running = TRUE
    /\ stage = [h \in Host |-> "resolve"] /\ endpoint = [h \in Host |-> 1]
    /\ granted = {}
    /\ shell = [h \in Host |-> "none"]
    /\ wire = [h \in Host |-> <<>>] /\ typed = [h \in Host |-> <<>>]
    /\ spoken = [h \in Host |-> <<>>] /\ screen = [h \in Host |-> <<>>]
    /\ data_ = [h \in Host |-> [i \in Cells |-> "other"]]
    /\ line = [h \in Host |-> 0]
    /\ exit_ = {} /\ split = {} /\ percent = {}

-----------------------------------------------------------------------------
(* The shell of a host, and the SOCKS server before it.                    *)

Says(h, s) ==
    /\ wire' = [wire EXCEPT ![h] = @ \o s]
    /\ spoken' = [spoken EXCEPT ![h] = @ \o s]

Connected(h) == stage[h] = "session" /\ (proxy => h \in granted)

Greets(h) ==
    /\ shell[h] = "none" /\ Connected(h)
    /\ shell' = [shell EXCEPT ![h] = "prompt"]
    /\ Says(h, Prompt)
    /\ UNCHANGED <<proxy, missing, running, connection, typed, session, percent>>

TakesLine(h) ==
    /\ shell[h] = "prompt" /\ typed[h] # <<>>
    /\ shell' = [shell EXCEPT ![h] = IF Head(typed[h]) = "exit" THEN "closed" ELSE "busy"]
    /\ typed' = [typed EXCEPT ![h] = Tail(@)]
    /\ spoken' = [spoken EXCEPT ![h] = Append(@, Head(typed[h]))]
    /\ UNCHANGED <<proxy, missing, running, connection, wire, session, percent>>

Answers(h) ==
    /\ shell[h] = "busy"
    /\ \E o \in Output :
          /\ Says(h, o \o Prompt)
          /\ percent' = IF \E i \in DOMAIN o : o[i] = "percent" THEN percent \cup {h} ELSE percent
    /\ shell' = [shell EXCEPT ![h] = "prompt"]
    /\ UNCHANGED <<proxy, missing, running, connection, typed, session>>

-----------------------------------------------------------------------------
(* ShellServer: a connection for each host, every step a callback.         *)

Goto(h, s) == stage' = [stage EXCEPT ![h] = s]

Resolved(h, next) ==
    /\ stage[h] = "resolve" /\ (Goto(h, next) \/ Goto(h, "failed"))
    /\ UNCHANGED <<proxy, missing, running, endpoint, granted, remote, wire, typed, session>>

(* Project 3 resolves the names of the hosts.  Project 4 resolves that of  *)
(* the SOCKS server, once for each host, and then that of the host.        *)
ResolveHost(h) == running /\ ~ proxy /\ Resolved(h, "connect")

ResolveProxy(h) == running /\ proxy /\ Resolved(h, "dst")

HandleResolve(h) ==
    /\ running /\ stage[h] = "dst" /\ (Goto(h, "connect") \/ Goto(h, "failed"))
    /\ UNCHANGED <<proxy, missing, running, endpoint, granted, remote, wire, typed, session>>

(* The constructor of ShellSession: without the test case it calls exit,   *)
(* and that ends the process with all its sessions.                        *)
StartSession(h) ==
    /\ Goto(h, "session")
    /\ running' = (h \notin missing)

(* Mutation of HandleConnect: the list of endpoints ends one later.        *)
HandleConnectPast(h) ==
    /\ running /\ ~ proxy /\ stage[h] = "connect"
    /\ \/ StartSession(h) /\ UNCHANGED endpoint
       \/ /\ IF endpoint[h] <= Endpoint
               THEN endpoint' = [endpoint EXCEPT ![h] = @ + 1] /\ UNCHANGED stage
               ELSE Goto(h, "failed") /\ UNCHANGED endpoint
          /\ UNCHANGED running
    /\ UNCHANGED <<proxy, missing, granted, remote, wire, typed, session>>

(* Project 3 tries the endpoints one after the other.                      *)
HandleConnect(h) ==
    /\ running /\ ~ proxy /\ stage[h] = "connect"
    /\ \/ StartSession(h) /\ UNCHANGED endpoint
       \/ /\ IF endpoint[h] < Endpoint
               THEN endpoint' = [endpoint EXCEPT ![h] = @ + 1] /\ UNCHANGED stage
               ELSE Goto(h, "failed") /\ UNCHANGED endpoint
          /\ UNCHANGED running
    /\ UNCHANGED <<proxy, missing, granted, remote, wire, typed, session>>

(* Project 4 has only the first endpoint, and sends its request there: at  *)
(* once, before another host can write its own into socks_message.         *)
SendRequest(h) ==
    /\ running /\ proxy /\ stage[h] = "connect" /\ (Goto(h, "reply") \/ Goto(h, "failed"))
    /\ UNCHANGED <<proxy, missing, running, endpoint, granted, remote, wire, typed, session>>

(* A reply is read and not looked at: a rejection starts a session too.    *)
(* Without a reply the connection is closed.                               *)
HandleReply(h) ==
    /\ running /\ stage[h] = "reply"
    /\ \/ StartSession(h) /\ granted' \in {granted, granted \cup {h}}
       \/ Goto(h, "failed") /\ UNCHANGED <<running, granted>>
    /\ UNCHANGED <<proxy, missing, endpoint, remote, wire, typed, session>>

-----------------------------------------------------------------------------
(* ShellSession.                                                           *)

(* The next line of the test case; past its end getline leaves the string  *)
(* empty.                                                                  *)
NextLine(h) == IF line[h] < Len(Script(h)) THEN Script(h)[line[h] + 1] ELSE "empty"

(* Mutation of Contains: the first byte is not looked at.                  *)
ContainsLater(array) ==
    \E i \in Cells : 1 < i /\ i < Size /\ array[i] = "percent" /\ array[i + 1] = "space"

Contains(array) ==
    \E i \in Cells : i < Size /\ array[i] = "percent" /\ array[i + 1] = "space"

(* What a piece of n bytes makes of the array: the rest of it is what      *)
(* earlier pieces left there.                                              *)
Filled(h, n) == [i \in Cells |-> IF i <= n THEN wire[h][i] ELSE data_[h][i]]

Piece(h) == 1 .. IF Len(wire[h]) < Size THEN Len(wire[h]) ELSE Size
Splits(h, n) == n < Len(wire[h]) /\ wire[h][n] = "percent" /\ wire[h][n + 1] = "space"

(* Mutation of Zeroed: the array keeps the prompt that was answered.       *)
NotZeroed(h, n) == Filled(h, n)

Zeroed(h, n) == [i \in Cells |-> "0"]

(* do_read: what has come is shown, and if the array contains a prompt,    *)
(* do_send_cmd sends a line and shows it, and the array is zeroed.         *)
Read(h) ==
    /\ running /\ stage[h] = "session" /\ line[h] < MaxLine
    /\ \E n \in Piece(h) :
          /\ wire' = [wire EXCEPT ![h] = SubSeq(@, n + 1, Len(@))]
          /\ split' = IF Splits(h, n) THEN split \cup {h} ELSE split
          /\ LET shown == screen[h] \o SubSeq(wire[h], 1, n) IN
               IF Contains(Filled(h, n))
                 THEN /\ data_' = [data_ EXCEPT ![h] = Zeroed(h, n)]
                      /\ line' = [line EXCEPT ![h] = @ + 1]
                      /\ typed' = [typed EXCEPT ![h] = Append(@, NextLine(h))]
                      /\ exit_' = IF NextLine(h) = "exit" THEN exit_ \cup {h} ELSE exit_ \ {h}
                      /\ screen' = [screen EXCEPT ![h] =
                                      IF h \in exit_ THEN shown ELSE Append(shown, NextLine(h))]
                 ELSE /\ data_' = [data_ EXCEPT ![h] = Filled(h, n)]
                      /\ screen' = [screen EXCEPT ![h] = shown]
                      /\ UNCHANGED <<line, typed, exit_>>
    /\ UNCHANGED <<proxy, missing, running, connection, remote>>

(* Mutation of ReadEof: at end of file it reads again, as after an error.  *)
ReadEofAgain(h) ==
    /\ running /\ stage[h] = "session" /\ wire[h] = <<>> /\ shell[h] = "closed"
    /\ UNCHANGED vars

ReadEof(h) ==
    /\ running /\ stage[h] = "session" /\ wire[h] = <<>> /\ shell[h] = "closed"
    /\ Goto(h, "done")
    /\ UNCHANGED <<proxy, missing, running, endpoint, granted, remote, wire, typed, session>>

-----------------------------------------------------------------------------
Remote(h) == Greets(h) \/ TakesLine(h) \/ Answers(h)
Connecting(h) ==
    \/ ResolveHost(h) \/ HandleConnect(h)
    \/ ResolveProxy(h) \/ HandleResolve(h) \/ SendRequest(h) \/ HandleReply(h)

Callback(h) == Connecting(h) \/ Read(h) \/ ReadEof(h)

Next == \E h \in Host : Remote(h) \/ Callback(h)

Spec == Init /\ [][Next]_vars

(* The shells run, and the io_service calls back for every connection.     *)
FairSpec == Spec /\ \A h \in Host : WF_vars(Remote(h)) /\ WF_vars(Callback(h))

-----------------------------------------------------------------------------
(* What the browser shows of a session is the dialogue as it took place:   *)
(* each line after the prompt it was sent for and before its output.  It   *)
(* takes output without a percent sign, as one that an earlier piece left  *)
(* in the array before a space counts as a prompt, and prompts that arrive *)
(* whole.                                                                  *)
IsPrefixOf(s, t) == Len(s) <= Len(t) /\ SubSeq(t, 1, Len(s)) = s

Transcript ==
    \A h \in Host \ (split \cup percent) : IsPrefixOf(screen[h], spoken[h] \o typed[h])

(* A session and its shell wait for each other only if a prompt was read   *)
(* in two pieces.                                                          *)
Waiting(h) ==
    /\ running /\ stage[h] = "session" /\ wire[h] = <<>>
    /\ shell[h] = "prompt" /\ typed[h] = <<>>

WaitsOnlyUnprompted == \A h \in Host : Waiting(h) => h \in split

(* A test case is played to its end: once connected the session finishes,  *)
(* whatever the other sessions do, unless one of them has no test case.    *)
ScriptFinishes ==
    \A h \in Host :
        Connected(h) ~> (stage[h] = "done" \/ h \in split \/ ~ running)
=============================================================================
