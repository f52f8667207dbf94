---------------------------- MODULE SocksServer ----------------------------
(***************************************************************************)
(* socks_server: one connection.  The server forks; the parent closes its  *)
(* copy of the socket and the child serves it: SocksSession reads requests *)
(* and answers them by socks.conf until one is granted, then ConnectMode   *)
(* or BindMode relays between the client and the destination, one array    *)
(* and one pending operation for each direction.                           *)
(*                                                                         *)
(* A request is the cells VN, CD and address; the port is left out, and a  *)
(* rule is a command with the addresses its four octets match.  Direction  *)
(* 1 is from the client (end 1) to the destination (end 2), direction 2 is *)
(* back.  The two ends read what is sent to them; how much one async_send  *)
(* takes is up to the kernel.                                              *)
(***************************************************************************)
EXTENDS Integers, Sequences

CONSTANTS
    Request,     \* what clients ask for: <<VN, CD, address>>
    Conf,        \* the contents of socks.conf: rules, and whether a newline ends them
    Size,        \* max_length, bind_max_length: cells in one array
    Word,        \* size_t counts modulo Word
    MaxAsk,      \* bound: requests of one client
    MaxData,     \* bound: cells one end sends
    MaxGot       \* bound: cells one end is sent when a send is repeated for ever

ASSUME RequestAssumption == Request \subseteq Seq(Nat) /\ \A r \in Request : Len(r) = 3
ASSUME ConfAssumption ==
    Conf \subseteq [rules : Seq([mode : Nat, addrs : SUBSET Nat]), newline : BOOLEAN]
ASSUME SizeAssumption == Size \in Nat \ {0} /\ Word \in Nat /\ Word > Size
ASSUME BoundAssumption == MaxAsk \in Nat /\ MaxData \in Nat /\ MaxGot \in Nat

VARIABLES
    conf,        \* socks.conf
    parent,      \* the accepting process' copy of the client's socket
    phase,       \* how far the child is
    message,     \* the array requests are read into
    asks,        \* how many requests the client has sent
    asked,       \* the last of them
    client,      \* what the client knows of its request
    split,       \* a request arrived in pieces
    wire,        \* what each end has sent and the child has not read
    sent,        \* all data each end has sent
    fin,         \* the ends that have finished sending
    rst,         \* the ends that have reset their connection
    st,          \* the operation pending in each direction
    data,        \* in_data and out_data
    len,         \* how much of the array is to be sent
    got,         \* what was sent on in each direction
    shut,        \* the directions that were shut down
    short        \* the directions in which a send took less than all

asking == <<message, asks, asked, client, split>>
relay == <<st, data, len, got, shut, short>>
ends == <<wire, sent, fin, rst>>
vars == <<conf, parent, phase, asking, relay, ends>>

Dir == {1, 2}
Sink(d) == 3 - d
Connect == 1
Bind == 2
Cells == 1 .. Size
Phase == {"none", "info", "resolve", "connect", "reply", "first", "accept", "second",
          "relay", "over"}

TypeOK ==
    /\ conf \in Conf
    /\ parent \in {"none", "held", "closed"}
    /\ phase \in Phase
    /\ message \in [1 .. 3 -> Nat]
    /\ asks \in 0 .. MaxAsk /\ asked \in Request \cup {<<>>}
    /\ client \in {"idle", "waiting", "rejected", "promised", "granted"}
    /\ split \in BOOLEAN
    /\ wire \in [Dir -> Seq(Nat)] /\ sent \in [Dir -> Seq(Nat)] /\ got \in [Dir -> Seq(Nat)]
    /\ fin \subseteq Dir /\ rst \subseteq Dir /\ shut \subseteq Dir /\ short \subseteq Dir
    /\ st \in [Dir -> {"off", "reading", "writing", "stopped"}]
    /\ data \in [Dir -> [Cells -> Nat]]
    /\ len \in [Dir -> 0 .. Word - 1]

Init ==
    /\ conf \in Conf
    /\ parent = "none" /\ phase = "none"
    /\ message = [i \in 1 .. 3 |-> 0]
    /\ asks = 0 /\ asked = <<>> /\ client = "idle" /\ split = FALSE
    /\ wire = [d \in Dir |-> <<>>] /\ sent = [d \in Dir |-> <<>>]
    /\ fin = {} /\ rst = {}
    /\ st = [d \in Dir |-> "off"]
    /\ data = [d \in Dir |-> [i \in Cells |-> 0]]
    /\ len = [d \in Dir |-> 0]
    /\ got = [d \in Dir |-> <<>>]
    /\ shut = {} /\ short = {}

-----------------------------------------------------------------------------
(* SocksServer: both processes have the socket after fork.  The child also *)
(* goes round do_accept on the acceptor it has closed, for ever.           *)

Fork ==
    /\ phase = "none"
    /\ phase' = "info" /\ parent' = "held"
    /\ UNCHANGED <<conf, asking, relay, ends>>

ParentCloses ==
    /\ parent = "held"
    /\ parent' = "closed"
    /\ UNCHANGED <<conf, phase, asking, relay, ends>>

-----------------------------------------------------------------------------
(* The two ends.  The client waits for the answer to a request before the  *)
(* next one and before its data.                                           *)

Talking(e) == IF e = 1 THEN client = "granted" ELSE phase \in {"reply", "second", "relay"}

Ask ==
    /\ client \in {"idle", "rejected"} /\ asks < MaxAsk
    /\ 1 \notin fin \cup rst /\ phase # "over"
    /\ \E r \in Request :
          /\ asked' = r
          /\ wire' = [wire EXCEPT ![1] = @ \o r]
    /\ asks' = asks + 1
    /\ client' = "waiting"
    /\ UNCHANGED <<conf, parent, phase, message, split, relay, sent, fin, rst>>

Cell(e, n) == 10 * e + n     \* the n-th cell of data of an end

Send(e) ==
    /\ Talking(e) /\ e \notin fin \cup rst /\ Len(sent[e]) < MaxData
    /\ LET c == Cell(e, Len(sent[e]) + 1) IN
          /\ wire' = [wire EXCEPT ![e] = Append(@, c)]
          /\ sent' = [sent EXCEPT ![e] = Append(@, c)]
    /\ UNCHANGED <<conf, parent, phase, asking, relay, fin, rst>>

Connected(e) == e = 1 \/ phase \in {"reply", "second", "relay"}

Finish(e) ==
    /\ Connected(e) /\ phase # "over" /\ e \notin fin \cup rst
    /\ fin' = fin \cup {e}
    /\ UNCHANGED <<conf, parent, phase, asking, relay, wire, sent, rst>>

Reset(e) ==
    /\ Connected(e) /\ phase # "over" /\ e \notin rst
    /\ rst' = rst \cup {e}
    /\ UNCHANGED <<conf, parent, phase, asking, relay, wire, sent, fin>>

-----------------------------------------------------------------------------
(* SocksSession: read_info and send_reject.                                *)

(* Rules that are compared: fscanf meets the end of the file in the last   *)
(* line when no newline ends it, and the loop is left before it is used.   *)
(* The word before the mode is not looked at.                              *)
Compared(f) == 1 .. (Len(f.rules) - IF f.newline THEN 0 ELSE 1)

Matches(rule, m) == m[2] = rule.mode /\ m[3] \in rule.addrs

(* Mutation of Granted: whether it is a SOCKS 4 request is only printed.   *)
GrantedAnyVersion(f, m) == \E i \in Compared(f) : Matches(f.rules[i], m)

(* Mutation of Granted: only the first rule is looked at.                  *)
GrantedFirst(f, m) == m[1] = 4 /\ 1 \in Compared(f) /\ Matches(f.rules[1], m)

Granted(f, m) == m[1] = 4 /\ \E i \in Compared(f) : Matches(f.rules[i], m)

(* What n cells make of the array: the rest keeps what an earlier request  *)
(* left there, and what comes after the third is not looked at.            *)
Overwrite(n) == [i \in 1 .. 3 |-> IF i <= n THEN wire[1][i] ELSE message[i]]

(* Mutation of ReadInfo: a rejection is printed and not sent.              *)
ReadInfoSilent ==
    /\ phase = "info" /\ 1 \notin rst
    /\ \E n \in 1 .. Len(wire[1]) :
          /\ message' = Overwrite(n)
          /\ wire' = [wire EXCEPT ![1] = SubSeq(@, n + 1, Len(@))]
          /\ split' = (split \/ n # 3)
    /\ phase' = IF ~ Granted(conf, message') THEN phase
                ELSE IF message'[2] = Connect THEN "resolve" ELSE "first"
    /\ UNCHANGED <<conf, parent, asks, asked, client, relay, sent, fin, rst>>

ReadInfo ==
    /\ phase = "info" /\ 1 \notin rst
    /\ \E n \in 1 .. Len(wire[1]) :
          /\ message' = Overwrite(n)
          /\ wire' = [wire EXCEPT ![1] = SubSeq(@, n + 1, Len(@))]
          /\ split' = (split \/ n # 3)
    /\ IF Granted(conf, message')
         THEN phase' = (IF message'[2] = Connect THEN "resolve" ELSE "first") /\ UNCHANGED client
         ELSE client' = "rejected" /\ UNCHANGED phase
    /\ UNCHANGED <<conf, parent, asks, asked, relay, sent, fin, rst>>

(* At end of input, or an error, nobody keeps the session.  After a reset  *)
(* a request that was read still ends the child: remote_endpoint throws.   *)
InfoEnds ==
    /\ phase = "info"
    /\ 1 \in rst \/ (wire[1] = <<>> /\ 1 \in fin)
    /\ phase' = "over"
    /\ UNCHANGED <<conf, parent, asking, relay, ends>>

-----------------------------------------------------------------------------
(* ConnectMode: a name is resolved, always the same one, and then the      *)
(* address connected to.  On failure the session ends without a reply.     *)

DoConnect ==
    /\ \/ phase = "resolve" /\ phase' \in {"connect", "over"}
       \/ phase = "connect" /\ phase' \in {"reply", "over"}
    /\ UNCHANGED <<conf, parent, asking, relay, ends>>

(* BindMode: a reply with the port, a connection from anywhere, a second   *)
(* reply.  Nothing is read from the client in between.                     *)
DoAccept ==
    /\ phase = "accept"
    /\ phase' = "second"
    /\ UNCHANGED <<conf, parent, asking, relay, ends>>

Reply ==
    /\ phase \in {"reply", "first", "second"}
    /\ IF 1 \in rst
         THEN phase' = "over" /\ UNCHANGED <<client, st>>
         ELSE IF phase = "first"
           THEN phase' = "accept" /\ client' = "promised" /\ UNCHANGED st
           ELSE /\ phase' = "relay" /\ client' = "granted"
                /\ st' = [d \in Dir |-> "reading"]
    /\ UNCHANGED <<conf, parent, message, asks, asked, split, data, len, got, shut, short, ends>>

-----------------------------------------------------------------------------
(* do_read and do_write.                                                   *)

Min2(m, n) == IF m <= n THEN m ELSE n

Read(d) ==
    /\ phase = "relay" /\ st[d] = "reading" /\ wire[d] # <<>>
    /\ LET n == Min2(Size, Len(wire[d])) IN
          /\ data' = [data EXCEPT ![d] = [i \in Cells |-> IF i <= n THEN wire[d][i] ELSE @[i]]]
          /\ len' = [len EXCEPT ![d] = n]
          /\ wire' = [wire EXCEPT ![d] = SubSeq(@, n + 1, Len(@))]
    /\ st' = [st EXCEPT ![d] = "writing"]
    /\ UNCHANGED <<conf, parent, phase, asking, got, shut, short, sent, fin, rst>>

(* A direction in which nothing is pending; with the second of them the    *)
(* last reference to the object, and to both sockets, is gone.             *)
Stop(d) ==
    /\ st' = [st EXCEPT ![d] = "stopped"]
    /\ phase' = IF st[Sink(d)] = "stopped" THEN "over" ELSE phase

(* Mutation of ReadEnds: a direction that ends is not shut down.           *)
ReadEndsOpen(d) ==
    /\ phase = "relay" /\ st[d] = "reading"
    /\ wire[d] = <<>> /\ d \in fin \cup rst
    /\ Stop(d)
    /\ UNCHANGED <<conf, parent, asking, data, len, got, shut, short, ends>>

(* Mutation of ReadEnds: the end of one direction ends the other.          *)
ReadEndsBoth(d) ==
    /\ phase = "relay" /\ st[d] = "reading"
    /\ wire[d] = <<>> /\ d \in fin \cup rst
    /\ phase' = "over" /\ st' = [e \in Dir |-> "stopped"]
    /\ UNCHANGED <<conf, parent, asking, data, len, got, shut, short, ends>>

(* At end of file BindMode shuts the other socket down for sending;        *)
(* ConnectMode sends no bytes, which tells the other side nothing.         *)
ReadEnds(d) ==
    /\ phase = "relay" /\ st[d] = "reading"
    /\ \/ /\ wire[d] = <<>> /\ d \in fin
          /\ shut' = IF message[2] = Bind THEN shut \cup {d} ELSE shut
       \/ wire[d] = <<>> /\ d \in rst /\ UNCHANGED shut
    /\ Stop(d)
    /\ UNCHANGED <<conf, parent, asking, data, len, got, short, ends>>

(* What an array holds for a length: buffer never makes it longer than it  *)
(* is.                                                                     *)
Sendable(d) == Min2(len[d], Size)

(* Mutation of Resend: the length is signed.                               *)
ResendSigned(d, n) == IF message[2] = Bind /\ n # len[d] THEN n - len[d] ELSE 0

(* After a short send ConnectMode reads on; BindMode sends again from the  *)
(* start of the array, and its length is below zero, that is huge.         *)
Resend(d, n) == IF message[2] = Bind /\ n # len[d] THEN (n - len[d]) % Word ELSE 0

Write(d) ==
    /\ phase = "relay" /\ st[d] = "writing" /\ Sink(d) \notin rst
    /\ \E n \in 1 .. Sendable(d) :
          /\ Len(got[d]) + n <= MaxGot
          /\ got' = [got EXCEPT ![d] = @ \o [i \in 1 .. n |-> data[d][i]]]
          /\ short' = IF n # len[d] THEN short \cup {d} ELSE short
          /\ len' = [len EXCEPT ![d] = Resend(d, n)]
    /\ st' = [st EXCEPT ![d] = IF len'[d] = 0 THEN "reading" ELSE "writing"]
    /\ UNCHANGED <<conf, parent, phase, asking, data, shut, ends>>

WriteFails(d) ==
    /\ phase = "relay" /\ st[d] = "writing" /\ Sink(d) \in rst
    /\ Stop(d)
    /\ UNCHANGED <<conf, parent, asking, data, len, got, shut, short, ends>>

-----------------------------------------------------------------------------
Accepting == Fork \/ ParentCloses
Session == ReadInfo \/ InfoEnds \/ DoConnect \/ Reply
Direction(d) == Read(d) \/ ReadEnds(d) \/ Write(d) \/ WriteFails(d)
End(e) == Send(e) \/ Finish(e) \/ Reset(e)

Next ==
    \/ Accepting \/ Session \/ DoAccept \/ Ask
    \/ \E d \in Dir : Direction(d) \/ End(d)

Spec == Init /\ [][Next]_vars

(* The two processes are scheduled, names and connections are resolved or  *)
(* fail, and a socket takes what is sent sooner or later; neither end owes *)
(* anything, and nobody need connect to a port that was bound.             *)
FairSpec ==
    /\ Spec
    /\ WF_vars(Fork) /\ WF_vars(ParentCloses) /\ WF_vars(Session)
    /\ \A d \in Dir : WF_vars(Direction(d))

-----------------------------------------------------------------------------
Permitted(r) == r[1] = 4 /\ \E i \in DOMAIN conf.rules : Matches(conf.rules[i], r)
OnlyLast(r) == ~ conf.newline /\ \A i \in Compared(conf) : ~ Matches(conf.rules[i], r)

(* A client gets what it asked for: as long as requests arrive in one      *)
(* piece, the child serves the request sent last and never one left in the *)
(* array by an earlier rejection, and it rejects none that socks.conf      *)
(* permits, unless by a last rule that no newline ends.                    *)
AnswersAsked ==
    ~ split =>
        /\ phase \notin {"none", "info", "over"} => message = asked /\ Permitted(asked)
        /\ client = "rejected" /\ Permitted(asked) => OnlyLast(asked)

(* Each direction is a channel: the sink gets what the source sent in      *)
(* order, and its end only after all of it.  A connection that is reset or *)
(* refused may end early; what a send that took less than all, or a        *)
(* request in pieces, does to the data is not a channel's.                 *)
Over(d) == phase = "over" /\ (d = 2 => parent = "closed")

Forward == INSTANCE Channel WITH
    sent <- sent[1], done <- 1 \in fin, got <- got[1], ended <- 1 \in shut \/ Over(1),
    torn <- rst # {} \/ (phase = "over" /\ client # "granted"),
    spoilt <- split \/ 1 \in short

Backward == INSTANCE Channel WITH
    sent <- sent[2], done <- 2 \in fin, got <- got[2], ended <- 2 \in shut \/ Over(2),
    torn <- rst # {} \/ (phase = "over" /\ client # "granted"),
    spoilt <- 2 \in short

ImplementsChannel == Forward!Spec /\ Backward!Spec

(* Every request is answered: the client gets a reply or is hung up on,    *)
(* also after a rejection and when its request arrived in pieces.          *)
Closed == phase = "over" /\ parent = "closed"

Answered == client = "waiting" ~> (client # "waiting" \/ Closed)

(* The end of what one end sends reaches the other.  In BindMode by        *)
(* itself; in ConnectMode only when the other end finishes too, as the end *)
(* of one direction is not passed on.  A short send in BindMode may go on  *)
(* for ever.                                                               *)
Left(e) == e \in fin \cup rst

EndReaches ==
    /\ (phase = "relay" /\ message[2] = Bind /\ 1 \in fin)
          ~> (1 \in shut \/ rst # {} \/ 1 \in short)
    /\ (phase = "relay" /\ message[2] = Bind /\ 2 \in fin)
          ~> (2 \in shut \/ rst # {} \/ 2 \in short)
    /\ (phase = "relay" /\ Left(1) /\ Left(2))
          ~> (Closed \/ (message[2] = Bind /\ short # {}))

(* What a client waits for comes: the answer, and the end of the data.     *)
Completes == Answered /\ EndReaches
=============================================================================
