---------------------------- MODULE HttpServer ----------------------------
(***************************************************************************)
(* http_server: the sessions of one io_service parse requests in pieces,   *)
(* as they arrive, with one parser state for all of them; a request is     *)
(* answered with a page or by a CGI program that is forked.                *)
(*                                                                         *)
(* A request is taken in units that do not cross the states of the parser  *)
(* a request in good order goes through: "word" (letters), "space",        *)
(* "path" (it begins with a slash), "version" (HTTP/1.1 and its newline),  *)
(* "colon" (with the space behind it) and "newline".  A piece of several   *)
(* units is several reads of one with nothing between them.                *)
(*                                                                         *)
(* When a program cannot be executed the child goes on as another server   *)
(* over the same epoll descriptor, sockets and pending reads: what arrives *)
(* is taken by one of them.                                                *)
(***************************************************************************)
EXTENDS Integers, Sequences, FiniteSets

CONSTANTS
    Conn,        \* the connections browsers make, with one request each
    Want,        \* what they ask for: "page", "cgi", "absent" (a program that is not there)
    Server       \* the server, 1, and bound: the children that may go on as servers

ASSUME WantAssumption == Want \subseteq {"page", "cgi", "absent"}
ASSUME ServerAssumption == 1 \in Server

Nobody == 0

VARIABLES
    want,        \* what each browser asks for
    wire,        \* the units of its request that were not read
    left,        \* browsers that have reset their connection
    up,          \* the servers that are running
    state_,      \* the parser state of each
    session,     \* their sessions
    cgi,         \* the program that was forked for each connection
    inherited,   \* the programs that have a copy of each connection
    stdout,      \* the connection that is standard output of each further server
    reply,       \* what each browser has received
    shut,        \* connections that were shut down
    mixed        \* requests while another session used the parser

browser == <<want, wire, left>>
programs == <<cgi, inherited, stdout>>
vars == <<browser, up, state_, session, programs, reply, shut, mixed>>

Unit == {"word", "space", "path", "version", "colon", "newline"}
State == {"method_start", "method", "uri", "http_version", "header_line_start",
          "header_lws", "header_name", "header_value", "expecting_newline_3"}

(* A page goes out as a success or an error: reply.status is never set.    *)
Page == {<<"200", "page">>, <<"500", "page">>}

(* The request line, one header, and the empty line.                       *)
Request == <<"word", "space", "path", "space", "version",
             "word", "colon", "word", "newline", "newline">>

(* Of a request only its path matters, and whether it has headers.         *)
Parsed == [raw_uri : Seq({"word", "path", "colon"}), headers : BOOLEAN]
Empty == [raw_uri |-> <<>>, headers |-> FALSE]
None == [st |-> "none", req |-> Empty]

TypeOK ==
    /\ want \in [Conn -> Want]
    /\ wire \in [Conn -> Seq(Unit)]
    /\ left \subseteq Conn /\ shut \subseteq Conn /\ mixed \subseteq Conn /\ up \subseteq Server
    /\ state_ \in [Server -> State]
    /\ session \in [Server -> [Conn ->
                      [st : {"none", "reading", "writing", "freed"}, req : Parsed]]]
    /\ cgi \in [Conn -> {"none", "running", "ended"}]
    /\ inherited \in [Conn -> SUBSET Conn]
    /\ stdout \in [Server -> Conn \cup {Nobody}]
    /\ reply \in [Conn -> Seq({"ok", "output", "200", "500", "page"})]

Init ==
    /\ want \in [Conn -> Want]
    /\ wire = [c \in Conn |-> Request]
    /\ left = {} /\ up = {1}
    /\ state_ = [p \in Server |-> "method_start"]
    /\ session = [p \in Server |-> [c \in Conn |-> None]]
    /\ cgi = [c \in Conn |-> "none"]
    /\ inherited = [c \in Conn |-> {}]
    /\ stdout = [p \in Server |-> Nobody]
    /\ reply = [c \in Conn |-> <<>>]
    /\ shut = {} /\ mixed = {}

Reading(p) == {c \in Conn : session[p][c].st = "reading"}
Held(p) == {c \in Conn : session[p][c].st \in {"reading", "writing"}}
Accepted(c) == \E p \in Server : session[p][c].st # "none"

-----------------------------------------------------------------------------
(* The parser.                                                             *)

(* The state a unit leads to; "bad" and "good" are verdicts, after which   *)
(* the state stays as it is.                                               *)
Consume(s, u, headers) ==
    CASE s = "method_start" /\ u = "word" -> "method"
      [] s = "method" /\ u = "word" -> "method"
      [] s = "method" /\ u = "space" -> "uri"
      [] s = "uri" /\ u \in {"word", "path"} -> "uri"
      [] s = "uri" /\ u \in {"space", "colon"} -> "http_version"
      [] s = "http_version" /\ u = "version" -> "header_line_start"
      [] s = "header_line_start" /\ u = "newline" -> "good"
      [] s = "header_line_start" /\ u = "word" -> "header_name"
      [] s = "header_line_start" /\ u = "space" /\ headers -> "header_lws"
      [] s = "header_lws" /\ u = "space" -> "header_lws"
      [] s = "header_lws" /\ u \in {"word", "path", "colon"} -> "header_value"
      [] s = "header_name" /\ u = "word" -> "header_name"
      [] s = "header_name" /\ u = "colon" -> "header_value"
      [] s = "header_value" /\ u \notin {"version", "newline"} -> "header_value"
      [] s \in {"header_lws", "header_value"} /\ u \in {"version", "newline"} ->
            "header_line_start"
      [] OTHER -> "bad"

(* Where the parser is after a verdict: a unit that is bad in its middle   *)
(* has gone part of the way.                                               *)
Halted(s, u) ==
    CASE s = "header_line_start" /\ u = "newline" -> "expecting_newline_3"
      [] s = "method_start" /\ u = "version" -> "method"
      [] s = "header_line_start" /\ u = "version" -> "header_name"
      [] OTHER -> s

(* req.headers.back() is used, and there may be no header.                 *)
UsesLastHeader(s, u) ==
    \/ s = "header_value"
    \/ s = "header_name" /\ u \in {"word", "version"}
    \/ s = "header_lws" /\ u \in {"word", "path", "colon", "version"}

(* Mutation of Store: the space that ends the uri is stored too.           *)
StoreAll(req, s, u) ==
    IF s = "uri" THEN [req EXCEPT !.raw_uri = Append(@, u)]
      ELSE IF s = "header_line_start" /\ u \in {"word", "version"}
        THEN [req EXCEPT !.headers = TRUE] ELSE req

(* Mutation of Store: the header is not pushed back.                       *)
StoreNoHeader(req, s, u) ==
    IF s = "uri" /\ u \in {"word", "path", "colon"}
      THEN [req EXCEPT !.raw_uri = Append(@, u)] ELSE req

(* What the request gets of a unit; the method is left out.                *)
Store(req, s, u) ==
    IF s = "uri" /\ u \in {"word", "path", "colon"}
      THEN [req EXCEPT !.raw_uri = Append(@, u)]
      ELSE IF s = "header_line_start" /\ u \in {"word", "version"}
        THEN [req EXCEPT !.headers = TRUE] ELSE req

(* parse: what a unit makes of the state and the request, and the verdict. *)
parse(s, req, u) ==
    LET n == Consume(s, u, req.headers)
        verdict == n \in {"bad", "good"}
    IN IF UsesLastHeader(s, u) /\ ~ req.headers
         THEN [state |-> s, req |-> req, result |-> "crash"]
         ELSE [state |-> IF verdict THEN Halted(s, u) ELSE n,
               req |-> Store(req, s, u),
               result |-> IF verdict THEN n ELSE "indeterminate"]

-----------------------------------------------------------------------------
(* Browsers: they send their request at once.  One may reset its           *)
(* connection; once the request is handled that changes nothing any more.  *)

Leave(c) ==
    /\ c \notin left /\ \A p \in Server : session[p][c].st \in {"none", "reading"}
    /\ left' = left \cup {c}
    /\ UNCHANGED <<want, wire, up, state_, session, programs, reply, shut, mixed>>

-----------------------------------------------------------------------------
(* do_accept and start: the parser is reset, whoever is using it.          *)

Accept(p, c) ==
    /\ p \in up /\ ~ Accepted(c)
    /\ session' = [session EXCEPT ![p][c].st = "reading"]
    /\ state_' = [state_ EXCEPT ![p] = "method_start"]
    /\ mixed' = mixed \cup Reading(p)
    /\ UNCHANGED <<browser, up, programs, reply, shut>>

(* A server that ends by a fault or an exception loses all its sessions.   *)
Down(p) ==
    /\ up' = up \ {p}
    /\ session' = [session EXCEPT ![p] = [c \in Conn |->
                      IF c \in Held(p) THEN [session[p][c] EXCEPT !.st = "freed"]
                                       ELSE session[p][c]]]
    /\ stdout' = [stdout EXCEPT ![p] = Nobody]
    /\ UNCHANGED <<cgi, inherited, reply, shut>>

(* fork_service.  The program has every connection the server has.  Where  *)
(* there is no such program, the child is a copy of the server, with this  *)
(* connection as its standard output.                                      *)
Executable(c, req) == want[c] = "cgi" /\ req.raw_uri = <<"path">>
Fresh == {q \in Server \ {1} : \A d \in Conn : session[q][d] = None}
Freed(req) == [st |-> "freed", req |-> req]

(* Mutation of ForkService: the server shuts the connection down.          *)
ForkServiceShuts(p, c, req) ==
    /\ reply' = [reply EXCEPT ![c] = Append(@, "ok")]
    /\ IF Executable(c, req)
         THEN /\ session' = [session EXCEPT ![p][c] = Freed(req)]
              /\ cgi' = [cgi EXCEPT ![c] = "running"]
              /\ inherited' = [d \in Conn |-> IF d \in Held(p) THEN inherited[d] \cup {c}
                                              ELSE inherited[d]]
              /\ UNCHANGED <<up, stdout>>
         ELSE \E q \in Fresh :
              /\ session' = [session EXCEPT ![p][c] = Freed(req),
                                            ![q] = [session[p] EXCEPT ![c] = Freed(req)]]
              /\ up' = up \cup {q}
              /\ stdout' = [stdout EXCEPT ![q] = c]
              /\ UNCHANGED <<cgi, inherited>>
    /\ shut' = shut \cup {c}

ForkService(p, c, req) ==
    /\ reply' = [reply EXCEPT ![c] = Append(@, "ok")]
    /\ IF Executable(c, req)
         THEN /\ session' = [session EXCEPT ![p][c] = Freed(req)]
              /\ cgi' = [cgi EXCEPT ![c] = "running"]
              /\ inherited' = [d \in Conn |-> IF d \in Held(p) THEN inherited[d] \cup {c}
                                              ELSE inherited[d]]
              /\ UNCHANGED <<up, stdout>>
         ELSE \E q \in Fresh :
              /\ session' = [session EXCEPT ![p][c] = Freed(req),
                                            ![q] = [session[p] EXCEPT ![c] = Freed(req)]]
              /\ up' = up \cup {q}
              /\ stdout' = [stdout EXCEPT ![q] = c]
              /\ UNCHANGED <<cgi, inherited>>
    /\ UNCHANGED shut

(* handle_request.  setenv_client asks for the address of the browser, and *)
(* throws when the connection was reset.                                   *)
IsCgi(c, req) == want[c] # "page" /\ \E i \in DOMAIN req.raw_uri : req.raw_uri[i] = "path"

HandleRequest(p, c, req) ==
    IF c \in left THEN Down(p)
    ELSE IF IsCgi(c, req)
      THEN ForkService(p, c, req)
      ELSE /\ session' = [session EXCEPT ![p][c] = [st |-> "writing", req |-> req]]
           /\ \E page \in Page : reply' = [reply EXCEPT ![c] = @ \o page]
           /\ UNCHANGED <<up, programs, shut>>

(* do_read.  A bad request is dropped without a reply.                     *)
Read(p, c) ==
    /\ p \in up /\ c \in Reading(p) /\ wire[c] # <<>>
    /\ wire' = [wire EXCEPT ![c] = Tail(@)]
    /\ LET r == parse(state_[p], session[p][c].req, Head(wire[c])) IN
          /\ state_' = [q \in Server |-> IF q = p \/ q \in Fresh THEN r.state ELSE state_[q]]
          /\ CASE r.result = "good" -> HandleRequest(p, c, r.req)
               [] r.result = "crash" -> Down(p)
               [] OTHER ->
                    /\ session' = [session EXCEPT ![p][c] =
                           [st |-> IF r.result = "bad" THEN "freed" ELSE "reading", req |-> r.req]]
                    /\ UNCHANGED <<up, programs, reply, shut>>
    /\ mixed' = mixed \cup (Reading(p) \ {c})
    /\ UNCHANGED <<want, left>>

ReadFails(p, c) ==
    /\ p \in up /\ c \in Reading(p) /\ wire[c] = <<>> /\ c \in left
    /\ session' = [session EXCEPT ![p][c].st = "freed"]
    /\ UNCHANGED <<browser, up, state_, programs, reply, shut, mixed>>

(* Mutation of Written: the connection is kept for another request.        *)
WrittenKeeps(p, c) ==
    /\ p \in up /\ session[p][c].st = "writing"
    /\ session' = [session EXCEPT ![p][c].st = "reading"]
    /\ UNCHANGED <<browser, up, state_, programs, reply, shut, mixed>>

(* The completion of do_write.                                             *)
Written(p, c) ==
    /\ p \in up /\ session[p][c].st = "writing"
    /\ session' = [session EXCEPT ![p][c].st = "freed"]
    /\ shut' = shut \cup {c}
    /\ UNCHANGED <<browser, up, state_, programs, reply, mixed>>

(* A program prints its page and ends.  Nobody waits for it.               *)
CgiEnds(c) ==
    /\ cgi[c] = "running"
    /\ cgi' = [cgi EXCEPT ![c] = "ended"]
    /\ reply' = [reply EXCEPT ![c] = Append(@, "output")]
    /\ UNCHANGED <<browser, up, state_, session, inherited, stdout, shut, mixed>>

Serve(p) == \E c \in Conn : Accept(p, c) \/ Read(p, c) \/ ReadFails(p, c) \/ Written(p, c)

Next ==
    \/ \E p \in Server : Serve(p)
    \/ \E c \in Conn : CgiEnds(c) \/ Leave(c)

Spec == Init /\ [][Next]_vars

(* The io_service serves every connection; the programs print and end.     *)
FairSpec ==
    /\ Spec
    /\ \A p \in Server, c \in Conn :
          WF_vars(Accept(p, c) \/ Read(p, c) \/ ReadFails(p, c) \/ Written(p, c))
    /\ \A c \in Conn : WF_vars(CgiEnds(c))

-----------------------------------------------------------------------------
(* A connection is open for the browser as long as somebody has a copy and *)
(* nobody has shut it down.                                                *)
Copies(c) ==
    \/ \E p \in up : c \in Held(p)
    \/ \E d \in inherited[c] : cgi[d] = "running"
    \/ \E p \in up : stdout[p] = c

Closed(c) == Accepted(c) /\ (c \in shut \/ ~ Copies(c))

(* No other session used the parser, and no child went on as a server.     *)
Alone(c) == c \notin mixed /\ Fresh = Server \ {1}

(* A request that is parsed without another session starting or reading in *)
(* between is answered as it should be, and whole: the connection is not   *)
(* closed before the page, whatever its status, or all that the program    *)
(* prints was sent.                                                        *)
AnsweredWhole ==
    \A c \in Conn : Closed(c) /\ Alone(c) /\ 1 \in up =>
        reply[c] \in IF want[c] = "page" THEN Page ELSE {<<"ok", "output">>}

(* The server ends only if sessions were mixed, as the parser may then ask *)
(* for the last header of a request that has none, or if a browser left.   *)
UpUnlessMixed == 1 \notin up => mixed # {} \/ left # {}

(* Every page ends: the browser of a request that was parsed alone sees    *)
(* the end of its connection, also when programs of other connections have *)
(* a copy of it, unless a program was asked for that is not there.         *)
PageEnds == \A c \in Conn : (Accepted(c) /\ Alone(c)) ~> (Closed(c) \/ ~ Alone(c) \/ up = {})
=============================================================================
