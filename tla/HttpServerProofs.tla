-------------------------- MODULE HttpServerProofs --------------------------
(***************************************************************************)
(* Proofs about HttpServer, for every number of browsers and whatever they *)
(* ask for.                                                                *)
(***************************************************************************)
EXTENDS HttpServer, SequenceTheorems, TLAPS

-----------------------------------------------------------------------------
(* The parser.                                                             *)

Verdict == {"good", "bad", "crash", "indeterminate"}

LEMMA ConsumeType ==
    ASSUME NEW s \in State, NEW u \in Unit, NEW headers \in BOOLEAN
    PROVE  Consume(s, u, headers) \in State \cup {"good", "bad"}
BY DEF Consume, State, Unit

LEMMA StoreType ==
    ASSUME NEW s \in State, NEW u \in Unit, NEW req \in Parsed
    PROVE  Store(req, s, u) \in Parsed
<1>1. CASE s = "uri" /\ u \in {"word", "path", "colon"}
  <2>1. Append(req.raw_uri, u) \in Seq({"word", "path", "colon"})
    BY <1>1 DEF Parsed
  <2> QED
    BY <1>1, <2>1 DEF Store, Parsed
<1>2. CASE ~(s = "uri" /\ u \in {"word", "path", "colon"})
  BY <1>2 DEF Store, Parsed
<1> QED
  BY <1>1, <1>2

LEMMA ParseType ==
    ASSUME NEW s \in State, NEW u \in Unit, NEW req \in Parsed
    PROVE  parse(s, req, u) \in [state : State, req : Parsed, result : Verdict]
<1> DEFINE n == Consume(s, u, req.headers)
<1>1. req.headers \in BOOLEAN
  BY DEF Parsed
<1>2. n \in State \cup {"good", "bad"}
  BY <1>1, ConsumeType
<1>3. Store(req, s, u) \in Parsed
  BY StoreType
<1>4. Halted(s, u) \in State
  BY DEF Halted, State
<1>5. n \notin {"bad", "good"} => n \in State
  BY <1>2
<1> QED
  BY <1>2, <1>3, <1>4, <1>5 DEF parse, Verdict

(* The course of a request that nobody disturbs: the state of the parser   *)
(* and the request before each of its units is read.                       *)
Place == 1 .. 10
Before == <<"method_start", "method", "uri", "uri", "http_version", "header_line_start",
            "header_name", "header_value", "header_value", "header_line_start">>
Path == [raw_uri |-> <<"path">>, headers |-> FALSE]
Whole == [raw_uri |-> <<"path">>, headers |-> TRUE]
ReqBefore == <<Empty, Empty, Empty, Path, Path, Path, Whole, Whole, Whole, Whole>>
Rest(i) == SubSeq(Request, i, 10)

LEMMA RequestType ==
    Request \in Seq(Unit) /\ Len(Request) = 10 /\ \A i \in Place : Request[i] \in Unit
BY DEF Request, Unit, Place

LEMMA RestFacts ==
    ASSUME NEW i \in Place
    PROVE  /\ Rest(i) # <<>>
           /\ Head(Rest(i)) = Request[i]
           /\ i < 10 => i + 1 \in Place /\ Tail(Rest(i)) = Rest(i + 1)
<1>1. /\ Rest(i) \in Seq(Unit) /\ Len(Rest(i)) = 11 - i
      /\ \A k \in 1 .. 11 - i : Rest(i)[k] = Request[i + k - 1]
  <2>1. \A k \in i .. 10 : Request[k] \in Unit
    BY RequestType DEF Place
  <2> QED
    BY <2>1, SubSeqProperties DEF Rest, Place
<1>2. Rest(i) # <<>> /\ Head(Rest(i)) = Request[i]
  BY <1>1 DEF Place
<1>3. ASSUME i < 10 PROVE i + 1 \in Place /\ Tail(Rest(i)) = Rest(i + 1)
  <2>1. i + 1 \in Place
    BY <1>3 DEF Place
  <2>2. /\ Rest(i + 1) \in Seq(Unit) /\ Len(Rest(i + 1)) = 10 - i
        /\ \A k \in 1 .. 10 - i : Rest(i + 1)[k] = Request[i + k]
    <3>1. \A k \in i + 1 .. 10 : Request[k] \in Unit
      BY <2>1, RequestType DEF Place
    <3>2. /\ Rest(i + 1) \in Seq(Unit) /\ Len(Rest(i + 1)) = 10 - (i + 1) + 1
          /\ \A k \in 1 .. 10 - (i + 1) + 1 : Rest(i + 1)[k] = Request[i + 1 + k - 1]
      BY <2>1, <3>1, SubSeqProperties DEF Rest, Place
    <3>3. \A k \in 1 .. 10 - i : i + 1 + k - 1 = i + k /\ k \in 1 .. 10 - (i + 1) + 1
      BY DEF Place
    <3> QED
      BY <3>2, <3>3 DEF Place
  <2>3. /\ Tail(Rest(i)) \in Seq(Unit) /\ Len(Tail(Rest(i))) = 10 - i
        /\ \A k \in 1 .. 10 - i : Tail(Rest(i))[k] = Rest(i)[k + 1]
    BY <1>1, <1>2, HeadTailProperties DEF Place
  <2>4. \A k \in 1 .. 10 - i : Rest(i)[k + 1] = Request[i + k]
    <3> TAKE k \in 1 .. 10 - i
    <3>1. k + 1 \in 1 .. 11 - i /\ i + (k + 1) - 1 = i + k
      BY DEF Place
    <3> QED
      BY <1>1, <3>1
  <2> QED
    BY <2>1, <2>2, <2>3, <2>4, SeqEqual
<1> QED
  BY <1>2, <1>3

(* What the parser does with each unit of a request in good order.         *)
LEMMA ConsumesCourse ==
    /\ Consume("method_start", "word", Empty.headers) = "method"
    /\ Consume("method", "space", Empty.headers) = "uri"
    /\ Consume("uri", "path", Empty.headers) = "uri"
    /\ Consume("uri", "space", Path.headers) = "http_version"
    /\ Consume("http_version", "version", Path.headers) = "header_line_start"
    /\ Consume("header_line_start", "word", Path.headers) = "header_name"
    /\ Consume("header_name", "colon", Whole.headers) = "header_value"
    /\ Consume("header_value", "word", Whole.headers) = "header_value"
    /\ Consume("header_value", "newline", Whole.headers) = "header_line_start"
    /\ Consume("header_line_start", "newline", Whole.headers) = "good"
BY DEF Consume, Empty, Path, Whole

LEMMA StoresCourse ==
    /\ Store(Empty, "method_start", "word") = Empty
    /\ Store(Empty, "method", "space") = Empty
    /\ Store(Empty, "uri", "path") = Path
    /\ Store(Path, "uri", "space") = Path
    /\ Store(Path, "http_version", "version") = Path
    /\ Store(Path, "header_line_start", "word") = Whole
    /\ Store(Whole, "header_name", "colon") = Whole
    /\ Store(Whole, "header_value", "word") = Whole
    /\ Store(Whole, "header_value", "newline") = Whole
    /\ Store(Whole, "header_line_start", "newline") = Whole
<1>1. Append(<<>>, "path") = <<"path">>
  OBVIOUS
<1> QED
  BY <1>1 DEF Store, Empty, Path, Whole

LEMMA CourseSteps ==
    ASSUME NEW i \in Place
    PROVE  LET r == parse(Before[i], ReqBefore[i], Request[i]) IN
             /\ i < 10 => r = [state |-> Before[i + 1], req |-> ReqBefore[i + 1],
                               result |-> "indeterminate"]
             /\ i = 10 => r.result = "good" /\ r.req = Whole
<1>1. Empty.headers = FALSE /\ Path.headers = FALSE /\ Whole.headers = TRUE
  BY DEF Empty, Path, Whole
<1> USE DEF UsesLastHeader
<1>2. CASE i = 1
  <2>1. Before[i] = "method_start" /\ ReqBefore[i] = Empty /\ Request[i] = "word"
          /\ Before[i + 1] = "method" /\ ReqBefore[i + 1] = Empty
    BY <1>2 DEF Before, ReqBefore, Request
  <2> QED
    BY <1>1, <1>2, <2>1, ConsumesCourse, StoresCourse DEF parse
<1>3. CASE i = 2
  <2>1. Before[i] = "method" /\ ReqBefore[i] = Empty /\ Request[i] = "space"
          /\ Before[i + 1] = "uri" /\ ReqBefore[i + 1] = Empty
    BY <1>3 DEF Before, ReqBefore, Request
  <2> QED
    BY <1>1, <1>3, <2>1, ConsumesCourse, StoresCourse DEF parse
<1>4. CASE i = 3
  <2>1. Before[i] = "uri" /\ ReqBefore[i] = Empty /\ Request[i] = "path"
          /\ Before[i + 1] = "uri" /\ ReqBefore[i + 1] = Path
    BY <1>4 DEF Before, ReqBefore, Request
  <2> QED
    BY <1>1, <1>4, <2>1, ConsumesCourse, StoresCourse DEF parse
<1>5. CASE i = 4
  <2>1. Before[i] = "uri" /\ ReqBefore[i] = Path /\ Request[i] = "space"
          /\ Before[i + 1] = "http_version" /\ ReqBefore[i + 1] = Path
    BY <1>5 DEF Before, ReqBefore, Request
  <2> QED
    BY <1>1, <1>5, <2>1, ConsumesCourse, StoresCourse DEF parse
<1>6. CASE i = 5
  <2>1. Before[i] = "http_version" /\ ReqBefore[i] = Path /\ Request[i] = "version"
          /\ Before[i + 1] = "header_line_start" /\ ReqBefore[i + 1] = Path
    BY <1>6 DEF Before, ReqBefore, Request
  <2> QED
    BY <1>1, <1>6, <2>1, ConsumesCourse, StoresCourse DEF parse
<1>7. CASE i = 6
  <2>1. Before[i] = "header_line_start" /\ ReqBefore[i] = Path /\ Request[i] = "word"
          /\ Before[i + 1] = "header_name" /\ ReqBefore[i + 1] = Whole
    BY <1>7 DEF Before, ReqBefore, Request
  <2> QED
    BY <1>1, <1>7, <2>1, ConsumesCourse, StoresCourse DEF parse
<1>8. CASE i = 7
  <2>1. Before[i] = "header_name" /\ ReqBefore[i] = Whole /\ Request[i] = "colon"
          /\ Before[i + 1] = "header_value" /\ ReqBefore[i + 1] = Whole
    BY <1>8 DEF Before, ReqBefore, Request
  <2> QED
    BY <1>1, <1>8, <2>1, ConsumesCourse, StoresCourse DEF parse
<1>9. CASE i = 8
  <2>1. Before[i] = "header_value" /\ ReqBefore[i] = Whole /\ Request[i] = "word"
          /\ Before[i + 1] = "header_value" /\ ReqBefore[i + 1] = Whole
    BY <1>9 DEF Before, ReqBefore, Request
  <2> QED
    BY <1>1, <1>9, <2>1, ConsumesCourse, StoresCourse DEF parse
<1>10. CASE i = 9
  <2>1. Before[i] = "header_value" /\ ReqBefore[i] = Whole /\ Request[i] = "newline"
          /\ Before[i + 1] = "header_line_start" /\ ReqBefore[i + 1] = Whole
    BY <1>10 DEF Before, ReqBefore, Request
  <2> QED
    BY <1>1, <1>10, <2>1, ConsumesCourse, StoresCourse DEF parse
<1>11. CASE i = 10
  <2>1. Before[i] = "header_line_start" /\ ReqBefore[i] = Whole /\ Request[i] = "newline"
    BY <1>11 DEF Before, ReqBefore, Request
  <2> QED
    BY <1>1, <1>11, <2>1, ConsumesCourse, StoresCourse DEF parse
<1> QED
  BY <1>2, <1>3, <1>4, <1>5, <1>6, <1>7, <1>8, <1>9, <1>10, <1>11 DEF Place
-----------------------------------------------------------------------------
(* Types, and what holds of sessions however they are mixed.               *)

Session == [st : {"none", "reading", "writing", "freed"}, req : Parsed]

(* A session that has not begun is blank, and none of its request was      *)
(* read; a server that is down has no sessions, and one that runs is not   *)
(* fresh.                                                                  *)
Sound ==
    /\ TypeOK
    /\ \A p \in Server, c \in Conn : session[p][c].st = "none" => session[p][c] = None
    /\ \A c \in Conn : ~Accepted(c) => wire[c] = Request
    /\ \A p \in Server : p \notin up => Held(p) = {}
    /\ up \cap Fresh = {}

LEMMA SoundInit == Init => Sound
<1> SUFFICES ASSUME Init PROVE Sound
  OBVIOUS
<1>1. None \in Session
  BY DEF None, Empty, Session, Parsed
<1>2. Request \in Seq(Unit)
  BY RequestType
<1>3. session \in [Server -> [Conn -> Session]]
  BY <1>1 DEF Init
<1>4. wire \in [Conn -> Seq(Unit)] /\ reply \in [Conn -> Seq({"ok", "output", "200", "500", "page"})]
  BY <1>2 DEF Init
<1>5. state_ \in [Server -> State] /\ inherited \in [Conn -> SUBSET Conn]
      /\ cgi \in [Conn -> {"none", "running", "ended"}]
      /\ stdout \in [Server -> Conn \cup {Nobody}]
  BY DEF Init, State
<1>6. up \subseteq Server
  BY ServerAssumption DEF Init
<1>7. TypeOK
  BY <1>3, <1>4, <1>5, <1>6 DEF Init, TypeOK, Session
<1>8. \A p \in Server, c \in Conn : session[p][c] = None
  BY DEF Init
<1>9. \A p \in Server : Held(p) = {}
  BY <1>8 DEF Held, None
<1>10. up \cap Fresh = {}
  BY DEF Init, Fresh
<1> QED
  BY <1>7, <1>8, <1>9, <1>10 DEF Sound, Init

(* The three things that a step makes of the sessions: one of them moves,  *)
(* a server falls, or one forks and its copy goes on with what it had.     *)
Moved(p, c, v) ==
    /\ session' \in [Server -> [Conn -> Session]]
    /\ session'[p][c] = v
    /\ \A q \in Server, d \in Conn : q # p \/ d # c => session'[q][d] = session[q][d]

Fallen(p) ==
    /\ session' \in [Server -> [Conn -> Session]]
    /\ \A d \in Conn : /\ d \in Held(p) => session'[p][d].st = "freed"
                       /\ d \notin Held(p) => session'[p][d] = session[p][d]
    /\ \A q \in Server \ {p}, d \in Conn : session'[q][d] = session[q][d]

Forked(p, c, q, v) ==
    /\ session' \in [Server -> [Conn -> Session]]
    /\ session'[p][c] = v /\ session'[q][c] = v
    /\ \A d \in Conn \ {c} : session'[q][d] = session[p][d]
    /\ \A r \in Server \ {q}, d \in Conn : r # p \/ d # c => session'[r][d] = session[r][d]

LEMMA MovedShape ==
    ASSUME Sound, NEW p \in Server, NEW c \in Conn, NEW v \in Session,
           session' = [session EXCEPT ![p][c] = v]
    PROVE  Moved(p, c, v)
<1>1. session \in [Server -> [Conn -> Session]]
  BY DEF Sound, TypeOK, Session
<1> QED
  BY <1>1 DEF Moved

LEMMA TurnedShape ==
    ASSUME Sound, NEW p \in Server, NEW c \in Conn,
           NEW s \in {"none", "reading", "writing", "freed"},
           session' = [session EXCEPT ![p][c].st = s]
    PROVE  /\ [st |-> s, req |-> session[p][c].req] \in Session
           /\ Moved(p, c, [st |-> s, req |-> session[p][c].req])
<1>1. session[p][c] \in Session
  BY DEF Sound, TypeOK, Session
<1>2. [session[p][c] EXCEPT !.st = s] = [st |-> s, req |-> session[p][c].req]
  BY <1>1 DEF Session
<1>3. session' = [session EXCEPT ![p][c] = [st |-> s, req |-> session[p][c].req]]
  BY <1>2
<1>4. [st |-> s, req |-> session[p][c].req] \in Session
  BY <1>1 DEF Session
<1> QED
  BY <1>3, <1>4, MovedShape

LEMMA FallenShape ==
    ASSUME Sound, NEW p \in Server, Down(p)
    PROVE  Fallen(p)
<1>1. session \in [Server -> [Conn -> Session]]
  BY DEF Sound, TypeOK, Session
<1>2. \A c \in Conn : session[p][c] \in Session
  BY <1>1
<1>3. \A c \in Conn : [session[p][c] EXCEPT !.st = "freed"] \in Session
                      /\ [session[p][c] EXCEPT !.st = "freed"].st = "freed"
  BY <1>2 DEF Session
<1>4. session' \in [Server -> [Conn -> Session]]
  BY <1>1, <1>3 DEF Down
<1>5. \A q \in Server \ {p} : session'[q] = session[q]
  BY <1>1 DEF Down
<1>6. \A c \in Conn : session'[p][c] = IF c \in Held(p)
                                         THEN [session[p][c] EXCEPT !.st = "freed"]
                                         ELSE session[p][c]
  BY <1>1 DEF Down
<1> QED
  BY <1>3, <1>4, <1>5, <1>6 DEF Fallen

LEMMA ForkedShape ==
    ASSUME Sound, NEW p \in Server, NEW c \in Conn, NEW q \in Server, p # q, NEW v \in Session,
           session' = [session EXCEPT ![p][c] = v, ![q] = [session[p] EXCEPT ![c] = v]]
    PROVE  Forked(p, c, q, v)
<1>1. session \in [Server -> [Conn -> Session]]
  BY DEF Sound, TypeOK, Session
<1>2. [session[p] EXCEPT ![c] = v] \in [Conn -> Session]
      /\ [session[p] EXCEPT ![c] = v][c] = v
      /\ \A d \in Conn \ {c} : [session[p] EXCEPT ![c] = v][d] = session[p][d]
  BY <1>1
<1>3. session' \in [Server -> [Conn -> Session]] /\ session'[p] = [session[p] EXCEPT ![c] = v]
      /\ session'[q] = [session[p] EXCEPT ![c] = v]
      /\ \A r \in Server \ {p, q} : session'[r] = session[r]
  BY <1>1, <1>2
<1> QED
  BY <1>2, <1>3 DEF Forked

(* No session is ever unbegun again.                                       *)
Begun == \A p \in Server, c \in Conn : session[p][c].st # "none" => session'[p][c].st # "none"

LEMMA MovedSound ==
    ASSUME Sound, TypeOK', NEW p \in up, NEW c \in Conn, NEW v \in Session, v.st # "none",
           Moved(p, c, v), up' = up, \A d \in Conn \ {c} : wire'[d] = wire[d]
    PROVE  Sound' /\ Begun
<1>1. p \in Server /\ up \subseteq Server
  BY DEF Sound, TypeOK
<1>2. Begun
  BY <1>1 DEF Moved, Begun
<1>3. \A q \in Server, d \in Conn : session'[q][d].st = "none" => session'[q][d] = None
  BY <1>1 DEF Moved, Sound
<1>4. Accepted(c)'
  BY <1>1 DEF Moved, Accepted
<1>5. \A d \in Conn \ {c} : ~Accepted(d)' => ~Accepted(d)
  BY <1>2 DEF Begun, Accepted
<1>6. \A d \in Conn : ~Accepted(d)' => wire'[d] = Request
  BY <1>4, <1>5 DEF Sound
<1>7. \A q \in Server : q \notin up' => Held(q)' = {}
  BY <1>1 DEF Moved, Held, Sound
<1>8. up' \cap Fresh' = {}
  <2> SUFFICES ASSUME NEW q \in Server, q \in up, q \in Fresh' PROVE FALSE
    BY <1>1
  <2>1. q # p
    <3>1. session'[p][c] # None
      BY DEF Moved, None
    <3> QED
      BY <3>1 DEF Fresh
  <2>2. \A d \in Conn : session[q][d] = None
    BY <2>1 DEF Moved, Fresh
  <2> QED
    BY <2>2 DEF Sound, Fresh
<1> QED
  BY <1>2, <1>3, <1>6, <1>7, <1>8 DEF Sound

LEMMA FallenSound ==
    ASSUME Sound, TypeOK', NEW p \in up, NEW c \in Held(p),
           Fallen(p), up' = up \ {p}, \A d \in Conn \ {c} : wire'[d] = wire[d]
    PROVE  Sound' /\ Begun
<1>1. p \in Server /\ up \subseteq Server /\ c \in Conn
  BY DEF Sound, TypeOK, Held
<1>2. Begun
  BY <1>1 DEF Fallen, Begun, Held
<1>3. \A q \in Server, d \in Conn : session'[q][d].st = "none" => session'[q][d] = None
  BY <1>1 DEF Fallen, Sound
<1>4. Accepted(c)'
  BY <1>1 DEF Fallen, Accepted
<1>5. \A d \in Conn \ {c} : ~Accepted(d)' => ~Accepted(d)
  BY <1>2 DEF Begun, Accepted
<1>6. \A d \in Conn : ~Accepted(d)' => wire'[d] = Request
  BY <1>4, <1>5 DEF Sound
<1>7. Held(p)' = {}
  BY <1>1 DEF Fallen, Held
<1>8. \A q \in Server : q \notin up' => Held(q)' = {}
  BY <1>1, <1>7 DEF Fallen, Held, Sound
<1>9. up' \cap Fresh' = {}
  BY <1>1 DEF Fallen, Fresh, Sound
<1> QED
  BY <1>2, <1>3, <1>6, <1>8, <1>9 DEF Sound

LEMMA ForkedSound ==
    ASSUME Sound, TypeOK', NEW p \in up, NEW c \in Conn, NEW q \in Fresh, NEW v \in Session,
           v.st = "freed", Forked(p, c, q, v), up' = up \cup {q},
           \A d \in Conn \ {c} : wire'[d] = wire[d]
    PROVE  Sound' /\ Begun
<1>1. p \in Server /\ q \in Server /\ up \subseteq Server /\ p # q
  BY DEF Sound, TypeOK, Fresh
<1>2. Begun
  BY <1>1 DEF Forked, Begun, Fresh, None
<1>3. \A r \in Server, d \in Conn : session'[r][d].st = "none" => session'[r][d] = None
  <2> TAKE r \in Server, d \in Conn
  <2>1. CASE d = c /\ r \in {p, q}
    BY <1>1, <2>1 DEF Forked
  <2>2. CASE d # c /\ r = q
    BY <1>1, <2>2 DEF Forked, Sound
  <2>3. CASE r # q /\ ~(d = c /\ r = p)
    BY <1>1, <2>3 DEF Forked, Sound
  <2> QED
    BY <2>1, <2>2, <2>3
<1>4. Accepted(c)'
  BY <1>1 DEF Forked, Accepted
<1>5. \A d \in Conn \ {c} : ~Accepted(d)' => ~Accepted(d)
  BY <1>2 DEF Begun, Accepted
<1>6. \A d \in Conn : ~Accepted(d)' => wire'[d] = Request
  BY <1>4, <1>5 DEF Sound
<1>7. \A r \in Server : r \notin up' => Held(r)' = {}
  BY <1>1 DEF Forked, Held, Sound
<1>8. up' \cap Fresh' = {}
  <2> SUFFICES ASSUME NEW r \in Server, r \in up', r \in Fresh' PROVE FALSE
    BY DEF Fresh
  <2>1. session'[p][c] # None /\ session'[q][c] # None
    BY DEF Forked, None
  <2>2. r # p /\ r # q
    BY <2>1 DEF Fresh
  <2>3. \A d \in Conn : session[r][d] = None
    BY <2>2 DEF Forked, Fresh
  <2> QED
    BY <2>2, <2>3 DEF Sound, Fresh
<1> QED
  BY <1>2, <1>3, <1>6, <1>7, <1>8 DEF Sound

-----------------------------------------------------------------------------
(* What Read does, without LET and CASE.                                   *)

Piece(p, c) == parse(state_[p], session[p][c].req, Head(wire[c]))

(* The ways a read can end: the server falls, a program is forked, the     *)
(* server is forked, a page is being sent, or the parser wants more or     *)
(* has refused.                                                            *)
ReadDown(p, c) ==
    /\ \/ Piece(p, c).result = "good" /\ c \in left
       \/ Piece(p, c).result = "crash"
    /\ Fallen(p) /\ up' = up \ {p} /\ stdout' = [stdout EXCEPT ![p] = Nobody]
    /\ UNCHANGED <<cgi, inherited, reply, shut>>

ReadCgi(p, c) ==
    /\ Piece(p, c).result = "good" /\ Executable(c, Piece(p, c).req)
    /\ Moved(p, c, Freed(Piece(p, c).req))
    /\ reply' = [reply EXCEPT ![c] = Append(@, "ok")]
    /\ cgi' = [cgi EXCEPT ![c] = "running"]
    /\ inherited' = [d \in Conn |-> IF d \in Held(p) THEN inherited[d] \cup {c} ELSE inherited[d]]
    /\ UNCHANGED <<up, stdout, shut>>

ReadFork(p, c, q) ==
    /\ Piece(p, c).result = "good"
    /\ IsCgi(c, Piece(p, c).req) /\ ~Executable(c, Piece(p, c).req)
    /\ Forked(p, c, q, Freed(Piece(p, c).req))
    /\ reply' = [reply EXCEPT ![c] = Append(@, "ok")]
    /\ up' = up \cup {q} /\ stdout' = [stdout EXCEPT ![q] = c]
    /\ UNCHANGED <<cgi, inherited, shut>>

ReadPage(p, c) ==
    /\ Piece(p, c).result = "good" /\ ~IsCgi(c, Piece(p, c).req)
    /\ Moved(p, c, [st |-> "writing", req |-> Piece(p, c).req])
    /\ \E page \in Page : reply' = [reply EXCEPT ![c] = @ \o page]
    /\ UNCHANGED <<up, programs, shut>>

ReadOn(p, c) ==
    /\ \/ Piece(p, c).result = "bad" /\ Moved(p, c, Freed(Piece(p, c).req))
       \/ /\ Piece(p, c).result = "indeterminate"
          /\ Moved(p, c, [st |-> "reading", req |-> Piece(p, c).req])
    /\ UNCHANGED <<up, programs, reply, shut>>

LEMMA ReadShape ==
    ASSUME Sound, NEW p \in Server, NEW c \in Conn, Read(p, c)
    PROVE  /\ p \in up /\ c \in Reading(p) /\ wire[c] # <<>>
           /\ wire' = [wire EXCEPT ![c] = Tail(@)] /\ Tail(wire[c]) \in Seq(Unit)
           /\ Piece(p, c) \in [state : State, req : Parsed, result : Verdict]
           /\ state_' = [q \in Server |-> IF q = p \/ q \in Fresh THEN Piece(p, c).state
                                                                 ELSE state_[q]]
           /\ \/ ReadDown(p, c) \/ ReadCgi(p, c) \/ ReadPage(p, c) \/ ReadOn(p, c)
              \/ \E q \in Fresh : ReadFork(p, c, q)
           /\ mixed' = mixed \cup (Reading(p) \ {c})
           /\ UNCHANGED <<want, left>>
<1> DEFINE Ways == \/ ReadDown(p, c) \/ ReadCgi(p, c) \/ ReadPage(p, c) \/ ReadOn(p, c)
                   \/ \E q \in Fresh : ReadFork(p, c, q)
<1>1. p \in up /\ c \in Reading(p) /\ wire[c] # <<>> /\ wire[c] \in Seq(Unit)
  BY DEF Read, Sound, TypeOK
<1>2. Head(wire[c]) \in Unit /\ Tail(wire[c]) \in Seq(Unit)
  BY <1>1
<1>3. session[p][c].req \in Parsed /\ state_[p] \in State
  BY DEF Sound, TypeOK
<1>4. Piece(p, c) \in [state : State, req : Parsed, result : Verdict]
  BY <1>2, <1>3, ParseType DEF Piece
<1>5. Piece(p, c).result \in Verdict /\ Piece(p, c).req \in Parsed
  BY <1>4
<1>6. /\ Freed(Piece(p, c).req) \in Session
      /\ [st |-> "writing", req |-> Piece(p, c).req] \in Session
      /\ [st |-> "reading", req |-> Piece(p, c).req] \in Session
  BY <1>5 DEF Freed, Session
<1>7. \/ Piece(p, c).result = "good" /\ HandleRequest(p, c, Piece(p, c).req)
      \/ Piece(p, c).result = "crash" /\ Down(p)
      \/ /\ Piece(p, c).result \in {"bad", "indeterminate"}
         /\ session' = [session EXCEPT ![p][c] =
                [st |-> IF Piece(p, c).result = "bad" THEN "freed" ELSE "reading",
                 req |-> Piece(p, c).req]]
         /\ UNCHANGED <<up, programs, reply, shut>>
  BY <1>5 DEF Read, Piece, Verdict
<1>8. ASSUME Down(p),
             \/ Piece(p, c).result = "good" /\ c \in left
             \/ Piece(p, c).result = "crash"
      PROVE  ReadDown(p, c)
  BY <1>8, FallenShape DEF ReadDown, Down
<1>9. ASSUME Piece(p, c).result = "good" /\ HandleRequest(p, c, Piece(p, c).req)
      PROVE  Ways
  <2>1. CASE c \in left
    BY <1>8, <1>9, <2>1 DEF HandleRequest
  <2>2. CASE c \notin left /\ IsCgi(c, Piece(p, c).req) /\ Executable(c, Piece(p, c).req)
    <3>1. ForkService(p, c, Piece(p, c).req)
      BY <1>9, <2>2 DEF HandleRequest
    <3>2. session' = [session EXCEPT ![p][c] = Freed(Piece(p, c).req)]
      BY <3>1, <2>2 DEF ForkService
    <3>3. Moved(p, c, Freed(Piece(p, c).req))
      BY <1>6, <3>2, MovedShape
    <3> QED
      BY <1>9, <2>2, <3>1, <3>3 DEF ForkService, ReadCgi
  <2>3. CASE c \notin left /\ IsCgi(c, Piece(p, c).req) /\ ~Executable(c, Piece(p, c).req)
    <3>1. ForkService(p, c, Piece(p, c).req)
      BY <1>9, <2>3 DEF HandleRequest
    <3>2. PICK q \in Fresh :
             /\ session' = [session EXCEPT ![p][c] = Freed(Piece(p, c).req),
                               ![q] = [session[p] EXCEPT ![c] = Freed(Piece(p, c).req)]]
             /\ up' = up \cup {q} /\ stdout' = [stdout EXCEPT ![q] = c]
             /\ UNCHANGED <<cgi, inherited>>
      BY <2>3, <3>1 DEF ForkService
    <3>3. q \in Server /\ p # q
      BY <1>1 DEF Fresh, Sound
    <3>4. Forked(p, c, q, Freed(Piece(p, c).req))
      BY <1>6, <3>2, <3>3, ForkedShape
    <3>5. ReadFork(p, c, q)
      BY <1>9, <2>3, <3>1, <3>2, <3>4 DEF ForkService, ReadFork
    <3> QED
      BY <3>5
  <2>4. CASE c \notin left /\ ~IsCgi(c, Piece(p, c).req)
    <3>1. session' = [session EXCEPT ![p][c] = [st |-> "writing", req |-> Piece(p, c).req]]
      BY <1>9, <2>4 DEF HandleRequest
    <3>2. Moved(p, c, [st |-> "writing", req |-> Piece(p, c).req])
      BY <1>6, <3>1, MovedShape
    <3> QED
      BY <1>9, <2>4, <3>2 DEF HandleRequest, ReadPage
  <2> QED
    BY <2>1, <2>2, <2>3, <2>4
<1>10. ASSUME Piece(p, c).result \in {"bad", "indeterminate"}
       PROVE  Ways
  BY <1>6, <1>7, <1>10, MovedShape DEF ReadOn, Freed
<1>11. Ways
  BY <1>7, <1>8, <1>9, <1>10
<1> QED
  BY <1>1, <1>2, <1>4, <1>11 DEF Read, Piece

-----------------------------------------------------------------------------
(* Every step keeps types and Sound.                                       *)

LEMMA AcceptSound ==
    ASSUME Sound, NEW p \in Server, NEW c \in Conn, Accept(p, c)
    PROVE  /\ Sound' /\ Begun
           /\ session[p][c] = None /\ wire[c] = Request
           /\ Moved(p, c, [st |-> "reading", req |-> Empty])
<1>1. p \in up /\ up' = up /\ wire' = wire
  BY DEF Accept, browser
<1>2. session[p][c] = None /\ wire[c] = Request
  BY DEF Accept, Accepted, Sound
<1>3. session' = [session EXCEPT ![p][c].st = "reading"]
  BY DEF Accept
<1>4. /\ [st |-> "reading", req |-> Empty] \in Session
      /\ Moved(p, c, [st |-> "reading", req |-> Empty])
  <2>1. session[p][c].req = Empty
    BY <1>2 DEF None
  <2>2. /\ [st |-> "reading", req |-> session[p][c].req] \in Session
        /\ Moved(p, c, [st |-> "reading", req |-> session[p][c].req])
    BY <1>3, TurnedShape
  <2> QED
    BY <2>1, <2>2
<1>5. state_' \in [Server -> State]
  <2>1. state_ \in [Server -> State] /\ "method_start" \in State
    BY DEF Sound, TypeOK, State
  <2>2. state_' = [state_ EXCEPT ![p] = "method_start"]
    BY DEF Accept
  <2> QED
    BY <2>1, <2>2
<1>6. TypeOK'
  <2>1. session' \in [Server -> [Conn -> Session]]
    BY <1>4 DEF Moved
  <2>2. mixed' \subseteq Conn
    BY DEF Accept, Sound, TypeOK, Reading
  <2>3. UNCHANGED <<want, wire, left, up, cgi, inherited, stdout, reply, shut>>
    BY DEF Accept, browser, programs
  <2> QED
    BY <1>5, <2>1, <2>2, <2>3 DEF Sound, TypeOK, Session
<1> QED
  BY <1>1, <1>2, <1>4, <1>6, MovedSound

LEMMA ReadSound ==
    ASSUME Sound, NEW p \in Server, NEW c \in Conn, Read(p, c)
    PROVE  Sound' /\ Begun
<1> DEFINE r == Piece(p, c)
<1>1. /\ p \in up /\ c \in Reading(p) /\ c \in Held(p) /\ p \in Server
      /\ wire' = [wire EXCEPT ![c] = Tail(@)] /\ Tail(wire[c]) \in Seq(Unit)
      /\ r.state \in State /\ r.req \in Parsed
      /\ state_' = [q \in Server |-> IF q = p \/ q \in Fresh THEN r.state ELSE state_[q]]
      /\ mixed' = mixed \cup (Reading(p) \ {c})
      /\ UNCHANGED <<want, left>>
  BY ReadShape DEF Reading, Held
<1>2. /\ wire' \in [Conn -> Seq(Unit)] /\ state_' \in [Server -> State] /\ mixed' \subseteq Conn
      /\ \A d \in Conn \ {c} : wire'[d] = wire[d]
      /\ want' \in [Conn -> Want] /\ left' \subseteq Conn
  BY <1>1 DEF Sound, TypeOK, Reading
<1>3. ASSUME session' \in [Server -> [Conn -> Session]], up' \subseteq Server,
             cgi' \in [Conn -> {"none", "running", "ended"}],
             inherited' \in [Conn -> SUBSET Conn],
             stdout' \in [Server -> Conn \cup {Nobody}],
             reply' \in [Conn -> Seq({"ok", "output", "200", "500", "page"})],
             shut' \subseteq Conn
      PROVE  TypeOK'
  BY <1>2, <1>3 DEF TypeOK, Session
<1>4. /\ up \subseteq Server
      /\ cgi \in [Conn -> {"none", "running", "ended"}]
      /\ inherited \in [Conn -> SUBSET Conn]
      /\ stdout \in [Server -> Conn \cup {Nobody}]
      /\ reply \in [Conn -> Seq({"ok", "output", "200", "500", "page"})]
      /\ shut \subseteq Conn
  BY DEF Sound, TypeOK
<1>5. ASSUME reply' = [reply EXCEPT ![c] = Append(@, "ok")]
      PROVE  reply' \in [Conn -> Seq({"ok", "output", "200", "500", "page"})]
  <2>1. Append(reply[c], "ok") \in Seq({"ok", "output", "200", "500", "page"})
    BY <1>4, AppendProperties
  <2> QED
    BY <1>4, <1>5, <2>1
<1>6. /\ Freed(r.req) \in Session /\ Freed(r.req).st = "freed"
      /\ [st |-> "writing", req |-> r.req] \in Session
      /\ [st |-> "reading", req |-> r.req] \in Session
  BY <1>1 DEF Freed, Session
<1> HIDE DEF r
<1>7. CASE ReadDown(p, c)
  <2>1. Fallen(p) /\ up' = up \ {p} /\ stdout' = [stdout EXCEPT ![p] = Nobody]
        /\ UNCHANGED <<cgi, inherited, reply, shut>>
    BY <1>7 DEF ReadDown
  <2>2. session' \in [Server -> [Conn -> Session]]
    BY <2>1 DEF Fallen
  <2>3. TypeOK'
    BY <1>3, <1>4, <2>1, <2>2
  <2> QED
    BY <1>1, <1>2, <2>1, <2>3, FallenSound
<1>8. CASE ReadCgi(p, c)
  <2>1. /\ Moved(p, c, Freed(r.req))
        /\ reply' = [reply EXCEPT ![c] = Append(@, "ok")]
        /\ cgi' = [cgi EXCEPT ![c] = "running"]
        /\ inherited' = [d \in Conn |-> IF d \in Held(p) THEN inherited[d] \cup {c}
                                                         ELSE inherited[d]]
        /\ UNCHANGED <<up, stdout, shut>>
    BY <1>8 DEF ReadCgi, r
  <2>2. session' \in [Server -> [Conn -> Session]]
    BY <2>1 DEF Moved
  <2>3. cgi' \in [Conn -> {"none", "running", "ended"}] /\ inherited' \in [Conn -> SUBSET Conn]
    BY <1>4, <2>1
  <2>4. TypeOK'
    BY <1>3, <1>4, <1>5, <2>1, <2>2, <2>3
  <2> QED
    BY <1>1, <1>2, <1>6, <2>1, <2>4, MovedSound
<1>9. ASSUME NEW q \in Fresh, ReadFork(p, c, q) PROVE Sound' /\ Begun
  <2>1. /\ Forked(p, c, q, Freed(r.req))
        /\ reply' = [reply EXCEPT ![c] = Append(@, "ok")]
        /\ up' = up \cup {q} /\ stdout' = [stdout EXCEPT ![q] = c]
        /\ UNCHANGED <<cgi, inherited, shut>>
    BY <1>9 DEF ReadFork, r
  <2>2. session' \in [Server -> [Conn -> Session]] /\ q \in Server
    BY <2>1 DEF Forked, Fresh
  <2>3. stdout' \in [Server -> Conn \cup {Nobody}] /\ up' \subseteq Server
    BY <1>4, <2>1, <2>2
  <2>4. TypeOK'
    BY <1>3, <1>4, <1>5, <2>1, <2>2, <2>3
  <2> QED
    BY <1>1, <1>2, <1>6, <2>1, <2>4, ForkedSound
<1>10. CASE ReadPage(p, c)
  <2>1. /\ Moved(p, c, [st |-> "writing", req |-> r.req])
        /\ \E page \in Page : reply' = [reply EXCEPT ![c] = @ \o page]
        /\ UNCHANGED <<up, cgi, inherited, stdout, shut>>
    BY <1>10 DEF ReadPage, programs, r
  <2>2. session' \in [Server -> [Conn -> Session]]
    BY <2>1 DEF Moved
  <2>3. PICK page \in Page : reply' = [reply EXCEPT ![c] = @ \o page]
    BY <2>1
  <2>4. page \in Seq({"ok", "output", "200", "500", "page"})
    <3>1. <<"200", "page">> \in Seq({"ok", "output", "200", "500", "page"})
      OBVIOUS
    <3>2. <<"500", "page">> \in Seq({"ok", "output", "200", "500", "page"})
      OBVIOUS
    <3>3. page = <<"200", "page">> \/ page = <<"500", "page">>
      BY DEF Page
    <3> QED
      BY <3>1, <3>2, <3>3
  <2>5. reply[c] \o page \in Seq({"ok", "output", "200", "500", "page"})
    BY <1>4, <2>4, ConcatProperties
  <2>6. reply' \in [Conn -> Seq({"ok", "output", "200", "500", "page"})]
    BY <1>4, <2>3, <2>5
  <2>7. TypeOK'
    BY <1>3, <1>4, <2>1, <2>2, <2>6
  <2> QED
    BY <1>1, <1>2, <1>6, <2>1, <2>7, MovedSound
<1>11. CASE ReadOn(p, c)
  <2>1. PICK v \in {Freed(r.req), [st |-> "reading", req |-> r.req]} :
           /\ Moved(p, c, v)
           /\ UNCHANGED <<up, cgi, inherited, stdout, reply, shut>>
    BY <1>11 DEF ReadOn, programs, r
  <2>2. session' \in [Server -> [Conn -> Session]]
    BY <2>1 DEF Moved
  <2>3. TypeOK'
    BY <1>3, <1>4, <2>1, <2>2
  <2>4. v \in Session /\ v.st # "none"
    BY <1>6
  <2> QED
    BY <1>1, <1>2, <2>1, <2>3, <2>4, MovedSound
<1> QED
  BY <1>7, <1>8, <1>9, <1>10, <1>11, ReadShape

LEMMA ReadFailsSound ==
    ASSUME Sound, NEW p \in Server, NEW c \in Conn, ReadFails(p, c)
    PROVE  /\ Sound' /\ Begun
           /\ \E v \in Session : v.st = "freed" /\ Moved(p, c, v)
<1>1. /\ [st |-> "freed", req |-> session[p][c].req] \in Session
      /\ Moved(p, c, [st |-> "freed", req |-> session[p][c].req])
  BY TurnedShape DEF ReadFails
<1>2. TypeOK'
  BY <1>1 DEF ReadFails, Sound, TypeOK, Session, Moved, browser, programs
<1>3. p \in up /\ up' = up /\ wire' = wire
  BY DEF ReadFails, browser
<1> QED
  BY <1>1, <1>2, <1>3, MovedSound

LEMMA WrittenSound ==
    ASSUME Sound, NEW p \in Server, NEW c \in Conn, Written(p, c)
    PROVE  /\ Sound' /\ Begun
           /\ \E v \in Session : v.st = "freed" /\ Moved(p, c, v)
<1>1. /\ [st |-> "freed", req |-> session[p][c].req] \in Session
      /\ Moved(p, c, [st |-> "freed", req |-> session[p][c].req])
  BY TurnedShape DEF Written
<1>2. TypeOK'
  BY <1>1 DEF Written, Sound, TypeOK, Session, Moved, browser, programs
<1>3. p \in up /\ up' = up /\ wire' = wire
  BY DEF Written, browser
<1> QED
  BY <1>1, <1>2, <1>3, MovedSound

LEMMA OtherSound ==
    ASSUME Sound, NEW c \in Conn, CgiEnds(c) \/ Leave(c) \/ UNCHANGED vars
    PROVE  Sound' /\ Begun
<1>1. session' = session /\ up' = up /\ wire' = wire
  BY DEF CgiEnds, Leave, vars, browser
<1>2. TypeOK'
  <2>1. CASE CgiEnds(c)
    <3>1. Append(reply[c], "output") \in Seq({"ok", "output", "200", "500", "page"})
      BY AppendProperties DEF Sound, TypeOK
    <3>2. reply' \in [Conn -> Seq({"ok", "output", "200", "500", "page"})]
      BY <2>1, <3>1 DEF CgiEnds, Sound, TypeOK
    <3> QED
      BY <2>1, <3>2 DEF CgiEnds, Sound, TypeOK, browser
  <2>2. CASE Leave(c)
    BY <2>2 DEF Leave, Sound, TypeOK, programs
  <2>3. CASE UNCHANGED vars
    BY <2>3 DEF vars, Sound, TypeOK, programs, browser
  <2> QED
    BY <2>1, <2>2, <2>3
<1> QED
  BY <1>1, <1>2 DEF Sound, Begun, Accepted, Held, Fresh

LEMMA SoundStep == Sound /\ [Next]_vars => Sound' /\ Begun
<1> SUFFICES ASSUME Sound, [Next]_vars PROVE Sound' /\ Begun
  OBVIOUS
<1>1. ASSUME NEW p \in Server, NEW c \in Conn, Accept(p, c) PROVE Sound' /\ Begun
  BY <1>1, AcceptSound
<1>2. ASSUME NEW p \in Server, NEW c \in Conn, Read(p, c) PROVE Sound' /\ Begun
  BY <1>2, ReadSound
<1>3. ASSUME NEW p \in Server, NEW c \in Conn, ReadFails(p, c) PROVE Sound' /\ Begun
  BY <1>3, ReadFailsSound
<1>4. ASSUME NEW p \in Server, NEW c \in Conn, Written(p, c) PROVE Sound' /\ Begun
  BY <1>4, WrittenSound
<1>5. ASSUME NEW c \in Conn, CgiEnds(c) \/ Leave(c) PROVE Sound' /\ Begun
  BY <1>5, OtherSound
<1>6. CASE UNCHANGED vars
  BY <1>6 DEF vars, browser, programs, Sound, TypeOK, Begun, Accepted, Held, Fresh
<1> QED
  BY <1>1, <1>2, <1>3, <1>4, <1>5, <1>6 DEF Next, Serve

(* Every variable keeps its type.                                          *)
THEOREM TypeSafe == Spec => []TypeOK
<1>1. Spec => []Sound
  BY SoundInit, SoundStep, PTL DEF Spec
<1>2. Sound => TypeOK
  BY DEF Sound
<1> QED
  BY <1>1, <1>2, PTL

-----------------------------------------------------------------------------
(* A request during which no other session used the parser is on course,   *)
(* and one server only is reading it.                                      *)
OnCourse(p, c) ==
    \E i \in Place : /\ wire[c] = Rest(i) /\ state_[p] = Before[i]
                     /\ session[p][c].req = ReqBefore[i]

Undisturbed ==
    \A p \in Server, c \in Conn : c \in Reading(p) /\ c \notin mixed =>
        OnCourse(p, c) /\ \A q \in Server \ {p} : c \notin Reading(q)

(* Such a request is taken whole: it never ends the server, and it is      *)
(* never refused.                                                          *)
LEMMA CourseRead ==
    ASSUME Sound, Undisturbed, NEW p \in Server, NEW c \in Conn, Read(p, c), c \notin mixed
    PROVE  \/ \E i \in Place : /\ wire'[c] = Rest(i) /\ Piece(p, c).state = Before[i]
                               /\ Piece(p, c).req = ReqBefore[i]
                               /\ Piece(p, c).result = "indeterminate"
           \/ Piece(p, c).result = "good" /\ Piece(p, c).req = Whole
<1>1. c \in Reading(p) /\ wire' = [wire EXCEPT ![c] = Tail(@)] /\ wire \in [Conn -> Seq(Unit)]
  BY ReadShape DEF Sound, TypeOK
<1>2. PICK i \in Place : /\ wire[c] = Rest(i) /\ state_[p] = Before[i]
                         /\ session[p][c].req = ReqBefore[i]
  BY <1>1 DEF Undisturbed, OnCourse
<1>3. Piece(p, c) = parse(Before[i], ReqBefore[i], Request[i])
  BY <1>2, RestFacts DEF Piece
<1>4. wire'[c] = Tail(Rest(i))
  BY <1>1, <1>2
<1>5. CASE i < 10
  <2>1. i + 1 \in Place /\ wire'[c] = Rest(i + 1)
    BY <1>4, <1>5, RestFacts
  <2>2. Piece(p, c) = [state |-> Before[i + 1], req |-> ReqBefore[i + 1],
                       result |-> "indeterminate"]
    BY <1>3, <1>5, CourseSteps
  <2>3. /\ Piece(p, c).state = Before[i + 1] /\ Piece(p, c).req = ReqBefore[i + 1]
        /\ Piece(p, c).result = "indeterminate"
    BY <2>2
  <2> QED
    BY <2>1, <2>3
<1>6. CASE i = 10
  BY <1>3, <1>6, CourseSteps
<1> QED
  BY <1>5, <1>6 DEF Place

LEMMA UndisturbedInit == Init => Undisturbed
BY DEF Init, Undisturbed, Reading, None

LEMMA UndisturbedAccept ==
    ASSUME Sound, Undisturbed, NEW p \in Server, NEW c \in Conn, Accept(p, c)
    PROVE  Undisturbed'
<1>1. /\ session[p][c] = None /\ wire[c] = Request
      /\ Moved(p, c, [st |-> "reading", req |-> Empty])
  BY AcceptSound
<1>2. /\ state_' = [state_ EXCEPT ![p] = "method_start"] /\ state_ \in [Server -> State]
      /\ mixed' = mixed \cup Reading(p) /\ wire' = wire
      /\ \A q \in Server : session[q][c].st = "none"
  BY DEF Accept, Accepted, Sound, TypeOK, browser
<1>3. SUFFICES ASSUME NEW q \in Server, NEW d \in Conn, d \in Reading(q)', d \notin mixed'
               PROVE  OnCourse(q, d)' /\ \A r \in Server \ {q} : d \notin Reading(r)'
  BY DEF Undisturbed
<1>4. CASE q = p /\ d = c
  <2>1. 1 \in Place /\ Rest(1) = Request /\ Before[1] = "method_start" /\ ReqBefore[1] = Empty
    <3>1. Rest(1) = Request
      <4>1. /\ SubSeq(Request, 1, 10) \in Seq(Unit) /\ Len(SubSeq(Request, 1, 10)) = 10
            /\ \A k \in 1 .. 10 : SubSeq(Request, 1, 10)[k] = Request[k]
        <5>1. \A k \in 1 .. 10 : Request[k] \in Unit
          BY RequestType DEF Place
        <5>2. /\ SubSeq(Request, 1, 10) \in Seq(Unit)
              /\ Len(SubSeq(Request, 1, 10)) = 10 - 1 + 1
              /\ \A k \in 1 .. 10 - 1 + 1 : SubSeq(Request, 1, 10)[k] = Request[1 + k - 1]
          BY <5>1, SubSeqProperties
        <5>3. \A k \in 1 .. 10 : 1 + k - 1 = k
          OBVIOUS
        <5> QED
          BY <5>2, <5>3
      <4> QED
        BY <4>1, RequestType, SeqEqual DEF Rest
    <3> QED
      BY <3>1 DEF Place, Before, ReqBefore
  <2>2. wire'[c] = Request /\ state_'[p] = "method_start" /\ session'[p][c].req = Empty
    BY <1>1, <1>2 DEF Moved
  <2>3. OnCourse(p, c)'
    BY <2>1, <2>2 DEF OnCourse
  <2>4. \A r \in Server \ {p} : session'[r][c] = session[r][c]
    BY <1>1 DEF Moved
  <2> QED
    BY <1>2, <1>4, <2>3, <2>4 DEF Reading
<1>5. CASE q # p \/ d # c
  <2>1. session'[q][d] = session[q][d] /\ d \in Reading(q) /\ d \notin mixed
    BY <1>1, <1>2, <1>3, <1>5 DEF Moved, Reading
  <2>2. d # c
    BY <1>2, <2>1 DEF Reading
  <2>3. q # p
    BY <1>2, <1>3, <2>1
  <2>4. state_'[q] = state_[q] /\ wire'[d] = wire[d]
    BY <1>2, <2>3
  <2>5. OnCourse(q, d) /\ \A r \in Server \ {q} : d \notin Reading(r)
    BY <2>1 DEF Undisturbed
  <2>6. OnCourse(q, d)'
    BY <2>1, <2>4, <2>5 DEF OnCourse
  <2>7. \A r \in Server : session'[r][d] = session[r][d]
    BY <1>1, <2>2 DEF Moved
  <2> QED
    BY <2>5, <2>6, <2>7 DEF Reading
<1> QED
  BY <1>4, <1>5

LEMMA UndisturbedRead ==
    ASSUME Sound, Undisturbed, NEW p \in Server, NEW c \in Conn, Read(p, c)
    PROVE  Undisturbed'
<1>1. /\ c \in Reading(p) /\ p \in up
      /\ wire' = [wire EXCEPT ![c] = Tail(@)] /\ wire \in [Conn -> Seq(Unit)]
      /\ state_' = [q \in Server |-> IF q = p \/ q \in Fresh THEN Piece(p, c).state
                                                            ELSE state_[q]]
      /\ mixed' = mixed \cup (Reading(p) \ {c})
      /\ \/ ReadDown(p, c) \/ ReadCgi(p, c) \/ ReadPage(p, c) \/ ReadOn(p, c)
         \/ \E q \in Fresh : ReadFork(p, c, q)
  BY ReadShape DEF Sound, TypeOK
<1>2. SUFFICES ASSUME NEW q \in Server, NEW d \in Conn, d \in Reading(q)', d \notin mixed'
               PROVE  OnCourse(q, d)' /\ \A r \in Server \ {q} : d \notin Reading(r)'
  BY DEF Undisturbed
<1>3. d \notin mixed /\ (d = c \/ d \notin Reading(p))
  BY <1>1, <1>2
(* Nobody is reading a request who was not, but for the copies that a      *)
(* fork makes of sessions that are mixed then.                             *)
<1>4. \A r \in Server : d \in Reading(r)' => d \in Reading(r)
  <2>1. CASE ReadDown(p, c)
    <3>1. Fallen(p)
      BY <2>1 DEF ReadDown
    <3>2. ~(d \in Reading(p)')
      BY <3>1 DEF Fallen, Reading, Held
    <3>3. \A r \in Server \ {p} : session'[r][d] = session[r][d]
      BY <3>1 DEF Fallen
    <3> QED
      BY <3>2, <3>3 DEF Reading
  <2>2. CASE ReadCgi(p, c)
    BY <1>1, <2>2 DEF ReadCgi, Moved, Reading, Freed
  <2>3. CASE ReadPage(p, c)
    BY <1>1, <2>3 DEF ReadPage, Moved, Reading
  <2>4. CASE ReadOn(p, c)
    BY <1>1, <2>4 DEF ReadOn, Moved, Reading, Freed
  <2>5. ASSUME NEW f \in Fresh, ReadFork(p, c, f), NEW r \in Server, d \in Reading(r)'
        PROVE  d \in Reading(r)
    <3>1. f \in Server /\ Forked(p, c, f, Freed(Piece(p, c).req))
      BY <2>5 DEF ReadFork, Fresh
    <3>2. CASE d = c
      BY <2>5, <3>1, <3>2 DEF Forked, Reading, Freed
    <3>3. CASE d # c /\ r = f
      <4>1. session'[f][d] = session[p][d]
        BY <3>1, <3>3 DEF Forked
      <4> QED
        BY <1>3, <2>5, <3>3, <4>1 DEF Reading
    <3>4. CASE d # c /\ r # f
      BY <2>5, <3>1, <3>4 DEF Forked, Reading
    <3> QED
      BY <3>2, <3>3, <3>4
  <2> QED
    BY <1>1, <2>1, <2>2, <2>3, <2>4, <2>5
<1>5. OnCourse(q, d) /\ \A r \in Server \ {q} : d \notin Reading(r)
  BY <1>2, <1>3, <1>4 DEF Undisturbed
<1>6. \A r \in Server \ {q} : d \notin Reading(r)'
  BY <1>4, <1>5
<1>7. CASE d # c
  <2>1. q # p /\ q \notin Fresh
    BY <1>2, <1>3, <1>4, <1>7 DEF Reading, Fresh, None
  <2>2. state_'[q] = state_[q] /\ wire'[d] = wire[d]
    BY <1>1, <1>7, <2>1
  <2>3. session'[q][d] = session[q][d]
    <3>1. CASE ReadDown(p, c)
      BY <2>1, <3>1 DEF ReadDown, Fallen
    <3>2. CASE ReadCgi(p, c)
      BY <2>1, <3>2 DEF ReadCgi, Moved
    <3>3. CASE ReadPage(p, c)
      BY <2>1, <3>3 DEF ReadPage, Moved
    <3>4. CASE ReadOn(p, c)
      BY <2>1, <3>4 DEF ReadOn, Moved
    <3>5. ASSUME NEW f \in Fresh, ReadFork(p, c, f) PROVE session'[q][d] = session[q][d]
      BY <2>1, <3>5 DEF ReadFork, Forked
    <3> QED
      BY <1>1, <3>1, <3>2, <3>3, <3>4, <3>5
  <2> QED
    BY <1>5, <1>6, <2>2, <2>3 DEF OnCourse
<1>8. CASE d = c
  <2>1. q = p
    BY <1>1, <1>5, <1>8
  <2>2. session'[p][c].st = "reading"
    BY <1>2, <1>8, <2>1 DEF Reading
  <2>3. ReadOn(p, c) /\ Piece(p, c).result = "indeterminate"
    <3>1. ~ReadDown(p, c)
      BY <1>1, <2>2 DEF ReadDown, Fallen, Held, Reading
    <3>2. ~ReadCgi(p, c) /\ ~ReadPage(p, c)
      BY <2>2 DEF ReadCgi, ReadPage, Moved, Freed
    <3>3. \A f \in Fresh : ~ReadFork(p, c, f)
      BY <2>2 DEF ReadFork, Forked, Freed
    <3>4. ReadOn(p, c)
      BY <1>1, <3>1, <3>2, <3>3
    <3> QED
      BY <2>2, <3>4 DEF ReadOn, Moved, Freed
  <2>4. PICK i \in Place : /\ wire'[c] = Rest(i) /\ Piece(p, c).state = Before[i]
                           /\ Piece(p, c).req = ReqBefore[i]
    BY <1>3, <1>8, <2>3, CourseRead
  <2>5. session'[p][c].req = Piece(p, c).req /\ state_'[p] = Piece(p, c).state
    BY <1>1, <2>3 DEF ReadOn, Moved
  <2>6. OnCourse(p, c)'
    BY <2>4, <2>5 DEF OnCourse
  <2> QED
    BY <1>6, <1>8, <2>1, <2>6
<1> QED
  BY <1>7, <1>8

LEMMA UndisturbedFreed ==
    ASSUME Sound, Undisturbed, NEW p \in Server, NEW c \in Conn, NEW v \in Session,
           v.st = "freed", Moved(p, c, v), UNCHANGED <<wire, state_, mixed>>
    PROVE  Undisturbed'
<1>1. SUFFICES ASSUME NEW q \in Server, NEW d \in Conn, d \in Reading(q)', d \notin mixed'
               PROVE  OnCourse(q, d)' /\ \A r \in Server \ {q} : d \notin Reading(r)'
  BY DEF Undisturbed
<1>2. \A r \in Server : d \in Reading(r)' => session'[r][d] = session[r][d] /\ d \in Reading(r)
  BY DEF Moved, Reading
<1>3. OnCourse(q, d) /\ \A r \in Server \ {q} : d \notin Reading(r)
  BY <1>1, <1>2 DEF Undisturbed
<1> QED
  BY <1>1, <1>2, <1>3 DEF OnCourse

LEMMA UndisturbedStep == Sound /\ Undisturbed /\ [Next]_vars => Undisturbed'
<1> SUFFICES ASSUME Sound, Undisturbed, [Next]_vars PROVE Undisturbed'
  OBVIOUS
<1>1. ASSUME NEW p \in Server, NEW c \in Conn, Accept(p, c) PROVE Undisturbed'
  BY <1>1, UndisturbedAccept
<1>2. ASSUME NEW p \in Server, NEW c \in Conn, Read(p, c) PROVE Undisturbed'
  BY <1>2, UndisturbedRead
<1>3. ASSUME NEW p \in Server, NEW c \in Conn, ReadFails(p, c) PROVE Undisturbed'
  <2>1. UNCHANGED <<wire, state_, mixed>>
    BY <1>3 DEF ReadFails, browser
  <2> QED
    BY <1>3, <2>1, ReadFailsSound, UndisturbedFreed
<1>4. ASSUME NEW p \in Server, NEW c \in Conn, Written(p, c) PROVE Undisturbed'
  <2>1. UNCHANGED <<wire, state_, mixed>>
    BY <1>4 DEF Written, browser
  <2> QED
    BY <1>4, <2>1, WrittenSound, UndisturbedFreed
<1>5. ASSUME UNCHANGED <<wire, state_, session, mixed>> PROVE Undisturbed'
  BY <1>5 DEF Undisturbed, OnCourse, Reading
<1>6. ASSUME NEW c \in Conn, CgiEnds(c) \/ Leave(c) PROVE Undisturbed'
  BY <1>5, <1>6 DEF CgiEnds, Leave, browser
<1>7. CASE UNCHANGED vars
  BY <1>5, <1>7 DEF vars, browser
<1> QED
  BY <1>1, <1>2, <1>3, <1>4, <1>6, <1>7 DEF Next, Serve

-----------------------------------------------------------------------------
(* What never shrinks, and what is true of a request that is still alone.  *)

LEMMA Grows ==
    Sound /\ [Next]_vars => /\ mixed \subseteq mixed' /\ left \subseteq left' /\ want' = want
                            /\ 1 \in up' => 1 \in up
<1> SUFFICES ASSUME Sound, [Next]_vars
             PROVE  /\ mixed \subseteq mixed' /\ left \subseteq left' /\ want' = want
                    /\ 1 \in up' => 1 \in up
  OBVIOUS
<1>1. ASSUME NEW p \in Server, NEW c \in Conn, Read(p, c)
      PROVE  /\ mixed \subseteq mixed' /\ left' = left /\ want' = want
             /\ 1 \in up' => 1 \in up
  <2>1. mixed \subseteq mixed' /\ left' = left /\ want' = want
    BY <1>1 DEF Read
  <2>2. 1 \in up' => 1 \in up
    <3>1. CASE ReadDown(p, c)
      BY <3>1 DEF ReadDown
    <3>2. CASE ReadCgi(p, c) \/ ReadPage(p, c) \/ ReadOn(p, c)
      BY <3>2 DEF ReadCgi, ReadPage, ReadOn
    <3>3. ASSUME NEW f \in Fresh, ReadFork(p, c, f) PROVE 1 \in up' => 1 \in up
      BY <3>3 DEF ReadFork, Fresh
    <3> QED
      BY <1>1, <3>1, <3>2, <3>3, ReadShape
  <2> QED
    BY <2>1, <2>2
<1>2. ASSUME NEW p \in Server, NEW c \in Conn,
             Accept(p, c) \/ ReadFails(p, c) \/ Written(p, c)
      PROVE  mixed \subseteq mixed' /\ left' = left /\ want' = want /\ up' = up
  BY <1>2 DEF Accept, ReadFails, Written, browser
<1>3. ASSUME NEW c \in Conn, CgiEnds(c) \/ Leave(c)
      PROVE  mixed \subseteq mixed' /\ left \subseteq left' /\ want' = want /\ up' = up
  BY <1>3 DEF CgiEnds, Leave, browser
<1>4. CASE UNCHANGED vars
  BY <1>4 DEF vars, browser
<1> QED
  BY <1>1, <1>2, <1>3, <1>4 DEF Next, Serve

LEMMA FreshShrinks ==
    ASSUME Sound, Sound', Begun PROVE Fresh' \subseteq Fresh
<1>1. \A q \in Server, d \in Conn : session'[q][d] = None => session[q][d] = None
  BY DEF Begun, Sound, None
<1> QED
  BY <1>1 DEF Fresh

LEMMA AloneBefore ==
    ASSUME Sound, [Next]_vars, NEW c \in Conn, Alone(c)', 1 \in up'
    PROVE  Alone(c) /\ up = {1} /\ 1 \in up /\ c \notin mixed
<1>1. Sound' /\ Begun
  BY SoundStep
<1>2. Fresh' \subseteq Fresh /\ Fresh \subseteq Server \ {1} /\ mixed \subseteq mixed' /\ 1 \in up
  BY <1>1, FreshShrinks, Grows DEF Fresh
<1>3. Alone(c)
  BY <1>2 DEF Alone
<1> QED
  BY <1>2, <1>3 DEF Alone, Sound, TypeOK

-----------------------------------------------------------------------------
(* Of a request that is alone: what its browser has, by the state of its   *)
(* session.                                                                *)
Unanswered(c) == reply[c] = <<>> /\ cgi[c] = "none" /\ c \notin shut
PageSent(c) == want[c] = "page" /\ reply[c] \in Page /\ cgi[c] = "none"
ProgramRuns(c) ==
    /\ want[c] = "cgi" /\ c \notin shut /\ c \in inherited[c]
    /\ \/ cgi[c] = "running" /\ reply[c] = <<"ok">>
       \/ cgi[c] = "ended" /\ reply[c] = <<"ok", "output">>

Answer(c) ==
    /\ session[1][c].st \in {"none", "reading"} => Unanswered(c)
    /\ session[1][c].st = "writing" => PageSent(c) /\ c \notin shut
    /\ session[1][c].st = "freed" => PageSent(c) \/ ProgramRuns(c)

InOrder == \A c \in Conn : Alone(c) /\ 1 \in up => Answer(c)

LEMMA InOrderInit == Init => InOrder
<1> SUFFICES ASSUME Init, NEW c \in Conn PROVE Answer(c)
  BY DEF InOrder
<1>1. session[1][c].st = "none"
  BY ServerAssumption DEF Init, None
<1>2. Unanswered(c)
  BY DEF Init, Unanswered
<1> QED
  BY <1>1, <1>2 DEF Answer

LEMMA AnswerKeeps ==
    ASSUME NEW c \in Conn, Answer(c), session'[1][c].st = session[1][c].st,
           reply'[c] = reply[c], cgi'[c] = cgi[c], c \in shut' => c \in shut,
           inherited[c] \subseteq inherited'[c], want' = want
    PROVE  Answer(c)'
BY DEF Answer, Unanswered, PageSent, ProgramRuns

LEMMA AnswerAccept ==
    ASSUME Sound, NEW a \in Conn, Accept(1, a), NEW c \in Conn, Answer(c)
    PROVE  Answer(c)'
<1>1. 1 \in Server
  BY ServerAssumption
<1>2. /\ session[1][a] = None /\ Moved(1, a, [st |-> "reading", req |-> Empty])
      /\ UNCHANGED <<want, reply, cgi, inherited, shut>>
  BY <1>1, AcceptSound DEF Accept, browser, programs
<1>3. CASE c = a
  <2>1. Unanswered(c)
    BY <1>2, <1>3 DEF Answer, None
  <2>2. Unanswered(c)'
    BY <1>2, <2>1 DEF Unanswered
  <2>3. session'[1][c].st = "reading"
    BY <1>2, <1>3 DEF Moved
  <2> QED
    BY <2>2, <2>3 DEF Answer
<1>4. CASE c # a
  <2>1. session'[1][c] = session[1][c]
    BY <1>1, <1>2, <1>4 DEF Moved
  <2> QED
    BY <1>2, <2>1, AnswerKeeps
<1> QED
  BY <1>3, <1>4

(* Another session's read.                                                 *)
LEMMA AnswerReadOther ==
    ASSUME Sound, NEW a \in Conn, Read(1, a), NEW c \in Conn \ {a}, Answer(c),
           ReadCgi(1, a) \/ ReadPage(1, a) \/ ReadOn(1, a)
    PROVE  Answer(c)'
<1>1. 1 \in Server /\ want' = want
  BY ServerAssumption DEF Read
<1>2. /\ reply \in [Conn -> Seq({"ok", "output", "200", "500", "page"})]
      /\ cgi \in [Conn -> {"none", "running", "ended"}]
      /\ inherited \in [Conn -> SUBSET Conn]
  BY DEF Sound, TypeOK
<1>3. CASE ReadCgi(1, a)
  BY <1>1, <1>2, <1>3, AnswerKeeps DEF ReadCgi, Moved
<1>4. CASE ReadPage(1, a)
  <2>1. reply'[c] = reply[c]
    BY <1>2, <1>4 DEF ReadPage
  <2> QED
    BY <1>1, <1>4, <2>1, AnswerKeeps DEF ReadPage, Moved, programs
<1>5. CASE ReadOn(1, a)
  BY <1>1, <1>5, AnswerKeeps DEF ReadOn, Moved, programs
<1> QED
  BY <1>3, <1>4, <1>5

(* Its own reads: it is taken as it was sent, and answered accordingly.    *)
LEMMA AnswerReadOwn ==
    ASSUME Sound, Undisturbed, NEW c \in Conn, Read(1, c), Answer(c), c \notin mixed,
           ReadCgi(1, c) \/ ReadPage(1, c) \/ ReadOn(1, c)
    PROVE  Answer(c)'
<1>1. 1 \in Server /\ want' = want /\ want[c] \in {"page", "cgi", "absent"}
  BY ServerAssumption, WantAssumption DEF Read, Sound, TypeOK
<1>2. c \in Reading(1) /\ session[1][c].st = "reading"
  BY <1>1, ReadShape DEF Reading
<1>3. reply[c] = <<>> /\ cgi[c] = "none" /\ c \notin shut
  BY <1>2 DEF Answer, Unanswered
<1>4. /\ reply \in [Conn -> Seq({"ok", "output", "200", "500", "page"})]
      /\ cgi \in [Conn -> {"none", "running", "ended"}]
      /\ inherited \in [Conn -> SUBSET Conn]
  BY DEF Sound, TypeOK
<1>5. \/ Piece(1, c).result = "indeterminate"
      \/ Piece(1, c).result = "good" /\ Piece(1, c).req = Whole
  BY <1>1, CourseRead
<1>6. CASE ReadCgi(1, c)
  <2>1. want[c] = "cgi"
    BY <1>6 DEF ReadCgi, Executable
  <2>2. reply'[c] = <<"ok">>
    <3>1. reply'[c] = Append(<<>>, "ok")
      BY <1>3, <1>4, <1>6 DEF ReadCgi
    <3> QED
      BY <3>1
  <2>3. cgi'[c] = "running" /\ shut' = shut
    BY <1>4, <1>6 DEF ReadCgi
  <2>4. c \in inherited'[c]
    BY <1>2, <1>4, <1>6 DEF ReadCgi, Held, Reading
  <2>5. session'[1][c].st = "freed"
    BY <1>6 DEF ReadCgi, Moved, Freed
  <2> QED
    BY <1>1, <1>3, <2>1, <2>2, <2>3, <2>4, <2>5 DEF Answer, ProgramRuns
<1>7. CASE ReadPage(1, c)
  <2>1. want[c] = "page"
    <3>1. Piece(1, c).req.raw_uri = <<"path">> /\ ~IsCgi(c, Piece(1, c).req)
      BY <1>5, <1>7 DEF ReadPage, Whole
    <3>2. 1 \in DOMAIN <<"path">> /\ <<"path">>[1] = "path"
      OBVIOUS
    <3> QED
      BY <3>1, <3>2 DEF IsCgi
  <2>2. PICK page \in Page : reply' = [reply EXCEPT ![c] = @ \o page]
    BY <1>7 DEF ReadPage
  <2>3. reply'[c] = <<>> \o page
    BY <1>3, <1>4, <2>2
  <2>4. <<>> \o page = page
    <3>1. <<>> \o <<"200", "page">> = <<"200", "page">>
      OBVIOUS
    <3>2. <<>> \o <<"500", "page">> = <<"500", "page">>
      OBVIOUS
    <3> QED
      BY <3>1, <3>2 DEF Page
  <2>5. reply'[c] \in Page
    BY <2>3, <2>4
  <2>6. session'[1][c].st = "writing" /\ cgi' = cgi /\ shut' = shut
    BY <1>7 DEF ReadPage, Moved, programs
  <2> QED
    BY <1>1, <1>3, <2>1, <2>5, <2>6 DEF Answer, PageSent
<1>8. CASE ReadOn(1, c)
  <2>1. Moved(1, c, [st |-> "reading", req |-> Piece(1, c).req])
    BY <1>5, <1>8 DEF ReadOn
  <2>2. session'[1][c].st = "reading"
    BY <2>1 DEF Moved
  <2> QED
    BY <1>1, <1>2, <1>8, <2>2, AnswerKeeps DEF ReadOn, programs
<1> QED
  BY <1>6, <1>7, <1>8

LEMMA AnswerRead ==
    ASSUME Sound, Undisturbed, NEW a \in Conn, Read(1, a),
           NEW c \in Conn, Answer(c), c \notin mixed, Alone(c)', 1 \in up'
    PROVE  Answer(c)'
<1>1. 1 \in Server
  BY ServerAssumption
<1>2. ~ReadDown(1, a)
  BY DEF ReadDown
<1>3. \A f \in Fresh : ~ReadFork(1, a, f)
  <2> SUFFICES ASSUME NEW f \in Fresh, ReadFork(1, a, f) PROVE FALSE
    OBVIOUS
  <2>1. session'[f][a] # None
    BY DEF ReadFork, Forked, Freed, None
  <2>2. f \in Server \ {1} /\ f \notin Fresh'
    BY <2>1 DEF Fresh
  <2> QED
    BY <2>2 DEF Alone
<1>4. ReadCgi(1, a) \/ ReadPage(1, a) \/ ReadOn(1, a)
  BY <1>1, <1>2, <1>3, ReadShape
<1>5. CASE a = c
  BY <1>4, <1>5, AnswerReadOwn
<1>6. CASE a # c
  BY <1>4, <1>6, AnswerReadOther
<1> QED
  BY <1>5, <1>6

LEMMA AnswerReadFails ==
    ASSUME Sound, Undisturbed, NEW a \in Conn, ReadFails(1, a),
           NEW c \in Conn, Answer(c), c \notin mixed
    PROVE  Answer(c)'
<1>1. 1 \in Server
  BY ServerAssumption
<1>2. PICK v \in Session : v.st = "freed" /\ Moved(1, a, v)
  BY <1>1, ReadFailsSound
<1>3. c # a
  <2> SUFFICES ASSUME c = a PROVE FALSE
    OBVIOUS
  <2>1. c \in Reading(1) /\ wire[c] = <<>>
    BY DEF ReadFails
  <2>2. \E i \in Place : wire[c] = Rest(i)
    BY <1>1, <2>1 DEF Undisturbed, OnCourse
  <2> QED
    BY <2>1, <2>2, RestFacts
<1>4. session'[1][c] = session[1][c]
  BY <1>1, <1>2, <1>3 DEF Moved
<1> QED
  BY <1>4, AnswerKeeps DEF ReadFails, browser, programs

LEMMA AnswerWritten ==
    ASSUME Sound, NEW a \in Conn, Written(1, a), NEW c \in Conn, Answer(c)
    PROVE  Answer(c)'
<1>1. 1 \in Server
  BY ServerAssumption
<1>2. PICK v \in Session : v.st = "freed" /\ Moved(1, a, v)
  BY <1>1, WrittenSound
<1>3. UNCHANGED <<want, reply, cgi, inherited>> /\ shut' = shut \cup {a}
  BY DEF Written, browser, programs
<1>4. CASE c = a
  <2>1. PageSent(c)
    BY <1>4 DEF Written, Answer
  <2>2. PageSent(c)' /\ session'[1][c].st = "freed"
    BY <1>2, <1>3, <1>4, <2>1 DEF PageSent, Moved
  <2> QED
    BY <2>2 DEF Answer
<1>5. CASE c # a
  <2>1. session'[1][c] = session[1][c]
    BY <1>1, <1>2, <1>5 DEF Moved
  <2> QED
    BY <1>3, <1>5, <2>1, AnswerKeeps
<1> QED
  BY <1>4, <1>5

LEMMA AnswerCgiEnds ==
    ASSUME Sound, NEW a \in Conn, CgiEnds(a), NEW c \in Conn, Answer(c)
    PROVE  Answer(c)'
<1>1. /\ cgi[a] = "running" /\ cgi' = [cgi EXCEPT ![a] = "ended"]
      /\ reply' = [reply EXCEPT ![a] = Append(@, "output")]
      /\ UNCHANGED <<want, session, inherited, shut>>
  BY DEF CgiEnds, browser
<1>2. /\ reply \in [Conn -> Seq({"ok", "output", "200", "500", "page"})]
      /\ cgi \in [Conn -> {"none", "running", "ended"}]
  BY DEF Sound, TypeOK
<1>3. CASE c = a
  <2>1. session[1][c].st \in {"none", "reading", "writing", "freed"}
    BY ServerAssumption DEF Sound, TypeOK
  <2>2. session[1][c].st = "freed" /\ ProgramRuns(c) /\ reply[c] = <<"ok">>
    BY <1>1, <1>3, <2>1 DEF Answer, Unanswered, PageSent, ProgramRuns
  <2>3. reply'[c] = Append(<<"ok">>, "output")
    BY <1>1, <1>2, <1>3, <2>2
  <2>4. reply'[c] = <<"ok", "output">>
    <3> DEFINE S == {"ok", "output"}
    <3>1. <<"ok">> \in Seq(S) /\ Len(<<"ok">>) = 1 /\ <<"ok">>[1] = "ok"
      OBVIOUS
    <3>2. /\ Append(<<"ok">>, "output") \in Seq(S)
          /\ Len(Append(<<"ok">>, "output")) = 2
          /\ Append(<<"ok">>, "output")[1] = "ok" /\ Append(<<"ok">>, "output")[2] = "output"
      BY <3>1, AppendProperties
    <3>3. <<"ok", "output">> \in Seq(S) /\ Len(<<"ok", "output">>) = 2
          /\ <<"ok", "output">>[1] = "ok" /\ <<"ok", "output">>[2] = "output"
      OBVIOUS
    <3>4. \A i \in 1 .. 2 : Append(<<"ok">>, "output")[i] = <<"ok", "output">>[i]
      BY <3>2, <3>3
    <3> QED
      BY <2>3, <3>2, <3>3, <3>4, SeqEqual
  <2>5. cgi'[c] = "ended"
    BY <1>1, <1>2, <1>3
  <2>6. ProgramRuns(c)'
    BY <1>1, <2>2, <2>4, <2>5 DEF ProgramRuns
  <2> QED
    BY <1>1, <2>2, <2>6 DEF Answer
<1>4. CASE c # a
  <2>1. reply'[c] = reply[c] /\ cgi'[c] = cgi[c]
    BY <1>1, <1>2, <1>4
  <2> QED
    BY <1>1, <2>1, AnswerKeeps
<1> QED
  BY <1>3, <1>4

LEMMA InOrderStep == Sound /\ Undisturbed /\ InOrder /\ [Next]_vars => InOrder'
<1> SUFFICES ASSUME Sound, Undisturbed, InOrder, [Next]_vars,
                    NEW c \in Conn, Alone(c)', 1 \in up'
             PROVE  Answer(c)'
  BY DEF InOrder
<1>1. up = {1} /\ c \notin mixed /\ Answer(c)
  BY AloneBefore DEF InOrder
<1>2. ASSUME NEW p \in Server, NEW a \in Conn, Accept(p, a) PROVE Answer(c)'
  <2>1. p = 1
    BY <1>1, <1>2 DEF Accept
  <2> QED
    BY <1>1, <1>2, <2>1, AnswerAccept
<1>3. ASSUME NEW p \in Server, NEW a \in Conn, Read(p, a) PROVE Answer(c)'
  <2>1. p = 1
    BY <1>1, <1>3 DEF Read
  <2> QED
    BY <1>1, <1>3, <2>1, AnswerRead
<1>4. ASSUME NEW p \in Server, NEW a \in Conn, ReadFails(p, a) PROVE Answer(c)'
  <2>1. p = 1
    BY <1>1, <1>4 DEF ReadFails
  <2> QED
    BY <1>1, <1>4, <2>1, AnswerReadFails
<1>5. ASSUME NEW p \in Server, NEW a \in Conn, Written(p, a) PROVE Answer(c)'
  <2>1. p = 1
    BY <1>1, <1>5 DEF Written
  <2> QED
    BY <1>1, <1>5, <2>1, AnswerWritten
<1>6. ASSUME NEW a \in Conn, CgiEnds(a) PROVE Answer(c)'
  BY <1>1, <1>6, AnswerCgiEnds
<1>7. ASSUME NEW a \in Conn, Leave(a) PROVE Answer(c)'
  BY <1>1, <1>7, AnswerKeeps DEF Leave, programs
<1>8. CASE UNCHANGED vars
  BY <1>1, <1>8, AnswerKeeps DEF vars, browser, programs
<1> QED
  BY <1>2, <1>3, <1>4, <1>5, <1>6, <1>7, <1>8 DEF Next, Serve

LEMMA InOrderAnswered ==
    ASSUME Sound, InOrder PROVE AnsweredWhole
<1> SUFFICES ASSUME NEW c \in Conn, Closed(c), Alone(c), 1 \in up
             PROVE  reply[c] \in IF want[c] = "page" THEN Page ELSE {<<"ok", "output">>}
  BY DEF AnsweredWhole
<1>1. Answer(c) /\ 1 \in Server
  BY ServerAssumption DEF InOrder
<1>2. session[1][c].st \in {"none", "reading", "writing", "freed"}
  BY <1>1 DEF Sound, TypeOK
<1>3. session[1][c].st # "none"
  <2>1. \A q \in Server \ {1} : session[q][c].st = "none"
    BY DEF Alone, Fresh, None
  <2> QED
    BY <2>1 DEF Closed, Accepted
<1>4. session[1][c].st = "freed"
  <2>1. SUFFICES ASSUME session[1][c].st \in {"reading", "writing"} PROVE FALSE
    BY <1>2, <1>3
  <2>2. c \notin shut
    BY <1>1, <2>1 DEF Answer, Unanswered
  <2>3. Copies(c)
    BY <2>1 DEF Copies, Held
  <2> QED
    BY <2>2, <2>3 DEF Closed
<1>5. CASE PageSent(c)
  BY <1>5 DEF PageSent
<1>6. CASE ProgramRuns(c)
  <2>1. cgi[c] # "running"
    BY <1>6 DEF ProgramRuns, Closed, Copies
  <2> QED
    BY <1>6, <2>1 DEF ProgramRuns
<1> QED
  BY <1>1, <1>4, <1>5, <1>6 DEF Answer

LEMMA UpStep == Sound /\ Undisturbed /\ UpUnlessMixed /\ [Next]_vars => UpUnlessMixed'
<1> SUFFICES ASSUME Sound, Undisturbed, UpUnlessMixed, [Next]_vars,
                    1 \notin up', mixed' = {}, left' = {}
             PROVE  FALSE
  BY DEF UpUnlessMixed
<1>1. mixed = {} /\ left = {} /\ 1 \in up
  BY Grows DEF UpUnlessMixed
<1>2. ASSUME NEW p \in Server, NEW c \in Conn, Read(p, c) PROVE 1 \in up'
  <2>1. ~ReadDown(p, c)
    BY <1>1, <1>2, CourseRead DEF ReadDown
  <2>2. CASE ReadCgi(p, c) \/ ReadPage(p, c) \/ ReadOn(p, c)
    BY <1>1, <2>2 DEF ReadCgi, ReadPage, ReadOn
  <2>3. ASSUME NEW f \in Fresh, ReadFork(p, c, f) PROVE 1 \in up'
    BY <1>1, <2>3 DEF ReadFork
  <2> QED
    BY <1>2, <2>1, <2>2, <2>3, ReadShape
<1>3. ASSUME NEW p \in Server, NEW c \in Conn,
             Accept(p, c) \/ ReadFails(p, c) \/ Written(p, c)
      PROVE  up' = up
  BY <1>3 DEF Accept, ReadFails, Written
<1>4. ASSUME NEW c \in Conn, CgiEnds(c) \/ Leave(c) PROVE up' = up
  BY <1>4 DEF CgiEnds, Leave
<1>5. CASE UNCHANGED vars
  BY <1>1, <1>5 DEF vars
<1> QED
  BY <1>1, <1>2, <1>3, <1>4, <1>5 DEF Next, Serve

-----------------------------------------------------------------------------
Inv == Sound /\ Undisturbed /\ InOrder /\ UpUnlessMixed

LEMMA InvInit == Init => Inv
<1>1. Init => UpUnlessMixed
  BY DEF Init, UpUnlessMixed
<1> QED
  BY <1>1, SoundInit, UndisturbedInit, InOrderInit DEF Inv

LEMMA InvStep == Inv /\ [Next]_vars => Inv'
BY SoundStep, UndisturbedStep, InOrderStep, UpStep DEF Inv

LEMMA Invariance == Spec => []Inv
BY InvInit, InvStep, PTL DEF Spec

(* A request during which no other session used the parser is answered by  *)
(* what its browser asked for, and whole, before its connection closes.    *)
THEOREM AnsweredSafe == Spec => []AnsweredWhole
<1>1. Inv => AnsweredWhole
  BY InOrderAnswered DEF Inv
<1> QED
  BY <1>1, Invariance, PTL

(* The server ends only where sessions were mixed or a browser left.       *)
THEOREM UpSafe == Spec => []UpUnlessMixed
<1>1. Inv => UpUnlessMixed
  BY DEF Inv
<1> QED
  BY <1>1, Invariance, PTL
=============================================================================
