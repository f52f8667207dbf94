------------------------- MODULE SocksServerProofs -------------------------
(***************************************************************************)
(* Proofs about SocksServer, for every set of requests, every socks.conf,  *)
(* every size of the arrays and every bound.                               *)
(***************************************************************************)
EXTENDS SocksServer, SequenceTheorems, TLAPS

-----------------------------------------------------------------------------
(* Types.                                                                  *)

LEMMA TypeInit == Init => TypeOK
<1> SUFFICES ASSUME Init PROVE TypeOK
  OBVIOUS
<1>1. wire \in [Dir -> Seq(Nat)] /\ sent \in [Dir -> Seq(Nat)] /\ got \in [Dir -> Seq(Nat)]
  BY DEF Init
<1>2. data \in [Dir -> [Cells -> Nat]] /\ message \in [1 .. 3 -> Nat]
  BY DEF Init
<1>3. len \in [Dir -> 0 .. Word - 1] /\ asks \in 0 .. MaxAsk
  BY SizeAssumption, BoundAssumption DEF Init
<1> QED
  BY <1>1, <1>2, <1>3 DEF Init, TypeOK, Phase

LEMMA TypeAsk == ASSUME TypeOK, Ask PROVE TypeOK'
<1>1. PICK r \in Request : asked' = r /\ wire' = [wire EXCEPT ![1] = @ \o r]
  BY DEF Ask
<1>2. r \in Seq(Nat)
  BY RequestAssumption
<1>3. wire' \in [Dir -> Seq(Nat)]
  BY <1>1, <1>2 DEF TypeOK, Dir
<1>4. asks' \in 0 .. MaxAsk
  BY BoundAssumption DEF TypeOK, Ask
<1> QED
  BY <1>1, <1>3, <1>4 DEF TypeOK, Ask, relay

LEMMA CellNat == ASSUME TypeOK, NEW e \in Dir PROVE Cell(e, Len(sent[e]) + 1) \in Nat
<1>1. e \in Nat /\ sent[e] \in Seq(Nat)
  BY DEF TypeOK, Dir
<1>2. Len(sent[e]) + 1 \in Nat
  BY <1>1
<1>3. \A x \in Nat : \A n \in Nat : 10 * x + n \in Nat
  OBVIOUS
<1> QED
  BY <1>1, <1>2, <1>3 DEF Cell

LEMMA TypeEnd == ASSUME TypeOK, NEW e \in Dir, End(e) PROVE TypeOK'
<1>1. CASE Send(e)
  <2>1. Cell(e, Len(sent[e]) + 1) \in Nat
    BY CellNat
  <2>2. wire' \in [Dir -> Seq(Nat)] /\ sent' \in [Dir -> Seq(Nat)]
    BY <1>1, <2>1 DEF Send, TypeOK
  <2> QED
    BY <1>1, <2>2 DEF Send, TypeOK, asking, relay
<1>2. CASE Finish(e)
  BY <1>2 DEF Finish, TypeOK, asking, relay
<1>3. CASE Reset(e)
  BY <1>3 DEF Reset, TypeOK, asking, relay
<1> QED
  BY <1>1, <1>2, <1>3 DEF End

LEMMA TypeReadInfo == ASSUME TypeOK, ReadInfo PROVE TypeOK'
<1>1. PICK n \in 1 .. Len(wire[1]) :
         /\ message' = Overwrite(n)
         /\ wire' = [wire EXCEPT ![1] = SubSeq(@, n + 1, Len(@))]
         /\ split' = (split \/ n # 3)
  BY DEF ReadInfo
<1>2. wire[1] \in Seq(Nat) /\ Len(wire[1]) \in Nat
  BY DEF TypeOK, Dir
<1>3. \A i \in 1 .. n : wire[1][i] \in Nat
  BY <1>2
<1>4. message' \in [1 .. 3 -> Nat]
  BY <1>1, <1>2, <1>3 DEF Overwrite, TypeOK
<1>5. SubSeq(wire[1], n + 1, Len(wire[1])) \in Seq(Nat)
  BY <1>2, SubSeqProperties
<1>6. wire' \in [Dir -> Seq(Nat)]
  BY <1>1, <1>5 DEF TypeOK
<1> QED
  BY <1>1, <1>4, <1>6 DEF TypeOK, ReadInfo, relay, Phase

LEMMA TypeSession == ASSUME TypeOK, Session \/ Accepting \/ DoAccept PROVE TypeOK'
<1>1. CASE InfoEnds
  BY <1>1 DEF InfoEnds, TypeOK, asking, relay, ends, Phase
<1>2. CASE DoConnect
  BY <1>2 DEF DoConnect, TypeOK, asking, relay, ends, Phase
<1>3. CASE Reply
  BY <1>3 DEF Reply, TypeOK, ends, Phase
<1>4. CASE Fork
  BY <1>4 DEF Fork, TypeOK, asking, relay, ends, Phase
<1>5. CASE ParentCloses
  BY <1>5 DEF ParentCloses, TypeOK, asking, relay, ends, Phase
<1>6. CASE DoAccept
  BY <1>6 DEF DoAccept, TypeOK, asking, relay, ends, Phase
<1> QED
  BY <1>1, <1>2, <1>3, <1>4, <1>5, <1>6, TypeReadInfo DEF Session, Accepting

(* What a read makes of one direction.                                     *)
LEMMA ReadLength ==
    ASSUME TypeOK, NEW d \in Dir
    PROVE  LET n == Min2(Size, Len(wire[d])) IN
             /\ n \in Nat /\ n <= Size /\ n <= Len(wire[d])
             /\ wire[d] # <<>> => n >= 1
             /\ wire[d] \in Seq(Nat) /\ Len(wire[d]) \in Nat
<1>1. wire[d] \in Seq(Nat) /\ Len(wire[d]) \in Nat
  BY DEF TypeOK
<1>2. wire[d] # <<>> => Len(wire[d]) >= 1
  BY <1>1, EmptySeq
<1> QED
  BY <1>1, <1>2, SizeAssumption DEF Min2

LEMMA TypeRead == ASSUME TypeOK, NEW d \in Dir, Read(d) PROVE TypeOK'
<1> DEFINE n == Min2(Size, Len(wire[d]))
<1>1. /\ n \in Nat /\ n <= Size /\ n <= Len(wire[d])
      /\ wire[d] \in Seq(Nat) /\ Len(wire[d]) \in Nat
  BY ReadLength
<1> HIDE DEF n
<1>2. SubSeq(wire[d], n + 1, Len(wire[d])) \in Seq(Nat)
  BY <1>1, SubSeqProperties
<1>3. n \in 0 .. Word - 1
  BY <1>1, SizeAssumption
<1>4. [i \in Cells |-> IF i <= n THEN wire[d][i] ELSE data[d][i]] \in [Cells -> Nat]
  <2>1. \A i \in Cells : i <= n => wire[d][i] \in Nat
    BY <1>1 DEF Cells
  <2>2. data[d] \in [Cells -> Nat]
    BY DEF TypeOK
  <2> QED
    BY <2>1, <2>2
<1>5. /\ data' = [data EXCEPT ![d] = [i \in Cells |-> IF i <= n THEN wire[d][i] ELSE @[i]]]
      /\ len' = [len EXCEPT ![d] = n]
      /\ wire' = [wire EXCEPT ![d] = SubSeq(@, n + 1, Len(@))]
  BY DEF Read, n
<1>6. data' \in [Dir -> [Cells -> Nat]]
  BY <1>4, <1>5 DEF TypeOK
<1>7. wire' \in [Dir -> Seq(Nat)] /\ len' \in [Dir -> 0 .. Word - 1]
  BY <1>2, <1>3, <1>5 DEF TypeOK
<1> QED
  BY <1>6, <1>7 DEF TypeOK, Read, asking

LEMMA TypeStop ==
    ASSUME TypeOK, NEW d \in Dir, Stop(d)
    PROVE  /\ st' \in [Dir -> {"off", "reading", "writing", "stopped"}]
           /\ phase' \in {phase, "over"}
  BY DEF TypeOK, Stop

LEMMA TypeWrite == ASSUME TypeOK, NEW d \in Dir, Write(d) PROVE TypeOK'
<1>1. PICK n \in 1 .. Sendable(d) :
         /\ got' = [got EXCEPT ![d] = @ \o [i \in 1 .. n |-> data[d][i]]]
         /\ short' = IF n # len[d] THEN short \cup {d} ELSE short
         /\ len' = [len EXCEPT ![d] = Resend(d, n)]
  BY DEF Write
<1>2. len[d] \in Nat /\ n \in Nat /\ n <= Size
  BY SizeAssumption DEF TypeOK, Sendable, Min2
<1>3. [i \in 1 .. n |-> data[d][i]] \in Seq(Nat)
  <2>1. data[d] \in [Cells -> Nat]
    BY DEF TypeOK
  <2>2. \A i \in 1 .. n : i \in Cells
    BY <1>2, SizeAssumption DEF Cells
  <2>3. \A i \in 1 .. n : data[d][i] \in Nat
    BY <2>1, <2>2
  <2> QED
    BY <1>2, <2>3
<1>4. got' \in [Dir -> Seq(Nat)]
  BY <1>1, <1>3 DEF TypeOK
<1>5. Resend(d, n) \in 0 .. Word - 1
  <2>1. n - len[d] \in Int /\ Word \in Nat /\ Word > 0
    BY <1>2, SizeAssumption
  <2>2. (n - len[d]) % Word \in 0 .. Word - 1
    BY <2>1
  <2> QED
    BY <2>1, <2>2 DEF Resend
<1>6. len' \in [Dir -> 0 .. Word - 1]
  BY <1>1, <1>5 DEF TypeOK
<1> QED
  BY <1>1, <1>4, <1>6 DEF TypeOK, Write, asking, ends

LEMMA TypeDirection == ASSUME TypeOK, NEW d \in Dir, Direction(d) PROVE TypeOK'
<1>1. CASE ReadEnds(d)
  BY <1>1, TypeStop DEF ReadEnds, TypeOK, asking, ends, Phase
<1>2. CASE WriteFails(d)
  BY <1>2, TypeStop DEF WriteFails, TypeOK, asking, ends, Phase
<1> QED
  BY <1>1, <1>2, TypeRead, TypeWrite DEF Direction

LEMMA TypeNext == TypeOK /\ [Next]_vars => TypeOK'
<1> SUFFICES ASSUME TypeOK, [Next]_vars PROVE TypeOK'
  OBVIOUS
<1>1. CASE UNCHANGED vars
  BY <1>1 DEF vars, TypeOK, asking, relay, ends
<1> QED
  BY <1>1, TypeAsk, TypeEnd, TypeSession, TypeDirection DEF Next

(* Every variable keeps its type; the length that is sent again is a       *)
(* size_t.                                                                 *)
THEOREM LengthsSafe == Spec => []TypeOK
  BY TypeInit, TypeNext, PTL DEF Spec

-----------------------------------------------------------------------------
(* Requests and their answers.                                             *)

LEMMA GrantedPermitted ==
    ASSUME TypeOK, NEW r
    PROVE  /\ Granted(conf, r) => Permitted(r)
           /\ Permitted(r) /\ ~ Granted(conf, r) => OnlyLast(r)
<1>1. conf.newline \in BOOLEAN /\ conf.rules \in Seq([mode : Nat, addrs : SUBSET Nat])
  BY ConfAssumption DEF TypeOK
<1>2. Len(conf.rules) \in Nat /\ DOMAIN conf.rules = 1 .. Len(conf.rules)
  BY <1>1
<1>3. conf.newline => Compared(conf) = DOMAIN conf.rules
  BY <1>2 DEF Compared
<1>4. ~ conf.newline => Compared(conf) \subseteq DOMAIN conf.rules
  <2>1. 1 .. (Len(conf.rules) - 1) \subseteq 1 .. Len(conf.rules)
    BY <1>2
  <2> QED
    BY <1>2, <2>1 DEF Compared
<1> QED
  BY <1>1, <1>3, <1>4 DEF Granted, Permitted, OnlyLast

Reading == phase \in {"none", "info"}
Serving == phase \in {"resolve", "connect", "reply", "first", "accept", "second", "relay"}

(* Where the child is when the client knows what it knows, and, as long as *)
(* requests arrive in one piece, what is left unread.                      *)
Turns ==
    /\ client = "granted" => phase \in {"relay", "over"}
    /\ client = "promised" => ~ Reading
    /\ phase = "relay" => client = "granted"

Unread ==
    /\ client = "idle" => phase \in {"none", "info", "over"}
    /\ client = "rejected" => phase \in {"info", "over"}
    /\ client \in {"idle", "rejected"} /\ Reading => wire[1] = <<>>
    /\ client = "waiting" /\ Reading => wire[1] = asked /\ asked \in Request

Asked ==
    /\ Serving => message = asked /\ Granted(conf, asked)
    /\ client = "rejected" => ~ Granted(conf, asked)

AskInv == TypeOK /\ Turns /\ (~ split => Unread /\ Asked)

LEMMA AskInit == Init => AskInv
<1> SUFFICES ASSUME Init PROVE Turns /\ Unread /\ Asked
  BY TypeInit DEF AskInv
<1>1. wire[1] = <<>>
  BY DEF Init, Dir
<1> QED
  BY <1>1 DEF Init, Turns, Unread, Asked, Reading, Serving

LEMMA AskAsk == ASSUME AskInv, Ask PROVE AskInv'
<1>1. TypeOK'
  BY TypeAsk DEF AskInv
<1>2. PICK r \in Request : asked' = r /\ wire' = [wire EXCEPT ![1] = @ \o r]
  BY DEF Ask
<1>3. client' = "waiting" /\ client \in {"idle", "rejected"} /\ phase' = phase /\ phase # "over"
  BY DEF Ask
<1>4. Turns'
  BY <1>3 DEF AskInv, Turns, Reading
<1>5. ASSUME ~ split' PROVE Unread' /\ Asked'
  <2>1. wire[1] = <<>>
    BY <1>3, <1>5 DEF AskInv, Unread, Reading, Ask
  <2>2. <<>> \o r = r
    BY RequestAssumption
  <2>3. wire'[1] = r
    BY <1>2, <2>1, <2>2 DEF AskInv, TypeOK, Dir
  <2>4. ~ Serving'
    BY <1>3, <1>5 DEF AskInv, Unread, Serving, Ask
  <2> QED
    BY <1>2, <1>3, <2>3, <2>4 DEF Unread, Asked
<1> QED
  BY <1>1, <1>4, <1>5 DEF AskInv

(* A request that is read in one piece leaves nothing behind.              *)
LEMMA WholeRequest ==
    ASSUME AskInv, ReadInfo, ~ split'
    PROVE  ~ split /\ client = "waiting" /\ message' = asked /\ wire'[1] = <<>>
<1>1. PICK n \in 1 .. Len(wire[1]) :
         /\ message' = Overwrite(n)
         /\ wire' = [wire EXCEPT ![1] = SubSeq(@, n + 1, Len(@))]
         /\ split' = (split \/ n # 3)
  BY DEF ReadInfo
<1>2. phase = "info" /\ client # "granted" /\ client # "promised"
  BY DEF ReadInfo, AskInv, Turns, Reading
<1>3. ~ split /\ n = 3
  BY <1>1
<1>4. wire[1] \in Seq(Nat) /\ Len(wire[1]) \in Nat
  BY DEF AskInv, TypeOK, Dir
<1>5. wire[1] # <<>>
  BY <1>1, <1>4
<1>6. client = "waiting" /\ wire[1] = asked /\ asked \in Request
  BY <1>2, <1>3, <1>5 DEF AskInv, TypeOK, Unread, Reading
<1>7. Len(asked) = 3 /\ asked \in Seq(Nat)
  BY <1>6, RequestAssumption
<1>8. message' = asked
  BY <1>1, <1>3, <1>6, <1>7 DEF Overwrite
<1>9. SubSeq(wire[1], 4, Len(wire[1])) = <<>>
  BY <1>6, <1>7, SubSeqEmpty
<1>10. wire'[1] = <<>>
  BY <1>1, <1>3, <1>9 DEF AskInv, TypeOK, Dir
<1> QED
  BY <1>3, <1>6, <1>8, <1>10

LEMMA AskReadInfo == ASSUME AskInv, ReadInfo PROVE AskInv'
<1>1. TypeOK'
  BY TypeReadInfo DEF AskInv
<1>2. phase = "info" /\ asked' = asked /\ conf' = conf
  BY DEF ReadInfo
<1>3. \/ Granted(conf, message') /\ phase' \in {"resolve", "first"} /\ client' = client
      \/ ~ Granted(conf, message') /\ phase' = phase /\ client' = "rejected"
  BY DEF ReadInfo
<1>4. Turns'
  BY <1>2, <1>3 DEF AskInv, Turns, Reading
<1>5. ASSUME ~ split' PROVE Unread' /\ Asked'
  BY <1>2, <1>3, <1>5, WholeRequest DEF Unread, Asked, Reading, Serving, Granted
<1> QED
  BY <1>1, <1>4, <1>5 DEF AskInv

(* What leaves the requests and the array they are read into alone.        *)
LEMMA AskKeeps ==
    ASSUME AskInv, TypeOK', UNCHANGED <<conf, message, asked, client, split>>, wire'[1] = wire[1],
           \/ phase' = phase
           \/ Reading /\ phase' = "info"
           \/ Serving /\ Serving' /\ phase # "relay" /\ phase' # "relay"
           \/ phase' = "over"
    PROVE  AskInv'
<1>1. Turns'
  BY DEF AskInv, Turns, Reading, Serving
<1>2. ASSUME ~ split PROVE Unread' /\ Asked'
  <2>1. Unread /\ Asked
    BY <1>2 DEF AskInv
  <2> QED
    BY <2>1 DEF AskInv, Turns, Unread, Asked, Reading, Serving
<1> QED
  BY <1>1, <1>2 DEF AskInv

LEMMA AskReply == ASSUME AskInv, Reply PROVE AskInv'
<1>1. TypeOK'
  BY TypeSession DEF AskInv, Session
<1>2. CASE 1 \in rst
  BY <1>1, <1>2, AskKeeps DEF Reply, ends
<1>3. CASE 1 \notin rst
  <2>1. /\ Serving /\ Serving' /\ ~ Reading'
        /\ \/ phase' = "accept" /\ client' = "promised"
           \/ phase' = "relay" /\ client' = "granted"
        /\ UNCHANGED <<conf, message, asked, split, wire>>
    BY <1>3 DEF Reply, ends, Serving, Reading
  <2>2. Turns'
    BY <2>1 DEF Turns
  <2>3. ASSUME ~ split PROVE Unread' /\ Asked'
    BY <2>1, <2>3 DEF AskInv, Unread, Asked, Granted
  <2> QED
    BY <1>1, <2>1, <2>2, <2>3 DEF AskInv
<1> QED
  BY <1>2, <1>3

LEMMA AskSession == ASSUME AskInv, Session \/ Accepting \/ DoAccept PROVE AskInv'
<1>1. TypeOK'
  BY TypeSession DEF AskInv
<1>2. CASE InfoEnds
  BY <1>1, <1>2, AskKeeps DEF InfoEnds, asking, ends
<1>3. CASE DoConnect
  BY <1>1, <1>3, AskKeeps DEF DoConnect, asking, ends, Serving
<1>4. CASE Fork
  BY <1>1, <1>4, AskKeeps DEF Fork, asking, ends, Reading
<1>5. CASE ParentCloses
  BY <1>1, <1>5, AskKeeps DEF ParentCloses, asking, ends
<1>6. CASE DoAccept
  BY <1>1, <1>6, AskKeeps DEF DoAccept, asking, ends, Serving
<1> QED
  BY <1>2, <1>3, <1>4, <1>5, <1>6, AskReadInfo, AskReply DEF Session, Accepting

(* Of what the child relays and the ends send, only the client's data and  *)
(* the reading of it touch the client's wire; both come after the answer.  *)
LEMMA AskRelayed ==
    ASSUME AskInv, TypeOK', UNCHANGED <<conf, message, asked, client, split, phase>>,
           client = "granted"
    PROVE  AskInv'
  BY DEF AskInv, Turns, Unread, Asked, Reading, Serving, Granted

LEMMA AskEnd == ASSUME AskInv, NEW e \in Dir, End(e) PROVE AskInv'
<1>1. TypeOK'
  BY TypeEnd DEF AskInv
<1>2. CASE Send(e) /\ e = 1
  BY <1>1, <1>2, AskRelayed DEF Send, Talking, asking
<1>3. CASE Send(e) /\ e # 1
  <2>1. wire'[1] = wire[1]
    BY <1>3 DEF Send, AskInv, TypeOK, Dir
  <2> QED
    BY <1>1, <1>3, <2>1, AskKeeps DEF Send, asking
<1>4. CASE Finish(e)
  BY <1>1, <1>4, AskKeeps DEF Finish, asking
<1>5. CASE Reset(e)
  BY <1>1, <1>5, AskKeeps DEF Reset, asking
<1> QED
  BY <1>2, <1>3, <1>4, <1>5 DEF End

LEMMA AskDirection == ASSUME AskInv, NEW d \in Dir, Direction(d) PROVE AskInv'
<1>1. TypeOK'
  BY TypeDirection DEF AskInv
<1>2. CASE Read(d)
  <2>1. client = "granted"
    BY <1>2 DEF Read, AskInv, Turns
  <2> QED
    BY <1>1, <1>2, <2>1, AskRelayed DEF Read, asking
<1>3. CASE ReadEnds(d)
  BY <1>1, <1>3, AskKeeps DEF ReadEnds, Stop, asking, ends
<1>4. CASE Write(d)
  BY <1>1, <1>4, AskKeeps DEF Write, asking, ends
<1>5. CASE WriteFails(d)
  BY <1>1, <1>5, AskKeeps DEF WriteFails, Stop, asking, ends
<1> QED
  BY <1>2, <1>3, <1>4, <1>5 DEF Direction

LEMMA AskNext == AskInv /\ [Next]_vars => AskInv'
<1> SUFFICES ASSUME AskInv, [Next]_vars PROVE AskInv'
  OBVIOUS
<1>1. CASE UNCHANGED vars
  <2>1. TypeOK'
    BY <1>1, TypeNext DEF AskInv
  <2> QED
    BY <1>1, <2>1, AskKeeps DEF vars, asking, ends
<1> QED
  BY <1>1, AskAsk, AskEnd, AskSession, AskDirection DEF Next

LEMMA AskSafe == Spec => []AskInv
  BY AskInit, AskNext, PTL DEF Spec

(* A client that sends its requests in one piece each is served what it    *)
(* asked for last, never an earlier request it was refused, and is refused *)
(* nothing that a finished line of socks.conf permits.                     *)
THEOREM AnswersSafe == Spec => []AnswersAsked
<1>1. AskInv => AnswersAsked
  <2> SUFFICES ASSUME AskInv, ~ split
               PROVE  /\ phase \notin {"none", "info", "over"} =>
                             message = asked /\ Permitted(asked)
                      /\ client = "rejected" /\ Permitted(asked) => OnlyLast(asked)
    BY DEF AnswersAsked
  <2>1. phase \notin {"none", "info", "over"} => Serving
    BY DEF AskInv, TypeOK, Phase, Serving
  <2> QED
    BY <2>1, GrantedPermitted DEF AskInv, Asked
<1> QED
  BY <1>1, AskSafe, PTL

-----------------------------------------------------------------------------
(* What is on its way in one direction: the source has sent s, the sink    *)
(* has g, n cells of the array a are to be sent and w is not yet read.     *)
Pipeline(s, g, a, n, w) ==
    /\ n \in Nat
    /\ Len(s) = Len(g) + n + Len(w)
    /\ \A i \in 1 .. Len(g) : s[i] = g[i]
    /\ \A i \in 1 .. n : s[Len(g) + i] = a[i]
    /\ \A i \in 1 .. Len(w) : s[Len(g) + n + i] = w[i]

LEMMA PipelineEmpty == \A a : Pipeline(<<>>, <<>>, a, 0, <<>>)
  BY DEF Pipeline

LEMMA PipelineDone ==
    ASSUME NEW s \in Seq(Nat), NEW g \in Seq(Nat), NEW a, Pipeline(s, g, a, 0, <<>>)
    PROVE  g = s
<1>1. Len(g) = Len(s) /\ \A i \in 1 .. Len(g) : g[i] = s[i]
  BY DEF Pipeline
<1> QED
  BY <1>1, SeqEqual

LEMMA PipelinePut ==
    ASSUME NEW s \in Seq(Nat), NEW g \in Seq(Nat), NEW a, NEW n, NEW w \in Seq(Nat),
           NEW c \in Nat, Pipeline(s, g, a, n, w)
    PROVE  Pipeline(Append(s, c), g, a, n, Append(w, c))
<1> DEFINE t == Append(s, c)
           v == Append(w, c)
<1>1. /\ Len(s) \in Nat /\ Len(g) \in Nat /\ Len(w) \in Nat /\ n \in Nat
      /\ Len(s) = Len(g) + n + Len(w)
  BY DEF Pipeline
<1>2. /\ Len(t) = Len(s) + 1 /\ Len(v) = Len(w) + 1
      /\ \A i \in 1 .. Len(s) : t[i] = s[i]
      /\ \A i \in 1 .. Len(w) : v[i] = w[i]
      /\ t[Len(s) + 1] = c /\ v[Len(w) + 1] = c
  BY AppendProperties
<1> HIDE DEF t, v
<1>3. \A i \in 1 .. Len(g) : t[i] = g[i]
  BY <1>1, <1>2 DEF Pipeline
<1>4. \A i \in 1 .. n : t[Len(g) + i] = a[i]
  BY <1>1, <1>2 DEF Pipeline
<1>5. ASSUME NEW i \in 1 .. Len(v) PROVE t[Len(g) + n + i] = v[i]
  <2>1. CASE i \in 1 .. Len(w)
    <3>1. Len(g) + n + i \in 1 .. Len(s)
      BY <1>1, <2>1
    <3>2. s[Len(g) + n + i] = w[i]
      BY <2>1 DEF Pipeline
    <3> QED
      BY <1>2, <2>1, <3>1, <3>2
  <2>2. CASE i = Len(w) + 1
    <3>1. Len(g) + n + i = Len(s) + 1
      BY <1>1, <2>2
    <3> QED
      BY <1>2, <2>2, <3>1
  <2>3. i \in 1 .. Len(w) \/ i = Len(w) + 1
    BY <1>1, <1>2
  <2> QED
    BY <2>1, <2>2, <2>3
<1> QED
  BY <1>1, <1>2, <1>3, <1>4, <1>5 DEF Pipeline, t, v

LEMMA PipelineRead ==
    ASSUME NEW s \in Seq(Nat), NEW g \in Seq(Nat), NEW a, NEW w \in Seq(Nat),
           NEW m \in Nat, m <= Len(w), NEW b, \A i \in 1 .. m : b[i] = w[i],
           Pipeline(s, g, a, 0, w)
    PROVE  Pipeline(s, g, b, m, SubSeq(w, m + 1, Len(w)))
<1> DEFINE v == SubSeq(w, m + 1, Len(w))
<1>1. /\ Len(s) \in Nat /\ Len(g) \in Nat /\ Len(w) \in Nat
      /\ Len(s) = Len(g) + Len(w)
  BY DEF Pipeline
<1>2. Len(v) = Len(w) - m /\ \A i \in 1 .. Len(w) - m : v[i] = w[m + i]
  <2>1. \A i \in m + 1 .. Len(w) : w[i] \in Nat
    BY <1>1
  <2>2. /\ Len(v) = IF m + 1 <= Len(w) THEN Len(w) - (m + 1) + 1 ELSE 0
        /\ \A i \in 1 .. Len(w) - (m + 1) + 1 : v[i] = w[(m + 1) + i - 1]
    BY <1>1, <2>1, SubSeqProperties
  <2> HIDE DEF v
  <2>3. \A i \in Nat : (m + 1) + i - 1 = m + i
    OBVIOUS
  <2> QED
    BY <1>1, <2>2, <2>3
<1> HIDE DEF v
<1>3. ASSUME NEW i \in 1 .. m PROVE s[Len(g) + i] = b[i]
  <2>1. i \in 1 .. Len(w) /\ Len(g) + 0 + i = Len(g) + i
    BY <1>1
  <2>2. s[Len(g) + 0 + i] = w[i]
    BY <2>1 DEF Pipeline
  <2> QED
    BY <2>1, <2>2
<1>4. ASSUME NEW i \in 1 .. Len(v) PROVE s[Len(g) + m + i] = v[i]
  <2>1. m + i \in 1 .. Len(w) /\ Len(g) + m + i = Len(g) + 0 + (m + i)
    BY <1>1, <1>2
  <2>2. s[Len(g) + 0 + (m + i)] = w[m + i]
    BY <2>1 DEF Pipeline
  <2> QED
    BY <1>2, <2>1, <2>2
<1>5. \A i \in 1 .. Len(g) : s[i] = g[i]
  BY DEF Pipeline
<1>6. Len(s) = Len(g) + m + Len(v)
  BY <1>1, <1>2
<1>7. Pipeline(s, g, b, m, v)
  BY <1>3, <1>4, <1>5, <1>6 DEF Pipeline
<1> QED
  BY <1>7 DEF v

LEMMA PipelineWrite ==
    ASSUME NEW s \in Seq(Nat), NEW g \in Seq(Nat), NEW a, NEW n \in Nat, NEW w \in Seq(Nat),
           \A i \in 1 .. n : a[i] \in Nat, Pipeline(s, g, a, n, w),
           NEW h, h = g \o [i \in 1 .. n |-> a[i]]
    PROVE  /\ Pipeline(s, h, a, 0, w)
           /\ h = SubSeq(s, 1, Len(g) + n)
           /\ Len(g) + n <= Len(s)
<1> DEFINE b == [i \in 1 .. n |-> a[i]]
<1>1. b \in Seq(Nat) /\ Len(b) = n /\ \A i \in 1 .. n : b[i] = a[i]
  OBVIOUS
<1> HIDE DEF b
<1>2. /\ Len(s) \in Nat /\ Len(g) \in Nat /\ Len(w) \in Nat
      /\ Len(s) = Len(g) + n + Len(w)
  BY DEF Pipeline
<1>3. h \in Seq(Nat) /\ Len(h) = Len(g) + n
  BY <1>1, ConcatProperties DEF b
<1>4. \A i \in 1 .. Len(g) + n : h[i] = IF i <= Len(g) THEN g[i] ELSE b[i - Len(g)]
  BY <1>1, ConcatProperties DEF b
<1>5. ASSUME NEW i \in 1 .. Len(h) PROVE s[i] = h[i]
  <2>1. CASE i <= Len(g)
    <3>1. i \in 1 .. Len(g) /\ i \in 1 .. Len(g) + n
      BY <1>2, <1>3, <2>1
    <3> QED
      BY <1>4, <2>1, <3>1 DEF Pipeline
  <2>2. CASE i > Len(g)
    <3>1. i - Len(g) \in 1 .. n /\ Len(g) + (i - Len(g)) = i
      BY <1>2, <1>3, <2>2
    <3>2. s[Len(g) + (i - Len(g))] = a[i - Len(g)]
      BY <3>1 DEF Pipeline
    <3>3. i \in 1 .. Len(g) + n /\ ~ (i <= Len(g))
      BY <1>2, <1>3, <2>2
    <3>4. h[i] = b[i - Len(g)]
      BY <1>4, <3>3
    <3> QED
      BY <1>1, <3>1, <3>2, <3>4
  <2> QED
    BY <1>2, <1>3, <2>1, <2>2
<1>6. \A i \in 1 .. Len(w) : s[Len(h) + 0 + i] = w[i]
  BY <1>2, <1>3 DEF Pipeline
<1>7. Pipeline(s, h, a, 0, w)
  BY <1>2, <1>3, <1>5, <1>6 DEF Pipeline
<1>8. h = SubSeq(s, 1, Len(g) + n)
  <2>1. \A i \in 1 .. Len(g) + n : s[i] \in Nat
    BY <1>2
  <2>2. /\ SubSeq(s, 1, Len(g) + n) \in Seq(Nat)
        /\ Len(SubSeq(s, 1, Len(g) + n)) = Len(g) + n
        /\ \A i \in 1 .. Len(g) + n : SubSeq(s, 1, Len(g) + n)[i] = s[i]
    BY <1>2, <2>1, SubSeqProperties
  <2> QED
    BY <1>3, <1>5, <2>2, SeqEqual
<1> QED
  BY <1>2, <1>7, <1>8

-----------------------------------------------------------------------------
(* The relay.  Until a direction is spoilt, it is a pipeline; before the   *)
(* client's request is granted, what it has sent is no data.               *)
Spoilt(d) == d \in short \/ (d = 1 /\ split)
Pending(d) == IF st[d] = "writing" THEN len[d] ELSE 0
Carries(d) == ~ Spoilt(d) /\ st[d] # "stopped" /\ (Serving \/ (d = 2 /\ Reading))

Flows == \A d \in Dir :
    Carries(d) => Pipeline(sent[d], got[d], data[d], Pending(d), wire[d])

Quiet ==
    /\ phase \notin {"relay", "over"} => \A d \in Dir : st[d] = "off" /\ got[d] = <<>>
    /\ client # "granted" => sent[1] = <<>>

Stopped(d) == Spoilt(d) \/ rst # {} \/ (d \in fin /\ got[d] = sent[d])

Ends ==
    /\ \A d \in Dir : st[d] = "stopped" => Stopped(d)
    /\ \A d \in shut : st[d] = "stopped"
    /\ phase = "over" /\ client = "granted" => \A d \in Dir : st[d] = "stopped"

FlowInv == AskInv /\ Flows /\ Quiet /\ Ends

LEMMA FlowInit == Init => FlowInv
<1> SUFFICES ASSUME Init PROVE Flows /\ Quiet /\ Ends
  BY AskInit DEF FlowInv
<1>1. \A d \in Dir : sent[d] = <<>> /\ got[d] = <<>> /\ wire[d] = <<>> /\ st[d] = "off"
  BY DEF Init
<1>2. phase = "none" /\ client = "idle" /\ shut = {}
  BY DEF Init
<1>3. Flows
  BY <1>1, PipelineEmpty DEF Flows, Pending
<1>4. Quiet
  BY <1>1 DEF Quiet, Dir
<1>5. Ends
  BY <1>1, <1>2 DEF Ends
<1> QED
  BY <1>3, <1>4, <1>5

(* What neither sends nor relays: ends may finish or reset.                *)
LEMMA FlowKeeps ==
    ASSUME FlowInv, AskInv',
           UNCHANGED <<sent, got, data, len, wire, st, shut, short, split, client>>,
           fin \subseteq fin', rst \subseteq rst',
           phase' # phase => phase # "relay" /\ phase' # "relay" /\ client # "granted",
           Serving' => Serving, Reading' => Reading, phase = "over" => phase' = "over"
    PROVE  FlowInv'
<1>1. Flows'
  BY DEF FlowInv, Flows, Carries, Spoilt, Pending
<1>2. Quiet'
  BY DEF FlowInv, Quiet
<1>3. ASSUME NEW d \in Dir, Stopped(d) PROVE Stopped(d)'
  BY <1>3 DEF Stopped, Spoilt
<1>4. Ends'
  BY <1>3 DEF FlowInv, Ends
<1> QED
  BY <1>1, <1>2, <1>4 DEF FlowInv

LEMMA FlowReadInfo == ASSUME FlowInv, ReadInfo PROVE FlowInv'
<1>1. AskInv'
  BY AskReadInfo DEF FlowInv
<1>2. /\ phase = "info" /\ phase' \in {"info", "resolve", "first"}
      /\ client' \in {client, "rejected"} /\ client # "granted"
      /\ UNCHANGED <<sent, got, data, len, st, shut, short, fin, rst>>
  BY DEF ReadInfo, relay, FlowInv, AskInv, Turns
<1>3. \A d \in Dir : st[d] = "off" /\ got[d] = <<>>
  BY <1>2 DEF FlowInv, Quiet
<1>4. wire'[2] = wire[2]
  BY DEF ReadInfo, FlowInv, AskInv, TypeOK, Dir
<1>5. ASSUME Carries(1)' PROVE Pipeline(sent[1], got[1], data[1], 0, wire[1])'
  <2>1. wire'[1] = <<>>
    BY <1>5, WholeRequest DEF FlowInv, Carries, Spoilt
  <2>2. sent[1] = <<>> /\ got[1] = <<>>
    BY <1>2, <1>3 DEF FlowInv, Quiet, Dir
  <2> QED
    BY <1>2, <2>1, <2>2, PipelineEmpty
<1>6. Pipeline(sent[2], got[2], data[2], 0, wire[2])' \/ Spoilt(2)'
  <2>1. CASE Spoilt(2)
    BY <1>2, <2>1 DEF Spoilt
  <2>2. CASE ~ Spoilt(2)
    <3>1. Pipeline(sent[2], got[2], data[2], Pending(2), wire[2])
      BY <1>2, <1>3, <2>2 DEF FlowInv, Flows, Carries, Reading, Dir
    <3> QED
      BY <1>2, <1>3, <1>4, <3>1 DEF Pending, Dir
  <2> QED
    BY <2>1, <2>2
<1>7. Flows'
  BY <1>2, <1>3, <1>5, <1>6 DEF Flows, Carries, Pending, Dir
<1>8. Quiet'
  BY <1>2, <1>3 DEF FlowInv, Quiet
<1>9. Ends'
  BY <1>2, <1>3 DEF FlowInv, Ends
<1> QED
  BY <1>1, <1>7, <1>8, <1>9 DEF FlowInv

LEMMA FlowReply == ASSUME FlowInv, Reply PROVE FlowInv'
<1>1. AskInv'
  BY AskReply DEF FlowInv
<1>2. /\ phase \in {"reply", "first", "second"} /\ client # "granted"
      /\ UNCHANGED <<sent, got, data, len, shut, short, wire, fin, rst, split>>
  BY DEF Reply, ends, FlowInv, AskInv, Turns
<1>3. \A d \in Dir : st[d] = "off" /\ got[d] = <<>>
  BY <1>2 DEF FlowInv, Quiet
<1>4. Serving /\ shut = {}
  BY <1>2, <1>3 DEF FlowInv, AskInv, TypeOK, Ends, Serving
<1>5. \A d \in Dir : st'[d] \in {"off", "reading"}
  BY <1>3 DEF Reply
<1>6. Flows'
  BY <1>2, <1>3, <1>4, <1>5 DEF FlowInv, Flows, Carries, Spoilt, Pending
<1>7. Quiet'
  BY <1>2, <1>3 DEF FlowInv, Quiet, Reply
<1>8. Ends'
  <2>1. ~ (phase' = "over" /\ client' = "granted")
    BY <1>2 DEF Reply
  <2> QED
    BY <1>2, <1>4, <1>5, <2>1 DEF Ends
<1> QED
  BY <1>1, <1>6, <1>7, <1>8 DEF FlowInv

LEMMA FlowSend == ASSUME FlowInv, NEW e \in Dir, Send(e) PROVE FlowInv'
<1>1. AskInv'
  BY AskEnd DEF FlowInv, End
<1>2. PICK c \in Nat : /\ wire' = [wire EXCEPT ![e] = Append(@, c)]
                       /\ sent' = [sent EXCEPT ![e] = Append(@, c)]
  BY CellNat DEF Send, FlowInv, AskInv
<1>3. /\ UNCHANGED <<phase, client, split, st, data, len, got, shut, short, fin, rst>>
      /\ e \notin fin /\ (e = 1 => client = "granted")
  BY DEF Send, Talking, asking, relay
<1>4. TypeOK
  BY DEF FlowInv, AskInv
<1>5. ASSUME NEW d \in Dir, Carries(d)'
      PROVE  Pipeline(sent[d], got[d], data[d], Pending(d), wire[d])'
  <2>1. Pipeline(sent[d], got[d], data[d], Pending(d), wire[d])
    BY <1>3, <1>5 DEF FlowInv, Flows, Carries, Spoilt, Serving, Reading
  <2>2. got'[d] = got[d] /\ data'[d] = data[d] /\ Pending(d)' = Pending(d)
    BY <1>3 DEF Pending
  <2>3. CASE d = e
    <3>1. sent'[d] = Append(sent[d], c) /\ wire'[d] = Append(wire[d], c)
      BY <1>2, <1>4, <2>3 DEF TypeOK
    <3>2. sent[d] \in Seq(Nat) /\ got[d] \in Seq(Nat) /\ wire[d] \in Seq(Nat)
      BY <1>4 DEF TypeOK
    <3>3. Pipeline(sent'[d], got[d], data[d], Pending(d), wire'[d])
      BY <2>1, <3>1, <3>2, PipelinePut
    <3> QED
      BY <2>2, <3>3
  <2>4. CASE d # e
    <3>1. sent'[d] = sent[d] /\ wire'[d] = wire[d]
      BY <1>2, <1>4, <2>4 DEF TypeOK
    <3> QED
      BY <2>1, <2>2, <3>1
  <2> QED
    BY <2>3, <2>4
<1>6. Flows'
  BY <1>5 DEF Flows
<1>7. Quiet'
  <2>1. client # "granted" => sent'[1] = sent[1]
    BY <1>2, <1>3, <1>4 DEF TypeOK, Dir
  <2> QED
    BY <1>3, <2>1 DEF FlowInv, Quiet
<1>8. ASSUME NEW d \in Dir, Stopped(d) PROVE Stopped(d)'
  <2>1. d \in fin => sent'[d] = sent[d]
    BY <1>2, <1>3, <1>4 DEF TypeOK
  <2> QED
    BY <1>3, <1>8, <2>1 DEF Stopped, Spoilt
<1>9. Ends'
  BY <1>3, <1>8 DEF FlowInv, Ends
<1> QED
  BY <1>1, <1>6, <1>7, <1>9 DEF FlowInv

(* While the relay runs.                                                   *)
LEMMA Relaying ==
    ASSUME FlowInv, phase = "relay", NEW d \in Dir
    PROVE  /\ client = "granted" /\ Serving /\ TypeOK
           /\ sent[d] \in Seq(Nat) /\ got[d] \in Seq(Nat) /\ wire[d] \in Seq(Nat)
           /\ ~ Spoilt(d) /\ st[d] # "stopped" =>
                  Pipeline(sent[d], got[d], data[d], Pending(d), wire[d])
  BY DEF FlowInv, AskInv, Turns, TypeOK, Serving, Flows, Carries

LEMMA FlowRead == ASSUME FlowInv, NEW d \in Dir, Read(d) PROVE FlowInv'
<1> DEFINE m == Min2(Size, Len(wire[d]))
<1>1. AskInv'
  BY AskDirection DEF FlowInv, Direction
<1>2. /\ phase = "relay" /\ st[d] = "reading"
      /\ data' = [data EXCEPT ![d] = [i \in Cells |-> IF i <= m THEN wire[d][i] ELSE @[i]]]
      /\ len' = [len EXCEPT ![d] = m]
      /\ wire' = [wire EXCEPT ![d] = SubSeq(@, m + 1, Len(@))]
      /\ st' = [st EXCEPT ![d] = "writing"]
      /\ UNCHANGED <<phase, client, split, got, shut, short, sent, fin, rst>>
  BY DEF Read, asking
<1>3. m \in Nat /\ m <= Size /\ m <= Len(wire[d])
  BY ReadLength DEF FlowInv, AskInv
<1> HIDE DEF m
<1>4. TypeOK /\ client = "granted"
  BY <1>2, Relaying
<1>5. ASSUME NEW e \in Dir, Carries(e)'
      PROVE  Pipeline(sent[e], got[e], data[e], Pending(e), wire[e])'
  <2>1. ~ Spoilt(e)
    BY <1>2, <1>5 DEF Carries, Spoilt
  <2>2. CASE e = d
    <3>1. Pipeline(sent[d], got[d], data[d], 0, wire[d])
      BY <1>2, <2>1, <2>2, Relaying DEF Pending
    <3>2. \A i \in 1 .. m : data'[d][i] = wire[d][i]
      <4>1. data'[d] = [i \in Cells |-> IF i <= m THEN wire[d][i] ELSE data[d][i]]
        BY <1>2, <1>4 DEF TypeOK
      <4>2. \A i \in 1 .. m : i \in Cells /\ i <= m
        BY <1>3, SizeAssumption DEF Cells
      <4> QED
        BY <4>1, <4>2
    <3>3. sent[d] \in Seq(Nat) /\ got[d] \in Seq(Nat) /\ wire[d] \in Seq(Nat)
      BY <1>4 DEF TypeOK
    <3>4. Pipeline(sent[d], got[d], data'[d], m, SubSeq(wire[d], m + 1, Len(wire[d])))
      BY <1>3, <3>1, <3>2, <3>3, PipelineRead
    <3>5. wire'[d] = SubSeq(wire[d], m + 1, Len(wire[d])) /\ Pending(d)' = m
      BY <1>2, <1>4 DEF TypeOK, Pending
    <3> QED
      BY <1>2, <2>2, <3>4, <3>5
  <2>3. CASE e # d
    <3>1. /\ wire'[e] = wire[e] /\ data'[e] = data[e] /\ Pending(e)' = Pending(e)
          /\ st'[e] = st[e]
      BY <1>2, <1>4, <2>3 DEF TypeOK, Pending
    <3> QED
      BY <1>2, <1>5, <2>1, <3>1, Relaying DEF Carries
  <2> QED
    BY <2>2, <2>3
<1>6. Flows'
  BY <1>5 DEF Flows
<1>7. Quiet'
  BY <1>2, <1>4 DEF Quiet
<1>8. \A e \in Dir : st'[e] = "stopped" => st[e] = "stopped"
  BY <1>2, <1>4 DEF TypeOK
<1>9. Ends'
  <2>1. \A e \in Dir : Stopped(e)' <=> Stopped(e)
    BY <1>2 DEF Stopped, Spoilt
  <2>2. \A e \in shut : st'[e] = "stopped"
    BY <1>2, <1>4 DEF FlowInv, Ends, TypeOK
  <2> QED
    BY <1>2, <1>8, <2>1, <2>2 DEF FlowInv, Ends
<1> QED
  BY <1>1, <1>6, <1>7, <1>9 DEF FlowInv

(* A send that takes everything: what the sink has grows along what the    *)
(* source sent.                                                            *)
LEMMA WholeWrite ==
    ASSUME FlowInv, NEW d \in Dir, Write(d), ~ Spoilt(d)'
    PROVE  /\ got'[d] = SubSeq(sent[d], 1, Len(got[d]) + len[d])
           /\ Len(got[d]) + len[d] <= Len(sent[d]) /\ len[d] >= 1
           /\ st' = [st EXCEPT ![d] = "reading"]
           /\ Pipeline(sent[d], got'[d], data[d], 0, wire[d])
<1>1. PICK n \in 1 .. Sendable(d) :
         /\ got' = [got EXCEPT ![d] = @ \o [i \in 1 .. n |-> data[d][i]]]
         /\ short' = IF n # len[d] THEN short \cup {d} ELSE short
         /\ len' = [len EXCEPT ![d] = Resend(d, n)]
  BY DEF Write
<1>2. phase = "relay" /\ st[d] = "writing" /\ split' = split
      /\ st' = [st EXCEPT ![d] = IF len'[d] = 0 THEN "reading" ELSE "writing"]
  BY DEF Write, asking
<1>3. TypeOK
  BY DEF FlowInv, AskInv
<1>4. n = len[d] /\ ~ Spoilt(d)
  BY <1>1, <1>2 DEF Spoilt
<1>5. len'[d] = 0
  BY <1>1, <1>3, <1>4 DEF Resend, TypeOK
<1>6. Pipeline(sent[d], got[d], data[d], n, wire[d])
  BY <1>2, <1>4, Relaying DEF Pending
<1>7. n \in Nat /\ n >= 1 /\ n <= Size
  BY <1>3, <1>4, SizeAssumption DEF TypeOK, Sendable, Min2
<1>8. \A i \in 1 .. n : data[d][i] \in Nat
  <2>1. data[d] \in [Cells -> Nat]
    BY <1>3 DEF TypeOK
  <2>2. \A i \in 1 .. n : i \in Cells
    BY <1>7, SizeAssumption DEF Cells
  <2> QED
    BY <2>1, <2>2
<1>9. got'[d] = got[d] \o [i \in 1 .. n |-> data[d][i]]
  BY <1>1, <1>3 DEF TypeOK
<1>10. sent[d] \in Seq(Nat) /\ got[d] \in Seq(Nat) /\ wire[d] \in Seq(Nat)
  BY <1>3 DEF TypeOK
<1>11. /\ Pipeline(sent[d], got'[d], data[d], 0, wire[d])
       /\ got'[d] = SubSeq(sent[d], 1, Len(got[d]) + n)
       /\ Len(got[d]) + n <= Len(sent[d])
  BY <1>6, <1>7, <1>8, <1>9, <1>10, PipelineWrite
<1> QED
  BY <1>2, <1>4, <1>5, <1>7, <1>11

LEMMA FlowWrite == ASSUME FlowInv, NEW d \in Dir, Write(d) PROVE FlowInv'
<1>1. AskInv'
  BY AskDirection DEF FlowInv, Direction
<1>2. PICK n : /\ got' = [got EXCEPT ![d] = @ \o [i \in 1 .. n |-> data[d][i]]]
               /\ len' = [len EXCEPT ![d] = Resend(d, n)]
  BY DEF Write
<1>3. /\ phase = "relay" /\ st[d] = "writing"
      /\ st' = [st EXCEPT ![d] = IF len'[d] = 0 THEN "reading" ELSE "writing"]
      /\ short \subseteq short'
      /\ UNCHANGED <<phase, client, split, data, shut, wire, sent, fin, rst>>
  BY DEF Write, asking, ends
<1>4. TypeOK /\ client = "granted"
  BY <1>3, Relaying
<1>5. ASSUME NEW e \in Dir, Carries(e)'
      PROVE  Pipeline(sent[e], got[e], data[e], Pending(e), wire[e])'
  <2>1. ~ Spoilt(e)' /\ ~ Spoilt(e)
    BY <1>3, <1>5 DEF Carries, Spoilt
  <2>2. CASE e = d
    <3>1. Pending(d)' = 0
      BY <1>4, <2>1, <2>2, WholeWrite DEF TypeOK, Pending
    <3> QED
      BY <1>3, <2>1, <2>2, <3>1, WholeWrite
  <2>3. CASE e # d
    <3>1. got'[e] = got[e] /\ st'[e] = st[e] /\ Pending(e)' = Pending(e)
      BY <1>2, <1>3, <1>4, <2>3 DEF TypeOK, Pending
    <3> QED
      BY <1>3, <1>5, <2>1, <3>1, Relaying DEF Carries
  <2> QED
    BY <2>2, <2>3
<1>6. Flows'
  BY <1>5 DEF Flows
<1>7. Quiet'
  BY <1>3, <1>4 DEF Quiet
<1>8. ASSUME NEW e \in Dir, st'[e] = "stopped" PROVE Stopped(e)'
  <2>1. e # d /\ st[e] = "stopped"
    BY <1>3, <1>4, <1>8 DEF TypeOK
  <2>2. Stopped(e) /\ got'[e] = got[e]
    BY <1>2, <1>4, <2>1 DEF FlowInv, Ends, TypeOK
  <2> QED
    BY <1>3, <2>2 DEF Stopped, Spoilt
<1>9. Ends'
  <2>1. \A e \in shut : st'[e] = "stopped"
    BY <1>3, <1>4 DEF FlowInv, Ends, TypeOK
  <2> QED
    BY <1>3, <1>8, <2>1 DEF Ends
<1> QED
  BY <1>1, <1>6, <1>7, <1>9 DEF FlowInv

(* A direction stops for a reason.                                         *)
LEMMA FlowStops ==
    ASSUME FlowInv, NEW d \in Dir, AskInv', phase = "relay", Stop(d), Stopped(d),
           shut' \in {shut, shut \cup {d}},
           UNCHANGED <<client, split, data, len, got, short, wire, sent, fin, rst>>
    PROVE  FlowInv'
<1>1. TypeOK /\ client = "granted"
  BY Relaying
<1>2. st'[d] = "stopped" /\ \A e \in Dir \ {d} : st'[e] = st[e]
  BY <1>1 DEF Stop, TypeOK
<1>3. phase' = "over" => \A e \in Dir : st'[e] = "stopped"
  BY <1>2 DEF Stop, Sink, Dir
<1>4. Flows'
  BY <1>2, Relaying DEF Flows, Carries, Pending, Spoilt
<1>5. Quiet'
  BY <1>1 DEF Quiet, Stop
<1>6. \A e \in Dir : Stopped(e)' <=> Stopped(e)
  BY DEF Stopped, Spoilt
<1>7. Ends'
  BY <1>1, <1>2, <1>3, <1>6 DEF FlowInv, Ends, TypeOK
<1> QED
  BY <1>4, <1>5, <1>7 DEF FlowInv

LEMMA FlowReadEnds == ASSUME FlowInv, NEW d \in Dir, ReadEnds(d) PROVE FlowInv'
<1>1. AskInv'
  BY AskDirection DEF FlowInv, Direction
<1>2. /\ phase = "relay" /\ st[d] = "reading" /\ wire[d] = <<>> /\ Stop(d)
      /\ d \in fin \/ d \in rst
      /\ shut' \in {shut, shut \cup {d}}
      /\ UNCHANGED <<client, split, data, len, got, short, wire, sent, fin, rst>>
  BY DEF ReadEnds, asking, ends
<1>3. Stopped(d)
  <2>1. CASE Spoilt(d) \/ d \in rst
    BY <2>1 DEF Stopped
  <2>2. CASE ~ Spoilt(d) /\ d \in fin
    <3>1. Pipeline(sent[d], got[d], data[d], 0, <<>>)
      BY <1>2, <2>2, Relaying DEF Pending
    <3>2. got[d] = sent[d]
      BY <1>2, <3>1, Relaying, PipelineDone
    <3> QED
      BY <2>2, <3>2 DEF Stopped
  <2> QED
    BY <1>2, <2>1, <2>2
<1> QED
  BY <1>1, <1>2, <1>3, FlowStops

LEMMA FlowWriteFails == ASSUME FlowInv, NEW d \in Dir, WriteFails(d) PROVE FlowInv'
<1>1. AskInv'
  BY AskDirection DEF FlowInv, Direction
<1>2. /\ phase = "relay" /\ Stop(d) /\ rst # {}
      /\ UNCHANGED <<client, split, data, len, got, shut, short, wire, sent, fin, rst>>
  BY DEF WriteFails, asking, ends
<1> QED
  BY <1>1, <1>2, FlowStops DEF Stopped

(* A request is never among the data of a relay.                           *)
LEMMA FlowAsk == ASSUME FlowInv, Ask PROVE FlowInv'
<1>1. AskInv'
  BY AskAsk DEF FlowInv
<1>2. /\ client \in {"idle", "rejected"} /\ client' = "waiting"
      /\ UNCHANGED <<phase, split, st, data, len, got, shut, short, sent, fin, rst>>
  BY DEF Ask, relay
<1>3. wire'[2] = wire[2]
  BY DEF Ask, FlowInv, AskInv, TypeOK, Dir
<1>4. ~ Carries(1)'
  BY <1>2 DEF FlowInv, AskInv, Unread, Carries, Spoilt, Serving, Reading
<1>5. Flows'
  BY <1>2, <1>3, <1>4 DEF FlowInv, Flows, Carries, Spoilt, Pending, Serving, Reading, Dir
<1>6. Quiet'
  BY <1>2 DEF FlowInv, Quiet
<1>7. Ends'
  BY <1>2 DEF FlowInv, Ends, Stopped, Spoilt
<1> QED
  BY <1>1, <1>5, <1>6, <1>7 DEF FlowInv

LEMMA FlowNext == FlowInv /\ [Next]_vars => FlowInv'
<1> SUFFICES ASSUME FlowInv, [Next]_vars PROVE FlowInv'
  OBVIOUS
<1> USE DEF Serving, Reading
<1>1. AskInv'
  BY AskNext DEF FlowInv
<1>2. CASE UNCHANGED vars
  BY <1>1, <1>2, FlowKeeps DEF vars, asking, relay, ends
<1>3. CASE Fork
  <2>1. client # "granted"
    BY <1>3 DEF Fork, FlowInv, AskInv, Turns
  <2> QED
    BY <1>1, <1>3, <2>1, FlowKeeps DEF Fork, asking, relay, ends
<1>4. CASE ParentCloses
  BY <1>1, <1>4, FlowKeeps DEF ParentCloses, asking, relay, ends
<1>5. CASE InfoEnds
  <2>1. client # "granted"
    BY <1>5 DEF InfoEnds, FlowInv, AskInv, Turns
  <2> QED
    BY <1>1, <1>5, <2>1, FlowKeeps DEF InfoEnds, asking, relay, ends
<1>6. CASE DoConnect \/ DoAccept
  <2>1. client # "granted"
    BY <1>6 DEF DoConnect, DoAccept, FlowInv, AskInv, Turns
  <2> QED
    BY <1>1, <1>6, <2>1, FlowKeeps DEF DoConnect, DoAccept, asking, relay, ends
<1>7. ASSUME NEW e \in Dir, Finish(e) \/ Reset(e) PROVE FlowInv'
  BY <1>1, <1>7, FlowKeeps DEF Finish, Reset, asking, relay
<1>8. ASSUME NEW d \in Dir, Direction(d) PROVE FlowInv'
  BY <1>8, FlowRead, FlowReadEnds, FlowWrite, FlowWriteFails DEF Direction
<1> QED
  BY <1>2, <1>3, <1>4, <1>5, <1>6, <1>7, <1>8, FlowAsk, FlowReadInfo, FlowReply, FlowSend
     DEF Next, Accepting, Session, End

LEMMA FlowSafe == Spec => []FlowInv
  BY FlowInit, FlowNext, PTL DEF Spec

-----------------------------------------------------------------------------
(* Each direction implements Channel: a step of the connection, as seen in *)
(* one direction, is a step of a channel or none.                          *)
Ended(d) == d \in shut \/ Over(d)
Torn == rst # {} \/ (phase = "over" /\ client # "granted")

SameData(d) == sent'[d] = sent[d] /\ got'[d] = got[d]
SameEnd(d) == (Ended(d)' <=> Ended(d)) /\ (Torn' <=> Torn)
SameDone(d) == (d \in fin') <=> (d \in fin)

ChannelStep(d) ==
    \/ Spoilt(d)'
    \/ /\ ~ Spoilt(d)
       /\ \/ SameData(d) /\ SameEnd(d) /\ (SameDone(d) \/ d \in fin')
          \/ /\ d \notin fin /\ SameDone(d) /\ SameEnd(d) /\ got'[d] = got[d]
             /\ Len(sent'[d]) = Len(sent[d]) + 1
             /\ SubSeq(sent'[d], 1, Len(sent[d])) = sent[d]
          \/ /\ ~ Ended(d) /\ SameDone(d) /\ SameEnd(d) /\ sent'[d] = sent[d]
             /\ \E n \in Len(got[d]) + 1 .. Len(sent[d]) : got'[d] = SubSeq(sent[d], 1, n)
          \/ /\ SameData(d) /\ SameDone(d)
             /\ \/ Torn' /\ (Ended(d)' \/ ~ Ended(d))
                \/ Ended(d)' /\ d \in fin /\ got[d] = sent[d] /\ (Torn' <=> Torn)

(* Where no data moves, the sink is told that it is over only when it has  *)
(* everything, or when the channel is torn.                                *)
LEMMA StepStill ==
    ASSUME FlowInv', NEW d \in Dir, SameData(d), SameDone(d), Spoilt(d) => Spoilt(d)',
           Torn => Torn', Ended(d) => Ended(d)'
    PROVE  ChannelStep(d)
<1>1. CASE Spoilt(d)' \/ Torn' \/ (Ended(d)' <=> Ended(d))
  BY <1>1 DEF ChannelStep, SameEnd
<1>2. CASE ~ Spoilt(d)' /\ ~ Torn' /\ Ended(d)' /\ ~ Ended(d)
  <2>1. st'[d] = "stopped"
    BY <1>2 DEF FlowInv, Ends, Ended, Over, Torn
  <2>2. d \in fin' /\ got'[d] = sent'[d]
    BY <1>2, <2>1 DEF FlowInv, Ends, Stopped, Torn
  <2> QED
    BY <1>2, <2>2 DEF ChannelStep, SameData, SameDone
<1> QED
  BY <1>1, <1>2

LEMMA StepSend ==
    ASSUME FlowInv, FlowInv', NEW e \in Dir, Send(e), NEW d \in Dir
    PROVE  ChannelStep(d)
<1>1. PICK c \in Nat : sent' = [sent EXCEPT ![e] = Append(@, c)]
  BY CellNat DEF Send, FlowInv, AskInv
<1>2. UNCHANGED <<parent, phase, client, split, got, shut, short, fin, rst>> /\ e \notin fin
  BY DEF Send, asking, relay
<1>3. SameDone(d) /\ SameEnd(d) /\ (Spoilt(d)' <=> Spoilt(d)) /\ got'[d] = got[d]
  BY <1>2 DEF SameDone, SameEnd, Spoilt, Ended, Over, Torn
<1>4. sent \in [Dir -> Seq(Nat)] /\ sent[d] \in Seq(Nat)
  BY DEF FlowInv, AskInv, TypeOK
<1>5. CASE d = e
  <2>1. sent'[d] = Append(sent[d], c)
    BY <1>1, <1>4, <1>5
  <2>2. Len(sent'[d]) = Len(sent[d]) + 1 /\ SubSeq(sent'[d], 1, Len(sent[d])) = sent[d]
    BY <1>4, <2>1
  <2> QED
    BY <1>2, <1>3, <1>5, <2>2 DEF ChannelStep
<1>6. CASE d # e
  <2>1. SameData(d)
    BY <1>1, <1>3, <1>4, <1>6 DEF SameData
  <2> QED
    BY <1>3, <2>1 DEF ChannelStep
<1> QED
  BY <1>5, <1>6

LEMMA StepWrite ==
    ASSUME FlowInv, FlowInv', NEW e \in Dir, Write(e), NEW d \in Dir
    PROVE  ChannelStep(d)
<1>1. UNCHANGED <<parent, phase, client, split, sent, shut, fin, rst>> /\ short \subseteq short'
  BY DEF Write, asking, ends
<1>2. phase = "relay" /\ st[e] = "writing"
  BY DEF Write
<1>3. SameDone(d) /\ SameEnd(d) /\ (Spoilt(d) => Spoilt(d)') /\ sent'[d] = sent[d]
  BY <1>1 DEF SameDone, SameEnd, Spoilt, Ended, Over, Torn
<1>4. TypeOK
  BY DEF FlowInv, AskInv
<1>5. CASE d = e /\ ~ Spoilt(d)'
  <2>1. ~ Ended(d)
    BY <1>2, <1>5 DEF Ended, Over, FlowInv, Ends
  <2>2. Len(got[d]) \in Nat /\ Len(sent[d]) \in Nat /\ len[d] \in Nat
    BY <1>4, SizeAssumption DEF TypeOK
  <2>3. /\ got'[d] = SubSeq(sent[d], 1, Len(got[d]) + len[d])
        /\ Len(got[d]) + len[d] \in Len(got[d]) + 1 .. Len(sent[d])
    BY <1>5, <2>2, WholeWrite
  <2> QED
    BY <1>3, <1>5, <2>1, <2>3 DEF ChannelStep
<1>6. CASE d # e
  <2>1. got'[d] = got[d]
    BY <1>4, <1>6 DEF Write, TypeOK
  <2> QED
    BY <1>3, <2>1 DEF ChannelStep, SameData
<1> QED
  BY <1>5, <1>6 DEF ChannelStep

LEMMA StepDirection ==
    ASSUME FlowInv, FlowInv', NEW e \in Dir, Direction(e), NEW d \in Dir
    PROVE  ChannelStep(d)
<1>1. CASE Read(e)
  BY <1>1, StepStill
     DEF Read, asking, SameData, SameDone, Spoilt, Ended, Over, Torn
<1>2. CASE ReadEnds(e)
  <2>1. client = "granted" /\ phase = "relay" /\ client' = client /\ shut \subseteq shut'
    BY <1>2, Relaying DEF ReadEnds, asking
  <2> QED
    BY <1>2, <2>1, StepStill
       DEF ReadEnds, asking, ends, SameData, SameDone, Spoilt, Ended, Over, Torn
<1>3. CASE WriteFails(e)
  <2>1. client = "granted" /\ phase = "relay" /\ client' = client
    BY <1>3, Relaying DEF WriteFails, asking
  <2> QED
    BY <1>3, <2>1, StepStill
       DEF WriteFails, asking, ends, SameData, SameDone, Spoilt, Ended, Over, Torn
<1> QED
  BY <1>1, <1>2, <1>3, StepWrite DEF Direction

LEMMA StepNext == ASSUME FlowInv, [Next]_vars, NEW d \in Dir PROVE ChannelStep(d)
<1> USE DEF SameData, SameDone, Spoilt, Ended, Over, Torn
<1>1. FlowInv'
  BY FlowNext
<1>2. CASE UNCHANGED vars
  BY <1>1, <1>2, StepStill DEF vars, asking, relay, ends
<1>3. CASE Accepting
  BY <1>1, <1>3, StepStill DEF Accepting, Fork, ParentCloses, asking, relay, ends
<1>4. CASE InfoEnds \/ DoConnect \/ DoAccept
  BY <1>1, <1>4, StepStill DEF InfoEnds, DoConnect, DoAccept, asking, relay, ends
<1>5. CASE ReadInfo
  BY <1>1, <1>5, StepStill DEF ReadInfo, relay
<1>6. CASE Reply
  BY <1>1, <1>6, StepStill DEF Reply, ends
<1>7. CASE Ask
  BY <1>1, <1>7, StepStill DEF Ask, relay
<1>8. ASSUME NEW e \in Dir, Finish(e) PROVE ChannelStep(d)
  BY <1>8 DEF Finish, asking, relay, ChannelStep, SameEnd, Dir
<1>9. ASSUME NEW e \in Dir, Reset(e) PROVE ChannelStep(d)
  BY <1>1, <1>9, StepStill DEF Reset, asking, relay
<1> QED
  BY <1>1, <1>2, <1>3, <1>4, <1>5, <1>6, <1>7, <1>8, <1>9, StepSend, StepDirection
     DEF Next, Session, End

LEMMA StepForward == ASSUME ChannelStep(1) PROVE [Forward!Next]_Forward!vars
<1> USE DEF Spoilt, Ended, Over, Torn, SameData, SameEnd, SameDone
<1>1. CASE Spoilt(1)'
  BY <1>1 DEF Forward!Next, Forward!Spoil
<1>2. CASE ~ Spoilt(1)'
  BY <1>2 DEF ChannelStep, Forward!Next, Forward!vars, Forward!Put, Forward!Finish,
     Forward!Take, Forward!Prefix, Forward!End, Forward!Tear
<1> QED
  BY <1>1, <1>2

LEMMA StepBackward == ASSUME ChannelStep(2) PROVE [Backward!Next]_Backward!vars
<1> USE DEF Spoilt, Ended, Over, Torn, SameData, SameEnd, SameDone
<1>1. CASE Spoilt(2)'
  BY <1>1 DEF Backward!Next, Backward!Spoil
<1>2. CASE ~ Spoilt(2)'
  BY <1>2 DEF ChannelStep, Backward!Next, Backward!vars, Backward!Put, Backward!Finish,
     Backward!Take, Backward!Prefix, Backward!End, Backward!Tear
<1> QED
  BY <1>1, <1>2

(* For every size of the arrays and every socks.conf, the relay implements *)
(* a channel in each direction: the sink receives what the source sent, in *)
(* order and without a gap, and its end only after all of it.              *)
THEOREM RelayIsChannel == Spec => ImplementsChannel
<1>1. Init => Forward!Init /\ Backward!Init
  BY DEF Init, Forward!Init, Backward!Init, Dir, Over
<1>2. FlowInv /\ [Next]_vars => [Forward!Next]_Forward!vars /\ [Backward!Next]_Backward!vars
  BY StepNext, StepForward, StepBackward DEF Dir
<1> QED
  BY <1>1, <1>2, FlowSafe, PTL DEF Spec, ImplementsChannel, Forward!Spec, Backward!Spec
=============================================================================
