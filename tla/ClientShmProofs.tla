-------------------------- MODULE ClientShmProofs --------------------------
(***************************************************************************)
(* Proofs about ClientShm, for every number of connections and slots.      *)
(***************************************************************************)
EXTENDS ClientShm, TLAPS

(* Where a loop or a message is about a slot, the slot exists.             *)
LoopsAtSlots ==
    \A c \in Conn :
        /\ pc[c] \in {"scan", "claim", "kill", "killone"} => at[c] \in Id
        /\ pc[c] \in {"look", "write"} /\ sending[c] = "tell" => at[c] \in Id
        /\ pc[c] = "add" => cur_id[c] \in Id

(* A pid in a slot is that of a process which has filled it in, and does   *)
(* not think that it has another slot; a slot that was filled in by one    *)
(* which still has its id keeps a pid, even when another claims it.        *)
PidsMeant ==
    /\ \A i \in Id : \A p \in Conn : shm_cli[i].pid = p =>
          cur_id[p] = i /\ pc[p] \notin {"away", "scan", "claim", "add"}
    /\ \A i \in Id : Used(i) => shm_cli[i].pid # Nobody

(* With a slot: the process has marked it, and from "handlers" on has also *)
(* filled it in.                                                           *)
Holding(c) == (Serving(c) \/ pc[c] \in {"add", "handlers"}) /\ cur_id[c] \in Id

(* While logins do not overlap, a slot found free is still free when it is *)
(* claimed, so that no two processes ever hold the same one.               *)
SlotsExclusive ==
    /\ \A c, d \in LoggingIn : c = d
    /\ \A c \in Conn : pc[c] = "claim" => shm_cli[at[c]].valid = 0
    /\ \A c \in Conn : Holding(c) =>
          /\ shm_cli[cur_id[c]].valid = 1
          /\ pc[c] # "add" => shm_cli[cur_id[c]].pid = c
    /\ \A c, d \in Conn : Holding(c) /\ Holding(d) /\ cur_id[c] = cur_id[d] => c = d
-----------------------------------------------------------------------------
(* Types, together with where the loops are.                               *)

Good == TypeOK /\ LoopsAtSlots

LEMMA IdFacts ==
    /\ 1 \in Id /\ Id \subseteq 0 .. MaxClient /\ 0 \notin Id /\ -1 \notin Id
    /\ 0 \in 0 .. MaxClient /\ 0 \in 0 .. MaxSay
BY MaxClientAssumption, MaxSayAssumption DEF Id

LEMMA GoodInit == Init => Good
<1> SUFFICES ASSUME Init PROVE Good
  OBVIOUS
<1>1. NoMsg \in Msg
  BY IdFacts DEF NoMsg, Msg, Kind
<1>2. shm_msg \in Msg /\ screen \in [Conn -> Msg]
  BY <1>1 DEF Init
<1>3. shm_cli \in [Id -> [valid : {0, 1}, id : Id \cup {0}, pid : Conn \cup {Nobody}]]
  BY DEF Init
<1> QED
  BY <1>2, <1>3, IdFacts DEF Init, Good, TypeOK, LoopsAtSlots, Kind

LEMMA GoodLogin == ASSUME Good, NEW c \in Conn, Login(c) PROVE Good'
<1>1. CASE Accept(c)
  BY <1>1, IdFacts DEF Good, TypeOK, LoopsAtSlots, Accept, Goto
<1>2. CASE Scan(c)
  <2>1. at[c] \in Id
    BY <1>2 DEF Good, LoopsAtSlots, Scan, At
  <2>2. at[c] < MaxClient => at[c] + 1 \in Id
    BY <2>1, MaxClientAssumption DEF Id
  <2> QED
    BY <1>2, <2>1, <2>2, IdFacts DEF Good, TypeOK, LoopsAtSlots, Scan, At, Goto
<1>3. CASE Claim(c)
  <2>1. at[c] \in Id
    BY <1>3 DEF Good, LoopsAtSlots, Claim, At
  <2>2. shm_cli' \in [Id -> [valid : {0, 1}, id : Id \cup {0}, pid : Conn \cup {Nobody}]]
    BY <1>3, <2>1 DEF Good, TypeOK, Claim
  <2> QED
    BY <1>3, <2>1, <2>2, IdFacts DEF Good, TypeOK, LoopsAtSlots, Claim, At, Goto
<1>4. CASE AddClient(c)
  <2>1. cur_id[c] \in Id
    BY <1>4 DEF Good, LoopsAtSlots, AddClient, At
  <2>2. shm_cli' \in [Id -> [valid : {0, 1}, id : Id \cup {0}, pid : Conn \cup {Nobody}]]
    BY <1>4, <2>1 DEF Good, TypeOK, AddClient
  <2> QED
    BY <1>4, <2>2 DEF Good, TypeOK, LoopsAtSlots, AddClient, At, Goto
<1>5. CASE InstallHandlers(c)
  BY <1>5 DEF Good, TypeOK, LoopsAtSlots, InstallHandlers, At, Goto, Kind
<1> QED
  BY <1>1, <1>2, <1>3, <1>4, <1>5 DEF Login

LEMMA GoodUser == ASSUME Good, NEW c \in Conn, User(c) PROVE Good'
<1>0. said[c] < MaxSay => said[c] + 1 \in 0 .. MaxSay
  BY MaxSayAssumption DEF Good, TypeOK
<1>1. CASE Yell(c)
  BY <1>0, <1>1 DEF Good, TypeOK, LoopsAtSlots, Yell, At, Goto, Kind
<1>2. CASE Tell(c)
  <2>1. PICK t \in Id : at' = [at EXCEPT ![c] = t]
    BY <1>2 DEF Tell
  <2> QED
    BY <1>0, <1>2, <2>1, IdFacts DEF Good, TypeOK, LoopsAtSlots, Tell, At, Goto, Kind
<1>3. CASE Exit(c)
  BY <1>3 DEF Good, TypeOK, LoopsAtSlots, Exit, At, Goto, Kind
<1>4. CASE EndOfInput(c)
  BY <1>4 DEF Good, TypeOK, LoopsAtSlots, EndOfInput, At, Goto
<1> QED
  BY <1>1, <1>2, <1>3, <1>4 DEF User

(* What a signal does to the types.                                        *)
LEMMA SignalTypes ==
    ASSUME Good, NEW c \in Conn, NEW pid, Signal(c, pid)
    PROVE  pending' \subseteq Conn /\ screen' \in [Conn -> Msg] /\ server' \in BOOLEAN
BY DEF Good, TypeOK, Signal, Reached

LEMMA GoodSend == ASSUME Good, NEW c \in Conn, Send(c) PROVE Good'
<1>1. CASE Look(c)
  BY <1>1 DEF Good, TypeOK, LoopsAtSlots, Look, Done, At, Goto
<1>2. CASE Write(c)
  <2>1. Addressees(c) \subseteq Conn
    BY DEF Addressees
  <2>2. shm_msg' \in Msg
    BY <1>2, <2>1 DEF Good, TypeOK, Write, Msg
  <2> QED
    BY <1>2, <2>2, IdFacts DEF Good, TypeOK, LoopsAtSlots, Write, At, Goto
<1>3. CASE Kill(c)
  <2>1. at[c] \in Id
    BY <1>3 DEF Good, LoopsAtSlots, Kill, At
  <2>2. pending' \subseteq Conn /\ screen' \in [Conn -> Msg] /\ server' \in BOOLEAN
    <3>1. CASE shm_cli[at[c]].valid = 1
      BY <1>3, <3>1, SignalTypes DEF Kill
    <3>2. CASE shm_cli[at[c]].valid # 1
      BY <1>3, <3>2 DEF Good, TypeOK, Kill
    <3> QED
      BY <3>1, <3>2
  <2>3. at[c] < MaxClient => at[c] + 1 \in Id
    BY <2>1, MaxClientAssumption DEF Id
  <2> QED
    BY <1>3, <2>1, <2>2, <2>3, IdFacts DEF Good, TypeOK, LoopsAtSlots, Kill, Done, At, Goto
<1>4. CASE KillOne(c)
  <2>1. pending' \subseteq Conn /\ screen' \in [Conn -> Msg] /\ server' \in BOOLEAN
    BY <1>4, SignalTypes DEF KillOne
  <2> QED
    BY <1>4, <2>1, IdFacts DEF Good, TypeOK, LoopsAtSlots, KillOne, Done, At, Goto
<1>5. CASE Clear(c)
  <2>1. shm_cli' \in [Id -> [valid : {0, 1}, id : Id \cup {0}, pid : Conn \cup {Nobody}]]
    BY <1>5 DEF Good, TypeOK, Clear
  <2> QED
    BY <1>5, <2>1 DEF Good, TypeOK, LoopsAtSlots, Clear, At, Goto
<1> QED
  BY <1>1, <1>2, <1>3, <1>4, <1>5 DEF Send

LEMMA GoodDeliver == ASSUME Good, NEW c \in Conn, Deliver(c) PROVE Good'
BY DEF Good, TypeOK, LoopsAtSlots, Deliver, Goto

LEMMA GoodNext == Good /\ [Next]_vars => Good'
<1>1. ASSUME Good, NEW c \in Conn, Login(c) \/ User(c) \/ Send(c) \/ Deliver(c)
      PROVE  Good'
  BY <1>1, GoodLogin, GoodUser, GoodSend, GoodDeliver
<1>2. ASSUME Good, UNCHANGED vars PROVE Good'
  BY <1>2 DEF vars, Good, TypeOK, LoopsAtSlots
<1> QED
  BY <1>1, <1>2 DEF Next

LEMMA GoodAlways == Spec => []Good
BY GoodInit, GoodNext, PTL DEF Spec

(* The types: every loop stays inside the table, whatever the processes    *)
(* read in it, and no message or id is made of anything else.              *)
THEOREM TypeSafe == Spec => []TypeOK
<1>1. Good => TypeOK
  BY DEF Good
<1> QED
  BY <1>1, GoodAlways, PTL
-----------------------------------------------------------------------------
(* Slots come back.                                                        *)

InUse(c) == pc[c] \notin {"away", "scan", "claim", "gone"}

(* A step that marks no slot, changes no id and lets nobody go.            *)
LEMMA SlotsStay ==
    ASSUME SlotsReturned, UNCHANGED cur_id,
           \A i \in Id : shm_cli'[i].valid = 1 => shm_cli[i].valid = 1,
           \A c \in Conn : InUse(c) => InUse(c)'
    PROVE  SlotsReturned'
<1> SUFFICES ASSUME NEW i \in Id, shm_cli'[i].valid = 1
             PROVE  \E c \in Conn : cur_id'[c] = i /\ InUse(c)'
  BY DEF SlotsReturned, InUse
<1>1. PICK c \in Conn : cur_id[c] = i /\ InUse(c)
  BY DEF SlotsReturned, InUse
<1> QED
  BY <1>1

LEMMA SlotsClaim ==
    ASSUME Good, SlotsReturned, NEW c \in Conn, Claim(c) PROVE SlotsReturned'
<1>1. at[c] \in Id /\ pc[c] = "claim"
  BY DEF Good, LoopsAtSlots, Claim, At
<1>2. cur_id'[c] = at[c] /\ pc'[c] = "add"
  BY DEF Good, TypeOK, Claim, Goto
<1> SUFFICES ASSUME NEW i \in Id, shm_cli'[i].valid = 1
             PROVE  \E d \in Conn : cur_id'[d] = i
                                      /\ pc'[d] \notin {"away", "scan", "claim", "gone"}
  BY DEF SlotsReturned
<1>3. CASE i = at[c]
  BY <1>2, <1>3
<1>4. CASE i # at[c]
  <2>1. shm_cli[i].valid = 1
    BY <1>4 DEF Good, TypeOK, Claim
  <2>2. PICK d \in Conn : cur_id[d] = i /\ pc[d] \notin {"away", "scan", "claim", "gone"}
    BY <2>1 DEF SlotsReturned
  <2>3. d # c
    BY <1>1, <2>2
  <2> QED
    BY <2>2, <2>3 DEF Good, TypeOK, Claim, Goto
<1> QED
  BY <1>3, <1>4

LEMMA SlotsAdd ==
    ASSUME Good, SlotsReturned, NEW c \in Conn, AddClient(c) PROVE SlotsReturned'
<1>1. cur_id[c] \in Id /\ pc[c] = "add" /\ pc'[c] = "handlers"
  BY DEF Good, TypeOK, LoopsAtSlots, AddClient, At, Goto
<1> SUFFICES ASSUME NEW i \in Id, shm_cli'[i].valid = 1
             PROVE  \E d \in Conn : cur_id'[d] = i
                                      /\ pc'[d] \notin {"away", "scan", "claim", "gone"}
  BY DEF SlotsReturned
<1>2. CASE i = cur_id[c]
  BY <1>1, <1>2 DEF AddClient
<1>3. CASE i # cur_id[c]
  <2>1. shm_cli[i].valid = 1
    BY <1>3 DEF Good, TypeOK, AddClient
  <2>2. PICK d \in Conn : cur_id[d] = i /\ pc[d] \notin {"away", "scan", "claim", "gone"}
    BY <2>1 DEF SlotsReturned
  <2> QED
    BY <1>1, <2>2 DEF Good, TypeOK, AddClient, Goto
<1> QED
  BY <1>2, <1>3

LEMMA SlotsScan ==
    ASSUME Good, SlotsReturned, NEW c \in Conn, Scan(c) PROVE SlotsReturned'
<1>1. pc[c] = "scan" /\ shm_cli' = shm_cli
  BY DEF Scan, At
<1>2. \A d \in Conn \ {c} : pc'[d] = pc[d] /\ cur_id'[d] = cur_id[d]
  BY DEF Good, TypeOK, Scan, Goto
<1> QED
  BY <1>1, <1>2 DEF SlotsReturned

LEMMA SlotsClear ==
    ASSUME Good, SlotsReturned, NEW c \in Conn, Clear(c) PROVE SlotsReturned'
<1>1. \A d \in Conn \ {c} : pc'[d] = pc[d]
  BY DEF Good, TypeOK, Clear, Goto
<1>2. UNCHANGED cur_id
  BY DEF Clear
<1> SUFFICES ASSUME NEW i \in Id, shm_cli'[i].valid = 1
             PROVE  \E d \in Conn : cur_id'[d] = i
                                      /\ pc'[d] \notin {"away", "scan", "claim", "gone"}
  BY DEF SlotsReturned
<1>3. i # cur_id[c] /\ shm_cli[i].valid = 1
  BY DEF Good, TypeOK, Clear
<1>4. PICK d \in Conn : cur_id[d] = i /\ pc[d] \notin {"away", "scan", "claim", "gone"}
  BY <1>3 DEF SlotsReturned
<1> QED
  BY <1>1, <1>2, <1>3, <1>4

LEMMA SlotsNext == Good /\ SlotsReturned /\ [Next]_vars => SlotsReturned'
<1> SUFFICES ASSUME Good, SlotsReturned, [Next]_vars PROVE SlotsReturned'
  OBVIOUS
<1>1. ASSUME NEW c \in Conn, Login(c) PROVE SlotsReturned'
  <2>1. CASE Accept(c)
    BY <2>1, SlotsStay DEF Good, TypeOK, Accept, Goto, InUse
  <2>2. CASE InstallHandlers(c)
    BY <2>2, SlotsStay DEF Good, TypeOK, InstallHandlers, Goto, InUse
  <2> QED
    BY <1>1, <2>1, <2>2, SlotsScan, SlotsClaim, SlotsAdd DEF Login
<1>2. ASSUME NEW c \in Conn, User(c) PROVE SlotsReturned'
  <2>1. UNCHANGED <<cur_id, shm_cli>> /\ (Goto(c, "look") \/ Goto(c, "ghost"))
    BY <1>2 DEF User, Yell, Tell, Exit, EndOfInput
  <2>2. \A d \in Conn : InUse(d) => InUse(d)'
    BY <2>1 DEF Good, TypeOK, Goto, InUse
  <2> QED
    BY <2>1, <2>2, SlotsStay
<1>3. ASSUME NEW c \in Conn, Send(c) PROVE SlotsReturned'
  <2>1. CASE Clear(c)
    BY <2>1, SlotsClear
  <2>2. CASE Look(c) \/ Write(c) \/ Kill(c) \/ KillOne(c)
    <3>1. UNCHANGED <<cur_id, shm_cli>>
      BY <2>2 DEF Look, Write, Kill, KillOne
    <3>2. UNCHANGED pc \/ \E l \in {"write", "killed", "prompt", "clear", "kill", "killone"} :
                             Goto(c, l)
      BY <2>2 DEF Look, Write, Kill, KillOne, Done
    <3>3. \A d \in Conn : InUse(d) => InUse(d)'
      BY <3>2 DEF Good, TypeOK, Goto, InUse
    <3> QED
      BY <3>1, <3>3, SlotsStay
  <2> QED
    BY <1>3, <2>1, <2>2 DEF Send
<1>4. ASSUME NEW c \in Conn, Deliver(c) PROVE SlotsReturned'
  BY <1>4, SlotsStay DEF Good, TypeOK, Deliver, Goto, InUse
<1>5. CASE UNCHANGED vars
  BY <1>5, SlotsStay DEF vars, InUse
<1> QED
  BY <1>1, <1>2, <1>3, <1>4, <1>5 DEF Next

(* However logins and logouts overlap and whoever is killed, a slot is in  *)
(* use only while the process that claimed it has not exited.              *)
THEOREM SlotsSafe == Spec => []SlotsReturned
<1>1. Init => SlotsReturned
  BY DEF Init, SlotsReturned
<1> QED
  BY <1>1, GoodAlways, SlotsNext, PTL DEF Spec

-----------------------------------------------------------------------------
(* Whom signals reach.                                                     *)

(* A step that writes no pid, changes no id and takes no process back to   *)
(* before its slot was filled in.                                          *)
LEMMA PidsStay ==
    ASSUME PidsMeant, UNCHANGED cur_id,
           \A i \in Id : shm_cli'[i].pid = shm_cli[i].pid,
           \A c \in Conn : pc[c] \notin {"away", "scan", "claim", "add"}
                             => pc'[c] \notin {"away", "scan", "claim", "add"},
           \A c \in Conn : (Serving(c) \/ pc[c] \in {"handlers", "gone"})'
                             => Serving(c) \/ pc[c] \in {"handlers", "gone"}
    PROVE  PidsMeant'
<1>1. \A i \in Id : Used(i)' => Used(i)
  BY DEF Used
<1> QED
  BY <1>1 DEF PidsMeant

LEMMA PidsScan == ASSUME Good, PidsMeant, NEW c \in Conn, Scan(c) PROVE PidsMeant'
<1>1. pc[c] = "scan" /\ shm_cli' = shm_cli
  BY DEF Scan, At
<1>2. \A d \in Conn \ {c} : pc'[d] = pc[d] /\ cur_id'[d] = cur_id[d]
  BY DEF Good, TypeOK, Scan, Goto
<1>3. pc'[c] \in {"scan", "claim"} \/ (pc'[c] = "handlers" /\ cur_id'[c] = -1)
  BY DEF Good, TypeOK, Scan, Goto, At
<1>4. \A i \in Id : Used(i)' => Used(i)
  BY <1>2, <1>3, IdFacts DEF Used, Serving
<1> QED
  BY <1>1, <1>2, <1>4 DEF PidsMeant

LEMMA PidsClaim == ASSUME Good, PidsMeant, NEW c \in Conn, Claim(c) PROVE PidsMeant'
<1>1. at[c] \in Id /\ pc[c] = "claim" /\ pc'[c] = "add"
  BY DEF Good, TypeOK, LoopsAtSlots, Claim, At, Goto
<1>2. \A d \in Conn \ {c} : pc'[d] = pc[d] /\ cur_id'[d] = cur_id[d]
  BY DEF Good, TypeOK, Claim, Goto
<1>3. \A i \in Id : shm_cli'[i].pid = shm_cli[i].pid
  BY <1>1 DEF Good, TypeOK, Claim
<1>4. \A i \in Id : Used(i)' => Used(i)
  BY <1>1, <1>2 DEF Used, Serving
<1> QED
  BY <1>1, <1>2, <1>3, <1>4 DEF PidsMeant

LEMMA PidsAdd == ASSUME Good, PidsMeant, NEW c \in Conn, AddClient(c) PROVE PidsMeant'
<1>1. cur_id[c] \in Id /\ pc[c] = "add" /\ pc'[c] = "handlers" /\ UNCHANGED cur_id
  BY DEF Good, TypeOK, LoopsAtSlots, AddClient, At, Goto
<1>2. \A d \in Conn \ {c} : pc'[d] = pc[d]
  BY DEF Good, TypeOK, AddClient, Goto
<1>3. \A i \in Id : shm_cli'[i].pid = IF i = cur_id[c] THEN c ELSE shm_cli[i].pid
  BY <1>1 DEF Good, TypeOK, AddClient
<1>4. c # Nobody
  BY ConnAssumption DEF Nobody
<1>5. \A i \in Id : Used(i)' => Used(i) \/ i = cur_id[c]
  BY <1>1, <1>2 DEF Used, Serving
<1>6. \A i \in Id : \A p \in Conn : shm_cli'[i].pid = p =>
         cur_id'[p] = i /\ pc'[p] \notin {"away", "scan", "claim", "add"}
  BY <1>1, <1>2, <1>3 DEF PidsMeant
<1>7. \A i \in Id : Used(i)' => shm_cli'[i].pid # Nobody
  BY <1>3, <1>4, <1>5 DEF PidsMeant
<1> QED
  BY <1>6, <1>7 DEF PidsMeant

LEMMA PidsNext == Good /\ PidsMeant /\ [Next]_vars => PidsMeant'
<1> SUFFICES ASSUME Good, PidsMeant, [Next]_vars PROVE PidsMeant'
  OBVIOUS
<1>1. ASSUME NEW c \in Conn, Login(c) PROVE PidsMeant'
  <2>1. CASE Accept(c)
    <3>1. UNCHANGED <<cur_id, shm_cli>> /\ pc[c] = "away" /\ pc'[c] = "scan"
      BY <2>1 DEF Good, TypeOK, Accept, Goto
    <3>2. \A d \in Conn \ {c} : pc'[d] = pc[d]
      BY <2>1 DEF Good, TypeOK, Accept, Goto
    <3> QED
      BY <3>1, <3>2, PidsStay DEF Serving
  <2>2. CASE InstallHandlers(c)
    BY <2>2, PidsStay DEF Good, TypeOK, InstallHandlers, At, Goto, Serving
  <2> QED
    BY <1>1, <2>1, <2>2, PidsScan, PidsClaim, PidsAdd DEF Login
<1>2. ASSUME NEW c \in Conn, User(c) PROVE PidsMeant'
  <2>1. UNCHANGED <<cur_id, shm_cli>> /\ pc[c] = "prompt"
          /\ (Goto(c, "look") \/ Goto(c, "ghost"))
    BY <1>2 DEF User, Yell, Tell, Exit, EndOfInput, At
  <2> QED
    BY <2>1, PidsStay DEF Good, TypeOK, Goto, Serving
<1>3. ASSUME NEW c \in Conn, Send(c) PROVE PidsMeant'
  <2>1. UNCHANGED cur_id /\ \A i \in Id : shm_cli'[i].pid = shm_cli[i].pid
    BY <1>3 DEF Good, TypeOK, Send, Look, Write, Kill, KillOne, Clear
  <2>2. pc[c] \in {"look", "write", "kill", "killone", "clear"}
    BY <1>3 DEF Send, Look, Write, Kill, KillOne, Clear, At
  <2>3. UNCHANGED pc \/ \E l \in {"write", "killed", "prompt", "clear", "kill", "killone",
                                  "gone"} : Goto(c, l)
    BY <1>3 DEF Send, Look, Write, Kill, KillOne, Clear, Done
  <2> QED
    BY <2>1, <2>2, <2>3, PidsStay DEF Good, TypeOK, Goto, Serving
<1>4. ASSUME NEW c \in Conn, Deliver(c) PROVE PidsMeant'
  BY <1>4, PidsStay DEF Good, TypeOK, Deliver, Goto, Serving, Alive
<1>5. CASE UNCHANGED vars
  BY <1>5, PidsStay DEF vars, Serving
<1> QED
  BY <1>1, <1>2, <1>3, <1>4, <1>5 DEF Next

(* The step that sends: once every slot has been filled in, no pid is 0,   *)
(* and the only process a pid names is the one with the id of that slot.   *)
LEMMA SignalOne ==
    ASSUME Good, PidsMeant, \A i \in Id : Used(i),
           NEW c \in Conn, NEW i \in Id, Signal(c, shm_cli[i].pid)
    PROVE  server' = server /\ pending' \ pending \subseteq {d \in Conn : cur_id[d] = i}
<1>1. shm_cli[i].pid # Nobody
  BY DEF PidsMeant
<1>2. \A d \in Reached(shm_cli[i].pid) : d \in Conn /\ cur_id[d] = i
  BY <1>1 DEF Reached, PidsMeant
<1> QED
  BY <1>1, <1>2 DEF Signal, Good, TypeOK

LEMMA MeantNext ==
    ASSUME Good, PidsMeant, [Next]_vars, \A i \in Id : Used(i)
    PROVE  /\ server' = server
           /\ \A c \in Conn : KillOne(c) =>
                 pending' \ pending \subseteq {d \in Conn : cur_id[d] = at[c]}
<1>1. ASSUME NEW c \in Conn, KillOne(c)
      PROVE  server' = server /\ pending' \ pending \subseteq {d \in Conn : cur_id[d] = at[c]}
  <2>1. at[c] \in Id
    BY <1>1 DEF Good, LoopsAtSlots, KillOne, At
  <2> QED
    BY <1>1, <2>1, SignalOne DEF KillOne
<1>2. ASSUME NEW c \in Conn, Kill(c) PROVE server' = server
  <2>1. at[c] \in Id
    BY <1>2 DEF Good, LoopsAtSlots, Kill, At
  <2> QED
    BY <1>2, <2>1, SignalOne DEF Kill
<1>3. server' = server
  <2>1. ASSUME NEW c \in Conn, Login(c) \/ User(c) \/ Look(c) \/ Write(c) \/ Clear(c)
                                 \/ Deliver(c)
        PROVE  server' = server
    BY <2>1 DEF Login, Accept, Scan, Claim, AddClient, InstallHandlers, User, Yell, Tell, Exit,
                EndOfInput, Look, Write, Clear, Deliver
  <2> QED
    BY <1>1, <1>2, <2>1 DEF Next, Send, vars
<1> QED
  BY <1>1, <1>3

(* With any overlap of logins: once every slot was used, a broadcast never *)
(* kills the server, and "tell" signals nobody but the user with that id.  *)
THEOREM SignalsSafe == Spec => SignalsMeant
<1>1. Init => PidsMeant
  <2>1. Init => \A p \in Conn : p # Nobody
    BY ConnAssumption DEF Nobody
  <2> QED
    BY <2>1 DEF Init, PidsMeant, Used, Serving
<1>2. Good /\ PidsMeant /\ [Next]_vars =>
        [(\A i \in Id : Used(i)) =>
          /\ server' = server
          /\ \A c \in Conn : KillOne(c) =>
                pending' \ pending \subseteq {d \in Conn : cur_id[d] = at[c]}]_vars
  BY MeantNext
<1> QED
  BY <1>1, <1>2, GoodAlways, PidsNext, PTL DEF Spec, SignalsMeant
-----------------------------------------------------------------------------
(* One process, one slot.                                                  *)

(* The parts of SlotsExclusive about those who are logging in.             *)
LEMMA OneLogin ==
    ASSUME SerialLogin, Good, SlotsExclusive, [Next]_vars
    PROVE  \A c, d \in LoggingIn' : c = d
<1>1. LoggingIn' \subseteq LoggingIn \/ (LoggingIn = {} /\ \E c \in Conn : LoggingIn' \subseteq {c})
  <2>1. ASSUME NEW c \in Conn, Accept(c) PROVE LoggingIn = {} /\ LoggingIn' \subseteq {c}
    BY <2>1 DEF Good, TypeOK, Accept, Goto, LoggingIn
  <2>2. ASSUME NEW c \in Conn,
               Scan(c) \/ Claim(c) \/ AddClient(c) \/ InstallHandlers(c) \/ User(c)
                 \/ Send(c) \/ Deliver(c)
        PROVE  LoggingIn' \subseteq LoggingIn
    <3>1. UNCHANGED pc \/ \E l : Goto(c, l) /\ (pc[c] \in {"scan", "claim", "add", "handlers"}
                                 \/ l \notin {"scan", "claim", "add", "handlers"})
      BY <2>2 DEF Scan, Claim, AddClient, InstallHandlers, User, Yell, Tell, Exit, EndOfInput,
                  Send, Look, Write, Kill, KillOne, Clear, Deliver, Done, At
    <3> QED
      BY <3>1 DEF Good, TypeOK, Goto, LoggingIn
  <2>3. CASE UNCHANGED vars
    BY <2>3 DEF vars, LoggingIn
  <2> QED
    BY <2>1, <2>2, <2>3 DEF Next, Login
<1> QED
  BY <1>1 DEF SlotsExclusive

(* A step that leaves the slots and the ids alone, and brings nobody to    *)
(* "claim" or to a slot.                                                   *)
LEMMA ExclusiveStay ==
    ASSUME Good, SlotsExclusive, UNCHANGED <<cur_id, shm_cli>>,
           \A c, d \in LoggingIn' : c = d,
           \A c \in Conn : pc'[c] = "claim" => pc[c] = "claim" /\ at'[c] = at[c],
           \A c \in Conn : (Serving(c) \/ pc[c] \in {"add", "handlers"})'
                             => (Serving(c) \/ pc[c] \in {"add", "handlers"}),
           \A c \in Conn : pc[c] = "add" => pc'[c] = "add" \/ ~Holding(c)'
    PROVE  SlotsExclusive'
<1>1. \A c \in Conn : Holding(c)' => Holding(c)
  BY DEF Holding
<1> QED
  BY <1>1 DEF SlotsExclusive

LEMMA ExclusiveScan ==
    ASSUME SerialLogin, Good, SlotsExclusive, \A c, d \in LoggingIn' : c = d,
           NEW c \in Conn, Scan(c)
    PROVE  SlotsExclusive'
<1>1. pc[c] = "scan" /\ shm_cli' = shm_cli
  BY DEF Scan, At
<1>2. \A d \in Conn \ {c} : pc'[d] = pc[d] /\ cur_id'[d] = cur_id[d] /\ at'[d] = at[d]
  BY DEF Good, TypeOK, Scan, Goto
<1>3. \/ pc'[c] = "scan"
      \/ pc'[c] = "claim" /\ at'[c] = at[c] /\ shm_cli[at[c]].valid = 0
      \/ pc'[c] = "handlers" /\ cur_id'[c] = -1
  BY <1>1 DEF Good, TypeOK, Scan, Goto
<1>4. ~Holding(c)'
  BY <1>3, IdFacts DEF Holding, Serving
<1>5. \A d \in Conn : Holding(d)' => Holding(d) /\ d # c
  BY <1>2, <1>4 DEF Holding, Serving
<1>6. \A d \in Conn : pc'[d] = "claim" => shm_cli'[at'[d]].valid = 0
  BY <1>1, <1>2, <1>3 DEF SlotsExclusive
<1> QED
  BY <1>1, <1>2, <1>5, <1>6 DEF SlotsExclusive

LEMMA ExclusiveClaim ==
    ASSUME SerialLogin, Good, SlotsExclusive, \A c, d \in LoggingIn' : c = d,
           NEW c \in Conn, Claim(c)
    PROVE  SlotsExclusive'
<1>1. at[c] \in Id /\ pc[c] = "claim" /\ shm_cli[at[c]].valid = 0
  BY DEF Good, LoopsAtSlots, SlotsExclusive, Claim, At
<1>2. \A d \in Conn \ {c} : pc'[d] = pc[d] /\ cur_id'[d] = cur_id[d] /\ at'[d] = at[d]
  BY DEF Good, TypeOK, Claim, Goto
<1>3. pc'[c] = "add" /\ cur_id'[c] = at[c]
  BY DEF Good, TypeOK, Claim, Goto
<1>4. /\ \A i \in Id \ {at[c]} : shm_cli'[i] = shm_cli[i]
      /\ shm_cli'[at[c]].valid = 1
  BY <1>1 DEF Good, TypeOK, Claim
<1>5. \A d \in Conn \ {c} : Holding(d)' => Holding(d) /\ cur_id[d] # at[c]
  BY <1>1, <1>2 DEF Holding, Serving, SlotsExclusive
<1>6. \A d \in Conn : pc'[d] = "claim" => FALSE
  BY <1>1, <1>2, <1>3 DEF SlotsExclusive, LoggingIn
<1>7. \A d \in Conn : Holding(d)' => shm_cli'[cur_id'[d]].valid = 1
        /\ (pc'[d] # "add" => shm_cli'[cur_id'[d]].pid = d)
  <2> TAKE d \in Conn
  <2>1. CASE d = c
    BY <2>1, <1>3, <1>4
  <2>2. CASE d # c
    <3>1. ASSUME Holding(d)'
          PROVE  Holding(d) /\ shm_cli'[cur_id'[d]] = shm_cli[cur_id[d]] /\ pc'[d] = pc[d]
      BY <3>1, <2>2, <1>2, <1>4, <1>5 DEF Holding
    <3> QED
      BY <3>1 DEF SlotsExclusive
  <2> QED
    BY <2>1, <2>2
<1>8. \A d, e \in Conn : Holding(d)' /\ Holding(e)' /\ cur_id'[d] = cur_id'[e] => d = e
  BY <1>2, <1>3, <1>5 DEF SlotsExclusive
<1> QED
  BY <1>6, <1>7, <1>8 DEF SlotsExclusive

LEMMA ExclusiveAdd ==
    ASSUME SerialLogin, Good, SlotsExclusive, \A c, d \in LoggingIn' : c = d,
           NEW c \in Conn, AddClient(c)
    PROVE  SlotsExclusive'
<1>1. cur_id[c] \in Id /\ pc[c] = "add" /\ pc'[c] = "handlers" /\ UNCHANGED cur_id
  BY DEF Good, TypeOK, LoopsAtSlots, AddClient, At, Goto
<1>2. \A d \in Conn \ {c} : pc'[d] = pc[d]
  BY DEF Good, TypeOK, AddClient, Goto
<1>3. /\ \A i \in Id \ {cur_id[c]} : shm_cli'[i] = shm_cli[i]
      /\ shm_cli'[cur_id[c]].valid = 1 /\ shm_cli'[cur_id[c]].pid = c
  BY <1>1 DEF Good, TypeOK, AddClient
<1>4. Holding(c) /\ \A d \in Conn : Holding(d)' => Holding(d)
  BY <1>1, <1>2 DEF Holding, Serving
<1>5. \A d \in Conn \ {c} : Holding(d) => cur_id[d] # cur_id[c]
  BY <1>4 DEF SlotsExclusive
<1>6. \A d \in Conn : pc'[d] = "claim" => FALSE
  BY <1>1, <1>2 DEF SlotsExclusive, LoggingIn
<1>7. \A d \in Conn : Holding(d)' => shm_cli'[cur_id'[d]].valid = 1
        /\ (pc'[d] # "add" => shm_cli'[cur_id'[d]].pid = d)
  <2> TAKE d \in Conn
  <2>1. CASE d = c
    BY <2>1, <1>1, <1>3
  <2>2. CASE d # c
    <3>1. ASSUME Holding(d)'
          PROVE  Holding(d) /\ shm_cli'[cur_id'[d]] = shm_cli[cur_id[d]] /\ pc'[d] = pc[d]
      BY <3>1, <2>2, <1>1, <1>2, <1>3, <1>4, <1>5 DEF Holding
    <3> QED
      BY <3>1 DEF SlotsExclusive
  <2> QED
    BY <2>1, <2>2
<1>8. \A d, e \in Conn : Holding(d)' /\ Holding(e)' /\ cur_id'[d] = cur_id'[e] => d = e
  BY <1>1, <1>4 DEF SlotsExclusive
<1> QED
  BY <1>6, <1>7, <1>8 DEF SlotsExclusive

LEMMA ExclusiveClear ==
    ASSUME SerialLogin, Good, SlotsExclusive, \A c, d \in LoggingIn' : c = d,
           NEW c \in Conn, Clear(c)
    PROVE  SlotsExclusive'
<1>1. pc[c] = "clear" /\ pc'[c] = "gone" /\ UNCHANGED <<cur_id, at>>
  BY DEF Good, TypeOK, Clear, At, Goto
<1>2. \A d \in Conn \ {c} : pc'[d] = pc[d]
  BY DEF Good, TypeOK, Clear, Goto
<1>3. \A i \in Id : /\ shm_cli'[i].pid = shm_cli[i].pid
                    /\ shm_cli[i].valid = 0 => shm_cli'[i].valid = 0
                    /\ i # cur_id[c] => shm_cli'[i] = shm_cli[i]
  BY DEF Good, TypeOK, Clear
<1>4. \A d \in Conn : Holding(d)' => Holding(d) /\ d # c
  BY <1>1, <1>2 DEF Holding, Serving
<1>5. \A d \in Conn : Holding(d)' => cur_id[d] # cur_id[c]
  BY <1>1, <1>4 DEF SlotsExclusive, Holding, Serving
<1>6. \A d \in Conn : pc'[d] = "claim" => shm_cli'[at'[d]].valid = 0
  <2>1. \A d \in Conn : pc'[d] = "claim" => pc[d] = "claim" /\ at[d] \in Id
    BY <1>1, <1>2 DEF Good, LoopsAtSlots
  <2> QED
    BY <1>1, <1>3, <2>1 DEF SlotsExclusive
<1>7. \A d \in Conn : Holding(d)' => cur_id[d] \in Id
  BY <1>1 DEF Holding
<1> QED
  BY <1>1, <1>2, <1>3, <1>4, <1>5, <1>6, <1>7 DEF SlotsExclusive

LEMMA ExclusiveNext ==
    ASSUME SerialLogin PROVE Good /\ SlotsExclusive /\ [Next]_vars => SlotsExclusive'
<1> SUFFICES ASSUME Good, SlotsExclusive, [Next]_vars PROVE SlotsExclusive'
  OBVIOUS
<1>0. \A c, d \in LoggingIn' : c = d
  BY OneLogin
<1>1. ASSUME NEW c \in Conn, Login(c) PROVE SlotsExclusive'
  <2>1. CASE Accept(c)
    BY <2>1, <1>0, ExclusiveStay DEF Good, TypeOK, Accept, Goto, Serving, Holding
  <2>2. CASE InstallHandlers(c)
    BY <2>2, <1>0, ExclusiveStay DEF Good, TypeOK, InstallHandlers, At, Goto, Serving, Holding
  <2> QED
    BY <1>1, <1>0, <2>1, <2>2, ExclusiveScan, ExclusiveClaim, ExclusiveAdd DEF Login
<1>2. ASSUME NEW c \in Conn, User(c) PROVE SlotsExclusive'
  <2>1. UNCHANGED <<cur_id, shm_cli>> /\ pc[c] = "prompt"
          /\ (Goto(c, "look") \/ Goto(c, "ghost"))
    BY <1>2 DEF User, Yell, Tell, Exit, EndOfInput, At
  <2>2. \A d \in Conn \ {c} : at'[d] = at[d]
    BY <1>2 DEF Good, TypeOK, User, Yell, Tell, Exit, EndOfInput
  <2> QED
    BY <2>1, <2>2, <1>0, ExclusiveStay DEF Good, TypeOK, Goto, Serving, Holding
<1>3. ASSUME NEW c \in Conn, Send(c) PROVE SlotsExclusive'
  <2>1. CASE Clear(c)
    BY <2>1, <1>0, ExclusiveClear
  <2>2. CASE Look(c) \/ Write(c) \/ Kill(c) \/ KillOne(c)
    <3>1. UNCHANGED <<cur_id, shm_cli>> /\ pc[c] \in {"look", "write", "kill", "killone"}
      BY <2>2 DEF Look, Write, Kill, KillOne, At
    <3>2. UNCHANGED pc \/ \E l \in {"write", "killed", "prompt", "clear", "kill", "killone"} :
                             Goto(c, l)
      BY <2>2 DEF Look, Write, Kill, KillOne, Done
    <3>3. \A d \in Conn \ {c} : at'[d] = at[d]
      BY <2>2 DEF Good, TypeOK, Look, Write, Kill, KillOne
    <3> QED
      BY <3>1, <3>2, <3>3, <1>0, ExclusiveStay DEF Good, TypeOK, Goto, Serving, Holding
  <2> QED
    BY <1>3, <2>1, <2>2 DEF Send
<1>4. ASSUME NEW c \in Conn, Deliver(c) PROVE SlotsExclusive'
  BY <1>4, <1>0, ExclusiveStay DEF Good, TypeOK, Deliver, Goto, Serving, Holding, Alive
<1>5. CASE UNCHANGED vars
  BY <1>5, <1>0, ExclusiveStay DEF vars, Serving, Holding
<1> QED
  BY <1>1, <1>2, <1>3, <1>4, <1>5 DEF Next

(* As long as logins do not overlap, whoever is being served is in the     *)
(* table under an id of its own, whatever the others do meanwhile.         *)
THEOREM ListedSafe == ASSUME SerialLogin PROVE Spec => []ServingListed
<1>1. Init => SlotsExclusive
  BY DEF Init, SlotsExclusive, LoggingIn, Holding, Serving
<1>2. SlotsExclusive => ServingListed
  BY DEF SlotsExclusive, ServingListed, Listed, Holding, Serving
<1>3. Good /\ SlotsExclusive /\ [Next]_vars => SlotsExclusive'
  BY ExclusiveNext
<1> QED
  BY <1>1, <1>2, <1>3, GoodAlways, PTL DEF Spec
=============================================================================
