--------------------------- MODULE ConsoleProofs ---------------------------
(***************************************************************************)
(* Proofs about Console, for all hosts, scripts, outputs and sizes of the  *)
(* array.                                                                  *)
(***************************************************************************)
EXTENDS Console, SequenceTheorems, TLAPS

-----------------------------------------------------------------------------
(* Pieces of what was printed.                                             *)

Spoken == Byte \cup Text

LEMMA PieceCuts ==
    ASSUME NEW w \in Seq(Byte), NEW n \in 1 .. Len(w)
    PROVE  /\ SubSeq(w, 1, n) \in Seq(Byte) /\ SubSeq(w, n + 1, Len(w)) \in Seq(Byte)
           /\ SubSeq(w, 1, n) \o SubSeq(w, n + 1, Len(w)) = w
           /\ n = Len(w) => SubSeq(w, 1, n) = w /\ SubSeq(w, n + 1, Len(w)) = <<>>
           /\ n < Len(w) => /\ Len(SubSeq(w, n + 1, Len(w))) = Len(w) - n
                            /\ \A i \in 1 .. Len(w) - n :
                                  SubSeq(w, n + 1, Len(w))[i] = w[n + i]
<1>1. Len(w) \in Nat /\ \A i \in 1 .. Len(w) : w[i] \in Byte
  BY ElementOfSeq, LenProperties
<1>2. SubSeq(w, 1, n) \in Seq(Byte)
  BY <1>1, SubSeqProperties
<1>3. /\ SubSeq(w, n + 1, Len(w)) \in Seq(Byte)
      /\ n < Len(w) => Len(SubSeq(w, n + 1, Len(w))) = Len(w) - n
      /\ \A i \in 1 .. Len(w) - n : SubSeq(w, n + 1, Len(w))[i] = w[n + i]
  <2>1. \A i \in n + 1 .. Len(w) : w[i] \in Byte
    BY <1>1
  <2>2. /\ SubSeq(w, n + 1, Len(w)) \in Seq(Byte)
        /\ Len(SubSeq(w, n + 1, Len(w))) =
              IF n + 1 <= Len(w) THEN Len(w) - (n + 1) + 1 ELSE 0
        /\ \A i \in 1 .. Len(w) - (n + 1) + 1 :
              SubSeq(w, n + 1, Len(w))[i] = w[n + 1 + i - 1]
    BY <1>1, <2>1, SubSeqProperties
  <2>3. Len(w) - (n + 1) + 1 = Len(w) - n /\ \A i \in 1 .. Len(w) - n : n + 1 + i - 1 = n + i
    BY <1>1
  <2>4. n < Len(w) => Len(SubSeq(w, n + 1, Len(w))) = Len(w) - n
    <3>1. n < Len(w) => n + 1 <= Len(w)
      BY <1>1
    <3>2. n + 1 <= Len(w) => Len(SubSeq(w, n + 1, Len(w))) = Len(w) - (n + 1) + 1
      BY <2>2
    <3> QED
      BY <2>3, <3>1, <3>2
  <2>5. ASSUME NEW i \in 1 .. Len(w) - n PROVE SubSeq(w, n + 1, Len(w))[i] = w[n + i]
    BY <2>2, <2>3
  <2> QED
    BY <2>2, <2>4, <2>5
<1>4. SubSeq(w, 1, n) \o SubSeq(w, n + 1, Len(w)) = SubSeq(w, 1, Len(w))
  <2>1. 1 \in 1 .. Len(w) + 1 /\ n \in 1 - 1 .. Len(w) /\ Len(w) \in n .. Len(w)
    BY <1>1
  <2> QED
    BY <2>1, ConcatAdjacentSubSeq
<1>5. SubSeq(w, 1, Len(w)) = w
  BY SubSeqFull
<1>6. n = Len(w) => SubSeq(w, n + 1, Len(w)) = <<>>
  BY <1>1, SubSeqEmpty
<1> QED
  BY <1>2, <1>3, <1>4, <1>5, <1>6

LEMMA PrefixOfConcat ==
    ASSUME NEW S, NEW s \in Seq(S), NEW t \in Seq(S)
    PROVE  IsPrefixOf(s, s \o t)
<1>1. s \o t \in Seq(S) /\ Len(s \o t) = Len(s) + Len(t) /\ Len(s) \in Nat /\ Len(t) \in Nat
      /\ \A i \in 1 .. Len(s) : (s \o t)[i] = s[i]
  BY ConcatProperties, LenProperties
<1>2. \A i \in 1 .. Len(s) : (s \o t)[i] \in S
  BY <1>1, ElementOfSeq
<1>3. /\ SubSeq(s \o t, 1, Len(s)) \in Seq(S)
      /\ Len(SubSeq(s \o t, 1, Len(s))) = IF 1 <= Len(s) THEN Len(s) - 1 + 1 ELSE 0
      /\ \A i \in 1 .. Len(s) - 1 + 1 : SubSeq(s \o t, 1, Len(s))[i] = (s \o t)[1 + i - 1]
  BY <1>1, <1>2, SubSeqProperties
<1>4. Len(SubSeq(s \o t, 1, Len(s))) = Len(s) /\ Len(s) - 1 + 1 = Len(s)
      /\ \A i \in 1 .. Len(s) : 1 + i - 1 = i
  BY <1>1, <1>3
<1>5. \A i \in 1 .. Len(s) : SubSeq(s \o t, 1, Len(s))[i] = s[i]
  BY <1>1, <1>3, <1>4
<1>6. SubSeq(s \o t, 1, Len(s)) = s
  BY <1>3, <1>4, <1>5, SeqEqual
<1> QED
  BY <1>1, <1>6 DEF IsPrefixOf

LEMMA PromptType ==
    Prompt \in Seq(Byte) /\ Len(Prompt) = 2 /\ Prompt[1] = "percent" /\ Prompt[2] = "space"
BY DEF Prompt, Byte

LEMMA PieceType ==
    ASSUME TypeOK, NEW h \in Host, NEW n \in Piece(h)
    PROVE  /\ wire[h] \in Seq(Byte) /\ Len(wire[h]) \in Nat
           /\ n \in 1 .. Len(wire[h]) /\ n <= Size /\ Size \in Nat
           /\ Filled(h, n) \in [Cells -> Byte \cup {"0"}]
<1>1. wire[h] \in Seq(Byte) /\ Len(wire[h]) \in Nat /\ Size \in Nat
  BY SizeAssumption, LenProperties DEF TypeOK
<1>2. n \in 1 .. Len(wire[h]) /\ n <= Size
  BY <1>1 DEF Piece
<1>3. \A i \in 1 .. n : wire[h][i] \in Byte
  BY <1>1, <1>2, ElementOfSeq
<1>4. data_[h] \in [Cells -> Byte \cup {"0"}]
  BY DEF TypeOK
<1>5. \A i \in Cells : i <= n => i \in 1 .. n
  BY <1>1, <1>2 DEF Cells
<1> QED
  BY <1>1, <1>2, <1>3, <1>4, <1>5 DEF Filled

LEMMA NextLineType ==
    ASSUME TypeOK, NEW h \in Host
    PROVE  NextLine(h) \in Text
<1>1. line[h] \in Nat
  BY SizeAssumption DEF TypeOK
<1>2. Script(h) \in Seq(Text) /\ Len(Script(h)) \in Nat
  BY ScriptAssumption, LenProperties
<1>3. line[h] < Len(Script(h)) => line[h] + 1 \in 1 .. Len(Script(h))
  BY <1>1, <1>2
<1>4. line[h] < Len(Script(h)) => Script(h)[line[h] + 1] \in Text
  BY <1>2, <1>3, ElementOfSeq
<1> QED
  BY <1>4 DEF NextLine, Text

-----------------------------------------------------------------------------
(* Types.                                                                  *)

LEMMA TypeInit == Init => TypeOK
<1> SUFFICES ASSUME Init PROVE TypeOK
  OBVIOUS
<1>1. endpoint \in [Host -> 1 .. Endpoint] /\ line \in [Host -> 0 .. MaxLine]
  BY SizeAssumption DEF Init
<1>2. /\ wire \in [Host -> Seq(Byte)] /\ typed \in [Host -> Seq(Text)]
      /\ spoken \in [Host -> Seq(Byte \cup Text)] /\ screen \in [Host -> Seq(Byte \cup Text)]
  BY DEF Init
<1>3. data_ \in [Host -> [Cells -> Byte \cup {"0"}]]
  BY DEF Init, Byte
<1> QED
  BY <1>1, <1>2, <1>3 DEF Init, TypeOK

LEMMA TypeSays ==
    ASSUME TypeOK, NEW h \in Host, NEW s \in Seq(Byte), Says(h, s)
    PROVE  /\ wire' \in [Host -> Seq(Byte)] /\ wire'[h] = wire[h] \o s
           /\ spoken' \in [Host -> Seq(Byte \cup Text)] /\ spoken'[h] = spoken[h] \o s
           /\ \A g \in Host \ {h} : wire'[g] = wire[g] /\ spoken'[g] = spoken[g]
<1>1. s \in Seq(Byte \cup Text)
  BY SeqMonotonic
<1>2. wire[h] \o s \in Seq(Byte) /\ spoken[h] \o s \in Seq(Byte \cup Text)
  BY <1>1, ConcatProperties DEF TypeOK
<1> QED
  BY <1>2 DEF Says, TypeOK

LEMMA TypeRemote ==
    ASSUME TypeOK, NEW h \in Host, Remote(h)
    PROVE  TypeOK'
<1>1. CASE Greets(h)
  <2>1. wire' \in [Host -> Seq(Byte)] /\ spoken' \in [Host -> Seq(Byte \cup Text)]
    BY <1>1, PromptType, TypeSays DEF Greets
  <2>2. shell' \in [Host -> {"none", "prompt", "busy", "closed"}]
    BY <1>1 DEF Greets, TypeOK
  <2> QED
    BY <1>1, <2>1, <2>2 DEF Greets, TypeOK, connection, session
<1>2. CASE TakesLine(h)
  <2>1. typed[h] \in Seq(Text) /\ typed[h] # <<>>
    BY <1>2 DEF TakesLine, TypeOK
  <2>2. Head(typed[h]) \in Text /\ Tail(typed[h]) \in Seq(Text)
    BY <2>1, HeadTailProperties
  <2>3. Append(spoken[h], Head(typed[h])) \in Seq(Byte \cup Text)
    BY <2>2, AppendProperties DEF TypeOK
  <2>4. typed' \in [Host -> Seq(Text)] /\ spoken' \in [Host -> Seq(Byte \cup Text)]
    BY <1>2, <2>2, <2>3 DEF TakesLine, TypeOK
  <2>5. shell' \in [Host -> {"none", "prompt", "busy", "closed"}]
    BY <1>2 DEF TakesLine, TypeOK
  <2> QED
    BY <1>2, <2>4, <2>5 DEF TakesLine, TypeOK, connection, session
<1>3. CASE Answers(h)
  <2>1. PICK o \in Output : /\ Says(h, o \o Prompt)
                            /\ percent' = IF \E i \in DOMAIN o : o[i] = "percent"
                                             THEN percent \cup {h} ELSE percent
    BY <1>3 DEF Answers
  <2>2. o \o Prompt \in Seq(Byte)
    BY OutputAssumption, PromptType, ConcatProperties
  <2>3. wire' \in [Host -> Seq(Byte)] /\ spoken' \in [Host -> Seq(Byte \cup Text)]
    BY <2>1, <2>2, TypeSays
  <2>4. shell' \in [Host -> {"none", "prompt", "busy", "closed"}]
    BY <1>3 DEF Answers, TypeOK
  <2>5. percent' \subseteq Host
    BY <2>1 DEF TypeOK
  <2> QED
    BY <1>3, <2>3, <2>4, <2>5 DEF Answers, TypeOK, connection, session
<1> QED
  BY <1>1, <1>2, <1>3 DEF Remote

LEMMA TypeConnecting ==
    ASSUME TypeOK, NEW h \in Host, Connecting(h) \/ ReadEof(h)
    PROVE  /\ TypeOK'
           /\ UNCHANGED <<wire, typed, shell, spoken, percent, session>>
<1>1. UNCHANGED <<proxy, missing, remote, wire, typed, session>>
  BY DEF Connecting, ReadEof, ResolveHost, ResolveProxy, Resolved, HandleResolve, HandleConnect,
         SendRequest, HandleReply
<1>2. stage' \in [Host -> {"resolve", "dst", "connect", "reply", "session", "done", "failed"}]
  BY DEF Connecting, ReadEof, ResolveHost, ResolveProxy, Resolved, HandleResolve, HandleConnect,
         SendRequest, HandleReply, StartSession, Goto, TypeOK
<1>3. endpoint' \in [Host -> 1 .. Endpoint]
  <2>1. endpoint \in [Host -> 1 .. Endpoint] /\ Endpoint \in Nat
    BY SizeAssumption DEF TypeOK
  <2>2. CASE HandleConnect(h)
    <3>1. endpoint[h] < Endpoint => endpoint[h] + 1 \in 1 .. Endpoint
      BY <2>1
    <3>2. \/ endpoint' = endpoint
          \/ endpoint[h] < Endpoint /\ endpoint' = [endpoint EXCEPT ![h] = @ + 1]
      BY <2>2 DEF HandleConnect
    <3> QED
      BY <2>1, <3>1, <3>2
  <2>3. CASE ~HandleConnect(h)
    BY <2>1, <2>3 DEF Connecting, ReadEof, ResolveHost, ResolveProxy, Resolved, HandleResolve,
                      SendRequest, HandleReply
  <2> QED
    BY <2>2, <2>3
<1>4. running' \in BOOLEAN
  BY DEF Connecting, ReadEof, ResolveHost, ResolveProxy, Resolved, HandleResolve, HandleConnect,
         SendRequest, HandleReply, StartSession, TypeOK
<1>5. granted' \subseteq Host
  BY DEF Connecting, ReadEof, ResolveHost, ResolveProxy, Resolved, HandleResolve, HandleConnect,
         SendRequest, HandleReply, TypeOK
<1> QED
  BY <1>1, <1>2, <1>3, <1>4, <1>5 DEF TypeOK, remote, session

(* What Read does, without LET and quantifiers.                            *)
ReadPiece(h, n) ==
    /\ wire' = [wire EXCEPT ![h] = SubSeq(@, n + 1, Len(@))]
    /\ split' = IF Splits(h, n) THEN split \cup {h} ELSE split

Answered(h, n) ==
    /\ Contains(Filled(h, n))
    /\ data_' = [data_ EXCEPT ![h] = Zeroed(h, n)]
    /\ line' = [line EXCEPT ![h] = @ + 1]
    /\ typed' = [typed EXCEPT ![h] = Append(@, NextLine(h))]
    /\ exit_' = IF NextLine(h) = "exit" THEN exit_ \cup {h} ELSE exit_ \ {h}
    /\ screen' = [screen EXCEPT ![h] =
                    IF h \in exit_ THEN screen[h] \o SubSeq(wire[h], 1, n)
                    ELSE Append(screen[h] \o SubSeq(wire[h], 1, n), NextLine(h))]

Shown(h, n) ==
    /\ ~Contains(Filled(h, n))
    /\ data_' = [data_ EXCEPT ![h] = Filled(h, n)]
    /\ screen' = [screen EXCEPT ![h] = screen[h] \o SubSeq(wire[h], 1, n)]
    /\ UNCHANGED <<line, typed, exit_>>

LEMMA ReadShape ==
    ASSUME TypeOK, NEW h \in Host, Read(h)
    PROVE  /\ running /\ stage[h] = "session" /\ line[h] < MaxLine
           /\ \E n \in Piece(h) : ReadPiece(h, n) /\ (Answered(h, n) \/ Shown(h, n))
           /\ UNCHANGED <<proxy, missing, running, connection, remote>>
BY DEF Read, ReadPiece, Answered, Shown

LEMMA TypeRead ==
    ASSUME TypeOK, NEW h \in Host, Read(h)
    PROVE  TypeOK'
<1>1. PICK n \in Piece(h) : ReadPiece(h, n) /\ (Answered(h, n) \/ Shown(h, n))
  BY ReadShape
<1>2. UNCHANGED <<proxy, missing, running, stage, endpoint, granted, shell, spoken, percent>>
  BY ReadShape DEF connection, remote
<1>3. n \in 1 .. Len(wire[h]) /\ wire[h] \in Seq(Byte) /\ NextLine(h) \in Text
      /\ Filled(h, n) \in [Cells -> Byte \cup {"0"}]
  BY PieceType, NextLineType
<1>4. SubSeq(wire[h], 1, n) \in Seq(Byte) /\ SubSeq(wire[h], n + 1, Len(wire[h])) \in Seq(Byte)
  BY <1>3, PieceCuts
<1>5. wire' \in [Host -> Seq(Byte)] /\ split' \subseteq Host
  BY <1>1, <1>4 DEF ReadPiece, TypeOK
<1>6. screen[h] \o SubSeq(wire[h], 1, n) \in Seq(Byte \cup Text)
  <2>1. SubSeq(wire[h], 1, n) \in Seq(Byte \cup Text)
    BY <1>4, SeqMonotonic
  <2> QED
    BY <2>1, ConcatProperties DEF TypeOK
<1>7. Append(screen[h] \o SubSeq(wire[h], 1, n), NextLine(h)) \in Seq(Byte \cup Text)
  BY <1>3, <1>6, AppendProperties
<1>8. screen' \in [Host -> Seq(Byte \cup Text)]
  <2>1. screen \in [Host -> Seq(Byte \cup Text)]
    BY DEF TypeOK
  <2>2. CASE Answered(h, n)
    BY <1>6, <1>7, <2>1, <2>2 DEF Answered
  <2>3. CASE Shown(h, n)
    BY <1>6, <2>1, <2>3 DEF Shown
  <2> QED
    BY <1>1, <2>2, <2>3
<1>9. data_' \in [Host -> [Cells -> Byte \cup {"0"}]]
  <2>1. Zeroed(h, n) \in [Cells -> Byte \cup {"0"}]
    BY DEF Zeroed
  <2>2. data_ \in [Host -> [Cells -> Byte \cup {"0"}]]
    BY DEF TypeOK
  <2>3. CASE Answered(h, n)
    BY <2>1, <2>2, <2>3 DEF Answered
  <2>4. CASE Shown(h, n)
    BY <1>3, <2>2, <2>4 DEF Shown
  <2> QED
    BY <1>1, <2>3, <2>4
<1>10. typed' \in [Host -> Seq(Text)] /\ exit_' \subseteq Host
  <2>1. Append(typed[h], NextLine(h)) \in Seq(Text)
    BY <1>3, AppendProperties DEF TypeOK
  <2>2. CASE Answered(h, n)
    BY <2>1, <2>2 DEF Answered, TypeOK
  <2>3. CASE Shown(h, n)
    BY <2>3 DEF Shown, TypeOK
  <2> QED
    BY <1>1, <2>2, <2>3
<1>11. line' \in [Host -> 0 .. MaxLine]
  <2>1. line[h] < MaxLine /\ line \in [Host -> 0 .. MaxLine] /\ MaxLine \in Nat
    BY ReadShape, SizeAssumption DEF TypeOK
  <2> QED
    BY <1>1, <2>1 DEF Answered, Shown
<1> QED
  BY <1>2, <1>5, <1>8, <1>9, <1>10, <1>11 DEF TypeOK

LEMMA TypeStep == TypeOK /\ [Next]_vars => TypeOK'
<1> SUFFICES ASSUME TypeOK, [Next]_vars PROVE TypeOK'
  OBVIOUS
<1>1. ASSUME NEW h \in Host, Remote(h) PROVE TypeOK'
  BY <1>1, TypeRemote
<1>2. ASSUME NEW h \in Host, Read(h) PROVE TypeOK'
  BY <1>2, TypeRead
<1>3. ASSUME NEW h \in Host, Connecting(h) \/ ReadEof(h) PROVE TypeOK'
  BY <1>3, TypeConnecting
<1>4. CASE UNCHANGED vars
  BY <1>4 DEF vars, connection, remote, session, TypeOK
<1> QED
  BY <1>1, <1>2, <1>3, <1>4 DEF Next, Callback

(* Every variable keeps its type.                                          *)
THEOREM TypeSafe == Spec => []TypeOK
BY TypeInit, TypeStep, PTL DEF Spec

-----------------------------------------------------------------------------
(* Prompts that are not read.                                              *)

AsksLast(s) == Len(s) >= 2 /\ s[Len(s) - 1] = "percent" /\ s[Len(s)] = "space"

(* A shell that waits for a line, where none is on its way, still has its  *)
(* prompt on the wire, if no prompt was read in two pieces.                *)
PromptStands == \A h \in Host \ split : shell[h] = "prompt" /\ typed[h] = <<>> => AsksLast(wire[h])

LEMMA Reassociate ==
    \A S : \A s, t, u \in Seq(S) : s \o (t \o u) = (s \o t) \o u
BY ConcatAssociative

LEMMA EndsInPrompt ==
    ASSUME NEW s \in Seq(Byte)
    PROVE  /\ s \o Prompt \in Seq(Byte) /\ AsksLast(s \o Prompt)
           /\ Len(s \o Prompt) = Len(s) + 2
           /\ \A i \in 1 .. Len(s) : (s \o Prompt)[i] = s[i]
<1>1. Len(s) \in Nat
  BY LenProperties
<1>2. /\ s \o Prompt \in Seq(Byte) /\ Len(s \o Prompt) = Len(s) + 2
      /\ \A i \in 1 .. Len(s) + 2 :
            (s \o Prompt)[i] = IF i <= Len(s) THEN s[i] ELSE Prompt[i - Len(s)]
  <2>1. /\ s \o Prompt \in Seq(Byte) /\ Len(s \o Prompt) = Len(s) + Len(Prompt)
        /\ \A i \in 1 .. Len(s) + Len(Prompt) :
              (s \o Prompt)[i] = IF i <= Len(s) THEN s[i] ELSE Prompt[i - Len(s)]
    <3>1. Prompt \in Seq(Byte)
      BY PromptType
    <3> HIDE DEF Prompt
    <3> QED
      BY <3>1, ConcatProperties
  <2>2. Len(Prompt) = 2
    BY PromptType
  <2> QED
    BY <2>1, <2>2
<1>3. (s \o Prompt)[Len(s) + 1] = "percent" /\ (s \o Prompt)[Len(s) + 2] = "space"
  <2>1. Len(s) + 1 \in 1 .. Len(s) + 2 /\ Len(s) + 2 \in 1 .. Len(s) + 2
        /\ Len(s) + 1 - Len(s) = 1 /\ Len(s) + 2 - Len(s) = 2
        /\ ~(Len(s) + 1 <= Len(s)) /\ ~(Len(s) + 2 <= Len(s))
    BY <1>1
  <2> QED
    BY <1>2, <2>1, PromptType
<1>4. Len(s) + 2 - 1 = Len(s) + 1 /\ Len(s) + 2 >= 2
  BY <1>1
<1>5. \A i \in 1 .. Len(s) : (s \o Prompt)[i] = s[i]
  BY <1>1, <1>2
<1> QED
  BY <1>2, <1>3, <1>4, <1>5 DEF AsksLast

(* A piece that does not split the prompt takes it or leaves it.           *)
LEMMA TakesOrLeaves ==
    ASSUME TypeOK, NEW h \in Host, NEW n \in Piece(h), AsksLast(wire[h]), ~Splits(h, n)
    PROVE  /\ n = Len(wire[h]) => Contains(Filled(h, n))
           /\ n # Len(wire[h]) => /\ n + 2 <= Len(wire[h])
                                  /\ AsksLast(SubSeq(wire[h], n + 1, Len(wire[h])))
<1> DEFINE w == wire[h]
           k == Len(w)
<1>1. w \in Seq(Byte) /\ k \in Nat /\ n \in 1 .. k /\ n <= Size /\ Size \in Nat
  BY PieceType
<1>2. k >= 2 /\ w[k - 1] = "percent" /\ w[k] = "space"
  BY DEF AsksLast
<1>3. ASSUME n = k PROVE Contains(Filled(h, n))
  <2>1. n - 1 \in Cells /\ n \in Cells /\ n - 1 < Size /\ (n - 1) + 1 = n
    BY <1>1, <1>2, <1>3 DEF Cells
  <2>2. Filled(h, n)[n - 1] = w[n - 1] /\ Filled(h, n)[n] = w[n]
    BY <1>1, <2>1 DEF Filled
  <2> QED
    BY <1>2, <1>3, <2>1, <2>2 DEF Contains
<1>4. ASSUME n # k
      PROVE  n + 2 <= k /\ AsksLast(SubSeq(w, n + 1, k))
  <2>1. n < k /\ n # k - 1
    <3>1. n < k
      BY <1>1, <1>4
    <3>2. SUFFICES ASSUME n = k - 1 PROVE FALSE
      BY <3>1
    <3>3. n + 1 = k
      BY <1>1, <3>2
    <3> QED
      BY <1>2, <3>1, <3>2, <3>3 DEF Splits
  <2>2. n + 2 <= k
    BY <1>1, <2>1
  <2>3. /\ Len(SubSeq(w, n + 1, k)) = k - n
        /\ \A i \in 1 .. k - n : SubSeq(w, n + 1, k)[i] = w[n + i]
    BY <1>1, <2>1, PieceCuts
  <2>4. k - n >= 2 /\ k - n - 1 \in 1 .. k - n /\ k - n \in 1 .. k - n
        /\ n + (k - n - 1) = k - 1 /\ n + (k - n) = k
    BY <1>1, <2>2
  <2>5. SubSeq(w, n + 1, k)[k - n - 1] = "percent" /\ SubSeq(w, n + 1, k)[k - n] = "space"
    BY <1>2, <2>3, <2>4
  <2> QED
    BY <2>2, <2>3, <2>4, <2>5 DEF AsksLast
<1> QED
  BY <1>3, <1>4

(* What a session of another host does not change.                         *)
LEMMA OtherHost ==
    ASSUME TypeOK, NEW g \in Host, Remote(g) \/ Read(g), NEW h \in Host, h # g
    PROVE  /\ shell'[h] = shell[h] /\ wire'[h] = wire[h] /\ typed'[h] = typed[h]
           /\ spoken'[h] = spoken[h] /\ screen'[h] = screen[h] /\ data_'[h] = data_[h]
           /\ h \in exit_' <=> h \in exit_
           /\ h \in split' <=> h \in split
           /\ h \in percent' <=> h \in percent
<1>1. CASE Greets(g)
  BY <1>1 DEF Greets, Says, session, TypeOK
<1>2. CASE TakesLine(g)
  BY <1>2 DEF TakesLine, session, TypeOK
<1>3. CASE Answers(g)
  <2>1. PICK o \in Output : /\ Says(g, o \o Prompt)
                            /\ percent' = IF \E i \in DOMAIN o : o[i] = "percent"
                                             THEN percent \cup {g} ELSE percent
    BY <1>3 DEF Answers
  <2>2. wire'[h] = wire[h] /\ spoken'[h] = spoken[h] /\ (h \in percent' <=> h \in percent)
    BY <2>1 DEF Says, TypeOK
  <2> QED
    BY <1>3, <2>2 DEF Answers, session, TypeOK
<1>4. CASE Read(g)
  <2>1. PICK n \in Piece(g) : ReadPiece(g, n) /\ (Answered(g, n) \/ Shown(g, n))
    BY <1>4, ReadShape
  <2>2. wire'[h] = wire[h] /\ (h \in split' <=> h \in split)
    BY <2>1 DEF ReadPiece, TypeOK
  <2>3. typed'[h] = typed[h] /\ screen'[h] = screen[h] /\ data_'[h] = data_[h]
        /\ (h \in exit_' <=> h \in exit_)
    <3>1. CASE Answered(g, n)
      BY <3>1 DEF Answered, TypeOK
    <3>2. CASE Shown(g, n)
      BY <3>2 DEF Shown, TypeOK
    <3> QED
      BY <2>1, <3>1, <3>2
  <2> QED
    BY <1>4, <2>2, <2>3, ReadShape DEF remote
<1> QED
  BY <1>1, <1>2, <1>3, <1>4 DEF Remote

LEMMA StandsInit == Init => PromptStands
BY DEF Init, PromptStands

LEMMA StandsOwn ==
    ASSUME TypeOK, PromptStands, NEW h \in Host, Remote(h) \/ Read(h),
           h \notin split', shell'[h] = "prompt", typed'[h] = <<>>
    PROVE  AsksLast(wire'[h])
<1>1. CASE Greets(h)
  <2>1. wire'[h] = wire[h] \o Prompt /\ wire[h] \in Seq(Byte)
    BY <1>1, PromptType, TypeSays DEF Greets, TypeOK
  <2> QED
    BY <2>1, EndsInPrompt
<1>2. CASE TakesLine(h)
  BY <1>2 DEF TakesLine, TypeOK
<1>3. CASE Answers(h)
  <2>1. PICK o \in Output : Says(h, o \o Prompt)
    BY <1>3 DEF Answers
  <2>2. o \in Seq(Byte) /\ o \o Prompt \in Seq(Byte) /\ wire[h] \in Seq(Byte)
    BY OutputAssumption, EndsInPrompt DEF TypeOK
  <2>3. wire'[h] = wire[h] \o (o \o Prompt)
    BY <2>1, <2>2, TypeSays
  <2>4. wire'[h] = (wire[h] \o o) \o Prompt
    <3>1. Prompt \in Seq(Byte)
      BY PromptType
    <3>2. wire[h] \o (o \o Prompt) = (wire[h] \o o) \o Prompt
      <4>1. \A s, t, u \in Seq(Byte) : s \o (t \o u) = (s \o t) \o u
        BY Reassociate
      <4> HIDE DEF Prompt
      <4> QED
        BY <2>2, <3>1, <4>1
    <3> QED
      BY <2>3, <3>2
  <2>5. wire[h] \o o \in Seq(Byte)
    BY <2>2, ConcatProperties
  <2> QED
    BY <2>4, <2>5, EndsInPrompt
<1>4. CASE Read(h)
  <2>1. PICK n \in Piece(h) : ReadPiece(h, n) /\ (Answered(h, n) \/ Shown(h, n))
    BY <1>4, ReadShape
  <2>2. shell' = shell
    BY <1>4, ReadShape DEF remote
  <2>3. h \notin split /\ ~Splits(h, n)
    BY <2>1 DEF ReadPiece
  <2>4. NextLine(h) \in Text /\ typed \in [Host -> Seq(Text)]
    BY NextLineType DEF TypeOK
  <2>5. ~Answered(h, n)
    BY <2>4, AppendProperties DEF Answered
  <2>6. typed[h] = <<>> /\ ~Contains(Filled(h, n))
    BY <2>1, <2>5 DEF Shown
  <2>7. AsksLast(wire[h])
    BY <2>2, <2>3, <2>6 DEF PromptStands
  <2>8. n # Len(wire[h])
    BY <2>3, <2>6, <2>7, TakesOrLeaves
  <2>9. wire'[h] = SubSeq(wire[h], n + 1, Len(wire[h]))
    BY <2>1 DEF ReadPiece, TypeOK
  <2> QED
    BY <2>3, <2>7, <2>8, <2>9, TakesOrLeaves
<1> QED
  BY <1>1, <1>2, <1>3, <1>4 DEF Remote

LEMMA StandsStep == TypeOK /\ PromptStands /\ [Next]_vars => PromptStands'
<1> SUFFICES ASSUME TypeOK, PromptStands, [Next]_vars PROVE PromptStands'
  OBVIOUS
<1>1. ASSUME NEW g \in Host, Remote(g) \/ Read(g) PROVE PromptStands'
  <2> SUFFICES ASSUME NEW h \in Host, h \notin split', shell'[h] = "prompt", typed'[h] = <<>>
               PROVE  AsksLast(wire'[h])
    BY DEF PromptStands, AsksLast
  <2>1. CASE h = g
    BY <1>1, <2>1, StandsOwn
  <2>2. CASE h # g
    <3>1. /\ shell'[h] = shell[h] /\ wire'[h] = wire[h] /\ typed'[h] = typed[h]
          /\ h \in split' <=> h \in split
      BY <1>1, <2>2, OtherHost
    <3> QED
      BY <3>1 DEF PromptStands
  <2> QED
    BY <2>1, <2>2
<1>2. ASSUME NEW g \in Host, Connecting(g) \/ ReadEof(g) PROVE PromptStands'
  <2>1. UNCHANGED <<wire, typed, shell, split>>
    BY <1>2, TypeConnecting DEF session
  <2> QED
    BY <2>1 DEF PromptStands, AsksLast
<1>3. CASE UNCHANGED vars
  BY <1>3 DEF vars, remote, session, PromptStands, AsksLast
<1> QED
  BY <1>1, <1>2, <1>3 DEF Next, Callback

-----------------------------------------------------------------------------
(* The course of a dialogue whose prompts arrive whole and hold the only   *)
(* percent signs: the shell has not begun, its prompt is on the wire, a    *)
(* line is on its way, it is at work, or it is over.                       *)

Silent(h) ==
    /\ shell[h] = "none" /\ h \notin exit_
    /\ wire[h] = <<>> /\ typed[h] = <<>> /\ spoken[h] = <<>> /\ screen[h] = <<>>

Asking(h) ==
    /\ shell[h] = "prompt" /\ h \notin exit_ /\ typed[h] = <<>>
    /\ AsksLast(wire[h])
    /\ \A i \in 1 .. Len(wire[h]) : wire[h][i] = "percent" => i = Len(wire[h]) - 1
    /\ spoken[h] = screen[h] \o wire[h]

Told(h) ==
    /\ shell[h] = "prompt" /\ wire[h] = <<>>
    /\ \E x \in Text : /\ typed[h] = <<x>> /\ screen[h] = Append(spoken[h], x)
                       /\ h \in exit_ => x = "exit"

Working(h) ==
    /\ shell[h] = "busy" /\ h \notin exit_
    /\ wire[h] = <<>> /\ typed[h] = <<>> /\ screen[h] = spoken[h]

Over(h) == shell[h] = "closed" /\ wire[h] = <<>> /\ typed[h] = <<>> /\ screen[h] = spoken[h]

InDialogue(h) ==
    /\ \A i \in Cells : data_[h][i] # "percent"
    /\ Silent(h) \/ Asking(h) \/ Told(h) \/ Working(h) \/ Over(h)

Dialogue == \A h \in Host \ (split \cup percent) : InDialogue(h)

LEMMA DialogueInit == Init => Dialogue
<1> SUFFICES ASSUME Init, NEW h \in Host PROVE InDialogue(h)
  BY DEF Dialogue
<1>1. Silent(h)
  BY DEF Init, Silent
<1>2. \A i \in Cells : data_[h][i] # "percent"
  BY DEF Init
<1> QED
  BY <1>1, <1>2 DEF InDialogue

LEMMA DialogueGreets ==
    ASSUME TypeOK, NEW h \in Host, Greets(h), InDialogue(h)
    PROVE  InDialogue(h)'
<1>1. Silent(h)
  BY DEF InDialogue, Asking, Told, Working, Over, Greets
<1>2. wire'[h] = <<>> \o Prompt /\ spoken'[h] = <<>> \o Prompt
  BY <1>1, PromptType, TypeSays DEF Greets, Silent
<1>3. Prompt \in Seq(Byte) /\ <<>> \o Prompt = Prompt
  BY PromptType, ConcatEmptySeq
<1>4. wire'[h] = Prompt /\ spoken'[h] = screen[h] \o Prompt
  BY <1>1, <1>2, <1>3 DEF Silent
<1>5. AsksLast(Prompt)
  BY PromptType DEF AsksLast
<1>6. \A i \in 1 .. Len(Prompt) : Prompt[i] = "percent" => i = Len(Prompt) - 1
  BY PromptType
<1>7. UNCHANGED <<typed, data_, exit_, screen>> /\ shell'[h] = "prompt"
  BY DEF Greets, session, TypeOK
<1>8. Asking(h)'
  BY <1>1, <1>4, <1>5, <1>6, <1>7 DEF Asking, AsksLast, Silent
<1> QED
  BY <1>7, <1>8 DEF InDialogue

LEMMA DialogueTakesLine ==
    ASSUME TypeOK, NEW h \in Host, TakesLine(h), InDialogue(h)
    PROVE  InDialogue(h)'
<1>1. Told(h)
  BY DEF InDialogue, Silent, Asking, Working, Over, TakesLine
<1>2. PICK x \in Text : /\ typed[h] = <<x>> /\ screen[h] = Append(spoken[h], x)
                        /\ h \in exit_ => x = "exit"
  BY <1>1 DEF Told
<1>3. Head(<<x>>) = x /\ Tail(<<x>>) = <<>>
  OBVIOUS
<1>4. /\ typed'[h] = <<>> /\ spoken'[h] = screen[h]
      /\ shell'[h] = IF x = "exit" THEN "closed" ELSE "busy"
      /\ UNCHANGED <<wire, data_, exit_, screen>>
  BY <1>2, <1>3 DEF TakesLine, session, TypeOK
<1>5. Working(h)' \/ Over(h)'
  BY <1>1, <1>2, <1>4 DEF Working, Over, Told
<1> QED
  BY <1>4, <1>5 DEF InDialogue

LEMMA DialogueAnswers ==
    ASSUME TypeOK, NEW h \in Host, Answers(h), InDialogue(h), h \notin percent'
    PROVE  InDialogue(h)'
<1>1. Working(h)
  BY DEF InDialogue, Silent, Asking, Told, Over, Answers
<1>2. PICK o \in Output : /\ Says(h, o \o Prompt)
                          /\ percent' = IF \E i \in DOMAIN o : o[i] = "percent"
                                           THEN percent \cup {h} ELSE percent
  BY DEF Answers
<1>3. o \in Seq(Byte) /\ \A i \in 1 .. Len(o) : o[i] # "percent"
  <2>1. o \in Seq(Byte)
    BY OutputAssumption
  <2>2. DOMAIN o = 1 .. Len(o)
    BY <2>1, LenProperties
  <2> QED
    BY <1>2, <2>1, <2>2
<1>4. /\ o \o Prompt \in Seq(Byte) /\ AsksLast(o \o Prompt) /\ Len(o \o Prompt) = Len(o) + 2
      /\ \A i \in 1 .. Len(o) : (o \o Prompt)[i] = o[i]
      /\ Len(o) \in Nat
  BY <1>3, EndsInPrompt, LenProperties
<1>5. wire'[h] = o \o Prompt /\ spoken'[h] = screen[h] \o (o \o Prompt)
  <2>1. wire'[h] = <<>> \o (o \o Prompt) /\ spoken'[h] = screen[h] \o (o \o Prompt)
    BY <1>1, <1>2, <1>4, TypeSays DEF Working
  <2>2. <<>> \o (o \o Prompt) = o \o Prompt
    BY <1>4, ConcatEmptySeq
  <2> QED
    BY <2>1, <2>2
<1>6. ASSUME NEW i \in 1 .. Len(o \o Prompt), (o \o Prompt)[i] = "percent"
      PROVE  i = Len(o \o Prompt) - 1
  <2>1. i > Len(o) /\ i \in Int
    BY <1>3, <1>4, <1>6
  <2>2. (o \o Prompt)[Len(o) + 2] = "space"
    BY <1>4 DEF AsksLast
  <2>3. i # Len(o) + 2
    BY <1>6, <2>2
  <2> QED
    BY <1>4, <1>6, <2>1, <2>3
<1>7. UNCHANGED <<typed, data_, exit_, screen>> /\ shell'[h] = "prompt"
  BY DEF Answers, session, TypeOK
<1>8. Asking(h)'
  BY <1>1, <1>4, <1>5, <1>6, <1>7 DEF Asking, AsksLast, Working
<1> QED
  BY <1>7, <1>8 DEF InDialogue

LEMMA DialogueRead ==
    ASSUME TypeOK, NEW h \in Host, Read(h), InDialogue(h), h \notin split'
    PROVE  InDialogue(h)'
<1> DEFINE w == wire[h]
           k == Len(w)
<1>1. PICK n \in Piece(h) : ReadPiece(h, n) /\ (Answered(h, n) \/ Shown(h, n))
  BY ReadShape
<1>2. /\ w \in Seq(Byte) /\ k \in Nat /\ n \in 1 .. k /\ n <= Size /\ Size \in Nat
      /\ NextLine(h) \in Text
  BY PieceType, NextLineType
<1>3. w # <<>>
  BY <1>2
<1>4. Asking(h) /\ ~Splits(h, n)
  BY <1>1, <1>3 DEF InDialogue, Silent, Told, Working, Over, ReadPiece
<1>5. shell' = shell /\ spoken' = spoken
  BY ReadShape DEF remote
<1>6. wire'[h] = SubSeq(w, n + 1, k)
  BY <1>1 DEF ReadPiece, TypeOK
<1>7. /\ SubSeq(w, 1, n) \in Seq(Byte) /\ SubSeq(w, n + 1, k) \in Seq(Byte)
      /\ SubSeq(w, 1, n) \o SubSeq(w, n + 1, k) = w
  BY <1>2, PieceCuts
(* Only the whole of the wire holds a prompt.                              *)
<1>8. Contains(Filled(h, n)) <=> n = k
  <2>1. n = k => Contains(Filled(h, n))
    BY <1>4, TakesOrLeaves DEF Asking
  <2>2. ASSUME Contains(Filled(h, n)) PROVE n = k
    <3>1. PICK i \in Cells : i < Size /\ Filled(h, n)[i] = "percent"
      BY <2>2 DEF Contains
    <3>2. i <= n /\ w[i] = "percent" /\ i >= 1 /\ i \in Int
      BY <1>2, <3>1 DEF Filled, Cells, InDialogue
    <3>3. i = k - 1
      BY <1>2, <1>4, <3>2 DEF Asking
    <3>4. n # k => n + 2 <= k
      BY <1>4, TakesOrLeaves DEF Asking
    <3> QED
      BY <1>2, <3>2, <3>3, <3>4
  <2> QED
    BY <2>1, <2>2
<1>9. CASE Answered(h, n)
  <2>1. n = k
    BY <1>8, <1>9 DEF Answered
  <2>2. SubSeq(w, 1, n) = w /\ wire'[h] = <<>>
    BY <1>2, <1>6, <2>1, PieceCuts
  <2>3. typed'[h] = <<NextLine(h)>>
    <3>1. typed'[h] = Append(<<>>, NextLine(h))
      BY <1>4, <1>9 DEF Answered, Asking, TypeOK
    <3>2. Append(<<>>, NextLine(h)) = <<NextLine(h)>>
      OBVIOUS
    <3> QED
      BY <3>1, <3>2
  <2>4. screen'[h] = Append(screen[h] \o w, NextLine(h))
    BY <1>4, <1>9, <2>2 DEF Answered, Asking, TypeOK
  <2>5. h \in exit_' => NextLine(h) = "exit"
    BY <1>9 DEF Answered
  <2>6. Told(h)'
    BY <1>2, <1>4, <1>5, <2>2, <2>3, <2>4, <2>5 DEF Told, Asking
  <2>7. \A i \in Cells : data_'[h][i] # "percent"
    BY <1>9 DEF Answered, Zeroed, TypeOK
  <2> QED
    BY <2>6, <2>7 DEF InDialogue
<1>10. CASE Shown(h, n)
  <2>1. n # k
    BY <1>8, <1>10 DEF Shown
  <2>2. n + 2 <= k /\ AsksLast(SubSeq(w, n + 1, k))
    BY <1>4, <2>1, TakesOrLeaves DEF Asking
  <2>3. /\ Len(SubSeq(w, n + 1, k)) = k - n
        /\ \A i \in 1 .. k - n : SubSeq(w, n + 1, k)[i] = w[n + i]
    BY <1>2, <2>2, PieceCuts
  <2>4. ASSUME NEW i \in 1 .. k - n, SubSeq(w, n + 1, k)[i] = "percent" PROVE i = k - n - 1
    <3>1. n + i \in 1 .. k /\ w[n + i] = "percent"
      BY <1>2, <2>3, <2>4
    <3>2. n + i = k - 1
      BY <1>4, <3>1 DEF Asking
    <3> QED
      BY <1>2, <3>2
  <2>5. screen'[h] = screen[h] \o SubSeq(w, 1, n) /\ UNCHANGED <<typed, exit_>>
    BY <1>10 DEF Shown, TypeOK
  <2>6. spoken'[h] = screen'[h] \o wire'[h]
    <3>1. /\ screen[h] \in Seq(Spoken) /\ SubSeq(w, 1, n) \in Seq(Spoken)
          /\ SubSeq(w, n + 1, k) \in Seq(Spoken)
      BY <1>7, SeqMonotonic DEF TypeOK, Spoken
    <3>2. screen[h] \o (SubSeq(w, 1, n) \o SubSeq(w, n + 1, k))
             = (screen[h] \o SubSeq(w, 1, n)) \o SubSeq(w, n + 1, k)
      <4>1. \A s, t, u \in Seq(Spoken) : s \o (t \o u) = (s \o t) \o u
        BY Reassociate
      <4> QED
        BY <3>1, <4>1
    <3> QED
      BY <1>4, <1>5, <1>6, <1>7, <2>5, <3>2 DEF Asking
  <2>7. \A i \in Cells : data_'[h][i] # "percent"
    <3>1. data_'[h] = Filled(h, n)
      BY <1>10 DEF Shown, TypeOK
    <3>2. ASSUME NEW i \in Cells, i <= n PROVE w[i] # "percent"
      BY <1>2, <1>4, <2>2, <3>2 DEF Asking, Cells
    <3> QED
      BY <3>1, <3>2 DEF Filled, InDialogue
  <2>8. Asking(h)'
    BY <1>4, <1>5, <1>6, <2>2, <2>3, <2>4, <2>5, <2>6 DEF Asking, AsksLast
  <2> QED
    BY <2>7, <2>8 DEF InDialogue
<1> QED
  BY <1>1, <1>9, <1>10

LEMMA DialogueKeeps ==
    ASSUME NEW h \in Host, InDialogue(h), shell'[h] = shell[h], wire'[h] = wire[h],
           typed'[h] = typed[h], spoken'[h] = spoken[h], screen'[h] = screen[h],
           data_'[h] = data_[h], h \in exit_' <=> h \in exit_
    PROVE  InDialogue(h)'
<1>1. Silent(h) => Silent(h)'
  BY DEF Silent
<1>2. Asking(h) => Asking(h)'
  BY DEF Asking, AsksLast
<1>3. Told(h) => Told(h)'
  BY DEF Told
<1>4. Working(h) => Working(h)'
  BY DEF Working
<1>5. Over(h) => Over(h)'
  BY DEF Over
<1> QED
  BY <1>1, <1>2, <1>3, <1>4, <1>5 DEF InDialogue

LEMMA DialogueStep == TypeOK /\ Dialogue /\ [Next]_vars => Dialogue'
<1> SUFFICES ASSUME TypeOK, Dialogue, [Next]_vars, NEW h \in Host,
                    h \notin split', h \notin percent'
             PROVE  InDialogue(h)'
  BY DEF Dialogue
<1>1. ASSUME NEW g \in Host, Remote(g) \/ Read(g), h # g PROVE InDialogue(h)'
  <2>1. /\ shell'[h] = shell[h] /\ wire'[h] = wire[h] /\ typed'[h] = typed[h]
        /\ spoken'[h] = spoken[h] /\ screen'[h] = screen[h] /\ data_'[h] = data_[h]
        /\ h \in exit_' <=> h \in exit_
        /\ h \in split' <=> h \in split
        /\ h \in percent' <=> h \in percent
    BY <1>1, OtherHost
  <2>2. InDialogue(h)
    BY <2>1 DEF Dialogue
  <2> QED
    BY <2>1, <2>2, DialogueKeeps
<1>2. ASSUME Remote(h) \/ Read(h) PROVE InDialogue(h)'
  <2>1. h \notin split
    <3>1. CASE Remote(h)
      BY <3>1 DEF Remote, Greets, TakesLine, Answers, session
    <3>2. CASE Read(h)
      BY <3>2, ReadShape DEF ReadPiece
    <3> QED
      BY <1>2, <3>1, <3>2
  <2>2. h \notin percent
    <3>1. CASE Greets(h) \/ TakesLine(h)
      BY <3>1 DEF Greets, TakesLine
    <3>2. CASE Answers(h)
      BY <3>2 DEF Answers
    <3>3. CASE Read(h)
      BY <3>3, ReadShape DEF remote
    <3> QED
      BY <1>2, <3>1, <3>2, <3>3 DEF Remote
  <2>3. InDialogue(h)
    BY <2>1, <2>2 DEF Dialogue
  <2> QED
    BY <1>2, <2>3, DialogueGreets, DialogueTakesLine, DialogueAnswers, DialogueRead DEF Remote
<1>3. ASSUME UNCHANGED <<wire, typed, shell, spoken, percent, session>> PROVE InDialogue(h)'
  BY <1>3, DialogueKeeps DEF session, Dialogue
<1>4. ASSUME NEW g \in Host, Connecting(g) \/ ReadEof(g) PROVE InDialogue(h)'
  BY <1>3, <1>4, TypeConnecting
<1>5. CASE UNCHANGED vars
  BY <1>3, <1>5 DEF vars, remote
<1> QED
  BY <1>1, <1>2, <1>4, <1>5 DEF Next, Callback

LEMMA DialogueTranscript ==
    ASSUME TypeOK, Dialogue PROVE Transcript
<1> SUFFICES ASSUME NEW h \in Host \ (split \cup percent)
             PROVE  IsPrefixOf(screen[h], spoken[h] \o typed[h])
  BY DEF Transcript
<1>1. InDialogue(h)
  BY DEF Dialogue
<1>2. /\ screen[h] \in Seq(Spoken) /\ spoken[h] \in Seq(Spoken)
      /\ wire[h] \in Seq(Spoken) /\ typed[h] \in Seq(Spoken)
  BY SeqMonotonic DEF TypeOK, Spoken
<1>3. CASE Asking(h)
  <2>1. spoken[h] \o typed[h] = screen[h] \o (wire[h] \o typed[h])
    BY <1>2, <1>3, ConcatAssociative DEF Asking
  <2>2. wire[h] \o typed[h] \in Seq(Spoken)
    BY <1>2, ConcatProperties
  <2> QED
    BY <1>2, <2>1, <2>2, PrefixOfConcat
<1>4. CASE Told(h)
  <2>1. PICK x \in Text : typed[h] = <<x>> /\ screen[h] = Append(spoken[h], x)
    BY <1>4 DEF Told
  <2>2. screen[h] = spoken[h] \o typed[h]
    BY <1>2, <2>1, AppendIsConcat DEF Spoken
  <2>3. <<>> \in Seq(Spoken) /\ screen[h] \o <<>> = screen[h]
    BY <1>2, EmptySeq, ConcatEmptySeq
  <2>4. IsPrefixOf(screen[h], screen[h] \o <<>>)
    BY <1>2, <2>3, PrefixOfConcat
  <2> QED
    BY <2>2, <2>3, <2>4
<1>5. CASE Silent(h) \/ Working(h) \/ Over(h)
  <2>1. screen[h] = spoken[h]
    BY <1>5 DEF Silent, Working, Over
  <2> QED
    BY <1>2, <2>1, PrefixOfConcat
<1> QED
  BY <1>1, <1>3, <1>4, <1>5 DEF InDialogue

-----------------------------------------------------------------------------
Inv == TypeOK /\ PromptStands /\ Dialogue

LEMMA Invariance == Spec => []Inv
<1>1. Init => Inv
  BY TypeInit, StandsInit, DialogueInit DEF Inv
<1>2. Inv /\ [Next]_vars => Inv'
  BY TypeStep, StandsStep, DialogueStep DEF Inv
<1> QED
  BY <1>1, <1>2, PTL DEF Spec

(* What the browser shows of a session is the dialogue as it took place.   *)
THEOREM TranscriptSafe == Spec => []Transcript
<1>1. Inv => Transcript
  BY DialogueTranscript DEF Inv
<1> QED
  BY <1>1, Invariance, PTL

(* A session and its shell wait for each other only where a prompt was     *)
(* read in two pieces, whatever the programs print.                        *)
THEOREM WaitsSafe == Spec => []WaitsOnlyUnprompted
<1>1. Inv => WaitsOnlyUnprompted
  <2> SUFFICES ASSUME Inv, NEW h \in Host, Waiting(h), h \notin split PROVE FALSE
    BY DEF WaitsOnlyUnprompted
  <2>1. AsksLast(wire[h]) /\ wire[h] = <<>>
    BY DEF Inv, PromptStands, Waiting
  <2> QED
    BY <2>1 DEF AsksLast
<1> QED
  BY <1>1, Invariance, PTL
=============================================================================
