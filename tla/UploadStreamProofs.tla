--------------------------- MODULE UploadStreamProofs ---------------------------
(***************************************************************************)
(* Proofs about UploadStream, for any number of clients, any messages and  *)
(* files, and buffers and bounds of any size.                              *)
(***************************************************************************)
EXTENDS UploadStream, SequenceTheorems, FiniteSetTheorems, TLAPS

(***************************************************************************)
(* What is sent and the strings in it.                                     *)
(***************************************************************************)

\* A nonempty set of numbers has a least one.
LEMMA LeastNat ==
  ASSUME NEW T, T \subseteq Nat, T # {}
  PROVE  \E m \in T : \A n \in T : m <= n
<1> DEFINE Below(n) == 0..n
           Segments == {Below(n) : n \in T}
<1>1. Segments \subseteq FiniteSubsetsOf(Nat)
  <2> SUFFICES ASSUME NEW n \in T
               PROVE  Below(n) \in FiniteSubsetsOf(Nat)
    OBVIOUS
  <2>1. IsFiniteSet(0..n)
    BY FS_Interval
  <2> QED
    BY <2>1 DEF FiniteSubsetsOf
<1>2. IsWellFoundedOn(StrictSubsetOrdering(Nat), FiniteSubsetsOf(Nat))
  BY FS_StrictSubsetOrderingWellFounded
<1>3. Segments # {}
  OBVIOUS
<1>4. \E x \in Segments : \A y \in Segments : <<y, x>> \notin StrictSubsetOrdering(Nat)
  <2> HIDE DEF Segments
  <2> QED
    BY <1>1, <1>2, <1>3, WFMin
<1>5. PICK m \in T : \A n \in T : <<Below(n), Below(m)>> \notin StrictSubsetOrdering(Nat)
  BY <1>4
<1>6. ASSUME NEW n \in T, n < m
      PROVE  FALSE
  <2>1. Below(n) \subseteq Below(m) /\ m \in Below(m) /\ m \notin Below(n)
    BY <1>6
  <2>2. Below(n) # Below(m)
    BY <2>1
  <2>3. Below(n) \subseteq Nat /\ Below(m) \subseteq Nat
    OBVIOUS
  <2> HIDE DEF Below
  <2>4. <<Below(n), Below(m)>> \in StrictSubsetOrdering(Nat)
    BY <2>1, <2>2, <2>3 DEF StrictSubsetOrdering
  <2> QED
    BY <2>4, <1>5
<1> QED
  BY <1>6

LEMMA MinProperty ==
  ASSUME NEW T, T \subseteq Nat, T # {}
  PROVE  Min(T) \in T /\ \A n \in T : Min(T) <= n
BY LeastNat DEF Min

LEMMA ByteFacts ==
  /\ NUL \in Byte /\ NL \in Byte /\ "0" \in Byte /\ "1" \in Byte /\ "2" \in Byte
  /\ NUL # "0" /\ NUL # "1" /\ NUL # "2" /\ NUL # NL
  /\ Nobody \notin Client
  /\ BUFF_SIZE \in Nat /\ BUFF_SIZE >= 2 /\ MaxFile \in Nat
<1>1. NUL \notin Alnum
  BY UploadAssumption
<1>2. {"0", "1", "2"} \subseteq Byte /\ {NUL, NL} \subseteq Byte
  BY UploadAssumption DEF Byte
<1> QED
  BY <1>1, <1>2, UploadAssumption

LEMMA MessageFacts ==
  ASSUME NEW m \in Messages
  PROVE  /\ m \in Seq(Byte) /\ Len(m) >= 2 /\ Len(m) <= BUFF_SIZE
         /\ \A i \in 1..Len(m) : m[i] # NUL
BY UploadAssumption DEF Contains

LEMMA ChunkFacts ==
  ASSUME NEW chunk \in Chunks
  PROVE  chunk \in Seq(Byte) /\ chunk # <<>>
BY UploadAssumption

\* strcmp and printf read up to the first NUL.
LEMMA CStringFacts ==
  ASSUME NEW s \in Seq(Byte)
  PROVE  /\ CString(s) \in Seq(Byte)
         /\ (\A i \in 1..Len(s) : s[i] # NUL) => CString(s) = s
         /\ (\E i \in 1..Len(s) : s[i] = NUL) => Len(CString(s)) < Len(s)
         /\ Len(s) > 0 /\ s[1] = NUL => CString(s) = <<>>
<1> DEFINE ends == {i \in 1..Len(s) : s[i] = NUL}
           n == IF ends = {} THEN Len(s) ELSE Min(ends) - 1
<1>1. Len(s) \in Nat /\ \A i \in 1..Len(s) : s[i] \in Byte
  BY LenProperties, ElementOfSeq
<1>2. ends # {} => Min(ends) \in ends /\ \A i \in ends : Min(ends) <= i
  <2>1. ends \subseteq Nat
    BY <1>1
  <2> HIDE DEF ends
  <2> QED
    BY <2>1, MinProperty
<1>3. n \in 0..Len(s) /\ (ends = {} => n = Len(s)) /\ (ends # {} => n < Len(s))
  BY <1>1, <1>2
<1>4. CString(s) = SubSeq(s, 1, n)
  BY DEF CString
<1>5. Len(s) > 0 /\ s[1] = NUL => n = 0
  <2> SUFFICES ASSUME Len(s) > 0, s[1] = NUL
               PROVE  n = 0
    OBVIOUS
  <2>1. 1 \in ends
    BY <1>1
  <2>2. Min(ends) \in 1..Len(s) /\ Min(ends) <= 1
    BY <1>2, <2>1
  <2> QED
    BY <2>1, <2>2, <1>1
<1>6. /\ SubSeq(s, 1, n) \in Seq(Byte)
      /\ Len(SubSeq(s, 1, n)) = n
      /\ n = Len(s) => SubSeq(s, 1, n) = s
      /\ n = 0 => SubSeq(s, 1, n) = <<>>
  <2> HIDE DEF n
  <2>1. \A i \in 1..n : s[i] \in Byte
    BY <1>1, <1>3
  <2>2. n \in Int /\ 1 \in Int
    BY <1>3, <1>1
  <2>3. SubSeq(s, 1, n) \in Seq(Byte) /\ Len(SubSeq(s, 1, n)) = IF 1 <= n THEN n - 1 + 1 ELSE 0
    BY <2>1, <2>2, SubSeqProperties
  <2>4. n = Len(s) => SubSeq(s, 1, n) = s
    BY SubSeqFull
  <2>5. n = 0 => SubSeq(s, 1, n) = <<>>
    BY SubSeqEmpty
  <2> QED
    BY <2>2, <2>3, <2>4, <2>5, <1>3
<1>7. (\A i \in 1..Len(s) : s[i] # NUL) <=> ends = {}
  OBVIOUS
<1> HIDE DEF n, ends
<1> QED
  BY <1>1, <1>3, <1>4, <1>5, <1>6, <1>7

LEMMA Associative ==
  \A s, t, u \in Seq(Byte) : (s \o t) \o u = s \o (t \o u)
BY ConcatAssociative

\* recv returns all that is there, up to the buffer's size.
LEMMA MinOfTwo ==
  ASSUME NEW a \in Nat, NEW b \in Nat
  PROVE  Min({a, b}) = IF a <= b THEN a ELSE b
<1>1. Min({a, b}) \in {a, b} /\ \A n \in {a, b} : Min({a, b}) <= n
  BY MinProperty
<1> QED
  BY <1>1

\* The last byte is cut off.
LEMMA LineFacts ==
  ASSUME NEW s \in Seq(Byte), NEW n \in Nat, Len(s) = n + 1
  PROVE  /\ Line(s) \in Seq(Byte)
         /\ (\A i \in 1..n : s[i] # NUL) => Len(Line(s)) = n /\ \A i \in 1..n : Line(s)[i] = s[i]
<1> DEFINE f == SubSeq(s, 1, n)
<1>1. n = Len(s) - 1 /\ \A i \in 1..Len(s) : s[i] \in Byte
  BY ElementOfSeq
<1>2. f \in Seq(Byte) /\ Len(f) = n /\ \A i \in 1..n : f[i] = s[i]
  <2>1. n \in Int /\ 1 \in Int /\ \A i \in 1..n : s[i] \in Byte
    BY <1>1
  <2>2. /\ SubSeq(s, 1, n) \in Seq(Byte)
        /\ Len(SubSeq(s, 1, n)) = IF 1 <= n THEN n - 1 + 1 ELSE 0
        /\ \A i \in 1..(n - 1 + 1) : SubSeq(s, 1, n)[i] = s[1 + i - 1]
    BY <2>1, SubSeqProperties
  <2> QED
    BY <2>2, <1>1
<1>3. Line(s) = CString(f)
  BY <1>1 DEF Line, Front
<1> HIDE DEF f
<1>4. CString(f) \in Seq(Byte) /\ ((\A i \in 1..Len(f) : f[i] # NUL) => CString(f) = f)
  BY <1>2, CStringFacts
<1> QED
  BY <1>1, <1>2, <1>3, <1>4


\* What a user types and what ends a file, as the server finds it.
LEMMA TypedLines ==
  /\ Line(<<"0", NL>>) = <<"0">> /\ Line(<<"1", NL>>) = <<"1">> /\ Line(<<"2", NL>>) = <<"2">>
  /\ Line(<<NL>>) = <<>> /\ CString(<<NUL>>) = <<>>
  /\ \A m \in Messages : Line(m) # <<>>
<1>1. ASSUME NEW b \in {"0", "1", "2"}
      PROVE  Line(<<b, NL>>) = <<b>>
  <2> DEFINE s == <<b, NL>>
  <2>1. s \in Seq(Byte) /\ Len(s) = 2 /\ s[1] = b /\ s # <<>> /\ <<b>> \in Seq(Byte)
    BY ByteFacts
  <2>2. Len(s) = 1 + 1 /\ \A i \in 1..1 : s[i] # NUL
    BY <2>1, ByteFacts
  <2> HIDE DEF s
  <2>3. Line(s) \in Seq(Byte) /\ Len(Line(s)) = 1 /\ \A i \in 1..1 : Line(s)[i] = s[i]
    BY <2>1, <2>2, LineFacts
  <2>4. Len(<<b>>) = 1 /\ <<b>>[1] = b
    OBVIOUS
  <2>5. \A i \in 1..1 : Line(s)[i] = <<b>>[i]
    BY <2>1, <2>3, <2>4
  <2>6. Line(s) = <<b>>
    BY <2>1, <2>3, <2>4, <2>5, SeqEqual
  <2> QED
    BY <2>6 DEF s
<1>2. Line(<<NL>>) = <<>>
  <2>1. <<NL>> \in Seq(Byte) /\ Len(<<NL>>) = 0 + 1 /\ \A i \in 1..0 : <<NL>>[i] # NUL
    BY ByteFacts
  <2>2. Line(<<NL>>) \in Seq(Byte) /\ Len(Line(<<NL>>)) = 0
    BY <2>1, LineFacts
  <2> QED
    BY <2>2, EmptySeq
<1>3. CString(<<NUL>>) = <<>>
  <2>1. <<NUL>> \in Seq(Byte) /\ Len(<<NUL>>) > 0 /\ <<NUL>>[1] = NUL
    BY ByteFacts
  <2> QED
    BY <2>1, CStringFacts
<1>4. ASSUME NEW m \in Messages
      PROVE  Line(m) # <<>>
  <2> DEFINE n == Len(m) - 1
  <2>1. m \in Seq(Byte) /\ n \in Nat /\ n > 0 /\ Len(m) = n + 1 /\ \A i \in 1..n : m[i] # NUL
    BY MessageFacts, LenProperties
  <2> HIDE DEF n
  <2>2. Len(Line(m)) = n
    BY <2>1, LineFacts
  <2>3. Len(<<>>) = 0
    OBVIOUS
  <2> QED
    BY <2>1, <2>2, <2>3
<1> QED
  BY <1>1, <1>2, <1>3, <1>4

-----------------------------------------------------------------------------
(***************************************************************************)
(* The inductive invariant.                                                *)
(***************************************************************************)

TypeInv ==
  /\ at \in {"down", "accept", "recv", "sleep"}
  /\ conn_sock \in Client \cup {Nobody} /\ (conn_sock # Nobody <=> at \in {"recv", "sleep"})
  /\ client_status \in {SEND_MESSAGE, UPLOAD_FILE, SELECT_IN_PROGRESS}
  /\ printed \in Seq(Byte)
  /\ backlog \in Seq(Client) /\ IsInjective(backlog)
  /\ \A i \in 1..Len(backlog) : backlog[i] # conn_sock
  /\ c2s \in [Client -> Seq(Byte)] /\ hungUp \in [Client -> BOOLEAN]
  /\ place \in [Client -> Places] /\ uploaded \in [Client -> Seq(Byte)]
  /\ plain \in [Client -> BOOLEAN]

\* Only a connection has bytes or an end under way, and its end is that of
\* its client.
Net(c) ==
  /\ ~Connected(c) => c2s[c] = <<>> /\ ~hungUp[c]
  /\ Connected(c) => (place[c] = "off" <=> hungUp[c])

\* A new client starts with a clean history, and a plain one that waits for
\* accept has only connected.
History(c) ==
  /\ Len(uploaded[c]) <= MaxFile
  /\ place[c] = "off" => plain[c] /\ uploaded[c] = <<>>
  /\ Waiting(c) /\ plain[c] /\ place[c] # "off" =>
       place[c] = "select" /\ c2s[c] = <<>> /\ uploaded[c] = <<>>

\* What is under way and not yet read, when everything before it has been:
\* nothing, one line, the end of a file, or some of its pieces.
Phase(c) ==
  \/ c2s[c] = <<>> /\ client_status = StatusOf(place[c]) /\ printed = uploaded[c]
  \/ c2s[c] = <<"0", NL>> /\ client_status = SELECT_IN_PROGRESS /\ place[c] = "exit"
  \/ /\ c2s[c] = <<"1", NL>> /\ client_status = SELECT_IN_PROGRESS /\ place[c] = "send"
     /\ printed = uploaded[c]
  \/ /\ c2s[c] = <<"2", NL>> /\ client_status = SELECT_IN_PROGRESS /\ place[c] = "name"
     /\ uploaded[c] = <<>>
  \/ /\ c2s[c] \in Messages /\ client_status = SEND_MESSAGE /\ place[c] = "send"
     /\ printed = uploaded[c]
  \/ /\ c2s[c] = <<NL>> /\ client_status = SEND_MESSAGE /\ place[c] = "select"
     /\ printed = uploaded[c]
  \/ /\ c2s[c] = <<NUL>> /\ client_status = UPLOAD_FILE /\ place[c] = "select"
     /\ printed = uploaded[c]
  \/ /\ client_status = UPLOAD_FILE /\ place[c] \in {"body", "pause"}
     /\ printed \o c2s[c] = uploaded[c]
     /\ \A i \in 1..Len(c2s[c]) : c2s[c][i] # NUL

InPhase(c) ==
  conn_sock = c /\ plain[c] /\ place[c] # "off" =>
    /\ Phase(c)
    /\ at = "sleep" => c2s[c] = <<>> /\ place[c] = "send"

UploadInv ==
  /\ TypeInv
  /\ \A c \in Client : Net(c)
  /\ \A c \in Client : History(c)
  /\ \A c \in Client : InPhase(c)


(***************************************************************************)
(* What a step leaves alone.                                               *)
(***************************************************************************)

SameClient(d) ==
  /\ place'[d] = place[d] /\ uploaded'[d] = uploaded[d] /\ plain'[d] = plain[d]

LEMMA NetFrame ==
  ASSUME NEW d \in Client, Net(d), SameClient(d), c2s'[d] = c2s[d], hungUp'[d] = hungUp[d],
         Connected(d)' <=> Connected(d)
  PROVE  Net(d)'
BY DEF Net, SameClient

LEMMA HistoryFrame ==
  ASSUME NEW d \in Client, History(d), SameClient(d), c2s'[d] = c2s[d],
         Waiting(d)' => Waiting(d)
  PROVE  History(d)'
BY DEF History, SameClient

LEMMA PhaseFrame ==
  ASSUME NEW d \in Client, InPhase(d), SameClient(d), c2s'[d] = c2s[d],
         conn_sock' = conn_sock, client_status' = client_status, printed' = printed,
         at' = "sleep" => at = "sleep"
  PROVE  InPhase(d)'
BY DEF InPhase, Phase, SameClient, StatusOf

LEMMA InitUpload == Init => UploadInv
<1> SUFFICES ASSUME Init
             PROVE  UploadInv
  OBVIOUS
<1>1. TypeInv
  BY ByteFacts DEF Init, TypeInv, Places, IsInjective
<1>2. ASSUME NEW c \in Client
      PROVE  Net(c) /\ History(c) /\ InPhase(c)
  <2>1. ~Connected(c) /\ ~Waiting(c)
    BY ByteFacts DEF Init, Connected, Waiting
  <2> QED
    BY <2>1, ByteFacts DEF Init, Net, History, InPhase
<1> QED
  BY <1>1, <1>2 DEF UploadInv

LEMMA StutterUpload == UploadInv /\ UNCHANGED vars => UploadInv'
<1> SUFFICES ASSUME UploadInv, UNCHANGED vars
             PROVE  UploadInv'
  OBVIOUS
<1> USE DEF vars, serverVars, netVars, clientVars
<1>1. TypeInv'
  BY DEF UploadInv, TypeInv
<1>2. ASSUME NEW c \in Client
      PROVE  Net(c)' /\ History(c)' /\ InPhase(c)'
  <2>1. SameClient(c) /\ (Connected(c)' <=> Connected(c)) /\ (Waiting(c)' <=> Waiting(c))
    BY DEF SameClient, Connected, Waiting
  <2>2. Net(c) /\ History(c) /\ InPhase(c)
    BY DEF UploadInv
  <2> QED
    BY <2>1, <2>2, NetFrame, HistoryFrame, PhaseFrame
<1> QED
  BY <1>1, <1>2 DEF UploadInv

-----------------------------------------------------------------------------
(***************************************************************************)
(* The client's steps.                                                     *)
(***************************************************************************)

\* What is typed at place p, or sent at the end of a file, and the place
\* that follows.
Typed(p, bytes, q) ==
  \/ p = "select" /\ bytes = <<"0", NL>> /\ q = "exit"
  \/ p = "select" /\ bytes = <<"1", NL>> /\ q = "send"
  \/ p = "select" /\ bytes = <<"2", NL>> /\ q = "name"
  \/ p = "send" /\ bytes \in Messages /\ q = "send"
  \/ p = "send" /\ bytes = <<NL>> /\ q = "select"
  \/ p \in {"name", "pause"} /\ bytes = <<NUL>> /\ q = "select"

Typing(c, bytes, q) ==
  /\ Typed(place[c], bytes, q)
  /\ Type(c, bytes)
  /\ place' = [place EXCEPT ![c] = q]
  /\ uploaded' = [uploaded EXCEPT ![c] = IF q = "name" THEN <<>> ELSE @]

LEMMA TypedFacts ==
  ASSUME NEW p, NEW bytes, NEW q, Typed(p, bytes, q)
  PROVE  /\ bytes \in Seq(Byte) /\ bytes # <<>>
         /\ p \notin {"off", "body"} /\ q \in Places \ {"off"}
<1>1. /\ <<"0", NL>> \in Seq(Byte) /\ <<"0", NL>> # <<>>
      /\ <<"1", NL>> \in Seq(Byte) /\ <<"1", NL>> # <<>>
      /\ <<"2", NL>> \in Seq(Byte) /\ <<"2", NL>> # <<>>
      /\ <<NL>> \in Seq(Byte) /\ <<NL>> # <<>> /\ <<NUL>> \in Seq(Byte) /\ <<NUL>> # <<>>
  BY ByteFacts
<1>2. \A m \in Messages : m \in Seq(Byte) /\ m # <<>>
  BY UploadAssumption
<1> QED
  BY <1>1, <1>2 DEF Typed, Places

LEMMA TypingCases ==
  ASSUME TypeInv, NEW c \in Client, Choose(c) \/ TypeLine(c) \/ OpenFails(c) \/ SendEnd(c)
  PROVE  \E bytes, q : Typing(c, bytes, q)
<1> DEFINE same == [uploaded EXCEPT ![c] = @]
<1>1. uploaded = same /\ place = [place EXCEPT ![c] = place[c]]
  BY DEF TypeInv
<1> USE DEF Typing, Typed, Go
<1>2. CASE Choose(c)
  <2>1. CASE Type(c, <<"0", NL>>) /\ Go(c, "exit") /\ UNCHANGED uploaded
    <3>1. Typing(c, <<"0", NL>>, "exit")
      BY <1>1, <1>2, <2>1 DEF Choose
    <3> QED
      BY <3>1 DEF Type
  <2>2. CASE Type(c, <<"1", NL>>) /\ Go(c, "send") /\ UNCHANGED uploaded
    <3>1. Typing(c, <<"1", NL>>, "send")
      BY <1>1, <1>2, <2>2 DEF Choose
    <3> QED
      BY <3>1
  <2>3. CASE Type(c, <<"2", NL>>) /\ Go(c, "name") /\ uploaded' = [uploaded EXCEPT ![c] = <<>>]
    <3>1. Typing(c, <<"2", NL>>, "name")
      BY <1>2, <2>3 DEF Choose
    <3> QED
      BY <3>1
  <2> QED
    BY <1>2, <2>1, <2>2, <2>3 DEF Choose
<1>3. CASE TypeLine(c)
  <2>1. ASSUME NEW m \in Messages, Type(c, m), UNCHANGED place
        PROVE  Typing(c, m, "send")
    BY <1>1, <1>3, <2>1 DEF TypeLine
  <2>2. ASSUME Type(c, <<NL>>), Go(c, "select")
        PROVE  Typing(c, <<NL>>, "select")
    BY <1>1, <1>3, <2>2 DEF TypeLine
  <2> HIDE DEF Typing
  <2> QED
    BY <1>3, <2>1, <2>2 DEF TypeLine
<1>4. CASE OpenFails(c) \/ SendEnd(c)
  <2>1. Typing(c, <<NUL>>, "select")
    BY <1>1, <1>4 DEF OpenFails, SendEnd
  <2> QED
    BY <2>1
<1> QED
  BY <1>2, <1>3, <1>4


LEMMA NothingUnread ==
  ASSUME UploadInv, NEW c \in Client, conn_sock = c, plain[c], place[c] # "off", c2s[c] = <<>>
  PROVE  client_status = StatusOf(place[c]) /\ printed = uploaded[c]
<1>1. Phase(c)
  BY DEF UploadInv, InPhase
<1>2. <<"0", NL>> # <<>> /\ <<"1", NL>> # <<>> /\ <<"2", NL>> # <<>> /\ <<NL>> # <<>> /\ <<NUL>> # <<>>
  OBVIOUS
<1>3. <<>> \notin Messages
  BY UploadAssumption
<1>4. CASE place[c] \in {"body", "pause"} /\ client_status = UPLOAD_FILE /\ printed \o <<>> = uploaded[c]
  <2>1. printed \o <<>> = printed
    BY ConcatEmptySeq DEF UploadInv, TypeInv
  <2> QED
    BY <1>4, <2>1 DEF StatusOf
<1> QED
  BY <1>1, <1>2, <1>3, <1>4 DEF Phase

LEMMA TypingStep ==
  ASSUME UploadInv, NEW c \in Client, NEW bytes, NEW q, Typing(c, bytes, q)
  PROVE  UploadInv'
<1>1. bytes \in Seq(Byte) /\ bytes # <<>> /\ place[c] \notin {"off", "body"} /\ q \in Places \ {"off"}
  BY TypedFacts DEF Typing
<1>2. /\ c2s' = IF Connected(c) THEN [c2s EXCEPT ![c] = @ \o bytes] ELSE c2s
      /\ UNCHANGED <<backlog, hungUp, serverVars>>
      /\ place' = [place EXCEPT ![c] = q]
      /\ uploaded' = [uploaded EXCEPT ![c] = IF q = "name" THEN <<>> ELSE @]
      /\ plain' = [plain EXCEPT ![c] = @ /\ Listening(c)]
      /\ ServerWaits
  BY DEF Typing, Type, Put
<1>3. TypeInv'
  <2>1. c2s[c] \o bytes \in Seq(Byte)
    BY <1>1, ConcatProperties DEF UploadInv, TypeInv
  <2>2. c2s' \in [Client -> Seq(Byte)]
    BY <1>2, <2>1 DEF UploadInv, TypeInv
  <2>3. uploaded' \in [Client -> Seq(Byte)] /\ place' \in [Client -> Places]
    BY <1>1, <1>2, EmptySeq DEF UploadInv, TypeInv
  <2>4. plain' \in [Client -> BOOLEAN]
    BY <1>2 DEF UploadInv, TypeInv, Listening
  <2> QED
    BY <1>2, <2>2, <2>3, <2>4 DEF UploadInv, TypeInv, serverVars
<1>4. ASSUME NEW d \in Client
      PROVE  (Connected(d)' <=> Connected(d)) /\ (Waiting(d)' <=> Waiting(d))
  BY <1>2 DEF Connected, Waiting, serverVars
<1>5. ASSUME NEW d \in Client, d # c
      PROVE  Net(d)' /\ History(d)' /\ InPhase(d)'
  <2>1. SameClient(d) /\ c2s'[d] = c2s[d] /\ hungUp'[d] = hungUp[d]
    BY <1>2, <1>5 DEF SameClient, UploadInv, TypeInv
  <2>2. Net(d) /\ History(d) /\ InPhase(d)
    BY DEF UploadInv
  <2> QED
    BY <1>2, <1>4, <2>1, <2>2, NetFrame, HistoryFrame, PhaseFrame DEF serverVars
<1>6. /\ place'[c] = q /\ (plain'[c] <=> plain[c] /\ Listening(c))
      /\ uploaded'[c] = IF q = "name" THEN <<>> ELSE uploaded[c]
      /\ ~Connected(c) => c2s'[c] = c2s[c]
      /\ Connected(c) => c2s'[c] = c2s[c] \o bytes
  BY <1>2 DEF UploadInv, TypeInv
<1>7. Net(c)'
  BY <1>1, <1>2, <1>4, <1>6 DEF Net, UploadInv
<1>8. History(c)'
  <2>1. Len(uploaded'[c]) <= MaxFile
    BY <1>6, ByteFacts, EmptySeq DEF UploadInv, History
  <2>2. Waiting(c) => ~Listening(c)
    BY DEF Waiting, Listening, UploadInv, TypeInv
  <2> QED
    BY <1>1, <1>4, <1>6, <2>1, <2>2 DEF History
<1>9. InPhase(c)'
  <2> SUFFICES ASSUME conn_sock' = c, plain'[c]
               PROVE  Phase(c)' /\ at' # "sleep"
    BY DEF InPhase
  <2>1. at = "recv" /\ conn_sock = c /\ c2s[c] = <<>> /\ plain[c] /\ Connected(c)
    BY <1>2, <1>6 DEF Listening, ServerWaits, Connected
  <2>2. client_status = StatusOf(place[c]) /\ printed = uploaded[c]
    BY <1>1, <2>1, NothingUnread
  <2>3. c2s'[c] = bytes
    BY <1>1, <1>6, <2>1, ConcatEmptySeq
  <2>4. at' = at /\ client_status' = client_status /\ printed' = printed
    BY <1>2 DEF serverVars
  <2>5. Typed(place[c], bytes, q)
    BY DEF Typing
  <2>6. Phase(c)'
    BY <1>6, <2>2, <2>3, <2>4, <2>5 DEF Phase, Typed, StatusOf
  <2> QED
    BY <2>1, <2>4, <2>6
<1> QED
  BY <1>3, <1>5, <1>7, <1>8, <1>9 DEF UploadInv


LEMMA ChunkStep ==
  ASSUME UploadInv, NEW c \in Client, SendChunk(c)
  PROVE  UploadInv'
<1>1. PICK chunk \in Chunks :
        /\ Len(uploaded[c]) + Len(chunk) <= MaxFile
        /\ c2s' = IF Connected(c) THEN [c2s EXCEPT ![c] = @ \o chunk] ELSE c2s
        /\ uploaded' = [uploaded EXCEPT ![c] = @ \o chunk]
        /\ plain' = [plain EXCEPT ![c] = @ /\ Listening(c) /\ CString(chunk) = chunk]
  BY DEF SendChunk, Put
<1>2. place[c] = "body" /\ UNCHANGED <<backlog, hungUp, serverVars, place>>
  BY DEF SendChunk, Put
<1>3. chunk \in Seq(Byte) /\ c2s[c] \in Seq(Byte) /\ uploaded[c] \in Seq(Byte) /\ printed \in Seq(Byte)
  BY ChunkFacts DEF UploadInv, TypeInv
<1>4. c2s[c] \o chunk \in Seq(Byte) /\ uploaded[c] \o chunk \in Seq(Byte)
      /\ Len(uploaded[c] \o chunk) = Len(uploaded[c]) + Len(chunk)
  BY <1>3, ConcatProperties
<1>5. TypeInv'
  <2>1. c2s' \in [Client -> Seq(Byte)] /\ uploaded' \in [Client -> Seq(Byte)]
    BY <1>1, <1>4 DEF UploadInv, TypeInv
  <2>2. plain' \in [Client -> BOOLEAN]
    BY <1>1 DEF UploadInv, TypeInv, Listening
  <2> QED
    BY <1>2, <2>1, <2>2 DEF UploadInv, TypeInv, serverVars
<1>6. ASSUME NEW d \in Client
      PROVE  (Connected(d)' <=> Connected(d)) /\ (Waiting(d)' <=> Waiting(d))
  BY <1>2 DEF Connected, Waiting, serverVars
<1>7. ASSUME NEW d \in Client, d # c
      PROVE  Net(d)' /\ History(d)' /\ InPhase(d)'
  <2>1. SameClient(d) /\ c2s'[d] = c2s[d] /\ hungUp'[d] = hungUp[d]
    BY <1>1, <1>2, <1>7 DEF SameClient, UploadInv, TypeInv
  <2>2. Net(d) /\ History(d) /\ InPhase(d)
    BY DEF UploadInv
  <2> QED
    BY <1>2, <1>6, <2>1, <2>2, NetFrame, HistoryFrame, PhaseFrame DEF serverVars
<1>8. /\ place'[c] = "body" /\ uploaded'[c] = uploaded[c] \o chunk
      /\ plain'[c] <=> plain[c] /\ Listening(c) /\ CString(chunk) = chunk
      /\ ~Connected(c) => c2s'[c] = c2s[c]
      /\ Connected(c) => c2s'[c] = c2s[c] \o chunk
  BY <1>1, <1>2 DEF UploadInv, TypeInv
<1>9. Net(c)'
  BY <1>2, <1>6, <1>8 DEF Net, UploadInv
<1>10. History(c)'
  <2>1. Waiting(c) => ~Listening(c)
    BY DEF Waiting, Listening, UploadInv, TypeInv
  <2> QED
    BY <1>1, <1>4, <1>6, <1>8, <2>1 DEF History
<1>11. InPhase(c)'
  <2> SUFFICES ASSUME conn_sock' = c, plain'[c]
               PROVE  Phase(c)' /\ at' # "sleep"
    BY DEF InPhase
  <2>1. at = "recv" /\ conn_sock = c /\ plain[c] /\ Connected(c) /\ CString(chunk) = chunk
    BY <1>8 DEF Listening, Connected
  <2>2. client_status = UPLOAD_FILE /\ printed \o c2s[c] = uploaded[c]
        /\ \A i \in 1..Len(c2s[c]) : c2s[c][i] # NUL
    <3>1. Phase(c) /\ place[c] = "body"
      BY <1>2, <2>1 DEF UploadInv, InPhase
    <3>2. CASE c2s[c] = <<>> /\ client_status = StatusOf(place[c]) /\ printed = uploaded[c]
      <4>1. printed \o <<>> = printed
        BY <1>3, ConcatEmptySeq
      <4> QED
        BY <3>1, <3>2, <4>1 DEF StatusOf
    <3> QED
      BY <3>1, <3>2 DEF Phase
  <2>3. \A i \in 1..Len(chunk) : chunk[i] # NUL
    <3>1. (\E i \in 1..Len(chunk) : chunk[i] = NUL) => Len(CString(chunk)) < Len(chunk)
      BY <1>3, CStringFacts
    <3>2. Len(chunk) \in Nat
      BY <1>3, LenProperties
    <3> QED
      BY <2>1, <3>1, <3>2
  <2>4. printed \o (c2s[c] \o chunk) = uploaded[c] \o chunk
    <3>1. (printed \o c2s[c]) \o chunk = printed \o (c2s[c] \o chunk)
      BY <1>3, Associative
    <3> QED
      BY <2>2, <3>1
  <2>5. \A i \in 1..Len(c2s[c] \o chunk) : (c2s[c] \o chunk)[i] # NUL
    <3> SUFFICES ASSUME NEW i \in 1..Len(c2s[c] \o chunk)
                 PROVE  (c2s[c] \o chunk)[i] # NUL
      OBVIOUS
    <3>1. /\ Len(c2s[c]) \in Nat /\ Len(chunk) \in Nat
          /\ Len(c2s[c] \o chunk) = Len(c2s[c]) + Len(chunk)
      BY <1>3, ConcatProperties, LenProperties
    <3>2. (c2s[c] \o chunk)[i] = IF i <= Len(c2s[c]) THEN c2s[c][i] ELSE chunk[i - Len(c2s[c])]
      BY <1>3, <3>1, ConcatProperties
    <3> QED
      BY <2>2, <2>3, <3>1, <3>2
  <2>6. client_status' = client_status /\ printed' = printed /\ at' = at
    BY <1>2 DEF serverVars
  <2> QED
    BY <1>8, <2>1, <2>2, <2>4, <2>5, <2>6 DEF Phase
<1> QED
  BY <1>5, <1>7, <1>9, <1>10, <1>11 DEF UploadInv

LEMMA ConnectStep ==
  ASSUME UploadInv, NEW c \in Client, Connect(c)
  PROVE  UploadInv'
<1>1. /\ place[c] = "off" /\ ~Connected(c) /\ backlog' = Append(backlog, c)
      /\ place' = [place EXCEPT ![c] = "select"]
      /\ UNCHANGED <<serverVars, c2s, hungUp, uploaded, plain>>
  BY DEF Connect, Go
<1>2. /\ backlog' \in Seq(Client) /\ Len(backlog) \in Nat /\ Len(backlog') = Len(backlog) + 1
      /\ \A i \in 1..Len(backlog) : backlog'[i] = backlog[i]
      /\ backlog'[Len(backlog) + 1] = c
      /\ DOMAIN backlog = 1..Len(backlog) /\ DOMAIN backlog' = 1..Len(backlog')
  BY <1>1, AppendProperties, LenProperties DEF UploadInv, TypeInv
<1>3. conn_sock # c /\ \A i \in 1..Len(backlog) : backlog[i] # c
  BY <1>1 DEF Connected
<1>4. IsInjective(backlog') /\ \A i \in 1..Len(backlog') : backlog'[i] # conn_sock
  <2>1. ASSUME NEW i \in 1..Len(backlog')
        PROVE  \/ i \in 1..Len(backlog) /\ backlog'[i] = backlog[i]
               \/ i = Len(backlog) + 1 /\ backlog'[i] = c
    BY <1>2
  <2>2. \A i \in 1..Len(backlog') : backlog'[i] # conn_sock
    BY <1>3, <2>1 DEF UploadInv, TypeInv
  <2>3. ASSUME NEW i \in 1..Len(backlog'), NEW j \in 1..Len(backlog'), backlog'[i] = backlog'[j]
        PROVE  i = j
    <3>1. \A k, l \in 1..Len(backlog) : backlog[k] = backlog[l] => k = l
      BY <1>2 DEF IsInjective, UploadInv, TypeInv
    <3> QED
      BY <1>3, <2>1, <2>3, <3>1
  <2>4. IsInjective(backlog')
    BY <1>2, <2>3 DEF IsInjective
  <2> QED
    BY <2>2, <2>4
<1>5. place' \in [Client -> Places]
  BY <1>1 DEF UploadInv, TypeInv, Places
<1>6. TypeInv'
  BY <1>1, <1>2, <1>4, <1>5 DEF UploadInv, TypeInv, serverVars
<1>7. ASSUME NEW d \in Client, d # c
      PROVE  Net(d)' /\ History(d)' /\ InPhase(d)'
  <2>1. SameClient(d) /\ c2s'[d] = c2s[d] /\ hungUp'[d] = hungUp[d]
    BY <1>1, <1>7 DEF SameClient, UploadInv, TypeInv
  <2>2. Net(d) /\ History(d) /\ InPhase(d)
    BY DEF UploadInv
  <2>3. Waiting(d)' <=> Waiting(d)
    BY <1>2, <1>7 DEF Waiting
  <2>4. Connected(d)' <=> Connected(d)
    BY <1>1, <2>3 DEF Connected, Waiting, serverVars
  <2> QED
    BY <1>1, <2>1, <2>2, <2>3, <2>4, NetFrame, HistoryFrame, PhaseFrame DEF serverVars
<1>8. place'[c] = "select" /\ c2s[c] = <<>> /\ ~hungUp[c] /\ uploaded[c] = <<>>
  BY <1>1 DEF UploadInv, TypeInv, Net, History
<1>9. Net(c)' /\ History(c)' /\ InPhase(c)'
  <2>1. Connected(c)'
    BY <1>2 DEF Connected
  <2>2. Len(uploaded[c]) <= MaxFile
    BY DEF UploadInv, History
  <2> QED
    BY <1>1, <1>3, <1>8, <2>1, <2>2 DEF Net, History, InPhase, serverVars
<1> QED
  BY <1>6, <1>7, <1>9 DEF UploadInv

\* A file is opened, or its last piece has been sent: nothing is sent.
LEMMA OpenStep ==
  ASSUME UploadInv, NEW c \in Client, Open(c) \/ EndOfFile(c)
  PROVE  UploadInv'
<1>1. PICK q \in {"body", "pause"} : place' = [place EXCEPT ![c] = q]
  BY DEF Open, EndOfFile, Go
<1>2. place[c] \in {"name", "body"} /\ UNCHANGED <<serverVars, netVars, uploaded, plain>>
  BY DEF Open, EndOfFile
<1>3. place' \in [Client -> Places] /\ place'[c] = q /\ \A d \in Client \ {c} : place'[d] = place[d]
  BY <1>1 DEF UploadInv, TypeInv, Places
<1>4. TypeInv'
  BY <1>2, <1>3 DEF UploadInv, TypeInv, serverVars, netVars
<1>5. ASSUME NEW d \in Client
      PROVE  (Connected(d)' <=> Connected(d)) /\ (Waiting(d)' <=> Waiting(d))
  BY <1>2 DEF Connected, Waiting, serverVars, netVars
<1>6. ASSUME NEW d \in Client, d # c
      PROVE  Net(d)' /\ History(d)' /\ InPhase(d)'
  <2>1. SameClient(d) /\ c2s'[d] = c2s[d] /\ hungUp'[d] = hungUp[d]
    BY <1>2, <1>3, <1>6 DEF SameClient, netVars
  <2>2. Net(d) /\ History(d) /\ InPhase(d)
    BY DEF UploadInv
  <2> QED
    BY <1>2, <1>5, <2>1, <2>2, NetFrame, HistoryFrame, PhaseFrame DEF serverVars
<1>7. Net(c)' /\ History(c)'
  BY <1>2, <1>3, <1>5 DEF UploadInv, Net, History, netVars
<1>8. InPhase(c)'
  <2> SUFFICES ASSUME conn_sock = c, plain[c]
               PROVE  Phase(c)' /\ at' # "sleep"
    BY <1>2 DEF InPhase, serverVars
  <2>1. Phase(c) /\ at # "sleep"
    BY <1>2 DEF UploadInv, InPhase
  <2>2. CASE place[c] = "name"
    <3>0. ServerWaits
      BY <2>2 DEF Open, EndOfFile
    <3>1. c2s[c] = <<>>
      BY <2>1, <3>0, ByteFacts DEF ServerWaits, UploadInv, TypeInv
    <3>2. client_status = UPLOAD_FILE /\ printed = uploaded[c]
      BY <2>2, <3>1, NothingUnread DEF StatusOf
    <3> QED
      BY <1>2, <1>3, <2>1, <3>1, <3>2 DEF Phase, StatusOf, serverVars, netVars
  <2>3. CASE place[c] = "body"
    BY <1>2, <1>3, <2>1, <2>3 DEF Phase, StatusOf, serverVars, netVars
  <2> QED
    BY <1>2, <2>2, <2>3
<1> QED
  BY <1>4, <1>6, <1>7, <1>8 DEF UploadInv

LEMMA HangUpStep ==
  ASSUME UploadInv, NEW c \in Client, HangUp(c)
  PROVE  UploadInv'
<1>1. /\ place' = [place EXCEPT ![c] = "off"]
      /\ hungUp' = [hungUp EXCEPT ![c] = Connected(c)]
      /\ uploaded' = [uploaded EXCEPT ![c] = <<>>] /\ plain' = [plain EXCEPT ![c] = TRUE]
      /\ UNCHANGED <<serverVars, backlog, c2s>>
  BY DEF HangUp, Go
<1>2. TypeInv'
  <2>1. hungUp' \in [Client -> BOOLEAN]
    BY <1>1 DEF UploadInv, TypeInv, Connected
  <2>2. uploaded' \in [Client -> Seq(Byte)] /\ place' \in [Client -> Places] /\ plain' \in [Client -> BOOLEAN]
    BY <1>1, EmptySeq DEF UploadInv, TypeInv, Places
  <2> QED
    BY <1>1, <2>1, <2>2 DEF UploadInv, TypeInv, serverVars
<1>3. ASSUME NEW d \in Client
      PROVE  (Connected(d)' <=> Connected(d)) /\ (Waiting(d)' <=> Waiting(d))
  BY <1>1 DEF Connected, Waiting, serverVars
<1>4. ASSUME NEW d \in Client, d # c
      PROVE  Net(d)' /\ History(d)' /\ InPhase(d)'
  <2>1. SameClient(d) /\ c2s'[d] = c2s[d] /\ hungUp'[d] = hungUp[d]
    BY <1>1, <1>4 DEF SameClient, UploadInv, TypeInv
  <2>2. Net(d) /\ History(d) /\ InPhase(d)
    BY DEF UploadInv
  <2> QED
    BY <1>1, <1>3, <2>1, <2>2, NetFrame, HistoryFrame, PhaseFrame DEF serverVars
<1>5. place'[c] = "off" /\ uploaded'[c] = <<>> /\ plain'[c] /\ (hungUp'[c] <=> Connected(c)) /\ c2s'[c] = c2s[c]
  BY <1>1 DEF UploadInv, TypeInv
<1>6. Net(c)' /\ History(c)' /\ InPhase(c)'
  <2>1. Net(c)
    BY DEF UploadInv
  <2> QED
    BY <1>3, <1>5, <2>1, EmptySeq, ByteFacts DEF Net, History, InPhase
<1> QED
  BY <1>2, <1>4, <1>6 DEF UploadInv


-----------------------------------------------------------------------------
(***************************************************************************)
(* The server's steps.                                                     *)
(***************************************************************************)

\* A sequence cut in two.
LEMMA CutFacts ==
  ASSUME NEW s \in Seq(Byte), NEW m \in 0..Len(s)
  PROVE  /\ SubSeq(s, 1, m) \in Seq(Byte) /\ Len(SubSeq(s, 1, m)) = m
         /\ SubSeq(s, m + 1, Len(s)) \in Seq(Byte)
         /\ SubSeq(s, 1, m) \o SubSeq(s, m + 1, Len(s)) = s
         /\ m = Len(s) => SubSeq(s, 1, m) = s /\ SubSeq(s, m + 1, Len(s)) = <<>>
<1>1. Len(s) \in Nat /\ m \in Nat /\ \A i \in 1..Len(s) : s[i] \in Byte
  BY LenProperties, ElementOfSeq
<1>2. SubSeq(s, 1, m) \in Seq(Byte) /\ Len(SubSeq(s, 1, m)) = m
  <2>1. 1 \in Int /\ m \in Int /\ \A i \in 1..m : s[i] \in Byte
    BY <1>1
  <2>2. SubSeq(s, 1, m) \in Seq(Byte)
    BY <2>1, SubSeqProperties
  <2>3. Len(SubSeq(s, 1, m)) = IF 1 <= m THEN m - 1 + 1 ELSE 0
    BY <2>1, SubSeqProperties
  <2>4. (IF 1 <= m THEN m - 1 + 1 ELSE 0) = m
    BY <1>1
  <2> QED
    BY <2>2, <2>3, <2>4
<1>3. SubSeq(s, m + 1, Len(s)) \in Seq(Byte)
  <2>1. m + 1 \in Int /\ Len(s) \in Int /\ \A i \in (m + 1)..Len(s) : s[i] \in Byte
    BY <1>1
  <2> QED
    BY <2>1, SubSeqProperties
<1>4. SubSeq(s, 1, m) \o SubSeq(s, m + 1, Len(s)) = SubSeq(s, 1, Len(s))
  <2>1. 1 \in 1..(Len(s) + 1) /\ m \in (1 - 1)..Len(s) /\ Len(s) \in m..Len(s)
    BY <1>1
  <2> QED
    BY <2>1, ConcatAdjacentSubSeq
<1>5. SubSeq(s, 1, Len(s)) = s
  BY SubSeqFull
<1>6. SubSeq(s, Len(s) + 1, Len(s)) = <<>>
  BY <1>1, SubSeqEmpty
<1> QED
  BY <1>2, <1>3, <1>4, <1>5, <1>6

\* What a recv takes and what it leaves.
LEMMA ReceivedFacts ==
  ASSUME TypeInv, NEW c \in Client, conn_sock = c, c2s[c] # <<>>, Taken
  PROVE  /\ Received \in Seq(Byte) /\ Received # <<>>
         /\ c2s'[c] \in Seq(Byte) /\ Received \o c2s'[c] = c2s[c]
         /\ Len(c2s[c]) <= BUFF_SIZE => Received = c2s[c] /\ c2s'[c] = <<>>
         /\ c2s' \in [Client -> Seq(Byte)] /\ \A d \in Client \ {c} : c2s'[d] = c2s[d]
<1> DEFINE s == c2s[c]
           m == Min({Len(s), BUFF_SIZE})
           p == SubSeq(s, 1, m)
           q == SubSeq(s, m + 1, Len(s))
<1>1. s \in Seq(Byte) /\ Len(s) \in Nat /\ Len(s) > 0
  BY LenProperties, EmptySeq DEF TypeInv
<1>2. m = IF Len(s) <= BUFF_SIZE THEN Len(s) ELSE BUFF_SIZE
  BY <1>1, ByteFacts, MinOfTwo
<1>3. m \in 0..Len(s) /\ m > 0
  BY <1>1, <1>2, ByteFacts
<1>4. Received = p
  BY DEF Received
<1> HIDE DEF m
<1>5. /\ p \in Seq(Byte) /\ Len(p) = m /\ q \in Seq(Byte) /\ p \o q = s
      /\ m = Len(s) => p = s /\ q = <<>>
  BY <1>1, <1>3, CutFacts
<1> HIDE DEF p
<1>6. c2s' = [c2s EXCEPT ![c] = q]
  BY <1>4, <1>5 DEF Taken
<1> HIDE DEF q
<1>7. c2s'[c] = q /\ c2s' \in [Client -> Seq(Byte)] /\ \A d \in Client \ {c} : c2s'[d] = c2s[d]
  BY <1>5, <1>6 DEF TypeInv
<1>8. p # <<>>
  BY <1>3, <1>5, EmptySeq
<1>9. Len(s) <= BUFF_SIZE => p = s /\ q = <<>>
  BY <1>2, <1>5
<1> QED
  BY <1>4, <1>5, <1>7, <1>8, <1>9

LEMMA ShowFacts ==
  ASSUME TypeInv, NEW bytes \in Seq(Byte), Show(bytes)
  PROVE  /\ printed' \in Seq(Byte)
         /\ Len(printed \o bytes) <= MaxFile => printed' = printed \o bytes
<1> DEFINE all == printed \o bytes
           m == Min({Len(all), MaxFile + 1})
<1>1. all \in Seq(Byte) /\ MaxFile \in Nat
  BY ConcatProperties, ByteFacts DEF TypeInv
<1>2. printed' = SubSeq(all, 1, m)
  BY DEF Show
<1> HIDE DEF all
<1>3. Len(all) \in Nat /\ MaxFile + 1 \in Nat
  BY <1>1, LenProperties
<1>4. m = IF Len(all) <= MaxFile + 1 THEN Len(all) ELSE MaxFile + 1
  BY <1>3, MinOfTwo
<1>5. m \in 0..Len(all) /\ (Len(all) <= MaxFile => m = Len(all))
  BY <1>1, <1>3, <1>4
<1> HIDE DEF m
<1>6. SubSeq(all, 1, m) \in Seq(Byte) /\ (m = Len(all) => SubSeq(all, 1, m) = all)
  BY <1>1, <1>5, CutFacts
<1> QED
  BY <1>2, <1>5, <1>6 DEF all

\* A recv that does not end the connection.
LEMMA TakenStep ==
  ASSUME UploadInv, NEW c \in Client, conn_sock = c, c2s[c] # <<>>, Taken,
         UNCHANGED <<conn_sock, backlog, hungUp, clientVars>>,
         at' \in {"recv", "sleep"}, printed' \in Seq(Byte),
         client_status' \in {SEND_MESSAGE, UPLOAD_FILE, SELECT_IN_PROGRESS},
         InPhase(c)'
  PROVE  UploadInv'
<1>1. c2s' \in [Client -> Seq(Byte)] /\ \A d \in Client \ {c} : c2s'[d] = c2s[d]
  BY ReceivedFacts DEF UploadInv
<1>2. c # Nobody
  BY ByteFacts
<1>3. TypeInv'
  BY <1>1, <1>2 DEF UploadInv, TypeInv, clientVars
<1>4. ASSUME NEW d \in Client
      PROVE  (Connected(d)' <=> Connected(d)) /\ (Waiting(d)' <=> Waiting(d))
  BY DEF Connected, Waiting
<1>5. ASSUME NEW d \in Client, d # c
      PROVE  Net(d)' /\ History(d)' /\ InPhase(d)'
  <2>1. SameClient(d) /\ c2s'[d] = c2s[d] /\ hungUp'[d] = hungUp[d]
    BY <1>1, <1>5 DEF SameClient, clientVars
  <2>2. Net(d) /\ History(d)
    BY DEF UploadInv
  <2> QED
    BY <1>4, <1>5, <2>1, <2>2, NetFrame, HistoryFrame DEF InPhase
<1>6. Connected(c) /\ ~Waiting(c)
  BY DEF Connected, Waiting, UploadInv, TypeInv
<1>7. Net(c)' /\ History(c)'
  BY <1>4, <1>6 DEF UploadInv, Net, History, clientVars
<1> QED
  BY <1>3, <1>5, <1>7 DEF UploadInv


LEMMA AcceptStep == UploadInv /\ Accept => UploadInv'
<1> SUFFICES ASSUME UploadInv, Accept
             PROVE  UploadInv'
  OBVIOUS
<1>1. PICK h \in Client : h = Head(backlog)
  BY HeadTailProperties DEF Accept, UploadInv, TypeInv
<1>2. /\ at = "accept" /\ at' = "recv" /\ conn_sock' = h /\ backlog' = Tail(backlog) /\ backlog # <<>>
      /\ client_status' = SELECT_IN_PROGRESS /\ printed' = <<>>
      /\ UNCHANGED <<c2s, hungUp, clientVars>>
  BY <1>1 DEF Accept
<1>3. /\ backlog' \in Seq(Client) /\ Len(backlog') = Len(backlog) - 1
      /\ \A i \in 1..Len(backlog') : backlog'[i] = backlog[i + 1]
  BY <1>2, HeadTailProperties DEF UploadInv, TypeInv
<1>4. /\ Len(backlog) \in Nat /\ Len(backlog) >= 1 /\ backlog[1] = h
      /\ DOMAIN backlog = 1..Len(backlog) /\ DOMAIN backlog' = 1..Len(backlog')
  <2>1. Len(backlog) \in Nat \ {0} /\ backlog \in Seq(Client)
    BY <1>2, EmptySeq DEF UploadInv, TypeInv
  <2>2. Head(backlog) = backlog[1]
    BY <2>1
  <2> QED
    BY <1>1, <1>3, <2>1, <2>2, LenProperties
<1>5. \A i, j \in 1..Len(backlog) : backlog[i] = backlog[j] => i = j
  BY <1>4 DEF UploadInv, TypeInv, IsInjective
<1>6. IsInjective(backlog') /\ \A i \in 1..Len(backlog') : backlog'[i] # h
  <2>1. ASSUME NEW i \in 1..Len(backlog')
        PROVE  i + 1 \in 1..Len(backlog) /\ backlog'[i] = backlog[i + 1] /\ i + 1 # 1
    BY <1>3, <1>4
  <2>2. \A i, j \in 1..Len(backlog') : backlog'[i] = backlog'[j] => i = j
    BY <1>5, <2>1
  <2>3. \A i \in 1..Len(backlog') : backlog'[i] # h
    BY <1>4, <1>5, <2>1
  <2> QED
    BY <1>4, <2>2, <2>3 DEF IsInjective
<1>7. TypeInv'
  <2>1. h # Nobody
    BY ByteFacts
  <2> QED
    BY <1>2, <1>3, <1>6, <2>1, EmptySeq DEF UploadInv, TypeInv, clientVars
<1>8. ASSUME NEW d \in Client
      PROVE  /\ Connected(d)' <=> Connected(d)
             /\ Waiting(d)' => Waiting(d)
             /\ d = h => Waiting(d)
  <2>1. conn_sock = Nobody /\ d # Nobody
    BY <1>2, ByteFacts DEF UploadInv, TypeInv
  <2>2. Waiting(d) => d = h \/ Waiting(d)'
    <3> SUFFICES ASSUME NEW i \in 1..Len(backlog), backlog[i] = d, d # h
                 PROVE  Waiting(d)'
      BY DEF Waiting
    <3>1. i # 1 /\ i - 1 \in 1..Len(backlog')
      BY <1>3, <1>4
    <3>2. backlog'[i - 1] = backlog[i - 1 + 1] /\ i - 1 + 1 = i
      BY <1>3, <3>1
    <3>3. backlog'[i - 1] = d
      BY <3>2
    <3> QED
      BY <3>1, <3>3 DEF Waiting
  <2>3. Waiting(d)' => Waiting(d)
    <3> SUFFICES ASSUME NEW i \in 1..Len(backlog'), backlog'[i] = d
                 PROVE  Waiting(d)
      BY DEF Waiting
    <3>1. i + 1 \in 1..Len(backlog) /\ backlog[i + 1] = d
      BY <1>3, <1>4
    <3> QED
      BY <3>1 DEF Waiting
  <2>4. d = h => Waiting(d)
    BY <1>4 DEF Waiting
  <2> QED
    BY <1>2, <2>1, <2>2, <2>3, <2>4 DEF Connected, Waiting
<1>9. ASSUME NEW d \in Client
      PROVE  Net(d)' /\ History(d)' /\ InPhase(d)'
  <2>1. SameClient(d) /\ c2s'[d] = c2s[d] /\ hungUp'[d] = hungUp[d] /\ Net(d) /\ History(d)
    BY <1>2 DEF SameClient, UploadInv, clientVars
  <2>2. Net(d)' /\ History(d)'
    BY <1>8, <2>1, NetFrame, HistoryFrame
  <2>3. InPhase(d)'
    <3> SUFFICES ASSUME d = h, plain[d], place[d] # "off"
                 PROVE  Phase(d)' /\ at' # "sleep"
      BY <1>2 DEF InPhase, clientVars
    <3>1. place[d] = "select" /\ c2s[d] = <<>> /\ uploaded[d] = <<>>
      BY <1>8, <2>1 DEF History
    <3> QED
      BY <1>2, <3>1 DEF Phase, StatusOf, clientVars
  <2> QED
    BY <2>2, <2>3
<1> QED
  BY <1>7, <1>9 DEF UploadInv

LEMMA CloseStep ==
  ASSUME UploadInv, at \in {"recv", "sleep"}, Close
  PROVE  UploadInv'
<1>1. PICK k \in Client : k = conn_sock
  BY DEF UploadInv, TypeInv
<1>2. /\ at' = "accept" /\ conn_sock' = Nobody
      /\ c2s' = [c2s EXCEPT ![k] = <<>>] /\ hungUp' = [hungUp EXCEPT ![k] = FALSE]
      /\ client_status' = SELECT_IN_PROGRESS /\ printed' = <<>>
      /\ UNCHANGED <<backlog, clientVars>>
  BY <1>1 DEF Close
<1>3. \A i \in 1..Len(backlog) : backlog[i] \in Client /\ backlog[i] # k
  BY <1>1, ElementOfSeq DEF UploadInv, TypeInv
<1>4. TypeInv'
  <2>1. c2s' \in [Client -> Seq(Byte)] /\ hungUp' \in [Client -> BOOLEAN]
    BY <1>2, EmptySeq DEF UploadInv, TypeInv
  <2> QED
    BY <1>2, <1>3, <2>1, EmptySeq, ByteFacts DEF UploadInv, TypeInv, clientVars
<1>5. ASSUME NEW d \in Client
      PROVE  Net(d)' /\ History(d)' /\ InPhase(d)'
  <2>1. SameClient(d) /\ Net(d) /\ History(d) /\ d # Nobody
    BY <1>2, ByteFacts DEF SameClient, UploadInv, clientVars
  <2>2. Waiting(d)' <=> Waiting(d)
    BY <1>2 DEF Waiting
  <2>3. CASE d = k
    <3>1. ~Connected(d)' /\ ~Waiting(d)
      BY <1>2, <1>3, <2>1, <2>3 DEF Connected, Waiting
    <3>2. c2s'[d] = <<>> /\ ~hungUp'[d]
      BY <1>2, <2>3 DEF UploadInv, TypeInv
    <3> QED
      BY <1>2, <2>1, <2>2, <3>1, <3>2 DEF Net, History, InPhase, SameClient
  <2>4. CASE d # k
    <3>1. c2s'[d] = c2s[d] /\ hungUp'[d] = hungUp[d]
      BY <1>2, <2>4 DEF UploadInv, TypeInv
    <3>2. Connected(d)' <=> Connected(d)
      BY <1>1, <1>2, <2>1, <2>4 DEF Connected
    <3> QED
      BY <1>2, <2>1, <2>2, <3>1, <3>2, NetFrame, HistoryFrame DEF InPhase
  <2> QED
    BY <2>3, <2>4
<1> QED
  BY <1>4, <1>5 DEF UploadInv

LEMMA DieStep == UploadInv /\ Die => UploadInv'
<1> SUFFICES ASSUME UploadInv, Die
             PROVE  UploadInv'
  OBVIOUS
<1>1. TypeInv'
  BY EmptySeq DEF Die, UploadInv, TypeInv, clientVars, IsInjective
<1>2. ASSUME NEW d \in Client
      PROVE  Net(d)' /\ History(d)' /\ InPhase(d)'
  <2>1. ~Connected(d)' /\ ~Waiting(d)' /\ conn_sock' # d
    BY ByteFacts, EmptySeq DEF Die, Connected, Waiting
  <2>2. History(d)
    BY DEF UploadInv
  <2> QED
    BY <2>1, <2>2 DEF Die, Net, History, InPhase, clientVars
<1> QED
  BY <1>1, <1>2 DEF UploadInv

\* The server goes on without having taken anything: it is started, or its
\* sleep between two replies is over.
LEMMA GoOnStep ==
  ASSUME UploadInv, UNCHANGED <<conn_sock, client_status, printed, netVars, clientVars>>,
         \/ at = "down" /\ at' = "accept"
         \/ at = "sleep" /\ at' = "recv"
  PROVE  UploadInv'
<1>1. TypeInv'
  BY DEF UploadInv, TypeInv, netVars, clientVars
<1>2. ASSUME NEW d \in Client
      PROVE  Net(d)' /\ History(d)' /\ InPhase(d)'
  <2>1. SameClient(d) /\ (Connected(d)' <=> Connected(d)) /\ (Waiting(d)' <=> Waiting(d))
    BY DEF SameClient, Connected, Waiting, netVars, clientVars
  <2>2. Net(d) /\ History(d) /\ InPhase(d) /\ c2s'[d] = c2s[d] /\ hungUp'[d] = hungUp[d]
    BY DEF UploadInv, netVars
  <2> QED
    BY <2>1, <2>2, NetFrame, HistoryFrame, PhaseFrame
<1> QED
  BY <1>1, <1>2 DEF UploadInv


LEMMA ChoiceStep == UploadInv /\ RecvChoice => UploadInv'
<1> SUFFICES ASSUME UploadInv, RecvChoice
             PROVE  UploadInv'
  OBVIOUS
<1> DEFINE choice == Line(Received)
<1>1. CASE Close
  BY <1>1, CloseStep DEF RecvChoice, Recv
<1>2. CASE /\ choice # <<"0">> /\ Taken
           /\ client_status' = CASE choice = <<"1">> -> SEND_MESSAGE
                                 [] choice = <<"2">> -> UPLOAD_FILE
                                 [] OTHER            -> client_status
           /\ printed' = IF choice = <<"2">> THEN <<>> ELSE printed
           /\ UNCHANGED <<at, conn_sock, backlog, hungUp, clientVars>>
  <2>1. at = "recv" /\ client_status = SELECT_IN_PROGRESS
    BY DEF RecvChoice, Recv
  <2>2. PICK c \in Client : c = conn_sock
    BY <2>1 DEF UploadInv, TypeInv
  <2>3. c2s[c] # <<>>
    BY <2>2 DEF RecvChoice, Recv
  <2>4. Len(c2s[c]) <= BUFF_SIZE => Received = c2s[c] /\ c2s'[c] = <<>>
    BY <1>2, <2>2, <2>3, ReceivedFacts DEF UploadInv
  <2>5. client_status' \in {SEND_MESSAGE, UPLOAD_FILE, SELECT_IN_PROGRESS} /\ printed' \in Seq(Byte)
    BY <1>2, <2>1, EmptySeq DEF UploadInv, TypeInv
  <2>6. InPhase(c)'
    <3> SUFFICES ASSUME plain[c], place[c] # "off"
                 PROVE  Phase(c)'
      BY <1>2, <2>1 DEF InPhase, clientVars
    <3>1. Phase(c)
      BY <2>2 DEF UploadInv, InPhase
    <3>2. /\ Len(<<"0", NL>>) <= BUFF_SIZE /\ Len(<<"1", NL>>) <= BUFF_SIZE
          /\ Len(<<"2", NL>>) <= BUFF_SIZE
      BY ByteFacts
    <3>3. <<"1">> # <<"2">>
      OBVIOUS
    <3>4. c2s[c] # <<"0", NL>>
      BY <1>2, <2>4, <3>2, TypedLines
    <3>5. CASE c2s[c] = <<"1", NL>> /\ place[c] = "send" /\ printed = uploaded[c]
      <4>1. choice = <<"1">> /\ c2s'[c] = <<>>
        BY <2>4, <3>2, <3>5, TypedLines
      <4>2. client_status' = SEND_MESSAGE /\ printed' = printed
        BY <1>2, <3>3, <4>1
      <4> QED
        BY <1>2, <3>5, <4>1, <4>2 DEF Phase, StatusOf, clientVars
    <3>6. CASE c2s[c] = <<"2", NL>> /\ place[c] = "name" /\ uploaded[c] = <<>>
      <4>1. choice = <<"2">> /\ c2s'[c] = <<>>
        BY <2>4, <3>2, <3>6, TypedLines
      <4>2. client_status' = UPLOAD_FILE /\ printed' = <<>>
        BY <1>2, <3>3, <4>1
      <4> QED
        BY <1>2, <3>6, <4>1, <4>2 DEF Phase, StatusOf, clientVars
    <3>7. SELECT_IN_PROGRESS # SEND_MESSAGE /\ SELECT_IN_PROGRESS # UPLOAD_FILE
      BY DEF SELECT_IN_PROGRESS, SEND_MESSAGE, UPLOAD_FILE
    <3> QED
      BY <2>1, <2>3, <3>1, <3>4, <3>5, <3>6, <3>7 DEF Phase
  <2> QED
    BY <1>2, <2>1, <2>2, <2>3, <2>5, <2>6, TakenStep
<1> QED
  BY <1>1, <1>2 DEF RecvChoice

LEMMA MessageStep == UploadInv /\ RecvMessage => UploadInv'
<1> SUFFICES ASSUME UploadInv, RecvMessage
             PROVE  UploadInv'
  OBVIOUS
<1> DEFINE message == Line(Received)
<1>1. CASE Close
  BY <1>1, CloseStep DEF RecvMessage, Recv
<1>2. CASE /\ Taken
           /\ at' = IF message # <<>> /\ IsAlnum(message) THEN "sleep" ELSE at
           /\ client_status' = IF message = <<>> THEN SELECT_IN_PROGRESS ELSE client_status
           /\ UNCHANGED <<conn_sock, printed, backlog, hungUp, clientVars>>
  <2>1. at = "recv" /\ client_status = SEND_MESSAGE
    BY DEF RecvMessage, Recv
  <2>2. PICK c \in Client : c = conn_sock
    BY <2>1 DEF UploadInv, TypeInv
  <2>3. c2s[c] # <<>>
    BY <2>2 DEF RecvMessage, Recv
  <2>4. Len(c2s[c]) <= BUFF_SIZE => Received = c2s[c] /\ c2s'[c] = <<>>
    BY <1>2, <2>2, <2>3, ReceivedFacts DEF UploadInv
  <2>5. /\ client_status' \in {SEND_MESSAGE, UPLOAD_FILE, SELECT_IN_PROGRESS}
        /\ at' \in {"recv", "sleep"} /\ printed' \in Seq(Byte)
    BY <1>2, <2>1 DEF UploadInv, TypeInv
  <2>6. InPhase(c)'
    <3> SUFFICES ASSUME plain[c], place[c] # "off"
                 PROVE  Phase(c)' /\ (at' = "sleep" => c2s'[c] = <<>> /\ place[c] = "send")
      BY <1>2 DEF InPhase, clientVars
    <3>1. Phase(c)
      BY <2>2 DEF UploadInv, InPhase
    <3>2. CASE c2s[c] \in Messages /\ place[c] = "send" /\ printed = uploaded[c]
      <4>1. message # <<>> /\ c2s'[c] = <<>>
        BY <2>4, <3>2, TypedLines, MessageFacts
      <4>2. client_status' = SEND_MESSAGE /\ printed' = printed
        BY <1>2, <2>1, <4>1
      <4> QED
        BY <1>2, <3>2, <4>1, <4>2 DEF Phase, StatusOf, clientVars
    <3>3. CASE c2s[c] = <<NL>> /\ place[c] = "select" /\ printed = uploaded[c]
      <4>1. message = <<>> /\ c2s'[c] = <<>>
        <5>1. Len(<<NL>>) <= BUFF_SIZE
          BY ByteFacts
        <5> QED
          BY <2>4, <3>3, <5>1, TypedLines
      <4>2. client_status' = SELECT_IN_PROGRESS /\ printed' = printed /\ at' = "recv"
        BY <1>2, <2>1, <4>1
      <4> QED
        BY <1>2, <3>3, <4>1, <4>2 DEF Phase, StatusOf, clientVars
    <3>4. SEND_MESSAGE # SELECT_IN_PROGRESS /\ SEND_MESSAGE # UPLOAD_FILE
      BY DEF SELECT_IN_PROGRESS, SEND_MESSAGE, UPLOAD_FILE
    <3> QED
      BY <2>1, <2>3, <3>1, <3>2, <3>3, <3>4 DEF Phase
  <2> QED
    BY <1>2, <2>2, <2>3, <2>5, <2>6, TakenStep
<1> QED
  BY <1>1, <1>2 DEF RecvMessage

LEMMA ContentStep == UploadInv /\ RecvContent => UploadInv'
<1> SUFFICES ASSUME UploadInv, RecvContent
             PROVE  UploadInv'
  OBVIOUS
<1>1. /\ at = "recv" /\ client_status = UPLOAD_FILE /\ Taken /\ Show(CString(Received))
      /\ client_status' = IF CString(Received) = <<>> THEN SELECT_IN_PROGRESS ELSE client_status
      /\ UNCHANGED <<at, conn_sock, backlog, hungUp, clientVars>>
  BY DEF RecvContent, Recv
<1>2. PICK c \in Client : c = conn_sock
  BY <1>1 DEF UploadInv, TypeInv
<1>3. c2s[c] # <<>>
  BY <1>2 DEF RecvContent, Recv
<1>4. /\ Received \in Seq(Byte) /\ Received # <<>>
      /\ c2s'[c] \in Seq(Byte) /\ Received \o c2s'[c] = c2s[c]
      /\ Len(c2s[c]) <= BUFF_SIZE => Received = c2s[c] /\ c2s'[c] = <<>>
  BY <1>1, <1>2, <1>3, ReceivedFacts DEF UploadInv
<1>5. CString(Received) \in Seq(Byte)
  BY <1>4, CStringFacts
<1>6. /\ printed' \in Seq(Byte)
      /\ Len(printed \o CString(Received)) <= MaxFile => printed' = printed \o CString(Received)
  BY <1>1, <1>5, ShowFacts DEF UploadInv
<1>7. client_status' \in {SEND_MESSAGE, UPLOAD_FILE, SELECT_IN_PROGRESS}
  BY <1>1
<1>8. InPhase(c)'
  <2> SUFFICES ASSUME plain[c], place[c] # "off"
               PROVE  Phase(c)'
    BY <1>1 DEF InPhase, clientVars
  <2>1. Phase(c) /\ Len(uploaded[c]) <= MaxFile /\ uploaded[c] \in Seq(Byte) /\ printed \in Seq(Byte)
    BY <1>2 DEF UploadInv, InPhase, TypeInv, History
  <2>2. CASE c2s[c] = <<NUL>> /\ place[c] = "select" /\ printed = uploaded[c]
    <3>1. Len(<<NUL>>) <= BUFF_SIZE
      BY ByteFacts
    <3>2. CString(Received) = <<>> /\ c2s'[c] = <<>>
      BY <1>4, <2>2, <3>1, TypedLines
    <3>3. printed \o <<>> = printed
      BY <2>1, ConcatEmptySeq
    <3>4. client_status' = SELECT_IN_PROGRESS /\ printed' = printed
      BY <1>1, <1>6, <2>1, <2>2, <3>2, <3>3
    <3> QED
      BY <1>1, <2>2, <3>2, <3>4 DEF Phase, StatusOf, clientVars
  <2>3. CASE /\ place[c] \in {"body", "pause"} /\ printed \o c2s[c] = uploaded[c]
             /\ \A i \in 1..Len(c2s[c]) : c2s[c][i] # NUL
    <3>r. PICK r \in Seq(Byte) : r = Received
      BY <1>4
    <3>q. PICK q \in Seq(Byte) : q = c2s'[c]
      BY <1>4
    <3>1. /\ Len(r) \in Nat /\ Len(q) \in Nat /\ Len(printed) \in Nat
          /\ Len(c2s[c]) = Len(r) + Len(q)
          /\ \A i \in 1..(Len(r) + Len(q)) : c2s[c][i] = IF i <= Len(r) THEN r[i] ELSE q[i - Len(r)]
      <4>1. c2s[c] = r \o q
        BY <1>4, <3>r, <3>q
      <4>2. Len(r) \in Nat /\ Len(q) \in Nat /\ Len(printed) \in Nat
        BY <2>1, LenProperties
      <4>3. /\ Len(r \o q) = Len(r) + Len(q)
            /\ \A i \in 1..(Len(r) + Len(q)) : (r \o q)[i] = IF i <= Len(r) THEN r[i] ELSE q[i - Len(r)]
        BY ConcatProperties
      <4> QED
        BY <4>1, <4>2, <4>3
    <3>2. \A i \in 1..Len(r) : r[i] # NUL
      <4> SUFFICES ASSUME NEW i \in 1..Len(r)
                   PROVE  r[i] # NUL
        OBVIOUS
      <4>1. i \in 1..Len(c2s[c]) /\ c2s[c][i] = r[i]
        BY <3>1
      <4> QED
        BY <2>3, <4>1
    <3>3. \A i \in 1..Len(q) : q[i] # NUL
      <4> SUFFICES ASSUME NEW i \in 1..Len(q)
                   PROVE  q[i] # NUL
        OBVIOUS
      <4>1. i + Len(r) \in 1..Len(c2s[c]) /\ c2s[c][i + Len(r)] = q[i + Len(r) - Len(r)]
        BY <3>1
      <4>2. i + Len(r) - Len(r) = i
        BY <3>1
      <4> QED
        BY <2>3, <4>1, <4>2
    <3>4. CString(Received) = Received
      BY <1>4, <3>2, <3>r, CStringFacts
    <3>5. (printed \o r) \o q = uploaded[c]
      <4>1. (printed \o r) \o q = printed \o (r \o q)
        BY <2>1, Associative
      <4> QED
        BY <1>4, <2>3, <3>r, <3>q, <4>1
    <3>6. Len(printed \o r) <= MaxFile
      <4>1. printed \o r \in Seq(Byte)
        BY <2>1, ConcatProperties
      <4>2. Len((printed \o r) \o q) = Len(printed \o r) + Len(q) /\ Len(printed \o r) \in Nat
        BY <4>1, ConcatProperties, LenProperties
      <4> QED
        BY <2>1, <3>1, <3>5, <4>2, ByteFacts
    <3>7. printed' \o q = uploaded[c] /\ client_status' = UPLOAD_FILE
      BY <1>1, <1>4, <1>6, <3>4, <3>5, <3>6, <3>r
    <3> QED
      BY <1>1, <2>3, <3>3, <3>7, <3>q DEF Phase, clientVars
  <2>4. UPLOAD_FILE # SEND_MESSAGE /\ UPLOAD_FILE # SELECT_IN_PROGRESS
    BY DEF SELECT_IN_PROGRESS, SEND_MESSAGE, UPLOAD_FILE
  <2> QED
    BY <1>1, <1>3, <2>1, <2>2, <2>3, <2>4 DEF Phase
<1> QED
  BY <1>1, <1>2, <1>3, <1>6, <1>7, <1>8, TakenStep

-----------------------------------------------------------------------------
LEMMA UploadStep == UploadInv /\ [Next]_vars => UploadInv'
<1> SUFFICES ASSUME UploadInv, [Next]_vars
             PROVE  UploadInv'
  OBVIOUS
<1>1. CASE UNCHANGED vars
  BY <1>1, StutterUpload
<1>2. CASE Server
  <2>1. CASE Accept
    BY <2>1, AcceptStep
  <2>2. CASE RecvEnds
    BY <2>2, CloseStep DEF RecvEnds
  <2>3. CASE RecvChoice
    BY <2>3, ChoiceStep
  <2>4. CASE RecvMessage
    BY <2>4, MessageStep
  <2>5. CASE RecvContent
    BY <2>5, ContentStep
  <2>6. CASE SendDigits
    BY <2>6, CloseStep, DieStep, GoOnStep DEF SendDigits
  <2> QED
    BY <1>2, <2>1, <2>2, <2>3, <2>4, <2>5, <2>6 DEF Server
<1>3. CASE Kill
  BY <1>3, DieStep DEF Kill
<1>4. CASE Start
  BY <1>4, GoOnStep DEF Start
<1>5. ASSUME NEW c \in Client, User(c)
      PROVE  UploadInv'
  <2>1. CASE Choose(c) \/ TypeLine(c) \/ OpenFails(c) \/ SendEnd(c)
    <3>1. TypeInv
      BY DEF UploadInv
    <3>2. PICK bytes, q : Typing(c, bytes, q)
      BY <2>1, <3>1, TypingCases
    <3> QED
      BY <3>2, TypingStep
  <2>2. CASE Connect(c)
    BY <2>2, ConnectStep
  <2>3. CASE Open(c) \/ EndOfFile(c)
    BY <2>3, OpenStep
  <2>4. CASE SendChunk(c)
    BY <2>4, ChunkStep
  <2>5. CASE HangUp(c)
    BY <2>5, HangUpStep
  <2> QED
    BY <1>5, <2>1, <2>2, <2>3, <2>4, <2>5 DEF User
<1> QED
  BY <1>1, <1>2, <1>3, <1>4, <1>5 DEF Next

LEMMA UploadAlways == Spec => []UploadInv
BY InitUpload, UploadStep, PTL DEF Spec

\* The variables keep their values, and only a connection has bytes or an end
\* under way: nothing of an old connection is read on a new one.
THEOREM UploadTypes == Spec => []TypeOK
<1>1. UploadInv => TypeOK
  <2> SUFFICES ASSUME UploadInv
               PROVE  TypeOK
    OBVIOUS
  <2>1. \A i \in 1..Len(backlog) : backlog[i] \in Client \ {conn_sock}
    BY ElementOfSeq DEF UploadInv, TypeInv
  <2>2. \A c \in Client : (~Connected(c) => c2s[c] = <<>> /\ ~hungUp[c])
                          /\ (Connected(c) /\ place[c] = "off" => hungUp[c])
    BY DEF UploadInv, Net
  <2> QED
    BY <2>1, <2>2 DEF UploadInv, TypeInv, TypeOK
<1> QED
  BY <1>1, UploadAlways, PTL

\* The sleep of client.c:187 and the user's pauses do what they are for: once
\* all that was sent has been read, both client_status agree, with any
\* messages, any files without a NUL and any size of the server's buffer.
THEOREM BothInStep == Spec => []InStep
<1>1. UploadInv => InStep
  BY NothingUnread DEF InStep, AtRest, Listening
<1> QED
  BY <1>1, UploadAlways, PTL

\* server.c:161-162 prints each file whole and nothing with it, however its
\* pieces were joined and split on the way.
THEOREM FilesWhole == Spec => []UploadWhole
<1>1. UploadInv => UploadWhole
  BY NothingUnread DEF UploadWhole, AtRest, Listening
<1> QED
  BY <1>1, UploadAlways, PTL
=============================================================================
