---------------------------- MODULE ChatServerProofs ----------------------------
(***************************************************************************)
(* Proofs about ChatServer, for any number of clients, accounts, words and *)
(* files, and also for accounts and files whose paths are the same.        *)
(***************************************************************************)
EXTENDS ChatServer, SequenceTheorems, TLAPS

(***************************************************************************)
(* Words and strings.                                                      *)
(***************************************************************************)

LEMMA WordFacts ==
  /\ NUL \in Word /\ NL \in Word /\ NUL # NL
  /\ \A c \in Client : Lines[c] \subseteq Word \ {NUL, NL}
  /\ \A c \in Client : FileNames[c] \subseteq Word \ {NUL, NL}
  /\ \A c \in Client : FileNames[c] \subseteq DOMAIN Parts
  /\ Names \subseteq DOMAIN Parts
  /\ \A c \in Client : MaxFile[c] \in Nat
<1>1. \A c \in Client : Lines[c] \in Range(Lines) /\ FileNames[c] \in Range(FileNames)
  BY ChatAssumption DEF Range
<1>2. UNION Range(Lines) \subseteq Word /\ UNION Range(FileNames) \subseteq Word
  BY DEF Word
<1>3. {NUL, NL} \subseteq Word /\ NUL # NL
  BY ChatAssumption DEF Word
<1>4. {NUL, NL} \cap UNION (Range(Lines) \cup Range(FileNames)) = {}
  BY ChatAssumption
<1>5. Names \cup UNION Range(FileNames) \subseteq DOMAIN Parts
  BY ChatAssumption
<1>6. \A c \in Client : MaxFile[c] \in Nat
  BY ChatAssumption
<1>7. \A c \in Client : Lines[c] \subseteq UNION Range(Lines) /\ FileNames[c] \subseteq UNION Range(FileNames)
  BY <1>1
<1> QED
  BY <1>2, <1>3, <1>4, <1>5, <1>6, <1>7

\* The string up to the first NUL is all of it if there is none.
LEMMA CStringWhole ==
  ASSUME NEW s \in Seq(Word), \A i \in 1..Len(s) : s[i] # NUL
  PROVE  CString(s) = s
<1>1. {i \in 1..Len(s) : s[i] = NUL} = {}
  OBVIOUS
<1>2. CString(s) = SubSeq(s, 1, Len(s))
  BY <1>1 DEF CString
<1> QED
  BY <1>2, SubSeqFull

LEMMA MinOfTwo ==
  ASSUME NEW a \in Nat, NEW b \in Nat
  PROVE  Min({a, b}) = IF a <= b THEN a ELSE b
<1>1. \E x \in {a, b} : \A y \in {a, b} : x <= y
  OBVIOUS
<1>2. Min({a, b}) \in {a, b} /\ \A y \in {a, b} : Min({a, b}) <= y
  BY <1>1 DEF Min
<1> QED
  BY <1>2

\* What a user types and what ends a file, as the server finds it.
LEMMA TypedStrings ==
  /\ Line(<<NL>>) = <<>> /\ CString(<<NL>>) = <<NL>> /\ CString(<<NUL>>) = <<>>
  /\ \A w \in Word \ {NUL} : /\ Line(<<w, NL>>) = <<w>>
                             /\ CString(<<w, NL>>) = <<w, NL>>
<1>1. \A w \in Word \ {NUL} : <<w>> \in Seq(Word) /\ <<w, NL>> \in Seq(Word)
  BY WordFacts
<1>2. CString(<<>>) = <<>>
  <2>1. <<>> \in Seq(Word) /\ \A i \in 1..Len(<<>>) : <<>>[i] # NUL
    BY EmptySeq
  <2> QED
    BY <2>1, CStringWhole
<1>3. Line(<<NL>>) = <<>>
  <2>1. Front(<<NL>>) = <<>>
    BY DEF Front
  <2> QED
    BY <1>2, <2>1 DEF Line
<1>4. ASSUME NEW w \in Word \ {NUL}
      PROVE  CString(<<w>>) = <<w>>
  <2>1. \A i \in 1..Len(<<w>>) : <<w>>[i] # NUL
    OBVIOUS
  <2> QED
    BY <1>1, <2>1, CStringWhole
<1>5. ASSUME NEW w \in Word \ {NUL}
      PROVE  Line(<<w, NL>>) = <<w>> /\ CString(<<w, NL>>) = <<w, NL>>
  <2>1. Front(<<w, NL>>) = <<w>>
    <3> DEFINE s == <<w, NL>>
    <3>1. s \in Seq(Word) /\ Len(s) = 2 /\ s[1] = w /\ <<w>> \in Seq(Word)
      BY <1>1
    <3>2. Front(s) = SubSeq(s, 1, 1)
      BY DEF Front
    <3> HIDE DEF s
    <3>3. \A i \in 1..1 : s[i] \in Word
      BY <3>1
    <3>4. /\ SubSeq(s, 1, 1) \in Seq(Word) /\ Len(SubSeq(s, 1, 1)) = IF 1 <= 1 THEN 1 - 1 + 1 ELSE 0
          /\ \A i \in 1..(1 - 1 + 1) : SubSeq(s, 1, 1)[i] = s[1 + i - 1]
      BY <3>3, SubSeqProperties
    <3>5. Len(SubSeq(s, 1, 1)) = Len(<<w>>) /\ \A i \in 1..Len(SubSeq(s, 1, 1)) : SubSeq(s, 1, 1)[i] = <<w>>[i]
      BY <3>1, <3>4
    <3>6. SubSeq(s, 1, 1) = <<w>>
      BY <3>1, <3>4, <3>5, SeqEqual
    <3> QED
      BY <3>2, <3>6 DEF s
  <2>2. \A i \in 1..Len(<<w, NL>>) : <<w, NL>>[i] # NUL
    BY WordFacts
  <2>3. CString(<<w, NL>>) = <<w, NL>>
    BY <1>1, <2>2, CStringWhole
  <2> QED
    BY <1>4, <2>1, <2>3 DEF Line
<1>6. CString(<<NUL>>) = <<>>
  <2> DEFINE s == <<NUL>>
  <2>1. {i \in 1..Len(s) : s[i] = NUL} = {1}
    OBVIOUS
  <2>2. Min({1}) = 1
    BY DEF Min
  <2>3. CString(s) = SubSeq(s, 1, Min({1}) - 1)
    BY <2>1 DEF CString
  <2>4. SubSeq(s, 1, 0) = <<>>
    BY SubSeqEmpty
  <2> QED
    BY <2>2, <2>3, <2>4
<1> QED
  BY <1>3, <1>4, <1>5, <1>6, WordFacts

\* A path is not empty: image[c] says whether there is one.
LEMMA PathNotEmpty ==
  ASSUME NEW t \in DOMAIN Parts, NEW u \in DOMAIN Parts
  PROVE  Path(<<t>>, <<u>>) # <<>>
<1>1. ASSUME NEW w \in DOMAIN Parts
      PROVE  Pieces(<<w>>) = Parts[w]
  <2> DEFINE seqs == [i \in 1..Len(<<w>>) |->
                        IF <<w>>[i] \in DOMAIN Parts THEN Parts[<<w>>[i]] ELSE <<<<w>>[i]>>]
             flat(f) == f = [i \in 1..Len(seqs) |-> IF i = 1 THEN seqs[i] ELSE f[i - 1] \o seqs[i]]
  <2>1. Len(seqs) = 1 /\ seqs[1] = Parts[w] /\ seqs # <<>>
    OBVIOUS
  <2>2. Pieces(<<w>>) = FlattenSeq(seqs)
    BY DEF Pieces
  <2> HIDE DEF seqs
  <2>3. flat([i \in 1..1 |-> seqs[1]])
    BY <2>1
  <2>4. flat(CHOOSE f : flat(f))
    BY <2>3
  <2>5. (CHOOSE f : flat(f))[1] = seqs[1]
    BY <2>1, <2>4
  <2>6. FlattenSeq(seqs) = (CHOOSE f : flat(f))[1]
    BY <2>1 DEF FlattenSeq
  <2> QED
    BY <2>1, <2>2, <2>5, <2>6
<1>2. PICK S : Parts[t] \in Seq(S) /\ Parts[u] \in Seq(S) /\ Parts[t] # <<>>
  <2> DEFINE S == Range(Parts[t]) \cup Range(Parts[u])
  <2>1. Parts[t] \in Seq(Range(Parts[t])) /\ Parts[u] \in Seq(Range(Parts[u])) /\ Parts[t] # <<>>
    BY ChatAssumption
  <2>2. Parts[t] \in Seq(S) /\ Parts[u] \in Seq(S)
    BY <2>1, SeqMonotonic
  <2> QED
    BY <2>1, <2>2
<1>3. Path(<<t>>, <<u>>) = Parts[t] \o Parts[u]
  BY <1>1 DEF Path
<1> QED
  BY <1>2, <1>3, ConcatEqualIffEmpty


-----------------------------------------------------------------------------
(***************************************************************************)
(* The inductive invariant.                                                *)
(***************************************************************************)

ChatTypes ==
  /\ up \in BOOLEAN /\ is_signed_in \subseteq Names
  /\ clientStatus \in [Client -> {NoStatus, USERNAME_REQUIRED, PASSWORD_REQUIRED,
                               VALID_CREDENTIALS, SEND_MESSAGE, UPLOAD_IMAGE}]
  /\ DOMAIN username = Client /\ DOMAIN image = Client /\ DOMAIN s2c = Client
  /\ DOMAIN images = {image[c] : c \in Client} \ {<<>>}
  /\ c2s \in [Client -> Seq(Word)] /\ hungUp \in [Client -> BOOLEAN]
  /\ place \in [Client -> {"off", "type", "body", "await"}]
  /\ status \in [Client -> ClientStates] /\ sent \in [Client -> Seq(Word)]
  /\ apart \in [Client -> BOOLEAN] /\ shared \in [Client -> BOOLEAN]

\* Only a connection has a name, an image, bytes under way or an end to be
\* noticed, and the end is that of its client; a new client starts afresh.
Conn(c) ==
  /\ Connected(c) => up /\ (place[c] = "off" <=> hungUp[c])
  /\ ~Connected(c) => username[c] = <<>> /\ image[c] = <<>> /\ c2s[c] = <<>> /\ ~hungUp[c]
  /\ Len(sent[c]) <= MaxFile[c]
  /\ place[c] = "off" =>
       status[c] = "NOT_SIGNED_IN" /\ s2c[c] = <<>> /\ sent[c] = <<>> /\ ~apart[c]

\* A session has one account, which is marked.
InSession(c) == clientStatus[c] \in {VALID_CREDENTIALS, SEND_MESSAGE, UPLOAD_IMAGE}
Session(c) == InSession(c) => \E n \in is_signed_in : username[c] = <<n>>
OneSession == \A c, d \in Client : InSession(c) /\ InSession(d) /\ username[c] = username[d] => c = d

\* In the memory of image[c] there may be a path that is not its own.
NoImage(c) == image[c] # <<>> => shared[c]

OwnPath(c) == \E n \in is_signed_in, name \in FileNames[c] :
                username[c] = <<n>> /\ image[c] = Path(<<n>>, <<name>>)

\* The file of c holds this.
Holds(c, bytes) ==
  ~shared[c] => OwnPath(c) /\ images[image[c]] \in Seq(Word) /\ images[image[c]] \o c2s[c] = bytes

\* Client and server in one mode.
Agree(c) == clientStatus[c] \in StatesOf(status[c])

\* The user is about to type,
Ready(c) == c2s[c] = <<>> /\ s2c[c] = <<>> /\ Agree(c) /\ sent[c] = <<>> /\ NoImage(c)

\* has typed a line, which the server has not read,
Typed(c, bytes) ==
  \/ bytes = <<NL>>
  \/ /\ status[c] # "UPLOAD_IMAGE"
     /\ \E line \in Lines[c] : /\ bytes = <<line, NL>>
                               /\ status[c] = "SEND_MESSAGE" => line # "Exited send message mode"
Asked(c) == Typed(c, c2s[c]) /\ s2c[c] = <<>> /\ Agree(c) /\ NoImage(c)

\* or is waiting for the reply that is under way.
Goodbye(c) == status[c] = "NOT_SIGNED_IN" /\ s2c[c] = <<"goodbye">>
Replied(c) ==
  /\ c2s[c] = <<>> /\ NoImage(c)
  /\ Goodbye(c) \/ clientStatus[c] \in StatesOf(Follow(status[c], s2c[c]))

\* In an upload the name is under way,
Uploads(c) == status[c] = "UPLOAD_IMAGE" /\ clientStatus[c] = UPLOAD_IMAGE /\ s2c[c] = <<>>
Named(c) ==
  /\ Uploads(c) /\ NoImage(c) /\ sent[c] = <<>>
  /\ \E name \in FileNames[c] : c2s[c] = <<name, NL>>

\* or pieces of the file,
Sending(c) == Uploads(c) /\ image[c] # <<>> /\ Holds(c, sent[c])

\* or the NUL that ends it.
Ended(c) == /\ Uploads(c) /\ image[c] # <<>> /\ c2s[c] = <<NUL>>
            /\ ~shared[c] => OwnPath(c) /\ images[image[c]] = sent[c]

Phase(c) ==
  \/ place[c] = "type" /\ Ready(c)
  \/ place[c] = "await" /\ (Asked(c) \/ Replied(c) \/ Ended(c))
  \/ place[c] = "body" /\ (Named(c) \/ Sending(c))

ChatInv ==
  /\ ChatTypes
  /\ \A c \in Client : Conn(c)
  /\ \A c \in Client : Session(c)
  /\ OneSession
  /\ \A c \in Client : Alive(c) => Phase(c)

-----------------------------------------------------------------------------
(***************************************************************************)
(* Replies.                                                                *)
(***************************************************************************)

LEMMA RangeOfOne ==
  ASSUME NEW t
  PROVE  Range(<<t>>) = {t}
BY DEF Range

LEMMA FollowOne ==
  ASSUME NEW s, NEW t
  PROVE  Follow(s, <<t>>) =
           CASE s = "NOT_SIGNED_IN" /\ t = "welcome"                 -> "SIGNED_IN"
             [] s = "SIGNED_IN" /\ t = "signed out"                  -> "NOT_SIGNED_IN"
             [] s = "SIGNED_IN" /\ t = "Entered send message mode"   -> "SEND_MESSAGE"
             [] s = "SIGNED_IN" /\ t = "Entered upload image mode"   -> "UPLOAD_IMAGE"
             [] s = "SEND_MESSAGE" /\ t = "Exited send message mode" -> "SIGNED_IN"
             [] s = "UPLOAD_IMAGE" /\ t = "Exited upload image mode" -> "SIGNED_IN"
             [] OTHER                                                -> s
<1>1. \A x : x \in Range(<<t>>) <=> t = x
  BY RangeOfOne
<1>2. /\ ("welcome" \in Range(<<t>>)) = (t = "welcome")
      /\ ("signed out" \in Range(<<t>>)) = (t = "signed out")
      /\ ("Entered send message mode" \in Range(<<t>>)) = (t = "Entered send message mode")
      /\ ("Entered upload image mode" \in Range(<<t>>)) = (t = "Entered upload image mode")
      /\ ("Exited send message mode" \in Range(<<t>>)) = (t = "Exited send message mode")
      /\ ("Exited upload image mode" \in Range(<<t>>)) = (t = "Exited upload image mode")
  <2> DEFINE R == Range(<<t>>)
  <2>1. \A x : (x \in R) = (t = x)
    BY <1>1
  <2> HIDE DEF R
  <2>2. /\ ("welcome" \in R) = (t = "welcome")
        /\ ("signed out" \in R) = (t = "signed out")
        /\ ("Entered send message mode" \in R) = (t = "Entered send message mode")
        /\ ("Entered upload image mode" \in R) = (t = "Entered upload image mode")
        /\ ("Exited send message mode" \in R) = (t = "Exited send message mode")
        /\ ("Exited upload image mode" \in R) = (t = "Exited upload image mode")
    BY <2>1, Zenon
  <2> QED
    BY <2>2, Zenon DEF R
<1> QED
  BY <1>2, Zenon DEF Follow

\* Where a reply takes a client that is in step.
LEMMA Replies ==
  /\ Follow("NOT_SIGNED_IN", <<Other>>) = "NOT_SIGNED_IN"
  /\ Follow("NOT_SIGNED_IN", <<"welcome">>) = "SIGNED_IN"
  /\ Follow("SIGNED_IN", <<"signed out">>) = "NOT_SIGNED_IN"
  /\ Follow("SIGNED_IN", <<"Entered send message mode">>) = "SEND_MESSAGE"
  /\ Follow("SIGNED_IN", <<"Entered upload image mode">>) = "UPLOAD_IMAGE"
  /\ Follow("SIGNED_IN", <<Other>>) = "SIGNED_IN"
  /\ Follow("SEND_MESSAGE", <<"Exited send message mode">>) = "SIGNED_IN"
  /\ Follow("UPLOAD_IMAGE", <<"Exited upload image mode">>) = "SIGNED_IN"
  /\ Follow("UPLOAD_IMAGE", <<Other>>) = "UPLOAD_IMAGE"
  /\ \A w : w # "Exited send message mode" => Follow("SEND_MESSAGE", <<w>>) = "SEND_MESSAGE"
<1>1. Follow("NOT_SIGNED_IN", <<Other>>) = "NOT_SIGNED_IN"
  BY FollowOne DEF Other
<1>2. Follow("NOT_SIGNED_IN", <<"welcome">>) = "SIGNED_IN"
  BY FollowOne
<1>3. Follow("SIGNED_IN", <<"signed out">>) = "NOT_SIGNED_IN"
  <2>1. \A s, t : s = "SIGNED_IN" /\ t = "signed out" => Follow(s, <<t>>) = "NOT_SIGNED_IN"
    <3> SUFFICES ASSUME NEW s, NEW t, s = "SIGNED_IN", t = "signed out"
                 PROVE  Follow(s, <<t>>) = "NOT_SIGNED_IN"
      OBVIOUS
    <3>1. /\ s # "NOT_SIGNED_IN" /\ s # "SEND_MESSAGE" /\ s # "UPLOAD_IMAGE"
          /\ t # "Entered send message mode" /\ t # "Entered upload image mode"
      OBVIOUS
    <3> QED
      BY <3>1, FollowOne
  <2> QED
    BY <2>1
<1>4. Follow("SIGNED_IN", <<"Entered send message mode">>) = "SEND_MESSAGE"
  BY FollowOne
<1>5. Follow("SIGNED_IN", <<"Entered upload image mode">>) = "UPLOAD_IMAGE"
  BY FollowOne
<1>6. Follow("SIGNED_IN", <<Other>>) = "SIGNED_IN"
  BY FollowOne DEF Other
<1>7. Follow("SEND_MESSAGE", <<"Exited send message mode">>) = "SIGNED_IN"
  BY FollowOne
<1>8. Follow("UPLOAD_IMAGE", <<"Exited upload image mode">>) = "SIGNED_IN"
  <2>1. \A s, t : s = "UPLOAD_IMAGE" /\ t = "Exited upload image mode" => Follow(s, <<t>>) = "SIGNED_IN"
    BY FollowOne
  <2> QED
    BY <2>1
<1>9. Follow("UPLOAD_IMAGE", <<Other>>) = "UPLOAD_IMAGE"
  BY FollowOne DEF Other
<1>10. \A w : w # "Exited send message mode" => Follow("SEND_MESSAGE", <<w>>) = "SEND_MESSAGE"
  BY FollowOne
<1> QED
  BY <1>1, <1>2, <1>3, <1>4, <1>5, <1>6, <1>7, <1>8, <1>9, <1>10

LEMMA FollowStates ==
  ASSUME NEW s \in ClientStates, NEW reply
  PROVE  Follow(s, reply) \in ClientStates
BY DEF Follow, ClientStates

\* A state of the client for every state of a connection.
LEMMA States ==
  /\ StatesOf("NOT_SIGNED_IN") = {USERNAME_REQUIRED, PASSWORD_REQUIRED}
  /\ StatesOf("SIGNED_IN") = {VALID_CREDENTIALS}
  /\ StatesOf("SEND_MESSAGE") = {SEND_MESSAGE}
  /\ StatesOf("UPLOAD_IMAGE") = {UPLOAD_IMAGE}
BY DEF StatesOf

LEMMA Distinct ==
  /\ NoStatus # USERNAME_REQUIRED /\ NoStatus # PASSWORD_REQUIRED /\ NoStatus # VALID_CREDENTIALS
  /\ NoStatus # SEND_MESSAGE /\ NoStatus # UPLOAD_IMAGE
  /\ USERNAME_REQUIRED # PASSWORD_REQUIRED /\ USERNAME_REQUIRED # VALID_CREDENTIALS
  /\ USERNAME_REQUIRED # SEND_MESSAGE /\ USERNAME_REQUIRED # UPLOAD_IMAGE
  /\ PASSWORD_REQUIRED # VALID_CREDENTIALS /\ PASSWORD_REQUIRED # SEND_MESSAGE
  /\ PASSWORD_REQUIRED # UPLOAD_IMAGE /\ VALID_CREDENTIALS # SEND_MESSAGE
  /\ VALID_CREDENTIALS # UPLOAD_IMAGE /\ SEND_MESSAGE # UPLOAD_IMAGE
BY DEF NoStatus, USERNAME_REQUIRED, PASSWORD_REQUIRED, VALID_CREDENTIALS, SEND_MESSAGE, UPLOAD_IMAGE

\* Which place in the protocol a client has, from its state.
LEMMA AgreeStates ==
  ASSUME ChatTypes, NEW c \in Client, Agree(c)
  PROVE  /\ clientStatus[c] \in {USERNAME_REQUIRED, PASSWORD_REQUIRED} <=> status[c] = "NOT_SIGNED_IN"
         /\ clientStatus[c] = VALID_CREDENTIALS <=> status[c] = "SIGNED_IN"
         /\ clientStatus[c] = SEND_MESSAGE <=> status[c] = "SEND_MESSAGE"
         /\ clientStatus[c] = UPLOAD_IMAGE <=> status[c] = "UPLOAD_IMAGE"
<1>1. status[c] \in ClientStates
  BY DEF ChatTypes
<1> QED
  BY <1>1, States, Distinct DEF Agree, ClientStates

-----------------------------------------------------------------------------
(***************************************************************************)
(* What a step leaves alone.                                               *)
(***************************************************************************)

\* Of another connection a step can only change that its file is shared and
\* what else the other files hold.
Untouched(d) ==
  /\ clientStatus'[d] = clientStatus[d] /\ username'[d] = username[d] /\ image'[d] = image[d]
  /\ c2s'[d] = c2s[d] /\ s2c'[d] = s2c[d] /\ hungUp'[d] = hungUp[d]
  /\ place'[d] = place[d] /\ status'[d] = status[d] /\ sent'[d] = sent[d] /\ apart'[d] = apart[d]
  /\ shared[d] => shared'[d]

MarksKept(d) ==
  InSession(d) => \A n \in is_signed_in : username[d] = <<n>> => n \in is_signed_in'

FileKept(d) == image[d] # <<>> /\ ~shared'[d] => images'[image[d]] = images[image[d]]

LEMMA ConnFrame ==
  ASSUME NEW d \in Client, Conn(d), Untouched(d), up' = up
  PROVE  Conn(d)'
BY DEF Conn, Untouched, Connected

LEMMA SessionFrame ==
  ASSUME NEW d \in Client, Session(d), Untouched(d), MarksKept(d)
  PROVE  Session(d)'
BY DEF Session, InSession, Untouched, MarksKept

LEMMA OneSessionFrame ==
  ASSUME OneSession, \A d \in Client : InSession(d)' => InSession(d) /\ username'[d] = username[d]
  PROVE  OneSession'
BY DEF OneSession, InSession

LEMMA PhaseFrame ==
  ASSUME NEW d \in Client, Alive(d) => Phase(d), Session(d), Untouched(d), MarksKept(d), FileKept(d)
  PROVE  Alive(d)' => Phase(d)'
<1> SUFFICES ASSUME Alive(d)'
             PROVE  Phase(d)'
  OBVIOUS
<1>1. Alive(d) /\ Phase(d)
  BY DEF Alive, Connected, Untouched
<1>2. NoImage(d) => NoImage(d)'
  BY DEF NoImage, Untouched
<1>3. (Agree(d) => Agree(d)') /\ (Uploads(d) => Uploads(d)')
  BY DEF Agree, Uploads, Untouched
<1>4. Ready(d) => Ready(d)'
  BY <1>2, <1>3 DEF Ready, Untouched
<1>5. Asked(d) => Asked(d)'
  BY <1>2, <1>3 DEF Asked, Typed, Untouched
<1>6. Replied(d) => Replied(d)'
  BY <1>2 DEF Replied, Goodbye, Untouched
<1>7. Named(d) => Named(d)'
  BY <1>2, <1>3 DEF Named, Untouched
<1>8. Uploads(d) /\ OwnPath(d) => OwnPath(d)'
  BY DEF Uploads, OwnPath, InSession, MarksKept, Untouched
<1>9. Sending(d) => Sending(d)'
  BY <1>3, <1>8 DEF Sending, Holds, FileKept, Untouched
<1>10. Ended(d) => Ended(d)'
  BY <1>3, <1>8 DEF Ended, FileKept, Untouched
<1> QED
  BY <1>1, <1>4, <1>5, <1>6, <1>7, <1>9, <1>10 DEF Phase, Untouched

\* Keeping the files that are named.
LEMMA KeepFacts ==
  ASSUME NEW f, Keep(f)
  PROVE  /\ DOMAIN images' = {image'[c] : c \in Client} \ {<<>>}
         /\ \A c \in Client : image'[c] # <<>> /\ image'[c] \in DOMAIN f => images'[image'[c]] = f[image'[c]]
BY DEF Keep


\* A step of one client or of its connection.
Fresh(c) == InSession(c)' => \/ InSession(c) /\ username'[c] = username[c]
                             \/ \A d \in Client \ {c} : InSession(d) => username[d] # username'[c]

LEMMA StepOfOne ==
  ASSUME ChatInv, NEW c \in Client, ChatTypes', up' = up,
         \A d \in Client \ {c} : Untouched(d) /\ MarksKept(d) /\ FileKept(d),
         Conn(c)', Session(c)', Fresh(c), Alive(c)' => Phase(c)'
  PROVE  ChatInv'
<1>1. ASSUME NEW d \in Client
      PROVE  Conn(d)' /\ Session(d)' /\ (Alive(d)' => Phase(d)')
  <2>1. CASE d = c
    BY <2>1
  <2>2. CASE d # c
    <3>1. Untouched(d) /\ MarksKept(d) /\ FileKept(d) /\ Conn(d) /\ Session(d) /\ (Alive(d) => Phase(d))
      BY <2>2 DEF ChatInv
    <3> QED
      BY <3>1, ConnFrame, SessionFrame, PhaseFrame
  <2> QED
    BY <2>1, <2>2
<1>2. OneSession'
  <2>1. \A d \in Client \ {c} : InSession(d)' => InSession(d) /\ username'[d] = username[d]
    BY DEF Untouched, InSession
  <2>2. ASSUME NEW d \in Client, NEW e \in Client, InSession(d)', InSession(e)', username'[d] = username'[e]
        PROVE  d = e
    <3>1. CASE d # c /\ e # c
      BY <2>1, <2>2, <3>1 DEF ChatInv, OneSession
    <3>2. CASE d = c /\ e # c
      BY <2>1, <2>2, <3>2 DEF ChatInv, OneSession, Fresh
    <3>3. CASE d # c /\ e = c
      BY <2>1, <2>2, <3>3 DEF ChatInv, OneSession, Fresh
    <3> QED
      BY <3>1, <3>2, <3>3
  <2> QED
    BY <2>2 DEF OneSession, InSession
<1> QED
  BY <1>1, <1>2 DEF ChatInv

\* A step that leaves the names, the marks and the states alone.
LEMMA SameSession ==
  ASSUME ChatInv, NEW c \in Client, clientStatus'[c] = clientStatus[c], username'[c] = username[c],
         is_signed_in' = is_signed_in
  PROVE  Session(c)' /\ Fresh(c)
BY DEF ChatInv, Session, InSession, Fresh

LEMMA NamedFiles ==
  ASSUME ChatInv, NEW c \in Client, image[c] # <<>>
  PROVE  image[c] \in DOMAIN images
BY DEF ChatInv, ChatTypes

LEMMA FilesKept ==
  ASSUME ChatInv, NEW d \in Client, Keep(images), image'[d] = image[d]
  PROVE  FileKept(d)
<1>1. ASSUME image[d] # <<>>
      PROVE  images'[image[d]] = images[image[d]]
  <2>1. image'[d] # <<>> /\ image'[d] \in DOMAIN images
    BY <1>1, NamedFiles
  <2>2. images'[image'[d]] = images[image'[d]]
    BY <2>1, KeepFacts
  <2> QED
    BY <2>2
<1> QED
  BY <1>1 DEF FileKept

-----------------------------------------------------------------------------
(***************************************************************************)
(* The client.                                                             *)
(***************************************************************************)

\* Joining bytes and words.
LEMMA Joined ==
  /\ \A s, t \in Seq(Word) : s \o t \in Seq(Word) /\ Len(s \o t) = Len(s) + Len(t)
  /\ \A s \in Seq(Word) : <<>> \o s = s /\ s \o <<>> = s
  /\ <<>> \in Seq(Word) /\ Len(<<>>) = 0
  /\ \A s, t, u \in Seq(Word) : s \o (t \o u) = (s \o t) \o u
<1>1. \A s, t \in Seq(Word) : s \o t \in Seq(Word) /\ Len(s \o t) = Len(s) + Len(t)
  BY ConcatProperties
<1>2. \A s \in Seq(Word) : <<>> \o s = s /\ s \o <<>> = s
  BY ConcatEmptySeq
<1>3. <<>> \in Seq(Word) /\ Len(<<>>) = 0
  BY EmptySeq
<1>4. \A s, t, u \in Seq(Word) : s \o (t \o u) = (s \o t) \o u
  BY ConcatAssociative
<1> QED
  BY <1>1, <1>2, <1>3, <1>4

LEMMA LaunchKeeps ==
  ASSUME ChatInv, NEW c \in Client, Launch(c)
  PROVE  ChatInv'
<1>1. ChatTypes /\ Conn(c) /\ OneSession /\ Session(c)
  BY DEF ChatInv
<1>2. PICK memory \in {<<>>, freed} :
        image' = [image EXCEPT ![c] = memory] /\ shared' = [shared EXCEPT ![c] = memory # <<>>]
  BY DEF Launch
<1>3. /\ up' = up /\ is_signed_in' = is_signed_in /\ username' = username /\ c2s' = c2s /\ s2c' = s2c
      /\ hungUp' = hungUp /\ sent' = sent /\ apart' = apart /\ up /\ place[c] = "off" /\ ~Connected(c)
      /\ place' = [place EXCEPT ![c] = "type"] /\ status' = [status EXCEPT ![c] = "NOT_SIGNED_IN"]
      /\ clientStatus' = [clientStatus EXCEPT ![c] = USERNAME_REQUIRED]
      /\ Keep(images)
  BY DEF Launch, netVars
<1>4. ChatTypes'
  <2>1. DOMAIN images' = {image'[d] : d \in Client} \ {<<>>}
    BY <1>3, KeepFacts
  <2>2. shared' \in [Client -> BOOLEAN] /\ place' \in [Client -> {"off", "type", "body", "await"}]
    BY <1>1, <1>2, <1>3 DEF ChatTypes
  <2>3. clientStatus' \in [Client -> {NoStatus, USERNAME_REQUIRED, PASSWORD_REQUIRED,
                               VALID_CREDENTIALS, SEND_MESSAGE, UPLOAD_IMAGE}]
    BY <1>1, <1>3 DEF ChatTypes
  <2>4. status' \in [Client -> ClientStates]
    BY <1>1, <1>3 DEF ChatTypes, ClientStates
  <2> QED
    BY <1>1, <1>2, <1>3, <2>1, <2>2, <2>3, <2>4 DEF ChatTypes
<1>5. ASSUME NEW d \in Client \ {c}
      PROVE  Untouched(d) /\ MarksKept(d) /\ FileKept(d)
  <2>1. Untouched(d)
    BY <1>1, <1>2, <1>3 DEF Untouched, ChatTypes
  <2>2. FileKept(d)
    BY <1>3, <2>1, FilesKept DEF Untouched
  <2> QED
    BY <1>3, <2>1, <2>2 DEF MarksKept
<1>6. clientStatus'[c] = USERNAME_REQUIRED /\ place'[c] = "type" /\ status'[c] = "NOT_SIGNED_IN"
      /\ (image'[c] # <<>> => shared'[c])
  BY <1>1, <1>2, <1>3 DEF ChatTypes
<1>7. c2s'[c] = <<>> /\ ~hungUp'[c] /\ s2c'[c] = <<>> /\ sent'[c] = <<>> /\ ~apart'[c]
  BY <1>1, <1>3 DEF Conn
<1>8. Conn(c)'
  BY <1>1, <1>3, <1>6, <1>7 DEF Conn, Connected, NoStatus, USERNAME_REQUIRED
<1>9. Session(c)' /\ Fresh(c)
  BY <1>6, Distinct DEF Session, InSession, Fresh
<1>10. Phase(c)'
  BY <1>6, <1>7, States DEF Phase, Ready, Agree, NoImage
<1> QED
  BY <1>3, <1>4, <1>5, <1>8, <1>9, <1>10, StepOfOne


\* What a step of a client leaves to the server.
ServerSame == up' = up /\ is_signed_in' = is_signed_in /\ clientStatus' = clientStatus
              /\ username' = username /\ image' = image /\ images' = images

LEMMA ClientStep ==
  ASSUME ChatInv, NEW c \in Client, ServerSame, ChatTypes', Conn(c)', Alive(c)' => Phase(c)',
         \A d \in Client \ {c} :
           /\ c2s'[d] = c2s[d] /\ s2c'[d] = s2c[d] /\ hungUp'[d] = hungUp[d]
           /\ place'[d] = place[d] /\ status'[d] = status[d] /\ sent'[d] = sent[d]
           /\ apart'[d] = apart[d] /\ shared'[d] = shared[d]
  PROVE  ChatInv'
<1>1. Session(c)' /\ Fresh(c)
  BY SameSession DEF ServerSame
<1>2. \A d \in Client \ {c} : Untouched(d) /\ MarksKept(d) /\ FileKept(d)
  BY DEF ServerSame, Untouched, MarksKept, FileKept
<1> QED
  BY <1>1, <1>2, StepOfOne DEF ServerSame

LEMMA PutFacts ==
  ASSUME ChatInv, NEW c \in Client, NEW bytes \in Seq(Word), Put(c, bytes)
  PROVE  /\ ServerSame /\ s2c' = s2c /\ hungUp' = hungUp
         /\ c2s' \in [Client -> Seq(Word)] /\ \A d \in Client \ {c} : c2s'[d] = c2s[d]
         /\ c2s'[c] = IF Connected(c) THEN c2s[c] \o bytes ELSE <<>>
<1>1. ServerSame /\ s2c' = s2c /\ hungUp' = hungUp
  BY DEF Put, ServerSame, entryVars, imageVars
<1>2. c2s \in [Client -> Seq(Word)] /\ Conn(c)
  BY DEF ChatInv, ChatTypes
<1>3. c2s[c] \o bytes \in Seq(Word)
  BY <1>2, Joined
<1>4. c2s' = IF Connected(c) THEN [c2s EXCEPT ![c] = c2s[c] \o bytes] ELSE c2s
  BY DEF Put
<1> QED
  BY <1>1, <1>2, <1>3, <1>4 DEF Conn

\* A client that sends: only its own place and what it has sent change.
LEMMA SendKeeps ==
  ASSUME ChatInv, NEW c \in Client, NEW bytes \in Seq(Word), Put(c, bytes), NEW p \in {"body", "await"},
         place[c] # "off", place' = [place EXCEPT ![c] = p], status' = status, shared' = shared,
         apart' \in [Client -> BOOLEAN], \A d \in Client \ {c} : apart'[d] = apart[d],
         sent' \in [Client -> Seq(Word)], Len(sent'[c]) <= MaxFile[c],
         \A d \in Client \ {c} : sent'[d] = sent[d],
         Alive(c)' => Phase(c)'
  PROVE  ChatInv'
<1>1. ChatTypes /\ Conn(c)
  BY DEF ChatInv
<1>2. /\ ServerSame /\ s2c' = s2c /\ hungUp' = hungUp
      /\ c2s' \in [Client -> Seq(Word)] /\ \A d \in Client \ {c} : c2s'[d] = c2s[d]
      /\ c2s'[c] = IF Connected(c) THEN c2s[c] \o bytes ELSE <<>>
  BY PutFacts
<1>3. place' \in [Client -> {"off", "type", "body", "await"}] /\ place'[c] = p /\ p # "off"
      /\ \A d \in Client \ {c} : place'[d] = place[d]
  BY <1>1 DEF ChatTypes
<1>4. ChatTypes'
  BY <1>1, <1>2, <1>3 DEF ChatTypes, ServerSame
<1>5. Conn(c)'
  BY <1>1, <1>2, <1>3 DEF Conn, Connected, ServerSame
<1> QED
  BY <1>2, <1>3, <1>4, <1>5, ClientStep

\* When the server waits, a client whose user is to type is ready.
LEMMA TurnFacts ==
  ASSUME ChatInv, NEW c \in Client, Turn(c)
  PROVE  /\ place[c] = "type" /\ ~apart[c] /\ c2s[c] = <<>>
         /\ Connected(c) => Ready(c)
<1>1. place[c] = "type" /\ ~apart[c] /\ c2s[c] = <<>>
  BY DEF Turn, ServerWaits
<1> QED
  BY <1>1 DEF ChatInv, Alive, Phase

LEMMA TypeKeeps ==
  ASSUME ChatInv, NEW c \in Client, Type(c)
  PROVE  ChatInv'
<1>1. /\ ChatTypes /\ Conn(c) /\ place[c] = "type" /\ ~apart[c] /\ c2s[c] = <<>>
      /\ Connected(c) => Ready(c)
  BY TurnFacts DEF Type, ChatInv
<1>2. PICK bytes : /\ Put(c, bytes)
                   /\ \/ bytes = <<NL>> /\ apart' = apart
                      \/ /\ status[c] # "UPLOAD_IMAGE"
                         /\ \E line \in Lines[c] :
                              /\ bytes = <<line, NL>>
                              /\ apart' = [apart EXCEPT ![c] =
                                             status[c] = "SEND_MESSAGE" /\ line = "Exited send message mode"]
  BY DEF Type
<1>3. place' = [place EXCEPT ![c] = "await"] /\ status' = status /\ sent' = sent /\ shared' = shared
  BY DEF Type
<1>4. bytes \in Seq(Word)
  <2>1. <<NL>> \in Seq(Word) /\ \A w \in Word : <<w, NL>> \in Seq(Word)
    BY WordFacts
  <2>2. Lines[c] \subseteq Word
    BY WordFacts
  <2> QED
    BY <1>2, <2>1, <2>2
<1>5. apart' \in [Client -> BOOLEAN] /\ \A d \in Client \ {c} : apart'[d] = apart[d]
  BY <1>1, <1>2 DEF ChatTypes
<1>6. ~apart'[c] => Typed(c, bytes)
  BY <1>1, <1>2 DEF ChatTypes, Typed
<1>7. ServerSame /\ s2c' = s2c /\ c2s'[c] = IF Connected(c) THEN c2s[c] \o bytes ELSE <<>>
  BY <1>2, <1>4, PutFacts
<1>8. ASSUME Alive(c)'
      PROVE  Phase(c)'
  <2>1. Connected(c) /\ ~apart'[c] /\ Ready(c) /\ place'[c] = "await"
    BY <1>1, <1>3, <1>7, <1>8 DEF Alive, Connected, ServerSame, ChatTypes
  <2>2. c2s'[c] = bytes
    BY <1>1, <1>4, <1>7, <2>1, Joined
  <2>3. Typed(c, c2s[c])'
    BY <1>3, <1>6, <2>1, <2>2 DEF Typed
  <2>4. s2c'[c] = <<>> /\ Agree(c)' /\ NoImage(c)'
    BY <1>3, <1>7, <2>1 DEF Ready, Agree, NoImage, ServerSame
  <2> QED
    BY <2>1, <2>3, <2>4 DEF Phase, Asked
<1> QED
  BY <1>1, <1>2, <1>3, <1>4, <1>5, <1>8, SendKeeps DEF ChatTypes, Conn

LEMMA SendNameKeeps ==
  ASSUME ChatInv, NEW c \in Client, SendName(c)
  PROVE  ChatInv'
<1>1. /\ ChatTypes /\ Conn(c) /\ place[c] = "type" /\ ~apart[c] /\ c2s[c] = <<>>
      /\ Connected(c) => Ready(c)
  BY TurnFacts DEF SendName, ChatInv
<1>2. PICK name \in FileNames[c] : Put(c, <<name, NL>>)
  BY DEF SendName
<1>3. /\ place' = [place EXCEPT ![c] = "body"] /\ sent' = [sent EXCEPT ![c] = <<>>]
      /\ status[c] = "UPLOAD_IMAGE" /\ status' = status /\ apart' = apart /\ shared' = shared
  BY DEF SendName, historyVars
<1>4. <<name, NL>> \in Seq(Word) /\ Len(<<>>) <= MaxFile[c] /\ <<>> \in Seq(Word)
  BY WordFacts, Joined
<1>5. sent' \in [Client -> Seq(Word)] /\ sent'[c] = <<>> /\ \A d \in Client \ {c} : sent'[d] = sent[d]
  BY <1>1, <1>3, <1>4 DEF ChatTypes
<1>6. ServerSame /\ s2c' = s2c /\ c2s'[c] = IF Connected(c) THEN c2s[c] \o <<name, NL>> ELSE <<>>
  BY <1>2, <1>4, PutFacts
<1>7. ASSUME Alive(c)'
      PROVE  Phase(c)'
  <2>1. Connected(c) /\ Ready(c) /\ place'[c] = "body"
    BY <1>1, <1>3, <1>6, <1>7 DEF Alive, Connected, ServerSame, ChatTypes
  <2>2. c2s'[c] = <<name, NL>>
    BY <1>1, <1>4, <1>6, <2>1, Joined
  <2>3. clientStatus[c] = UPLOAD_IMAGE
    BY <1>1, <1>3, <2>1, AgreeStates DEF Ready
  <2>4. Uploads(c)' /\ NoImage(c)'
    BY <1>3, <1>6, <2>1, <2>3 DEF Uploads, Ready, NoImage, ServerSame
  <2> QED
    BY <1>2, <1>5, <2>1, <2>2, <2>4 DEF Phase, Named
<1> QED
  BY <1>1, <1>2, <1>3, <1>4, <1>5, <1>7, SendKeeps DEF ChatTypes


LEMMA ChunkFacts ==
  ASSUME NEW chunk \in Chunks
  PROVE  chunk \in Seq(Word)
BY ChatAssumption

LEMMA SendChunkKeeps ==
  ASSUME ChatInv, NEW c \in Client, SendChunk(c)
  PROVE  ChatInv'
<1>1. ChatTypes /\ Conn(c) /\ c2s[c] \in Seq(Word) /\ sent[c] \in Seq(Word)
  BY DEF ChatInv, ChatTypes
<1>2. PICK chunk \in Chunks : /\ Len(sent[c]) + Len(chunk) <= MaxFile[c] /\ Put(c, chunk)
                              /\ sent' = [sent EXCEPT ![c] = sent[c] \o chunk]
  BY DEF SendChunk
<1>3. /\ place[c] = "body" /\ (sent[c] = <<>> => c2s[c] = <<>>)
      /\ place' = place /\ status' = status /\ apart' = apart /\ shared' = shared
  BY DEF SendChunk, ServerWaits, historyVars
<1>4. chunk \in Seq(Word)
  BY ChunkFacts
<1>5. sent[c] \o chunk \in Seq(Word) /\ Len(sent[c] \o chunk) <= MaxFile[c]
  BY <1>1, <1>2, <1>4, Joined
<1>6. sent' \in [Client -> Seq(Word)] /\ sent'[c] = sent[c] \o chunk /\ \A d \in Client \ {c} : sent'[d] = sent[d]
  BY <1>1, <1>2, <1>5 DEF ChatTypes
<1>7. ServerSame /\ s2c' = s2c /\ c2s'[c] = IF Connected(c) THEN c2s[c] \o chunk ELSE <<>>
  BY <1>2, <1>4, PutFacts
<1>8. ASSUME Alive(c)'
      PROVE  Phase(c)'
  <2>1. Alive(c) /\ Connected(c)
    BY <1>3, <1>7, <1>8 DEF Alive, Connected, ServerSame
  <2>2. Named(c) \/ Sending(c)
    BY <1>3, <2>1 DEF ChatInv, Phase
  <2>3. Sending(c)
    <3>1. \A name : <<name, NL>> # <<>>
      OBVIOUS
    <3>2. Named(c) => sent[c] = <<>> /\ \E name \in FileNames[c] : c2s[c] = <<name, NL>>
      BY DEF Named
    <3> QED
      BY <1>3, <2>2, <3>1, <3>2
  <2>4. Uploads(c)' /\ image'[c] # <<>>
    BY <1>3, <1>7, <2>3 DEF Sending, Uploads, ServerSame
  <2>5. ASSUME ~shared[c]
        PROVE  OwnPath(c)' /\ images[image[c]] \in Seq(Word) /\ images[image[c]] \o c2s'[c] = sent'[c]
    <3>1. OwnPath(c) /\ images[image[c]] \in Seq(Word) /\ images[image[c]] \o c2s[c] = sent[c]
      BY <2>3, <2>5 DEF Sending, Holds
    <3>2. images[image[c]] \o (c2s[c] \o chunk) = (images[image[c]] \o c2s[c]) \o chunk
      BY <1>1, <1>4, <3>1, Joined
    <3> QED
      BY <1>6, <1>7, <2>1, <3>1, <3>2 DEF OwnPath, ServerSame
  <2>6. Holds(c, sent[c])'
    BY <1>3, <1>7, <2>5 DEF Holds, ServerSame
  <2> QED
    BY <1>3, <2>4, <2>6 DEF Phase, Sending
<1>9. place' = [place EXCEPT ![c] = "body"]
  BY <1>1, <1>3 DEF ChatTypes
<1> QED
  BY <1>1, <1>2, <1>3, <1>4, <1>5, <1>6, <1>8, <1>9, SendKeeps DEF ChatTypes

LEMMA SendEndKeeps ==
  ASSUME ChatInv, NEW c \in Client, SendEnd(c)
  PROVE  ChatInv'
<1>1. ChatTypes /\ Conn(c)
  BY DEF ChatInv
<1>2. /\ Put(c, <<NUL>>) /\ place[c] = "body" /\ place' = [place EXCEPT ![c] = "await"] /\ c2s[c] = <<>>
      /\ status' = status /\ sent' = sent /\ apart' = apart /\ shared' = shared
  BY DEF SendEnd, ServerWaits, historyVars
<1>3. <<NUL>> \in Seq(Word)
  BY WordFacts
<1>4. ServerSame /\ s2c' = s2c /\ c2s'[c] = IF Connected(c) THEN c2s[c] \o <<NUL>> ELSE <<>>
  BY <1>2, <1>3, PutFacts
<1>5. ASSUME Alive(c)'
      PROVE  Phase(c)'
  <2>1. Alive(c) /\ Connected(c) /\ place'[c] = "await"
    BY <1>1, <1>2, <1>4, <1>5 DEF Alive, Connected, ServerSame, ChatTypes
  <2>2. Named(c) \/ Sending(c)
    BY <1>2, <2>1 DEF ChatInv, Phase
  <2>3. Sending(c)
    BY <1>2, <2>2 DEF Named
  <2>4. c2s'[c] = <<NUL>>
    BY <1>2, <1>3, <1>4, <2>1, Joined
  <2>5. Uploads(c)' /\ image'[c] # <<>>
    BY <1>2, <1>4, <2>3 DEF Sending, Uploads, ServerSame
  <2>6. ASSUME ~shared[c]
        PROVE  OwnPath(c)' /\ images[image[c]] = sent[c]
    <3>1. OwnPath(c) /\ images[image[c]] \in Seq(Word) /\ images[image[c]] \o c2s[c] = sent[c]
      BY <2>3, <2>6 DEF Sending, Holds
    <3>2. images[image[c]] \o <<>> = images[image[c]]
      BY <3>1, Joined
    <3> QED
      BY <1>2, <1>4, <3>1, <3>2 DEF OwnPath, ServerSame
  <2> QED
    BY <1>2, <1>4, <2>1, <2>4, <2>5, <2>6 DEF Phase, Ended, ServerSame
<1> QED
  BY <1>1, <1>2, <1>3, <1>5, SendKeeps DEF ChatTypes, Conn

LEMMA GoneKeeps ==
  ASSUME ChatInv, NEW c \in Client, Gone(c)
  PROVE  ChatInv'
<1>1. ChatTypes /\ Conn(c)
  BY DEF ChatInv
<1>2. /\ place' = [place EXCEPT ![c] = "off"] /\ status' = [status EXCEPT ![c] = "NOT_SIGNED_IN"]
      /\ sent' = [sent EXCEPT ![c] = <<>>] /\ apart' = [apart EXCEPT ![c] = FALSE]
      /\ shared' = [shared EXCEPT ![c] = FALSE]
      /\ s2c' = [s2c EXCEPT ![c] = <<>>] /\ hungUp' = [hungUp EXCEPT ![c] = Connected(c)]
      /\ c2s' = c2s
  BY DEF Gone
<1>3. ServerSame
  BY DEF Gone, ServerSame, entryVars, imageVars
<1>4. "NOT_SIGNED_IN" \in ClientStates /\ <<>> \in Seq(Word) /\ Len(<<>>) <= MaxFile[c]
  BY WordFacts, Joined DEF ClientStates
<1>5. ChatTypes'
  <2>1. place' \in [Client -> {"off", "type", "body", "await"}] /\ status' \in [Client -> ClientStates]
    BY <1>1, <1>2, <1>4 DEF ChatTypes
  <2>2. sent' \in [Client -> Seq(Word)] /\ DOMAIN s2c' = Client
    BY <1>1, <1>2, <1>4 DEF ChatTypes
  <2>3. apart' \in [Client -> BOOLEAN] /\ shared' \in [Client -> BOOLEAN]
    BY <1>1, <1>2 DEF ChatTypes
  <2>4. hungUp' \in [Client -> BOOLEAN]
    BY <1>1, <1>2 DEF ChatTypes, Connected
  <2> QED
    BY <1>1, <1>2, <1>3, <2>1, <2>2, <2>3, <2>4 DEF ChatTypes, ServerSame
<1>6. /\ place'[c] = "off" /\ status'[c] = "NOT_SIGNED_IN" /\ sent'[c] = <<>> /\ apart'[c] = FALSE
      /\ s2c'[c] = <<>> /\ hungUp'[c] = Connected(c)
  BY <1>1, <1>2 DEF ChatTypes
<1>7. Conn(c)'
  BY <1>1, <1>2, <1>3, <1>4, <1>6 DEF Conn, Connected, ServerSame
<1>8. ~Alive(c)'
  BY <1>6 DEF Alive
<1>9. \A d \in Client \ {c} :
           /\ c2s'[d] = c2s[d] /\ s2c'[d] = s2c[d] /\ hungUp'[d] = hungUp[d]
           /\ place'[d] = place[d] /\ status'[d] = status[d] /\ sent'[d] = sent[d]
           /\ apart'[d] = apart[d] /\ shared'[d] = shared[d]
  BY <1>1, <1>2 DEF ChatTypes
<1> QED
  BY <1>3, <1>5, <1>7, <1>8, <1>9, ClientStep

LEMMA RecvReplyKeeps ==
  ASSUME ChatInv, NEW c \in Client, RecvReply(c)
  PROVE  ChatInv'
<1>1. CASE Gone(c)
  BY <1>1, GoneKeeps
<1>2. CASE ~Gone(c)
  <2>1. ChatTypes /\ Conn(c)
    BY DEF ChatInv
  <2>2. /\ place[c] = "await" /\ s2c[c] # <<>> /\ ~Goodbye(c)
        /\ status' = [status EXCEPT ![c] = Follow(status[c], s2c[c])]
        /\ s2c' = [s2c EXCEPT ![c] = <<>>] /\ place' = [place EXCEPT ![c] = "type"]
        /\ sent' = [sent EXCEPT ![c] = <<>>]
        /\ c2s' = c2s /\ hungUp' = hungUp /\ apart' = apart /\ shared' = shared
    BY <1>2 DEF RecvReply, Goodbye, historyVars
  <2>3. ServerSame
    BY <1>2 DEF RecvReply, ServerSame, entryVars, imageVars
  <2>4. Follow(status[c], s2c[c]) \in ClientStates /\ <<>> \in Seq(Word) /\ Len(<<>>) <= MaxFile[c]
    BY <2>1, FollowStates, Joined, WordFacts DEF ChatTypes
  <2>5. ChatTypes'
    <3>1. place' \in [Client -> {"off", "type", "body", "await"}]
      BY <2>1, <2>2 DEF ChatTypes
    <3>2. sent' \in [Client -> Seq(Word)] /\ DOMAIN s2c' = Client /\ status' \in [Client -> ClientStates]
      BY <2>1, <2>2, <2>4 DEF ChatTypes
    <3> QED
      BY <2>1, <2>2, <2>3, <3>1, <3>2 DEF ChatTypes, ServerSame
  <2>6. /\ place'[c] = "type" /\ status'[c] = Follow(status[c], s2c[c]) /\ sent'[c] = <<>> /\ s2c'[c] = <<>>
    BY <2>1, <2>2 DEF ChatTypes
  <2>7. Conn(c)'
    BY <2>1, <2>2, <2>3, <2>4, <2>6 DEF Conn, Connected, ServerSame
  <2>8. ASSUME Alive(c)'
        PROVE  Phase(c)'
    <3>1. Alive(c)
      BY <2>2, <2>3, <2>8 DEF Alive, Connected, ServerSame
    <3>2. Replied(c)
      BY <2>2, <3>1 DEF ChatInv, Phase, Asked, Ended, Uploads
    <3>3. Ready(c)'
      BY <2>2, <2>3, <2>6, <3>2 DEF Ready, Replied, Agree, NoImage, ServerSame
    <3> QED
      BY <2>6, <3>3 DEF Phase
  <2>9. \A d \in Client \ {c} :
           /\ c2s'[d] = c2s[d] /\ s2c'[d] = s2c[d] /\ hungUp'[d] = hungUp[d]
           /\ place'[d] = place[d] /\ status'[d] = status[d] /\ sent'[d] = sent[d]
           /\ apart'[d] = apart[d] /\ shared'[d] = shared[d]
    BY <2>1, <2>2 DEF ChatTypes
  <2> QED
    BY <2>3, <2>5, <2>7, <2>8, <2>9, ClientStep
<1> QED
  BY <1>1, <1>2


-----------------------------------------------------------------------------
(***************************************************************************)
(* The server.                                                             *)
(***************************************************************************)

LEMMA StartKeeps ==
  ASSUME ChatInv, Start
  PROVE  ChatInv'
<1>1. /\ up' = TRUE /\ is_signed_in' = is_signed_in /\ clientStatus' = clientStatus /\ username' = username
      /\ image' = image /\ images' = images /\ c2s' = c2s /\ s2c' = s2c /\ hungUp' = hungUp
      /\ place' = place /\ status' = status /\ sent' = sent /\ apart' = apart /\ shared' = shared
  BY DEF Start, entryVars, imageVars, netVars, clientVars, historyVars
<1>2. ChatTypes'
  BY <1>1 DEF ChatInv, ChatTypes
<1>3. \A c \in Client : Untouched(c) /\ MarksKept(c) /\ FileKept(c)
  BY <1>1 DEF Untouched, MarksKept, FileKept
<1>4. \A c \in Client : Conn(c)'
  BY <1>1 DEF ChatInv, Conn, Connected
<1>5. \A c \in Client : Session(c)' /\ (Alive(c)' => Phase(c)')
  BY <1>3, SessionFrame, PhaseFrame DEF ChatInv
<1>6. OneSession'
  BY <1>1 DEF ChatInv, OneSession, InSession
<1> QED
  BY <1>2, <1>4, <1>5, <1>6 DEF ChatInv

LEMMA DieKeeps ==
  ASSUME ChatInv, Die
  PROVE  ChatInv'
<1>1. ChatTypes /\ \A c \in Client : Conn(c)
  BY DEF ChatInv
<1>2. /\ up' = FALSE /\ is_signed_in' = {}
      /\ clientStatus' = [c \in Client |-> NoStatus] /\ username' = [c \in Client |-> <<>>]
      /\ image' = [c \in Client |-> <<>>] /\ images' = <<>>
      /\ c2s' = [c \in Client |-> <<>>] /\ hungUp' = [c \in Client |-> FALSE]
      /\ s2c' = s2c /\ place' = place /\ status' = status /\ sent' = sent /\ apart' = apart /\ shared' = shared
  BY DEF Die, clientVars, historyVars
<1>3. DOMAIN images' = {image'[c] : c \in Client} \ {<<>>}
  BY <1>2
<1>4. c2s' \in [Client -> Seq(Word)]
  BY <1>2, Joined
<1>5. ChatTypes'
  BY <1>1, <1>2, <1>3, <1>4 DEF ChatTypes
<1>6. \A c \in Client : ~Connected(c)' /\ ~InSession(c)'
  BY <1>2, Distinct DEF Connected, InSession
<1>7. ASSUME NEW c \in Client
      PROVE  Conn(c)'
  BY <1>1, <1>2, <1>6 DEF Conn
<1>8. \A c \in Client : Session(c)' /\ ~Alive(c)'
  BY <1>6 DEF Session, Alive
<1>9. OneSession'
  BY <1>6 DEF OneSession
<1> QED
  BY <1>5, <1>7, <1>8, <1>9 DEF ChatInv

LEMMA CloseKeeps ==
  ASSUME ChatInv, NEW c \in Client, RecvEnds(c)
  PROVE  ChatInv'
<1>1. ChatTypes /\ Conn(c)
  BY DEF ChatInv
<1>2. /\ hungUp[c] /\ clientStatus' = [clientStatus EXCEPT ![c] = NoStatus]
      /\ username' = [username EXCEPT ![c] = <<>>] /\ image' = [image EXCEPT ![c] = <<>>] /\ Keep(images)
      /\ c2s' = [c2s EXCEPT ![c] = <<>>] /\ hungUp' = [hungUp EXCEPT ![c] = FALSE]
      /\ up' = up /\ is_signed_in' = is_signed_in /\ s2c' = s2c
      /\ place' = place /\ status' = status /\ sent' = sent /\ apart' = apart /\ shared' = shared
  BY DEF RecvEnds, Close, clientVars, historyVars
<1>3. ChatTypes'
  <2>1. DOMAIN images' = {image'[d] : d \in Client} \ {<<>>}
    BY <1>2, KeepFacts
  <2>2. c2s' \in [Client -> Seq(Word)] /\ hungUp' \in [Client -> BOOLEAN]
    BY <1>1, <1>2, Joined DEF ChatTypes
  <2>3. clientStatus' \in [Client -> {NoStatus, USERNAME_REQUIRED, PASSWORD_REQUIRED,
                               VALID_CREDENTIALS, SEND_MESSAGE, UPLOAD_IMAGE}]
    BY <1>1, <1>2 DEF ChatTypes
  <2> QED
    BY <1>1, <1>2, <2>1, <2>2, <2>3 DEF ChatTypes
<1>4. ASSUME NEW d \in Client \ {c}
      PROVE  Untouched(d) /\ MarksKept(d) /\ FileKept(d)
  <2>1. Untouched(d)
    BY <1>1, <1>2 DEF Untouched, ChatTypes
  <2>2. FileKept(d)
    BY <1>2, <2>1, FilesKept DEF Untouched
  <2> QED
    BY <1>2, <2>1, <2>2 DEF MarksKept
<1>5. /\ clientStatus'[c] = NoStatus /\ username'[c] = <<>> /\ image'[c] = <<>> /\ c2s'[c] = <<>> /\ ~hungUp'[c]
  BY <1>1, <1>2 DEF ChatTypes
<1>6. ~Connected(c)' /\ ~InSession(c)'
  BY <1>5, Distinct DEF Connected, InSession
<1>7. Conn(c)'
  BY <1>1, <1>2, <1>5, <1>6 DEF Conn
<1>8. Session(c)' /\ Fresh(c) /\ ~Alive(c)'
  BY <1>6 DEF Session, Fresh, Alive
<1> QED
  BY <1>2, <1>3, <1>4, <1>7, <1>8, StepOfOne

\* What a handler that replies does to its connection and to no other.
LEMMA ReplyFacts ==
  ASSUME ChatInv, NEW c \in Client, NEW s, NEW text, Reply(c, s, text), clientStatus[c] # NoStatus
  PROVE  /\ clientStatus'[c] = s /\ c2s'[c] = <<>> /\ hungUp' = hungUp /\ up' = up
         /\ place' = place /\ status' = status /\ sent' = sent
         /\ c2s' \in [Client -> Seq(Word)] /\ DOMAIN s2c' = Client
         /\ (hungUp[c] => s2c' = s2c) /\ (~hungUp[c] => s2c'[c] = s2c[c] \o text)
         /\ clientStatus' = [clientStatus EXCEPT ![c] = s]
         /\ \A d \in Client \ {c} : clientStatus'[d] = clientStatus[d] /\ c2s'[d] = c2s[d] /\ s2c'[d] = s2c[d]
<1>1. ChatTypes
  BY DEF ChatInv
<1>2. /\ clientStatus' = [clientStatus EXCEPT ![c] = s] /\ c2s' = [c2s EXCEPT ![c] = <<>>]
      /\ s2c' = IF hungUp[c] THEN s2c ELSE [s2c EXCEPT ![c] = s2c[c] \o text]
      /\ up' = up /\ hungUp' = hungUp /\ place' = place /\ status' = status /\ sent' = sent
  BY DEF Reply, clientVars
<1>3. c2s' \in [Client -> Seq(Word)] /\ c2s'[c] = <<>>
  BY <1>1, <1>2, Joined DEF ChatTypes
<1>4. clientStatus'[c] = s /\ DOMAIN s2c' = Client
  BY <1>1, <1>2 DEF ChatTypes
<1>5. (hungUp[c] => s2c' = s2c) /\ (~hungUp[c] => s2c'[c] = s2c[c] \o text)
  BY <1>1, <1>2 DEF ChatTypes
<1>6. \A d \in Client \ {c} : clientStatus'[d] = clientStatus[d] /\ c2s'[d] = c2s[d] /\ s2c'[d] = s2c[d]
  BY <1>1, <1>2 DEF ChatTypes
<1> QED
  BY <1>2, <1>3, <1>4, <1>5, <1>6

\* A handler that replies: what is left to show of it.
LEMMA HandlerStep ==
  ASSUME ChatInv, NEW c \in Client,
         NEW s \in {USERNAME_REQUIRED, PASSWORD_REQUIRED, VALID_CREDENTIALS, SEND_MESSAGE, UPLOAD_IMAGE},
         NEW text, Reply(c, s, text), clientStatus[c] # NoStatus,
         is_signed_in' \subseteq Names,
         DOMAIN username' = Client, \A d \in Client \ {c} : username'[d] = username[d],
         DOMAIN image' = Client, \A d \in Client \ {c} : image'[d] = image[d],
         DOMAIN images' = {image'[d] : d \in Client} \ {<<>>},
         apart' \in [Client -> BOOLEAN], \A d \in Client \ {c} : apart'[d] = apart[d],
         place[c] = "off" => ~apart'[c],
         shared' \in [Client -> BOOLEAN], \A d \in Client : shared[d] => shared'[d],
         \A d \in Client \ {c} : MarksKept(d) /\ FileKept(d),
         Session(c)', Fresh(c), Alive(c)' => Phase(c)'
  PROVE  ChatInv'
<1>1. ChatTypes /\ Conn(c)
  BY DEF ChatInv
<1>2. /\ clientStatus'[c] = s /\ c2s'[c] = <<>> /\ hungUp' = hungUp /\ up' = up
      /\ place' = place /\ status' = status /\ sent' = sent
      /\ c2s' \in [Client -> Seq(Word)] /\ DOMAIN s2c' = Client
      /\ (hungUp[c] => s2c' = s2c) /\ clientStatus' = [clientStatus EXCEPT ![c] = s]
      /\ \A d \in Client \ {c} : clientStatus'[d] = clientStatus[d] /\ c2s'[d] = c2s[d] /\ s2c'[d] = s2c[d]
  BY ReplyFacts
<1>3. ChatTypes'
  BY <1>1, <1>2 DEF ChatTypes
<1>4. \A d \in Client \ {c} : Untouched(d) /\ MarksKept(d) /\ FileKept(d)
  BY <1>2 DEF Untouched
<1>5. Connected(c) /\ Connected(c)'
  BY <1>2, Distinct DEF Connected
<1>6. Conn(c)'
  BY <1>1, <1>2, <1>5 DEF Conn
<1> QED
  BY <1>2, <1>3, <1>4, <1>6, StepOfOne


\* In the first four states the server finds a line that was typed.
LEMMA AskedOnly ==
  ASSUME ChatInv, NEW c \in Client, Alive(c), c2s[c] # <<>>, clientStatus[c] # UPLOAD_IMAGE
  PROVE  place[c] = "await" /\ Asked(c)
<1>1. Phase(c)
  BY DEF ChatInv
<1> QED
  BY <1>1 DEF Phase, Ready, Replied, Ended, Named, Sending, Uploads

\* The client will be in step once it has read the reply.
LEMMA ReplyPhase ==
  ASSUME ChatInv, NEW c \in Client, NEW s, NEW t, Reply(c, s, <<t>>), clientStatus[c] # NoStatus,
         Alive(c), place[c] = "await", s2c[c] = <<>>, NoImage(c)',
         s \in StatesOf(Follow(status[c], <<t>>)) \/ (status[c] = "NOT_SIGNED_IN" /\ t = "goodbye")
  PROVE  Phase(c)'
<1>1. /\ clientStatus'[c] = s /\ c2s'[c] = <<>> /\ place' = place /\ status' = status
      /\ (~hungUp[c] => s2c'[c] = s2c[c] \o <<t>>)
  BY ReplyFacts
<1>2. ~hungUp[c]
  BY DEF ChatInv, Conn, Alive
<1>3. <<>> \o <<t>> = <<t>>
  OBVIOUS
<1>4. s2c'[c] = <<t>>
  BY <1>1, <1>2, <1>3
<1>5. Replied(c)'
  BY <1>1, <1>4 DEF Replied, Goodbye
<1> QED
  BY <1>1, <1>5 DEF Phase

LEMMA AliveBefore ==
  ASSUME ChatInv, NEW c \in Client, clientStatus[c] # NoStatus, place' = place, apart[c] => apart'[c], Alive(c)'
  PROVE  Alive(c)
BY DEF Alive, Connected

\* A handler that only looks at the line it was sent.
LEMMA LineStep ==
  ASSUME ChatInv, NEW c \in Client,
         NEW s \in {USERNAME_REQUIRED, PASSWORD_REQUIRED, VALID_CREDENTIALS, SEND_MESSAGE, UPLOAD_IMAGE},
         NEW text, Reply(c, s, text), clientStatus[c] # NoStatus,
         is_signed_in' \subseteq Names,
         DOMAIN username' = Client, \A d \in Client \ {c} : username'[d] = username[d] /\ MarksKept(d),
         image' = image, images' = images, apart' = apart, shared' = shared,
         Session(c)', Fresh(c), Alive(c) => Phase(c)'
  PROVE  ChatInv'
<1>1. ChatTypes /\ Conn(c)
  BY DEF ChatInv
<1>2. place' = place
  BY ReplyFacts
<1>3. \A d \in Client \ {c} : MarksKept(d) /\ FileKept(d)
  BY DEF FileKept
<1>4. Alive(c)' => Phase(c)'
  BY <1>2, AliveBefore
<1>5. /\ DOMAIN image' = Client /\ DOMAIN images' = {image'[d] : d \in Client} \ {<<>>}
      /\ apart' \in [Client -> BOOLEAN] /\ shared' \in [Client -> BOOLEAN]
      /\ (place[c] = "off" => ~apart'[c])
  BY <1>1 DEF ChatTypes, Conn
<1> QED
  BY <1>3, <1>4, <1>5, HandlerStep

LEMMA SameMarks ==
  ASSUME is_signed_in' = is_signed_in, NEW d
  PROVE  MarksKept(d)
BY DEF MarksKept

LEMMA EnterUsernameKeeps ==
  ASSUME ChatInv, NEW c \in Client, EnterUsername(c)
  PROVE  ChatInv'
<1>1. ChatTypes /\ Conn(c)
  BY DEF ChatInv
<1>2. /\ clientStatus[c] = USERNAME_REQUIRED /\ c2s[c] # <<>>
      /\ is_signed_in' = is_signed_in /\ image' = image /\ images' = images /\ apart' = apart /\ shared' = shared
  BY DEF EnterUsername, Recv, imageVars, historyVars
<1>3. PICK s \in {USERNAME_REQUIRED, PASSWORD_REQUIRED}, t \in {"goodbye", Other} :
        /\ Reply(c, s, <<t>>)
        /\ (s = USERNAME_REQUIRED /\ t = "goodbye") \/ (s = PASSWORD_REQUIRED /\ t = Other)
        /\ DOMAIN username' = Client /\ \A d \in Client \ {c} : username'[d] = username[d]
  BY <1>1 DEF EnterUsername, ChatTypes
<1>4. clientStatus[c] # NoStatus
  BY <1>2, Distinct
<1>5. clientStatus'[c] = s
  BY <1>3, <1>4, ReplyFacts
<1>6. ~InSession(c)'
  BY <1>5, Distinct DEF InSession
<1>7. Session(c)' /\ Fresh(c)
  BY <1>6 DEF Session, Fresh
<1>8. ASSUME Alive(c)
      PROVE  Phase(c)'
  <2>1. place[c] = "await" /\ Asked(c)
    BY <1>2, <1>8, AskedOnly, Distinct
  <2>2. status[c] = "NOT_SIGNED_IN" /\ s2c[c] = <<>> /\ NoImage(c)'
    BY <1>1, <1>2, <2>1, AgreeStates DEF Asked, NoImage
  <2>3. CASE s = USERNAME_REQUIRED /\ t = "goodbye"
    BY <1>3, <1>4, <1>8, <2>1, <2>2, <2>3, ReplyPhase
  <2>4. CASE s = PASSWORD_REQUIRED /\ t = Other
    <3>1. s \in StatesOf(Follow(status[c], <<t>>))
      BY <2>2, <2>4, Replies, States
    <3> QED
      BY <1>3, <1>4, <1>8, <2>1, <2>2, <3>1, ReplyPhase
  <2> QED
    BY <1>3, <2>3, <2>4
<1>9. \A d \in Client \ {c} : MarksKept(d)
  BY <1>2, SameMarks
<1> QED
  BY <1>1, <1>2, <1>3, <1>4, <1>7, <1>8, <1>9, LineStep DEF ChatTypes

LEMMA SignInKeeps ==
  ASSUME ChatInv, NEW c \in Client, SignIn(c)
  PROVE  ChatInv'
<1>1. ChatTypes /\ Conn(c)
  BY DEF ChatInv
<1>2. /\ clientStatus[c] = PASSWORD_REQUIRED /\ c2s[c] # <<>> /\ Reply(c, VALID_CREDENTIALS, <<"welcome">>)
      /\ username' = username /\ image' = image /\ images' = images /\ apart' = apart /\ shared' = shared
  BY DEF SignIn, Recv, imageVars, historyVars
<1>3. PICK n \in Names \ is_signed_in : username[c] = <<n>> /\ is_signed_in' = is_signed_in \cup {n}
  BY DEF SignIn, Found
<1>4. clientStatus[c] # NoStatus
  BY <1>2, Distinct
<1>5. Session(c)'
  BY <1>2, <1>3 DEF Session
<1>6. ASSUME NEW d \in Client, InSession(d)
      PROVE  username[d] # username'[c]
  <2>1. PICK m \in is_signed_in : username[d] = <<m>>
    BY <1>6 DEF ChatInv, Session
  <2>2. m # n
    BY <1>3
  <2>3. <<m>> # <<n>>
    BY <2>2
  <2> QED
    BY <1>2, <1>3, <2>1, <2>3
<1>7. Fresh(c)
  BY <1>6 DEF Fresh
<1>8. \A d \in Client \ {c} : username'[d] = username[d] /\ MarksKept(d)
  BY <1>2, <1>3 DEF MarksKept
<1>9. ASSUME Alive(c)
      PROVE  Phase(c)'
  <2>1. place[c] = "await" /\ Asked(c)
    BY <1>2, <1>9, AskedOnly, Distinct
  <2>2. status[c] = "NOT_SIGNED_IN" /\ s2c[c] = <<>> /\ NoImage(c)'
    BY <1>1, <1>2, <2>1, AgreeStates DEF Asked, NoImage
  <2>3. VALID_CREDENTIALS \in StatesOf(Follow(status[c], <<"welcome">>))
    BY <2>2, Replies, States
  <2> QED
    BY <1>2, <1>4, <1>9, <2>1, <2>2, <2>3, ReplyPhase
<1> QED
  BY <1>1, <1>2, <1>3, <1>4, <1>5, <1>7, <1>8, <1>9, LineStep DEF ChatTypes

LEMMA RefuseKeeps ==
  ASSUME ChatInv, NEW c \in Client, Refuse(c)
  PROVE  ChatInv'
<1>1. ChatTypes /\ Conn(c)
  BY DEF ChatInv
<1>2. /\ clientStatus[c] = PASSWORD_REQUIRED /\ c2s[c] # <<>> /\ Reply(c, USERNAME_REQUIRED, <<Other>>)
      /\ username' = [username EXCEPT ![c] = <<>>] /\ is_signed_in' = is_signed_in
      /\ image' = image /\ images' = images /\ apart' = apart /\ shared' = shared
  BY DEF Refuse, Recv, imageVars, historyVars
<1>3. clientStatus[c] # NoStatus
  BY <1>2, Distinct
<1>4. ~InSession(c)'
  BY <1>2, <1>3, ReplyFacts, Distinct DEF InSession
<1>5. Session(c)' /\ Fresh(c)
  BY <1>4 DEF Session, Fresh
<1>6. DOMAIN username' = Client /\ \A d \in Client \ {c} : username'[d] = username[d] /\ MarksKept(d)
  BY <1>1, <1>2, SameMarks DEF ChatTypes
<1>7. ASSUME Alive(c)
      PROVE  Phase(c)'
  <2>1. place[c] = "await" /\ Asked(c)
    BY <1>2, <1>7, AskedOnly, Distinct
  <2>2. status[c] = "NOT_SIGNED_IN" /\ s2c[c] = <<>> /\ NoImage(c)'
    BY <1>1, <1>2, <2>1, AgreeStates DEF Asked, NoImage
  <2>3. USERNAME_REQUIRED \in StatesOf(Follow(status[c], <<Other>>))
    BY <2>2, Replies, States
  <2> QED
    BY <1>2, <1>3, <1>7, <2>1, <2>2, <2>3, ReplyPhase
<1> QED
  BY <1>1, <1>2, <1>3, <1>5, <1>6, <1>7, LineStep DEF ChatTypes

LEMMA SignOutKeeps ==
  ASSUME ChatInv, NEW c \in Client, SignOut(c)
  PROVE  ChatInv'
<1>1. ChatTypes /\ Conn(c)
  BY DEF ChatInv
<1>2. /\ clientStatus[c] = VALID_CREDENTIALS /\ c2s[c] # <<>> /\ Reply(c, USERNAME_REQUIRED, <<"signed out">>)
      /\ username' = [username EXCEPT ![c] = <<>>] /\ is_signed_in' = is_signed_in \ Found(username[c])
      /\ image' = image /\ images' = images /\ apart' = apart /\ shared' = shared
  BY DEF SignOut, Recv, imageVars, historyVars
<1>3. clientStatus[c] # NoStatus
  BY <1>2, Distinct
<1>4. ~InSession(c)'
  BY <1>2, <1>3, ReplyFacts, Distinct DEF InSession
<1>5. Session(c)' /\ Fresh(c)
  BY <1>4 DEF Session, Fresh
<1>6. ASSUME NEW d \in Client \ {c}
      PROVE  MarksKept(d)
  <2>1. ASSUME NEW n \in is_signed_in, InSession(d), username[d] = <<n>>
        PROVE  n \in is_signed_in'
    <3>1. username[c] # <<n>>
      BY <1>2, <2>1 DEF ChatInv, OneSession, InSession
    <3> QED
      BY <1>2, <3>1 DEF Found
  <2> QED
    BY <2>1 DEF MarksKept
<1>7. DOMAIN username' = Client /\ \A d \in Client \ {c} : username'[d] = username[d]
  BY <1>1, <1>2 DEF ChatTypes
<1>8. ASSUME Alive(c)
      PROVE  Phase(c)'
  <2>1. place[c] = "await" /\ Asked(c)
    BY <1>2, <1>8, AskedOnly, Distinct
  <2>2. status[c] = "SIGNED_IN" /\ s2c[c] = <<>> /\ NoImage(c)'
    BY <1>1, <1>2, <2>1, AgreeStates DEF Asked, NoImage
  <2>3. USERNAME_REQUIRED \in StatesOf(Follow(status[c], <<"signed out">>))
    BY <2>2, Replies, States
  <2> QED
    BY <1>2, <1>3, <1>8, <2>1, <2>2, <2>3, ReplyPhase
<1> QED
  BY <1>1, <1>2, <1>3, <1>5, <1>6, <1>7, <1>8, LineStep DEF ChatTypes


\* The three commands, and what a client in step makes of the replies.
LEMMA CommandKeeps ==
  ASSUME ChatInv, NEW c \in Client, Command(c)
  PROVE  ChatInv'
<1>1. ChatTypes /\ Conn(c)
  BY DEF ChatInv
<1>2. /\ clientStatus[c] = VALID_CREDENTIALS /\ c2s[c] # <<>>
      /\ is_signed_in' = is_signed_in /\ username' = username
      /\ image' = image /\ images' = images /\ apart' = apart /\ shared' = shared
  BY DEF Command, Recv, imageVars, historyVars
<1>3. clientStatus[c] # NoStatus
  BY <1>2, Distinct
<1>4. ASSUME NEW s \in {SEND_MESSAGE, UPLOAD_IMAGE, VALID_CREDENTIALS}, NEW t, Reply(c, s, <<t>>),
             s \in StatesOf(Follow("SIGNED_IN", <<t>>))
      PROVE  ChatInv'
  <2>1. clientStatus'[c] = s
    BY <1>3, <1>4, ReplyFacts
  <2>2. InSession(c) /\ InSession(c)'
    BY <1>2, <1>4, <2>1 DEF InSession
  <2>3. Session(c)' /\ Fresh(c)
    BY <1>2, <2>2 DEF ChatInv, Session, Fresh
  <2>4. ASSUME Alive(c)
        PROVE  Phase(c)'
    <3>1. place[c] = "await" /\ Asked(c)
      BY <1>2, <2>4, AskedOnly, Distinct
    <3>2. status[c] = "SIGNED_IN" /\ s2c[c] = <<>> /\ NoImage(c)'
      BY <1>1, <1>2, <3>1, AgreeStates DEF Asked, NoImage
    <3> QED
      BY <1>3, <1>4, <2>4, <3>1, <3>2, ReplyPhase
  <2>5. \A d \in Client \ {c} : username'[d] = username[d] /\ MarksKept(d)
    BY <1>2, SameMarks
  <2> QED
    BY <1>1, <1>2, <1>3, <1>4, <2>3, <2>4, <2>5, LineStep DEF ChatTypes
<1>5. \/ Reply(c, SEND_MESSAGE, <<"Entered send message mode">>)
      \/ Reply(c, UPLOAD_IMAGE, <<"Entered upload image mode">>)
      \/ Reply(c, VALID_CREDENTIALS, <<Other>>)
  BY DEF Command
<1>6. /\ SEND_MESSAGE \in StatesOf(Follow("SIGNED_IN", <<"Entered send message mode">>))
      /\ UPLOAD_IMAGE \in StatesOf(Follow("SIGNED_IN", <<"Entered upload image mode">>))
      /\ VALID_CREDENTIALS \in StatesOf(Follow("SIGNED_IN", <<Other>>))
  BY Replies, States
<1> QED
  BY <1>4, <1>5, <1>6

LEMMA MessageKeeps ==
  ASSUME ChatInv, NEW c \in Client, Message(c)
  PROVE  ChatInv'
<1> DEFINE line == Line(c2s[c])
<1>1. ChatTypes /\ Conn(c)
  BY DEF ChatInv
<1>2. /\ clientStatus[c] = SEND_MESSAGE /\ c2s[c] # <<>>
      /\ is_signed_in' = is_signed_in /\ username' = username
      /\ image' = image /\ images' = images /\ apart' = apart /\ shared' = shared
      /\ (line = <<>> => Reply(c, VALID_CREDENTIALS, <<"Exited send message mode">>))
      /\ (line # <<>> => Reply(c, SEND_MESSAGE, line))
  BY DEF Message, Recv, imageVars, historyVars
<1>3. clientStatus[c] # NoStatus
  BY <1>2, Distinct
<1>4. PICK s, text :
        /\ s \in {VALID_CREDENTIALS, SEND_MESSAGE} /\ Reply(c, s, text)
        /\ \/ line = <<>> /\ s = VALID_CREDENTIALS /\ text = <<"Exited send message mode">>
           \/ line # <<>> /\ s = SEND_MESSAGE /\ text = line
  BY <1>2
<1>5. clientStatus'[c] = s
  BY <1>3, <1>4, ReplyFacts
<1>6. InSession(c) /\ InSession(c)'
  BY <1>2, <1>4, <1>5 DEF InSession
<1>7. Session(c)' /\ Fresh(c)
  BY <1>2, <1>6 DEF ChatInv, Session, Fresh
<1>8. ASSUME Alive(c)
      PROVE  Phase(c)'
  <2>1. place[c] = "await" /\ Asked(c)
    BY <1>2, <1>8, AskedOnly, Distinct
  <2>2. status[c] = "SEND_MESSAGE" /\ s2c[c] = <<>> /\ NoImage(c)'
    BY <1>1, <1>2, <2>1, AgreeStates DEF Asked, NoImage
  <2>3. CASE c2s[c] = <<NL>>
    <3>1. line = <<>>
      BY <2>3, TypedStrings
    <3>2. VALID_CREDENTIALS \in StatesOf(Follow("SEND_MESSAGE", <<"Exited send message mode">>))
      BY Replies, States
    <3> QED
      BY <1>3, <1>4, <1>8, <2>1, <2>2, <3>1, <3>2, ReplyPhase
  <2>4. CASE c2s[c] # <<NL>>
    <3>1. PICK w \in Lines[c] : c2s[c] = <<w, NL>> /\ w # "Exited send message mode"
      BY <2>1, <2>2, <2>4 DEF Asked, Typed
    <3>2. w \in Word \ {NUL}
      BY WordFacts
    <3>3. line = <<w>> /\ line # <<>>
      <4>1. Line(<<w, NL>>) = <<w>>
        BY <3>2, TypedStrings
      <4>2. <<w>> # <<>>
        OBVIOUS
      <4> QED
        BY <3>1, <4>1, <4>2
    <3>4. SEND_MESSAGE \in StatesOf(Follow("SEND_MESSAGE", <<w>>))
      BY <3>1, Replies, States
    <3>5. s = SEND_MESSAGE /\ Reply(c, s, <<w>>)
      BY <1>4, <3>3
    <3> QED
      BY <1>3, <1>8, <2>1, <2>2, <3>4, <3>5, ReplyPhase
  <2> QED
    BY <2>3, <2>4
<1>9. \A d \in Client \ {c} : username'[d] = username[d] /\ MarksKept(d)
  BY <1>2, SameMarks
<1> QED
  BY <1>1, <1>2, <1>3, <1>4, <1>7, <1>8, <1>9, LineStep DEF ChatTypes

\* In upload mode the server finds an empty line, a name, pieces or the end.
LEMMA UploadOnly ==
  ASSUME ChatInv, NEW c \in Client, Alive(c), c2s[c] # <<>>, clientStatus[c] = UPLOAD_IMAGE
  PROVE  /\ status[c] = "UPLOAD_IMAGE" /\ s2c[c] = <<>>
         /\ \/ place[c] = "await" /\ c2s[c] = <<NL>> /\ NoImage(c)
            \/ place[c] = "await" /\ Ended(c)
            \/ place[c] = "body" /\ (Named(c) \/ Sending(c))
<1>1. ChatTypes /\ Phase(c)
  BY DEF ChatInv
<1>2. Asked(c) => status[c] = "UPLOAD_IMAGE" /\ s2c[c] = <<>> /\ c2s[c] = <<NL>> /\ NoImage(c)
  BY <1>1, AgreeStates DEF Asked, Typed
<1> QED
  BY <1>1, <1>2 DEF Phase, Ready, Replied, Ended, Named, Sending, Uploads

LEMMA LeaveUploadKeeps ==
  ASSUME ChatInv, NEW c \in Client, LeaveUpload(c)
  PROVE  ChatInv'
<1>1. ChatTypes /\ Conn(c)
  BY DEF ChatInv
<1>2. /\ clientStatus[c] = UPLOAD_IMAGE /\ c2s[c] # <<>> /\ CString(c2s[c]) = <<NL>>
      /\ Reply(c, VALID_CREDENTIALS, <<"Exited upload image mode">>)
      /\ apart' = [apart EXCEPT ![c] = apart[c] \/ place[c] = "body"]
      /\ is_signed_in' = is_signed_in /\ username' = username
      /\ image' = image /\ images' = images /\ shared' = shared
  BY DEF LeaveUpload, Recv, imageVars
<1>3. clientStatus[c] # NoStatus
  BY <1>2, Distinct
<1>4. clientStatus'[c] = VALID_CREDENTIALS /\ place' = place
  BY <1>2, <1>3, ReplyFacts
<1>5. InSession(c) /\ InSession(c)'
  BY <1>2, <1>4 DEF InSession
<1>6. Session(c)' /\ Fresh(c)
  BY <1>2, <1>5 DEF ChatInv, Session, Fresh
<1>7. /\ apart' \in [Client -> BOOLEAN] /\ \A d \in Client \ {c} : apart'[d] = apart[d]
      /\ apart'[c] = (apart[c] \/ place[c] = "body")
  BY <1>1, <1>2 DEF ChatTypes
<1>8. ASSUME Alive(c)'
      PROVE  Phase(c)'
  <2>1. Alive(c) /\ place[c] # "body"
    BY <1>3, <1>4, <1>7, <1>8, AliveBefore DEF Alive
  <2>2. ~Ended(c)
    <3>1. \A w : <<w>> # <<>>
      OBVIOUS
    <3> QED
      BY <1>2, <3>1, TypedStrings DEF Ended
  <2>3. status[c] = "UPLOAD_IMAGE" /\ s2c[c] = <<>> /\ place[c] = "await" /\ NoImage(c)
    BY <1>2, <2>1, <2>2, UploadOnly
  <2>4. VALID_CREDENTIALS \in StatesOf(Follow(status[c], <<"Exited upload image mode">>))
    BY <2>3, Replies, States
  <2>5. NoImage(c)'
    BY <1>2, <2>3 DEF NoImage
  <2> QED
    BY <1>2, <1>3, <2>1, <2>3, <2>4, <2>5, ReplyPhase
<1>9. \A d \in Client \ {c} : MarksKept(d) /\ FileKept(d)
  BY <1>2, SameMarks DEF FileKept
<1>10. place[c] = "off" => ~apart'[c]
  BY <1>1, <1>7 DEF Conn
<1>11. /\ is_signed_in' \subseteq Names /\ DOMAIN username' = Client /\ DOMAIN image' = Client
       /\ DOMAIN images' = {image'[d] : d \in Client} \ {<<>>} /\ shared' \in [Client -> BOOLEAN]
       /\ \A d \in Client : username'[d] = username[d] /\ image'[d] = image[d] /\ (shared[d] => shared'[d])
  <2>1. DOMAIN images' = {image'[d] : d \in Client} \ {<<>>}
    BY <1>1, <1>2 DEF ChatTypes
  <2>2. /\ is_signed_in' \subseteq Names /\ DOMAIN username' = Client /\ DOMAIN image' = Client
        /\ shared' \in [Client -> BOOLEAN]
    BY <1>1, <1>2 DEF ChatTypes
  <2> QED
    BY <1>2, <2>1, <2>2
<1> QED
  BY <1>2, <1>3, <1>6, <1>7, <1>8, <1>9, <1>10, <1>11, HandlerStep


LEMMA EndImageKeeps ==
  ASSUME ChatInv, NEW c \in Client, EndImage(c)
  PROVE  ChatInv'
<1>1. ChatTypes /\ Conn(c)
  BY DEF ChatInv
<1>2. /\ clientStatus[c] = UPLOAD_IMAGE /\ c2s[c] # <<>> /\ CString(c2s[c]) = <<>>
      /\ Reply(c, UPLOAD_IMAGE, <<Other>>)
      /\ apart' = [apart EXCEPT ![c] = apart[c] \/ place[c] = "body"]
      /\ image' = [image EXCEPT ![c] = <<>>] /\ Keep(images)
      /\ is_signed_in' = is_signed_in /\ username' = username /\ shared' = shared
  BY DEF EndImage, Recv
<1>3. clientStatus[c] # NoStatus
  BY <1>2, Distinct
<1>4. clientStatus'[c] = UPLOAD_IMAGE /\ place' = place
  BY <1>2, <1>3, ReplyFacts
<1>5. Session(c)' /\ Fresh(c)
  BY <1>2, <1>4, SameSession
<1>6. /\ apart' \in [Client -> BOOLEAN] /\ \A d \in Client \ {c} : apart'[d] = apart[d]
      /\ apart'[c] = (apart[c] \/ place[c] = "body")
  BY <1>1, <1>2 DEF ChatTypes
<1>7. DOMAIN image' = Client /\ image'[c] = <<>> /\ \A d \in Client \ {c} : image'[d] = image[d]
  BY <1>1, <1>2 DEF ChatTypes
<1>8. ASSUME Alive(c)'
      PROVE  Phase(c)'
  <2>1. Alive(c) /\ place[c] # "body"
    BY <1>3, <1>4, <1>6, <1>8, AliveBefore DEF Alive
  <2>2. status[c] = "UPLOAD_IMAGE" /\ s2c[c] = <<>> /\ place[c] = "await"
    BY <1>2, <2>1, UploadOnly
  <2>3. UPLOAD_IMAGE \in StatesOf(Follow(status[c], <<Other>>))
    BY <2>2, Replies, States
  <2>4. NoImage(c)'
    BY <1>7 DEF NoImage
  <2> QED
    BY <1>2, <1>3, <2>1, <2>2, <2>3, <2>4, ReplyPhase
<1>9. \A d \in Client \ {c} : MarksKept(d) /\ FileKept(d)
  BY <1>2, <1>7, SameMarks, FilesKept
<1>10. place[c] = "off" => ~apart'[c]
  BY <1>1, <1>6 DEF Conn
<1>11. /\ is_signed_in' \subseteq Names /\ DOMAIN username' = Client
       /\ DOMAIN images' = {image'[d] : d \in Client} \ {<<>>} /\ shared' \in [Client -> BOOLEAN]
       /\ \A d \in Client : username'[d] = username[d] /\ (shared[d] => shared'[d])
  BY <1>1, <1>2, KeepFacts DEF ChatTypes
<1> QED
  BY <1>2, <1>3, <1>5, <1>6, <1>7, <1>8, <1>9, <1>10, <1>11, HandlerStep

\* Writing to the file of one connection: the bytes within the bound are
\* there, and a connection that uploads to the same file is marked.
LEMMA Written ==
  ASSUME ChatInv, NEW c \in Client, NEW path, NEW content, WriteImage(c, path, content)
  PROVE  /\ DOMAIN image' = Client /\ image'[c] = path
         /\ \A d \in Client \ {c} : image'[d] = image[d] /\ FileKept(d)
         /\ DOMAIN images' = {image'[d] : d \in Client} \ {<<>>}
         /\ shared' \in [Client -> BOOLEAN] /\ shared'[c] = shared[c]
         /\ \A d \in Client : shared[d] => shared'[d]
         /\ apart' = apart
         /\ content \in Seq(Word) /\ Len(content) <= MaxFile[c] /\ path # <<>> => images'[path] = content
<1> DEFINE kept == SubSeq(content, 1, Min({Len(content), MaxFile[c] + 1}))
           f == [p \in DOMAIN images \cup {path} |-> IF p = path THEN kept ELSE images[p]]
<1>1. ChatTypes
  BY DEF ChatInv
<1>2. /\ image' = [image EXCEPT ![c] = path] /\ Keep(f) /\ apart' = apart
      /\ shared' = [d \in Client |-> shared[d] \/ (d # c /\ image[d] = path)]
  BY DEF WriteImage
<1>3. path \in DOMAIN f /\ f[path] = kept /\ \A p \in DOMAIN images \ {path} : p \in DOMAIN f /\ f[p] = images[p]
  OBVIOUS
<1>4. content \in Seq(Word) /\ Len(content) <= MaxFile[c] => kept = content
  <2> SUFFICES ASSUME content \in Seq(Word), Len(content) <= MaxFile[c]
               PROVE  kept = content
    OBVIOUS
  <2>1. Len(content) \in Nat /\ MaxFile[c] + 1 \in Nat /\ Len(content) <= MaxFile[c] + 1
    BY WordFacts
  <2>2. Min({Len(content), MaxFile[c] + 1}) = Len(content)
    BY <2>1, MinOfTwo
  <2>3. SubSeq(content, 1, Len(content)) = content
    BY SubSeqFull
  <2> QED
    BY <2>2, <2>3
<1> HIDE DEF kept, f
<1>5. DOMAIN image' = Client /\ image'[c] = path /\ \A d \in Client \ {c} : image'[d] = image[d]
  BY <1>1, <1>2 DEF ChatTypes
<1>6. /\ DOMAIN images' = {image'[d] : d \in Client} \ {<<>>}
      /\ \A d \in Client : image'[d] # <<>> /\ image'[d] \in DOMAIN f => images'[image'[d]] = f[image'[d]]
  BY <1>2, KeepFacts
<1>7. ASSUME NEW d \in Client \ {c}
      PROVE  FileKept(d)
  <2>1. ASSUME image[d] # <<>>, ~shared'[d]
        PROVE  images'[image[d]] = images[image[d]]
    <3>1. image[d] # path
      BY <1>2, <2>1
    <3>2. image[d] \in DOMAIN images \ {path} /\ image'[d] = image[d]
      BY <1>5, <2>1, <3>1, NamedFiles
    <3>3. images'[image'[d]] = f[image'[d]]
      BY <1>3, <1>6, <2>1, <3>2
    <3> QED
      BY <1>3, <3>2, <3>3
  <2> QED
    BY <2>1 DEF FileKept
<1>8. path # <<>> => images'[path] = kept
  BY <1>3, <1>5, <1>6
<1>9. shared' \in [Client -> BOOLEAN] /\ shared'[c] = shared[c] /\ \A d \in Client : shared[d] => shared'[d]
  BY <1>1, <1>2 DEF ChatTypes
<1> QED
  BY <1>2, <1>4, <1>5, <1>6, <1>7, <1>8, <1>9


\* The two handlers that write: how the rest of their step looks.
LEMMA WriteStep ==
  ASSUME ChatInv, NEW c \in Client, clientStatus[c] = UPLOAD_IMAGE, Reply(c, UPLOAD_IMAGE, <<>>),
         NEW path, NEW content, WriteImage(c, path, content),
         is_signed_in' = is_signed_in, username' = username,
         Alive(c) => Phase(c)'
  PROVE  ChatInv'
<1>1. ChatTypes /\ Conn(c)
  BY DEF ChatInv
<1>2. clientStatus[c] # NoStatus
  BY Distinct
<1>3. clientStatus'[c] = UPLOAD_IMAGE /\ place' = place
  BY <1>2, ReplyFacts
<1>4. /\ DOMAIN image' = Client
      /\ \A d \in Client \ {c} : image'[d] = image[d] /\ FileKept(d)
      /\ DOMAIN images' = {image'[d] : d \in Client} \ {<<>>}
      /\ shared' \in [Client -> BOOLEAN] /\ \A d \in Client : shared[d] => shared'[d]
      /\ apart' = apart
  BY Written
<1>5. Session(c)' /\ Fresh(c)
  BY <1>3, SameSession
<1>6. Alive(c)' => Phase(c)'
  BY <1>2, <1>3, <1>4, AliveBefore
<1>7. \A d \in Client \ {c} : MarksKept(d)
  BY SameMarks
<1>8. /\ is_signed_in' \subseteq Names /\ DOMAIN username' = Client /\ apart' \in [Client -> BOOLEAN]
      /\ \A d \in Client \ {c} : username'[d] = username[d] /\ apart'[d] = apart[d]
      /\ (place[c] = "off" => ~apart'[c])
  BY <1>1, <1>4 DEF ChatTypes, Conn
<1> QED
  BY <1>2, <1>4, <1>5, <1>6, <1>7, <1>8, HandlerStep

\* Nothing is sent back while a file is written.
LEMMA NoReply ==
  ASSUME ChatInv, NEW c \in Client, Reply(c, UPLOAD_IMAGE, <<>>), clientStatus[c] = UPLOAD_IMAGE,
         Alive(c), status[c] = "UPLOAD_IMAGE", s2c[c] = <<>>
  PROVE  Uploads(c)' /\ c2s'[c] = <<>> /\ place' = place /\ sent' = sent
<1>1. clientStatus[c] # NoStatus
  BY Distinct
<1>2. /\ clientStatus'[c] = UPLOAD_IMAGE /\ c2s'[c] = <<>> /\ place' = place /\ status' = status /\ sent' = sent
      /\ (~hungUp[c] => s2c'[c] = s2c[c] \o <<>>)
  BY <1>1, ReplyFacts
<1>3. ~hungUp[c]
  BY DEF ChatInv, Conn, Alive
<1>4. <<>> \o <<>> = <<>>
  BY Joined
<1> QED
  BY <1>2, <1>3, <1>4 DEF Uploads

LEMMA AppendImageKeeps ==
  ASSUME ChatInv, NEW c \in Client, AppendImage(c)
  PROVE  ChatInv'
<1> DEFINE path == image[c]
           content == images[image[c]] \o c2s[c]
<1>1. ChatTypes /\ Conn(c)
  BY DEF ChatInv
<1>2. /\ clientStatus[c] = UPLOAD_IMAGE /\ c2s[c] # <<>> /\ CString(c2s[c]) # <<>> /\ CString(c2s[c]) # <<NL>>
      /\ image[c] # <<>> /\ Reply(c, UPLOAD_IMAGE, <<>>) /\ WriteImage(c, path, content)
      /\ is_signed_in' = is_signed_in /\ username' = username
  BY DEF AppendImage, Recv
<1> HIDE DEF path, content
<1>3. /\ image'[c] = path /\ shared'[c] = shared[c]
      /\ content \in Seq(Word) /\ Len(content) <= MaxFile[c] /\ path # <<>> => images'[path] = content
  BY <1>2, Written
<1>4. ASSUME Alive(c)
      PROVE  Phase(c)'
  <2>1. /\ status[c] = "UPLOAD_IMAGE" /\ s2c[c] = <<>> /\ place[c] = "body"
        /\ Named(c) \/ Sending(c)
    <3>1. c2s[c] # <<NL>> /\ c2s[c] # <<NUL>>
      BY <1>2, TypedStrings
    <3>2. ~Ended(c)
      BY <3>1 DEF Ended
    <3> QED
      BY <1>2, <1>4, <3>1, <3>2, UploadOnly
  <2>2. Uploads(c)' /\ c2s'[c] = <<>> /\ place' = place /\ sent' = sent
    BY <1>2, <1>4, <2>1, NoReply
  <2>3. ASSUME ~shared'[c]
        PROVE  OwnPath(c)' /\ images'[image'[c]] \in Seq(Word) /\ images'[image'[c]] \o c2s'[c] = sent'[c]
    <3>1. Sending(c)
      BY <1>2, <1>3, <2>1, <2>3 DEF Named, NoImage
    <3>2. OwnPath(c) /\ content = sent[c]
      BY <1>3, <2>3, <3>1 DEF Sending, Holds, content
    <3>3. OwnPath(c)'
      BY <1>2, <1>3, <3>2 DEF OwnPath, path
    <3>4. sent[c] \in Seq(Word) /\ Len(sent[c]) <= MaxFile[c] /\ path # <<>>
      BY <1>1, <1>2 DEF ChatTypes, Conn, path
    <3>5. images'[image'[c]] = sent[c]
      BY <1>3, <3>2, <3>4
    <3>6. sent[c] \o <<>> = sent[c]
      BY <3>4, Joined
    <3> QED
      BY <2>2, <3>3, <3>4, <3>5, <3>6
  <2>4. Holds(c, sent[c])'
    BY <2>3 DEF Holds
  <2>5. image'[c] # <<>>
    BY <1>2, <1>3 DEF path
  <2> QED
    BY <2>1, <2>2, <2>4, <2>5 DEF Phase, Sending
<1> QED
  BY <1>2, <1>4, WriteStep

LEMMA NameImageKeeps ==
  ASSUME ChatInv, NEW c \in Client, NameImage(c)
  PROVE  ChatInv'
<1>1. CASE Die
  BY <1>1, DieKeeps
<1>2. CASE ~Die
  <2> DEFINE path == Path(username[c], Line(c2s[c]))
  <2>1. ChatTypes /\ Conn(c)
    BY DEF ChatInv
  <2>2. /\ clientStatus[c] = UPLOAD_IMAGE /\ c2s[c] # <<>> /\ CString(c2s[c]) # <<NL>> /\ image[c] = <<>>
        /\ Reply(c, UPLOAD_IMAGE, <<>>) /\ WriteImage(c, path, <<>>)
        /\ is_signed_in' = is_signed_in /\ username' = username
    BY <1>2 DEF NameImage, Recv
  <2> HIDE DEF path
  <2>3. /\ image'[c] = path /\ shared'[c] = shared[c]
        /\ <<>> \in Seq(Word) /\ Len(<<>>) <= MaxFile[c] /\ path # <<>> => images'[path] = <<>>
    BY <2>2, Written
  <2>4. ASSUME Alive(c)
        PROVE  Phase(c)'
    <3>1. status[c] = "UPLOAD_IMAGE" /\ s2c[c] = <<>> /\ place[c] = "body" /\ Named(c)
      <4>1. c2s[c] # <<NL>>
        BY <2>2, TypedStrings
      <4> QED
        BY <2>2, <2>4, <4>1, UploadOnly DEF Ended, Sending
    <3>2. PICK n \in is_signed_in, name \in FileNames[c] : username[c] = <<n>> /\ c2s[c] = <<name, NL>>
      <4>1. \E n \in is_signed_in : username[c] = <<n>>
        BY <2>2 DEF ChatInv, Session, InSession
      <4> QED
        BY <3>1, <4>1 DEF Named
    <3>3. path = Path(<<n>>, <<name>>)
      <4>1. name \in Word \ {NUL}
        BY WordFacts
      <4> QED
        BY <3>2, <4>1, TypedStrings DEF path
    <3>4. path # <<>>
      <4>1. n \in DOMAIN Parts /\ name \in DOMAIN Parts
        BY <2>1, WordFacts DEF ChatTypes
      <4> QED
        BY <3>3, <4>1, PathNotEmpty
    <3>5. Uploads(c)' /\ c2s'[c] = <<>> /\ place' = place /\ sent' = sent
      BY <2>2, <2>4, <3>1, NoReply
    <3>6. OwnPath(c)'
      BY <2>2, <2>3, <3>2, <3>3 DEF OwnPath
    <3>7. images'[image'[c]] = <<>>
      BY <2>3, <3>4, Joined, WordFacts
    <3>8. sent[c] = <<>> /\ <<>> \o <<>> = <<>> /\ <<>> \in Seq(Word)
      BY <3>1, Joined DEF Named
    <3>9. Holds(c, sent[c])'
      BY <3>5, <3>6, <3>7, <3>8 DEF Holds
    <3> QED
      BY <2>3, <3>1, <3>4, <3>5, <3>9 DEF Phase, Sending
  <2> QED
    BY <2>2, <2>4, WriteStep
<1> QED
  BY <1>1, <1>2


-----------------------------------------------------------------------------
(***************************************************************************)
(* The theorems.                                                           *)
(***************************************************************************)

LEMMA InitChat == Init => ChatInv
<1> SUFFICES ASSUME Init PROVE ChatInv
  OBVIOUS
<1>1. /\ up = FALSE /\ is_signed_in = {}
      /\ clientStatus = [c \in Client |-> NoStatus] /\ username = [c \in Client |-> <<>>]
      /\ image = [c \in Client |-> <<>>] /\ images = <<>>
      /\ c2s = [c \in Client |-> <<>>] /\ s2c = [c \in Client |-> <<>>]
      /\ hungUp = [c \in Client |-> FALSE]
      /\ place = [c \in Client |-> "off"] /\ status = [c \in Client |-> "NOT_SIGNED_IN"]
      /\ sent = [c \in Client |-> <<>>] /\ apart = [c \in Client |-> FALSE]
      /\ shared = [c \in Client |-> FALSE]
  BY DEF Init
<1>2. DOMAIN images = {image[c] : c \in Client} \ {<<>>}
  BY <1>1
<1>3. c2s \in [Client -> Seq(Word)] /\ sent \in [Client -> Seq(Word)] /\ status \in [Client -> ClientStates]
  BY <1>1, Joined DEF ClientStates
<1>4. ChatTypes
  BY <1>1, <1>2, <1>3 DEF ChatTypes
<1>5. \A c \in Client : ~Connected(c) /\ ~InSession(c)
  BY <1>1, Distinct DEF Connected, InSession
<1>6. ASSUME NEW c \in Client
      PROVE  Conn(c)
  BY <1>1, <1>5, Joined, WordFacts DEF Conn
<1> QED
  BY <1>4, <1>5, <1>6 DEF ChatInv, Session, OneSession, Alive

LEMMA StutterChat ==
  ASSUME ChatInv, UNCHANGED vars
  PROVE  ChatInv'
<1>1. /\ up' = up /\ is_signed_in' = is_signed_in /\ clientStatus' = clientStatus /\ username' = username
      /\ image' = image /\ images' = images /\ c2s' = c2s /\ s2c' = s2c /\ hungUp' = hungUp
      /\ place' = place /\ status' = status /\ sent' = sent /\ apart' = apart /\ shared' = shared
  BY DEF vars, entryVars, imageVars, netVars, clientVars, historyVars
<1>2. ChatTypes'
  BY <1>1 DEF ChatInv, ChatTypes
<1>3. \A c \in Client : Untouched(c) /\ MarksKept(c) /\ FileKept(c)
  BY <1>1 DEF Untouched, MarksKept, FileKept
<1>4. \A c \in Client : Conn(c)' /\ Session(c)' /\ (Alive(c)' => Phase(c)')
  BY <1>1, <1>3, ConnFrame, SessionFrame, PhaseFrame DEF ChatInv
<1>5. OneSession'
  BY <1>1 DEF ChatInv, OneSession, InSession
<1> QED
  BY <1>2, <1>4, <1>5 DEF ChatInv

LEMMA HandleKeeps ==
  ASSUME ChatInv, NEW c \in Client, Handle(c)
  PROVE  ChatInv'
<1>1. CASE RecvEnds(c)
  BY <1>1, CloseKeeps
<1>2. CASE EnterUsername(c)
  BY <1>2, EnterUsernameKeeps
<1>3. CASE SignIn(c)
  BY <1>3, SignInKeeps
<1>4. CASE Refuse(c)
  BY <1>4, RefuseKeeps
<1>5. CASE SignOut(c)
  BY <1>5, SignOutKeeps
<1>6. CASE Command(c)
  BY <1>6, CommandKeeps
<1>7. CASE Message(c)
  BY <1>7, MessageKeeps
<1>8. CASE LeaveUpload(c)
  BY <1>8, LeaveUploadKeeps
<1>9. CASE EndImage(c)
  BY <1>9, EndImageKeeps
<1>10. CASE AppendImage(c)
  BY <1>10, AppendImageKeeps
<1>11. CASE NameImage(c)
  BY <1>11, NameImageKeeps
<1> QED
  BY <1>1, <1>2, <1>3, <1>4, <1>5, <1>6, <1>7, <1>8, <1>9, <1>10, <1>11 DEF Handle

LEMMA ClientKeeps ==
  ASSUME ChatInv, NEW c \in Client, ClientRecv(c) \/ User(c)
  PROVE  ChatInv'
<1>1. CASE RecvReply(c)
  BY <1>1, RecvReplyKeeps
<1>2. CASE RecvNothing(c) \/ HangUp(c)
  BY <1>2, GoneKeeps DEF RecvNothing, HangUp
<1>3. CASE Launch(c)
  BY <1>3, LaunchKeeps
<1>4. CASE Type(c)
  BY <1>4, TypeKeeps
<1>5. CASE SendName(c)
  BY <1>5, SendNameKeeps
<1>6. CASE SendChunk(c)
  BY <1>6, SendChunkKeeps
<1>7. CASE SendEnd(c)
  BY <1>7, SendEndKeeps
<1> QED
  BY <1>1, <1>2, <1>3, <1>4, <1>5, <1>6, <1>7 DEF ClientRecv, User

LEMMA ChatStep == ChatInv /\ [Next]_vars => ChatInv'
<1> SUFFICES ASSUME ChatInv, [Next]_vars PROVE ChatInv'
  OBVIOUS
<1>1. CASE UNCHANGED vars
  BY <1>1, StutterChat
<1>2. CASE Start
  BY <1>2, StartKeeps
<1>3. CASE Kill
  BY <1>3, DieKeeps DEF Kill
<1>4. CASE \E c \in Client : Handle(c) \/ ClientRecv(c) \/ User(c)
  BY <1>4, HandleKeeps, ClientKeeps
<1> QED
  BY <1>1, <1>2, <1>3, <1>4 DEF Next

LEMMA ChatAlways == Spec => []ChatInv
BY InitChat, ChatStep, PTL DEF Spec

\* What the invariant says of the file of a client.
LEMMA OwnFiles ==
  ASSUME ChatInv, NEW c \in Client, Alive(c), ~shared[c], image[c] # <<>>
  PROVE  clientStatus[c] = UPLOAD_IMAGE /\ OwnPath(c)
<1>1. Phase(c) /\ ~NoImage(c)
  BY DEF ChatInv, NoImage
<1> QED
  BY <1>1 DEF Phase, Ready, Asked, Replied, Ended, Named, Sending, Uploads, Holds

\* The variables keep the values the code can give them, and what belongs
\* to a connection goes with it.
THEOREM ChatTypesHold == Spec => []TypeOK
<1>1. ChatInv => TypeOK
  BY DEF ChatInv, ChatTypes, Conn, TypeOK
<1> QED
  BY <1>1, ChatAlways, PTL

\* Whenever a user can type, client.c and server.c are in the same mode with
\* nothing under way, for any mix of logins, messages and uploads.
THEOREM ChatInStep == Spec => []InStep
<1>1. ChatInv => InStep
  <2> SUFFICES ASSUME ChatInv, NEW c \in Client, Alive(c), place[c] = "type"
               PROVE  clientStatus[c] \in StatesOf(status[c]) /\ s2c[c] = <<>> /\ (image[c] # <<>> => shared[c])
    BY DEF InStep
  <2>1. Ready(c)
    BY DEF ChatInv, Phase
  <2> QED
    BY <2>1 DEF Ready, Agree, NoImage
<1> QED
  BY <1>1, ChatAlways, PTL

\* A file is written under the name of the account its connection has signed
\* in to, which is marked all the while.
THEOREM ChatOwnImage == Spec => []OwnImage
<1>1. ChatInv => OwnImage
  <2> SUFFICES ASSUME ChatInv, NEW c \in Client, Alive(c), ~shared[c], image[c] # <<>>
               PROVE  /\ clientStatus[c] = UPLOAD_IMAGE
                      /\ \E n \in is_signed_in : username[c] = <<n>>
                      /\ \E name \in FileNames[c] : image[c] = Path(username[c], <<name>>)
    BY DEF OwnImage
  <2>1. clientStatus[c] = UPLOAD_IMAGE /\ OwnPath(c)
    BY OwnFiles
  <2> QED
    BY <2>1 DEF OwnPath
<1> QED
  BY <1>1, ChatAlways, PTL

\* A step that leaves the image of c alone completes no upload of c.
LEMMA NotUploaded ==
  ASSUME NEW c, image'[c] = image[c]
  PROVE  ~Uploaded(c)
BY DEF Uploaded

LEMMA OnlyEndImage ==
  ASSUME ChatInv, Next, NEW c \in Client, Uploaded(c), Alive(c)
  PROVE  EndImage(c)
<1>1. ChatTypes
  BY DEF ChatInv
<1>2. ASSUME Die PROVE FALSE
  <2>1. clientStatus'[c] = NoStatus
    BY <1>2 DEF Die
  <2> QED
    BY <2>1, Distinct DEF Uploaded
<1>3. ASSUME Start PROVE FALSE
  BY <1>3, NotUploaded DEF Start, imageVars
<1>4. ASSUME NEW d \in Client, ClientRecv(d) \/ Type(d) \/ SendName(d) \/ SendChunk(d) \/ SendEnd(d) \/ HangUp(d)
      PROVE  FALSE
  <2>1. image' = image
    BY <1>4 DEF ClientRecv, RecvReply, RecvNothing, HangUp, Gone, Type, SendName, SendChunk, SendEnd, Put, imageVars
  <2> QED
    BY <2>1, NotUploaded
<1>5. ASSUME NEW d \in Client, Launch(d) PROVE FALSE
  <2>1. d # c
    BY <1>5 DEF Launch, Alive
  <2>2. image'[c] = image[c]
    BY <1>1, <1>5, <2>1 DEF Launch, ChatTypes
  <2> QED
    BY <2>2, NotUploaded
<1>6. ASSUME NEW d \in Client, RecvEnds(d) PROVE FALSE
  <2>1. image' = [image EXCEPT ![d] = <<>>] /\ clientStatus' = [clientStatus EXCEPT ![d] = NoStatus]
    BY <1>6 DEF RecvEnds, Close
  <2>2. CASE d = c
    BY <1>1, <2>1, <2>2, Distinct DEF Uploaded, ChatTypes
  <2>3. CASE d # c
    BY <1>1, <2>1, <2>3, NotUploaded DEF ChatTypes
  <2> QED
    BY <2>2, <2>3
<1>7. ASSUME NEW d \in Client, EnterUsername(d) \/ SignIn(d) \/ Refuse(d) \/ SignOut(d) \/ Command(d)
                               \/ Message(d) \/ LeaveUpload(d)
      PROVE  FALSE
  <2>1. image' = image
    BY <1>7 DEF EnterUsername, SignIn, Refuse, SignOut, Command, Message, LeaveUpload, imageVars
  <2> QED
    BY <2>1, NotUploaded
<1>8. ASSUME NEW d \in Client, NEW path, image' = [image EXCEPT ![d] = path], image[c] = <<>> \/ d # c \/ path = image[c]
      PROVE  FALSE
  <2>1. image[c] = <<>> \/ image'[c] = image[c]
    BY <1>1, <1>8 DEF ChatTypes
  <2> QED
    BY <2>1, NotUploaded DEF Uploaded
<1>9. ASSUME NEW d \in Client, AppendImage(d) PROVE FALSE
  <2>1. image' = [image EXCEPT ![d] = image[d]]
    BY <1>9 DEF AppendImage, WriteImage
  <2> QED
    BY <1>8, <2>1
<1>10. ASSUME NEW d \in Client, NameImage(d) PROVE FALSE
  <2>1. PICK path : Die \/ image' = [image EXCEPT ![d] = path]
    BY <1>10 DEF NameImage, WriteImage
  <2>2. image[d] = <<>>
    BY <1>10 DEF NameImage
  <2> QED
    BY <1>2, <1>8, <2>1, <2>2
<1>11. ASSUME NEW d \in Client, EndImage(d), d # c PROVE FALSE
  <2>1. image' = [image EXCEPT ![d] = <<>>]
    BY <1>11 DEF EndImage
  <2> QED
    BY <1>8, <1>11, <2>1
<1> QED
  BY <1>2, <1>3, <1>4, <1>5, <1>6, <1>7, <1>9, <1>10, <1>11 DEF Next, Kill, Handle, User

\* What the server has stored when it says "image uploaded" is what the
\* client has sent, however recv has split and joined its pieces.
THEOREM ChatUploadWhole == Spec => UploadWhole
<1> DEFINE whole(c) == Uploaded(c) /\ Alive(c) /\ ~apart'[c] /\ ~shared[c] => images[image[c]] = sent[c]
<1>1. ASSUME ChatInv, Next, NEW c \in Client
      PROVE  whole(c)
  <2> SUFFICES ASSUME Uploaded(c), Alive(c), ~apart'[c], ~shared[c]
               PROVE  images[image[c]] = sent[c]
    OBVIOUS
  <2>1. EndImage(c)
    BY <1>1, OnlyEndImage
  <2>2. /\ clientStatus[c] = UPLOAD_IMAGE /\ c2s[c] # <<>> /\ image[c] # <<>>
        /\ apart' = [apart EXCEPT ![c] = apart[c] \/ place[c] = "body"]
    BY <2>1 DEF EndImage, Recv
  <2>3. place[c] # "body"
    BY <1>1, <2>2 DEF ChatInv, ChatTypes
  <2>4. Ended(c)
    BY <1>1, <2>2, <2>3, UploadOnly DEF NoImage
  <2> QED
    BY <2>4 DEF Ended
<1>2. ChatInv /\ [Next]_vars => [\A c \in Client : whole(c)]_vars
  BY <1>1
<1> QED
  BY <1>2, ChatAlways, PTL DEF Spec, UploadWhole
=============================================================================
