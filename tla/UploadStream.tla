----------------------------- MODULE UploadStream -----------------------------
(***************************************************************************)
(* Homework 5: a server that serves one connection after the other, and    *)
(* its clients, which send lines of text or the content of a file over a   *)
(* byte stream (server.c, client.c).  Both sides keep a client_status, and *)
(* nothing in the stream says where one send ends and the next begins: the *)
(* two sides agree only as long as every recv returns one send.  The code  *)
(* counts on time for that, on the user's and on a sleep of two seconds    *)
(* before the NUL that ends a file; the model has the same assumption, in  *)
(* ServerWaits.  Replies are left out: a client only prints them.          *)
(***************************************************************************)
EXTENDS Integers, SequencesExt

CONSTANTS
  Client,      \* a client is one process after another of one user
  Nobody,      \* no connection
  NUL, NL,     \* the bytes that mean something ...
  Alnum,       \* ... and the letters and digits, "0", "1" and "2" among them
  Messages,    \* what users type in SEND_MESSAGE
  Chunks,      \* the pieces fread returns
  BUFF_SIZE,   \* of the server; 8192 in the code
  MaxFile,     \* bound on the bytes of a file, and on those of printed kept
  MaxStream    \* bound on the bytes sent and not yet read

\* The bytes that can be under way.
Byte == Alnum \cup {NUL, NL} \cup UNION {Range(s) : s \in Messages \cup Chunks}

\* fgets returns a line of a buffer's length at most, with its newline and
\* more than that: "\n" alone ends the messages.  fread returns no empty piece.
ASSUME UploadAssumption ==
  /\ Nobody \notin Client
  /\ {"0", "1", "2"} \subseteq Alnum /\ {NUL, NL} \cap Alnum = {} /\ NUL # NL
  /\ Messages \cup Chunks \subseteq Seq(Byte) \ {<<>>}
  /\ \A m \in Messages : Len(m) \in 2..BUFF_SIZE /\ ~Contains(m, NUL)
  /\ BUFF_SIZE \in Nat \ {0, 1} /\ MaxFile \in Nat /\ MaxStream \in Nat

SEND_MESSAGE       == 1
UPLOAD_FILE        == 2
EXIT               == 0
SELECT_IN_PROGRESS == -1

BACKLOG == 2

VARIABLES
  at,              \* where the server is: "down", "accept", "recv", "sleep"
  conn_sock,       \* the client it serves, or Nobody
  client_status,   \* of the server
  printed,         \* what it has printed of the last upload
  backlog,         \* connections waiting for accept
  c2s,             \* c2s[c]: the bytes under way from c
  hungUp,          \* hungUp[c]: c has closed, the server has not noticed
  place,           \* place[c]: where the client is
  uploaded,        \* history: what c has sent of its last file
  plain            \* history: plain[c], c has sent only to a server in recv on
                   \* its connection, and no file with a NUL

serverVars == <<at, conn_sock, client_status, printed>>
netVars    == <<backlog, c2s, hungUp>>
clientVars == <<place, uploaded, plain>>
vars       == <<serverVars, netVars, clientVars>>

\* The client's client_status is -1 in "select", 1 in "send", 2 in the three
\* places of an upload and 0 in "exit".
Places == {"off", "select", "send", "name", "body", "pause", "exit"}

(***************************************************************************)
(* The string a C function finds in a buffer.                              *)
(***************************************************************************)

CString(bytes) ==
  LET ends == {i \in 1..Len(bytes) : bytes[i] = NUL}
  IN SubSeq(bytes, 1, IF ends = {} THEN Len(bytes) ELSE Min(ends) - 1)

\* Lines 122 and 137: the last byte of what was received becomes NUL.
Line(bytes) == CString(Front(bytes))

\* process_message returns 1.
IsAlnum(string) == \A i \in 1..Len(string) : string[i] \in Alnum

(***************************************************************************)
(* Time.  Server and network are faster than a user who types and than the *)
(* sleep(2) of a client: those go on only when the server cannot.  While   *)
(* the server sleeps or serves another, they go on all the same.           *)
(***************************************************************************)

Listening(c) == at = "recv" /\ conn_sock = c

ServerWaits ==
  \/ at \in {"down", "sleep"}
  \/ at = "accept" /\ backlog = <<>>
  \/ at = "recv" /\ c2s[conn_sock] = <<>> /\ ~hungUp[conn_sock]

Connected(c) == conn_sock = c \/ \E i \in 1..Len(backlog) : backlog[i] = c

\* A send; on a connection the server has closed it is lost or fails.
Put(c, bytes) ==
  /\ Len(c2s[c]) + Len(bytes) <= MaxStream
  /\ c2s' = IF Connected(c) THEN [c2s EXCEPT ![c] = @ \o bytes] ELSE c2s
  /\ UNCHANGED <<backlog, hungUp, serverVars>>

Go(c, p) == place' = [place EXCEPT ![c] = p]

Init ==
  /\ at = "accept" /\ conn_sock = Nobody
  /\ client_status = SELECT_IN_PROGRESS /\ printed = <<>>
  /\ backlog = <<>>
  /\ c2s = [c \in Client |-> <<>>] /\ hungUp = [c \in Client |-> FALSE]
  /\ place = [c \in Client |-> "off"] /\ uploaded = [c \in Client |-> <<>>]
  /\ plain = [c \in Client |-> TRUE]

(***************************************************************************)
(* The client.                                                             *)
(***************************************************************************)

Connect(c) ==
  /\ place[c] = "off" /\ ~Connected(c)
  /\ at # "down" /\ Len(backlog) <= BACKLOG
  /\ backlog' = Append(backlog, c)
  /\ Go(c, "select")
  /\ UNCHANGED <<serverVars, c2s, hungUp, uploaded, plain>>

\* What the user types, when everything typed before has been read, or
\* cannot be read now.
Type(c, bytes) ==
  /\ ServerWaits
  /\ Put(c, bytes)
  /\ plain' = [plain EXCEPT ![c] = @ /\ Listening(c)]

Choose(c) ==
  /\ place[c] = "select"
  /\ \/ Type(c, <<"0", NL>>) /\ Go(c, "exit") /\ UNCHANGED uploaded
     \/ Type(c, <<"1", NL>>) /\ Go(c, "send") /\ UNCHANGED uploaded
     \/ Type(c, <<"2", NL>>) /\ Go(c, "name") /\ uploaded' = [uploaded EXCEPT ![c] = <<>>]

TypeLine(c) ==
  /\ place[c] = "send"
  /\ \/ \E m \in Messages : Type(c, m) /\ UNCHANGED place
     \/ Type(c, <<NL>>) /\ Go(c, "select")
  /\ UNCHANGED uploaded

OpenFails(c) ==
  /\ place[c] = "name"
  /\ Type(c, <<NUL>>)
  /\ Go(c, "select")
  /\ UNCHANGED uploaded

Open(c) ==
  /\ place[c] = "name"
  /\ ServerWaits
  /\ Go(c, "body")
  /\ UNCHANGED <<serverVars, netVars, uploaded, plain>>

\* The pieces of a file follow one another at once.
SendChunk(c) ==
  /\ place[c] = "body"
  /\ \E chunk \in Chunks :
       /\ Len(uploaded[c]) + Len(chunk) <= MaxFile
       /\ Put(c, chunk)
       /\ uploaded' = [uploaded EXCEPT ![c] = @ \o chunk]
       /\ plain' = [plain EXCEPT ![c] = @ /\ Listening(c) /\ CString(chunk) = chunk]
  /\ UNCHANGED place

EndOfFile(c) ==
  /\ place[c] = "body"
  /\ Go(c, "pause")
  /\ UNCHANGED <<serverVars, netVars, uploaded, plain>>

\* Mutant of SendEnd: the sleep of line 187 is missing.
SendEndAtOnce(c) ==
  /\ place[c] = "pause"
  /\ Put(c, <<NUL>>)
  /\ plain' = [plain EXCEPT ![c] = @ /\ Listening(c)]
  /\ Go(c, "select")
  /\ UNCHANGED uploaded

\* After its sleep, which is as long as the server's: of a connection that
\* is served everything has been read.
SendEnd(c) ==
  /\ place[c] = "pause"
  /\ conn_sock = c => c2s[c] = <<>>
  /\ Type(c, <<NUL>>)
  /\ Go(c, "select")
  /\ UNCHANGED uploaded

\* The client ends: after "0", after a failed send, or because it is killed.
HangUp(c) ==
  /\ place[c] # "off"
  /\ Go(c, "off")
  /\ hungUp' = [hungUp EXCEPT ![c] = Connected(c)]
  /\ uploaded' = [uploaded EXCEPT ![c] = <<>>] /\ plain' = [plain EXCEPT ![c] = TRUE]
  /\ UNCHANGED <<serverVars, backlog, c2s>>

(***************************************************************************)
(* The server.                                                             *)
(***************************************************************************)

Accept ==
  /\ at = "accept" /\ backlog # <<>>
  /\ at' = "recv" /\ conn_sock' = Head(backlog) /\ backlog' = Tail(backlog)
  /\ client_status' = SELECT_IN_PROGRESS /\ printed' = <<>>
  /\ UNCHANGED <<c2s, hungUp, clientVars>>

\* Mutant of Close: close(conn_sock) is missing.
CloseForgotten ==
  /\ at' = "accept" /\ conn_sock' = Nobody
  /\ client_status' = SELECT_IN_PROGRESS /\ printed' = <<>>
  /\ UNCHANGED <<netVars, clientVars>>

\* close(conn_sock): the kernel forgets what was not read.
Close ==
  /\ at' = "accept" /\ conn_sock' = Nobody
  /\ c2s' = [c2s EXCEPT ![conn_sock] = <<>>] /\ hungUp' = [hungUp EXCEPT ![conn_sock] = FALSE]
  /\ client_status' = SELECT_IN_PROGRESS /\ printed' = <<>>
  /\ UNCHANGED <<backlog, clientVars>>

\* Mutant of RecvEnds: only an error ends the connection, not the end of it.
RecvFailsOnly == at = "recv" /\ hungUp[conn_sock] /\ c2s[conn_sock] # <<>> /\ Close

\* recv returns 0, or -1 if the client has closed with replies unread.
RecvEnds == at = "recv" /\ hungUp[conn_sock] /\ Close

Received == SubSeq(c2s[conn_sock], 1, Min({Len(c2s[conn_sock]), BUFF_SIZE}))
Taken    == c2s' = [c2s EXCEPT ![conn_sock] = SubSeq(@, Len(Received) + 1, Len(@))]

Recv == at = "recv" /\ c2s[conn_sock] # <<>>

RecvChoice ==
  LET choice == Line(Received) IN
  /\ Recv /\ client_status = SELECT_IN_PROGRESS
  /\ \/ choice = <<"0">> /\ Close
     \/ /\ choice # <<"0">>
        /\ Taken
        /\ client_status' = CASE choice = <<"1">> -> SEND_MESSAGE
                              [] choice = <<"2">> -> UPLOAD_FILE
                              [] OTHER            -> client_status
        /\ printed' = IF choice = <<"2">> THEN <<>> ELSE printed
        /\ UNCHANGED <<at, conn_sock, backlog, hungUp, clientVars>>

\* Nothing ends the messages; other characters are answered "Invalid
\* message"; else the letters are sent, and the digits after a sleep.  A
\* send to a client that has gone may fail.
RecvMessage ==
  LET message == Line(Received) IN
  /\ Recv /\ client_status = SEND_MESSAGE
  /\ \/ message # <<>> /\ hungUp[conn_sock] /\ Close
     \/ /\ Taken
        /\ at' = IF message # <<>> /\ IsAlnum(message) THEN "sleep" ELSE at
        /\ client_status' = IF message = <<>> THEN SELECT_IN_PROGRESS ELSE client_status
        /\ UNCHANGED <<conn_sock, printed, backlog, hungUp, clientVars>>

\* What is shown, up to one byte more than a file can have.
Show(bytes) ==
  LET all == printed \o bytes
  IN printed' = SubSeq(all, 1, Min({Len(all), MaxFile + 1}))

\* Mutant of RecvContent: the last byte is cut off, as in the other states.
RecvContentCut ==
  /\ Recv /\ client_status = UPLOAD_FILE
  /\ Taken
  /\ Show(Line(Received))
  /\ client_status' = IF CString(Received) = <<>> THEN SELECT_IN_PROGRESS ELSE client_status
  /\ UNCHANGED <<at, conn_sock, backlog, hungUp, clientVars>>

RecvContent ==
  /\ Recv /\ client_status = UPLOAD_FILE
  /\ Taken
  /\ Show(CString(Received))
  /\ client_status' = IF CString(Received) = <<>> THEN SELECT_IN_PROGRESS ELSE client_status
  /\ UNCHANGED <<at, conn_sock, backlog, hungUp, clientVars>>

\* The process ends, and its connections with it.
Die ==
  /\ at' = "down" /\ conn_sock' = Nobody /\ backlog' = <<>>
  /\ client_status' = SELECT_IN_PROGRESS /\ printed' = <<>>
  /\ c2s' = [c \in Client |-> <<>>] /\ hungUp' = [c \in Client |-> FALSE]
  /\ UNCHANGED clientVars

\* The second send to a client that has gone raises SIGPIPE, if the first
\* one was answered by a reset.
SendDigits ==
  /\ at = "sleep"
  /\ \/ at' = "recv" /\ UNCHANGED <<conn_sock, client_status, printed, netVars, clientVars>>
     \/ hungUp[conn_sock] /\ (Close \/ Die)

Kill == at # "down" /\ Die

Start ==
  /\ at = "down"
  /\ at' = "accept"
  /\ UNCHANGED <<conn_sock, client_status, printed, netVars, clientVars>>

Server == Accept \/ RecvEnds \/ RecvChoice \/ RecvMessage \/ RecvContent \/ SendDigits

User(c) ==
  \/ Connect(c) \/ Choose(c) \/ TypeLine(c) \/ OpenFails(c) \/ Open(c)
  \/ SendChunk(c) \/ EndOfFile(c) \/ SendEnd(c) \/ HangUp(c)

Next == Server \/ Kill \/ Start \/ \E c \in Client : User(c)

Spec == Init /\ [][Next]_vars

\* The server is one thread that the system schedules.  Nothing is assumed
\* of clients and of restarts.
FairSpec == Spec /\ WF_vars(Server)
-----------------------------------------------------------------------------
\* The variables have the values the code can give them; a connection is in
\* one place, and only a connection has bytes or an end under way.
TypeOK ==
  /\ at \in {"down", "accept", "recv", "sleep"}
  /\ conn_sock \in Client \cup {Nobody} /\ (conn_sock # Nobody <=> at \in {"recv", "sleep"})
  /\ client_status \in {SEND_MESSAGE, UPLOAD_FILE, SELECT_IN_PROGRESS}
  /\ \A i \in 1..Len(backlog) : backlog[i] \in Client \ {conn_sock}
  /\ IsInjective(backlog)
  /\ place \in [Client -> Places]
  /\ hungUp \in [Client -> BOOLEAN] /\ plain \in [Client -> BOOLEAN]
  /\ \A c \in Client : ~Connected(c) => c2s[c] = <<>> /\ ~hungUp[c]
  /\ \A c \in Client : Connected(c) /\ place[c] = "off" => hungUp[c]

\* The server waits in recv on the connection of c, which is alive and has
\* been used as the code means it to be.
AtRest(c) == Listening(c) /\ c2s[c] = <<>> /\ place[c] # "off" /\ plain[c]

StatusOf(p) ==
  CASE p = "select"                   -> SELECT_IN_PROGRESS
    [] p = "send"                     -> SEND_MESSAGE
    [] p \in {"name", "body", "pause"} -> UPLOAD_FILE
    [] OTHER                          -> EXIT

\* What the pauses of client.c:187 and of the user are for: whenever all that
\* was sent has been read, the two client_status agree, through every mix of
\* messages, files that do and do not open, and pieces that were joined.
InStep == \A c \in Client : AtRest(c) => client_status = StatusOf(place[c])

\* server.c:161-162: a file is printed whole and unchanged, however its
\* pieces were joined or split, and nothing else is printed with it: not the
\* NUL and not the choice that comes next.
UploadWhole == \A c \in Client : AtRest(c) => printed = uploaded[c]

\* One connection is served at a time (server.c:95): if no client stays for
\* ever, each one that connects is accepted, unless the server ends.
Waiting(c) == \E i \in 1..Len(backlog) : backlog[i] = c
EveryoneServed ==
  (\A c \in Client : []<>(place[c] = "off")) => \A c \in Client : Waiting(c) ~> ~Waiting(c)
=============================================================================
