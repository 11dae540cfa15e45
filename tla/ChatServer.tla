------------------------------- MODULE ChatServer -------------------------------
(***************************************************************************)
(* Homework 7b: the login server of homework 7 with two more states of a   *)
(* connection, one that echoes messages and one that stores files, and its *)
(* client (server.c, client.c).                                            *)
(*                                                                         *)
(* The client keeps a status of its own, which follows the text of the     *)
(* replies.  It sends a line and waits for a reply, except in an upload: a *)
(* name, one second later the pieces of the file, one second later a NUL,  *)
(* and only then a recv.  Nothing but time separates these on the stream.  *)
(*                                                                         *)
(* SelectServer has the slots, select and the steps of a save.  Here a     *)
(* connection is its client, and what the server does with one recv is one *)
(* step: it is one thread, and peers and kernel do not touch its state.    *)
(* account.c is homework 7's, too: of the list only the marks is_signed_in *)
(* are kept, so a login at an account that is not marked may succeed, and  *)
(* any login may be refused.  The file says nothing about marks.           *)
(***************************************************************************)
EXTENDS Integers, SequencesExt

CONSTANTS
  Client,      \* a client is one process after another of one user
  Names,       \* the names in account.txt
  Lines,       \* Lines[c]: what its user can type, besides an empty line
  NUL, NL,     \* the bytes that mean something
  FileNames,   \* FileNames[c]: names of files it can open ...
  BadNames,    \* ... and names of files the server cannot create
  Parts,       \* Parts[t]: the pieces between the underscores of t
  Chunks,      \* what one fread of a client returns
  MaxFile      \* MaxFile[c]: bound on the bytes of its files

\* The bytes of files and the words of lines that can be under way.
Word == {NUL, NL} \cup UNION (Range(Lines) \cup Range(FileNames) \cup {Range(s) : s \in Chunks})

\* What is typed is a word: it is not empty and holds neither a NUL nor a
\* newline but the last.  A name consists of one piece or more.
ASSUME ChatAssumption ==
  /\ DOMAIN Lines = Client /\ DOMAIN FileNames = Client
  /\ "" \notin Names \cup UNION (Range(Lines) \cup Range(FileNames))
  /\ NUL # NL /\ {NUL, NL} \cap UNION (Range(Lines) \cup Range(FileNames)) = {}
  /\ Names \cup UNION Range(FileNames) \subseteq DOMAIN Parts
  /\ \A t \in DOMAIN Parts : Parts[t] \in Seq(Range(Parts[t])) \ {<<>>}
  /\ Chunks \subseteq Seq(Word)
  /\ MaxFile \in [Client -> Nat]

\* The states of a connection, and none.
USERNAME_REQUIRED == 1
PASSWORD_REQUIRED == 2
VALID_CREDENTIALS == 3
SEND_MESSAGE      == 8
UPLOAD_IMAGE      == 9
NoStatus          == -1

\* The states of the client, which has other numbers for the same names.
ClientStates == {"NOT_SIGNED_IN", "SIGNED_IN", "SEND_MESSAGE", "UPLOAD_IMAGE"}

Other == "menu"    \* a reply no client looks for: prompts, refusals, "image uploaded"

VARIABLES
  up,
  is_signed_in, \* the accounts marked
  clientStatus,
  username,     \* a string is the sequence of its words and bytes
  image,        \* image[c]: the path of the file c uploads; <<>> is ""
  images,       \* the content of the files that image names
  freed,        \* what the memory of the image freed last still holds
  c2s, s2c,     \* what is under way to and from the server
  hungUp,       \* c has closed, the server has not noticed
  place,        \* of the client: "off", "type", "body" of an upload, "await"
  status,       \* of the client
  sent,         \* history: the bytes of the file c has sent
  apart,        \* history: c and the server have stopped to agree
  shared        \* history: the file of c may hold what others have uploaded

entryVars  == <<clientStatus, username>>
imageVars  == <<image, images, freed>>
netVars    == <<c2s, s2c, hungUp>>
clientVars == <<place, status, sent>>
historyVars == <<apart, shared>>
vars       == <<up, is_signed_in, entryVars, imageVars, netVars, clientVars, historyVars>>

(***************************************************************************)
(* Strings.                                                                *)
(***************************************************************************)

CString(bytes) ==
  LET ends == {i \in 1..Len(bytes) : bytes[i] = NUL}
  IN SubSeq(bytes, 1, IF ends = {} THEN Len(bytes) ELSE Min(ends) - 1)

\* The last byte of what was received becomes NUL (lines 154, 263).
Line(bytes) == CString(Front(bytes))

Pieces(string) ==
  IF string = <<>> THEN <<"">>
  ELSE FlattenSeq([i \in 1..Len(string) |->
         IF string[i] \in DOMAIN Parts THEN Parts[string[i]] ELSE <<string[i]>>])

\* The name of the user, "_" and the name of the file.
Path(u, name) == Pieces(u) \o Pieces(name)

\* The accounts process_login and process_logout find: one, or none.
Found(u) == {n \in Names : u = <<n>>}

Connected(c) == clientStatus[c] # NoStatus

\* As in UploadStream: the server is faster than a user who types and than
\* the sleep(1) of a client.
ServerWaits == \A c \in Client : c2s[c] = <<>> /\ ~hungUp[c]

\* Of the files only those matter that image names; of another one it is
\* not known what it holds, and it is taken to be empty.
Keep(f) == images' = [p \in {image'[c] : c \in Client} \ {<<>>} |->
                        IF p \in DOMAIN f THEN f[p] ELSE <<>>]

Init ==
  /\ up = FALSE /\ is_signed_in = {}
  /\ clientStatus = [c \in Client |-> NoStatus] /\ username = [c \in Client |-> <<>>]
  /\ image = [c \in Client |-> <<>>] /\ images = <<>> /\ freed = <<>>
  /\ c2s = [c \in Client |-> <<>>] /\ s2c = [c \in Client |-> <<>>]
  /\ hungUp = [c \in Client |-> FALSE]
  /\ place = [c \in Client |-> "off"] /\ status = [c \in Client |-> "NOT_SIGNED_IN"]
  /\ sent = [c \in Client |-> <<>>] /\ apart = [c \in Client |-> FALSE]
  /\ shared = [c \in Client |-> FALSE]

(***************************************************************************)
(* The client.                                                             *)
(***************************************************************************)

\* connect and accept.  image[i] is what malloc returns, and nothing is
\* stored there: it is empty, or it still holds the path it was freed with.
Launch(c) ==
  /\ up /\ place[c] = "off" /\ ~Connected(c)
  /\ place' = [place EXCEPT ![c] = "type"]
  /\ status' = [status EXCEPT ![c] = "NOT_SIGNED_IN"]
  /\ clientStatus' = [clientStatus EXCEPT ![c] = USERNAME_REQUIRED]
  /\ \E memory \in {<<>>, freed} :
       /\ image' = [image EXCEPT ![c] = memory]
       /\ shared' = [shared EXCEPT ![c] = memory # <<>>]
  /\ Keep(images)
  /\ UNCHANGED <<up, is_signed_in, username, freed, netVars, sent, apart>>

\* A send; on a connection that is gone it is lost.
Put(c, bytes) ==
  /\ c2s' = IF Connected(c) THEN [c2s EXCEPT ![c] = @ \o bytes] ELSE c2s
  /\ UNCHANGED <<up, is_signed_in, entryVars, imageVars, s2c, hungUp>>

\* What the user does next, after the server has done all there was to do.
\* When client and server have stopped to agree the user gives up: the model
\* follows them to the end of the upload, not further.
Turn(c) == place[c] = "type" /\ ServerWaits /\ ~apart[c]

\* A line.  The echo of a message that reads like a reply of the server
\* takes the client out of its mode.
Type(c) ==
  /\ Turn(c)
  /\ \/ Put(c, <<NL>>) /\ UNCHANGED apart
     \/ /\ status[c] # "UPLOAD_IMAGE"
        /\ \E line \in Lines[c] :
             /\ Put(c, <<line, NL>>)
             /\ apart' = [apart EXCEPT ![c] =
                            status[c] = "SEND_MESSAGE" /\ line = "Exited send message mode"]
  /\ place' = [place EXCEPT ![c] = "await"]
  /\ UNCHANGED <<status, sent, shared>>

\* A name in upload mode.  One that does not open changes nothing.
SendName(c) ==
  /\ Turn(c) /\ status[c] = "UPLOAD_IMAGE"
  /\ \E name \in FileNames[c] : Put(c, <<name, NL>>)
  /\ place' = [place EXCEPT ![c] = "body"]
  /\ sent' = [sent EXCEPT ![c] = <<>>]
  /\ UNCHANGED <<status, historyVars>>

\* The first piece after a second, the others at once.
SendChunk(c) ==
  /\ place[c] = "body" /\ (sent[c] = <<>> => ServerWaits)
  /\ \E chunk \in Chunks :
       /\ Len(sent[c]) + Len(chunk) <= MaxFile[c]
       /\ Put(c, chunk)
       /\ sent' = [sent EXCEPT ![c] = @ \o chunk]
  /\ UNCHANGED <<place, status, historyVars>>

\* Mutant of SendEnd: the sleep of line 105 of client.c is missing.
SendEndAtOnce(c) ==
  /\ place[c] = "body" /\ (sent[c] = <<>> => ServerWaits)
  /\ Put(c, <<NUL>>)
  /\ place' = [place EXCEPT ![c] = "await"]
  /\ UNCHANGED <<status, sent, historyVars>>

SendEnd(c) ==
  /\ place[c] = "body" /\ ServerWaits
  /\ Put(c, <<NUL>>)
  /\ place' = [place EXCEPT ![c] = "await"]
  /\ UNCHANGED <<status, sent, historyVars>>

\* The status after a reply; strstr finds a text anywhere in it.
Follow(s, reply) ==
  LET has(text) == text \in Range(reply) IN
  CASE s = "NOT_SIGNED_IN" /\ has("welcome")                  -> "SIGNED_IN"
    [] s = "SIGNED_IN" /\ has("signed out")                   -> "NOT_SIGNED_IN"
    [] s = "SIGNED_IN" /\ has("Entered send message mode")    -> "SEND_MESSAGE"
    [] s = "SIGNED_IN" /\ has("Entered upload image mode")    -> "UPLOAD_IMAGE"
    [] s = "SEND_MESSAGE" /\ has("Exited send message mode")  -> "SIGNED_IN"
    [] s = "UPLOAD_IMAGE" /\ has("Exited upload image mode")  -> "SIGNED_IN"
    [] OTHER                                                  -> s

\* The process ends; the server will notice.
Gone(c) ==
  /\ place' = [place EXCEPT ![c] = "off"] /\ status' = [status EXCEPT ![c] = "NOT_SIGNED_IN"]
  /\ sent' = [sent EXCEPT ![c] = <<>>] /\ apart' = [apart EXCEPT ![c] = FALSE]
  /\ shared' = [shared EXCEPT ![c] = FALSE]
  /\ s2c' = [s2c EXCEPT ![c] = <<>>] /\ hungUp' = [hungUp EXCEPT ![c] = Connected(c)]
  /\ UNCHANGED <<up, is_signed_in, entryVars, imageVars, c2s>>

RecvReply(c) ==
  /\ place[c] = "await" /\ s2c[c] # <<>>
  /\ \/ status[c] = "NOT_SIGNED_IN" /\ s2c[c] = <<"goodbye">> /\ Gone(c)
     \/ /\ ~(status[c] = "NOT_SIGNED_IN" /\ s2c[c] = <<"goodbye">>)
        /\ status' = [status EXCEPT ![c] = Follow(@, s2c[c])]
        /\ s2c' = [s2c EXCEPT ![c] = <<>>]
        /\ place' = [place EXCEPT ![c] = "type"]
        /\ sent' = [sent EXCEPT ![c] = <<>>]
        /\ UNCHANGED <<up, is_signed_in, entryVars, imageVars, c2s, hungUp, historyVars>>

\* The connection is gone: the next send raises SIGPIPE.
RecvNothing(c) == place[c] = "await" /\ s2c[c] = <<>> /\ ~Connected(c) /\ Gone(c)

HangUp(c) == place[c] # "off" /\ Gone(c)

(***************************************************************************)
(* The server.                                                             *)
(***************************************************************************)

Start ==
  /\ ~up /\ up' = TRUE
  /\ UNCHANGED <<is_signed_in, entryVars, imageVars, netVars, clientVars, historyVars>>

Die ==
  /\ up' = FALSE /\ is_signed_in' = {}
  /\ clientStatus' = [c \in Client |-> NoStatus] /\ username' = [c \in Client |-> <<>>]
  /\ image' = [c \in Client |-> <<>>] /\ images' = <<>> /\ freed' = <<>>
  /\ c2s' = [c \in Client |-> <<>>] /\ hungUp' = [c \in Client |-> FALSE]
  /\ UNCHANGED <<s2c, clientVars, historyVars>>

Kill == up /\ Die

\* free, and save_to_file, during which the process may die (Kill).
Close(c) ==
  /\ clientStatus' = [clientStatus EXCEPT ![c] = NoStatus]
  /\ username' = [username EXCEPT ![c] = <<>>]
  /\ image' = [image EXCEPT ![c] = <<>>] /\ freed' = image[c] /\ Keep(images)
  /\ c2s' = [c2s EXCEPT ![c] = <<>>] /\ hungUp' = [hungUp EXCEPT ![c] = FALSE]
  /\ UNCHANGED <<up, is_signed_in, s2c, clientVars, historyVars>>

RecvEnds(c) == hungUp[c] /\ Close(c)

Recv(c, s) == clientStatus[c] = s /\ c2s[c] # <<>>

\* The end of a handler: the state it leaves and the reply.  A send that
\* fails closes as the recv that follows it would, which is RecvEnds.
Reply(c, s, text) ==
  /\ clientStatus' = [clientStatus EXCEPT ![c] = s]
  /\ c2s' = [c2s EXCEPT ![c] = <<>>]
  /\ s2c' = IF hungUp[c] THEN s2c ELSE [s2c EXCEPT ![c] = @ \o text]
  /\ UNCHANGED <<up, hungUp, clientVars>>

EnterUsername(c) ==
  LET line == Line(c2s[c]) IN
  /\ Recv(c, USERNAME_REQUIRED)
  /\ \/ line = <<>> /\ Reply(c, USERNAME_REQUIRED, <<"goodbye">>) /\ UNCHANGED username
     \/ /\ line # <<>>
        /\ Reply(c, PASSWORD_REQUIRED, <<Other>>)
        /\ username' = [username EXCEPT ![c] = line]
  /\ UNCHANGED <<is_signed_in, imageVars, historyVars>>

\* process_login, which clears the name if it refuses it.
SignIn(c) ==
  /\ Recv(c, PASSWORD_REQUIRED)
  /\ \E n \in Found(username[c]) \ is_signed_in : is_signed_in' = is_signed_in \cup {n}
  /\ Reply(c, VALID_CREDENTIALS, <<"welcome">>)
  /\ UNCHANGED <<username, imageVars, historyVars>>

\* Mutant of Refuse: line 194 is missing, and the answer stays the state.
RefuseKeepsAnswer(c) ==
  /\ Recv(c, PASSWORD_REQUIRED)
  /\ Reply(c, 4, <<Other>>)
  /\ username' = [username EXCEPT ![c] = <<>>]
  /\ UNCHANGED <<is_signed_in, imageVars, historyVars>>

Refuse(c) ==
  /\ Recv(c, PASSWORD_REQUIRED)
  /\ Reply(c, USERNAME_REQUIRED, <<Other>>)
  /\ username' = [username EXCEPT ![c] = <<>>]
  /\ UNCHANGED <<is_signed_in, imageVars, historyVars>>

SignOut(c) ==
  /\ Recv(c, VALID_CREDENTIALS) /\ Line(c2s[c]) = <<"signout">>
  /\ Reply(c, USERNAME_REQUIRED, <<"signed out">>)
  /\ is_signed_in' = is_signed_in \ Found(username[c])
  /\ username' = [username EXCEPT ![c] = <<>>]
  /\ UNCHANGED <<imageVars, historyVars>>

Command(c) ==
  LET line == Line(c2s[c]) IN
  /\ Recv(c, VALID_CREDENTIALS) /\ line # <<"signout">>
  /\ CASE line = <<"send message">> -> Reply(c, SEND_MESSAGE, <<"Entered send message mode">>)
       [] line = <<"upload image">> -> Reply(c, UPLOAD_IMAGE, <<"Entered upload image mode">>)
       [] OTHER                     -> Reply(c, VALID_CREDENTIALS, <<Other>>)
  /\ UNCHANGED <<is_signed_in, username, imageVars, historyVars>>

Message(c) ==
  LET line == Line(c2s[c]) IN
  /\ Recv(c, SEND_MESSAGE)
  /\ IF line = <<>> THEN Reply(c, VALID_CREDENTIALS, <<"Exited send message mode">>)
                    ELSE Reply(c, SEND_MESSAGE, line)
  /\ UNCHANGED <<is_signed_in, username, imageVars, historyVars>>

\* Every upload state but the first two replies nothing: send has 0 bytes.
\* Read while its client is still sending, a piece that is "\n" or begins
\* with a NUL is taken for the end of the mode or of the file.
LeaveUpload(c) ==
  /\ Recv(c, UPLOAD_IMAGE) /\ CString(c2s[c]) = <<NL>>
  /\ Reply(c, VALID_CREDENTIALS, <<"Exited upload image mode">>)
  /\ apart' = [apart EXCEPT ![c] = @ \/ place[c] = "body"]
  /\ UNCHANGED <<is_signed_in, username, imageVars, shared>>

\* Mutant of EndImage: the memset of line 255 is missing.
EndImageKeepsName(c) ==
  /\ Recv(c, UPLOAD_IMAGE) /\ CString(c2s[c]) = <<>> /\ image[c] # <<>>
  /\ Reply(c, UPLOAD_IMAGE, <<Other>>)
  /\ apart' = [apart EXCEPT ![c] = @ \/ place[c] = "body"]
  /\ UNCHANGED <<is_signed_in, username, imageVars, shared>>

EndImage(c) ==
  /\ Recv(c, UPLOAD_IMAGE) /\ CString(c2s[c]) = <<>> /\ image[c] # <<>>
  /\ Reply(c, UPLOAD_IMAGE, <<Other>>)
  /\ image' = [image EXCEPT ![c] = <<>>] /\ UNCHANGED freed /\ Keep(images)
  /\ apart' = [apart EXCEPT ![c] = @ \/ place[c] = "body"]
  /\ UNCHANGED <<is_signed_in, username, shared>>

\* image[c] is path, and its file becomes content, of which one byte more is
\* kept than a client sends; whoever else uploads to it loses what was there.
WriteImage(c, path, content) ==
  /\ image' = [image EXCEPT ![c] = path] /\ UNCHANGED freed
  /\ LET kept == SubSeq(content, 1, Min({Len(content), MaxFile[c] + 1}))
     IN Keep([p \in DOMAIN images \cup {path} |-> IF p = path THEN kept ELSE images[p]])
  /\ shared' = [d \in Client |-> shared[d] \/ (d # c /\ image[d] = path)]
  /\ UNCHANGED apart

\* Mutant of AppendImage: the last byte is cut off, as in the other states.
AppendCut(c) ==
  /\ Recv(c, UPLOAD_IMAGE) /\ CString(c2s[c]) \notin {<<>>, <<NL>>} /\ image[c] # <<>>
  /\ Reply(c, UPLOAD_IMAGE, <<>>)
  /\ WriteImage(c, image[c], images[image[c]] \o Front(c2s[c]))
  /\ UNCHANGED <<is_signed_in, username>>

AppendImage(c) ==
  /\ Recv(c, UPLOAD_IMAGE) /\ CString(c2s[c]) \notin {<<>>, <<NL>>} /\ image[c] # <<>>
  /\ Reply(c, UPLOAD_IMAGE, <<>>)
  /\ WriteImage(c, image[c], images[image[c]] \o c2s[c])
  /\ UNCHANGED <<is_signed_in, username>>

\* Mutant of NameImage: the username is not put in front.
NameImageBare(c) ==
  /\ Recv(c, UPLOAD_IMAGE) /\ CString(c2s[c]) # <<NL>> /\ image[c] = <<>>
  /\ Reply(c, UPLOAD_IMAGE, <<>>)
  /\ WriteImage(c, Pieces(Line(c2s[c])), <<>>)
  /\ UNCHANGED <<is_signed_in, username>>

\* A file of that name is removed and made anew; one that cannot be made is
\* closed all the same.
NameImage(c) ==
  LET name == Line(c2s[c]) IN
  /\ Recv(c, UPLOAD_IMAGE) /\ CString(c2s[c]) # <<NL>> /\ image[c] = <<>>
  /\ IF \E bad \in BadNames : name = <<bad>>
     THEN Die
     ELSE /\ Reply(c, UPLOAD_IMAGE, <<>>)
          /\ WriteImage(c, Path(username[c], name), <<>>)
          /\ UNCHANGED <<is_signed_in, username>>

Handle(c) ==
  \/ RecvEnds(c) \/ EnterUsername(c) \/ SignIn(c) \/ Refuse(c) \/ SignOut(c)
  \/ Command(c) \/ Message(c) \/ LeaveUpload(c) \/ EndImage(c) \/ AppendImage(c) \/ NameImage(c)

ClientRecv(c) == RecvReply(c) \/ RecvNothing(c)

User(c) == Launch(c) \/ Type(c) \/ SendName(c) \/ SendChunk(c) \/ SendEnd(c) \/ HangUp(c)

Next == Start \/ Kill \/ \E c \in Client : Handle(c) \/ ClientRecv(c) \/ User(c)

Spec == Init /\ [][Next]_vars

\* A pass of the server handles every slot that is ready, so none waits for
\* the others; a client that can return from recv does.
FairSpec == Spec /\ \A c \in Client : WF_vars(Handle(c)) /\ WF_vars(ClientRecv(c))
-----------------------------------------------------------------------------
\* The variables have the values the code can give them; only a connection
\* has a name, an image, bytes under way or an end to be noticed.
TypeOK ==
  /\ up \in BOOLEAN /\ is_signed_in \subseteq Names
  /\ clientStatus \in [Client -> {NoStatus, USERNAME_REQUIRED, PASSWORD_REQUIRED,
                               VALID_CREDENTIALS, SEND_MESSAGE, UPLOAD_IMAGE}]
  /\ \A c \in Client :
       /\ Connected(c) => up /\ (place[c] = "off" => hungUp[c])
       /\ ~Connected(c) => username[c] = <<>> /\ image[c] = <<>> /\ c2s[c] = <<>> /\ ~hungUp[c]
  /\ DOMAIN images = {image[c] : c \in Client} \ {<<>>}
  /\ place \in [Client -> {"off", "type", "body", "await"}]
  /\ status \in [Client -> ClientStates]
  /\ apart \in [Client -> BOOLEAN] /\ shared \in [Client -> BOOLEAN]

\* A client and its connection, used as the code means them to be.
Alive(c) == Connected(c) /\ place[c] # "off" /\ ~apart[c]

StatesOf(s) ==
  CASE s = "NOT_SIGNED_IN" -> {USERNAME_REQUIRED, PASSWORD_REQUIRED}
    [] s = "SIGNED_IN"     -> {VALID_CREDENTIALS}
    [] s = "SEND_MESSAGE"  -> {SEND_MESSAGE}
    [] s = "UPLOAD_IMAGE"  -> {UPLOAD_IMAGE}

\* What client.c:135-166 is for: whenever the user can type, the client is in
\* the mode the server is in, no reply is left over, and in upload mode the
\* server expects a name (server.c:262), through every mix of logins,
\* messages and files.
InStep ==
  \A c \in Client : Alive(c) /\ place[c] = "type" =>
    clientStatus[c] \in StatesOf(status[c]) /\ s2c[c] = <<>> /\ (image[c] # <<>> => shared[c])

\* server.c:269, "prepend the username to the filename": the file written
\* for a client is one of the account it has signed in to and is still
\* marked as using, whatever was uploaded on that connection before.
OwnImage ==
  \A c \in Client : Alive(c) /\ ~shared[c] /\ image[c] # <<>> =>
    /\ clientStatus[c] = UPLOAD_IMAGE
    /\ \E n \in is_signed_in : username[c] = <<n>>
    /\ \E name \in FileNames[c] : image[c] = Path(username[c], <<name>>)

\* "image uploaded" (server.c:256) is said of a file that holds exactly what
\* the client has sent, however its pieces were joined.
Uploaded(c) == image[c] # <<>> /\ image'[c] = <<>> /\ clientStatus'[c] = UPLOAD_IMAGE
UploadWhole ==
  [][\A c \in Client : Uploaded(c) /\ Alive(c) /\ ~apart'[c] /\ ~shared[c] =>
       images[image[c]] = sent[c]]_vars

\* The recv of client.c:127 returns: not every handler replies (lines
\* 258-275), but the last of what a client sends before it waits is always
\* handled by one that does.
Answered == \A c \in Client : (place[c] = "await" /\ ~apart[c]) ~> (place[c] # "await")
=============================================================================
