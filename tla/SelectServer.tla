----------------------------- MODULE SelectServer -----------------------------
(***************************************************************************)
(* The login server of homework 7 (server.c): one process that waits in    *)
(* select for its listening socket and its connections, keeps a table of   *)
(* slots (client, clientStatus, username), lets each connection sign in to *)
(* one account of account.txt, and rewrites account.txt every time a       *)
(* connection closes.                                                      *)
(*                                                                         *)
(* A step of the server ends where the kernel or a peer can interfere: one *)
(* step for select, one for accept, one for each ready slot, and two for a *)
(* save, which first truncates the file and writes it only later, so that  *)
(* the process can die between the two.  The peers connect, send, hang up; *)
(* the process can be killed at any time and started again.                *)
(*                                                                         *)
(* The bytes that wait on a connection are not state: a recv takes what is *)
(* there, which may be a part of a line or several, so the text it yields  *)
(* is chosen when it is read.                                              *)
(***************************************************************************)
EXTENDS AccountList, Integers

CONSTANTS
  FdSetSize,     \* FD_SETSIZE, also the process's limit of descriptors
  ListenFd,      \* the descriptor socket() returns; those below it are taken
  MaxBacklog,    \* bound: connections waiting to be accepted
  FileCanFail    \* whether fopen of account.txt may fail

Slot   == 0..(FdSetSize - 1)
ConnFd == (ListenFd + 1)..(FdSetSize - 1)
NoFd   == -1
NoStatus == -1

ASSUME ServerAssumption ==
  /\ FdSetSize \in Nat
  /\ ListenFd \in Nat \ {0}
  /\ ListenFd < FdSetSize
  /\ MaxBacklog \in Nat
  /\ FileCanFail \in BOOLEAN

VARIABLES
  pc,            \* where the server is: see Labels
  cursor,        \* the i of the scan of lines 120-234
  readfds,       \* what the last select left in readfds
  checkfds,
  maxfd,
  client,        \* client[i]: descriptor of slot i, or -1
  clientStatus,
  username,      \* username[i]; NULL also stands for memory never written
  account_list,
  file,          \* the content of account.txt
  open,          \* the kernel's side: connections accepted and not closed,
  pending,       \* those of them with bytes to read,
  hungUp,        \* those whose peer has closed or reset,
  backlog        \* and the number of connections not yet accepted

serverVars == <<pc, cursor, readfds, checkfds, maxfd>>
slotVars   == <<client, clientStatus, username>>
kernelVars == <<open, pending, hungUp, backlog>>
vars == <<serverVars, slotVars, account_list, file, kernelVars>>

Labels == {"down", "select", "accept", "scan", "truncate", "write"}
Up == pc # "down"

(***************************************************************************)
(* Start and end of the process.                                           *)
(***************************************************************************)

\* No server runs; account.txt has been prepared by hand.
Init ==
  /\ pc = "down"
  /\ cursor = 0 /\ readfds = {} /\ checkfds = {} /\ maxfd = ListenFd
  /\ client = [i \in Slot |-> NoFd]
  /\ clientStatus = [i \in Slot |-> NoStatus]
  /\ username = [i \in Slot |-> NULL]
  /\ account_list = NULL
  /\ file \in [AccId -> BOOLEAN]
  /\ open = {} /\ pending = {} /\ hungUp = {} /\ backlog = 0

\* The lines before the loop: the list is read, nobody is connected.
Start ==
  /\ pc = "down"
  /\ pc' = "select"
  /\ checkfds' = {ListenFd}
  /\ \/ account_list' = read_account(file)
     \/ FileCanFail /\ account_list' = NULL
  /\ UNCHANGED <<cursor, readfds, maxfd, slotVars, file, kernelVars>>

\* The end of the process, whatever ends it: its memory is gone and the
\* kernel closes its sockets.  Only the file stays as it is.
Die ==
  /\ pc' = "down"
  /\ cursor' = 0 /\ readfds' = {} /\ checkfds' = {} /\ maxfd' = ListenFd
  /\ client' = [i \in Slot |-> NoFd]
  /\ clientStatus' = [i \in Slot |-> NoStatus]
  /\ username' = [i \in Slot |-> NULL]
  /\ account_list' = NULL
  /\ open' = {} /\ pending' = {} /\ hungUp' = {} /\ backlog' = 0

\* Ctrl-C, a SIGPIPE raised by send, a crash of the machine.
Kill == Up /\ Die /\ UNCHANGED file

(***************************************************************************)
(* The peers.                                                              *)
(***************************************************************************)

Connect ==
  /\ Up
  /\ backlog < MaxBacklog
  /\ backlog' = backlog + 1
  /\ UNCHANGED <<serverVars, slotVars, account_list, file, open, pending, hungUp>>

Send(fd) ==
  /\ fd \in open \ (pending \cup hungUp)
  /\ pending' = pending \cup {fd}
  /\ UNCHANGED <<serverVars, slotVars, account_list, file, open, hungUp, backlog>>

HangUp(fd) ==
  /\ fd \in open \ hungUp
  /\ hungUp' = hungUp \cup {fd}
  /\ UNCHANGED <<serverVars, slotVars, account_list, file, open, pending, backlog>>

(***************************************************************************)
(* select and accept.                                                      *)
(***************************************************************************)

Readable == pending \cup hungUp \cup (IF backlog > 0 THEN {ListenFd} ELSE {})

\* A descriptor that is in the set and not open makes select fail, which
\* ends the loop; otherwise select waits for a readable descriptor.
Select ==
  /\ pc = "select"
  /\ LET watched == {fd \in checkfds : fd <= maxfd}
     IN IF watched \subseteq open \cup {ListenFd}
        THEN /\ watched \cap Readable # {}
             /\ readfds' = watched \cap Readable
             /\ pc' = IF ListenFd \in watched \cap Readable THEN "accept" ELSE "scan"
             /\ UNCHANGED <<cursor, checkfds, maxfd, slotVars, account_list, file, kernelVars>>
        ELSE Die /\ UNCHANGED file

FreeSlots == {i \in Slot : client[i] <= 0}
IsFirst(i, S) == i \in S /\ \A j \in S : i <= j

\* Mutant of Accept: maxfd is not raised.
AcceptKeepsMax ==
  /\ pc = "accept"
  /\ backlog > 0
  /\ \E fd \in ConnFd, i \in Slot :
       /\ IsFirst(fd, ConnFd \ open) /\ IsFirst(i, FreeSlots)
       /\ open' = open \cup {fd} /\ checkfds' = checkfds \cup {fd}
       /\ client' = [client EXCEPT ![i] = fd]
       /\ clientStatus' = [clientStatus EXCEPT ![i] = USERNAME_REQUIRED]
       /\ username' = [username EXCEPT ![i] = NULL]
  /\ backlog' = backlog - 1
  /\ pc' = "scan"
  /\ UNCHANGED <<cursor, readfds, maxfd, account_list, file, pending, hungUp>>

\* accept returns the lowest free descriptor; the first free slot gets it.
\* With no free slot the connection is only reported (line 116).
Accept ==
  /\ pc = "accept"
  /\ backlog > 0
  /\ \E fd \in ConnFd :
       /\ IsFirst(fd, ConnFd \ open)
       /\ open' = open \cup {fd}
       /\ IF FreeSlots = {}
          THEN UNCHANGED <<checkfds, maxfd, slotVars>>
          ELSE \E i \in Slot :
                 /\ IsFirst(i, FreeSlots)
                 /\ client' = [client EXCEPT ![i] = fd]
                 /\ clientStatus' = [clientStatus EXCEPT ![i] = USERNAME_REQUIRED]
                 /\ username' = [username EXCEPT ![i] = NULL]
                 /\ checkfds' = checkfds \cup {fd}
                 /\ maxfd' = IF fd > maxfd THEN fd ELSE maxfd
  /\ backlog' = backlog - 1
  /\ pc' = "scan"
  /\ UNCHANGED <<cursor, readfds, account_list, file, pending, hungUp>>

\* With every descriptor taken accept returns -1, which the code does not
\* test: it goes into the slot, and FD_SET(-1) is undefined.  A build that
\* checks it aborts; one that does not sets the bit of a descriptor that is
\* taken and already in the set.  The connection stays in the backlog.
AcceptFails ==
  /\ pc = "accept"
  /\ open = ConnFd
  /\ \/ Die /\ UNCHANGED file
     \/ /\ \E i \in Slot :
             /\ IsFirst(i, FreeSlots)
             /\ client' = [client EXCEPT ![i] = NoFd]
             /\ clientStatus' = [clientStatus EXCEPT ![i] = USERNAME_REQUIRED]
             /\ username' = [username EXCEPT ![i] = NULL]
        /\ pc' = "scan"
        /\ UNCHANGED <<cursor, readfds, checkfds, maxfd, account_list, file, kernelVars>>

(***************************************************************************)
(* The scan of the slots.                                                  *)
(***************************************************************************)

Occupied(i) == client[i] > 0

\* Mutant of ReadySlots: the set select was given is tested, not its copy.
ReadyInCheckfds == {i \in Slot : i >= cursor /\ Occupied(i) /\ client[i] \in checkfds}

ReadySlots == {i \in Slot : i >= cursor /\ Occupied(i) /\ client[i] \in readfds}

\* The next slot whose bit is set in readfds, where recv returns bytes.
Recv(i) ==
  /\ pc = "scan"
  /\ IsFirst(i, ReadySlots)
  /\ client[i] \in pending

\* Mutants of CloseClient: the descriptor stays in checkfds; nothing is saved.
CloseKeepsBit(i) ==
  /\ open' = open \ {client[i]}
  /\ pending' = pending \ {client[i]}
  /\ hungUp' = hungUp \ {client[i]}
  /\ client' = [client EXCEPT ![i] = NoFd]
  /\ clientStatus' = [clientStatus EXCEPT ![i] = NoStatus]
  /\ username' = [username EXCEPT ![i] = NULL]
  /\ pc' = "truncate"
  /\ cursor' = i + 1
  /\ UNCHANGED <<readfds, checkfds, maxfd, file, backlog>>
CloseWithoutSave(i) ==
  /\ checkfds' = checkfds \ {client[i]}
  /\ open' = open \ {client[i]}
  /\ pending' = pending \ {client[i]}
  /\ hungUp' = hungUp \ {client[i]}
  /\ client' = [client EXCEPT ![i] = NoFd]
  /\ clientStatus' = [clientStatus EXCEPT ![i] = NoStatus]
  /\ username' = [username EXCEPT ![i] = NULL]
  /\ cursor' = i + 1
  /\ UNCHANGED <<pc, readfds, maxfd, file, backlog>>

\* Lines 128-137 and 215-224: the connection is forgotten, then saved.  The
\* account it was signed in to stays as it is.
CloseClient(i) ==
  /\ checkfds' = checkfds \ {client[i]}
  /\ open' = open \ {client[i]}
  /\ pending' = pending \ {client[i]}
  /\ hungUp' = hungUp \ {client[i]}
  /\ client' = [client EXCEPT ![i] = NoFd]
  /\ clientStatus' = [clientStatus EXCEPT ![i] = NoStatus]
  /\ username' = [username EXCEPT ![i] = NULL]
  /\ pc' = "truncate"
  /\ cursor' = i + 1
  /\ UNCHANGED <<readfds, maxfd, file, backlog>>

\* recv reports the end of the connection, or its reset, which discards
\* what had been sent.
RecvFails(i) ==
  /\ pc = "scan"
  /\ IsFirst(i, ReadySlots)
  /\ client[i] \in hungUp
  /\ CloseClient(i)
  /\ UNCHANGED account_list

\* Mutant of Reply: the scan ends at the first line.
ReplyEndsScan(i, status, name) ==
  \/ /\ clientStatus' = [clientStatus EXCEPT ![i] = status]
     /\ username' = [username EXCEPT ![i] = name]
     /\ pending' = pending \ {client[i]}
     /\ cursor' = FdSetSize
     /\ UNCHANGED <<pc, readfds, checkfds, maxfd, client, file, open, hungUp, backlog>>
  \/ client[i] \in hungUp /\ CloseClient(i)

\* The end of the handling of a line: the status and the name it leaves, and
\* the reply, whose send fails when the peer has reset the connection.
Reply(i, status, name) ==
  \/ /\ clientStatus' = [clientStatus EXCEPT ![i] = status]
     /\ username' = [username EXCEPT ![i] = name]
     /\ pending' = pending \ {client[i]}
     /\ cursor' = i + 1
     /\ UNCHANGED <<pc, readfds, checkfds, maxfd, client, file, open, hungUp, backlog>>
  \/ client[i] \in hungUp /\ CloseClient(i)

\* An empty line is answered "goodbye" and changes nothing.
EnterUsername(i) ==
  /\ Recv(i)
  /\ clientStatus[i] = USERNAME_REQUIRED
  /\ \/ Reply(i, USERNAME_REQUIRED, username[i])
     \/ \E t \in Text \ {EmptyLine} : Reply(i, PASSWORD_REQUIRED, t)
  /\ UNCHANGED account_list

\* Mutant of EnterPassword: the answer of process_login becomes the status.
EnterPasswordKeepsAnswer(i) ==
  /\ Recv(i)
  /\ clientStatus[i] = PASSWORD_REQUIRED
  /\ \E a \in Lookup(account_list, username[i]), p \in Text :
       /\ Reply(i, LoginAnswer(account_list[a], p = Pass[a]), username[i])
       /\ account_list' = [account_list EXCEPT ![a] = LoginEffect(@, p = Pass[a])]

\* Every answer but VALID_CREDENTIALS leads back to the username.
EnterPassword(i) ==
  /\ Recv(i)
  /\ clientStatus[i] = PASSWORD_REQUIRED
  /\ \/ /\ Lookup(account_list, username[i]) = {}
        /\ Reply(i, USERNAME_REQUIRED, EmptyLine)
        /\ UNCHANGED account_list
     \/ \E a \in Lookup(account_list, username[i]), p \in Text :
          /\ IF LoginAnswer(account_list[a], p = Pass[a]) = VALID_CREDENTIALS
             THEN Reply(i, VALID_CREDENTIALS, username[i])
             ELSE Reply(i, USERNAME_REQUIRED, EmptyLine)
          /\ account_list' = [account_list EXCEPT ![a] = LoginEffect(@, p = Pass[a])]

Command(i) ==
  /\ Recv(i)
  /\ clientStatus[i] = VALID_CREDENTIALS
  /\ \/ /\ Reply(i, USERNAME_REQUIRED, EmptyLine)
        /\ account_list' = Logout(account_list, username[i])
     \/ /\ \E t \in Text : t # SignOutLine
        /\ Reply(i, VALID_CREDENTIALS, username[i])
        /\ UNCHANGED account_list

\* Back to the head of the loop, where i and readfds start afresh.
EndScan ==
  /\ pc = "scan"
  /\ ReadySlots = {}
  /\ pc' = "select"
  /\ cursor' = 0 /\ readfds' = {}
  /\ UNCHANGED <<checkfds, maxfd, slotVars, account_list, file, kernelVars>>

(***************************************************************************)
(* save_to_file.  The text of the list fits the buffer of the stream, so   *)
(* all of it reaches the file at fclose.                                   *)
(***************************************************************************)

\* fopen truncates the file; a NULL list is then dereferenced.
Truncate ==
  /\ pc = "truncate"
  /\ file' = EmptyFile
  /\ IF account_list = NULL
     THEN Die
     ELSE /\ pc' = "write"
          /\ UNCHANGED <<cursor, readfds, checkfds, maxfd, slotVars, account_list, kernelVars>>

\* fopen fails: save_to_file returns and the caller does not notice.
SaveFails ==
  /\ pc = "truncate"
  /\ FileCanFail
  /\ pc' = "scan"
  /\ UNCHANGED <<cursor, readfds, checkfds, maxfd, slotVars, account_list, file, kernelVars>>

\* Mutant of Write: the stream is not closed.
WriteLost ==
  /\ pc = "write"
  /\ pc' = "scan"
  /\ UNCHANGED <<cursor, readfds, checkfds, maxfd, slotVars, account_list, file, kernelVars>>

Write ==
  /\ pc = "write"
  /\ file' = Image(account_list)
  /\ pc' = "scan"
  /\ UNCHANGED <<cursor, readfds, checkfds, maxfd, slotVars, account_list, kernelVars>>

-----------------------------------------------------------------------------
HandleSlot ==
  \E i \in Slot : RecvFails(i) \/ EnterUsername(i) \/ EnterPassword(i) \/ Command(i)

Server == Select \/ Accept \/ AcceptFails \/ HandleSlot \/ EndScan
            \/ Truncate \/ SaveFails \/ Write

Peers == Connect \/ \E fd \in ConnFd : Send(fd) \/ HangUp(fd)

Next == Start \/ Kill \/ Server \/ Peers

Spec == Init /\ [][Next]_vars

\* The process, once started, is scheduled: it takes its next step when it
\* has one.  Peers owe nothing, and nobody has to restart a dead server.
FairSpec == Spec /\ WF_vars(Server)

-----------------------------------------------------------------------------
(***************************************************************************)
(* What must hold.                                                         *)
(***************************************************************************)

\* The types of the variables; a save that gets as far as writing has a list.
TypeOK ==
  /\ pc \in Labels
  /\ cursor \in 0..FdSetSize
  /\ readfds \subseteq ConnFd \cup {ListenFd}
  /\ checkfds \subseteq ConnFd \cup {ListenFd}
  /\ maxfd \in ConnFd \cup {ListenFd}
  /\ client \in [Slot -> ConnFd \cup {NoFd}]
  /\ clientStatus \in [Slot -> {NoStatus, USERNAME_REQUIRED, PASSWORD_REQUIRED, VALID_CREDENTIALS}]
  /\ username \in [Slot -> Text \cup {NULL}]
  /\ account_list \in AccountLists
  /\ pc = "write" => account_list # NULL
  /\ file \in Files
  /\ open \subseteq ConnFd /\ pending \subseteq open /\ hungUp \subseteq open
  /\ backlog \in 0..MaxBacklog

\* The table of slots and the kernel's table agree: two slots never share a
\* descriptor, no open connection is without a slot (line 115 is never true),
\* and select watches exactly the listening socket and what is open, up to
\* the highest of them.
TableMatchesKernel ==
  /\ \A i, j \in Slot : Occupied(i) /\ client[i] = client[j] => i = j
  /\ \A fd \in ConnFd : fd \in open <=> \E i \in Slot : client[i] = fd
  /\ Up => checkfds = open \cup {ListenFd}
  /\ \A fd \in checkfds : fd <= maxfd

\* The server never calls recv where it would block: it is one thread, and
\* everyone else would wait.  A slot not yet scanned whose bit is set has
\* bytes or an end of connection to read, also after an accept and after
\* the closing of other slots in the same pass.
NoBlockingRecv ==
  pc \in {"scan", "truncate", "write"} =>
    \A i \in ReadySlots : client[i] \in pending \cup hungUp

HasSession(i) == Occupied(i) /\ clientStatus[i] = VALID_CREDENTIALS

\* An account is signed in on one connection at a time, for as long as the
\* server runs.
OneWindowPerAccount ==
  \A i, j \in Slot : HasSession(i) /\ HasSession(j) /\ username[i] = username[j] => i = j

\* Whoever the server treats as signed in is so in the list: the session of
\* a slot belongs to a node found by its name, and that node is marked.
SessionIsRegistered ==
  \A i \in Slot : HasSession(i) =>
    \E a \in Lookup(account_list, username[i]) : account_list[a].is_signed_in

\* What account.c:57 ("account already signed in") and the reply of
\* server.c:165 say of a marked account: someone is signed in to it.
SignedInIsHeld ==
  \A a \in AccId : account_list # NULL /\ account_list[a].is_signed_in =>
    \E i \in Slot : HasSession(i) /\ a \in Lookup(account_list, username[i])

\* Nothing is lost by stopping an idle server: once the last connection is
\* closed and its save is over, account.txt says what the list says, if
\* fopen does not fail.
SavedWhenIdle ==
  ~FileCanFail /\ pc \in {"select", "accept", "scan"} /\ open = {} /\ account_list # NULL =>
    file = Image(account_list)

\* account.txt is empty only between the two halves of a save, or because
\* the process died there, after which no list is left to write back.
EmptyOnlyBySaving ==
  file = EmptyFile => pc \in {"write", "down"} \/ account_list = NULL

\* A block that has reached the file is for ever, across kills, restarts and
\* saves that fail or are cut short: no later file calls the account active.
BlockedOnDisk(a) == file # EmptyFile /\ ~file[a]
ActiveOnDisk(a)  == file # EmptyFile /\ file[a]
DiskBlockPermanent ==
  \A a \in AccId : [](BlockedOnDisk(a) => [](~ActiveOnDisk(a)))

\* Within one run of the server a blocked account is never signed in to, and
\* never becomes active again.
BlockIsFinal ==
  [][\A a \in AccId :
       account_list # NULL /\ account_list' # NULL /\ ~account_list[a].is_active =>
         /\ ~account_list'[a].is_active
         /\ account_list'[a].is_signed_in => account_list[a].is_signed_in]_vars

\* Nobody starves: bytes that wait on a connection are read, whatever the
\* other connections send, and an ended connection is closed.
EveryLineRead  == \A fd \in ConnFd : (fd \in pending) ~> (fd \notin pending)
EveryEndNoticed == \A fd \in ConnFd : (fd \in hungUp) ~> (fd \notin hungUp)
=============================================================================
