------------------------------ MODULE UnameServer ------------------------------
(***************************************************************************)
(* Homework 8: a server with one process and select that stores what its   *)
(* clients send, a struct utsname each, in a file per client (server.c,    *)
(* client.c).  The table of connections is three arrays of MAX_CLIENTS and *)
(* a length; closing an entry moves the last one into its place, in the    *)
(* middle of a pass over the table.  A struct utsname has 390 bytes and is *)
(* sent at once; it is taken to arrive whole.                              *)
(***************************************************************************)
EXTENDS Integers, SequencesExt

CONSTANTS
  Peer,          \* the addresses, with port, that connect: the names of files
  MAX_CLIENTS,   \* 5 in the code
  ServerFd,      \* the listening descriptor
  Fd             \* the descriptors of connections

ASSUME UnameAssumption ==
  /\ MAX_CLIENTS \in Nat \ {0} /\ ServerFd \in Nat
  /\ Fd \subseteq Nat /\ IsFiniteSet(Fd) /\ Cardinality(Fd) > MAX_CLIENTS
  /\ \A fd \in Fd : fd > ServerFd

None == 0        \* no descriptor
NoFile == <<>>

VARIABLES
  at,                \* "select", "accept", "scan", "down", or "undefined"
                     \* after a write behind the end of the arrays
  i, activity, temp_fds, read_fds, max_fd,
  client_sockets,    \* the first connected_clients entries of the arrays
  client_names,      \* client_addr and client_ports
  files,             \* files[p]: whose data each record in p's file is
  backlog,           \* connections waiting for accept
  fdOf,              \* fdOf[p]: p's descriptor in the server
  sent,              \* sent[p]: p's data is under way
  closed,            \* closed[p]: "no", "end" or "reset"
  place              \* place[p]: "off", "connected" or "done", which is after
                     \* the send

tableVars  == <<client_sockets, client_names>>
scanVars   == <<i, activity, temp_fds>>
setVars    == <<read_fds, max_fd>>
kernelVars == <<backlog, fdOf, sent, closed>>
vars == <<at, scanVars, setVars, tableVars, files, kernelVars, place>>

connected_clients == Len(client_sockets)

NoConnections == [p \in Peer |-> None]
NothingSent   == [p \in Peer |-> FALSE]
NothingClosed == [p \in Peer |-> "no"]

Init ==
  /\ at = "select" /\ i = 1 /\ activity = 0 /\ temp_fds = {}
  /\ read_fds = {ServerFd} /\ max_fd = ServerFd
  /\ client_sockets = <<>> /\ client_names = <<>>
  /\ files = [p \in Peer |-> NoFile]
  /\ backlog = <<>> /\ fdOf = NoConnections /\ sent = NothingSent /\ closed = NothingClosed
  /\ place = [p \in Peer |-> "off"]

\* The process ends; a file on disk stays.
Die ==
  /\ i' = 1 /\ activity' = 0 /\ temp_fds' = {}
  /\ read_fds' = {ServerFd} /\ max_fd' = ServerFd
  /\ client_sockets' = <<>> /\ client_names' = <<>>
  /\ backlog' = <<>> /\ fdOf' = NoConnections /\ sent' = NothingSent /\ closed' = NothingClosed
  /\ UNCHANGED <<files, place>>

Kill == at \in {"select", "accept", "scan"} /\ Die /\ at' = "down"

Start ==
  /\ at \in {"down", "undefined"}
  /\ at' = "select"
  /\ UNCHANGED <<scanVars, setVars, tableVars, files, kernelVars, place>>

(***************************************************************************)
(* The clients.  Each sends one record and closes, or goes away before; a  *)
(* connection the server has lost is only left.                            *)
(***************************************************************************)

Linked(p) == fdOf[p] # None \/ \E k \in 1..Len(backlog) : backlog[k] = p
Running   == at \in {"select", "accept", "scan"}

Connect(p) ==
  /\ Running /\ place[p] = "off" /\ ~Linked(p)
  /\ backlog' = Append(backlog, p)
  /\ place' = [place EXCEPT ![p] = "connected"]
  /\ UNCHANGED <<at, scanVars, setVars, tableVars, files, fdOf, sent, closed>>

Send(p) ==
  /\ place[p] = "connected" /\ Linked(p)
  /\ sent' = [sent EXCEPT ![p] = TRUE]
  /\ place' = [place EXCEPT ![p] = "done"]
  /\ UNCHANGED <<at, scanVars, setVars, tableVars, files, backlog, fdOf, closed>>

Leave(p) ==
  /\ place[p] # "off"
  /\ place' = [place EXCEPT ![p] = "off"]
  /\ \E how \in {"end", "reset"} :
       closed' = IF Linked(p) THEN [closed EXCEPT ![p] = how] ELSE closed
  /\ UNCHANGED <<at, scanVars, setVars, tableVars, files, backlog, fdOf, sent>>

(***************************************************************************)
(* select and accept.                                                      *)
(***************************************************************************)

Readable(fd) ==
  IF fd = ServerFd THEN backlog # <<>>
  ELSE \E p \in Peer : fdOf[p] = fd /\ (sent[p] \/ closed[p] # "no")
Ready == {fd \in read_fds : fd <= max_fd /\ Readable(fd)}

Select ==
  /\ at = "select" /\ Ready # {}
  /\ temp_fds' = Ready /\ activity' = Cardinality(Ready)
  /\ at' = IF ServerFd \in Ready THEN "accept" ELSE "scan"
  /\ UNCHANGED <<i, setVars, tableVars, files, kernelVars, place>>

\* Mutant of Handled: lines 124 and 183 count down twice.
HandledTwice(j) ==
  IF activity - 2 <= 0
  THEN at' = "select" /\ i' = 1 /\ activity' = 0 /\ temp_fds' = {}
  ELSE at' = "scan" /\ i' = j /\ activity' = activity - 2 /\ UNCHANGED temp_fds

\* One descriptor has been handled, and j is the next index; what the next
\* select sets anew is cleared.
Handled(j) ==
  IF activity - 1 <= 0
  THEN at' = "select" /\ i' = 1 /\ activity' = 0 /\ temp_fds' = {}
  ELSE at' = "scan" /\ i' = j /\ activity' = activity - 1 /\ UNCHANGED temp_fds

\* Mutant of Raised: max_fd stays.
NotRaised(fd) == max_fd' = max_fd
Raised(fd) == max_fd' = IF fd > max_fd THEN fd ELSE max_fd

\* Mutant of Removed: lines 106-109 are missing.
NotRemoved(p) == UNCHANGED files
Removed(p) == files' = [files EXCEPT ![p] = NoFile]

\* A sixth connection is stored behind the end of the arrays: what follows
\* is not defined, and nothing is said of it until the next start.
Accept ==
  LET fd == Min(Fd \ {fdOf[p] : p \in Peer})
      p  == Head(backlog)
  IN /\ at = "accept"
     /\ IF connected_clients = MAX_CLIENTS
        THEN Die /\ at' = "undefined"
        ELSE /\ backlog' = Tail(backlog) /\ fdOf' = [fdOf EXCEPT ![p] = fd]
             /\ client_sockets' = Append(client_sockets, fd)
             /\ client_names' = Append(client_names, p)
             /\ Removed(p)
             /\ read_fds' = read_fds \cup {fd} /\ Raised(fd)
             /\ Handled(1)
             /\ UNCHANGED <<sent, closed, place>>

(***************************************************************************)
(* The pass over the table.  An iteration whose descriptor is not set does *)
(* nothing, so that a step goes to the next one that is.                   *)
(***************************************************************************)

Current == {j \in i..connected_clients : client_sockets[j] \in temp_fds}

\* Step j of the pass, which concerns the connection of p.
Turn(j, p) == at = "scan" /\ Current # {} /\ j = Min(Current) /\ fdOf[p] = client_sockets[j]

EndScan ==
  /\ at = "scan" /\ Current = {}
  /\ at' = "select" /\ i' = 1 /\ activity' = 0 /\ temp_fds' = {}
  /\ UNCHANGED <<setVars, tableVars, files, kernelVars, place>>

\* Mutant of File: the name is that of the newest entry.
FileOfLast(j) == Last(client_names)
File(j) == client_names[j]

\* The record is added to the file of the entry.
RecvRecord(j, p) ==
  /\ Turn(j, p) /\ sent[p] /\ closed[p] # "reset"
  /\ sent' = [sent EXCEPT ![p] = FALSE]
  /\ files' = [files EXCEPT ![File(j)] = Append(@, p)]
  /\ Handled(j + 1)
  /\ UNCHANGED <<setVars, tableVars, backlog, fdOf, closed, place>>

\* The file cannot be opened: exit(1).
RecordFails(j, p) ==
  /\ Turn(j, p) /\ sent[p] /\ closed[p] # "reset"
  /\ Die /\ at' = "down"

\* Mutant of Move: the entry is not overwritten by the last one.
MoveBehind(table, j) == Front(table)
Move(table, j) == Front([table EXCEPT ![j] = Last(table)])

\* Mutant of RecvEnd: FD_CLR comes after line 172, with client_sockets[i].
RecvEndClearsMoved(j, p) ==
  /\ Turn(j, p) /\ closed[p] = "end" /\ ~sent[p]
  /\ fdOf' = [fdOf EXCEPT ![p] = None] /\ closed' = [closed EXCEPT ![p] = "no"]
  /\ client_sockets' = Move(client_sockets, j) /\ client_names' = Move(client_names, j)
  /\ read_fds' = read_fds \ {Last(client_sockets)}
  /\ Handled(j + 1)
  /\ UNCHANGED <<max_fd, files, backlog, sent, place>>

\* recv returns 0.  The pass goes on behind j: the entry moved there is left
\* for the next select.
RecvEnd(j, p) ==
  /\ Turn(j, p) /\ closed[p] = "end" /\ ~sent[p]
  /\ fdOf' = [fdOf EXCEPT ![p] = None] /\ closed' = [closed EXCEPT ![p] = "no"]
  /\ read_fds' = read_fds \ {client_sockets[j]}
  /\ client_sockets' = Move(client_sockets, j) /\ client_names' = Move(client_names, j)
  /\ Handled(j + 1)
  /\ UNCHANGED <<max_fd, files, backlog, sent, place>>

\* recv returns -1, once, and throws away what was not read; the connection
\* stays in the table until the next recv returns 0.
RecvError(j, p) ==
  /\ Turn(j, p) /\ closed[p] = "reset"
  /\ closed' = [closed EXCEPT ![p] = "end"] /\ sent' = [sent EXCEPT ![p] = FALSE]
  /\ Handled(j + 1)
  /\ UNCHANGED <<setVars, tableVars, files, backlog, fdOf, place>>

Server ==
  \/ Select \/ Accept \/ EndScan
  \/ \E j \in 1..MAX_CLIENTS, p \in Peer :
       RecvRecord(j, p) \/ RecordFails(j, p) \/ RecvEnd(j, p) \/ RecvError(j, p)

Next == Server \/ Kill \/ Start \/ \E p \in Peer : Connect(p) \/ Send(p) \/ Leave(p)

Spec == Init /\ [][Next]_vars

\* One thread, which the system schedules; nothing is assumed of clients.
FairSpec == Spec /\ WF_vars(Server)

-----------------------------------------------------------------------------
\* The variables have the values the code can give them.
TypeOK ==
  /\ at \in {"select", "accept", "scan", "down", "undefined"}
  /\ i \in 1..(MAX_CLIENTS + 1) /\ activity \in 0..(MAX_CLIENTS + 1)
  /\ temp_fds \subseteq Fd \cup {ServerFd} /\ read_fds \subseteq Fd \cup {ServerFd}
  /\ max_fd \in Fd \cup {ServerFd}
  /\ client_sockets \in Seq(Fd) /\ connected_clients <= MAX_CLIENTS
  /\ client_names \in Seq(Peer) /\ Len(client_names) = connected_clients
  /\ fdOf \in [Peer -> Fd \cup {None}]
  /\ closed \in [Peer -> {"no", "end", "reset"}]
  /\ place \in [Peer -> {"off", "connected", "done"}] /\ sent \in [Peer -> BOOLEAN]
  /\ \A p \in Peer : Len(files[p]) <= 1

\* However entries were moved (server.c:171-174), the table lists each open
\* connection once and under its own name, and select watches just these.
TableMatchesKernel ==
  /\ IsInjective(client_sockets)
  /\ ToSet(client_sockets) = {fdOf[p] : p \in Peer} \ {None}
  /\ \A j \in 1..connected_clients : fdOf[client_names[j]] = client_sockets[j]
  /\ read_fds = ToSet(client_sockets) \cup {ServerFd}
  /\ \A fd \in read_fds : fd <= max_fd

\* server.c:124 and 183 leave the pass when activity is used up.  No entry
\* that is still to come and has its descriptor set is left out for that,
\* although closing moves entries and an accept counts too.
NoEarlyBreak ==
  [][/\ at = "accept" /\ at' = "select" => Current = {}
     /\ at = "scan" /\ at' = "select"   => Cardinality(Current) <= 1]_vars

\* server.c:105-109 and 150: while a client is connected, its file holds what
\* it has sent on this connection, once and nothing else: not what another
\* has sent, and not what an earlier connection with the same port has left.
SavedAsSent ==
  \A p \in Peer : fdOf[p] # None =>
    /\ files[p] \in {NoFile, <<p>>}
    /\ place[p] = "done" => (files[p] = NoFile <=> sent[p])

\* An entry skipped in one pass is not skipped for ever: all that clients
\* have sent is read.
EveryRecordRead == \A p \in Peer : (fdOf[p] # None /\ sent[p]) ~> ~sent[p]

\* Every client that has gone is taken out of the table, also after an error
\* of recv, which removes nothing (server.c:177-181).
EveryEndNoticed == \A p \in Peer : (fdOf[p] # None /\ closed[p] # "no") ~> fdOf[p] = None
=============================================================================
