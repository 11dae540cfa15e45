-------------------------- MODULE SelectServerProofs --------------------------
(***************************************************************************)
(* Proofs about SelectServer, for every number of accounts, slots and      *)
(* descriptors and every account file.                                     *)
(***************************************************************************)
EXTENDS SelectServerRegistry, FiniteSetTheorems, TLAPS

LEMMA EmptyLineType == EmptyLine \in Text
BY AccountsAssumption

LEMMA MaxAttemptsType == MaxAttempts \in Nat /\ MaxAttempts > 0
BY AccountsAssumption

\* What process_login leaves in a node is again a node.
LEMMA LoginEffectType ==
  ASSUME NEW r \in Account, NEW ok \in BOOLEAN
  PROVE  LoginEffect(r, ok) \in Account
<1>1. WrongPassword(r) \in Account
  BY MaxAttemptsType DEF WrongPassword, Account
<1>2. [is_active |-> r.is_active, attempts |-> 0, is_signed_in |-> TRUE] \in Account
  BY MaxAttemptsType DEF Account
<1> QED
  BY <1>1, <1>2 DEF LoginEffect

\* A step of the login at one node of the list, and a logout, keep its shape.
LEMMA LoginListType ==
  ASSUME NEW list \in AccountLists, NEW u, NEW a \in Lookup(list, u), NEW ok \in BOOLEAN
  PROVE  /\ list \in [AccId -> Account] /\ a \in AccId
         /\ [list EXCEPT ![a] = LoginEffect(list[a], ok)] \in [AccId -> Account]
<1>1. list \in [AccId -> Account] /\ a \in AccId
  BY DEF Lookup, AccountLists
<1>2. LoginEffect(list[a], ok) \in Account
  BY <1>1, LoginEffectType
<1> QED
  BY <1>1, <1>2

LEMMA LogoutType ==
  ASSUME NEW list \in AccountLists, NEW u
  PROVE  Logout(list, u) \in AccountLists
<1>1. CASE list = NULL
  BY <1>1 DEF Logout, AccountLists
<1>2. CASE list \in [AccId -> Account]
  BY <1>2 DEF Logout, SignedOut, AccountLists, Account
<1> QED
  BY <1>1, <1>2 DEF AccountLists

LEMMA ReadAccountType ==
  ASSUME NEW f \in Files
  PROVE  read_account(f) \in AccountLists
BY MaxAttemptsType DEF read_account, AccountLists, Files, Account

LEMMA ImageType ==
  ASSUME NEW list \in [AccId -> Account]
  PROVE  Image(list) \in [AccId -> BOOLEAN]
BY DEF Image, Account

-----------------------------------------------------------------------------
(***************************************************************************)
(* The steps that several actions share, and the types they leave.         *)
(***************************************************************************)

LEMMA DieType == TypeOK /\ Die /\ file' \in Files => TypeOK'
BY ServerAssumption DEF TypeOK, Die, Labels, Slot, ConnFd, NoFd, NoStatus, AccountLists

LEMMA CloseClientType ==
  ASSUME TypeOK, NEW i \in Slot, CloseClient(i), account_list' \in AccountLists
  PROVE  TypeOK'
<1>1. pc' \in Labels /\ cursor' \in 0..FdSetSize
  BY ServerAssumption DEF CloseClient, Labels, Slot
<1>2. open' \subseteq ConnFd /\ pending' \subseteq open' /\ hungUp' \subseteq open'
  BY DEF CloseClient, TypeOK
<1> QED
  BY <1>1, <1>2 DEF TypeOK, CloseClient

LEMMA ReplyType ==
  ASSUME TypeOK, NEW i \in Slot, Recv(i),
         NEW status \in {USERNAME_REQUIRED, PASSWORD_REQUIRED, VALID_CREDENTIALS},
         NEW name \in Text \cup {NULL},
         Reply(i, status, name), account_list' \in AccountLists
  PROVE  TypeOK'
<1>1. CASE CloseClient(i)
  BY <1>1, CloseClientType
<1>2. CASE ~CloseClient(i)
  BY <1>2, ServerAssumption DEF TypeOK, Reply, Recv, Slot
<1> QED
  BY <1>1, <1>2

LEMMA InitType == Init => TypeOK
BY ServerAssumption DEF Init, TypeOK, Labels, Slot, ConnFd, NoFd, NoStatus, AccountLists, Files

LEMMA StepType == TypeOK /\ [Next]_vars => TypeOK'
<1> SUFFICES ASSUME TypeOK, [Next]_vars
             PROVE  TypeOK'
  OBVIOUS
<1>1. CASE Start
  <2>1. account_list' \in AccountLists
    BY <1>1, ReadAccountType DEF Start, TypeOK, AccountLists
  <2> QED
    BY <1>1, <2>1 DEF TypeOK, Start, slotVars, kernelVars, Labels
<1>2. CASE Kill
  BY <1>2, DieType DEF Kill, TypeOK
<1>3. CASE Select
  <2>1. CASE Die /\ UNCHANGED file
    BY <2>1, DieType DEF TypeOK
  <2>2. CASE ~(Die /\ UNCHANGED file)
    BY <1>3, <2>2 DEF TypeOK, Select, slotVars, kernelVars, Labels
  <2> QED
    BY <2>1, <2>2
<1>4. CASE Accept
  <2>1. backlog' \in 0..MaxBacklog
    BY <1>4, ServerAssumption DEF Accept, TypeOK
  <2>2. pc' \in Labels
    BY <1>4 DEF Accept, Labels
  <2>3. PICK fd \in ConnFd :
          /\ open' = open \cup {fd}
          /\ \/ UNCHANGED <<checkfds, maxfd, slotVars>>
             \/ \E i \in Slot :
                 /\ client' = [client EXCEPT ![i] = fd]
                 /\ clientStatus' = [clientStatus EXCEPT ![i] = USERNAME_REQUIRED]
                 /\ username' = [username EXCEPT ![i] = NULL]
                 /\ checkfds' = checkfds \cup {fd}
                 /\ maxfd' = IF fd > maxfd THEN fd ELSE maxfd
    BY <1>4 DEF Accept
  <2> QED
    BY <1>4, <2>1, <2>2, <2>3 DEF Accept, TypeOK, slotVars
<1>5. CASE AcceptFails
  <2>1. CASE Die /\ UNCHANGED file
    BY <2>1, DieType DEF TypeOK
  <2>2. CASE ~(Die /\ UNCHANGED file)
    BY <1>5, <2>2 DEF TypeOK, AcceptFails, kernelVars, Labels
  <2> QED
    BY <2>1, <2>2
<1>6. ASSUME NEW i \in Slot, RecvFails(i)
      PROVE  TypeOK'
  BY <1>6, CloseClientType DEF RecvFails, TypeOK
<1>7. ASSUME NEW i \in Slot, EnterUsername(i)
      PROVE  TypeOK'
  <2>1. account_list' \in AccountLists
    BY <1>7 DEF EnterUsername, TypeOK
  <2>2. username[i] \in Text \cup {NULL}
    BY DEF TypeOK
  <2>3. PICK status \in {USERNAME_REQUIRED, PASSWORD_REQUIRED}, name \in Text \cup {NULL} :
          Reply(i, status, name)
    BY <1>7, <2>2, EmptyLineType DEF EnterUsername
  <2> QED
    BY <1>7, <2>1, <2>3, ReplyType DEF EnterUsername
<1>8. ASSUME NEW i \in Slot, EnterPassword(i)
      PROVE  TypeOK'
  <2>1. account_list' \in AccountLists
    <3>1. CASE UNCHANGED account_list
      BY <3>1 DEF TypeOK
    <3>2. CASE \E a \in Lookup(account_list, username[i]), p \in Text :
                 account_list' = [account_list EXCEPT ![a] = LoginEffect(@, p = Pass[a])]
      <4>1. PICK a \in Lookup(account_list, username[i]), p \in Text :
              account_list' = [account_list EXCEPT ![a] = LoginEffect(account_list[a], p = Pass[a])]
        BY <3>2
      <4> QED
        BY <4>1, LoginListType DEF TypeOK, AccountLists
    <3> QED
      BY <1>8, <3>1, <3>2 DEF EnterPassword
  <2>2. username[i] \in Text \cup {NULL}
    BY DEF TypeOK
  <2>3. PICK status \in {USERNAME_REQUIRED, VALID_CREDENTIALS}, name \in Text \cup {NULL} :
          Reply(i, status, name)
    BY <1>8, <2>2, EmptyLineType DEF EnterPassword
  <2> QED
    BY <1>8, <2>1, <2>3, ReplyType DEF EnterPassword
<1>9. ASSUME NEW i \in Slot, Command(i)
      PROVE  TypeOK'
  <2>1. account_list' \in AccountLists
    BY <1>9, LogoutType DEF Command, TypeOK
  <2>2. username[i] \in Text \cup {NULL}
    BY DEF TypeOK
  <2>3. PICK status \in {USERNAME_REQUIRED, VALID_CREDENTIALS}, name \in Text \cup {NULL} :
          Reply(i, status, name)
    BY <1>9, <2>2, EmptyLineType DEF Command
  <2> QED
    BY <1>9, <2>1, <2>3, ReplyType DEF Command
<1>10. CASE EndScan
  BY <1>10, ServerAssumption DEF TypeOK, EndScan, slotVars, kernelVars, Labels
<1>11. CASE Truncate
  <2>1. file' \in Files
    BY <1>11 DEF Truncate, Files
  <2>2. CASE Die
    BY <2>1, <2>2, DieType
  <2>3. CASE ~Die
    BY <1>11, <2>1, <2>3 DEF TypeOK, Truncate, slotVars, kernelVars, Labels
  <2> QED
    BY <2>2, <2>3
<1>12. CASE SaveFails
  BY <1>12 DEF TypeOK, SaveFails, slotVars, kernelVars, Labels
<1>13. CASE Write
  <2>1. Image(account_list) \in Files
    BY <1>13, ImageType DEF Write, TypeOK, AccountLists, Files
  <2> QED
    BY <1>13, <2>1 DEF TypeOK, Write, slotVars, kernelVars, Labels
<1>14. CASE Connect
  BY <1>14, ServerAssumption DEF TypeOK, Connect, serverVars, slotVars
<1>15. ASSUME NEW fd \in ConnFd, Send(fd) \/ HangUp(fd)
       PROVE  TypeOK'
  BY <1>15 DEF TypeOK, Send, HangUp, serverVars, slotVars
<1>16. CASE UNCHANGED vars
  BY <1>16 DEF TypeOK, vars, serverVars, slotVars, kernelVars
<1> QED
  BY <1>1, <1>2, <1>3, <1>4, <1>5, <1>6, <1>7, <1>8, <1>9, <1>10, <1>11, <1>12, <1>13,
     <1>14, <1>15, <1>16 DEF Next, Server, Peers, HandleSlot

\* The variables keep their types: no slot, descriptor or status out of
\* range, no list with a hole, whatever lines arrive and wherever the
\* process dies.
THEOREM TypeCorrect == Spec => []TypeOK
<1>1. Init => TypeOK
  BY InitType
<1>2. TypeOK /\ [Next]_vars => TypeOK'
  BY StepType
<1> QED
  BY <1>1, <1>2, PTL DEF Spec

-----------------------------------------------------------------------------
(***************************************************************************)
(* The table of slots.  A process that is down has none.                   *)
(***************************************************************************)

NothingWhenDown ==
  pc = "down" =>
    /\ readfds = {} /\ checkfds = {} /\ maxfd = ListenFd /\ account_list = NULL
    /\ client = [i \in Slot |-> NoFd]
    /\ open = {} /\ pending = {} /\ hungUp = {} /\ backlog = 0

TableInv == TypeOK /\ NothingWhenDown /\ TableMatchesKernel

\* What the handling of a slot does to the table: nothing, or a closing.
TableFrame == UNCHANGED <<checkfds, maxfd, client, open>>

LEMMA ReplyFrame ==
  ASSUME NEW i \in Slot, NEW status, NEW name, Reply(i, status, name)
  PROVE  /\ CloseClient(i) \/ (TableFrame /\ UNCHANGED <<pc, readfds, hungUp, backlog, file>>)
         /\ cursor' = i + 1 /\ pending' = pending \ {client[i]}
BY DEF Reply, CloseClient, TableFrame

LEMMA HandleSlotFrame ==
  ASSUME NEW i \in Slot,
         RecvFails(i) \/ EnterUsername(i) \/ EnterPassword(i) \/ Command(i)
  PROVE  /\ pc = "scan" /\ IsFirst(i, ReadySlots)
         /\ CloseClient(i) \/ (TableFrame /\ UNCHANGED <<pc, readfds, hungUp, backlog, file>>)
         /\ cursor' = i + 1 /\ pending' = pending \ {client[i]}
<1>1. CASE RecvFails(i)
  BY <1>1 DEF RecvFails, CloseClient
<1>2. CASE EnterUsername(i)
  BY <1>2, ReplyFrame DEF EnterUsername, Recv
<1>3. CASE EnterPassword(i)
  <2>1. PICK status, name : Reply(i, status, name)
    BY <1>3 DEF EnterPassword
  <2> QED
    BY <1>3, <2>1, ReplyFrame DEF EnterPassword, Recv
<1>4. CASE Command(i)
  BY <1>4, ReplyFrame DEF Command, Recv
<1> QED
  BY <1>1, <1>2, <1>3, <1>4

\* A ready slot is occupied.
LEMMA ReadyIsOccupied ==
  ASSUME NEW i, IsFirst(i, ReadySlots)
  PROVE  i \in Slot /\ i >= cursor /\ Occupied(i) /\ client[i] \in readfds
BY DEF IsFirst, ReadySlots

LEMMA DieTable == TypeOK /\ Die => NothingWhenDown' /\ TableMatchesKernel'
BY ServerAssumption DEF Die, NothingWhenDown, TableMatchesKernel, Occupied, Up, NoFd, ConnFd, Slot, TypeOK

LEMMA CloseClientTable ==
  ASSUME TableInv, NEW i \in Slot, Occupied(i), CloseClient(i), pc # "down"
  PROVE  NothingWhenDown' /\ TableMatchesKernel'
<1>1. \A j \in Slot : client'[j] = IF j = i THEN NoFd ELSE client[j]
  BY DEF CloseClient, TableInv, TypeOK
<1>2. client[i] \in ConnFd /\ NoFd \notin ConnFd /\ ~(NoFd > 0)
  BY ServerAssumption DEF TableInv, TypeOK, Occupied, NoFd, ConnFd
<1>3. \A j, k \in Slot : Occupied(j)' /\ client'[j] = client'[k] => j = k
  BY <1>1, <1>2 DEF TableInv, TableMatchesKernel, Occupied
<1>4. \A fd \in ConnFd : fd \in open' <=> \E j \in Slot : client'[j] = fd
  BY <1>1, <1>2 DEF TableInv, TableMatchesKernel, Occupied, CloseClient
<1>5. pc' = "truncate" /\ checkfds' = open' \cup {ListenFd} /\ maxfd' = maxfd
  BY <1>2, ServerAssumption DEF TableInv, TableMatchesKernel, CloseClient, Up, ConnFd
<1> QED
  BY <1>3, <1>4, <1>5 DEF NothingWhenDown, TableInv, TableMatchesKernel, Up, CloseClient

\* There is one slot per descriptor the process can have, and some are
\* taken by other things than connections: by the pigeonhole principle the
\* table is never full, so line 115 is never true.
LEMMA FreeSlotExists == TableInv => FreeSlots # {}
<1> SUFFICES ASSUME TableInv, FreeSlots = {}
             PROVE  FALSE
  OBVIOUS
<1>1. \A i \in Slot : Occupied(i)
  BY DEF FreeSlots, Occupied, TableInv, TypeOK, ConnFd, NoFd
<1>2. client \in [Slot -> ConnFd]
  BY <1>1 DEF Occupied, NoFd, TableInv, TypeOK
<1>3. IsFiniteSet(Slot) /\ Cardinality(Slot) = FdSetSize
  BY FS_Interval, ServerAssumption DEF Slot
<1>4. IsFiniteSet(ConnFd) /\ Cardinality(ConnFd) < FdSetSize
  <2>1. ListenFd + 1 \in Int /\ FdSetSize - 1 \in Int
    BY ServerAssumption
  <2>2. /\ IsFiniteSet(ConnFd)
        /\ Cardinality(ConnFd) = IF ListenFd + 1 > FdSetSize - 1 THEN 0
                                 ELSE (FdSetSize - 1) - (ListenFd + 1) + 1
    BY <2>1, FS_Interval DEF ConnFd
  <2> QED
    BY <2>2, ServerAssumption
<1>5. \E i, j \in Slot : i # j /\ client[i] = client[j]
  BY <1>2, <1>3, <1>4, FS_PigeonHole
<1> QED
  BY <1>1, <1>5 DEF TableInv, TableMatchesKernel

LEMMA AcceptTable == TableInv /\ Accept => NothingWhenDown' /\ TableMatchesKernel'
<1> SUFFICES ASSUME TableInv, Accept
             PROVE  NothingWhenDown' /\ TableMatchesKernel'
  OBVIOUS
<1>0. pc = "accept" /\ pc' = "scan"
  BY DEF Accept
<1>1. PICK fd \in ConnFd, i \in Slot :
        /\ fd \notin open /\ open' = open \cup {fd}
        /\ client[i] <= 0 /\ client' = [client EXCEPT ![i] = fd]
        /\ checkfds' = checkfds \cup {fd}
        /\ maxfd' = IF fd > maxfd THEN fd ELSE maxfd
  BY FreeSlotExists DEF Accept, IsFirst, FreeSlots
<1>2. \A j \in Slot : client'[j] = IF j = i THEN fd ELSE client[j]
  BY <1>1 DEF TableInv, TypeOK
<1>3. client[i] = NoFd /\ NoFd \notin ConnFd /\ ~(NoFd > 0)
  BY <1>1, ServerAssumption DEF TableInv, TypeOK, NoFd, ConnFd
<1>4. \A j, k \in Slot : Occupied(j)' /\ client'[j] = client'[k] => j = k
  BY <1>1, <1>2 DEF TableInv, TableMatchesKernel, Occupied
<1>5. \A g \in ConnFd : g \in open' <=> \E j \in Slot : client'[j] = g
  BY <1>1, <1>2, <1>3 DEF TableInv, TableMatchesKernel
<1>6. checkfds' = open' \cup {ListenFd}
  BY <1>0, <1>1 DEF TableInv, TableMatchesKernel, Up
<1>7. \A g \in checkfds' : g <= maxfd'
  BY <1>1, ServerAssumption DEF TableInv, TableMatchesKernel, TypeOK, ConnFd
<1> QED
  BY <1>0, <1>4, <1>5, <1>6, <1>7 DEF NothingWhenDown, TableMatchesKernel

LEMMA AcceptFailsTable == TableInv /\ AcceptFails => NothingWhenDown' /\ TableMatchesKernel'
<1> SUFFICES ASSUME TableInv, AcceptFails
             PROVE  NothingWhenDown' /\ TableMatchesKernel'
  OBVIOUS
<1>1. CASE Die
  BY <1>1, DieTable DEF TableInv
<1>2. CASE ~Die
  <2>1. PICK i \in Slot : client[i] <= 0 /\ client' = [client EXCEPT ![i] = NoFd]
    BY <1>2 DEF AcceptFails, IsFirst, FreeSlots
  <2>2. client' = client
    <3>1. client[i] = NoFd
      BY <2>1, ServerAssumption DEF TableInv, TypeOK, ConnFd, NoFd
    <3> QED
      BY <2>1, <3>1 DEF TableInv, TypeOK
  <2> QED
    BY <1>2, <2>2 DEF AcceptFails, TableInv, NothingWhenDown, TableMatchesKernel, Up,
                      Occupied, kernelVars
<1> QED
  BY <1>1, <1>2

LEMMA TableStep == TableInv /\ [Next]_vars => TableInv'
<1> SUFFICES ASSUME TableInv, [Next]_vars
             PROVE  NothingWhenDown' /\ TableMatchesKernel'
  BY StepType DEF TableInv
<1> USE DEF TableInv
<1>1. CASE Start
  BY <1>1, ServerAssumption DEF Start, NothingWhenDown, TableMatchesKernel, Up, Occupied,
                                slotVars, kernelVars
<1>2. CASE Kill
  BY <1>2, DieTable DEF Kill
<1>3. CASE Select
  <2>1. CASE Die
    BY <2>1, DieTable
  <2>2. CASE ~Die
    BY <1>3, <2>2 DEF Select, NothingWhenDown, TableMatchesKernel, Up, Occupied,
                      slotVars, kernelVars
  <2> QED
    BY <2>1, <2>2
<1>4. CASE Accept
  BY <1>4, AcceptTable
<1>5. CASE AcceptFails
  BY <1>5, AcceptFailsTable
<1>6. ASSUME NEW i \in Slot,
             RecvFails(i) \/ EnterUsername(i) \/ EnterPassword(i) \/ Command(i)
      PROVE  NothingWhenDown' /\ TableMatchesKernel'
  <2>1. CASE CloseClient(i)
    BY <1>6, <2>1, HandleSlotFrame, ReadyIsOccupied, CloseClientTable
  <2>2. CASE ~CloseClient(i)
    <3>1. TableFrame /\ UNCHANGED pc /\ pc = "scan"
      BY <1>6, <2>2, HandleSlotFrame
    <3> QED
      BY <3>1 DEF TableFrame, NothingWhenDown, TableMatchesKernel, Up, Occupied
  <2> QED
    BY <2>1, <2>2
<1>7. CASE EndScan \/ SaveFails \/ Write
  BY <1>7 DEF EndScan, SaveFails, Write, NothingWhenDown, TableMatchesKernel, Up, Occupied,
              slotVars, kernelVars
<1>8. CASE Truncate
  <2>1. CASE Die
    BY <2>1, DieTable
  <2>2. CASE ~Die
    BY <1>8, <2>2 DEF Truncate, NothingWhenDown, TableMatchesKernel, Up, Occupied,
                      slotVars, kernelVars
  <2> QED
    BY <2>1, <2>2
<1>9. CASE Connect
  BY <1>9 DEF Connect, NothingWhenDown, TableMatchesKernel, Up, Occupied, serverVars, slotVars
<1>10. ASSUME NEW fd \in ConnFd, Send(fd) \/ HangUp(fd)
       PROVE  NothingWhenDown' /\ TableMatchesKernel'
  BY <1>10 DEF Send, HangUp, NothingWhenDown, TableMatchesKernel, Up, Occupied,
               serverVars, slotVars
<1>11. CASE UNCHANGED vars
  BY <1>11 DEF NothingWhenDown, TableMatchesKernel, Up, Occupied,
               vars, serverVars, slotVars, kernelVars
<1> QED
  BY <1>1, <1>2, <1>3, <1>4, <1>5, <1>6, <1>7, <1>8, <1>9, <1>10, <1>11
  DEF Next, Server, Peers, HandleSlot

LEMMA TableInit == Init => TableInv
BY InitType, ServerAssumption DEF Init, TableInv, NothingWhenDown, TableMatchesKernel, Up,
                                  Occupied, NoFd, ConnFd

LEMMA TableAlways == Spec => []TableInv
BY TableInit, TableStep, PTL DEF Spec

\* The table of slots and the kernel's descriptors agree in every state: no
\* descriptor is in two slots, none is leaked, none that is closed stays in
\* the set select watches, and the table never runs full.
THEOREM TableCorrect == Spec => []TableMatchesKernel
<1>1. TableInv => TableMatchesKernel
  BY DEF TableInv
<1> QED
  BY <1>1, TableAlways, PTL

-----------------------------------------------------------------------------
(***************************************************************************)
(* What select reported stays true until the slot is handled: peers only   *)
(* add bytes and ends of connection, and the handling of a slot consumes   *)
(* its own.                                                                *)
(***************************************************************************)

ReportIsTrue == pc = "accept" => readfds \ {ListenFd} \subseteq pending \cup hungUp

ReadyInv == TableInv /\ ReportIsTrue /\ NoBlockingRecv

LEMMA ReadyStep == ReadyInv /\ [Next]_vars => ReadyInv'
<1> SUFFICES ASSUME ReadyInv, [Next]_vars
             PROVE  ReportIsTrue' /\ NoBlockingRecv'
  BY TableStep DEF ReadyInv
<1> USE DEF ReadyInv
<1>0. ListenFd \notin ConnFd /\ NoFd \notin ConnFd /\ ~(NoFd > 0)
  BY ServerAssumption DEF ConnFd, NoFd
<1>1. CASE Start \/ Kill
  BY <1>1 DEF Start, Kill, Die, ReportIsTrue, NoBlockingRecv
<1>2. CASE Select
  <2>1. CASE Die
    BY <2>1 DEF Die, ReportIsTrue, NoBlockingRecv
  <2>2. CASE ~Die
    <3>1. readfds' \subseteq Readable
      BY <1>2, <2>2 DEF Select
    <3>2. readfds' \ {ListenFd} \subseteq pending' \cup hungUp'
      BY <1>2, <2>2, <3>1 DEF Select, Readable, kernelVars
    <3>3. \A i \in ReadySlots' : client'[i] \in readfds' \ {ListenFd}
      BY <1>0, <1>2, <2>2 DEF Select, ReadySlots, Occupied, slotVars, TableInv, TypeOK, NoFd
    <3> QED
      BY <3>2, <3>3 DEF ReportIsTrue, NoBlockingRecv
  <2> QED
    BY <2>1, <2>2
<1>3. CASE Accept
  <2>1. PICK fd \in ConnFd, i \in Slot : fd \notin open /\ client' = [client EXCEPT ![i] = fd]
    BY <1>3, FreeSlotExists DEF Accept, IsFirst, slotVars
  <2>2. fd \notin readfds
    BY <1>0, <1>3, <2>1 DEF Accept, ReportIsTrue, TableInv, TypeOK
  <2>3. \A j \in ReadySlots' : client'[j] \in readfds \ {ListenFd}
    BY <1>0, <1>3, <2>1, <2>2 DEF Accept, ReadySlots, Occupied, TableInv, TypeOK, NoFd
  <2> QED
    BY <1>3, <2>3 DEF Accept, ReportIsTrue, NoBlockingRecv
<1>4. CASE AcceptFails
  <2>1. CASE Die
    BY <2>1 DEF Die, ReportIsTrue, NoBlockingRecv
  <2>2. CASE ~Die
    <3>1. \A j \in ReadySlots' : client'[j] \in readfds \ {ListenFd}
      <4>1. PICK i \in Slot : client' = [client EXCEPT ![i] = NoFd]
        BY <1>4, <2>2 DEF AcceptFails
      <4> QED
        BY <1>0, <1>4, <2>2, <4>1 DEF AcceptFails, ReadySlots, Occupied, TableInv, TypeOK, NoFd
    <3> QED
      BY <1>4, <2>2, <3>1 DEF AcceptFails, ReportIsTrue, NoBlockingRecv, kernelVars
  <2> QED
    BY <2>1, <2>2
<1>5. ASSUME NEW i \in Slot,
             RecvFails(i) \/ EnterUsername(i) \/ EnterPassword(i) \/ Command(i)
      PROVE  ReportIsTrue' /\ NoBlockingRecv'
  <2>1. /\ pc = "scan" /\ i \in ReadySlots
        /\ CloseClient(i) \/ (TableFrame /\ UNCHANGED <<pc, readfds, hungUp>>)
        /\ cursor' = i + 1 /\ pending' = pending \ {client[i]}
    BY <1>5, HandleSlotFrame DEF IsFirst
  <2>2. /\ pc' # "accept" /\ readfds' = readfds /\ hungUp \ {client[i]} \subseteq hungUp'
        /\ \A j \in Slot : client'[j] > 0 => client'[j] = client[j]
        /\ client'[i] > 0 => client'[i] = client[i]
    BY <1>0, <2>1 DEF CloseClient, TableFrame, TableInv, TypeOK
  <2>3. ASSUME NEW j \in ReadySlots'
        PROVE  client'[j] \in pending' \cup hungUp'
    <3>1. j \in Slot /\ j >= i + 1 /\ client'[j] > 0 /\ client'[j] \in readfds
      BY <2>1, <2>2 DEF ReadySlots, Occupied
    <3>2. i \in Slot /\ i >= cursor /\ Occupied(i)
      BY <2>1 DEF ReadySlots
    <3>3. j # i /\ j >= cursor
      BY <3>1, <3>2, ServerAssumption DEF Slot, TableInv, TypeOK
    <3>4. client'[j] = client[j] /\ j \in ReadySlots
      BY <2>2, <3>1, <3>3 DEF ReadySlots, Occupied
    <3>5. client[j] # client[i]
      BY <3>2, <3>1, <3>3 DEF TableInv, TableMatchesKernel
    <3> QED
      BY <2>1, <2>2, <3>4, <3>5 DEF NoBlockingRecv
  <2> QED
    BY <2>2, <2>3 DEF ReportIsTrue, NoBlockingRecv
<1>6. CASE EndScan
  BY <1>6 DEF EndScan, ReportIsTrue, NoBlockingRecv
<1>7. CASE SaveFails \/ Write
  BY <1>7 DEF SaveFails, Write, ReportIsTrue, NoBlockingRecv, ReadySlots, Occupied,
              slotVars, kernelVars
<1>8. CASE Truncate
  BY <1>8 DEF Truncate, Die, ReportIsTrue, NoBlockingRecv, ReadySlots, Occupied,
              slotVars, kernelVars
<1>9. CASE Connect
  BY <1>9 DEF Connect, ReportIsTrue, NoBlockingRecv, ReadySlots, Occupied, serverVars, slotVars
<1>10. ASSUME NEW fd \in ConnFd, Send(fd) \/ HangUp(fd)
       PROVE  ReportIsTrue' /\ NoBlockingRecv'
  BY <1>10 DEF Send, HangUp, ReportIsTrue, NoBlockingRecv, ReadySlots, Occupied,
               serverVars, slotVars
<1>11. CASE UNCHANGED vars
  BY <1>11 DEF ReportIsTrue, NoBlockingRecv, ReadySlots, Occupied,
               vars, serverVars, slotVars, kernelVars
<1> QED
  BY <1>1, <1>2, <1>3, <1>4, <1>5, <1>6, <1>7, <1>8, <1>9, <1>10, <1>11
  DEF Next, Server, Peers, HandleSlot

\* The single thread of the server never blocks in recv, with any number of
\* connections that close, open or send while a pass is under way.
THEOREM RecvNeverBlocks == Spec => []NoBlockingRecv
<1>1. Init => ReadyInv
  BY TableInit DEF Init, ReadyInv, ReportIsTrue, NoBlockingRecv
<1>2. ReadyInv /\ [Next]_vars => ReadyInv'
  BY ReadyStep
<1>3. ReadyInv => NoBlockingRecv
  BY DEF ReadyInv
<1> QED
  BY <1>1, <1>2, <1>3, PTL DEF Spec

-----------------------------------------------------------------------------
(***************************************************************************)
(* Sessions.  That two slots never hold one account needs to know that a   *)
(* slot's session is registered in the list: then process_login, which     *)
(* refuses a node that is marked, refuses the second slot.                 *)
(***************************************************************************)

SessionInv == TableInv /\ SessionIsRegistered /\ OneWindowPerAccount

\* A name finds one node, and two names never find the same.
LEMMA LookupUnique ==
  ASSUME NEW list, NEW u, NEW v, NEW a \in Lookup(list, u), NEW b \in Lookup(list, v)
  PROVE  a = b <=> u = v
<1>1. a \in AccId /\ b \in AccId /\ Name[a] = u /\ Name[b] = v
  BY DEF Lookup
<1>2. ASSUME u = v
      PROVE  a = b
  <2>1. ~(a < b) /\ ~(b < a)
    BY <1>1, <1>2 DEF Lookup
  <2> QED
    BY <1>1, <2>1, AccountsAssumption DEF AccId
<1> QED
  BY <1>1, <1>2

\* The node a name finds depends on the list only through its being NULL.
LEMMA LookupStable ==
  ASSUME NEW list, NEW list2, list # NULL, list2 # NULL, NEW u
  PROVE  Lookup(list2, u) = Lookup(list, u)
BY DEF Lookup

\* Only a successful login marks a node, and only a node that was not marked.
LEMMA LoginMarks ==
  ASSUME NEW r \in Account, NEW ok \in BOOLEAN
  PROVE  /\ LoginAnswer(r, ok) = VALID_CREDENTIALS =>
              ~r.is_signed_in /\ r.is_active /\ LoginEffect(r, ok).is_signed_in
         /\ LoginAnswer(r, ok) # VALID_CREDENTIALS =>
              LoginEffect(r, ok).is_signed_in = r.is_signed_in
         /\ ~r.is_active => ~LoginEffect(r, ok).is_active
<1>1. LoginAnswer(r, ok) = VALID_CREDENTIALS => ok /\ ~r.is_signed_in /\ r.is_active
  <2>1. r.is_signed_in \in BOOLEAN /\ r.is_active \in BOOLEAN /\ r.attempts \in Nat
    BY MaxAttemptsType DEF Account
  <2> QED
    BY <2>1 DEF LoginAnswer, VALID_CREDENTIALS, ACCOUNT_ALREADY_SIGNED_IN,
                ACCOUNT_NOT_ACTIVE, ACCOUNT_BLOCKED, WRONG_PASSWORD
<1> QED
  BY <1>1 DEF LoginEffect, WrongPassword

\* A step that creates no session, renames none and unmarks no node keeps
\* the invariant.
LEMMA NoNewSession ==
  ASSUME SessionIsRegistered, OneWindowPerAccount,
         \A i \in Slot : HasSession(i)' => HasSession(i) /\ username'[i] = username[i],
         account_list # NULL => account_list' # NULL,
         \A i \in Slot, a \in AccId :
           HasSession(i)' /\ a \in Lookup(account_list, username[i])
             /\ account_list[a].is_signed_in => account_list'[a].is_signed_in
  PROVE  SessionIsRegistered' /\ OneWindowPerAccount'
<1>1. SessionIsRegistered'
  <2> SUFFICES ASSUME NEW i \in Slot, HasSession(i)'
               PROVE  \E a \in Lookup(account_list', username'[i]) : account_list'[a].is_signed_in
    BY DEF SessionIsRegistered
  <2>1. PICK a \in Lookup(account_list, username[i]) : account_list[a].is_signed_in
    BY DEF SessionIsRegistered
  <2>2. a \in AccId /\ account_list # NULL
    BY DEF Lookup
  <2>3. Lookup(account_list', username'[i]) = Lookup(account_list, username[i])
    BY <2>2, LookupStable
  <2> QED
    BY <2>1, <2>2, <2>3
<1>2. OneWindowPerAccount'
  BY DEF OneWindowPerAccount
<1> QED
  BY <1>1, <1>2

\* The closing of a slot ends its session and starts none.
LEMMA CloseClientSession ==
  ASSUME TableInv, NEW i \in Slot, CloseClient(i)
  PROVE  /\ ~HasSession(i)'
         /\ \A j \in Slot : HasSession(j)' => HasSession(j) /\ username'[j] = username[j] /\ j # i
<1>1. ~(NoFd > 0)
  BY DEF NoFd
<1> QED
  BY <1>1 DEF CloseClient, HasSession, Occupied, TableInv, TypeOK

\* After the reply to slot i, the sessions are those of the other slots and,
\* if the status says so, that of slot i under the given name.
LEMMA ReplySession ==
  ASSUME TableInv, NEW i \in Slot, NEW status, NEW name, Reply(i, status, name)
  PROVE  /\ \A j \in Slot : HasSession(j)' /\ j # i => HasSession(j) /\ username'[j] = username[j]
         /\ HasSession(i)' => status = VALID_CREDENTIALS /\ username'[i] = name
<1>1. CASE CloseClient(i)
  BY <1>1, CloseClientSession
<1>2. CASE ~CloseClient(i)
  BY <1>2 DEF Reply, HasSession, Occupied, TableInv, TypeOK
<1> QED
  BY <1>1, <1>2

LEMMA EnterPasswordSession ==
  ASSUME SessionInv, NEW i \in Slot, EnterPassword(i)
  PROVE  SessionIsRegistered' /\ OneWindowPerAccount'
<1> USE DEF SessionInv
<1>0. ~HasSession(i)
  BY DEF EnterPassword, HasSession, PASSWORD_REQUIRED, VALID_CREDENTIALS
<1>1. CASE Reply(i, USERNAME_REQUIRED, EmptyLine) /\ UNCHANGED account_list
  <2>1. \A j \in Slot : HasSession(j)' => HasSession(j) /\ username'[j] = username[j]
    BY <1>1, ReplySession DEF USERNAME_REQUIRED, VALID_CREDENTIALS
  <2> QED
    BY <1>1, <2>1, NoNewSession
<1>2. ASSUME NEW a \in Lookup(account_list, username[i]), NEW p \in Text,
             IF LoginAnswer(account_list[a], p = Pass[a]) = VALID_CREDENTIALS
             THEN Reply(i, VALID_CREDENTIALS, username[i])
             ELSE Reply(i, USERNAME_REQUIRED, EmptyLine),
             account_list' = [account_list EXCEPT ![a] = LoginEffect(account_list[a], p = Pass[a])]
      PROVE  SessionIsRegistered' /\ OneWindowPerAccount'
  <2> DEFINE r == account_list[a]
             ok == p = Pass[a]
  <2>1. account_list \in [AccId -> Account] /\ a \in AccId /\ r \in Account /\ account_list # NULL
    BY LoginListType DEF Lookup, TableInv, TypeOK
  <2>2. account_list' # NULL
    <3>1. account_list' \in [AccId -> Account]
      BY <1>2, LoginListType DEF TableInv, TypeOK
    <3> QED
      BY <3>1, NullAssumption DEF Account
  <2>3. \A b \in AccId : account_list'[b] = IF b = a THEN LoginEffect(r, ok) ELSE account_list[b]
    BY <1>2, <2>1
  <2>4. \A b \in AccId : account_list[b].is_signed_in => account_list'[b].is_signed_in
    <3>1. r.is_signed_in => LoginEffect(r, ok).is_signed_in
      <4>1. ok \in BOOLEAN
        OBVIOUS
      <4> QED
        BY <2>1, <4>1, LoginMarks, Zenon
    <3> QED
      BY <2>3, <3>1
  <2>5. CASE LoginAnswer(r, ok) # VALID_CREDENTIALS
    <3>1. \A j \in Slot : HasSession(j)' => HasSession(j) /\ username'[j] = username[j]
      BY <1>2, <2>5, ReplySession DEF USERNAME_REQUIRED, VALID_CREDENTIALS
    <3> QED
      BY <2>2, <2>4, <3>1, NoNewSession
  <2>6. CASE LoginAnswer(r, ok) = VALID_CREDENTIALS
    <3>1. ~r.is_signed_in /\ LoginEffect(r, ok).is_signed_in
      BY <2>1, <2>6, LoginMarks
    <3>2. /\ \A j \in Slot : HasSession(j)' /\ j # i => HasSession(j) /\ username'[j] = username[j]
          /\ HasSession(i)' => username'[i] = username[i]
      BY <1>2, <2>6, ReplySession
    <3>3. \A u : Lookup(account_list', u) = Lookup(account_list, u)
      BY <2>1, <2>2, LookupStable
    <3>4. \A j \in Slot : HasSession(j) => username[j] # username[i]
      BY <3>1, LookupUnique DEF SessionIsRegistered
    <3>5. SessionIsRegistered'
      <4> SUFFICES ASSUME NEW j \in Slot, HasSession(j)'
                   PROVE  \E b \in Lookup(account_list', username'[j]) : account_list'[b].is_signed_in
        BY DEF SessionIsRegistered
      <4>1. CASE j = i
        BY <2>1, <2>3, <3>1, <3>2, <3>3, <4>1
      <4>2. CASE j # i
        <5>1. PICK b \in Lookup(account_list, username[j]) : account_list[b].is_signed_in
          BY <3>2, <4>2 DEF SessionIsRegistered
        <5> QED
          BY <2>4, <3>2, <3>3, <4>2, <5>1 DEF Lookup
      <4> QED
        BY <4>1, <4>2
    <3>6. OneWindowPerAccount'
      BY <3>2, <3>4 DEF OneWindowPerAccount
    <3> QED
      BY <3>5, <3>6
  <2> QED
    BY <2>5, <2>6
<1> QED
  BY <1>1, <1>2 DEF EnterPassword

LEMMA CommandSession ==
  ASSUME SessionInv, NEW i \in Slot, Command(i)
  PROVE  SessionIsRegistered' /\ OneWindowPerAccount'
<1> USE DEF SessionInv
<1>0. HasSession(i)
  BY ReadyIsOccupied DEF Command, Recv, HasSession
<1>1. CASE Reply(i, VALID_CREDENTIALS, username[i]) /\ UNCHANGED account_list
  <2>1. \A j \in Slot : HasSession(j)' => HasSession(j) /\ username'[j] = username[j]
    BY <1>0, <1>1, ReplySession
  <2> QED
    BY <1>1, <2>1, NoNewSession
<1>2. CASE /\ Reply(i, USERNAME_REQUIRED, EmptyLine)
           /\ account_list' = Logout(account_list, username[i])
  <2>1. \A j \in Slot : HasSession(j)' => HasSession(j) /\ username'[j] = username[j] /\ j # i
    BY <1>2, ReplySession DEF USERNAME_REQUIRED, VALID_CREDENTIALS
  <2>2. account_list # NULL => account_list' # NULL
    <3>1. ASSUME account_list # NULL
          PROVE  account_list' \in [AccId -> Account]
      BY <1>2, <3>1 DEF Logout, SignedOut, Account, TableInv, TypeOK, AccountLists
    <3> QED
      BY <3>1, NullAssumption DEF Account
  <2>3. ASSUME NEW j \in Slot, NEW a \in AccId, HasSession(j)',
               a \in Lookup(account_list, username[j]), account_list[a].is_signed_in
        PROVE  account_list'[a].is_signed_in
    <3>1. username[j] # username[i]
      BY <1>0, <2>1, <2>3 DEF OneWindowPerAccount
    <3>2. a \notin Lookup(account_list, username[i])
      BY <2>3, <3>1, LookupUnique
    <3>3. account_list # NULL
      BY <2>3 DEF Lookup
    <3> QED
      BY <1>2, <2>3, <3>2, <3>3 DEF Logout
  <2> QED
    BY <2>1, <2>2, <2>3, NoNewSession
<1> QED
  BY <1>1, <1>2 DEF Command

LEMMA DieSession == TypeOK /\ Die => SessionIsRegistered' /\ OneWindowPerAccount'
BY DEF Die, SessionIsRegistered, OneWindowPerAccount, HasSession, Occupied, NoFd

LEMMA SessionStep == SessionInv /\ [Next]_vars => SessionInv'
<1> SUFFICES ASSUME SessionInv, [Next]_vars
             PROVE  SessionIsRegistered' /\ OneWindowPerAccount'
  BY TableStep DEF SessionInv
<1> USE DEF SessionInv
<1>1. CASE Start
  <2>1. \A i \in Slot : ~HasSession(i)'
    BY <1>1 DEF Start, TableInv, NothingWhenDown, HasSession, Occupied, NoFd, slotVars
  <2> QED
    BY <2>1 DEF SessionIsRegistered, OneWindowPerAccount
<1>2. CASE Die
  BY <1>2, DieSession DEF TableInv
<1>3. CASE UNCHANGED <<slotVars, account_list>>
  BY <1>3 DEF SessionIsRegistered, OneWindowPerAccount, HasSession, Occupied, slotVars
<1>4. CASE ~Die /\ (Accept \/ AcceptFails)
  <2>1. UNCHANGED account_list
    BY <1>4 DEF Accept, AcceptFails
  <2>2. UNCHANGED slotVars \/
        \E i \in Slot : /\ clientStatus' = [clientStatus EXCEPT ![i] = USERNAME_REQUIRED]
                       /\ username' = [username EXCEPT ![i] = NULL]
                       /\ \A j \in Slot : j # i => client'[j] = client[j]
    BY <1>4 DEF Accept, AcceptFails, TableInv, TypeOK
  <2>3. \A j \in Slot : HasSession(j)' => HasSession(j) /\ username'[j] = username[j]
    BY <2>2 DEF HasSession, Occupied, slotVars, TableInv, TypeOK, USERNAME_REQUIRED,
                VALID_CREDENTIALS
  <2> QED
    BY <2>1, <2>3, NoNewSession
<1>5. ASSUME NEW i \in Slot, RecvFails(i)
      PROVE  SessionIsRegistered' /\ OneWindowPerAccount'
  BY <1>5, CloseClientSession, NoNewSession DEF RecvFails
<1>6. ASSUME NEW i \in Slot, EnterUsername(i)
      PROVE  SessionIsRegistered' /\ OneWindowPerAccount'
  <2>1. ~HasSession(i) /\ UNCHANGED account_list
    BY <1>6 DEF EnterUsername, HasSession, USERNAME_REQUIRED, VALID_CREDENTIALS
  <2>2. PICK status, name :
           status \in {USERNAME_REQUIRED, PASSWORD_REQUIRED} /\ Reply(i, status, name)
    BY <1>6 DEF EnterUsername
  <2>3. \A j \in Slot : HasSession(j)' => HasSession(j) /\ username'[j] = username[j]
    BY <2>2, ReplySession DEF USERNAME_REQUIRED, PASSWORD_REQUIRED, VALID_CREDENTIALS
  <2> QED
    BY <2>1, <2>3, NoNewSession
<1>7. ASSUME NEW i \in Slot, EnterPassword(i)
      PROVE  SessionIsRegistered' /\ OneWindowPerAccount'
  BY <1>7, EnterPasswordSession
<1>8. ASSUME NEW i \in Slot, Command(i)
      PROVE  SessionIsRegistered' /\ OneWindowPerAccount'
  BY <1>8, CommandSession
<1>9. ASSUME Select \/ EndScan \/ Truncate \/ SaveFails \/ Write \/ Peers \/ UNCHANGED vars
      PROVE  Die \/ UNCHANGED <<slotVars, account_list>>
  BY <1>9 DEF Select, EndScan, Truncate, SaveFails, Write, Peers, Connect, Send, HangUp, vars
<1> QED
  BY <1>1, <1>2, <1>3, <1>4, <1>5, <1>6, <1>7, <1>8, <1>9 DEF Next, Server, HandleSlot, Kill

\* For every account file, the same name twice included, and any number of
\* connections: no two of them are signed in under one name, and whoever is
\* signed in is marked so in the list.
THEOREM OneWindow == Spec => [](OneWindowPerAccount /\ SessionIsRegistered)
<1>1. Init => SessionInv
  BY TableInit DEF Init, SessionInv, SessionIsRegistered, OneWindowPerAccount, HasSession,
                   Occupied, NoFd
<1>2. SessionInv /\ [Next]_vars => SessionInv'
  BY SessionStep
<1>3. SessionInv => OneWindowPerAccount /\ SessionIsRegistered
  BY DEF SessionInv
<1> QED
  BY <1>1, <1>2, <1>3, PTL DEF Spec

-----------------------------------------------------------------------------
(***************************************************************************)
(* Blocks.  process_login and process_logout change a list without ever    *)
(* activating a node or marking one that is not active; a list is replaced *)
(* only when the process dies or starts, and starts from the file.         *)
(***************************************************************************)

BlocksKept(old, new) ==
  \A a \in AccId : ~old[a].is_active =>
    ~new[a].is_active /\ (new[a].is_signed_in => old[a].is_signed_in)

LEMMA LogoutKeepsBlocks ==
  ASSUME NEW list \in [AccId -> Account], list # NULL, NEW u
  PROVE  BlocksKept(list, Logout(list, u))
BY DEF BlocksKept, Logout, SignedOut, Account

LEMMA LoginKeepsBlocks ==
  ASSUME NEW list \in [AccId -> Account], NEW a \in AccId, NEW ok \in BOOLEAN
  PROVE  BlocksKept(list, [list EXCEPT ![a] = LoginEffect(list[a], ok)])
<1> DEFINE r == list[a]
           new == [list EXCEPT ![a] = LoginEffect(r, ok)]
<1>1. r \in Account
  OBVIOUS
<1>2. ~r.is_active => ~LoginEffect(r, ok).is_active
  BY <1>1, LoginMarks
<1>3. ~r.is_active => LoginEffect(r, ok).is_signed_in = r.is_signed_in
  BY <1>1, LoginMarks
<1>4. \A b \in AccId : new[b] = IF b = a THEN LoginEffect(r, ok) ELSE list[b]
  OBVIOUS
<1> HIDE DEF r, new
<1>5. BlocksKept(list, new)
  <2> SUFFICES ASSUME NEW b \in AccId, ~list[b].is_active
               PROVE  ~new[b].is_active /\ (new[b].is_signed_in => list[b].is_signed_in)
    BY DEF BlocksKept
  <2>1. CASE b = a
    <3>1. list[b] = r /\ new[b] = LoginEffect(r, ok)
      BY <1>4, <2>1 DEF r
    <3> QED
      BY <1>2, <1>3, <3>1, Zenon
  <2>2. CASE b # a
    BY <1>4, <2>2
  <2> QED
    BY <2>1, <2>2
<1> QED
  BY <1>5 DEF new, r

\* What a step does to the list.
LEMMA ListStep ==
  ASSUME TypeOK, [Next]_vars
  PROVE  \/ UNCHANGED account_list
         \/ account_list' = NULL
         \/ Start /\ account_list' = read_account(file)
         \/ /\ account_list \in [AccId -> Account] /\ BlocksKept(account_list, account_list')
            /\ UNCHANGED file
<1>1. ASSUME NEW i \in Slot, EnterPassword(i)
      PROVE  \/ UNCHANGED account_list
             \/ /\ account_list \in [AccId -> Account] /\ BlocksKept(account_list, account_list')
                /\ UNCHANGED file
  <2>1. UNCHANGED file
    BY <1>1 DEF EnterPassword, Reply, CloseClient
  <2>2. CASE ~UNCHANGED account_list
    <3>1. PICK a \in Lookup(account_list, username[i]), p \in Text :
            account_list' = [account_list EXCEPT ![a] = LoginEffect(account_list[a], p = Pass[a])]
      BY <1>1, <2>2 DEF EnterPassword
    <3>2. account_list \in [AccId -> Account] /\ a \in AccId
      BY LoginListType DEF TypeOK
    <3> QED
      BY <2>1, <3>1, <3>2, LoginKeepsBlocks
  <2> QED
    BY <2>2
<1>2. ASSUME NEW i \in Slot, Command(i)
      PROVE  \/ UNCHANGED account_list
             \/ account_list' = NULL
             \/ /\ account_list \in [AccId -> Account] /\ BlocksKept(account_list, account_list')
                /\ UNCHANGED file
  <2>1. UNCHANGED file
    BY <1>2 DEF Command, Reply, CloseClient
  <2>2. account_list' = account_list \/ account_list' = Logout(account_list, username[i])
    BY <1>2 DEF Command
  <2>3. CASE account_list = NULL
    BY <2>2, <2>3 DEF Logout
  <2>4. CASE account_list # NULL
    BY <2>1, <2>2, <2>4, LogoutKeepsBlocks DEF TypeOK, AccountLists
  <2> QED
    BY <2>3, <2>4
<1>3. ASSUME NEW i \in Slot, RecvFails(i) \/ EnterUsername(i)
      PROVE  UNCHANGED account_list
  BY <1>3 DEF RecvFails, EnterUsername
<1>4. CASE Start
  BY <1>4 DEF Start
<1>5. CASE \/ Kill \/ Select \/ Accept \/ AcceptFails \/ EndScan \/ Truncate \/ SaveFails
           \/ Write \/ Peers \/ UNCHANGED vars
  BY <1>5 DEF Kill, Select, Accept, AcceptFails, EndScan, Truncate, SaveFails, Write, Peers,
              Connect, Send, HangUp, Die, vars
<1> QED
  BY <1>1, <1>2, <1>3, <1>4, <1>5 DEF Next, Server, HandleSlot

\* What a step does to the file.
LEMMA FileStep ==
  ASSUME [Next]_vars
  PROVE  \/ UNCHANGED file
         \/ file' = EmptyFile /\ Truncate
         \/ file' = Image(account_list) /\ Write
<1>1. ASSUME NEW i \in Slot,
             RecvFails(i) \/ EnterUsername(i) \/ EnterPassword(i) \/ Command(i)
      PROVE  UNCHANGED file
  BY <1>1, HandleSlotFrame DEF CloseClient
<1>2. CASE \/ Start \/ Kill \/ Select \/ Accept \/ AcceptFails \/ EndScan \/ SaveFails
           \/ Peers \/ UNCHANGED vars
  BY <1>2 DEF Start, Kill, Select, Accept, AcceptFails, EndScan, SaveFails, Peers,
              Connect, Send, HangUp, vars
<1>3. CASE Truncate \/ Write
  BY <1>3 DEF Truncate, Write
<1> QED
  BY <1>1, <1>2, <1>3 DEF Next, Server, HandleSlot

\* While a server runs, nobody is signed in anew to a blocked account and no
\* blocked account becomes active.
THEOREM BlockFinal == Spec => BlockIsFinal
<1> DEFINE Step == \A a \in AccId :
                     account_list # NULL /\ account_list' # NULL /\ ~account_list[a].is_active =>
                       /\ ~account_list'[a].is_active
                       /\ account_list'[a].is_signed_in => account_list[a].is_signed_in
<1>1. TableInv /\ [Next]_vars => [Step]_vars
  <2> SUFFICES ASSUME TableInv, [Next]_vars
               PROVE  Step
    OBVIOUS
  <2>1. Start => account_list = NULL
    BY DEF Start, TableInv, NothingWhenDown
  <2> QED
    BY <2>1, ListStep DEF TableInv, BlocksKept
<1> QED
  BY <1>1, TableAlways, PTL DEF Spec, BlockIsFinal

-----------------------------------------------------------------------------
(***************************************************************************)
(* The file.  An account that is blocked in the file and not active in the *)
(* list can only become active in the file by being written so from the    *)
(* list, and in the list by being read so from the file.                   *)
(***************************************************************************)

NotActive(a) == ~ActiveOnDisk(a) /\ (account_list # NULL => ~account_list[a].is_active)
DiskAgrees == \A a \in AccId : BlockedOnDisk(a) => NotActive(a)

LEMMA NotActiveStep ==
  ASSUME TableInv, [Next]_vars, NEW a \in AccId, NotActive(a)
  PROVE  NotActive(a)'
<1>1. ~ActiveOnDisk(a)'
  <2>1. CASE UNCHANGED file
    BY <2>1 DEF NotActive, ActiveOnDisk
  <2>2. CASE file' = EmptyFile
    BY <2>2 DEF ActiveOnDisk
  <2>3. CASE file' = Image(account_list) /\ Write
    <3>1. account_list # NULL
      BY <2>3 DEF Write, TableInv, TypeOK
    <3> QED
      BY <2>3, <3>1 DEF ActiveOnDisk, Image, NotActive
  <2> QED
    BY <2>1, <2>2, <2>3, FileStep
<1>2. account_list' # NULL => ~account_list'[a].is_active
  <2>1. CASE Start /\ account_list' = read_account(file)
    BY <2>1 DEF read_account, NotActive, ActiveOnDisk
  <2>2. CASE account_list \in [AccId -> Account] /\ BlocksKept(account_list, account_list')
    <3>1. account_list # NULL
      BY <2>2, NullAssumption DEF Account
    <3> QED
      BY <2>2, <3>1 DEF NotActive, BlocksKept
  <2> QED
    BY <2>1, <2>2, ListStep DEF NotActive, TableInv
<1> QED
  BY <1>1, <1>2 DEF NotActive

LEMMA DiskAgreesStep == TableInv /\ DiskAgrees /\ [Next]_vars => DiskAgrees'
<1> SUFFICES ASSUME TableInv, DiskAgrees, [Next]_vars, NEW a \in AccId, BlockedOnDisk(a)'
             PROVE  NotActive(a)'
  BY DEF DiskAgrees
<1>1. CASE NotActive(a)
  BY <1>1, NotActiveStep
<1>2. CASE ~BlockedOnDisk(a) /\ Write
  \* The block reaches the file in this very step.
  <2>1. account_list # NULL /\ account_list' = account_list /\ file' = Image(account_list)
    BY <1>2 DEF Write, TableInv, TypeOK
  <2>2. ~account_list[a].is_active
    BY <2>1 DEF BlockedOnDisk, Image
  <2> QED
    BY <2>1, <2>2 DEF NotActive, ActiveOnDisk, BlockedOnDisk
<1>3. CASE ~BlockedOnDisk(a) /\ ~Write
  BY <1>3, FileStep DEF BlockedOnDisk
<1> QED
  BY <1>1, <1>2, <1>3 DEF DiskAgrees

\* A block that has reached account.txt is never undone: not by a restart,
\* not by a kill in the middle of a save, not by a save that fails.
THEOREM DiskBlockForEver == Spec => DiskBlockPermanent
<1>1. Init => DiskAgrees
  BY DEF Init, DiskAgrees, NotActive, BlockedOnDisk, ActiveOnDisk
<1>2. TableInv /\ DiskAgrees /\ [Next]_vars => DiskAgrees'
  BY DiskAgreesStep
<1>3. Spec => []DiskAgrees
  BY <1>1, <1>2, TableAlways, PTL DEF Spec
<1>4. ASSUME NEW a \in AccId
      PROVE  Spec => [](BlockedOnDisk(a) => [](~ActiveOnDisk(a)))
  <2>1. DiskAgrees /\ BlockedOnDisk(a) => NotActive(a)
    BY DEF DiskAgrees
  <2>2. TableInv /\ [Next]_vars /\ NotActive(a) => NotActive(a)'
    BY NotActiveStep
  <2>3. NotActive(a) => ~ActiveOnDisk(a)
    BY DEF NotActive
  <2> QED
    BY <1>3, <2>1, <2>2, <2>3, TableAlways, PTL DEF Spec
<1> QED
  BY <1>4 DEF DiskBlockPermanent

\* What a stopped server leaves.  Slots are handled only while a connection
\* is open, and the handling that closes the last one goes on to a save.
SaveInv == TableInv /\ SavedWhenIdle /\ EmptyOnlyBySaving

LEMMA SaveStep == SaveInv /\ [Next]_vars => SaveInv'
<1> SUFFICES ASSUME SaveInv, [Next]_vars
             PROVE  SavedWhenIdle' /\ EmptyOnlyBySaving'
  BY TableStep DEF SaveInv
<1> USE DEF SaveInv
<1>1. CASE Start
  <2>1. UNCHANGED file
    BY <1>1 DEF Start
  <2>2. account_list' # NULL => file # EmptyFile /\ file = Image(account_list')
    BY <1>1 DEF Start, read_account, Image, Files, TableInv, TypeOK
  <2> QED
    BY <1>1, <2>1, <2>2 DEF Start, SavedWhenIdle, EmptyOnlyBySaving, read_account
<1>2. CASE Die
  BY <1>2 DEF Die, SavedWhenIdle, EmptyOnlyBySaving
<1>3. ASSUME NEW i \in Slot,
             RecvFails(i) \/ EnterUsername(i) \/ EnterPassword(i) \/ Command(i)
      PROVE  SavedWhenIdle' /\ EmptyOnlyBySaving'
  <2>1. UNCHANGED file /\ pc = "scan" /\ (pc' = "truncate" \/ open' = open)
    BY <1>3, HandleSlotFrame DEF CloseClient, TableFrame
  <2>2. open # {}
    <3>1. Occupied(i)
      BY <1>3, HandleSlotFrame, ReadyIsOccupied
    <3>2. client[i] \in ConnFd
      BY <3>1 DEF Occupied, TableInv, TypeOK, NoFd
    <3> QED
      BY <3>2 DEF TableInv, TableMatchesKernel
  <2>3. account_list = NULL => account_list' = NULL
    BY <1>3 DEF RecvFails, EnterUsername, EnterPassword, Command, Lookup, Logout
  <2> QED
    BY <2>1, <2>2, <2>3 DEF SavedWhenIdle, EmptyOnlyBySaving
<1>4. CASE Accept
  <2>1. open' # {} /\ UNCHANGED <<file, account_list>> /\ pc = "accept"
    BY <1>4 DEF Accept
  <2> QED
    BY <2>1 DEF SavedWhenIdle, EmptyOnlyBySaving
<1>5. CASE Truncate /\ ~Die
  BY <1>5 DEF Truncate, SavedWhenIdle, EmptyOnlyBySaving
<1>6. CASE Write
  <2>1. account_list # NULL /\ file' # EmptyFile
    BY <1>6, ImageType, AccountsAssumption, NullAssumption DEF Write, TableInv, TypeOK, AccountLists
  <2> QED
    BY <1>6, <2>1 DEF Write, SavedWhenIdle, EmptyOnlyBySaving
<1>7. CASE ~Die /\ (Select \/ AcceptFails \/ EndScan)
  BY <1>7 DEF Select, AcceptFails, EndScan, kernelVars, SavedWhenIdle, EmptyOnlyBySaving
<1>8. CASE SaveFails
  BY <1>8 DEF SaveFails, SavedWhenIdle, EmptyOnlyBySaving
<1>9. CASE Peers \/ UNCHANGED vars
  BY <1>9 DEF Peers, Connect, Send, HangUp, vars, serverVars, kernelVars,
              SavedWhenIdle, EmptyOnlyBySaving
<1> QED
  BY <1>1, <1>2, <1>3, <1>4, <1>5, <1>6, <1>7, <1>8, <1>9 DEF Next, Server, HandleSlot, Kill

\* When the last connection is closed and saved, the file holds what the
\* list says; and the file is empty only in the middle of a save or after a
\* death there.
THEOREM FileFollowsList == Spec => [](SavedWhenIdle /\ EmptyOnlyBySaving)
<1>1. Init => SaveInv
  BY TableInit, NullAssumption DEF Init, SaveInv, SavedWhenIdle, EmptyOnlyBySaving
<1>2. SaveInv /\ [Next]_vars => SaveInv'
  BY SaveStep
<1>3. SaveInv => SavedWhenIdle /\ EmptyOnlyBySaving
  BY DEF SaveInv
<1> QED
  BY <1>1, <1>2, <1>3, PTL DEF Spec

\* Of these the second on its own: an empty file that is not just being
\* written or left by a death belongs to a process without a list.
THEOREM EmptyOnlyFromSave == Spec => []EmptyOnlyBySaving
<1>1. SavedWhenIdle /\ EmptyOnlyBySaving => EmptyOnlyBySaving
  OBVIOUS
<1> QED
  BY <1>1, FileFollowsList, PTL

-----------------------------------------------------------------------------
(***************************************************************************)
(* The server implements LoginRegistry.  SessionInv gives the mapping its  *)
(* meaning: an account that has a slot has one, and is marked.             *)
(***************************************************************************)

LEMMA SessionAlways == Spec => []SessionInv
<1>1. Init => SessionInv
  BY TableInit DEF Init, SessionInv, SessionIsRegistered, OneWindowPerAccount, HasSession,
                   Occupied, NoFd
<1> QED
  BY <1>1, SessionStep, PTL DEF Spec

LEMMA SessionHolds ==
  ASSUME SessionInv, NEW a \in AccId, NEW i \in SessionsOf(a)
  PROVE  SignedIn(a) /\ SessionsOf(a) = {i} /\ Holder[a] = i
<1>1. i \in Slot /\ HasSession(i) /\ a \in Lookup(account_list, username[i])
  BY DEF SessionsOf
<1>2. SignedIn(a)
  <2>1. PICK b \in Lookup(account_list, username[i]) : account_list[b].is_signed_in
    BY <1>1 DEF SessionInv, SessionIsRegistered
  <2>2. a = b
    BY <1>1, <2>1, LookupUnique
  <2> QED
    BY <1>1, <2>1, <2>2 DEF SignedIn, Lookup
<1>3. SessionsOf(a) = {i}
  <2> SUFFICES ASSUME NEW j \in SessionsOf(a)
               PROVE  j = i
    OBVIOUS
  <2>1. j \in Slot /\ HasSession(j) /\ a \in Lookup(account_list, username[j])
    BY DEF SessionsOf
  <2>2. username[j] = username[i]
    BY <1>1, <2>1, LookupUnique
  <2> QED
    BY <1>1, <2>1, <2>2 DEF SessionInv, OneWindowPerAccount
<1>4. Holder[a] = CHOOSE j \in SessionsOf(a) : TRUE
  BY <1>2, <1>3 DEF Holder
<1> QED
  BY <1>2, <1>3, <1>4

LEMMA NoSessionHolds ==
  ASSUME NEW a \in AccId, SessionsOf(a) = {}
  PROVE  Holder[a] = IF SignedIn(a) THEN -2 ELSE -1
BY DEF Holder

LEMMA NotSignedIn ==
  ASSUME NEW a \in AccId, ~SignedIn(a)
  PROVE  Holder[a] = -1
BY DEF Holder

LEMMA HolderDomain == Holder = [a \in AccId |-> Holder[a]] /\ Active = [a \in AccId |-> Active[a]]
BY DEF Holder, Active

\* An account that keeps its mark and its sessions keeps its holder.
LEMMA HolderKept ==
  ASSUME NEW a \in AccId, SignedIn(a)' <=> SignedIn(a), SessionsOf(a)' = SessionsOf(a)
  PROVE  Holder'[a] = Holder[a]
<1>1. CASE SignedIn(a)
  <2>1. CASE SessionsOf(a) = {}
    BY <1>1, <2>1 DEF Holder
  <2>2. CASE SessionsOf(a) # {}
    <3>1. Holder[a] = CHOOSE i \in SessionsOf(a) : TRUE
      BY <1>1, <2>2 DEF Holder
    <3>2. Holder'[a] = CHOOSE i \in SessionsOf(a)' : TRUE
      BY <1>1, <2>2 DEF Holder
    <3> QED
      BY <3>1, <3>2
  <2> QED
    BY <2>1, <2>2
<1>2. CASE ~SignedIn(a)
  BY <1>2 DEF Holder
<1> QED
  BY <1>1, <1>2

\* The slots but i keep what they have.
OthersKept(i) ==
  \A j \in Slot : j # i => client'[j] = client[j] /\ clientStatus'[j] = clientStatus[j]
                           /\ username'[j] = username[j]

LEMMA OtherSessions ==
  ASSUME NEW i, OthersKept(i), \A u : Lookup(account_list', u) = Lookup(account_list, u),
         NEW a \in AccId, NEW j \in Slot, j # i
  PROVE  j \in SessionsOf(a)' <=> j \in SessionsOf(a)
BY DEF SessionsOf, OthersKept, HasSession, Occupied

LEMMA CloseEffect ==
  ASSUME TableInv, NEW i \in Slot, CloseClient(i)
  PROVE  OthersKept(i) /\ ~HasSession(i)'
BY CloseClientSession DEF OthersKept, CloseClient, TableInv, TypeOK

LEMMA ReplyEffect ==
  ASSUME TableInv, NEW i \in Slot, NEW status, NEW name, Reply(i, status, name)
  PROVE  /\ OthersKept(i)
         /\ pc # "down" => pc' # "down"
         /\ \/ ~HasSession(i)'
            \/ HasSession(i)' /\ status = VALID_CREDENTIALS /\ username'[i] = name
<1>1. CASE CloseClient(i)
  BY <1>1, CloseEffect DEF CloseClient
<1>2. CASE ~CloseClient(i)
  BY <1>2 DEF Reply, OthersKept, HasSession, TableInv, TypeOK
<1> QED
  BY <1>1, <1>2

\* Sessions that stay, with the same names and the same list, keep the mapping.
LEMMA SameSessions ==
  ASSUME UNCHANGED account_list, \A j \in Slot : HasSession(j)' <=> HasSession(j),
         \A j \in Slot : HasSession(j) => username'[j] = username[j]
  PROVE  Holder' = Holder /\ Active' = Active
<1>1. ASSUME NEW a \in AccId
      PROVE  Holder'[a] = Holder[a] /\ Active'[a] = Active[a]
  <2>1. SessionsOf(a)' = SessionsOf(a)
    BY DEF SessionsOf
  <2>2. SignedIn(a)' <=> SignedIn(a)
    BY DEF SignedIn
  <2>3. Holder'[a] = Holder[a]
    BY <2>1, <2>2, HolderKept
  <2> QED
    BY <2>3 DEF Active
<1>2. Holder' = [a \in AccId |-> Holder'[a]] /\ Active' = [a \in AccId |-> Active'[a]]
  BY DEF Holder, Active
<1> QED
  BY <1>1, <1>2, HolderDomain

\* One account changes its holder.
LEMMA OneHolder ==
  ASSUME NEW a \in AccId, NEW h, Holder'[a] = h,
         \A b \in AccId : b # a => SignedIn(b)' <=> SignedIn(b),
         \A b \in AccId : b # a => SessionsOf(b)' = SessionsOf(b)
  PROVE  Holder' = [Holder EXCEPT ![a] = h]
<1>1. \A b \in AccId : b # a => Holder'[b] = Holder[b]
  BY HolderKept
<1>2. Holder' = [b \in AccId |-> Holder'[b]]
  BY DEF Holder
<1> QED
  BY <1>1, <1>2, HolderDomain

\* A slot has a session on no account but the one its name finds.
LEMMA OneAccount ==
  ASSUME NEW i \in Slot, NEW a \in Lookup(account_list, username[i]),
         NEW b \in AccId, b # a
  PROVE  i \notin SessionsOf(b)
BY LookupUnique DEF SessionsOf

\* A step after which slot i has no session takes away the account it had.
LEMMA SessionEnds ==
  ASSUME SessionInv, NEW i \in Slot, OthersKept(i), ~HasSession(i)',
         UNCHANGED <<account_list, file>>, Up, Up'
  PROVE  [Registry!Next]_(Registry!vars)
<1>1. \A u : Lookup(account_list', u) = Lookup(account_list, u)
  BY DEF Lookup
<1>2. \A a \in AccId : SignedIn(a)' <=> SignedIn(a)
  BY DEF SignedIn
<1>3. Active' = Active /\ Up' = Up
  BY DEF Active
<1>4. \A a \in AccId, j \in Slot : j # i => (j \in SessionsOf(a)' <=> j \in SessionsOf(a))
  BY <1>1, OtherSessions
<1>5. \A a \in AccId : i \notin SessionsOf(a)'
  BY DEF SessionsOf
<1>6. \A a \in AccId : SessionsOf(a) \subseteq Slot /\ SessionsOf(a)' \subseteq Slot
  BY DEF SessionsOf
<1>7. CASE HasSession(i)
  <2>1. PICK a \in Lookup(account_list, username[i]) : account_list[a].is_signed_in
    BY <1>7 DEF SessionInv, SessionIsRegistered
  <2>2. a \in AccId /\ i \in SessionsOf(a)
    BY <1>7, <2>1 DEF SessionsOf, Lookup
  <2>3. SignedIn(a) /\ SessionsOf(a) = {i} /\ Holder[a] = i
    BY <2>2, SessionHolds
  <2>4. SessionsOf(a)' = {}
    BY <1>4, <1>5, <1>6, <2>2, <2>3
  <2>5. Holder'[a] = -2
    BY <1>2, <2>2, <2>3, <2>4 DEF Holder
  <2>6. \A b \in AccId : b # a => SessionsOf(b)' = SessionsOf(b)
    <3>1. \A b \in AccId : b # a => i \notin SessionsOf(b)
      BY <2>1, OneAccount
    <3> QED
      BY <1>4, <1>5, <1>6, <3>1
  <2>7. Holder' = [Holder EXCEPT ![a] = -2]
    BY <1>2, <2>2, <2>5, <2>6, OneHolder
  <2>8. Registry!Leave(a)
    BY <1>3, <2>3, <2>7 DEF Registry!Leave, Registry!Gone
  <2> QED
    BY <2>2, <2>8 DEF Registry!Next
<1>8. CASE ~HasSession(i)
  <2>1. \A j \in Slot : HasSession(j)' <=> HasSession(j)
    BY <1>8 DEF OthersKept, HasSession, Occupied
  <2>2. \A j \in Slot : HasSession(j) => username'[j] = username[j]
    BY <1>8 DEF OthersKept
  <2>3. Holder' = Holder
    BY <2>1, <2>2, SameSessions
  <2> QED
    BY <1>3, <2>3 DEF Registry!vars
<1> QED
  BY <1>7, <1>8

\* A login at node a: refused, it changes at most whether a is active;
\* accepted, it gives a, which nobody held, to slot i, or to nobody if the
\* reply could not be sent.
LEMMA PasswordStep ==
  ASSUME SessionInv, NEW i \in Slot, ~HasSession(i), OthersKept(i), UNCHANGED file, Up, Up',
         NEW a \in Lookup(account_list, username[i]), NEW ok \in BOOLEAN,
         account_list' = [account_list EXCEPT ![a] = LoginEffect(account_list[a], ok)],
         HasSession(i)' => LoginAnswer(account_list[a], ok) = VALID_CREDENTIALS
                             /\ username'[i] = username[i]
  PROVE  [Registry!Next]_(Registry!vars)
<1> DEFINE r == account_list[a]
           new == LoginEffect(r, ok)
           valid == LoginAnswer(r, ok) = VALID_CREDENTIALS
<1>1. account_list \in [AccId -> Account] /\ a \in AccId /\ r \in Account /\ account_list # NULL
  BY LoginListType DEF Lookup, SessionInv, TableInv, TypeOK
<1>2. account_list' \in [AccId -> Account] /\ account_list' # NULL
  <2>1. account_list' \in [AccId -> Account]
    BY LoginListType DEF SessionInv, TableInv, TypeOK
  <2> QED
    BY <2>1, NullAssumption DEF Account
<1>3. /\ account_list'[a] = new
      /\ \A b \in AccId : b # a => account_list'[b] = account_list[b]
  BY <1>1
<1>4. /\ valid => ~r.is_signed_in /\ r.is_active /\ new.is_signed_in
      /\ ~valid => new.is_signed_in = r.is_signed_in
      /\ ~r.is_active => ~new.is_active
      /\ valid => new.is_active = r.is_active
  <2>1. valid => new.is_active = r.is_active
    BY DEF LoginEffect, WrongPassword, LoginAnswer, VALID_CREDENTIALS, ACCOUNT_BLOCKED, WRONG_PASSWORD
  <2> QED
    BY <1>1, <2>1, LoginMarks
<1>5. r.is_active \in BOOLEAN /\ new.is_active \in BOOLEAN /\ r.is_signed_in \in BOOLEAN
      /\ new.is_signed_in \in BOOLEAN
  BY <1>1, <1>2, <1>3 DEF Account
<1> HIDE DEF r, new, valid
<1>6. \A u : Lookup(account_list', u) = Lookup(account_list, u)
  BY <1>1, <1>2, LookupStable
<1>7. \A b \in AccId, j \in Slot : j # i => (j \in SessionsOf(b)' <=> j \in SessionsOf(b))
  BY <1>6, OtherSessions
<1>8. \A b \in AccId : SessionsOf(b) \subseteq Slot /\ SessionsOf(b)' \subseteq Slot
  BY DEF SessionsOf
<1>9. \A b \in AccId : i \notin SessionsOf(b)
  BY DEF SessionsOf
<1>10. \A b \in AccId : b # a => i \notin SessionsOf(b)'
  <2> SUFFICES ASSUME NEW b \in AccId, b # a, i \in SessionsOf(b)'
               PROVE  FALSE
    OBVIOUS
  <2>1. HasSession(i)' /\ b \in Lookup(account_list', username'[i])
    BY DEF SessionsOf
  <2>2. b \in Lookup(account_list, username[i])
    BY <1>6, <2>1
  <2> QED
    BY <2>2, LookupUnique
<1>11. \A b \in AccId : b # a => SessionsOf(b)' = SessionsOf(b)
  BY <1>7, <1>8, <1>9, <1>10
<1>12. \A b \in AccId : b # a => (SignedIn(b)' <=> SignedIn(b))
  BY <1>1, <1>2, <1>3 DEF SignedIn
<1>13. (SignedIn(a) <=> r.is_signed_in) /\ (SignedIn(a)' <=> new.is_signed_in)
  BY <1>1, <1>2, <1>3 DEF SignedIn, r
<1>14. /\ Active[a] = r.is_active /\ Active'[a] = new.is_active
       /\ \A b \in AccId : b # a => Active'[b] = Active[b]
  <2>1. /\ Active[a] = (account_list # NULL /\ account_list[a].is_active)
        /\ Active'[a] = (account_list' # NULL /\ account_list'[a].is_active)
    BY <1>1 DEF Active
  <2>2. \A b \in AccId : b # a => Active'[b] = Active[b]
    BY <1>1, <1>2, <1>3 DEF Active
  <2> QED
    BY <1>1, <1>2, <1>3, <1>5, <2>1, <2>2, Zenon DEF r
<1>15. Active' = [b \in AccId |-> Active'[b]] /\ Active = [b \in AccId |-> Active[b]]
  BY DEF Active
<1>16. Up' = Up
  OBVIOUS
<1>17. CASE valid
  <2>1. Active' = Active
    <3>1. Active'[a] = Active[a]
      BY <1>4, <1>14, <1>17
    <3> QED
      BY <1>14, <1>15, <3>1
  <2>2. SessionsOf(a) = {}
    <3>1. ~SignedIn(a)
      BY <1>4, <1>13, <1>17
    <3> QED
      BY <1>1, <3>1, SessionHolds
  <2>3. Holder[a] = -1 /\ Active[a]
    BY <1>1, <1>4, <1>13, <1>14, <1>17, NotSignedIn
  <2>4. SignedIn(a)'
    BY <1>4, <1>13, <1>17
  <2>5. CASE i \in SessionsOf(a)'
    <3>1. SessionsOf(a)' = {i}
      BY <1>1, <1>7, <1>8, <2>2, <2>5
    <3>2. Holder'[a] = i
      BY <1>1, <2>4, <3>1 DEF Holder
    <3>3. Holder' = [Holder EXCEPT ![a] = i]
      BY <1>1, <1>11, <1>12, <3>2, OneHolder
    <3>4. \A b \in AccId : Holder[b] # i
      <4> SUFFICES ASSUME NEW b \in AccId
                   PROVE  Holder[b] # i
        OBVIOUS
      <4>1. CASE SessionsOf(b) = {}
        BY <4>1, NoSessionHolds, ServerAssumption DEF Slot
      <4>2. ASSUME NEW j \in SessionsOf(b)
            PROVE  Holder[b] # i
        BY <1>9, <4>2, SessionHolds
      <4> QED
        BY <4>1, <4>2
    <3>5. Registry!SignIn(a, i)
      BY <1>16, <2>1, <2>3, <3>3, <3>4 DEF Registry!SignIn, Registry!Free
    <3> QED
      BY <1>1, <3>5 DEF Registry!Next
  <2>6. CASE i \notin SessionsOf(a)'
    <3>1. SessionsOf(a)' = {}
      BY <1>1, <1>7, <1>8, <2>2, <2>6
    <3>2. Holder'[a] = -2
      BY <1>1, <2>4, <3>1 DEF Holder
    <3>3. Holder' = [Holder EXCEPT ![a] = -2]
      BY <1>1, <1>11, <1>12, <3>2, OneHolder
    <3>4. Registry!Leave(a)
      BY <1>16, <2>1, <2>3, <3>3 DEF Registry!Leave, Registry!Free, Registry!Gone
    <3> QED
      BY <1>1, <3>4 DEF Registry!Next
  <2> QED
    BY <2>5, <2>6
<1>18. CASE ~valid
  <2>1. SessionsOf(a)' = SessionsOf(a)
    <3>1. ~HasSession(i)'
      BY <1>18 DEF valid, r
    <3>2. i \notin SessionsOf(a)'
      BY <3>1 DEF SessionsOf
    <3> QED
      BY <1>1, <1>7, <1>8, <1>9, <3>2
  <2>2. SignedIn(a)' <=> SignedIn(a)
    BY <1>4, <1>13, <1>18
  <2>3. Holder' = Holder
    <3>1. \A b \in AccId : Holder'[b] = Holder[b]
      BY <1>11, <1>12, <2>1, <2>2, HolderKept
    <3>2. Holder' = [b \in AccId |-> Holder'[b]] /\ Holder = [b \in AccId |-> Holder[b]]
      BY DEF Holder
    <3> QED
      BY <3>1, <3>2
  <2>4. CASE new.is_active = r.is_active
    <3>1. Active' = Active
      <4>1. Active'[a] = Active[a]
        BY <1>14, <2>4
      <4> QED
        BY <1>14, <1>15, <4>1
    <3> QED
      BY <1>16, <2>3, <3>1 DEF Registry!vars
  <2>5. CASE new.is_active # r.is_active
    <3>1. r.is_active /\ ~new.is_active
      BY <1>4, <1>5, <2>5
    <3>2. Active[a] /\ Active'[a] = FALSE
      BY <1>5, <1>14, <3>1
    <3>3. Active' = [Active EXCEPT ![a] = FALSE]
      BY <1>14, <1>15, <3>2
    <3>4. Registry!Block(a)
      BY <1>16, <2>3, <3>2, <3>3 DEF Registry!Block
    <3> QED
      BY <1>1, <3>4 DEF Registry!Next
  <2> QED
    BY <2>4, <2>5
<1> QED
  BY <1>17, <1>18

\* A "signout" frees the account of slot i.
LEMMA SignOutStep ==
  ASSUME SessionInv, NEW i \in Slot, HasSession(i), OthersKept(i), ~HasSession(i)',
         UNCHANGED file, Up, Up', account_list' = Logout(account_list, username[i])
  PROVE  [Registry!Next]_(Registry!vars)
<1>1. PICK a \in Lookup(account_list, username[i]) : account_list[a].is_signed_in
  BY DEF SessionInv, SessionIsRegistered
<1>2. a \in AccId /\ account_list # NULL /\ i \in SessionsOf(a)
  BY <1>1 DEF Lookup, SessionsOf
<1>3. SessionsOf(a) = {i} /\ Holder[a] = i
  BY <1>2, SessionHolds
<1>4. account_list \in [AccId -> Account]
  BY <1>2 DEF SessionInv, TableInv, TypeOK, AccountLists
<1>5. account_list' \in [AccId -> Account] /\ account_list' # NULL
  <2>1. account_list' \in [AccId -> Account]
    BY <1>2, <1>4 DEF Logout, SignedOut, Account
  <2> QED
    BY <2>1, NullAssumption DEF Account
<1>6. \A b \in AccId : account_list'[b].is_active = account_list[b].is_active
  BY <1>2, <1>4 DEF Logout, SignedOut
<1>7. ~account_list'[a].is_signed_in
  BY <1>1, <1>2, <1>4 DEF Logout, SignedOut
<1>8. \A b \in AccId : b # a => b \notin Lookup(account_list, username[i])
  BY <1>1, LookupUnique
<1>9. \A b \in AccId : b # a => account_list'[b] = account_list[b]
  BY <1>2, <1>4, <1>8 DEF Logout
<1>10. \A u : Lookup(account_list', u) = Lookup(account_list, u)
  BY <1>2, <1>5, LookupStable
<1>11. \A b \in AccId, j \in Slot : j # i => (j \in SessionsOf(b)' <=> j \in SessionsOf(b))
  BY <1>10, OtherSessions
<1>12. \A b \in AccId : b # a => SessionsOf(b)' = SessionsOf(b)
  <2>1. \A b \in AccId : SessionsOf(b) \subseteq Slot /\ SessionsOf(b)' \subseteq Slot
    BY DEF SessionsOf
  <2>2. \A b \in AccId : b # a => i \notin SessionsOf(b)
    BY <1>1, OneAccount
  <2>3. \A b \in AccId : i \notin SessionsOf(b)'
    BY DEF SessionsOf
  <2> QED
    BY <1>11, <2>1, <2>2, <2>3
<1>13. \A b \in AccId : b # a => (SignedIn(b)' <=> SignedIn(b))
  BY <1>2, <1>5, <1>9 DEF SignedIn
<1>14. Holder'[a] = -1
  BY <1>2, <1>7 DEF Holder, SignedIn
<1>15. Holder' = [Holder EXCEPT ![a] = -1]
  BY <1>2, <1>12, <1>13, <1>14, OneHolder
<1>16. Active' = Active /\ Up' = Up
  BY <1>2, <1>5, <1>6 DEF Active
<1>17. Registry!SignOut(a)
  BY <1>3, <1>15, <1>16 DEF Registry!SignOut, Registry!Free
<1> QED
  BY <1>2, <1>17 DEF Registry!Next

\* A process that is down, or has no list, is mapped to an empty registry.
LEMMA NobodyWithoutList ==
  ASSUME account_list = NULL
  PROVE  Holder = Registry!NobodyIn /\ Active = Registry!NoneActive
BY DEF Holder, Active, SignedIn, Registry!NobodyIn, Registry!NoneActive, Registry!Free

LEMMA BootStep ==
  ASSUME SessionInv, Start
  PROVE  Registry!Boot
<1>1. account_list = NULL /\ ~Up /\ Up'
  BY DEF Start, SessionInv, TableInv, NothingWhenDown, Up
<1>2. Holder' = Holder
  <2>1. \A a \in AccId : account_list' # NULL => ~account_list'[a].is_signed_in
    BY DEF Start, read_account
  <2>2. Holder' = Registry!NobodyIn
    BY <2>1 DEF Holder, SignedIn, Registry!NobodyIn, Registry!Free
  <2> QED
    BY <1>1, <2>2, NobodyWithoutList
<1>3. Active' \in IF file = EmptyFile THEN {Registry!NoneActive} ELSE {Registry!NoneActive, file}
  <2>1. CASE account_list' = NULL
    <3>1. Active' = Registry!NoneActive
      BY <2>1 DEF Active, Registry!NoneActive
    <3> QED
      BY <3>1
  <2>2. CASE account_list' # NULL
    <3>1. file # EmptyFile /\ account_list' = read_account(file)
      BY <2>2 DEF Start, read_account
    <3>2. file \in [AccId -> BOOLEAN]
      BY <3>1 DEF SessionInv, TableInv, TypeOK, Files
    <3>3. \A a \in AccId : account_list'[a].is_active = file[a]
      BY <3>1 DEF read_account
    <3>4. Active' = [a \in AccId |-> file[a]]
      BY <2>2, <3>2, <3>3 DEF Active
    <3> QED
      BY <3>1, <3>2, <3>4
  <2> QED
    BY <2>1, <2>2
<1>4. UNCHANGED file
  BY DEF Start
<1> QED
  BY <1>1, <1>2, <1>3, <1>4 DEF Registry!Boot

LEMMA StopStep ==
  ASSUME Up, Die, file' \in {file, EmptyFile}
  PROVE  Registry!Stop
<1>1. account_list' = NULL /\ ~Up'
  BY DEF Die, Up
<1>2. Holder' = Registry!NobodyIn
  BY <1>1 DEF Holder, SignedIn, Registry!NobodyIn, Registry!Free
<1>3. Active' = Registry!NoneActive
  BY <1>1 DEF Active, Registry!NoneActive
<1> QED
  BY <1>1, <1>2, <1>3 DEF Registry!Stop

\* The handling of a line that waited at slot i.
LEMMA LineStep ==
  ASSUME SessionInv, NEW i \in Slot, EnterUsername(i) \/ EnterPassword(i) \/ Command(i)
  PROVE  [Registry!Next]_(Registry!vars)
<1>0. TableInv
  BY DEF SessionInv
<1>1. /\ pc = "scan" /\ UNCHANGED file /\ Occupied(i)
      /\ \E status, name : Reply(i, status, name)
  <2>1. UNCHANGED file /\ pc = "scan" /\ Occupied(i)
    BY HandleSlotFrame, ReadyIsOccupied DEF CloseClient
  <2> QED
    BY <2>1 DEF EnterUsername, EnterPassword, Command
<1>2. Up /\ Up' /\ OthersKept(i)
  <2>1. PICK status, name : Reply(i, status, name)
    BY <1>1
  <2>2. pc # "down" /\ OthersKept(i) /\ pc' # "down"
    BY <1>0, <1>1, <2>1, ReplyEffect
  <2> QED
    BY <2>2 DEF Up
<1>3. CASE EnterUsername(i)
  <2>1. PICK status, name :
           status \in {USERNAME_REQUIRED, PASSWORD_REQUIRED} /\ Reply(i, status, name)
    BY <1>3 DEF EnterUsername
  <2>2. ~HasSession(i)'
    BY <1>0, <2>1, ReplyEffect DEF USERNAME_REQUIRED, PASSWORD_REQUIRED, VALID_CREDENTIALS
  <2> QED
    BY <1>1, <1>2, <1>3, <2>2, SessionEnds DEF EnterUsername
<1>4. CASE EnterPassword(i)
  <2>0. ~HasSession(i)
    BY <1>4 DEF EnterPassword, HasSession, PASSWORD_REQUIRED, VALID_CREDENTIALS
  <2>1. CASE Reply(i, USERNAME_REQUIRED, EmptyLine) /\ UNCHANGED account_list
    <3>1. ~HasSession(i)'
      BY <1>0, <2>1, ReplyEffect DEF USERNAME_REQUIRED, VALID_CREDENTIALS
    <3> QED
      BY <1>1, <1>2, <2>1, <3>1, SessionEnds
  <2>2. ASSUME NEW a \in Lookup(account_list, username[i]), NEW p \in Text,
               IF LoginAnswer(account_list[a], p = Pass[a]) = VALID_CREDENTIALS
               THEN Reply(i, VALID_CREDENTIALS, username[i])
               ELSE Reply(i, USERNAME_REQUIRED, EmptyLine),
               account_list' = [account_list EXCEPT ![a] = LoginEffect(account_list[a], p = Pass[a])]
        PROVE  [Registry!Next]_(Registry!vars)
    <3> DEFINE ok == p = Pass[a]
    <3>1. ok \in BOOLEAN
      OBVIOUS
    <3>2. CASE LoginAnswer(account_list[a], ok) = VALID_CREDENTIALS
      <4>1. Reply(i, VALID_CREDENTIALS, username[i])
        BY <2>2, <3>2
      <4>2. HasSession(i)' => username'[i] = username[i]
        BY <1>0, <4>1, ReplyEffect
      <4> HIDE DEF ok
      <4> QED
        BY <1>1, <1>2, <2>0, <2>2, <3>1, <3>2, <4>2, PasswordStep DEF ok
    <3>3. CASE LoginAnswer(account_list[a], ok) # VALID_CREDENTIALS
      <4>1. Reply(i, USERNAME_REQUIRED, EmptyLine)
        BY <2>2, <3>3
      <4>2. ~HasSession(i)'
        BY <1>0, <4>1, ReplyEffect DEF USERNAME_REQUIRED, VALID_CREDENTIALS
      <4> HIDE DEF ok
      <4> QED
        BY <1>1, <1>2, <2>0, <2>2, <3>1, <3>3, <4>2, PasswordStep DEF ok
    <3> QED
      BY <3>2, <3>3
  <2> QED
    BY <1>4, <2>1, <2>2 DEF EnterPassword
<1>5. CASE Command(i)
  <2>0. HasSession(i)
    BY <1>1, <1>5 DEF Command, HasSession
  <2>1. CASE Reply(i, USERNAME_REQUIRED, EmptyLine) /\ account_list' = Logout(account_list, username[i])
    <3>1. ~HasSession(i)'
      BY <1>0, <2>1, ReplyEffect DEF USERNAME_REQUIRED, VALID_CREDENTIALS
    <3> QED
      BY <1>1, <1>2, <2>0, <2>1, <3>1, SignOutStep
  <2>2. CASE Reply(i, VALID_CREDENTIALS, username[i]) /\ UNCHANGED account_list
    <3>1. CASE HasSession(i)'
      <4>1. username'[i] = username[i]
        BY <1>0, <2>2, <3>1, ReplyEffect
      <4>2. \A j \in Slot : HasSession(j)' <=> HasSession(j)
        BY <1>2, <2>0, <3>1 DEF OthersKept, HasSession, Occupied
      <4>3. \A j \in Slot : HasSession(j) => username'[j] = username[j]
        BY <1>2, <4>1 DEF OthersKept
      <4>4. Holder' = Holder /\ Active' = Active
        BY <2>2, <4>2, <4>3, SameSessions
      <4> QED
        BY <1>1, <1>2, <4>4 DEF Registry!vars
    <3>2. CASE ~HasSession(i)'
      BY <1>1, <1>2, <2>2, <3>2, SessionEnds
    <3> QED
      BY <3>1, <3>2
  <2> QED
    BY <1>5, <2>1, <2>2 DEF Command
<1> QED
  BY <1>3, <1>4, <1>5

\* A connection that is accepted has no session, and the slot it gets had none.
LEMMA AcceptKeepsSessions ==
  ASSUME TableInv, Accept \/ (AcceptFails /\ ~Die)
  PROVE  \A j \in Slot : (HasSession(j)' <=> HasSession(j))
                         /\ (HasSession(j) => username'[j] = username[j])
<1>1. CASE UNCHANGED slotVars
  BY <1>1 DEF slotVars, HasSession, Occupied
<1>2. ASSUME NEW i \in FreeSlots, NEW fd, client' = [client EXCEPT ![i] = fd],
             clientStatus' = [clientStatus EXCEPT ![i] = USERNAME_REQUIRED],
             username' = [username EXCEPT ![i] = NULL]
      PROVE  \A j \in Slot : (HasSession(j)' <=> HasSession(j))
                             /\ (HasSession(j) => username'[j] = username[j])
  <2>1. i \in Slot /\ ~Occupied(i)
    BY DEF FreeSlots, Occupied, TableInv, TypeOK, ConnFd, NoFd
  <2>2. clientStatus'[i] = USERNAME_REQUIRED
    BY <1>2, <2>1 DEF TableInv, TypeOK
  <2>3. \A j \in Slot : j # i => client'[j] = client[j] /\ clientStatus'[j] = clientStatus[j]
                                 /\ username'[j] = username[j]
    BY <1>2, <2>1 DEF TableInv, TypeOK
  <2> QED
    BY <2>1, <2>2, <2>3 DEF HasSession, Occupied, USERNAME_REQUIRED, VALID_CREDENTIALS
<1>3. CASE Accept
  BY <1>1, <1>2, <1>3 DEF Accept, IsFirst
<1>4. CASE AcceptFails /\ ~Die
  BY <1>2, <1>4 DEF AcceptFails, IsFirst
<1> QED
  BY <1>3, <1>4

LEMMA RegistryStep ==
  ASSUME SessionInv, [Next]_vars
  PROVE  [Registry!Next]_(Registry!vars)
<1>0. TableInv
  BY DEF SessionInv
<1>1. CASE Start
  BY <1>1, BootStep DEF Registry!Next
<1>2. CASE Die /\ Up /\ file' \in {file, EmptyFile}
  BY <1>2, StopStep DEF Registry!Next
<1>3. CASE /\ UNCHANGED <<account_list, file>> /\ Up' = Up
           /\ \A j \in Slot : (HasSession(j)' <=> HasSession(j))
                              /\ (HasSession(j) => username'[j] = username[j])
  BY <1>3, SameSessions DEF Registry!vars
<1>4. CASE Select \/ EndScan \/ SaveFails \/ Peers \/ UNCHANGED vars
  <2>1. CASE Select /\ Die
    BY <1>2, <2>1 DEF Select, Up, Die, slotVars, kernelVars
  <2>2. CASE ~(Select /\ Die)
    <3>1. UNCHANGED <<account_list, file, slotVars>> /\ Up' = Up
      BY <1>4, <2>2 DEF Select, EndScan, SaveFails, Peers, Connect, Send, HangUp, vars,
                        serverVars, Up
    <3>2. \A j \in Slot : (HasSession(j)' <=> HasSession(j)) /\ username'[j] = username[j]
      BY <3>1 DEF slotVars, HasSession, Occupied
    <3> QED
      BY <1>3, <3>1, <3>2
  <2> QED
    BY <2>1, <2>2
<1>5. CASE Accept \/ AcceptFails
  <2>1. CASE Die
    BY <1>2, <1>5, <2>1 DEF Accept, AcceptFails, Up, Die
  <2>2. CASE ~Die
    <3>1. UNCHANGED <<account_list, file>> /\ Up' = Up
      BY <1>5, <2>2 DEF Accept, AcceptFails, Up
    <3> QED
      BY <1>0, <1>3, <1>5, <2>2, <3>1, AcceptKeepsSessions
  <2> QED
    BY <2>1, <2>2
<1>6. ASSUME NEW i \in Slot, RecvFails(i)
      PROVE  [Registry!Next]_(Registry!vars)
  <2>1. CloseClient(i) /\ UNCHANGED <<account_list, file>> /\ Up /\ Up'
    BY <1>6 DEF RecvFails, CloseClient, Up
  <2>2. OthersKept(i) /\ ~HasSession(i)'
    BY <1>0, <2>1, CloseEffect
  <2> QED
    BY <2>1, <2>2, SessionEnds
<1>7. ASSUME NEW i \in Slot, EnterUsername(i) \/ EnterPassword(i) \/ Command(i)
      PROVE  [Registry!Next]_(Registry!vars)
  BY <1>7, LineStep
<1>8. CASE Truncate
  <2>1. CASE Die
    BY <1>2, <1>8, <2>1 DEF Truncate, Up
  <2>2. CASE ~Die
    <3>1. /\ UNCHANGED <<account_list, slotVars>> /\ file' = EmptyFile /\ Up /\ Up'
      BY <1>8, <2>2 DEF Truncate, Up
    <3>2. \A j \in Slot : (HasSession(j)' <=> HasSession(j)) /\ username'[j] = username[j]
      BY <3>1 DEF slotVars, HasSession, Occupied
    <3>3. Holder' = Holder /\ Active' = Active
      BY <3>1, <3>2, SameSessions
    <3>4. Registry!Erase
      BY <3>1, <3>3 DEF Registry!Erase
    <3> QED
      BY <3>4 DEF Registry!Next
  <2> QED
    BY <2>1, <2>2
<1>9. CASE Write
  <2>1. /\ UNCHANGED <<account_list, slotVars>> /\ file' = Image(account_list) /\ Up /\ Up'
        /\ account_list # NULL
    BY <1>0, <1>9 DEF Write, Up, TableInv, TypeOK
  <2>2. \A j \in Slot : (HasSession(j)' <=> HasSession(j)) /\ username'[j] = username[j]
    BY <2>1 DEF slotVars, HasSession, Occupied
  <2>3. Holder' = Holder /\ Active' = Active
    BY <2>1, <2>2, SameSessions
  <2>4. file' = Active
    <3>1. account_list \in [AccId -> Account]
      BY <1>0, <2>1 DEF TableInv, TypeOK, AccountLists
    <3>2. \A a \in AccId : account_list[a].is_active \in BOOLEAN
      BY <3>1 DEF Account
    <3> QED
      BY <2>1, <3>2 DEF Active, Image
  <2>5. Registry!Record
    BY <2>1, <2>3, <2>4 DEF Registry!Record
  <2> QED
    BY <2>5 DEF Registry!Next
<1>10. CASE Kill
  BY <1>2, <1>10 DEF Kill
<1> QED
  BY <1>1, <1>4, <1>5, <1>6, <1>7, <1>8, <1>9, <1>10 DEF Next, Server, HandleSlot

\* The server keeps the promise of LoginRegistry, whatever the account file,
\* the number of connections and the moment the process dies: an account is
\* given only while it is active and free, comes back only by a "signout" of
\* its slot, and is lost when the slot closes.
THEOREM ServerImplementsRegistry == Spec => ImplementsRegistry
<1>1. Init => Registry!Init
  BY NobodyWithoutList DEF Init, Registry!Init, Up
<1>2. SessionInv /\ [Next]_vars => [Registry!Next]_(Registry!vars)
  BY RegistryStep
<1> QED
  BY <1>1, <1>2, SessionAlways, PTL DEF Spec, ImplementsRegistry, Registry!Spec
=============================================================================
