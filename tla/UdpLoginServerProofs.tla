-------------------------- MODULE UdpLoginServerProofs --------------------------
(***************************************************************************)
(* Proofs about UdpLoginServer, for every list of accounts, every set of   *)
(* addresses and every set of texts.                                       *)
(***************************************************************************)
EXTENDS UdpLoginServer, FiniteSetTheorems, TLAPS

LEMMA SlotIs == Slot = {0, 1} /\ Nobody = -1 /\ Nobody \notin Slot
BY DEF Slot, MAX_CLIENTS, Nobody

LEMMA ConstantTypes == MaxAttempts \in Nat /\ MaxAttempts >= 1 /\ Blank \notin Addr
<1>1. MaxAttempts \in Nat \ {0} /\ Blank \notin Addr
  BY UdpAssumption, Zenon
<1> QED
  BY <1>1

\* The first of a set of slots is one of them.
LEMMA FirstSlot ==
  ASSUME NEW S \in SUBSET Slot, S # {}
  PROVE  Min(S) \in S
<1>1. \E x \in S : \A y \in S : x <= y
  <2>1. CASE 0 \in S
    BY <2>1, SlotIs
  <2>2. CASE 0 \notin S
    <3>1. S = {1}
      BY <2>2, SlotIs
    <3> QED
      BY <3>1
  <2> QED
    BY <2>1, <2>2
<1> QED
  BY <1>1 DEF Min

(***************************************************************************)
(* The search of lines 103-131.                                            *)
(***************************************************************************)

LEMMA IndexCases ==
  ASSUME NEW addr
  PROVE  /\ IndexOf(addr) \in Slot
         /\ \/ clients[IndexOf(addr)] = addr /\ Known(addr) # {}
            \/ /\ clients[IndexOf(addr)] = Blank
               /\ Known(addr) = {} /\ Unused # {} /\ \A j \in Slot : clients[j] # addr
            \/ /\ \A j \in Slot : clients[j] # addr /\ clients[j] # Blank
               /\ Known(addr) = {} /\ Unused = {}
<1>1. CASE Known(addr) # {}
  <2>1. Min(Known(addr)) \in Known(addr)
    BY <1>1, FirstSlot DEF Known
  <2> QED
    BY <1>1, <2>1 DEF IndexOf, Known
<1>2. CASE Known(addr) = {} /\ Unused # {}
  <2>1. Min(Unused) \in Unused
    BY <1>2, FirstSlot DEF Unused
  <2> QED
    BY <1>2, <2>1 DEF IndexOf, Known, Unused
<1>3. CASE Known(addr) = {} /\ Unused = {}
  BY <1>3, SlotIs DEF IndexOf, Known, Unused
<1> QED
  BY <1>1, <1>2, <1>3

\* What the handler of a datagram makes of the table: the sender's slot has
\* an address afterwards, no other slot changes, and a slot that had an
\* address keeps it.
LEMMA FromTable ==
  ASSUME clients \in [Slot -> Addr \cup {Blank}], NEW addr \in Addr, From(addr)
  PROVE  /\ up /\ clients' \in [Slot -> Addr \cup {Blank}]
         /\ clients'[IndexOf(addr)] # Blank
         /\ \A j \in Slot : j # IndexOf(addr) \/ clients[j] # Blank => clients'[j] = clients[j]
         /\ \A j \in Slot : clients'[j] = clients[j] \/ clients'[j] = addr
         /\ (\A j \in Slot : clients[j] # addr) => \A j \in Slot : j # IndexOf(addr) => clients'[j] # addr
         /\ clients'[IndexOf(addr)] = addr \/ \A j \in Slot : clients[j] # addr /\ clients[j] # Blank
         /\ (\A j \in Slot : clients[j] # Blank) => clients' = clients
<1> DEFINE i == IndexOf(addr)
<1>1. i \in Slot /\ addr # Blank
  BY IndexCases, ConstantTypes
<1>2. clients' = IF Known(addr) = {} /\ Unused # {} THEN [clients EXCEPT ![i] = addr] ELSE clients
  BY DEF From
<1>3. up
  BY DEF From
<1>4. CASE clients[i] = addr /\ Known(addr) # {}
  BY <1>1, <1>2, <1>3, <1>4
<1>5. CASE /\ clients[i] = Blank
           /\ Known(addr) = {} /\ Unused # {} /\ \A j \in Slot : clients[j] # addr
  <2>1. clients' = [clients EXCEPT ![i] = addr]
    BY <1>2, <1>5
  <2> QED
    BY <1>1, <1>3, <1>5, <2>1
<1>6. CASE /\ \A j \in Slot : clients[j] # addr /\ clients[j] # Blank
           /\ Known(addr) = {} /\ Unused = {}
  BY <1>1, <1>2, <1>3, <1>6
<1> QED
  BY <1>4, <1>5, <1>6, IndexCases

-----------------------------------------------------------------------------
(***************************************************************************)
(* The operators of the account list.                                      *)
(***************************************************************************)

Lists == [AccId -> Node] \cup {NULL}
Files == [AccId -> Line] \cup {EmptyFile}

Statuses == {USERNAME_REQUIRED, PASSWORD_REQUIRED, VALID_CREDENTIALS, ACCOUNT_CHANGE_PASSWORD}

LEMMA StatusValues ==
  /\ USERNAME_REQUIRED = 0 /\ PASSWORD_REQUIRED = 1 /\ VALID_CREDENTIALS = 2
  /\ ACCOUNT_CHANGE_PASSWORD = 8 /\ ACCOUNT_ALREADY_SIGN_IN = 7 /\ ACCOUNT_NOT_ACTIVE = 6
  /\ ACCOUNT_BLOCKED = 5 /\ WRONG_PASSWORD = 4
BY DEF USERNAME_REQUIRED, PASSWORD_REQUIRED, VALID_CREDENTIALS, ACCOUNT_CHANGE_PASSWORD,
       ACCOUNT_ALREADY_SIGN_IN, ACCOUNT_NOT_ACTIVE, ACCOUNT_BLOCKED, WRONG_PASSWORD

LEMMA ReadType ==
  ASSUME NEW f \in Files
  PROVE  read_account(f) \in Lists
<1>1. CASE f = EmptyFile
  BY <1>1 DEF read_account, Lists
<1>2. CASE f \in [AccId -> Line] /\ f # EmptyFile
  <2>1. read_account(f) = [a \in AccId |-> [password |-> f[a].password, is_active |-> f[a].is_active,
                                            attempts |-> 0, client_idx |-> Nobody]]
    BY <1>2 DEF read_account
  <2>2. ASSUME NEW a \in AccId
        PROVE  [password |-> f[a].password, is_active |-> f[a].is_active,
                attempts |-> 0, client_idx |-> Nobody] \in Node
    <3>1. f[a].password \in Text /\ f[a].is_active \in BOOLEAN
      BY <1>2 DEF Line
    <3>2. 0 \in 0..MaxAttempts
      BY ConstantTypes
    <3> QED
      BY <3>1, <3>2 DEF Node
  <2> QED
    BY <2>1, <2>2 DEF Lists
<1> QED
  BY <1>1, <1>2 DEF Files

\* A list that has been read is used by nobody, and blocks what the file blocks.
LEMMA ReadNobody ==
  ASSUME NEW f \in Files, read_account(f) # NULL, NEW a \in AccId
  PROVE  read_account(f)[a].client_idx = Nobody
BY DEF read_account

LEMMA ReadActive ==
  ASSUME NEW f \in Files, read_account(f) # NULL, NEW a \in AccId
  PROVE  f # EmptyFile /\ read_account(f)[a].is_active = f[a].is_active
BY DEF read_account

LEMMA ImageType ==
  ASSUME NEW list \in [AccId -> Node]
  PROVE  Image(list) \in [AccId -> Line] /\ Image(list) # EmptyFile
<1>1. Image(list) \in [AccId -> Line]
  BY DEF Image, Line, Node
<1> QED
  BY <1>1, UdpNullAssumption, Zenon

LEMMA ImageActive ==
  ASSUME NEW list, NEW a \in AccId
  PROVE  Image(list)[a].is_active = list[a].is_active
BY DEF Image

LEMMA SetIdx ==
  ASSUME NEW r \in Node, NEW i \in Slot \cup {Nobody}
  PROVE  /\ [r EXCEPT !.client_idx = i] \in Node
         /\ [r EXCEPT !.client_idx = i].client_idx = i
         /\ [r EXCEPT !.client_idx = i].is_active = r.is_active
BY DEF Node

LEMMA Wrong ==
  ASSUME NEW r \in Node
  PROVE  /\ WrongPassword(r) \in Node
         /\ WrongPassword(r).client_idx = r.client_idx
         /\ WrongPassword(r).is_active => r.is_active
<1>t. r.attempts \in 0..MaxAttempts /\ MaxAttempts \in Nat
  BY ConstantTypes DEF Node
<1>m. MaxAttempts \in 0..MaxAttempts
  BY <1>t
<1>1. CASE r.attempts + 1 >= MaxAttempts
  <2>1. WrongPassword(r) = [r EXCEPT !.attempts = MaxAttempts, !.is_active = FALSE]
    BY <1>1 DEF WrongPassword
  <2> QED
    BY <2>1, <1>m DEF Node
<1>2. CASE ~(r.attempts + 1 >= MaxAttempts)
  <2>1. WrongPassword(r) = [r EXCEPT !.attempts = r.attempts + 1]
    BY <1>2 DEF WrongPassword
  <2>2. r.attempts + 1 \in 0..MaxAttempts
    BY <1>2, <1>t
  <2> QED
    BY <2>1, <2>2 DEF Node
<1> QED
  BY <1>1, <1>2

\* Only an account nobody uses and that is not blocked is signed in to.
LEMMA SignsIn ==
  ASSUME NEW r \in Node, NEW ok \in BOOLEAN, LoginAnswer(r, ok) = VALID_CREDENTIALS
  PROVE  ok /\ r.client_idx = Nobody /\ r.is_active
<1>1. CASE ok
  <2>1. CASE r.client_idx # Nobody
    BY <1>1, <2>1, StatusValues DEF LoginAnswer
  <2>2. CASE r.client_idx = Nobody /\ ~r.is_active
    BY <1>1, <2>2, StatusValues DEF LoginAnswer
  <2> QED
    BY <1>1, <2>1, <2>2
<1>2. CASE ~ok
  <2>1. LoginAnswer(r, ok) \in {ACCOUNT_BLOCKED, WRONG_PASSWORD}
    BY <1>2 DEF LoginAnswer
  <2> QED
    BY <2>1, StatusValues
<1> QED
  BY <1>1, <1>2

-----------------------------------------------------------------------------
(***************************************************************************)
(* The inductive invariant.  HeldOnce says the same as SlotHoldsAccount    *)
(* without counting; what else is in it speaks of the moments when there   *)
(* is no list, or no process.                                              *)
(***************************************************************************)

NothingWhenDown ==
  ~up => account_list = NULL /\ clients_status = AllLoggedOut /\ clients = NoClients

\* Whoever has begun to sign in has a slot of his own.
SlotsTaken == \A i \in Slot : clients_status[i] # USERNAME_REQUIRED => clients[i] # Blank
OneSlotEach == clients[0] = clients[1] => clients[0] = Blank

HeldOnce ==
  account_list # NULL =>
    \A i \in Slot :
      /\ InUse(i) => \E a \in AccId : account_list[a].client_idx = i
      /\ \A a \in AccId : account_list[a].client_idx = i => InUse(i)
      /\ \A a, b \in AccId : account_list[a].client_idx = i /\ account_list[b].client_idx = i => a = b

NoListNoUse == account_list = NULL => \A i \in Slot : ~InUse(i)

\* Whatever the file blocks is blocked in memory.
DiskBehind ==
  account_list # NULL /\ file # EmptyFile =>
    \A a \in AccId : account_list[a].is_active => file[a].is_active

TableInv == TypeOK /\ NothingWhenDown /\ SlotsTaken /\ OneSlotEach
LoginInv == TableInv /\ HeldOnce /\ NoListNoUse /\ DiskBehind

LEMMA LoginInit == Init => LoginInv
<1> SUFFICES ASSUME Init
             PROVE  LoginInv
  OBVIOUS
<1>1. file \in [AccId -> Line]
  <2>1. file \in [AccId -> [password : Text \ {""}, is_active : BOOLEAN]]
    BY DEF Init
  <2>2. [password : Text \ {""}, is_active : BOOLEAN] \subseteq Line
    BY Zenon DEF Line
  <2> QED
    BY <2>1, <2>2
<1>2. TypeOK
  BY <1>1 DEF Init, TypeOK, NoClients, AllLoggedOut
<1>3. NothingWhenDown /\ SlotsTaken /\ OneSlotEach
  BY SlotIs DEF Init, NothingWhenDown, SlotsTaken, OneSlotEach, NoClients, AllLoggedOut
<1>4. NoListNoUse
  <2>1. clients_status = [i \in Slot |-> USERNAME_REQUIRED]
    BY DEF Init, AllLoggedOut
  <2> QED
    BY <2>1, StatusValues DEF NoListNoUse, InUse
<1> QED
  BY <1>2, <1>3, <1>4 DEF Init, LoginInv, TableInv, HeldOnce, DiskBehind

LEMMA DieInv ==
  ASSUME Die, file' \in Files
  PROVE  LoginInv'
<1>1. TypeOK'
  BY DEF Die, TypeOK, NoClients, AllLoggedOut, Files
<1>2. NothingWhenDown' /\ SlotsTaken' /\ OneSlotEach'
  BY SlotIs DEF Die, NothingWhenDown, SlotsTaken, OneSlotEach, NoClients, AllLoggedOut
<1>3. NoListNoUse'
  BY StatusValues DEF Die, NoListNoUse, InUse, AllLoggedOut
<1> QED
  BY <1>1, <1>2, <1>3 DEF Die, LoginInv, TableInv, HeldOnce, DiskBehind

LEMMA StartInv ==
  ASSUME LoginInv, Start
  PROVE  LoginInv'
<1>1. file \in Files /\ account_list' = read_account(file) /\ up' /\ up' \in BOOLEAN
  BY DEF Start, LoginInv, TableInv, TypeOK, Files
<1>2. /\ account_list = NULL /\ clients_status = AllLoggedOut /\ clients = NoClients
      /\ UNCHANGED <<clients, clients_status, username, file>>
  BY DEF Start, LoginInv, TableInv, NothingWhenDown, tableVars
<1>3. account_list' \in Lists
  BY <1>1, ReadType
<1>4. TypeOK'
  BY <1>1, <1>2, <1>3 DEF LoginInv, TableInv, TypeOK, Lists
<1>5. SlotsTaken' /\ OneSlotEach'
  BY <1>2, SlotIs DEF SlotsTaken, OneSlotEach, NoClients, AllLoggedOut
<1>6. \A i \in Slot : ~InUse(i)'
  BY <1>2, StatusValues DEF InUse, AllLoggedOut
<1>7. account_list' # NULL => \A a \in AccId : account_list'[a].client_idx = Nobody
  BY <1>1, ReadNobody
<1>8. DiskBehind'
  BY <1>1, <1>2, ReadActive DEF DiskBehind
<1> QED
  BY <1>1, <1>4, <1>5, <1>6, <1>7, <1>8, SlotIs DEF LoginInv, TableInv, NothingWhenDown, HeldOnce, NoListNoUse

\* A handler that ends with a status for the sender's slot.
LEMMA HandlerTable ==
  ASSUME TableInv, NEW addr \in Addr, From(addr), NEW s \in Statuses, SetStatus(IndexOf(addr), s),
         up' = up, username' \in Text \cup {NULL}, account_list' \in Lists, file' \in Files
  PROVE  TableInv'
<1> DEFINE i == IndexOf(addr)
<1>1. /\ i \in Slot
      /\ clients_status \in [Slot -> Statuses] /\ clients_status' = [clients_status EXCEPT ![i] = s]
  BY IndexCases DEF TableInv, TypeOK, Statuses, SetStatus
<1>2. /\ up /\ clients' \in [Slot -> Addr \cup {Blank}]
      /\ clients'[i] # Blank
      /\ \A j \in Slot : j # i \/ clients[j] # Blank => clients'[j] = clients[j]
  BY FromTable DEF TableInv, TypeOK
<1>3. TypeOK'
  BY <1>1, <1>2 DEF TypeOK, Statuses, Lists, Files, TableInv
<1>4. SlotsTaken'
  BY <1>1, <1>2 DEF SlotsTaken, TableInv
<1>5. OneSlotEach'
  <2>1. CASE \A j \in Slot : clients[j] # Blank
    <3>1. clients' = clients
      BY <2>1, FromTable DEF TableInv, TypeOK
    <3> QED
      BY <3>1 DEF TableInv, OneSlotEach
  <2>2. CASE \E j \in Slot : clients[j] = Blank
    <3>1. clients'[i] = addr
      BY <2>2, FromTable DEF TableInv, TypeOK
    <3>2. CASE \A j \in Slot : clients[j] # addr
      <4>1. \A j \in Slot : j # i => clients'[j] # addr
        BY <3>2, FromTable DEF TableInv, TypeOK
      <4> QED
        BY <1>1, <3>1, <4>1, SlotIs DEF OneSlotEach
    <3>3. CASE \E j \in Slot : clients[j] = addr
      <4>1. Known(addr) # {}
        BY <3>3 DEF Known
      <4>2. clients' = clients
        BY <4>1 DEF From
      <4> QED
        BY <4>2 DEF TableInv, OneSlotEach
    <3> QED
      BY <3>2, <3>3
  <2> QED
    BY <2>1, <2>2
<1>6. NothingWhenDown'
  BY <1>2 DEF NothingWhenDown
<1> QED
  BY <1>3, <1>4, <1>5, <1>6 DEF TableInv

\* A handler after which the same slots are in use, by the same accounts.
LEMMA HeldKeeps ==
  ASSUME HeldOnce, NoListNoUse,
         \A j \in Slot : InUse(j)' <=> InUse(j),
         account_list' = NULL <=> account_list = NULL,
         account_list # NULL =>
           \A a \in AccId : account_list'[a].client_idx = account_list[a].client_idx,
         account_list \in Lists
  PROVE  HeldOnce' /\ NoListNoUse'
<1>1. NoListNoUse'
  BY DEF NoListNoUse
<1>2. HeldOnce'
  <2> SUFFICES ASSUME account_list # NULL
               PROVE  HeldOnce'
    BY DEF HeldOnce
  <2> QED
    BY DEF HeldOnce
<1> QED
  BY <1>1, <1>2

LEMMA DiskKeeps ==
  ASSUME DiskBehind, file' = file, account_list' # NULL => account_list # NULL,
         account_list' # NULL =>
           \A a \in AccId : account_list'[a].is_active => account_list[a].is_active
  PROVE  DiskBehind'
BY DEF DiskBehind

\* The slots in use after a handler has set the status of slot i.
LEMMA UseAfter ==
  ASSUME TableInv, NEW i \in Slot, NEW s \in Statuses, SetStatus(i, s)
  PROVE  /\ \A j \in Slot : j # i => (InUse(j)' <=> InUse(j))
         /\ InUse(i)' <=> s \in {VALID_CREDENTIALS, ACCOUNT_CHANGE_PASSWORD}
BY DEF TableInv, TypeOK, SetStatus, InUse

\* A handler that leaves the accounts alone.
LEMMA IdleInv ==
  ASSUME LoginInv, NEW addr \in Addr, From(addr), NEW s \in Statuses, SetStatus(IndexOf(addr), s),
         s \in {VALID_CREDENTIALS, ACCOUNT_CHANGE_PASSWORD} <=> InUse(IndexOf(addr)),
         up' = up, username' \in Text \cup {NULL}, UNCHANGED <<account_list, file>>
  PROVE  LoginInv'
<1>1. account_list \in Lists /\ file \in Files
  BY DEF LoginInv, TableInv, TypeOK, Lists, Files
<1>2. TableInv'
  BY <1>1, HandlerTable DEF LoginInv
<1>3. \A j \in Slot : InUse(j)' <=> InUse(j)
  BY UseAfter, IndexCases DEF LoginInv
<1>4. HeldOnce' /\ NoListNoUse'
  BY <1>1, <1>3, HeldKeeps DEF LoginInv
<1>5. DiskBehind'
  BY DiskKeeps DEF LoginInv
<1> QED
  BY <1>2, <1>4, <1>5 DEF LoginInv

LEMMA PasswordInv ==
  ASSUME LoginInv, NEW addr \in Addr, GivePassword(addr)
  PROVE  LoginInv'
<1>0. PICK i \in Slot : i = IndexOf(addr)
  BY IndexCases
<1>1. account_list \in Lists /\ file \in Files /\ username \in Text \cup {NULL}
  BY DEF LoginInv, TableInv, TypeOK, Lists, Files
<1>2. From(addr) /\ UNCHANGED <<up, username, file>>
  BY DEF GivePassword
<1>3. ~InUse(i)
  <2>1. clients_status[i] = PASSWORD_REQUIRED
    BY <1>0 DEF GivePassword
  <2> QED
    BY <2>1, StatusValues DEF InUse
<1>s. USERNAME_REQUIRED \in Statuses
      /\ USERNAME_REQUIRED \notin {VALID_CREDENTIALS, ACCOUNT_CHANGE_PASSWORD}
  BY StatusValues DEF Statuses
<1>4. CASE Lookup(account_list, username) = {} /\ SetStatus(i, USERNAME_REQUIRED) /\ UNCHANGED account_list
  BY <1>0, <1>1, <1>2, <1>3, <1>4, <1>s, IdleInv
<1>5. ASSUME NEW a \in Lookup(account_list, username), NEW p \in Text \ {""},
             LET r == account_list[a]
                 ok == p = r.password
                 signsIn == LoginAnswer(r, ok) = VALID_CREDENTIALS
             IN /\ SetStatus(i, StatusAfter(LoginAnswer(r, ok)))
                /\ account_list' = [account_list EXCEPT ![a] =
                                      IF signsIn THEN [r EXCEPT !.client_idx = i]
                                      ELSE IF ok THEN r ELSE WrongPassword(r)]
      PROVE  LoginInv'
  <2> DEFINE r == account_list[a]
             ok == p = r.password
             signsIn == LoginAnswer(r, ok) = VALID_CREDENTIALS
             s == StatusAfter(LoginAnswer(r, ok))
             new == IF signsIn THEN [r EXCEPT !.client_idx = i]
                    ELSE IF ok THEN r ELSE WrongPassword(r)
  <2>1. a \in AccId /\ account_list # NULL /\ account_list \in [AccId -> Node]
    BY <1>1 DEF Lookup, Lists
  <2>2. r \in Node /\ ok \in BOOLEAN
    BY <2>1
  <2>3. SetStatus(i, s) /\ account_list' = [account_list EXCEPT ![a] = new]
    BY <1>5
  <2>4. /\ s \in Statuses
        /\ s \in {VALID_CREDENTIALS, ACCOUNT_CHANGE_PASSWORD} <=> signsIn
    <3>1. s = IF signsIn THEN VALID_CREDENTIALS ELSE USERNAME_REQUIRED
      BY DEF StatusAfter
    <3> HIDE DEF s
    <3>2. CASE signsIn
      <4>1. s = VALID_CREDENTIALS
        BY <3>1, <3>2
      <4> QED
        BY <4>1, <3>2 DEF Statuses
    <3>3. CASE ~signsIn
      <4>1. s = USERNAME_REQUIRED
        BY <3>1, <3>3
      <4> QED
        BY <1>s, <4>1, <3>3 DEF Statuses
    <3> QED
      BY <3>2, <3>3
  <2>5. signsIn => r.client_idx = Nobody /\ r.is_active
    BY <2>2, SignsIn
  <2>6. /\ new \in Node
        /\ new.client_idx = IF signsIn THEN i ELSE r.client_idx
        /\ new.is_active => r.is_active
    <3> HIDE DEF s, r
    <3>1. CASE signsIn
      <4>1. new = [r EXCEPT !.client_idx = i]
        BY <3>1
      <4> QED
        BY <4>1, <3>1, <2>2, <1>2, SetIdx
    <3>2. CASE ~signsIn /\ ok
      BY <2>2, <3>2
    <3>3. CASE ~signsIn /\ ~ok
      <4>1. new = WrongPassword(r)
        BY <3>3
      <4> QED
        BY <4>1, <3>3, <2>2, Wrong
    <3> QED
      BY <3>1, <3>2, <3>3
  <2> HIDE DEF new, s, ok, signsIn
  <2>7. /\ account_list' \in [AccId -> Node] /\ account_list'[a] = new
        /\ \A b \in AccId : b # a => account_list'[b] = account_list[b]
    BY <2>1, <2>3, <2>6
  <2>8. account_list' # NULL
    BY <2>7, UdpNullAssumption
  <2>9. TableInv'
    BY <1>0, <1>1, <1>2, <2>3, <2>4, <2>7, HandlerTable DEF LoginInv, Lists
  <2>10. /\ \A j \in Slot : j # i => (InUse(j)' <=> InUse(j))
         /\ InUse(i)' <=> signsIn
    BY <1>2, <2>3, <2>4, UseAfter DEF LoginInv
  <2>11. DiskBehind'
    <3>1. \A b \in AccId : account_list'[b].is_active => account_list[b].is_active
      BY <2>6, <2>7
    <3> QED
      BY <1>2, <2>1, <3>1, DiskKeeps DEF LoginInv
  <2>12. HeldOnce' /\ NoListNoUse'
    <3>1. CASE ~signsIn
      <4>1. \A b \in AccId : account_list'[b].client_idx = account_list[b].client_idx
        BY <2>6, <2>7, <3>1
      <4>2. \A j \in Slot : InUse(j)' <=> InUse(j)
        BY <1>3, <2>10, <3>1
      <4> QED
        BY <1>1, <2>1, <2>8, <4>1, <4>2, HeldKeeps DEF LoginInv
    <3>2. CASE signsIn
      <4>1. /\ account_list'[a].client_idx = i /\ r.client_idx = Nobody
            /\ \A b \in AccId : b # a => account_list'[b].client_idx = account_list[b].client_idx
        BY <2>5, <2>6, <2>7, <3>2
      <4>2. \A b \in AccId : account_list[b].client_idx \in Slot \cup {Nobody}
        BY <2>1 DEF Node
      <4>3. \A b \in AccId : b # a => account_list[b].client_idx # i
        BY <1>3, <2>1, <1>2, SlotIs DEF LoginInv, HeldOnce
      <4>4. ASSUME NEW j \in Slot, j # i
            PROVE  /\ InUse(j)' => \E b \in AccId : account_list'[b].client_idx = j
                   /\ \A b \in AccId : account_list'[b].client_idx = j => InUse(j)'
                   /\ \A b, c \in AccId : account_list'[b].client_idx = j /\ account_list'[c].client_idx = j
                                           => b = c
        <5>1. \A b \in AccId : account_list'[b].client_idx = j <=> account_list[b].client_idx = j
          BY <4>1, <4>4, SlotIs
        <5> QED
          BY <2>1, <2>10, <4>4, <5>1 DEF LoginInv, HeldOnce
      <4>5. \A b \in AccId : account_list'[b].client_idx = i <=> b = a
        BY <4>1, <4>3
      <4> QED
        BY <1>2, <2>1, <2>8, <2>10, <3>2, <4>4, <4>5 DEF HeldOnce, NoListNoUse
    <3> QED
      BY <3>1, <3>2
  <2> QED
    BY <2>9, <2>11, <2>12 DEF LoginInv
<1> QED
  BY <1>0, <1>4, <1>5 DEF GivePassword

\* The one account of a slot is the first that is found there, and the only
\* one that is released.
LEMMA SearchFinds ==
  ASSUME TypeOK, HeldOnce, account_list # NULL, NEW i \in Slot, NEW a \in AccId
  PROVE  a \in Search(account_list, i) <=> account_list[a].client_idx = i
<1> SUFFICES ASSUME account_list[a].client_idx = i
             PROVE  \A b \in AccId : b < a => account_list[b].client_idx # i
  BY DEF Search
<1> SUFFICES ASSUME NEW b \in AccId, b < a, account_list[b].client_idx = i
             PROVE  FALSE
  OBVIOUS
<1>1. a = b
  BY DEF HeldOnce
<1>2. a < a
  BY <1>1
<1>3. a \in Int
  BY DEF AccId
<1> QED
  BY <1>2, <1>3

LEMMA SaveInv ==
  ASSUME LoginInv, up, NEW addr \in Addr, SaveAndRelease(addr, IndexOf(addr))
  PROVE  LoginInv'
<1>0. PICK i \in Slot : i = IndexOf(addr)
  BY IndexCases
<1> DEFINE released == Search(account_list, i)
<1>1. CASE Die /\ file' \in {file, EmptyFile}
  <2>1. file' \in Files
    BY <1>1 DEF LoginInv, TableInv, TypeOK, Files
  <2> QED
    BY <1>1, <2>1, DieInv
<1>2. CASE /\ account_list # NULL
           /\ From(addr)
           /\ SetStatus(i, USERNAME_REQUIRED)
           /\ file' = Image(account_list)
           /\ account_list' = [a \in AccId |-> IF a \in released
                                               THEN [account_list[a] EXCEPT !.client_idx = Nobody]
                                               ELSE account_list[a]]
           /\ UNCHANGED <<up, username>>
  <2>1. account_list \in [AccId -> Node] /\ username \in Text \cup {NULL}
    BY <1>2 DEF LoginInv, TableInv, TypeOK
  <2> HIDE DEF released
  <2>2. ASSUME NEW a \in AccId
        PROVE  /\ account_list'[a] \in Node
               /\ account_list'[a].is_active = account_list[a].is_active
               /\ account_list'[a].client_idx = IF a \in released THEN Nobody ELSE account_list[a].client_idx
    <3>1. CASE a \in released
      <4>1. account_list'[a] = [account_list[a] EXCEPT !.client_idx = Nobody]
        BY <1>2, <3>1
      <4> QED
        BY <2>1, <3>1, <4>1, SetIdx
    <3>2. CASE a \notin released
      BY <1>2, <2>1, <3>2
    <3> QED
      BY <3>1, <3>2
  <2>3. account_list' \in [AccId -> Node] /\ account_list' # NULL
    <3>1. account_list' \in [AccId -> Node]
      BY <1>2, <2>2, Zenon
    <3> QED
      BY <3>1, UdpNullAssumption
  <2>4. file' \in [AccId -> Line]
    BY <1>2, <2>1, ImageType
  <2>5. USERNAME_REQUIRED \in Statuses
        /\ USERNAME_REQUIRED \notin {VALID_CREDENTIALS, ACCOUNT_CHANGE_PASSWORD}
    BY StatusValues DEF Statuses
  <2>6. TableInv'
    BY <1>0, <1>2, <2>1, <2>3, <2>4, <2>5, HandlerTable DEF LoginInv, Lists, Files
  <2>7. /\ \A j \in Slot : j # i => (InUse(j)' <=> InUse(j))
        /\ ~InUse(i)'
    BY <1>2, <2>5, UseAfter DEF LoginInv
  <2>8. \A a \in AccId : a \in released <=> account_list[a].client_idx = i
    BY <1>2, SearchFinds DEF LoginInv, TableInv, released
  <2>9. \A a \in AccId : account_list'[a].client_idx =
                           IF account_list[a].client_idx = i THEN Nobody ELSE account_list[a].client_idx
    BY <2>2, <2>8
  <2>10. HeldOnce' /\ NoListNoUse'
    <3>1. \A a \in AccId : account_list'[a].client_idx # i
      BY <2>9, SlotIs
    <3>2. ASSUME NEW j \in Slot, j # i
          PROVE  /\ InUse(j)' => \E b \in AccId : account_list'[b].client_idx = j
                 /\ \A b \in AccId : account_list'[b].client_idx = j => InUse(j)'
                 /\ \A b, c \in AccId : account_list'[b].client_idx = j /\ account_list'[c].client_idx = j
                                         => b = c
      <4>1. \A b \in AccId : account_list'[b].client_idx = j <=> account_list[b].client_idx = j
        BY <2>9, <3>2, SlotIs
      <4> QED
        BY <1>2, <2>7, <3>2, <4>1 DEF LoginInv, HeldOnce
    <3> QED
      BY <2>3, <2>7, <3>1, <3>2 DEF HeldOnce, NoListNoUse
  <2>11. DiskBehind'
    <3>1. \A a \in AccId : file'[a].is_active = account_list[a].is_active
      BY <1>2, ImageActive
    <3> QED
      BY <2>2, <3>1 DEF DiskBehind
  <2> QED
    BY <2>6, <2>10, <2>11 DEF LoginInv
<1> QED
  BY <1>0, <1>1, <1>2 DEF SaveAndRelease

LEMMA ChangeInv ==
  ASSUME LoginInv, NEW addr \in Addr, ChangePassword(addr)
  PROVE  LoginInv'
<1>0. PICK i \in Slot : i = IndexOf(addr)
  BY IndexCases
<1>1. /\ From(addr) /\ SetStatus(i, VALID_CREDENTIALS) /\ UNCHANGED <<up, username, file>>
      /\ clients_status[i] = ACCOUNT_CHANGE_PASSWORD
  BY <1>0 DEF ChangePassword
<1>2. PICK a \in AccId, p \in Text : account_list # NULL
                                     /\ account_list' = [account_list EXCEPT ![a].password = p]
  BY <1>0 DEF ChangePassword, Search
<1>3. account_list \in [AccId -> Node] /\ file \in Files /\ username \in Text \cup {NULL}
  BY <1>2 DEF LoginInv, TableInv, TypeOK, Files
<1>4. /\ account_list' \in [AccId -> Node]
      /\ \A b \in AccId : /\ account_list'[b].is_active = account_list[b].is_active
                          /\ account_list'[b].client_idx = account_list[b].client_idx
  BY <1>2, <1>3 DEF Node
<1>5. account_list' # NULL
  BY <1>4, UdpNullAssumption
<1>6. /\ VALID_CREDENTIALS \in Statuses
      /\ InUse(i) /\ VALID_CREDENTIALS \in {VALID_CREDENTIALS, ACCOUNT_CHANGE_PASSWORD}
  BY <1>1 DEF Statuses, InUse
<1>7. TableInv'
  BY <1>0, <1>1, <1>3, <1>4, <1>6, HandlerTable DEF LoginInv, Lists
<1>8. \A j \in Slot : InUse(j)' <=> InUse(j)
  BY <1>1, <1>6, UseAfter DEF LoginInv
<1>9. HeldOnce' /\ NoListNoUse'
  BY <1>2, <1>3, <1>4, <1>5, <1>8, HeldKeeps DEF LoginInv, Lists
<1>10. DiskBehind'
  BY <1>1, <1>2, <1>4, DiskKeeps DEF LoginInv
<1> QED
  BY <1>7, <1>9, <1>10 DEF LoginInv

LEMMA LoginStep == LoginInv /\ [Next]_vars => LoginInv'
<1> SUFFICES ASSUME LoginInv, [Next]_vars
             PROVE  LoginInv'
  OBVIOUS
<1>t. username \in Text \cup {NULL} /\ clients_status \in [Slot -> Statuses]
  BY DEF LoginInv, TableInv, TypeOK, Statuses
<1>s. /\ Statuses = {USERNAME_REQUIRED, PASSWORD_REQUIRED, VALID_CREDENTIALS, ACCOUNT_CHANGE_PASSWORD}
      /\ {USERNAME_REQUIRED, PASSWORD_REQUIRED} \cap {VALID_CREDENTIALS, ACCOUNT_CHANGE_PASSWORD} = {}
  BY StatusValues DEF Statuses
<1>1. CASE Start
  BY <1>1, StartInv
<1>2. CASE Kill
  <2>1. file' \in Files
    BY <1>2 DEF Kill, LoginInv, TableInv, TypeOK, Files
  <2> QED
    BY <1>2, <2>1, DieInv DEF Kill
<1>3. ASSUME NEW addr \in Addr, GiveUsername(addr)
      PROVE  LoginInv'
  <2>1. /\ From(addr) /\ clients_status[IndexOf(addr)] = USERNAME_REQUIRED
        /\ SetStatus(IndexOf(addr), PASSWORD_REQUIRED) /\ UNCHANGED <<up, account_list, file>>
    BY <1>3 DEF GiveUsername
  <2>2. username' \in Text
    BY <1>3 DEF GiveUsername
  <2>3. ~InUse(IndexOf(addr))
    BY <2>1, <1>s DEF InUse
  <2> QED
    BY <1>s, <2>1, <2>2, <2>3, IdleInv
<1>4. ASSUME NEW addr \in Addr, GivePassword(addr)
      PROVE  LoginInv'
  BY <1>4, PasswordInv
<1>5. ASSUME NEW addr \in Addr, Bye(addr) \/ Empty(addr)
      PROVE  LoginInv'
  BY <1>5, SaveInv DEF Bye, Empty
<1>6. ASSUME NEW addr \in Addr, AskChange(addr)
      PROVE  LoginInv'
  <2>1. /\ From(addr) /\ clients_status[IndexOf(addr)] = VALID_CREDENTIALS
        /\ SetStatus(IndexOf(addr), ACCOUNT_CHANGE_PASSWORD)
        /\ UNCHANGED <<up, username, account_list, file>>
    BY <1>6 DEF AskChange
  <2>2. InUse(IndexOf(addr))
    BY <2>1 DEF InUse
  <2> QED
    BY <1>s, <1>t, <2>1, <2>2, IdleInv
<1>7. ASSUME NEW addr \in Addr, ChangePassword(addr)
      PROVE  LoginInv'
  BY <1>7, ChangeInv
<1>8. ASSUME NEW addr \in Addr, Chat(addr)
      PROVE  LoginInv'
  <2>1. /\ From(addr) /\ clients_status[IndexOf(addr)] = VALID_CREDENTIALS
        /\ UNCHANGED <<up, clients_status, username, account_list, file>>
    BY <1>8 DEF Chat
  <2>2. InUse(IndexOf(addr))
    BY <2>1 DEF InUse
  <2>3. SetStatus(IndexOf(addr), VALID_CREDENTIALS)
    BY <1>t, <2>1, IndexCases DEF SetStatus
  <2> QED
    BY <1>s, <1>t, <2>1, <2>2, <2>3, IdleInv
<1>9. CASE UNCHANGED vars
  BY <1>9 DEF vars, tableVars, LoginInv, TableInv, TypeOK, NothingWhenDown, SlotsTaken, OneSlotEach,
              HeldOnce, NoListNoUse, InUse, DiskBehind
<1> QED
  BY <1>1, <1>2, <1>3, <1>4, <1>5, <1>6, <1>7, <1>8, <1>9 DEF Next

LEMMA LoginAlways == Spec => []LoginInv
BY LoginInit, LoginStep, PTL DEF Spec

-----------------------------------------------------------------------------
\* The variables keep their types.
THEOREM UdpTypes == Spec => []TypeOK
<1>1. LoginInv => TypeOK
  BY DEF LoginInv, TableInv
<1> QED
  BY <1>1, LoginAlways, PTL

\* A slot that is signed in has exactly one account and no other slot has
\* one: search_by_client_idx finds what lines 165, 182 and 190 mean.
THEOREM SlotAndAccount == Spec => []SlotHoldsAccount
<1>1. LoginInv => SlotHoldsAccount
  <2> SUFFICES ASSUME LoginInv, account_list # NULL, NEW i \in Slot
               PROVE  Cardinality({a \in AccId : account_list[a].client_idx = i}) = IF InUse(i) THEN 1 ELSE 0
    BY DEF SlotHoldsAccount
  <2> DEFINE S == {a \in AccId : account_list[a].client_idx = i}
  <2>1. CASE InUse(i)
    <3>1. PICK a \in AccId : account_list[a].client_idx = i
      BY <2>1 DEF LoginInv, HeldOnce
    <3>2. S = {a}
      BY <3>1 DEF LoginInv, HeldOnce
    <3> QED
      BY <2>1, <3>2, FS_Singleton
  <2>2. CASE ~InUse(i)
    <3>1. S = {}
      BY <2>2 DEF LoginInv, HeldOnce
    <3> QED
      BY <2>2, <3>1, FS_EmptySet
  <2> QED
    BY <2>1, <2>2
<1> QED
  BY <1>1, LoginAlways, PTL

\* What is relayed to a slot in use (lines 202-206) goes to an address, and
\* to one that has no other slot.
THEOREM RelayHasTarget == Spec => []RelayTargetKnown
<1>1. LoginInv => RelayTargetKnown
  <2> SUFFICES ASSUME LoginInv, NEW i \in Slot, InUse(i)
               PROVE  clients[i] # Blank /\ Known(clients[i]) = {i}
    BY DEF RelayTargetKnown
  <2>1. clients[i] # Blank
    BY StatusValues DEF LoginInv, TableInv, SlotsTaken, InUse
  <2>2. \A j \in Slot : clients[j] = clients[i] => j = i
    BY <2>1, SlotIs DEF LoginInv, TableInv, OneSlotEach
  <2> QED
    BY <2>1, <2>2 DEF Known
<1> QED
  BY <1>1, LoginAlways, PTL

-----------------------------------------------------------------------------
(***************************************************************************)
(* A block of account a, once it is in the file, stays: it is in memory    *)
(* too, and it comes back from the file after every start.                 *)
(***************************************************************************)

BlockedForGood(a) ==
  /\ file # EmptyFile => ~file[a].is_active
  /\ account_list # NULL => ~account_list[a].is_active

LEMMA BlockStays ==
  ASSUME LoginInv, NEW a \in AccId, BlockedForGood(a), [Next]_vars
  PROVE  BlockedForGood(a)'
<1>t. account_list \in Lists /\ file \in Files
  BY DEF LoginInv, TableInv, TypeOK, Lists, Files
<1>1. CASE Start
  <2>1. account_list' = read_account(file) /\ file' = file
    BY <1>1 DEF Start
  <2> QED
    BY <1>t, <2>1, ReadActive DEF BlockedForGood
<1>2. ASSUME Die, file' \in {file, EmptyFile}
      PROVE  BlockedForGood(a)'
  BY <1>2 DEF Die, BlockedForGood
<1>3. ASSUME UNCHANGED <<account_list, file>>
      PROVE  BlockedForGood(a)'
  BY <1>3 DEF BlockedForGood
<1>4. ASSUME NEW addr \in Addr, GivePassword(addr)
      PROVE  BlockedForGood(a)'
  <2>0. PICK i \in Slot : i = IndexOf(addr)
    BY IndexCases
  <2>1. file' = file
    BY <1>4 DEF GivePassword
  <2>2. CASE UNCHANGED account_list
    BY <1>3, <2>1, <2>2
  <2>3. ASSUME NEW b \in AccId, NEW new,
               account_list # NULL,
               account_list' = [account_list EXCEPT ![b] = new],
               b = a => ~new.is_active
        PROVE  BlockedForGood(a)'
    BY <1>t, <2>1, <2>3 DEF BlockedForGood, Lists
  <2>4. ASSUME NEW b \in Lookup(account_list, username), NEW p,
               LET r == account_list[b]
                   ok == p = r.password
                   signsIn == LoginAnswer(r, ok) = VALID_CREDENTIALS
               IN account_list' = [account_list EXCEPT ![b] =
                                      IF signsIn THEN [r EXCEPT !.client_idx = i]
                                      ELSE IF ok THEN r ELSE WrongPassword(r)]
        PROVE  BlockedForGood(a)'
    <3> DEFINE r == account_list[b]
               ok == p = r.password
               signsIn == LoginAnswer(r, ok) = VALID_CREDENTIALS
               new == IF signsIn THEN [r EXCEPT !.client_idx = i]
                      ELSE IF ok THEN r ELSE WrongPassword(r)
    <3>1. b \in AccId /\ account_list # NULL /\ account_list \in [AccId -> Node]
      BY <1>t, <2>4 DEF Lookup, Lists
    <3>2. r \in Node /\ (b = a => ~r.is_active)
      BY <3>1 DEF BlockedForGood
    <3>3. account_list' = [account_list EXCEPT ![b] = new]
      BY <2>4
    <3>4. new.is_active => r.is_active
      <4> HIDE DEF r
      <4>1. CASE signsIn
        <5>1. new = [r EXCEPT !.client_idx = i]
          BY <4>1
        <5> QED
          BY <3>2, <5>1, SetIdx
      <4>2. CASE ~signsIn /\ ok
        BY <4>2
      <4>3. CASE ~signsIn /\ ~ok
        <5>1. new = WrongPassword(r)
          BY <4>3
        <5> QED
          BY <3>2, <5>1, Wrong
      <4> QED
        BY <4>1, <4>2, <4>3
    <3> HIDE DEF new
    <3> QED
      BY <2>3, <3>1, <3>2, <3>3, <3>4
  <2>5. CASE \E b \in Lookup(account_list, username), p \in Text \ {""} :
               LET r == account_list[b]
                   ok == p = r.password
                   signsIn == LoginAnswer(r, ok) = VALID_CREDENTIALS
               IN account_list' = [account_list EXCEPT ![b] =
                                      IF signsIn THEN [r EXCEPT !.client_idx = i]
                                      ELSE IF ok THEN r ELSE WrongPassword(r)]
    BY <2>4, <2>5
  <2> QED
    BY <1>4, <2>0, <2>2, <2>5 DEF GivePassword
<1>5. ASSUME NEW addr \in Addr, SaveAndRelease(addr, IndexOf(addr))
      PROVE  BlockedForGood(a)'
  <2>1. CASE Die /\ file' \in {file, EmptyFile}
    BY <1>2, <2>1
  <2>2. CASE ~(Die /\ file' \in {file, EmptyFile})
    <3> DEFINE released == Search(account_list, IndexOf(addr))
    <3>1. /\ account_list # NULL /\ file' = Image(account_list)
          /\ account_list' = [b \in AccId |-> IF b \in released
                                              THEN [account_list[b] EXCEPT !.client_idx = Nobody]
                                              ELSE account_list[b]]
      BY <1>5, <2>2 DEF SaveAndRelease
    <3>2. account_list \in [AccId -> Node] /\ ~account_list[a].is_active
      BY <1>t, <3>1 DEF BlockedForGood, Lists
    <3>3. ~file'[a].is_active
      BY <3>1, <3>2, ImageActive
    <3> HIDE DEF released
    <3>4. account_list'[a].is_active = account_list[a].is_active
      <4>1. CASE a \in released
        <5>1. account_list'[a] = [account_list[a] EXCEPT !.client_idx = Nobody]
          BY <3>1, <4>1
        <5> QED
          BY <3>2, <5>1, SetIdx
      <4>2. CASE a \notin released
        BY <3>1, <4>2
      <4> QED
        BY <4>1, <4>2
    <3> QED
      BY <3>2, <3>3, <3>4 DEF BlockedForGood
  <2> QED
    BY <2>1, <2>2
<1>6. ASSUME NEW addr \in Addr, ChangePassword(addr)
      PROVE  BlockedForGood(a)'
  <2>1. PICK b \in AccId, p \in Text : account_list # NULL /\ file' = file
                                       /\ account_list' = [account_list EXCEPT ![b].password = p]
    BY <1>6 DEF ChangePassword, Search
  <2>2. account_list'[a].is_active = account_list[a].is_active
    BY <1>t, <2>1 DEF Lists, Node
  <2> QED
    BY <2>1, <2>2 DEF BlockedForGood
<1> QED
  BY <1>1, <1>2, <1>3, <1>4, <1>5, <1>6
  DEF Next, Kill, GiveUsername, Bye, Empty, AskChange, Chat, vars

\* A block that a save (lines 165-172 and 213-221) has put into the file is
\* not undone by anything that is saved later, by a death, which may leave
\* the file empty, or by a start.
THEOREM BlockReachesDiskForGood == Spec => DiskBlockPermanent
<1> SUFFICES ASSUME NEW a \in AccId
             PROVE  Spec => []((file # EmptyFile /\ ~file[a].is_active) =>
                                 [](file # EmptyFile => ~file[a].is_active))
  BY DEF DiskBlockPermanent
<1>1. LoginInv /\ (file # EmptyFile /\ ~file[a].is_active) => BlockedForGood(a)
  BY DEF LoginInv, DiskBehind, BlockedForGood
<1>2. LoginInv /\ BlockedForGood(a) /\ [Next]_vars => BlockedForGood(a)'
  BY BlockStays
<1>3. BlockedForGood(a) => (file # EmptyFile => ~file[a].is_active)
  BY DEF BlockedForGood
<1> QED
  BY <1>1, <1>2, <1>3, LoginAlways, PTL DEF Spec

-----------------------------------------------------------------------------
(***************************************************************************)
(* Who acts for an account.  Acting(addr, i) says that the server takes    *)
(* addr for the client of slot i, and that addr is that client unless the  *)
(* table is full.                                                          *)
(***************************************************************************)

Acting(addr, i) ==
  addr \in Addr /\ TakenFor(addr) = clients[i] /\ (Unused # {} => addr = clients[i])

\* The sender is taken for the client of the slot the search has found.
LEMMA SenderActs ==
  ASSUME LoginInv, NEW addr \in Addr, From(addr), NEW k \in Slot, k = IndexOf(addr)
  PROVE  Acting(addr, k)'
<1>t. clients \in [Slot -> Addr \cup {Blank}]
  BY DEF LoginInv, TableInv, TypeOK
<1>1. CASE clients'[k] = addr
  <2>1. k \in Known(addr)'
    BY <1>1 DEF Known
  <2>2. TakenFor(addr)' = addr
    BY <2>1 DEF TakenFor
  <2> QED
    BY <1>1, <2>2 DEF Acting
<1>2. CASE clients'[k] # addr
  <2>1. \A j \in Slot : clients[j] # addr /\ clients[j] # Blank
    BY <1>t, <1>2, FromTable
  <2>2. clients' = clients
    BY <1>t, <2>1, FromTable
  <2>3. k = 0 /\ Known(addr) = {} /\ Unused = {}
    <3>1. Known(addr) = {} /\ Unused = {}
      BY <2>1 DEF Known, Unused
    <3> QED
      BY <3>1 DEF IndexOf
  <2>4. Known(addr)' = {} /\ Unused' = {}
    BY <2>2, <2>3 DEF Known, Unused
  <2>5. TakenFor(addr)' = clients'[k]
    BY <2>3, <2>4 DEF TakenFor
  <2> QED
    BY <2>4, <2>5 DEF Acting
<1> QED
  BY <1>1, <1>2

\* The table is full, and stays as it is, or has an unused slot, and then a
\* slot in use keeps its address.
LEMMA ActingKeeps ==
  ASSUME LoginInv, NEW addr \in Addr, From(addr), NEW x, NEW j \in Slot, InUse(j), Acting(x, j)
  PROVE  Acting(x, j)'
<1>t. clients \in [Slot -> Addr \cup {Blank}]
  BY DEF LoginInv, TableInv, TypeOK
<1>1. CASE Unused = {}
  <2>1. clients' = clients
    BY <1>t, <1>1, FromTable DEF Unused
  <2> QED
    BY <2>1 DEF Acting, TakenFor, Known, Unused
<1>2. CASE Unused # {}
  <2>1. clients[j] # Blank
    BY StatusValues DEF LoginInv, TableInv, SlotsTaken, InUse
  <2>2. clients'[j] = clients[j]
    BY <1>t, <2>1, FromTable
  <2>3. clients'[j] = x
    BY <1>2, <2>2 DEF Acting
  <2>4. j \in Known(x)'
    BY <2>3 DEF Known
  <2> QED
    BY <2>3, <2>4 DEF Acting, TakenFor
<1> QED
  BY <1>1, <1>2

\* Of two addresses that are not the same, none is new.
LEMMA SameKeeps ==
  ASSUME LoginInv, NEW addr \in Addr, From(addr), NEW x, NEW y,
         TakenFor(x) = TakenFor(y), Unused # {} => x = y
  PROVE  TakenFor(x)' = TakenFor(y)' /\ (Unused' # {} => x = y)
<1>1. CASE x = y
  BY <1>1
<1>2. CASE x # y
  <2>1. clients' = clients
    BY <1>2, FromTable DEF LoginInv, TableInv, TypeOK, Unused
  <2> QED
    BY <1>2, <2>1 DEF TakenFor, Known, Unused
<1> QED
  BY <1>1, <1>2

OwnerTypes ==
  /\ owner \in [AccId -> Addr \cup {Blank}] /\ actor \in [AccId -> Addr \cup {Blank}]
  /\ \A a \in AccId : actor[a] = Blank <=> owner[a] = Blank
Agree(a) == TakenFor(actor[a]) = TakenFor(owner[a]) /\ (Unused # {} => actor[a] = owner[a])
OwnerOfSlot ==
  account_list # NULL =>
    \A a \in AccId, i \in Slot : account_list[a].client_idx = i => Acting(owner[a], i)
OwnerInv == OwnerTypes /\ OwnerOfSlot /\ \A a \in AccId : Agree(a)

LEMMA OwnerInit == Init => OwnerInv
BY DEF Init, OwnerInv, OwnerTypes, OwnerOfSlot, Agree

LEMMA OwnerDie ==
  ASSUME Die
  PROVE  OwnerInv'
BY DEF Die, OwnerInv, OwnerTypes, OwnerOfSlot, Agree

\* The accounts stay with their slots or are released, and whoever acts, also
\* by a release, has acted.
LEMMA OwnerKeeps ==
  ASSUME LoginInv, OwnerInv, NEW addr \in Addr, From(addr),
         account_list' # NULL => account_list # NULL,
         account_list' # NULL =>
           \A a \in AccId : account_list'[a].client_idx \in {account_list[a].client_idx, Nobody},
         owner' = owner, actor' = actor \/ Acts(addr, IndexOf(addr))
  PROVE  OwnerInv'
<1>0. PICK k \in Slot : k = IndexOf(addr)
  BY IndexCases
<1>1. ASSUME NEW a \in AccId
      PROVE  \/ actor'[a] = actor[a]
             \/ actor'[a] = addr /\ account_list # NULL /\ account_list[a].client_idx = k
  <2>1. CASE Acts(addr, IndexOf(addr))
    BY <1>0, <2>1 DEF Acts, Search
  <2> QED
    BY <2>1
<1>2. ASSUME NEW a \in AccId, NEW i \in Slot, account_list # NULL, account_list[a].client_idx = i
      PROVE  Acting(owner[a], i) /\ Acting(owner[a], i)' /\ InUse(i)
  <2>1. InUse(i) /\ Acting(owner[a], i)
    BY <1>2 DEF LoginInv, HeldOnce, OwnerInv, OwnerOfSlot
  <2>2. PICK x : x = owner[a]
    OBVIOUS
  <2>3. owner'[a] = x
    BY <2>2
  <2>4. Acting(x, i)'
    BY <2>1, <2>2, ActingKeeps
  <2> QED
    BY <2>1, <2>2, <2>3, <2>4
<1>3. OwnerTypes'
  <2>1. actor' \in [AccId -> Addr \cup {Blank}]
    <3>1. CASE Acts(addr, IndexOf(addr))
      BY <3>1 DEF Acts, OwnerInv, OwnerTypes
    <3> QED
      BY <3>1 DEF OwnerInv, OwnerTypes
  <2>2. ASSUME NEW a \in AccId
        PROVE  actor'[a] = Blank <=> owner'[a] = Blank
    <3>1. CASE actor'[a] = actor[a]
      BY <3>1 DEF OwnerInv, OwnerTypes
    <3>2. CASE actor'[a] = addr /\ account_list # NULL /\ account_list[a].client_idx = k
      <4>1. owner[a] \in Addr
        BY <1>2, <3>2 DEF Acting
      <4> QED
        BY <3>2, <4>1, ConstantTypes
    <3> QED
      BY <1>1, <3>1, <3>2
  <2> QED
    BY <2>1, <2>2 DEF OwnerInv, OwnerTypes
<1>4. OwnerOfSlot'
  <2>1. ASSUME account_list' # NULL, NEW a \in AccId, NEW i \in Slot, account_list'[a].client_idx = i
        PROVE  Acting(owner[a], i)'
    BY <1>2, <2>1, SlotIs
  <2> QED
    BY <2>1 DEF OwnerOfSlot
<1>5. ASSUME NEW a \in AccId
      PROVE  Agree(a)'
  <2>0. PICK x, y : x = owner[a] /\ y = actor[a]
    OBVIOUS
  <2>1. CASE actor'[a] = actor[a]
    <3>1. TakenFor(y) = TakenFor(x) /\ (Unused # {} => y = x)
      BY <2>0 DEF OwnerInv, Agree
    <3>2. TakenFor(y)' = TakenFor(x)' /\ (Unused' # {} => y = x)
      BY <3>1, SameKeeps
    <3>3. owner'[a] = x /\ actor'[a] = y
      BY <2>0, <2>1
    <3> QED
      BY <3>2, <3>3 DEF Agree
  <2>2. CASE actor'[a] = addr /\ account_list # NULL /\ account_list[a].client_idx = k
    <3>1. Acting(owner[a], k)'
      BY <1>2, <2>2
    <3>2. Acting(addr, k)'
      BY <1>0, SenderActs
    <3>3. owner'[a] = x /\ actor'[a] = addr
      BY <2>0, <2>2
    <3> QED
      BY <3>1, <3>2, <3>3 DEF Agree, Acting
  <2> QED
    BY <1>1, <2>1, <2>2
<1> QED
  BY <1>3, <1>4, <1>5 DEF OwnerInv

LEMMA OwnerPassword ==
  ASSUME LoginInv, OwnerInv, NEW addr \in Addr, GivePassword(addr)
  PROVE  OwnerInv'
<1>0. PICK i \in Slot : i = IndexOf(addr)
  BY IndexCases
<1>1. From(addr)
  BY DEF GivePassword
<1>2. CASE UNCHANGED <<account_list, owner, actor>>
  BY <1>1, <1>2, OwnerKeeps
<1>3. ASSUME NEW a \in Lookup(account_list, username), NEW p,
             LET r == account_list[a]
                 ok == p = r.password
                 signsIn == LoginAnswer(r, ok) = VALID_CREDENTIALS
             IN /\ account_list' = [account_list EXCEPT ![a] =
                                      IF signsIn THEN [r EXCEPT !.client_idx = i]
                                      ELSE IF ok THEN r ELSE WrongPassword(r)]
                /\ owner' = IF signsIn THEN [owner EXCEPT ![a] = addr] ELSE owner
                /\ actor' = IF signsIn THEN [actor EXCEPT ![a] = addr] ELSE actor
      PROVE  OwnerInv'
  <2> DEFINE r == account_list[a]
             ok == p = r.password
             signsIn == LoginAnswer(r, ok) = VALID_CREDENTIALS
  <2>1. a \in AccId /\ account_list # NULL /\ account_list \in [AccId -> Node] /\ r \in Node
    BY DEF Lookup, LoginInv, TableInv, TypeOK
  <2>2. CASE ~signsIn
    <3> DEFINE new == IF ok THEN r ELSE WrongPassword(r)
    <3>1. account_list' = [account_list EXCEPT ![a] = new] /\ UNCHANGED <<owner, actor>>
      BY <1>3, <2>2
    <3>2. new.client_idx = r.client_idx
      <4>1. CASE ok
        BY <4>1
      <4>2. CASE ~ok
        <5>1. new = WrongPassword(r)
          BY <4>2
        <5> QED
          BY <2>1, <5>1, Wrong
      <4> QED
        BY <4>1, <4>2
    <3> HIDE DEF new
    <3>3. \A b \in AccId : account_list'[b].client_idx = account_list[b].client_idx
      BY <2>1, <3>1, <3>2
    <3> QED
      BY <1>1, <2>1, <3>1, <3>3, OwnerKeeps
  <2>3. CASE signsIn
    <3> DEFINE new == [r EXCEPT !.client_idx = i]
    <3>1. /\ account_list' = [account_list EXCEPT ![a] = new]
          /\ owner' = [owner EXCEPT ![a] = addr] /\ actor' = [actor EXCEPT ![a] = addr]
      BY <1>3, <2>3
    <3>2. new.client_idx = i
      BY <2>1, SetIdx
    <3> HIDE DEF new
    <3>3. /\ account_list'[a].client_idx = i
          /\ \A b \in AccId : b # a => account_list'[b] = account_list[b]
      BY <2>1, <3>1, <3>2
    <3>4. /\ owner'[a] = addr /\ actor'[a] = addr
          /\ \A b \in AccId : b # a => owner'[b] = owner[b] /\ actor'[b] = actor[b]
      BY <2>1, <3>1 DEF OwnerInv, OwnerTypes
    <3>5. OwnerTypes'
      <4>1. owner' \in [AccId -> Addr \cup {Blank}] /\ actor' \in [AccId -> Addr \cup {Blank}]
        BY <3>1 DEF OwnerInv, OwnerTypes
      <4>2. \A b \in AccId : actor'[b] = Blank <=> owner'[b] = Blank
        BY <3>4 DEF OwnerInv, OwnerTypes
      <4> QED
        BY <4>1, <4>2 DEF OwnerTypes
    <3>6. Acting(addr, i)'
      BY <1>0, <1>1, SenderActs
    <3>7. OwnerOfSlot'
      <4>1. ASSUME NEW b \in AccId, NEW j \in Slot, account_list'[b].client_idx = j
            PROVE  Acting(owner[b], j)'
        <5>1. CASE b = a
          <6>1. j = i
            BY <3>3, <4>1, <5>1
          <6> QED
            BY <3>4, <3>6, <5>1, <6>1 DEF Acting
        <5>2. CASE b # a
          <6>1. account_list[b].client_idx = j
            BY <3>3, <4>1, <5>2
          <6>2. InUse(j) /\ Acting(owner[b], j)
            BY <2>1, <6>1 DEF LoginInv, HeldOnce, OwnerInv, OwnerOfSlot
          <6>3. PICK x : x = owner[b]
            OBVIOUS
          <6>4. Acting(x, j)'
            BY <1>1, <6>2, <6>3, ActingKeeps
          <6>5. owner'[b] = x
            BY <3>4, <5>2, <6>3
          <6> QED
            BY <6>4, <6>5
        <5> QED
          BY <5>1, <5>2
      <4> QED
        BY <4>1 DEF OwnerOfSlot
    <3>8. ASSUME NEW b \in AccId
          PROVE  Agree(b)'
      <4>1. CASE b = a
        BY <3>4, <4>1 DEF Agree
      <4>2. CASE b # a
        <5>1. PICK x, y : x = owner[b] /\ y = actor[b]
          OBVIOUS
        <5>2. TakenFor(y) = TakenFor(x) /\ (Unused # {} => y = x)
          BY <5>1 DEF OwnerInv, Agree
        <5>3. TakenFor(y)' = TakenFor(x)' /\ (Unused' # {} => y = x)
          BY <1>1, <5>2, SameKeeps
        <5>4. owner'[b] = x /\ actor'[b] = y
          BY <3>4, <4>2, <5>1
        <5> QED
          BY <5>3, <5>4 DEF Agree
      <4> QED
        BY <4>1, <4>2
    <3> QED
      BY <3>5, <3>7, <3>8 DEF OwnerInv
  <2> QED
    BY <2>2, <2>3
<1>4. CASE \E a \in Lookup(account_list, username), p \in Text \ {""} :
             LET r == account_list[a]
                 ok == p = r.password
                 signsIn == LoginAnswer(r, ok) = VALID_CREDENTIALS
             IN /\ account_list' = [account_list EXCEPT ![a] =
                                      IF signsIn THEN [r EXCEPT !.client_idx = i]
                                      ELSE IF ok THEN r ELSE WrongPassword(r)]
                /\ owner' = IF signsIn THEN [owner EXCEPT ![a] = addr] ELSE owner
                /\ actor' = IF signsIn THEN [actor EXCEPT ![a] = addr] ELSE actor
  BY <1>3, <1>4
<1> QED
  BY <1>0, <1>2, <1>4 DEF GivePassword

\* The sign-outs of lines 164-171 and 187-194.
LEMMA OwnerSave ==
  ASSUME LoginInv, OwnerInv, NEW addr \in Addr, SaveAndRelease(addr, IndexOf(addr))
  PROVE  OwnerInv'
<1>1. CASE Die
  BY <1>1, OwnerDie
<1>2. CASE ~Die
  <2> DEFINE released == Search(account_list, IndexOf(addr))
  <2>1. /\ account_list # NULL /\ From(addr)
        /\ account_list' = [a \in AccId |-> IF a \in released
                                            THEN [account_list[a] EXCEPT !.client_idx = Nobody]
                                            ELSE account_list[a]]
        /\ Acts(addr, IndexOf(addr)) /\ owner' = owner
    BY <1>2 DEF SaveAndRelease
  <2>t. account_list \in [AccId -> Node]
    BY <2>1 DEF LoginInv, TableInv, TypeOK
  <2> HIDE DEF released
  <2>2. ASSUME NEW a \in AccId
        PROVE  account_list'[a].client_idx \in {account_list[a].client_idx, Nobody}
    <3>1. CASE a \in released
      <4>1. account_list'[a] = [account_list[a] EXCEPT !.client_idx = Nobody]
        BY <2>1, <3>1
      <4> QED
        BY <2>t, <4>1, SetIdx
    <3>2. CASE a \notin released
      BY <2>1, <3>2
    <3> QED
      BY <3>1, <3>2
  <2> QED
    BY <2>1, <2>2, OwnerKeeps
<1> QED
  BY <1>1, <1>2

LEMMA OwnerStep == LoginInv /\ OwnerInv /\ [Next]_vars => OwnerInv'
<1> SUFFICES ASSUME LoginInv, OwnerInv, [Next]_vars
             PROVE  OwnerInv'
  OBVIOUS
<1>1. CASE Start
  <2>1. /\ file \in Files /\ account_list' = read_account(file) /\ UNCHANGED <<clients, owner, actor>>
    BY <1>1 DEF Start, LoginInv, TableInv, TypeOK, Files, historyVars, tableVars
  <2>2. OwnerOfSlot'
    <3>1. account_list' # NULL => \A a \in AccId : account_list'[a].client_idx = Nobody
      BY <2>1, ReadNobody
    <3> QED
      BY <3>1, SlotIs DEF OwnerOfSlot
  <2>3. \A a \in AccId : Agree(a)'
    BY <2>1 DEF OwnerInv, Agree, TakenFor, Known, Unused
  <2> QED
    BY <2>1, <2>2, <2>3 DEF OwnerInv, OwnerTypes
<1>2. CASE Kill
  BY <1>2, OwnerDie DEF Kill
<1>3. ASSUME NEW addr \in Addr, GiveUsername(addr)
      PROVE  OwnerInv'
  <2>1. From(addr) /\ UNCHANGED <<account_list, owner, actor>>
    BY <1>3 DEF GiveUsername
  <2> QED
    BY <2>1, OwnerKeeps
<1>4. ASSUME NEW addr \in Addr, GivePassword(addr)
      PROVE  OwnerInv'
  BY <1>4, OwnerPassword
<1>5. ASSUME NEW addr \in Addr, Bye(addr) \/ Empty(addr)
      PROVE  OwnerInv'
  BY <1>5, OwnerSave DEF Bye, Empty
<1>6. ASSUME NEW addr \in Addr, AskChange(addr) \/ Chat(addr)
      PROVE  OwnerInv'
  <2>1. From(addr) /\ Acts(addr, IndexOf(addr)) /\ UNCHANGED <<account_list, owner>>
    BY <1>6 DEF AskChange, Chat
  <2> QED
    BY <2>1, OwnerKeeps
<1>7. ASSUME NEW addr \in Addr, ChangePassword(addr)
      PROVE  OwnerInv'
  <2>1. From(addr) /\ Acts(addr, IndexOf(addr)) /\ UNCHANGED owner
    BY <1>7 DEF ChangePassword
  <2>2. PICK a \in AccId, p \in Text : account_list # NULL
                                       /\ account_list' = [account_list EXCEPT ![a].password = p]
    BY <1>7 DEF ChangePassword, Search
  <2>3. \A b \in AccId : account_list'[b].client_idx = account_list[b].client_idx
    BY <2>2 DEF LoginInv, TableInv, TypeOK, Node
  <2> QED
    BY <2>1, <2>2, <2>3, OwnerKeeps
<1>8. CASE UNCHANGED vars
  <2>1. UNCHANGED <<clients, account_list, owner, actor>>
    BY <1>8 DEF vars, tableVars, historyVars
  <2> QED
    BY <2>1 DEF OwnerInv, OwnerTypes, OwnerOfSlot, Agree, Acting, TakenFor, Known, Unused
<1> QED
  BY <1>1, <1>2, <1>3, <1>4, <1>5, <1>6, <1>7, <1>8 DEF Next

LEMMA OwnerAlways == Spec => [](LoginInv /\ OwnerInv)
BY OwnerInit, OwnerStep, LoginAlways, PTL DEF Spec

\* Line 115, "also get the index of the client_tmp": with any number of
\* addresses, and whatever was lost, repeated or reordered, whoever acts for an
\* account or signs it out is to the server the client that signed in to it.
THEOREM ActorIsClient == Spec => []SameClientActs
<1>1. LoginInv /\ OwnerInv => SameClientActs
  <2> SUFFICES ASSUME LoginInv, OwnerInv, NEW a \in AccId
               PROVE  /\ TakenFor(actor[a]) = TakenFor(owner[a])
                      /\ Unused # {} => actor[a] = owner[a]
                      /\ (account_list # NULL /\ account_list[a].client_idx # Nobody) =>
                           TakenFor(owner[a]) = clients[account_list[a].client_idx]
    BY DEF SameClientActs
  <2>1. Agree(a)
    BY DEF OwnerInv
  <2>2. ASSUME account_list # NULL, account_list[a].client_idx # Nobody
        PROVE  TakenFor(owner[a]) = clients[account_list[a].client_idx]
    <3>1. account_list[a].client_idx \in Slot
      BY <2>2 DEF LoginInv, TableInv, TypeOK, Node
    <3> QED
      BY <2>2, <3>1 DEF OwnerInv, OwnerOfSlot, Acting
  <2> QED
    BY <2>1, <2>2 DEF Agree
<1> QED
  BY <1>1, OwnerAlways, PTL

(***************************************************************************)
(* When there are no more addresses than slots, a full table has them all, *)
(* and nobody is taken for another.                                        *)
(***************************************************************************)

NoThirdAddress == IsFiniteSet(Addr) /\ Cardinality(Addr) <= MAX_CLIENTS
OnlyOwnerActs ==
  \A a \in AccId :
    /\ actor[a] = owner[a]
    /\ (account_list # NULL /\ account_list[a].client_idx # Nobody) =>
         owner[a] = clients[account_list[a].client_idx]

LEMMA TwoOfThree ==
  ASSUME NoThirdAddress, NEW x \in Addr, NEW y \in Addr, NEW z \in Addr
  PROVE  x = y \/ x = z \/ y = z
<1> SUFFICES ASSUME x # y, x # z, y # z
             PROVE  FALSE
  OBVIOUS
<1>1. IsFiniteSet({x}) /\ Cardinality({x}) = 1
  BY FS_Singleton
<1>2. IsFiniteSet({x} \cup {y}) /\ Cardinality({x} \cup {y}) = 2
  BY <1>1, FS_AddElement
<1>3. IsFiniteSet({x} \cup {y} \cup {z}) /\ Cardinality({x} \cup {y} \cup {z}) = 3
  BY <1>2, FS_AddElement
<1>4. Cardinality({x} \cup {y} \cup {z}) <= Cardinality(Addr) /\ Cardinality(Addr) \in Nat
  BY FS_Subset, FS_CardinalityType DEF NoThirdAddress
<1> QED
  BY <1>3, <1>4, SlotIs DEF NoThirdAddress, MAX_CLIENTS

LEMMA FullTableKnows ==
  ASSUME LoginInv, NoThirdAddress, Unused = {}, NEW x \in Addr
  PROVE  TakenFor(x) = x
<1>1. clients[0] \in Addr /\ clients[1] \in Addr /\ clients[0] # clients[1]
  BY SlotIs DEF LoginInv, TableInv, TypeOK, OneSlotEach, Unused
<1>2. x = clients[0] \/ x = clients[1]
  BY <1>1, TwoOfThree
<1>3. Known(x) # {}
  BY <1>2, SlotIs DEF Known
<1> QED
  BY <1>3 DEF TakenFor

\* As long as there are no more addresses than slots, only the address that
\* signed in to an account acts for it and signs it out.
THEOREM OwnerActsOfTwo == Spec => [](NoThirdAddress => OnlyOwnerActs)
<1>1. LoginInv /\ OwnerInv => (NoThirdAddress => OnlyOwnerActs)
  <2> SUFFICES ASSUME LoginInv, OwnerInv, NoThirdAddress, NEW a \in AccId
               PROVE  /\ actor[a] = owner[a]
                      /\ (account_list # NULL /\ account_list[a].client_idx # Nobody) =>
                           owner[a] = clients[account_list[a].client_idx]
    BY DEF OnlyOwnerActs
  <2>1. Agree(a) /\ OwnerTypes
    BY DEF OwnerInv
  <2>2. actor[a] = owner[a]
    <3>1. CASE Unused = {} /\ owner[a] # Blank
      <4>1. owner[a] \in Addr /\ actor[a] \in Addr
        BY <2>1, <3>1 DEF OwnerTypes
      <4> QED
        BY <2>1, <3>1, <4>1, FullTableKnows DEF Agree
    <3>2. CASE Unused # {} \/ owner[a] = Blank
      BY <2>1, <3>2 DEF Agree, OwnerTypes
    <3> QED
      BY <3>1, <3>2
  <2>3. ASSUME account_list # NULL, account_list[a].client_idx # Nobody
        PROVE  owner[a] = clients[account_list[a].client_idx]
    <3>1. account_list[a].client_idx \in Slot
      BY <2>3 DEF LoginInv, TableInv, TypeOK, Node
    <3>2. Acting(owner[a], account_list[a].client_idx)
      BY <2>3, <3>1 DEF OwnerInv, OwnerOfSlot
    <3>3. CASE Unused = {}
      BY <3>2, <3>3, FullTableKnows DEF Acting
    <3>4. CASE Unused # {}
      BY <3>2, <3>4 DEF Acting
    <3> QED
      BY <3>3, <3>4
  <2> QED
    BY <2>2, <2>3
<1> QED
  BY <1>1, OwnerAlways, PTL
=============================================================================
