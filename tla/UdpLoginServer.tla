---------------------------- MODULE UdpLoginServer ----------------------------
(***************************************************************************)
(* The login and relay server of homework 4 (server.c, account.c): one     *)
(* UDP socket, a table of MAX_CLIENTS = 2 addresses, a status per slot of  *)
(* the table, and one buffer for the username and one for the password     *)
(* that all clients share.  Each datagram is handled to its end before the *)
(* next is read, so a handler is one step; only a death in the middle of   *)
(* save_to_file shows.  Datagrams may be lost, duplicated and reordered,   *)
(* so any address may be heard at any time with any text.                  *)
(***************************************************************************)
EXTENDS Integers, FiniteSetsExt

CONSTANTS
  Addr,         \* the addresses of the clients
  Blank,        \* the address of a slot not in use
  Text,         \* what a datagram can say
  NumAccounts, Name, Pass, MaxAttempts, NULL, EmptyFile   \* as in AccountList

AccId == 1..NumAccounts
MAX_CLIENTS == 2
Slot == 0..(MAX_CLIENTS - 1)
Nobody == -1     \* client_idx of an account nobody uses

ASSUME UdpAssumption ==
  /\ {"", "bye", "changepassword"} \subseteq Text
  /\ Name \in [AccId -> Text \ {""}] /\ Pass \in [AccId -> Text \ {""}]
  /\ MaxAttempts \in Nat \ {0} /\ Blank \notin Addr

\* A node of the list without its name, and what the file holds of it.
Node == [password : Text, is_active : BOOLEAN, attempts : 0..MaxAttempts,
         client_idx : Slot \cup {Nobody}]
Line == [password : Text, is_active : BOOLEAN]

\* NULL is no list and an empty file is no file of NumAccounts lines.
ASSUME UdpNullAssumption == NULL \notin [AccId -> Node] /\ EmptyFile \notin [AccId -> Line]

\* The states of a slot and the answers of process_login (account.h).
USERNAME_REQUIRED       == 0
PASSWORD_REQUIRED       == 1
VALID_CREDENTIALS       == 2
ACCOUNT_NOT_EXIST       == 3
WRONG_PASSWORD          == 4
ACCOUNT_BLOCKED         == 5
ACCOUNT_NOT_ACTIVE      == 6
ACCOUNT_ALREADY_SIGN_IN == 7
ACCOUNT_CHANGE_PASSWORD == 8

VARIABLES
  up,
  clients,          \* clients[i]: the address in slot i
  clients_status,
  username,         \* the one buffer; NULL while nothing has been stored
  account_list,
  file,
  given,            \* history: given[i], the name slot i is signing in with
  owner,            \* history: owner[a], the address that signed in to a last
  actor             \* history: actor[a], the address that last signed in to a,
                    \* acted for it or signed it out

tableVars == <<clients, clients_status, username>>
historyVars == <<given, owner, actor>>
vars == <<up, tableVars, account_list, file, historyVars>>

(***************************************************************************)
(* The list and the file.  Passwords change here, so they are part of both.*)
(***************************************************************************)

\* Mutant of read_account: the last word of a line is not stored.
ReadAllActive(f) ==
  IF f = EmptyFile THEN NULL
  ELSE [a \in AccId |-> [password |-> f[a].password, is_active |-> TRUE,
                         attempts |-> 0, client_idx |-> Nobody]]

read_account(f) ==
  IF f = EmptyFile THEN NULL
  ELSE [a \in AccId |-> [password |-> f[a].password, is_active |-> f[a].is_active,
                         attempts |-> 0, client_idx |-> Nobody]]

Image(list) == [a \in AccId |-> [password |-> list[a].password, is_active |-> list[a].is_active]]

Lookup(list, u) ==
  {a \in AccId : list # NULL /\ Name[a] = u /\ \A b \in AccId : b < a => Name[b] # u}

\* search_by_client_idx: the first node with that index.
Search(list, i) ==
  {a \in AccId : /\ list # NULL /\ list[a].client_idx = i
                 /\ \A b \in AccId : b < a => list[b].client_idx # i}

\* Mutant of LoginAnswer: client_idx is not tested.
AnswerUnmarked(r, ok) ==
  IF ok
  THEN IF r.is_active THEN VALID_CREDENTIALS
       ELSE IF r.attempts >= MaxAttempts THEN ACCOUNT_BLOCKED ELSE ACCOUNT_NOT_ACTIVE
  ELSE IF r.attempts + 1 >= MaxAttempts THEN ACCOUNT_BLOCKED ELSE WRONG_PASSWORD

\* The answer of process_login at the node r it found.
LoginAnswer(r, ok) ==
  CASE ok /\ r.client_idx # Nobody                    -> ACCOUNT_ALREADY_SIGN_IN
    [] ok /\ r.client_idx = Nobody /\ r.is_active     -> VALID_CREDENTIALS
    [] ok /\ r.client_idx = Nobody /\ ~r.is_active    ->
         IF r.attempts >= MaxAttempts THEN ACCOUNT_BLOCKED ELSE ACCOUNT_NOT_ACTIVE
    [] ~ok /\ r.attempts + 1 >= MaxAttempts           -> ACCOUNT_BLOCKED
    [] ~ok /\ ~(r.attempts + 1 >= MaxAttempts)        -> WRONG_PASSWORD

\* attempts is never cleared; it is kept up to MAX_ATTEMPTS.
WrongPassword(r) ==
  IF r.attempts + 1 >= MaxAttempts
  THEN [r EXCEPT !.attempts = MaxAttempts, !.is_active = FALSE]
  ELSE [r EXCEPT !.attempts = @ + 1]

(***************************************************************************)
(* Start and end.                                                          *)
(***************************************************************************)

NoClients  == [i \in Slot |-> Blank]
AllLoggedOut == [i \in Slot |-> USERNAME_REQUIRED]

Init ==
  /\ up = FALSE
  /\ clients = NoClients /\ clients_status = AllLoggedOut /\ username = NULL
  /\ account_list = NULL
  /\ file \in [AccId -> [password : Text \ {""}, is_active : BOOLEAN]]
  /\ \A a \in AccId : file[a].password = Pass[a]
  /\ given = [i \in Slot |-> NULL]
  /\ owner = [a \in AccId |-> Blank] /\ actor = [a \in AccId |-> Blank]

Start ==
  /\ ~up
  /\ up' = TRUE
  /\ account_list' = read_account(file)
  /\ UNCHANGED <<tableVars, file, historyVars>>

Die ==
  /\ up' = FALSE
  /\ clients' = NoClients /\ clients_status' = AllLoggedOut /\ username' = NULL
  /\ account_list' = NULL
  /\ given' = [i \in Slot |-> NULL]
  /\ owner' = [a \in AccId |-> Blank] /\ actor' = [a \in AccId |-> Blank]

Kill == up /\ Die /\ UNCHANGED file

(***************************************************************************)
(* Lines 103-131: who has sent the datagram.                               *)
(***************************************************************************)

Known(addr) == {i \in Slot : clients[i] = addr}
Unused      == {i \in Slot : clients[i] = Blank}

\* Mutant of IndexOf: line 115 is missing.
IndexOfNew(addr) == IF Known(addr) = {} /\ Unused # {} THEN Min(Unused) ELSE 0

\* An address that is not in the table takes the first unused slot; when
\* there is none, idx keeps its initial value 0.
IndexOf(addr) ==
  IF Known(addr) # {} THEN Min(Known(addr))
  ELSE IF Unused # {} THEN Min(Unused) ELSE 0

\* Mutant of From: the address of a new client is not stored.
FromForgets(addr) == up /\ UNCHANGED clients

From(addr) ==
  /\ up
  /\ clients' = IF Known(addr) = {} /\ Unused # {}
                THEN [clients EXCEPT ![IndexOf(addr)] = addr]
                ELSE clients

\* The history of who acts for an account: whoever sent this datagram.
Acts(addr, i) == actor' = [a \in AccId |-> IF a \in Search(account_list, i) THEN addr ELSE actor[a]]

SetStatus(i, s) == clients_status' = [clients_status EXCEPT ![i] = s]

(***************************************************************************)
(* The handlers, by the status of the sender's slot.                       *)
(***************************************************************************)

GiveUsername(addr) ==
  LET i == IndexOf(addr) IN
  /\ From(addr)
  /\ clients_status[i] = USERNAME_REQUIRED
  /\ \E u \in Text \ {""} :
       /\ username' = u
       /\ given' = [given EXCEPT ![i] = u]
  /\ SetStatus(i, PASSWORD_REQUIRED)
  /\ UNCHANGED <<up, account_list, file, owner, actor>>

\* Mutant of StatusAfter: the answer of process_login becomes the status.
AnswerIsStatus(answer) == answer

\* Every answer but VALID_CREDENTIALS leads back to the username.
StatusAfter(answer) == IF answer = VALID_CREDENTIALS THEN VALID_CREDENTIALS ELSE USERNAME_REQUIRED

GivePassword(addr) ==
  LET i == IndexOf(addr) IN
  /\ From(addr)
  /\ clients_status[i] = PASSWORD_REQUIRED
  /\ \/ /\ Lookup(account_list, username) = {}
        /\ SetStatus(i, USERNAME_REQUIRED)
        /\ given' = [given EXCEPT ![i] = NULL]
        /\ UNCHANGED <<account_list, owner, actor>>
     \/ \E a \in Lookup(account_list, username), p \in Text \ {""} :
          LET r == account_list[a]
              ok == p = r.password
              signsIn == LoginAnswer(r, ok) = VALID_CREDENTIALS
          IN /\ SetStatus(i, StatusAfter(LoginAnswer(r, ok)))
             /\ account_list' = [account_list EXCEPT ![a] =
                                   IF signsIn THEN [r EXCEPT !.client_idx = i]
                                   ELSE IF ok THEN r ELSE WrongPassword(r)]
             /\ given' = IF signsIn THEN given ELSE [given EXCEPT ![i] = NULL]
             /\ owner' = IF signsIn THEN [owner EXCEPT ![a] = addr] ELSE owner
             /\ actor' = IF signsIn THEN [actor EXCEPT ![a] = addr] ELSE actor
  /\ UNCHANGED <<up, username, file>>

\* save_to_file, after which the account of the slot, if it has one, is
\* released.  A NULL list is dereferenced after the truncation; a file that
\* cannot be opened ends the process; a kill can leave the file empty.
SaveAndRelease(addr, i) ==
  LET released == Search(account_list, i) IN
  \/ Die /\ file' \in {file, EmptyFile}
  \/ /\ account_list # NULL
     /\ From(addr)
     /\ SetStatus(i, USERNAME_REQUIRED)
     /\ file' = Image(account_list)
     /\ account_list' = [a \in AccId |-> IF a \in released
                                         THEN [account_list[a] EXCEPT !.client_idx = Nobody]
                                         ELSE account_list[a]]
     /\ given' = [given EXCEPT ![i] = NULL]
     /\ Acts(addr, i)
     /\ UNCHANGED <<up, username, owner>>

Bye(addr) ==
  /\ up
  /\ clients_status[IndexOf(addr)] = VALID_CREDENTIALS
  /\ SaveAndRelease(addr, IndexOf(addr))

\* The empty datagram, in any status.
Empty(addr) == up /\ SaveAndRelease(addr, IndexOf(addr))

AskChange(addr) ==
  LET i == IndexOf(addr) IN
  /\ From(addr)
  /\ clients_status[i] = VALID_CREDENTIALS
  /\ SetStatus(i, ACCOUNT_CHANGE_PASSWORD)
  /\ Acts(addr, i)
  /\ UNCHANGED <<up, username, account_list, file, given, owner>>

\* The new password is stored as it came; strcpy through the node found.
ChangePassword(addr) ==
  LET i == IndexOf(addr) IN
  /\ From(addr)
  /\ clients_status[i] = ACCOUNT_CHANGE_PASSWORD
  /\ \E a \in Search(account_list, i), p \in Text \ {""} :
       account_list' = [account_list EXCEPT ![a].password = p]
  /\ SetStatus(i, VALID_CREDENTIALS)
  /\ Acts(addr, i)
  /\ UNCHANGED <<up, username, file, given, owner>>

\* Any other text of a slot that is signed in is answered "Error", or its
\* digits and letters go to the other slot if some account is used there.
Chat(addr) ==
  /\ From(addr)
  /\ clients_status[IndexOf(addr)] = VALID_CREDENTIALS
  /\ Acts(addr, IndexOf(addr))
  /\ UNCHANGED <<up, clients_status, username, account_list, file, given, owner>>

Next ==
  \/ Start \/ Kill
  \/ \E addr \in Addr :
       \/ GiveUsername(addr) \/ GivePassword(addr) \/ Bye(addr) \/ Empty(addr)
       \/ AskChange(addr) \/ ChangePassword(addr) \/ Chat(addr)

Spec == Init /\ [][Next]_vars

-----------------------------------------------------------------------------
TypeOK ==
  /\ up \in BOOLEAN
  /\ clients \in [Slot -> Addr \cup {Blank}]
  /\ clients_status \in [Slot -> {USERNAME_REQUIRED, PASSWORD_REQUIRED, VALID_CREDENTIALS,
                                  ACCOUNT_CHANGE_PASSWORD}]
  /\ username \in Text \cup {NULL}
  /\ account_list \in [AccId -> Node] \cup {NULL}
  /\ file \in [AccId -> Line] \cup {EmptyFile}

\* A slot that is signed in has exactly one account, and the others have
\* none: the nodes found at lines 165, 182 and 190 are the ones meant, and
\* the first two are never NULL.
InUse(i) == clients_status[i] \in {VALID_CREDENTIALS, ACCOUNT_CHANGE_PASSWORD}
SlotHoldsAccount ==
  account_list # NULL =>
    \A i \in Slot : Cardinality({a \in AccId : account_list[a].client_idx = i}) = IF InUse(i) THEN 1 ELSE 0

\* Line 202 tests only that some account is used in the other slot before
\* it sends there: a slot in use has an address, the table never having lost
\* one, and no other slot has the same.
RelayTargetKnown ==
  \A i \in Slot : InUse(i) => clients[i] # Blank /\ Known(clients[i]) = {i}

\* The client that the server takes an address for once it has written: the
\* address itself, or the client of slot 0 if it has no slot (line 109).
TakenFor(addr) == IF Known(addr) # {} THEN addr ELSE clients[0]

\* Line 115, "also get the index of the client_tmp", for any number of
\* addresses: whoever acts for an account or signs it out is, to the server,
\* the client that signed in to it, and what is relayed to the slot of an
\* account goes to that client.  So an address acts for the account of another
\* only if one of the two has no slot, which is when the table is full, and
\* then only for that of slot 0.
SameClientActs ==
  \A a \in AccId :
    /\ TakenFor(actor[a]) = TakenFor(owner[a])
    /\ Unused # {} => actor[a] = owner[a]
    /\ (account_list # NULL /\ account_list[a].client_idx # Nobody) =>
         TakenFor(owner[a]) = clients[account_list[a].client_idx]

\* What account.h:15 says of status 2, "both username and password are
\* provided and they are valid": the account used in a slot is the one whose
\* name was given there.
SignedInAsNamed ==
  account_list # NULL =>
    \A i \in Slot, a \in AccId : account_list[a].client_idx = i => Name[a] = given[i]

\* A block that has reached the file is not undone, whatever is saved later
\* and wherever the process dies.
DiskBlockPermanent ==
  \A a \in AccId :
    []((file # EmptyFile /\ ~file[a].is_active) =>
         [](file # EmptyFile => ~file[a].is_active))
=============================================================================
