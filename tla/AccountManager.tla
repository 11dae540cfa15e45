----------------------------- MODULE AccountManager -----------------------------
(***************************************************************************)
(* Homework 1: one user at a menu, a list of accounts read from            *)
(* account.txt at the start and written back whole by write_account_info,  *)
(* and a list of failed attempts that lives as long as the process.  The   *)
(* program may be killed at any point, also between the truncation of the  *)
(* file and its close; a file it cannot open ends it.  "Search" and the    *)
(* choices that are refused change nothing.                                *)
(***************************************************************************)
EXTENDS SequencesExt, Naturals

CONSTANTS
  Word,          \* what the user can type
  MaxAttempts,   \* 3, of line 235
  Nobody,        \* current_user is NULL
  MaxAccounts    \* bound on the length of the list

ASSUME ManagerAssumption ==
  Nobody \notin Word /\ MaxAttempts \in Nat \ {0} /\ MaxAccounts \in Nat \ {0}

Account == [username : Word, password : Word, is_active : BOOLEAN]

VARIABLES
  pc,                  \* "down", "menu", and in write_account_info "open", "write"
  list_account,
  list_login_attempt,  \* list_login_attempt[u]; 0 for a name that is not in it
  current_user,
  file                 \* the lines of account.txt

vars == <<pc, list_account, list_login_attempt, current_user, file>>

NoAttempts == [u \in Word |-> 0]

\* search_account: the first node with that name.
Search(list, u) ==
  {i \in 1..Len(list) : list[i].username = u /\ \A j \in 1..(i - 1) : list[j].username # u}

\* A new node behind the others.
add_account(u, p) ==
  list_account' = Append(list_account, [username |-> u, password |-> p, is_active |-> TRUE])

increase_login_attempt(u) == list_login_attempt' = [list_login_attempt EXCEPT ![u] = @ + 1]
reset_login_attempt(u)    == list_login_attempt' = [list_login_attempt EXCEPT ![u] = 0]

\* The file may hold two lines of one name, if the user has edited it.
Init ==
  /\ pc = "down"
  /\ list_account = <<>> /\ list_login_attempt = NoAttempts /\ current_user = Nobody
  /\ file \in BoundedSeq(Account, MaxAccounts)

Start ==
  /\ pc = "down" /\ pc' = "menu"
  /\ list_account' = file
  /\ UNCHANGED <<list_login_attempt, current_user, file>>

\* The process ends, by its own choice or not.
End ==
  /\ pc # "down" /\ pc' = "down"
  /\ list_account' = <<>> /\ list_login_attempt' = NoAttempts /\ current_user' = Nobody
  /\ UNCHANGED file

\* Mutant of Register: line 208 is missing.
RegisterForgets(u, p) ==
  /\ pc = "menu" /\ Search(list_account, u) = {} /\ Len(list_account) < MaxAccounts
  /\ pc' = "open"
  /\ UNCHANGED <<list_account, list_login_attempt, current_user, file>>

Register(u, p) ==
  /\ pc = "menu" /\ Search(list_account, u) = {} /\ Len(list_account) < MaxAccounts
  /\ add_account(u, p)
  /\ pc' = "open"
  /\ UNCHANGED <<list_login_attempt, current_user, file>>

\* The account at which the user may give a password.
Tries(u, i) ==
  /\ pc = "menu" /\ current_user = Nobody
  /\ i \in Search(list_account, u) /\ list_account[i].is_active

\* Mutant of SignIn: line 243 is missing.
SignInKeepsCount(u, p) ==
  /\ \E i \in 1..Len(list_account) : Tries(u, i) /\ list_account[i].password = p
  /\ current_user' = u
  /\ UNCHANGED <<pc, list_account, list_login_attempt, file>>

SignIn(u, p) ==
  /\ \E i \in 1..Len(list_account) : Tries(u, i) /\ list_account[i].password = p
  /\ reset_login_attempt(u)
  /\ current_user' = u
  /\ UNCHANGED <<pc, list_account, file>>

SignInFails(u, p) ==
  \E i \in 1..Len(list_account) :
    /\ Tries(u, i) /\ list_account[i].password # p
    /\ increase_login_attempt(u)
    /\ IF list_login_attempt'[u] >= MaxAttempts
       THEN list_account' = [list_account EXCEPT ![i].is_active = FALSE] /\ pc' = "open"
       ELSE UNCHANGED <<list_account, pc>>
    /\ UNCHANGED <<current_user, file>>

SignOut(u) ==
  /\ pc = "menu" /\ Search(list_account, u) # {} /\ current_user = u
  /\ current_user' = Nobody
  /\ UNCHANGED <<pc, list_account, list_login_attempt, file>>

\* write_account_info: fopen(..., "w+"), which may fail and end the process
\* (End), then the lines, which reach the file at fclose.
Truncate ==
  /\ pc = "open" /\ pc' = "write"
  /\ file' = <<>>
  /\ UNCHANGED <<list_account, list_login_attempt, current_user>>

Write ==
  /\ pc = "write" /\ pc' = "menu"
  /\ file' = list_account
  /\ UNCHANGED <<list_account, list_login_attempt, current_user>>

Next ==
  \/ Start \/ End \/ Truncate \/ Write
  \/ \E u \in Word : SignOut(u) \/ \E p \in Word : Register(u, p) \/ SignIn(u, p) \/ SignInFails(u, p)

Spec == Init /\ [][Next]_vars
-----------------------------------------------------------------------------
\* The variables have the values the code can give them, and the list is not
\* NULL where write_account_info reads its first node (line 68).
TypeOK ==
  /\ pc \in {"down", "menu", "open", "write"}
  /\ list_account \in BoundedSeq(Account, MaxAccounts)
  /\ list_login_attempt \in [Word -> 0..MaxAttempts]
  /\ current_user \in Word \cup {Nobody}
  /\ file \in BoundedSeq(Account, MaxAccounts)
  /\ pc \in {"open", "write"} => list_account # <<>>

\* What a list says of each of its names: the first node with that name.
Accounts(list) ==
  [u \in {list[i].username : i \in 1..Len(list)} |->
    LET i == CHOOSE i \in Search(list, u) : TRUE
    IN [password |-> list[i].password, is_active |-> list[i].is_active]]

\* Of the accounts the store has those of the file, and while the file is
\* empty because it is being written, those of the list.
Kept  == IF pc = "write" THEN list_account ELSE file
Store == INSTANCE AccountStore WITH
  wrong    <- list_login_attempt,
  accounts <- Accounts(Kept)

\* The program implements the abstract store, across kills and restarts: what
\* the comments of lines 107, 108, 110, 202, 217 and 227 say, with the block at
\* the third wrong password in a row, as line 235 has it.  Line 109, "greater
\* than 3", is not part of the promise: in the store there is no fourth.
ImplementsStore == Store!Spec
=============================================================================
