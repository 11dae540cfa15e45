------------------------------ MODULE AccountList ------------------------------
(***************************************************************************)
(* The account list of the login servers of homework 7 and 7b (account.c   *)
(* and account.h, the same text in both directories): a linked list read   *)
(* once from account.txt, changed in memory by logins and logouts, and     *)
(* written back whole by save_to_file.                                     *)
(*                                                                         *)
(* The names and passwords of the list never change after read_account, so *)
(* they are the constant functions Name and Pass; node a of the list is    *)
(* the a-th line of the file.  What changes is a record per node.  The     *)
(* module holds no variables: a server that uses the list keeps it in a    *)
(* variable of its own.                                                    *)
(***************************************************************************)
EXTENDS Naturals

CONSTANTS
  Text,         \* what one line typed by a client can say
  NumAccounts,  \* lines of account.txt
  Name,         \* Name[a], Pass[a]: the first two words of line a
  Pass,
  MaxAttempts,  \* MAX_ATTEMPTS of account.h
  NULL,         \* the list when the file could not be opened or held no line
  EmptyFile     \* the content of account.txt after fopen(..., "w+")

AccId == 1..NumAccounts
EmptyLine == ""
SignOutLine == "signout"

\* Two lines of the file may carry the same name; no name is the empty
\* word, because fscanf's %s never yields one.
ASSUME AccountsAssumption ==
  /\ {EmptyLine, SignOutLine} \subseteq Text
  /\ NumAccounts \in Nat \ {0}
  /\ Name \in [AccId -> Text \ {EmptyLine}]
  /\ Pass \in [AccId -> Text]
  /\ MaxAttempts \in Nat \ {0}

\* NULL is not a list and an empty file is not a file of NumAccounts lines.
ASSUME NullAssumption ==
  /\ NULL \notin [AccId -> [is_active : BOOLEAN, attempts : 0..MaxAttempts,
                            is_signed_in : BOOLEAN]]
  /\ EmptyFile \notin [AccId -> BOOLEAN]

\* Answers of process_login; the first three are also states of a client.
USERNAME_REQUIRED         == 1
PASSWORD_REQUIRED         == 2
VALID_CREDENTIALS         == 3
WRONG_PASSWORD            == 4
ACCOUNT_NOT_ACTIVE        == 5
ACCOUNT_BLOCKED           == 6
ACCOUNT_ALREADY_SIGNED_IN == 7

\* struct account.  attempts is an int that the code only ever compares with
\* MAX_ATTEMPTS or clears, so it is kept up to that bound.
Account == [is_active : BOOLEAN, attempts : 0..MaxAttempts, is_signed_in : BOOLEAN]

AccountLists == [AccId -> Account] \cup {NULL}

\* What account.txt holds: the last word of each line, or nothing.
Files == [AccId -> BOOLEAN] \cup {EmptyFile}

\* Mutant of read_account: the last word of a line is not stored.
ReadAllActive(f) ==
  IF f = EmptyFile
  THEN NULL
  ELSE [a \in AccId |-> [is_active |-> TRUE, attempts |-> 0, is_signed_in |-> FALSE]]

read_account(f) ==
  IF f = EmptyFile
  THEN NULL
  ELSE [a \in AccId |-> [is_active |-> f[a], attempts |-> 0, is_signed_in |-> FALSE]]

\* The lines save_to_file writes for a list that is not NULL.
Image(list) == [a \in AccId |-> list[a].is_active]

\* The node at which the loops of process_login and process_logout stop: the
\* first one with that name, if there is one.
Lookup(list, u) ==
  {a \in AccId : /\ list # NULL
                 /\ Name[a] = u
                 /\ \A b \in AccId : b < a => Name[b] # u}

\* Mutants of LoginAnswer: the flag is_signed_in, or is_active, is not tested.
AnswerUnmarked(r, ok) ==
  IF ok THEN IF r.is_active THEN VALID_CREDENTIALS ELSE ACCOUNT_NOT_ACTIVE
  ELSE IF r.attempts + 1 >= MaxAttempts THEN ACCOUNT_BLOCKED ELSE WRONG_PASSWORD
AnswerInactive(r, ok) ==
  IF ok THEN IF r.is_signed_in THEN ACCOUNT_ALREADY_SIGNED_IN ELSE VALID_CREDENTIALS
  ELSE IF r.attempts + 1 >= MaxAttempts THEN ACCOUNT_BLOCKED ELSE WRONG_PASSWORD

\* What process_login answers at the node r it found, and what it leaves
\* there; ok says whether the password is the node's.
LoginAnswer(r, ok) ==
  CASE ok /\ r.is_signed_in                         -> ACCOUNT_ALREADY_SIGNED_IN
    [] ok /\ ~r.is_signed_in /\ r.is_active         -> VALID_CREDENTIALS
    [] ok /\ ~r.is_signed_in /\ ~r.is_active        -> ACCOUNT_NOT_ACTIVE
    [] ~ok /\ r.attempts + 1 >= MaxAttempts         -> ACCOUNT_BLOCKED
    [] ~ok /\ ~(r.attempts + 1 >= MaxAttempts)      -> WRONG_PASSWORD

WrongPassword(r) ==
  LET blocked == r.attempts + 1 >= MaxAttempts
  IN [is_active    |-> r.is_active /\ ~blocked,
      attempts     |-> IF blocked THEN MaxAttempts ELSE r.attempts + 1,
      is_signed_in |-> r.is_signed_in]

LoginEffect(r, ok) ==
  IF ~ok THEN WrongPassword(r)
  ELSE IF LoginAnswer(r, ok) = VALID_CREDENTIALS
       THEN [is_active |-> r.is_active, attempts |-> 0, is_signed_in |-> TRUE]
       ELSE r

\* process_logout.
SignedOut(r) ==
  [is_active |-> r.is_active, attempts |-> r.attempts, is_signed_in |-> FALSE]

\* Mutant of Logout: the loop does not compare the names.
LogoutAll(list, u) ==
  IF list = NULL THEN NULL ELSE [a \in AccId |-> SignedOut(list[a])]

Logout(list, u) ==
  IF list = NULL
  THEN NULL
  ELSE [a \in AccId |-> IF a \in Lookup(list, u) THEN SignedOut(list[a]) ELSE list[a]]
=============================================================================
