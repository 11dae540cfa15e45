----------------------------- MODULE ThreadServer -----------------------------
(***************************************************************************)
(* The login server of homework 6 (server.c, account.c): a thread for each *)
(* connection, all of them reading and writing one list of accounts and    *)
(* one account.txt with no lock.                                           *)
(*                                                                         *)
(* A step of a thread ends at each access to the shared list or file:      *)
(* attempts++ is a read and a write, save_to_file truncates the file,      *)
(* reads the nodes one after the other into the buffer of its own stream,  *)
(* and writes the buffer when it closes the stream.  The accesses race, so *)
(* the second look at attempts may be a new read or the value the thread   *)
(* has just computed, as the compiler chose.                               *)
(*                                                                         *)
(* Peers may send or hang up whenever a thread is in recv, so what a peer  *)
(* has sent is not state.  A thread that has ended stands for one not yet  *)
(* created.  There is no signed-in flag here: an account may be used from  *)
(* several windows.                                                        *)
(***************************************************************************)
EXTENDS AccountList, FiniteSets

CONSTANTS
  Thread,       \* bound: how many connections there are at a time
  FileCanFail   \* whether fopen of account.txt may fail

VARIABLES
  up,            \* whether the process runs
  pc,            \* pc[t]: what thread t does next
  status, username,
  node,          \* node[t]: the node tmp points to
  reg,           \* reg[t]: the value of attempts that t has read
  buffer,        \* buffer[t]: the stream t has opened in save_to_file
  account_list,
  file,
  wrong,         \* history: wrong passwords since the last right one
  disturbed,     \* history: two saves were under way at once, or one failed
  raced          \* history: two threads were inside process_login at one node

\* A node of the list, without the name and the password.
Node == [is_active : BOOLEAN, attempts : 0..MaxAttempts]

\* NULL is no list of these nodes either.
ASSUME ThreadAssumption == NULL \notin [AccId -> Node]

localVars == <<pc, status, username, node, reg, buffer>>
vars == <<up, localVars, account_list, file, wrong, disturbed, raced>>

Saving == {t \in Thread : pc[t] \in {"print", "flush"}}
LoggingIn == {t \in Thread : pc[t] \in {"right", "clear", "wrong", "increment", "test"}}

NoBuffer == [a \in AccId |-> TRUE]
Init ==
  /\ up = FALSE
  /\ pc = [t \in Thread |-> "none"]
  /\ status = [t \in Thread |-> USERNAME_REQUIRED]
  /\ username = [t \in Thread |-> NULL]
  /\ node = [t \in Thread |-> 1]
  /\ reg = [t \in Thread |-> 0]
  /\ buffer = [t \in Thread |-> NoBuffer]
  /\ account_list = NULL
  /\ file \in [AccId -> BOOLEAN]
  /\ wrong = [a \in AccId |-> 0]
  /\ disturbed = FALSE /\ raced = FALSE

\* Mutant of ReadList: the last word of a line is not stored.
ReadActiveList(f) ==
  IF f = EmptyFile THEN NULL ELSE [a \in AccId |-> [is_active |-> TRUE, attempts |-> 0]]

ReadList(f) ==
  IF f = EmptyFile THEN NULL ELSE [a \in AccId |-> [is_active |-> f[a], attempts |-> 0]]

Start ==
  /\ ~up
  /\ up' = TRUE
  /\ \/ account_list' = ReadList(file)
     \/ FileCanFail /\ account_list' = NULL
  /\ UNCHANGED <<localVars, file, wrong, disturbed, raced>>

\* The whole process ends, with all its threads and their buffers.
Die ==
  /\ up' = FALSE
  /\ pc' = [t \in Thread |-> "none"]
  /\ status' = [t \in Thread |-> USERNAME_REQUIRED]
  /\ username' = [t \in Thread |-> NULL]
  /\ node' = [t \in Thread |-> 1]
  /\ reg' = [t \in Thread |-> 0]
  /\ buffer' = [t \in Thread |-> NoBuffer]
  /\ account_list' = NULL
  /\ wrong' = [a \in AccId |-> 0]
  /\ disturbed' = FALSE /\ raced' = FALSE

Kill == up /\ Die /\ UNCHANGED file

Goto(t, l) == pc' = [pc EXCEPT ![t] = l]

(***************************************************************************)
(* The main thread.                                                        *)
(***************************************************************************)

\* A thread is created even when accept has failed; its recv then fails.
Spawn(t) ==
  /\ up /\ pc[t] = "none"
  /\ Goto(t, "recv") \/ Goto(t, "open")
  /\ status' = [status EXCEPT ![t] = USERNAME_REQUIRED]
  /\ username' = [username EXCEPT ![t] = NULL]
  /\ UNCHANGED <<up, node, reg, buffer, account_list, file, wrong, disturbed, raced>>

(***************************************************************************)
(* A connection's thread.                                                  *)
(***************************************************************************)

\* Mutant of RecvFails: the thread returns from the middle of its loop.
RecvFailsReturns(t) ==
  /\ pc[t] = "recv"
  /\ Goto(t, "none")
  /\ UNCHANGED <<up, status, username, node, reg, buffer, account_list, file, wrong, disturbed, raced>>

\* recv returns 0 or -1: the thread goes on to its save.
RecvFails(t) ==
  /\ pc[t] = "recv"
  /\ Goto(t, "open")
  /\ UNCHANGED <<up, status, username, node, reg, buffer, account_list, file, wrong, disturbed, raced>>

\* The status and name a line leaves, and the reply; a send that fails ends
\* the thread's loop.
Reply(t, st, name) ==
  /\ status' = [status EXCEPT ![t] = st]
  /\ username' = [username EXCEPT ![t] = name]
  /\ Goto(t, "recv") \/ Goto(t, "open")

EnterUsername(t) ==
  /\ pc[t] = "recv" /\ status[t] = USERNAME_REQUIRED
  /\ \E line \in Text :
       IF line = EmptyLine
       THEN Reply(t, USERNAME_REQUIRED, EmptyLine)
       ELSE Reply(t, PASSWORD_REQUIRED, line)
  /\ UNCHANGED <<up, node, reg, buffer, account_list, file, wrong, disturbed, raced>>

\* process_login up to the comparison of the password: it reads only names
\* and passwords, which nobody writes.
EnterPassword(t) ==
  /\ pc[t] = "recv" /\ status[t] = PASSWORD_REQUIRED
  /\ \/ /\ Lookup(account_list, username[t]) = {}
        /\ Reply(t, USERNAME_REQUIRED, EmptyLine)
        /\ UNCHANGED <<node, raced>>
     \/ \E a \in Lookup(account_list, username[t]), p \in Text :
          /\ Goto(t, IF p = Pass[a] THEN "right" ELSE "wrong")
          /\ node' = [node EXCEPT ![t] = a]
          /\ raced' = (raced \/ \E u \in LoggingIn : node[u] = a)
          /\ UNCHANGED <<status, username>>
  /\ UNCHANGED <<up, reg, buffer, account_list, file, wrong, disturbed>>

\* Line 54 of account.c, and then line 55.
CheckActive(t) ==
  /\ pc[t] = "right"
  /\ IF account_list[node[t]].is_active
     THEN Goto(t, "clear") /\ UNCHANGED <<status, username>>
     ELSE Reply(t, USERNAME_REQUIRED, EmptyLine)
  /\ UNCHANGED <<up, node, reg, buffer, account_list, file, wrong, disturbed, raced>>

ClearAttempts(t) ==
  /\ pc[t] = "clear"
  /\ account_list' = [account_list EXCEPT ![node[t]].attempts = 0]
  /\ wrong' = [wrong EXCEPT ![node[t]] = 0]
  /\ Reply(t, VALID_CREDENTIALS, username[t])
  /\ UNCHANGED <<up, node, reg, buffer, file, disturbed, raced>>

\* attempts++ reads, then writes.
ReadAttempts(t) ==
  /\ pc[t] = "wrong"
  /\ reg' = [reg EXCEPT ![t] = account_list[node[t]].attempts]
  /\ Goto(t, "increment")
  /\ UNCHANGED <<up, status, username, node, buffer, account_list, file, wrong, disturbed, raced>>

Capped(n) == IF n > MaxAttempts THEN MaxAttempts ELSE n

WriteAttempts(t) ==
  /\ pc[t] = "increment"
  /\ account_list' = [account_list EXCEPT ![node[t]].attempts = Capped(reg[t] + 1)]
  /\ wrong' = [wrong EXCEPT ![node[t]] = Capped(@ + 1)]
  /\ Goto(t, "test")
  /\ UNCHANGED <<up, status, username, node, reg, buffer, file, disturbed, raced>>

\* Mutant of TestAttempts: an off-by-one.
TestAttemptsLate(t) ==
  /\ pc[t] = "test"
  /\ account_list' = IF reg[t] + 1 > MaxAttempts
                     THEN [account_list EXCEPT ![node[t]].is_active = FALSE]
                     ELSE account_list
  /\ Reply(t, USERNAME_REQUIRED, EmptyLine)
  /\ UNCHANGED <<up, node, reg, buffer, file, wrong, disturbed, raced>>

\* Lines 62 and 63: the test sees the value written or a newer one.
TestAttempts(t) ==
  /\ pc[t] = "test"
  /\ \E seen \in {reg[t] + 1, account_list[node[t]].attempts} :
       account_list' = IF seen >= MaxAttempts
                       THEN [account_list EXCEPT ![node[t]].is_active = FALSE]
                       ELSE account_list
  /\ Reply(t, USERNAME_REQUIRED, EmptyLine)
  /\ UNCHANGED <<up, node, reg, buffer, file, wrong, disturbed, raced>>

Command(t) ==
  /\ pc[t] = "recv" /\ status[t] = VALID_CREDENTIALS
  /\ \/ Reply(t, USERNAME_REQUIRED, EmptyLine)
     \/ Reply(t, VALID_CREDENTIALS, username[t])
  /\ UNCHANGED <<up, node, reg, buffer, account_list, file, wrong, disturbed, raced>>

(***************************************************************************)
(* save_to_file, at the end of every thread.                               *)
(***************************************************************************)

\* fopen truncates; a NULL list is then dereferenced.
OpenFile(t) ==
  /\ pc[t] = "open"
  /\ file' = EmptyFile
  /\ IF account_list = NULL
     THEN Die
     ELSE /\ Goto(t, "print")
          /\ node' = [node EXCEPT ![t] = 1]
          /\ disturbed' = (disturbed \/ Saving # {})
          /\ UNCHANGED <<up, status, username, reg, buffer, account_list, wrong, raced>>

OpenFails(t) ==
  /\ pc[t] = "open"
  /\ FileCanFail
  /\ Goto(t, "none")
  /\ disturbed' = TRUE
  /\ UNCHANGED <<up, status, username, node, reg, buffer, account_list, file, wrong, raced>>

\* Mutant of PrintNode: the loop runs past the last node.
PrintPastEnd(t) ==
  /\ pc[t] = "print"
  /\ buffer' = [buffer EXCEPT ![t][node[t]] = account_list[node[t]].is_active]
  /\ node' = [node EXCEPT ![t] = @ + 1]
  /\ UNCHANGED <<up, pc, status, username, reg, account_list, file, wrong, disturbed, raced>>

\* One fprintf.
PrintNode(t) ==
  /\ pc[t] = "print"
  /\ buffer' = [buffer EXCEPT ![t][node[t]] = account_list[node[t]].is_active]
  /\ IF node[t] = NumAccounts
     THEN Goto(t, "flush") /\ UNCHANGED node
     ELSE UNCHANGED pc /\ node' = [node EXCEPT ![t] = @ + 1]
  /\ UNCHANGED <<up, status, username, reg, account_list, file, wrong, disturbed, raced>>

\* fclose writes the buffer at the start of the file; all buffers have the
\* same length, so the last one to be written is what the file holds.
Flush(t) ==
  /\ pc[t] = "flush"
  /\ file' = buffer[t]
  /\ Goto(t, "none")
  /\ node' = [node EXCEPT ![t] = 1]
  /\ buffer' = [buffer EXCEPT ![t] = NoBuffer]
  /\ UNCHANGED <<up, status, username, reg, account_list, wrong, disturbed, raced>>

-----------------------------------------------------------------------------
\* What a thread does without waiting for its peer.
Run(t) ==
  \/ CheckActive(t) \/ ClearAttempts(t) \/ ReadAttempts(t) \/ WriteAttempts(t) \/ TestAttempts(t)
  \/ OpenFile(t) \/ OpenFails(t) \/ PrintNode(t) \/ Flush(t)

Serve(t) == RecvFails(t) \/ EnterUsername(t) \/ EnterPassword(t) \/ Command(t)

Next == Start \/ Kill \/ \E t \in Thread : Spawn(t) \/ Serve(t) \/ Run(t)

Spec == Init /\ [][Next]_vars

-----------------------------------------------------------------------------
Labels == {"none", "recv", "right", "clear", "wrong", "increment", "test", "open", "print", "flush"}

\* The types of the variables; a thread inside the list or a save has one.
TypeOK ==
  /\ up \in BOOLEAN
  /\ pc \in [Thread -> Labels]
  /\ status \in [Thread -> {USERNAME_REQUIRED, PASSWORD_REQUIRED, VALID_CREDENTIALS}]
  /\ username \in [Thread -> Text \cup {NULL}]
  /\ node \in [Thread -> AccId]
  /\ reg \in [Thread -> 0..MaxAttempts]
  /\ buffer \in [Thread -> [AccId -> BOOLEAN]]
  /\ account_list \in [AccId -> Node] \cup {NULL}
  /\ file \in Files
  /\ wrong \in [AccId -> 0..MaxAttempts]
  /\ disturbed \in BOOLEAN /\ raced \in BOOLEAN
  /\ \A t \in Thread : pc[t] \notin {"none", "recv", "open"} => account_list # NULL

Quiet == up /\ account_list # NULL /\ \A t \in Thread : pc[t] = "none"

\* The comment of server.c:176, "save any updates to file": when every
\* connection has ended and every save is over, the file says what the list
\* says.
SavedWhenQuiet == Quiet => file = Image(account_list)

\* The same as long as no save has failed and no two were under way at once:
\* overlapping saves are the only race that loses an update, whatever logins
\* run during a save.
SavedUnlessDisturbed == ~disturbed => SavedWhenQuiet

\* The reply of server.c:146, "account is blocked due to 3 failed login
\* attempts": with no login under way, an account with that many wrong
\* passwords since the last right one is blocked.
BlockedAtMax ==
  LoggingIn = {} =>
    \A a \in AccId : account_list # NULL /\ wrong[a] >= MaxAttempts =>
      ~account_list[a].is_active

\* The same as long as no two logins were inside process_login at one node:
\* logins at other nodes and saves do not disturb the count.
BlockedUnlessRaced == ~raced => BlockedAtMax

\* Neither the file nor a buffer on its way to it ever blocks an account
\* that is active in memory: what races lose are blocks, they invent none.
DiskNeverAhead ==
  account_list # NULL =>
    \A a \in AccId : account_list[a].is_active =>
      /\ file # EmptyFile => file[a]
      /\ \A t \in Thread : buffer[t][a]
=============================================================================
