---------------------------- MODULE LoginRegistry ----------------------------
(***************************************************************************)
(* What the login service promises, without sockets, select, slots of a    *)
(* table or lists: who is signed in to which account, which accounts are   *)
(* active, and what the disk says of them.                                 *)
(*                                                                         *)
(* An account is held by at most one window.  A window that goes away      *)
(* without signing out leaves its account gone: nobody is signed in to it, *)
(* nobody can be, until the service stops.                                 *)
(***************************************************************************)
EXTENDS Integers

CONSTANTS
  Accounts,
  Windows,   \* natural numbers
  Erased     \* what the disk says when it says nothing

Free == -1
Gone == -2

VARIABLES running, holder, active, disk
vars == <<running, holder, active, disk>>

NobodyIn == [a \in Accounts |-> Free]
NoneActive == [a \in Accounts |-> FALSE]

TypeOK ==
  /\ running \in BOOLEAN
  /\ holder \in [Accounts -> Windows \cup {Free, Gone}]
  /\ active \in [Accounts -> BOOLEAN]
  /\ disk \in [Accounts -> BOOLEAN] \cup {Erased}

Init ==
  /\ running = FALSE /\ holder = NobodyIn /\ active = NoneActive
  /\ disk \in [Accounts -> BOOLEAN]

\* The service starts with what the disk says, or with no account at all.
Boot ==
  /\ ~running
  /\ running' = TRUE
  /\ active' \in IF disk = Erased THEN {NoneActive} ELSE {NoneActive, disk}
  /\ UNCHANGED <<holder, disk>>

\* Everything but the disk is forgotten.
Stop ==
  /\ running
  /\ running' = FALSE /\ holder' = NobodyIn /\ active' = NoneActive
  /\ disk' \in {disk, Erased}

SignIn(a, w) ==
  /\ running /\ active[a] /\ holder[a] = Free
  /\ \A b \in Accounts : holder[b] # w
  /\ holder' = [holder EXCEPT ![a] = w]
  /\ UNCHANGED <<running, active, disk>>

SignOut(a) ==
  /\ holder[a] \in Windows
  /\ holder' = [holder EXCEPT ![a] = Free]
  /\ UNCHANGED <<running, active, disk>>

\* The window goes away, at any time after the account was given to it.
Leave(a) ==
  /\ holder[a] \in Windows \/ (running /\ active[a] /\ holder[a] = Free)
  /\ holder' = [holder EXCEPT ![a] = Gone]
  /\ UNCHANGED <<running, active, disk>>

Block(a) ==
  /\ active[a]
  /\ active' = [active EXCEPT ![a] = FALSE]
  /\ UNCHANGED <<running, holder, disk>>

\* A save first erases the disk.
Erase  == running /\ disk' = Erased /\ UNCHANGED <<running, holder, active>>
Record == running /\ disk' = active /\ UNCHANGED <<running, holder, active>>

Next ==
  \/ Boot \/ Stop \/ Erase \/ Record
  \/ \E a \in Accounts :
       SignOut(a) \/ Leave(a) \/ Block(a) \/ \E w \in Windows : SignIn(a, w)

Spec == Init /\ [][Next]_vars
=============================================================================
