------------------------------ MODULE AccountStore ------------------------------
(***************************************************************************)
(* What the account manager of homework 1 promises its user, files and     *)
(* lists left aside: one account to a name, nobody signed in to a blocked  *)
(* account, a block after MaxAttempts wrong passwords with no right one in *)
(* between, for good.  An end of the program forgets the wrong passwords;  *)
(* if it comes while accounts are saved, it may forget them all.           *)
(***************************************************************************)
EXTENDS Naturals

CONSTANTS Word, MaxAttempts, Nobody

VARIABLES
  accounts,      \* from the registered names to [password, is_active]
  current_user,
  wrong          \* wrong[u]: wrong passwords since the start or the last right one

vars == <<accounts, current_user, wrong>>

NoneWrong == [u \in Word |-> 0]

Init ==
  /\ DOMAIN accounts \subseteq Word
  /\ current_user = Nobody /\ wrong = NoneWrong

Register(u, p) ==
  /\ u \notin DOMAIN accounts
  /\ accounts' = [v \in DOMAIN accounts \cup {u} |->
                    IF v = u THEN [password |-> p, is_active |-> TRUE] ELSE accounts[v]]
  /\ UNCHANGED <<current_user, wrong>>

MayTry(u) == current_user = Nobody /\ u \in DOMAIN accounts /\ accounts[u].is_active /\ wrong[u] < MaxAttempts

SignIn(u) ==
  /\ MayTry(u)
  /\ current_user' = u /\ wrong' = [wrong EXCEPT ![u] = 0]
  /\ UNCHANGED accounts

Wrong(u) ==
  /\ MayTry(u)
  /\ wrong' = [wrong EXCEPT ![u] = @ + 1]
  /\ UNCHANGED <<accounts, current_user>>

Block(u) ==
  /\ u \in DOMAIN accounts /\ wrong[u] = MaxAttempts
  /\ accounts' = [accounts EXCEPT ![u].is_active = FALSE]
  /\ UNCHANGED <<current_user, wrong>>

SignOut ==
  /\ current_user # Nobody
  /\ current_user' = Nobody
  /\ UNCHANGED <<accounts, wrong>>

End ==
  /\ accounts' = accounts \/ DOMAIN accounts' = {}
  /\ current_user' = Nobody /\ wrong' = NoneWrong

Next ==
  \/ \E u \in Word : SignIn(u) \/ Wrong(u) \/ Block(u) \/ \E p \in Word : Register(u, p)
  \/ SignOut \/ End

Spec == Init /\ [][Next]_vars
=============================================================================
