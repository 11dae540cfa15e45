------------------------- MODULE SelectServerRegistry -------------------------
(***************************************************************************)
(* The select server of homework 7 implements LoginRegistry.  A window is  *)
(* a slot of the table.                                                    *)
(***************************************************************************)
EXTENDS SelectServer

\* The slots whose session is on node a.
SessionsOf(a) == {i \in Slot : HasSession(i) /\ a \in Lookup(account_list, username[i])}

SignedIn(a) == account_list # NULL /\ account_list[a].is_signed_in

Holder ==
  [a \in AccId |-> IF ~SignedIn(a) THEN -1
                   ELSE IF SessionsOf(a) = {} THEN -2
                   ELSE CHOOSE i \in SessionsOf(a) : TRUE]

Active == [a \in AccId |-> account_list # NULL /\ account_list[a].is_active]

Registry == INSTANCE LoginRegistry WITH
  Accounts <- AccId, Windows <- Slot, Erased <- EmptyFile,
  running  <- Up,
  holder   <- Holder,
  active   <- Active,
  disk     <- file

\* Every behaviour of the server is one of the registry: an account is given
\* to a slot only while it is active and held by no one, comes back only by a
\* "signout" of that slot, is lost when the slot closes, and a block is not
\* undone while the server runs; the disk follows by saves.
ImplementsRegistry == Registry!Spec
=============================================================================
