----------------------------- MODULE MCThreadServer -----------------------------
(***************************************************************************)
(* Instances of ThreadServer for TLC: two threads, interchangeable, and    *)
(* one or two accounts.                                                    *)
(***************************************************************************)
EXTENDS ThreadServer, TLC

\* The lines that matter: nothing, the name, the password (also a wrong
\* name and not a command), "signout" (also a wrong password).
OneName == <<"hust">>
OnePass == <<"hust123">>
OneText == {"", "signout", "hust", "hust123"}

\* Each password is the other name.
TwoName == <<"hust", "soict">>
TwoPass == <<"soict", "hust">>
TwoText == {"", "signout", "hust", "soict"}

Threads == Permutations(Thread)
=============================================================================
