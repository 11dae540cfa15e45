---------------------------- MODULE MCSelectServer ----------------------------
(***************************************************************************)
(* Instances of SelectServer and of its refinement for TLC: one or two     *)
(* accounts, one or two descriptors for connections, and the lines the     *)
(* code tells apart: nothing, "signout", the names and the passwords.      *)
(***************************************************************************)
EXTENDS SelectServerRegistry

\* Two accounts, the password of each the name of the other.
MCName == <<"hust", "soict">>
MCPass == <<"soict", "hust">>
MCText == {"", "signout", "hust", "soict"}

\* One account, and a line that is neither its name nor its password.
OneName == <<"hust">>
OnePass == <<"hust123">>
OneText == {"", "signout", "hust", "hust123"}
=============================================================================
