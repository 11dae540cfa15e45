--------------------------- MODULE MCUdpLoginServer ---------------------------
(***************************************************************************)
(* Instances of UdpLoginServer for TLC: two accounts and two addresses.    *)
(***************************************************************************)
EXTENDS UdpLoginServer

\* Each account has the other's name for its password, and both are commands:
\* what a text means is for the status of the slot to say.
MCName == <<"changepassword", "bye">>
MCPass == <<"bye", "changepassword">>
MCText == {"", "bye", "changepassword"}
=============================================================================
