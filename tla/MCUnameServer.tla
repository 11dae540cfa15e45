---------------------------- MODULE MCUnameServer ----------------------------
(***************************************************************************)
(* Instances of UnameServer for TLC: one client more than the table holds. *)
(***************************************************************************)
EXTENDS UnameServer

MCFd == 4..6
=============================================================================
