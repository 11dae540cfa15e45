---------------------------- MODULE MCUploadStream ----------------------------
(***************************************************************************)
(* Instances of UploadStream for TLC: two clients, files of a few bytes    *)
(* that look like choices and messages, one of them with a NUL.            *)
(***************************************************************************)
EXTENDS UploadStream

MCAlnum    == {"0", "1", "2"}
MCMessages == {<<"2", NL>>, <<"!", NL>>}
MCChunks   == {<<"2">>, <<NUL>>}
=============================================================================
