----------------------------- MODULE MCChatServer -----------------------------
(***************************************************************************)
(* An instance of ChatServer for TLC: two clients and two accounts whose   *)
(* files can have the same path, "a" with "b_c" and "a_b" with "c".        *)
(***************************************************************************)
EXTENDS ChatServer

CONSTANTS c1, c2

MCNames == {"a", "a_b"}
MCLines == [c \in Client |->
              IF c = c1 THEN {"a", "signout", "send message", "upload image", "Exited send message mode"}
                        ELSE {"a_b", "upload image"}]
MCFileNames == [c \in Client |-> IF c = c1 THEN {"b_c", "../c"} ELSE {"c"}]
MCBadNames == {"../c"}
MCParts == [t \in MCNames \cup {"b_c", "c", "../c"} |->
              CASE t = "a_b" -> <<"a", "b">> [] t = "b_c" -> <<"b", "c">> [] OTHER -> <<t>>]
MCMaxFile == [c \in Client |-> IF c = c1 THEN 2 ELSE 1]
MCChunks == {<<"x">>, <<NUL>>, <<NL>>}
=============================================================================
