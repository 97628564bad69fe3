-------------------------- MODULE MCUCTypeMapping --------------------------
(* Structs have up to three fields; the second one is named like a type. *)
EXTENDS UCTypeMapping

MCFieldNames == <<"a", "int", "b">>
=============================================================================
