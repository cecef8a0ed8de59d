-------------------------- MODULE MCTypedMessages --------------------------
(* Small instances of TypedMessages, and of TcpConnection in it, for TLC. *)
EXTENDS TypedMessages

MCTags   == {"a", "b", "c"}
MCTagOf  == <<"a", "c", "b", "a">>
MCMapped == <<"b", "a", "b">>
=============================================================================
