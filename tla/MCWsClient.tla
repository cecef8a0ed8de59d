----------------------------- MODULE MCWsClient -----------------------------
(* Small instances of WsClient for TLC. *)
EXTENDS WsClient

CONSTANTS c1, c2
=============================================================================
