----------------------------- MODULE MCTcpDuplex -----------------------------
(* A small instance of TcpDuplex for TLC: the buffers of one client hold a frame *)
(* and a half, those of the other less than a frame.                             *)
EXTENDS TcpDuplex, TLC

CONSTANTS c1, c2

MCCapacity    == c1 :> 3 @@ c2 :> 1
MCMaxMessages == c1 :> 2 @@ c2 :> 3
=============================================================================
