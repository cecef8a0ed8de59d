---------------------------- MODULE MCTcpClient ----------------------------
(* Small instances of TcpClient for TLC. *)
EXTENDS TcpClient, TLC

CONSTANTS c1, c2

MCSymmetry == Permutations({c1, c2})
=============================================================================
