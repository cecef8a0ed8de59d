---------------------------- MODULE MCTcpServer ----------------------------
(* Small instances of TcpServer for TLC. *)
EXTENDS TcpServer, TLC

CONSTANTS p1, p2, c1, c2

MCPeers == {p1, p2}
MCConns == {c1, c2}

\* The peers are interchangeable, and so are the addresses.
MCSymmetry == Permutations(MCPeers) \cup Permutations(MCConns)
=============================================================================
