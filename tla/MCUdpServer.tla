---------------------------- MODULE MCUdpServer ----------------------------
(* Small instances of UdpServer for TLC. *)
EXTENDS UdpServer, TLC

CONSTANTS e1, e2, c1, c2

MCSymmetry == Permutations({e1, e2}) \cup Permutations({c1, c2})
=============================================================================
