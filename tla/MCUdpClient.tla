---------------------------- MODULE MCUdpClient ----------------------------
(* Small instances of UdpClient for TLC. *)
EXTENDS UdpClient
=============================================================================
