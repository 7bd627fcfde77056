----------------------------- MODULE MCTCPServer -----------------------------
(* Small instances of TCPServer for TLC. *)
EXTENDS TCPServer, TLC
=============================================================================
