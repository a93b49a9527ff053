---------------------------- MODULE MCTCPSession ----------------------------
(* Instances of TCPSession for TLC: headers of one byte.                   *)
EXTENDS TCPSession

=============================================================================
