-------------------------- MODULE MCDatagramRouter --------------------------
(* The table of UDP sessions for TLC.                                      *)
EXTENDS DatagramRouter
=============================================================================
