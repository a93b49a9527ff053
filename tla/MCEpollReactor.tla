--------------------------- MODULE MCEpollReactor ---------------------------
(***************************************************************************)
(* The reactor for TLC.                                                    *)
(***************************************************************************)
EXTENDS EpollReactor
=============================================================================
