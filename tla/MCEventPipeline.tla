-------------------------- MODULE MCEventPipeline --------------------------
(***************************************************************************)
(* The event pipeline for TLC.  The two dispatchers hardly meet, so each   *)
(* has a load of its own, and a small one has both.                        *)
(***************************************************************************)
EXTENDS EventPipeline

MCLoads ==
  {[routers |-> 1, events |-> 3, packets |-> 0, ticks |-> 0, failures |-> 0],
   [routers |-> 2, events |-> 0, packets |-> 3, ticks |-> 1, failures |-> 1],
   [routers |-> 2, events |-> 1, packets |-> 1, ticks |-> 0, failures |-> 0]}
=============================================================================
