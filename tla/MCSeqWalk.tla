----------------------------- MODULE MCSeqWalk ------------------------------
(* Small instances of SeqWalk: numbers of 4 bits (Half = 8), streams that  *)
(* pass both 2^31 and 2^32.                                                *)
EXTENDS SeqWalk

\* every initial number
AllBases == U32
=============================================================================
