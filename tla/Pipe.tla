-------------------------------- MODULE Pipe --------------------------------
(***************************************************************************)
(* What the VPN promises for one direction of a connection: the receiver   *)
(* gets the bytes that were written, in order and each once; the end of    *)
(* the stream is announced only when every byte has been delivered, and    *)
(* nothing follows it.  A pipe may break, and then delivers nothing more.  *)
(***************************************************************************)
EXTENDS Naturals

VARIABLES written,    \* bytes the pipe took from the sender
          delivered,  \* bytes the receiver got
          closed,     \* the pipe saw the end of the sender's stream
          finished,   \* the receiver saw it
          broken      \* the connection was reset

pipeVars == <<written, delivered, closed, finished, broken>>

PipeTypeOK ==
  /\ written \in Nat /\ delivered \in Nat
  /\ closed \in BOOLEAN /\ finished \in BOOLEAN /\ broken \in BOOLEAN

PipeInit ==
  /\ written = 0 /\ delivered = 0
  /\ closed = FALSE /\ finished = FALSE /\ broken = FALSE

(* The pipe takes k more bytes.                                            *)
Write(k) ==
  /\ ~closed
  /\ written' = written + k
  /\ UNCHANGED <<delivered, closed, finished, broken>>

(* The receiver gets the next bytes, the last of them number n.            *)
Deliver(n) ==
  /\ ~finished /\ ~broken
  /\ delivered < n /\ n <= written
  /\ delivered' = n
  /\ UNCHANGED <<written, closed, finished, broken>>

Close ==
  /\ ~closed /\ closed' = TRUE
  /\ UNCHANGED <<written, delivered, finished, broken>>

Finish ==
  /\ closed /\ ~finished /\ ~broken
  /\ delivered = written
  /\ finished' = TRUE
  /\ UNCHANGED <<written, delivered, closed, broken>>

Break ==
  /\ ~broken /\ broken' = TRUE
  /\ UNCHANGED <<written, delivered, closed, finished>>

PipeNext ==
  \/ written' \in Nat /\ written' > written /\ Write(written' - written)
  \/ delivered' \in Nat /\ Deliver(delivered')
  \/ Close
  \/ Finish
  \/ Break

PipeSpec == PipeInit /\ [][PipeNext]_pipeVars

(* The end of the stream is a promise that everything was delivered.       *)
FinishedIsComplete == finished => closed /\ delivered = written

NothingLost == delivered <= written
=============================================================================
