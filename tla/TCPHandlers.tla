---------------------------- MODULE TCPHandlers -----------------------------
(***************************************************************************)
(* The functions of TCPSession.  The reactor runs one handler at a time on *)
(* one thread, so a handler (accept, a tunnel callback, the destructor)    *)
(* with everything it calls is one step: an operator on the memory v.      *)
(***************************************************************************)
EXTENDS SessionMemory

-----------------------------------------------------------------------------
(* State                                                                   *)

close(v) == destroyTunnel([v EXCEPT !.mAlive = FALSE])

(* Mutant: the tunnel outlives the session's CLOSED state.                 *)
Mut_switchState(v, state) == [v EXCEPT !.mState = state]

switchState(v, state) ==
  IF v.mState = state THEN v
  ELSE LET w == [v EXCEPT !.mState = state]
       IN  IF state = "CLOSED" THEN close(w) ELSE w

timeout(v) == v.idle > (IF v.mState = "ESTABLISHED" THEN 1 ELSE 0)

hasClosed(v) == ~v.mAlive \/ timeout(v)

-----------------------------------------------------------------------------
(* The way back to the app: pushInBackQueue, flushBackQueue and below      *)

(* sendBackSegment: counted as tried, then handed to the Router.           *)
sendBackSegment(v, c) ==
  RouterQueue([v EXCEPT !.heap = [@ EXCEPT ![c].sent = TRUE]], c)

(* resetConnection: an RST that belongs to the Router alone, then CLOSED.  *)
resetConnection(v) ==
  LET w == [v EXCEPT !.mLocalSeq = v.mLocalNext]
      c == FreshCell(w)
      r == [BuildPackage(w, "RST", 0, 0) EXCEPT !.release = TRUE]
  IN  switchState(sendBackSegment(Allocate(w, r), c), "CLOSED")

(* pushInBackQueue refuses while the peer has acknowledged more than was   *)
(* ever numbered.                                                          *)
canPush(v) == v.mLocalNext <= v.mLocalSeq

(* pushInBackQueue up to its call of flushBackQueue.                       *)
enqueueBack(v, flag, off, len) ==
  [Allocate(v, BuildPackage(v, flag, off, len)) EXCEPT
                !.mBackQueue = Append(@, FreshCell(v)),
                !.mLocalSeq = @ + (IF flag \in {"SYN", "FIN"} THEN 1 ELSE len)]

(* Mutant: data counts as acknowledged once it was tried.                  *)
Mut_Finished(v, d) == d.seq < v.mLocalNext \/ (d.flag = "ACK" /\ d.sent)

(* A datagram at the front that flushBackQueue pops: its number is behind  *)
(* the window, or it is a bare ACK that was tried once.                    *)
Finished(v, d) ==
  \/ d.seq < v.mLocalNext
  \/ d.len = 0 /\ d.flag = "ACK" /\ d.sent

popAcked(v) ==
  LET q    == v.mBackQueue
      kept == {i \in DOMAIN q : ~Finished(v, v.heap[q[i]])}
      n    == LeadingRun(Len(q), kept)
  IN  [v EXCEPT !.mBackQueue = Drop(q, n),
                !.heap = SafeRelease(@, CellsOf(SubSeq(q, 1, n)))]

Min2(a, b) == IF a < b THEN a ELSE b

(* What the loop over mBackQueue allows to be sent: TCP_MAX_SEND_PACKET is *)
(* 1, so it never gets past the front, which must fit in the window whole. *)
canSend(v, d) ==
  /\ Size(d) < Min2(v.mSendWindow, MaxSendWindow)
  /\ ~d.buffering
  /\ ~d.acked

(* Mutant: reading is never resumed.                                       *)
Mut_resumeIfRoom(v) == v

(* The end of flushBackQueue: "buffer has enough space".                   *)
resumeIfRoom(v) ==
  IF v.mState = "ESTABLISHED" /\ BackQueueDataSize(v) < SessionBuffer \div 2
  THEN resumeReceiveData(v) ELSE v

(* flushBackQueue from "do send back data" on.                             *)
sendBack(v) ==
  IF v.mBackQueue = <<>> THEN resumeIfRoom(v)
  ELSE LET c == Head(v.mBackQueue)
           d == v.heap[c]
       IN  IF v.mLocalNext < d.seq THEN resetConnection(v)
           ELSE IF canSend(v, d) THEN resumeIfRoom(sendBackSegment(v, c))
           ELSE resumeIfRoom(v)

(* All data is back and the remote finished.                               *)
mayFinish(v) ==
  /\ v.mRemoteFinished
  /\ v.mState \in {"ESTABLISHED", "CLOSE_WAIT"}
  /\ v.mBackQueue = <<>>

(* pushInBackQueue(FIN|ACK) from within flushBackQueue: its own call of    *)
(* flushBackQueue finds the queue non-empty, so it does not recurse again. *)
pushFin(v) ==
  LET w == sendBack(popAcked(enqueueBack(v, "FIN", 0, 0)))
  IN  switchState(w, IF w.mState = "ESTABLISHED" THEN "FIN_WAIT1" ELSE "LAST_ACK")

flushBackQueue(v) ==
  LET w == popAcked(v)
  IN  IF ~mayFinish(w) THEN sendBack(w)
      ELSE IF canPush(w) THEN pushFin(w) ELSE w

pushInBackQueue(v, flag, off, len) ==
  IF canPush(v) THEN flushBackQueue(enqueueBack(v, flag, off, len)) ELSE v

-----------------------------------------------------------------------------
(* Packets from the app: accept and below                                  *)

onReceiveSYN(v, p) ==
  IF v.mState # "LISTEN" THEN flushBackQueue(v)
  ELSE LET w == [v EXCEPT !.mSack = @ \/ p.sackf, !.mSendWindow = p.win,
                          !.mLocalSeq = 0, !.mLocalNext = 0, !.mRemoteNext = 1]
       IN  switchState(pushInBackQueue(w, "SYN", 0, 0), "SYN_RCVED")

onReceiveRST(v) == switchState(v, "CLOSED")

(* Where a FIN takes each state; any other state only acknowledges it.     *)
afterFIN(v, p) ==
  CASE v.mState = "ESTABLISHED" -> "CLOSE_WAIT"
    [] v.mState = "FIN_WAIT1"   -> IF p.ack = v.mLocalNext THEN "TIME_WAIT"
                                                           ELSE "CLOSING"
    [] v.mState = "FIN_WAIT2"   -> "TIME_WAIT"
    [] OTHER                    -> v.mState

onReceiveFIN(v, p) ==
  LET w == [v EXCEPT !.mLocalNext = IF @ <= p.ack THEN p.ack ELSE @,
                     !.mRemoteNext = p.seq + 1]
      x == pushInBackQueue(w, "ACK", 0, 0)
  IN  IF canPush(w) /\ afterFIN(w, p) # w.mState
      THEN switchState(x, afterFIN(w, p)) ELSE x

(* The byte at the address getOptionAddr returns: the option's kind.       *)
SackKind == 5

(* onSack takes that byte for the option's length and returns unless it is *)
(* one of these four, so it never gets to mark the datagrams numbered      *)
(* inside the block: no datagram is ever acked.                            *)
onSack(v, sack) ==
  LET hit == {c \in Held(v) :
                sack.from <= v.heap[c].seq /\ v.heap[c].seq < sack.to}
  IN  IF SackKind \notin {10, 18, 26, 34} THEN v
      ELSE [v EXCEPT !.heap = [c \in Cells |->
                       [v.heap[c] EXCEPT !.acked = @ \/ c \in hit]]]

(* mForwardQueue.findNotSmaller: how many queued datagrams come before p.  *)
smaller(v, p) ==
  LET q == v.mForwardQueue
  IN  LeadingRun(Len(q), {i \in DOMAIN q : q[i].seq >= p.seq})

(* Does enqueueIfNeed put the payload in mForwardQueue?                    *)
needed(v, p) ==
  LET q == v.mForwardQueue
      n == smaller(v, p)
  IN  /\ p.len > 0
      /\ p.seq >= v.mRemoteNext
      /\ ~(n < Len(q) /\ q[n + 1].seq = p.seq)

(* Mutant: the payload is counted and never queued.                        *)
Mut_enqueueCounts(v, p) ==
  IF needed(v, p) THEN requestSendData([v EXCEPT !.mRemoteNext = @ + p.len])
  ELSE v

(* Mutant: the tunnel is not asked for a WRITE event.                      *)
Mut_enqueueWaits(v, p) ==
  IF needed(v, p)
  THEN [v EXCEPT !.mForwardQueue = InsertAfter(@, smaller(v, p),
                     [seq |-> p.seq, off |-> p.off, len |-> p.len]),
                 !.mRemoteNext = @ + p.len]
  ELSE v

(* enqueueIfNeed, and its callers' mRemoteNext += (what was queued).       *)
enqueueIfNeed(v, p) ==
  IF needed(v, p)
  THEN requestSendData(
         [v EXCEPT !.mForwardQueue = InsertAfter(@, smaller(v, p),
                       [seq |-> p.seq, off |-> p.off, len |-> p.len]),
                   !.mRemoteNext = @ + p.len])
  ELSE IF p.len > 0 /\ p.seq < v.mRemoteNext
       THEN pushInBackQueue(v, "ACK", 0, 0)    \* "repeated packet"
       ELSE v

(* The ESTABLISHED branch of accept.                                       *)
onEstablished(v, p) ==
  LET w == IF v.mSack /\ p.sack.from < p.sack.to THEN onSack(v, p.sack) ELSE v
      x == enqueueIfNeed(w, p)
  IN  IF needed(w, p) THEN pushInBackQueue(x, "ACK", 0, 0) ELSE flushBackQueue(x)

(* What accept does once mLocalNext has reached the packet's ack.          *)
onNewAck(v, p) ==
  CASE v.mState = "SYN_RCVED"   ->
         flushBackQueue(enqueueIfNeed(switchState(v, "ESTABLISHED"), p))
    [] v.mState = "ESTABLISHED" -> onEstablished(v, p)
    [] v.mState = "FIN_WAIT1"   -> flushBackQueue(switchState(v, "FIN_WAIT2"))
    [] v.mState = "LAST_ACK"    -> flushBackQueue(switchState(v, "CLOSED"))
    [] v.mState = "CLOSING"     -> flushBackQueue(switchState(v, "TIME_WAIT"))
    [] OTHER                    -> flushBackQueue(v)

(* accept's last branch: a packet with none of SYN, FIN and RST.  An older *)
(* ack only turns on SO_KEEPALIVE.                                         *)
onReceiveACK(v, p) ==
  LET w == [v EXCEPT !.mSendWindow = p.win,
                     !.mLocalNext = IF @ <= p.ack THEN p.ack ELSE @]
  IN  IF p.ack < v.mLocalNext THEN w ELSE onNewAck(w, p)

accept(v, p) ==
  LET w == CASE p.flag = "SYN" -> onReceiveSYN(v, p)
             [] p.flag = "FIN" -> onReceiveFIN(v, p)
             [] p.flag = "RST" -> onReceiveRST(v)
             [] OTHER          -> onReceiveACK(v, p)
  IN  [w EXCEPT !.idle = 0]

-----------------------------------------------------------------------------
(* Callbacks of the tunnel                                                 *)

(* Mutant: finishing gives up what the app has not acknowledged.           *)
Mut_onRemoteFinished(v) ==
  flushBackQueue([v EXCEPT !.mRemoteFinished = TRUE, !.mLocalSeq = v.mLocalNext,
                           !.heap = SafeRelease(@, Held(v)), !.mBackQueue = <<>>])

onRemoteFinished(v) == flushBackQueue([v EXCEPT !.mRemoteFinished = TRUE])

(* onTunnelDataBack; a read of TCPTunnel fits in one datagram.             *)
onTunnelDataBack(v, off, len) ==
  LET w == pushInBackQueue(v, "ACK", off, len)
      x == IF BackQueueDataSize(w) >= SessionBuffer THEN pauseReceiveData(w) ELSE w
  IN  [x EXCEPT !.idle = 0]

onTunnelDisconnected(v) ==
  CASE v.mState \in {"CLOSE_WAIT", "ESTABLISHED"} -> onRemoteFinished(v)
    [] v.mState \in {"TIME_WAIT", "CLOSING", "FIN_WAIT1", "FIN_WAIT2"} ->
         switchState(v, "CLOSED")
    [] OTHER -> resetConnection(v)

-----------------------------------------------------------------------------
(* Birth and death                                                         *)

(* buildSession and TCPSession::init, with the TCPTunnel established.      *)
buildSession(v) ==
  establish([v EXCEPT !.exists = "yes", !.mAlive = TRUE, !.mState = "LISTEN",
                      !.idle = 0])

(* releaseSession: ~TCPSession with clearBackQueue.                        *)
releaseSession(v) ==
  [destroyTunnel(v) EXCEPT
     !.exists = "deleted", !.mAlive = FALSE, !.mForwardQueue = <<>>,
     !.heap = SafeRelease(@, Held(v)),
     !.mBackQueue = <<>>]
=============================================================================
