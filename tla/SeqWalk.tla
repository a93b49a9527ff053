------------------------------ MODULE SeqWalk -------------------------------
(***************************************************************************)
(* One direction of a connection seen through TcpSeq: the app's kernel     *)
(* numbers its bytes from a random initial number and sends segments       *)
(* without waiting for their ACKs, TCPSession turns each number into a     *)
(* relative one, decides whether the segment is new and queues it.  The    *)
(* stream may pass 2^31 and 2^32.                                          *)
(***************************************************************************)
EXTENDS TcpSeq, Sequences

CONSTANTS Bases,      \* initial sequence numbers the kernel may pick
          MaxStream,  \* bound: bytes sent on the connection
          MaxLen,     \* bound: payload bytes in one segment
          Window,     \* how far back the kernel repeats bytes
          MaxQueue    \* bound: segments in mForwardQueue

ASSUME WalkAssumption ==
  /\ Bases \subseteq U32
  /\ MaxStream \in Nat /\ MaxLen \in Nat
  /\ Window \in Nat /\ MaxQueue \in Nat

VARIABLES mRemoteSeqBase,  \* taken from the SYN
          mRemoteNext,     \* relative number of the next byte expected
          mForwardQueue,   \* the numbers of the segments queued
          sent,            \* bytes the kernel has sent, one for the SYN
          verdict          \* what was decided about the last segment

vars == <<mRemoteSeqBase, mRemoteNext, mForwardQueue, sent, verdict>>

(* Of a segment: whether its bytes are new, and whether it was queued.     *)
Verdicts == [new : BOOLEAN, queued : BOOLEAN]

TypeOK ==
  /\ mRemoteSeqBase \in Bases
  /\ mRemoteNext \in U32
  /\ mForwardQueue \in Seq(U32)
  /\ sent \in Nat
  /\ verdict \in Verdicts

(* onReceiveSYN: the base is the SYN's number and byte 1 is next.          *)
Init ==
  /\ mRemoteSeqBase \in Bases
  /\ mRemoteNext = 1
  /\ mForwardQueue = <<>>
  /\ sent = 1
  /\ verdict = [new |-> FALSE, queued |-> FALSE]

(* The relative number of the segment that starts after off bytes.         *)
SeqOf(off) == RelativeSeq(AbsoluteSeq(off, mRemoteSeqBase), mRemoteSeqBase)

(* at is the place findNotSmaller gives: of the first segment that is not  *)
(* smaller, or the end.                                                    *)
findNotSmaller(q, seq, at) ==
  /\ \A i \in 1 .. (at - 1) : compareDatagram(seq, q[i]) > 0
  /\ at <= Len(q) => compareDatagram(seq, q[at]) <= 0

insert(q, at, seq) ==
  [i \in 1 .. (Len(q) + 1) |->
     IF i < at THEN q[i] ELSE IF i = at THEN seq ELSE q[i - 1]]

(* accept and enqueueIfNeed with the segment of len bytes after off: it is *)
(* refused as a repetition, or its number is queued already, or it is      *)
(* queued and counted.                                                     *)
Accept(off, len, new) ==
  LET seq == SeqOf(off)
      Judged(queued) == [new |-> new, queued |-> queued]
  IN  /\ \E c \in compare_u32(seq, mRemoteNext), at \in 1 .. (Len(mForwardQueue) + 1) :
           /\ findNotSmaller(mForwardQueue, seq, at)
           /\ LET Known == at <= Len(mForwardQueue) /\ mForwardQueue[at] = seq
              IN  \/ /\ c < 0 \/ Known
                     /\ verdict' = Judged(FALSE)
                     /\ UNCHANGED <<mRemoteNext, mForwardQueue>>
                  \/ /\ c >= 0 /\ ~Known
                     /\ verdict' = Judged(TRUE)
                     /\ mRemoteNext' = (mRemoteNext + len) % Mod
                     /\ mForwardQueue' = insert(mForwardQueue, at, seq)
      /\ UNCHANGED mRemoteSeqBase

(* The kernel sends the next len bytes.                                    *)
ReceiveNext(len) ==
  /\ sent + len <= MaxStream /\ Len(mForwardQueue) < MaxQueue
  /\ Accept(sent, len, TRUE)
  /\ sent' = sent + len

(* The kernel repeats bytes it has sent before.                            *)
ReceiveAgain(off, len) ==
  /\ sent - Window <= off /\ off + len <= sent /\ Len(mForwardQueue) < MaxQueue
  /\ Accept(off, len, FALSE)
  /\ UNCHANGED sent

(* onTunnelWritable has sent the first segment.                            *)
Forward ==
  /\ mForwardQueue # <<>>
  /\ mForwardQueue' = Tail(mForwardQueue)
  /\ UNCHANGED <<mRemoteSeqBase, mRemoteNext, sent, verdict>>

Next ==
  \/ \E len \in 1 .. MaxLen : ReceiveNext(len)
  \/ \E off \in 1 .. MaxStream, len \in 1 .. MaxLen : ReceiveAgain(off, len)
  \/ Forward

Spec == Init /\ [][Next]_vars

-----------------------------------------------------------------------------
(* No number sent so far has wrapped, and none is 2^31 or more.            *)
InRange == mRemoteSeqBase + sent <= Mod /\ sent <= MaxInt

(* As long as the numbers have neither wrapped nor reached 2^31 a segment  *)
(* is queued exactly when its bytes are new, and every byte sent is        *)
(* counted: the round trip through absolute numbers and compare_u32        *)
(* (enqueueIfNeed) never refuses new bytes and never lets old ones         *)
(* through.  Behind either bound this is false: behind the wrap new        *)
(* segments are refused, and from 2^31 on, where compare_u32 compares ints *)
(* of different signs, old ones are queued again.                          *)
VerdictRight ==
  InRange => (verdict.queued <=> verdict.new) /\ mRemoteNext = sent

(* Short of 2^31 bytes, across the wrap too, accept never counts more than *)
(* was sent, so the session never acknowledges a byte the app's kernel has *)
(* not sent: behind the wrap numbers read back one short, new segments are *)
(* refused and later ones queued in their place, but each of them lies     *)
(* ahead of what is counted.                                               *)
AcksNothingUnsent == sent < MaxInt => mRemoteNext <= sent
=============================================================================
