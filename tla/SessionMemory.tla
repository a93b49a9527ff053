--------------------------- MODULE SessionMemory ----------------------------
(***************************************************************************)
(* The memory of the VPN process as far as one TCP session reaches: the    *)
(* session's fields, the datagrams it allocates, the Router's queue of     *)
(* datagrams to write to the tun device, and the socket of its TCPTunnel.  *)
(* Every function that changes it is an operator from memory v to the      *)
(* memory it leaves; TCPHandlers has the functions of TCPSession itself.   *)
(*                                                                         *)
(* Sequence numbers are relative (TcpSeq has the absolute ones).  Payloads *)
(* are slices of a stream: off bytes come before them and they are len     *)
(* long.  The advertised receive window is left out: the kernel may send   *)
(* whenever it likes.                                                      *)
(***************************************************************************)
EXTENDS Integers, Sequences, FiniteSets

CONSTANTS Cells,          \* addresses a TCPDatagram can be allocated at
          HeaderSize,     \* bytes of IP and TCP header in a datagram
          SessionBuffer,  \* TCP_SESSION_BUFFER_SIZE
          MaxSendWindow   \* TCP_MAX_SEND_WINDOW

ASSUME MemoryAssumption ==
  /\ Cells # {}
  /\ HeaderSize \in Nat \ {0}
  /\ SessionBuffer \in Nat
  /\ MaxSendWindow \in Nat

States == {"LISTEN", "SYN_RCVED", "ESTABLISHED", "CLOSE_WAIT", "LAST_ACK",
           "FIN_WAIT1", "FIN_WAIT2", "CLOSING", "TIME_WAIT", "CLOSED"}

Flags == {"SYN", "ACK", "FIN", "RST"}   \* SYN, FIN and RST carry ACK as well

-----------------------------------------------------------------------------
(* TCPDatagram, with the BufferSegment flags it inherits; sent stands for  *)
(* mRetry > 0 and live for the memory not having been deleted.             *)
DatagramType ==
  [live : BOOLEAN, seq : Nat, ack : Nat, flag : Flags, off : Nat, len : Nat,
   sent : BOOLEAN, acked : BOOLEAN,
   buffering : BOOLEAN, abort : BOOLEAN, release : BOOLEAN]

(* Memory that was never allocated, or was deleted.                        *)
Free == [live |-> FALSE, seq |-> 0, ack |-> 0, flag |-> "ACK", off |-> 0,
         len |-> 0, sent |-> FALSE, acked |-> FALSE,
         buffering |-> FALSE, abort |-> FALSE, release |-> FALSE]

(* What the app's kernel puts in one packet.                               *)
PacketType ==
  [flag : Flags, seq : Nat, ack : Nat, off : Nat, len : Nat, win : Nat,
   sack : [from : Nat, to : Nat], sackf : BOOLEAN]

(* A datagram of app data waiting for the tunnel.                          *)
ForwardType == [seq : Nat, off : Nat, len : Nat]

(* The memory: the session, its datagrams, the Router's queue of datagrams *)
(* to write to the tun device, and the tunnel's socket and events.         *)
MemoryType ==
  [exists : {"never", "yes", "deleted"},  \* is the session in mTCPSessions?
   mAlive : BOOLEAN, mState : States, mRemoteFinished : BOOLEAN,
   mSack : BOOLEAN, mLocalSeq : Nat, mLocalNext : Nat, mRemoteNext : Nat,
   mSendWindow : Nat, mBackQueue : Seq(Cells), mForwardQueue : Seq(ForwardType),
   idle : 0 .. 2,              \* since mLastTime: up to 10s, up to 1h, more
   heap : [Cells -> DatagramType],
   mData : Seq(Cells),         \* Router: datagrams to write to the tun device
   tunWrite : BOOLEAN,         \* Router: WRITE registered for the tun device
   socket : BOOLEAN,           \* TCPTunnel: mSocket >= 0
   rd : BOOLEAN,               \* TCPTunnel: READ registered for the socket
   wr : BOOLEAN,               \* TCPTunnel: WRITE registered for the socket
   full : BOOLEAN]             \* bound: an allocation found no free cell

InitMemory ==
  [exists |-> "never", mAlive |-> FALSE, mState |-> "LISTEN",
   mRemoteFinished |-> FALSE, mSack |-> FALSE, mLocalSeq |-> 0,
   mLocalNext |-> 0, mRemoteNext |-> 0, mSendWindow |-> 0,
   mBackQueue |-> <<>>, mForwardQueue |-> <<>>, idle |-> 0,
   heap |-> [c \in Cells |-> Free], mData |-> <<>>, tunWrite |-> FALSE,
   socket |-> FALSE, rd |-> FALSE, wr |-> FALSE, full |-> FALSE]

-----------------------------------------------------------------------------
(* Sequences                                                               *)

(* The number of leading indices of 1..n before the first one in bad.      *)
LeadingRun(n, bad) == Cardinality({i \in 1 .. n : \A j \in bad : i < j})

CellsOf(q) == {q[i] : i \in DOMAIN q}

Injective(q) == \A i, j \in DOMAIN q : q[i] = q[j] => i = j

Drop(q, n) == SubSeq(q, n + 1, Len(q))

InsertAfter(q, n, x) == SubSeq(q, 1, n) \o <<x>> \o Drop(q, n)

-----------------------------------------------------------------------------
(* Datagrams                                                               *)

(* Segment::size and capacity of a datagram built by buildPackage.         *)
Size(d) == HeaderSize + d.len

(* new TCPDatagram: d in a free cell.  Cells bounds what can be allocated; *)
(* a handler that hits the bound sets full, and no step ends in that.      *)
HasFree(v) == \E c \in Cells : ~v.heap[c].live

FreshCell(v) == CHOOSE c \in Cells : HasFree(v) => ~v.heap[c].live

Allocate(v, d) ==
  [v EXCEPT !.heap = [@ EXCEPT ![FreshCell(v)] = d], !.full = @ \/ ~HasFree(v)]

(* Mutant: numbered one too low.                                           *)
Mut_BuildPackage(v, flag, off, len) ==
  [Free EXCEPT !.live = TRUE, !.seq = v.mLocalSeq - 1, !.ack = v.mRemoteNext,
               !.flag = flag, !.off = off, !.len = len]

(* buildPackage: a datagram with the session's current numbers.            *)
BuildPackage(v, flag, off, len) ==
  [Free EXCEPT !.live = TRUE, !.seq = v.mLocalSeq, !.ack = v.mRemoteNext,
               !.flag = flag, !.off = off, !.len = len]

(* mBackQueueDataSize: what the back queue's datagrams take.               *)
BackQueueDataSize(v) ==
  Cardinality(UNION {{i} \X (1 .. Size(v.heap[v.mBackQueue[i]])) :
                       i \in DOMAIN v.mBackQueue})

(* Mutants: a datagram the Router still holds is deleted, or only unlinked *)
(* from the session.                                                       *)
Mut_SafeReleaseDeletes(heap, gone) ==
  [c \in Cells |-> IF c \in gone THEN Free ELSE heap[c]]
Mut_SafeReleaseForgets(heap, gone) ==
  [c \in Cells |-> CASE c \notin gone     -> heap[c]
                     [] heap[c].buffering -> [heap[c] EXCEPT !.abort = TRUE]
                     [] OTHER             -> Free]

(* safeReleaseSegment, of every datagram in gone.                          *)
SafeRelease(heap, gone) ==
  [c \in Cells |->
     IF c \notin gone THEN heap[c]
     ELSE IF heap[c].buffering
          THEN [heap[c] EXCEPT !.abort = TRUE, !.release = TRUE]
          ELSE Free]

Held(v)   == CellsOf(v.mBackQueue)   \* datagrams the session points to
Queued(v) == CellsOf(v.mData)        \* datagrams the Router points to

-----------------------------------------------------------------------------
(* The Router's side of a datagram                                         *)

(* Router::onSyncEvent of WRITE_PACKAGE.                                   *)
RouterQueue(v, c) ==
  IF v.heap[c].buffering \/ v.heap[c].abort THEN v
  ELSE [v EXCEPT !.heap = [@ EXCEPT ![c].buffering = TRUE],
                 !.mData = Append(@, c), !.tunWrite = TRUE]

(* Mutant: a written datagram is still taken for one being buffered.       *)
Mut_RouterUnqueue(v) ==
  LET c == Head(v.mData)
  IN  [v EXCEPT !.mData = Tail(@),
                !.heap = [@ EXCEPT ![c] = IF @.release THEN Free ELSE @]]

(* Router::onWritable: the front datagram leaves the queue, written to the *)
(* tun device or passed over because it was aborted.                       *)
RouterUnqueue(v) ==
  LET c == Head(v.mData)
      d == v.heap[c]
  IN  [v EXCEPT !.mData = Tail(@),
                !.heap = [@ EXCEPT ![c] =
                            IF d.release THEN Free
                            ELSE [d EXCEPT !.buffering = FALSE]]]

-----------------------------------------------------------------------------
(* TCPTunnel's side of a session: event registration needs a socket.       *)

establish(v)         == [v EXCEPT !.socket = TRUE, !.rd = TRUE, !.wr = TRUE]
requestSendData(v)   == [v EXCEPT !.wr = @ \/ v.socket]
pauseSendData(v)     == [v EXCEPT !.wr = FALSE]
pauseReceiveData(v)  == [v EXCEPT !.rd = FALSE]
resumeReceiveData(v) == [v EXCEPT !.rd = @ \/ v.socket]
destroyTunnel(v)     == [v EXCEPT !.socket = FALSE, !.rd = FALSE, !.wr = FALSE]
=============================================================================
