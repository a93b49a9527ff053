----------------------------- MODULE TCPSession -----------------------------
(***************************************************************************)
(* One TCP connection through the VPN.  On one side the app's kernel,      *)
(* which talks TCP over the tun device; on the other the remote server,    *)
(* reached through the session's TCPTunnel; between them the reactor       *)
(* thread, which runs the handlers of Router, TCPTunnel and TCPSession one *)
(* at a time.  The kernel and the remote are external: they run on their   *)
(* own and are modelled by what the code sees of them.                     *)
(***************************************************************************)
EXTENDS TCPHandlers

CONSTANTS RemoteBytes,  \* bound: bytes the remote sends
          AppBytes,     \* bound: bytes the app sends
          MaxRead,      \* bound: bytes one read of the tunnel returns
          Windows,      \* window sizes the kernel advertises
          TunRoom,      \* bound: packets the kernel puts in the tun unasked
          Env           \* what the environment does in this instance

EnvChoices ==
  {"appClose",      \* the app closes its side of the connection
   "finData",       \* the kernel puts the app's last bytes in its FIN
   "tunLoss",       \* the tun device's queue overflows and drops a packet
   "tunWriteFail",  \* write() to the tun device fails
   "connectFail",   \* the tunnel cannot be established
   "tunnelError",   \* the tunnel's socket reports an error or times out
   "sendError",     \* send() to the tunnel's socket fails, EAGAIN included
   "appReset",      \* the app's kernel resets the connection
   "appWindow",     \* the kernel announces a new window
   "idle"}          \* time passes without traffic

ASSUME SessionAssumption ==
  /\ RemoteBytes \in Nat /\ AppBytes \in Nat /\ MaxRead \in Nat
  /\ Windows \subseteq Nat /\ Windows # {}
  /\ TunRoom \in Nat
  /\ Env \subseteq EnvChoices

VARIABLES mem,      \* the memory of the VPN process
          reactor,  \* the loop the reactor thread is in the middle of
          tunIn,    \* packets from the kernel, not yet read from the tun
          app,      \* the app's kernel: its end of the connection
          remote    \* the remote server and the tunnel's TCP connection

vars == <<mem, reactor, tunIn, app, remote>>

-----------------------------------------------------------------------------
(* A stream as its receiver has it: n bytes, each in its place iff ok.     *)
StreamType == [n : Nat, ok : BOOLEAN]

Extend(s, off, len) ==
  IF len = 0 THEN s ELSE [n |-> s.n + len, ok |-> s.ok /\ off = s.n]

AppType ==
  [st : {"idle", "syn", "open", "done"},
   sent : Nat,        \* bytes sent at least once
   una : Nat,         \* the oldest number not acknowledged
   fin : BOOLEAN,     \* FIN sent
   next : Nat,        \* the next number expected
   got : StreamType,  \* what the app received
   eof : BOOLEAN,     \* FIN received
   win : Nat]         \* the window announced last

RemoteType ==
  [total : Nat,       \* bytes it will send before it closes
   read : Nat,        \* bytes the tunnel has read
   got : StreamType]  \* what the remote received

TypeOK ==
  /\ mem \in MemoryType
  /\ reactor \in {"poll", "tun write", "tunnel write"}
  /\ tunIn \in Seq(PacketType)
  /\ app \in AppType
  /\ remote \in RemoteType

Empty == [n |-> 0, ok |-> TRUE]

Init ==
  /\ mem = InitMemory
  /\ reactor = "poll"
  /\ tunIn = <<>>
  /\ app \in [st : {"idle"}, sent : {0}, una : {0}, fin : {FALSE}, next : {0},
              got : {Empty}, eof : {FALSE}, win : Windows]
  /\ remote \in [total : 0 .. RemoteBytes, read : {0}, got : {Empty}]

-----------------------------------------------------------------------------
(* The app's kernel (external)                                             *)

NoSack == [from |-> 0, to |-> 0]

(* A packet with the kernel's current acknowledgement and window.          *)
Packet(a, flag, seq, off, len) ==
  [flag |-> flag, seq |-> seq, ack |-> a.next, off |-> off, len |-> len,
   win |-> a.win, sack |-> NoSack, sackf |-> flag = "SYN"]

SndNxt(a) == 1 + a.sent + (IF a.fin THEN 1 ELSE 0)

BareAck(a) == Packet(a, "ACK", SndNxt(a), 0, 0)

(* The kernel has the app send something new, or its window opened.        *)
HasRoom == Len(tunIn) < TunRoom

Emit(a, p) ==
  /\ app' = a
  /\ tunIn' = Append(tunIn, p)
  /\ UNCHANGED <<mem, reactor, remote>>

AppConnect ==
  /\ app.st = "idle"
  /\ Emit([app EXCEPT !.st = "syn"], Packet(app, "SYN", 0, 0, 0))

AppSend(n) ==
  /\ app.st = "open" /\ ~app.fin /\ HasRoom
  /\ app.sent + n <= AppBytes
  /\ Emit([app EXCEPT !.sent = @ + n],
          Packet(app, "ACK", 1 + app.sent, app.sent, n))

AppClose(n) ==
  /\ "appClose" \in Env
  /\ app.st = "open" /\ ~app.fin /\ HasRoom
  /\ app.sent + n <= AppBytes
  /\ n > 0 => "finData" \in Env
  /\ Emit([app EXCEPT !.sent = @ + n, !.fin = TRUE],
          Packet(app, "FIN", 1 + app.sent, app.sent, n))

AppReset ==
  /\ "appReset" \in Env
  /\ app.st \in {"syn", "open"}
  /\ Emit([app EXCEPT !.st = "done"],
          Packet(app, "RST", SndNxt(app), 0, 0))

AppWindow(w) ==
  /\ "appWindow" \in Env
  /\ app.st = "open" /\ HasRoom
  /\ w # app.win
  /\ LET a == [app EXCEPT !.win = w] IN Emit(a, BareAck(a))

(* What the retransmission timer sends: the oldest bytes not acknowledged. *)
Unacked(a) ==
  IF a.st = "syn" THEN Packet(a, "SYN", 0, 0, 0)
  ELSE IF a.una <= a.sent
  THEN Packet(a, "ACK", a.una, a.una - 1, a.sent - (a.una - 1))
  ELSE Packet(a, "FIN", a.una, a.sent, 0)

(* The timer expires when nothing is under way on the tun device.          *)
AppRetransmit ==
  /\ app.st \in {"syn", "open"}
  /\ app.una < SndNxt(app)
  /\ tunIn = <<>> /\ mem.mData = <<>>
  /\ Emit(app, Unacked(app))

(* The app's end after datagram d arrived.                                 *)
Acked(a, d) == [a EXCEPT !.una = IF d.ack > @ /\ d.ack <= SndNxt(a) THEN d.ack ELSE @]

InOrder(a, d) == d.seq = a.next /\ ~a.eof /\ d.len <= a.win

(* Data, SYN and FIN are answered, a bare ACK is not; what was received    *)
(* before is answered with a duplicate-SACK block.                         *)
Received(a, d) ==
  IF d.flag = "RST" THEN [a EXCEPT !.st = "done"]
  ELSE IF a.st = "syn" /\ d.flag = "SYN"
  THEN [a EXCEPT !.st = "open", !.next = 1, !.una = 1]
  ELSE IF a.st # "open" THEN a
  ELSE IF ~InOrder(a, d) THEN Acked(a, d)
  ELSE [Acked(a, d) EXCEPT !.next = @ + (IF d.flag = "FIN" THEN 1 ELSE d.len),
                           !.eof = d.flag = "FIN",
                           !.got = Extend(@, d.off, d.len)]

Answers(a, d) ==
  IF Received(a, d).st # "open" \/ (d.flag = "ACK" /\ d.len = 0) THEN <<>>
  ELSE LET p == BareAck(Received(a, d))
       IN  <<IF d.len > 0 /\ d.seq < a.next
             THEN [p EXCEPT !.sack = [from |-> d.seq, to |-> d.seq + d.len]]
             ELSE p>>

(* The tun device's queue overflows.                                       *)
TunDrop ==
  /\ "tunLoss" \in Env
  /\ tunIn # <<>>
  /\ tunIn' = Tail(tunIn)
  /\ UNCHANGED <<mem, reactor, app, remote>>

-----------------------------------------------------------------------------
(* Handlers the reactor thread runs, one at a time, while it polls.        *)
Polling == reactor = "poll"

(* The handler leaves the memory v, within the bound on datagrams.         *)
Leave(v) == ~v.full /\ mem' = v

(* Router::onReadable and route: a session that has not closed takes the   *)
(* packet, a first SYN builds one, anything else is dropped.  A SYN after  *)
(* the session closed would build a second session: the model stops short  *)
(* of reading it (the kernel has no SYN left by then in any of the runs).  *)
RouterReadTun ==
  /\ Polling
  /\ tunIn # <<>>
  /\ LET p == Head(tunIn)
     IN  \/ /\ mem.exists = "yes" /\ ~hasClosed(mem)
            /\ Leave(accept(mem, p))
         \/ /\ mem.exists = "never" /\ p.flag = "SYN"
            /\ Leave(accept(buildSession(mem), p))
         \/ /\ \/ mem.exists = "yes" /\ hasClosed(mem) /\ p.flag # "SYN"
               \/ mem.exists = "deleted" /\ p.flag # "SYN"
               \/ mem.exists = "never" /\ p.flag # "SYN"
               \/ mem.exists = "never" /\ "connectFail" \in Env
            /\ mem' = mem
  /\ tunIn' = Tail(tunIn)
  /\ UNCHANGED <<reactor, app, remote>>

(* Router::onWritable is a loop over mData, and the kernel sees each write *)
(* at once: one step for each datagram, the thread staying in the loop.    *)
TunLoop == reactor \in {"poll", "tun write"} /\ mem.tunWrite

AfterWrite(v) ==
  /\ mem' = [v EXCEPT !.tunWrite = v.mData # <<>>]
  /\ reactor' = IF v.mData # <<>> THEN "tun write" ELSE "poll"

RouterSkipAborted ==
  /\ TunLoop
  /\ mem.heap[Head(mem.mData)].abort
  /\ AfterWrite(RouterUnqueue(mem))
  /\ UNCHANGED <<tunIn, app, remote>>

RouterWriteTun ==
  /\ TunLoop
  /\ ~mem.heap[Head(mem.mData)].abort
  /\ LET d == mem.heap[Head(mem.mData)]
     IN  /\ app' = Received(app, d)
         /\ tunIn' = tunIn \o Answers(app, d)
  /\ AfterWrite(RouterUnqueue(mem))
  /\ UNCHANGED remote

(* write() fails: the loop ends and WRITE is unregistered all the same.    *)
RouterWriteFails ==
  /\ "tunWriteFail" \in Env
  /\ TunLoop
  /\ ~mem.heap[Head(mem.mData)].abort
  /\ mem' = [mem EXCEPT !.tunWrite = FALSE]
  /\ reactor' = "poll"
  /\ UNCHANGED <<tunIn, app, remote>>

(* Router::cleanDeadSessions.                                              *)
CleanDeadSessions ==
  /\ Polling
  /\ mem.exists = "yes" /\ hasClosed(mem)
  /\ mem' = releaseSession(mem)
  /\ UNCHANGED <<reactor, tunIn, app, remote>>

(* Time passes without traffic: beyond 10 seconds, beyond an hour.         *)
Tick ==
  /\ "idle" \in Env
  /\ Polling /\ tunIn = <<>> /\ ~mem.tunWrite
  /\ mem.exists = "yes" /\ mem.idle < 2
  /\ mem' = [mem EXCEPT !.idle = @ + 1]
  /\ UNCHANGED <<reactor, tunIn, app, remote>>

-----------------------------------------------------------------------------
(* TCPTunnel                                                               *)

(* TCPTunnel::onReadable with data.                                        *)
TunnelReadable(k) ==
  /\ Polling
  /\ mem.rd
  /\ remote.read + k <= remote.total
  /\ Leave(onTunnelDataBack(mem, remote.read, k))
  /\ remote' = [remote EXCEPT !.read = @ + k]
  /\ UNCHANGED <<reactor, tunIn, app>>

(* TCPTunnel::onReadable at the end of the remote's stream.                *)
TunnelEof ==
  /\ Polling
  /\ mem.rd
  /\ remote.read = remote.total
  /\ Leave(onTunnelDisconnected(destroyTunnel(mem)))
  /\ UNCHANGED <<reactor, tunIn, app, remote>>

(* TCPTunnel::establish registers READ, WRITE and ERROR; a pause takes one *)
(* of the first two away, so errors and the periodic check reach the       *)
(* tunnel until destroyTunnel closes its socket.                           *)
Registered == mem.socket

(* A failed read, and TCPTunnel::onPeriodicallyCheck past its time.        *)
TunnelFails ==
  /\ "tunnelError" \in Env
  /\ Polling
  /\ Registered
  /\ Leave(onTunnelDisconnected(destroyTunnel(mem)))
  /\ UNCHANGED <<reactor, tunIn, app, remote>>

(* TCPTunnel::onException tells the session first.                         *)
TunnelException ==
  /\ "tunnelError" \in Env
  /\ Polling
  /\ Registered
  /\ Leave(destroyTunnel(onTunnelDisconnected(mem)))
  /\ UNCHANGED <<reactor, tunIn, app, remote>>

(* TCPSession::onTunnelWritable with nothing queued.                       *)
TunnelWritableEmpty ==
  /\ Polling
  /\ mem.wr /\ mem.mForwardQueue = <<>>
  /\ mem' = pauseSendData(mem)
  /\ UNCHANGED <<reactor, tunIn, app, remote>>

(* onTunnelWritable's loop, one send() a step, the thread staying in it.   *)
SendLoop ==
  /\ Polling \/ reactor = "tunnel write"
  /\ mem.wr /\ mem.mForwardQueue # <<>>

(* Mutant: the datagram stays in the queue after it was sent.              *)
Mut_TunnelSend ==
  /\ SendLoop
  /\ LET f == Head(mem.mForwardQueue)
     IN  remote' = [remote EXCEPT !.got = Extend(@, f.off, f.len)]
  /\ reactor' = "poll"
  /\ UNCHANGED <<mem, tunIn, app>>

TunnelSend ==
  /\ SendLoop
  /\ LET f == Head(mem.mForwardQueue)
         q == Tail(mem.mForwardQueue)
     IN  /\ mem' = [mem EXCEPT !.mForwardQueue = q]
         /\ remote' = [remote EXCEPT !.got = Extend(@, f.off, f.len)]
         /\ reactor' = IF q = <<>> THEN "poll" ELSE "tunnel write"
  /\ UNCHANGED <<tunIn, app>>

(* send() takes s bytes of the front datagram and then fails; a full       *)
(* socket buffer (EAGAIN) fails as well, and every failure is final.       *)
TunnelSendFails(s) ==
  /\ "sendError" \in Env
  /\ SendLoop
  /\ LET f == Head(mem.mForwardQueue)
         v == [mem EXCEPT !.mForwardQueue =
                 <<[f EXCEPT !.off = @ + s, !.len = @ - s]>> \o Tail(@)]
     IN  /\ s < f.len
         /\ Leave(onTunnelDisconnected(destroyTunnel(v)))
         /\ remote' = [remote EXCEPT !.got = Extend(@, f.off, s)]
  /\ reactor' = "poll"
  /\ UNCHANGED <<tunIn, app>>

-----------------------------------------------------------------------------
Kernel ==
  \/ AppConnect
  \/ \E n \in 1 .. AppBytes : AppSend(n)
  \/ \E n \in 0 .. AppBytes : AppClose(n)
  \/ AppReset
  \/ \E w \in Windows : AppWindow(w)
  \/ AppRetransmit
  \/ TunDrop

Tun ==
  \/ RouterReadTun
  \/ RouterSkipAborted
  \/ RouterWriteTun
  \/ RouterWriteFails

Tunnel ==
  \/ \E k \in 1 .. MaxRead : TunnelReadable(k)
  \/ TunnelEof
  \/ TunnelFails
  \/ TunnelException
  \/ TunnelWritableEmpty
  \/ TunnelSend
  \/ \E s \in 0 .. AppBytes : TunnelSendFails(s)

Next == Kernel \/ Tun \/ Tunnel \/ CleanDeadSessions \/ Tick

Spec == Init /\ [][Next]_vars

(* Weak fairness, with each handler's event in place of ENABLED: while a   *)
(* handler's event stays ready, and datagrams can be allocated, it runs.   *)
(* The reactor's epoll is level-triggered and serves every ready event of  *)
(* a round.                                                                *)
Ready == Polling /\ HasFree(mem)

ReactorFairness ==
  /\ <>[](Ready /\ tunIn # <<>>) => []<><<RouterReadTun>>_vars
  /\ <>[]TunLoop => []<><<RouterSkipAborted \/ RouterWriteTun>>_vars
  /\ <>[](Ready /\ mem.rd) =>
        []<><<TunnelEof \/ \E k \in 1 .. MaxRead : TunnelReadable(k)>>_vars
  /\ <>[](mem.wr /\ reactor # "tun write") =>
        []<><<TunnelWritableEmpty \/ TunnelSend>>_vars

(* The app connects, and the kernel's retransmission timer runs.           *)
KernelFairness ==
  /\ WF_vars(AppConnect)
  /\ WF_vars(AppRetransmit)

FairSpec == Spec /\ ReactorFairness /\ KernelFairness

-----------------------------------------------------------------------------
(* Properties: memory                                                      *)

(* A datagram is shared by mBackQueue and Router::mData without a count of *)
(* its references: the flags set by safeReleaseSegment, onSyncEvent and    *)
(* onWritable alone decide who deletes it.  Neither queue ever points to   *)
(* deleted memory, and no datagram stands twice in a queue.                *)
NoDangling ==
  /\ \A c \in Held(mem) \cup Queued(mem) : mem.heap[c].live
  /\ Injective(mem.mBackQueue)
  /\ Injective(mem.mData)

(* Every live datagram is still pointed to, and one that only the Router   *)
(* points to is deleted when the Router is done with it.                   *)
NoLeak ==
  \A c \in Cells :
     mem.heap[c].live => /\ c \in Held(mem) \cup Queued(mem)
                         /\ c \notin Held(mem) => mem.heap[c].release

(* isBuffering is exact, and what the session gave up it does not point to:*)
(* safeReleaseSegment and flushBackQueue rely on both.                     *)
FlagsExact ==
  \A c \in Cells :
     /\ mem.heap[c].buffering <=> c \in Queued(mem)
     /\ mem.heap[c].abort \/ mem.heap[c].release => c \notin Held(mem)

-----------------------------------------------------------------------------
(* Properties: the stream to the app                                       *)

(* The app receives the remote's bytes, each once and in its place, and a  *)
(* FIN only after every byte the tunnel read: retransmissions of the front *)
(* datagram, its number and the FIN's place in the back queue agree.       *)
DownstreamIntact ==
  /\ app.got.ok
  /\ app.got.n <= remote.read
  /\ app.eof => app.got.n = remote.read

Advance(d) == IF d.flag \in {"SYN", "FIN"} THEN 1 ELSE d.len

(* The back queue is numbered without a gap from at most the left edge to  *)
(* mLocalSeq, so flushBackQueue's "disorder" reset never happens.          *)
BackQueueNumbered ==
  mem.exists = "yes" /\ mem.mState # "CLOSED" =>
    LET q == mem.mBackQueue
    IN  /\ \A i \in DOMAIN q :
              mem.heap[q[i]].seq + Advance(mem.heap[q[i]])
                = IF i = Len(q) THEN mem.mLocalSeq ELSE mem.heap[q[i + 1]].seq
        /\ q = <<>> => mem.mLocalNext = mem.mLocalSeq
        /\ q # <<>> => mem.heap[q[1]].seq <= mem.mLocalNext

(* Reading is paused for the sake of the buffer only: in ESTABLISHED, with *)
(* the tunnel up, at least half of the buffer is in use.                   *)
PausedWhenFull ==
  mem.socket /\ ~mem.rd /\ mem.mState = "ESTABLISHED" =>
    BackQueueDataSize(mem) >= SessionBuffer \div 2

(* A remote that sends and closes while the app only listens: the app gets *)
(* to the end of the stream (or the connection is reset).  Stop-and-wait   *)
(* in flushBackQueue, the pauses of reading and the FIN's wait for an      *)
(* empty queue never leave everyone waiting for everyone.                  *)
DownloadCompletes ==
  [](app.sent = 0 /\ ~app.fin) => <>(app.eof \/ app.st = "done")

-----------------------------------------------------------------------------
(* Properties: the stream to the remote                                    *)

(* Where the bytes the session holds for the remote end.                   *)
ForwardEnd ==
  LET q == mem.mForwardQueue
  IN  IF q = <<>> THEN remote.got.n ELSE q[Len(q)].off + q[Len(q)].len

(* The remote gets the app's bytes, each once and in its place, and while  *)
(* the tunnel is up every byte acknowledged to the app has reached it or   *)
(* waits in mForwardQueue: mRemoteNext, which every datagram acknowledges, *)
(* never runs ahead of what was queued, and enqueueIfNeed queues no byte   *)
(* twice and none behind a gap.                                            *)
UpstreamIntact ==
  /\ remote.got.ok
  /\ remote.got.n <= app.sent
  /\ mem.socket => Min2(app.una - 1, app.sent) <= ForwardEnd

(* What the app sends reaches the remote unless the tunnel goes down:      *)
(* enqueueIfNeed asks for a WRITE event whenever onTunnelWritable may have *)
(* paused it, and what accept ignores comes again.                         *)
UploadForwarded ==
  app.sent > remote.got.n ~> (app.sent = remote.got.n \/ ~mem.socket)

-----------------------------------------------------------------------------
(* Properties: the life of a session                                       *)

(* A closed session has no tunnel left to call it back, and nothing brings *)
(* it back to life.                                                        *)
ClosedForGood ==
  [][mem.mState = "CLOSED" =>
       /\ ~mem.socket /\ ~mem.rd /\ ~mem.wr
       /\ mem'.mState = "CLOSED" /\ ~mem'.mAlive]_vars

-----------------------------------------------------------------------------
(* What the session promises, as two pipes                                 *)

(* From the remote to the app: written as the tunnel reads, closed when    *)
(* the session learns that the remote finished.                            *)
Down == INSTANCE Pipe WITH
  written   <- remote.read,
  delivered <- app.got.n,
  closed    <- mem.mRemoteFinished,
  finished  <- app.eof,
  broken    <- app.st = "done"

(* The session implements the pipe to the app.                             *)
DownIsPipe == Down!PipeSpec

(* From the app to the remote.  The session has no way to announce the end *)
(* of the app's stream to the remote (it never shuts the socket's writing  *)
(* side down), so this pipe closes and never finishes; it breaks with the  *)
(* tunnel.                                                                 *)
Up == INSTANCE Pipe WITH
  written   <- app.sent,
  delivered <- remote.got.n,
  closed    <- app.fin,
  finished  <- FALSE,
  broken    <- mem.exists # "never" /\ ~mem.socket

(* The session implements the pipe to the remote.                          *)
UpIsPipe == Up!PipeSpec
=============================================================================
