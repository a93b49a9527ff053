-------------------------- MODULE TCPSessionProofs --------------------------
(* The memory of a session stays well typed and safe and the stream to the *)
(* app intact, whatever the app's kernel, the tun device, the tunnel and   *)
(* time do, for every number of datagrams and bytes, every window and      *)
(* every choice of Env; the stream to the remote for every choice that     *)
(* leaves out the three events that break it.                              *)
EXTENDS TCPSession, TCPHandlersProofs

(* NoDangling, NoLeak and FlagsExact hold together or not at all: who      *)
(* deletes a datagram depends on the flags, and whether the flags are      *)
(* right on who deletes it.                                                *)
Inv ==
  /\ TypeOK
  /\ app.st = "open" => app.una >= 1
  /\ ~mem.full
  /\ Agreed(mem, {})

LEMMA InvIsGood ==
  ASSUME Inv PROVE Good(mem) /\ mem \in MemoryType
BY DEF Inv, TypeOK, Good, GoodWith

(* What a handler leaves is as good as what it found.                      *)
LEMMA LeaveGood ==
  ASSUME NEW v, Good(v), Leave(v)
  PROVE  mem' \in MemoryType /\ ~mem'.full /\ Agreed(mem', {})
BY DEF Leave, Good, GoodWith

(* The part of Inv that is not about the memory.                           *)
Outside ==
  /\ reactor \in {"poll", "tun write", "tunnel write"}
  /\ tunIn \in Seq(PacketType)
  /\ app \in AppType /\ (app.st = "open" => app.una >= 1)
  /\ remote \in RemoteType

LEMMA InvSplit ==
  Inv <=> Outside /\ mem \in MemoryType /\ ~mem.full /\ Agreed(mem, {})
BY DEF Inv, TypeOK, Outside

LEMMA InitInv ==
  ASSUME Init PROVE Inv
<1>1. mem \in MemoryType
  <2>1. [c \in Cells |-> Free] \in [Cells -> DatagramType]
    BY FreeType
  <2>2. "LISTEN" \in States /\ <<>> \in Seq(Cells) /\ <<>> \in Seq(ForwardType)
    BY DEF States
  <2> QED BY <2>1, <2>2 DEF Init, InitMemory, MemoryType
<1>2. ~mem.full /\ Agreed(mem, {})
  <2>1. /\ mem.mBackQueue = <<>> /\ mem.mData = <<>> /\ ~mem.full /\ ~mem.tunWrite
        /\ \A c \in Cells : mem.heap[c] = Free
    BY DEF Init, InitMemory
  <2>2. Held(mem) = {} /\ Queued(mem) = {}
    BY <2>1 DEF Held, Queued, CellsOf
  <2> QED BY <2>1, <2>2, FreeType DEF Agreed, Injective
<1>3. Outside
  <2>1. tunIn \in Seq(PacketType) /\ reactor \in {"poll", "tun write", "tunnel write"}
    BY DEF Init
  <2>0. Empty \in StreamType /\ Windows \subseteq Nat /\ 0 .. RemoteBytes \subseteq Nat
    BY SessionAssumption DEF Empty, StreamType
  <2>2. app \in AppType /\ app.st # "open"
    <3>1. PICK w \in Windows :
             app = [st |-> "idle", sent |-> 0, una |-> 0, fin |-> FALSE, next |-> 0,
                    got |-> Empty, eof |-> FALSE, win |-> w]
      BY DEF Init
    <3> QED BY <2>0, <3>1 DEF AppType
  <2>3. remote \in RemoteType
    BY <2>0 DEF Init, RemoteType
  <2> QED BY <2>1, <2>2, <2>3 DEF Outside
<1> QED BY <1>1, <1>2, <1>3, InvSplit

-----------------------------------------------------------------------------
(* The environment                                                         *)

LEMMA PacketIsPacket ==
  ASSUME NEW a \in AppType, NEW flag \in Flags,
         NEW seq \in Nat, NEW off \in Nat, NEW len \in Nat
  PROVE  Packet(a, flag, seq, off, len) \in PacketType
<1>1. a.next \in Nat /\ a.win \in Nat
  BY DEF AppType
<1>2. NoSack \in [from : Nat, to : Nat] /\ (flag = "SYN") \in BOOLEAN
  BY DEF NoSack
<1> QED BY <1>1, <1>2 DEF Packet, PacketType

LEMMA SndNxtNat ==
  ASSUME NEW a \in AppType PROVE SndNxt(a) \in Nat
BY DEF SndNxt, AppType

LEMMA ReceivedType ==
  ASSUME NEW a \in AppType, NEW d \in DatagramType
  PROVE  /\ Received(a, d) \in AppType
         /\ Answers(a, d) \in Seq(PacketType)
         /\ (a.st = "open" => a.una >= 1) =>
               (Received(a, d).st = "open" => Received(a, d).una >= 1)
<1>1. /\ Acked(a, d) \in AppType /\ Acked(a, d).st = a.st
      /\ a.una >= 1 => Acked(a, d).una >= 1
  BY DEF Acked, AppType, DatagramType
<1>2. ASSUME NEW s \in StreamType PROVE Extend(s, d.off, d.len) \in StreamType
  BY DEF Extend, StreamType, DatagramType
<1>3. /\ Received(a, d) \in AppType
      /\ (a.st = "open" => a.una >= 1) =>
            (Received(a, d).st = "open" => Received(a, d).una >= 1)
  <2> DEFINE b == Acked(a, d)
             e == [b EXCEPT !.next = @ + (IF d.flag = "FIN" THEN 1 ELSE d.len),
                            !.eof = d.flag = "FIN",
                            !.got = Extend(@, d.off, d.len)]
  <2>1. Received(a, d) \in {[a EXCEPT !.st = "done"],
                            [a EXCEPT !.st = "open", !.next = 1, !.una = 1], a, b, e}
    BY DEF Received
  <2> DEFINE f == [a EXCEPT !.st = "done"]
             g == [a EXCEPT !.st = "open", !.next = 1, !.una = 1]
  <2>2. f \in AppType /\ f.st # "open"
    BY DEF AppType
  <2>3. g \in AppType /\ g.una >= 1
    <3>1. g \in AppType
      BY DEF AppType
    <3>2. g.una = 1
      BY DEF AppType
    <3> QED BY <3>1, <3>2
  <2>4. e \in AppType /\ e.st = b.st /\ e.una = b.una
    <3>1. b.got \in StreamType /\ b.next \in Nat /\ d.len \in Nat
      BY <1>1 DEF AppType, DatagramType
    <3>2. /\ Extend(b.got, d.off, d.len) \in StreamType
          /\ b.next + (IF d.flag = "FIN" THEN 1 ELSE d.len) \in Nat
          /\ (d.flag = "FIN") \in BOOLEAN
      BY <1>2, <3>1
    <3> HIDE DEF b
    <3> QED BY <1>1, <3>2 DEF AppType, b
  <2> HIDE DEF b, e, f, g
  <2>5. Received(a, d) \in {f, g, a, b, e}
    BY <2>1 DEF f, g
  <2>6. b \in AppType /\ b.st = a.st /\ (a.una >= 1 => b.una >= 1)
    BY <1>1 DEF b
  <2> QED BY <2>2, <2>3, <2>4, <2>5, <2>6
<1>4. ASSUME NEW r \in AppType PROVE BareAck(r) \in PacketType
  <2>1. "ACK" \in Flags
    BY DEF Flags
  <2> QED BY <2>1, PacketIsPacket, SndNxtNat DEF BareAck
<1>5. ASSUME NEW p \in PacketType
      PROVE  [p EXCEPT !.sack = [from |-> d.seq, to |-> d.seq + d.len]] \in PacketType
  BY DEF PacketType, DatagramType
<1>6. Answers(a, d) \in Seq(PacketType)
  <2> DEFINE p == BareAck(Received(a, d))
             s == [p EXCEPT !.sack = [from |-> d.seq, to |-> d.seq + d.len]]
  <2>1. p \in PacketType /\ s \in PacketType
    BY <1>3, <1>4, <1>5
  <2>2. Answers(a, d) \in {<<>>, <<p>>, <<s>>}
    BY DEF Answers
  <2> HIDE DEF p, s
  <2>3. <<>> \in Seq(PacketType) /\ <<p>> \in Seq(PacketType) /\ <<s>> \in Seq(PacketType)
    BY <2>1
  <2> QED BY <2>2, <2>3, Zenon
<1> QED BY <1>3, <1>6

(* Emit keeps the types when the packet and the app's state are typed.     *)
LEMMA EmitInv ==
  ASSUME Inv, NEW a \in AppType, NEW p \in PacketType, Emit(a, p),
         a.st = "open" => a.una >= 1
  PROVE  Inv'
<1>1. /\ tunIn' \in Seq(PacketType) /\ app' \in AppType
      /\ app'.st = "open" => app'.una >= 1
      /\ mem' = mem /\ reactor' = reactor /\ remote' = remote
  <2>1. tunIn \in Seq(PacketType)
    BY DEF Inv, TypeOK
  <2>2. Append(tunIn, p) \in Seq(PacketType)
    BY <2>1, AppendProperties
  <2> QED BY <2>2 DEF Emit
<1>2. Outside'
  BY <1>1 DEF Outside, Inv, TypeOK
<1>3. mem' \in MemoryType /\ ~mem'.full /\ Agreed(mem, {})'
  BY <1>1 DEF Inv, TypeOK, Agreed, Held, Queued
<1> QED BY <1>2, <1>3, InvSplit DEF Inv, TypeOK, Outside

LEMMA AppInv ==
  ASSUME Inv, Kernel PROVE Inv'
<1>0. /\ app \in AppType /\ tunIn \in Seq(PacketType) /\ SndNxt(app) \in Nat
      /\ app.sent \in Nat /\ app.una \in Nat
      /\ app.st = "open" => app.una >= 1
  BY SndNxtNat DEF Inv, TypeOK, AppType
<1>f. "ACK" \in Flags /\ "SYN" \in Flags /\ "FIN" \in Flags /\ "RST" \in Flags
  BY DEF Flags
<1>1. CASE AppConnect
  <2>1. [app EXCEPT !.st = "syn"] \in AppType /\ [app EXCEPT !.st = "syn"].st = "syn"
    BY <1>0 DEF AppType
  <2>2. Packet(app, "SYN", 0, 0, 0) \in PacketType
    BY <1>0, <1>f, PacketIsPacket
  <2> QED BY <1>1, <2>1, <2>2, EmitInv DEF AppConnect
<1>2. ASSUME NEW n \in 1 .. AppBytes, AppSend(n) PROVE Inv'
  <2>0. n \in Nat /\ 1 + app.sent \in Nat /\ app.sent + n \in Nat
    BY <1>0, SessionAssumption
  <2> DEFINE a == [app EXCEPT !.sent = @ + n]
  <2>1. a \in AppType /\ a.st = app.st /\ a.una = app.una
    BY <1>0, <2>0 DEF AppType
  <2>2. Packet(app, "ACK", 1 + app.sent, app.sent, n) \in PacketType
    BY <1>0, <1>f, <2>0, PacketIsPacket
  <2> QED BY <1>0, <1>2, <2>1, <2>2, EmitInv DEF AppSend
<1>3. ASSUME NEW n \in 0 .. AppBytes, AppClose(n) PROVE Inv'
  <2>0. n \in Nat /\ 1 + app.sent \in Nat /\ app.sent + n \in Nat
    BY <1>0, SessionAssumption
  <2> DEFINE a == [app EXCEPT !.sent = @ + n, !.fin = TRUE]
  <2>1. a \in AppType /\ a.st = app.st /\ a.una = app.una
    BY <1>0, <2>0 DEF AppType
  <2>2. Packet(app, "FIN", 1 + app.sent, app.sent, n) \in PacketType
    BY <1>0, <1>f, <2>0, PacketIsPacket
  <2> QED BY <1>0, <1>3, <2>1, <2>2, EmitInv DEF AppClose
<1>4. CASE AppReset
  <2>1. [app EXCEPT !.st = "done"] \in AppType /\ [app EXCEPT !.st = "done"].st = "done"
    BY <1>0 DEF AppType
  <2>2. Packet(app, "RST", SndNxt(app), 0, 0) \in PacketType
    BY <1>0, <1>f, PacketIsPacket
  <2> QED BY <1>4, <2>1, <2>2, EmitInv DEF AppReset
<1>5. ASSUME NEW w \in Windows, AppWindow(w) PROVE Inv'
  <2> DEFINE a == [app EXCEPT !.win = w]
  <2>1. a \in AppType /\ a.st = app.st /\ a.una = app.una
    BY <1>0, SessionAssumption DEF AppType
  <2>2. Emit(a, BareAck(a))
    BY <1>5 DEF AppWindow
  <2> HIDE DEF a
  <2>3. BareAck(a) \in PacketType
    BY <1>f, <2>1, PacketIsPacket, SndNxtNat DEF BareAck
  <2> QED BY <1>0, <2>1, <2>2, <2>3, EmitInv
<1>6. CASE AppRetransmit
  <2>1. Unacked(app) \in PacketType
    <3>1. CASE app.st = "syn"
      BY <1>0, <1>f, <3>1, PacketIsPacket DEF Unacked
    <3>2. CASE app.st # "syn" /\ app.una <= app.sent /\ app.una >= 1
      <4>1. app.una - 1 \in Nat /\ app.sent - (app.una - 1) \in Nat
        BY <1>0, <3>2
      <4>2. Unacked(app) = Packet(app, "ACK", app.una, app.una - 1,
                                  app.sent - (app.una - 1))
        BY <3>2 DEF Unacked
      <4> QED BY <1>0, <1>f, <4>1, <4>2, PacketIsPacket
    <3>3. CASE app.st # "syn" /\ ~(app.una <= app.sent)
      BY <1>0, <1>f, <3>3, PacketIsPacket DEF Unacked
    <3>4. app.st # "syn" => app.una >= 1
      BY <1>0, <1>6 DEF AppRetransmit
    <3> QED BY <3>1, <3>2, <3>3, <3>4
  <2> QED BY <1>0, <1>6, <2>1, EmitInv DEF AppRetransmit
<1>7. CASE TunDrop
  <2>1. Tail(tunIn) \in Seq(PacketType)
    BY <1>0, <1>7, HeadTailProperties DEF TunDrop
  <2>2. Outside'
    BY <1>7, <2>1 DEF TunDrop, Outside, Inv, TypeOK
  <2>3. mem' \in MemoryType /\ ~mem'.full /\ Agreed(mem, {})'
    BY <1>7 DEF TunDrop, Inv, TypeOK, Agreed, Held, Queued
  <2> QED BY <2>2, <2>3 DEF Inv, TypeOK, Outside
<1> QED BY <1>1, <1>2, <1>3, <1>4, <1>5, <1>6, <1>7 DEF Kernel

-----------------------------------------------------------------------------
(* The reactor thread                                                      *)

(* A step that runs a handler on the memory, with what it does elsewhere.  *)
LEMMA HandlerInv ==
  ASSUME Inv, NEW v, Good(v), Leave(v),
         reactor' \in {"poll", "tun write", "tunnel write"},
         tunIn' \in Seq(PacketType), app' = app, remote' \in RemoteType
  PROVE  Inv'
<1>1. mem' \in MemoryType /\ ~mem'.full /\ Agreed(mem', {})
  BY LeaveGood
<1>2. Agreed(mem, {})'
  BY <1>1 DEF Agreed, Held, Queued
<1> QED BY <1>1, <1>2 DEF Inv, TypeOK

(* RouterUnqueue with the end of an iteration of onWritable.               *)
LEMMA AfterWriteInv ==
  ASSUME Inv, TunLoop, AfterWrite(RouterUnqueue(mem)),
         tunIn' \in Seq(PacketType), app' \in AppType,
         app'.st = "open" => app'.una >= 1, remote' = remote
  PROVE  Inv'
<1>1. mem \in MemoryType /\ ~mem.full /\ Agreed(mem, {}) /\ mem.mData # <<>>
  BY DEF Inv, TypeOK, TunLoop, Agreed
<1>2. mem' = [RouterUnqueue(mem) EXCEPT !.tunWrite = RouterUnqueue(mem).mData # <<>>]
  BY DEF AfterWrite
<1>3. mem' \in MemoryType /\ mem'.full = mem.full /\ Agreed(mem', {})
  BY <1>1, <1>2, RouterUnqueueGood
<1>4. Agreed(mem, {})'
  BY <1>3 DEF Agreed, Held, Queued
<1>5. reactor' \in {"poll", "tun write", "tunnel write"}
  BY DEF AfterWrite
<1> QED BY <1>1, <1>3, <1>4, <1>5 DEF Inv, TypeOK

LEMMA TunInv ==
  ASSUME Inv, Tun PROVE Inv'
<1>0. /\ Good(mem) /\ mem \in MemoryType /\ tunIn \in Seq(PacketType)
      /\ app \in AppType /\ (app.st = "open" => app.una >= 1)
      /\ remote \in RemoteType /\ ~mem.full
      /\ reactor \in {"poll", "tun write", "tunnel write"}
  BY InvIsGood DEF Inv, TypeOK
<1>1. CASE RouterReadTun
  <2>1. Head(tunIn) \in PacketType /\ Tail(tunIn) \in Seq(PacketType)
    BY <1>0, <1>1, HeadTailProperties DEF RouterReadTun
  <2>2. /\ Good(accept(mem, Head(tunIn)))
        /\ Good(accept(buildSession(mem), Head(tunIn)))
    BY <1>0, <2>1, acceptGood, buildSessionGood
  <2>3. \E v : Good(v) /\ Leave(v)
    BY <1>0, <1>1, <2>2 DEF RouterReadTun, Leave
  <2>4. tunIn' \in Seq(PacketType) /\ UNCHANGED <<reactor, app, remote>>
    BY <1>1, <2>1 DEF RouterReadTun
  <2> QED BY <1>0, <2>3, <2>4, HandlerInv
<1>2. CASE RouterSkipAborted
  BY <1>0, <1>2, AfterWriteInv DEF RouterSkipAborted
<1>3. CASE RouterWriteTun
  <2> DEFINE d == mem.heap[Head(mem.mData)]
  <2>1. d \in DatagramType
    <3>1. mem.mData # <<>> /\ mem.mData \in Seq(Cells)
      BY <1>0, <1>3, Fields DEF RouterWriteTun, TunLoop, Inv, Agreed
    <3>2. Head(mem.mData) \in Cells
      BY <3>1, CellsTail
    <3> QED BY <1>0, <3>2, Fields
  <2>2. app' = Received(app, d) /\ tunIn' = tunIn \o Answers(app, d)
    BY <1>3 DEF RouterWriteTun
  <2> HIDE DEF d
  <2>3. /\ app' \in AppType /\ (app'.st = "open" => app'.una >= 1)
        /\ Answers(app, d) \in Seq(PacketType)
    BY <1>0, <2>1, <2>2, ReceivedType
  <2>4. tunIn' \in Seq(PacketType)
    BY <1>0, <2>2, <2>3, ConcatProperties
  <2> QED BY <1>3, <2>3, <2>4, AfterWriteInv DEF RouterWriteTun
<1>4. CASE RouterWriteFails
  <2> DEFINE w == [mem EXCEPT !.tunWrite = FALSE]
  <2>1. /\ w \in MemoryType /\ w.mBackQueue = mem.mBackQueue /\ w.mData = mem.mData
        /\ w.heap = mem.heap /\ w.full = mem.full /\ ~w.tunWrite
    BY <1>0 DEF MemoryType
  <2>2. mem' = w /\ reactor' = "poll" /\ UNCHANGED <<tunIn, app, remote>>
    BY <1>4 DEF RouterWriteFails
  <2> HIDE DEF w
  <2>3. Good(w)
    BY <1>0, <2>1 DEF Good, GoodWith, Agreed, Held, Queued
  <2>4. Leave(w)
    BY <1>0, <2>1, <2>2 DEF Leave
  <2> QED BY <1>0, <2>2, <2>3, <2>4, HandlerInv
<1> QED BY <1>1, <1>2, <1>3, <1>4 DEF Tun

LEMMA TunnelInv ==
  ASSUME Inv, Tunnel PROVE Inv'
<1>0. /\ Good(mem) /\ mem \in MemoryType /\ tunIn \in Seq(PacketType)
      /\ app \in AppType /\ remote \in RemoteType /\ ~mem.full
      /\ reactor \in {"poll", "tun write", "tunnel write"}
      /\ mem.mForwardQueue \in Seq(ForwardType)
  BY InvIsGood, Fields DEF Inv, TypeOK
<1>r. /\ remote.read \in Nat /\ remote.got \in StreamType
      /\ \A n \in Nat : [remote EXCEPT !.read = n] \in RemoteType
      /\ \A s \in StreamType : [remote EXCEPT !.got = s] \in RemoteType
  BY <1>0 DEF RemoteType
<1>e. \A off, len \in Nat : Extend(remote.got, off, len) \in StreamType
  BY <1>r DEF Extend, StreamType
<1>d. Good(onTunnelDisconnected(destroyTunnel(mem)))
  BY <1>0, destroyTunnelGood, onTunnelDisconnectedGood
<1>1. ASSUME NEW k \in 1 .. MaxRead, TunnelReadable(k) PROVE Inv'
  <2>1. k \in Nat /\ remote.read + k \in Nat
    BY <1>r, SessionAssumption
  <2>2. Good(onTunnelDataBack(mem, remote.read, k))
    BY <1>0, <1>r, <2>1, onTunnelDataBackGood
  <2>3. remote' \in RemoteType
    BY <1>1, <1>r, <2>1 DEF TunnelReadable
  <2> QED BY <1>0, <1>1, <2>2, <2>3, HandlerInv DEF TunnelReadable
<1>2. CASE TunnelEof
  BY <1>0, <1>d, <1>2, HandlerInv DEF TunnelEof
<1>3. CASE TunnelFails
  BY <1>0, <1>d, <1>3, HandlerInv DEF TunnelFails
<1>4. CASE TunnelException
  <2>1. Good(destroyTunnel(onTunnelDisconnected(mem)))
    BY <1>0, destroyTunnelGood, onTunnelDisconnectedGood
  <2> QED BY <1>0, <1>4, <2>1, HandlerInv DEF TunnelException
<1>5. CASE TunnelWritableEmpty
  <2> DEFINE w == pauseSendData(mem)
  <2>1. Good(w) /\ ~w.full
    <3>1. w.full = mem.full
      BY <1>0 DEF pauseSendData, MemoryType
    <3> QED BY <1>0, <3>1, TunnelEventsGood
  <2>2. Leave(w)
    BY <1>5, <2>1 DEF TunnelWritableEmpty, Leave
  <2> HIDE DEF w
  <2> QED BY <1>0, <1>5, <2>1, <2>2, HandlerInv DEF TunnelWritableEmpty
<1>q. ASSUME SendLoop
      PROVE  /\ Head(mem.mForwardQueue) \in ForwardType
             /\ Tail(mem.mForwardQueue) \in Seq(ForwardType)
  BY <1>0, <1>q, HeadTailProperties DEF SendLoop
<1>w. ASSUME NEW q \in Seq(ForwardType), NEW w, w = [mem EXCEPT !.mForwardQueue = q]
      PROVE  Good(w) /\ ~w.full
  <2>1. w \in MemoryType /\ SameQueues(mem, w)
    BY <1>0, <1>w DEF MemoryType, SameQueues
  <2> QED BY <1>0, <2>1, SameQueuesGood DEF SameQueues
<1>6. CASE TunnelSend
  <2> DEFINE f == Head(mem.mForwardQueue)
             q == Tail(mem.mForwardQueue)
             w == [mem EXCEPT !.mForwardQueue = q]
  <2>1. f \in ForwardType /\ q \in Seq(ForwardType)
    BY <1>6, <1>q DEF TunnelSend
  <2>2. /\ mem' = w
        /\ remote' = [remote EXCEPT !.got = Extend(remote.got, f.off, f.len)]
        /\ reactor' \in {"poll", "tunnel write"}
        /\ UNCHANGED <<tunIn, app>>
    BY <1>6 DEF TunnelSend
  <2> HIDE DEF f, q
  <2>3. Good(w) /\ ~w.full
    BY <1>w, <2>1
  <2>4. remote' \in RemoteType
    BY <1>e, <1>r, <2>1, <2>2 DEF ForwardType
  <2> HIDE DEF w
  <2>5. Leave(w)
    BY <2>2, <2>3 DEF Leave
  <2> QED BY <1>0, <2>2, <2>3, <2>4, <2>5, HandlerInv
<1>7. ASSUME NEW s \in 0 .. AppBytes, TunnelSendFails(s) PROVE Inv'
  <2> DEFINE f == Head(mem.mForwardQueue)
             g == [f EXCEPT !.off = f.off + s, !.len = f.len - s]
             q == <<g>> \o Tail(mem.mForwardQueue)
             w == [mem EXCEPT !.mForwardQueue = q]
             x == onTunnelDisconnected(destroyTunnel(w))
  <2>1. f \in ForwardType /\ Tail(mem.mForwardQueue) \in Seq(ForwardType)
    BY <1>7, <1>q DEF TunnelSendFails
  <2>2. /\ s < f.len /\ Leave(x)
        /\ remote' = [remote EXCEPT !.got = Extend(remote.got, f.off, s)]
        /\ reactor' = "poll" /\ UNCHANGED <<tunIn, app>>
    BY <1>7 DEF TunnelSendFails
  <2>3. s \in Nat
    BY SessionAssumption
  <2> HIDE DEF f
  <2>4. f.off + s \in Nat /\ f.len - s \in Nat /\ f.off \in Nat
    <3>1. f.off \in Nat /\ f.len \in Nat
      BY <2>1 DEF ForwardType
    <3>2. s < f.len
      BY <2>2
    <3> QED BY <2>3, <3>1, <3>2
  <2>5. g \in ForwardType
    BY <2>1, <2>4 DEF ForwardType
  <2> HIDE DEF g
  <2>6. <<g>> \in Seq(ForwardType)
    BY <2>5
  <2>7. q \in Seq(ForwardType)
    BY <2>1, <2>6, ConcatProperties
  <2> HIDE DEF q
  <2>8. Good(w)
    BY <1>w, <2>7
  <2> HIDE DEF w
  <2>9. Good(x)
    BY <2>8, destroyTunnelGood, onTunnelDisconnectedGood
  <2>10. remote' \in RemoteType
    BY <1>e, <1>r, <2>2, <2>3, <2>4
  <2> HIDE DEF x
  <2> QED BY <1>0, <2>2, <2>9, <2>10, HandlerInv
<1> QED BY <1>1, <1>2, <1>3, <1>4, <1>5, <1>6, <1>7 DEF Tunnel

LEMMA NextInv ==
  ASSUME Inv, [Next]_vars PROVE Inv'
<1>0. /\ Good(mem) /\ mem \in MemoryType /\ tunIn \in Seq(PacketType)
      /\ app \in AppType /\ remote \in RemoteType /\ ~mem.full
      /\ reactor \in {"poll", "tun write", "tunnel write"}
  BY InvIsGood DEF Inv, TypeOK
<1>1. CASE CleanDeadSessions
  <2>1. Good(releaseSession(mem)) /\ ~releaseSession(mem).full
    BY <1>0, releaseSessionGood
  <2>2. Leave(releaseSession(mem))
    BY <1>1, <2>1 DEF CleanDeadSessions, Leave
  <2> QED BY <1>0, <1>1, <2>1, <2>2, HandlerInv DEF CleanDeadSessions
<1>2. CASE Tick
  <2> DEFINE w == [mem EXCEPT !.idle = mem.idle + 1]
  <2>1. mem' = w /\ UNCHANGED <<reactor, tunIn, app, remote>> /\ mem.idle < 2
    BY <1>2 DEF Tick
  <2>2. mem.idle \in 0 .. 2
    BY <1>0 DEF MemoryType
  <2>3. mem.idle + 1 \in 0 .. 2
    BY <2>1, <2>2
  <2>4. Good(w)
    BY <1>0, <2>3, IdleGood
  <2>5. w.full = mem.full
    BY <1>0 DEF MemoryType
  <2> HIDE DEF w
  <2>6. Leave(w)
    BY <1>0, <2>1, <2>5 DEF Leave
  <2> QED BY <1>0, <2>1, <2>4, <2>6, HandlerInv
<1>3. CASE UNCHANGED vars
  <2>1. Leave(mem) /\ UNCHANGED <<reactor, tunIn, app, remote>>
    BY <1>0, <1>3 DEF vars, Leave
  <2> QED BY <1>0, <2>1, HandlerInv
<1> QED BY <1>1, <1>2, <1>3, AppInv, TunInv, TunnelInv DEF Next

-----------------------------------------------------------------------------
(* Every reachable state is well typed, Inv with it: no function of        *)
(* TCPSession leaves a field, a datagram or a queue out of its range.      *)
THEOREM TypeCorrect == Spec => []TypeOK
<1>1. Init => Inv
  BY InitInv
<1>2. Inv /\ [Next]_vars => Inv'
  BY NextInv
<1>3. Inv => TypeOK
  BY DEF Inv
<1> QED BY <1>1, <1>2, <1>3, PTL DEF Spec

(* Neither mBackQueue nor Router::mData ever points to a deleted datagram, *)
(* whatever flags safeReleaseSegment, onSyncEvent and onWritable find.     *)
THEOREM NothingDangles == Spec => []NoDangling
<1>1. Init => Inv
  BY InitInv
<1>2. Inv /\ [Next]_vars => Inv'
  BY NextInv
<1>3. Inv => NoDangling
  BY DEF Inv, Agreed, NoDangling
<1> QED BY <1>1, <1>2, <1>3, PTL DEF Spec

(* Every datagram a session allocates is deleted once both are done with   *)
(* it, in the order in which they get done: nobody's last reference is     *)
(* dropped without deleting.                                               *)
THEOREM NothingLeaks == Spec => []NoLeak
<1>1. Init => Inv
  BY InitInv
<1>2. Inv /\ [Next]_vars => Inv'
  BY NextInv
<1>3. Inv => NoLeak
  BY DEF Inv, Agreed, NoLeak
<1> QED BY <1>1, <1>2, <1>3, PTL DEF Spec

(* isBuffering says exactly whether the Router points to a datagram, and   *)
(* an aborted or released one is never in the session's queue.             *)
THEOREM FlagsAreExact == Spec => []FlagsExact
<1>1. Init => Inv
  BY InitInv
<1>2. Inv /\ [Next]_vars => Inv'
  BY NextInv
<1>3. Inv => FlagsExact
  BY DEF Inv, Agreed, FlagsExact
<1> QED BY <1>1, <1>2, <1>3, PTL DEF Spec
-----------------------------------------------------------------------------
(* The end of a session                                                    *)

(* A closed session has no tunnel; before it is built and after it is      *)
(* deleted there is none.                                                  *)
EndInv ==
  /\ Inv
  /\ Ended(mem)
  /\ mem.exists = "never" => mem.mState = "LISTEN"
  /\ mem.exists # "yes" => ~mem.socket /\ ~mem.rd /\ ~mem.wr

(* What a step may do to the session once it is closed: only its deletion. *)
StaysClosed ==
  mem.mState = "CLOSED" => mem'.mState = "CLOSED" /\ ~mem'.mAlive

(* What every step leaves, and does.                                       *)
EndKept ==
  /\ Ended(mem') /\ StaysClosed
  /\ mem'.exists = "never" => mem'.mState = "LISTEN"
  /\ mem'.exists # "yes" => ~mem'.socket /\ ~mem'.rd /\ ~mem'.wr

(* A handler that leaves the memory v, run by a session that has not ended.*)
LEMMA HandlerEnd ==
  ASSUME EndInv, NEW v, Lives(mem, v), mem' = v, mem.mState # "CLOSED",
         mem.exists = "yes"
  PROVE  EndKept
BY DEF EndInv, Lives, StaysClosed, EndKept

(* A step that does not touch the session.                                 *)
LEMMA AsideEnd ==
  ASSUME EndInv, SameLife(mem, mem')
  PROVE  EndKept
BY DEF EndInv, SameLife, Ended, StaysClosed, EndKept

LEMMA NextKeepsEnd ==
  ASSUME EndInv, [Next]_vars
  PROVE  EndKept
<1>0. /\ Inv /\ Inv' /\ Good(mem) /\ mem \in MemoryType /\ tunIn \in Seq(PacketType)
      /\ remote \in RemoteType
  <2>1. Inv
    BY DEF EndInv
  <2>2. Inv'
    BY <2>1, NextInv
  <2>3. Good(mem) /\ mem \in MemoryType
    BY <2>1, InvIsGood
  <2>4. TypeOK
    BY <2>1 DEF Inv
  <2>5. tunIn \in Seq(PacketType) /\ remote \in RemoteType
    BY <2>4, Zenon DEF TypeOK
  <2> QED BY <2>1, <2>2, <2>3, <2>5
<1>a. ASSUME NEW v, Lives(mem, v), mem' = v, mem.mState # "CLOSED", mem.exists = "yes"
      PROVE  EndKept
  BY <1>a, HandlerEnd
<1>b. ASSUME SameLife(mem, mem') PROVE EndKept
  BY <1>b, AsideEnd
<1>c. mem' = mem => EndKept
  BY <1>b DEF SameLife
<1>d. mem.socket \/ mem.rd \/ mem.wr => mem.mState # "CLOSED" /\ mem.exists = "yes"
  BY DEF EndInv, Ended
<1>e. Ended(mem) /\ (mem.mState = "CLOSED" => ~mem.mAlive)
  BY DEF EndInv, Ended
<1>f. mem.exists = "never" => mem.mState # "CLOSED"
  BY DEF EndInv
<1>1. CASE Kernel
  <2>1. ASSUME NEW a, NEW p, Emit(a, p) PROVE mem' = mem
    BY <2>1 DEF Emit
  <2>2. TunDrop => mem' = mem
    BY DEF TunDrop
  <2>3. AppConnect \/ AppReset \/ AppRetransmit => mem' = mem
    BY <2>1 DEF AppConnect, AppReset, AppRetransmit
  <2>4. \A n : AppSend(n) \/ AppClose(n) \/ AppWindow(n) => mem' = mem
    BY <2>1 DEF AppSend, AppClose, AppWindow
  <2> QED BY <1>1, <1>c, <2>2, <2>3, <2>4 DEF Kernel
<1>2. CASE RouterReadTun
  <2>1. Head(tunIn) \in PacketType
    BY <1>0, <1>2, HeadTailProperties DEF RouterReadTun
  <2>2. CASE mem.exists = "yes" /\ ~hasClosed(mem) /\ mem' = accept(mem, Head(tunIn))
    <3>1. mem.mState # "CLOSED"
      BY <1>e, <2>2 DEF hasClosed
    <3> QED BY <1>0, <1>a, <2>1, <2>2, <3>1, acceptLives
  <2>3. CASE mem.exists = "never" /\ mem' = accept(buildSession(mem), Head(tunIn))
    <3>1. /\ Good(buildSession(mem)) /\ buildSession(mem).exists = "yes"
          /\ Ended(buildSession(mem))
      BY <1>0, buildSessionGood, buildSessionLives
    <3>2. mem'.exists = "yes" /\ Ended(mem')
      BY <2>1, <2>3, <3>1, acceptLives DEF Lives
    <3> QED BY <1>f, <2>3, <3>2 DEF EndKept, StaysClosed
  <2>4. CASE mem' = mem
    BY <1>c, <2>4
  <2> QED BY <1>2, <2>2, <2>3, <2>4 DEF RouterReadTun, Leave
<1>3. CASE RouterSkipAborted \/ RouterWriteTun \/ RouterWriteFails
  <2> DEFINE w == RouterUnqueue(mem)
             e == w.mData # <<>>
  <2>1. SameLife(mem, w) /\ DOMAIN w = DOMAIN mem
    BY <1>0 DEF RouterUnqueue, MemoryType, SameLife
  <2>2. mem' = [w EXCEPT !.tunWrite = e] \/ mem' = [mem EXCEPT !.tunWrite = FALSE]
    <3>1. RouterSkipAborted \/ RouterWriteTun => mem' = [w EXCEPT !.tunWrite = e]
      BY Zenon DEF RouterSkipAborted, RouterWriteTun, AfterWrite
    <3>2. RouterWriteFails => mem' = [mem EXCEPT !.tunWrite = FALSE]
      BY Zenon DEF RouterWriteFails
    <3> QED BY <1>3, <3>1, <3>2
  <2> HIDE DEF w, e
  <2>3. SameLife(mem, mem')
    BY <1>0, <2>1, <2>2 DEF SameLife, MemoryType
  <2> QED BY <1>b, <2>3
<1>4. ASSUME NEW k \in 1 .. MaxRead, TunnelReadable(k) PROVE EndKept
  <2>1. k \in Nat /\ remote.read \in Nat
    BY <1>0, SessionAssumption DEF RemoteType
  <2>2. Lives(mem, onTunnelDataBack(mem, remote.read, k))
    BY <1>0, <2>1, onTunnelDataBackLives
  <2> QED BY <1>4, <1>a, <1>d, <2>2 DEF TunnelReadable, Leave
<1>5. CASE TunnelEof \/ TunnelFails \/ TunnelException
  <2> DEFINE u == destroyTunnel(mem)
             w == onTunnelDisconnected(mem)
  <2>1. Good(u) /\ Good(w) /\ Lives(mem, u) /\ Lives(mem, w)
    BY <1>0, destroyTunnelGood, onTunnelDisconnectedGood, TunnelEventsLives,
       onTunnelDisconnectedLives
  <2>2. mem' \in {onTunnelDisconnected(u), destroyTunnel(w)}
    BY <1>5 DEF TunnelEof, TunnelFails, TunnelException, Leave
  <2> HIDE DEF u, w
  <2>3. Lives(mem, onTunnelDisconnected(u))
    BY <2>1, onTunnelDisconnectedLives, LivesOn
  <2>4. Lives(mem, destroyTunnel(w))
    BY <2>1, TunnelEventsLives, LivesOn DEF Good, GoodWith
  <2> QED BY <1>5, <1>a, <1>d, <2>2, <2>3, <2>4
          DEF TunnelEof, TunnelFails, TunnelException, Registered
<1>6. CASE TunnelWritableEmpty
  <2>1. Lives(mem, pauseSendData(mem))
    BY <1>0, TunnelEventsLives
  <2> QED BY <1>6, <1>a, <1>d, <2>1 DEF TunnelWritableEmpty
<1>7. CASE TunnelSend
  <2> DEFINE w == [mem EXCEPT !.mForwardQueue = Tail(mem.mForwardQueue)]
  <2>1. mem' = w
    BY <1>7, Zenon DEF TunnelSend
  <2>2. SameLife(mem, w)
    BY <1>0 DEF MemoryType, SameLife
  <2> QED BY <1>b, <2>1, <2>2
<1>8. ASSUME NEW s \in 0 .. AppBytes, TunnelSendFails(s) PROVE EndKept
  <2> DEFINE f == Head(mem.mForwardQueue)
             g == [f EXCEPT !.off = f.off + s, !.len = f.len - s]
             q == <<g>> \o Tail(mem.mForwardQueue)
             w == [mem EXCEPT !.mForwardQueue = q]
             u == destroyTunnel(w)
  <2>1. mem' = onTunnelDisconnected(u) /\ s < f.len /\ mem.wr
        /\ mem.mForwardQueue # <<>>
    BY <1>8, Zenon DEF TunnelSendFails, SendLoop, Leave
  <2>2. q \in Seq(ForwardType)
    <3>1. /\ f \in ForwardType /\ Tail(mem.mForwardQueue) \in Seq(ForwardType)
          /\ s \in Nat
      BY <1>0, <2>1, Fields, HeadTailProperties, SessionAssumption
    <3> HIDE DEF f
    <3>2. f.off + s \in Nat /\ f.len - s \in Nat
      <4>1. f.off \in Nat /\ f.len \in Nat /\ s < f.len
        BY <2>1, <3>1 DEF ForwardType
      <4> QED BY <3>1, <4>1
    <3>3. g \in ForwardType
      BY <3>1, <3>2 DEF ForwardType
    <3> HIDE DEF g
    <3>4. <<g>> \in Seq(ForwardType)
      BY <3>3
    <3> QED BY <3>1, <3>4, ConcatProperties
  <2> HIDE DEF q
  <2>3. w \in MemoryType /\ SameQueues(mem, w) /\ SameLife(mem, w)
    BY <1>0, <2>2 DEF MemoryType, SameQueues, SameLife
  <2> HIDE DEF w
  <2>4. Good(u) /\ Lives(mem, u)
    BY <1>0, <2>3, SameQueuesGood, destroyTunnelGood, TunnelEventsLives, SameLives, LivesOn
  <2> HIDE DEF u
  <2>5. Lives(mem, onTunnelDisconnected(u))
    BY <2>4, onTunnelDisconnectedLives, LivesOn
  <2> QED BY <1>a, <1>d, <2>1, <2>5
<1>9. CASE CleanDeadSessions
  BY <1>0, <1>9, releaseSessionLives DEF CleanDeadSessions, EndKept, StaysClosed, Ended
<1>10. CASE Tick \/ UNCHANGED vars
  <2>1. SameLife(mem, mem')
    BY <1>0, <1>10 DEF Tick, vars, MemoryType, SameLife
  <2> QED BY <1>b, <2>1
<1> QED BY <1>1, <1>2, <1>3, <1>4, <1>5, <1>6, <1>7, <1>8, <1>9, <1>10
        DEF Next, Tun, Tunnel

LEMMA NextEnd ==
  ASSUME EndInv, [Next]_vars
  PROVE  EndInv' /\ StaysClosed
<1>1. Inv'
  BY NextInv DEF EndInv
<1>2. EndKept
  BY NextKeepsEnd
<1>3. Ended(mem)' /\ StaysClosed
  BY <1>2 DEF EndKept, Ended
<1>4. /\ (mem.exists = "never" => mem.mState = "LISTEN")'
      /\ (mem.exists # "yes" => ~mem.socket /\ ~mem.rd /\ ~mem.wr)'
  BY <1>2 DEF EndKept
<1> QED BY <1>1, <1>3, <1>4 DEF EndInv

(* Once CLOSED, a session stays so: its tunnel is gone with both event     *)
(* registrations, so neither a callback nor a packet from the app changes  *)
(* its state again (switchState, close, Router::route).                    *)
THEOREM SessionClosedForGood == Spec => ClosedForGood
<1>1. Init => EndInv
  BY InitInv DEF EndInv, Init, InitMemory, Ended
<1>2. EndInv /\ [Next]_vars => EndInv'
  BY NextEnd
<1>3. EndInv /\ [Next]_vars =>
        [mem.mState = "CLOSED" =>
           /\ ~mem.socket /\ ~mem.rd /\ ~mem.wr
           /\ mem'.mState = "CLOSED" /\ ~mem'.mAlive]_vars
  BY NextEnd DEF EndInv, Ended, StaysClosed
<1> QED BY <1>1, <1>2, <1>3, PTL DEF Spec, ClosedForGood

-----------------------------------------------------------------------------
(* The numbers of the back queue                                           *)

(* The number that stands at place i of the back queue; the place behind   *)
(* the last datagram has the next number to give out.                      *)
Mark(v, i) ==
  IF i <= Len(v.mBackQueue) THEN v.heap[v.mBackQueue[i]].seq ELSE v.mLocalSeq

(* A number that cuts no datagram of the back queue in two.                *)
Between(v, b) ==
  /\ b <= v.mLocalSeq
  /\ \A i \in 1 .. Len(v.mBackQueue) : b <= Mark(v, i) \/ Mark(v, i + 1) <= b

(* The back queue is numbered without a gap, the left edge and every       *)
(* acknowledgement in K, on its way to the session, cut no datagram, and   *)
(* what was tried is not ahead of the left edge (so a bare ACK popped for  *)
(* having been tried is not).  What the session gave up it aborted.        *)
Numbered(v, K) ==
  /\ \A i \in 1 .. Len(v.mBackQueue) :
       LET d == v.heap[v.mBackQueue[i]]
       IN  /\ Mark(v, i + 1) = d.seq + Advance(d)
           /\ d.flag = "SYN" => d.seq = 0
           /\ d.sent => d.seq <= v.mLocalNext
  /\ \A i, j \in 1 .. Len(v.mBackQueue) + 1 : i <= j => Mark(v, i) <= Mark(v, j)
  /\ \A b \in K \cup {v.mLocalNext} : Between(v, b)
  /\ \A c \in Cells : v.heap[c].release => v.heap[c].abort

(* Before and after flushBackQueue popped what was acknowledged.           *)
Loose(v, K) == Numbered(v, K) /\ Mark(v, 1) <= v.mLocalNext
Lined(v, K) == Numbered(v, K) /\ Mark(v, 1) = v.mLocalNext

(* Only the back queue, its datagrams and the two edges matter.            *)
SameNumbers(v, w) ==
  /\ w.mBackQueue = v.mBackQueue /\ w.heap = v.heap /\ w.full = v.full
  /\ w.mLocalSeq = v.mLocalSeq /\ w.mLocalNext = v.mLocalNext

LEMMA SameNumbersLined ==
  ASSUME NEW v, NEW w, NEW K, SameNumbers(v, w)
  PROVE  /\ Loose(v, K) => Loose(w, K)
         /\ Lined(v, K) => Lined(w, K)
         /\ BackQueueDataSize(w) = BackQueueDataSize(v)
<1>1. \A i : Mark(w, i) = Mark(v, i)
  BY DEF Mark, SameNumbers
<1>2. \A b : Between(w, b) <=> Between(v, b)
  BY <1>1 DEF Between, SameNumbers
<1>3. Numbered(v, K) => Numbered(w, K)
  BY <1>1, <1>2 DEF Numbered, SameNumbers
<1>4. BackQueueDataSize(w) = BackQueueDataSize(v)
  BY DEF BackQueueDataSize, SameNumbers
<1> QED BY <1>1, <1>3, <1>4 DEF Loose, Lined, SameNumbers

LEMMA Elements ==
  ASSUME NEW v \in MemoryType
  PROVE  /\ v.mBackQueue \in Seq(Cells) /\ Len(v.mBackQueue) \in Nat
         /\ DOMAIN v.mBackQueue = 1 .. Len(v.mBackQueue)
         /\ \A i \in 1 .. Len(v.mBackQueue) :
              /\ v.mBackQueue[i] \in Held(v)
              /\ v.mBackQueue[i] \in Cells
              /\ v.heap[v.mBackQueue[i]] \in DatagramType
         /\ \A i \in 1 .. Len(v.mBackQueue) + 1 : Mark(v, i) \in Nat
<1>1. v.mBackQueue \in Seq(Cells) /\ v.heap \in [Cells -> DatagramType]
      /\ v.mLocalSeq \in Nat
  BY Fields
<1>2. Len(v.mBackQueue) \in Nat /\ DOMAIN v.mBackQueue = 1 .. Len(v.mBackQueue)
  BY <1>1, LenProperties
<1>3. \A i \in 1 .. Len(v.mBackQueue) :
        /\ v.mBackQueue[i] \in Held(v)
        /\ v.mBackQueue[i] \in Cells
        /\ v.heap[v.mBackQueue[i]] \in DatagramType
  BY <1>1, <1>2, ElementOfSeq DEF Held, CellsOf
<1>4. ASSUME NEW d \in DatagramType PROVE d.seq \in Nat
  BY DEF DatagramType
<1>5. \A i \in 1 .. Len(v.mBackQueue) + 1 : Mark(v, i) \in Nat
  BY <1>1, <1>2, <1>3, <1>4 DEF Mark
<1> QED BY <1>1, <1>2, <1>3, <1>5

(* What popAcked pops, and why it stops there.                             *)
LEMMA popAckedEffect ==
  ASSUME NEW v \in MemoryType
  PROVE  LET w == popAcked(v)
             q == v.mBackQueue
         IN  /\ w.mLocalSeq = v.mLocalSeq /\ w.mLocalNext = v.mLocalNext
             /\ w.mState = v.mState /\ w.full = v.full
             /\ \E n \in 0 .. Len(q) :
                  /\ w.mBackQueue = Drop(q, n)
                  /\ w.heap = SafeRelease(v.heap, CellsOf(SubSeq(q, 1, n)))
                  /\ \A i \in 1 .. n : Finished(v, v.heap[q[i]])
                  /\ n < Len(q) => ~Finished(v, v.heap[q[n + 1]])
<1> DEFINE q == v.mBackQueue
           kept == {i \in DOMAIN q : ~Finished(v, v.heap[q[i]])}
           n == LeadingRun(Len(q), kept)
           h == SafeRelease(v.heap, CellsOf(SubSeq(q, 1, n)))
           r == Drop(q, n)
           w == [v EXCEPT !.mBackQueue = r, !.heap = h]
<1>1. Len(q) \in Nat /\ DOMAIN q = 1 .. Len(q)
  BY Elements
<1>2. kept \subseteq 1 .. Len(q)
  BY <1>1
<1>3. popAcked(v) = w
  BY DEF popAcked
<1> HIDE DEF h, r
<1>4. /\ w.mLocalSeq = v.mLocalSeq /\ w.mLocalNext = v.mLocalNext
      /\ w.mState = v.mState /\ w.full = v.full
      /\ w.mBackQueue = r /\ w.heap = h
  BY DEF MemoryType
<1> HIDE DEF w
<1>5. n \in 0 .. Len(q)
  BY <1>1, LeadingRunRange
<1>6. /\ \A i \in 1 .. n : i \notin kept
      /\ n < Len(q) => n + 1 \in kept
  <2> HIDE DEF kept
  <2> QED BY <1>1, <1>2, LeadingRunStops
<1> HIDE DEF n
<1>7. \A i \in 1 .. n : Finished(v, v.heap[q[i]])
  <2>1. ASSUME NEW i \in 1 .. n PROVE i \in DOMAIN q
    BY <1>1, <1>5
  <2> QED BY <1>6, <2>1
<1>8. n < Len(q) => ~Finished(v, v.heap[q[n + 1]])
  BY <1>6
<1> HIDE DEF kept
<1> QED BY <1>3, <1>4, <1>5, <1>7, <1>8 DEF h, r

(* A queue that lost its first n datagrams, the others being as they were. *)
LEMMA ShiftNumbered ==
  ASSUME NEW v \in MemoryType, NEW w \in MemoryType, NEW K \in SUBSET Nat,
         NEW n \in 0 .. Len(v.mBackQueue),
         Numbered(v, K),
         Len(w.mBackQueue) = Len(v.mBackQueue) - n,
         \A i \in 1 .. Len(v.mBackQueue) - n :
            w.heap[w.mBackQueue[i]] = v.heap[v.mBackQueue[n + i]],
         w.mLocalSeq = v.mLocalSeq, w.mLocalNext = v.mLocalNext,
         \A c \in Cells : w.heap[c].release => w.heap[c].abort
  PROVE  /\ Numbered(w, K)
         /\ \A i \in 1 .. Len(w.mBackQueue) + 1 : Mark(w, i) = Mark(v, n + i)
<1> DEFINE l == Len(v.mBackQueue)
           m == Len(w.mBackQueue)
<1>1. l \in Nat /\ m \in Nat /\ m = l - n /\ n \in Nat /\ n <= l
  BY Elements
<1>2. \A i \in 1 .. m + 1 : Mark(w, i) = Mark(v, n + i)
  <2>1. ASSUME NEW i \in 1 .. m + 1 PROVE (i <= m <=> n + i <= l) /\ i \in Nat
    BY <1>1
  <2> QED BY <1>1, <2>1, SMTT(30) DEF Mark
<1> HIDE DEF l, m
<1>3. ASSUME NEW i \in 1 .. m
      PROVE  LET d == w.heap[w.mBackQueue[i]]
             IN  /\ Mark(w, i + 1) = d.seq + Advance(d)
                 /\ d.flag = "SYN" => d.seq = 0
                 /\ d.sent => d.seq <= w.mLocalNext
  <2>1. n + i \in 1 .. l /\ i + 1 \in 1 .. m + 1 /\ n + (i + 1) = (n + i) + 1
        /\ i \in 1 .. l - n
    BY <1>1
  <2>2. Mark(w, i + 1) = Mark(v, (n + i) + 1)
    BY <1>2, <2>1
  <2>3. w.heap[w.mBackQueue[i]] = v.heap[v.mBackQueue[n + i]]
    BY <2>1 DEF l
  <2> QED BY <2>1, <2>2, <2>3 DEF Numbered, l
<1>4. ASSUME NEW i \in 1 .. m + 1, NEW j \in 1 .. m + 1, i <= j
      PROVE  Mark(w, i) <= Mark(w, j)
  <2>1. n + i \in 1 .. l + 1 /\ n + j \in 1 .. l + 1 /\ n + i <= n + j
    BY <1>1, <1>4
  <2>2. Mark(v, n + i) <= Mark(v, n + j)
    BY <2>1 DEF Numbered, l
  <2> QED BY <1>2, <2>2
<1>5. ASSUME NEW b \in K \cup {w.mLocalNext} PROVE Between(w, b)
  <2>1. Between(v, b)
    BY DEF Numbered
  <2>2. ASSUME NEW i \in 1 .. m PROVE b <= Mark(w, i) \/ Mark(w, i + 1) <= b
    <3>1. n + i \in 1 .. l /\ i \in 1 .. m + 1 /\ i + 1 \in 1 .. m + 1
          /\ n + (i + 1) = (n + i) + 1
      BY <1>1
    <3>2. b <= Mark(v, n + i) \/ Mark(v, (n + i) + 1) <= b
      BY <2>1, <3>1 DEF Between, l
    <3>3. Mark(w, i) = Mark(v, n + i) /\ Mark(w, i + 1) = Mark(v, (n + i) + 1)
      BY <1>2, <3>1
    <3> QED BY <3>2, <3>3
  <2> QED BY <2>1, <2>2 DEF Between, m
<1> QED BY <1>2, <1>3, <1>4, <1>5 DEF Numbered, m

(* Drop leaves the elements after the first n.                             *)
LEMMA DropElements ==
  ASSUME NEW q \in Seq(Cells), NEW n \in 0 .. Len(q)
  PROVE  /\ Len(Drop(q, n)) = Len(q) - n
         /\ \A i \in 1 .. Len(q) - n : Drop(q, n)[i] = q[n + i]
<1> DEFINE r == Drop(q, n)
<1>1. /\ Len(r) = IF n + 1 <= Len(q) THEN Len(q) - (n + 1) + 1 ELSE 0
      /\ \A i \in 1 .. Len(q) - (n + 1) + 1 : r[i] = q[n + 1 + i - 1]
  BY LenProperties, SubSeqProperties DEF Drop
<1> HIDE DEF r
<1>2. Len(r) = Len(q) - n
  <2>1. ASSUME NEW m \in Nat, n \in 0 .. m
        PROVE  (IF n + 1 <= m THEN m - (n + 1) + 1 ELSE 0) = m - n
    BY <2>1
  <2> QED BY <1>1, <2>1, LenProperties
<1>3. ASSUME NEW i \in 1 .. Len(q) - n PROVE r[i] = q[n + i]
  <2>1. i \in 1 .. Len(q) - (n + 1) + 1 /\ n + 1 + i - 1 = n + i
    BY LenProperties
  <2> QED BY <1>1, <2>1
<1> QED BY <1>2, <1>3 DEF r

(* safeReleaseSegment aborts what it marks for release.                    *)
LEMMA ReleasedAborted ==
  ASSUME NEW heap \in [Cells -> DatagramType], NEW gone,
         \A c \in Cells : heap[c].release => heap[c].abort
  PROVE  \A c \in Cells :
           SafeRelease(heap, gone)[c].release => SafeRelease(heap, gone)[c].abort
<1> SUFFICES ASSUME NEW c \in Cells
             PROVE  SafeRelease(heap, gone)[c].release
                      => SafeRelease(heap, gone)[c].abort
  OBVIOUS
<1>1. SafeRelease(heap, gone)[c]
        \in {heap[c], [heap[c] EXCEPT !.abort = TRUE, !.release = TRUE], Free}
  BY DEF SafeRelease
<1>2. ASSUME NEW d \in DatagramType
      PROVE  [d EXCEPT !.abort = TRUE, !.release = TRUE].abort
  BY DEF DatagramType
<1> QED BY <1>1, <1>2, FreeType

(* popAcked stops exactly at the left edge: a datagram behind it ends      *)
(* there or before, because no acknowledgement cuts one, and a bare ACK    *)
(* that was tried was at the edge when it was.                             *)
LEMMA popAckedLined ==
  ASSUME NEW v, Good(v), NEW K \in SUBSET Nat, v.full \/ Loose(v, K)
  PROVE  popAcked(v).full \/ Lined(popAcked(v), K)
<1> DEFINE q == v.mBackQueue
           w == popAcked(v)
<1>1. v \in MemoryType /\ w \in MemoryType /\ w.full = v.full
  BY popAckedGood, popAckedEffect DEF Good, GoodWith
<1>2. CASE v.full
  BY <1>1, <1>2
<1>3. CASE ~v.full
  <2>1. Loose(v, K) /\ Numbered(v, K) /\ Injective(q)
    BY <1>3 DEF Loose, Good, GoodWith, Agreed
  <2>2. PICK n \in 0 .. Len(q) :
          /\ w.mBackQueue = Drop(q, n)
          /\ w.heap = SafeRelease(v.heap, CellsOf(SubSeq(q, 1, n)))
          /\ \A i \in 1 .. n : Finished(v, v.heap[q[i]])
          /\ n < Len(q) => ~Finished(v, v.heap[q[n + 1]])
    BY <1>1, popAckedEffect
  <2>3. w.mLocalSeq = v.mLocalSeq /\ w.mLocalNext = v.mLocalNext
    BY <1>1, popAckedEffect
  <2> HIDE DEF w
  <2>4. /\ q \in Seq(Cells) /\ Len(q) \in Nat /\ DOMAIN q = 1 .. Len(q)
        /\ v.mLocalNext \in Nat /\ v.mLocalSeq \in Nat
        /\ \A i \in 1 .. Len(q) : q[i] \in Cells /\ v.heap[q[i]] \in DatagramType
        /\ \A i \in 1 .. Len(q) + 1 : Mark(v, i) \in Nat
    BY <1>1, Elements, Fields
  <2>5. /\ Len(w.mBackQueue) = Len(q) - n
        /\ \A i \in 1 .. Len(q) - n : w.mBackQueue[i] = q[n + i]
    BY <2>2, <2>4, DropElements, ZenonT(60)
  <2>6. ASSUME NEW i \in 1 .. Len(q) - n
        PROVE  w.heap[w.mBackQueue[i]] = v.heap[q[n + i]]
    <3>1. n + i \in 1 .. Len(q)
      BY <2>4
    <3>2. q[n + i] \notin CellsOf(SubSeq(q, 1, n))
      <4>1. \A j \in 1 .. n : j \in DOMAIN q /\ j # n + i
        BY <2>4
      <4>2. /\ DOMAIN SubSeq(q, 1, n) = 1 .. n
            /\ \A j \in 1 .. n : SubSeq(q, 1, n)[j] = q[j]
        BY <2>4, SubSeqProperties, LenProperties
      <4> QED BY <2>1, <2>4, <3>1, <4>1, <4>2 DEF CellsOf, Injective
    <3> QED BY <2>2, <2>4, <2>5, <3>1, <3>2 DEF SafeRelease
  <2>7. \A c \in Cells : w.heap[c].release => w.heap[c].abort
    <3>1. \A c \in Cells : v.heap[c].release => v.heap[c].abort
      BY <2>1 DEF Numbered
    <3> DEFINE g == CellsOf(SubSeq(q, 1, n))
    <3>2. w.heap = SafeRelease(v.heap, g)
      BY <2>2
    <3> HIDE DEF g
    <3> QED BY <1>1, <3>1, <3>2, ReleasedAborted, Fields
  <2>8. /\ Numbered(w, K)
        /\ \A i \in 1 .. Len(w.mBackQueue) + 1 : Mark(w, i) = Mark(v, n + i)
    BY <1>1, <2>1, <2>3, <2>5, <2>6, <2>7, ShiftNumbered
  <2>9. Mark(w, 1) = Mark(v, n + 1) /\ n + 1 \in 1 .. Len(q) + 1
    BY <2>4, <2>5, <2>8
  <2>10. Mark(v, n + 1) <= v.mLocalNext
    <3>1. CASE n = 0
      BY <2>1, <3>1 DEF Loose
    <3>2. CASE n # 0
      <4>1. n \in 1 .. Len(q) /\ n \in 1 .. n
        BY <2>4, <3>2
      <4> DEFINE d == v.heap[q[n]]
      <4>2. /\ Mark(v, n) = d.seq /\ Mark(v, n + 1) = d.seq + Advance(d)
            /\ d.sent => d.seq <= v.mLocalNext
        BY <2>1, <4>1 DEF Numbered, Mark
      <4>3. Finished(v, d) /\ d \in DatagramType
        BY <2>2, <2>4, <4>1
      <4>4. v.mLocalNext <= Mark(v, n) \/ Mark(v, n + 1) <= v.mLocalNext
        BY <2>1, <4>1 DEF Numbered, Between
      <4>5. d.seq \in Nat /\ d.len \in Nat
        BY <4>3 DEF DatagramType
      <4>6. CASE d.seq < v.mLocalNext
        BY <2>4, <4>2, <4>4, <4>5, <4>6
      <4>7. CASE d.len = 0 /\ d.flag = "ACK" /\ d.sent
        BY <2>4, <4>2, <4>5, <4>7 DEF Advance
      <4> QED BY <4>3, <4>6, <4>7 DEF Finished
    <3> QED BY <3>1, <3>2
  <2>11. v.mLocalNext <= Mark(v, n + 1)
    <3>1. CASE n < Len(q)
      <4>1. n + 1 \in 1 .. Len(q)
        BY <2>4, <3>1
      <4>2. ~(v.heap[q[n + 1]].seq < v.mLocalNext)
        BY <2>2, <3>1 DEF Finished
      <4>3. Mark(v, n + 1) = v.heap[q[n + 1]].seq
        BY <4>1 DEF Mark
      <4> QED BY <2>4, <2>9, <4>2, <4>3
    <3>2. CASE ~(n < Len(q))
      <4>1. ~(n + 1 <= Len(q))
        BY <2>4, <3>2
      <4>2. Mark(v, n + 1) = v.mLocalSeq
        BY <4>1 DEF Mark
      <4>3. Between(v, v.mLocalNext)
        BY <2>1 DEF Numbered
      <4> QED BY <4>2, <4>3 DEF Between
    <3> QED BY <3>1, <3>2
  <2>12. Mark(v, n + 1) = v.mLocalNext
    BY <2>4, <2>9, <2>10, <2>11
  <2> QED BY <2>3, <2>8, <2>9, <2>12 DEF Lined, w
<1> QED BY <1>2, <1>3

(* A datagram numbered mLocalSeq continues the queue.                      *)
LEMMA enqueueBackNumbers ==
  ASSUME NEW v, Good(v), NEW K \in SUBSET Nat,
         NEW flag \in Flags, NEW off \in Nat, NEW len \in Nat,
         v.full \/ Numbered(v, K), flag = "SYN" => v.mLocalSeq = 0
  PROVE  LET w == enqueueBack(v, flag, off, len)
         IN  \/ w.full
             \/ /\ Numbered(w, K) /\ w.mLocalNext = v.mLocalNext
                /\ Mark(w, 1) = Mark(v, 1) /\ canPush(w)
<1> DEFINE d == BuildPackage(v, flag, off, len)
           u == Allocate(v, d)
           c == FreshCell(v)
           a == IF flag \in {"SYN", "FIN"} THEN 1 ELSE len
           q == v.mBackQueue
           w == [u EXCEPT !.mBackQueue = Append(q, c), !.mLocalSeq = v.mLocalSeq + a]
<1>1. v \in MemoryType /\ (v.full \/ Agreed(v, {}))
  BY DEF Good, GoodWith
<1>2. /\ d \in DatagramType /\ d.seq = v.mLocalSeq /\ Advance(d) = a
      /\ d.flag = flag /\ ~d.sent /\ ~d.release
  BY <1>1, BuildPackageType DEF BuildPackage, Free, Advance
<1> HIDE DEF d
<1>3. /\ u \in MemoryType /\ c \in Cells /\ u.heap = [v.heap EXCEPT ![c] = d]
      /\ u.full = (v.full \/ ~HasFree(v)) /\ u.mBackQueue = q
      /\ u.mLocalSeq = v.mLocalSeq
  BY <1>1, <1>2, AllocateEffect
<1>4. u.mLocalNext = v.mLocalNext
  BY <1>1 DEF Allocate, MemoryType
<1>5. enqueueBack(v, flag, off, len) = w
  BY <1>3 DEF enqueueBack, d
<1>6. HasFree(v) => ~v.heap[c].live
  BY FreshCellFree
<1> HIDE DEF u, c
<1>7. /\ w.mBackQueue = Append(q, c) /\ w.mLocalSeq = v.mLocalSeq + a
      /\ w.heap = u.heap /\ w.full = u.full /\ w.mLocalNext = v.mLocalNext
  BY <1>3, <1>4 DEF MemoryType
<1>8. /\ q \in Seq(Cells) /\ Len(q) \in Nat
      /\ v.mLocalNext \in Nat /\ v.mLocalSeq \in Nat /\ a \in Nat
      /\ v.heap \in [Cells -> DatagramType]
      /\ \A i \in 1 .. Len(q) : q[i] \in Cells /\ q[i] \in Held(v)
      /\ \A i \in 1 .. Len(q) + 1 : Mark(v, i) \in Nat
  BY <1>1, Elements, Fields
<1> HIDE DEF w, a
<1>9. CASE v.full \/ ~HasFree(v)
  BY <1>3, <1>5, <1>7, <1>9
<1>10. CASE ~v.full /\ HasFree(v)
  <2> DEFINE l == Len(q)
  <2>1. Numbered(v, K) /\ c \notin Held(v)
    BY <1>1, <1>6, <1>10 DEF Agreed
  <2>2. /\ Len(w.mBackQueue) = l + 1 /\ w.mBackQueue[l + 1] = c
        /\ \A i \in 1 .. l : w.mBackQueue[i] = q[i]
    BY <1>3, <1>7, <1>8, AppendProperties
  <2>3. w.heap[c] = d /\ \A i \in 1 .. l : w.heap[q[i]] = v.heap[q[i]]
    BY <1>3, <1>7, <1>8, <2>1
  <2> HIDE DEF q
  <2>4. \A i \in 1 .. l + 1 : Mark(w, i) = Mark(v, i)
    <3>1. ASSUME NEW i \in 1 .. l PROVE Mark(w, i) = Mark(v, i)
      <4>1. i <= l + 1 /\ i <= l
        BY <1>8
      <4> QED BY <2>2, <2>3, <4>1 DEF Mark, q
    <3>2. Mark(w, l + 1) = Mark(v, l + 1)
      <4>1. ~(l + 1 <= l) /\ l + 1 <= l + 1
        BY <1>8
      <4> QED BY <1>2, <2>2, <2>3, <4>1 DEF Mark, q
    <3>3. ASSUME NEW i \in 1 .. l + 1 PROVE i \in 1 .. l \/ i = l + 1
      BY <1>8
    <3> QED BY <3>1, <3>2, <3>3
  <2>5. Mark(w, l + 2) = v.mLocalSeq + a /\ Mark(v, l + 1) = v.mLocalSeq
    <3>1. ~(l + 2 <= l + 1) /\ ~(l + 1 <= l)
      BY <1>8
    <3> QED BY <1>7, <2>2, <3>1 DEF Mark, q
  <2>6. ASSUME NEW i \in 1 .. l + 1
        PROVE  LET e == w.heap[w.mBackQueue[i]]
               IN  /\ Mark(w, i + 1) = e.seq + Advance(e)
                   /\ e.flag = "SYN" => e.seq = 0
                   /\ e.sent => e.seq <= w.mLocalNext
    <3>1. CASE i \in 1 .. l
      <4>1. i + 1 \in 1 .. l + 1
        BY <1>8, <3>1
      <4>2. w.heap[w.mBackQueue[i]] = v.heap[q[i]] /\ Mark(w, i + 1) = Mark(v, i + 1)
        BY <2>2, <2>3, <2>4, <3>1, <4>1
      <4>3. LET e == v.heap[q[i]]
            IN  /\ Mark(v, i + 1) = e.seq + Advance(e)
                /\ e.flag = "SYN" => e.seq = 0
                /\ e.sent => e.seq <= v.mLocalNext
        BY <2>1, <3>1 DEF Numbered, q
      <4> QED BY <1>7, <4>2, <4>3
    <3>2. CASE i = l + 1
      <4>1. i + 1 = l + 2
        BY <1>8, <3>2
      <4> QED BY <1>2, <2>2, <2>3, <2>5, <3>2, <4>1
    <3>3. i \in 1 .. l \/ i = l + 1
      BY <1>8
    <3> QED BY <3>1, <3>2, <3>3
  <2>7. ASSUME NEW i \in 1 .. l + 2, NEW j \in 1 .. l + 2, i <= j
        PROVE  Mark(w, i) <= Mark(w, j)
    <3>1. CASE j \in 1 .. l + 1
      <4>1. i \in 1 .. l + 1
        BY <1>8, <2>7, <3>1
      <4> QED BY <2>1, <2>4, <2>7, <3>1, <4>1 DEF Numbered, q
    <3>2. CASE i \in 1 .. l + 1 /\ j = l + 2
      <4>1. l + 1 \in 1 .. l + 1 /\ i <= l + 1
        BY <1>8, <3>2
      <4>2. Mark(v, i) <= Mark(v, l + 1) /\ Mark(v, i) \in Nat
        BY <1>8, <2>1, <3>2, <4>1 DEF Numbered, q
      <4> QED BY <1>8, <2>4, <2>5, <3>2, <4>2
    <3>3. CASE i = l + 2 /\ j = l + 2
      BY <1>8, <2>5, <3>3
    <3>4. i \in 1 .. l + 1 \/ i = l + 2
      BY <1>8
    <3>5. j \in 1 .. l + 1 \/ j = l + 2
      BY <1>8
    <3>6. ~(i = l + 2 /\ j \in 1 .. l + 1)
      BY <1>8, <2>7
    <3> QED BY <3>1, <3>2, <3>3, <3>4, <3>5, <3>6
  <2>8. ASSUME NEW b \in K \cup {w.mLocalNext} PROVE Between(w, b)
    <3>1. Between(v, b) /\ b \in Nat
      BY <1>7, <1>8, <2>1 DEF Numbered
    <3>2. b <= v.mLocalSeq /\ b <= w.mLocalSeq
      <4>1. b <= v.mLocalSeq
        BY <3>1 DEF Between
      <4> QED BY <1>7, <1>8, <3>1, <4>1
    <3>3. ASSUME NEW i \in 1 .. l PROVE b <= Mark(w, i) \/ Mark(w, i + 1) <= b
      <4>1. i \in 1 .. l + 1 /\ i + 1 \in 1 .. l + 1
        BY <1>8
      <4> QED BY <2>4, <3>1, <4>1 DEF Between, q
    <3>4. l + 1 \in 1 .. l + 1 /\ \A i \in 1 .. l + 1 : i \in 1 .. l \/ i = l + 1
      BY <1>8
    <3>5. b <= Mark(w, l + 1)
      BY <2>4, <2>5, <3>2, <3>4
    <3> QED BY <2>2, <3>2, <3>3, <3>4, <3>5 DEF Between
  <2>9. \A b \in Cells : w.heap[b].release => w.heap[b].abort
    <3>1. \A b \in Cells : w.heap[b] = d \/ w.heap[b] = v.heap[b]
      BY <1>3, <1>7, <1>8
    <3> QED BY <1>2, <2>1, <3>1 DEF Numbered
  <2>10. Numbered(w, K)
    <3>1. Len(w.mBackQueue) + 1 = l + 2
      BY <1>8, <2>2
    <3> QED BY <2>2, <2>6, <2>7, <2>8, <2>9, <3>1 DEF Numbered
  <2>11. Mark(w, 1) = Mark(v, 1)
    <3>1. 1 \in 1 .. l + 1
      BY <1>8
    <3> QED BY <2>4, <3>1
  <2>12. canPush(w)
    BY <2>10 DEF Numbered, Between, canPush
  <2> QED BY <1>5, <1>7, <2>10, <2>11, <2>12
<1> QED BY <1>9, <1>10

(* Flags of a queued datagram may change, its number and size may not.     *)
LEMMA TouchedLined ==
  ASSUME NEW v \in MemoryType, NEW w \in MemoryType, NEW K,
         w.mBackQueue = v.mBackQueue,
         w.mLocalSeq = v.mLocalSeq, w.mLocalNext = v.mLocalNext,
         \A i \in 1 .. Len(v.mBackQueue) :
            LET d == v.heap[v.mBackQueue[i]]
                e == w.heap[v.mBackQueue[i]]
            IN  /\ e.seq = d.seq /\ e.flag = d.flag /\ e.len = d.len
                /\ e.sent => d.sent \/ d.seq <= v.mLocalNext,
         Numbered(v, K) =>
            \A c \in Cells : w.heap[c].release => w.heap[c].abort
  PROVE  /\ Loose(v, K) => Loose(w, K)
         /\ Lined(v, K) => Lined(w, K)
         /\ BackQueueDataSize(w) = BackQueueDataSize(v)
<1> DEFINE l == Len(v.mBackQueue)
<1>1. l \in Nat /\ DOMAIN v.mBackQueue = 1 .. l
  BY Elements
<1>2. \A i \in 1 .. l + 1 : Mark(w, i) = Mark(v, i)
  <2>1. ASSUME NEW i \in 1 .. l + 1 PROVE i <= l => i \in 1 .. l
    BY <1>1
  <2> QED BY <2>1 DEF Mark
<1>3. \A b : Between(v, b) => Between(w, b)
  <2>1. \A i \in 1 .. l : i \in 1 .. l + 1 /\ i + 1 \in 1 .. l + 1
    BY <1>1
  <2> QED BY <1>2, <2>1 DEF Between
<1>4. ASSUME Numbered(v, K) PROVE Numbered(w, K)
  <2>1. ASSUME NEW i \in 1 .. l
        PROVE  LET e == w.heap[v.mBackQueue[i]]
               IN  /\ Mark(w, i + 1) = e.seq + Advance(e)
                   /\ e.flag = "SYN" => e.seq = 0
                   /\ e.sent => e.seq <= w.mLocalNext
    <3>1. i + 1 \in 1 .. l + 1
      BY <1>1
    <3>2. Mark(w, i + 1) = Mark(v, i + 1)
      BY <1>2, <3>1
    <3> DEFINE d == v.heap[v.mBackQueue[i]]
               e == w.heap[v.mBackQueue[i]]
    <3>3. /\ e.seq = d.seq /\ e.flag = d.flag /\ e.len = d.len
          /\ e.sent => d.sent \/ d.seq <= v.mLocalNext
      OBVIOUS
    <3>4. /\ Mark(v, i + 1) = d.seq + Advance(d)
          /\ d.flag = "SYN" => d.seq = 0
          /\ d.sent => d.seq <= v.mLocalNext
      BY <1>4 DEF Numbered
    <3> HIDE DEF d, e
    <3>5. Advance(e) = Advance(d)
      BY <3>3 DEF Advance
    <3> QED BY <3>2, <3>3, <3>4, <3>5 DEF e
  <2>2. \A i, j \in 1 .. l + 1 : i <= j => Mark(w, i) <= Mark(w, j)
    <3>1. \A i, j \in 1 .. l + 1 : i <= j => Mark(v, i) <= Mark(v, j)
      BY <1>4 DEF Numbered
    <3> QED BY <1>2, <3>1
  <2>3. \A b \in K \cup {w.mLocalNext} : Between(w, b)
    BY <1>3, <1>4 DEF Numbered
  <2> QED BY <1>4, <2>1, <2>2, <2>3 DEF Numbered
<1>5. Mark(w, 1) = Mark(v, 1)
  BY <1>1, <1>2
<1>6. BackQueueDataSize(w) = BackQueueDataSize(v)
  <2>1. \A i \in DOMAIN v.mBackQueue :
          Size(w.heap[v.mBackQueue[i]]) = Size(v.heap[v.mBackQueue[i]])
    BY <1>1 DEF Size
  <2>2. {{i} \X (1 .. Size(w.heap[v.mBackQueue[i]])) : i \in DOMAIN v.mBackQueue}
          = {{i} \X (1 .. Size(v.heap[v.mBackQueue[i]])) : i \in DOMAIN v.mBackQueue}
    BY <2>1
  <2> QED BY <2>2 DEF BackQueueDataSize
<1> QED BY <1>4, <1>5, <1>6 DEF Loose, Lined

(* The front is sent only when it stands at the left edge.                 *)
LEMMA sendBackSegmentLined ==
  ASSUME NEW v \in MemoryType, NEW K, Lined(v, K), v.mBackQueue # <<>>,
         NEW c, c = Head(v.mBackQueue), ~v.full, Agreed(v, {})
  PROVE  /\ sendBackSegment(v, c) \in MemoryType
         /\ Lined(sendBackSegment(v, c), K)
         /\ sendBackSegment(v, c).full = v.full
<1> DEFINE q == v.mBackQueue
           h == [v.heap EXCEPT ![c].sent = TRUE]
           u == [v EXCEPT !.heap = h]
           w == sendBackSegment(v, c)
<1>1. /\ q \in Seq(Cells) /\ Len(q) \in Nat
      /\ \A i \in 1 .. Len(q) : q[i] \in Cells /\ q[i] \in Held(v)
      /\ v.heap \in [Cells -> DatagramType] /\ v.mData \in Seq(Cells)
  BY Elements, Fields
<1>2. Len(q) # 0 /\ c = q[1] /\ c \in Cells
  <2>1. Len(q) # 0
    BY <1>1, EmptySeq
  <2> QED BY <1>1, <2>1, HeadTailProperties
<1>3. 1 \in 1 .. Len(q)
  BY <1>1, <1>2
<1>4. v.heap[c].seq = v.mLocalNext
  BY <1>2, <1>3 DEF Lined, Mark
<1>5. w = RouterQueue(u, c)
  BY DEF sendBackSegment
<1>6. /\ u.heap = h /\ u.mBackQueue = q /\ u.mData = v.mData /\ u.full = v.full
      /\ u.mLocalSeq = v.mLocalSeq /\ u.mLocalNext = v.mLocalNext
  BY DEF MemoryType
<1>7. w \in MemoryType
  BY <1>2, sendBackSegmentType
<1>8. /\ w.mBackQueue = q /\ w.full = v.full
      /\ w.mLocalSeq = v.mLocalSeq /\ w.mLocalNext = v.mLocalNext
      /\ w.heap \in {h, [h EXCEPT ![c].buffering = TRUE]}
  <2> HIDE DEF h
  <2>1. DOMAIN u = DOMAIN v
    OBVIOUS
  <2> HIDE DEF u
  <2>2. CASE u.heap[c].buffering \/ u.heap[c].abort
    BY <1>5, <1>6, <2>2 DEF RouterQueue
  <2>3. CASE ~(u.heap[c].buffering \/ u.heap[c].abort)
    BY <1>5, <1>6, <2>1, <2>3, ZenonT(60) DEF RouterQueue, MemoryType
  <2> QED BY <2>2, <2>3
<1> HIDE DEF w
<1>9. ASSUME NEW b \in Cells
      PROVE  /\ w.heap[b].seq = v.heap[b].seq /\ w.heap[b].flag = v.heap[b].flag
             /\ w.heap[b].len = v.heap[b].len
             /\ w.heap[b].release = v.heap[b].release
             /\ w.heap[b].abort = v.heap[b].abort
             /\ b # c => w.heap[b].sent = v.heap[b].sent
  <2> DEFINE d == v.heap[b]
             e == [d EXCEPT !.sent = TRUE]
             f == [e EXCEPT !.buffering = TRUE]
  <2>1. d \in DatagramType
    BY <1>1
  <2>2. w.heap[b] \in {d, e, f} /\ (b # c => w.heap[b] = d)
    <3>1. DOMAIN h = Cells /\ h[b] = IF b = c THEN e ELSE d
      BY <1>1, <1>2
    <3> HIDE DEF h, e, f, d
    <3>2. CASE w.heap = h
      BY <3>1, <3>2
    <3>3. CASE w.heap = [h EXCEPT ![c].buffering = TRUE]
      BY <3>1, <3>3 DEF f
    <3> QED BY <1>8, <3>2, <3>3
  <2> QED BY <2>1, <2>2 DEF DatagramType
<1>10. \A i \in 1 .. Len(q) :
          LET d == v.heap[q[i]]
              e == w.heap[q[i]]
          IN  /\ e.seq = d.seq /\ e.flag = d.flag /\ e.len = d.len
              /\ e.sent => d.sent \/ d.seq <= v.mLocalNext
  <2>1. v.mLocalNext <= v.mLocalNext
    BY Fields
  <2> QED BY <1>1, <1>4, <1>9, <2>1
<1>11. Numbered(v, K) => \A b \in Cells : w.heap[b].release => w.heap[b].abort
  BY <1>9 DEF Numbered
<1>12. Lined(w, K)
  BY <1>7, <1>8, <1>10, <1>11, TouchedLined
<1> QED BY <1>7, <1>8, <1>12 DEF w

-----------------------------------------------------------------------------
(* flushBackQueue and the pauses of reading                                *)

(* PausedWhenFull, of a memory.                                            *)
Paused(v) ==
  v.socket /\ ~v.rd /\ v.mState = "ESTABLISHED" =>
    BackQueueDataSize(v) >= SessionBuffer \div 2

(* A memory a handler may leave open.                                      *)
Settled(v, K) == v.full \/ (Lined(v, K) /\ Paused(v))

LEMMA DataSizeNat ==
  ASSUME NEW v \in MemoryType
  PROVE  BackQueueDataSize(v) \in Nat /\ SessionBuffer \div 2 \in Nat
<1> DEFINE q == v.mBackQueue
           part(i) == {i} \X (1 .. Size(v.heap[q[i]]))
           S == {part(i) : i \in DOMAIN q}
<1>1. DOMAIN q = 1 .. Len(q) /\ Len(q) \in Nat
      /\ \A i \in 1 .. Len(q) : v.heap[q[i]] \in DatagramType
  BY Elements
<1>2. ASSUME NEW i \in DOMAIN q PROVE IsFiniteSet(part(i))
  <2>1. Size(v.heap[q[i]]) \in Nat
    BY <1>1, MemoryAssumption, SMTT(30) DEF Size, DatagramType
  <2> DEFINE s == Size(v.heap[q[i]])
  <2> HIDE DEF s
  <2>2. IsFiniteSet(1 .. s)
    BY <2>1, FS_Interval DEF s
  <2>3. IsFiniteSet({i})
    BY FS_Singleton
  <2> QED BY <2>2, <2>3, FS_Product DEF s
<1>3. IsFiniteSet(DOMAIN q)
  <2> DEFINE l == Len(q)
  <2>1. l \in Nat
    BY <1>1
  <2> HIDE DEF l
  <2>2. IsFiniteSet(1 .. l)
    BY <2>1, FS_Interval
  <2> QED BY <1>1, <2>2 DEF l
<1> DEFINE f == [i \in DOMAIN q |-> part(i)]
<1> HIDE DEF part
<1>4. IsFiniteSet(S)
  <2>1. f \in Surjection(DOMAIN q, S)
    BY DEF Surjection
  <2> HIDE DEF f, S
  <2> QED BY <1>3, <2>1, FS_Surjection
<1>5. IsFiniteSet(UNION S)
  BY <1>2, <1>4, FS_UNION
<1>6. BackQueueDataSize(v) = Cardinality(UNION S)
  BY DEF BackQueueDataSize, part
<1>7. SessionBuffer \div 2 \in Nat
  BY MemoryAssumption
<1> QED BY <1>5, <1>6, <1>7, FS_CardinalityType

LEMMA resumeIfRoomSettled ==
  ASSUME NEW v \in MemoryType, NEW K, v.full \/ Lined(v, K)
  PROVE  Settled(resumeIfRoom(v), K)
<1> DEFINE w == resumeReceiveData(v)
<1>1. /\ SameNumbers(v, w) /\ w.mState = v.mState /\ w.socket = v.socket
      /\ v.socket => w.rd
  BY DEF resumeReceiveData, MemoryType, SameNumbers
<1>2. resumeIfRoom(v) = IF v.mState = "ESTABLISHED"
                             /\ BackQueueDataSize(v) < SessionBuffer \div 2
                        THEN w ELSE v
  BY DEF resumeIfRoom
<1> HIDE DEF w
<1>3. CASE resumeIfRoom(v) = w
  BY <1>1, <1>3, SameNumbersLined DEF Settled, Paused, SameNumbers
<1>4. CASE resumeIfRoom(v) # w
  <2>1. resumeIfRoom(v) = v
    BY <1>2, <1>4
  <2>2. v.mState = "ESTABLISHED" =>
          ~(BackQueueDataSize(v) < SessionBuffer \div 2)
    BY <1>2, <1>4
  <2>3. Paused(v)
    BY <2>2, DataSizeNat DEF Paused
  <2> QED BY <2>1, <2>3 DEF Settled
<1> QED BY <1>3, <1>4

(* The "disorder" reset of flushBackQueue never happens.                   *)
LEMMA sendBackSettled ==
  ASSUME NEW v, Good(v), NEW K, v.full \/ Lined(v, K)
  PROVE  Settled(sendBack(v), K)
<1> DEFINE c == Head(v.mBackQueue)
<1>1. v \in MemoryType /\ (v.full \/ Agreed(v, {}))
  BY DEF Good, GoodWith
<1>2. CASE v.full
  BY <1>2, sendBackLives DEF Lives, Settled
<1>3. CASE ~v.full /\ v.mBackQueue = <<>>
  BY <1>1, <1>3, resumeIfRoomSettled DEF sendBack
<1>4. CASE ~v.full /\ v.mBackQueue # <<>>
  <2>1. v.heap[c].seq = v.mLocalNext /\ v.mLocalNext \in Nat
    <3>1. v.mBackQueue \in Seq(Cells) /\ Len(v.mBackQueue) \in Nat /\ v.mLocalNext \in Nat
      BY <1>1, Elements, Fields
    <3>2. Len(v.mBackQueue) # 0 /\ c = v.mBackQueue[1]
      BY <1>4, <3>1, EmptySeq, HeadTailProperties
    <3>3. 1 <= Len(v.mBackQueue)
      BY <3>1, <3>2
    <3>4. v.heap[c].seq = Mark(v, 1)
      BY <3>2, <3>3 DEF Mark
    <3> QED BY <1>4, <3>1, <3>4 DEF Lined
  <2>2. ~(v.mLocalNext < v.heap[c].seq)
    BY <2>1
  <2>3. sendBack(v) \in {resumeIfRoom(v), resumeIfRoom(sendBackSegment(v, c))}
    BY <1>4, <2>2 DEF sendBack
  <2>4. /\ sendBackSegment(v, c) \in MemoryType
        /\ Lined(sendBackSegment(v, c), K)
    BY <1>1, <1>4, sendBackSegmentLined
  <2> HIDE DEF c
  <2> QED BY <1>1, <1>4, <2>3, <2>4, resumeIfRoomSettled
<1> QED BY <1>2, <1>3, <1>4

(* A state of its own, with reading or without.                            *)
LEMMA switchStateSettled ==
  ASSUME NEW v \in MemoryType, NEW K, NEW s \in States
  PROVE  /\ switchState(v, s).mState = s
         /\ SameNumbers(v, switchState(v, s))
         /\ s # "ESTABLISHED" /\ Settled(v, K) => Settled(switchState(v, s), K)
<1> DEFINE w == [v EXCEPT !.mState = s]
           x == [w EXCEPT !.mAlive = FALSE]
           y == switchState(v, s)
<1>1. w \in MemoryType /\ SameNumbers(v, w) /\ w.mState = s
  BY DEF MemoryType, SameNumbers
<1>2. y = IF v.mState = s THEN v
          ELSE IF s = "CLOSED" THEN destroyTunnel(x) ELSE w
  BY DEF switchState, close
<1> HIDE DEF w
<1>3. x \in MemoryType /\ SameNumbers(v, x) /\ x.mState = s
  BY <1>1 DEF MemoryType, SameNumbers
<1> HIDE DEF x
<1>4. SameNumbers(v, destroyTunnel(x)) /\ destroyTunnel(x).mState = s
  BY <1>3 DEF destroyTunnel, MemoryType, SameNumbers
<1>5. SameNumbers(v, v)
  BY DEF SameNumbers
<1> HIDE DEF y
<1>6. y.mState = s /\ SameNumbers(v, y)
  BY <1>1, <1>2, <1>4, <1>5
<1>7. s # "ESTABLISHED" => Paused(y)
  BY <1>6 DEF Paused
<1>8. Settled(v, K) => y.full \/ Lined(y, K)
  BY <1>6, SameNumbersLined DEF Settled, SameNumbers
<1> QED BY <1>6, <1>7, <1>8 DEF Settled, y

LEMMA pushFinSettled ==
  ASSUME NEW v, Good(v), NEW K \in SUBSET Nat, v.full \/ Loose(v, K)
  PROVE  Settled(pushFin(v), K)
<1> DEFINE t == enqueueBack(v, "FIN", 0, 0)
           u == popAcked(t)
           w == sendBack(u)
           s == IF w.mState = "ESTABLISHED" THEN "FIN_WAIT1" ELSE "LAST_ACK"
<1>1. "FIN" \in Flags /\ "FIN" # "SYN" /\ 0 \in Nat
  BY DEF Flags
<1>2. Good(t)
  BY <1>1, enqueueBackGood
<1>3. t.full \/ Loose(t, K)
  <2>1. v.full \/ Numbered(v, K)
    BY DEF Loose
  <2>2. t.full \/ (Numbered(t, K) /\ t.mLocalNext = v.mLocalNext /\ Mark(t, 1) = Mark(v, 1))
    BY <1>1, <2>1, enqueueBackNumbers
  <2>3. v.full => t.full
    BY enqueueBackLives DEF Lives, Good, GoodWith
  <2> QED BY <2>2, <2>3 DEF Loose
<1>4. pushFin(v) = switchState(w, s) /\ s \in States /\ s # "ESTABLISHED"
  BY DEF pushFin, States
<1> HIDE DEF t, s
<1>5. Good(u) /\ (u.full \/ Lined(u, K))
  BY <1>2, <1>3, popAckedGood, popAckedLined
<1> HIDE DEF u
<1>6. w \in MemoryType /\ Settled(w, K)
  BY <1>5, sendBackGood, sendBackSettled DEF Good, GoodWith
<1> HIDE DEF w
<1> QED BY <1>4, <1>6, switchStateSettled

LEMMA flushBackQueueSettled ==
  ASSUME NEW v, Good(v), NEW K \in SUBSET Nat, v.full \/ Loose(v, K)
  PROVE  Settled(flushBackQueue(v), K)
<1> DEFINE w == popAcked(v)
<1>1. Good(w) /\ (w.full \/ Lined(w, K))
  BY popAckedGood, popAckedLined
<1>2. flushBackQueue(v) = IF ~mayFinish(w) THEN sendBack(w)
                          ELSE IF canPush(w) THEN pushFin(w) ELSE w
  BY DEF flushBackQueue
<1> HIDE DEF w
<1>3. w.full \/ canPush(w)
  BY <1>1 DEF Lined, Numbered, Between, canPush
<1>4. w.full \/ Loose(w, K)
  <2>1. w.mLocalNext <= w.mLocalNext
    BY <1>1, Fields DEF Good, GoodWith
  <2> QED BY <1>1, <2>1 DEF Lined, Loose
<1>5. w.full => Settled(w, K)
  BY DEF Settled
<1> QED BY <1>1, <1>2, <1>3, <1>4, <1>5, sendBackSettled, pushFinSettled

LEMMA pushInBackQueueSettled ==
  ASSUME NEW v, Good(v), NEW K \in SUBSET Nat, v.full \/ Loose(v, K),
         NEW flag \in Flags, NEW off \in Nat, NEW len \in Nat,
         flag = "SYN" => v.mLocalSeq = 0
  PROVE  Settled(pushInBackQueue(v, flag, off, len), K)
<1> DEFINE w == enqueueBack(v, flag, off, len)
<1>1. Good(w)
  BY enqueueBackGood
<1>2. w.full \/ Loose(w, K)
  <2>1. v.full \/ Numbered(v, K)
    BY DEF Loose
  <2>2. w.full \/ (Numbered(w, K) /\ w.mLocalNext = v.mLocalNext /\ Mark(w, 1) = Mark(v, 1))
    BY <2>1, enqueueBackNumbers
  <2>3. v.full => w.full
    BY enqueueBackLives DEF Lives, Good, GoodWith
  <2> QED BY <2>2, <2>3 DEF Loose
<1>3. v.full \/ canPush(v)
  BY DEF Loose, Numbered, Between, canPush
<1>4. v.full => Settled(v, K)
  BY DEF Settled
<1>5. pushInBackQueue(v, flag, off, len)
        = IF canPush(v) THEN flushBackQueue(w) ELSE v
  BY DEF pushInBackQueue
<1> HIDE DEF w
<1> QED BY <1>1, <1>2, <1>3, <1>4, <1>5, flushBackQueueSettled

-----------------------------------------------------------------------------
(* The handlers leave a numbered queue, or a closed session.               *)
Rests(v, K) == v.mState = "CLOSED" \/ Settled(v, K)

LEMMA SettledLoose ==
  ASSUME NEW v \in MemoryType, NEW K, v.full \/ Lined(v, K)
  PROVE  v.full \/ Loose(v, K)
<1>1. v.mLocalNext <= v.mLocalNext
  BY Fields
<1> QED BY <1>1 DEF Lined, Loose

(* The left edge moves on to an acknowledgement that was under way.        *)
LEMMA RaisedLoose ==
  ASSUME NEW v \in MemoryType, NEW w \in MemoryType, NEW K \in SUBSET Nat, NEW b \in K,
         Lined(v, K), w.mBackQueue = v.mBackQueue, w.heap = v.heap,
         w.mLocalSeq = v.mLocalSeq,
         w.mLocalNext = IF v.mLocalNext <= b THEN b ELSE v.mLocalNext
  PROVE  Loose(w, K)
<1>1. v.mLocalNext \in Nat /\ b \in Nat /\ w.mLocalNext \in Nat
      /\ v.mLocalNext <= w.mLocalNext /\ w.mLocalNext \in K \cup {v.mLocalNext}
  BY Fields
<1>2. \A i : Mark(w, i) = Mark(v, i)
  BY DEF Mark
<1>3. \A x : Between(w, x) <=> Between(v, x)
  BY <1>2 DEF Between
<1>4. ASSUME NEW i \in 1 .. Len(v.mBackQueue), v.heap[v.mBackQueue[i]].sent
      PROVE  v.heap[v.mBackQueue[i]].seq <= w.mLocalNext
  <2>1. v.heap[v.mBackQueue[i]].seq \in Nat
    BY Elements DEF DatagramType
  <2>2. v.heap[v.mBackQueue[i]].seq <= v.mLocalNext
    BY <1>4 DEF Lined, Numbered
  <2> QED BY <1>1, <2>1, <2>2
<1>5. Numbered(w, K)
  BY <1>1, <1>2, <1>3, <1>4 DEF Lined, Numbered
<1>6. Mark(w, 1) <= w.mLocalNext
  BY <1>1, <1>2 DEF Lined
<1> QED BY <1>5, <1>6 DEF Loose

LEMMA onReceiveSYNSettled ==
  ASSUME NEW v, Good(v), NEW K \in SUBSET Nat, Lined(v, K), Paused(v), ~v.full,
         NEW p \in PacketType,
         v.mState = "LISTEN" => v.mLocalSeq = 0 /\ v.mLocalNext = 0
  PROVE  Settled(onReceiveSYN(v, p), K)
<1>0. v \in MemoryType /\ Loose(v, K)
  BY SettledLoose DEF Good, GoodWith
<1>1. CASE v.mState # "LISTEN"
  BY <1>0, <1>1, flushBackQueueSettled DEF onReceiveSYN
<1>2. CASE v.mState = "LISTEN"
  <2> DEFINE w == [v EXCEPT !.mSack = v.mSack \/ p.sackf, !.mSendWindow = p.win,
                            !.mLocalSeq = 0, !.mLocalNext = 0, !.mRemoteNext = 1]
             x == pushInBackQueue(w, "SYN", 0, 0)
  <2>1. onReceiveSYN(v, p) = switchState(x, "SYN_RCVED")
    BY <1>2 DEF onReceiveSYN
  <2>2. w \in MemoryType /\ SameNumbers(v, w) /\ SameQueues(v, w) /\ w.mLocalSeq = 0
    <3>1. p.win \in Nat /\ p.sackf \in BOOLEAN
      BY DEF PacketType
    <3> QED BY <1>0, <1>2, <3>1 DEF MemoryType, SameNumbers, SameQueues
  <2> HIDE DEF w
  <2>3. Good(w) /\ Loose(w, K)
    BY <1>0, <2>2, SameQueuesGood, SameNumbersLined
  <2>4. "SYN" \in Flags /\ "SYN_RCVED" \in States /\ 0 \in Nat
    BY DEF Flags, States
  <2>5. Good(x) /\ Settled(x, K)
    BY <2>2, <2>3, <2>4, pushInBackQueueGood, pushInBackQueueSettled
  <2> HIDE DEF x
  <2> QED BY <2>1, <2>4, <2>5, switchStateSettled DEF Good, GoodWith
<1> QED BY <1>1, <1>2

LEMMA onReceiveFINSettled ==
  ASSUME NEW v, Good(v), NEW K \in SUBSET Nat, Lined(v, K),
         NEW p \in PacketType, p.ack \in K
  PROVE  Settled(onReceiveFIN(v, p), K)
<1> DEFINE n == IF v.mLocalNext <= p.ack THEN p.ack ELSE v.mLocalNext
           m == p.seq + 1
           w == [v EXCEPT !.mLocalNext = n, !.mRemoteNext = m]
           x == pushInBackQueue(w, "ACK", 0, 0)
           s == afterFIN(w, p)
<1>1. p.ack \in Nat /\ p.seq \in Nat /\ v \in MemoryType /\ v.mLocalNext \in Nat
  BY Fields DEF PacketType, Good, GoodWith
<1>2. n \in Nat /\ m \in Nat
  BY <1>1
<1>3. onReceiveFIN(v, p) = IF canPush(w) /\ s # w.mState
                           THEN switchState(x, s) ELSE x
  BY DEF onReceiveFIN
<1>4. s \in States /\ (s # w.mState => s # "ESTABLISHED")
  <2>1. w.mState \in States
    BY <1>1 DEF MemoryType
  <2> HIDE DEF w
  <2> QED BY <2>1 DEF afterFIN, States
<1> HIDE DEF n, m, s
<1>5. /\ w \in MemoryType /\ SameQueues(v, w) /\ w.mLocalNext = n
      /\ w.mLocalSeq = v.mLocalSeq
  BY <1>1, <1>2 DEF MemoryType, SameQueues
<1> HIDE DEF w
<1>6. Good(w) /\ Loose(w, K)
  <2>1. Good(w)
    BY <1>5, SameQueuesGood
  <2>2. Loose(w, K)
    BY <1>1, <1>5, RaisedLoose DEF SameQueues, n
  <2> QED BY <2>1, <2>2
<1>7. "ACK" \in Flags /\ "ACK" # "SYN" /\ 0 \in Nat
  BY DEF Flags
<1>8. Good(x) /\ Settled(x, K)
  BY <1>6, <1>7, pushInBackQueueGood, pushInBackQueueSettled
<1> HIDE DEF x
<1> QED BY <1>3, <1>4, <1>8, switchStateSettled DEF Good, GoodWith

LEMMA onSackLoose ==
  ASSUME NEW v \in MemoryType, NEW K, Loose(v, K), NEW sack
  PROVE  Loose(onSack(v, sack), K) /\ onSack(v, sack).full = v.full
BY onSackReturns

LEMMA enqueueIfNeedLoose ==
  ASSUME NEW v, Good(v), NEW K \in SUBSET Nat, v.full \/ Loose(v, K),
         NEW p \in PacketType
  PROVE  enqueueIfNeed(v, p).full \/ Loose(enqueueIfNeed(v, p), K)
<1> DEFINE f == [seq |-> p.seq, off |-> p.off, len |-> p.len]
           q == InsertAfter(v.mForwardQueue, smaller(v, p), f)
           w == [v EXCEPT !.mForwardQueue = q, !.mRemoteNext = v.mRemoteNext + p.len]
           x == pushInBackQueue(v, "ACK", 0, 0)
<1>0. v \in MemoryType
  BY DEF Good, GoodWith
<1>1. enqueueIfNeed(v, p) \in {requestSendData(w), x, v}
  BY DEF enqueueIfNeed
<1> HIDE DEF q
<1>2. SameNumbers(v, requestSendData(w))
  BY <1>0 DEF requestSendData, MemoryType, SameNumbers
<1> HIDE DEF w
<1>3. "ACK" \in Flags /\ "ACK" # "SYN" /\ 0 \in Nat
  BY DEF Flags
<1>4. Good(x) /\ Settled(x, K)
  BY <1>3, pushInBackQueueGood, pushInBackQueueSettled
<1> HIDE DEF x
<1>5. x.full \/ Loose(x, K)
  BY <1>4, SettledLoose DEF Settled, Good, GoodWith
<1>6. requestSendData(w).full \/ Loose(requestSendData(w), K)
  BY <1>2, SameNumbersLined DEF SameNumbers
<1> QED BY <1>1, <1>5, <1>6

LEMMA onEstablishedSettled ==
  ASSUME NEW v, Good(v), NEW K \in SUBSET Nat, v.full \/ Loose(v, K),
         NEW p \in PacketType
  PROVE  Settled(onEstablished(v, p), K)
<1> DEFINE w == IF v.mSack /\ p.sack.from < p.sack.to THEN onSack(v, p.sack) ELSE v
           x == enqueueIfNeed(w, p)
<1>0. v \in MemoryType
  BY DEF Good, GoodWith
<1>1. Good(w) /\ (w.full \/ Loose(w, K))
  <2>1. Good(onSack(v, p.sack))
    BY onSackGood
  <2>2. onSack(v, p.sack).full = v.full
    BY onSackReturns
  <2>3. Loose(v, K) => Loose(onSack(v, p.sack), K)
    BY <1>0, onSackLoose
  <2> QED BY <2>1, <2>2, <2>3
<1>2. onEstablished(v, p) \in {pushInBackQueue(x, "ACK", 0, 0), flushBackQueue(x)}
  BY DEF onEstablished
<1> HIDE DEF w
<1>3. Good(x) /\ (x.full \/ Loose(x, K))
  BY <1>1, enqueueIfNeedGood, enqueueIfNeedLoose
<1> HIDE DEF x
<1>4. "ACK" \in Flags /\ "ACK" # "SYN" /\ 0 \in Nat
  BY DEF Flags
<1> QED BY <1>2, <1>3, <1>4, pushInBackQueueSettled, flushBackQueueSettled

LEMMA onNewAckSettled ==
  ASSUME NEW v, Good(v), NEW K \in SUBSET Nat, v.full \/ Loose(v, K),
         NEW p \in PacketType
  PROVE  Settled(onNewAck(v, p), K)
<1>0. v \in MemoryType
  BY DEF Good, GoodWith
<1>1. {"ESTABLISHED", "FIN_WAIT2", "CLOSED", "TIME_WAIT"} \subseteq States
  BY DEF States
<1>2. ASSUME NEW s \in {"ESTABLISHED", "FIN_WAIT2", "CLOSED", "TIME_WAIT"}
      PROVE  /\ Good(switchState(v, s))
             /\ switchState(v, s).full \/ Loose(switchState(v, s), K)
  <2>1. SameNumbers(v, switchState(v, s))
    BY <1>0, <1>1, switchStateSettled
  <2>2. switchState(v, s).full \/ Loose(switchState(v, s), K)
    BY <2>1, SameNumbersLined DEF SameNumbers
  <2> QED BY <1>1, <2>2, switchStateGood
<1>3. ASSUME NEW s \in {"FIN_WAIT2", "CLOSED", "TIME_WAIT"}
      PROVE  Settled(flushBackQueue(switchState(v, s)), K)
  BY <1>2, flushBackQueueSettled
<1>4. Settled(flushBackQueue(enqueueIfNeed(switchState(v, "ESTABLISHED"), p)), K)
  <2> DEFINE e == switchState(v, "ESTABLISHED")
             x == enqueueIfNeed(e, p)
  <2>1. Good(e) /\ (e.full \/ Loose(e, K))
    BY <1>2
  <2> HIDE DEF e
  <2>2. Good(x) /\ (x.full \/ Loose(x, K))
    BY <2>1, enqueueIfNeedGood, enqueueIfNeedLoose
  <2> HIDE DEF x
  <2>3. Settled(flushBackQueue(x), K)
    BY <2>2, flushBackQueueSettled
  <2> QED BY <2>3 DEF x, e
<1>5. Settled(flushBackQueue(v), K) /\ Settled(onEstablished(v, p), K)
  BY flushBackQueueSettled, onEstablishedSettled
<1> QED BY <1>3, <1>4, <1>5 DEF onNewAck

LEMMA onReceiveACKSettled ==
  ASSUME NEW v, Good(v), NEW K \in SUBSET Nat, Lined(v, K), Paused(v),
         NEW p \in PacketType, p.ack \in K
  PROVE  Settled(onReceiveACK(v, p), K)
<1> DEFINE n == IF v.mLocalNext <= p.ack THEN p.ack ELSE v.mLocalNext
           w == [v EXCEPT !.mSendWindow = p.win, !.mLocalNext = n]
<1>1. p.win \in Nat /\ p.ack \in Nat /\ v \in MemoryType /\ v.mLocalNext \in Nat
  BY Fields DEF PacketType, Good, GoodWith
<1>2. n \in Nat
  BY <1>1
<1>3. onReceiveACK(v, p) = IF p.ack < v.mLocalNext THEN w ELSE onNewAck(w, p)
  BY DEF onReceiveACK
<1>4. p.ack < v.mLocalNext => n = v.mLocalNext
  BY <1>1
<1> HIDE DEF n
<1>5. /\ w \in MemoryType /\ SameQueues(v, w) /\ w.mLocalNext = n
      /\ w.mLocalSeq = v.mLocalSeq /\ w.mState = v.mState
      /\ w.socket = v.socket /\ w.rd = v.rd
  BY <1>1, <1>2 DEF MemoryType, SameQueues
<1> HIDE DEF w
<1>6. Good(w)
  BY <1>5, SameQueuesGood
<1>7. CASE p.ack < v.mLocalNext
  <2>1. SameNumbers(v, w)
    BY <1>4, <1>5, <1>7 DEF SameNumbers, SameQueues
  <2> QED BY <1>3, <1>5, <1>7, <2>1, SameNumbersLined DEF Settled, Paused
<1>8. CASE ~(p.ack < v.mLocalNext)
  <2>1. Loose(w, K)
    BY <1>1, <1>5, RaisedLoose DEF SameQueues, n
  <2> QED BY <1>3, <1>6, <1>8, <2>1, onNewAckSettled
<1> QED BY <1>7, <1>8

LEMMA acceptRests ==
  ASSUME NEW v, Good(v), ~v.full, NEW K \in SUBSET Nat, Lined(v, K), Paused(v),
         NEW p \in PacketType, p.ack \in K,
         v.mState = "LISTEN" => v.mLocalSeq = 0 /\ v.mLocalNext = 0
  PROVE  Rests(accept(v, p), K)
<1> DEFINE w == CASE p.flag = "SYN" -> onReceiveSYN(v, p)
                  [] p.flag = "FIN" -> onReceiveFIN(v, p)
                  [] p.flag = "RST" -> onReceiveRST(v)
                  [] OTHER          -> onReceiveACK(v, p)
<1>1. Good(onReceiveRST(v)) /\ onReceiveRST(v).mState = "CLOSED"
  <2>1. "CLOSED" \in States /\ v \in MemoryType
    BY DEF States, Good, GoodWith
  <2> QED BY <2>1, switchStateGood, switchStateSettled DEF onReceiveRST
<1>2. Good(w) /\ Rests(w, K)
  BY <1>1, onReceiveSYNGood, onReceiveFINGood, onReceiveACKGood,
     onReceiveSYNSettled, onReceiveFINSettled, onReceiveACKSettled DEF Rests
<1>3. accept(v, p) = [w EXCEPT !.idle = 0]
  BY DEF accept
<1> HIDE DEF w
<1>4. /\ SameNumbers(w, accept(v, p)) /\ accept(v, p).mState = w.mState
      /\ accept(v, p).socket = w.socket /\ accept(v, p).rd = w.rd
  BY <1>2, <1>3 DEF Good, GoodWith, MemoryType, SameNumbers
<1> QED BY <1>2, <1>4, SameNumbersLined DEF Rests, Settled, Paused, SameNumbers

LEMMA onTunnelDataBackSettled ==
  ASSUME NEW v, Good(v), NEW K \in SUBSET Nat, v.full \/ Lined(v, K),
         NEW off \in Nat, NEW len \in Nat
  PROVE  Settled(onTunnelDataBack(v, off, len), K)
<1> DEFINE w == pushInBackQueue(v, "ACK", off, len)
           x == IF BackQueueDataSize(w) >= SessionBuffer THEN pauseReceiveData(w) ELSE w
           y == onTunnelDataBack(v, off, len)
<1>1. w \in MemoryType /\ Settled(w, K)
  <2>1. "ACK" \in Flags /\ "ACK" # "SYN"
    BY DEF Flags
  <2>2. v.full \/ Loose(v, K)
    BY SettledLoose DEF Good, GoodWith
  <2> QED BY <2>1, <2>2, pushInBackQueueGood, pushInBackQueueSettled DEF Good, GoodWith
<1>2. y = [x EXCEPT !.idle = 0]
  BY DEF onTunnelDataBack
<1> HIDE DEF w
<1>3. BackQueueDataSize(w) >= SessionBuffer
        => BackQueueDataSize(w) >= SessionBuffer \div 2
  <2>1. SessionBuffer \in Nat /\ SessionBuffer \div 2 <= SessionBuffer
    BY MemoryAssumption
  <2> QED BY <1>1, <2>1, DataSizeNat
<1>4. SameNumbers(w, x) /\ Settled(x, K) /\ x \in MemoryType
  <2>1. CASE BackQueueDataSize(w) >= SessionBuffer
    <3>1. x = pauseReceiveData(w)
      BY <2>1
    <3>2. SameNumbers(w, x) /\ x \in MemoryType
      BY <1>1, <3>1, ZenonT(60) DEF pauseReceiveData, MemoryType, SameNumbers
    <3> HIDE DEF x
    <3> QED BY <1>1, <1>3, <2>1, <3>2, SameNumbersLined DEF Settled, Paused, SameNumbers
  <2>2. CASE ~(BackQueueDataSize(w) >= SessionBuffer)
    BY <1>1, <2>2 DEF SameNumbers
  <2> QED BY <2>1, <2>2
<1> HIDE DEF x
<1>5. /\ SameNumbers(x, y) /\ y.mState = x.mState
      /\ y.socket = x.socket /\ y.rd = x.rd
  BY <1>2, <1>4 DEF MemoryType, SameNumbers
<1> QED BY <1>4, <1>5, SameNumbersLined DEF Settled, Paused, SameNumbers

LEMMA resetConnectionCloses ==
  ASSUME NEW v \in MemoryType
  PROVE  resetConnection(v).mState = "CLOSED"
<1> DEFINE w == [v EXCEPT !.mLocalSeq = v.mLocalNext]
           c == FreshCell(w)
           r == [BuildPackage(w, "RST", 0, 0) EXCEPT !.release = TRUE]
           x == Allocate(w, r)
           y == sendBackSegment(x, c)
<1>1. w \in MemoryType
  BY Fields DEF MemoryType
<1>2. resetConnection(v) = switchState(y, "CLOSED")
  BY DEF resetConnection
<1> HIDE DEF w
<1>3. r \in DatagramType
  <2>1. "RST" \in Flags /\ 0 \in Nat
    BY DEF Flags
  <2>2. BuildPackage(w, "RST", 0, 0) \in DatagramType
    BY <1>1, <2>1, BuildPackageType
  <2> QED BY <2>2 DEF DatagramType
<1> HIDE DEF r
<1>4. x \in MemoryType /\ c \in Cells
  BY <1>1, <1>3, AllocateEffect
<1> HIDE DEF x, c
<1>5. y \in MemoryType
  BY <1>4, sendBackSegmentType
<1> HIDE DEF y
<1>6. "CLOSED" \in States
  BY DEF States
<1> QED BY <1>2, <1>5, <1>6, switchStateSettled

LEMMA onTunnelDisconnectedRests ==
  ASSUME NEW v, Good(v), NEW K \in SUBSET Nat, v.full \/ Lined(v, K)
  PROVE  Rests(onTunnelDisconnected(v), K)
<1> DEFINE w == [v EXCEPT !.mRemoteFinished = TRUE]
<1>1. v \in MemoryType /\ (v.full \/ Loose(v, K))
  BY SettledLoose DEF Good, GoodWith
<1>2. w \in MemoryType /\ SameQueues(v, w) /\ SameNumbers(v, w)
  BY <1>1 DEF MemoryType, SameQueues, SameNumbers
<1>3. onTunnelDisconnected(v) \in
        {flushBackQueue(w), switchState(v, "CLOSED"), resetConnection(v)}
  BY DEF onTunnelDisconnected, onRemoteFinished
<1> HIDE DEF w
<1>4. Good(w) /\ (w.full \/ Loose(w, K))
  BY <1>1, <1>2, SameQueuesGood, SameNumbersLined DEF SameNumbers
<1>5. "CLOSED" \in States
  BY DEF States
<1>6. switchState(v, "CLOSED").mState = "CLOSED"
  BY <1>1, <1>5, switchStateSettled
<1> QED BY <1>1, <1>3, <1>4, <1>6, flushBackQueueSettled, resetConnectionCloses DEF Rests

-----------------------------------------------------------------------------
(* Acknowledgements under way                                              *)

(* The numbers the session may still be acknowledged with: what the app    *)
(* expects next, n, and what the packets t in the tun device say.          *)
HeardOf(t, n) == {n} \cup {t[i].ack : i \in DOMAIN t}
Heard == HeardOf(tunIn, app.next)

LEMMA HeardSubsets ==
  ASSUME NEW t \in Seq(PacketType), NEW n \in Nat
  PROVE  /\ HeardOf(t, n) \in SUBSET Nat
         /\ t # <<>> => /\ Head(t).ack \in HeardOf(t, n)
                        /\ HeardOf(Tail(t), n) \subseteq HeardOf(t, n)
         /\ \A p : p.ack = n => HeardOf(Append(t, p), n) \subseteq HeardOf(t, n)
         /\ \A s \in Seq(PacketType), m \in Nat :
              (\A i \in DOMAIN s : s[i].ack = m)
                => HeardOf(t \o s, m) \subseteq HeardOf(t, n) \cup {m}
<1>0. /\ DOMAIN t = 1 .. Len(t) /\ Len(t) \in Nat
      /\ \A i \in 1 .. Len(t) : t[i] \in PacketType
  BY LenProperties, ElementOfSeq
<1>1. HeardOf(t, n) \in SUBSET Nat
  BY <1>0 DEF HeardOf, PacketType
<1>2. ASSUME t # <<>>
      PROVE  /\ Head(t).ack \in HeardOf(t, n)
             /\ HeardOf(Tail(t), n) \subseteq HeardOf(t, n)
  <2> DEFINE r == Tail(t)
  <2>1. /\ Len(t) # 0 /\ Head(t) = t[1]
        /\ r \in Seq(PacketType) /\ Len(r) = Len(t) - 1
        /\ \A i \in 1 .. Len(r) : r[i] = t[i + 1]
    BY <1>0, <1>2, EmptySeq, HeadTailProperties
  <2>2. DOMAIN r = 1 .. Len(r)
    BY <2>1, LenProperties
  <2> HIDE DEF r
  <2>3. 1 \in DOMAIN t
    BY <1>0, <2>1
  <2>4. \A i \in DOMAIN r : i + 1 \in DOMAIN t
    BY <1>0, <2>1, <2>2
  <2>5. HeardOf(r, n) \subseteq HeardOf(t, n)
    BY <2>1, <2>2, <2>4 DEF HeardOf
  <2> QED BY <2>1, <2>3, <2>5 DEF HeardOf, r
<1>3. ASSUME NEW p, p.ack = n
      PROVE  HeardOf(Append(t, p), n) \subseteq HeardOf(t, n)
  <2> DEFINE r == Append(t, p)
  <2>0. t \in Seq(PacketType \cup {p})
    BY <1>0
  <2>1. /\ r \in Seq(PacketType \cup {p}) /\ Len(r) = Len(t) + 1
        /\ \A i \in 1 .. Len(t) : r[i] = t[i]
        /\ r[Len(t) + 1] = p
    BY <2>0, AppendProperties
  <2>2. DOMAIN r = 1 .. Len(r)
    BY <2>1, LenProperties
  <2> HIDE DEF r
  <2>3. \A i \in DOMAIN r : i \in DOMAIN t \/ i = Len(t) + 1
    BY <1>0, <2>1, <2>2
  <2>4. HeardOf(r, n) \subseteq HeardOf(t, n)
    BY <1>0, <1>3, <2>1, <2>3 DEF HeardOf
  <2> QED BY <2>4 DEF r
<1>4. ASSUME NEW s \in Seq(PacketType), NEW m \in Nat, \A i \in DOMAIN s : s[i].ack = m
      PROVE  HeardOf(t \o s, m) \subseteq HeardOf(t, n) \cup {m}
  <2> DEFINE r == t \o s
  <2>0. DOMAIN s = 1 .. Len(s) /\ Len(s) \in Nat
    BY LenProperties
  <2>1. /\ r \in Seq(PacketType) /\ Len(r) = Len(t) + Len(s)
        /\ \A i \in 1 .. Len(t) + Len(s) :
             r[i] = IF i <= Len(t) THEN t[i] ELSE s[i - Len(t)]
    BY ConcatProperties
  <2>2. DOMAIN r = 1 .. Len(r)
    BY <2>1, LenProperties
  <2> HIDE DEF r
  <2>3. ASSUME NEW i \in DOMAIN r PROVE r[i].ack \in HeardOf(t, n) \cup {m}
    <3>1. CASE i <= Len(t)
      <4>1. i \in DOMAIN t
        BY <1>0, <2>0, <2>1, <2>2, <3>1
      <4> QED BY <2>0, <2>1, <2>2, <3>1, <4>1 DEF HeardOf
    <3>2. CASE ~(i <= Len(t))
      <4>1. i - Len(t) \in DOMAIN s /\ i \in 1 .. Len(t) + Len(s)
        BY <1>0, <2>0, <2>1, <2>2, <3>2
      <4> QED BY <1>4, <2>1, <3>2, <4>1
    <3> QED BY <3>1, <3>2
  <2>4. HeardOf(r, m) \subseteq HeardOf(t, n) \cup {m}
    BY <2>3 DEF HeardOf
  <2> QED BY <2>4 DEF r
<1> QED BY <1>1, <1>2, <1>3, <1>4

LEMMA FewerHeard ==
  ASSUME NEW v, NEW K, NEW J, J \subseteq K
  PROVE  /\ Lined(v, K) => Lined(v, J)
         /\ Rests(v, K) => Rests(v, J)
BY DEF Rests, Settled, Lined, Numbered

(* Every mark of the queue is a number the app may come to expect.         *)
LEMMA MarkBetween ==
  ASSUME NEW v \in MemoryType, NEW K, Numbered(v, K),
         NEW i \in 1 .. Len(v.mBackQueue) + 1
  PROVE  Between(v, Mark(v, i))
<1> DEFINE l == Len(v.mBackQueue)
<1>1. l \in Nat /\ v.mLocalSeq \in Nat /\ \A j \in 1 .. l + 1 : Mark(v, j) \in Nat
  BY Elements, Fields
<1>2. \A j, k \in 1 .. l + 1 : j <= k => Mark(v, j) <= Mark(v, k)
  BY DEF Numbered
<1>3. Mark(v, i) <= v.mLocalSeq
  <2>1. Mark(v, l + 1) = v.mLocalSeq
    <3>1. ~(l + 1 <= l)
      BY <1>1
    <3> QED BY <3>1 DEF Mark
  <2>2. l + 1 \in 1 .. l + 1 /\ i <= l + 1
    BY <1>1
  <2> QED BY <1>2, <2>1, <2>2
<1>4. ASSUME NEW j \in 1 .. l
      PROVE  Mark(v, i) <= Mark(v, j) \/ Mark(v, j + 1) <= Mark(v, i)
  <2>1. j \in 1 .. l + 1 /\ j + 1 \in 1 .. l + 1 /\ (i <= j \/ j + 1 <= i)
    BY <1>1
  <2> QED BY <1>2, <2>1
<1> QED BY <1>3, <1>4 DEF Between

LEMMA AckedNext ==
  ASSUME NEW a \in AppType, NEW d \in DatagramType
  PROVE  Acked(a, d) \in AppType /\ Acked(a, d).next = a.next /\ Acked(a, d).st = a.st
BY DEF Acked, AppType, DatagramType

(* What the app expects after a datagram the session still points to.      *)
LEMMA ReceivedBetween ==
  ASSUME NEW v \in MemoryType, NEW K, Numbered(v, K), NEW c \in Held(v),
         NEW a \in AppType, Between(v, a.next),
         a.st = "open" => a.next >= 1
  PROVE  Between(v, Received(a, v.heap[c]).next)
<1> DEFINE d == v.heap[c]
           m == a.next + (IF d.flag = "FIN" THEN 1 ELSE d.len)
<1>1. PICK i \in 1 .. Len(v.mBackQueue) : v.mBackQueue[i] = c
  BY Elements DEF Held, CellsOf
<1>2. /\ Len(v.mBackQueue) \in Nat /\ d \in DatagramType
      /\ Mark(v, i + 1) = d.seq + Advance(d)
      /\ d.flag = "SYN" => d.seq = 0
  BY <1>1, Elements DEF Numbered
<1>3. Between(v, d.seq + Advance(d))
  <2>1. i + 1 \in 1 .. Len(v.mBackQueue) + 1
    BY <1>2
  <2> QED BY <1>2, <2>1, MarkBetween
<1> HIDE DEF d
<1>4. d.seq \in Nat /\ d.len \in Nat /\ d.flag \in Flags /\ a.next \in Nat
  BY <1>2 DEF DatagramType, AppType
<1>5. Acked(a, d).next = a.next /\ Acked(a, d) \in AppType
  BY <1>2, AckedNext
<1>6. CASE d.flag = "RST" \/ (a.st = "syn" /\ d.flag = "SYN") \/ a.st # "open"
  <2>1. Received(a, d).next = a.next
          \/ (d.flag = "SYN" /\ Received(a, d).next = 1)
    BY <1>6 DEF Received, AppType
  <2>2. d.flag = "SYN" => d.seq + Advance(d) = 1
    BY <1>2 DEF Advance
  <2> QED BY <1>3, <2>1, <2>2 DEF d
<1>7. CASE ~(d.flag = "RST" \/ (a.st = "syn" /\ d.flag = "SYN") \/ a.st # "open")
  <2>1. CASE ~InOrder(a, d)
    BY <1>5, <1>7, <2>1 DEF Received, d
  <2>2. CASE InOrder(a, d)
    <3>1. Received(a, d).next = m
      <4>1. Received(a, d) = [Acked(a, d) EXCEPT
                 !.next = Acked(a, d).next + (IF d.flag = "FIN" THEN 1 ELSE d.len),
                 !.eof = d.flag = "FIN",
                 !.got = Extend(Acked(a, d).got, d.off, d.len)]
        BY <1>7, <2>2 DEF Received
      <4> QED BY <1>5, <4>1 DEF AppType
    <3>2. d.seq = a.next
      BY <2>2 DEF InOrder
    <3>3. d.flag # "SYN"
      BY <1>2, <1>4, <1>7, <3>2
    <3>4. m = d.seq + Advance(d)
      BY <3>2, <3>3 DEF Advance
    <3> QED BY <1>3, <3>1, <3>4 DEF d
  <2> QED BY <2>1, <2>2
<1> QED BY <1>6, <1>7

(* The app's numbers only grow, and start with the SYN.                    *)
LEMMA ReceivedNext ==
  ASSUME NEW a \in AppType, NEW d \in DatagramType, a.st = "open" => a.next >= 1
  PROVE  /\ Received(a, d).st = "open" => Received(a, d).next >= 1
         /\ d.flag = "RST" => Received(a, d).next = a.next
         /\ \A i \in DOMAIN Answers(a, d) :
              Answers(a, d)[i].ack = Received(a, d).next
<1> DEFINE r == Received(a, d)
           b == Acked(a, d)
           e == [b EXCEPT !.next = b.next + (IF d.flag = "FIN" THEN 1 ELSE d.len),
                          !.eof = d.flag = "FIN",
                          !.got = Extend(b.got, d.off, d.len)]
           f == [a EXCEPT !.st = "done"]
           g == [a EXCEPT !.st = "open", !.next = 1, !.una = 1]
<1>1. d.len \in Nat /\ a.next \in Nat
  BY DEF DatagramType, AppType
<1>2. b \in AppType /\ b.next = a.next /\ b.st = a.st
  BY AckedNext
<1>3. r \in {f, g, a, b, e} /\ (d.flag = "RST" => r = f)
  BY DEF Received
<1>4. e.st = a.st /\ e.next \in Nat /\ e.next >= a.next
  <2> DEFINE k == IF d.flag = "FIN" THEN 1 ELSE d.len
  <2>1. k \in Nat
    BY <1>1
  <2>2. e.st = a.st /\ e.next = a.next + k
    BY <1>2 DEF AppType
  <2> QED BY <1>1, <2>1, <2>2
<1>5. f.st = "done" /\ f.next = a.next /\ g.next = 1
  BY DEF AppType
<1> HIDE DEF e, b, f, g
<1>6. r \in AppType
  BY ReceivedType
<1>7. Answers(a, d) = <<>>
      \/ \E p : Answers(a, d) = <<p>> /\ p.ack = r.next
  <2> DEFINE p == BareAck(r)
             u == [p EXCEPT !.sack = [from |-> d.seq, to |-> d.seq + d.len]]
  <2>1. p.ack = r.next
    BY DEF BareAck, Packet
  <2>2. u.ack = r.next
    BY DEF BareAck, Packet
  <2>3. Answers(a, d) = <<>> \/ Answers(a, d) = <<p>> \/ Answers(a, d) = <<u>>
    BY DEF Answers
  <2> HIDE DEF p, u, r
  <2> QED BY <2>1, <2>2, <2>3
<1> HIDE DEF r
<1>8. r.st = "open" => r.next >= 1
  BY <1>1, <1>2, <1>3, <1>4, <1>5
<1>9. \A i \in DOMAIN Answers(a, d) : Answers(a, d)[i].ack = r.next
  BY <1>7
<1> QED BY <1>3, <1>5, <1>8, <1>9 DEF r

(* A datagram that leaves the Router's queue keeps its number.             *)
LEMMA RouterUnqueueRests ==
  ASSUME NEW v \in MemoryType, ~v.full, Agreed(v, {}), v.mData # <<>>,
         NEW w \in MemoryType, NEW e, w = [RouterUnqueue(v) EXCEPT !.tunWrite = e],
         NEW K, Rests(v, K)
  PROVE  Rests(w, K)
<1> DEFINE c == Head(v.mData)
           d == IF v.heap[c].release THEN Free
                ELSE [v.heap[c] EXCEPT !.buffering = FALSE]
           h == [v.heap EXCEPT ![c] = d]
           q == Tail(v.mData)
           u == [v EXCEPT !.mData = q, !.heap = h]
<1>1. c \in Cells /\ v.heap \in [Cells -> DatagramType] /\ v.heap[c] \in DatagramType
  <2>1. v.mData \in Seq(Cells) /\ v.heap \in [Cells -> DatagramType]
    BY Fields
  <2> QED BY <2>1, CellsTail
<1>2. v.heap[c].release => c \notin Held(v) /\ d = Free
  BY <1>1 DEF Agreed
<1>3. ~v.heap[c].release => /\ d.seq = v.heap[c].seq /\ d.flag = v.heap[c].flag
                            /\ d.len = v.heap[c].len /\ d.sent = v.heap[c].sent
                            /\ ~d.release
  BY <1>1 DEF DatagramType
<1>4. RouterUnqueue(v) = u
  BY DEF RouterUnqueue
<1> HIDE DEF c, d, q
<1>5. h[c] = d /\ \A b \in Cells : b # c => h[b] = v.heap[b]
  BY <1>1
<1> HIDE DEF h
<1>6. DOMAIN u = DOMAIN v /\ u.heap = h /\ u.mBackQueue = v.mBackQueue
      /\ u.mLocalSeq = v.mLocalSeq /\ u.mLocalNext = v.mLocalNext
      /\ u.mState = v.mState /\ u.socket = v.socket /\ u.rd = v.rd
      /\ u.full = v.full
  BY DEF MemoryType
<1> HIDE DEF u
<1>7. /\ w.heap = h /\ w.mBackQueue = v.mBackQueue
      /\ w.mLocalSeq = v.mLocalSeq /\ w.mLocalNext = v.mLocalNext
      /\ w.mState = v.mState /\ w.socket = v.socket /\ w.rd = v.rd
      /\ w.full = v.full
  BY <1>4, <1>6
<1>8. ASSUME NEW i \in 1 .. Len(v.mBackQueue)
      PROVE  LET x == v.heap[v.mBackQueue[i]]
                 y == w.heap[v.mBackQueue[i]]
             IN  /\ y.seq = x.seq /\ y.flag = x.flag /\ y.len = x.len
                 /\ y.sent => x.sent \/ x.seq <= v.mLocalNext
  <2>1. v.mBackQueue[i] \in Cells /\ v.mBackQueue[i] \in Held(v)
    BY Elements
  <2> QED BY <1>2, <1>3, <1>5, <1>7, <2>1
<1>9. Numbered(v, K) => \A b \in Cells : w.heap[b].release => w.heap[b].abort
  <2>1. ~d.release
    BY <1>2, <1>3, FreeType
  <2> QED BY <1>5, <1>7, <2>1 DEF Numbered
<1>10. /\ Lined(v, K) => Lined(w, K)
       /\ BackQueueDataSize(w) = BackQueueDataSize(v)
  BY <1>7, <1>8, <1>9, TouchedLined
<1> QED BY <1>7, <1>10 DEF Rests, Settled, Paused

-----------------------------------------------------------------------------
(* The numbers hold in every state                                         *)

(* BackQueueNumbered and PausedWhenFull, as long as there is a session, or *)
(* may be one; a number the app or a packet of its holds cuts no datagram. *)
NumInv ==
  /\ EndInv
  /\ mem.exists # "deleted" => Rests(mem, Heard)
  /\ mem.exists = "never" => mem.mLocalSeq = 0 /\ mem.mData = <<>> /\ app.st # "open"
  /\ mem.exists = "yes" => mem.mState # "LISTEN"
  /\ app.st = "open" => app.next >= 1

(* What every step has to leave.                                           *)
NumKept ==
  /\ mem'.exists # "deleted" => Rests(mem', HeardOf(tunIn', app'.next))
  /\ mem'.exists = "never" => mem'.mLocalSeq = 0 /\ mem'.mData = <<>> /\ app'.st # "open"
  /\ mem'.exists = "yes" => mem'.mState # "LISTEN"
  /\ app'.st = "open" => app'.next >= 1

LEMMA NumParts ==
  ASSUME NumInv
  PROVE  /\ Inv /\ Inv /\ Good(mem) /\ mem \in MemoryType /\ ~mem.full
         /\ Agreed(mem, {}) /\ tunIn \in Seq(PacketType)
         /\ app \in AppType /\ app.next \in Nat /\ remote \in RemoteType
         /\ Heard \in SUBSET Nat /\ app.next \in Heard
         /\ (mem.tunWrite => mem.mData # <<>>)
         /\ (mem.exists # "deleted" /\ mem.mState # "CLOSED" =>
               Lined(mem, Heard) /\ Paused(mem))
<1>1. Inv
  BY DEF NumInv, EndInv
<1>2. Good(mem) /\ mem \in MemoryType /\ ~mem.full /\ Agreed(mem, {})
  BY <1>1, InvIsGood DEF Inv
<1>3. TypeOK
  BY <1>1 DEF Inv
<1>4. tunIn \in Seq(PacketType) /\ app \in AppType /\ remote \in RemoteType
  BY <1>3, Zenon DEF TypeOK
<1>5. app.next \in Nat
  BY <1>4 DEF AppType
<1>6. Heard \in SUBSET Nat /\ app.next \in Heard
  BY <1>4, <1>5, HeardSubsets DEF Heard, HeardOf
<1>7. mem.tunWrite => mem.mData # <<>>
  BY <1>2 DEF Agreed
<1>8. mem.exists # "deleted" /\ mem.mState # "CLOSED" =>
        Lined(mem, Heard) /\ Paused(mem)
  BY <1>2 DEF NumInv, Rests, Settled
<1> QED BY <1>1, <1>2, <1>4, <1>5, <1>6, <1>7, <1>8

(* A step that leaves the memory as it is.                                 *)
LEMMA AsideNum ==
  ASSUME NumInv, mem' = mem, app'.next = app.next, app'.st = "open" => app.st = "open",
         HeardOf(tunIn', app.next) \subseteq Heard
  PROVE  NumKept
BY FewerHeard DEF NumInv, NumKept

(* A handler that leaves the memory v.                                     *)
LEMMA HandlerNum ==
  ASSUME NumInv, NEW v, mem' = v, Rests(v, Heard), v.exists = "yes",
         v.mState # "LISTEN", UNCHANGED app,
         HeardOf(tunIn', app.next) \subseteq Heard
  PROVE  NumKept
BY FewerHeard DEF NumInv, NumKept

LEMMA EmitNum ==
  ASSUME NumInv, NEW a, NEW p, Emit(a, p), a.next = app.next,
         p.ack = app.next, a.st = "open" => app.st = "open"
  PROVE  NumKept
<1>1. mem' = mem /\ app' = a /\ tunIn' = Append(tunIn, p)
  BY DEF Emit
<1>2. HeardOf(tunIn', app.next) \subseteq Heard
  BY <1>1, NumParts, HeardSubsets DEF Heard
<1> QED BY <1>1, <1>2, AsideNum

LEMMA KernelNum ==
  ASSUME NumInv, Kernel
  PROVE  NumKept
<1>0. app \in AppType
  BY NumParts
<1>1. ASSUME NEW a \in AppType, a.next = app.next, NEW f, NEW s, NEW o, NEW l
      PROVE  Packet(a, f, s, o, l).ack = app.next
  BY <1>1 DEF Packet
<1>2. CASE AppConnect
  <2> DEFINE a == [app EXCEPT !.st = "syn"]
  <2>1. a.next = app.next /\ a.st # "open"
    BY <1>0 DEF AppType
  <2>2. Emit(a, Packet(app, "SYN", 0, 0, 0))
    BY <1>2 DEF AppConnect
  <2> HIDE DEF a
  <2> QED BY <1>0, <1>1, <2>1, <2>2, EmitNum
<1>3. ASSUME NEW n, AppSend(n) PROVE NumKept
  <2> DEFINE a == [app EXCEPT !.sent = app.sent + n]
  <2>1. a.next = app.next /\ a.st = app.st
    BY <1>0 DEF AppType
  <2>2. Emit(a, Packet(app, "ACK", 1 + app.sent, app.sent, n))
    BY <1>3 DEF AppSend
  <2> HIDE DEF a
  <2> QED BY <1>0, <1>1, <2>1, <2>2, EmitNum
<1>4. ASSUME NEW n, AppClose(n) PROVE NumKept
  <2> DEFINE a == [app EXCEPT !.sent = app.sent + n, !.fin = TRUE]
  <2>1. a.next = app.next /\ a.st = app.st
    BY <1>0 DEF AppType
  <2>2. Emit(a, Packet(app, "FIN", 1 + app.sent, app.sent, n))
    BY <1>4 DEF AppClose
  <2> HIDE DEF a
  <2> QED BY <1>0, <1>1, <2>1, <2>2, EmitNum
<1>5. CASE AppReset
  <2> DEFINE a == [app EXCEPT !.st = "done"]
  <2>1. a.next = app.next /\ a.st # "open"
    BY <1>0 DEF AppType
  <2>2. Emit(a, Packet(app, "RST", SndNxt(app), 0, 0))
    BY <1>5 DEF AppReset
  <2> HIDE DEF a
  <2> QED BY <1>0, <1>1, <2>1, <2>2, EmitNum
<1>6. ASSUME NEW w, AppWindow(w) PROVE NumKept
  <2> DEFINE a == [app EXCEPT !.win = w]
  <2>1. a.next = app.next /\ a.st = app.st
    BY <1>0 DEF AppType
  <2>2. Emit(a, BareAck(a))
    BY <1>6 DEF AppWindow
  <2> HIDE DEF a
  <2>3. BareAck(a).ack = app.next
    BY <2>1 DEF BareAck, Packet
  <2> QED BY <2>1, <2>2, <2>3, EmitNum
<1>7. CASE AppRetransmit
  <2>1. Emit(app, Unacked(app))
    BY <1>7 DEF AppRetransmit
  <2>2. Unacked(app).ack = app.next
    BY <1>0, <1>1 DEF Unacked
  <2> QED BY <2>1, <2>2, EmitNum
<1>8. CASE TunDrop
  <2>1. mem' = mem /\ app' = app /\ tunIn' = Tail(tunIn) /\ tunIn # <<>>
    BY <1>8 DEF TunDrop
  <2>2. HeardOf(tunIn', app.next) \subseteq Heard
    BY <2>1, NumParts, HeardSubsets DEF Heard
  <2> QED BY <2>1, <2>2, AsideNum
<1> QED BY <1>2, <1>3, <1>4, <1>5, <1>6, <1>7, <1>8 DEF Kernel

(* The first packet builds the session and is its SYN.                     *)
LEMMA buildSessionRests ==
  ASSUME NEW v, Good(v), ~v.full, NEW K \in SUBSET Nat, Lined(v, K), v.mLocalSeq = 0,
         NEW p \in PacketType, p.ack \in K, p.flag = "SYN"
  PROVE  LET w == accept(buildSession(v), p)
         IN  Rests(w, K) /\ w.exists = "yes" /\ w.mState # "LISTEN"
<1> DEFINE b == buildSession(v)
           x == onReceiveSYN(b, p)
<1>0. v \in MemoryType
  BY DEF Good, GoodWith
<1>1. /\ SameNumbers(v, b) /\ b.mState = "LISTEN" /\ b.rd /\ b.exists = "yes"
  BY <1>0 DEF buildSession, establish, MemoryType, SameNumbers
<1>2. Good(b) /\ ~b.full /\ Lined(b, K) /\ Paused(b)
  BY <1>1, buildSessionGood, SameNumbersLined DEF Paused, SameNumbers
<1> HIDE DEF b
<1>3. b.mLocalSeq = 0 /\ b.mLocalNext = 0
  <2>1. b.mLocalNext \in Nat
    BY <1>2, Fields DEF Good, GoodWith
  <2>2. Between(b, b.mLocalNext)
    BY <1>2 DEF Lined, Numbered
  <2> QED BY <1>1, <2>1, <2>2 DEF Between, SameNumbers
<1>4. Rests(accept(b, p), K)
  BY <1>2, <1>3, acceptRests
<1>5. accept(b, p).exists = "yes"
  BY <1>1, <1>2, acceptLives DEF Lives
<1>6. accept(b, p) = [x EXCEPT !.idle = 0]
  BY DEF accept
<1>7. x.mState = "SYN_RCVED" /\ x \in MemoryType
  <2> DEFINE y == [b EXCEPT !.mSack = b.mSack \/ p.sackf, !.mSendWindow = p.win,
                            !.mLocalSeq = 0, !.mLocalNext = 0, !.mRemoteNext = 1]
             z == pushInBackQueue(y, "SYN", 0, 0)
  <2>1. x = switchState(z, "SYN_RCVED")
    BY <1>1 DEF onReceiveSYN
  <2>2. b \in MemoryType
    BY <1>2 DEF Good, GoodWith
  <2>3. y \in MemoryType /\ SameQueues(b, y)
    BY <2>2, ZenonT(60) DEF MemoryType, SameQueues, PacketType
  <2> HIDE DEF y
  <2>4. Good(y)
    BY <1>2, <2>3, SameQueuesGood
  <2>5. "SYN" \in Flags /\ "SYN_RCVED" \in States /\ 0 \in Nat
    BY DEF Flags, States
  <2>6. z \in MemoryType
    BY <2>4, <2>5, pushInBackQueueGood DEF Good, GoodWith
  <2> HIDE DEF z
  <2>7. x \in MemoryType
    BY <1>2, onReceiveSYNGood DEF Good, GoodWith
  <2> QED BY <2>1, <2>5, <2>6, <2>7, switchStateSettled
<1>8. accept(b, p).mState # "LISTEN"
  BY <1>6, <1>7 DEF MemoryType
<1> QED BY <1>4, <1>5, <1>8 DEF b

LEMMA TunNum ==
  ASSUME NumInv, Tun
  PROVE  NumKept
<1>0. /\ Good(mem) /\ mem \in MemoryType /\ ~mem.full /\ Agreed(mem, {})
      /\ tunIn \in Seq(PacketType) /\ app \in AppType /\ app.next \in Nat
      /\ Heard \in SUBSET Nat /\ app.next \in Heard
  BY NumParts
<1>1. CASE RouterReadTun
  <2> DEFINE p == Head(tunIn)
  <2>1. p \in PacketType /\ tunIn # <<>>
    BY <1>0, <1>1, HeadTailProperties DEF RouterReadTun
  <2>2. tunIn' = Tail(tunIn) /\ UNCHANGED app
    BY <1>1 DEF RouterReadTun
  <2>3. p.ack \in Heard /\ HeardOf(tunIn', app.next) \subseteq Heard
    BY <1>0, <2>1, <2>2, HeardSubsets DEF Heard
  <2>4. CASE mem.exists = "yes" /\ ~hasClosed(mem) /\ mem' = accept(mem, p)
    <3>1. mem.mState # "CLOSED" /\ mem.mState # "LISTEN"
      BY <2>4 DEF NumInv, EndInv, Ended, hasClosed
    <3>2. Lined(mem, Heard) /\ Paused(mem)
      BY <2>4, <3>1, NumParts
    <3>3. Rests(accept(mem, p), Heard)
      BY <1>0, <2>1, <2>3, <3>1, <3>2, acceptRests
    <3>4. Lives(mem, accept(mem, p))
      BY <1>0, <2>1, acceptLives
    <3> QED BY <2>2, <2>3, <2>4, <3>1, <3>3, <3>4, HandlerNum DEF Lives
  <2>5. CASE mem.exists = "never" /\ p.flag = "SYN" /\ mem' = accept(buildSession(mem), p)
    <3>1. mem.mLocalSeq = 0 /\ mem.mState # "CLOSED"
      BY <2>5 DEF NumInv, EndInv
    <3>2. Lined(mem, Heard)
      BY <2>5, <3>1, NumParts
    <3> DEFINE w == accept(buildSession(mem), p)
    <3>3. Rests(w, Heard) /\ w.exists = "yes" /\ w.mState # "LISTEN"
      BY <1>0, <2>1, <2>3, <2>5, <3>1, <3>2, buildSessionRests
    <3> HIDE DEF w
    <3>4. mem' = w
      BY <2>5 DEF w
    <3> QED BY <2>2, <2>3, <3>3, <3>4, HandlerNum
  <2>6. CASE mem' = mem
    BY <2>2, <2>3, <2>6, AsideNum
  <2> QED BY <1>1, <2>4, <2>5, <2>6 DEF RouterReadTun, Leave
<1>2. ASSUME TunLoop, AfterWrite(RouterUnqueue(mem))
      PROVE  /\ Rests(mem, Heard) => Rests(mem', Heard)
             /\ mem'.exists = mem.exists /\ mem.exists # "never"
             /\ mem'.mState = mem.mState
             /\ \A b : Between(mem, b) <=> Between(mem', b)
  <2> DEFINE e == RouterUnqueue(mem).mData # <<>>
             w == [RouterUnqueue(mem) EXCEPT !.tunWrite = e]
  <2>1. mem.mData # <<>> /\ mem' = w
    BY <1>2, NumParts DEF TunLoop, AfterWrite
  <2>2. w \in MemoryType
    BY <1>0, <2>1, RouterUnqueueGood
  <2>3. Rests(mem, Heard) => Rests(w, Heard)
    <3> HIDE DEF e
    <3> QED BY <1>0, <2>1, <2>2, RouterUnqueueRests
  <2>4. /\ w.exists = mem.exists /\ w.mState = mem.mState
        /\ w.mBackQueue = mem.mBackQueue /\ w.mLocalSeq = mem.mLocalSeq
    BY <1>0 DEF RouterUnqueue, MemoryType
  <2>5. ASSUME NEW i \in 1 .. Len(mem.mBackQueue)
        PROVE  w.heap[mem.mBackQueue[i]].seq = mem.heap[mem.mBackQueue[i]].seq
    <3> DEFINE c == Head(mem.mData)
               b == mem.mBackQueue[i]
    <3>1. b \in Cells /\ b \in Held(mem)
          /\ mem.heap \in [Cells -> DatagramType] /\ mem.heap[b] \in DatagramType
      BY <1>0, Elements, Fields
    <3>2. ~mem.heap[b].release
      BY <1>0, <3>1 DEF Agreed
    <3>3. w.heap[b] \in {mem.heap[b], [mem.heap[b] EXCEPT !.buffering = FALSE]}
      BY <1>0, <3>1, <3>2 DEF RouterUnqueue, MemoryType
    <3> HIDE DEF w, b
    <3>4. w.heap[b].seq = mem.heap[b].seq
      BY <3>1, <3>3 DEF DatagramType
    <3> QED BY <3>4 DEF b
  <2> HIDE DEF w
  <2>6. \A i \in 1 .. Len(mem.mBackQueue) + 1 : Mark(w, i) = Mark(mem, i)
    <3>1. Len(mem.mBackQueue) \in Nat
      BY <1>0, Elements
    <3>2. \A i \in 1 .. Len(mem.mBackQueue) + 1 :
            i <= Len(mem.mBackQueue) => i \in 1 .. Len(mem.mBackQueue)
      BY <3>1
    <3> QED BY <2>4, <2>5, <3>2 DEF Mark
  <2>7. \A b : Between(mem, b) <=> Between(w, b)
    <3>1. \A i \in 1 .. Len(mem.mBackQueue) :
            /\ i \in 1 .. Len(mem.mBackQueue) + 1
            /\ i + 1 \in 1 .. Len(mem.mBackQueue) + 1
      BY <1>0, Elements
    <3> QED BY <2>4, <2>6, <3>1 DEF Between
  <2>8. mem.exists # "never"
    BY <2>1 DEF NumInv
  <2> QED BY <2>1, <2>3, <2>4, <2>7, <2>8
<1>3. CASE RouterSkipAborted
  <2>1. /\ TunLoop /\ AfterWrite(RouterUnqueue(mem)) /\ UNCHANGED <<tunIn, app>>
    BY <1>3 DEF RouterSkipAborted
  <2> QED BY <1>2, <2>1 DEF NumInv, NumKept, Heard
<1>5. CASE RouterWriteFails
  <2> DEFINE w == [mem EXCEPT !.tunWrite = FALSE]
  <2>1. mem' = w /\ UNCHANGED <<tunIn, app>> /\ mem.exists # "never"
    BY <1>5, NumParts DEF RouterWriteFails, TunLoop, NumInv
  <2>2. /\ SameNumbers(mem, w) /\ w.exists = mem.exists /\ w.mState = mem.mState
        /\ w.socket = mem.socket /\ w.rd = mem.rd
    BY <1>0 DEF MemoryType, SameNumbers
  <2> HIDE DEF w
  <2>3. Rests(mem, Heard) => Rests(w, Heard)
    BY <2>2, SameNumbersLined DEF Rests, Settled, Paused, SameNumbers
  <2> QED BY <2>1, <2>2, <2>3 DEF NumInv, NumKept, Heard
<1>4. CASE RouterWriteTun
  <2> DEFINE c == Head(mem.mData)
             d == mem.heap[c]
             r == Received(app, d)
             a == Answers(app, d)
  <2>1. TunLoop /\ AfterWrite(RouterUnqueue(mem)) /\ ~d.abort
        /\ app' = r /\ tunIn' = tunIn \o a
    BY <1>4 DEF RouterWriteTun
  <2>2. mem.mData # <<>>
    BY <2>1, NumParts DEF TunLoop
  <2>3. c \in Cells /\ c \in Queued(mem) /\ d \in DatagramType
    <3>1. mem.mData \in Seq(Cells) /\ mem.heap \in [Cells -> DatagramType]
      BY <1>0, Fields
    <3> QED BY <2>2, <3>1, CellsTail DEF Queued
  <2>4. app.st = "open" => app.next >= 1
    BY DEF NumInv
  <2>5. /\ r \in AppType /\ a \in Seq(PacketType)
        /\ r.st = "open" => r.next >= 1
        /\ \A i \in DOMAIN a : a[i].ack = r.next
    BY <1>0, <2>3, <2>4, ReceivedType, ReceivedNext
  <2>6. mem.exists # "deleted" /\ mem.mState # "CLOSED" => Between(mem, r.next)
    <3>1. SUFFICES ASSUME mem.exists # "deleted", mem.mState # "CLOSED"
                   PROVE  Between(mem, r.next)
      OBVIOUS
    <3>2. Numbered(mem, Heard) /\ Between(mem, app.next)
      BY <1>0, <3>1, NumParts DEF Lined, Numbered
    <3>3. c \in Held(mem)
      BY <1>0, <2>1, <2>3, <3>2 DEF Numbered, Agreed
    <3> QED BY <1>0, <2>4, <3>2, <3>3, ReceivedBetween
  <2> HIDE DEF c, d, r, a
  <2>7. r.next \in Nat
    BY <2>5 DEF AppType
  <2>8. HeardOf(tunIn', app'.next) \subseteq Heard \cup {r.next}
    BY <1>0, <2>1, <2>5, <2>7, HeardSubsets DEF Heard
  <2>9. mem'.exists # "deleted" => Rests(mem', Heard \cup {r.next})
    <3>1. SUFFICES ASSUME mem.exists # "deleted", mem.mState # "CLOSED"
                   PROVE  Rests(mem', Heard \cup {r.next})
      BY <1>2, <2>1 DEF Rests
    <3>2. Rests(mem', Heard) /\ Between(mem', r.next)
      BY <1>2, <2>1, <2>6, <3>1 DEF NumInv
    <3> QED BY <3>2 DEF Rests, Settled, Lined, Numbered
  <2> QED BY <1>2, <2>1, <2>5, <2>8, <2>9, FewerHeard DEF NumInv, NumKept
<1> QED BY <1>1, <1>3, <1>4, <1>5 DEF Tun

(* The tunnel's end changes no number, and no pause without a socket counts.*)
LEMMA destroyTunnelRests ==
  ASSUME NEW v \in MemoryType, NEW K
  PROVE  /\ SameNumbers(v, destroyTunnel(v))
         /\ v.full \/ Lined(v, K)
              => destroyTunnel(v).full \/ Lined(destroyTunnel(v), K)
         /\ Rests(v, K) => Rests(destroyTunnel(v), K)
<1> DEFINE w == destroyTunnel(v)
<1>1. SameNumbers(v, w) /\ w.mState = v.mState /\ ~w.socket
  BY DEF destroyTunnel, MemoryType, SameNumbers
<1> HIDE DEF w
<1> QED BY <1>1, SameNumbersLined DEF Rests, Settled, Paused, SameNumbers, w

(* The tunnel goes down: destroyTunnel and onTunnelDisconnected, whichever *)
(* comes first.                                                            *)
LEMMA DisconnectedRests ==
  ASSUME NEW v, Good(v), NEW K \in SUBSET Nat, v.full \/ Lined(v, K),
         v.exists = "yes", v.mState # "LISTEN",
         NEW w, w \in {onTunnelDisconnected(destroyTunnel(v)),
                       destroyTunnel(onTunnelDisconnected(v))}
  PROVE  Rests(w, K) /\ w.exists = "yes" /\ w.mState # "LISTEN"
<1> DEFINE u == destroyTunnel(v)
           x == onTunnelDisconnected(v)
<1>0. v \in MemoryType
  BY DEF Good, GoodWith
<1>1. /\ Good(u) /\ Lives(v, u) /\ (u.full \/ Lined(u, K))
      /\ Good(x) /\ Lives(v, x) /\ Rests(x, K)
  BY <1>0, destroyTunnelGood, TunnelEventsLives, destroyTunnelRests,
     onTunnelDisconnectedGood, onTunnelDisconnectedLives, onTunnelDisconnectedRests
<1> HIDE DEF u, x
<1>2. CASE w = onTunnelDisconnected(u)
  <2>1. Lives(v, w) /\ Rests(w, K)
    BY <1>1, <1>2, onTunnelDisconnectedLives, onTunnelDisconnectedRests, LivesOn
  <2> QED BY <2>1 DEF Lives
<1>3. CASE w = destroyTunnel(x)
  <2>1. x \in MemoryType
    BY <1>1 DEF Good, GoodWith
  <2>2. Lives(v, w) /\ Rests(w, K)
    BY <1>1, <1>3, <2>1, TunnelEventsLives, destroyTunnelRests, LivesOn
  <2> QED BY <2>2 DEF Lives
<1> QED BY <1>2, <1>3 DEF u, x

LEMMA TunnelNum ==
  ASSUME NumInv, Tunnel
  PROVE  NumKept
<1>0. /\ Good(mem) /\ mem \in MemoryType /\ remote \in RemoteType
      /\ Heard \in SUBSET Nat
  BY NumParts
<1>1. mem.socket \/ mem.rd \/ mem.wr =>
        /\ mem.exists = "yes" /\ mem.mState # "CLOSED" /\ mem.mState # "LISTEN"
        /\ Lined(mem, Heard) /\ Paused(mem)
  <2>1. mem.socket \/ mem.rd \/ mem.wr =>
          mem.exists = "yes" /\ mem.mState # "CLOSED" /\ mem.mState # "LISTEN"
    BY DEF NumInv, EndInv, Ended
  <2> QED BY <2>1, NumParts
<1>2. UNCHANGED <<tunIn, app>> => UNCHANGED app /\ HeardOf(tunIn', app.next) \subseteq Heard
  BY DEF Heard
<1>3. ASSUME NEW k \in 1 .. MaxRead, TunnelReadable(k) PROVE NumKept
  <2> DEFINE w == onTunnelDataBack(mem, remote.read, k)
  <2>1. k \in Nat /\ remote.read \in Nat
    BY <1>0, SessionAssumption DEF RemoteType
  <2>2. mem.rd /\ mem' = w /\ ~w.full /\ UNCHANGED <<tunIn, app>>
    BY <1>3 DEF TunnelReadable, Leave
  <2>3. Settled(w, Heard) /\ Lives(mem, w)
    BY <1>0, <1>1, <2>1, <2>2, onTunnelDataBackSettled, onTunnelDataBackLives
  <2> HIDE DEF w
  <2>4. Rests(w, Heard) /\ w.exists = "yes" /\ w.mState # "LISTEN"
    BY <1>1, <2>2, <2>3 DEF Rests, Lives
  <2> QED BY <1>2, <2>2, <2>4, HandlerNum
<1>4. CASE TunnelEof \/ TunnelFails \/ TunnelException
  <2>1. /\ mem.socket \/ mem.rd \/ mem.wr
        /\ mem' \in {onTunnelDisconnected(destroyTunnel(mem)),
                     destroyTunnel(onTunnelDisconnected(mem))}
        /\ UNCHANGED <<tunIn, app>>
    BY <1>4 DEF TunnelEof, TunnelFails, TunnelException, Registered, Leave
  <2>2. Rests(mem', Heard) /\ mem'.exists = "yes" /\ mem'.mState # "LISTEN"
    BY <1>0, <1>1, <2>1, DisconnectedRests
  <2> QED BY <1>2, <2>1, <2>2, HandlerNum
<1>5. CASE TunnelWritableEmpty \/ TunnelSend
  <2> DEFINE x == [mem EXCEPT !.mForwardQueue = Tail(mem.mForwardQueue)]
             y == pauseSendData(mem)
  <2>1. mem.wr /\ mem' \in {x, y} /\ UNCHANGED <<tunIn, app>>
    <3>1. TunnelWritableEmpty => mem.wr /\ mem' = y /\ UNCHANGED <<tunIn, app>>
      BY DEF TunnelWritableEmpty
    <3>2. TunnelSend => mem.wr /\ mem' = x /\ UNCHANGED <<tunIn, app>>
      BY Zenon DEF TunnelSend, SendLoop
    <3> QED BY <1>5, <3>1, <3>2
  <2>2. /\ SameNumbers(mem, x) /\ x.exists = mem.exists /\ x.mState = mem.mState
        /\ x.socket = mem.socket /\ x.rd = mem.rd
        /\ SameNumbers(mem, y) /\ y.exists = mem.exists /\ y.mState = mem.mState
        /\ y.socket = mem.socket /\ y.rd = mem.rd
    BY <1>0 DEF pauseSendData, MemoryType, SameNumbers
  <2> HIDE DEF x, y
  <2>3. Rests(mem', Heard) /\ mem'.exists = "yes" /\ mem'.mState # "LISTEN"
    BY <1>1, <2>1, <2>2, SameNumbersLined DEF Rests, Settled, Paused, SameNumbers
  <2> QED BY <1>2, <2>1, <2>3, HandlerNum
<1>6. ASSUME NEW s \in 0 .. AppBytes, TunnelSendFails(s) PROVE NumKept
  <2> DEFINE f == Head(mem.mForwardQueue)
             g == [f EXCEPT !.off = f.off + s, !.len = f.len - s]
             q == <<g>> \o Tail(mem.mForwardQueue)
             w == [mem EXCEPT !.mForwardQueue = q]
  <2>1. mem' = onTunnelDisconnected(destroyTunnel(w)) /\ s < f.len /\ mem.wr
        /\ mem.mForwardQueue # <<>> /\ UNCHANGED <<tunIn, app>>
    BY <1>6, Zenon DEF TunnelSendFails, SendLoop, Leave
  <2>2. q \in Seq(ForwardType)
    <3>1. /\ f \in ForwardType /\ Tail(mem.mForwardQueue) \in Seq(ForwardType)
          /\ s \in Nat
      BY <1>0, <2>1, Fields, HeadTailProperties, SessionAssumption
    <3> HIDE DEF f
    <3>2. f.off + s \in Nat /\ f.len - s \in Nat
      <4>1. f.off \in Nat /\ f.len \in Nat /\ s < f.len
        BY <2>1, <3>1 DEF ForwardType
      <4> QED BY <3>1, <4>1
    <3>3. g \in ForwardType
      BY <3>1, <3>2 DEF ForwardType
    <3> HIDE DEF g
    <3>4. <<g>> \in Seq(ForwardType)
      BY <3>3
    <3> QED BY <3>1, <3>4, ConcatProperties
  <2> HIDE DEF q
  <2>3. w \in MemoryType /\ SameQueues(mem, w) /\ SameNumbers(mem, w)
        /\ w.exists = mem.exists /\ w.mState = mem.mState
    BY <1>0, <2>2 DEF MemoryType, SameQueues, SameNumbers
  <2> HIDE DEF w
  <2>4. Good(w) /\ Lined(w, Heard)
    BY <1>0, <1>1, <2>1, <2>3, SameQueuesGood, SameNumbersLined
  <2>5. Rests(mem', Heard) /\ mem'.exists = "yes" /\ mem'.mState # "LISTEN"
    BY <1>0, <1>1, <2>1, <2>3, <2>4, DisconnectedRests
  <2> QED BY <1>2, <2>1, <2>5, HandlerNum
<1> QED BY <1>3, <1>4, <1>5, <1>6 DEF Tunnel

LEMMA NextNum ==
  ASSUME NumInv, [Next]_vars
  PROVE  NumInv'
<1>0. mem \in MemoryType
  BY NumParts
<1>1. EndInv'
  BY NextEnd DEF NumInv
<1>2. NumKept
  <2>1. CASE CleanDeadSessions
    <3>1. mem' = releaseSession(mem) /\ UNCHANGED <<tunIn, app>>
      BY <2>1 DEF CleanDeadSessions
    <3>2. mem'.exists = "deleted"
      BY <1>0, <3>1, releaseSessionLives
    <3> QED BY <3>1, <3>2 DEF NumKept, NumInv
  <2>2. CASE Tick \/ UNCHANGED vars
    <3>1. /\ SameNumbers(mem, mem') /\ mem'.exists = mem.exists
          /\ mem'.mState = mem.mState /\ mem'.socket = mem.socket
          /\ mem'.rd = mem.rd /\ mem'.mData = mem.mData
          /\ UNCHANGED <<tunIn, app>>
      BY <1>0, <2>2 DEF Tick, vars, MemoryType, SameNumbers
    <3>2. Rests(mem, Heard) => Rests(mem', Heard)
      BY <3>1, SameNumbersLined DEF Rests, Settled, Paused, SameNumbers
    <3> QED BY <3>1, <3>2 DEF NumKept, NumInv, Heard, SameNumbers
  <2> QED BY <2>1, <2>2, KernelNum, TunNum, TunnelNum DEF Next
<1>3. Heard' = HeardOf(tunIn', app'.next)
  BY DEF Heard
<1> QED BY <1>1, <1>2, <1>3 DEF NumInv, NumKept

LEMMA InitNum ==
  ASSUME Init
  PROVE  NumInv
<1>1. EndInv
  BY InitInv DEF EndInv, Init, InitMemory, Ended
<1>2. /\ mem.mBackQueue = <<>> /\ mem.mData = <<>>
      /\ mem.mLocalSeq = 0 /\ mem.mLocalNext = 0 /\ mem.exists = "never"
      /\ mem.mState = "LISTEN" /\ ~mem.socket
      /\ \A c \in Cells : mem.heap[c] = Free
      /\ tunIn = <<>> /\ app.next = 0 /\ app.st = "idle"
  BY DEF Init, InitMemory
<1>3. Heard = {0}
  BY <1>2 DEF Heard, HeardOf
<1>4. Len(mem.mBackQueue) = 0
  BY <1>2
<1>5. Mark(mem, 1) = 0
  BY <1>2, <1>4 DEF Mark
<1>6. Between(mem, 0)
  BY <1>2, <1>4 DEF Between
<1>7. Numbered(mem, Heard)
  <2>1. 1 .. Len(mem.mBackQueue) = {} /\ 1 .. Len(mem.mBackQueue) + 1 = {1}
    BY <1>4
  <2>2. Heard \cup {mem.mLocalNext} = {0}
    BY <1>2, <1>3
  <2> QED BY <1>2, <1>5, <1>6, <2>1, <2>2, FreeType DEF Numbered
<1>8. Lined(mem, Heard) /\ Paused(mem)
  BY <1>2, <1>5, <1>7 DEF Lined, Paused
<1> QED BY <1>1, <1>2, <1>8 DEF NumInv, Rests, Settled

LEMMA NumberedQueue ==
  ASSUME NumInv
  PROVE  BackQueueNumbered /\ PausedWhenFull
<1>1. BackQueueNumbered
  <2> DEFINE q == mem.mBackQueue
  <2>1. SUFFICES ASSUME mem.exists = "yes", mem.mState # "CLOSED"
                 PROVE  /\ \A i \in DOMAIN q :
                             mem.heap[q[i]].seq + Advance(mem.heap[q[i]])
                               = IF i = Len(q) THEN mem.mLocalSeq
                                 ELSE mem.heap[q[i + 1]].seq
                        /\ q = <<>> => mem.mLocalNext = mem.mLocalSeq
                        /\ q # <<>> => mem.heap[q[1]].seq <= mem.mLocalNext
    BY DEF BackQueueNumbered
  <2>2. Lined(mem, Heard) /\ mem \in MemoryType
    BY <2>1, NumParts
  <2>3. /\ q \in Seq(Cells) /\ Len(q) \in Nat /\ DOMAIN q = 1 .. Len(q)
        /\ mem.mLocalNext \in Nat
    BY <2>2, Elements, Fields
  <2>4. ASSUME NEW i \in DOMAIN q
        PROVE  mem.heap[q[i]].seq + Advance(mem.heap[q[i]])
                 = IF i = Len(q) THEN mem.mLocalSeq ELSE mem.heap[q[i + 1]].seq
    <3>1. i \in 1 .. Len(q) /\ (i = Len(q) <=> ~(i + 1 <= Len(q)))
      BY <2>3
    <3>2. Mark(mem, i + 1) = mem.heap[q[i]].seq + Advance(mem.heap[q[i]])
      BY <2>2, <3>1 DEF Lined, Numbered
    <3> QED BY <3>1, <3>2 DEF Mark
  <2>5. Mark(mem, 1) = mem.mLocalNext
    BY <2>2 DEF Lined
  <2>6. q = <<>> => mem.mLocalNext = mem.mLocalSeq
    BY <2>5 DEF Mark
  <2>7. q # <<>> => mem.heap[q[1]].seq <= mem.mLocalNext
    <3>1. q # <<>> => 1 <= Len(q)
      BY <2>3, EmptySeq
    <3> QED BY <2>3, <2>5, <3>1 DEF Mark
  <2> QED BY <2>4, <2>6, <2>7
<1>2. PausedWhenFull
  <2>1. mem.socket => mem.exists = "yes" /\ mem.mState # "CLOSED"
    BY DEF NumInv, EndInv, Ended
  <2>2. mem.socket => Paused(mem)
    BY <2>1, NumParts
  <2> QED BY <2>2 DEF PausedWhenFull, Paused
<1> QED BY <1>1, <1>2

(* enqueueBack and popAcked keep the back queue numbered without a gap     *)
(* from the left edge to mLocalSeq, whatever the app acknowledges and when *)
(* its packets are lost: flushBackQueue never meets a "disorder".          *)
THEOREM BackQueueIsNumbered == Spec => []BackQueueNumbered
<1>1. Init => NumInv
  BY InitNum
<1>2. NumInv /\ [Next]_vars => NumInv'
  BY NextNum
<1>3. NumInv => BackQueueNumbered
  BY NumberedQueue
<1> QED BY <1>1, <1>2, <1>3, PTL DEF Spec

(* onTunnelDataBack pauses reading at a full buffer, and resumeIfRoom takes*)
(* it up again in the very handler that brings the buffer below its half.  *)
THEOREM PausedOnlyWhenFull == Spec => []PausedWhenFull
<1>1. Init => NumInv
  BY InitNum
<1>2. NumInv /\ [Next]_vars => NumInv'
  BY NextNum
<1>3. NumInv => PausedWhenFull
  BY NumberedQueue
<1> QED BY <1>1, <1>2, <1>3, PTL DEF Spec

-----------------------------------------------------------------------------
(* The remote's stream, of which n bytes were read; f tells whether the    *)
(* session learnt that it ended.                                           *)

(* A datagram's number says where in the stream its bytes stand, and a FIN *)
(* comes behind all of them.                                               *)
Placed(d, n, f) ==
  /\ d.flag = "SYN" => d.seq = 0 /\ d.len = 0
  /\ d.flag = "FIN" => f /\ d.seq >= n + 1 /\ d.len = 0
  /\ d.flag = "ACK" /\ d.len > 0 => d.seq = d.off + 1 /\ d.off + d.len <= n

(* The session knows about the end, and no datagram in memory is misplaced.*)
Tells(v, n, f) ==
  /\ v.mRemoteFinished = f
  /\ \A c \in Cells : Placed(v.heap[c], n, f)

(* A memory whose next number is that of the next byte to read, until the  *)
(* FIN takes one; nothing is read unless s.                                *)
Carries(v, n, f, s) ==
  /\ Tells(v, n, f)
  /\ v.socket \/ v.rd => s
  /\ v.mLocalSeq >= n + 1
  /\ ~f => v.mLocalSeq = n + 1

(* What pushInBackQueue is called with leaves such a memory.               *)
Fits(v, flag, off, len, n, f, s) ==
  /\ Tells(v, n, f)
  /\ v.socket \/ v.rd => s
  /\ Placed(BuildPackage(v, flag, off, len), n, f)
  /\ LET next == v.mLocalSeq + (IF flag \in {"SYN", "FIN"} THEN 1 ELSE len)
     IN  next >= n + 1 /\ (~f => next = n + 1)

(* Where a datagram stands does not depend on its marks (sent, abort, ...).*)
LEMMA PlacedSame ==
  ASSUME NEW d, NEW e, NEW n, NEW f, Placed(d, n, f),
         e.flag = d.flag, e.seq = d.seq, e.off = d.off, e.len = d.len
  PROVE  Placed(e, n, f)
BY DEF Placed

LEMMA FreePlaced ==
  ASSUME NEW n, NEW f PROVE Placed(Free, n, f)
BY DEF Placed, Free

(* Functions that leave the heap, the numbers and the end of the remote,   *)
(* and open no tunnel.                                                     *)
LEMMA SameCarries ==
  ASSUME NEW v, NEW w, w.heap = v.heap, w.mRemoteFinished = v.mRemoteFinished,
         NEW n, NEW f
  PROVE  /\ Tells(v, n, f) => Tells(w, n, f)
         /\ w.mLocalSeq = v.mLocalSeq /\ (w.socket \/ w.rd => v.socket \/ v.rd) =>
              \A s : Carries(v, n, f, s) => Carries(w, n, f, s)
BY DEF Tells, Carries

(* An empty ACK always fits.                                               *)
LEMMA AckFits ==
  ASSUME NEW v \in MemoryType, NEW n, NEW f, NEW s, Carries(v, n, f, s)
  PROVE  Fits(v, "ACK", 0, 0, n, f, s)
<1> DEFINE d == BuildPackage(v, "ACK", 0, 0)
<1>1. d.flag = "ACK" /\ d.len = 0
  BY DEF BuildPackage, Free
<1>2. Placed(d, n, f)
  BY <1>1 DEF Placed
<1>3. v.mLocalSeq + (IF "ACK" \in {"SYN", "FIN"} THEN 1 ELSE 0) = v.mLocalSeq
  BY Fields
<1> QED BY <1>2, <1>3 DEF Fits, Carries

LEMMA SafeReleaseTells ==
  ASSUME NEW heap \in [Cells -> DatagramType], NEW gone, NEW n, NEW f,
         \A c \in Cells : Placed(heap[c], n, f)
  PROVE  \A c \in Cells : Placed(SafeRelease(heap, gone)[c], n, f)
<1> SUFFICES ASSUME NEW c \in Cells PROVE Placed(SafeRelease(heap, gone)[c], n, f)
  OBVIOUS
<1> DEFINE d == heap[c]
           e == [d EXCEPT !.abort = TRUE, !.release = TRUE]
<1>1. SafeRelease(heap, gone)[c] \in {d, e, Free}
  BY DEF SafeRelease
<1>2. d \in DatagramType /\ Placed(d, n, f)
  OBVIOUS
<1> HIDE DEF d
<1>3. e.flag = d.flag /\ e.seq = d.seq /\ e.off = d.off /\ e.len = d.len
  BY <1>2 DEF DatagramType
<1> QED BY <1>1, <1>2, <1>3, PlacedSame, FreePlaced

LEMMA popAckedCarries ==
  ASSUME NEW v \in MemoryType, NEW n, NEW f, NEW s, Carries(v, n, f, s)
  PROVE  Carries(popAcked(v), n, f, s)
<1> DEFINE q == v.mBackQueue
           g == CellsOf(SubSeq(q, 1, LeadingRun(Len(q),
                  {i \in DOMAIN q : ~Finished(v, v.heap[q[i]])})))
           r == Drop(q, LeadingRun(Len(q),
                  {i \in DOMAIN q : ~Finished(v, v.heap[q[i]])}))
           h == SafeRelease(v.heap, g)
           w == [v EXCEPT !.mBackQueue = r, !.heap = h]
<1>1. popAcked(v) = w
  BY DEF popAcked
<1>2. \A c \in Cells : Placed(h[c], n, f)
  <2> HIDE DEF g
  <2> QED BY Fields, SafeReleaseTells DEF Carries, Tells
<1> HIDE DEF r, h
<1>3. /\ w.heap = h /\ w.mRemoteFinished = v.mRemoteFinished
      /\ w.socket = v.socket /\ w.rd = v.rd /\ w.mLocalSeq = v.mLocalSeq
  BY DEF MemoryType
<1> HIDE DEF w
<1> QED BY <1>1, <1>2, <1>3 DEF Carries, Tells

LEMMA enqueueBackCarries ==
  ASSUME NEW v \in MemoryType, NEW n, NEW f, NEW s,
         NEW flag \in Flags, NEW off \in Nat, NEW len \in Nat,
         Fits(v, flag, off, len, n, f, s)
  PROVE  Carries(enqueueBack(v, flag, off, len), n, f, s)
<1> DEFINE d == BuildPackage(v, flag, off, len)
           u == Allocate(v, d)
           c == FreshCell(v)
           a == IF flag \in {"SYN", "FIN"} THEN 1 ELSE len
           w == [u EXCEPT !.mBackQueue = Append(v.mBackQueue, c),
                          !.mLocalSeq = v.mLocalSeq + a]
<1>1. d \in DatagramType /\ Placed(d, n, f)
  BY BuildPackageType DEF Fits
<1> HIDE DEF d
<1>2. /\ u \in MemoryType /\ c \in Cells /\ u.heap = [v.heap EXCEPT ![c] = d]
      /\ u.mBackQueue = v.mBackQueue /\ u.mLocalSeq = v.mLocalSeq
  BY <1>1, AllocateEffect
<1>3. /\ u.mRemoteFinished = v.mRemoteFinished
      /\ u.socket = v.socket /\ u.rd = v.rd
  BY DEF Allocate, MemoryType
<1>4. enqueueBack(v, flag, off, len) = w
  BY <1>2 DEF enqueueBack, d
<1> HIDE DEF u, c
<1>5. /\ w.mLocalSeq = v.mLocalSeq + a /\ w.heap = u.heap
      /\ w.mRemoteFinished = u.mRemoteFinished
      /\ w.socket = u.socket /\ w.rd = u.rd
  BY <1>2 DEF MemoryType
<1> HIDE DEF w
<1>6. \A b \in Cells : Placed(w.heap[b], n, f)
  <2>1. v.heap \in [Cells -> DatagramType] /\ \A b \in Cells : Placed(v.heap[b], n, f)
    BY Fields DEF Fits, Tells
  <2> QED BY <1>1, <1>2, <1>5, <2>1
<1> QED BY <1>3, <1>4, <1>5, <1>6 DEF Carries, Fits, Tells

LEMMA sendBackSegmentCarries ==
  ASSUME NEW v \in MemoryType, NEW c \in Cells, NEW n, NEW f
  PROVE  /\ Tells(v, n, f) => Tells(sendBackSegment(v, c), n, f)
         /\ \A s : Carries(v, n, f, s) => Carries(sendBackSegment(v, c), n, f, s)
<1> DEFINE h == [v.heap EXCEPT ![c].sent = TRUE]
           u == [v EXCEPT !.heap = h]
           w == sendBackSegment(v, c)
<1>1. v.heap \in [Cells -> DatagramType]
  BY Fields
<1>2. w = RouterQueue(u, c)
  BY DEF sendBackSegment
<1>3. /\ u.heap = h /\ DOMAIN u = DOMAIN v
      /\ u.mRemoteFinished = v.mRemoteFinished
      /\ u.socket = v.socket /\ u.rd = v.rd /\ u.mLocalSeq = v.mLocalSeq
  BY DEF MemoryType
<1>4. /\ w.mRemoteFinished = v.mRemoteFinished
      /\ w.socket = v.socket /\ w.rd = v.rd /\ w.mLocalSeq = v.mLocalSeq
      /\ w.heap \in {h, [h EXCEPT ![c].buffering = TRUE]}
  <2> HIDE DEF h, u
  <2>1. CASE u.heap[c].buffering \/ u.heap[c].abort
    BY <1>2, <1>3, <2>1 DEF RouterQueue
  <2>2. CASE ~(u.heap[c].buffering \/ u.heap[c].abort)
    BY <1>2, <1>3, <2>2 DEF RouterQueue, MemoryType
  <2> QED BY <2>1, <2>2
<1> HIDE DEF w
<1>5. ASSUME NEW b \in Cells, Placed(v.heap[b], n, f) PROVE Placed(w.heap[b], n, f)
  <2> DEFINE d == v.heap[b]
             e == [d EXCEPT !.sent = TRUE]
             g == [e EXCEPT !.buffering = TRUE]
  <2>1. w.heap[b] \in {d, e, g}
    <3>1. DOMAIN h = Cells /\ h[b] = IF b = c THEN e ELSE d
      BY <1>1
    <3> HIDE DEF h, e, d
    <3> QED BY <1>4, <3>1
  <2>2. d \in DatagramType
    BY <1>1
  <2> HIDE DEF d
  <2>3. /\ e.flag = d.flag /\ e.seq = d.seq /\ e.off = d.off /\ e.len = d.len
        /\ g.flag = d.flag /\ g.seq = d.seq /\ g.off = d.off /\ g.len = d.len
    BY <2>2 DEF DatagramType
  <2> HIDE DEF e, g
  <2> QED BY <1>5, <2>1, <2>3, PlacedSame DEF d
<1> QED BY <1>4, <1>5 DEF Tells, Carries, w

LEMMA switchStateCarries ==
  ASSUME NEW v \in MemoryType, NEW t, NEW n, NEW f
  PROVE  /\ Tells(v, n, f) => Tells(switchState(v, t), n, f)
         /\ \A s : Carries(v, n, f, s) => Carries(switchState(v, t), n, f, s)
<1> DEFINE w == [v EXCEPT !.mState = t]
           x == [w EXCEPT !.mAlive = FALSE]
           y == switchState(v, t)
<1>1. y = IF v.mState = t THEN v
          ELSE IF t = "CLOSED" THEN destroyTunnel(x) ELSE w
  BY DEF switchState, close
<1>2. /\ w.heap = v.heap /\ w.mRemoteFinished = v.mRemoteFinished
      /\ w.socket = v.socket /\ w.rd = v.rd /\ w.mLocalSeq = v.mLocalSeq
      /\ destroyTunnel(x).heap = v.heap
      /\ destroyTunnel(x).mRemoteFinished = v.mRemoteFinished
      /\ ~destroyTunnel(x).socket /\ ~destroyTunnel(x).rd
      /\ destroyTunnel(x).mLocalSeq = v.mLocalSeq
  BY DEF MemoryType, destroyTunnel
<1> HIDE DEF w, x, y
<1> QED BY <1>1, <1>2, SameCarries DEF y

LEMMA resumeIfRoomCarries ==
  ASSUME NEW v \in MemoryType, NEW n, NEW f, NEW s, Carries(v, n, f, s)
  PROVE  Carries(resumeIfRoom(v), n, f, s)
<1> DEFINE w == resumeReceiveData(v)
<1>1. /\ w.heap = v.heap /\ w.mRemoteFinished = v.mRemoteFinished
      /\ w.mLocalSeq = v.mLocalSeq /\ (w.socket \/ w.rd => v.socket \/ v.rd)
  BY DEF resumeReceiveData, MemoryType
<1>2. resumeIfRoom(v) \in {v, w}
  BY DEF resumeIfRoom
<1> HIDE DEF w
<1> QED BY <1>1, <1>2, SameCarries

LEMMA sendBackCarries ==
  ASSUME NEW v, Good(v), NEW K, NEW n, NEW f, NEW s,
         v.full \/ (Lined(v, K) /\ Carries(v, n, f, s))
  PROVE  sendBack(v).full \/ Carries(sendBack(v), n, f, s)
<1> DEFINE c == Head(v.mBackQueue)
<1>1. v \in MemoryType
  BY DEF Good, GoodWith
<1>2. CASE v.full
  BY <1>2, sendBackLives DEF Lives
<1>3. CASE ~v.full /\ v.mBackQueue = <<>>
  BY <1>1, <1>3, resumeIfRoomCarries DEF sendBack
<1>4. CASE ~v.full /\ v.mBackQueue # <<>>
  <2>1. v.heap[c].seq = v.mLocalNext /\ v.mLocalNext \in Nat /\ c \in Cells
    <3>1. v.mBackQueue \in Seq(Cells) /\ Len(v.mBackQueue) \in Nat /\ v.mLocalNext \in Nat
          /\ \A i \in 1 .. Len(v.mBackQueue) : v.mBackQueue[i] \in Cells
      BY <1>1, Elements, Fields
    <3>2. Len(v.mBackQueue) # 0 /\ c = v.mBackQueue[1]
      BY <1>4, <3>1, EmptySeq, HeadTailProperties
    <3>3. 1 <= Len(v.mBackQueue) /\ 1 \in 1 .. Len(v.mBackQueue)
      BY <3>1, <3>2
    <3>4. v.heap[c].seq = Mark(v, 1)
      BY <3>2, <3>3 DEF Mark
    <3> QED BY <1>4, <3>1, <3>2, <3>3, <3>4 DEF Lined
  <2>2. ~(v.mLocalNext < v.heap[c].seq)
    BY <2>1
  <2>3. sendBack(v) \in {resumeIfRoom(v), resumeIfRoom(sendBackSegment(v, c))}
    BY <1>4, <2>2 DEF sendBack
  <2> HIDE DEF c
  <2>4. /\ sendBackSegment(v, c) \in MemoryType
        /\ Carries(sendBackSegment(v, c), n, f, s)
    BY <1>1, <1>4, <2>1, sendBackSegmentType, sendBackSegmentCarries
  <2> QED BY <1>1, <1>4, <2>3, <2>4, resumeIfRoomCarries
<1> QED BY <1>2, <1>3, <1>4

(* The FIN of a remote that finished takes the number behind its bytes.    *)
LEMMA pushFinCarries ==
  ASSUME NEW v, Good(v), NEW K \in SUBSET Nat, NEW n \in Nat, NEW s,
         v.full \/ (Loose(v, K) /\ Carries(v, n, TRUE, s))
  PROVE  pushFin(v).full \/ Carries(pushFin(v), n, TRUE, s)
<1> DEFINE t == enqueueBack(v, "FIN", 0, 0)
           u == popAcked(t)
           w == sendBack(u)
           e == IF w.mState = "ESTABLISHED" THEN "FIN_WAIT1" ELSE "LAST_ACK"
<1>0. v \in MemoryType /\ v.mLocalSeq \in Nat
  BY Fields DEF Good, GoodWith
<1>1. "FIN" \in Flags /\ "FIN" # "SYN" /\ 0 \in Nat
  BY DEF Flags
<1>2. Good(t) /\ (v.full => t.full)
  BY <1>0, <1>1, enqueueBackGood, enqueueBackLives DEF Lives
<1>3. t.full \/ (Loose(t, K) /\ Carries(t, n, TRUE, s))
  <2>1. CASE v.full
    BY <1>2, <2>1
  <2>2. CASE ~v.full
    <3> DEFINE d == BuildPackage(v, "FIN", 0, 0)
    <3>1. d.flag = "FIN" /\ d.seq = v.mLocalSeq /\ d.len = 0
      BY DEF BuildPackage, Free
    <3>2. Placed(d, n, TRUE)
      BY <2>2, <3>1 DEF Placed, Carries
    <3>3. v.mLocalSeq + 1 >= n + 1
      <4>1. v.mLocalSeq >= n + 1
        BY <2>2 DEF Carries
      <4> QED BY <1>0, <4>1
    <3>4. Fits(v, "FIN", 0, 0, n, TRUE, s)
      BY <2>2, <3>2, <3>3 DEF Fits, Carries
    <3>5. Carries(t, n, TRUE, s)
      BY <1>0, <1>1, <3>4, enqueueBackCarries
    <3>6. Numbered(v, K)
      BY <2>2 DEF Loose
    <3>7. t.full \/ (Numbered(t, K) /\ t.mLocalNext = v.mLocalNext /\ Mark(t, 1) = Mark(v, 1))
      BY <1>1, <3>6, enqueueBackNumbers
    <3> QED BY <2>2, <3>5, <3>7 DEF Loose
  <2> QED BY <2>1, <2>2
<1>4. pushFin(v) = switchState(w, e) /\ e \in States /\ e # "LISTEN"
  BY DEF pushFin, States
<1> HIDE DEF t, e
<1>5. Good(u) /\ (u.full \/ (Lined(u, K) /\ Carries(u, n, TRUE, s)))
  <2>1. t \in MemoryType /\ (t.full => u.full)
    BY <1>2, popAckedLives DEF Good, GoodWith, SameLife
  <2> QED BY <1>2, <1>3, <2>1, popAckedGood, popAckedLined, popAckedCarries
<1> HIDE DEF u
<1>6. w \in MemoryType /\ (w.full \/ Carries(w, n, TRUE, s))
  BY <1>5, sendBackGood, sendBackCarries DEF Good, GoodWith
<1> HIDE DEF w
<1>7. w.full => switchState(w, e).full
  BY <1>4, <1>6, switchStateLives DEF Lives
<1>8. Carries(w, n, TRUE, s) => Carries(switchState(w, e), n, TRUE, s)
  BY <1>6, switchStateCarries
<1> QED BY <1>4, <1>6, <1>7, <1>8

LEMMA flushBackQueueCarries ==
  ASSUME NEW v, Good(v), NEW K \in SUBSET Nat, NEW n \in Nat, NEW f \in BOOLEAN, NEW s,
         v.full \/ (Loose(v, K) /\ Carries(v, n, f, s))
  PROVE  flushBackQueue(v).full \/ Carries(flushBackQueue(v), n, f, s)
<1> DEFINE w == popAcked(v)
<1>1. Good(w) /\ (w.full \/ (Lined(w, K) /\ Carries(w, n, f, s)))
  <2>1. v \in MemoryType /\ (v.full => w.full)
    BY popAckedLives DEF Good, GoodWith, SameLife
  <2> QED BY <2>1, popAckedGood, popAckedLined, popAckedCarries
<1>2. flushBackQueue(v) = IF ~mayFinish(w) THEN sendBack(w)
                          ELSE IF canPush(w) THEN pushFin(w) ELSE w
  BY DEF flushBackQueue
<1> HIDE DEF w
<1>3. w.full \/ Loose(w, K)
  BY <1>1, SettledLoose DEF Good, GoodWith
<1>4. mayFinish(w) /\ ~w.full => f = TRUE
  BY <1>1 DEF mayFinish, Carries, Tells
<1>5. mayFinish(w) => pushFin(w).full \/ Carries(pushFin(w), n, f, s)
  <2>1. CASE w.full
    BY <1>1, <2>1, pushFinLives DEF Lives
  <2>2. CASE ~w.full
    BY <1>1, <1>3, <1>4, <2>2, pushFinCarries
  <2> QED BY <2>1, <2>2
<1> QED BY <1>1, <1>2, <1>5, sendBackCarries

LEMMA pushInBackQueueCarries ==
  ASSUME NEW v, Good(v), NEW K \in SUBSET Nat, NEW n \in Nat, NEW f \in BOOLEAN, NEW s,
         NEW flag \in Flags, NEW off \in Nat, NEW len \in Nat,
         flag = "SYN" => v.mLocalSeq = 0,
         v.full \/ (Loose(v, K) /\ Fits(v, flag, off, len, n, f, s))
  PROVE  LET w == pushInBackQueue(v, flag, off, len)
         IN  w.full \/ Carries(w, n, f, s)
<1> DEFINE w == enqueueBack(v, flag, off, len)
<1>0. v \in MemoryType
  BY DEF Good, GoodWith
<1>1. Good(w) /\ (v.full => w.full)
  BY <1>0, enqueueBackGood, enqueueBackLives DEF Lives
<1>2. w.full \/ (Loose(w, K) /\ Carries(w, n, f, s))
  <2>1. v.full \/ Numbered(v, K)
    BY DEF Loose
  <2>2. w.full \/ (Numbered(w, K) /\ w.mLocalNext = v.mLocalNext /\ Mark(w, 1) = Mark(v, 1))
    BY <2>1, enqueueBackNumbers
  <2>3. v.full \/ Carries(w, n, f, s)
    BY <1>0, enqueueBackCarries
  <2> QED BY <1>1, <2>2, <2>3 DEF Loose
<1>3. v.full \/ canPush(v)
  BY DEF Loose, Numbered, Between, canPush
<1>4. pushInBackQueue(v, flag, off, len)
        = IF canPush(v) THEN flushBackQueue(w) ELSE v
  BY DEF pushInBackQueue
<1> HIDE DEF w
<1> QED BY <1>1, <1>2, <1>3, <1>4, flushBackQueueCarries

(* The bare ACK of a handler.                                              *)
LEMMA pushAckCarries ==
  ASSUME NEW v, Good(v), NEW K \in SUBSET Nat, NEW n \in Nat, NEW f \in BOOLEAN, NEW s,
         v.full \/ (Loose(v, K) /\ Carries(v, n, f, s))
  PROVE  LET w == pushInBackQueue(v, "ACK", 0, 0)
         IN  w.full \/ (Loose(w, K) /\ Carries(w, n, f, s))
<1> DEFINE w == pushInBackQueue(v, "ACK", 0, 0)
<1>1. v \in MemoryType /\ "ACK" \in Flags /\ "ACK" # "SYN" /\ 0 \in Nat
  BY DEF Flags, Good, GoodWith
<1>2. w.full \/ Carries(w, n, f, s)
  BY <1>1, AckFits, pushInBackQueueCarries
<1>3. w \in MemoryType /\ Settled(w, K)
  BY <1>1, pushInBackQueueGood, pushInBackQueueSettled DEF Good, GoodWith
<1> HIDE DEF w
<1>4. w.full \/ Loose(w, K)
  BY <1>3, SettledLoose DEF Settled
<1> QED BY <1>2, <1>4 DEF w

LEMMA onReceiveFINCarries ==
  ASSUME NEW v, Good(v), ~v.full, NEW K \in SUBSET Nat, Lined(v, K),
         NEW p \in PacketType, p.ack \in K,
         NEW n \in Nat, NEW f \in BOOLEAN, NEW s, Carries(v, n, f, s)
  PROVE  LET w == onReceiveFIN(v, p) IN w.full \/ Carries(w, n, f, s)
<1> DEFINE a == IF v.mLocalNext <= p.ack THEN p.ack ELSE v.mLocalNext
           m == p.seq + 1
           w == [v EXCEPT !.mLocalNext = a, !.mRemoteNext = m]
           x == pushInBackQueue(w, "ACK", 0, 0)
           t == afterFIN(w, p)
<1>1. p.ack \in Nat /\ p.seq \in Nat /\ v \in MemoryType /\ v.mLocalNext \in Nat
  BY Fields DEF PacketType, Good, GoodWith
<1>2. a \in Nat /\ m \in Nat
  BY <1>1
<1>3. onReceiveFIN(v, p) = IF canPush(w) /\ t # w.mState
                           THEN switchState(x, t) ELSE x
  BY DEF onReceiveFIN
<1>4. t \in States /\ (t # w.mState => t # "LISTEN")
  <2>1. w.mState \in States
    BY <1>1 DEF MemoryType
  <2> HIDE DEF w
  <2> QED BY <2>1 DEF afterFIN, States
<1> HIDE DEF a, m, t
<1>5. /\ w \in MemoryType /\ SameQueues(v, w) /\ w.mLocalNext = a
      /\ w.mLocalSeq = v.mLocalSeq /\ w.mRemoteFinished = v.mRemoteFinished
      /\ w.socket = v.socket /\ w.rd = v.rd
  BY <1>1, <1>2 DEF MemoryType, SameQueues
<1> HIDE DEF w
<1>6. Good(w) /\ Loose(w, K) /\ Carries(w, n, f, s)
  <2>1. Good(w)
    BY <1>5, SameQueuesGood
  <2>2. Loose(w, K)
    BY <1>1, <1>5, RaisedLoose DEF SameQueues, a
  <2>3. Carries(w, n, f, s)
    BY <1>5, SameCarries DEF SameQueues
  <2> QED BY <2>1, <2>2, <2>3
<1>7. "ACK" \in Flags /\ 0 \in Nat
  BY DEF Flags
<1>8. x \in MemoryType /\ (x.full \/ Carries(x, n, f, s))
  BY <1>6, <1>7, pushInBackQueueGood, pushAckCarries DEF Good, GoodWith
<1> HIDE DEF x
<1>9. t # "LISTEN" => (x.full => switchState(x, t).full)
  BY <1>4, <1>8, switchStateLives DEF Lives
<1>10. Carries(x, n, f, s) => Carries(switchState(x, t), n, f, s)
  BY <1>8, switchStateCarries
<1> QED BY <1>3, <1>4, <1>8, <1>9, <1>10

LEMMA onSackCarries ==
  ASSUME NEW v \in MemoryType, NEW n, NEW f, NEW s, Carries(v, n, f, s), NEW sack
  PROVE  Carries(onSack(v, sack), n, f, s)
BY onSackReturns

LEMMA enqueueIfNeedCarries ==
  ASSUME NEW v, Good(v), NEW K \in SUBSET Nat, NEW n \in Nat, NEW f \in BOOLEAN, NEW s,
         v.full \/ (Loose(v, K) /\ Carries(v, n, f, s)), NEW p \in PacketType
  PROVE  LET w == enqueueIfNeed(v, p) IN w.full \/ (Loose(w, K) /\ Carries(w, n, f, s))
<1> DEFINE g == [seq |-> p.seq, off |-> p.off, len |-> p.len]
           q == InsertAfter(v.mForwardQueue, smaller(v, p), g)
           w == [v EXCEPT !.mForwardQueue = q, !.mRemoteNext = v.mRemoteNext + p.len]
           x == pushInBackQueue(v, "ACK", 0, 0)
           y == requestSendData(w)
<1>0. v \in MemoryType
  BY DEF Good, GoodWith
<1>1. enqueueIfNeed(v, p) \in {y, x, v}
  BY DEF enqueueIfNeed
<1> HIDE DEF q
<1>2. /\ y.heap = v.heap /\ y.mRemoteFinished = v.mRemoteFinished /\ y.full = v.full
      /\ y.socket = v.socket /\ y.rd = v.rd /\ y.mLocalSeq = v.mLocalSeq
  BY <1>0 DEF requestSendData, MemoryType
<1> HIDE DEF w, y
<1>3. y.full \/ Carries(y, n, f, s)
  BY <1>2, SameCarries
<1>4. x.full \/ Carries(x, n, f, s)
  BY pushAckCarries
<1> HIDE DEF x
<1>5. v.full \/ Loose(v, K)
  OBVIOUS
<1>6. enqueueIfNeed(v, p).full \/ Loose(enqueueIfNeed(v, p), K)
  BY <1>5, enqueueIfNeedLoose
<1> QED BY <1>1, <1>3, <1>4, <1>6

LEMMA onEstablishedCarries ==
  ASSUME NEW v, Good(v), NEW K \in SUBSET Nat, NEW n \in Nat, NEW f \in BOOLEAN, NEW s,
         v.full \/ (Loose(v, K) /\ Carries(v, n, f, s)), NEW p \in PacketType
  PROVE  LET w == onEstablished(v, p) IN w.full \/ Carries(w, n, f, s)
<1> DEFINE w == IF v.mSack /\ p.sack.from < p.sack.to THEN onSack(v, p.sack) ELSE v
           x == enqueueIfNeed(w, p)
<1>0. v \in MemoryType
  BY DEF Good, GoodWith
<1>1. Good(w) /\ (w.full \/ (Loose(w, K) /\ Carries(w, n, f, s)))
  <2>1. Good(onSack(v, p.sack))
    BY onSackGood
  <2>2. onSack(v, p.sack).full = v.full
    BY onSackReturns
  <2>3. Loose(v, K) => Loose(onSack(v, p.sack), K)
    BY <1>0, onSackLoose
  <2>4. Carries(v, n, f, s) => Carries(onSack(v, p.sack), n, f, s)
    BY <1>0, onSackCarries
  <2> QED BY <2>1, <2>2, <2>3, <2>4
<1>2. onEstablished(v, p) \in {pushInBackQueue(x, "ACK", 0, 0), flushBackQueue(x)}
  BY DEF onEstablished
<1> HIDE DEF w
<1>3. Good(x) /\ (x.full \/ (Loose(x, K) /\ Carries(x, n, f, s)))
  BY <1>1, enqueueIfNeedGood, enqueueIfNeedCarries
<1> HIDE DEF x
<1> QED BY <1>2, <1>3, pushAckCarries, flushBackQueueCarries

LEMMA onNewAckCarries ==
  ASSUME NEW v, Good(v), NEW K \in SUBSET Nat, NEW n \in Nat, NEW f \in BOOLEAN, NEW s,
         v.full \/ (Loose(v, K) /\ Carries(v, n, f, s)), NEW p \in PacketType
  PROVE  LET w == onNewAck(v, p) IN w.full \/ Carries(w, n, f, s)
<1>0. v \in MemoryType
  BY DEF Good, GoodWith
<1>1. {"ESTABLISHED", "FIN_WAIT2", "CLOSED", "TIME_WAIT"} \subseteq States
  BY DEF States
<1>2. ASSUME NEW t \in {"ESTABLISHED", "FIN_WAIT2", "CLOSED", "TIME_WAIT"}
      PROVE  LET w == switchState(v, t)
             IN  Good(w) /\ (w.full \/ (Loose(w, K) /\ Carries(w, n, f, s)))
  <2>1. SameNumbers(v, switchState(v, t))
    BY <1>0, <1>1, switchStateSettled
  <2>2. switchState(v, t).full \/ Loose(switchState(v, t), K)
    BY <2>1, SameNumbersLined DEF SameNumbers
  <2>3. v.full => switchState(v, t).full
    BY <2>1 DEF SameNumbers
  <2> QED BY <1>0, <1>1, <2>2, <2>3, switchStateGood, switchStateCarries
<1>3. ASSUME NEW t \in {"FIN_WAIT2", "CLOSED", "TIME_WAIT"}
      PROVE  LET w == flushBackQueue(switchState(v, t)) IN w.full \/ Carries(w, n, f, s)
  BY <1>2, flushBackQueueCarries
<1>4. LET w == flushBackQueue(enqueueIfNeed(switchState(v, "ESTABLISHED"), p))
      IN  w.full \/ Carries(w, n, f, s)
  <2> DEFINE e == switchState(v, "ESTABLISHED")
             x == enqueueIfNeed(e, p)
  <2>1. Good(e) /\ (e.full \/ (Loose(e, K) /\ Carries(e, n, f, s)))
    BY <1>2
  <2> HIDE DEF e
  <2>2. Good(x) /\ (x.full \/ (Loose(x, K) /\ Carries(x, n, f, s)))
    BY <2>1, enqueueIfNeedGood, enqueueIfNeedCarries
  <2> HIDE DEF x
  <2>3. flushBackQueue(x).full \/ Carries(flushBackQueue(x), n, f, s)
    BY <2>2, flushBackQueueCarries
  <2> QED BY <2>3 DEF x, e
<1>5. /\ flushBackQueue(v).full \/ Carries(flushBackQueue(v), n, f, s)
      /\ onEstablished(v, p).full \/ Carries(onEstablished(v, p), n, f, s)
  BY flushBackQueueCarries, onEstablishedCarries
<1> QED BY <1>3, <1>4, <1>5 DEF onNewAck

LEMMA onReceiveACKCarries ==
  ASSUME NEW v, Good(v), ~v.full, NEW K \in SUBSET Nat, Lined(v, K),
         NEW p \in PacketType, p.ack \in K,
         NEW n \in Nat, NEW f \in BOOLEAN, NEW s, Carries(v, n, f, s)
  PROVE  LET w == onReceiveACK(v, p) IN w.full \/ Carries(w, n, f, s)
<1> DEFINE a == IF v.mLocalNext <= p.ack THEN p.ack ELSE v.mLocalNext
           w == [v EXCEPT !.mSendWindow = p.win, !.mLocalNext = a]
<1>1. p.win \in Nat /\ p.ack \in Nat /\ v \in MemoryType /\ v.mLocalNext \in Nat
  BY Fields DEF PacketType, Good, GoodWith
<1>2. a \in Nat
  BY <1>1
<1>3. onReceiveACK(v, p) = IF p.ack < v.mLocalNext THEN w ELSE onNewAck(w, p)
  BY DEF onReceiveACK
<1> HIDE DEF a
<1>4. /\ w \in MemoryType /\ SameQueues(v, w) /\ w.mLocalNext = a
      /\ w.mLocalSeq = v.mLocalSeq /\ w.mRemoteFinished = v.mRemoteFinished
      /\ w.socket = v.socket /\ w.rd = v.rd
  BY <1>1, <1>2 DEF MemoryType, SameQueues
<1> HIDE DEF w
<1>5. Good(w) /\ Loose(w, K) /\ Carries(w, n, f, s)
  <2>1. Loose(w, K)
    BY <1>1, <1>4, RaisedLoose DEF SameQueues, a
  <2> QED BY <1>4, <2>1, SameQueuesGood, SameCarries DEF SameQueues
<1> QED BY <1>3, <1>5, onNewAckCarries

(* A packet changes nothing about what was read, nor about the remote.     *)
LEMMA acceptCarries ==
  ASSUME NEW v, Good(v), ~v.full, NEW K \in SUBSET Nat, Lined(v, K),
         v.mState # "LISTEN", NEW p \in PacketType, p.ack \in K,
         NEW n \in Nat, NEW f \in BOOLEAN, NEW s, Carries(v, n, f, s)
  PROVE  LET w == accept(v, p) IN w.full \/ Carries(w, n, f, s)
<1> DEFINE w == CASE p.flag = "SYN" -> onReceiveSYN(v, p)
                  [] p.flag = "FIN" -> onReceiveFIN(v, p)
                  [] p.flag = "RST" -> onReceiveRST(v)
                  [] OTHER          -> onReceiveACK(v, p)
<1>0. v \in MemoryType /\ Loose(v, K)
  BY SettledLoose DEF Good, GoodWith
<1>1. Good(onReceiveRST(v)) /\ Carries(onReceiveRST(v), n, f, s)
  <2>1. "CLOSED" \in States
    BY DEF States
  <2> QED BY <1>0, <2>1, switchStateGood, switchStateCarries DEF onReceiveRST
<1>2. onReceiveSYN(v, p).full \/ Carries(onReceiveSYN(v, p), n, f, s)
  BY <1>0, flushBackQueueCarries DEF onReceiveSYN
<1>3. Good(w) /\ (w.full \/ Carries(w, n, f, s))
  BY <1>1, <1>2, onReceiveSYNGood, onReceiveFINGood, onReceiveACKGood,
     onReceiveFINCarries, onReceiveACKCarries
<1>4. accept(v, p) = [w EXCEPT !.idle = 0]
  BY DEF accept
<1> HIDE DEF w
<1>5. LET x == accept(v, p)
      IN  /\ x.heap = w.heap /\ x.mRemoteFinished = w.mRemoteFinished
          /\ x.mLocalSeq = w.mLocalSeq /\ x.full = w.full
          /\ x.socket = w.socket /\ x.rd = w.rd
  BY <1>3, <1>4 DEF Good, GoodWith, MemoryType
<1> QED BY <1>3, <1>5, SameCarries

(* The SYN takes number 0, the first byte will take 1.                     *)
LEMMA buildSessionCarries ==
  ASSUME NEW v, Good(v), ~v.full, NEW K \in SUBSET Nat, Lined(v, K), v.mLocalSeq = 0,
         Tells(v, 0, FALSE), NEW p \in PacketType, p.flag = "SYN"
  PROVE  LET w == accept(buildSession(v), p)
         IN  w.full \/ Carries(w, 0, FALSE, TRUE)
<1> DEFINE b == buildSession(v)
           y == [b EXCEPT !.mSack = b.mSack \/ p.sackf, !.mSendWindow = p.win,
                          !.mLocalSeq = 0, !.mLocalNext = 0, !.mRemoteNext = 1]
           z == pushInBackQueue(y, "SYN", 0, 0)
           x == onReceiveSYN(b, p)
<1>0. v \in MemoryType /\ v.mLocalNext \in Nat
  BY Fields DEF Good, GoodWith
<1>1. /\ SameNumbers(v, b) /\ b.mState = "LISTEN"
      /\ b.mRemoteFinished = v.mRemoteFinished
  BY <1>0 DEF buildSession, establish, MemoryType, SameNumbers
<1>2. Good(b) /\ b \in MemoryType
  BY buildSessionGood DEF Good, GoodWith
<1> HIDE DEF b
<1>3. v.mLocalNext = 0
  <2>1. Between(v, v.mLocalNext)
    BY DEF Lined, Numbered
  <2> QED BY <1>0, <2>1 DEF Between
<1>4. /\ y \in MemoryType /\ SameNumbers(v, y) /\ SameQueues(b, y)
      /\ y.mLocalSeq = 0 /\ y.mRemoteFinished = v.mRemoteFinished
  <2>1. p.win \in Nat /\ p.sackf \in BOOLEAN
    BY DEF PacketType
  <2> QED BY <1>1, <1>2, <1>3, <2>1 DEF MemoryType, SameNumbers, SameQueues
<1> HIDE DEF y
<1>5. Good(y) /\ Loose(y, K)
  <2>1. Loose(v, K)
    BY <1>0, SettledLoose
  <2> QED BY <1>2, <1>4, <2>1, SameQueuesGood, SameNumbersLined
<1>6. "SYN" \in Flags /\ "SYN_RCVED" \in States /\ 0 \in Nat
  BY DEF Flags, States
<1>7. Fits(y, "SYN", 0, 0, 0, FALSE, TRUE)
  <2> DEFINE d == BuildPackage(y, "SYN", 0, 0)
  <2>1. d.flag = "SYN" /\ d.seq = 0 /\ d.len = 0
    BY <1>4 DEF BuildPackage, Free
  <2>2. Placed(d, 0, FALSE)
    BY <2>1 DEF Placed
  <2>3. Tells(y, 0, FALSE)
    BY <1>4, SameCarries DEF SameNumbers
  <2>4. y.mLocalSeq + (IF "SYN" \in {"SYN", "FIN"} THEN 1 ELSE 0) = 0 + 1
    BY <1>4
  <2>5. 0 + 1 >= 0 + 1
    OBVIOUS
  <2> QED BY <2>2, <2>3, <2>4, <2>5 DEF Fits
<1>8. Good(z) /\ (z.full \/ Carries(z, 0, FALSE, TRUE))
  BY <1>4, <1>5, <1>6, <1>7, pushInBackQueueGood, pushInBackQueueCarries
<1>9. x = switchState(z, "SYN_RCVED")
  BY <1>1 DEF onReceiveSYN, y
<1> HIDE DEF z
<1>10. x \in MemoryType /\ (x.full \/ Carries(x, 0, FALSE, TRUE))
  <2>1. z \in MemoryType /\ x \in MemoryType
    BY <1>6, <1>8, <1>9, switchStateGood DEF Good, GoodWith
  <2>2. z.full => x.full
    BY <1>6, <1>9, <2>1, switchStateLives DEF Lives
  <2> QED BY <1>8, <1>9, <2>1, <2>2, switchStateCarries
<1>11. accept(b, p) = [x EXCEPT !.idle = 0]
  BY DEF accept
<1> HIDE DEF x
<1>12. LET w == accept(b, p)
       IN  /\ w.heap = x.heap /\ w.mRemoteFinished = x.mRemoteFinished
           /\ w.mLocalSeq = x.mLocalSeq /\ w.full = x.full
           /\ w.socket = x.socket /\ w.rd = x.rd
  BY <1>10, <1>11 DEF MemoryType
<1> QED BY <1>10, <1>12, SameCarries DEF b

(* The next k bytes the tunnel read go behind what was there.              *)
LEMMA onTunnelDataBackCarries ==
  ASSUME NEW v, Good(v), ~v.full, NEW K \in SUBSET Nat, Lined(v, K),
         NEW n \in Nat, NEW k \in Nat, NEW s, Carries(v, n, FALSE, s)
  PROVE  LET w == onTunnelDataBack(v, n, k)
         IN  w.full \/ Carries(w, n + k, FALSE, s)
<1> DEFINE d == BuildPackage(v, "ACK", n, k)
           w == pushInBackQueue(v, "ACK", n, k)
           x == IF BackQueueDataSize(w) >= SessionBuffer THEN pauseReceiveData(w) ELSE w
           y == onTunnelDataBack(v, n, k)
<1>1. v \in MemoryType /\ Loose(v, K) /\ v.mLocalSeq = n + 1
  BY SettledLoose DEF Good, GoodWith, Carries
<1>2. Placed(d, n + k, FALSE)
  <2>1. d.flag = "ACK" /\ d.seq = n + 1 /\ d.off = n /\ d.len = k
    BY <1>1 DEF BuildPackage, Free
  <2> HIDE DEF d
  <2> QED BY <2>1 DEF Placed
<1>3. Tells(v, n + k, FALSE)
  <2>1. \A c \in Cells : v.heap[c] \in DatagramType /\ Placed(v.heap[c], n, FALSE)
    BY <1>1, Fields DEF Carries, Tells
  <2>2. ASSUME NEW e \in DatagramType, Placed(e, n, FALSE) PROVE Placed(e, n + k, FALSE)
    <3>1. e.off \in Nat /\ e.len \in Nat
      BY DEF DatagramType
    <3> QED BY <2>2, <3>1 DEF Placed
  <2> QED BY <2>1, <2>2 DEF Carries, Tells
<1>4. Fits(v, "ACK", n, k, n + k, FALSE, s)
  <2>1. v.mLocalSeq + (IF "ACK" \in {"SYN", "FIN"} THEN 1 ELSE k) = n + k + 1
    BY <1>1
  <2>2. n + k + 1 >= n + k + 1 /\ n + k + 1 = (n + k) + 1
    OBVIOUS
  <2>3. v.socket \/ v.rd => s
    BY DEF Carries
  <2> HIDE DEF d
  <2> QED BY <1>2, <1>3, <2>1, <2>2, <2>3 DEF Fits, d
<1>5. "ACK" \in Flags /\ "ACK" # "SYN" /\ n + k \in Nat
  BY DEF Flags
<1>6. w \in MemoryType /\ (w.full \/ Carries(w, n + k, FALSE, s))
  BY <1>1, <1>4, <1>5, pushInBackQueueGood, pushInBackQueueCarries DEF Good, GoodWith
<1>7. y = [x EXCEPT !.idle = 0]
  BY DEF onTunnelDataBack
<1> HIDE DEF w
<1>8. /\ y.heap = w.heap /\ y.mRemoteFinished = w.mRemoteFinished
      /\ y.mLocalSeq = w.mLocalSeq /\ y.full = w.full
      /\ (y.socket \/ y.rd => w.socket \/ w.rd)
  BY <1>6, <1>7 DEF pauseReceiveData, MemoryType
<1> QED BY <1>6, <1>8, SameCarries DEF y

(* An RST says nothing of the stream.                                      *)
LEMMA resetConnectionTells ==
  ASSUME NEW v \in MemoryType, NEW n, NEW f, Tells(v, n, f)
  PROVE  Tells(resetConnection(v), n, f)
<1> DEFINE w == [v EXCEPT !.mLocalSeq = v.mLocalNext]
           c == FreshCell(w)
           r == [BuildPackage(w, "RST", 0, 0) EXCEPT !.release = TRUE]
           x == Allocate(w, r)
           y == sendBackSegment(x, c)
<1>1. w \in MemoryType /\ w.heap = v.heap /\ w.mRemoteFinished = v.mRemoteFinished
  BY Fields DEF MemoryType
<1>2. resetConnection(v) = switchState(y, "CLOSED")
  BY DEF resetConnection
<1> HIDE DEF w
<1>3. r \in DatagramType /\ r.flag = "RST"
  <2>1. "RST" \in Flags /\ 0 \in Nat
    BY DEF Flags
  <2>2. BuildPackage(w, "RST", 0, 0) \in DatagramType
        /\ BuildPackage(w, "RST", 0, 0).flag = "RST"
    BY <1>1, <2>1, BuildPackageType DEF BuildPackage, Free
  <2> QED BY <2>2 DEF DatagramType
<1> HIDE DEF r
<1>4. Placed(r, n, f)
  BY <1>3 DEF Placed
<1>5. x \in MemoryType /\ c \in Cells /\ x.heap = [w.heap EXCEPT ![c] = r]
      /\ x.mRemoteFinished = w.mRemoteFinished
  <2>1. x.mRemoteFinished = w.mRemoteFinished
    BY <1>1 DEF Allocate, MemoryType
  <2> QED BY <1>1, <1>3, <2>1, AllocateEffect
<1> HIDE DEF x, c
<1>6. Tells(x, n, f)
  <2>1. v.heap \in [Cells -> DatagramType]
    BY Fields
  <2> QED BY <1>1, <1>4, <1>5, <2>1 DEF Tells
<1>7. y \in MemoryType /\ Tells(y, n, f)
  BY <1>5, <1>6, sendBackSegmentType, sendBackSegmentCarries
<1> HIDE DEF y
<1> QED BY <1>2, <1>7, switchStateCarries

(* The end of the tunnel leaves the session closed, or knowing of the end. *)
LEMMA onTunnelDisconnectedCarries ==
  ASSUME NEW v, Good(v), ~v.full, NEW K \in SUBSET Nat, Lined(v, K),
         NEW n \in Nat, NEW f \in BOOLEAN, NEW s, Carries(v, n, f, s)
  PROVE  LET w == onTunnelDisconnected(v)
         IN  w.full \/ \E g \in {f, TRUE} :
                         /\ Tells(w, n, g)
                         /\ w.mState = "CLOSED" \/ Carries(w, n, g, s)
<1> DEFINE w == [v EXCEPT !.mRemoteFinished = TRUE]
<1>1. v \in MemoryType /\ Loose(v, K)
  BY SettledLoose DEF Good, GoodWith
<1>2. /\ w \in MemoryType /\ SameQueues(v, w) /\ SameNumbers(v, w)
      /\ w.mRemoteFinished = TRUE /\ w.socket = v.socket /\ w.rd = v.rd
  BY <1>1 DEF MemoryType, SameQueues, SameNumbers
<1>3. onTunnelDisconnected(v) \in
        {flushBackQueue(w), switchState(v, "CLOSED"), resetConnection(v)}
  BY DEF onTunnelDisconnected, onRemoteFinished
<1> HIDE DEF w
<1>4. Carries(w, n, TRUE, s)
  <2>1. ASSUME NEW d, Placed(d, n, f) PROVE Placed(d, n, TRUE)
    BY <2>1 DEF Placed
  <2> QED BY <1>2, <2>1 DEF Carries, Tells, SameNumbers
<1>5. Good(w) /\ Loose(w, K)
  BY <1>1, <1>2, SameQueuesGood, SameNumbersLined
<1>6. flushBackQueue(w).full \/ Carries(flushBackQueue(w), n, TRUE, s)
  BY <1>4, <1>5, flushBackQueueCarries
<1>7. Carries(switchState(v, "CLOSED"), n, f, s)
  BY <1>1, switchStateCarries
<1>8. Tells(resetConnection(v), n, f) /\ resetConnection(v).mState = "CLOSED"
  BY <1>1, resetConnectionTells, resetConnectionCloses DEF Carries
<1> QED BY <1>3, <1>6, <1>7, <1>8 DEF Carries

LEMMA destroyTunnelCarries ==
  ASSUME NEW v \in MemoryType, NEW n, NEW f
  PROVE  /\ Tells(v, n, f) => Tells(destroyTunnel(v), n, f)
         /\ \A s, t : Carries(v, n, f, s) => Carries(destroyTunnel(v), n, f, t)
         /\ destroyTunnel(v).mRemoteFinished = v.mRemoteFinished
         /\ ~destroyTunnel(v).socket /\ ~destroyTunnel(v).rd
<1> DEFINE w == destroyTunnel(v)
<1>1. /\ w.heap = v.heap /\ w.mRemoteFinished = v.mRemoteFinished
      /\ ~w.socket /\ ~w.rd /\ w.mLocalSeq = v.mLocalSeq
  BY DEF destroyTunnel, MemoryType
<1> HIDE DEF w
<1> QED BY <1>1 DEF Tells, Carries, w

LEMMA releaseSessionTells ==
  ASSUME NEW v \in MemoryType, NEW n, NEW f, Tells(v, n, f)
  PROVE  Tells(releaseSession(v), n, f)
<1> DEFINE u == destroyTunnel(v)
           h == SafeRelease(u.heap, Held(v))
           w == [u EXCEPT !.exists = "deleted", !.mAlive = FALSE,
                          !.mForwardQueue = <<>>, !.heap = h, !.mBackQueue = <<>>]
<1>1. u.heap = v.heap /\ u.mRemoteFinished = v.mRemoteFinished /\ DOMAIN u = DOMAIN v
  BY DEF destroyTunnel, MemoryType
<1>2. releaseSession(v) = w
  BY DEF releaseSession
<1> HIDE DEF u
<1>3. \A c \in Cells : Placed(h[c], n, f)
  BY <1>1, Fields, SafeReleaseTells DEF Tells
<1> HIDE DEF h
<1>4. w.heap = h /\ w.mRemoteFinished = v.mRemoteFinished
  BY <1>1 DEF MemoryType
<1> HIDE DEF w
<1> QED BY <1>2, <1>3, <1>4 DEF Tells

LEMMA RouterUnqueueCarries ==
  ASSUME NEW v \in MemoryType, v.mData # <<>>, NEW n, NEW f,
         NEW w, w.heap = RouterUnqueue(v).heap,
         w.mRemoteFinished = v.mRemoteFinished, w.socket = v.socket, w.rd = v.rd,
         w.mLocalSeq = v.mLocalSeq
  PROVE  /\ w.mRemoteFinished = v.mRemoteFinished
         /\ Tells(v, n, f) => Tells(w, n, f)
         /\ \A s : Carries(v, n, f, s) => Carries(w, n, f, s)
<1> DEFINE c == Head(v.mData)
           d == IF v.heap[c].release THEN Free
                ELSE [v.heap[c] EXCEPT !.buffering = FALSE]
           h == [v.heap EXCEPT ![c] = d]
           q == Tail(v.mData)
           u == [v EXCEPT !.mData = q, !.heap = h]
<1>1. c \in Cells /\ v.heap \in [Cells -> DatagramType] /\ v.heap[c] \in DatagramType
  <2>1. v.mData \in Seq(Cells) /\ v.heap \in [Cells -> DatagramType]
    BY Fields
  <2> QED BY <2>1, CellsTail
<1>2. Placed(v.heap[c], n, f) => Placed(d, n, f)
  <2> DEFINE g == v.heap[c]
             k == [g EXCEPT !.buffering = FALSE]
  <2> HIDE DEF g
  <2>1. k.flag = g.flag /\ k.seq = g.seq /\ k.off = g.off /\ k.len = g.len
    BY <1>1 DEF DatagramType, g
  <2>2. d \in {Free, k}
    BY DEF g
  <2> HIDE DEF d, k
  <2> QED BY <2>1, <2>2, PlacedSame, FreePlaced DEF g
<1>3. RouterUnqueue(v) = u
  BY DEF RouterUnqueue
<1> HIDE DEF c, d, q
<1>4. h[c] = d /\ \A b \in Cells : b # c => h[b] = v.heap[b]
  BY <1>1
<1> HIDE DEF h
<1>5. w.heap = h
  BY <1>3 DEF MemoryType
<1>6. Tells(v, n, f) => Tells(w, n, f)
  BY <1>1, <1>2, <1>4, <1>5 DEF Tells
<1> QED BY <1>6 DEF Carries

(* What the app got, of the n bytes that were read: the bytes next to each *)
(* other, the number it expects next to them, its end behind all of them.  *)
AppStream(a, n, f) ==
  /\ a.got.ok /\ a.got.n <= n
  /\ a.st \in {"idle", "syn"} => a.got.n = 0 /\ ~a.eof
  /\ a.st = "open" => a.next = a.got.n + 1 + (IF a.eof THEN 1 ELSE 0)
  /\ a.eof => a.got.n = n /\ f

(* A datagram brings the app the next bytes, or the end, or nothing, and   *)
(* nothing at all to a connection that is done.                            *)
Brings(a, r) ==
  /\ a.st = "done" => r.st = "done"
  /\ \/ r.got.n = a.got.n /\ r.eof = a.eof
     \/ r.got.n > a.got.n /\ ~a.eof /\ ~r.eof /\ a.st = "open" /\ r.st = "open"
     \/ r.got.n = a.got.n /\ ~a.eof /\ r.eof /\ a.st = "open" /\ r.st = "open"

LEMMA ReceivedStream ==
  ASSUME NEW a \in AppType, NEW d \in DatagramType, NEW n \in Nat, NEW f \in BOOLEAN,
         Placed(d, n, f), AppStream(a, n, f)
  PROVE  AppStream(Received(a, d), n, f) /\ Brings(a, Received(a, d))
<1> DEFINE b == Acked(a, d)
           m == b.next + (IF d.flag = "FIN" THEN 1 ELSE d.len)
           g == Extend(b.got, d.off, d.len)
           e == [b EXCEPT !.next = m, !.eof = d.flag = "FIN", !.got = g]
           x == [a EXCEPT !.st = "done"]
           y == [a EXCEPT !.st = "open", !.next = 1, !.una = 1]
           r == Received(a, d)
<1>0. /\ d.seq \in Nat /\ d.off \in Nat /\ d.len \in Nat /\ d.flag \in Flags
      /\ a.next \in Nat /\ a.eof \in BOOLEAN /\ a.got.n \in Nat /\ a.got.ok \in BOOLEAN
      /\ a.got = [n |-> a.got.n, ok |-> a.got.ok]
  BY DEF DatagramType, AppType, StreamType
<1>1. /\ b \in AppType /\ b.next = a.next /\ b.st = a.st
      /\ b.got = a.got /\ b.eof = a.eof
  BY AckedNext DEF Acked, AppType
<1>2. AppStream(b, n, f) /\ Brings(a, b)
  <2> HIDE DEF b
  <2> QED BY <1>1 DEF AppStream, Brings
<1>3. AppStream(x, n, f) /\ Brings(a, x)
  <2>1. x.st = "done" /\ x.got = a.got /\ x.eof = a.eof
    BY DEF AppType
  <2> HIDE DEF x
  <2> QED BY <2>1 DEF AppStream, Brings
<1>4. a.st = "syn" => AppStream(y, n, f) /\ Brings(a, y)
  <2>1. y.st = "open" /\ y.next = 1 /\ y.got = a.got /\ y.eof = a.eof
    BY DEF AppType
  <2> HIDE DEF y
  <2> QED BY <2>1 DEF AppStream, Brings
<1>5. CASE d.flag = "RST"
  BY <1>3, <1>5 DEF Received
<1>6. CASE d.flag # "RST" /\ a.st = "syn" /\ d.flag = "SYN"
  BY <1>4, <1>6 DEF Received
<1>7. CASE d.flag # "RST" /\ ~(a.st = "syn" /\ d.flag = "SYN") /\ a.st # "open"
  <2>1. r = a
    BY <1>7 DEF Received
  <2> QED BY <2>1 DEF Brings
<1>8. CASE d.flag # "RST" /\ a.st = "open" /\ ~InOrder(a, d)
  <2>1. r = b
    BY <1>8 DEF Received
  <2> QED BY <1>2, <2>1
<1>9. CASE d.flag # "RST" /\ a.st = "open" /\ InOrder(a, d)
  <2>1. r = e
    BY <1>9 DEF Received
  <2>2. /\ e.next = m /\ e.got = g /\ e.eof = (d.flag = "FIN") /\ e.st = "open"
    BY <1>1, <1>9 DEF AppType
  <2> HIDE DEF e
  <2>3. /\ d.seq = a.next /\ ~a.eof /\ a.next = a.got.n + 1
        /\ a.got.ok /\ a.got.n <= n
    BY <1>0, <1>9 DEF InOrder, AppStream
  <2>4. d.flag # "SYN"
    BY <1>0, <2>3 DEF Placed
  <2>5. CASE d.flag = "FIN"
    <3>1. f /\ d.seq >= n + 1 /\ d.len = 0
      BY <2>5 DEF Placed
    <3>2. a.got.n = n /\ g = a.got /\ m = a.got.n + 1 + 1
      BY <1>0, <1>1, <2>3, <2>5, <3>1 DEF Extend
    <3> HIDE DEF g, m
    <3> QED BY <1>0, <1>9, <2>1, <2>2, <2>3, <2>5, <3>1, <3>2 DEF AppStream, Brings
  <2>6. CASE d.flag = "ACK"
    <3>1. CASE d.len = 0
      <4>1. g = a.got /\ m = a.got.n + 1
        BY <1>0, <1>1, <2>3, <2>6, <3>1 DEF Extend
      <4> HIDE DEF g, m
      <4> QED BY <1>0, <1>9, <2>1, <2>2, <2>3, <2>6, <4>1 DEF AppStream, Brings
    <3>2. CASE d.len > 0
      <4>1. d.seq = d.off + 1 /\ d.off + d.len <= n
        BY <2>6, <3>2 DEF Placed
      <4>2. /\ g.n = a.got.n + d.len /\ g.ok /\ g.n <= n /\ g.n > a.got.n
            /\ m = g.n + 1
        <5>1. d.off = a.got.n /\ d.len # 0
          BY <1>0, <2>3, <3>2, <4>1
        <5>2. g = [n |-> a.got.n + d.len, ok |-> a.got.ok /\ d.off = a.got.n]
          BY <1>1, <5>1 DEF Extend
        <5> HIDE DEF g
        <5>3. g.n = a.got.n + d.len /\ g.ok = (a.got.ok /\ d.off = a.got.n)
          BY <5>2
        <5>4. m = a.got.n + 1 + d.len
          BY <1>1, <2>3, <2>6
        <5>5. g.ok
          BY <2>3, <5>1, <5>3
        <5> HIDE DEF m
        <5> QED BY <1>0, <3>2, <4>1, <5>1, <5>3, <5>4, <5>5
      <4> HIDE DEF g, m
      <4> QED BY <1>0, <1>9, <2>1, <2>2, <2>3, <2>6, <4>2 DEF AppStream, Brings
    <3> QED BY <1>0, <3>1, <3>2
  <2> QED BY <1>0, <1>9, <2>4, <2>5, <2>6 DEF Flags
<1> QED BY <1>5, <1>6, <1>7, <1>8, <1>9

-----------------------------------------------------------------------------
(* The stream holds in every state                                         *)

(* The memory of a session that n bytes were read for.                     *)
MemStream(v, n) ==
  /\ Tells(v, n, v.mRemoteFinished)
  /\ v.mRemoteFinished => ~v.socket /\ ~v.rd
  /\ v.exists = "yes" /\ v.mState # "CLOSED" =>
       Carries(v, n, v.mRemoteFinished, ~v.mRemoteFinished)
  /\ v.exists = "never" => n = 0 /\ ~v.mRemoteFinished

StreamInv ==
  /\ NumInv
  /\ MemStream(mem, remote.read)
  /\ AppStream(app, remote.read, mem.mRemoteFinished)

PipeStep == [Down!PipeNext]_(Down!pipeVars)

(* What every step leaves, and does.                                       *)
StreamKept ==
  /\ MemStream(mem', remote'.read)
  /\ AppStream(app', remote'.read, mem'.mRemoteFinished)
  /\ PipeStep

LEMMA StreamParts ==
  ASSUME StreamInv
  PROVE  /\ NumInv /\ mem.mRemoteFinished \in BOOLEAN
         /\ remote.read \in Nat /\ app.got.n \in Nat /\ app.eof \in BOOLEAN
         /\ app.got.n <= remote.read
         /\ (app.eof => app.got.n = remote.read /\ mem.mRemoteFinished)
<1>1. NumInv /\ mem \in MemoryType /\ app \in AppType /\ remote \in RemoteType
  BY NumParts DEF StreamInv
<1>2. mem.mRemoteFinished \in BOOLEAN
  BY <1>1 DEF MemoryType
<1>3. remote.read \in Nat /\ app.got.n \in Nat /\ app.eof \in BOOLEAN
  BY <1>1 DEF RemoteType, AppType, StreamType
<1> QED BY <1>1, <1>2, <1>3 DEF StreamInv, AppStream

(* A step that leaves the app alone and changes nothing about the remote.  *)
LEMMA QuietStream ==
  ASSUME StreamInv, MemStream(mem', remote.read), UNCHANGED app,
         remote'.read = remote.read, mem'.mRemoteFinished = mem.mRemoteFinished
  PROVE  StreamKept
<1>1. UNCHANGED Down!pipeVars
  BY DEF Down!pipeVars
<1> QED BY <1>1 DEF StreamKept, StreamInv, PipeStep

(* A memory that carries the stream on.                                    *)
LEMMA CarriedStream ==
  ASSUME NEW v, NEW n, NEW f \in BOOLEAN, Carries(v, n, f, ~f), v.exists = "yes"
  PROVE  MemStream(v, n) /\ v.mRemoteFinished = f
BY DEF Carries, Tells, MemStream

LEMMA EmitStream ==
  ASSUME StreamInv, NEW a, NEW p, Emit(a, p), a.got = app.got, a.eof = app.eof,
         \/ a.st = app.st /\ a.next = app.next
         \/ app.st = "idle" /\ a.st = "syn"
         \/ a.st = "done"
  PROVE  StreamKept
<1>1. mem' = mem /\ app' = a /\ remote' = remote
  BY DEF Emit
<1>2. AppStream(a, remote.read, mem.mRemoteFinished)
  BY DEF StreamInv, AppStream
<1>3. PipeStep
  <2>1. CASE (app.st = "done") = (a.st = "done")
    <3>1. UNCHANGED Down!pipeVars
      BY <1>1, <2>1 DEF Down!pipeVars
    <3> QED BY <3>1 DEF PipeStep
  <2>2. CASE app.st # "done" /\ a.st = "done"
    <3>1. Down!Break
      BY <1>1, <2>2 DEF Down!Break
    <3> QED BY <3>1 DEF PipeStep, Down!PipeNext
  <2> QED BY <2>1, <2>2
<1> QED BY <1>1, <1>2, <1>3 DEF StreamKept, StreamInv

LEMMA KernelStream ==
  ASSUME StreamInv, Kernel
  PROVE  StreamKept
<1>0. app \in AppType
  BY NumParts DEF StreamInv
<1>2. CASE AppConnect
  <2> DEFINE a == [app EXCEPT !.st = "syn"]
  <2>1. a.got = app.got /\ a.eof = app.eof /\ a.st = "syn"
    BY <1>0 DEF AppType
  <2>2. Emit(a, Packet(app, "SYN", 0, 0, 0)) /\ app.st = "idle"
    BY <1>2 DEF AppConnect
  <2> HIDE DEF a
  <2> QED BY <2>1, <2>2, EmitStream
<1>3. ASSUME NEW n, AppSend(n) PROVE StreamKept
  <2> DEFINE a == [app EXCEPT !.sent = app.sent + n]
  <2>1. a.got = app.got /\ a.eof = app.eof /\ a.st = app.st /\ a.next = app.next
    BY <1>0 DEF AppType
  <2>2. Emit(a, Packet(app, "ACK", 1 + app.sent, app.sent, n))
    BY <1>3 DEF AppSend
  <2> HIDE DEF a
  <2> QED BY <2>1, <2>2, EmitStream
<1>4. ASSUME NEW n, AppClose(n) PROVE StreamKept
  <2> DEFINE a == [app EXCEPT !.sent = app.sent + n, !.fin = TRUE]
  <2>1. a.got = app.got /\ a.eof = app.eof /\ a.st = app.st /\ a.next = app.next
    BY <1>0 DEF AppType
  <2>2. Emit(a, Packet(app, "FIN", 1 + app.sent, app.sent, n))
    BY <1>4 DEF AppClose
  <2> HIDE DEF a
  <2> QED BY <2>1, <2>2, EmitStream
<1>5. CASE AppReset
  <2> DEFINE a == [app EXCEPT !.st = "done"]
  <2>1. a.got = app.got /\ a.eof = app.eof /\ a.st = "done"
    BY <1>0 DEF AppType
  <2>2. Emit(a, Packet(app, "RST", SndNxt(app), 0, 0))
    BY <1>5 DEF AppReset
  <2> HIDE DEF a
  <2> QED BY <2>1, <2>2, EmitStream
<1>6. ASSUME NEW w, AppWindow(w) PROVE StreamKept
  <2> DEFINE a == [app EXCEPT !.win = w]
  <2>1. a.got = app.got /\ a.eof = app.eof /\ a.st = app.st /\ a.next = app.next
    BY <1>0 DEF AppType
  <2>2. Emit(a, BareAck(a))
    BY <1>6 DEF AppWindow
  <2> HIDE DEF a
  <2> QED BY <2>1, <2>2, EmitStream
<1>7. CASE AppRetransmit
  <2>1. Emit(app, Unacked(app))
    BY <1>7 DEF AppRetransmit
  <2> QED BY <2>1, EmitStream
<1>8. CASE TunDrop
  <2>1. UNCHANGED <<mem, app, remote>>
    BY <1>8 DEF TunDrop
  <2> QED BY <2>1, QuietStream DEF StreamInv
<1> QED BY <1>2, <1>3, <1>4, <1>5, <1>6, <1>7, <1>8 DEF Kernel

(* The tunnel's events; the end of the tunnel is the end of the stream, or *)
(* of the session.                                                         *)
LEMMA EndedStream ==
  ASSUME StreamInv, NumInv', UNCHANGED app, remote'.read = remote.read,
         NEW g \in {mem.mRemoteFinished, TRUE}, Tells(mem', remote.read, g),
         mem'.exists = "yes",
         mem'.mState = "CLOSED" \/ Carries(mem', remote.read, g, FALSE)
  PROVE  StreamKept
<1>1. mem.mRemoteFinished \in BOOLEAN
  BY StreamParts
<1>2. mem'.mRemoteFinished = g
  BY DEF Tells
<1>3. mem'.mState = "CLOSED" => ~mem'.socket /\ ~mem'.rd
  BY DEF NumInv, EndInv, Ended
<1>4. MemStream(mem', remote.read)
  BY <1>2, <1>3 DEF MemStream, Carries
<1>5. AppStream(app, remote.read, g)
  BY DEF StreamInv, AppStream
<1>6. CASE g = mem.mRemoteFinished
  BY <1>2, <1>4, <1>6, QuietStream
<1>7. CASE g # mem.mRemoteFinished
  <2>1. ~mem.mRemoteFinished /\ g = TRUE
    BY <1>1, <1>7
  <2>2. Down!Close
    BY <1>2, <2>1 DEF Down!Close
  <2>3. PipeStep
    BY <2>2 DEF PipeStep, Down!PipeNext
  <2> QED BY <1>2, <1>4, <1>5, <2>3 DEF StreamKept
<1> QED BY <1>6, <1>7

(* destroyTunnel and onTunnelDisconnected, whichever comes first.          *)
LEMMA DisconnectedCarries ==
  ASSUME NEW v, Good(v), NEW K \in SUBSET Nat, ~v.full, Lined(v, K),
         NEW n \in Nat, NEW f \in BOOLEAN, NEW s, Carries(v, n, f, s),
         NEW w, ~w.full,
         w \in {onTunnelDisconnected(destroyTunnel(v)),
                destroyTunnel(onTunnelDisconnected(v))}
  PROVE  \E g \in {f, TRUE} :
            /\ Tells(w, n, g)
            /\ w.mState = "CLOSED" \/ Carries(w, n, g, FALSE)
<1> DEFINE u == destroyTunnel(v)
           x == onTunnelDisconnected(v)
<1>0. v \in MemoryType
  BY DEF Good, GoodWith
<1>1. /\ Good(u) /\ ~u.full /\ Lined(u, K) /\ Carries(u, n, f, FALSE)
  <2>1. SameNumbers(v, u)
    BY <1>0, destroyTunnelRests
  <2>2. Good(u) /\ Lined(u, K) /\ ~u.full
    BY <2>1, destroyTunnelGood, SameNumbersLined DEF SameNumbers
  <2>3. Carries(u, n, f, FALSE)
    BY <1>0, destroyTunnelCarries
  <2> QED BY <2>2, <2>3
<1>2. x \in MemoryType
  BY onTunnelDisconnectedGood DEF Good, GoodWith
<1> HIDE DEF u
<1>3. CASE w = onTunnelDisconnected(u)
  BY <1>1, <1>3, onTunnelDisconnectedCarries
<1>4. CASE w = destroyTunnel(x)
  <2>1. x.full = w.full /\ x.mState = w.mState
    BY <1>2, <1>4 DEF destroyTunnel, MemoryType
  <2>2. PICK g \in {f, TRUE} : /\ Tells(x, n, g)
                               /\ x.mState = "CLOSED" \/ Carries(x, n, g, s)
    BY <2>1, onTunnelDisconnectedCarries
  <2> HIDE DEF x
  <2>3. Tells(w, n, g) /\ (x.mState = "CLOSED" \/ Carries(w, n, g, FALSE))
    BY <1>2, <1>4, <2>2, destroyTunnelCarries
  <2> QED BY <2>1, <2>3
<1> QED BY <1>3, <1>4 DEF u

LEMMA TunnelStream ==
  ASSUME StreamInv, NumInv', Tunnel
  PROVE  StreamKept
<1> DEFINE n == remote.read
           f == mem.mRemoteFinished
<1>0. /\ Good(mem) /\ mem \in MemoryType /\ ~mem.full /\ remote \in RemoteType
      /\ Heard \in SUBSET Nat /\ n \in Nat /\ f \in BOOLEAN
  BY NumParts, StreamParts
<1>1. mem.socket \/ mem.rd \/ mem.wr =>
        /\ mem.exists = "yes" /\ mem.mState # "CLOSED" /\ mem.mState # "LISTEN"
        /\ Lined(mem, Heard) /\ Carries(mem, n, f, ~f)
  <2>1. mem.socket \/ mem.rd \/ mem.wr =>
          mem.exists = "yes" /\ mem.mState # "CLOSED" /\ mem.mState # "LISTEN"
    BY DEF StreamInv, NumInv, EndInv, Ended
  <2> QED BY <2>1, NumParts DEF StreamInv, MemStream
<1>2. ASSUME NEW v, Good(v), ~v.full, Lined(v, Heard), Carries(v, n, f, ~f),
             v.exists = "yes",
             mem' \in {onTunnelDisconnected(destroyTunnel(v)),
                       destroyTunnel(onTunnelDisconnected(v))},
             ~mem'.full, UNCHANGED app, remote'.read = n
      PROVE  StreamKept
  <2>1. PICK g \in {f, TRUE} :
           /\ Tells(mem', n, g)
           /\ mem'.mState = "CLOSED" \/ Carries(mem', n, g, FALSE)
    BY <1>0, <1>2, DisconnectedCarries
  <2>2. mem'.exists = "yes"
    <3>1. v.mState \in States
      BY <1>2, Fields DEF Good, GoodWith
    <3> DEFINE u == destroyTunnel(v)
               x == onTunnelDisconnected(v)
    <3>2. /\ Good(u) /\ u.exists = v.exists /\ Good(x) /\ x.exists = v.exists
      BY <1>2, destroyTunnelGood, TunnelEventsLives, onTunnelDisconnectedGood,
         onTunnelDisconnectedLives DEF Good, GoodWith, Lives
    <3> HIDE DEF u, x
    <3>3. /\ onTunnelDisconnected(u).exists = u.exists
          /\ destroyTunnel(x).exists = x.exists
      BY <3>2, TunnelEventsLives, onTunnelDisconnectedLives DEF Good, GoodWith, Lives
    <3> QED BY <1>2, <3>2, <3>3 DEF u, x
  <2> QED BY <1>2, <2>1, <2>2, EndedStream
<1>3. ASSUME NEW k \in 1 .. MaxRead, TunnelReadable(k) PROVE StreamKept
  <2> DEFINE w == onTunnelDataBack(mem, n, k)
  <2>1. k \in Nat /\ k >= 1
    BY SessionAssumption
  <2>2. mem.rd /\ mem' = w /\ ~w.full /\ remote' = [remote EXCEPT !.read = n + k]
        /\ UNCHANGED app
    BY <1>3 DEF TunnelReadable, Leave
  <2>3. f = FALSE /\ Carries(mem, n, FALSE, TRUE)
    <3>1. f = FALSE
      BY <1>0, <2>2 DEF StreamInv, MemStream
    <3>2. Carries(mem, n, f, ~f)
      BY <1>1, <2>2
    <3>3. (~FALSE) = TRUE
      OBVIOUS
    <3> HIDE DEF f
    <3> QED BY <3>1, <3>2, <3>3
  <2>4. Carries(w, n + k, FALSE, TRUE)
    BY <1>0, <1>1, <2>1, <2>2, <2>3, onTunnelDataBackCarries
  <2>5. w.exists = "yes"
    BY <1>0, <1>1, <2>1, <2>2, onTunnelDataBackLives DEF Lives
  <2> HIDE DEF w
  <2>6. MemStream(mem', n + k) /\ mem'.mRemoteFinished = FALSE
    BY <2>2, <2>4, <2>5, CarriedStream
  <2>7. remote'.read = n + k
    BY <1>0, <2>2 DEF RemoteType
  <2>8. AppStream(app, n + k, FALSE)
    <3>1. AppStream(app, n, FALSE) /\ app.got.n \in Nat
      BY <2>3, StreamParts DEF StreamInv
    <3>2. app.got.n <= n => app.got.n <= n + k
      BY <1>0, <2>1, <3>1
    <3> QED BY <3>1, <3>2 DEF AppStream
  <2>9. PipeStep
    <3>1. n + k \in Nat /\ n + k > n /\ n + k = n + ((n + k) - n)
      BY <1>0, <2>1
    <3>2. Down!Write(remote'.read - remote.read)
      <4>1. app' = app /\ mem'.mRemoteFinished = mem.mRemoteFinished
        BY <2>2, <2>3, <2>6
      <4>2. ~mem.mRemoteFinished
        BY <2>3
      <4>3. remote'.read = remote.read + (remote'.read - remote.read)
        BY <2>7, <3>1
      <4> QED BY <4>1, <4>2, <4>3 DEF Down!Write
    <3> QED BY <2>7, <3>1, <3>2 DEF PipeStep, Down!PipeNext
  <2> QED BY <2>2, <2>6, <2>7, <2>8, <2>9 DEF StreamKept
<1>4. CASE TunnelEof \/ TunnelFails \/ TunnelException
  <2>1. /\ mem.socket \/ mem.rd \/ mem.wr
        /\ mem' \in {onTunnelDisconnected(destroyTunnel(mem)),
                     destroyTunnel(onTunnelDisconnected(mem))}
        /\ ~mem'.full /\ UNCHANGED <<app, remote>>
    BY <1>4 DEF TunnelEof, TunnelFails, TunnelException, Registered, Leave
  <2> QED BY <1>0, <1>1, <1>2, <2>1
<1>5. CASE TunnelWritableEmpty \/ TunnelSend
  <2> DEFINE x == [mem EXCEPT !.mForwardQueue = Tail(mem.mForwardQueue)]
             y == pauseSendData(mem)
  <2>1. mem.wr /\ mem' \in {x, y} /\ UNCHANGED app /\ remote'.read = n
    <3>1. TunnelWritableEmpty => mem.wr /\ mem' = y /\ UNCHANGED <<app, remote>>
      BY DEF TunnelWritableEmpty
    <3>2. TunnelSend => /\ mem.wr /\ mem' = x /\ UNCHANGED app
                        /\ \E g : remote' = [remote EXCEPT !.got = g]
      BY Zenon DEF TunnelSend, SendLoop
    <3>3. (\E g : remote' = [remote EXCEPT !.got = g]) => remote'.read = n
      BY <1>0 DEF RemoteType
    <3> QED BY <1>5, <3>1, <3>2, <3>3
  <2>2. /\ x.heap = mem.heap /\ x.mRemoteFinished = f /\ x.mLocalSeq = mem.mLocalSeq
        /\ x.socket = mem.socket /\ x.rd = mem.rd /\ x.exists = mem.exists
        /\ y.heap = mem.heap /\ y.mRemoteFinished = f /\ y.mLocalSeq = mem.mLocalSeq
        /\ y.socket = mem.socket /\ y.rd = mem.rd /\ y.exists = mem.exists
    BY <1>0 DEF pauseSendData, MemoryType
  <2> HIDE DEF x, y
  <2>3. Carries(mem', n, f, ~f) /\ mem'.exists = "yes"
    BY <1>1, <2>1, <2>2, SameCarries
  <2> QED BY <1>0, <2>1, <2>3, CarriedStream, QuietStream
<1>6. ASSUME NEW s \in 0 .. AppBytes, TunnelSendFails(s) PROVE StreamKept
  <2> DEFINE h == Head(mem.mForwardQueue)
             g == [h EXCEPT !.off = h.off + s, !.len = h.len - s]
             q == <<g>> \o Tail(mem.mForwardQueue)
             w == [mem EXCEPT !.mForwardQueue = q]
  <2>1. mem' = onTunnelDisconnected(destroyTunnel(w)) /\ ~mem'.full /\ s < h.len
        /\ mem.wr /\ mem.mForwardQueue # <<>> /\ UNCHANGED app
    BY <1>6, Zenon DEF TunnelSendFails, SendLoop, Leave
  <2>2. remote'.read = n
    <3>1. \E e : remote' = [remote EXCEPT !.got = e]
      BY <1>6, Zenon DEF TunnelSendFails
    <3> QED BY <1>0, <3>1 DEF RemoteType
  <2>3. q \in Seq(ForwardType)
    <3>1. /\ h \in ForwardType /\ Tail(mem.mForwardQueue) \in Seq(ForwardType)
          /\ s \in Nat
      BY <1>0, <2>1, Fields, HeadTailProperties, SessionAssumption
    <3> HIDE DEF h
    <3>2. h.off + s \in Nat /\ h.len - s \in Nat
      <4>1. h.off \in Nat /\ h.len \in Nat /\ s < h.len
        BY <2>1, <3>1 DEF ForwardType
      <4> QED BY <3>1, <4>1
    <3>3. g \in ForwardType
      BY <3>1, <3>2 DEF ForwardType
    <3> HIDE DEF g
    <3>4. <<g>> \in Seq(ForwardType)
      BY <3>3
    <3> QED BY <3>1, <3>4, ConcatProperties
  <2> HIDE DEF q
  <2>4. w \in MemoryType /\ SameQueues(mem, w) /\ SameNumbers(mem, w)
        /\ w.exists = mem.exists /\ w.mRemoteFinished = f
        /\ w.socket = mem.socket /\ w.rd = mem.rd
    BY <1>0, <2>3 DEF MemoryType, SameQueues, SameNumbers
  <2> HIDE DEF w
  <2>5. Good(w) /\ ~w.full /\ Lined(w, Heard) /\ Carries(w, n, f, ~f)
    BY <1>0, <1>1, <2>1, <2>4, SameQueuesGood, SameNumbersLined, SameCarries
       DEF SameNumbers
  <2> QED BY <1>1, <1>2, <2>1, <2>2, <2>4, <2>5
<1> QED BY <1>3, <1>4, <1>5, <1>6 DEF Tunnel

(* Router's steps: a packet for the session, and what it has for the app.  *)
LEMMA AfterWriteStream ==
  ASSUME StreamInv, TunLoop, AfterWrite(RouterUnqueue(mem))
  PROVE  MemStream(mem', remote.read) /\ mem'.mRemoteFinished = mem.mRemoteFinished
<1> DEFINE e == RouterUnqueue(mem).mData # <<>>
           w == [RouterUnqueue(mem) EXCEPT !.tunWrite = e]
           n == remote.read
           f == mem.mRemoteFinished
<1>0. mem \in MemoryType /\ (mem.tunWrite => mem.mData # <<>>)
  BY NumParts DEF StreamInv
<1>1. mem.mData # <<>> /\ mem' = w
  BY <1>0 DEF TunLoop, AfterWrite
<1>2. /\ w.exists = mem.exists /\ w.mState = mem.mState
      /\ w.socket = mem.socket /\ w.rd = mem.rd
  BY <1>0 DEF RouterUnqueue, MemoryType
<1>3. /\ w.mRemoteFinished = f
      /\ Tells(mem, n, f) => Tells(w, n, f)
      /\ \A s : Carries(mem, n, f, s) => Carries(w, n, f, s)
  <2>1. /\ w.heap = RouterUnqueue(mem).heap /\ w.mRemoteFinished = f
        /\ w.mLocalSeq = mem.mLocalSeq
    BY <1>0 DEF RouterUnqueue, MemoryType
  <2> HIDE DEF w
  <2> QED BY <1>0, <1>1, <1>2, <2>1, RouterUnqueueCarries
<1> HIDE DEF w
<1> QED BY <1>1, <1>2, <1>3 DEF StreamInv, MemStream

LEMMA TunStream ==
  ASSUME StreamInv, Tun
  PROVE  StreamKept
<1> DEFINE n == remote.read
           f == mem.mRemoteFinished
<1>0. /\ Good(mem) /\ mem \in MemoryType /\ ~mem.full /\ Agreed(mem, {})
      /\ tunIn \in Seq(PacketType) /\ app \in AppType
      /\ Heard \in SUBSET Nat /\ n \in Nat /\ f \in BOOLEAN
      /\ (mem.tunWrite => mem.mData # <<>>)
  BY NumParts, StreamParts
<1>1. CASE RouterReadTun
  <2> DEFINE p == Head(tunIn)
  <2>1. p \in PacketType /\ tunIn # <<>>
    BY <1>0, <1>1, HeadTailProperties DEF RouterReadTun
  <2>2. tunIn' = Tail(tunIn) /\ UNCHANGED <<app, remote>>
    BY <1>1 DEF RouterReadTun
  <2>3. p.ack \in Heard
    BY <1>0, <2>1, HeardSubsets DEF Heard, AppType
  <2>4. CASE mem.exists = "yes" /\ ~hasClosed(mem) /\ Leave(accept(mem, p))
    <3>1. mem.mState # "CLOSED" /\ mem.mState # "LISTEN"
      BY <2>4 DEF StreamInv, NumInv, EndInv, Ended, hasClosed
    <3>2. Lined(mem, Heard) /\ Carries(mem, n, f, ~f)
      BY <2>4, <3>1, NumParts DEF StreamInv, MemStream
    <3> DEFINE w == accept(mem, p)
    <3>3. mem' = w /\ ~w.full
      BY <2>4 DEF Leave
    <3>4. Carries(w, n, f, ~f)
      BY <1>0, <2>1, <2>3, <3>1, <3>2, <3>3, acceptCarries
    <3>5. w.exists = "yes"
      BY <1>0, <2>1, <2>4, acceptLives DEF Lives
    <3> HIDE DEF w
    <3> QED BY <1>0, <2>2, <3>3, <3>4, <3>5, CarriedStream, QuietStream
  <2>5. CASE /\ mem.exists = "never" /\ p.flag = "SYN"
             /\ Leave(accept(buildSession(mem), p))
    <3>1. mem.mLocalSeq = 0 /\ mem.mState # "CLOSED" /\ n = 0 /\ f = FALSE
      BY <1>0, <2>5 DEF StreamInv, NumInv, EndInv, MemStream
    <3>2. Lined(mem, Heard) /\ Tells(mem, 0, FALSE)
      <4>1. Lined(mem, Heard) /\ Tells(mem, n, f)
        BY <2>5, <3>1, NumParts DEF StreamInv, MemStream
      <4> HIDE DEF n, f
      <4> QED BY <3>1, <4>1
    <3> DEFINE w == accept(buildSession(mem), p)
    <3>3. mem' = w /\ ~w.full
      BY <2>5 DEF Leave
    <3>4. Carries(w, 0, FALSE, TRUE)
      BY <1>0, <2>1, <2>5, <3>1, <3>2, <3>3, buildSessionCarries
    <3>5. w.exists = "yes"
      BY <1>0, <2>1, buildSessionGood, buildSessionLives, acceptLives DEF Lives
    <3> HIDE DEF w
    <3>6. MemStream(w, 0) /\ w.mRemoteFinished = FALSE
      BY <3>4, <3>5, CarriedStream
    <3> QED BY <2>2, <3>1, <3>3, <3>6, QuietStream
  <2>6. CASE mem' = mem
    BY <2>2, <2>6, QuietStream DEF StreamInv
  <2> QED BY <1>1, <2>4, <2>5, <2>6 DEF RouterReadTun
<1>2. CASE RouterSkipAborted
  <2>1. TunLoop /\ AfterWrite(RouterUnqueue(mem)) /\ UNCHANGED <<app, remote>>
    BY <1>2 DEF RouterSkipAborted
  <2> QED BY <2>1, AfterWriteStream, QuietStream
<1>3. CASE RouterWriteFails
  <2> DEFINE w == [mem EXCEPT !.tunWrite = FALSE]
  <2>1. mem' = w /\ UNCHANGED <<app, remote>>
    BY <1>3 DEF RouterWriteFails
  <2>2. /\ w.heap = mem.heap /\ w.mRemoteFinished = f /\ w.mLocalSeq = mem.mLocalSeq
        /\ w.socket = mem.socket /\ w.rd = mem.rd /\ w.exists = mem.exists
        /\ w.mState = mem.mState
    BY <1>0 DEF MemoryType
  <2> HIDE DEF w
  <2>3. MemStream(w, n)
    BY <2>2, SameCarries DEF StreamInv, MemStream
  <2> QED BY <2>1, <2>2, <2>3, QuietStream
<1>4. CASE RouterWriteTun
  <2> DEFINE d == mem.heap[Head(mem.mData)]
             r == Received(app, d)
  <2>1. TunLoop /\ AfterWrite(RouterUnqueue(mem)) /\ app' = r /\ UNCHANGED remote
    BY <1>4 DEF RouterWriteTun
  <2>2. d \in DatagramType /\ Placed(d, n, f)
    <3>1. mem.mData \in Seq(Cells) /\ mem.heap \in [Cells -> DatagramType]
          /\ mem.mData # <<>>
      BY <1>0, <2>1, Fields DEF TunLoop
    <3>2. Head(mem.mData) \in Cells
      BY <3>1, CellsTail
    <3> QED BY <3>1, <3>2 DEF StreamInv, MemStream, Tells
  <2>3. MemStream(mem', n) /\ mem'.mRemoteFinished = f
    BY <2>1, AfterWriteStream
  <2>4. AppStream(r, n, f) /\ Brings(app, r)
    BY <1>0, <2>2, ReceivedStream DEF StreamInv
  <2>5. r \in AppType /\ r.got.n \in Nat /\ r.got.n <= n /\ app.got.n \in Nat
        /\ r.eof \in BOOLEAN /\ app.eof \in BOOLEAN
    <3>1. r \in AppType
      BY <1>0, <2>2, ReceivedType
    <3> HIDE DEF r
    <3> QED BY <1>0, <2>4, <3>1 DEF AppType, StreamType, AppStream
  <2> HIDE DEF d, r
  <2>6. PipeStep
    <3>1. CASE r.got.n = app.got.n /\ r.eof = app.eof
      <4>1. CASE app.st = "done" \/ r.st # "done"
        <5>1. (r.st = "done") = (app.st = "done")
          BY <2>4, <4>1 DEF Brings
        <5>2. UNCHANGED Down!pipeVars
          BY <2>1, <2>3, <3>1, <5>1 DEF Down!pipeVars
        <5> QED BY <5>2 DEF PipeStep
      <4>2. CASE app.st # "done" /\ r.st = "done"
        <5>1. Down!Break
          BY <2>1, <2>3, <3>1, <4>2 DEF Down!Break
        <5> QED BY <5>1 DEF PipeStep, Down!PipeNext
      <4> QED BY <4>1, <4>2
    <3>2. CASE /\ r.got.n > app.got.n /\ ~app.eof /\ ~r.eof
               /\ app.st = "open" /\ r.st = "open"
      <4>1. Down!Deliver(app'.got.n)
        BY <2>1, <2>3, <2>5, <3>2 DEF Down!Deliver
      <4> QED BY <2>1, <2>5, <4>1 DEF PipeStep, Down!PipeNext
    <3>3. CASE /\ r.got.n = app.got.n /\ ~app.eof /\ r.eof
               /\ app.st = "open" /\ r.st = "open"
      <4>1. app.got.n = n /\ f
        BY <2>4, <3>3 DEF AppStream
      <4>2. Down!Finish
        BY <2>1, <2>3, <2>5, <3>3, <4>1 DEF Down!Finish
      <4> QED BY <4>2 DEF PipeStep, Down!PipeNext
    <3> QED BY <2>4, <3>1, <3>2, <3>3 DEF Brings
  <2> QED BY <2>1, <2>3, <2>4, <2>6 DEF StreamKept
<1> QED BY <1>1, <1>2, <1>3, <1>4 DEF Tun

LEMMA NextStream ==
  ASSUME StreamInv, [Next]_vars
  PROVE  StreamInv' /\ PipeStep
<1>0. mem \in MemoryType
  BY NumParts DEF StreamInv
<1>1. NumInv'
  BY NextNum DEF StreamInv
<1>2. StreamKept
  <2>1. CASE CleanDeadSessions
    <3> DEFINE w == releaseSession(mem)
    <3>1. mem' = w /\ UNCHANGED <<app, remote>>
      BY <2>1 DEF CleanDeadSessions
    <3>2. w.exists = "deleted" /\ ~w.socket /\ ~w.rd
      BY <1>0, releaseSessionLives
    <3>3. Tells(w, remote.read, mem.mRemoteFinished)
      BY <1>0, releaseSessionTells DEF StreamInv, MemStream
    <3> HIDE DEF w
    <3>4. MemStream(w, remote.read) /\ w.mRemoteFinished = mem.mRemoteFinished
      BY <3>2, <3>3 DEF MemStream, Tells
    <3> QED BY <3>1, <3>4, QuietStream
  <2>2. CASE Tick \/ UNCHANGED vars
    <3>1. /\ mem'.heap = mem.heap /\ mem'.mRemoteFinished = mem.mRemoteFinished
          /\ mem'.mLocalSeq = mem.mLocalSeq /\ mem'.exists = mem.exists
          /\ mem'.mState = mem.mState /\ mem'.socket = mem.socket
          /\ mem'.rd = mem.rd /\ UNCHANGED <<app, remote>>
      BY <1>0, <2>2 DEF Tick, vars, MemoryType
    <3>2. MemStream(mem', remote.read)
      BY <3>1, SameCarries DEF StreamInv, MemStream
    <3> QED BY <3>1, <3>2, QuietStream
  <2> QED BY <1>1, <2>1, <2>2, KernelStream, TunStream, TunnelStream DEF Next
<1>3. MemStream(mem, remote.read)' /\ AppStream(app, remote.read, mem.mRemoteFinished)'
  BY <1>2 DEF StreamKept, MemStream, Tells, Carries, AppStream
<1> QED BY <1>1, <1>2, <1>3 DEF StreamInv, StreamKept

LEMMA InitStream ==
  ASSUME Init
  PROVE  StreamInv /\ Down!PipeInit
<1>1. NumInv
  BY InitNum
<1>2. /\ mem.exists = "never" /\ mem.mRemoteFinished = FALSE
      /\ ~mem.socket /\ ~mem.rd
      /\ \A c \in Cells : mem.heap[c] = Free
  BY DEF Init, InitMemory
<1>3. app.st = "idle" /\ app.got = Empty /\ app.eof = FALSE /\ remote.read = 0
  BY DEF Init
<1>4. MemStream(mem, remote.read)
  BY <1>2, <1>3, FreePlaced DEF MemStream, Tells
<1>5. AppStream(app, remote.read, mem.mRemoteFinished)
  BY <1>3 DEF AppStream, Empty
<1>6. Down!PipeInit
  BY <1>2, <1>3 DEF Down!PipeInit, Empty
<1> QED BY <1>1, <1>4, <1>5, <1>6 DEF StreamInv

(* What the app got of the remote's bytes is a prefix of what the tunnel   *)
(* read, each byte once and in its place, and it sees the end only behind  *)
(* the last of them: retransmissions of the front datagram, the numbers    *)
(* enqueueBack gives and the FIN's wait for an empty queue agree, whatever *)
(* is lost, retried or reset on the way.                                   *)
THEOREM DownstreamStaysIntact == Spec => []DownstreamIntact
<1>1. Init => StreamInv
  BY InitStream
<1>2. StreamInv /\ [Next]_vars => StreamInv'
  BY NextStream
<1>3. StreamInv => DownstreamIntact
  BY DEF StreamInv, AppStream, DownstreamIntact
<1> QED BY <1>1, <1>2, <1>3, PTL DEF Spec

(* Towards the app the session implements a pipe: what its handlers do     *)
(* with numbers, retransmissions, pauses and states is, for the two ends   *)
(* of the stream, taking bytes, delivering the next of them, closing,      *)
(* announcing the end of the stream once all were delivered, or breaking.  *)
THEOREM DownImplementsPipe == Spec => DownIsPipe
<1>1. Init => StreamInv /\ Down!PipeInit
  BY InitStream
<1>2. StreamInv /\ [Next]_vars => StreamInv' /\ [Down!PipeNext]_(Down!pipeVars)
  BY NextStream DEF PipeStep
<1> QED BY <1>1, <1>2, PTL DEF Spec, DownIsPipe, Down!PipeSpec

(* What the pipe to the app is worth: an app that saw the end of it saw    *)
(* all that the tunnel read, after the session learned that the remote     *)
(* finished, and no app ever has more than was read.                       *)
THEOREM DownPipeIsHonest == Spec => [](Down!FinishedIsComplete /\ Down!NothingLost)
<1>1. Init => StreamInv
  BY InitStream
<1>2. StreamInv /\ [Next]_vars => StreamInv'
  BY NextStream
<1>3. StreamInv => Down!FinishedIsComplete /\ Down!NothingLost
  BY StreamParts DEF Down!FinishedIsComplete, Down!NothingLost
<1> QED BY <1>1, <1>2, <1>3, PTL DEF Spec

-----------------------------------------------------------------------------
(* The stream to the remote: the inductive invariant                       *)

(* The session's queue for the remote: the app's bytes from the number     *)
(* from on, each datagram where the one before it ends, up to number upto. *)
Forwards(q, from, upto) ==
  /\ \A i \in 1 .. Len(q) :
       /\ q[i].len > 0 /\ q[i].seq = q[i].off + 1
       /\ q[i].off + q[i].len <= upto
       /\ q[i].off = IF i = 1 THEN from ELSE q[i - 1].off + q[i - 1].len
  /\ upto = IF q = <<>> THEN from ELSE q[Len(q)].off + q[Len(q)].len

(* A packet of the kernel, to a session that expects number m, makes it    *)
(* expect number n: it brings the next bytes, or bytes the session has, or *)
(* none.                                                                   *)
Takes(p, m, n) ==
  \/ p.flag \in {"SYN", "RST"} /\ n = m
  \/ p.flag = "ACK" /\ p.len = 0 /\ n = m
  \/ /\ p.flag = "ACK" /\ p.len > 0 /\ p.seq = p.off + 1
     /\ \/ p.seq + p.len <= m /\ n = m
        \/ p.seq = m /\ n = m + p.len
  \/ p.flag = "FIN" /\ p.len = 0 /\ n = p.seq + 1 /\ m \in {p.seq, n}

(* The packets in the tun device take the session from expecting m to      *)
(* expecting n, one after the other.                                       *)
Chain(t, m, n) ==
  \E e \in [0 .. Len(t) -> Nat] :
    /\ e[0] = m /\ e[Len(t)] = n
    /\ \A i \in 0 .. Len(t) : e[i] <= n
    /\ \A i \in 1 .. Len(t) : Takes(t[i], e[i - 1], e[i])

(* They acknowledge no less than the session knows, and ever more.         *)
Acknowledge(t, m, n) ==
  /\ m <= n
  /\ \A i \in 1 .. Len(t) : m <= t[i].ack /\ t[i].ack <= n
  /\ \A i, j \in 1 .. Len(t) : i < j => t[i].ack <= t[j].ack

(* No byte in them is beyond what the app sent, no FIN before its end.     *)
Backed(p, a) ==
  /\ p.flag = "ACK" => p.off + p.len <= a.sent
  /\ p.flag = "FIN" => a.fin = TRUE /\ p.seq = a.sent + 1

(* What the datagrams in memory acknowledge.                               *)
AcksUpTo(v, n) == \A c \in Cells : v.heap[c].ack <= n

(* A session whose tunnel is up and took n bytes: what it counted is with  *)
(* the remote or in the queue, and it acknowledges no more than that.      *)
UpMem(v, a, n) ==
  /\ v.mState \in {"SYN_RCVED", "ESTABLISHED", "CLOSE_WAIT"}
  /\ v.mRemoteFinished = FALSE /\ v.mAlive = TRUE /\ v.idle = 0
  /\ v.mRemoteNext >= 1 /\ v.mRemoteNext <= SndNxt(a)
  /\ Forwards(v.mForwardQueue, n, Min2(v.mRemoteNext - 1, a.sent))
  /\ AcksUpTo(v, v.mRemoteNext) /\ a.una <= v.mRemoteNext
  /\ v.mState = "CLOSE_WAIT" => a.fin = TRUE /\ v.mRemoteNext = SndNxt(a)

(* With the packets under way it will have all that the app sent.          *)
UpLive(v, t, a, n) ==
  /\ UpMem(v, a, n)
  /\ Chain(t, v.mRemoteNext, SndNxt(a))
  /\ Acknowledge(t, v.mLocalNext, a.next)

(* Before there is a session the app has only tried to connect.            *)
UpNew(v, t, a, n) ==
  /\ a.st # "open" /\ a.sent = 0 /\ a.fin = FALSE /\ a.next = 0 /\ a.una = 0 /\ n = 0
  /\ v.mForwardQueue = <<>> /\ v.mRemoteFinished = FALSE
  /\ v.mLocalNext = 0 /\ v.mRemoteNext = 0 /\ AcksUpTo(v, 0)
  /\ \A i \in 1 .. Len(t) : t[i].flag \in {"SYN", "RST"} /\ t[i].ack = 0

(* All of it, for a remote that has the stream r.                          *)
UpState(v, t, a, r) ==
  /\ r.ok = TRUE /\ r.n <= a.sent
  /\ a.st \in {"idle", "syn"} => a.next = 0
  /\ \A i \in 1 .. Len(t) : Backed(t[i], a)
  /\ v.wr = TRUE => v.socket = TRUE
  /\ v.exists = "never" => UpNew(v, t, a, r.n)
  /\ v.socket = TRUE => UpLive(v, t, a, r.n)

UpInv == NumInv /\ UpState(mem, tunIn, app, remote.got)

-----------------------------------------------------------------------------
(* The stream to the remote: what the way back to the app leaves of it     *)

(* The same numbers, queue and state; a datagram in memory acknowledges    *)
(* what it did, or what the session expects.                               *)
UpSame(v, w) ==
  /\ w.mRemoteNext = v.mRemoteNext /\ w.mForwardQueue = v.mForwardQueue
  /\ w.mLocalNext = v.mLocalNext /\ w.exists = v.exists
  /\ w.mRemoteFinished = v.mRemoteFinished /\ w.idle = v.idle
  /\ w.mState = v.mState /\ w.mAlive = v.mAlive
  /\ w.socket = v.socket /\ w.wr = v.wr
  /\ \A c \in Cells : w.heap[c].ack \in {v.heap[c].ack, 0, v.mRemoteNext}

(* The same but for the end of the session, which takes the tunnel down    *)
(* (or comes after the remote finished).                                   *)
UpKept(v, w) ==
  /\ w.mRemoteNext = v.mRemoteNext /\ w.mForwardQueue = v.mForwardQueue
  /\ w.mLocalNext = v.mLocalNext /\ w.exists = v.exists
  /\ w.mRemoteFinished = v.mRemoteFinished /\ w.idle = v.idle
  /\ v.socket = FALSE => w.socket = FALSE
  /\ w.socket = FALSE \/ v.mRemoteFinished = TRUE
       \/ (w.mState = v.mState /\ w.mAlive = v.mAlive)
  /\ (v.wr = TRUE => v.socket = TRUE) => (w.wr = TRUE => w.socket = TRUE)
  /\ \A c \in Cells : w.heap[c].ack \in {v.heap[c].ack, 0, v.mRemoteNext}

LEMMA UpSameKept ==
  ASSUME NEW v, NEW w, UpSame(v, w) PROVE UpKept(v, w)
BY Zenon DEF UpSame, UpKept

LEMMA UpKeptOn ==
  ASSUME NEW u, NEW v, NEW w, UpKept(u, v), UpKept(v, w) PROVE UpKept(u, w)
<1>1. ASSUME NEW c \in Cells PROVE w.heap[c].ack \in {u.heap[c].ack, 0, u.mRemoteNext}
  BY <1>1 DEF UpKept
<1>2. u.socket = FALSE => w.socket = FALSE
  BY DEF UpKept
<1>3. w.socket = FALSE \/ u.mRemoteFinished = TRUE
       \/ (w.mState = u.mState /\ w.mAlive = u.mAlive)
  BY DEF UpKept
<1>4. (u.wr = TRUE => u.socket = TRUE) => (w.wr = TRUE => w.socket = TRUE)
  BY DEF UpKept
<1> QED BY <1>1, <1>2, <1>3, <1>4 DEF UpKept

LEMMA UpSameOn ==
  ASSUME NEW u, NEW v, NEW w, UpSame(u, v), UpSame(v, w) PROVE UpSame(u, w)
<1>1. ASSUME NEW c \in Cells PROVE w.heap[c].ack \in {u.heap[c].ack, 0, u.mRemoteNext}
  BY <1>1 DEF UpSame
<1> QED BY <1>1 DEF UpSame

LEMMA popAckedUp ==
  ASSUME NEW v \in MemoryType PROVE UpSame(v, popAcked(v))
<1> DEFINE q == v.mBackQueue
           g == CellsOf(SubSeq(q, 1, LeadingRun(Len(q),
                  {i \in DOMAIN q : ~Finished(v, v.heap[q[i]])})))
           r == Drop(q, LeadingRun(Len(q),
                  {i \in DOMAIN q : ~Finished(v, v.heap[q[i]])}))
           h == SafeRelease(v.heap, g)
           w == [v EXCEPT !.mBackQueue = r, !.heap = h]
<1>1. popAcked(v) = w
  BY DEF popAcked
<1>2. \A c \in Cells : h[c].ack \in {v.heap[c].ack, 0}
  <2> HIDE DEF g
  <2>1. v.heap \in [Cells -> DatagramType]
    BY Fields
  <2>2. ASSUME NEW c \in Cells PROVE h[c].ack \in {v.heap[c].ack, 0}
    <3> DEFINE d == v.heap[c]
               e == [d EXCEPT !.abort = TRUE, !.release = TRUE]
    <3>1. h[c] \in {d, e, Free}
      BY DEF SafeRelease
    <3>2. d \in DatagramType
      BY <2>1
    <3> HIDE DEF d
    <3>3. e.ack = d.ack /\ Free.ack = 0
      BY <3>2 DEF DatagramType, Free
    <3> HIDE DEF e, h
    <3> QED BY <3>1, <3>3 DEF d
  <2> QED BY <2>2
<1> HIDE DEF r, h
<1>3. /\ w.heap = h /\ w.mRemoteNext = v.mRemoteNext /\ w.mForwardQueue = v.mForwardQueue
      /\ w.mLocalNext = v.mLocalNext /\ w.exists = v.exists
      /\ w.mRemoteFinished = v.mRemoteFinished /\ w.idle = v.idle
      /\ w.mState = v.mState /\ w.mAlive = v.mAlive
      /\ w.socket = v.socket /\ w.wr = v.wr
  BY DEF MemoryType
<1> HIDE DEF w
<1> QED BY <1>1, <1>2, <1>3 DEF UpSame

LEMMA AllocateUp ==
  ASSUME NEW v \in MemoryType, NEW d \in DatagramType, d.ack = v.mRemoteNext
  PROVE  UpSame(v, Allocate(v, d))
<1> DEFINE h == [v.heap EXCEPT ![FreshCell(v)] = d]
           w == Allocate(v, d)
<1>1. w.heap = h
  BY AllocateEffect
<1>2. \A c \in Cells : h[c] = v.heap[c] \/ h[c] = d
  BY Fields
<1>3. /\ w.mRemoteNext = v.mRemoteNext /\ w.mForwardQueue = v.mForwardQueue
      /\ w.mLocalNext = v.mLocalNext /\ w.exists = v.exists
      /\ w.mRemoteFinished = v.mRemoteFinished /\ w.idle = v.idle
      /\ w.mState = v.mState /\ w.mAlive = v.mAlive
      /\ w.socket = v.socket /\ w.wr = v.wr
  BY DEF MemoryType, Allocate
<1> HIDE DEF w, h
<1>4. \A c \in Cells : w.heap[c].ack \in {v.heap[c].ack, 0, v.mRemoteNext}
  BY <1>1, <1>2
<1> QED BY <1>3, <1>4 DEF UpSame, w

LEMMA enqueueBackUp ==
  ASSUME NEW v \in MemoryType, NEW flag \in Flags, NEW off \in Nat, NEW len \in Nat
  PROVE  UpSame(v, enqueueBack(v, flag, off, len))
<1> DEFINE d == BuildPackage(v, flag, off, len)
           u == Allocate(v, d)
           q == Append(u.mBackQueue, FreshCell(v))
           n == u.mLocalSeq + (IF flag \in {"SYN", "FIN"} THEN 1 ELSE len)
           w == [u EXCEPT !.mBackQueue = q, !.mLocalSeq = n]
<1>1. d \in DatagramType /\ d.ack = v.mRemoteNext
  BY BuildPackageType DEF BuildPackage, Free
<1>2. enqueueBack(v, flag, off, len) = w
  BY DEF enqueueBack
<1> HIDE DEF d
<1>3. u \in MemoryType /\ UpSame(v, u)
  BY <1>1, AllocateEffect, AllocateUp
<1> HIDE DEF u, q, n
<1>4. /\ w.heap = u.heap /\ w.mRemoteNext = u.mRemoteNext /\ w.mForwardQueue = u.mForwardQueue
      /\ w.mLocalNext = u.mLocalNext /\ w.exists = u.exists
      /\ w.mRemoteFinished = u.mRemoteFinished /\ w.idle = u.idle
      /\ w.mState = u.mState /\ w.mAlive = u.mAlive
      /\ w.socket = u.socket /\ w.wr = u.wr
  BY <1>3 DEF MemoryType
<1> HIDE DEF w
<1> QED BY <1>2, <1>3, <1>4 DEF UpSame

LEMMA sendBackSegmentUp ==
  ASSUME NEW v \in MemoryType, NEW c \in Cells
  PROVE  UpSame(v, sendBackSegment(v, c))
<1> DEFINE h == [v.heap EXCEPT ![c].sent = TRUE]
           u == [v EXCEPT !.heap = h]
           w == sendBackSegment(v, c)
<1>1. v.heap \in [Cells -> DatagramType]
  BY Fields
<1>2. w = RouterQueue(u, c)
  BY DEF sendBackSegment
<1>3. /\ u.heap = h /\ DOMAIN u = DOMAIN v
      /\ u.mRemoteNext = v.mRemoteNext /\ u.mForwardQueue = v.mForwardQueue
      /\ u.mLocalNext = v.mLocalNext /\ u.exists = v.exists
      /\ u.mRemoteFinished = v.mRemoteFinished /\ u.idle = v.idle
      /\ u.mState = v.mState /\ u.mAlive = v.mAlive
      /\ u.socket = v.socket /\ u.wr = v.wr
  BY DEF MemoryType
<1>4. /\ w.mRemoteNext = v.mRemoteNext /\ w.mForwardQueue = v.mForwardQueue
      /\ w.mLocalNext = v.mLocalNext /\ w.exists = v.exists
      /\ w.mRemoteFinished = v.mRemoteFinished /\ w.idle = v.idle
      /\ w.mState = v.mState /\ w.mAlive = v.mAlive
      /\ w.socket = v.socket /\ w.wr = v.wr
      /\ w.heap \in {h, [h EXCEPT ![c].buffering = TRUE]}
  <2> HIDE DEF h, u
  <2>1. CASE u.heap[c].buffering \/ u.heap[c].abort
    BY <1>2, <1>3, <2>1 DEF RouterQueue
  <2>2. CASE ~(u.heap[c].buffering \/ u.heap[c].abort)
    BY <1>2, <1>3, <2>2 DEF RouterQueue, MemoryType
  <2> QED BY <2>1, <2>2
<1> HIDE DEF w
<1>5. ASSUME NEW b \in Cells PROVE w.heap[b].ack = v.heap[b].ack
  <2> DEFINE d == v.heap[b]
             e == [d EXCEPT !.sent = TRUE]
             g == [e EXCEPT !.buffering = TRUE]
  <2>1. w.heap[b] \in {d, e, g}
    <3>1. DOMAIN h = Cells /\ h[b] = IF b = c THEN e ELSE d
      BY <1>1
    <3> HIDE DEF h, e, d
    <3> QED BY <1>4, <3>1
  <2>2. d \in DatagramType
    BY <1>1
  <2> HIDE DEF d
  <2>3. e.ack = d.ack /\ g.ack = d.ack
    BY <2>2 DEF DatagramType
  <2> HIDE DEF e, g
  <2> QED BY <2>1, <2>3 DEF d
<1> QED BY <1>4, <1>5 DEF UpSame, w

(* A change of state keeps all the rest, and CLOSED takes the tunnel down. *)
LEMMA switchStateUp ==
  ASSUME NEW v \in MemoryType, NEW t \in States
  PROVE  LET w == switchState(v, t)
         IN  /\ t = "CLOSED" \/ v.mRemoteFinished = TRUE => UpKept(v, w)
             /\ t # "CLOSED" => UpSame([v EXCEPT !.mState = t], w) /\ w.mState = t
<1> DEFINE x == [v EXCEPT !.mState = t]
           y == [x EXCEPT !.mAlive = FALSE]
           z == destroyTunnel(y)
           w == switchState(v, t)
<1>1. w = IF v.mState = t THEN v ELSE IF t = "CLOSED" THEN z ELSE x
  BY DEF switchState, close
<1>2. /\ x.heap = v.heap /\ x.mRemoteNext = v.mRemoteNext /\ x.mForwardQueue = v.mForwardQueue
      /\ x.mLocalNext = v.mLocalNext /\ x.exists = v.exists
      /\ x.mRemoteFinished = v.mRemoteFinished /\ x.idle = v.idle
      /\ x.mState = t /\ x.mAlive = v.mAlive
      /\ x.socket = v.socket /\ x.wr = v.wr
  BY DEF MemoryType
<1>3. /\ z.heap = v.heap /\ z.mRemoteNext = v.mRemoteNext /\ z.mForwardQueue = v.mForwardQueue
      /\ z.mLocalNext = v.mLocalNext /\ z.exists = v.exists
      /\ z.mRemoteFinished = v.mRemoteFinished /\ z.idle = v.idle
      /\ z.socket = FALSE /\ z.wr = FALSE
  BY DEF MemoryType, destroyTunnel
<1> HIDE DEF x, z, w
<1>4. UpKept(v, v) /\ UpKept(v, z)
  BY <1>3 DEF UpKept
<1>5. v.mRemoteFinished = TRUE => UpKept(v, x)
  BY <1>2 DEF UpKept
<1>6. UpSame(x, x)
  BY DEF UpSame
<1>7. v.mState = t => UpSame(x, v)
  BY <1>2 DEF UpSame
<1>8. t = "CLOSED" \/ v.mRemoteFinished = TRUE => UpKept(v, w)
  BY <1>1, <1>4, <1>5
<1>9. t # "CLOSED" => UpSame(x, w) /\ w.mState = t
  BY <1>1, <1>2, <1>6, <1>7
<1> QED BY <1>8, <1>9 DEF x, w

LEMMA resumeIfRoomUp ==
  ASSUME NEW v \in MemoryType PROVE UpSame(v, resumeIfRoom(v))
<1> DEFINE w == resumeReceiveData(v)
<1>1. /\ w.heap = v.heap /\ w.mRemoteNext = v.mRemoteNext /\ w.mForwardQueue = v.mForwardQueue
      /\ w.mLocalNext = v.mLocalNext /\ w.exists = v.exists
      /\ w.mRemoteFinished = v.mRemoteFinished /\ w.idle = v.idle
      /\ w.mState = v.mState /\ w.mAlive = v.mAlive
      /\ w.socket = v.socket /\ w.wr = v.wr
  BY DEF resumeReceiveData, MemoryType
<1>2. resumeIfRoom(v) \in {v, w}
  BY DEF resumeIfRoom
<1> HIDE DEF w
<1>3. UpSame(v, v) /\ UpSame(v, w)
  BY <1>1 DEF UpSame
<1> QED BY <1>2, <1>3

(* The reset takes the tunnel down.                                        *)
LEMMA resetConnectionUp ==
  ASSUME NEW v \in MemoryType PROVE UpKept(v, resetConnection(v))
<1> DEFINE w == [v EXCEPT !.mLocalSeq = v.mLocalNext]
           c == FreshCell(w)
           b == BuildPackage(w, "RST", 0, 0)
           r == [b EXCEPT !.release = TRUE]
           x == Allocate(w, r)
           y == sendBackSegment(x, c)
<1>1. /\ w \in MemoryType /\ w.heap = v.heap
      /\ w.mRemoteNext = v.mRemoteNext /\ w.mForwardQueue = v.mForwardQueue
      /\ w.mLocalNext = v.mLocalNext /\ w.exists = v.exists
      /\ w.mRemoteFinished = v.mRemoteFinished /\ w.idle = v.idle
      /\ w.mState = v.mState /\ w.mAlive = v.mAlive
      /\ w.socket = v.socket /\ w.wr = v.wr
  BY Fields DEF MemoryType
<1>2. resetConnection(v) = switchState(y, "CLOSED")
  BY DEF resetConnection
<1> HIDE DEF w
<1>3. UpSame(v, w)
  BY <1>1 DEF UpSame
<1>4. b \in DatagramType /\ b.ack = w.mRemoteNext
  <2>1. "RST" \in Flags
    BY DEF Flags
  <2>2. b \in DatagramType
    BY <1>1, <2>1, BuildPackageType
  <2> QED BY <2>2 DEF BuildPackage, Free
<1> HIDE DEF b
<1>5. r \in DatagramType /\ r.ack = w.mRemoteNext
  BY <1>4 DEF DatagramType
<1> HIDE DEF r
<1>6. x \in MemoryType /\ c \in Cells /\ UpSame(w, x)
  BY <1>1, <1>5, AllocateEffect, AllocateUp
<1> HIDE DEF x, c
<1>7. y \in MemoryType /\ UpSame(x, y)
  BY <1>6, sendBackSegmentType, sendBackSegmentUp
<1> HIDE DEF y
<1>8. "CLOSED" \in States
  BY DEF States
<1>9. UpKept(y, switchState(y, "CLOSED"))
  BY <1>7, <1>8, switchStateUp
<1> QED BY <1>2, <1>3, <1>6, <1>7, <1>9, UpSameOn, UpSameKept, UpKeptOn

LEMMA sendBackUp ==
  ASSUME NEW v \in MemoryType PROVE UpKept(v, sendBack(v))
<1> DEFINE c == Head(v.mBackQueue)
<1>0. UpKept(v, resumeIfRoom(v)) /\ UpKept(v, resetConnection(v))
  BY resumeIfRoomUp, resetConnectionUp, UpSameKept
<1>1. CASE v.mBackQueue = <<>>
  BY <1>0, <1>1 DEF sendBack
<1>2. CASE v.mBackQueue # <<>>
  <2>1. c \in Cells
    BY <1>2, Fields, CellsTail
  <2>2. sendBack(v) \in {resetConnection(v), resumeIfRoom(v),
                         resumeIfRoom(sendBackSegment(v, c))}
    BY <1>2 DEF sendBack
  <2> HIDE DEF c
  <2>3. /\ sendBackSegment(v, c) \in MemoryType
        /\ UpSame(v, sendBackSegment(v, c))
    BY <2>1, sendBackSegmentType, sendBackSegmentUp
  <2>4. UpSame(v, resumeIfRoom(sendBackSegment(v, c)))
    BY <2>3, resumeIfRoomUp, UpSameOn
  <2> QED BY <1>0, <2>2, <2>4, UpSameKept
<1> QED BY <1>1, <1>2

LEMMA pushFinUp ==
  ASSUME NEW v, Good(v), v.mRemoteFinished = TRUE PROVE UpKept(v, pushFin(v))
<1> DEFINE t == enqueueBack(v, "FIN", 0, 0)
           u == popAcked(t)
           w == sendBack(u)
           s == IF w.mState = "ESTABLISHED" THEN "FIN_WAIT1" ELSE "LAST_ACK"
<1>0. v \in MemoryType /\ "FIN" \in Flags /\ 0 \in Nat
  BY DEF Good, GoodWith, Flags
<1>1. Good(t) /\ t \in MemoryType
  BY <1>0, enqueueBackGood DEF Good, GoodWith
<1>2. pushFin(v) = switchState(w, s) /\ s \in States
  BY DEF pushFin, States
<1>3. UpKept(v, t)
  BY <1>0, enqueueBackUp, UpSameKept
<1> HIDE DEF t, s
<1>4. Good(u) /\ u \in MemoryType /\ UpKept(t, u)
  BY <1>1, popAckedGood, popAckedUp, UpSameKept DEF Good, GoodWith
<1> HIDE DEF u
<1>5. w \in MemoryType /\ UpKept(u, w)
  BY <1>4, sendBackGood, sendBackUp DEF Good, GoodWith
<1> HIDE DEF w
<1>6. w.mRemoteFinished = TRUE
  BY <1>3, <1>4, <1>5 DEF UpKept
<1>7. UpKept(w, switchState(w, s))
  BY <1>2, <1>5, <1>6, switchStateUp
<1>8. UpKept(v, u)
  BY <1>3, <1>4, UpKeptOn
<1>9. UpKept(v, w)
  BY <1>8, <1>5, UpKeptOn
<1> QED BY <1>2, <1>7, <1>9, UpKeptOn

LEMMA flushBackQueueUp ==
  ASSUME NEW v, Good(v) PROVE UpKept(v, flushBackQueue(v))
<1> DEFINE w == popAcked(v)
<1>1. Good(w) /\ w \in MemoryType /\ UpKept(v, w)
  BY popAckedGood, popAckedUp, UpSameKept DEF Good, GoodWith
<1>2. flushBackQueue(v) = IF ~mayFinish(w) THEN sendBack(w)
                          ELSE IF canPush(w) THEN pushFin(w) ELSE w
  BY DEF flushBackQueue
<1> HIDE DEF w
<1>3. mayFinish(w) => w.mRemoteFinished = TRUE
  BY <1>1 DEF mayFinish, MemoryType
<1>4. mayFinish(w) => UpKept(w, pushFin(w))
  BY <1>1, <1>3, pushFinUp
<1>5. UpKept(w, sendBack(w))
  BY <1>1, sendBackUp
<1> QED BY <1>1, <1>2, <1>4, <1>5, UpKeptOn

LEMMA pushInBackQueueUp ==
  ASSUME NEW v, Good(v), NEW flag \in Flags, NEW off \in Nat, NEW len \in Nat
  PROVE  UpKept(v, pushInBackQueue(v, flag, off, len))
<1> DEFINE w == enqueueBack(v, flag, off, len)
<1>1. v \in MemoryType /\ Good(w) /\ UpKept(v, w)
  BY enqueueBackGood, enqueueBackUp, UpSameKept DEF Good, GoodWith
<1>2. pushInBackQueue(v, flag, off, len) \in {flushBackQueue(w), v}
  BY DEF pushInBackQueue
<1> HIDE DEF w
<1>3. UpKept(v, v)
  BY DEF UpKept
<1> QED BY <1>1, <1>2, <1>3, flushBackQueueUp, UpKeptOn

LEMMA onSackUp ==
  ASSUME NEW v \in MemoryType, NEW sack PROVE UpSame(v, onSack(v, sack))
BY onSackReturns DEF UpSame

(* A tunnel that is down: no handler of the session brings it up again.    *)
TunnelDown(v) == v.socket = FALSE /\ v.wr = FALSE

LEMMA KeptDown ==
  ASSUME NEW v, NEW w \in MemoryType, UpKept(v, w), TunnelDown(v)
  PROVE  TunnelDown(w)
BY DEF UpKept, MemoryType, TunnelDown

LEMMA switchStateDown ==
  ASSUME NEW v \in MemoryType, NEW t, TunnelDown(v)
  PROVE  TunnelDown(switchState(v, t))
BY DEF switchState, close, destroyTunnel, MemoryType, TunnelDown

LEMMA pushAckDown ==
  ASSUME NEW v, Good(v), TunnelDown(v)
  PROVE  /\ TunnelDown(pushInBackQueue(v, "ACK", 0, 0)) /\ TunnelDown(flushBackQueue(v))
         /\ pushInBackQueue(v, "ACK", 0, 0) \in MemoryType /\ flushBackQueue(v) \in MemoryType
<1>1. "ACK" \in Flags /\ 0 \in Nat
  BY DEF Flags
<1>2. /\ UpKept(v, pushInBackQueue(v, "ACK", 0, 0)) /\ UpKept(v, flushBackQueue(v))
      /\ Good(pushInBackQueue(v, "ACK", 0, 0)) /\ Good(flushBackQueue(v))
  BY <1>1, pushInBackQueueUp, pushInBackQueueGood, flushBackQueueUp, flushBackQueueGood
<1> QED BY <1>2, KeptDown DEF Good, GoodWith

LEMMA enqueueIfNeedDown ==
  ASSUME NEW v, Good(v), NEW p \in PacketType, TunnelDown(v)
  PROVE  TunnelDown(enqueueIfNeed(v, p))
<1> DEFINE q == InsertAfter(v.mForwardQueue, smaller(v, p),
                            [seq |-> p.seq, off |-> p.off, len |-> p.len])
           w == [v EXCEPT !.mForwardQueue = q, !.mRemoteNext = v.mRemoteNext + p.len]
<1>1. enqueueIfNeed(v, p) \in
         {requestSendData(w), pushInBackQueue(v, "ACK", 0, 0), v}
  BY DEF enqueueIfNeed
<1> HIDE DEF q
<1>2. w.socket = FALSE /\ w.wr = FALSE /\ DOMAIN w = DOMAIN v
  BY DEF MemoryType, TunnelDown, Good, GoodWith
<1> HIDE DEF w
<1>3. TunnelDown(requestSendData(w))
  BY <1>2 DEF requestSendData, TunnelDown, MemoryType, Good, GoodWith
<1> QED BY <1>1, <1>3, pushAckDown

LEMMA onEstablishedDown ==
  ASSUME NEW v, Good(v), NEW p \in PacketType, TunnelDown(v)
  PROVE  TunnelDown(onEstablished(v, p))
<1> DEFINE w == IF v.mSack /\ p.sack.from < p.sack.to THEN onSack(v, p.sack) ELSE v
           x == enqueueIfNeed(w, p)
<1>1. Good(w) /\ TunnelDown(w)
  BY onSackGood, onSackUp DEF Good, GoodWith, UpSame, TunnelDown
<1>2. onEstablished(v, p) \in {pushInBackQueue(x, "ACK", 0, 0), flushBackQueue(x)}
  BY DEF onEstablished
<1> HIDE DEF w
<1>3. Good(x) /\ TunnelDown(x)
  BY <1>1, enqueueIfNeedGood, enqueueIfNeedDown
<1> HIDE DEF x
<1> QED BY <1>2, <1>3, pushAckDown

LEMMA onNewAckDown ==
  ASSUME NEW v, Good(v), NEW p \in PacketType, TunnelDown(v)
  PROVE  TunnelDown(onNewAck(v, p))
<1>1. {"ESTABLISHED", "FIN_WAIT2", "CLOSED", "TIME_WAIT"} \subseteq States
  BY DEF States
<1>2. ASSUME NEW s \in {"ESTABLISHED", "FIN_WAIT2", "CLOSED", "TIME_WAIT"}
      PROVE  Good(switchState(v, s)) /\ TunnelDown(switchState(v, s))
  BY <1>1, switchStateGood, switchStateDown DEF Good, GoodWith
<1>3. TunnelDown(flushBackQueue(enqueueIfNeed(switchState(v, "ESTABLISHED"), p)))
  <2> DEFINE e == switchState(v, "ESTABLISHED")
  <2>1. Good(e) /\ TunnelDown(e)
    BY <1>2
  <2> HIDE DEF e
  <2>2. TunnelDown(flushBackQueue(enqueueIfNeed(e, p)))
    BY <2>1, enqueueIfNeedGood, enqueueIfNeedDown, pushAckDown
  <2> QED BY <2>2 DEF e
<1>4. \A s \in {"FIN_WAIT2", "CLOSED", "TIME_WAIT"} :
         TunnelDown(flushBackQueue(switchState(v, s)))
  BY <1>2, pushAckDown
<1>5. TunnelDown(flushBackQueue(v)) /\ TunnelDown(onEstablished(v, p))
  BY pushAckDown, onEstablishedDown
<1> QED BY <1>3, <1>4, <1>5 DEF onNewAck

LEMMA acceptDown ==
  ASSUME NEW v, Good(v), NEW p \in PacketType, TunnelDown(v), v.mState # "LISTEN"
  PROVE  TunnelDown(accept(v, p))
<1> DEFINE w == CASE p.flag = "SYN" -> onReceiveSYN(v, p)
                  [] p.flag = "FIN" -> onReceiveFIN(v, p)
                  [] p.flag = "RST" -> onReceiveRST(v)
                  [] OTHER          -> onReceiveACK(v, p)
<1>0. v \in MemoryType
  BY DEF Good, GoodWith
<1>1. TunnelDown(onReceiveSYN(v, p))
  BY pushAckDown DEF onReceiveSYN
<1>2. TunnelDown(onReceiveRST(v)) /\ Good(onReceiveRST(v))
  <2>1. "CLOSED" \in States
    BY DEF States
  <2> QED BY <1>0, <2>1, switchStateDown, switchStateGood DEF onReceiveRST
<1>3. TunnelDown(onReceiveFIN(v, p))
  <2> DEFINE b == IF v.mLocalNext <= p.ack THEN p.ack ELSE v.mLocalNext
             m == p.seq + 1
             u == [v EXCEPT !.mLocalNext = b, !.mRemoteNext = m]
             x == pushInBackQueue(u, "ACK", 0, 0)
  <2>1. b \in Nat /\ m \in Nat
    BY <1>0, Fields DEF PacketType
  <2>2. onReceiveFIN(v, p) = x \/ \E s : onReceiveFIN(v, p) = switchState(x, s)
    BY DEF onReceiveFIN
  <2> HIDE DEF b, m
  <2>3. u \in MemoryType /\ SameQueues(v, u) /\ TunnelDown(u)
    BY <1>0, <2>1 DEF MemoryType, SameQueues, TunnelDown
  <2> HIDE DEF u
  <2>4. x \in MemoryType /\ TunnelDown(x)
    BY <2>3, SameQueuesGood, pushAckDown
  <2> HIDE DEF x
  <2> QED BY <2>2, <2>4, switchStateDown
<1>4. TunnelDown(onReceiveACK(v, p))
  <2> DEFINE b == IF v.mLocalNext <= p.ack THEN p.ack ELSE v.mLocalNext
             u == [v EXCEPT !.mSendWindow = p.win, !.mLocalNext = b]
  <2>1. b \in Nat /\ p.win \in Nat
    BY <1>0, Fields DEF PacketType
  <2>2. onReceiveACK(v, p) \in {u, onNewAck(u, p)}
    BY DEF onReceiveACK
  <2> HIDE DEF b
  <2>3. u \in MemoryType /\ SameQueues(v, u) /\ TunnelDown(u)
    BY <1>0, <2>1 DEF MemoryType, SameQueues, TunnelDown
  <2> HIDE DEF u
  <2> QED BY <2>2, <2>3, SameQueuesGood, onNewAckDown
<1>5. Good(w) /\ TunnelDown(w)
  BY <1>1, <1>2, <1>3, <1>4, onReceiveSYNGood, onReceiveFINGood, onReceiveACKGood
<1>6. accept(v, p) = [w EXCEPT !.idle = 0]
  BY DEF accept
<1> HIDE DEF w
<1> QED BY <1>5, <1>6 DEF TunnelDown, Good, GoodWith, MemoryType

(* A read of the tunnel is no matter for the stream to the remote.         *)
LEMMA onTunnelDataBackUp ==
  ASSUME NEW v, Good(v), NEW off \in Nat, NEW len \in Nat
  PROVE  LET w == onTunnelDataBack(v, off, len)
         IN  (v.idle = 0 => UpKept(v, w)) /\ (TunnelDown(v) => TunnelDown(w))
<1> DEFINE w == pushInBackQueue(v, "ACK", off, len)
           x == IF BackQueueDataSize(w) >= SessionBuffer THEN pauseReceiveData(w) ELSE w
           y == [x EXCEPT !.idle = 0]
<1>0. "ACK" \in Flags
  BY DEF Flags
<1>1. w \in MemoryType /\ UpKept(v, w) /\ onTunnelDataBack(v, off, len) = y
  BY <1>0, pushInBackQueueGood, pushInBackQueueUp DEF Good, GoodWith, onTunnelDataBack
<1> HIDE DEF w
<1>2. pauseReceiveData(w) \in MemoryType
  BY <1>1 DEF pauseReceiveData, MemoryType
<1>3. UpSame(w, w) /\ UpSame(w, pauseReceiveData(w))
  BY <1>1 DEF pauseReceiveData, MemoryType, UpSame
<1>4. x \in MemoryType /\ UpSame(w, x)
  BY <1>1, <1>2, <1>3
<1> HIDE DEF x
<1>5. UpKept(v, x)
  BY <1>1, <1>4, UpSameKept, UpKeptOn
<1>6. v.idle = 0 => y = x
  <2>1. x.idle = v.idle
    BY <1>5 DEF UpKept
  <2> QED BY <1>4, <2>1 DEF MemoryType
<1>7. y.socket = x.socket /\ y.wr = x.wr
  BY <1>4 DEF MemoryType
<1>8. TunnelDown(v) => TunnelDown(y)
  BY <1>4, <1>5, <1>7, KeptDown DEF TunnelDown
<1> HIDE DEF y
<1> QED BY <1>1, <1>5, <1>6, <1>8

(* However a handler takes the tunnel down, it stays down.                 *)
LEMMA onTunnelDisconnectedDown ==
  ASSUME NEW v, Good(v), TunnelDown(v)
  PROVE  TunnelDown(onTunnelDisconnected(v))
<1> DEFINE x == [v EXCEPT !.mRemoteFinished = TRUE]
<1>0. v \in MemoryType
  BY DEF Good, GoodWith
<1>1. x \in MemoryType /\ TunnelDown(x) /\ SameQueues(v, x)
  BY <1>0 DEF MemoryType, SameQueues, TunnelDown
<1>2. onTunnelDisconnected(v) \in
        {flushBackQueue(x), switchState(v, "CLOSED"), resetConnection(v)}
  BY DEF onTunnelDisconnected, onRemoteFinished
<1> HIDE DEF x
<1>3. TunnelDown(flushBackQueue(x))
  BY <1>1, SameQueuesGood, pushAckDown
<1>4. TunnelDown(resetConnection(v))
  BY <1>0, resetConnectionUp, resetConnectionGood, KeptDown DEF Good, GoodWith
<1> QED BY <1>0, <1>2, <1>3, <1>4, switchStateDown

-----------------------------------------------------------------------------
(* The stream to the remote: queues                                        *)

LEMMA PacketAt ==
  ASSUME NEW S, NEW t \in Seq(S)
  PROVE  /\ Len(t) \in Nat /\ \A i \in 1 .. Len(t) : t[i] \in S
         /\ t = <<>> <=> Len(t) = 0
BY LenProperties, ElementOfSeq, EmptySeq

LEMMA AtTail ==
  ASSUME NEW S, NEW t \in Seq(S), t # <<>>
  PROVE  /\ Head(t) = t[1] /\ Head(t) \in S /\ 1 \in 1 .. Len(t)
         /\ Tail(t) \in Seq(S) /\ Len(Tail(t)) = Len(t) - 1 /\ Len(Tail(t)) \in Nat
         /\ \A i \in 1 .. Len(Tail(t)) : i + 1 \in 1 .. Len(t) /\ Tail(t)[i] = t[i + 1]
<1>1. Len(t) \in Nat /\ Len(t) # 0 /\ \A i \in 1 .. Len(t) : t[i] \in S
  BY PacketAt
<1>2. /\ Head(t) = t[1] /\ Tail(t) \in Seq(S) /\ Len(Tail(t)) = Len(t) - 1
      /\ \A i \in 1 .. Len(Tail(t)) : Tail(t)[i] = t[i + 1]
  BY HeadTailProperties
<1>3. 1 \in 1 .. Len(t)
  BY <1>1
<1>4. Len(Tail(t)) \in Nat
  BY <1>2, PacketAt
<1>5. \A i \in 1 .. Len(Tail(t)) : i + 1 \in 1 .. Len(t)
  BY <1>1, <1>2
<1> QED BY <1>1, <1>2, <1>3, <1>4, <1>5

LEMMA AtAppend ==
  ASSUME NEW S, NEW t \in Seq(S), NEW p \in S
  PROVE  LET r == Append(t, p)
         IN  /\ r \in Seq(S) /\ Len(r) = Len(t) + 1 /\ Len(t) \in Nat /\ r # <<>>
             /\ r[Len(r)] = p
             /\ \A i \in 1 .. Len(t) : i \in 1 .. Len(r) /\ r[i] = t[i]
             /\ \A i \in 1 .. Len(r) : i \in 1 .. Len(t) \/ i = Len(r)
<1> DEFINE r == Append(t, p)
<1>1. /\ r \in Seq(S) /\ Len(r) = Len(t) + 1 /\ r[Len(t) + 1] = p
      /\ \A i \in 1 .. Len(t) : r[i] = t[i]
  BY AppendProperties
<1>2. Len(t) \in Nat
  BY PacketAt
<1> HIDE DEF r
<1>3. r # <<>>
  <2>1. Len(r) # 0
    BY <1>1, <1>2
  <2> QED BY <1>1, <2>1, PacketAt
<1>4. \A i \in 1 .. Len(r) : i \in 1 .. Len(t) \/ i = Len(r)
  BY <1>1, <1>2
<1>5. \A i \in 1 .. Len(t) : i \in 1 .. Len(r)
  BY <1>1, <1>2
<1> QED BY <1>1, <1>2, <1>3, <1>4, <1>5 DEF r

LEMMA ChainEmpty ==
  ASSUME NEW m, NEW n, Chain(<<>>, m, n) PROVE m = n
BY DEF Chain

LEMMA ChainAppend ==
  ASSUME NEW t \in Seq(PacketType), NEW p \in PacketType,
         NEW k, NEW m \in Nat, NEW n \in Nat, m <= n,
         Chain(t, k, m), Takes(p, m, n)
  PROVE  Chain(Append(t, p), k, n)
<1> DEFINE r == Append(t, p)
           l == Len(t)
<1>1. PICK e \in [0 .. l -> Nat] :
         /\ e[0] = k /\ e[l] = m
         /\ \A i \in 0 .. l : e[i] <= m
         /\ \A i \in 1 .. l : Takes(t[i], e[i - 1], e[i])
  BY DEF Chain
<1>2. /\ Len(r) = l + 1 /\ l \in Nat /\ r[l + 1] = p
      /\ \A i \in 1 .. l : r[i] = t[i]
  BY AtAppend
<1> HIDE DEF r, l
<1> DEFINE g == [i \in 0 .. l + 1 |-> IF i <= l THEN e[i] ELSE n]
<1>3. /\ g \in [0 .. l + 1 -> Nat] /\ g[l + 1] = n
      /\ \A i \in 0 .. l : g[i] = e[i] /\ g[i] \in Nat
  BY <1>1, <1>2
<1> HIDE DEF g
<1>4. g[0] = k
  BY <1>1, <1>2, <1>3
<1>5. \A i \in 0 .. l + 1 : g[i] <= n
  <2>1. \A i \in 0 .. l + 1 : i \in 0 .. l \/ i = l + 1
    BY <1>2
  <2>2. \A i \in 0 .. l : g[i] <= n
    BY <1>1, <1>3
  <2> QED BY <1>3, <2>1, <2>2
<1>6. ASSUME NEW i \in 1 .. l + 1 PROVE Takes(r[i], g[i - 1], g[i])
  <2>1. CASE i = l + 1
    <3>1. i - 1 = l /\ l \in 0 .. l
      BY <1>2, <2>1
    <3>2. g[i - 1] = m
      BY <1>1, <1>3, <3>1
    <3> QED BY <1>2, <1>3, <2>1, <3>2
  <2>2. CASE i # l + 1
    <3>1. i \in 1 .. l /\ i - 1 \in 0 .. l /\ i \in 0 .. l
      BY <1>2, <2>2
    <3>2. g[i - 1] = e[i - 1] /\ g[i] = e[i] /\ r[i] = t[i]
      BY <1>2, <1>3, <3>1
    <3>3. Takes(t[i], e[i - 1], e[i])
      BY <1>1, <3>1
    <3> QED BY <3>2, <3>3
  <2> QED BY <2>1, <2>2
<1>7. Chain(r, k, n)
  BY <1>2, <1>3, <1>4, <1>5, <1>6 DEF Chain
<1> QED BY <1>7 DEF r

LEMMA ChainTail ==
  ASSUME NEW t \in Seq(PacketType), t # <<>>, NEW k, NEW n, Chain(t, k, n)
  PROVE  \E m \in Nat : m <= n /\ Takes(Head(t), k, m) /\ Chain(Tail(t), m, n)
<1> DEFINE r == Tail(t)
           l == Len(t)
<1>1. PICK e \in [0 .. l -> Nat] :
         /\ e[0] = k /\ e[l] = n
         /\ \A i \in 0 .. l : e[i] <= n
         /\ \A i \in 1 .. l : Takes(t[i], e[i - 1], e[i])
  BY DEF Chain
<1>2. /\ Head(t) = t[1] /\ Len(r) = l - 1 /\ Len(r) \in Nat /\ l \in Nat
      /\ \A i \in 1 .. Len(r) : i + 1 \in 1 .. l /\ r[i] = t[i + 1]
  BY AtTail, PacketAt
<1> HIDE DEF r, l
<1> DEFINE g == [i \in 0 .. Len(r) |-> e[i + 1]]
<1>3. 1 \in 0 .. l /\ 1 \in 1 .. l /\ 1 - 1 = 0 /\ Len(r) + 1 = l
  BY <1>2
<1>4. \A i \in 0 .. Len(r) : i + 1 \in 0 .. l
  BY <1>2
<1>5. g \in [0 .. Len(r) -> Nat] /\ \A i \in 0 .. Len(r) : g[i] = e[i + 1]
  BY <1>1, <1>4
<1> HIDE DEF g
<1>6. 0 \in 0 .. Len(r) /\ Len(r) \in 0 .. Len(r)
  BY <1>2
<1>7. g[0] = e[1] /\ g[Len(r)] = n
  BY <1>1, <1>3, <1>5, <1>6
<1>8. \A i \in 0 .. Len(r) : g[i] <= n
  BY <1>1, <1>4, <1>5
<1>9. ASSUME NEW i \in 1 .. Len(r) PROVE Takes(r[i], g[i - 1], g[i])
  <2>1. i - 1 \in 0 .. Len(r) /\ i \in 0 .. Len(r) /\ (i - 1) + 1 = i /\ (i + 1) - 1 = i
    BY <1>2
  <2>2. g[i - 1] = e[i] /\ g[i] = e[i + 1]
    BY <1>5, <2>1
  <2>3. Takes(t[i + 1], e[(i + 1) - 1], e[i + 1])
    BY <1>1, <1>2
  <2> QED BY <1>2, <2>1, <2>2, <2>3
<1>10. Chain(r, e[1], n)
  BY <1>5, <1>7, <1>8, <1>9 DEF Chain
<1>11. e[1] \in Nat /\ e[1] <= n /\ Takes(Head(t), k, e[1])
  <2>1. Takes(t[1], e[1 - 1], e[1])
    BY <1>1, <1>3
  <2> QED BY <1>1, <1>2, <1>3, <2>1
<1> QED BY <1>10, <1>11 DEF r

(* Packets that bring nothing.                                             *)
LEMMA ChainIdle ==
  ASSUME NEW t \in Seq(PacketType), NEW m \in Nat,
         \A i \in 1 .. Len(t) : t[i].flag \in {"SYN", "RST"}
  PROVE  Chain(t, m, m)
<1> DEFINE l == Len(t)
           e == [i \in 0 .. l |-> m]
<1>1. l \in Nat
  BY PacketAt
<1> HIDE DEF l
<1>2. e \in [0 .. l -> Nat] /\ \A i \in 0 .. l : e[i] = m
  OBVIOUS
<1> HIDE DEF e
<1>3. 0 \in 0 .. l /\ l \in 0 .. l /\ \A i \in 1 .. l : i - 1 \in 0 .. l /\ i \in 0 .. l
  BY <1>1
<1>4. \A i \in 1 .. l : Takes(t[i], e[i - 1], e[i])
  BY <1>2, <1>3 DEF Takes, l
<1>5. e[0] = m /\ e[l] = m /\ \A i \in 0 .. l : e[i] <= m
  BY <1>2, <1>3
<1> QED BY <1>2, <1>4, <1>5 DEF Chain, l

LEMMA AcknowledgeAppend ==
  ASSUME NEW t \in Seq(PacketType), NEW p \in PacketType,
         NEW m \in Nat, NEW n \in Nat, Acknowledge(t, m, n), p.ack = n
  PROVE  Acknowledge(Append(t, p), m, n)
<1> DEFINE r == Append(t, p)
<1>1. /\ Len(r) = Len(t) + 1 /\ Len(t) \in Nat /\ r[Len(r)] = p
      /\ \A i \in 1 .. Len(t) : r[i] = t[i]
      /\ \A i \in 1 .. Len(r) : i \in 1 .. Len(t) \/ i = Len(r)
  BY AtAppend
<1> HIDE DEF r
<1>2. \A i \in 1 .. Len(r) : m <= r[i].ack /\ r[i].ack <= n
  BY <1>1 DEF Acknowledge
<1>3. ASSUME NEW i \in 1 .. Len(r), NEW j \in 1 .. Len(r), i < j
      PROVE  r[i].ack <= r[j].ack
  <2>1. CASE j = Len(r)
    BY <1>1, <1>2, <2>1
  <2>2. CASE j # Len(r)
    <3>1. i \in 1 .. Len(t) /\ j \in 1 .. Len(t)
      BY <1>1, <1>3, <2>2
    <3> QED BY <1>1, <1>3, <3>1 DEF Acknowledge
  <2> QED BY <2>1, <2>2
<1>4. Acknowledge(r, m, n)
  BY <1>2, <1>3 DEF Acknowledge
<1> QED BY <1>4 DEF r

LEMMA AcknowledgeTail ==
  ASSUME NEW t \in Seq(PacketType), t # <<>>, NEW m \in Nat, NEW n \in Nat,
         Acknowledge(t, m, n)
  PROVE  /\ m <= Head(t).ack /\ Acknowledge(Tail(t), Head(t).ack, n)
         /\ Acknowledge(Tail(t), m, n)
<1> DEFINE r == Tail(t)
<1>1. /\ Head(t) = t[1] /\ Head(t) \in PacketType /\ 1 \in 1 .. Len(t)
      /\ \A i \in 1 .. Len(r) : i + 1 \in 1 .. Len(t) /\ r[i] = t[i + 1]
  BY AtTail
<1>2. Len(r) \in Nat
  BY AtTail
<1> HIDE DEF r
<1>3. m <= Head(t).ack /\ Head(t).ack <= n
  BY <1>1 DEF Acknowledge
<1>4. \A i \in 1 .. Len(r) : m <= r[i].ack /\ r[i].ack <= n /\ Head(t).ack <= r[i].ack
  <2>1. \A i \in 1 .. Len(r) : 1 < i + 1
    BY <1>2
  <2> QED BY <1>1, <2>1 DEF Acknowledge
<1>5. \A i, j \in 1 .. Len(r) : i < j => r[i].ack <= r[j].ack
  <2>1. \A i, j \in 1 .. Len(r) : i < j => i + 1 < j + 1
    BY <1>2
  <2> QED BY <1>1, <2>1 DEF Acknowledge
<1>6. Acknowledge(r, Head(t).ack, n) /\ Acknowledge(r, m, n)
  BY <1>3, <1>4, <1>5 DEF Acknowledge
<1> QED BY <1>3, <1>6 DEF r

LEMMA ForwardsEmpty ==
  ASSUME NEW n \in Nat PROVE Forwards(<<>>, n, n)
BY DEF Forwards

LEMMA ForwardsAppend ==
  ASSUME NEW q \in Seq(ForwardType), NEW f \in ForwardType,
         NEW n \in Nat, NEW m \in Nat, Forwards(q, n, m),
         f.off = m, f.len > 0, f.seq = f.off + 1
  PROVE  Forwards(Append(q, f), n, m + f.len)
<1> DEFINE r == Append(q, f)
           l == Len(q)
<1>0. f.len \in Nat /\ f.off \in Nat /\ \A x \in ForwardType : x.off \in Nat /\ x.len \in Nat
  BY DEF ForwardType
<1>1. /\ Len(r) = l + 1 /\ l \in Nat /\ r[l + 1] = f /\ r # <<>>
      /\ \A i \in 1 .. l : r[i] = q[i]
      /\ \A i \in 1 .. Len(r) : i \in 1 .. l \/ i = l + 1
  BY AtAppend
<1>2. /\ q = <<>> <=> l = 0
      /\ \A i \in 1 .. l : q[i] \in ForwardType
  BY PacketAt
<1> HIDE DEF r
<1>3. ASSUME NEW i \in 1 .. Len(r)
      PROVE  /\ r[i].len > 0 /\ r[i].seq = r[i].off + 1
             /\ r[i].off + r[i].len <= m + f.len
             /\ r[i].off = IF i = 1 THEN n ELSE r[i - 1].off + r[i - 1].len
  <2>1. CASE i = l + 1
    <3>1. CASE l = 0
      <4>1. q = <<>> /\ i = 1
        BY <1>2, <2>1, <3>1
      <4>2. m = n
        BY <4>1 DEF Forwards
      <4> QED BY <1>0, <1>1, <2>1, <4>1, <4>2
    <3>2. CASE l # 0
      <4>1. i # 1 /\ i - 1 = l /\ l \in 1 .. l /\ q # <<>>
        BY <1>1, <1>2, <2>1, <3>2
      <4>2. r[i - 1] = q[l]
        BY <1>1, <4>1
      <4>3. m = q[l].off + q[l].len
        BY <4>1 DEF Forwards
      <4> QED BY <1>0, <1>1, <2>1, <4>1, <4>2, <4>3
    <3> QED BY <3>1, <3>2
  <2>2. CASE i # l + 1
    <3>1. i \in 1 .. l /\ (i # 1 => i - 1 \in 1 .. l)
      BY <1>1, <2>2
    <3>2. r[i] = q[i] /\ (i # 1 => r[i - 1] = q[i - 1])
      BY <1>1, <3>1
    <3>3. /\ q[i].len > 0 /\ q[i].seq = q[i].off + 1 /\ q[i].off + q[i].len <= m
          /\ q[i].off = IF i = 1 THEN n ELSE q[i - 1].off + q[i - 1].len
      BY <3>1 DEF Forwards
    <3>4. q[i].off + q[i].len \in Nat
      BY <1>0, <1>2, <3>1, SMTT(30)
    <3>5. q[i].off + q[i].len <= m + f.len
      BY <1>0, <3>3, <3>4
    <3> QED BY <3>2, <3>3, <3>5
  <2> QED BY <2>1, <2>2
<1>4. m + f.len = IF r = <<>> THEN n ELSE r[Len(r)].off + r[Len(r)].len
  BY <1>1
<1>5. Forwards(r, n, m + f.len)
  BY <1>3, <1>4 DEF Forwards
<1> QED BY <1>5 DEF r

LEMMA ForwardsTail ==
  ASSUME NEW q \in Seq(ForwardType), q # <<>>, NEW n \in Nat, NEW m \in Nat,
         Forwards(q, n, m)
  PROVE  /\ Head(q) \in ForwardType /\ Head(q).off = n /\ Head(q).len > 0
         /\ n + Head(q).len <= m /\ Forwards(Tail(q), n + Head(q).len, m)
<1> DEFINE r == Tail(q)
           l == Len(q)
           k == n + Head(q).len
<1>1. /\ Head(q) = q[1] /\ Head(q) \in ForwardType /\ 1 \in 1 .. l
      /\ Len(r) = l - 1 /\ Len(r) \in Nat /\ r \in Seq(ForwardType)
      /\ \A i \in 1 .. Len(r) : i + 1 \in 1 .. l /\ r[i] = q[i + 1]
  BY AtTail
<1>2. l \in Nat /\ (r = <<>> <=> Len(r) = 0)
  BY <1>1, PacketAt
<1>3. Head(q).off = n /\ Head(q).len > 0 /\ k <= m
  BY <1>1 DEF Forwards
<1> HIDE DEF r, l, k
<1>4. ASSUME NEW i \in 1 .. Len(r)
      PROVE  /\ r[i].len > 0 /\ r[i].seq = r[i].off + 1
             /\ r[i].off + r[i].len <= m
             /\ r[i].off = IF i = 1 THEN k ELSE r[i - 1].off + r[i - 1].len
  <2>1. /\ q[i + 1].len > 0 /\ q[i + 1].seq = q[i + 1].off + 1
        /\ q[i + 1].off + q[i + 1].len <= m
        /\ q[i + 1].off = IF i + 1 = 1 THEN n ELSE q[(i + 1) - 1].off + q[(i + 1) - 1].len
    BY <1>1 DEF Forwards, l
  <2>2. i + 1 # 1 /\ (i + 1) - 1 = i
    BY <1>1
  <2>3. CASE i = 1
    BY <1>1, <1>3, <2>1, <2>2, <2>3 DEF k
  <2>4. CASE i # 1
    <3>1. i - 1 \in 1 .. Len(r) /\ (i - 1) + 1 = i
      BY <1>1, <2>4
    <3>2. r[i - 1] = q[i]
      BY <1>1, <3>1
    <3> QED BY <1>1, <2>1, <2>2, <2>4, <3>2
  <2> QED BY <2>3, <2>4
<1>5. m = IF r = <<>> THEN k ELSE r[Len(r)].off + r[Len(r)].len
  <2>0. m = q[l].off + q[l].len
    BY DEF Forwards, l
  <2>1. CASE r = <<>>
    <3>1. l = 1
      BY <1>1, <1>2, <2>1
    <3> QED BY <1>1, <1>3, <2>0, <2>1, <3>1 DEF k
  <2>2. CASE r # <<>>
    <3>1. Len(r) \in 1 .. Len(r) /\ Len(r) + 1 = l
      BY <1>1, <1>2, <2>2
    <3>2. r[Len(r)] = q[l]
      BY <1>1, <3>1
    <3> QED BY <2>0, <2>2, <3>2
  <2> QED BY <2>1, <2>2
<1>6. Forwards(r, k, m)
  BY <1>4, <1>5 DEF Forwards
<1> QED BY <1>1, <1>3, <1>6 DEF r, k

(* Nothing in the queue is as new as byte number m + 1: the place that     *)
(* findNotSmaller finds for it is the end.                                 *)
LEMMA NewGoesLast ==
  ASSUME NEW v \in MemoryType, NEW p \in PacketType, NEW n \in Nat, NEW m \in Nat,
         Forwards(v.mForwardQueue, n, m), p.seq > m, NEW f \in ForwardType
  PROVE  /\ smaller(v, p) = Len(v.mForwardQueue)
         /\ InsertAfter(v.mForwardQueue, smaller(v, p), f) = Append(v.mForwardQueue, f)
<1> DEFINE q == v.mForwardQueue
           l == Len(q)
<1>1. /\ q \in Seq(ForwardType) /\ l \in Nat /\ DOMAIN q = 1 .. l
      /\ \A i \in 1 .. l : q[i] \in ForwardType
  BY Fields, PacketAt, LenProperties
<1>2. {i \in DOMAIN q : q[i].seq >= p.seq} = {}
  <2>1. ASSUME NEW i \in 1 .. l PROVE ~(q[i].seq >= p.seq)
    <3>1. q[i].len > 0 /\ q[i].seq = q[i].off + 1 /\ q[i].off + q[i].len <= m
      BY DEF Forwards
    <3>2. q[i].len \in Nat /\ q[i].off \in Nat /\ p.seq \in Nat
      BY <1>1 DEF ForwardType, PacketType
    <3> QED BY <3>1, <3>2, SMTT(30)
  <2> QED BY <1>1, <2>1
<1>3. smaller(v, p) = LeadingRun(l, {})
  BY <1>2 DEF smaller
<1>4. LeadingRun(l, {}) = l
  <2>1. {i \in 1 .. l : \A j \in {} : i < j} = 1 .. l
    OBVIOUS
  <2>2. Cardinality(1 .. l) = l
    BY <1>1, FS_Interval
  <2> QED BY <2>1, <2>2 DEF LeadingRun
<1>5. InsertAfter(q, l, f) = Append(q, f)
  <2>1. SubSeq(q, 1, l) = q
    BY <1>1
  <2>2. Drop(q, l) = <<>>
    BY <1>1 DEF Drop
  <2>3. q \o <<f>> \o <<>> = Append(q, f)
    <3>1. q \o <<f>> = Append(q, f)
      BY <1>1, AppendIsConcat
    <3>2. Append(q, f) \in Seq(ForwardType)
      BY <1>1, AtAppend
    <3> QED BY <3>1, <3>2, ConcatEmptySeq
  <2> QED BY <2>1, <2>2, <2>3 DEF InsertAfter
<1> QED BY <1>3, <1>4, <1>5

-----------------------------------------------------------------------------
(* The stream to the remote: the handlers                                  *)

LEMMA KeptAcks ==
  ASSUME NEW v \in MemoryType, NEW w, NEW n \in Nat, v.mRemoteNext <= n,
         \A c \in Cells : w.heap[c].ack \in {v.heap[c].ack, 0, v.mRemoteNext},
         AcksUpTo(v, n)
  PROVE  AcksUpTo(w, n)
BY DEF AcksUpTo

LEMMA UpMemKept ==
  ASSUME NEW v \in MemoryType, NEW w, NEW a, NEW n,
         UpMem(v, a, n), UpKept(v, w), w.socket = TRUE
  PROVE  UpMem(w, a, n)
<1>1. v.mRemoteNext \in Nat
  BY Fields
<1>2. w.mState = v.mState /\ w.mAlive = v.mAlive
  BY DEF UpMem, UpKept
<1>3. AcksUpTo(w, v.mRemoteNext)
  BY <1>1, KeptAcks DEF UpMem, UpKept
<1> QED BY <1>2, <1>3 DEF UpMem, UpKept

(* What a handler makes of a memory v whose tunnel is up: the tunnel is    *)
(* down, or the session expects number m.                                  *)
UpAfter(w, a, n, m, k) ==
  /\ w.wr = TRUE => w.socket = TRUE
  /\ w.socket = TRUE => UpMem(w, a, n) /\ w.mRemoteNext = m /\ w.mLocalNext = k

LEMMA UpAfterKept ==
  ASSUME NEW v \in MemoryType, NEW w \in MemoryType, NEW a, NEW n, NEW m, NEW k,
         UpAfter(v, a, n, m, k), UpKept(v, w)
  PROVE  UpAfter(w, a, n, m, k)
<1>1. w.wr = TRUE => w.socket = TRUE
  BY DEF UpAfter, UpKept
<1>2. ASSUME w.socket = TRUE
      PROVE  UpMem(w, a, n) /\ w.mRemoteNext = m /\ w.mLocalNext = k
  <2>1. v.socket = TRUE
    BY <1>2 DEF UpKept, MemoryType
  <2>2. UpMem(v, a, n) /\ v.mRemoteNext = m /\ v.mLocalNext = k
    BY <2>1 DEF UpAfter
  <2> QED BY <1>2, <2>2, UpMemKept DEF UpKept
<1> QED BY <1>1, <1>2 DEF UpAfter

(* enqueueIfNeed counts what it queues, and queues what comes next.        *)
LEMMA enqueueIfNeedUp ==
  ASSUME NEW v, Good(v), NEW p \in PacketType, NEW a \in AppType, NEW n \in Nat,
         n <= a.sent, NEW m \in Nat, NEW k,
         UpAfter(v, a, n, v.mRemoteNext, k), v.socket = TRUE,
         p.flag = "ACK", Backed(p, a), Takes(p, v.mRemoteNext, m), m <= SndNxt(a),
         v.mState # "CLOSE_WAIT"
  PROVE  UpAfter(enqueueIfNeed(v, p), a, n, m, k)
<1> DEFINE f == [seq |-> p.seq, off |-> p.off, len |-> p.len]
           q == InsertAfter(v.mForwardQueue, smaller(v, p), f)
           u == [v EXCEPT !.mForwardQueue = q, !.mRemoteNext = v.mRemoteNext + p.len]
           w == requestSendData(u)
           b == Min2(v.mRemoteNext - 1, a.sent)
<1>0. /\ v \in MemoryType /\ v.mForwardQueue \in Seq(ForwardType) /\ v.mRemoteNext \in Nat
      /\ a.sent \in Nat /\ a.una \in Nat
      /\ p.seq \in Nat /\ p.len \in Nat /\ p.off \in Nat
  BY Fields DEF Good, GoodWith, PacketType, AppType
<1>1. UpMem(v, a, n) /\ v.mLocalNext = k
  BY DEF UpAfter
<1>2. b \in Nat /\ b <= v.mRemoteNext - 1 /\ Forwards(v.mForwardQueue, n, b)
  BY <1>0, <1>1 DEF UpMem, Min2
<1>3. f \in ForwardType /\ f.seq = p.seq /\ f.off = p.off /\ f.len = p.len
  BY <1>0 DEF ForwardType
<1>4. p.seq >= v.mRemoteNext =>
        smaller(v, p) = Len(v.mForwardQueue) /\ q = Append(v.mForwardQueue, f)
  <2>1. p.seq >= v.mRemoteNext => p.seq > b
    BY <1>0, <1>2
  <2> HIDE DEF f, b
  <2> QED BY <1>0, <1>2, <1>3, <2>1, NewGoesLast
<1>5. needed(v, p) <=> p.len > 0 /\ p.seq >= v.mRemoteNext
  <2>1. ASSUME p.seq >= v.mRemoteNext PROVE ~(smaller(v, p) < Len(v.mForwardQueue))
    <3>1. smaller(v, p) = Len(v.mForwardQueue) /\ Len(v.mForwardQueue) \in Nat
      BY <1>0, <1>4, <2>1, PacketAt
    <3> QED BY <3>1
  <2> QED BY <2>1 DEF needed
<1>6. CASE needed(v, p)
  <2>1. p.len > 0 /\ p.seq >= v.mRemoteNext
    BY <1>5, <1>6
  <2>2. p.seq = p.off + 1 /\ p.seq = v.mRemoteNext /\ m = v.mRemoteNext + p.len
    BY <1>0, <2>1 DEF Takes
  <2>3. p.off + p.len <= a.sent
    BY DEF Backed
  <2>4. b = p.off /\ Min2(m - 1, a.sent) = p.off + p.len
    <3>1. /\ v.mRemoteNext - 1 = p.off /\ m - 1 = p.off + p.len
          /\ p.off < a.sent /\ (~(p.off + p.len < a.sent) => p.off + p.len = a.sent)
      BY <1>0, <2>1, <2>2, <2>3, SMTT(30)
    <3> QED BY <3>1 DEF Min2
  <2>5. Forwards(q, n, p.off + p.len)
    <3> HIDE DEF f, b
    <3>1. Forwards(Append(v.mForwardQueue, f), n, b + f.len)
      BY <1>0, <1>2, <1>3, <2>1, <2>2, <2>4, ForwardsAppend
    <3> QED BY <1>3, <1>4, <2>1, <2>4, <3>1
  <2>6. enqueueIfNeed(v, p) = w
    BY <1>6 DEF enqueueIfNeed
  <2> HIDE DEF q, b
  <2>7. /\ DOMAIN u = DOMAIN v /\ u.mForwardQueue = q /\ u.mRemoteNext = v.mRemoteNext + p.len
        /\ u.heap = v.heap /\ u.mLocalNext = v.mLocalNext
        /\ u.mRemoteFinished = v.mRemoteFinished /\ u.idle = v.idle
        /\ u.mState = v.mState /\ u.mAlive = v.mAlive
        /\ u.socket = v.socket /\ u.wr = v.wr
    BY <1>0 DEF MemoryType
  <2> HIDE DEF u
  <2>8. /\ w.mForwardQueue = q /\ w.mRemoteNext = m
        /\ w.heap = v.heap /\ w.mLocalNext = v.mLocalNext
        /\ w.mRemoteFinished = v.mRemoteFinished /\ w.idle = v.idle
        /\ w.mState = v.mState /\ w.mAlive = v.mAlive
        /\ w.socket = TRUE
    BY <1>0, <2>2, <2>7 DEF requestSendData, MemoryType
  <2> HIDE DEF w
  <2>9. AcksUpTo(w, m) /\ a.una <= m
    <3>1. \A c \in Cells : v.heap[c].ack \in Nat
      BY <1>0, Fields DEF DatagramType
    <3> QED BY <1>0, <1>1, <2>2, <2>8, <3>1, SMTT(30) DEF UpMem, AcksUpTo
  <2>10. m >= 1
    BY <1>0, <1>1, <2>2 DEF UpMem
  <2>11. UpMem(w, a, n)
    BY <1>1, <2>4, <2>5, <2>8, <2>9, <2>10 DEF UpMem
  <2> QED BY <1>1, <2>6, <2>8, <2>11 DEF UpAfter
<1>7. CASE ~needed(v, p)
  <2>1. m = v.mRemoteNext
    BY <1>0, <1>5, <1>7 DEF Takes
  <2>2. enqueueIfNeed(v, p) \in {v, pushInBackQueue(v, "ACK", 0, 0)}
    BY <1>7 DEF enqueueIfNeed
  <2>3. "ACK" \in Flags
    BY DEF Flags
  <2>4. /\ UpKept(v, pushInBackQueue(v, "ACK", 0, 0))
        /\ pushInBackQueue(v, "ACK", 0, 0) \in MemoryType
    BY <2>3, pushInBackQueueUp, pushInBackQueueGood DEF Good, GoodWith
  <2>5. UpAfter(pushInBackQueue(v, "ACK", 0, 0), a, n, m, k)
    BY <1>0, <2>1, <2>4, UpAfterKept
  <2> QED BY <2>1, <2>2, <2>5
<1> QED BY <1>6, <1>7

(* The two changes of state that keep the tunnel.                          *)
LEMMA switchStateUpAfter ==
  ASSUME NEW v \in MemoryType, NEW a, NEW n, NEW m, NEW k, UpAfter(v, a, n, m, k),
         NEW t \in {"ESTABLISHED", "CLOSE_WAIT"},
         t = "CLOSE_WAIT" => a.fin = TRUE /\ m = SndNxt(a)
  PROVE  /\ UpAfter(switchState(v, t), a, n, m, k)
         /\ switchState(v, t).socket = v.socket /\ switchState(v, t).mState = t
         /\ switchState(v, t).mRemoteNext = v.mRemoteNext
<1> DEFINE w == [v EXCEPT !.mState = t]
<1>1. switchState(v, t) = IF v.mState = t THEN v ELSE w
  BY DEF switchState
<1>2. /\ w.heap = v.heap /\ w.mRemoteNext = v.mRemoteNext /\ w.mForwardQueue = v.mForwardQueue
      /\ w.mLocalNext = v.mLocalNext
      /\ w.mRemoteFinished = v.mRemoteFinished /\ w.idle = v.idle
      /\ w.mState = t /\ w.mAlive = v.mAlive
      /\ w.socket = v.socket /\ w.wr = v.wr
  BY DEF MemoryType
<1> HIDE DEF w
<1>3. AcksUpTo(v, v.mRemoteNext) => AcksUpTo(w, w.mRemoteNext)
  BY <1>2 DEF AcksUpTo
<1>4. UpAfter(w, a, n, m, k)
  BY <1>2, <1>3 DEF UpAfter, UpMem
<1> QED BY <1>1, <1>2, <1>4

LEMMA onReceiveFINUp ==
  ASSUME NEW v, Good(v), NEW p \in PacketType, NEW a \in AppType, NEW n \in Nat,
         UpMem(v, a, n), v.wr = TRUE => v.socket = TRUE,
         p.flag = "FIN", Backed(p, a), v.mLocalNext <= p.ack,
         v.mRemoteNext \in {p.seq, p.seq + 1}
  PROVE  UpAfter(onReceiveFIN(v, p), a, n, p.seq + 1, p.ack)
<1> DEFINE b == IF v.mLocalNext <= p.ack THEN p.ack ELSE v.mLocalNext
           m == p.seq + 1
           w == [v EXCEPT !.mLocalNext = b, !.mRemoteNext = m]
           x == pushInBackQueue(w, "ACK", 0, 0)
           s == afterFIN(w, p)
<1>1. /\ p.ack \in Nat /\ p.seq \in Nat /\ v \in MemoryType /\ v.mLocalNext \in Nat
      /\ a.sent \in Nat /\ a.una \in Nat /\ v.mRemoteNext \in Nat
  BY Fields DEF PacketType, Good, GoodWith, AppType
<1>2. b = p.ack /\ m \in Nat
  BY <1>1
<1>3. onReceiveFIN(v, p) = IF canPush(w) /\ s # w.mState
                           THEN switchState(x, s) ELSE x
  BY DEF onReceiveFIN
<1>4. a.fin = TRUE /\ p.seq = a.sent + 1 /\ m = SndNxt(a)
  BY <1>1 DEF Backed, SndNxt
<1>5. Min2(m - 1, a.sent) = a.sent /\ Min2(v.mRemoteNext - 1, a.sent) = a.sent
  BY <1>1, <1>4 DEF Min2
<1> HIDE DEF b, m
<1>6. /\ w \in MemoryType /\ SameQueues(v, w) /\ w.mLocalNext = b /\ w.mRemoteNext = m
      /\ w.heap = v.heap /\ w.mForwardQueue = v.mForwardQueue
      /\ w.mRemoteFinished = v.mRemoteFinished /\ w.idle = v.idle
      /\ w.mState = v.mState /\ w.mAlive = v.mAlive
      /\ w.socket = v.socket /\ w.wr = v.wr
  BY <1>1, <1>2 DEF MemoryType, SameQueues
<1> HIDE DEF w
<1>7. v.mRemoteNext <= m /\ m >= 1
  BY <1>1 DEF m
<1>8. AcksUpTo(w, m) /\ a.una <= m
  <2>1. \A c \in Cells : v.heap[c].ack \in Nat
    BY <1>1, Fields DEF DatagramType
  <2> QED BY <1>1, <1>2, <1>6, <1>7, <2>1 DEF AcksUpTo, UpMem
<1>9. UpMem(w, a, n)
  BY <1>2, <1>4, <1>5, <1>6, <1>7, <1>8 DEF UpMem
<1>10. UpAfter(w, a, n, m, p.ack)
  BY <1>2, <1>6, <1>9 DEF UpAfter
<1>11. Good(x) /\ x \in MemoryType /\ UpAfter(x, a, n, m, p.ack)
  <2>1. "ACK" \in Flags /\ 0 \in Nat
    BY DEF Flags
  <2>2. Good(w)
    BY <1>6, SameQueuesGood
  <2>3. Good(x) /\ UpKept(w, x)
    BY <2>1, <2>2, pushInBackQueueGood, pushInBackQueueUp
  <2> HIDE DEF x
  <2>4. x \in MemoryType
    BY <2>3 DEF Good, GoodWith
  <2> QED BY <1>6, <1>10, <2>3, <2>4, UpAfterKept
<1> HIDE DEF x
<1>12. s # w.mState => s = "CLOSE_WAIT"
  BY <1>9 DEF afterFIN, UpMem
<1>13. UpAfter(switchState(x, "CLOSE_WAIT"), a, n, m, p.ack)
  BY <1>4, <1>11, switchStateUpAfter
<1> HIDE DEF s
<1> QED BY <1>3, <1>11, <1>12, <1>13 DEF m

(* onEstablished queues the payload and answers it.                        *)
LEMMA onEstablishedUp ==
  ASSUME NEW v, Good(v), NEW p \in PacketType, NEW a \in AppType, NEW n \in Nat,
         n <= a.sent, NEW m \in Nat, NEW k,
         UpAfter(v, a, n, v.mRemoteNext, k), v.socket = TRUE,
         p.flag = "ACK", Backed(p, a), Takes(p, v.mRemoteNext, m), m <= SndNxt(a),
         v.mState # "CLOSE_WAIT"
  PROVE  UpAfter(onEstablished(v, p), a, n, m, k)
<1> DEFINE w == IF v.mSack /\ p.sack.from < p.sack.to THEN onSack(v, p.sack) ELSE v
           x == enqueueIfNeed(w, p)
<1>0. v \in MemoryType
  BY DEF Good, GoodWith
<1>1. Good(w) /\ w \in MemoryType
  BY onSackGood DEF Good, GoodWith
<1>2. UpSame(v, w)
  BY <1>0, onSackUp DEF UpSame
<1>3. onEstablished(v, p) \in {pushInBackQueue(x, "ACK", 0, 0), flushBackQueue(x)}
  BY DEF onEstablished
<1> HIDE DEF w
<1>4. UpAfter(w, a, n, w.mRemoteNext, k)
  <2>1. UpKept(v, w) /\ w.mRemoteNext = v.mRemoteNext
    BY <1>2, UpSameKept DEF UpSame
  <2> QED BY <1>0, <1>1, <2>1, UpAfterKept
<1>5. w.socket = TRUE /\ w.mState # "CLOSE_WAIT" /\ Takes(p, w.mRemoteNext, m)
  BY <1>2 DEF UpSame
<1>6. Good(x) /\ x \in MemoryType /\ UpAfter(x, a, n, m, k)
  BY <1>1, <1>4, <1>5, enqueueIfNeedGood, enqueueIfNeedUp DEF Good, GoodWith
<1> HIDE DEF x
<1>7. "ACK" \in Flags /\ 0 \in Nat
  BY DEF Flags
<1>8. /\ UpKept(x, pushInBackQueue(x, "ACK", 0, 0)) /\ UpKept(x, flushBackQueue(x))
      /\ Good(pushInBackQueue(x, "ACK", 0, 0)) /\ Good(flushBackQueue(x))
  BY <1>6, <1>7, pushInBackQueueUp, flushBackQueueUp, pushInBackQueueGood, flushBackQueueGood
<1>9. pushInBackQueue(x, "ACK", 0, 0) \in MemoryType /\ flushBackQueue(x) \in MemoryType
  BY <1>8 DEF Good, GoodWith
<1> QED BY <1>3, <1>6, <1>8, <1>9, UpAfterKept

LEMMA onNewAckUp ==
  ASSUME NEW v, Good(v), NEW p \in PacketType, NEW a \in AppType, NEW n \in Nat,
         n <= a.sent, NEW m \in Nat, NEW k,
         UpAfter(v, a, n, v.mRemoteNext, k), v.socket = TRUE,
         p.flag = "ACK", Backed(p, a), Takes(p, v.mRemoteNext, m), m <= SndNxt(a)
  PROVE  UpAfter(onNewAck(v, p), a, n, m, k)
<1>0. v \in MemoryType /\ UpMem(v, a, n)
  BY DEF Good, GoodWith, UpAfter
<1>1. CASE v.mState = "SYN_RCVED"
  <2> DEFINE e == switchState(v, "ESTABLISHED")
             x == enqueueIfNeed(e, p)
  <2>1. Good(e)
    <3>1. "ESTABLISHED" \in States
      BY DEF States
    <3> QED BY <3>1, switchStateGood
  <2>2. /\ UpAfter(e, a, n, v.mRemoteNext, k) /\ e.socket = TRUE
        /\ e.mState = "ESTABLISHED" /\ e.mRemoteNext = v.mRemoteNext
    BY <1>0, switchStateUpAfter
  <2>3. onNewAck(v, p) = flushBackQueue(x)
    BY <1>1 DEF onNewAck
  <2> HIDE DEF e
  <2>4. Good(x) /\ UpAfter(x, a, n, m, k)
    BY <2>1, <2>2, enqueueIfNeedGood, enqueueIfNeedUp
  <2> HIDE DEF x
  <2>5. UpKept(x, flushBackQueue(x)) /\ Good(flushBackQueue(x))
    BY <2>4, flushBackQueueUp, flushBackQueueGood
  <2> QED BY <2>3, <2>4, <2>5, UpAfterKept DEF Good, GoodWith
<1>2. CASE v.mState = "ESTABLISHED"
  <2>1. onNewAck(v, p) = onEstablished(v, p)
    BY <1>2 DEF onNewAck
  <2> QED BY <1>2, <2>1, onEstablishedUp
<1>3. CASE v.mState = "CLOSE_WAIT"
  <2>1. onNewAck(v, p) = flushBackQueue(v)
    BY <1>3 DEF onNewAck
  <2>2. v.mRemoteNext = SndNxt(a) /\ SndNxt(a) \in Nat /\ p.len \in Nat
    BY <1>0, <1>3, SndNxtNat DEF UpMem, PacketType
  <2>3. m = v.mRemoteNext
    BY <2>2 DEF Takes
  <2>4. UpKept(v, flushBackQueue(v)) /\ Good(flushBackQueue(v))
    BY flushBackQueueUp, flushBackQueueGood
  <2> QED BY <1>0, <2>1, <2>3, <2>4, UpAfterKept DEF Good, GoodWith
<1> QED BY <1>0, <1>1, <1>2, <1>3 DEF UpMem

LEMMA onReceiveACKUp ==
  ASSUME NEW v, Good(v), NEW p \in PacketType, NEW a \in AppType, NEW n \in Nat,
         n <= a.sent, NEW m \in Nat, UpMem(v, a, n), v.socket = TRUE,
         v.mLocalNext <= p.ack,
         p.flag = "ACK", Backed(p, a), Takes(p, v.mRemoteNext, m), m <= SndNxt(a)
  PROVE  UpAfter(onReceiveACK(v, p), a, n, m, p.ack)
<1> DEFINE b == IF v.mLocalNext <= p.ack THEN p.ack ELSE v.mLocalNext
           w == [v EXCEPT !.mSendWindow = p.win, !.mLocalNext = b]
<1>1. p.win \in Nat /\ p.ack \in Nat /\ v \in MemoryType /\ v.mLocalNext \in Nat
  BY Fields DEF PacketType, Good, GoodWith
<1>2. b = p.ack /\ ~(p.ack < v.mLocalNext)
  BY <1>1
<1>3. onReceiveACK(v, p) = onNewAck(w, p)
  BY <1>2 DEF onReceiveACK
<1> HIDE DEF b
<1>4. /\ w \in MemoryType /\ SameQueues(v, w) /\ w.mLocalNext = b
      /\ w.mRemoteNext = v.mRemoteNext
      /\ w.heap = v.heap /\ w.mForwardQueue = v.mForwardQueue
      /\ w.mRemoteFinished = v.mRemoteFinished /\ w.idle = v.idle
      /\ w.mState = v.mState /\ w.mAlive = v.mAlive
      /\ w.socket = v.socket /\ w.wr = v.wr
  BY <1>1, <1>2 DEF MemoryType, SameQueues
<1> HIDE DEF w
<1>5. AcksUpTo(w, w.mRemoteNext)
  BY <1>4 DEF AcksUpTo, UpMem
<1>6. UpAfter(w, a, n, w.mRemoteNext, p.ack)
  BY <1>2, <1>4, <1>5 DEF UpAfter, UpMem
<1>7. Good(w) /\ w.socket = TRUE /\ Takes(p, w.mRemoteNext, m)
  BY <1>4, SameQueuesGood
<1> QED BY <1>3, <1>6, <1>7, onNewAckUp

(* accept takes the next packet: the session comes to expect what the      *)
(* packet makes it expect, or loses its tunnel.                            *)
LEMMA acceptUp ==
  ASSUME NEW v, Good(v), NEW p \in PacketType, NEW a \in AppType, NEW n \in Nat,
         n <= a.sent, NEW m \in Nat, UpMem(v, a, n), v.socket = TRUE,
         v.mLocalNext <= p.ack,
         Backed(p, a), Takes(p, v.mRemoteNext, m), m <= SndNxt(a)
  PROVE  \E k \in {v.mLocalNext, p.ack} : UpAfter(accept(v, p), a, n, m, k)
<1> DEFINE w == CASE p.flag = "SYN" -> onReceiveSYN(v, p)
                  [] p.flag = "FIN" -> onReceiveFIN(v, p)
                  [] p.flag = "RST" -> onReceiveRST(v)
                  [] OTHER          -> onReceiveACK(v, p)
<1>0. v \in MemoryType /\ p.flag \in {"SYN", "FIN", "RST", "ACK"}
  BY DEF Good, GoodWith, PacketType, Flags
<1>1. Good(onReceiveRST(v)) /\ UpKept(v, onReceiveRST(v))
      /\ onReceiveRST(v).socket = FALSE /\ onReceiveRST(v).wr = FALSE
  <2>1. "CLOSED" \in States /\ v.mState # "CLOSED"
    BY DEF States, UpMem
  <2>2. onReceiveRST(v).socket = FALSE /\ onReceiveRST(v).wr = FALSE
    BY <1>0, <2>1 DEF onReceiveRST, switchState, close, destroyTunnel, MemoryType
  <2> QED BY <1>0, <2>1, <2>2, switchStateGood, switchStateUp DEF onReceiveRST
<1>2. Good(w)
  BY <1>1, onReceiveSYNGood, onReceiveFINGood, onReceiveACKGood
<1>3. \E k \in {v.mLocalNext, p.ack} : UpAfter(w, a, n, m, k)
  <2>1. CASE p.flag = "SYN"
    <3>1. w = flushBackQueue(v)
      BY <2>1 DEF onReceiveSYN, UpMem
    <3>2. m = v.mRemoteNext
      BY <2>1 DEF Takes
    <3>3. UpAfter(v, a, n, m, v.mLocalNext)
      BY <3>2 DEF UpAfter
    <3>4. UpKept(v, flushBackQueue(v)) /\ flushBackQueue(v) \in MemoryType
      BY flushBackQueueUp, flushBackQueueGood DEF Good, GoodWith
    <3> QED BY <1>0, <3>1, <3>3, <3>4, UpAfterKept
  <2>2. CASE p.flag = "RST"
    <3>1. UpAfter(onReceiveRST(v), a, n, m, p.ack)
      BY <1>1 DEF UpAfter
    <3> QED BY <2>2, <3>1
  <2>3. CASE p.flag = "FIN"
    <3>1. m = p.seq + 1 /\ v.mRemoteNext \in {p.seq, p.seq + 1}
      BY <2>3 DEF Takes
    <3>2. UpAfter(onReceiveFIN(v, p), a, n, m, p.ack)
      BY <2>3, <3>1, onReceiveFINUp
    <3> QED BY <2>3, <3>2
  <2>4. CASE p.flag = "ACK"
    <3>1. UpAfter(onReceiveACK(v, p), a, n, m, p.ack)
      BY <2>4, onReceiveACKUp
    <3> QED BY <2>4, <3>1
  <2> QED BY <1>0, <2>1, <2>2, <2>3, <2>4
<1>4. accept(v, p) = [w EXCEPT !.idle = 0]
  BY DEF accept
<1> HIDE DEF w
<1> DEFINE x == accept(v, p)
<1>5. /\ x.heap = w.heap /\ x.mRemoteNext = w.mRemoteNext /\ x.mForwardQueue = w.mForwardQueue
      /\ x.mLocalNext = w.mLocalNext
      /\ x.mRemoteFinished = w.mRemoteFinished /\ x.idle = 0
      /\ x.mState = w.mState /\ x.mAlive = w.mAlive
      /\ x.socket = w.socket /\ x.wr = w.wr
  BY <1>2, <1>4 DEF Good, GoodWith, MemoryType
<1> HIDE DEF x
<1>6. AcksUpTo(w, w.mRemoteNext) => AcksUpTo(x, x.mRemoteNext)
  BY <1>5 DEF AcksUpTo
<1>7. \A k : UpAfter(w, a, n, m, k) => UpAfter(x, a, n, m, k)
  BY <1>5, <1>6 DEF UpAfter, UpMem
<1> QED BY <1>3, <1>7 DEF x

-----------------------------------------------------------------------------
(* The stream to the remote: every step                                    *)

(* What a step is for the pipe to the remote.                              *)
UpPipe == [Up!PipeNext]_(Up!pipeVars)

(* What every step has to leave, and to be.                                *)
UpMoves == UpState(mem', tunIn', app', remote'.got) /\ UpPipe

LEMMA UpParts ==
  ASSUME UpInv
  PROVE  /\ NumInv /\ Good(mem) /\ mem \in MemoryType /\ ~mem.full
         /\ tunIn \in Seq(PacketType) /\ app \in AppType /\ remote \in RemoteType
         /\ app.sent \in Nat /\ app.una \in Nat /\ app.next \in Nat /\ app.fin \in BOOLEAN
         /\ app.st \in {"idle", "syn", "open", "done"}
         /\ remote.got \in StreamType /\ remote.got.n \in Nat /\ SndNxt(app) \in Nat
         /\ mem.socket \in BOOLEAN /\ mem.wr \in BOOLEAN
         /\ UpState(mem, tunIn, app, remote.got)
         /\ (mem.tunWrite => mem.mData # <<>>)
         /\ (mem.exists = "never" => mem.mData = <<>> /\ app.st # "open")
         /\ (mem.exists = "yes" => mem.mState # "LISTEN")
         /\ (mem.exists # "yes" => mem.socket = FALSE /\ mem.wr = FALSE)
         /\ (app.st = "open" => app.una >= 1)
<1>1. NumInv /\ UpState(mem, tunIn, app, remote.got)
  BY DEF UpInv
<1>2. /\ Good(mem) /\ mem \in MemoryType /\ ~mem.full
      /\ tunIn \in Seq(PacketType) /\ app \in AppType /\ remote \in RemoteType
      /\ (mem.tunWrite => mem.mData # <<>>) /\ Inv
  BY <1>1, NumParts
<1>3. /\ app.sent \in Nat /\ app.una \in Nat /\ app.next \in Nat /\ app.fin \in BOOLEAN
      /\ app.st \in {"idle", "syn", "open", "done"}
  BY <1>2 DEF AppType
<1>4. remote.got \in StreamType
  BY <1>2 DEF RemoteType
<1>5. remote.got.n \in Nat /\ SndNxt(app) \in Nat
  BY <1>2, <1>4, SndNxtNat DEF StreamType
<1>6. mem.socket \in BOOLEAN /\ mem.wr \in BOOLEAN
  BY <1>2 DEF MemoryType
<1>7. /\ (mem.exists = "never" => mem.mData = <<>> /\ app.st # "open")
      /\ (mem.exists = "yes" => mem.mState # "LISTEN")
  BY <1>1 DEF NumInv
<1>8. mem.exists # "yes" => mem.socket = FALSE /\ mem.wr = FALSE
  BY <1>1, <1>6 DEF NumInv, EndInv
<1>9. app.st = "open" => app.una >= 1
  BY <1>2 DEF Inv
<1> QED BY <1>1, <1>2, <1>3, <1>4, <1>5, <1>6, <1>7, <1>8, <1>9

(* A step that leaves both ends alone: the tunnel stays as it is, comes up *)
(* with the session or goes down.                                          *)
LEMMA QuietPipe ==
  ASSUME UNCHANGED <<app.sent, app.fin, remote.got.n>>,
         mem.socket \in BOOLEAN, mem'.socket \in BOOLEAN,
         mem.exists # "never" => mem'.exists # "never",
         mem.exists # "never" /\ mem.socket = FALSE => mem'.socket = FALSE
  PROVE  UpPipe
<1>1. CASE mem.exists # "never" /\ mem.socket = FALSE
  BY <1>1 DEF UpPipe, Up!pipeVars
<1>2. CASE ~(mem.exists # "never" /\ mem.socket = FALSE)
  <2>1. CASE mem'.exists # "never" /\ mem'.socket = FALSE
    BY <1>2, <2>1 DEF UpPipe, Up!PipeNext, Up!Break
  <2>2. CASE ~(mem'.exists # "never" /\ mem'.socket = FALSE)
    BY <1>2, <2>2 DEF UpPipe, Up!pipeVars
  <2> QED BY <2>1, <2>2
<1> QED BY <1>1, <1>2

(* A packet the kernel may add, with the app's end a it leaves: new bytes  *)
(* or the FIN, or what it sent before; before the session only a try.      *)
Offers(a, p) ==
  /\ p.ack = app.next /\ a.next = app.next /\ a.una = app.una
  /\ a.st \in {"idle", "syn"} => app.st \in {"idle", "syn"}
  /\ app.sent <= a.sent /\ (app.fin = TRUE => a.fin = TRUE)
  /\ app.fin = FALSE \/ (a.sent = app.sent /\ a.fin = app.fin)
  /\ Backed(p, a) /\ Takes(p, SndNxt(app), SndNxt(a))
  /\ mem.exists = "never" =>
        /\ p.flag \in {"SYN", "RST"} /\ a.st # "open"
        /\ a.sent = app.sent /\ a.fin = app.fin

LEMMA EmitUp ==
  ASSUME UpInv, NEW a \in AppType, NEW p \in PacketType, Emit(a, p), Offers(a, p)
  PROVE  UpState(mem', tunIn', app', remote'.got)
<1> DEFINE t == Append(tunIn, p)
           n == remote.got.n
<1>0. /\ mem \in MemoryType /\ tunIn \in Seq(PacketType) /\ app \in AppType
      /\ app.sent \in Nat /\ app.next \in Nat /\ app.fin \in BOOLEAN
      /\ a.sent \in Nat /\ a.fin \in BOOLEAN /\ n \in Nat
      /\ SndNxt(app) \in Nat /\ SndNxt(a) \in Nat
      /\ mem.mRemoteNext \in Nat /\ mem.mLocalNext \in Nat
      /\ UpState(mem, tunIn, app, remote.got)
  BY UpParts, Fields, SndNxtNat DEF AppType
<1>o. /\ p.ack = app.next /\ a.next = app.next /\ a.una = app.una
      /\ a.st \in {"idle", "syn"} => app.st \in {"idle", "syn"}
      /\ app.sent <= a.sent /\ (app.fin = TRUE => a.fin = TRUE)
      /\ app.fin = FALSE \/ (a.sent = app.sent /\ a.fin = app.fin)
      /\ Backed(p, a) /\ Takes(p, SndNxt(app), SndNxt(a))
      /\ mem.exists = "never" =>
            /\ p.flag \in {"SYN", "RST"} /\ a.st # "open"
            /\ a.sent = app.sent /\ a.fin = app.fin
  BY DEF Offers
<1>1. mem' = mem /\ app' = a /\ tunIn' = t /\ remote' = remote
  BY DEF Emit
<1>2. /\ \A i \in 1 .. Len(tunIn) : t[i] = tunIn[i]
      /\ t[Len(t)] = p
      /\ \A i \in 1 .. Len(t) : i \in 1 .. Len(tunIn) \/ i = Len(t)
  BY <1>0, AtAppend
<1>3. SndNxt(app) <= SndNxt(a)
  BY <1>0, <1>o DEF SndNxt
<1>4. remote.got.ok = TRUE /\ n <= a.sent /\ (a.st \in {"idle", "syn"} => a.next = 0)
  BY <1>0, <1>o DEF UpState
<1>5. \A i \in 1 .. Len(t) : Backed(t[i], a)
  <2>1. ASSUME NEW i \in 1 .. Len(tunIn) PROVE Backed(tunIn[i], a)
    <3>1. Backed(tunIn[i], app)
      BY <1>0 DEF UpState
    <3>2. tunIn[i] \in PacketType
      BY <1>0, PacketAt
    <3>3. tunIn[i].off \in Nat /\ tunIn[i].len \in Nat
      BY <3>2 DEF PacketType
    <3>4. app.fin = TRUE => a.sent = app.sent /\ a.fin = TRUE
      BY <1>o
    <3>5. app.sent \in Nat /\ a.sent \in Nat /\ app.sent <= a.sent
      BY <1>0, <1>o
    <3>6. /\ tunIn[i].flag = "ACK" => tunIn[i].off + tunIn[i].len <= app.sent
          /\ tunIn[i].flag = "FIN" => app.fin = TRUE /\ tunIn[i].seq = app.sent + 1
      BY <3>1 DEF Backed
    <3>7. tunIn[i].flag = "ACK" => tunIn[i].off + tunIn[i].len <= a.sent
      BY <3>3, <3>5, <3>6
    <3>8. tunIn[i].flag = "FIN" => a.fin = TRUE /\ tunIn[i].seq = a.sent + 1
      BY <3>4, <3>6
    <3> QED BY <3>7, <3>8 DEF Backed
  <2> HIDE DEF t
  <2> QED BY <1>o, <1>2, <2>1
<1>6. mem.exists = "never" => UpNew(mem, t, a, n)
  <2>1. ASSUME mem.exists = "never" PROVE UpNew(mem, t, a, n)
    <3>1. UpNew(mem, tunIn, app, n)
      BY <1>0, <2>1 DEF UpState
    <3> HIDE DEF t, n
    <3>2. \A i \in 1 .. Len(t) : t[i].flag \in {"SYN", "RST"} /\ t[i].ack = 0
      BY <1>o, <1>2, <2>1, <3>1 DEF UpNew
    <3> QED BY <1>o, <2>1, <3>1, <3>2 DEF UpNew
  <2> QED BY <2>1
<1>7. mem.socket = TRUE => UpLive(mem, t, a, n)
  <2>1. SUFFICES ASSUME mem.socket = TRUE PROVE UpLive(mem, t, a, n)
    OBVIOUS
  <2>2. UpLive(mem, tunIn, app, n)
    BY <1>0, <2>1 DEF UpState
  <2>3. UpMem(mem, app, n)
    BY <2>2 DEF UpLive
  <2>4. Min2(mem.mRemoteNext - 1, a.sent) = Min2(mem.mRemoteNext - 1, app.sent)
    <3>1. mem.mRemoteNext <= SndNxt(app)
      BY <2>3 DEF UpMem
    <3> QED BY <1>0, <1>o, <3>1, SMTT(30) DEF Min2, SndNxt
  <2>5. mem.mRemoteNext <= SndNxt(a)
    BY <1>0, <1>3, <2>3 DEF UpMem
  <2>6. mem.mState = "CLOSE_WAIT" => a.fin = TRUE /\ mem.mRemoteNext = SndNxt(a)
    BY <1>0, <1>o, <2>3 DEF UpMem, SndNxt
  <2>7. UpMem(mem, a, n)
    BY <1>o, <2>3, <2>4, <2>5, <2>6 DEF UpMem
  <2>8. Chain(t, mem.mRemoteNext, SndNxt(a))
    BY <1>0, <1>o, <1>3, <2>2, ChainAppend DEF UpLive
  <2>9. Acknowledge(t, mem.mLocalNext, a.next)
    BY <1>0, <1>o, <2>2, AcknowledgeAppend DEF UpLive
  <2> QED BY <2>7, <2>8, <2>9 DEF UpLive
<1>8. mem.wr = TRUE => mem.socket = TRUE
  BY <1>0 DEF UpState
<1> HIDE DEF t, n
<1>9. UpState(mem, t, a, remote.got)
  BY <1>4, <1>5, <1>6, <1>7, <1>8 DEF UpState, n
<1> QED BY <1>1, <1>9

(* The session a first SYN builds expects the app's first byte.            *)
LEMMA buildSessionUp ==
  ASSUME NEW v, Good(v), NEW p \in PacketType, p.flag = "SYN",
         NEW t, NEW a \in AppType, NEW n, UpNew(v, t, a, n)
  PROVE  UpAfter(accept(buildSession(v), p), a, n, 1, 0)
<1> DEFINE b == buildSession(v)
           y == [b EXCEPT !.mSack = b.mSack \/ p.sackf, !.mSendWindow = p.win,
                          !.mLocalSeq = 0, !.mLocalNext = 0, !.mRemoteNext = 1]
           z == pushInBackQueue(y, "SYN", 0, 0)
           x == onReceiveSYN(b, p)
<1>0. v \in MemoryType /\ p.win \in Nat /\ p.sackf \in BOOLEAN
  BY DEF Good, GoodWith, PacketType
<1>1. /\ b.mState = "LISTEN" /\ b.mRemoteFinished = v.mRemoteFinished
      /\ b.mForwardQueue = v.mForwardQueue /\ b.heap = v.heap
      /\ b.mAlive = TRUE /\ b.idle = 0
      /\ b.socket = TRUE
  BY <1>0 DEF buildSession, establish, MemoryType
<1>2. Good(b) /\ b \in MemoryType
  BY buildSessionGood DEF Good, GoodWith
<1> HIDE DEF b
<1>3. /\ y \in MemoryType /\ SameQueues(b, y)
      /\ y.mState = "LISTEN" /\ y.mRemoteFinished = FALSE
      /\ y.mForwardQueue = <<>> /\ y.heap = v.heap /\ y.mAlive = TRUE /\ y.idle = 0
      /\ y.socket = TRUE /\ y.mLocalNext = 0 /\ y.mRemoteNext = 1
  BY <1>0, <1>1, <1>2 DEF MemoryType, SameQueues, UpNew
<1> HIDE DEF y
<1>4. "SYN" \in Flags /\ "SYN_RCVED" \in States /\ 0 \in Nat
  BY DEF Flags, States
<1>5. Good(z) /\ z \in MemoryType /\ UpKept(y, z)
  <2>1. Good(y)
    BY <1>2, <1>3, SameQueuesGood
  <2> QED BY <1>4, <2>1, pushInBackQueueGood, pushInBackQueueUp DEF Good, GoodWith
<1>6. x = switchState(z, "SYN_RCVED")
  BY <1>1 DEF onReceiveSYN, y
<1> HIDE DEF z
<1>7. /\ z.mForwardQueue = <<>> /\ z.mRemoteNext = 1 /\ z.mLocalNext = 0
      /\ z.mRemoteFinished = FALSE /\ z.idle = 0
      /\ (z.wr = TRUE => z.socket = TRUE)
      /\ (z.socket = TRUE => z.mState = "LISTEN" /\ z.mAlive = TRUE)
  BY <1>3, <1>5 DEF UpKept
<1>8. AcksUpTo(z, 1)
  <2>1. \A c \in Cells : v.heap[c].ack \in Nat /\ v.heap[c].ack <= 0
    <3>1. v.heap \in [Cells -> DatagramType]
      BY <1>0, Fields
    <3> QED BY <3>1 DEF DatagramType, UpNew, AcksUpTo
  <2> QED BY <1>3, <1>5, <2>1 DEF UpKept, AcksUpTo
<1>9. /\ x \in MemoryType
      /\ x.mForwardQueue = <<>> /\ x.mRemoteNext = 1 /\ x.mLocalNext = 0
      /\ x.mRemoteFinished = FALSE /\ x.idle = 0 /\ x.heap = z.heap
      /\ (x.wr = TRUE => x.socket = TRUE)
      /\ (x.socket = TRUE => x.mState = "SYN_RCVED" /\ x.mAlive = TRUE)
  <2>1. x = IF z.mState = "SYN_RCVED" THEN z ELSE [z EXCEPT !.mState = "SYN_RCVED"]
    BY <1>6 DEF switchState
  <2> QED BY <1>4, <1>5, <1>7, <2>1, SMTT(30) DEF MemoryType
<1>10. accept(b, p) = [x EXCEPT !.idle = 0]
  BY DEF accept
<1> HIDE DEF x
<1> DEFINE w == accept(b, p)
<1>11. /\ w.mForwardQueue = <<>> /\ w.mRemoteNext = 1 /\ w.mLocalNext = 0
       /\ w.mRemoteFinished = FALSE /\ w.idle = 0 /\ w.heap = z.heap
       /\ (w.wr = TRUE => w.socket = TRUE)
       /\ (w.socket = TRUE => w.mState = "SYN_RCVED" /\ w.mAlive = TRUE)
  BY <1>9, <1>10 DEF MemoryType
<1> HIDE DEF w
<1>12. AcksUpTo(w, 1)
  BY <1>8, <1>11 DEF AcksUpTo
<1>13. /\ a.sent = 0 /\ a.fin = FALSE /\ a.una = 0 /\ n = 0 /\ SndNxt(a) = 1
  BY DEF UpNew, SndNxt
<1>14. Forwards(<<>>, n, Min2(1 - 1, a.sent))
  BY <1>13, ForwardsEmpty DEF Min2
<1>15. w.socket = TRUE => UpMem(w, a, n)
  BY <1>11, <1>12, <1>13, <1>14 DEF UpMem
<1> QED BY <1>11, <1>15 DEF UpAfter, w, b

(* The kernel's packets.                                                   *)
LEMMA EmitQuiet ==
  ASSUME UpInv, NEW a, NEW p, Emit(a, p), a.sent = app.sent, a.fin = app.fin
  PROVE  UpPipe
<1>1. mem' = mem /\ app' = a /\ remote' = remote
  BY DEF Emit
<1>2. mem.socket \in BOOLEAN
  BY UpParts
<1> QED BY <1>1, <1>2, QuietPipe

LEMMA KernelUp ==
  ASSUME UpInv, Kernel, Env \cap {"finData", "tunLoss", "idle"} = {}
  PROVE  UpMoves
<1>0. /\ app \in AppType /\ app.sent \in Nat /\ app.una \in Nat /\ app.fin \in BOOLEAN
      /\ app.next \in Nat /\ SndNxt(app) \in Nat
      /\ (mem.exists = "never" => app.st # "open")
      /\ (app.st = "open" => app.una >= 1)
  BY UpParts
<1>f. "ACK" \in Flags /\ "SYN" \in Flags /\ "FIN" \in Flags /\ "RST" \in Flags /\ 0 \in Nat
  BY DEF Flags
<1>1. CASE AppConnect
  <2> DEFINE a == [app EXCEPT !.st = "syn"]
             p == Packet(app, "SYN", 0, 0, 0)
  <2>1. /\ a \in AppType /\ a.st = "syn" /\ a.sent = app.sent /\ a.fin = app.fin
        /\ a.next = app.next /\ a.una = app.una
    BY <1>0 DEF AppType
  <2>2. app.st = "idle" /\ Emit(a, p)
    BY <1>1 DEF AppConnect
  <2>3. p \in PacketType /\ p.flag = "SYN" /\ p.ack = app.next
    <3>1. p \in PacketType
      BY <1>0, <1>f, PacketIsPacket
    <3>2. p.flag = "SYN" /\ p.ack = app.next
      BY DEF Packet
    <3> QED BY <3>1, <3>2
  <2> HIDE DEF a, p
  <2>o. Backed(p, a) /\ Takes(p, SndNxt(app), SndNxt(a))
    BY <2>1, <2>3 DEF Backed, Takes, SndNxt
  <2>4. Offers(a, p)
    BY <1>0, <2>1, <2>2, <2>3, <2>o DEF Offers
  <2>5. UpState(mem', tunIn', app', remote'.got)
    BY <2>1, <2>2, <2>3, <2>4, EmitUp
  <2> QED BY <2>1, <2>2, <2>5, EmitQuiet DEF UpMoves
<1>2. ASSUME NEW n \in 1 .. AppBytes, AppSend(n) PROVE UpMoves
  <2>0. n \in Nat /\ n >= 1 /\ 1 + app.sent \in Nat /\ app.sent + n \in Nat
    BY <1>0, SessionAssumption
  <2> DEFINE a == [app EXCEPT !.sent = app.sent + n]
             p == Packet(app, "ACK", 1 + app.sent, app.sent, n)
  <2>1. /\ a \in AppType /\ a.st = app.st /\ a.sent = app.sent + n /\ a.fin = app.fin
        /\ a.next = app.next /\ a.una = app.una
    BY <1>0, <2>0 DEF AppType
  <2>2. app.st = "open" /\ app.fin = FALSE /\ Emit(a, p)
    BY <1>0, <1>2 DEF AppSend
  <2>3. /\ p \in PacketType /\ p.flag = "ACK" /\ p.ack = app.next /\ p.seq = 1 + app.sent
        /\ p.off = app.sent /\ p.len = n
    <3>1. p \in PacketType
      BY <1>0, <1>f, <2>0, PacketIsPacket
    <3>2. /\ p.flag = "ACK" /\ p.ack = app.next /\ p.seq = 1 + app.sent
          /\ p.off = app.sent /\ p.len = n
      BY DEF Packet
    <3> QED BY <3>1, <3>2
  <2> HIDE DEF a, p
  <2>o. Backed(p, a) /\ Takes(p, SndNxt(app), SndNxt(a))
    BY <1>0, <2>0, <2>1, <2>2, <2>3 DEF Backed, Takes, SndNxt
  <2>4. Offers(a, p)
    BY <1>0, <2>0, <2>1, <2>2, <2>3, <2>o DEF Offers
  <2>5. UpState(mem', tunIn', app', remote'.got)
    BY <2>1, <2>2, <2>3, <2>4, EmitUp
  <2>6. UpPipe
    <3>1. mem' = mem /\ app' = a /\ remote' = remote
      BY <2>2 DEF Emit
    <3>2. app'.sent \in Nat /\ app'.sent > app.sent
          /\ app'.sent = app.sent + (app'.sent - app.sent)
      BY <1>0, <2>0, <2>1, <3>1
    <3>3. Up!Write(app'.sent - app.sent)
      BY <2>1, <2>2, <3>1, <3>2 DEF Up!Write
    <3> QED BY <3>2, <3>3 DEF UpPipe, Up!PipeNext
  <2> QED BY <2>5, <2>6 DEF UpMoves
<1>3. ASSUME NEW n \in 0 .. AppBytes, AppClose(n) PROVE UpMoves
  <2>0. n = 0 /\ 1 + app.sent \in Nat
    BY <1>0, <1>3, SessionAssumption DEF AppClose
  <2> DEFINE a == [app EXCEPT !.sent = app.sent + n, !.fin = TRUE]
             p == Packet(app, "FIN", 1 + app.sent, app.sent, n)
  <2>1. /\ a \in AppType /\ a.st = app.st /\ a.sent = app.sent /\ a.fin = TRUE
        /\ a.next = app.next /\ a.una = app.una
    <3>1. app.sent + n = app.sent
      BY <1>0, <2>0
    <3> QED BY <1>0, <3>1 DEF AppType
  <2>2. app.st = "open" /\ app.fin = FALSE /\ Emit(a, p)
    BY <1>0, <1>3 DEF AppClose
  <2>3. /\ p \in PacketType /\ p.flag = "FIN" /\ p.ack = app.next /\ p.seq = 1 + app.sent
        /\ p.len = 0
    <3>1. p \in PacketType
      BY <1>0, <1>f, <2>0, PacketIsPacket
    <3>2. p.flag = "FIN" /\ p.ack = app.next /\ p.seq = 1 + app.sent /\ p.len = 0
      BY <2>0 DEF Packet
    <3> QED BY <3>1, <3>2
  <2> HIDE DEF a, p
  <2>o. Backed(p, a) /\ Takes(p, SndNxt(app), SndNxt(a))
    BY <1>0, <2>0, <2>1, <2>2, <2>3 DEF Backed, Takes, SndNxt
  <2>4. Offers(a, p)
    BY <1>0, <2>0, <2>1, <2>2, <2>3, <2>o DEF Offers
  <2>5. UpState(mem', tunIn', app', remote'.got)
    BY <2>1, <2>2, <2>3, <2>4, EmitUp
  <2>6. UpPipe
    <3>1. mem' = mem /\ app' = a /\ remote' = remote
      BY <2>2 DEF Emit
    <3>2. Up!Close
      BY <2>1, <2>2, <3>1 DEF Up!Close
    <3> QED BY <3>2 DEF UpPipe, Up!PipeNext
  <2> QED BY <2>5, <2>6 DEF UpMoves
<1>4. CASE AppReset
  <2> DEFINE a == [app EXCEPT !.st = "done"]
             p == Packet(app, "RST", SndNxt(app), 0, 0)
  <2>1. /\ a \in AppType /\ a.st = "done" /\ a.sent = app.sent /\ a.fin = app.fin
        /\ a.next = app.next /\ a.una = app.una
    BY <1>0 DEF AppType
  <2>2. Emit(a, p)
    BY <1>4 DEF AppReset
  <2>3. p \in PacketType /\ p.flag = "RST" /\ p.ack = app.next
    <3>1. p \in PacketType
      BY <1>0, <1>f, PacketIsPacket
    <3>2. p.flag = "RST" /\ p.ack = app.next
      BY DEF Packet
    <3> QED BY <3>1, <3>2
  <2> HIDE DEF a, p
  <2>o. Backed(p, a) /\ Takes(p, SndNxt(app), SndNxt(a))
    BY <2>1, <2>3 DEF Backed, Takes, SndNxt
  <2>4. Offers(a, p)
    BY <1>0, <2>1, <2>2, <2>3, <2>o DEF Offers
  <2>5. UpState(mem', tunIn', app', remote'.got)
    BY <2>1, <2>2, <2>3, <2>4, EmitUp
  <2> QED BY <2>1, <2>2, <2>5, EmitQuiet DEF UpMoves
<1>5. ASSUME NEW w \in Windows, AppWindow(w) PROVE UpMoves
  <2> DEFINE a == [app EXCEPT !.win = w]
             p == BareAck(a)
  <2>1. /\ a \in AppType /\ a.st = app.st /\ a.sent = app.sent /\ a.fin = app.fin
        /\ a.next = app.next /\ a.una = app.una
    BY <1>0, SessionAssumption DEF AppType
  <2>2. Emit(a, p) /\ app.st = "open"
    BY <1>5 DEF AppWindow
  <2> HIDE DEF a
  <2>3. /\ p \in PacketType /\ p.flag = "ACK" /\ p.ack = app.next
        /\ p.off = 0 /\ p.len = 0
    <3>1. p \in PacketType
      BY <1>f, <2>1, PacketIsPacket, SndNxtNat DEF BareAck
    <3>2. p.flag = "ACK" /\ p.ack = app.next /\ p.off = 0 /\ p.len = 0
      BY <2>1 DEF Packet, BareAck
    <3> QED BY <3>1, <3>2
  <2> HIDE DEF p
  <2>o. Backed(p, a) /\ Takes(p, SndNxt(app), SndNxt(a))
    BY <1>0, <2>1, <2>3 DEF Backed, Takes, SndNxt
  <2>4. Offers(a, p)
    BY <1>0, <2>1, <2>2, <2>3, <2>o DEF Offers
  <2>5. UpState(mem', tunIn', app', remote'.got)
    BY <2>1, <2>2, <2>3, <2>4, EmitUp
  <2> QED BY <2>1, <2>2, <2>5, EmitQuiet DEF UpMoves
<1>6. CASE AppRetransmit
  <2> DEFINE p == Unacked(app)
  <2>1. Emit(app, p) /\ app.una < SndNxt(app) /\ app.st \in {"syn", "open"}
    BY <1>6 DEF AppRetransmit
  <2>2. /\ p \in PacketType /\ p.ack = app.next
        /\ Backed(p, app) /\ Takes(p, SndNxt(app), SndNxt(app))
        /\ app.st = "syn" => p.flag = "SYN"
    <3>1. CASE app.st = "syn"
      <4>1. p = Packet(app, "SYN", 0, 0, 0)
        BY <3>1 DEF Unacked
      <4> HIDE DEF p
      <4>2. p \in PacketType /\ p.flag = "SYN" /\ p.ack = app.next
        <5>1. p \in PacketType
          BY <1>0, <1>f, <4>1, PacketIsPacket
        <5>2. p.flag = "SYN" /\ p.ack = app.next
          BY <4>1 DEF Packet
        <5> QED BY <5>1, <5>2
      <4> QED BY <4>2 DEF Backed, Takes
    <3>2. CASE app.st = "open" /\ app.una <= app.sent
      <4>1. /\ app.una - 1 \in Nat /\ app.sent - (app.una - 1) \in Nat
            /\ app.sent - (app.una - 1) > 0
        BY <1>0, <3>2
      <4>2. p = Packet(app, "ACK", app.una, app.una - 1, app.sent - (app.una - 1))
        BY <3>2 DEF Unacked
      <4> HIDE DEF p
      <4>3. /\ p \in PacketType /\ p.flag = "ACK" /\ p.ack = app.next /\ p.seq = app.una
            /\ p.off = app.una - 1 /\ p.len = app.sent - (app.una - 1)
        <5>1. p \in PacketType
          BY <1>0, <1>f, <4>1, <4>2, PacketIsPacket
        <5>2. /\ p.flag = "ACK" /\ p.ack = app.next /\ p.seq = app.una
              /\ p.off = app.una - 1 /\ p.len = app.sent - (app.una - 1)
          BY <4>1, <4>2 DEF Packet
        <5> QED BY <5>1, <5>2
      <4>4. p.seq = p.off + 1 /\ p.seq + p.len <= SndNxt(app) /\ p.off + p.len <= app.sent
        BY <1>0, <4>3 DEF SndNxt
      <4> QED BY <3>2, <4>1, <4>3, <4>4 DEF Backed, Takes
    <3>3. CASE app.st = "open" /\ ~(app.una <= app.sent)
      <4>1. p = Packet(app, "FIN", app.una, app.sent, 0)
        BY <3>3 DEF Unacked
      <4> HIDE DEF p
      <4>2. /\ p \in PacketType /\ p.flag = "FIN" /\ p.ack = app.next /\ p.seq = app.una
            /\ p.len = 0
        <5>1. p \in PacketType
          BY <1>0, <1>f, <4>1, PacketIsPacket
        <5>2. p.flag = "FIN" /\ p.ack = app.next /\ p.seq = app.una /\ p.len = 0
          BY <4>1 DEF Packet
        <5> QED BY <5>1, <5>2
      <4>3. app.fin = TRUE /\ app.una = app.sent + 1 /\ SndNxt(app) = app.una + 1
        BY <1>0, <2>1, <3>3 DEF SndNxt
      <4> QED BY <3>3, <4>2, <4>3 DEF Backed, Takes
    <3> QED BY <2>1, <3>1, <3>2, <3>3
  <2> HIDE DEF p
  <2>o. Offers(app, p)
    BY <1>0, <2>1, <2>2 DEF Offers
  <2>3. UpState(mem', tunIn', app', remote'.got)
    BY <1>0, <2>1, <2>2, <2>o, EmitUp
  <2> QED BY <2>1, <2>3, EmitQuiet DEF UpMoves
<1>7. ~TunDrop
  BY DEF TunDrop
<1> QED BY <1>1, <1>2, <1>3, <1>4, <1>5, <1>6, <1>7 DEF Kernel

(* What the way back to the app leaves of the memory serves as it did, and *)
(* so does any memory whose tunnel is down.                                *)
LEMMA KeptUp ==
  ASSUME NEW v \in MemoryType, NEW w \in MemoryType, NEW t, NEW a, NEW r,
         UpState(v, t, a, r), UpKept(v, w)
  PROVE  UpState(w, t, a, r)
<1>1. v.mRemoteNext \in Nat /\ v.socket \in BOOLEAN /\ w.socket \in BOOLEAN
  BY Fields DEF MemoryType
<1>2. w.wr = TRUE => w.socket = TRUE
  BY DEF UpState, UpKept
<1>3. ASSUME w.exists = "never" PROVE UpNew(w, t, a, r.n)
  <2>1. UpNew(v, t, a, r.n)
    BY <1>3 DEF UpState, UpKept
  <2>2. AcksUpTo(w, 0)
    BY <2>1, KeptAcks DEF UpNew, UpKept
  <2> QED BY <2>1, <2>2 DEF UpNew, UpKept
<1>4. ASSUME w.socket = TRUE PROVE UpLive(w, t, a, r.n)
  <2>1. v.socket = TRUE
    BY <1>1, <1>4 DEF UpKept
  <2>2. UpLive(v, t, a, r.n)
    BY <2>1 DEF UpState
  <2>3. UpMem(w, a, r.n)
    BY <1>4, <2>2, UpMemKept DEF UpLive
  <2> QED BY <2>2, <2>3 DEF UpLive, UpKept
<1> QED BY <1>2, <1>3, <1>4 DEF UpState

LEMMA DownUp ==
  ASSUME NEW v, NEW w, NEW t, NEW a, NEW r,
         UpState(v, t, a, r), TunnelDown(w), w.exists # "never"
  PROVE  UpState(w, t, a, r)
BY DEF UpState, TunnelDown

(* The packets behind the first.                                           *)
LEMMA TailBacked ==
  ASSUME NEW t \in Seq(PacketType), t # <<>>, NEW a,
         \A i \in 1 .. Len(t) : Backed(t[i], a)
  PROVE  Backed(Head(t), a) /\ \A i \in 1 .. Len(Tail(t)) : Backed(Tail(t)[i], a)
BY AtTail

(* Router::onWritable takes a datagram off its queue.                      *)
LEMMA AfterWriteUp ==
  ASSUME UpInv, TunLoop, AfterWrite(RouterUnqueue(mem))
  PROVE  UpSame(mem, mem')
<1> DEFINE c == Head(mem.mData)
           d == IF mem.heap[c].release THEN Free
                ELSE [mem.heap[c] EXCEPT !.buffering = FALSE]
           h == [mem.heap EXCEPT ![c] = d]
           q == Tail(mem.mData)
           u == [mem EXCEPT !.mData = q, !.heap = h]
           e == RouterUnqueue(mem).mData # <<>>
           w == [u EXCEPT !.tunWrite = e]
<1>0. mem \in MemoryType /\ mem.mData # <<>>
  BY UpParts DEF TunLoop
<1>1. c \in Cells /\ mem.heap \in [Cells -> DatagramType] /\ mem.heap[c] \in DatagramType
  <2>1. mem.mData \in Seq(Cells) /\ mem.heap \in [Cells -> DatagramType]
    BY <1>0, Fields
  <2> QED BY <1>0, <2>1, CellsTail
<1>2. RouterUnqueue(mem) = u
  BY DEF RouterUnqueue
<1>3. mem' = w
  BY <1>2 DEF AfterWrite
<1>4. d.ack \in {mem.heap[c].ack, 0}
  BY <1>1 DEF DatagramType, Free
<1> HIDE DEF c, d, q, e
<1>5. \A b \in Cells : h[b].ack \in {mem.heap[b].ack, 0, mem.mRemoteNext}
  BY <1>1, <1>4
<1> HIDE DEF h
<1>6. /\ w.heap = h /\ w.mRemoteNext = mem.mRemoteNext
      /\ w.mForwardQueue = mem.mForwardQueue
      /\ w.mLocalNext = mem.mLocalNext /\ w.exists = mem.exists
      /\ w.mRemoteFinished = mem.mRemoteFinished /\ w.idle = mem.idle
      /\ w.mState = mem.mState /\ w.mAlive = mem.mAlive
      /\ w.socket = mem.socket /\ w.wr = mem.wr
  BY <1>0 DEF MemoryType
<1> HIDE DEF w
<1> QED BY <1>3, <1>5, <1>6 DEF UpSame

(* A datagram for the app acknowledges what the session has of its bytes;  *)
(* the answer has none.                                                    *)
LEMMA ReceivedUp ==
  ASSUME NEW v \in MemoryType, v.exists # "never", NEW t \in Seq(PacketType),
         NEW a \in AppType, NEW s \in StreamType, UpState(v, t, a, s),
         NEW d \in DatagramType, v.socket = TRUE => d.ack <= v.mRemoteNext
  PROVE  /\ UpState(v, t \o Answers(a, d), Received(a, d), s)
         /\ Received(a, d).sent = a.sent /\ Received(a, d).fin = a.fin
<1> DEFINE b == Received(a, d)
           g == Acked(a, d)
<1>0. /\ b \in AppType /\ a.next \in Nat /\ a.una \in Nat /\ a.sent \in Nat
      /\ a.fin \in BOOLEAN /\ d.ack \in Nat /\ d.len \in Nat /\ s.n \in Nat
      /\ v.mRemoteNext \in Nat /\ v.mLocalNext \in Nat
  BY ReceivedType, Fields DEF AppType, DatagramType, StreamType
<1>1. /\ g.sent = a.sent /\ g.fin = a.fin /\ g.next = a.next /\ g.st = a.st
      /\ g.una \in {a.una, d.ack}
  BY DEF Acked, AppType
<1>2. /\ b.sent = a.sent /\ b.fin = a.fin /\ a.next <= b.next
      /\ b.una \in {a.una, 1, d.ack}
      /\ (b.st \in {"idle", "syn"} => b.next = a.next /\ a.st = b.st)
  <2> DEFINE e == [g EXCEPT !.next = @ + (IF d.flag = "FIN" THEN 1 ELSE d.len),
                            !.eof = d.flag = "FIN",
                            !.got = Extend(@, d.off, d.len)]
             f == [a EXCEPT !.st = "done"]
             h == [a EXCEPT !.st = "open", !.next = 1, !.una = 1]
  <2>1. \/ b = f
        \/ a.st = "syn" /\ b = h
        \/ b = a
        \/ a.st = "open" /\ b \in {g, e}
    BY DEF Received
  <2>2. /\ f.sent = a.sent /\ f.fin = a.fin /\ f.next = a.next /\ f.una = a.una
        /\ f.st = "done"
        /\ h.sent = a.sent /\ h.fin = a.fin /\ h.next = 1 /\ h.una = 1
        /\ h.st = "open"
    BY DEF AppType
  <2>3. /\ e.sent = a.sent /\ e.fin = a.fin /\ a.next <= e.next /\ e.una = g.una
        /\ e.st = a.st
    <3>1. g \in AppType
      BY <1>0 DEF Acked, AppType
    <3> HIDE DEF g
    <3>2. /\ e.sent = g.sent /\ e.fin = g.fin /\ e.una = g.una /\ e.st = g.st
          /\ e.next = g.next + (IF d.flag = "FIN" THEN 1 ELSE d.len)
      BY <3>1 DEF AppType
    <3> QED BY <1>0, <1>1, <3>2
  <2>4. a.st = "syn" => a.next <= 1
    BY DEF UpState
  <2> HIDE DEF b, e, f, g, h
  <2> QED BY <1>0, <1>1, <2>1, <2>2, <2>3, <2>4
<1>3. Answers(a, d) = <<>> \/ \E p \in PacketType :
         /\ Answers(a, d) = <<p>>
         /\ p.flag = "ACK" /\ p.off = 0 /\ p.len = 0 /\ p.ack = b.next
  <2> DEFINE p == BareAck(b)
             k == [p EXCEPT !.sack = [from |-> d.seq, to |-> d.seq + d.len]]
  <2>1. p \in PacketType
    <3>1. "ACK" \in Flags /\ 0 \in Nat
      BY DEF Flags
    <3> QED BY <1>0, <3>1, PacketIsPacket, SndNxtNat DEF BareAck
  <2>2. p.flag = "ACK" /\ p.off = 0 /\ p.len = 0 /\ p.ack = b.next
    BY DEF BareAck, Packet
  <2>3. Answers(a, d) \in {<<>>, <<p>>, <<k>>}
    BY DEF Answers
  <2> HIDE DEF p
  <2>4. /\ k \in PacketType
        /\ k.flag = "ACK" /\ k.off = 0 /\ k.len = 0 /\ k.ack = b.next
    <3>1. d.seq \in Nat /\ d.seq + d.len \in Nat
      BY <1>0 DEF DatagramType
    <3>2. k \in PacketType
      BY <2>1, <3>1 DEF PacketType
    <3>3. k.flag = p.flag /\ k.off = p.off /\ k.len = p.len /\ k.ack = p.ack
      BY <2>1 DEF PacketType
    <3> QED BY <2>2, <3>2, <3>3
  <2> HIDE DEF k, b
  <2> QED BY <2>1, <2>2, <2>3, <2>4
<1> HIDE DEF b, g
<1>4. UpState(v, t, b, s)
  <2>1. SndNxt(b) = SndNxt(a)
    BY <1>2 DEF SndNxt
  <2>2. \A i \in 1 .. Len(t) : Backed(t[i], b)
    BY <1>2 DEF UpState, Backed
  <2>3. v.socket = TRUE => UpLive(v, t, b, s.n)
    <3>1. SUFFICES ASSUME v.socket = TRUE PROVE UpLive(v, t, b, s.n)
      OBVIOUS
    <3>2. UpMem(v, a, s.n) /\ Chain(t, v.mRemoteNext, SndNxt(a))
          /\ Acknowledge(t, v.mLocalNext, a.next)
      BY <3>1 DEF UpState, UpLive
    <3>3. b.una <= v.mRemoteNext
      BY <1>0, <1>2, <3>1, <3>2 DEF UpMem
    <3>4. UpMem(v, b, s.n)
      BY <1>2, <2>1, <3>2, <3>3 DEF UpMem
    <3>5. Acknowledge(t, v.mLocalNext, b.next)
      <4>1. b.next \in Nat
        BY <1>0 DEF AppType
      <4>2. \A i \in 1 .. Len(t) : t[i].ack \in Nat
        <5>1. \A i \in 1 .. Len(t) : t[i] \in PacketType
          BY PacketAt
        <5> QED BY <5>1 DEF PacketType
      <4> QED BY <1>0, <1>2, <3>2, <4>1, <4>2 DEF Acknowledge
    <3> QED BY <2>1, <3>2, <3>4, <3>5 DEF UpLive
  <2> QED BY <1>2, <2>2, <2>3 DEF UpState
<1>5. CASE Answers(a, d) = <<>>
  <2>1. t \o <<>> = t
    BY ConcatEmptySeq
  <2> QED BY <1>2, <1>4, <1>5, <2>1 DEF b
<1>6. ASSUME NEW p \in PacketType, Answers(a, d) = <<p>>,
             p.flag = "ACK", p.off = 0, p.len = 0, p.ack = b.next
      PROVE  UpState(v, t \o <<p>>, b, s)
  <2> DEFINE r == Append(t, p)
  <2>1. t \o <<p>> = r
    BY AppendIsConcat
  <2>2. /\ \A i \in 1 .. Len(t) : r[i] = t[i]
        /\ r[Len(r)] = p
        /\ \A i \in 1 .. Len(r) : i \in 1 .. Len(t) \/ i = Len(r)
    BY AtAppend
  <2>3. Backed(p, b)
    BY <1>0, <1>2, <1>6 DEF Backed
  <2>4. v.socket = TRUE => UpLive(v, r, b, s.n)
    <3>1. SUFFICES ASSUME v.socket = TRUE PROVE UpLive(v, r, b, s.n)
      OBVIOUS
    <3>2. UpMem(v, b, s.n) /\ Chain(t, v.mRemoteNext, SndNxt(b))
          /\ Acknowledge(t, v.mLocalNext, b.next)
      BY <1>4, <3>1 DEF UpState, UpLive
    <3>3. SndNxt(b) \in Nat /\ b.next \in Nat
      BY <1>0, SndNxtNat DEF AppType
    <3>4. Takes(p, SndNxt(b), SndNxt(b))
      BY <1>6 DEF Takes
    <3>5. Chain(r, v.mRemoteNext, SndNxt(b))
      BY <3>2, <3>3, <3>4, ChainAppend
    <3>6. Acknowledge(r, v.mLocalNext, b.next)
      BY <1>0, <1>6, <3>2, <3>3, AcknowledgeAppend
    <3> QED BY <3>2, <3>5, <3>6 DEF UpLive
  <2> HIDE DEF r
  <2>5. \A i \in 1 .. Len(r) : Backed(r[i], b)
    BY <1>4, <2>2, <2>3 DEF UpState
  <2>6. UpState(v, r, b, s)
    BY <1>4, <2>4, <2>5 DEF UpState
  <2> QED BY <2>1, <2>6
<1> QED BY <1>2, <1>3, <1>5, <1>6 DEF b

LEMMA NextTyped ==
  ASSUME NumInv'
  PROVE  mem' \in MemoryType /\ mem'.socket \in BOOLEAN /\ mem'.wr \in BOOLEAN
<1>1. Inv'
  BY Zenon DEF NumInv, EndInv
<1>2. mem' \in MemoryType
  BY <1>1, Zenon DEF Inv, TypeOK
<1> QED BY <1>2 DEF MemoryType

(* The Router's steps.                                                     *)
LEMMA TunUp ==
  ASSUME UpInv, NumInv', Tun
  PROVE  UpMoves
<1> DEFINE n == remote.got.n
<1>0. /\ Good(mem) /\ mem \in MemoryType /\ tunIn \in Seq(PacketType) /\ app \in AppType
      /\ mem.socket \in BOOLEAN /\ mem.wr \in BOOLEAN /\ remote.got \in StreamType
      /\ n \in Nat /\ SndNxt(app) \in Nat /\ app.next \in Nat
      /\ UpState(mem, tunIn, app, remote.got)
      /\ mem.mLocalNext \in Nat
      /\ (mem.tunWrite => mem.mData # <<>>)
  BY UpParts, Fields
<1>p. mem' \in MemoryType /\ mem'.socket \in BOOLEAN /\ mem'.wr \in BOOLEAN
  BY NextTyped
<1>1. CASE RouterReadTun
  <2> DEFINE p == Head(tunIn)
             t == Tail(tunIn)
  <2>1. /\ p \in PacketType /\ tunIn # <<>> /\ t \in Seq(PacketType)
        /\ tunIn' = t /\ UNCHANGED <<app, remote>>
    BY <1>0, <1>1, HeadTailProperties DEF RouterReadTun
  <2>2. /\ Backed(p, app) /\ \A i \in 1 .. Len(t) : Backed(t[i], app)
        /\ remote.got.ok = TRUE /\ n <= app.sent
        /\ (app.st \in {"idle", "syn"} => app.next = 0)
        /\ (mem.wr = TRUE => mem.socket = TRUE)
    BY <1>0, <2>1, TailBacked DEF UpState
  <2>3. ASSUME NEW w, w.exists # "never", w.wr = TRUE => w.socket = TRUE,
               w.socket = TRUE => UpLive(w, t, app, n)
        PROVE  UpState(w, t, app, remote.got)
    BY <2>2, <2>3 DEF UpState
  <2>4. CASE mem.exists = "yes" /\ ~hasClosed(mem) /\ Leave(accept(mem, p))
    <3> DEFINE w == accept(mem, p)
    <3>1. mem' = w /\ w.exists = "yes" /\ mem.mState # "LISTEN"
      BY <1>0, <2>1, <2>4, acceptLives, UpParts DEF Leave, Lives
    <3>2. CASE mem.socket = TRUE
      <4>1. UpMem(mem, app, n) /\ Chain(tunIn, mem.mRemoteNext, SndNxt(app))
            /\ Acknowledge(tunIn, mem.mLocalNext, app.next)
        BY <1>0, <3>2 DEF UpState, UpLive
      <4>2. PICK m \in Nat : /\ m <= SndNxt(app) /\ Takes(p, mem.mRemoteNext, m)
                             /\ Chain(t, m, SndNxt(app))
        BY <1>0, <2>1, <4>1, ChainTail
      <4>3. /\ mem.mLocalNext <= p.ack /\ Acknowledge(t, p.ack, app.next)
            /\ Acknowledge(t, mem.mLocalNext, app.next)
        BY <1>0, <2>1, <4>1, AcknowledgeTail
      <4>4. PICK k \in {mem.mLocalNext, p.ack} : UpAfter(w, app, n, m, k)
        BY <1>0, <2>1, <2>2, <3>2, <4>1, <4>2, <4>3, acceptUp, ZenonT(60)
      <4> HIDE DEF w, p, t
      <4>5. w.wr = TRUE => w.socket = TRUE
        BY <4>4 DEF UpAfter
      <4>6. w.socket = TRUE => UpLive(w, t, app, n)
        BY <4>2, <4>3, <4>4 DEF UpAfter, UpLive
      <4>7. UpState(w, t, app, remote.got)
        BY <2>3, <3>1, <4>5, <4>6
      <4>8. UpPipe
        BY <1>0, <1>p, <2>1, <2>4, <3>1, <3>2, QuietPipe
      <4> QED BY <2>1, <3>1, <4>7, <4>8 DEF UpMoves
    <3>3. CASE mem.socket = FALSE
      <4>1. TunnelDown(mem)
        BY <1>0, <2>2, <3>3 DEF TunnelDown
      <4>2. TunnelDown(w)
        BY <1>0, <2>1, <3>1, <4>1, acceptDown
      <4> HIDE DEF w, p, t
      <4>3. w.socket = FALSE /\ w.wr = FALSE
        BY <4>2 DEF TunnelDown
      <4>4. UpState(w, t, app, remote.got)
        BY <2>3, <3>1, <4>3
      <4>5. UpPipe
        BY <1>0, <1>p, <2>1, <2>4, <3>1, <4>3, QuietPipe
      <4> QED BY <2>1, <3>1, <4>4, <4>5 DEF UpMoves
    <3> QED BY <1>0, <3>2, <3>3
  <2>5. CASE /\ mem.exists = "never" /\ p.flag = "SYN"
             /\ Leave(accept(buildSession(mem), p))
    <3> DEFINE w == accept(buildSession(mem), p)
    <3>1. mem' = w /\ w.exists = "yes"
      <4>1. w.exists = "yes"
        BY <1>0, <2>1, buildSessionGood, buildSessionLives, acceptLives DEF Lives
      <4> QED BY <2>5, <4>1 DEF Leave
    <3>2. UpNew(mem, tunIn, app, n)
      BY <1>0, <2>5 DEF UpState
    <3>3. UpAfter(w, app, n, 1, 0)
      BY <1>0, <2>1, <2>5, <3>2, buildSessionUp
    <3> HIDE DEF w
    <3>4. \A i \in 1 .. Len(t) : t[i].flag \in {"SYN", "RST"} /\ t[i].ack = 0
      BY <1>0, <2>1, <3>2, AtTail DEF UpNew
    <3>5. Chain(t, 1, SndNxt(app))
      <4>1. SndNxt(app) = 1
        BY <3>2 DEF UpNew, SndNxt
      <4> HIDE DEF t
      <4>2. Chain(t, 1, 1)
        BY <2>1, <3>4, ChainIdle
      <4> QED BY <4>1, <4>2
    <3>6. Acknowledge(t, 0, app.next)
      <4>1. app.next = 0
        BY <3>2 DEF UpNew
      <4> HIDE DEF t
      <4> QED BY <3>4, <4>1 DEF Acknowledge
    <3> HIDE DEF p, t
    <3>7. (w.wr = TRUE => w.socket = TRUE) /\ (w.socket = TRUE => UpLive(w, t, app, n))
      BY <3>3, <3>5, <3>6 DEF UpAfter, UpLive
    <3>8. UpState(w, t, app, remote.got)
      BY <2>3, <3>1, <3>7
    <3>9. UpPipe
      BY <1>0, <1>p, <2>1, <2>5, <3>1, QuietPipe
    <3> QED BY <2>1, <3>1, <3>8, <3>9 DEF UpMoves
  <2>6. CASE /\ mem' = mem
             /\ \/ mem.exists = "yes" /\ hasClosed(mem)
                \/ mem.exists = "deleted"
                \/ mem.exists = "never"
    <3>1. mem.socket = FALSE
      <4>1. CASE mem.exists = "yes" /\ hasClosed(mem)
        <5>1. ~(mem.socket = TRUE)
          BY <1>0, <4>1 DEF UpState, UpLive, UpMem, hasClosed, timeout
        <5> QED BY <1>0, <5>1
      <4>2. CASE mem.exists # "yes"
        BY <4>2, UpParts
      <4> QED BY <2>6, <4>1, <4>2
    <3>2. mem.exists = "never" => UpNew(mem, t, app, n)
      <4>1. mem.exists = "never" => UpNew(mem, tunIn, app, n)
        BY <1>0 DEF UpState
      <4> QED BY <1>0, <2>1, <4>1, AtTail DEF UpNew
    <3> HIDE DEF t
    <3>3. UpState(mem, t, app, remote.got)
      BY <2>2, <3>1, <3>2 DEF UpState
    <3>4. UpPipe
      BY <1>0, <2>1, <2>6, QuietPipe
    <3> QED BY <2>1, <2>6, <3>3, <3>4 DEF UpMoves
  <2> QED BY <1>1, <2>4, <2>5, <2>6 DEF RouterReadTun
<1>q. ASSUME UpSame(mem, mem'), NEW t, tunIn' = t, remote' = remote,
             app'.sent = app.sent, app'.fin = app.fin, UpState(mem, t, app', remote.got)
      PROVE  UpMoves
  <2>1. UpState(mem', t, app', remote.got)
    BY <1>0, <1>p, <1>q, UpSameKept, KeptUp
  <2>2. UpPipe
    BY <1>0, <1>p, <1>q, QuietPipe DEF UpSame
  <2> QED BY <1>q, <2>1, <2>2 DEF UpMoves
<1>2. CASE RouterSkipAborted
  <2>1. TunLoop /\ AfterWrite(RouterUnqueue(mem)) /\ UNCHANGED <<tunIn, app, remote>>
    BY <1>2 DEF RouterSkipAborted
  <2> QED BY <1>0, <1>q, <2>1, AfterWriteUp
<1>3. CASE RouterWriteFails
  <2> DEFINE w == [mem EXCEPT !.tunWrite = FALSE]
  <2>1. mem' = w /\ UNCHANGED <<tunIn, app, remote>>
    BY <1>3 DEF RouterWriteFails
  <2>2. UpSame(mem, w)
    BY <1>0 DEF MemoryType, UpSame
  <2> HIDE DEF w
  <2> QED BY <1>0, <1>q, <2>1, <2>2
<1>4. CASE RouterWriteTun
  <2> DEFINE c == Head(mem.mData)
             d == mem.heap[c]
  <2>1. /\ TunLoop /\ AfterWrite(RouterUnqueue(mem)) /\ UNCHANGED remote
        /\ app' = Received(app, d) /\ tunIn' = tunIn \o Answers(app, d)
    BY <1>4 DEF RouterWriteTun
  <2>2. d \in DatagramType /\ c \in Cells /\ mem.exists # "never"
    <3>1. mem.mData \in Seq(Cells) /\ mem.heap \in [Cells -> DatagramType]
          /\ mem.mData # <<>>
      BY <1>0, <2>1, Fields DEF TunLoop
    <3>2. c \in Cells
      BY <3>1, CellsTail
    <3> QED BY <3>1, <3>2, UpParts
  <2>3. mem.socket = TRUE => d.ack <= mem.mRemoteNext
    BY <1>0, <2>2 DEF UpState, UpLive, UpMem, AcksUpTo
  <2> HIDE DEF d
  <2>4. /\ UpState(mem, tunIn \o Answers(app, d), Received(app, d), remote.got)
        /\ Received(app, d).sent = app.sent /\ Received(app, d).fin = app.fin
    BY <1>0, <2>2, <2>3, ReceivedUp
  <2>5. UpSame(mem, mem')
    BY <2>1, AfterWriteUp
  <2> QED BY <1>q, <2>1, <2>4, <2>5
<1> QED BY <1>1, <1>2, <1>3, <1>4 DEF Tun

(* However the tunnel ends, it is down and the session there.              *)
LEMMA DisconnectedDown ==
  ASSUME NEW v, Good(v), NEW w,
         w \in {onTunnelDisconnected(destroyTunnel(v)),
                destroyTunnel(onTunnelDisconnected(v))}
  PROVE  TunnelDown(w) /\ w.exists = v.exists
<1> DEFINE u == destroyTunnel(v)
           x == onTunnelDisconnected(v)
<1>0. v \in MemoryType
  BY DEF Good, GoodWith
<1>1. Good(u) /\ u.exists = v.exists /\ TunnelDown(u)
  <2>1. TunnelDown(u) /\ u.exists = v.exists
    BY <1>0 DEF destroyTunnel, MemoryType, TunnelDown
  <2> QED BY <2>1, destroyTunnelGood
<1>2. Good(x) /\ x \in MemoryType /\ x.exists = v.exists
  BY onTunnelDisconnectedGood, onTunnelDisconnectedLives DEF Good, GoodWith, Lives
<1> HIDE DEF u, x
<1>3. TunnelDown(onTunnelDisconnected(u)) /\ onTunnelDisconnected(u).exists = u.exists
  BY <1>1, onTunnelDisconnectedDown, onTunnelDisconnectedLives DEF Lives
<1>4. TunnelDown(destroyTunnel(x)) /\ destroyTunnel(x).exists = x.exists
  BY <1>2 DEF destroyTunnel, MemoryType, TunnelDown
<1> QED BY <1>1, <1>2, <1>3, <1>4 DEF u, x

(* The tunnel's steps.                                                     *)
LEMMA TunnelUp ==
  ASSUME UpInv, NumInv', Tunnel
  PROVE  /\ UpState(mem', tunIn', app', remote'.got)
         /\ "sendError" \notin Env => UpPipe
<1> DEFINE n == remote.got.n
           q == mem.mForwardQueue
<1>0. /\ Good(mem) /\ mem \in MemoryType /\ app \in AppType /\ app.sent \in Nat
      /\ mem.socket \in BOOLEAN /\ mem.wr \in BOOLEAN /\ remote.got \in StreamType
      /\ remote \in RemoteType /\ n \in Nat /\ q \in Seq(ForwardType)
      /\ mem.mRemoteNext \in Nat
      /\ UpState(mem, tunIn, app, remote.got)
      /\ (mem.exists # "yes" => mem.socket = FALSE /\ mem.wr = FALSE)
      /\ (mem.wr = TRUE => mem.socket = TRUE)
  BY UpParts, Fields DEF UpState
<1>p. mem' \in MemoryType /\ mem'.socket \in BOOLEAN /\ mem'.wr \in BOOLEAN
  BY NextTyped
<1>d. ASSUME TunnelDown(mem'), mem'.exists # "never", UNCHANGED <<tunIn, app>>,
             remote'.got = remote.got
      PROVE  UpMoves
  <2>1. mem'.socket = FALSE /\ mem'.wr = FALSE
    BY <1>d DEF TunnelDown
  <2>2. UpState(mem', tunIn, app, remote.got)
    BY <1>0, <1>d, DownUp
  <2>3. UpPipe
    BY <1>0, <1>d, <1>p, <2>1, QuietPipe
  <2> QED BY <1>d, <2>2, <2>3 DEF UpMoves
<1>k. ASSUME UpKept(mem, mem'), UNCHANGED <<tunIn, app>>, remote'.got = remote.got
      PROVE  UpMoves
  <2>1. UpState(mem', tunIn, app, remote.got)
    BY <1>0, <1>k, <1>p, KeptUp
  <2>2. UpPipe
    BY <1>0, <1>k, <1>p, QuietPipe DEF UpKept
  <2> QED BY <1>k, <2>1, <2>2 DEF UpMoves
<1>1. ASSUME NEW k \in 1 .. MaxRead, TunnelReadable(k) PROVE UpMoves
  <2> DEFINE w == onTunnelDataBack(mem, remote.read, k)
  <2>1. k \in Nat /\ remote.read \in Nat
    BY <1>0, SessionAssumption DEF RemoteType
  <2>2. mem.rd /\ mem' = w /\ UNCHANGED <<tunIn, app>>
        /\ remote' = [remote EXCEPT !.read = remote.read + k]
    BY <1>1 DEF TunnelReadable, Leave
  <2>3. remote'.got = remote.got
    BY <1>0, <2>2 DEF RemoteType
  <2>4. (mem.idle = 0 => UpKept(mem, w)) /\ (TunnelDown(mem) => TunnelDown(w))
    BY <1>0, <2>1, onTunnelDataBackUp
  <2>5. w.exists = mem.exists /\ mem.exists = "yes"
    <3>1. mem.exists = "yes"
      BY <2>2 DEF UpInv, NumInv, EndInv
    <3> QED BY <1>0, <2>1, <3>1, onTunnelDataBackLives DEF Lives
  <2> HIDE DEF w
  <2>6. CASE mem.socket = TRUE
    <3>1. mem.idle = 0
      BY <1>0, <2>6 DEF UpState, UpLive, UpMem
    <3> QED BY <1>k, <2>2, <2>3, <2>4, <3>1
  <2>7. CASE mem.socket = FALSE
    <3>1. TunnelDown(mem)
      BY <1>0, <2>7 DEF TunnelDown
    <3> QED BY <1>d, <2>2, <2>3, <2>4, <2>5, <3>1
  <2> QED BY <1>0, <2>6, <2>7
<1>2. CASE TunnelEof \/ TunnelFails \/ TunnelException
  <2>1. /\ mem.socket \/ mem.rd
        /\ mem' \in {onTunnelDisconnected(destroyTunnel(mem)),
                     destroyTunnel(onTunnelDisconnected(mem))}
        /\ UNCHANGED <<tunIn, app, remote>>
    BY <1>2 DEF TunnelEof, TunnelFails, TunnelException, Registered, Leave
  <2>2. mem.exists = "yes"
    BY <2>1 DEF UpInv, NumInv, EndInv
  <2>3. TunnelDown(mem') /\ mem'.exists = "yes"
    BY <1>0, <2>1, <2>2, DisconnectedDown
  <2>4. remote'.got = remote.got /\ UNCHANGED <<tunIn, app>>
    BY <2>1
  <2> QED BY <1>d, <2>3, <2>4 DEF UpMoves
<1>3. CASE TunnelWritableEmpty
  <2> DEFINE w == pauseSendData(mem)
  <2>1. mem' = w /\ UNCHANGED <<tunIn, app, remote>>
    BY <1>3 DEF TunnelWritableEmpty
  <2>2. UpKept(mem, w)
    <3>1. /\ w.heap = mem.heap /\ w.mRemoteNext = mem.mRemoteNext
          /\ w.mForwardQueue = mem.mForwardQueue
          /\ w.mLocalNext = mem.mLocalNext /\ w.exists = mem.exists
          /\ w.mRemoteFinished = mem.mRemoteFinished /\ w.idle = mem.idle
          /\ w.mState = mem.mState /\ w.mAlive = mem.mAlive
          /\ w.socket = mem.socket /\ w.wr = FALSE
      BY <1>0 DEF pauseSendData, MemoryType
    <3> HIDE DEF w
    <3> QED BY <3>1 DEF UpKept
  <2> HIDE DEF w
  <2>3. remote'.got = remote.got /\ UpKept(mem, mem') /\ UNCHANGED <<tunIn, app>>
    BY <2>1, <2>2
  <2> QED BY <1>k, <2>3 DEF UpMoves
<1>f. ASSUME mem.wr, q # <<>>
      PROVE  /\ mem.socket = TRUE /\ mem.exists = "yes"
             /\ UpLive(mem, tunIn, app, n)
             /\ Head(q).off = n /\ Head(q).len > 0 /\ Head(q).len \in Nat
             /\ n + Head(q).len <= app.sent
             /\ Forwards(Tail(q), n + Head(q).len, Min2(mem.mRemoteNext - 1, app.sent))
  <2>1. mem.socket = TRUE /\ mem.exists = "yes"
    BY <1>0, <1>f
  <2>2. UpLive(mem, tunIn, app, n)
    BY <1>0, <2>1 DEF UpState
  <2>3. /\ Forwards(q, n, Min2(mem.mRemoteNext - 1, app.sent)) /\ mem.mRemoteNext >= 1
    BY <2>2 DEF UpLive, UpMem
  <2> DEFINE m == Min2(mem.mRemoteNext - 1, app.sent)
  <2>4. m \in Nat /\ m <= app.sent
    BY <1>0, <2>3 DEF Min2
  <2> HIDE DEF m
  <2>5. /\ Head(q) \in ForwardType /\ Head(q).off = n /\ Head(q).len > 0
        /\ n + Head(q).len <= m /\ Forwards(Tail(q), n + Head(q).len, m)
    BY <1>0, <1>f, <2>3, <2>4, ForwardsTail DEF m
  <2>6. Head(q).len \in Nat
    BY <2>5 DEF ForwardType
  <2>7. n + Head(q).len <= app.sent
    BY <1>0, <2>4, <2>5, <2>6
  <2> QED BY <2>1, <2>2, <2>5, <2>6, <2>7 DEF m
<1>4. CASE TunnelSend
  <2> DEFINE h == Head(q)
             r == Tail(q)
             w == [mem EXCEPT !.mForwardQueue = r]
             e == Extend(remote.got, h.off, h.len)
  <2>1. /\ mem.wr /\ q # <<>> /\ mem' = w /\ UNCHANGED <<tunIn, app>>
        /\ remote' = [remote EXCEPT !.got = e]
    BY <1>4, Zenon DEF TunnelSend, SendLoop
  <2>2. /\ mem.socket = TRUE /\ mem.exists = "yes" /\ UpLive(mem, tunIn, app, n)
        /\ h.off = n /\ h.len > 0 /\ h.len \in Nat /\ n + h.len <= app.sent
        /\ Forwards(r, n + h.len, Min2(mem.mRemoteNext - 1, app.sent))
    BY <1>f, <2>1
  <2> HIDE DEF h, r
  <2>3. e.n = n + h.len /\ e.ok = TRUE
    BY <1>0, <2>2 DEF Extend, UpState
  <2> HIDE DEF e
  <2>4. remote'.got = e
    BY <1>0, <2>1 DEF RemoteType
  <2>5. /\ w.heap = mem.heap /\ w.mRemoteNext = mem.mRemoteNext
        /\ w.mForwardQueue = r
        /\ w.mLocalNext = mem.mLocalNext /\ w.exists = mem.exists
        /\ w.mRemoteFinished = mem.mRemoteFinished /\ w.idle = mem.idle
        /\ w.mState = mem.mState /\ w.mAlive = mem.mAlive
        /\ w.socket = mem.socket /\ w.wr = mem.wr
    BY <1>0 DEF MemoryType
  <2> HIDE DEF w
  <2>6. UpLive(w, tunIn, app, e.n)
    <3>1. UpMem(mem, app, n) /\ Chain(tunIn, mem.mRemoteNext, SndNxt(app))
          /\ Acknowledge(tunIn, mem.mLocalNext, app.next)
      BY <2>2 DEF UpLive
    <3>2. AcksUpTo(w, w.mRemoteNext)
      BY <2>5, <3>1 DEF UpMem, AcksUpTo
    <3>3. UpMem(w, app, e.n)
      BY <2>2, <2>3, <2>5, <3>1, <3>2 DEF UpMem
    <3> QED BY <2>5, <3>1, <3>3 DEF UpLive
  <2>7. UpState(w, tunIn, app, e)
    BY <1>0, <2>2, <2>3, <2>5, <2>6 DEF UpState
  <2>8. UpPipe
    <3>1. /\ app' = app /\ remote'.got.n = n + h.len /\ n + h.len \in Nat
          /\ n < n + h.len /\ n + h.len <= app.sent
      BY <1>0, <2>1, <2>2, <2>3, <2>4
    <3>2. /\ mem.exists = "yes" /\ mem.socket = TRUE
          /\ mem'.exists = "yes" /\ mem'.socket = TRUE
      BY <2>1, <2>2, <2>5
    <3>3. Up!Deliver(remote'.got.n)
      BY <3>1, <3>2 DEF Up!Deliver
    <3> QED BY <3>1, <3>3 DEF UpPipe, Up!PipeNext
  <2> QED BY <2>1, <2>4, <2>7, <2>8 DEF UpMoves
<1>5. ASSUME NEW s \in 0 .. AppBytes, TunnelSendFails(s)
      PROVE  UpState(mem', tunIn', app', remote'.got) /\ "sendError" \in Env
  <2> DEFINE h == Head(q)
             g == [h EXCEPT !.off = h.off + s, !.len = h.len - s]
             x == <<g>> \o Tail(q)
             w == [mem EXCEPT !.mForwardQueue = x]
             e == Extend(remote.got, h.off, s)
  <2>1. /\ "sendError" \in Env /\ mem' = onTunnelDisconnected(destroyTunnel(w))
        /\ s < h.len /\ mem.wr /\ q # <<>> /\ UNCHANGED <<tunIn, app>>
        /\ remote' = [remote EXCEPT !.got = e]
    BY <1>5, Zenon DEF TunnelSendFails, SendLoop, Leave
  <2>2. s \in Nat
    BY SessionAssumption
  <2>3. /\ mem.socket = TRUE /\ mem.exists = "yes"
        /\ h.off = n /\ h.len \in Nat /\ n + h.len <= app.sent
    BY <1>f, <2>1
  <2>4. x \in Seq(ForwardType)
    <3>1. h \in ForwardType /\ Tail(q) \in Seq(ForwardType)
      BY <1>0, <2>1, HeadTailProperties
    <3> HIDE DEF h
    <3>2. h.off + s \in Nat /\ h.len - s \in Nat
      BY <1>0, <2>1, <2>2, <2>3
    <3>3. g \in ForwardType
      BY <3>1, <3>2 DEF ForwardType
    <3> HIDE DEF g
    <3>4. <<g>> \in Seq(ForwardType)
      BY <3>3
    <3> QED BY <3>1, <3>4, ConcatProperties
  <2> HIDE DEF h, x
  <2>5. e.n = n + s /\ e.ok = TRUE /\ n + s <= app.sent
    <3>1. n + s <= app.sent
      BY <1>0, <2>1, <2>2, <2>3
    <3>2. remote.got.ok = TRUE
      BY <1>0 DEF UpState
    <3> QED BY <1>0, <2>2, <2>3, <3>1, <3>2 DEF Extend
  <2> HIDE DEF e
  <2>6. remote'.got = e
    BY <1>0, <2>1 DEF RemoteType
  <2>7. w \in MemoryType /\ SameQueues(mem, w) /\ w.exists = mem.exists
    BY <1>0, <2>4 DEF MemoryType, SameQueues
  <2> HIDE DEF w
  <2>8. Good(w)
    BY <1>0, <2>7, SameQueuesGood
  <2>9. mem'.socket = FALSE /\ mem'.wr = FALSE /\ mem'.exists = "yes"
    BY <2>1, <2>3, <2>7, <2>8, DisconnectedDown DEF TunnelDown
  <2>10. UpState(mem', tunIn, app, e)
    BY <1>0, <2>5, <2>9 DEF UpState
  <2> QED BY <2>1, <2>6, <2>10
<1>6. UpMoves => /\ UpState(mem', tunIn', app', remote'.got)
                 /\ "sendError" \notin Env => UpPipe
  BY DEF UpMoves
<1> QED BY <1>1, <1>2, <1>3, <1>4, <1>5, <1>6 DEF Tunnel

LEMMA NextUp ==
  ASSUME UpInv, [Next]_vars, Env \cap {"finData", "tunLoss", "idle"} = {}
  PROVE  UpInv' /\ ("sendError" \notin Env => UpPipe)
<1>0. /\ mem \in MemoryType /\ mem.socket \in BOOLEAN
      /\ UpState(mem, tunIn, app, remote.got)
  BY UpParts
<1>1. NumInv'
  BY NextNum DEF UpInv
<1>p. mem' \in MemoryType /\ mem'.socket \in BOOLEAN
  BY <1>1, NextTyped
<1>2. /\ UpState(mem', tunIn', app', remote'.got)
      /\ "sendError" \notin Env => UpPipe
  <2>1. CASE CleanDeadSessions
    <3> DEFINE w == releaseSession(mem)
    <3>1. mem' = w /\ UNCHANGED <<tunIn, app, remote>>
      BY <2>1 DEF CleanDeadSessions
    <3>2. w.exists = "deleted" /\ ~w.socket /\ ~w.wr
      BY <1>0, releaseSessionLives
    <3> HIDE DEF w
    <3>3. w.socket = FALSE /\ w.wr = FALSE
      <4>1. w.socket \in BOOLEAN /\ w.wr \in BOOLEAN
        BY <1>1, <3>1, NextTyped
      <4> QED BY <3>2, <4>1
    <3>4. UpState(w, tunIn, app, remote.got)
      BY <1>0, <3>2, <3>3, DownUp DEF TunnelDown
    <3>5. UpPipe
      BY <1>0, <1>p, <3>1, <3>2, <3>3, QuietPipe
    <3> QED BY <3>1, <3>4, <3>5
  <2>2. CASE UNCHANGED vars
    <3>1. UNCHANGED <<mem, tunIn, app, remote>>
      BY <2>2 DEF vars
    <3>2. UpPipe
      BY <1>0, <1>p, <3>1, QuietPipe
    <3> QED BY <1>0, <3>1, <3>2
  <2>3. ~Tick
    BY DEF Tick
  <2>4. CASE Kernel
    BY <2>4, KernelUp DEF UpMoves
  <2>5. CASE Tun
    BY <1>1, <2>5, TunUp DEF UpMoves
  <2>6. CASE Tunnel
    BY <1>1, <2>6, TunnelUp
  <2> QED BY <2>1, <2>2, <2>3, <2>4, <2>5, <2>6 DEF Next
<1>3. UpState(mem, tunIn, app, remote.got)'
  BY <1>2, Zenon DEF UpState, UpNew, UpLive, UpMem, AcksUpTo, Chain, Takes, Acknowledge,
                     Backed, Forwards, SndNxt, Min2
<1> QED BY <1>1, <1>2, <1>3 DEF UpInv

LEMMA InitUp ==
  ASSUME Init
  PROVE  UpInv /\ Up!PipeInit
<1>1. NumInv
  BY InitNum
<1>2. /\ mem.exists = "never" /\ mem.mRemoteFinished = FALSE
      /\ mem.socket = FALSE /\ mem.wr = FALSE
      /\ mem.mForwardQueue = <<>> /\ mem.mLocalNext = 0 /\ mem.mRemoteNext = 0
      /\ \A c \in Cells : mem.heap[c] = Free
  BY DEF Init, InitMemory
<1>3. /\ app.st = "idle" /\ app.sent = 0 /\ app.una = 0 /\ app.fin = FALSE /\ app.next = 0
      /\ remote.got = Empty /\ tunIn = <<>>
  BY DEF Init
<1>4. remote.got.n = 0 /\ remote.got.ok = TRUE
  BY <1>3 DEF Empty
<1>5. AcksUpTo(mem, 0)
  BY <1>2 DEF AcksUpTo, Free
<1>6. UpNew(mem, tunIn, app, remote.got.n)
  <2>1. 1 .. Len(tunIn) = {}
    BY <1>3
  <2> QED BY <1>2, <1>3, <1>4, <1>5, <2>1 DEF UpNew
<1>7. UpState(mem, tunIn, app, remote.got)
  <2>1. 1 .. Len(tunIn) = {}
    BY <1>3
  <2> QED BY <1>2, <1>3, <1>4, <1>6, <2>1 DEF UpState
<1>8. Up!PipeInit
  BY <1>2, <1>3, <1>4 DEF Up!PipeInit
<1> QED BY <1>1, <1>7, <1>8 DEF UpInv

(* The remote gets the app's bytes, each once and in its place, and what   *)
(* the session acknowledged to the app the remote has or will be sent as   *)
(* long as the tunnel is up: enqueueIfNeed counts in mRemoteNext exactly   *)
(* the bytes it queues, whatever the kernel repeats, the tunnel refuses or *)
(* a reset interrupts.  Left out are the three events that do break it:    *)
(* accept takes what follows a packet lost in the tun device, onReceiveFIN *)
(* counts a FIN and drops the data in it, and a session that timed out     *)
(* misses packets until a read of the tunnel brings it back.               *)
THEOREM UpstreamStaysIntact ==
  ASSUME Env \cap {"finData", "tunLoss", "idle"} = {}
  PROVE  Spec => []UpstreamIntact
<1>1. Init => UpInv
  BY InitUp
<1>2. UpInv /\ [Next]_vars => UpInv'
  BY NextUp
<1>3. UpInv => UpstreamIntact
  <2>1. SUFFICES ASSUME UpInv PROVE UpstreamIntact
    OBVIOUS
  <2>2. /\ mem \in MemoryType /\ mem.socket \in BOOLEAN /\ app.sent \in Nat /\ app.una \in Nat
        /\ UpState(mem, tunIn, app, remote.got) /\ mem.mRemoteNext \in Nat
    BY <2>1, UpParts, Fields
  <2>3. ASSUME mem.socket = TRUE PROVE Min2(app.una - 1, app.sent) <= ForwardEnd
    <3>1. /\ Forwards(mem.mForwardQueue, remote.got.n, Min2(mem.mRemoteNext - 1, app.sent))
          /\ app.una <= mem.mRemoteNext
      BY <2>2, <2>3 DEF UpState, UpLive, UpMem
    <3>2. ForwardEnd = Min2(mem.mRemoteNext - 1, app.sent)
      BY <3>1 DEF Forwards, ForwardEnd
    <3> QED BY <2>2, <3>1, <3>2 DEF Min2
  <2> QED BY <2>2, <2>3 DEF UpState, UpstreamIntact
<1> QED BY <1>1, <1>2, <1>3, PTL DEF Spec

(* Towards the remote the session implements a pipe, one that closes with  *)
(* the app's FIN and breaks with the tunnel: what its handlers do with     *)
(* numbers, repeated packets, the queue and the WRITE events is, for the   *)
(* two ends of the stream, taking bytes, delivering the next of them,      *)
(* closing or breaking.  A send() that takes some bytes and then fails     *)
(* delivers and breaks in one step, so it is left out here as well.        *)
THEOREM UpImplementsPipe ==
  ASSUME Env \cap {"finData", "tunLoss", "idle", "sendError"} = {}
  PROVE  Spec => UpIsPipe
<1>1. Init => UpInv /\ Up!PipeInit
  BY InitUp
<1>2. UpInv /\ [Next]_vars => UpInv' /\ [Up!PipeNext]_(Up!pipeVars)
  <2>1. Env \cap {"finData", "tunLoss", "idle"} = {} /\ "sendError" \notin Env
    OBVIOUS
  <2> QED BY <2>1, NextUp DEF UpPipe
<1> QED BY <1>1, <1>2, PTL DEF Spec, UpIsPipe, Up!PipeSpec
=============================================================================
