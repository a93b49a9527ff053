---------------------------- MODULE Socks5Proxy -----------------------------
(***************************************************************************)
(* A session that goes through a SOCKS5 proxy: the tunnel (Socks5Proxy),   *)
(* its client (a TCPSession or a UDPSession, as far as the tunnel sees     *)
(* it), and the proxy.  Requests and payload are encrypted into parcels    *)
(* that the connection to the proxy may cut and join; a parcel is two      *)
(* units on the wire, its plain text one.                                  *)
(***************************************************************************)
EXTENDS Integers, Sequences, FiniteSets, FiniteSetsExt, Functions

CONSTANTS MaxSendBuffer, \* MAX_SOCKS5_PROXY_SEND_BUFFER, in units
          PerCall,       \* parcels that fit in one call of decrypt
          Clients,       \* which clients: "TCP", "UDP"
          MaxAccept,     \* bound: segments the app sends
          MaxBack,       \* bound: segments the remote sends
          Env            \* what the environment does

ASSUME ProxyAssumption ==
  /\ MaxSendBuffer \in Nat
  /\ PerCall \in Nat \ {0}
  /\ Clients \subseteq {"TCP", "UDP"}
  /\ MaxAccept \in Nat /\ MaxBack \in Nat
  /\ Env \subseteq {"refuse", "speaksFirst", "proxyCloses", "reset", "clientCloses"}

VARIABLES s5,       \* the tunnel
          client,   \* its client
          loop,     \* the loop the reactor's thread is in
          proxy,    \* the proxy and the connection to it
          settings  \* what the user configured

vars == <<s5, client, loop, proxy, settings>>

Parcel == 2    \* units of a parcel

S5States == {"S_INIT", "S_GREET", "S_VERIFY", "S_CONNECT", "S_TRANS", "S_END", "S_FAILED"}

(* The methods of a greeting; NoMethod is the byte 0xFF, with which the    *)
(* setting is filled up and by which a proxy says that it accepts none.    *)
VERIFY_NONE    == 0
VERIFY_ACCOUNT == 2
NoMethod       == 255

Message(kind, n) == [kind |-> kind, n |-> n]

Requests  == {Message(k, 0) : k \in {"greet", "account", "connect"}}
Upwards   == Requests \cup {Message("data", n) : n \in 1 .. MaxAccept}
Downwards == {Message("method", n) : n \in {VERIFY_NONE, VERIFY_ACCOUNT, NoMethod}}
             \cup {Message(k, n) : k \in {"verified", "connected"}, n \in {0, 1}}
             \cup {Message("data", n) : n \in 1 .. MaxBack}

(* A queue of encrypted segments; off units of the first are gone.         *)
QueueType(S) == [q : Seq(S), off : 0 .. (Parcel - 1)]
Empty == [q |-> <<>>, off |-> 0]
Units(queue) == Parcel * Len(queue.q) - queue.off

(* The Cipher: what encrypt makes of n messages, the whole parcels at the  *)
(* front of what was read (unpack), and how many of them one decrypt takes *)
(* from the buffer and returns in one piece.                               *)
encrypt(n)              == n * Parcel
unpack(units)           == units \div Parcel
decrypt(received, used) == Min({unpack(received) - used, PerCall})

(* Where there is payload in ms, and the messages of the segments ns.      *)
Payload(ms)  == {i \in DOMAIN ms : ms[i].kind = "data"}
Segments(ns) == [i \in DOMAIN ns |-> Message("data", ns[i])]

-----------------------------------------------------------------------------
(* The tunnel's operations, on a pair v of the tunnel and its client       *)

(* Registration of events needs the socket.                                *)
wantWrite(v) == [v EXCEPT !.s5.wr = v.s5.mSocket]

(* destroyTunnel: the queues stay as they are.                             *)
destroyTunnel(v) ==
  [v EXCEPT !.s5.mAlive = FALSE, !.s5.mSocket = FALSE,
            !.s5.rd = FALSE, !.s5.wr = FALSE]

inTrans(v) == v.s5.mAlive /\ v.s5.mS5State = "S_TRANS"

requestSendData(v)   == IF inTrans(v) THEN wantWrite(v) ELSE v
pauseSendData(v)     == IF inTrans(v) THEN [v EXCEPT !.s5.wr = FALSE] ELSE v
pauseReceiveData(v)  == IF inTrans(v) THEN [v EXCEPT !.s5.rd = FALSE] ELSE v
resumeReceiveData(v) == IF inTrans(v) THEN [v EXCEPT !.s5.rd = TRUE] ELSE v

(* With more units queued than in v.                                       *)
getAvailableBufferSize(v, more) ==
  LET buffered == v.s5.mBufferedSize + more
  IN  IF ~v.s5.mAlive \/ buffered > MaxSendBuffer THEN 0 ELSE MaxSendBuffer - buffered

(* Mutant: what is queued is not counted for the handshake.                *)
Mut_encryptAndQueue(v, name, m) ==
  wantWrite([v EXCEPT !.s5[name].q = Append(@, m),
                      !.s5.mBufferedSize = IF name = "mSocks5" THEN @ ELSE @ + encrypt(1)])

(* Mutant: the WRITE event is left as it is.                               *)
Mut_encryptQuietly(v, name, m) ==
  [v EXCEPT !.s5[name].q = Append(@, m), !.s5.mBufferedSize = @ + encrypt(1)]

(* encryptAndQueue: one message becomes one parcel.                        *)
encryptAndQueue(v, name, m) ==
  wantWrite([v EXCEPT !.s5[name].q = Append(@, m),
                      !.s5.mBufferedSize = @ + encrypt(1)])

(* How many of n segments sendData takes one after the other.              *)
taken(v, n) == Min({n} \cup {i \in 0 .. n : getAvailableBufferSize(v, encrypt(i)) < 1})

(* The client's calls of sendData for its first n segments.                *)
sendData(v, n) ==
  IF n = 0 THEN v
  ELSE wantWrite(
         [v EXCEPT !.s5.mOutQueue.q =
                      @ \o Segments(SubSeq(v.client.pending, 1, n)),
                   !.s5.mBufferedSize = @ + encrypt(n),
                   !.client.pending = SubSeq(@, n + 1, Len(@))])

-----------------------------------------------------------------------------
(* The client                                                              *)

(* onTunnelWritable of TCPSession: it stops when the tunnel takes nothing. *)
tcpWritable(v) ==
  LET n == taken(v, Len(v.client.pending))
  IN  IF n = 0 THEN pauseSendData(v) ELSE sendData(v, n)

(* onTunnelWritable of UDPSession: it goes on until its queue is empty.    *)
udpWritable(v) ==
  LET n == taken(v, Len(v.client.pending))
  IN  IF v.client.pending = <<>> THEN pauseSendData(v)
      ELSE [sendData(v, n) EXCEPT
              !.loop = IF n < Len(v.client.pending) THEN "spin" ELSE v.loop]

onTunnelWritable(v) == IF v.client.kind = "TCP" THEN tcpWritable(v) ELSE udpWritable(v)

(* Mutant: only the first parcel is handed on.                             *)
Mut_onTunnelDataBack(v, ms, full) ==
  LET w == [v EXCEPT !.client.back = @ \o SubSeq(ms, 1, 1)]
  IN  IF full /\ v.client.kind = "TCP" THEN pauseReceiveData(w) ELSE w

(* onTunnelDataBack: what was decrypted goes to the app; a TCPSession      *)
(* whose buffer is full pauses reading.                                    *)
onTunnelDataBack(v, ms, full) ==
  LET w == [v EXCEPT !.client.back = @ \o ms]
  IN  IF full /\ v.client.kind = "TCP" THEN pauseReceiveData(w) ELSE w

(* onTunnelDisconnected: a UDPSession closes; a TCPSession closes or, with *)
(* data to return to the app, stays.                                       *)
onTunnelDisconnected(v, stays) ==
  [v EXCEPT !.client.mAlive = stays /\ v.client.kind = "TCP" /\ @]

-----------------------------------------------------------------------------
(* The handshake                                                           *)

(* Mutant: the socket of a tunnel that ended is kept.                      *)
Mut_switchS5State(v, state, stays) ==
  LET w == [v EXCEPT !.s5.mS5State = state]
  IN  CASE state = "S_TRANS" -> onTunnelWritable(w)
        [] state \in {"S_END", "S_FAILED"} -> onTunnelDisconnected(w, stays)
        [] OTHER -> w

switchS5State(v, state, stays) ==
  LET w == [v EXCEPT !.s5.mS5State = state]
  IN  IF v.s5.mS5State = state THEN v
      ELSE CASE state = "S_TRANS" -> onTunnelWritable(w)
             [] state \in {"S_END", "S_FAILED"} ->
                  destroyTunnel(onTunnelDisconnected(w, stays))
             [] OTHER -> w

containS5Verify(m) == m \in settings.methods

sendS5Greet(v)   == encryptAndQueue(v, "mSocks5", Message("greet", 0))
sendS5Connect(v) == encryptAndQueue(v, "mSocks5", Message("connect", 0))

(* Without a user and a password nothing is sent, and none is told.        *)
sendS5Account(v) ==
  IF settings.account THEN encryptAndQueue(v, "mSocks5", Message("account", 0)) ELSE v

(* What decrypt returned is one reply of two bytes.                        *)
twoBytes(ms) == Len(ms) = 1 /\ ms[1].kind \in {"method", "verified"}

handleS5GreetBack(v, ms, stays) ==
  LET m == ms[1].n
  IN  IF ~twoBytes(ms) \/ ~containS5Verify(m) THEN switchS5State(v, "S_FAILED", stays)
      ELSE CASE m = VERIFY_NONE    -> switchS5State(sendS5Connect(v), "S_CONNECT", stays)
             [] m = VERIFY_ACCOUNT -> switchS5State(sendS5Account(v), "S_VERIFY", stays)
             [] OTHER              -> v

(* Mutant: the verdict on the account is not looked at.                    *)
Mut_handleS5VerifyBack(v, ms, stays) ==
  IF ~twoBytes(ms) THEN switchS5State(v, "S_FAILED", stays)
  ELSE switchS5State(sendS5Connect(v), "S_CONNECT", stays)

handleS5VerifyBack(v, ms, stays) ==
  IF ~twoBytes(ms) \/ ms[1].n # 0 THEN switchS5State(v, "S_FAILED", stays)
  ELSE switchS5State(sendS5Connect(v), "S_CONNECT", stays)

(* Only the first bytes of the reply are looked at.                        *)
handleS5ConnBack(v, ms, stays) ==
  IF ms[1].kind # "connected" \/ ms[1].n # 0 THEN switchS5State(v, "S_FAILED", stays)
  ELSE switchS5State(v, "S_TRANS", stays)

(* The parcels ms came out of one call of decrypt.                         *)
handleBack(v, ms, stays, full) ==
  CASE v.s5.mS5State = "S_INIT"    -> v
    [] v.s5.mS5State = "S_GREET"   -> handleS5GreetBack(v, ms, stays)
    [] v.s5.mS5State = "S_VERIFY"  -> handleS5VerifyBack(v, ms, stays)
    [] v.s5.mS5State = "S_CONNECT" -> handleS5ConnBack(v, ms, stays)
    [] v.s5.mS5State = "S_TRANS"   -> onTunnelDataBack(v, ms, full)
    [] OTHER                       -> switchS5State(v, "S_FAILED", stays)

-----------------------------------------------------------------------------
(* Events of the reactor                                                   *)

Before == [s5 |-> s5, client |-> client, loop |-> loop]

Becomes(v) ==
  /\ s5' = v.s5 /\ client' = v.client /\ loop' = v.loop
  /\ UNCHANGED settings

Unread == Parcel * Len(proxy.down) - s5.received

Polling == loop = "poll" /\ s5.mSocket

(* onReadable: read some units, and go through what can be decrypted.  The *)
(* decrypt buffer holds four times what is read at once and keeps less     *)
(* than one parcel between two reads: it never overflows.                  *)
OnReadable ==
  /\ Polling /\ s5.rd /\ proxy.conn = "up"
  /\ \E k \in 1 .. Min({Unread, Parcel * PerCall}) :
       Becomes([Before EXCEPT !.s5.received = @ + k, !.loop = "decrypt"])
  /\ UNCHANGED proxy

(* One round of onReadable's loop: decrypt returns the whole parcels of    *)
(* the buffer in one piece.                                                *)
Decrypt ==
  /\ loop = "decrypt"
  /\ LET n  == decrypt(s5.received, s5.used)
         ms == SubSeq(proxy.down, s5.used + 1, s5.used + n)
         v  == [Before EXCEPT !.s5.used = @ + n]
     IN  IF n = 0 THEN Becomes([Before EXCEPT !.loop = "poll"])
         ELSE \E stays, full \in BOOLEAN : Becomes(handleBack(v, ms, stays, full))
  /\ UNCHANGED proxy

(* The proxy closed the connection.                                        *)
OnReadEnd ==
  /\ Polling /\ s5.rd /\ proxy.conn = "up" /\ proxy.eof /\ Unread = 0
  /\ \E stays \in BOOLEAN : Becomes(switchS5State(Before, "S_END", stays))
  /\ UNCHANGED proxy

(* read fails.                                                             *)
OnReadError ==
  /\ Polling /\ s5.rd /\ proxy.conn = "broken"
  /\ \E stays \in BOOLEAN : Becomes(switchS5State(Before, "S_FAILED", stays))
  /\ UNCHANGED proxy

(* onException, which the kernel reports of a broken connection.           *)
OnException ==
  /\ Polling /\ proxy.conn = "broken"
  /\ \E stays \in BOOLEAN : Becomes(switchS5State(Before, "S_END", stays))
  /\ UNCHANGED proxy

(* Mutant: a segment sent in part is dropped.                              *)
Mut_sendQueue(name) ==
  LET queue == s5[name]
  IN  \E k \in 1 .. Units(queue) :
        LET gone == (queue.off + k) \div Parcel
            cut  == (queue.off + k + Parcel - 1) \div Parcel
        IN  /\ Becomes([Before EXCEPT
                          !.s5[name] = [q |-> SubSeq(queue.q, cut + 1, Len(queue.q)), off |-> 0],
                          !.s5.mBufferedSize = @ - k])
            /\ proxy' = [proxy EXCEPT !.up = @ \o SubSeq(queue.q, 1, gone)]

(* sendQueue: the connection takes k units before send fails or the queue  *)
(* is empty; when it takes none the WRITE event is given up.  A connection *)
(* reported writable takes at least one unit unless it is broken.          *)
sendQueue(name) ==
  LET queue == s5[name]
      least == IF proxy.conn = "up" THEN 1 ELSE 0
  IN  \E k \in least .. Units(queue) :
        LET gone == (queue.off + k) \div Parcel
        IN  /\ Becomes([Before EXCEPT
                          !.s5[name] = [q   |-> SubSeq(queue.q, gone + 1, Len(queue.q)),
                                        off |-> (queue.off + k) % Parcel],
                          !.s5.mBufferedSize = @ - k,
                          !.s5.wr = @ /\ k > 0])
            /\ proxy' = [proxy EXCEPT !.up = @ \o SubSeq(queue.q, 1, gone)]

(* onWritable with nothing queued: the client is asked for more.           *)
AskClient ==
  LET v == onTunnelWritable(Before)
      sentNone == v.client.pending = client.pending
  IN  /\ Becomes([v EXCEPT !.s5.wr = @ /\ ~(sentNone /\ v.loop # "spin")])
      /\ UNCHANGED proxy

OnWritable ==
  /\ Polling /\ s5.wr
  /\ \/ /\ s5.mS5State = "S_TRANS" /\ s5.mOutQueue.q # <<>>
        /\ sendQueue("mOutQueue")
     \/ /\ s5.mS5State = "S_TRANS" /\ s5.mOutQueue.q = <<>>
        /\ AskClient
     \/ /\ s5.mS5State = "S_INIT"
        /\ Becomes(switchS5State(sendS5Greet(Before), "S_GREET", TRUE))
        /\ UNCHANGED proxy
     \/ /\ s5.mS5State \notin {"S_INIT", "S_TRANS"} /\ s5.mSocks5.q = <<>>
        /\ Becomes([Before EXCEPT !.s5.wr = FALSE])
        /\ UNCHANGED proxy
     \/ /\ s5.mS5State \notin {"S_INIT", "S_TRANS"} /\ s5.mSocks5.q # <<>>
        /\ sendQueue("mSocks5")

-----------------------------------------------------------------------------
(* Events of the client                                                    *)

(* Mutant: nothing asks for the WRITE event.                               *)
Mut_Accept ==
  /\ loop = "poll" /\ client.mAlive /\ client.accepted < MaxAccept
  /\ Becomes([Before EXCEPT !.client.accepted = @ + 1,
                            !.client.pending = Append(@, client.accepted + 1)])
  /\ UNCHANGED proxy

(* The app sends.  A TCPSession requests the WRITE event (enqueueIfNeed);  *)
(* a UDPSession does so when its strategy is PROXY and nothing else, and   *)
(* otherwise adds an event for the socket it does not have.                *)
Accept ==
  /\ loop = "poll" /\ client.mAlive /\ client.accepted < MaxAccept
  /\ LET v == [Before EXCEPT !.client.accepted = @ + 1,
                             !.client.pending = Append(@, client.accepted + 1)]
     IN  IF client.kind = "TCP" \/ settings.ctrl = {"PROXY"}
         THEN Becomes(requestSendData(v))
         ELSE Becomes(v)
  /\ UNCHANGED proxy

(* The buffer of a TCPSession has space again (flushBackQueue).            *)
ClientResumes ==
  /\ loop = "poll" /\ client.kind = "TCP" /\ client.mAlive /\ ~s5.rd
  /\ Becomes(resumeReceiveData(Before))
  /\ UNCHANGED proxy

(* A TCPSession is closed by the app or by a time limit.                   *)
ClientCloses ==
  /\ "clientCloses" \in Env
  /\ loop = "poll" /\ client.kind = "TCP" /\ client.mAlive
  /\ Becomes([destroyTunnel(Before) EXCEPT !.client.mAlive = FALSE])
  /\ UNCHANGED proxy

-----------------------------------------------------------------------------
(* The proxy (external)                                                    *)

Online == proxy.conn = "up" /\ ~proxy.eof

Answers(request) ==
  LET no == IF "refuse" \in Env THEN {1} ELSE {}
  IN  CASE request.kind = "greet" ->
             {Message("method", n) :
                n \in IF no = {} THEN settings.methods \ {NoMethod} ELSE settings.methods}
        [] request.kind = "account" -> {Message("verified", n) : n \in {0} \cup no}
        [] request.kind = "connect" -> {Message("connected", n) : n \in {0} \cup no}

ProxyAnswers ==
  /\ Online /\ proxy.answered < Len(proxy.up)
  /\ LET request == proxy.up[proxy.answered + 1]
     IN  IF request.kind = "data" THEN proxy' = [proxy EXCEPT !.answered = @ + 1]
         ELSE \E reply \in Answers(request) :
                proxy' = [proxy EXCEPT !.answered = @ + 1, !.down = Append(@, reply)]
  /\ UNCHANGED <<s5, client, loop, settings>>

(* Data from the remote, once it is connected: in answer to the app, or    *)
(* from a TCP server that speaks first.                                    *)
ProxyRelays ==
  /\ Online /\ Message("connected", 0) \in Range(proxy.down)
  /\ \/ Payload(proxy.up) # {}
     \/ "speaksFirst" \in Env /\ client.kind = "TCP"
  /\ Cardinality(Payload(proxy.down)) < MaxBack
  /\ proxy' = [proxy EXCEPT !.down = Append(@, Message("data", Cardinality(Payload(@)) + 1))]
  /\ UNCHANGED <<s5, client, loop, settings>>

ProxyCloses ==
  /\ "proxyCloses" \in Env /\ Online
  /\ proxy' = [proxy EXCEPT !.eof = TRUE]
  /\ UNCHANGED <<s5, client, loop, settings>>

Reset ==
  /\ "reset" \in Env /\ proxy.conn = "up"
  /\ proxy' = [proxy EXCEPT !.conn = "broken"]
  /\ UNCHANGED <<s5, client, loop, settings>>

-----------------------------------------------------------------------------
(* establish: connect() is on its way, all events are asked for.           *)
establish ==
  [mS5State |-> "S_INIT", mAlive |-> TRUE, mSocket |-> TRUE, rd |-> TRUE, wr |-> TRUE,
   mSocks5 |-> Empty, mOutQueue |-> Empty, mBufferedSize |-> 0, received |-> 0, used |-> 0]

(* The strategies with a proxy, of which the client's init made this one.  *)
Init ==
  /\ s5 = establish
  /\ client \in [kind : Clients, mAlive : {TRUE}, accepted : {0}, pending : {<<>>},
                 back : {<<>>}]
  /\ loop = "poll"
  /\ proxy = [up |-> <<>>, answered |-> 0, down |-> <<>>, eof |-> FALSE, conn |-> "up"]
  /\ settings \in [methods : {{VERIFY_NONE, NoMethod}, {VERIFY_ACCOUNT, NoMethod}},
                   account : BOOLEAN,
                   ctrl : {{"BASE", "PROXY"}, {"BASE", "PROXY", "CAPTURE"}}]

Next ==
  \/ OnReadable \/ Decrypt \/ OnReadEnd \/ OnReadError \/ OnException \/ OnWritable
  \/ Accept \/ ClientResumes \/ ClientCloses
  \/ ProxyAnswers \/ ProxyRelays \/ ProxyCloses \/ Reset

Spec == Init /\ [][Next]_vars

(* The reactor serves what is ready, its thread goes on, and the proxy     *)
(* answers.                                                                *)
FairSpec ==
  /\ Spec
  /\ WF_vars(OnReadable) /\ WF_vars(Decrypt) /\ WF_vars(OnWritable)
  /\ WF_vars(OnReadEnd) /\ WF_vars(OnReadError) /\ WF_vars(OnException)
  /\ WF_vars(ProxyAnswers)

-----------------------------------------------------------------------------
TypeOK ==
  /\ s5 \in [mS5State : S5States, mAlive : BOOLEAN, mSocket : BOOLEAN,
             rd : BOOLEAN, wr : BOOLEAN,
             mSocks5 : QueueType(Requests), mOutQueue : QueueType(Upwards \ Requests),
             mBufferedSize : Nat, received : Nat, used : Nat]
  /\ client \in [kind : Clients, mAlive : BOOLEAN, accepted : 0 .. MaxAccept,
                 pending : Seq(1 .. MaxAccept), back : Seq(Downwards)]
  /\ loop \in {"poll", "decrypt", "spin"}
  /\ proxy \in [up : Seq(Upwards), answered : Nat, down : Seq(Downwards),
                eof : BOOLEAN, conn : {"up", "broken"}]

(* Everything given to the tunnel for the proxy, the oldest first.         *)
Wire == proxy.up \o s5.mSocks5.q \o s5.mOutQueue.q

Learned(m) == \E i \in 1 .. s5.used : proxy.down[i] = m

(* mBufferedSize is what the two queues hold: every queueing and every     *)
(* send, whole or in part, is counted once (encryptAndQueue, sendQueue).   *)
BufferedExact == s5.mBufferedSize = Units(s5.mSocks5) + Units(s5.mOutQueue)

(* What the app sent is, in order and once each, with the proxy, in the    *)
(* tunnel or with the client, and behind the requests: no segment is lost  *)
(* or repeated between the client's queue, mOutQueue and the socket that   *)
(* takes half of a segment.                                                *)
StreamKept ==
  \E h \in 0 .. Len(Wire) :
    /\ \A i \in 1 .. h : Wire[i] \in Requests
    /\ SubSeq(Wire, h + 1, Len(Wire)) \o Segments(client.pending)
         = Segments([n \in 1 .. client.accepted |-> n])

(* The proxy sees a handshake in order: one greeting, CONNECT only when no *)
(* account is asked for or the account was accepted, payload only behind   *)
(* an accepted CONNECT, although they go through two queues.               *)
HandshakeOrder ==
  /\ \A i, j \in DOMAIN Wire : i # j => Wire[i] # Wire[j]
  /\ \A i, j \in DOMAIN Wire : i < j /\ Wire[i].kind = "data" => Wire[j].kind = "data"
  /\ Message("connect", 0) \in Range(Wire) =>
       \/ Learned(Message("method", VERIFY_NONE))
       \/ Learned(Message("verified", 0))
  /\ Payload(Wire) # {} => Learned(Message("connected", 0))

(* All payload that was decrypted was handed to the client, in order,      *)
(* until the tunnel ends: onTunnelDataBack is, says ITunnel.h, called      *)
(* "when receive data from remote".                                        *)
PayloadReachesClient ==
  \/ s5.mS5State \in {"S_END", "S_FAILED"}
  \/ \E h \in 0 .. s5.used :
       /\ \A i \in 1 .. h : proxy.down[i].kind # "data"
       /\ client.back = SubSeq(proxy.down, h + 1, s5.used)

(* A tunnel that has ended stays ended: it never leaves its state, never   *)
(* sends, and its client gets nothing more, whatever is still in the       *)
(* decrypt loop or in the queues.                                          *)
EndsForGood ==
  [][s5.mS5State \in {"S_END", "S_FAILED"} =>
       /\ s5'.mS5State = s5.mS5State /\ ~s5'.mAlive
       /\ proxy'.up = proxy.up /\ client'.back = client.back]_vars

(* onTunnelWritable returns, so that the reactor's thread goes on: "the    *)
(* return value is the size of data be sent" (ITunnel.h).                  *)
WritableReturns == loop # "spin"

Ended == ~s5.mAlive

(* With a proxy that does not refuse the methods, and an account where one *)
(* is asked for, the handshake gets to payload or the tunnel ends: no      *)
(* WRITE event is missing and no reply cut in two is waited for in vain.   *)
HandshakeEnds ==
  [](~Learned(Message("method", NoMethod)) /\ settings.account)
    => <>(s5.mS5State = "S_TRANS" \/ Ended)

(* Payload a client has when the tunnel is up, or queues later, is taken   *)
(* and sent: the tunnel is to "notify client to sent data into tunnel"     *)
(* when it is "available for writing" (ITunnel.h).                         *)
Taken(kind) ==
  (client.kind = kind /\ s5.mS5State = "S_TRANS" /\ client.pending # <<>>)
    ~> (client.pending = <<>> \/ Ended)

(* A TCPSession's payload is taken, with a tunnel that is full too.        *)
TCPForwarded == Taken("TCP")
=============================================================================
