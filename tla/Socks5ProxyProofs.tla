------------------------- MODULE Socks5ProxyProofs --------------------------
(***************************************************************************)
(* The proxy tunnel, for every size of its buffer and of the decrypt call, *)
(* any number of segments and every environment: the handshake keeps its   *)
(* order, no segment is lost or repeated, the size of the queues is exact, *)
(* and a tunnel that ended stays ended.                                    *)
(***************************************************************************)
EXTENDS Socks5Proxy, TLAPS, FiniteSetTheorems, SequenceTheorems, WellFoundedInduction

-----------------------------------------------------------------------------
(* The invariant, on a pair v of the tunnel and its client (with the loop   *)
(* the thread is in) and a proxy p, so that it can be said of the middle    *)
(* of a handler too.                                                        *)

Tunnels == [mS5State : S5States, mAlive : BOOLEAN, mSocket : BOOLEAN,
            rd : BOOLEAN, wr : BOOLEAN,
            mSocks5 : QueueType(Requests), mOutQueue : QueueType(Upwards \ Requests),
            mBufferedSize : Nat, received : Nat, used : Nat]
ClientType == [kind : Clients, mAlive : BOOLEAN, accepted : 0 .. MaxAccept,
               pending : Seq(1 .. MaxAccept), back : Seq(Downwards)]
Loops   == {"poll", "decrypt", "spin"}
Pairs   == [s5 : Tunnels, client : ClientType, loop : Loops]
Proxies == [up : Seq(Upwards), answered : Nat, down : Seq(Downwards),
            eof : BOOLEAN, conn : {"up", "broken"}]

EndStates   == {"S_END", "S_FAILED"}
EarlyStates == {"S_INIT", "S_GREET", "S_VERIFY", "S_CONNECT"}

Greet     == Message("greet", 0)
Account   == Message("account", 0)
Connect   == Message("connect", 0)
Connected == Message("connected", 0)

(* The requests a handshake may have sent, all of them when it is done, and *)
(* those that a state stands for.                                           *)
Done       == {<<Greet, Connect>>, <<Greet, Account, Connect>>}
Handshakes == {<<>>, <<Greet>>, <<Greet, Account>>} \cup Done
Stage(state) ==
  CASE state = "S_INIT"                   -> {<<>>}
    [] state = "S_GREET"                  -> {<<Greet>>}
    [] state = "S_VERIFY"                 -> {<<Greet>>, <<Greet, Account>>}
    [] state \in {"S_CONNECT", "S_TRANS"} -> Done
    [] OTHER                              -> Handshakes

(* The first m segments of the app, and how many the tunnel was given.      *)
Data(m)  == [n \in 1 .. m |-> Message("data", n)]
Given(v) == v.client.accepted - Len(v.client.pending)

OnWire(v, p) == p.up \o v.s5.mSocks5.q \o v.s5.mOutQueue.q

Knows(v, p, m) == \E i \in 1 .. v.s5.used : p.down[i] = m

(* An empty queue has no segment of which a part is gone.                   *)
Exact(v) ==
  /\ v.s5.mBufferedSize = Units(v.s5.mSocks5) + Units(v.s5.mOutQueue)
  /\ Units(v.s5.mSocks5) >= 0 /\ Units(v.s5.mOutQueue) >= 0

(* A tunnel that ended holds no socket, and the decrypt loop can only run   *)
(* on in one that failed.                                                   *)
Over(v) ==
  /\ v.s5.mS5State \in EndStates => ~v.s5.mAlive /\ ~v.s5.mSocket
  /\ v.s5.mS5State = "S_END" => v.loop # "decrypt"

(* On the wire are the requests h and behind them what the tunnel was       *)
(* given; the client holds the rest.                                        *)
Ordered(v, p, h) ==
  /\ h \in Stage(v.s5.mS5State)
  /\ Given(v) >= 0
  /\ v.client.pending = [i \in 1 .. Len(v.client.pending) |-> Given(v) + i]
  /\ OnWire(v, p) = h \o Data(Given(v))
  /\ v.s5.mS5State \in EarlyStates => v.s5.mOutQueue.q = <<>> /\ Given(v) = 0
  /\ v.s5.mS5State = "S_TRANS" => v.s5.mSocks5.q = <<>>
  /\ h \in Done => Knows(v, p, Message("method", VERIFY_NONE))
                   \/ Knows(v, p, Message("verified", 0))
  /\ v.s5.mS5State = "S_TRANS" \/ Given(v) > 0 => Knows(v, p, Connected)

InOrder(v, p) == \E h \in Handshakes : Ordered(v, p, h)

(* What is decrypted was received, and what was received was sent.          *)
Counted(v, p) ==
  /\ Parcel * v.s5.used <= v.s5.received
  /\ v.s5.received <= Parcel * Len(p.down)

(* The i-th reply is to the i-th request, and payload comes when CONNECT    *)
(* was accepted and, unless the remote speaks first, the app has sent.      *)
Replied(p) ==
  /\ p.answered <= Len(p.up)
  /\ \A i \in 1 .. Len(p.down) :
       p.down[i].kind # "data" =>
         i <= p.answered /\ (p.down[i].kind = "connected" => p.up[i] = Connect)
  /\ Payload(p.down) # {} => \E i \in 1 .. Len(p.down) : p.down[i] = Connected
  /\ Payload(p.down) = {} /\ (\A i \in 1 .. p.answered : p.up[i].kind # "data")
       => Len(p.down) = p.answered
  /\ Payload(p.down) # {} /\ "speaksFirst" \notin Env => Payload(p.up) # {}

(* The client has exactly what was decrypted behind the replies.            *)
Handed(v, p) ==
  /\ v.s5.mS5State \in EarlyStates => v.client.back = <<>>
  /\ \/ v.s5.mS5State \in EndStates
     \/ \E h \in 0 .. v.s5.used :
          /\ \A i \in 1 .. h : p.down[i].kind # "data"
          /\ v.client.back = SubSeq(p.down, h + 1, v.s5.used)

(* What every function leaves as it finds it.                              *)
Good(v, p) ==
  /\ v \in Pairs
  /\ Exact(v) /\ Over(v)
  /\ InOrder(v, p) /\ Counted(v, p)
  /\ "speaksFirst" \notin Env => Handed(v, p)

S5Inv ==
  /\ proxy \in Proxies /\ Replied(proxy)
  /\ Good(Before, proxy)
  /\ settings.methods \subseteq {VERIFY_NONE, VERIFY_ACCOUNT, NoMethod}

-----------------------------------------------------------------------------
(* Sequences and minima                                                    *)

(* Every set of natural numbers that is not empty has its minimum.         *)
LEMMA MinOfNats ==
  ASSUME NEW S, S \subseteq Nat, S # {}
  PROVE  Min(S) \in S /\ \A x \in S : Min(S) <= x
<1> DEFINE R == OpToRel(<, Nat)
<1>1. IsWellFoundedOn(R, Nat)
  BY NatLessThanWellFounded
<1>2. \A x, y \in Nat : <<x, y>> \in R <=> x < y
  BY DEF OpToRel
<1> HIDE DEF R
<1>3. PICK x \in S : \A y \in S : ~(<<y, x>> \in R)
  BY <1>1, WFMin
<1>4. ASSUME NEW y \in S PROVE x <= y
  <2>1. x \in Nat /\ y \in Nat
    OBVIOUS
  <2>2. ~(<<y, x>> \in R)
    BY <1>3
  <2>3. ~(y < x)
    BY <1>2, <2>1, <2>2
  <2> QED BY <2>1, <2>3
<1> QED BY <1>4 DEF Min

(* A sequence is its first g elements and the rest.                        *)
LEMMA SplitSeq ==
  ASSUME NEW S, NEW q \in Seq(S), NEW g \in 0 .. Len(q)
  PROVE  /\ SubSeq(q, 1, g) \in Seq(S) /\ Len(SubSeq(q, 1, g)) = g
         /\ SubSeq(q, g + 1, Len(q)) \in Seq(S)
         /\ Len(SubSeq(q, g + 1, Len(q))) = Len(q) - g
         /\ SubSeq(q, 1, g) \o SubSeq(q, g + 1, Len(q)) = q
<1>0. Len(q) \in Nat /\ g \in Nat /\ g <= Len(q)
  BY LenProperties
<1>1. /\ Len(q) \in Nat /\ q \in [1 .. Len(q) -> S]
      /\ g \in Int /\ g + 1 \in Int /\ Len(q) \in Int /\ 1 \in Int
      /\ \A i \in 1 .. g : q[i] \in S
      /\ \A i \in g + 1 .. Len(q) : q[i] \in S
  BY LenProperties
<1>2. SubSeq(q, 1, g) \in Seq(S) /\ Len(SubSeq(q, 1, g)) = g
  BY <1>1, SubSeqProperties
<1>3. SubSeq(q, g + 1, Len(q)) \in Seq(S)
  BY <1>1, SubSeqProperties
<1>4. Len(SubSeq(q, g + 1, Len(q))) = Len(q) - g
  <2>1. CASE g + 1 <= Len(q)
    BY <1>1, <2>1, SubSeqProperties
  <2>2. CASE g = Len(q)
    BY <1>1, <2>2, SubSeqProperties
  <2>3. g + 1 <= Len(q) \/ g = Len(q)
    BY <1>0
  <2> QED BY <2>1, <2>2, <2>3
<1>5. /\ 1 \in 1 .. Len(q) + 1 /\ g \in 1 - 1 .. Len(q)
      /\ Len(q) \in g .. Len(q)
  BY <1>1
<1>6. SubSeq(q, 1, g) \o SubSeq(q, g + 1, Len(q)) = SubSeq(q, 1, Len(q))
  BY <1>5, ConcatAdjacentSubSeq
<1> QED BY <1>2, <1>3, <1>4, <1>6, SubSeqFull

(* What moves from the front of the second sequence to the end of the      *)
(* first, or of the third to the end of the first when the second is       *)
(* empty, leaves their concatenation as it was.                            *)
LEMMA Moved ==
  ASSUME NEW a \in Seq(Upwards), NEW q \in Seq(Upwards), NEW r \in Seq(Upwards),
         NEW g \in 0 .. Len(q)
  PROVE  (a \o SubSeq(q, 1, g)) \o SubSeq(q, g + 1, Len(q)) \o r = a \o q \o r
<1> DEFINE f == SubSeq(q, 1, g)
           t == SubSeq(q, g + 1, Len(q))
<1>1. f \in Seq(Upwards) /\ t \in Seq(Upwards) /\ f \o t = q
  BY SplitSeq
<1>2. f \in Seq(Upwards) /\ t \in Seq(Upwards)
  BY <1>1
<1> HIDE DEF f, t
<1>3. (a \o f) \o t = a \o (f \o t)
  BY <1>2, ConcatAssociative, SMTT(30)
<1> QED BY <1>1, <1>3 DEF f, t

-----------------------------------------------------------------------------
(* Types                                                                   *)

(* The fields of a pair, one by one.                                       *)
LEMMA PairFields ==
  ASSUME NEW v \in Pairs
  PROVE  /\ v.s5 \in Tunnels /\ v.client \in ClientType
         /\ v.loop \in Loops
         /\ v.s5.mS5State \in S5States /\ v.s5.mAlive \in BOOLEAN
         /\ v.s5.mSocket \in BOOLEAN /\ v.s5.rd \in BOOLEAN /\ v.s5.wr \in BOOLEAN
         /\ v.s5.mSocks5 \in QueueType(Requests)
         /\ v.s5.mOutQueue \in QueueType(Upwards \ Requests)
         /\ v.s5.mBufferedSize \in Nat /\ v.s5.received \in Nat /\ v.s5.used \in Nat
         /\ v.client.kind \in Clients /\ v.client.mAlive \in BOOLEAN
         /\ v.client.accepted \in 0 .. MaxAccept
         /\ v.client.pending \in Seq(1 .. MaxAccept) /\ v.client.back \in Seq(Downwards)
  BY DEF Pairs, Tunnels, ClientType

(* What is on the wire is a sequence of messages.                          *)
LEMMA WireFields ==
  ASSUME NEW v \in Pairs, NEW p \in Proxies
  PROVE  /\ p.up \in Seq(Upwards) /\ p.down \in Seq(Downwards)
         /\ p.answered \in Nat
         /\ v.s5.mSocks5.q \in Seq(Upwards) /\ v.s5.mOutQueue.q \in Seq(Upwards)
         /\ v.s5.mSocks5.q \in Seq(Requests)
         /\ v.s5.mOutQueue.q \in Seq(Upwards \ Requests)
         /\ v.s5.mSocks5.off \in {0, 1} /\ v.s5.mOutQueue.off \in {0, 1}
         /\ OnWire(v, p) \in Seq(Upwards)
<1>1. /\ p.up \in Seq(Upwards) /\ p.down \in Seq(Downwards) /\ p.answered \in Nat
  BY DEF Proxies
<1>2. /\ v.s5.mSocks5.q \in Seq(Requests)
      /\ v.s5.mOutQueue.q \in Seq(Upwards \ Requests)
      /\ v.s5.mSocks5.off \in {0, 1} /\ v.s5.mOutQueue.off \in {0, 1}
  BY PairFields DEF QueueType, Parcel
<1>3. Requests \subseteq Upwards /\ Upwards \ Requests \subseteq Upwards
  BY DEF Upwards
<1>4. v.s5.mSocks5.q \in Seq(Upwards) /\ v.s5.mOutQueue.q \in Seq(Upwards)
  BY <1>2, <1>3, SeqMonotonic
<1>5. p.up \o v.s5.mSocks5.q \in Seq(Upwards)
  BY <1>1, <1>4, ConcatProperties
<1>6. OnWire(v, p) \in Seq(Upwards)
  BY <1>4, <1>5, ConcatProperties DEF OnWire
<1> QED BY <1>1, <1>2, <1>4, <1>6

(* A request is not payload, and everything else that is sent is.          *)
LEMMA Kinds ==
  /\ \A m \in Requests : m.kind # "data"
  /\ \A m \in Upwards \ Requests : m.kind = "data"
  /\ Greet \in Requests /\ Account \in Requests /\ Connect \in Requests
  /\ Greet # Account /\ Greet # Connect /\ Account # Connect
BY DEF Requests, Upwards, Message, Greet, Account, Connect

(* The handshakes as sequences.                                            *)
LEMMA HandshakeTypes ==
  ASSUME NEW h \in Handshakes
  PROVE  /\ h \in Seq(Requests) /\ h \in Seq(Upwards)
         /\ Len(h) \in 0 .. 3
         /\ \A i \in 1 .. Len(h) : h[i] = Connect => i = Len(h)
         /\ \A i, j \in 1 .. Len(h) : i # j => h[i] # h[j]
         /\ (\E i \in 1 .. Len(h) : h[i] = Connect) => h \in Done
<1>1. Requests \subseteq Upwards
  BY DEF Upwards
<1>0. Greet \in Requests /\ Account \in Requests /\ Connect \in Requests
  BY Kinds
<1>2. h \in Seq(Requests)
  <2>1. /\ <<>> \in Seq(Requests) /\ <<Greet>> \in Seq(Requests)
        /\ <<Greet, Account>> \in Seq(Requests) /\ <<Greet, Connect>> \in Seq(Requests)
    BY <1>0
  <2>2. <<Greet, Account, Connect>> \in Seq(Requests)
    BY <1>0
  <2> QED BY <2>1, <2>2 DEF Handshakes, Done
<1>3. h \in Seq(Upwards)
  BY <1>1, <1>2, SeqMonotonic
<1>4. CASE h = <<>>
  BY <1>2, <1>3, <1>4
<1>5. CASE h = <<Greet>>
  BY <1>2, <1>3, <1>5, Kinds
<1>6. CASE h = <<Greet, Account>>
  BY <1>2, <1>3, <1>6, Kinds
<1>7. CASE h = <<Greet, Connect>>
  BY <1>2, <1>3, <1>7, Kinds DEF Done
<1>8. CASE h = <<Greet, Account, Connect>>
  BY <1>2, <1>3, <1>8, Kinds DEF Done
<1> QED BY <1>4, <1>5, <1>6, <1>7, <1>8 DEF Handshakes, Done

(* A stage stands for handshakes.                                          *)
LEMMA StageTypes ==
  ASSUME NEW state \in S5States
  PROVE  Stage(state) \subseteq Handshakes
BY DEF Stage, Handshakes, S5States

(* The first m segments.                                                   *)
LEMMA DataFields ==
  ASSUME NEW m \in 0 .. MaxAccept
  PROVE  /\ Data(m) \in Seq(Upwards) /\ Len(Data(m)) = m
         /\ \A i \in 1 .. m : Data(m)[i] = Message("data", i)
         /\ \A i \in 1 .. m : Data(m)[i].kind = "data" /\ Data(m)[i].n = i
<1>1. MaxAccept \in Nat
  BY ProxyAssumption
<1>2. \A i \in 1 .. m : Message("data", i) \in Upwards
  BY <1>1 DEF Upwards
<1>3. Data(m) \in [1 .. m -> Upwards]
  BY <1>2 DEF Data
<1>4. Data(m) \in Seq(Upwards) /\ Len(Data(m)) = m
  BY <1>1, <1>3
<1> QED BY <1>4 DEF Data, Message

(* What stands where on the wire.                                          *)
LEMMA WireAt ==
  ASSUME NEW v \in Pairs, NEW p \in Proxies, NEW h \in Handshakes, Ordered(v, p, h)
  PROVE  /\ Given(v) \in 0 .. MaxAccept
         /\ Len(OnWire(v, p)) = Len(h) + Given(v)
         /\ Len(OnWire(v, p))
              = Len(p.up) + Len(v.s5.mSocks5.q) + Len(v.s5.mOutQueue.q)
         /\ \A i \in 1 .. Len(h) + Given(v) :
              OnWire(v, p)[i] = IF i <= Len(h) THEN h[i] ELSE Message("data", i - Len(h))
         /\ \A i \in 1 .. Len(p.up) : p.up[i] = OnWire(v, p)[i]
<1> DEFINE W == OnWire(v, p)
           m == Given(v)
           d == Data(m)
           a == p.up
           b == v.s5.mSocks5.q
           c == v.s5.mOutQueue.q
<1>1. m \in 0 .. MaxAccept
  <2>1. Len(v.client.pending) \in Nat
    BY PairFields, LenProperties
  <2>2. v.client.accepted \in 0 .. MaxAccept /\ MaxAccept \in Nat
    BY PairFields, ProxyAssumption
  <2> QED BY <2>1, <2>2 DEF Given, Ordered
<1>2. /\ d \in Seq(Upwards) /\ Len(d) = m
      /\ \A i \in 1 .. m : d[i] = Message("data", i)
  BY <1>1, DataFields
<1>3. h \in Seq(Upwards) /\ Len(h) \in Nat
  BY HandshakeTypes
<1>4. W = h \o d
  BY DEF Ordered
<1>5. a \in Seq(Upwards) /\ b \in Seq(Upwards) /\ c \in Seq(Upwards)
  BY WireFields
<1>6. Len(a) \in Nat /\ Len(b) \in Nat /\ Len(c) \in Nat
  BY <1>5, LenProperties
<1>7. W = (a \o b) \o c
  BY DEF OnWire
<1> HIDE DEF W, m, d, a, b, c
<1>8. Len(h \o d) = Len(h) + m
      /\ \A i \in 1 .. Len(h) + m : (h \o d)[i] = IF i <= Len(h) THEN h[i] ELSE d[i - Len(h)]
  BY <1>2, <1>3, ConcatProperties
<1>9. \A i \in 1 .. Len(h) + m : W[i] = IF i <= Len(h) THEN h[i] ELSE Message("data", i - Len(h))
  <2> TAKE i \in 1 .. Len(h) + m
  <2>1. CASE i <= Len(h)
    BY <1>4, <1>8, <2>1
  <2>2. CASE ~(i <= Len(h))
    <3>1. i - Len(h) \in 1 .. m
      BY <1>1, <1>3, <2>2
    <3> QED BY <1>2, <1>4, <1>8, <2>2, <3>1
  <2> QED BY <2>1, <2>2
<1>10. /\ a \o b \in Seq(Upwards) /\ Len(a \o b) = Len(a) + Len(b)
       /\ \A i \in 1 .. Len(a) : (a \o b)[i] = a[i]
  BY <1>5, <1>6, ConcatProperties
<1>11. /\ Len((a \o b) \o c) = Len(a) + Len(b) + Len(c)
       /\ \A i \in 1 .. Len(a) + Len(b) : ((a \o b) \o c)[i] = (a \o b)[i]
  BY <1>5, <1>6, <1>10, ConcatProperties
<1>12. \A i \in 1 .. Len(a) : a[i] = W[i]
  BY <1>6, <1>7, <1>10, <1>11
<1> QED BY <1>1, <1>4, <1>7, <1>8, <1>9, <1>11, <1>12 DEF W, m, a, b, c

-----------------------------------------------------------------------------
(* What the invariant is for                                               *)

(* The size that is kept of a good pair is exact.                          *)
LEMMA BufferedFromGood ==
  ASSUME Good(Before, proxy)
  PROVE  BufferedExact
BY DEF Good, Exact, Before, BufferedExact

(* The first segments and those the client holds are all of them.          *)
LEMMA KeptFromOrder ==
  ASSUME NEW h \in Handshakes, Before \in Pairs, proxy \in Proxies,
         Ordered(Before, proxy, h)
  PROVE  StreamKept
<1> DEFINE m == Given(Before)
           t == client.pending
           all == [n \in 1 .. client.accepted |-> n]
           W == OnWire(Before, proxy)
<1>1. W = Wire /\ Before.client = client /\ Before.s5 = s5
  BY DEF OnWire, Wire, Before
<1>2. /\ m \in 0 .. MaxAccept /\ Len(W) = Len(h) + m
      /\ \A i \in 1 .. Len(h) + m : W[i] = IF i <= Len(h) THEN h[i] ELSE Message("data", i - Len(h))
  BY WireAt
<1>3. Len(h) \in Nat /\ \A i \in 1 .. Len(h) : h[i] \in Requests
  BY HandshakeTypes, ElementOfSeq, LenProperties
<1>4. W \in Seq(Upwards)
  BY WireFields
<1>5. t \in Seq(1 .. MaxAccept) /\ client.accepted \in 0 .. MaxAccept
  BY <1>1, PairFields
<1>6. Len(t) \in Nat /\ DOMAIN t = 1 .. Len(t) /\ MaxAccept \in Nat
  BY <1>5, LenProperties, ProxyAssumption
<1>7. m = client.accepted - Len(t) /\ t = [i \in 1 .. Len(t) |-> m + i]
  BY <1>1 DEF Given, Ordered
<1> DEFINE f == SubSeq(W, Len(h) + 1, Len(W))
           s == Segments(t)
           r == Segments(all)
<1> HIDE DEF m, W, t
<1>8. /\ f \in Seq(Upwards) /\ Len(f) = m
      /\ \A i \in 1 .. m : f[i] = Message("data", i)
  <2>1. /\ f \in Seq(Upwards) /\ Len(f) = Len(W) - Len(h)
    BY <1>2, <1>3, <1>4, SplitSeq
  <2>2. \A i \in 1 .. m : f[i] = W[Len(h) + i]
    BY <1>2, <1>3
  <2> QED BY <1>2, <1>3, <2>1, <2>2
<1>9. /\ s \in Seq(Upwards) /\ Len(s) = Len(t)
      /\ \A i \in 1 .. Len(t) : s[i] = Message("data", m + i)
  <2>0. \A i \in 1 .. Len(t) : t[i] \in 1 .. MaxAccept
    BY <1>5, ElementOfSeq
  <2>1. \A i \in 1 .. Len(t) : t[i] = m + i
    BY <1>7, Zenon
  <2>2. \A i \in 1 .. Len(t) : Message("data", t[i]) \in Upwards
    BY <2>0 DEF Upwards
  <2>3. s \in [1 .. Len(t) -> Upwards]
    BY <1>6, <2>2 DEF Segments
  <2> QED BY <1>6, <2>1, <2>3 DEF Segments
<1>10. /\ r \in Seq(Upwards) /\ Len(r) = client.accepted
       /\ \A i \in 1 .. client.accepted : r[i] = Message("data", i)
  <2>1. DOMAIN all = 1 .. client.accepted /\ \A i \in 1 .. client.accepted : all[i] = i
    OBVIOUS
  <2>2. \A i \in 1 .. client.accepted : Message("data", i) \in Upwards
    BY <1>5, <1>6 DEF Upwards
  <2> HIDE DEF all
  <2>3. r = [i \in 1 .. client.accepted |-> Message("data", i)]
    BY <2>1 DEF Segments
  <2>4. r \in [1 .. client.accepted -> Upwards]
    BY <2>2, <2>3
  <2>5. \A i \in 1 .. client.accepted : r[i] = Message("data", i)
    BY <2>3
  <2>6. client.accepted \in Nat
    BY <1>5, <1>6
  <2> HIDE DEF r
  <2>7. r \in Seq(Upwards) /\ Len(r) = client.accepted
    BY <2>4, <2>6
  <2> QED BY <2>5, <2>7
<1> HIDE DEF f, s, r
<1>11. /\ f \o s \in Seq(Upwards) /\ Len(f \o s) = m + Len(t)
       /\ \A i \in 1 .. m + Len(t) : (f \o s)[i] = IF i <= m THEN f[i] ELSE s[i - m]
  <2>1. f \in Seq(Upwards) /\ s \in Seq(Upwards)
    BY <1>8, <1>9
  <2>2. /\ f \o s \in Seq(Upwards) /\ Len(f \o s) = Len(f) + Len(s)
        /\ \A i \in 1 .. Len(f) + Len(s) :
             (f \o s)[i] = IF i <= Len(f) THEN f[i] ELSE s[i - Len(f)]
    BY <2>1, ConcatProperties
  <2> QED BY <1>8, <1>9, <2>2
<1>12. \A i \in 1 .. m + Len(t) : (f \o s)[i] = Message("data", i)
  <2> TAKE i \in 1 .. m + Len(t)
  <2>1. CASE i <= m
    BY <1>2, <1>6, <1>8, <1>11, <2>1
  <2>2. CASE ~(i <= m)
    <3>1. i - m \in 1 .. Len(t) /\ m + (i - m) = i
      BY <1>2, <1>6, <2>2
    <3> QED BY <1>9, <1>11, <2>2, <3>1
  <2> QED BY <2>1, <2>2
<1>13. m + Len(t) = client.accepted
  BY <1>2, <1>5, <1>6, <1>7
<1>14. f \o s = r
  BY <1>10, <1>11, <1>12, <1>13, SeqEqual
<1>15. Len(h) \in 0 .. Len(W) /\ \A i \in 1 .. Len(h) : W[i] \in Requests
  BY <1>2, <1>3
<1> QED BY <1>1, <1>14, <1>15 DEF StreamKept, f, s, r, t

(* The wire holds the requests of a handshake once each, then payload.     *)
LEMMA OrderFromOrder ==
  ASSUME NEW h \in Handshakes, Before \in Pairs, proxy \in Proxies,
         Ordered(Before, proxy, h)
  PROVE  HandshakeOrder
<1> DEFINE m == Given(Before)
<1>1. OnWire(Before, proxy) = Wire
  BY DEF OnWire, Wire, Before
<1>2. /\ m \in 0 .. MaxAccept /\ Len(Wire) = Len(h) + m
      /\ \A i \in 1 .. Len(h) + m :
           Wire[i] = IF i <= Len(h) THEN h[i] ELSE Message("data", i - Len(h))
  BY <1>1, WireAt
<1>3. /\ Len(h) \in Nat
      /\ \A i \in 1 .. Len(h) : h[i] \in Requests
      /\ \A i, j \in 1 .. Len(h) : i # j => h[i] # h[j]
      /\ (\E i \in 1 .. Len(h) : h[i] = Connect) => h \in Done
  BY HandshakeTypes, ElementOfSeq, LenProperties
<1>4. DOMAIN Wire = 1 .. Len(h) + m
  <2>1. Wire \in Seq(Upwards)
    BY <1>1, WireFields
  <2> QED BY <1>2, <2>1, LenProperties
<1>5. MaxAccept \in Nat
  BY ProxyAssumption
<1>6. \A x : Knows(Before, proxy, x) => Learned(x)
  BY DEF Knows, Learned, Before
<1> HIDE DEF m
<1>7. \A i, j \in DOMAIN Wire : i # j => Wire[i] # Wire[j]
  <2> TAKE i, j \in DOMAIN Wire
  <2> HAVE i # j
  <2>1. CASE i <= Len(h) /\ j <= Len(h)
    BY <1>2, <1>3, <1>4, <2>1
  <2>2. CASE i > Len(h) /\ j > Len(h)
    BY <1>2, <1>3, <1>4, <1>5, <2>2 DEF Message
  <2>3. CASE i <= Len(h) /\ j > Len(h)
    <3>1. Wire[i].kind # "data" /\ Wire[j].kind = "data"
      BY <1>2, <1>3, <1>4, <1>5, <2>3, Kinds DEF Message
    <3> QED BY <3>1
  <2>4. CASE i > Len(h) /\ j <= Len(h)
    <3>1. Wire[j].kind # "data" /\ Wire[i].kind = "data"
      BY <1>2, <1>3, <1>4, <1>5, <2>4, Kinds DEF Message
    <3> QED BY <3>1
  <2>5. i \in Int /\ j \in Int
    BY <1>4
  <2> QED BY <1>3, <2>1, <2>2, <2>3, <2>4, <2>5
<1>8. \A i, j \in DOMAIN Wire : i < j /\ Wire[i].kind = "data" => Wire[j].kind = "data"
  <2> TAKE i, j \in DOMAIN Wire
  <2> HAVE i < j /\ Wire[i].kind = "data"
  <2>1. ~(i <= Len(h))
    BY <1>2, <1>3, <1>4, Kinds
  <2>2. ~(j <= Len(h))
    BY <1>3, <1>4, <1>5, <2>1, <1>2
  <2> QED BY <1>2, <1>4, <2>2 DEF Message
<1>9. ASSUME Connect \in Range(Wire)
      PROVE  Learned(Message("method", VERIFY_NONE)) \/ Learned(Message("verified", 0))
  <2>1. PICK i \in 1 .. Len(h) + m : Wire[i] = Connect
    BY <1>4, <1>9 DEF Range
  <2>2. i <= Len(h)
    <3>1. Connect.kind # "data"
      BY Kinds
    <3> QED BY <1>2, <2>1, <3>1 DEF Message
  <2>3. h \in Done
    BY <1>2, <1>3, <2>1, <2>2
  <2> QED BY <1>6, <2>3 DEF Ordered
<1>10. ASSUME Payload(Wire) # {} PROVE Learned(Connected)
  <2>1. PICK i \in 1 .. Len(h) + m : Wire[i].kind = "data"
    BY <1>4, <1>10 DEF Payload
  <2>2. ~(i <= Len(h))
    BY <1>2, <1>3, <2>1, Kinds
  <2>3. m > 0
    BY <1>2, <1>3, <1>5, <2>1, <2>2
  <2> QED BY <1>6, <2>3 DEF Ordered, m
<1> QED BY <1>7, <1>8, <1>9, <1>10 DEF HandshakeOrder, Connect, Connected

(* Outside the end states, what the client has is what was decrypted.      *)
LEMMA ReachesFromGood ==
  ASSUME Good(Before, proxy), "speaksFirst" \notin Env
  PROVE  PayloadReachesClient
BY DEF Good, Handed, Before, PayloadReachesClient, EndStates

-----------------------------------------------------------------------------
(* Functions that change nothing but the registrations                     *)

Quiet(w, v) ==
  /\ w \in Pairs /\ w.client = v.client /\ w.loop = v.loop
  /\ w.s5.mS5State = v.s5.mS5State /\ w.s5.mAlive = v.s5.mAlive
  /\ w.s5.mSocket = v.s5.mSocket
  /\ w.s5.mSocks5 = v.s5.mSocks5 /\ w.s5.mOutQueue = v.s5.mOutQueue
  /\ w.s5.mBufferedSize = v.s5.mBufferedSize
  /\ w.s5.received = v.s5.received /\ w.s5.used = v.s5.used

(* A pair is as good with other registrations.                             *)
LEMMA QuietGood ==
  ASSUME NEW p, NEW v, Good(v, p), NEW w, Quiet(w, v)
  PROVE  Good(w, p)
<1>1. Exact(w) /\ Over(w) /\ Counted(w, p)
  BY DEF Good, Quiet, Exact, Over, Counted
<1>2. \A m : Knows(v, p, m) <=> Knows(w, p, m)
  BY DEF Knows, Quiet
<1>3. OnWire(w, p) = OnWire(v, p) /\ Given(w) = Given(v)
  BY DEF OnWire, Given, Quiet
<1>4. \A h : Ordered(v, p, h) => Ordered(w, p, h)
  BY <1>2, <1>3 DEF Quiet, Ordered
<1>5. InOrder(w, p)
  BY <1>4 DEF Good, InOrder
<1>6. Handed(v, p) => Handed(w, p)
  BY DEF Quiet, Handed
<1> QED BY <1>1, <1>5, <1>6 DEF Good, Quiet

(* The tunnel's requests and pauses are of this kind.                      *)
LEMMA QuietFunctions ==
  ASSUME NEW v \in Pairs
  PROVE  /\ Quiet(v, v) /\ Quiet(wantWrite(v), v) /\ Quiet(requestSendData(v), v)
         /\ Quiet(pauseSendData(v), v) /\ Quiet(pauseReceiveData(v), v)
         /\ Quiet(resumeReceiveData(v), v)
         /\ \A b \in BOOLEAN : Quiet([v EXCEPT !.s5.wr = b], v)
<1>1. \A b \in BOOLEAN : Quiet([v EXCEPT !.s5.wr = b], v)
  BY DEF Quiet, Pairs, Tunnels
<1>2. \A b \in BOOLEAN : Quiet([v EXCEPT !.s5.rd = b], v)
  BY DEF Quiet, Pairs, Tunnels
<1>3. Quiet(v, v)
  BY DEF Quiet
<1>4. Quiet(wantWrite(v), v)
  BY <1>1, PairFields DEF wantWrite
<1>5. Quiet(requestSendData(v), v)
  BY <1>3, <1>4 DEF requestSendData
<1>6. Quiet(pauseSendData(v), v)
  BY <1>1, <1>3 DEF pauseSendData
<1>7. Quiet(pauseReceiveData(v), v) /\ Quiet(resumeReceiveData(v), v)
  BY <1>2, <1>3 DEF pauseReceiveData, resumeReceiveData
<1> QED BY <1>1, <1>3, <1>4, <1>5, <1>6, <1>7

(* The tunnel takes a number of segments between none and all.             *)
LEMMA TakenRange ==
  ASSUME NEW v, NEW n \in Nat
  PROVE  taken(v, n) \in 0 .. n
<1> DEFINE S == {n} \cup {i \in 0 .. n : getAvailableBufferSize(v, encrypt(i)) < 1}
<1>1. S \subseteq 0 .. n /\ S # {}
  OBVIOUS
<1>2. taken(v, n) = Min(S)
  BY DEF taken
<1> HIDE DEF S
<1>3. S \subseteq Nat
  BY <1>1
<1>4. Min(S) \in S
  BY <1>1, <1>3, MinOfNats
<1> QED BY <1>1, <1>2, <1>4

-----------------------------------------------------------------------------
(* sendData                                                                *)

(* What changes when the tunnel takes n segments.                          *)
LEMMA SendFields ==
  ASSUME NEW v \in Pairs, NEW n \in 1 .. Len(v.client.pending)
  PROVE  LET w   == sendData(v, n)
             put == Segments(SubSeq(v.client.pending, 1, n))
         IN  /\ w \in Pairs /\ w.loop = v.loop
             /\ w.s5.mS5State = v.s5.mS5State /\ w.s5.mAlive = v.s5.mAlive
             /\ w.s5.mSocket = v.s5.mSocket
             /\ w.s5.mSocks5 = v.s5.mSocks5
             /\ w.s5.mOutQueue.q = v.s5.mOutQueue.q \o put
             /\ w.s5.mOutQueue.off = v.s5.mOutQueue.off
             /\ w.s5.mBufferedSize = v.s5.mBufferedSize + 2 * n
             /\ w.s5.received = v.s5.received /\ w.s5.used = v.s5.used
             /\ w.client.pending
                  = SubSeq(v.client.pending, n + 1, Len(v.client.pending))
             /\ w.client.kind = v.client.kind /\ w.client.mAlive = v.client.mAlive
             /\ w.client.accepted = v.client.accepted /\ w.client.back = v.client.back
             /\ put \in Seq(Upwards \ Requests) /\ Len(put) = n
             /\ \A i \in 1 .. n : put[i] = Message("data", v.client.pending[i])
<1> DEFINE t    == v.client.pending
           put  == Segments(SubSeq(t, 1, n))
           rest == SubSeq(t, n + 1, Len(t))
           u    == [v EXCEPT !.s5.mOutQueue.q = @ \o put,
                             !.s5.mBufferedSize = @ + encrypt(n),
                             !.client.pending = rest]
<1>1. t \in Seq(1 .. MaxAccept) /\ Len(t) \in Nat /\ MaxAccept \in Nat
  BY PairFields, LenProperties, ProxyAssumption
<1>2. n \in Nat /\ n \in 0 .. Len(t) /\ n # 0
  BY <1>1
<1>3. /\ SubSeq(t, 1, n) \in Seq(1 .. MaxAccept) /\ Len(SubSeq(t, 1, n)) = n
      /\ rest \in Seq(1 .. MaxAccept)
  BY <1>1, <1>2, SplitSeq
<1>4. \A i \in 1 .. n : SubSeq(t, 1, n)[i] = t[i] /\ t[i] \in 1 .. MaxAccept
  <2>1. \A i \in 1 .. n : t[i] \in 1 .. MaxAccept
    BY <1>1, <1>2, ElementOfSeq
  <2>2. \A i \in 1 .. n : SubSeq(t, 1, n)[i] = t[i]
    BY <1>1, <1>2
  <2> QED BY <2>1, <2>2
<1>5. DOMAIN SubSeq(t, 1, n) = 1 .. n
  BY <1>3, LenProperties
<1>6. put = [i \in 1 .. n |-> Message("data", t[i])]
  BY <1>4, <1>5 DEF Segments
<1>7. \A i \in 1 .. n : Message("data", t[i]) \in Upwards \ Requests
  BY <1>4 DEF Upwards, Requests, Message
<1>8. put \in Seq(Upwards \ Requests) /\ Len(put) = n
      /\ \A i \in 1 .. n : put[i] = Message("data", t[i])
  <2>1. put \in [1 .. n -> Upwards \ Requests]
    BY <1>6, <1>7
  <2>2. \A i \in 1 .. n : put[i] = Message("data", t[i])
    BY <1>6
  <2> HIDE DEF put
  <2>3. put \in Seq(Upwards \ Requests) /\ Len(put) = n
    BY <1>2, <2>1
  <2> QED BY <2>2, <2>3
<1>9. v.s5.mOutQueue.q \o put \in Seq(Upwards \ Requests)
  <2>1. v.s5.mOutQueue.q \in Seq(Upwards \ Requests)
    BY PairFields DEF QueueType
  <2> QED BY <1>8, <2>1, ConcatProperties
<1>10. encrypt(n) = 2 * n /\ encrypt(n) \in Nat
  BY <1>2 DEF encrypt, Parcel
<1> DEFINE out  == [v.s5.mOutQueue EXCEPT !.q = @ \o put]
           size == v.s5.mBufferedSize + encrypt(n)
           s    == [v.s5 EXCEPT !.mOutQueue = out, !.mBufferedSize = size]
<1>11. sendData(v, n) = wantWrite(u)
  BY <1>2 DEF sendData
<1> HIDE DEF put, rest
<1>12. /\ out \in QueueType(Upwards \ Requests) /\ out.q = v.s5.mOutQueue.q \o put
       /\ out.off = v.s5.mOutQueue.off
       /\ size \in Nat /\ size = v.s5.mBufferedSize + 2 * n
  <2>1. v.s5.mOutQueue \in QueueType(Upwards \ Requests) /\ v.s5.mBufferedSize \in Nat
    BY PairFields
  <2>2. /\ out \in QueueType(Upwards \ Requests) /\ out.q = v.s5.mOutQueue.q \o put
        /\ out.off = v.s5.mOutQueue.off
    BY <1>9, <2>1 DEF QueueType
  <2>3. size \in Nat /\ size = v.s5.mBufferedSize + 2 * n
    BY <1>10, <2>1
  <2> QED BY <2>2, <2>3
<1>13. u = [v EXCEPT !.s5 = s, !.client.pending = rest]
  BY DEF Pairs, Tunnels
<1> HIDE DEF out, size, u
<1>14. /\ s \in Tunnels /\ s.mOutQueue = out /\ s.mBufferedSize = size
       /\ s.mS5State = v.s5.mS5State /\ s.mAlive = v.s5.mAlive
       /\ s.mSocket = v.s5.mSocket /\ s.mSocks5 = v.s5.mSocks5
       /\ s.received = v.s5.received /\ s.used = v.s5.used
  BY <1>12, PairFields DEF Tunnels
<1> HIDE DEF s
<1>15. u.s5 = s /\ u.loop = v.loop /\ u.client = [v.client EXCEPT !.pending = rest]
  BY <1>13 DEF Pairs
<1>16. /\ u.client \in ClientType
       /\ u.client.pending = rest /\ u.client.kind = v.client.kind
       /\ u.client.mAlive = v.client.mAlive
       /\ u.client.accepted = v.client.accepted /\ u.client.back = v.client.back
  BY <1>3, <1>15, PairFields DEF ClientType
<1>17. u \in Pairs
  <2>1. u = [s5 |-> u.s5, client |-> u.client, loop |-> u.loop]
    BY <1>13 DEF Pairs
  <2> QED BY <1>14, <1>15, <1>16, <2>1, PairFields DEF Pairs
<1>18. Quiet(wantWrite(u), u)
  BY <1>17, QuietFunctions
<1> QED BY <1>8, <1>11, <1>12, <1>14, <1>15, <1>16, <1>17, <1>18 DEF Quiet, put, rest

(* The next n segments behind the first m are the first m + n.             *)
LEMMA DataAdded ==
  ASSUME NEW m \in Nat, NEW n \in Nat, m + n <= MaxAccept, NEW put \in Seq(Upwards),
         Len(put) = n, \A i \in 1 .. n : put[i] = Message("data", m + i)
  PROVE  Data(m) \o put = Data(m + n)
<1> DEFINE d == Data(m)
           e == Data(m + n)
<1>1. MaxAccept \in Nat
  BY ProxyAssumption
<1>2. /\ d \in Seq(Upwards) /\ Len(d) = m
      /\ \A i \in 1 .. m : d[i] = Message("data", i)
  BY <1>1, DataFields
<1>3. /\ e \in Seq(Upwards) /\ Len(e) = m + n
      /\ \A i \in 1 .. m + n : e[i] = Message("data", i)
  <2>1. m + n \in 0 .. MaxAccept
    BY <1>1
  <2> QED BY <2>1, DataFields
<1> HIDE DEF d, e
<1>4. /\ d \o put \in Seq(Upwards) /\ Len(d \o put) = m + n
      /\ \A i \in 1 .. m + n : (d \o put)[i] = IF i <= m THEN d[i] ELSE put[i - m]
  BY <1>2, ConcatProperties
<1>5. \A i \in 1 .. m + n : (d \o put)[i] = e[i]
  <2> TAKE i \in 1 .. m + n
  <2>1. CASE i <= m
    BY <1>2, <1>3, <1>4, <2>1
  <2>2. CASE ~(i <= m)
    <3>1. i - m \in 1 .. n /\ m + (i - m) = i
      BY <2>2
    <3> QED BY <1>3, <1>4, <2>2, <3>1
  <2> QED BY <2>1, <2>2
<1>6. d \o put = e
  BY <1>3, <1>4, <1>5, SeqEqual
<1> QED BY <1>6 DEF d, e

(* Segments that the tunnel takes are on the wire behind those before them,*)
(* and the client holds the rest.                                          *)
LEMMA SendGood ==
  ASSUME NEW p \in Proxies, NEW v, Good(v, p), v.s5.mS5State = "S_TRANS",
         NEW n \in 1 .. Len(v.client.pending)
  PROVE  Good(sendData(v, n), p)
<1> DEFINE w   == sendData(v, n)
           t   == v.client.pending
           put == Segments(SubSeq(t, 1, n))
           m   == Given(v)
           q   == v.s5.mOutQueue.q
           a   == p.up \o v.s5.mSocks5.q
<1>1. v \in Pairs
  BY DEF Good
<1>2. /\ w \in Pairs /\ w.loop = v.loop
      /\ w.s5.mS5State = v.s5.mS5State /\ w.s5.mAlive = v.s5.mAlive
      /\ w.s5.mSocket = v.s5.mSocket
      /\ w.s5.mSocks5 = v.s5.mSocks5
      /\ w.s5.mOutQueue.q = q \o put
      /\ w.s5.mOutQueue.off = v.s5.mOutQueue.off
      /\ w.s5.mBufferedSize = v.s5.mBufferedSize + 2 * n
      /\ w.s5.received = v.s5.received /\ w.s5.used = v.s5.used
      /\ w.client.pending = SubSeq(t, n + 1, Len(t))
      /\ w.client.accepted = v.client.accepted /\ w.client.back = v.client.back
      /\ put \in Seq(Upwards \ Requests) /\ Len(put) = n
      /\ \A i \in 1 .. n : put[i] = Message("data", t[i])
  BY <1>1, SendFields
<1>3. PICK h \in Handshakes : Ordered(v, p, h)
  BY DEF Good, InOrder
<1>4. /\ t \in Seq(1 .. MaxAccept) /\ Len(t) \in Nat /\ n \in 0 .. Len(t)
      /\ v.client.accepted \in Nat /\ v.client.accepted <= MaxAccept /\ MaxAccept \in Nat
  BY <1>1, PairFields, LenProperties, ProxyAssumption
<1>5. m \in Nat /\ m = v.client.accepted - Len(t)
  <2>1. m \in 0 .. MaxAccept
    BY <1>1, <1>3, WireAt
  <2> QED BY <1>4, <2>1 DEF Given
<1>6. t = [i \in 1 .. Len(t) |-> m + i]
  BY <1>3 DEF Ordered
<1>7. q \in Seq(Upwards) /\ q \in Seq(Upwards \ Requests) /\ v.s5.mOutQueue.off \in {0, 1}
  BY <1>1, WireFields
<1>8. OnWire(v, p) = a \o q /\ OnWire(v, p) = h \o Data(m) /\ OnWire(w, p) = a \o (q \o put)
  BY <1>2, <1>3 DEF OnWire, Ordered
<1>9. a \in Seq(Upwards)
  BY <1>1, WireFields, ConcatProperties
<1>10. h \in Seq(Upwards)
  BY HandshakeTypes
<1>11. Given(w) = v.client.accepted - Len(w.client.pending)
  BY <1>2 DEF Given
<1> HIDE DEF w, t, put, m, q, a
<1>12. put \in Seq(Upwards)
  BY <1>2, SeqMonotonic
<1>13. \A i \in 1 .. n : put[i] = Message("data", m + i)
  <2>1. \A i \in 1 .. Len(t) : t[i] = m + i
    BY <1>6, Zenon
  <2> TAKE i \in 1 .. n
  <2>2. i \in 1 .. Len(t)
    BY <1>4
  <2> QED BY <1>2, <2>1, <2>2
<1>14. m + n <= MaxAccept /\ n \in Nat
  BY <1>4, <1>5
<1>15. Data(m) \o put = Data(m + n)
  BY <1>2, <1>5, <1>12, <1>13, <1>14, DataAdded
<1>16. /\ w.client.pending \in Seq(1 .. MaxAccept) /\ Len(w.client.pending) = Len(t) - n
       /\ \A i \in 1 .. Len(t) - n : w.client.pending[i] = m + n + i
  <2>1. /\ SubSeq(t, n + 1, Len(t)) \in Seq(1 .. MaxAccept)
        /\ Len(SubSeq(t, n + 1, Len(t))) = Len(t) - n
    BY <1>4, SplitSeq
  <2>2. \A i \in 1 .. Len(t) - n : SubSeq(t, n + 1, Len(t))[i] = t[n + i]
    BY <1>4
  <2>3. \A i \in 1 .. Len(t) : t[i] = m + i
    BY <1>6, Zenon
  <2>4. \A i \in 1 .. Len(t) - n : t[n + i] = m + n + i
    BY <1>4, <1>5, <2>3
  <2> QED BY <1>2, <2>1, <2>2, <2>4
<1>17. Given(w) = m + n
  BY <1>4, <1>5, <1>11, <1>16
<1>18. w.client.pending = [i \in 1 .. Len(w.client.pending) |-> Given(w) + i]
  <2>1. DOMAIN w.client.pending = 1 .. Len(t) - n
    BY <1>16, LenProperties
  <2>2. w.client.pending = [i \in 1 .. Len(t) - n |-> w.client.pending[i]]
    BY <1>16, <2>1, LenProperties
  <2>3. w.client.pending = [i \in 1 .. Len(t) - n |-> m + n + i]
    BY <1>16, <2>2
  <2> QED BY <1>16, <1>17, <2>3
<1>19. OnWire(w, p) = h \o Data(m + n)
  <2>1. OnWire(w, p) = OnWire(v, p) \o put
    <3>1. (a \o q) \o put = a \o (q \o put)
      BY <1>7, <1>9, <1>12, ConcatAssociative, SMTT(30)
    <3> QED BY <1>8, <3>1
  <2>2. Data(m) \in Seq(Upwards)
    <3>1. m \in 0 .. MaxAccept
      BY <1>4, <1>5, <1>14
    <3> QED BY <3>1, DataFields
  <2>3. (h \o Data(m)) \o put = h \o (Data(m) \o put)
    BY <1>10, <1>12, <2>2, ConcatAssociative, SMTT(30)
  <2> QED BY <1>8, <1>15, <2>1, <2>3
<1>20. \A x : Knows(v, p, x) => Knows(w, p, x)
  BY <1>2 DEF Knows
<1>21. Ordered(w, p, h)
  <2>1. m + n >= 0
    BY <1>5, <1>14
  <2>2. Knows(w, p, Connected)
    BY <1>3, <1>20 DEF Ordered
  <2> QED BY <1>2, <1>3, <1>17, <1>18, <1>19, <1>20, <2>1, <2>2 DEF Ordered, EarlyStates
<1>22. Exact(w)
  <2>1. /\ v.s5.mBufferedSize = Units(v.s5.mSocks5) + Units(v.s5.mOutQueue)
        /\ Units(v.s5.mSocks5) >= 0 /\ Units(v.s5.mOutQueue) >= 0
    BY DEF Good, Exact
  <2>2. Units(v.s5.mOutQueue) = 2 * Len(q) - v.s5.mOutQueue.off
    BY DEF Units, Parcel, q
  <2>3. Units(w.s5.mOutQueue) = 2 * Len(q \o put) - v.s5.mOutQueue.off
    BY <1>2 DEF Units, Parcel
  <2>4. Len(q \o put) = Len(q) + n /\ Len(q) \in Nat
    BY <1>2, <1>7, <1>12, ConcatProperties, LenProperties
  <2>5. Units(v.s5.mSocks5) = 2 * Len(v.s5.mSocks5.q) - v.s5.mSocks5.off
        /\ Len(v.s5.mSocks5.q) \in Nat /\ v.s5.mSocks5.off \in {0, 1}
    BY <1>1, WireFields, LenProperties DEF Units, Parcel
  <2>6. Units(w.s5.mSocks5) = Units(v.s5.mSocks5)
    BY <1>2
  <2>7. Units(v.s5.mSocks5) \in Int
    BY <2>5
  <2>8. Units(w.s5.mOutQueue) = Units(v.s5.mOutQueue) + 2 * n /\ Units(v.s5.mOutQueue) \in Int
    BY <1>7, <1>14, <2>2, <2>3, <2>4
  <2> QED BY <1>2, <1>14, <2>1, <2>6, <2>7, <2>8 DEF Exact
<1>23. Over(w) /\ Counted(w, p)
  BY <1>2 DEF Good, Over, Counted
<1>24. Handed(v, p) => Handed(w, p)
  BY <1>2 DEF Handed
<1> QED BY <1>2, <1>21, <1>22, <1>23, <1>24 DEF Good, InOrder, w

(* The client's part is good in S_TRANS, whoever the client is; only a     *)
(* UDPSession may begin to spin.                                           *)
LEMMA onTunnelWritableGood ==
  ASSUME NEW p \in Proxies, NEW v, Good(v, p), v.s5.mS5State = "S_TRANS"
  PROVE  /\ Good(onTunnelWritable(v), p)
         /\ onTunnelWritable(v).s5.mS5State = "S_TRANS"
<1> DEFINE L == Len(v.client.pending)
           n == taken(v, L)
<1>1. v \in Pairs
  BY DEF Good
<1>2. L \in Nat /\ v.client.pending \in Seq(1 .. MaxAccept)
  BY <1>1, PairFields, LenProperties
<1>3. n \in 0 .. L
  BY <1>2, TakenRange
<1>4. Quiet(pauseSendData(v), v) /\ Quiet(v, v)
  BY <1>1, QuietFunctions
<1>5. Good(pauseSendData(v), p) /\ pauseSendData(v).s5.mS5State = "S_TRANS"
  BY <1>4, QuietGood DEF Quiet
<1>6. Good(sendData(v, n), p) /\ sendData(v, n).s5.mS5State = "S_TRANS"
  <2>1. CASE n = 0
    BY <2>1 DEF sendData
  <2>2. CASE n # 0
    <3>1. n \in 1 .. L
      BY <1>2, <1>3, <2>2
    <3> QED BY <1>1, <3>1, SendGood, SendFields
  <2> QED BY <2>1, <2>2
<1>7. Good(tcpWritable(v), p) /\ tcpWritable(v).s5.mS5State = "S_TRANS"
  BY <1>5, <1>6 DEF tcpWritable
<1>8. Good(udpWritable(v), p) /\ udpWritable(v).s5.mS5State = "S_TRANS"
  <2> DEFINE w == sendData(v, n)
             l == IF n < L THEN "spin" ELSE v.loop
             u == [w EXCEPT !.loop = l]
  <2>1. w \in Pairs /\ l \in Loops
    BY <1>1, <1>6, PairFields DEF Good, Loops
  <2> HIDE DEF w, l
  <2>2. u \in Pairs /\ u.s5 = w.s5 /\ u.client = w.client /\ u.loop = l
    BY <2>1 DEF Pairs
  <2> HIDE DEF u
  <2>3. Exact(u) /\ Over(u) /\ Counted(u, p)
    BY <1>6, <2>2 DEF w, Good, Exact, Over, Counted, EndStates
  <2>4. \A m : Knows(w, p, m) => Knows(u, p, m)
    BY <2>2 DEF Knows
  <2>5. OnWire(u, p) = OnWire(w, p) /\ Given(u) = Given(w)
    BY <2>2 DEF OnWire, Given
  <2>6. \A h : Ordered(w, p, h) => Ordered(u, p, h)
    BY <2>2, <2>4, <2>5 DEF Ordered
  <2>7. InOrder(u, p)
    BY <1>6, <2>6 DEF w, Good, InOrder
  <2>8. Handed(w, p) => Handed(u, p)
    BY <2>2 DEF Handed
  <2>9. Good(u, p) /\ u.s5.mS5State = "S_TRANS"
    BY <1>6, <2>2, <2>3, <2>7, <2>8 DEF w, Good
  <2>10. udpWritable(v) = IF v.client.pending = <<>> THEN pauseSendData(v) ELSE u
    BY DEF udpWritable, u, w, l
  <2> QED BY <1>5, <2>9, <2>10
<1> QED BY <1>7, <1>8 DEF onTunnelWritable

-----------------------------------------------------------------------------
(* Steps that leave the queues alone                                       *)

(* What is queued stays as it is; the state stays too or is an end state.  *)
SameQueues(w, v) ==
  /\ w.s5.mSocks5 = v.s5.mSocks5 /\ w.s5.mOutQueue = v.s5.mOutQueue
  /\ w.s5.mBufferedSize = v.s5.mBufferedSize
  /\ w.client.accepted = v.client.accepted /\ w.client.pending = v.client.pending
  /\ w.s5.mS5State = v.s5.mS5State \/ w.s5.mS5State \in EndStates

(* A pair with the same queues is exact and in order where the first was.  *)
LEMMA Carried ==
  ASSUME NEW p, NEW v \in Pairs, NEW w \in Pairs, SameQueues(w, v),
         w.s5.used >= v.s5.used, Exact(v), InOrder(v, p)
  PROVE  Exact(w) /\ InOrder(w, p)
<1>1. v.s5.used \in Nat /\ w.s5.used \in Nat
  BY PairFields
<1>2. \A m : Knows(v, p, m) => Knows(w, p, m)
  BY <1>1 DEF Knows
<1>3. OnWire(w, p) = OnWire(v, p) /\ Given(w) = Given(v)
  BY DEF OnWire, Given, SameQueues
<1>4. PICK h \in Handshakes : Ordered(v, p, h)
  BY DEF InOrder
<1>5. CASE w.s5.mS5State = v.s5.mS5State
  BY <1>2, <1>3, <1>4, <1>5 DEF SameQueues, Ordered, InOrder, Exact
<1>6. CASE w.s5.mS5State \in EndStates
  <2>1. Stage(w.s5.mS5State) = Handshakes
    BY <1>6 DEF Stage, EndStates
  <2>2. w.s5.mS5State \notin EarlyStates /\ w.s5.mS5State # "S_TRANS"
    BY <1>6 DEF EarlyStates, EndStates
  <2>3. Ordered(w, p, h)
    BY <1>2, <1>3, <1>4, <2>1, <2>2 DEF SameQueues, Ordered
  <2> QED BY <2>3 DEF InOrder, SameQueues, Exact
<1> QED BY <1>5, <1>6 DEF SameQueues

(* The updates these functions are made of, field by field.                *)
LEMMA StateFields ==
  ASSUME NEW v \in Pairs, NEW state \in S5States
  PROVE  LET w == [v EXCEPT !.s5.mS5State = state]
         IN  /\ w \in Pairs /\ w.loop = v.loop /\ w.client = v.client
             /\ w.s5.mS5State = state
             /\ w.s5.mAlive = v.s5.mAlive /\ w.s5.mSocket = v.s5.mSocket
             /\ w.s5.mSocks5 = v.s5.mSocks5 /\ w.s5.mOutQueue = v.s5.mOutQueue
             /\ w.s5.mBufferedSize = v.s5.mBufferedSize
             /\ w.s5.used = v.s5.used /\ w.s5.received = v.s5.received
<1> DEFINE s == [v.s5 EXCEPT !.mS5State = state]
           w == [v EXCEPT !.s5.mS5State = state]
<1>1. /\ s \in Tunnels /\ s.mS5State = state
      /\ s.mAlive = v.s5.mAlive /\ s.mSocket = v.s5.mSocket
      /\ s.mSocks5 = v.s5.mSocks5 /\ s.mOutQueue = v.s5.mOutQueue
      /\ s.mBufferedSize = v.s5.mBufferedSize
      /\ s.used = v.s5.used /\ s.received = v.s5.received
  BY PairFields DEF Tunnels
<1>2. w = [v EXCEPT !.s5 = s]
  BY DEF Pairs
<1> HIDE DEF s, w
<1>3. w \in Pairs /\ w.s5 = s /\ w.client = v.client /\ w.loop = v.loop
  BY <1>1, <1>2 DEF Pairs
<1> QED BY <1>1, <1>3 DEF w

(* Closing the client.                                                     *)
LEMMA AliveFields ==
  ASSUME NEW v \in Pairs, NEW a \in BOOLEAN
  PROVE  LET w == [v EXCEPT !.client.mAlive = a]
         IN  /\ w \in Pairs /\ w.loop = v.loop /\ w.s5 = v.s5
             /\ w.client.accepted = v.client.accepted
             /\ w.client.pending = v.client.pending /\ w.client.back = v.client.back
<1> DEFINE c == [v.client EXCEPT !.mAlive = a]
           w == [v EXCEPT !.client.mAlive = a]
<1>1. /\ c \in ClientType /\ c.accepted = v.client.accepted
      /\ c.pending = v.client.pending /\ c.back = v.client.back
  BY PairFields DEF ClientType
<1>2. w = [v EXCEPT !.client = c]
  BY DEF Pairs
<1> HIDE DEF c, w
<1>3. w \in Pairs /\ w.s5 = v.s5 /\ w.client = c /\ w.loop = v.loop
  BY <1>1, <1>2 DEF Pairs
<1> QED BY <1>1, <1>3 DEF w

(* Destroying the tunnel.                                                  *)
LEMMA DestroyFields ==
  ASSUME NEW v \in Pairs
  PROVE  LET w == destroyTunnel(v)
         IN  /\ w \in Pairs /\ w.loop = v.loop /\ w.client = v.client
             /\ ~w.s5.mAlive /\ ~w.s5.mSocket
             /\ w.s5.mS5State = v.s5.mS5State
             /\ w.s5.mSocks5 = v.s5.mSocks5 /\ w.s5.mOutQueue = v.s5.mOutQueue
             /\ w.s5.mBufferedSize = v.s5.mBufferedSize
             /\ w.s5.used = v.s5.used /\ w.s5.received = v.s5.received
<1> DEFINE s == [v.s5 EXCEPT !.mAlive = FALSE, !.mSocket = FALSE, !.rd = FALSE, !.wr = FALSE]
           w == destroyTunnel(v)
<1>1. /\ s \in Tunnels /\ ~s.mAlive /\ ~s.mSocket
      /\ s.mS5State = v.s5.mS5State /\ s.mSocks5 = v.s5.mSocks5
      /\ s.mOutQueue = v.s5.mOutQueue /\ s.mBufferedSize = v.s5.mBufferedSize
      /\ s.used = v.s5.used /\ s.received = v.s5.received
  BY PairFields DEF Tunnels
<1>2. w = [v EXCEPT !.s5 = s]
  BY DEF Pairs, destroyTunnel
<1> HIDE DEF s, w
<1>3. w \in Pairs /\ w.s5 = s /\ w.client = v.client /\ w.loop = v.loop
  BY <1>1, <1>2 DEF Pairs
<1> QED BY <1>1, <1>3 DEF w

(* What switchS5State makes of a tunnel that ends.                         *)
LEMMA EndFields ==
  ASSUME NEW v \in Pairs, NEW state \in EndStates, NEW stays \in BOOLEAN
  PROVE  LET w == destroyTunnel(onTunnelDisconnected([v EXCEPT !.s5.mS5State = state], stays))
         IN  /\ w \in Pairs /\ w.loop = v.loop
             /\ ~w.s5.mAlive /\ ~w.s5.mSocket /\ w.s5.mS5State = state
             /\ SameQueues(w, v) /\ w.client.back = v.client.back
             /\ w.s5.used = v.s5.used /\ w.s5.received = v.s5.received
<1> DEFINE u == [v EXCEPT !.s5.mS5State = state]
           a == stays /\ u.client.kind = "TCP" /\ u.client.mAlive
           x == [u EXCEPT !.client.mAlive = a]
<1>1. state \in S5States
  BY DEF EndStates, S5States
<1>2. /\ u \in Pairs /\ u.loop = v.loop /\ u.client = v.client
      /\ u.s5.mS5State = state
      /\ u.s5.mSocks5 = v.s5.mSocks5 /\ u.s5.mOutQueue = v.s5.mOutQueue
      /\ u.s5.mBufferedSize = v.s5.mBufferedSize
      /\ u.s5.used = v.s5.used /\ u.s5.received = v.s5.received
  BY <1>1, StateFields
<1>3. onTunnelDisconnected(u, stays) = x
  BY DEF onTunnelDisconnected
<1>4. a \in BOOLEAN
  OBVIOUS
<1> HIDE DEF u, a
<1>5. /\ x \in Pairs /\ x.loop = u.loop /\ x.s5 = u.s5
      /\ x.client.accepted = u.client.accepted
      /\ x.client.pending = u.client.pending /\ x.client.back = u.client.back
  BY <1>2, <1>4, AliveFields
<1> HIDE DEF x
<1>6. /\ destroyTunnel(x) \in Pairs /\ destroyTunnel(x).loop = x.loop
      /\ destroyTunnel(x).client = x.client
      /\ ~destroyTunnel(x).s5.mAlive /\ ~destroyTunnel(x).s5.mSocket
      /\ destroyTunnel(x).s5.mS5State = x.s5.mS5State
      /\ destroyTunnel(x).s5.mSocks5 = x.s5.mSocks5
      /\ destroyTunnel(x).s5.mOutQueue = x.s5.mOutQueue
      /\ destroyTunnel(x).s5.mBufferedSize = x.s5.mBufferedSize
      /\ destroyTunnel(x).s5.used = x.s5.used
      /\ destroyTunnel(x).s5.received = x.s5.received
  BY <1>5, DestroyFields
<1> QED BY <1>2, <1>3, <1>5, <1>6 DEF SameQueues, u

(* A tunnel that ends is as good as before.                                *)
LEMMA EndGood ==
  ASSUME NEW p, NEW v, Good(v, p), NEW state \in EndStates, NEW stays \in BOOLEAN,
         state = "S_END" => v.loop # "decrypt"
  PROVE  Good(switchS5State(v, state, stays), p)
<1> DEFINE w == destroyTunnel(onTunnelDisconnected([v EXCEPT !.s5.mS5State = state], stays))
<1>1. v \in Pairs
  BY DEF Good
<1>2. /\ w \in Pairs /\ w.loop = v.loop
      /\ ~w.s5.mAlive /\ ~w.s5.mSocket /\ w.s5.mS5State = state
      /\ SameQueues(w, v) /\ w.client.back = v.client.back
      /\ w.s5.used = v.s5.used /\ w.s5.received = v.s5.received
  BY <1>1, EndFields
<1>3. switchS5State(v, state, stays) = IF v.s5.mS5State = state THEN v ELSE w
  BY DEF switchS5State, EndStates
<1> HIDE DEF w
<1>4. w.s5.used >= v.s5.used
  BY <1>1, <1>2, PairFields
<1>5. Exact(w) /\ InOrder(w, p)
  BY <1>1, <1>2, <1>4, Carried DEF Good
<1>6. Over(w) /\ Counted(w, p)
  BY <1>2 DEF Good, Over, Counted
<1>7. Handed(w, p)
  BY <1>2 DEF Handed, EarlyStates, EndStates
<1>8. Good(w, p)
  BY <1>2, <1>5, <1>6, <1>7 DEF Good
<1> QED BY <1>3, <1>8

-----------------------------------------------------------------------------
(* The handshake                                                           *)

(* What changes when a request is queued.                                  *)
LEMMA RequestFields ==
  ASSUME NEW v \in Pairs, NEW m \in Requests
  PROVE  LET w == encryptAndQueue(v, "mSocks5", m)
         IN  /\ w \in Pairs /\ w.loop = v.loop /\ w.client = v.client
             /\ w.s5.mS5State = v.s5.mS5State
             /\ w.s5.mAlive = v.s5.mAlive /\ w.s5.mSocket = v.s5.mSocket
             /\ w.s5.mSocks5.q = Append(v.s5.mSocks5.q, m)
             /\ w.s5.mSocks5.off = v.s5.mSocks5.off
             /\ w.s5.mOutQueue = v.s5.mOutQueue
             /\ w.s5.mBufferedSize = v.s5.mBufferedSize + 2
             /\ w.s5.used = v.s5.used /\ w.s5.received = v.s5.received
<1> DEFINE q    == [v.s5.mSocks5 EXCEPT !.q = Append(@, m)]
           size == v.s5.mBufferedSize + encrypt(1)
           s    == [v.s5 EXCEPT !.mSocks5 = q, !.mBufferedSize = size]
           u    == [v EXCEPT !.s5["mSocks5"].q = Append(@, m),
                             !.s5.mBufferedSize = @ + encrypt(1)]
<1>1. v.s5.mSocks5 \in QueueType(Requests) /\ v.s5.mBufferedSize \in Nat
  BY PairFields
<1>2. size \in Nat /\ size = v.s5.mBufferedSize + 2
  BY <1>1 DEF encrypt, Parcel
<1>3. Append(v.s5.mSocks5.q, m) \in Seq(Requests)
  BY <1>1, AppendProperties DEF QueueType
<1>4. /\ q \in QueueType(Requests) /\ q.q = Append(v.s5.mSocks5.q, m)
      /\ q.off = v.s5.mSocks5.off
  BY <1>1, <1>3 DEF QueueType
<1>5. u = [v EXCEPT !.s5 = s]
  BY DEF Pairs, Tunnels
<1>6. encryptAndQueue(v, "mSocks5", m) = wantWrite(u)
  BY DEF encryptAndQueue
<1> HIDE DEF q, size, u
<1>7. /\ s \in Tunnels /\ s.mSocks5 = q /\ s.mBufferedSize = size
      /\ s.mS5State = v.s5.mS5State
      /\ s.mAlive = v.s5.mAlive /\ s.mSocket = v.s5.mSocket
      /\ s.mOutQueue = v.s5.mOutQueue
      /\ s.used = v.s5.used /\ s.received = v.s5.received
  BY <1>2, <1>4, PairFields DEF Tunnels
<1> HIDE DEF s
<1>8. u \in Pairs /\ u.s5 = s /\ u.client = v.client /\ u.loop = v.loop
  BY <1>5, <1>7 DEF Pairs
<1>9. Quiet(wantWrite(u), u)
  BY <1>8, QuietFunctions
<1> QED BY <1>2, <1>4, <1>6, <1>7, <1>8, <1>9 DEF Quiet

(* Early in the handshake nothing but requests is on the wire.             *)
LEMMA EarlyWire ==
  ASSUME NEW p \in Proxies, NEW v \in Pairs, NEW h \in Handshakes, Ordered(v, p, h),
         v.s5.mS5State \in EarlyStates
  PROVE  /\ OnWire(v, p) = h /\ v.s5.mOutQueue.q = <<>> /\ Given(v) = 0
         /\ p.up \o v.s5.mSocks5.q = h
<1>1. v.s5.mOutQueue.q = <<>> /\ Given(v) = 0 /\ OnWire(v, p) = h \o Data(0)
  BY DEF Ordered
<1>2. h \in Seq(Upwards)
  BY HandshakeTypes
<1>3. Data(0) = <<>>
  BY DEF Data
<1>4. h \o Data(0) = h
  BY <1>2, <1>3, ConcatEmptySeq
<1>5. p.up \o v.s5.mSocks5.q \in Seq(Upwards)
  BY WireFields, ConcatProperties
<1>6. OnWire(v, p) = p.up \o v.s5.mSocks5.q
  BY <1>1, <1>5, ConcatEmptySeq DEF OnWire
<1> QED BY <1>1, <1>4, <1>6

(* The next request of the handshake is queued, and the state goes on.     *)
LEMMA RequestGood ==
  ASSUME NEW p \in Proxies, NEW v, Good(v, p), NEW m \in Requests,
         v.s5.mS5State \in EarlyStates, NEW state \in EarlyStates,
         \A h \in Stage(v.s5.mS5State) : Append(h, m) \in Stage(state),
         state = "S_CONNECT" => Knows(v, p, Message("method", VERIFY_NONE))
                                \/ Knows(v, p, Message("verified", 0)),
         state # "S_CONNECT" => \A h \in Stage(state) : h \notin Done
  PROVE  Good([encryptAndQueue(v, "mSocks5", m) EXCEPT !.s5.mS5State = state], p)
<1> DEFINE u == encryptAndQueue(v, "mSocks5", m)
           w == [u EXCEPT !.s5.mS5State = state]
           q == v.s5.mSocks5.q
<1>1. v \in Pairs /\ state \in S5States
  BY DEF Good, EarlyStates, S5States
<1>2. /\ u \in Pairs /\ u.loop = v.loop /\ u.client = v.client
      /\ u.s5.mSocks5.q = Append(q, m) /\ u.s5.mSocks5.off = v.s5.mSocks5.off
      /\ u.s5.mOutQueue = v.s5.mOutQueue
      /\ u.s5.mBufferedSize = v.s5.mBufferedSize + 2
      /\ u.s5.used = v.s5.used /\ u.s5.received = v.s5.received
  BY <1>1, RequestFields
<1> HIDE DEF u
<1>3. /\ w \in Pairs /\ w.loop = v.loop /\ w.client = v.client
      /\ w.s5.mS5State = state
      /\ w.s5.mSocks5.q = Append(q, m) /\ w.s5.mSocks5.off = v.s5.mSocks5.off
      /\ w.s5.mOutQueue = v.s5.mOutQueue
      /\ w.s5.mBufferedSize = v.s5.mBufferedSize + 2
      /\ w.s5.used = v.s5.used /\ w.s5.received = v.s5.received
  BY <1>1, <1>2, StateFields
<1>4. PICK h \in Handshakes : Ordered(v, p, h)
  BY DEF Good, InOrder
<1>5. /\ v.s5.mOutQueue.q = <<>> /\ Given(v) = 0 /\ p.up \o q = h
  BY <1>1, <1>4, EarlyWire
<1>6. Given(w) = 0
  BY <1>3, <1>5 DEF Given
<1>7. p.up \in Seq(Upwards) /\ q \in Seq(Upwards) /\ m \in Upwards /\ q \in Seq(Requests)
  BY <1>1, WireFields DEF Upwards
<1> DEFINE g == Append(h, m)
<1>8. g \in Stage(state) /\ g \in Handshakes
  <2>1. h \in Stage(v.s5.mS5State)
    BY <1>4 DEF Ordered
  <2> QED BY <1>1, <2>1, StageTypes
<1> HIDE DEF w, q
<1>9. OnWire(w, p) = g \o Data(0)
  <2>1. <<m>> \in Seq(Upwards)
    BY <1>7
  <2>2. Append(q, m) = q \o <<m>> /\ Append(q, m) \in Seq(Upwards)
    BY <1>7, AppendIsConcat, AppendProperties
  <2>3. p.up \o (q \o <<m>>) = (p.up \o q) \o <<m>>
    <3> DEFINE a == p.up
               b == <<m>>
    <3>1. a \in Seq(Upwards) /\ b \in Seq(Upwards) /\ q \in Seq(Upwards)
      BY <1>7, <2>1
    <3> HIDE DEF a, b
    <3>2. (a \o q) \o b = a \o (q \o b)
      BY <3>1, ConcatAssociative, SMTT(30)
    <3> QED BY <3>2 DEF a, b
  <2>4. g = h \o <<m>> /\ g \in Seq(Upwards)
    BY <1>7, HandshakeTypes, AppendIsConcat, AppendProperties
  <2>5. p.up \o Append(q, m) = g
    BY <1>5, <2>2, <2>3, <2>4
  <2>6. OnWire(w, p) = g \o <<>>
    BY <1>3, <1>5, <2>5 DEF OnWire
  <2>7. Data(0) = <<>>
    BY DEF Data
  <2> QED BY <2>6, <2>7
<1>10. \A x : Knows(v, p, x) => Knows(w, p, x)
  BY <1>3 DEF Knows
<1>11. g \in Done => \/ Knows(w, p, Message("method", VERIFY_NONE))
                     \/ Knows(w, p, Message("verified", 0))
  BY <1>8, <1>10
<1>12. w.client.pending = [i \in 1 .. Len(w.client.pending) |-> 0 + i]
  BY <1>3, <1>4, <1>5 DEF Ordered
<1>13. Ordered(w, p, g)
  BY <1>3, <1>5, <1>6, <1>8, <1>9, <1>11, <1>12 DEF Ordered, EarlyStates
<1>14. Exact(w)
  <2>1. Len(Append(q, m)) = Len(q) + 1 /\ Len(q) \in Nat
    BY <1>7, AppendProperties, LenProperties
  <2>2. v.s5.mSocks5.off \in {0, 1} /\ v.s5.mOutQueue.off \in {0, 1}
    BY <1>1, WireFields
  <2>3. Units(v.s5.mSocks5) = 2 * Len(q) - v.s5.mSocks5.off
        /\ Units(w.s5.mSocks5) = 2 * Len(Append(q, m)) - v.s5.mSocks5.off
    BY <1>3 DEF Units, Parcel, q
  <2>4. Units(w.s5.mOutQueue) = Units(v.s5.mOutQueue) /\ Units(v.s5.mOutQueue) \in Int
    <3>1. Len(v.s5.mOutQueue.q) \in Nat
      BY <1>5
    <3> QED BY <1>3, <2>2, <3>1 DEF Units, Parcel
  <2>5. Units(w.s5.mSocks5) = Units(v.s5.mSocks5) + 2 /\ Units(v.s5.mSocks5) \in Int
    BY <2>1, <2>2, <2>3
  <2>6. /\ v.s5.mBufferedSize = Units(v.s5.mSocks5) + Units(v.s5.mOutQueue)
        /\ Units(v.s5.mSocks5) >= 0 /\ Units(v.s5.mOutQueue) >= 0
    BY DEF Good, Exact
  <2> QED BY <1>3, <2>4, <2>5, <2>6 DEF Exact
<1>15. Over(w) /\ Counted(w, p)
  BY <1>3 DEF Good, Over, Counted, EarlyStates, EndStates
<1>16. ASSUME "speaksFirst" \notin Env PROVE Handed(w, p)
  <2>1. Handed(v, p) /\ v.s5.mS5State \notin EndStates /\ v.client.back = <<>>
    BY <1>16 DEF Good, Handed, EarlyStates, EndStates
  <2> QED BY <1>3, <2>1 DEF Handed
<1> QED BY <1>3, <1>8, <1>13, <1>14, <1>15, <1>16 DEF Good, InOrder, w, u

(* A state that goes on without a request: no account is configured.       *)
LEMMA WaitGood ==
  ASSUME NEW p \in Proxies, NEW v, Good(v, p), v.s5.mS5State = "S_GREET"
  PROVE  Good([v EXCEPT !.s5.mS5State = "S_VERIFY"], p)
<1> DEFINE w == [v EXCEPT !.s5.mS5State = "S_VERIFY"]
<1>1. v \in Pairs /\ "S_VERIFY" \in S5States
  BY DEF Good, S5States
<1>2. /\ w \in Pairs /\ w.loop = v.loop /\ w.client = v.client
      /\ w.s5.mS5State = "S_VERIFY"
      /\ w.s5.mSocks5 = v.s5.mSocks5 /\ w.s5.mOutQueue = v.s5.mOutQueue
      /\ w.s5.mBufferedSize = v.s5.mBufferedSize
      /\ w.s5.used = v.s5.used /\ w.s5.received = v.s5.received
  BY <1>1, StateFields
<1> HIDE DEF w
<1>3. \A m : Knows(v, p, m) => Knows(w, p, m)
  BY <1>2 DEF Knows
<1>4. OnWire(w, p) = OnWire(v, p) /\ Given(w) = Given(v)
  BY <1>2 DEF OnWire, Given
<1>5. PICK h \in Handshakes : Ordered(v, p, h)
  BY DEF Good, InOrder
<1>6. h \in Stage("S_VERIFY")
  BY <1>5 DEF Ordered, Stage
<1>7. Ordered(w, p, h)
  BY <1>2, <1>3, <1>4, <1>5, <1>6 DEF Ordered, EarlyStates
<1>8. Exact(w) /\ Over(w) /\ Counted(w, p)
  BY <1>2 DEF Good, Exact, Over, Counted, EndStates
<1>9. Handed(v, p) => Handed(w, p)
  BY <1>2 DEF Handed, EarlyStates, EndStates
<1> QED BY <1>2, <1>7, <1>8, <1>9 DEF Good, InOrder, w

(* When CONNECT was accepted, everything of the handshake has been sent.   *)
LEMMA ConnectedGood ==
  ASSUME NEW p \in Proxies, Replied(p), NEW v, Good(v, p),
         v.s5.mS5State = "S_CONNECT", Knows(v, p, Connected)
  PROVE  Good([v EXCEPT !.s5.mS5State = "S_TRANS"], p)
<1> DEFINE w == [v EXCEPT !.s5.mS5State = "S_TRANS"]
<1>1. v \in Pairs /\ "S_TRANS" \in S5States
  BY DEF Good, S5States
<1>2. /\ w \in Pairs /\ w.loop = v.loop /\ w.client = v.client
      /\ w.s5.mS5State = "S_TRANS"
      /\ w.s5.mSocks5 = v.s5.mSocks5 /\ w.s5.mOutQueue = v.s5.mOutQueue
      /\ w.s5.mBufferedSize = v.s5.mBufferedSize
      /\ w.s5.used = v.s5.used /\ w.s5.received = v.s5.received
  BY <1>1, StateFields
<1> HIDE DEF w
<1>3. \A m : Knows(v, p, m) => Knows(w, p, m)
  BY <1>2 DEF Knows
<1>4. OnWire(w, p) = OnWire(v, p) /\ Given(w) = Given(v)
  BY <1>2 DEF OnWire, Given
<1>5. PICK h \in Handshakes : Ordered(v, p, h)
  BY DEF Good, InOrder
<1>6. h \in Stage("S_TRANS")
  BY <1>5 DEF Ordered, Stage
<1>7. v.s5.mSocks5.q = <<>>
  <2> DEFINE q == v.s5.mSocks5.q
  <2>1. PICK i \in 1 .. v.s5.used : p.down[i] = Connected
    BY DEF Knows
  <2>2. i \in 1 .. Len(p.down) /\ i \in Nat
    <3>1. 2 * v.s5.used <= v.s5.received /\ v.s5.received <= 2 * Len(p.down)
      BY DEF Good, Counted, Parcel
    <3>2. v.s5.used \in Nat /\ v.s5.received \in Nat /\ Len(p.down) \in Nat
      BY <1>1, PairFields, WireFields, LenProperties
    <3>3. v.s5.used <= Len(p.down)
      BY <3>1, <3>2
    <3> QED BY <3>2, <3>3
  <2>3. i <= p.answered /\ p.up[i] = Connect
    BY <2>1, <2>2 DEF Replied, Connected, Message
  <2>4. /\ p.answered <= Len(p.up) /\ p.answered \in Nat /\ Len(p.up) \in Nat
        /\ q \in Seq(Upwards) /\ Len(q) \in Nat
    BY <1>1, WireFields, LenProperties DEF Replied
  <2>5. v.s5.mOutQueue.q = <<>> /\ Given(v) = 0
    BY <1>1, <1>5, EarlyWire DEF EarlyStates
  <2>6. /\ Len(h) + Given(v) = Len(p.up) + Len(q) + Len(v.s5.mOutQueue.q)
        /\ \A j \in 1 .. Len(h) + Given(v) :
             OnWire(v, p)[j] = IF j <= Len(h) THEN h[j] ELSE Message("data", j - Len(h))
        /\ \A j \in 1 .. Len(p.up) : p.up[j] = OnWire(v, p)[j]
    BY <1>1, <1>5, WireAt
  <2>7. Len(h) \in Nat /\ \A j \in 1 .. Len(h) : h[j] = Connect => j = Len(h)
    BY HandshakeTypes
  <2> DEFINE a == Len(p.up)
             b == Len(q)
             l == Len(h)
             u == p.up
             W == OnWire(v, p)
  <2>8. l + 0 = a + b + 0
    <3>1. Len(v.s5.mOutQueue.q) = 0
      BY <2>5
    <3> QED BY <2>5, <2>6, <3>1
  <2>9. /\ a \in Nat /\ b \in Nat /\ l \in Nat /\ p.answered \in Nat
        /\ i <= p.answered /\ p.answered <= a
    BY <2>3, <2>4, <2>7
  <2>10. u[i] = Connect /\ (\A j \in 1 .. a : u[j] = W[j])
    BY <2>3, <2>6
  <2>11. \A j \in 1 .. l : W[j] = h[j] /\ (h[j] = Connect => j = l)
    <3> TAKE j \in 1 .. l
    <3>1. j \in 1 .. Len(h) + Given(v) /\ j <= Len(h)
      BY <2>5, <2>7
    <3>2. W[j] = h[j]
      BY <2>6, <3>1
    <3> QED BY <2>7, <3>2
  <2> HIDE DEF a, b, l, u, W
  <2>12. i \in 1 .. l /\ i \in 1 .. a
    BY <2>2, <2>8, <2>9
  <2>13. h[i] = Connect
    BY <2>10, <2>11, <2>12
  <2>14. i = l
    BY <2>11, <2>12, <2>13
  <2>15. b = 0
    BY <2>2, <2>8, <2>9, <2>14
  <2> QED BY <2>4, <2>15, EmptySeq DEF b
<1>8. Ordered(w, p, h)
  BY <1>2, <1>3, <1>4, <1>5, <1>6, <1>7 DEF Ordered, EarlyStates
<1>9. Exact(w) /\ Over(w) /\ Counted(w, p)
  BY <1>2 DEF Good, Exact, Over, Counted, EndStates
<1>10. Handed(v, p) => Handed(w, p)
  BY <1>2 DEF Handed, EarlyStates, EndStates
<1> QED BY <1>2, <1>8, <1>9, <1>10 DEF Good, InOrder, w

(* The stages are in the order of the handshake.                           *)
LEMMA StageOrder ==
  /\ \A h \in Stage("S_INIT") : Append(h, Greet) \in Stage("S_GREET")
  /\ \A h \in Stage("S_GREET") : Append(h, Account) \in Stage("S_VERIFY")
  /\ \A h \in Stage("S_GREET") : Append(h, Connect) \in Stage("S_CONNECT")
  /\ \A h \in Stage("S_VERIFY") : Append(h, Connect) \in Stage("S_CONNECT")
  /\ \A h \in Stage("S_GREET") \cup Stage("S_VERIFY") : h \notin Done
<1>1. Append(<<>>, Greet) = <<Greet>>
  OBVIOUS
<1>2. \A x, y \in Requests : Append(<<x>>, y) = <<x, y>>
  <2> TAKE x, y \in Requests
  <2> DEFINE s == <<x>>
             t == <<x, y>>
  <2>1. s \in Seq(Requests) /\ Len(s) = 1 /\ s[1] = x
    OBVIOUS
  <2>2. t \in Seq(Requests) /\ Len(t) = 2 /\ t[1] = x /\ t[2] = y
    OBVIOUS
  <2> HIDE DEF s, t
  <2>3. Append(s, y) \in Seq(Requests) /\ Len(Append(s, y)) = 2
        /\ Append(s, y)[1] = x /\ Append(s, y)[2] = y
    <3>1. /\ Append(s, y) \in Seq(Requests) /\ Len(Append(s, y)) = Len(s) + 1
          /\ \A i \in 1 .. Len(s) : Append(s, y)[i] = s[i]
          /\ Append(s, y)[Len(s) + 1] = y
      <4>1. s \in Seq(Requests) /\ y \in Requests
        BY <2>1
      <4> QED BY <4>1, AppendProperties
    <3> QED BY <2>1, <3>1
  <2>4. Append(s, y) = t
    BY <2>2, <2>3, SeqEqual
  <2> QED BY <2>4 DEF s, t
<1>3. \A x, y, z \in Requests : Append(<<x, y>>, z) = <<x, y, z>>
  <2> TAKE x, y, z \in Requests
  <2> DEFINE s == <<x, y>>
             t == <<x, y, z>>
  <2>1. s \in Seq(Requests) /\ Len(s) = 2 /\ s[1] = x /\ s[2] = y
    OBVIOUS
  <2>2. t \in Seq(Requests) /\ Len(t) = 3 /\ t[1] = x /\ t[2] = y /\ t[3] = z
    OBVIOUS
  <2> HIDE DEF s, t
  <2>3. Append(s, z) \in Seq(Requests) /\ Len(Append(s, z)) = 3
        /\ Append(s, z)[1] = x /\ Append(s, z)[2] = y /\ Append(s, z)[3] = z
    <3>1. /\ Append(s, z) \in Seq(Requests) /\ Len(Append(s, z)) = Len(s) + 1
          /\ \A i \in 1 .. Len(s) : Append(s, z)[i] = s[i]
          /\ Append(s, z)[Len(s) + 1] = z
      <4>1. s \in Seq(Requests) /\ z \in Requests
        BY <2>1
      <4> QED BY <4>1, AppendProperties
    <3> QED BY <2>1, <3>1
  <2>4. Append(s, z) = t
    BY <2>2, <2>3, SeqEqual
  <2> QED BY <2>4 DEF s, t
<1>4. <<Greet>> \notin Done /\ <<Greet, Account>> \notin Done
  BY Kinds DEF Done
<1>5. /\ Stage("S_INIT") = {<<>>} /\ Stage("S_GREET") = {<<Greet>>}
      /\ Stage("S_VERIFY") = {<<Greet>>, <<Greet, Account>>} /\ Stage("S_CONNECT") = Done
  BY DEF Stage
<1>6. Append(<<Greet>>, Account) = <<Greet, Account>>
      /\ Append(<<Greet>>, Connect) = <<Greet, Connect>>
      /\ Append(<<Greet, Account>>, Connect) = <<Greet, Account, Connect>>
  BY <1>2, <1>3, Kinds
<1>7. <<Greet, Connect>> \in Done /\ <<Greet, Account, Connect>> \in Done
  BY DEF Done
<1> QED BY <1>1, <1>4, <1>5, <1>6, <1>7

(* A reply of the kind and the number that count.                          *)
LEMMA ReplyIs ==
  ASSUME NEW x \in Downwards, x.n = 0
  PROVE  /\ x.kind = "method" => x = Message("method", VERIFY_NONE)
         /\ x.kind = "verified" => x = Message("verified", 0)
         /\ x.kind = "connected" => x = Connected
BY DEF Downwards, Message, VERIFY_NONE, Connected

(* The states of the handshake but the last one.                           *)
LEMMA AwaitGood ==
  ASSUME NEW p \in Proxies, NEW v, Good(v, p), NEW ms \in Seq(Downwards), ms # <<>>,
         Knows(v, p, ms[1]), NEW stays \in BOOLEAN
  PROVE  /\ v.s5.mS5State = "S_GREET" => Good(handleS5GreetBack(v, ms, stays), p)
         /\ v.s5.mS5State = "S_VERIFY" => Good(handleS5VerifyBack(v, ms, stays), p)
<1>1. v \in Pairs
  BY DEF Good
<1>2. Good(switchS5State(v, "S_FAILED", stays), p)
  BY EndGood DEF EndStates
<1>3. ms[1] \in Downwards
  BY EmptySeq, ElementOfSeq
<1>4. ASSUME v.s5.mS5State \in {"S_GREET", "S_VERIFY"}, twoBytes(ms), ms[1].n = 0
      PROVE  Good(switchS5State(sendS5Connect(v), "S_CONNECT", stays), p)
  <2> DEFINE u == encryptAndQueue(v, "mSocks5", Connect)
  <2>1. u.s5.mS5State = v.s5.mS5State
    BY <1>1, Kinds, RequestFields
  <2>2. sendS5Connect(v) = u
    BY DEF sendS5Connect, Connect
  <2> HIDE DEF u
  <2>3. switchS5State(u, "S_CONNECT", stays) = [u EXCEPT !.s5.mS5State = "S_CONNECT"]
    BY <1>4, <2>1 DEF switchS5State
  <2>4. \/ Knows(v, p, Message("method", VERIFY_NONE))
        \/ Knows(v, p, Message("verified", 0))
    BY <1>3, <1>4, ReplyIs DEF twoBytes
  <2>5. \A h \in Stage(v.s5.mS5State) : Append(h, Connect) \in Stage("S_CONNECT")
    BY <1>4, StageOrder
  <2>6. Good([u EXCEPT !.s5.mS5State = "S_CONNECT"], p)
    BY <1>4, <2>4, <2>5, Kinds, RequestGood DEF EarlyStates, u
  <2> QED BY <2>2, <2>3, <2>6
<1>5. ASSUME v.s5.mS5State = "S_GREET"
      PROVE  Good(switchS5State(sendS5Account(v), "S_VERIFY", stays), p)
  <2>1. CASE settings.account
    <3> DEFINE u == encryptAndQueue(v, "mSocks5", Account)
    <3>1. u.s5.mS5State = v.s5.mS5State
      BY <1>1, Kinds, RequestFields
    <3>2. sendS5Account(v) = u
      BY <2>1 DEF sendS5Account, Account
    <3> HIDE DEF u
    <3>3. switchS5State(u, "S_VERIFY", stays) = [u EXCEPT !.s5.mS5State = "S_VERIFY"]
      BY <1>5, <3>1 DEF switchS5State
    <3>4. Good([u EXCEPT !.s5.mS5State = "S_VERIFY"], p)
      BY <1>5, Kinds, StageOrder, RequestGood DEF EarlyStates, u
    <3> QED BY <3>2, <3>3, <3>4
  <2>2. CASE ~settings.account
    <3>1. sendS5Account(v) = v
      BY <2>2 DEF sendS5Account
    <3>2. switchS5State(v, "S_VERIFY", stays) = [v EXCEPT !.s5.mS5State = "S_VERIFY"]
      BY <1>5 DEF switchS5State
    <3> QED BY <1>5, <3>1, <3>2, WaitGood
  <2> QED BY <2>1, <2>2
<1>6. ASSUME v.s5.mS5State = "S_GREET" PROVE Good(handleS5GreetBack(v, ms, stays), p)
  BY <1>2, <1>4, <1>5, <1>6 DEF handleS5GreetBack, VERIFY_NONE, VERIFY_ACCOUNT
<1>7. ASSUME v.s5.mS5State = "S_VERIFY" PROVE Good(handleS5VerifyBack(v, ms, stays), p)
  BY <1>2, <1>4, <1>7 DEF handleS5VerifyBack
<1> QED BY <1>6, <1>7

(* The last state: the client may send at once.                            *)
LEMMA ConnBackGood ==
  ASSUME NEW p \in Proxies, Replied(p), NEW v, Good(v, p), NEW ms \in Seq(Downwards),
         ms # <<>>, Knows(v, p, ms[1]), NEW stays \in BOOLEAN, v.s5.mS5State = "S_CONNECT"
  PROVE  Good(handleS5ConnBack(v, ms, stays), p)
<1>1. Good(switchS5State(v, "S_FAILED", stays), p)
  BY EndGood DEF EndStates
<1>2. ms[1] \in Downwards
  BY EmptySeq, ElementOfSeq
<1>3. ASSUME ms[1].kind = "connected", ms[1].n = 0
      PROVE  Good(switchS5State(v, "S_TRANS", stays), p)
  <2> DEFINE w == [v EXCEPT !.s5.mS5State = "S_TRANS"]
  <2>1. Knows(v, p, Connected)
    BY <1>2, <1>3, ReplyIs
  <2>2. Good(w, p)
    BY <2>1, ConnectedGood
  <2>3. w.s5.mS5State = "S_TRANS"
    BY StateFields DEF Good, S5States
  <2>4. switchS5State(v, "S_TRANS", stays) = onTunnelWritable(w)
    BY DEF switchS5State
  <2> HIDE DEF w
  <2>5. Good(onTunnelWritable(w), p)
    BY <2>2, <2>3, onTunnelWritableGood
  <2> QED BY <2>4, <2>5
<1> QED BY <1>1, <1>3 DEF handleS5ConnBack

-----------------------------------------------------------------------------
(* The proxy's steps                                                       *)

(* What was decrypted is what the proxy has sent.                          *)
LEMMA UsedIsSent ==
  ASSUME NEW p \in Proxies, NEW v \in Pairs, Counted(v, p)
  PROVE  v.s5.used \in Nat /\ Len(p.down) \in Nat /\ v.s5.used <= Len(p.down)
<1>1. v.s5.used \in Nat /\ v.s5.received \in Nat /\ Len(p.down) \in Nat
  BY PairFields, WireFields, LenProperties
<1> QED BY <1>1 DEF Counted, Parcel

(* More from the proxy changes nothing for the tunnel.                     *)
LEMMA MoreSent ==
  ASSUME NEW p \in Proxies, NEW v, Good(v, p), NEW r \in Proxies, r.up = p.up,
         Len(r.down) >= Len(p.down), \A i \in 1 .. Len(p.down) : r.down[i] = p.down[i]
  PROVE  Good(v, r)
<1>1. v \in Pairs
  BY DEF Good
<1>2. /\ v.s5.used \in Nat /\ Len(p.down) \in Nat /\ v.s5.used <= Len(p.down)
      /\ v.s5.received \in Nat /\ Len(r.down) \in Nat
  BY <1>1, UsedIsSent, PairFields, WireFields, LenProperties DEF Good
<1>3. \A i \in 1 .. v.s5.used : r.down[i] = p.down[i]
  BY <1>2
<1>4. \A m : Knows(v, p, m) => Knows(v, r, m)
  BY <1>3 DEF Knows
<1>5. OnWire(v, r) = OnWire(v, p)
  BY DEF OnWire
<1>6. InOrder(v, r)
  BY <1>4, <1>5 DEF Good, InOrder, Ordered
<1>7. Counted(v, r)
  BY <1>2 DEF Good, Counted, Parcel
<1>8. ASSUME Handed(v, p) PROVE Handed(v, r)
  <2>1. ASSUME NEW h \in 0 .. v.s5.used
        PROVE  SubSeq(p.down, h + 1, v.s5.used) = SubSeq(r.down, h + 1, v.s5.used)
    <3> DEFINE a == SubSeq(p.down, h + 1, v.s5.used)
               b == SubSeq(r.down, h + 1, v.s5.used)
               l == IF h + 1 <= v.s5.used THEN v.s5.used - (h + 1) + 1 ELSE 0
    <3>1. h + 1 \in Int /\ v.s5.used \in Int /\ l \in Nat /\ h \in Nat
      BY <1>2
    <3>2. ASSUME NEW i \in h + 1 .. v.s5.used
          PROVE  p.down[i] \in Downwards /\ r.down[i] \in Downwards
      <4>1. i \in 1 .. Len(p.down) /\ i \in 1 .. v.s5.used
        BY <1>2, <3>1
      <4>2. p.down[i] \in Downwards
        BY <1>1, <4>1, WireFields, ElementOfSeq
      <4> QED BY <1>3, <4>1, <4>2
    <3>3. /\ a \in Seq(Downwards) /\ Len(a) = l
          /\ \A i \in 1 .. v.s5.used - (h + 1) + 1 : a[i] = p.down[h + 1 + i - 1]
      BY <3>1, <3>2, SubSeqProperties
    <3>4. /\ b \in Seq(Downwards) /\ Len(b) = l
          /\ \A i \in 1 .. v.s5.used - (h + 1) + 1 : b[i] = r.down[h + 1 + i - 1]
      BY <3>1, <3>2, SubSeqProperties
    <3>5. \A i \in 1 .. l : a[i] = b[i]
      <4> TAKE i \in 1 .. l
      <4>1. i \in 1 .. v.s5.used - (h + 1) + 1 /\ h + 1 + i - 1 \in 1 .. v.s5.used
        BY <1>2, <3>1
      <4> QED BY <1>3, <3>3, <3>4, <4>1
    <3> HIDE DEF a, b, l
    <3>6. a = b
      BY <3>3, <3>4, <3>5, SeqEqual
    <3> QED BY <3>6 DEF a, b
  <2>2. \A h \in 0 .. v.s5.used : \A i \in 1 .. h : r.down[i] = p.down[i]
    BY <1>2, <1>3
  <2> QED BY <1>8, <2>1, <2>2 DEF Handed
<1> QED BY <1>1, <1>6, <1>7, <1>8 DEF Good

(* A pair that a step makes is the pair of the next state.                 *)
LEMMA BecomesIs ==
  ASSUME NEW v \in Pairs, Becomes(v)
  PROVE  Before' = v /\ settings' = settings
<1>1. v = [s5 |-> v.s5, client |-> v.client, loop |-> v.loop]
  BY DEF Pairs
<1> QED BY <1>1 DEF Becomes, Before

(* A step of the tunnel or its client alone.                               *)
LEMMA TunnelStep ==
  ASSUME S5Inv, NEW v, Good(v, proxy), Becomes(v), UNCHANGED proxy
  PROVE  S5Inv'
<1>1. Before' = v /\ settings' = settings
  BY BecomesIs DEF Good
<1>2. Good(Before', proxy')
  BY <1>1
<1> QED BY <1>1, <1>2 DEF S5Inv

(* A step of the proxy that leaves what it was sent alone.                 *)
LEMMA ProxyStep ==
  ASSUME S5Inv, proxy' \in Proxies, Replied(proxy'), proxy'.up = proxy.up,
         Len(proxy'.down) >= Len(proxy.down),
         \A i \in 1 .. Len(proxy.down) : proxy'.down[i] = proxy.down[i],
         UNCHANGED <<s5, client, loop, settings>>
  PROVE  S5Inv'
<1>1. proxy \in Proxies /\ Good(Before, proxy)
  BY DEF S5Inv
<1>2. Good(Before, proxy')
  BY <1>1, MoreSent
<1>3. Before' = Before
  BY DEF Before
<1>4. Good(Before', proxy')
  BY <1>2, <1>3
<1> QED BY <1>4 DEF S5Inv

(* Closing and breaking the connection.                                    *)
LEMMA LineSteps ==
  ASSUME S5Inv, ProxyCloses \/ Reset
  PROVE  S5Inv'
<1>1. proxy \in Proxies /\ Replied(proxy)
  BY DEF S5Inv
<1>2. /\ proxy' \in Proxies /\ proxy'.up = proxy.up /\ proxy'.down = proxy.down
      /\ proxy'.answered = proxy.answered
      /\ UNCHANGED <<s5, client, loop, settings>>
  BY <1>1 DEF ProxyCloses, Reset, Proxies
<1>3. Replied(proxy')
  BY <1>1, <1>2 DEF Replied
<1>4. Len(proxy'.down) >= Len(proxy.down)
  BY <1>1, <1>2, LenProperties DEF Proxies
<1> QED BY <1>2, <1>3, <1>4, ProxyStep

(* Payload from the remote.                                                *)
LEMMA RelayStep ==
  ASSUME S5Inv, ProxyRelays
  PROVE  S5Inv'
<1> DEFINE d == proxy.down
           c == Cardinality(Payload(d))
           x == Message("data", c + 1)
           e == Append(d, x)
<1>1. proxy \in Proxies /\ Replied(proxy) /\ d \in Seq(Downwards)
  BY DEF S5Inv, Proxies
<1>2. DOMAIN d = 1 .. Len(d) /\ Len(d) \in Nat
  BY <1>1, LenProperties
<1>3. c \in Nat
  <2>1. Payload(d) \subseteq 1 .. Len(d)
    BY <1>2 DEF Payload
  <2>2. IsFiniteSet(Payload(d))
    <3>1. IsFiniteSet(1 .. Len(d))
      BY <1>2, FS_Interval
    <3> QED BY <2>1, <3>1, FS_Subset
  <2> QED BY <2>2, FS_CardinalityType
<1>4. c < MaxBack /\ MaxBack \in Nat
  BY ProxyAssumption DEF ProxyRelays
<1>5. x \in Downwards /\ x.kind = "data"
  BY <1>3, <1>4 DEF Downwards, Message
<1>6. /\ e \in Seq(Downwards) /\ Len(e) = Len(d) + 1
      /\ \A i \in 1 .. Len(d) : e[i] = d[i]
      /\ e[Len(d) + 1] = x
  BY <1>1, <1>5, AppendProperties
<1>7. /\ proxy' = [proxy EXCEPT !.down = e]
      /\ UNCHANGED <<s5, client, loop, settings>>
      /\ Connected \in Range(d)
      /\ "speaksFirst" \notin Env => Payload(proxy.up) # {}
  BY DEF ProxyRelays, Connected
<1> HIDE DEF x, e, c
<1>8. /\ proxy' \in Proxies /\ proxy'.up = proxy.up /\ proxy'.down = e
      /\ proxy'.answered = proxy.answered
  BY <1>1, <1>6, <1>7 DEF Proxies
<1>9. Replied(proxy')
  <2>1. proxy'.answered <= Len(proxy'.up)
    BY <1>1, <1>8 DEF Replied
  <2>2. ASSUME NEW i \in 1 .. Len(e), e[i].kind # "data"
        PROVE  i <= proxy.answered /\ (e[i].kind = "connected" => proxy.up[i] = Connect)
    <3>1. i \in 1 .. Len(d)
      BY <1>2, <1>5, <1>6, <2>2
    <3>2. e[i] = d[i]
      BY <1>6, <3>1
    <3> QED BY <1>1, <2>2, <3>1, <3>2 DEF Replied
  <2>3. Payload(e) # {}
    <3>1. DOMAIN e = 1 .. Len(e) /\ Len(d) + 1 \in 1 .. Len(e)
      BY <1>2, <1>6, LenProperties
    <3> QED BY <1>5, <1>6, <3>1 DEF Payload
  <2>4. \E i \in 1 .. Len(e) : e[i] = Connected
    <3>1. PICK i \in 1 .. Len(d) : d[i] = Connected
      BY <1>2, <1>7 DEF Range
    <3>2. i \in 1 .. Len(e) /\ e[i] = d[i]
      BY <1>2, <1>6, <3>1
    <3> QED BY <3>1, <3>2
  <2> QED BY <1>7, <1>8, <2>1, <2>2, <2>3, <2>4 DEF Replied
<1>10. Len(e) >= Len(d)
  BY <1>2, <1>6
<1> QED BY <1>6, <1>7, <1>8, <1>9, <1>10, ProxyStep

(* A request is the next one to be answered: nothing but replies were sent, *)
(* one to each request before it.                                          *)
LEMMA NextReply ==
  ASSUME S5Inv, proxy.answered < Len(proxy.up),
         proxy.up[proxy.answered + 1].kind # "data"
  PROVE  /\ Payload(proxy.down) = {} /\ Len(proxy.down) = proxy.answered
<1> DEFINE a == proxy.answered
           W == OnWire(Before, proxy)
<1>1. proxy \in Proxies /\ Replied(proxy) /\ Before \in Pairs
  BY DEF S5Inv, Good
<1>2. PICK h \in Handshakes : Ordered(Before, proxy, h)
  BY DEF S5Inv, Good, InOrder
<1>3. /\ a \in Nat /\ Len(proxy.up) \in Nat /\ Len(proxy.down) \in Nat /\ MaxAccept \in Nat
      /\ proxy.down \in Seq(Downwards) /\ a < Len(proxy.up)
  BY <1>1, WireFields, LenProperties, ProxyAssumption
<1>4. /\ Given(Before) \in 0 .. MaxAccept
      /\ Len(W) = Len(h) + Given(Before)
      /\ \A i \in 1 .. Len(h) + Given(Before) :
           W[i] = IF i <= Len(h) THEN h[i] ELSE Message("data", i - Len(h))
      /\ \A i \in 1 .. Len(proxy.up) : proxy.up[i] = W[i]
      /\ Len(proxy.up) <= Len(h) + Given(Before)
  <2>1. Len(Before.s5.mSocks5.q) \in Nat /\ Len(Before.s5.mOutQueue.q) \in Nat
    BY <1>1, WireFields, LenProperties
  <2>2. /\ Given(Before) \in 0 .. MaxAccept
        /\ Len(W) = Len(h) + Given(Before)
        /\ Len(W) = Len(proxy.up) + Len(Before.s5.mSocks5.q) + Len(Before.s5.mOutQueue.q)
        /\ \A i \in 1 .. Len(h) + Given(Before) :
             W[i] = IF i <= Len(h) THEN h[i] ELSE Message("data", i - Len(h))
        /\ \A i \in 1 .. Len(proxy.up) : proxy.up[i] = W[i]
    BY <1>1, <1>2, WireAt
  <2> HIDE DEF W
  <2>3. Len(proxy.up) <= Len(W)
    <3>1. Len(W) = Len(proxy.up) + Len(Before.s5.mSocks5.q) + Len(Before.s5.mOutQueue.q)
      BY <2>2
    <3> DEFINE x == Len(proxy.up)
               y == Len(Before.s5.mSocks5.q)
               z == Len(Before.s5.mOutQueue.q)
    <3>2. x \in Nat /\ y \in Nat /\ z \in Nat
      BY <1>3, <2>1
    <3> HIDE DEF x, y, z
    <3>3. x <= x + y + z
      BY <3>2
    <3> QED BY <3>1, <3>3 DEF x, y, z
  <2> QED BY <2>2, <2>3
<1>5. /\ Len(h) \in Nat
      /\ \A i \in 1 .. Len(h) : h[i] = Connect => i = Len(h)
      /\ \A i \in 1 .. Len(h) : h[i].kind # "data"
  BY HandshakeTypes, ElementOfSeq, LenProperties, Kinds
<1> HIDE DEF W
<1>6. a + 1 <= Len(h)
  <2>1. SUFFICES ASSUME ~(a + 1 <= Len(h)) PROVE FALSE
    OBVIOUS
  <2>2. a + 1 \in 1 .. Len(h) + Given(Before) /\ a + 1 \in 1 .. Len(proxy.up)
    BY <1>3, <1>4, <1>5
  <2>3. proxy.up[a + 1] = Message("data", (a + 1) - Len(h))
    BY <1>4, <2>1, <2>2
  <2> QED BY <2>3 DEF Message
<1>7. \A i \in 1 .. a + 1 : proxy.up[i] = h[i]
  <2> TAKE i \in 1 .. a + 1
  <2>1. i \in 1 .. Len(h) + Given(Before) /\ i \in 1 .. Len(proxy.up) /\ i <= Len(h)
    BY <1>3, <1>4, <1>5, <1>6
  <2> QED BY <1>4, <2>1
<1>8. Payload(proxy.down) = {}
  <2>1. SUFFICES ASSUME Payload(proxy.down) # {} PROVE FALSE
    OBVIOUS
  <2>2. PICK j \in 1 .. Len(proxy.down) : proxy.down[j] = Connected
    BY <1>1, <2>1 DEF Replied
  <2>3. j <= a /\ proxy.up[j] = Connect
    BY <1>1, <2>2 DEF Replied, Connected, Message
  <2>4. j \in 1 .. a + 1 /\ j \in 1 .. Len(h)
    BY <1>3, <1>5, <1>6, <2>3
  <2>5. j = Len(h)
    BY <1>5, <1>7, <2>3, <2>4
  <2> QED BY <1>3, <1>5, <1>6, <2>3, <2>5
<1>9. \A i \in 1 .. a : proxy.up[i].kind # "data"
  <2> TAKE i \in 1 .. a
  <2>1. i \in 1 .. a + 1 /\ i \in 1 .. Len(h)
    BY <1>3, <1>5, <1>6
  <2> QED BY <1>5, <1>7, <2>1
<1> QED BY <1>1, <1>8, <1>9 DEF Replied

(* The proxy takes the next message and answers a request.                 *)
LEMMA AnswerStep ==
  ASSUME S5Inv, ProxyAnswers
  PROVE  S5Inv'
<1> DEFINE a == proxy.answered
           d == proxy.down
           u == proxy.up
           r == u[a + 1]
<1>1. proxy \in Proxies /\ Replied(proxy)
  BY DEF S5Inv
<1>2. /\ a \in Nat /\ d \in Seq(Downwards) /\ u \in Seq(Upwards)
      /\ Len(d) \in Nat /\ Len(u) \in Nat
  BY <1>1, LenProperties DEF Proxies
<1>3. a < Len(u) /\ UNCHANGED <<s5, client, loop, settings>>
  BY DEF ProxyAnswers
<1>4. a + 1 \in 1 .. Len(u) /\ a + 1 \in Nat
  BY <1>2, <1>3
<1>5. r \in Upwards
  BY <1>2, <1>4, ElementOfSeq
<1>6. CASE r.kind = "data"
  <2>1. proxy' = [proxy EXCEPT !.answered = @ + 1]
    BY <1>6 DEF ProxyAnswers
  <2>2. /\ proxy' \in Proxies /\ proxy'.up = u /\ proxy'.down = d
        /\ proxy'.answered = a + 1
    BY <1>1, <1>4, <2>1 DEF Proxies
  <2>3. Replied(proxy')
    <3>1. a + 1 <= Len(u)
      BY <1>4
    <3>2. \A i \in 1 .. Len(d) : d[i].kind # "data" =>
            i <= a + 1 /\ (d[i].kind = "connected" => u[i] = Connect)
      <4> TAKE i \in 1 .. Len(d)
      <4> HAVE d[i].kind # "data"
      <4>1. i <= a /\ (d[i].kind = "connected" => u[i] = Connect)
        BY <1>1 DEF Replied
      <4> QED BY <1>2, <4>1
    <3>3. ~(\A i \in 1 .. a + 1 : u[i].kind # "data")
      <4>1. a + 1 \in 1 .. a + 1
        BY <1>2
      <4> QED BY <1>6, <4>1
    <3> QED BY <1>1, <2>2, <3>1, <3>2, <3>3 DEF Replied
  <2>4. Len(d) >= Len(d)
    BY <1>2
  <2> QED BY <1>3, <2>2, <2>3, <2>4, ProxyStep
<1>7. CASE r.kind # "data"
  <2>1. PICK reply \in Answers(r) :
          proxy' = [proxy EXCEPT !.answered = @ + 1, !.down = Append(@, reply)]
    BY <1>7 DEF ProxyAnswers
  <2>2. Payload(d) = {} /\ Len(d) = a
    BY <1>3, <1>7, NextReply
  <2>3. r \in Requests
    BY <1>5, <1>7, Kinds
  <2>4. /\ reply \in Downwards /\ reply.kind # "data"
        /\ reply.kind = "connected" => r = Connect
    <3>1. settings.methods \subseteq {VERIFY_NONE, VERIFY_ACCOUNT, NoMethod}
      BY DEF S5Inv
    <3>2. CASE r = Greet
      <4>1. PICK n \in settings.methods : reply = Message("method", n)
        BY <3>2 DEF Answers, Greet, Message
      <4> QED BY <3>1, <4>1 DEF Downwards, Message
    <3>3. CASE r = Account
      <4>1. PICK n \in {0, 1} : reply = Message("verified", n)
        BY <3>3 DEF Answers, Account, Message
      <4> QED BY <4>1 DEF Downwards, Message
    <3>4. CASE r = Connect
      <4>1. PICK n \in {0, 1} : reply = Message("connected", n)
        BY <3>4 DEF Answers, Connect, Message
      <4> QED BY <3>4, <4>1 DEF Downwards, Message
    <3> QED BY <2>3, <3>2, <3>3, <3>4 DEF Requests, Greet, Account, Connect
  <2> DEFINE e == Append(d, reply)
  <2>5. /\ e \in Seq(Downwards) /\ Len(e) = Len(d) + 1
        /\ \A i \in 1 .. Len(d) : e[i] = d[i]
        /\ e[Len(d) + 1] = reply
    BY <1>2, <2>4, AppendProperties
  <2>6. proxy' = [proxy EXCEPT !.answered = a + 1, !.down = e]
    BY <2>1
  <2> HIDE DEF e
  <2>7. /\ proxy' \in Proxies /\ proxy'.up = u /\ proxy'.answered = a + 1
        /\ proxy'.down = e
    <3>1. a + 1 \in Nat /\ e \in Seq(Downwards)
      BY <1>4, <2>5
    <3> QED BY <1>1, <2>6, <3>1 DEF Proxies
  <2>8. Replied(proxy')
    <3>1. a + 1 <= Len(u)
      BY <1>4
    <3>2. ASSUME NEW i \in 1 .. Len(e)
          PROVE  /\ e[i].kind # "data" /\ i <= a + 1
                 /\ e[i].kind = "connected" => u[i] = Connect
      <4>1. CASE i \in 1 .. Len(d)
        <5>1. DOMAIN d = 1 .. Len(d)
          BY <1>2, LenProperties
        <5>2. e[i] = d[i] /\ d[i].kind # "data"
          BY <2>2, <2>5, <4>1, <5>1 DEF Payload
        <5>3. i <= a /\ (d[i].kind = "connected" => u[i] = Connect)
          BY <1>1, <4>1, <5>2 DEF Replied
        <5> QED BY <1>2, <4>1, <5>2, <5>3
      <4>2. CASE i = Len(d) + 1
        BY <2>2, <2>4, <2>5, <4>2, <1>2
      <4>3. i \in 1 .. Len(d) \/ i = Len(d) + 1
        BY <1>2, <2>5
      <4> QED BY <4>1, <4>2, <4>3
    <3>3. Payload(e) = {}
      <4>1. DOMAIN e = 1 .. Len(e)
        BY <2>5, LenProperties
      <4> QED BY <3>2, <4>1 DEF Payload
    <3>4. Len(e) = a + 1
      BY <2>2, <2>5
    <3> QED BY <2>7, <3>1, <3>2, <3>3, <3>4 DEF Replied
  <2>9. Len(e) >= Len(d)
    BY <1>2, <2>5
  <2> QED BY <1>3, <2>5, <2>7, <2>8, <2>9, ProxyStep
<1> QED BY <1>6, <1>7

-----------------------------------------------------------------------------
(* Reading                                                                 *)

(* Reading more, or leaving the decrypt loop.                              *)
LEMMA ReadGood ==
  ASSUME NEW p \in Proxies, NEW v, Good(v, p), NEW r \in Nat, r >= v.s5.received,
         r <= Parcel * Len(p.down), NEW l \in {"poll", "decrypt"},
         v.s5.mS5State = "S_END" => l # "decrypt"
  PROVE  Good([v EXCEPT !.s5.received = r, !.loop = l], p)
<1> DEFINE s == [v.s5 EXCEPT !.received = r]
           w == [v EXCEPT !.s5.received = r, !.loop = l]
<1>1. /\ v \in Pairs /\ v.s5.used \in Nat /\ v.s5.received \in Nat
      /\ Parcel * v.s5.used <= v.s5.received
  BY PairFields DEF Good, Counted
<1>2. /\ w \in Pairs /\ w.loop = l /\ w.client = v.client
      /\ w.s5.mS5State = v.s5.mS5State
      /\ w.s5.mAlive = v.s5.mAlive /\ w.s5.mSocket = v.s5.mSocket
      /\ w.s5.mSocks5 = v.s5.mSocks5 /\ w.s5.mOutQueue = v.s5.mOutQueue
      /\ w.s5.mBufferedSize = v.s5.mBufferedSize
      /\ w.s5.used = v.s5.used /\ w.s5.received = r
  <2>1. /\ s \in Tunnels /\ s.mS5State = v.s5.mS5State
        /\ s.mAlive = v.s5.mAlive /\ s.mSocket = v.s5.mSocket
        /\ s.mSocks5 = v.s5.mSocks5 /\ s.mOutQueue = v.s5.mOutQueue
        /\ s.mBufferedSize = v.s5.mBufferedSize
        /\ s.used = v.s5.used /\ s.received = r
    BY <1>1, PairFields DEF Tunnels
  <2>2. w = [v EXCEPT !.s5 = s, !.loop = l]
    BY <1>1 DEF Pairs
  <2> HIDE DEF s, w
  <2>3. w \in Pairs /\ w.s5 = s /\ w.client = v.client /\ w.loop = l
    BY <1>1, <2>1, <2>2 DEF Pairs, Loops
  <2> QED BY <2>1, <2>3
<1> HIDE DEF w, s
<1>3. Exact(w) /\ InOrder(w, p)
  <2>1. SameQueues(w, v) /\ w.s5.used >= v.s5.used
    BY <1>1, <1>2 DEF SameQueues
  <2> QED BY <1>1, <1>2, <2>1, Carried DEF Good
<1>4. Over(w)
  BY <1>2 DEF Good, Over
<1>5. Counted(w, p)
  BY <1>1, <1>2 DEF Counted, Parcel
<1>6. Handed(v, p) => Handed(w, p)
  BY <1>2 DEF Handed
<1> QED BY <1>2, <1>3, <1>4, <1>5, <1>6 DEF Good, w

(* onReadable reads no more than was sent.                                 *)
LEMMA ReadableStep ==
  ASSUME S5Inv, OnReadable
  PROVE  S5Inv'
<1> DEFINE S == {Unread, Parcel * PerCall}
<1>1. /\ proxy \in Proxies /\ Good(Before, proxy) /\ Before \in Pairs
      /\ s5 = Before.s5 /\ loop = Before.loop
  BY DEF S5Inv, Good, Before
<1>2. /\ s5.received \in Nat /\ s5.used \in Nat /\ Len(proxy.down) \in Nat
      /\ s5.received <= 2 * Len(proxy.down)
  BY <1>1, PairFields, LenProperties DEF Proxies, Good, Counted, Parcel
<1>3. Unread \in Nat /\ Unread = 2 * Len(proxy.down) - s5.received
  BY <1>2 DEF Unread, Parcel
<1>4. Min(S) <= Unread /\ Min(S) \in Nat
  <2>1. S \subseteq Nat /\ S # {}
    BY <1>3, ProxyAssumption DEF Parcel
  <2>2. Min(S) \in S /\ \A x \in S : Min(S) <= x
    BY <2>1, MinOfNats
  <2> QED BY <2>1, <2>2
<1>5. PICK k \in 1 .. Min(S) :
        Becomes([Before EXCEPT !.s5.received = @ + k, !.loop = "decrypt"])
  BY DEF OnReadable
<1> HIDE DEF S
<1> DEFINE r == s5.received + k
           w == [Before EXCEPT !.s5.received = r, !.loop = "decrypt"]
<1>6. r \in Nat /\ r >= s5.received /\ r <= Parcel * Len(proxy.down)
  BY <1>2, <1>3, <1>4 DEF Parcel
<1>7. Before.s5.mS5State # "S_END"
  BY <1>1 DEF OnReadable, Polling, Good, Over, EndStates
<1>8. Good(w, proxy)
  BY <1>1, <1>6, <1>7, ReadGood
<1>9. [Before EXCEPT !.s5.received = @ + k, !.loop = "decrypt"] = w
  BY <1>1 DEF Pairs, Tunnels
<1>10. Becomes(w)
  BY <1>5, <1>9
<1> QED BY <1>8, <1>10, TunnelStep DEF OnReadable

(* How many parcels one call of decrypt takes.                             *)
LEMMA DecryptRange ==
  ASSUME NEW r \in Nat, NEW n \in Nat, Parcel * n <= r
  PROVE  /\ decrypt(r, n) \in Nat
         /\ Parcel * (n + decrypt(r, n)) <= r
<1> DEFINE S == {unpack(r) - n, PerCall}
<1>1. unpack(r) - n \in Nat /\ 2 * unpack(r) <= r /\ unpack(r) \in Nat
  BY DEF unpack, Parcel
<1>2. S \subseteq Nat /\ S # {}
  BY <1>1, ProxyAssumption
<1>3. Min(S) \in S /\ \A x \in S : Min(S) <= x
  BY <1>2, MinOfNats
<1>4. decrypt(r, n) = Min(S) /\ unpack(r) - n \in S
  BY DEF decrypt
<1> HIDE DEF S
<1>5. decrypt(r, n) \in Nat /\ decrypt(r, n) <= unpack(r) - n
  BY <1>2, <1>3, <1>4
<1> QED BY <1>1, <1>5 DEF Parcel

(* What one call of decrypt returns.                                       *)
LEMMA DecryptedFields ==
  ASSUME NEW d \in Seq(Downwards), NEW k \in Nat, NEW n \in Nat \ {0}, k + n <= Len(d)
  PROVE  LET ms == SubSeq(d, k + 1, k + n)
         IN  ms \in Seq(Downwards) /\ Len(ms) = n /\ ms[1] = d[k + 1]
<1> DEFINE ms == SubSeq(d, k + 1, k + n)
<1>1. Len(d) \in Nat
  BY LenProperties
<1>2. k + 1 \in Int /\ k + n \in Int /\ k + 1 <= k + n
  OBVIOUS
<1>3. \A i \in k + 1 .. k + n : d[i] \in Downwards
  <2> TAKE i \in k + 1 .. k + n
  <2>1. i \in 1 .. Len(d)
    BY <1>1
  <2> QED BY <2>1, ElementOfSeq
<1>4. /\ ms \in Seq(Downwards) /\ Len(ms) = k + n - (k + 1) + 1
      /\ \A i \in 1 .. k + n - (k + 1) + 1 : ms[i] = d[k + 1 + i - 1]
  BY <1>2, <1>3, SubSeqProperties
<1>5. 1 \in 1 .. k + n - (k + 1) + 1 /\ k + 1 + 1 - 1 = k + 1 /\ k + n - (k + 1) + 1 = n
  OBVIOUS
<1> QED BY <1>4, <1>5

(* The update of what was used.                                            *)
LEMMA UsedFields ==
  ASSUME NEW v \in Pairs, NEW n \in Nat
  PROVE  LET w == [v EXCEPT !.s5.used = n]
         IN  /\ w \in Pairs /\ w.loop = v.loop /\ w.client = v.client
             /\ w.s5.mS5State = v.s5.mS5State
             /\ w.s5.mAlive = v.s5.mAlive /\ w.s5.mSocket = v.s5.mSocket
             /\ w.s5.mSocks5 = v.s5.mSocks5 /\ w.s5.mOutQueue = v.s5.mOutQueue
             /\ w.s5.mBufferedSize = v.s5.mBufferedSize
             /\ w.s5.used = n /\ w.s5.received = v.s5.received
<1> DEFINE s == [v.s5 EXCEPT !.used = n]
           w == [v EXCEPT !.s5.used = n]
<1>1. /\ s \in Tunnels /\ s.mS5State = v.s5.mS5State
      /\ s.mAlive = v.s5.mAlive /\ s.mSocket = v.s5.mSocket
      /\ s.mSocks5 = v.s5.mSocks5 /\ s.mOutQueue = v.s5.mOutQueue
      /\ s.mBufferedSize = v.s5.mBufferedSize
      /\ s.used = n /\ s.received = v.s5.received
  BY PairFields DEF Tunnels
<1>2. w = [v EXCEPT !.s5 = s]
  BY DEF Pairs
<1> HIDE DEF s, w
<1>3. w \in Pairs /\ w.s5 = s /\ w.client = v.client /\ w.loop = v.loop
  BY <1>1, <1>2 DEF Pairs
<1> QED BY <1>1, <1>3 DEF w

(* What the tunnel hands to its client.                                    *)
LEMMA BackFields ==
  ASSUME NEW v \in Pairs, NEW ms \in Seq(Downwards), NEW full \in BOOLEAN
  PROVE  LET w == onTunnelDataBack(v, ms, full)
         IN  /\ w \in Pairs /\ w.loop = v.loop
             /\ w.s5.mS5State = v.s5.mS5State
             /\ w.s5.mAlive = v.s5.mAlive /\ w.s5.mSocket = v.s5.mSocket
             /\ SameQueues(w, v)
             /\ w.s5.used = v.s5.used /\ w.s5.received = v.s5.received
             /\ w.client.back = v.client.back \o ms
<1> DEFINE b == v.client.back \o ms
           c == [v.client EXCEPT !.back = b]
           u == [v EXCEPT !.client.back = @ \o ms]
           w == onTunnelDataBack(v, ms, full)
<1>1. b \in Seq(Downwards)
  BY PairFields, ConcatProperties
<1>2. u = [v EXCEPT !.client = c]
  BY DEF Pairs
<1> HIDE DEF b, u
<1>3. /\ c \in ClientType /\ c.accepted = v.client.accepted
      /\ c.pending = v.client.pending /\ c.back = b
  BY <1>1, PairFields DEF ClientType
<1> HIDE DEF c
<1>4. u \in Pairs /\ u.s5 = v.s5 /\ u.client = c /\ u.loop = v.loop
  BY <1>2, <1>3 DEF Pairs
<1>5. Quiet(pauseReceiveData(u), u) /\ Quiet(u, u)
  BY <1>4, QuietFunctions
<1>6. w = u \/ w = pauseReceiveData(u)
  BY DEF onTunnelDataBack, u
<1>7. Quiet(w, u)
  BY <1>5, <1>6
<1> HIDE DEF w
<1> QED BY <1>3, <1>4, <1>7 DEF Quiet, SameQueues, b, w

(* A round of the decrypt loop that goes on to a handler of the handshake, *)
(* or finds the tunnel ended.                                              *)
LEMMA HandshakeRound ==
  ASSUME NEW p \in Proxies, Replied(p), NEW v, Good(v, p), NEW n \in Nat \ {0},
         Parcel * (v.s5.used + n) <= v.s5.received,
         v.s5.mS5State # "S_TRANS"
  PROVE  Good([v EXCEPT !.s5.used = v.s5.used + n], p)
<1> DEFINE k == v.s5.used + n
           w == [v EXCEPT !.s5.used = k]
<1>1. v \in Pairs /\ v.s5.used \in Nat /\ k \in Nat /\ v.s5.received \in Nat
  BY PairFields DEF Good
<1>2. k >= v.s5.used
  BY <1>1
<1>3. v.s5.mS5State \in EarlyStates \cup EndStates
  BY <1>1, PairFields DEF S5States, EarlyStates, EndStates
<1>4. Parcel * k <= v.s5.received
  OBVIOUS
<1> HIDE DEF k
<1>5. /\ w \in Pairs /\ w.loop = v.loop /\ w.client = v.client
      /\ w.s5.mS5State = v.s5.mS5State
      /\ w.s5.mAlive = v.s5.mAlive /\ w.s5.mSocket = v.s5.mSocket
      /\ w.s5.mSocks5 = v.s5.mSocks5 /\ w.s5.mOutQueue = v.s5.mOutQueue
      /\ w.s5.mBufferedSize = v.s5.mBufferedSize
      /\ w.s5.used = k /\ w.s5.received = v.s5.received
  BY <1>1, UsedFields
<1> HIDE DEF w
<1>6. Exact(w) /\ InOrder(w, p)
  <2>1. SameQueues(w, v) /\ w.s5.used >= v.s5.used
    BY <1>2, <1>5 DEF SameQueues
  <2> QED BY <1>1, <1>5, <2>1, Carried DEF Good
<1>7. Over(w)
  BY <1>5 DEF Good, Over
<1>8. Counted(w, p)
  BY <1>4, <1>5 DEF Good, Counted
<1>9. ASSUME "speaksFirst" \notin Env PROVE Handed(w, p)
  <2>1. CASE v.s5.mS5State \in EndStates
    BY <1>5, <2>1 DEF Handed, EndStates, EarlyStates
  <2>2. CASE v.s5.mS5State \in EarlyStates
    <3>1. v.client.back = <<>>
      BY <1>9, <2>2 DEF Good, Handed
    <3>2. PICK h \in Handshakes : Ordered(v, p, h)
      BY DEF Good, InOrder
    <3>3. p.up \o v.s5.mSocks5.q = h
      BY <1>1, <2>2, <3>2, EarlyWire
    <3>4. /\ Len(h) \in Nat /\ \A i \in 1 .. Len(h) : h[i].kind # "data"
      BY HandshakeTypes, ElementOfSeq, LenProperties, Kinds
    <3>5. /\ p.up \in Seq(Upwards) /\ v.s5.mSocks5.q \in Seq(Upwards)
          /\ Len(p.up) \in Nat /\ Len(v.s5.mSocks5.q) \in Nat
          /\ p.down \in Seq(Downwards) /\ Len(p.down) \in Nat
          /\ DOMAIN p.up = 1 .. Len(p.up) /\ DOMAIN p.down = 1 .. Len(p.down)
      BY <1>1, WireFields, LenProperties
    <3>6. \A i \in 1 .. Len(p.up) : p.up[i].kind # "data"
      <4> DEFINE a == p.up
                 b == v.s5.mSocks5.q
      <4>1. /\ Len(a \o b) = Len(a) + Len(b)
            /\ \A i \in 1 .. Len(a) + Len(b) :
                 (a \o b)[i] = IF i <= Len(a) THEN a[i] ELSE b[i - Len(a)]
        <5>1. a \in Seq(Upwards) /\ b \in Seq(Upwards)
          BY <3>5
        <5> HIDE DEF a, b
        <5> QED BY <5>1, ConcatProperties
      <4>2. Len(a) \in Nat /\ Len(b) \in Nat /\ a \o b = h
        BY <3>3, <3>5
      <4> HIDE DEF a, b
      <4>3. \A i \in 1 .. Len(a) : a[i].kind # "data"
        <5> TAKE i \in 1 .. Len(a)
        <5>1. i \in 1 .. Len(a) + Len(b) /\ i <= Len(a)
          BY <4>2
        <5>2. i \in 1 .. Len(h) /\ a[i] = h[i]
          BY <4>1, <4>2, <5>1
        <5> QED BY <3>4, <5>2
      <4> QED BY <4>3 DEF a
    <3>7. Payload(p.up) = {}
      BY <3>5, <3>6 DEF Payload
    <3>8. Payload(p.down) = {}
      BY <1>9, <3>7 DEF Replied
    <3>9. k \in 0 .. w.s5.used /\ k + 1 > k /\ k + 1 \in Int
      BY <1>1, <1>5
    <3>10. SubSeq(p.down, k + 1, k) = <<>>
      BY <1>1, <3>9, SubSeqEmpty
    <3>11. k <= Len(p.down)
      <4>1. Counted(w, p)
        BY <1>8
      <4> QED BY <1>5, <4>1, UsedIsSent
    <3>12. \A i \in 1 .. k : p.down[i].kind # "data"
      <4> TAKE i \in 1 .. k
      <4>1. i \in 1 .. Len(p.down)
        BY <1>1, <3>5, <3>11
      <4> QED BY <3>5, <3>8, <4>1 DEF Payload
    <3> QED BY <1>5, <3>1, <3>9, <3>10, <3>12 DEF Handed
  <2> QED BY <1>3, <2>1, <2>2
<1> QED BY <1>5, <1>6, <1>7, <1>8, <1>9 DEF Good, w, k

(* A round of the decrypt loop in S_TRANS: the client gets what was        *)
(* decrypted, behind what it has.                                          *)
LEMMA PayloadRound ==
  ASSUME NEW p \in Proxies, NEW v, Good(v, p), NEW n \in Nat \ {0},
         Parcel * (v.s5.used + n) <= v.s5.received,
         v.s5.mS5State = "S_TRANS", NEW full \in BOOLEAN
  PROVE  Good(onTunnelDataBack([v EXCEPT !.s5.used = v.s5.used + n],
                SubSeq(p.down, v.s5.used + 1, v.s5.used + n), full), p)
<1> DEFINE j  == v.s5.used
           k  == j + n
           d  == p.down
           u  == [v EXCEPT !.s5.used = k]
           ms == SubSeq(d, j + 1, k)
           w  == onTunnelDataBack(u, ms, full)
<1>1. /\ v \in Pairs /\ j \in Nat /\ k \in Nat /\ v.s5.received \in Nat
      /\ d \in Seq(Downwards) /\ Len(d) \in Nat
  BY PairFields, WireFields, LenProperties DEF Good
<1>2. k >= j /\ Parcel * k <= v.s5.received /\ k <= Len(d)
  <2>1. v.s5.received <= 2 * Len(d) /\ 2 * k <= v.s5.received
    BY DEF Good, Counted, Parcel
  <2> HIDE DEF d
  <2>2. k <= Len(d)
    BY <1>1, <2>1
  <2> QED BY <1>1, <2>2
<1>3. ms \in Seq(Downwards)
  BY <1>1, <1>2, DecryptedFields
<1> HIDE DEF k, ms
<1>4. /\ u \in Pairs /\ u.loop = v.loop /\ u.client = v.client
      /\ u.s5.mS5State = v.s5.mS5State
      /\ u.s5.mAlive = v.s5.mAlive /\ u.s5.mSocket = v.s5.mSocket
      /\ u.s5.mSocks5 = v.s5.mSocks5 /\ u.s5.mOutQueue = v.s5.mOutQueue
      /\ u.s5.mBufferedSize = v.s5.mBufferedSize
      /\ u.s5.used = k /\ u.s5.received = v.s5.received
  BY <1>1, UsedFields
<1> HIDE DEF u
<1>5. /\ w \in Pairs /\ w.loop = u.loop
      /\ w.s5.mS5State = u.s5.mS5State
      /\ w.s5.mAlive = u.s5.mAlive /\ w.s5.mSocket = u.s5.mSocket
      /\ SameQueues(w, u)
      /\ w.s5.used = u.s5.used /\ w.s5.received = u.s5.received
      /\ w.client.back = u.client.back \o ms
  BY <1>3, <1>4, BackFields
<1> HIDE DEF w
<1>6. Exact(w) /\ InOrder(w, p)
  <2>1. SameQueues(w, v) /\ w.s5.used >= v.s5.used
    BY <1>2, <1>4, <1>5 DEF SameQueues
  <2> QED BY <1>1, <1>5, <2>1, Carried DEF Good
<1>7. Over(w)
  BY <1>4, <1>5 DEF Good, Over
<1>8. Counted(w, p)
  BY <1>2, <1>4, <1>5 DEF Good, Counted
<1>9. ASSUME "speaksFirst" \notin Env PROVE Handed(w, p)
  <2>1. w.s5.mS5State \notin EarlyStates
    BY <1>4, <1>5 DEF EarlyStates
  <2>2. PICK h \in 0 .. j : /\ \A i \in 1 .. h : d[i].kind # "data"
                            /\ v.client.back = SubSeq(d, h + 1, j)
    BY <1>9 DEF Good, Handed, EndStates
  <2>3. w.client.back = SubSeq(d, h + 1, j) \o SubSeq(d, j + 1, k)
    BY <1>4, <1>5, <2>2 DEF ms
  <2>4. h \in Nat /\ h <= j
    BY <1>1, <2>2
  <2>5. h + 1 \in 1 .. Len(d) + 1 /\ j \in (h + 1) - 1 .. Len(d) /\ k \in j .. Len(d)
    BY <1>1, <1>2, <2>4
  <2>6. w.client.back = SubSeq(d, h + 1, k)
    BY <1>1, <2>3, <2>5, ConcatAdjacentSubSeq
  <2>7. h \in 0 .. w.s5.used
    BY <1>1, <1>2, <1>4, <1>5, <2>4
  <2> QED BY <1>4, <1>5, <2>1, <2>2, <2>6, <2>7 DEF Handed
<1> QED BY <1>5, <1>6, <1>7, <1>8, <1>9 DEF Good, w, u, ms, k

(* A round of the decrypt loop, in whatever state it finds the tunnel.     *)
LEMMA DecryptStep ==
  ASSUME S5Inv, Decrypt
  PROVE  S5Inv'
<1> DEFINE n  == decrypt(s5.received, s5.used)
           k  == s5.used + n
           ms == SubSeq(proxy.down, s5.used + 1, k)
           v  == [Before EXCEPT !.s5.used = @ + n]
<1>1. /\ proxy \in Proxies /\ Replied(proxy) /\ Good(Before, proxy) /\ Before \in Pairs
      /\ s5 = Before.s5 /\ loop = Before.loop
  BY DEF S5Inv, Good, Before
<1>2. /\ s5.received \in Nat /\ s5.used \in Nat /\ Parcel * s5.used <= s5.received
      /\ s5.received <= Parcel * Len(proxy.down)
      /\ proxy.down \in Seq(Downwards) /\ Len(proxy.down) \in Nat
  BY <1>1, PairFields, WireFields, LenProperties DEF Good, Counted
<1>3. n \in Nat /\ Parcel * (s5.used + n) <= s5.received
  BY <1>2, DecryptRange
<1>4. IF n = 0 THEN Becomes([Before EXCEPT !.loop = "poll"])
      ELSE \E stays, full \in BOOLEAN : Becomes(handleBack(v, ms, stays, full))
  BY DEF Decrypt
<1>5. v = [Before EXCEPT !.s5.used = Before.s5.used + n]
  BY <1>1 DEF Pairs, Tunnels
<1> HIDE DEF n, v
<1>6. CASE n = 0
  <2> DEFINE r == s5.received
             w == [Before EXCEPT !.s5.received = r, !.loop = "poll"]
  <2>1. r \in Nat /\ r >= s5.received /\ r <= Parcel * Len(proxy.down)
    BY <1>2
  <2>2. Good(w, proxy)
    BY <1>1, <2>1, ReadGood
  <2>3. w = [Before EXCEPT !.loop = "poll"]
    BY <1>1 DEF Pairs, Tunnels
  <2>4. Becomes(w)
    BY <1>4, <1>6, <2>3
  <2> QED BY <2>2, <2>4, TunnelStep DEF Decrypt
<1>7. CASE n # 0
  <2>1. PICK stays, full \in BOOLEAN : Becomes(handleBack(v, ms, stays, full))
    BY <1>4, <1>7
  <2>2. n \in Nat \ {0} /\ k <= Len(proxy.down) /\ k = s5.used + n
    BY <1>2, <1>3, <1>7 DEF Parcel
  <2>3. ms \in Seq(Downwards) /\ Len(ms) = n /\ ms[1] = proxy.down[s5.used + 1]
    BY <1>2, <2>2, DecryptedFields
  <2>4. ms # <<>>
    BY <1>7, <2>3
  <2> HIDE DEF ms
  <2>5. /\ v.s5.mS5State = s5.mS5State /\ v.loop = loop
        /\ v.s5.used = k /\ k \in Nat
    <3>1. s5.used + n \in Nat
      BY <1>2, <1>3
    <3> QED BY <1>1, <1>5, <3>1, UsedFields
  <2>6. CASE s5.mS5State = "S_TRANS"
    <3>1. Good(onTunnelDataBack(v, ms, full), proxy)
      BY <1>1, <1>3, <1>5, <2>2, <2>6, PayloadRound DEF ms
    <3>2. handleBack(v, ms, stays, full) = onTunnelDataBack(v, ms, full)
      BY <2>5, <2>6 DEF handleBack
    <3> QED BY <2>1, <3>1, <3>2, TunnelStep DEF Decrypt
  <2>7. CASE s5.mS5State # "S_TRANS"
    <3>1. Good(v, proxy)
      BY <1>1, <1>3, <1>5, <2>2, <2>7, HandshakeRound
    <3>2. Knows(v, proxy, ms[1])
      <4>1. s5.used + 1 \in 1 .. k
        BY <1>2, <2>2
      <4> QED BY <2>3, <2>5, <4>1 DEF Knows
    <3> SUFFICES Good(handleBack(v, ms, stays, full), proxy)
      BY <2>1, TunnelStep DEF Decrypt
    <3>3. v.s5.mS5State \in EarlyStates \cup EndStates
      BY <1>1, <2>5, <2>7, PairFields DEF S5States, EarlyStates, EndStates
    <3>4. CASE v.s5.mS5State = "S_INIT"
      BY <3>1, <3>4 DEF handleBack
    <3>5. CASE v.s5.mS5State = "S_GREET"
      BY <1>1, <2>3, <2>4, <3>1, <3>2, <3>5, AwaitGood DEF handleBack
    <3>6. CASE v.s5.mS5State = "S_VERIFY"
      BY <1>1, <2>3, <2>4, <3>1, <3>2, <3>6, AwaitGood DEF handleBack
    <3>7. CASE v.s5.mS5State = "S_CONNECT"
      BY <1>1, <2>3, <2>4, <3>1, <3>2, <3>7, ConnBackGood DEF handleBack
    <3>8. CASE v.s5.mS5State \in EndStates
      <4>1. handleBack(v, ms, stays, full) = switchS5State(v, "S_FAILED", stays)
        BY <3>8 DEF handleBack, EndStates
      <4>2. Good(switchS5State(v, "S_FAILED", stays), proxy)
        BY <3>1, EndGood DEF EndStates
      <4> QED BY <4>1, <4>2
    <3> QED BY <3>3, <3>4, <3>5, <3>6, <3>7, <3>8 DEF EarlyStates
  <2> QED BY <2>6, <2>7
<1> QED BY <1>6, <1>7

(* The connection ends, by the proxy, an error or an exception.            *)
LEMMA EndSteps ==
  ASSUME S5Inv, OnReadEnd \/ OnReadError \/ OnException
  PROVE  S5Inv'
<1>1. PICK state \in EndStates, stays \in BOOLEAN :
        Becomes(switchS5State(Before, state, stays))
  BY DEF OnReadEnd, OnReadError, OnException, EndStates
<1>2. Before.loop = "poll" /\ UNCHANGED proxy
  BY DEF OnReadEnd, OnReadError, OnException, Polling, Before
<1>3. Good(switchS5State(Before, state, stays), proxy)
  BY <1>2, EndGood DEF S5Inv
<1> QED BY <1>1, <1>2, <1>3, TunnelStep

-----------------------------------------------------------------------------
(* Sending                                                                 *)

(* A queue of which k units are sent: whole segments leave it, and its     *)
(* size is smaller by k.                                                   *)
LEMMA SentQueue ==
  ASSUME NEW S, NEW c \in QueueType(S), NEW k \in 0 .. Units(c)
  PROVE  LET gone == (c.off + k) \div Parcel
             e    == [q |-> SubSeq(c.q, gone + 1, Len(c.q)), off |-> (c.off + k) % Parcel]
         IN  /\ gone \in 0 .. Len(c.q) /\ e \in QueueType(S)
             /\ Units(e) = Units(c) - k /\ Units(e) \in Nat
<1> DEFINE x    == c.off + k
           gone == x \div Parcel
           l    == Len(c.q)
           e    == [q |-> SubSeq(c.q, gone + 1, Len(c.q)), off |-> x % Parcel]
<1>1. c.q \in Seq(S) /\ l \in Nat /\ c.off \in {0, 1}
  BY LenProperties DEF QueueType, Parcel
<1>2. Units(c) = 2 * l - c.off /\ Units(c) \in Int /\ k \in Nat /\ k <= Units(c)
  BY <1>1 DEF Units, Parcel
<1>3. x \in Nat /\ x <= 2 * l
  BY <1>1, <1>2
<1>4. e.q = SubSeq(c.q, gone + 1, l) /\ e.off = x % 2 /\ gone = x \div 2
  BY DEF Parcel
<1> HIDE DEF x, gone, l, e
<1>5. /\ gone \in Nat /\ gone <= l /\ x % 2 \in {0, 1} /\ x = 2 * gone + (x % 2)
  <2>1. x \div 2 \in Nat /\ x % 2 \in {0, 1} /\ x = 2 * (x \div 2) + (x % 2)
    BY <1>3
  <2>2. x \div 2 <= l
    BY <1>1, <1>3, <2>1
  <2> QED BY <1>4, <2>1, <2>2
<1>6. e.q \in Seq(S) /\ Len(e.q) = l - gone
  BY <1>1, <1>4, <1>5, SplitSeq DEF l
<1>7. Units(e) = 2 * (l - gone) - (x % 2)
  <2>1. Units(e) = 2 * Len(e.q) - e.off
    BY DEF Units, Parcel
  <2> QED BY <1>4, <1>6, <2>1
<1>8. Units(e) = Units(c) - k
  <2>1. x % 2 = x - 2 * gone /\ gone \in Nat
    BY <1>3, <1>5
  <2>2. Units(e) = 2 * (l - gone) - (x - 2 * gone)
    BY <1>7, <2>1
  <2>3. 2 * (l - gone) - (x - 2 * gone) = 2 * l - x
    BY <1>1, <1>3, <2>1
  <2> DEFINE o == c.off
  <2>4. x = o + k /\ o \in Int /\ Units(c) = 2 * l - o
    BY <1>1, <1>2 DEF x
  <2> HIDE DEF o
  <2>5. 2 * l - x = (2 * l - o) - k
    BY <1>1, <1>2, <2>4
  <2> QED BY <2>2, <2>3, <2>4, <2>5
<1>9. e \in QueueType(S)
  <2>1. e = [q |-> e.q, off |-> e.off]
    BY DEF e
  <2>2. e.off \in 0 .. (Parcel - 1)
    BY <1>4, <1>5 DEF Parcel
  <2> QED BY <1>6, <2>1, <2>2 DEF QueueType
<1>10. gone \in 0 .. l /\ Units(e) \in Nat
  BY <1>1, <1>2, <1>5, <1>8
<1> QED BY <1>8, <1>9, <1>10 DEF x, gone, l, e

RequestQueues == QueueType(Requests)
PayloadQueues == QueueType(Upwards \ Requests)

(* The pair v with other queues, when something was sent.                  *)
Sent(v, a, c, size, b) ==
  [v EXCEPT !.s5.mSocks5 = a, !.s5.mOutQueue = c, !.s5.mBufferedSize = size, !.s5.wr = b]

(* What changes when something is sent.                                    *)
LEMMA SentFields ==
  ASSUME NEW v \in Pairs, NEW a \in RequestQueues, NEW c \in PayloadQueues,
         NEW size \in Nat, NEW b \in BOOLEAN
  PROVE  LET w == Sent(v, a, c, size, b)
         IN  /\ w \in Pairs /\ w.loop = v.loop /\ w.client = v.client
             /\ w.s5.mS5State = v.s5.mS5State
             /\ w.s5.mAlive = v.s5.mAlive /\ w.s5.mSocket = v.s5.mSocket
             /\ w.s5.mSocks5 = a /\ w.s5.mOutQueue = c /\ w.s5.mBufferedSize = size
             /\ w.s5.used = v.s5.used /\ w.s5.received = v.s5.received
<1> DEFINE s == [v.s5 EXCEPT !.mSocks5 = a, !.mOutQueue = c, !.mBufferedSize = size, !.wr = b]
           w == Sent(v, a, c, size, b)
<1>1. /\ s \in Tunnels /\ s.mS5State = v.s5.mS5State
      /\ s.mAlive = v.s5.mAlive /\ s.mSocket = v.s5.mSocket
      /\ s.mSocks5 = a /\ s.mOutQueue = c /\ s.mBufferedSize = size
      /\ s.used = v.s5.used /\ s.received = v.s5.received
  BY PairFields DEF Tunnels, RequestQueues, PayloadQueues
<1>2. w = [v EXCEPT !.s5 = s]
  BY DEF Pairs, Tunnels, Sent
<1> HIDE DEF s, w
<1>3. w \in Pairs /\ w.s5 = s /\ w.client = v.client /\ w.loop = v.loop
  BY <1>1, <1>2 DEF Pairs
<1> QED BY <1>1, <1>3 DEF w

(* What the proxy has been sent grows at its end.                          *)
LEMMA MoreUp ==
  ASSUME NEW p \in Proxies, Replied(p), NEW f \in Seq(Upwards)
  PROVE  LET r == [p EXCEPT !.up = @ \o f]
         IN  r \in Proxies /\ Replied(r) /\ r.down = p.down /\ r.up = p.up \o f
<1> DEFINE u == p.up
           t == u \o f
           r == [p EXCEPT !.up = @ \o f]
<1>1. u \in Seq(Upwards) /\ Len(u) \in Nat /\ Len(f) \in Nat /\ p.answered \in Nat
  BY LenProperties DEF Proxies
<1> HIDE DEF u
<1>2. /\ t \in Seq(Upwards) /\ Len(t) = Len(u) + Len(f)
      /\ \A i \in 1 .. Len(u) + Len(f) : t[i] = IF i <= Len(u) THEN u[i] ELSE f[i - Len(u)]
  BY <1>1, ConcatProperties
<1>3. /\ r \in Proxies /\ r.up = t /\ r.down = p.down /\ r.answered = p.answered
  <2>1. r = [p EXCEPT !.up = t]
    BY DEF u, Proxies
  <2> HIDE DEF r, t
  <2> QED BY <1>2, <2>1 DEF Proxies
<1> HIDE DEF t, r
<1>4. Len(t) >= Len(u) /\ \A i \in 1 .. Len(u) : t[i] = u[i]
  <2>1. \A i \in 1 .. Len(u) : i \in 1 .. Len(u) + Len(f) /\ i <= Len(u)
    BY <1>1
  <2> QED BY <1>1, <1>2, <2>1
<1>5. p.answered <= Len(u)
  BY DEF Replied, u
<1>6. \A i \in 1 .. p.answered : t[i] = u[i]
  BY <1>1, <1>4, <1>5
<1>7. ASSUME NEW i \in 1 .. Len(p.down), p.down[i].kind # "data"
      PROVE  i <= p.answered /\ (p.down[i].kind = "connected" => t[i] = Connect)
  <2>1. i <= p.answered /\ (p.down[i].kind = "connected" => u[i] = Connect)
    BY <1>7 DEF Replied, u
  <2>2. i \in 1 .. p.answered
    BY <1>1, <2>1
  <2> QED BY <1>6, <2>1, <2>2
<1>8. Payload(u) # {} => Payload(t) # {}
  <2>1. DOMAIN u = 1 .. Len(u) /\ DOMAIN t = 1 .. Len(t)
    BY <1>1, <1>2, LenProperties
  <2>2. \A i \in 1 .. Len(u) : i \in 1 .. Len(t)
    BY <1>1, <1>2
  <2> QED BY <1>4, <2>1, <2>2 DEF Payload
<1>9. p.answered <= Len(t)
  BY <1>1, <1>2, <1>5
<1>10. Replied(r)
  BY <1>3, <1>6, <1>7, <1>8, <1>9 DEF Replied, u
<1> QED BY <1>3, <1>10 DEF r, t, u

(* What is on the wire stays there when some of it is sent.                *)
LEMMA SentGood ==
  ASSUME NEW p \in Proxies, NEW r \in Proxies, r.down = p.down,
         NEW v, Good(v, p), NEW w \in Pairs,
         w.loop = v.loop, w.client = v.client, w.s5.mS5State = v.s5.mS5State,
         w.s5.mAlive = v.s5.mAlive, w.s5.mSocket = v.s5.mSocket,
         w.s5.used = v.s5.used, w.s5.received = v.s5.received,
         Exact(w), OnWire(w, r) = OnWire(v, p),
         v.s5.mS5State \in EarlyStates => w.s5.mOutQueue.q = <<>>,
         v.s5.mS5State = "S_TRANS" => w.s5.mSocks5.q = <<>>
  PROVE  Good(w, r)
<1>1. \A m : Knows(v, p, m) => Knows(w, r, m)
  BY DEF Knows
<1>2. PICK h \in Handshakes : Ordered(v, p, h)
  BY DEF Good, InOrder
<1>3. Given(w) = Given(v)
  BY DEF Given
<1>4. Ordered(w, r, h)
  BY <1>1, <1>2, <1>3 DEF Ordered
<1>5. Over(w) /\ Counted(w, r)
  BY DEF Good, Over, Counted
<1>6. Handed(v, p) => Handed(w, r)
  BY DEF Handed
<1> QED BY <1>4, <1>5, <1>6 DEF Good, InOrder

(* A step in which the tunnel sends.                                       *)
LEMMA SendStep ==
  ASSUME S5Inv, NEW f \in Seq(Upwards), NEW w, Becomes(w),
         proxy' = [proxy EXCEPT !.up = @ \o f], Good(w, [proxy EXCEPT !.up = @ \o f])
  PROVE  S5Inv'
<1>1. proxy' \in Proxies /\ Replied(proxy')
  BY MoreUp DEF S5Inv
<1>2. Before' = w /\ settings' = settings
  BY BecomesIs DEF Good
<1>3. Good(Before', proxy')
  BY <1>2
<1> QED BY <1>1, <1>2, <1>3 DEF S5Inv

(* Payload is sent: the requests are all gone.                             *)
LEMMA PayloadSent ==
  ASSUME S5Inv, sendQueue("mOutQueue"), s5.mS5State = "S_TRANS"
  PROVE  S5Inv'
<1> DEFINE c == s5.mOutQueue
<1>1. /\ proxy \in Proxies /\ Replied(proxy) /\ Good(Before, proxy) /\ Before \in Pairs
      /\ s5 = Before.s5
  BY DEF S5Inv, Good, Before
<1>2. /\ c \in QueueType(Upwards \ Requests) /\ s5.mSocks5 \in QueueType(Requests)
      /\ s5.mBufferedSize \in Nat /\ s5.wr \in BOOLEAN
  BY <1>1, PairFields
<1>3. /\ s5.mBufferedSize = Units(s5.mSocks5) + Units(c)
      /\ Units(s5.mSocks5) >= 0 /\ Units(c) >= 0
  BY <1>1 DEF Good, Exact
<1>4. PICK k \in (IF proxy.conn = "up" THEN 1 ELSE 0) .. Units(c) :
        LET gone == (c.off + k) \div Parcel
        IN  /\ Becomes([Before EXCEPT
                          !.s5["mOutQueue"] = [q   |-> SubSeq(c.q, gone + 1, Len(c.q)),
                                               off |-> (c.off + k) % Parcel],
                          !.s5.mBufferedSize = @ - k,
                          !.s5.wr = @ /\ k > 0])
            /\ proxy' = [proxy EXCEPT !.up = @ \o SubSeq(c.q, 1, gone)]
  BY DEF sendQueue
<1>5. k \in 0 .. Units(c)
  OBVIOUS
<1>12. PICK b \in BOOLEAN : b = (s5.wr /\ k > 0)
  OBVIOUS
<1> DEFINE gone == (c.off + k) \div Parcel
           e    == [q |-> SubSeq(c.q, gone + 1, Len(c.q)), off |-> (c.off + k) % Parcel]
           f    == SubSeq(c.q, 1, gone)
           size == s5.mBufferedSize - k
           w    == Sent(Before, s5.mSocks5, e, size, b)
           r    == [proxy EXCEPT !.up = @ \o f]
<1>6. /\ gone \in 0 .. Len(c.q) /\ e \in QueueType(Upwards \ Requests)
      /\ Units(e) = Units(c) - k /\ Units(e) \in Nat
  BY <1>2, <1>5, SentQueue
<1>7. e.q = SubSeq(c.q, gone + 1, Len(c.q))
  OBVIOUS
<1> DEFINE x    == [Before EXCEPT !.s5["mOutQueue"] = e, !.s5.mBufferedSize = @ - k,
                                  !.s5.wr = @ /\ k > 0]
<1>8. Becomes(x) /\ proxy' = r
  BY <1>4
<1> HIDE DEF gone, e
<1>9. x = w
  BY <1>1, <1>2, <1>12 DEF Pairs, Tunnels, Sent
<1> HIDE DEF x
<1>10. Units(c) \in Int /\ Units(s5.mSocks5) \in Int
  <2>1. c.q \in Seq(Upwards) /\ s5.mSocks5.q \in Seq(Upwards)
        /\ c.off \in {0, 1} /\ s5.mSocks5.off \in {0, 1}
    BY <1>1, WireFields
  <2>2. Len(c.q) \in Nat /\ Len(s5.mSocks5.q) \in Nat
    BY <2>1, LenProperties
  <2> QED BY <2>1, <2>2 DEF Units, Parcel
<1>11. size \in Nat /\ size = Units(s5.mSocks5) + Units(e)
  BY <1>3, <1>5, <1>6, <1>10
<1> HIDE DEF size
<1>13. /\ w \in Pairs /\ w.loop = Before.loop /\ w.client = Before.client
       /\ w.s5.mS5State = s5.mS5State
       /\ w.s5.mAlive = s5.mAlive /\ w.s5.mSocket = s5.mSocket
       /\ w.s5.mSocks5 = s5.mSocks5 /\ w.s5.mOutQueue = e /\ w.s5.mBufferedSize = size
       /\ w.s5.used = s5.used /\ w.s5.received = s5.received
  <2> DEFINE y == s5.mSocks5
  <2>1. /\ Before \in Pairs /\ y \in RequestQueues /\ e \in PayloadQueues
        /\ size \in Nat /\ b \in BOOLEAN
    BY <1>1, <1>2, <1>6, <1>11 DEF RequestQueues, PayloadQueues
  <2>2. w = Sent(Before, y, e, size, b)
    OBVIOUS
  <2> HIDE DEF y, w
  <2>3. /\ w \in Pairs /\ w.loop = Before.loop /\ w.client = Before.client
        /\ w.s5.mS5State = Before.s5.mS5State
        /\ w.s5.mAlive = Before.s5.mAlive /\ w.s5.mSocket = Before.s5.mSocket
        /\ w.s5.mSocks5 = y /\ w.s5.mOutQueue = e /\ w.s5.mBufferedSize = size
        /\ w.s5.used = Before.s5.used /\ w.s5.received = Before.s5.received
    BY <2>1, <2>2, SentFields
  <2> QED BY <1>1, <2>3 DEF y
<1> HIDE DEF w
<1>14. Exact(w)
  BY <1>3, <1>6, <1>11, <1>13 DEF Exact
<1>15. c.q \in Seq(Upwards) /\ proxy.up \in Seq(Upwards)
  BY <1>1, WireFields
<1>16. f \in Seq(Upwards)
  BY <1>6, <1>15, SplitSeq
<1>17. r \in Proxies /\ r.down = proxy.down /\ r.up = proxy.up \o f
  BY <1>1, <1>16, MoreUp
<1> HIDE DEF r
<1>18. s5.mSocks5.q = <<>>
  BY <1>1 DEF Good, InOrder, Ordered
<1>19. OnWire(w, r) = OnWire(Before, proxy)
  <2>1. (proxy.up \o f) \o e.q \o <<>> = proxy.up \o c.q \o <<>>
    <3> DEFINE a == proxy.up
               q == c.q
               t == <<>>
    <3>1. a \in Seq(Upwards) /\ q \in Seq(Upwards) /\ t \in Seq(Upwards)
          /\ gone \in 0 .. Len(q)
      BY <1>6, <1>15
    <3> HIDE DEF a, q, t
    <3>2. (a \o SubSeq(q, 1, gone)) \o SubSeq(q, gone + 1, Len(q)) \o t = a \o q \o t
      BY <3>1, Moved
    <3> QED BY <1>7, <3>2 DEF a, q, t
  <2>2. e.q \in Seq(Upwards)
    BY <1>6, <1>7, <1>15, SplitSeq
  <2>3. proxy.up \o f \in Seq(Upwards)
    BY <1>15, <1>16, ConcatProperties
  <2>4. (proxy.up \o f) \o e.q \in Seq(Upwards) /\ proxy.up \o c.q \in Seq(Upwards)
    BY <1>15, <2>2, <2>3, ConcatProperties
  <2>5. (proxy.up \o f) \o e.q = proxy.up \o c.q
    BY <2>1, <2>4, ConcatEmptySeq
  <2>6. OnWire(w, r) = (proxy.up \o f) \o e.q
    BY <1>13, <1>17, <1>18, <2>3, ConcatEmptySeq DEF OnWire
  <2>7. OnWire(Before, proxy) = proxy.up \o c.q
    BY <1>1, <1>15, <1>18, ConcatEmptySeq DEF OnWire
  <2> QED BY <2>5, <2>6, <2>7
<1>20. Good(w, r)
  BY <1>1, <1>13, <1>14, <1>17, <1>18, <1>19, SentGood DEF EarlyStates
<1> QED BY <1>8, <1>9, <1>16, <1>20, SendStep DEF r

(* Requests are sent: the payload behind them stays.                       *)
LEMMA RequestsSent ==
  ASSUME S5Inv, sendQueue("mSocks5"), s5.mS5State # "S_TRANS"
  PROVE  S5Inv'
<1> DEFINE c == s5.mSocks5
<1>1. /\ proxy \in Proxies /\ Replied(proxy) /\ Good(Before, proxy) /\ Before \in Pairs
      /\ s5 = Before.s5
  BY DEF S5Inv, Good, Before
<1>2. /\ c \in QueueType(Requests) /\ s5.mOutQueue \in QueueType(Upwards \ Requests)
      /\ s5.mBufferedSize \in Nat /\ s5.wr \in BOOLEAN
  BY <1>1, PairFields
<1>3. /\ s5.mBufferedSize = Units(c) + Units(s5.mOutQueue)
      /\ Units(c) >= 0 /\ Units(s5.mOutQueue) >= 0
  BY <1>1 DEF Good, Exact
<1>4. PICK k \in (IF proxy.conn = "up" THEN 1 ELSE 0) .. Units(c) :
        LET gone == (c.off + k) \div Parcel
        IN  /\ Becomes([Before EXCEPT
                          !.s5["mSocks5"] = [q   |-> SubSeq(c.q, gone + 1, Len(c.q)),
                                             off |-> (c.off + k) % Parcel],
                          !.s5.mBufferedSize = @ - k,
                          !.s5.wr = @ /\ k > 0])
            /\ proxy' = [proxy EXCEPT !.up = @ \o SubSeq(c.q, 1, gone)]
  BY DEF sendQueue
<1>5. k \in 0 .. Units(c)
  OBVIOUS
<1>12. PICK b \in BOOLEAN : b = (s5.wr /\ k > 0)
  OBVIOUS
<1> DEFINE gone == (c.off + k) \div Parcel
           e    == [q |-> SubSeq(c.q, gone + 1, Len(c.q)), off |-> (c.off + k) % Parcel]
           f    == SubSeq(c.q, 1, gone)
           size == s5.mBufferedSize - k
           w    == Sent(Before, e, s5.mOutQueue, size, b)
           r    == [proxy EXCEPT !.up = @ \o f]
<1>6. /\ gone \in 0 .. Len(c.q) /\ e \in QueueType(Requests)
      /\ Units(e) = Units(c) - k /\ Units(e) \in Nat
  BY <1>2, <1>5, SentQueue
<1>7. e.q = SubSeq(c.q, gone + 1, Len(c.q))
  OBVIOUS
<1> DEFINE x    == [Before EXCEPT !.s5["mSocks5"] = e, !.s5.mBufferedSize = @ - k,
                                  !.s5.wr = @ /\ k > 0]
<1>8. Becomes(x) /\ proxy' = r
  BY <1>4
<1> HIDE DEF gone, e
<1>9. x = w
  BY <1>1, <1>2, <1>12 DEF Pairs, Tunnels, Sent
<1> HIDE DEF x
<1>10. Units(c) \in Int /\ Units(s5.mOutQueue) \in Int
  <2>1. c.q \in Seq(Upwards) /\ s5.mOutQueue.q \in Seq(Upwards)
        /\ c.off \in {0, 1} /\ s5.mOutQueue.off \in {0, 1}
    BY <1>1, WireFields
  <2>2. Len(c.q) \in Nat /\ Len(s5.mOutQueue.q) \in Nat
    BY <2>1, LenProperties
  <2> QED BY <2>1, <2>2 DEF Units, Parcel
<1>11. size \in Nat /\ size = Units(e) + Units(s5.mOutQueue)
  BY <1>3, <1>5, <1>6, <1>10
<1> HIDE DEF size
<1>13. /\ w \in Pairs /\ w.loop = Before.loop /\ w.client = Before.client
       /\ w.s5.mS5State = s5.mS5State
       /\ w.s5.mAlive = s5.mAlive /\ w.s5.mSocket = s5.mSocket
       /\ w.s5.mSocks5 = e /\ w.s5.mOutQueue = s5.mOutQueue /\ w.s5.mBufferedSize = size
       /\ w.s5.used = s5.used /\ w.s5.received = s5.received
  <2> DEFINE y == s5.mOutQueue
  <2>1. /\ Before \in Pairs /\ e \in RequestQueues /\ y \in PayloadQueues
        /\ size \in Nat /\ b \in BOOLEAN
    BY <1>1, <1>2, <1>6, <1>11 DEF RequestQueues, PayloadQueues
  <2>2. w = Sent(Before, e, y, size, b)
    OBVIOUS
  <2> HIDE DEF y, w
  <2>3. /\ w \in Pairs /\ w.loop = Before.loop /\ w.client = Before.client
        /\ w.s5.mS5State = Before.s5.mS5State
        /\ w.s5.mAlive = Before.s5.mAlive /\ w.s5.mSocket = Before.s5.mSocket
        /\ w.s5.mSocks5 = e /\ w.s5.mOutQueue = y /\ w.s5.mBufferedSize = size
        /\ w.s5.used = Before.s5.used /\ w.s5.received = Before.s5.received
    BY <2>1, <2>2, SentFields
  <2> QED BY <1>1, <2>3 DEF y
<1> HIDE DEF w
<1>14. Exact(w)
  BY <1>3, <1>6, <1>11, <1>13 DEF Exact
<1>15. /\ c.q \in Seq(Upwards) /\ proxy.up \in Seq(Upwards)
       /\ s5.mOutQueue.q \in Seq(Upwards)
  BY <1>1, WireFields
<1>16. f \in Seq(Upwards)
  BY <1>6, <1>15, SplitSeq
<1>17. r \in Proxies /\ r.down = proxy.down /\ r.up = proxy.up \o f
  BY <1>1, <1>16, MoreUp
<1> HIDE DEF r
<1>18. OnWire(w, r) = OnWire(Before, proxy)
  <2>1. (proxy.up \o f) \o e.q \o s5.mOutQueue.q = proxy.up \o c.q \o s5.mOutQueue.q
    <3> DEFINE a == proxy.up
               q == c.q
               t == s5.mOutQueue.q
    <3>1. a \in Seq(Upwards) /\ q \in Seq(Upwards) /\ t \in Seq(Upwards)
          /\ gone \in 0 .. Len(q)
      BY <1>6, <1>15
    <3> HIDE DEF a, q, t
    <3>2. (a \o SubSeq(q, 1, gone)) \o SubSeq(q, gone + 1, Len(q)) \o t = a \o q \o t
      BY <3>1, Moved
    <3> QED BY <1>7, <3>2 DEF a, q, t
  <2> QED BY <1>1, <1>13, <1>17, <2>1 DEF OnWire
<1>19. s5.mS5State \in EarlyStates => w.s5.mOutQueue.q = <<>>
  BY <1>1, <1>13 DEF Good, InOrder, Ordered
<1>20. Good(w, r)
  BY <1>1, <1>13, <1>14, <1>17, <1>18, <1>19, SentGood
<1> QED BY <1>8, <1>9, <1>16, <1>20, SendStep DEF r

(* A client that is asked for more, and may be told to be quiet.           *)
LEMMA AskStep ==
  ASSUME S5Inv, AskClient, s5.mS5State = "S_TRANS"
  PROVE  S5Inv'
<1> DEFINE v == onTunnelWritable(Before)
           x == v.s5.wr /\ ~(v.client.pending = client.pending /\ v.loop # "spin")
<1>1. proxy \in Proxies /\ Good(Before, proxy) /\ Before.s5.mS5State = "S_TRANS"
  BY DEF S5Inv, Before
<1>2. Good(v, proxy)
  BY <1>1, onTunnelWritableGood
<1>3. Becomes([v EXCEPT !.s5.wr = @ /\ ~(v.client.pending = client.pending
                                         /\ v.loop # "spin")])
  BY DEF AskClient
<1>4. PICK b \in BOOLEAN : b = x
  OBVIOUS
<1> HIDE DEF v
<1>5. [v EXCEPT !.s5.wr = @ /\ ~(v.client.pending = client.pending /\ v.loop # "spin")]
        = [v EXCEPT !.s5.wr = b]
  BY <1>4
<1> DEFINE w == [v EXCEPT !.s5.wr = b]
<1>6. Becomes(w)
  BY <1>3, <1>5
<1>7. Quiet(w, v)
  BY <1>2, QuietFunctions DEF Good
<1>8. Good(w, proxy)
  BY <1>2, <1>7, QuietGood
<1> QED BY <1>6, <1>8, TunnelStep DEF AskClient

(* onWritable in each of its cases.                                        *)
LEMMA WritableStep ==
  ASSUME S5Inv, OnWritable
  PROVE  S5Inv'
<1>1. proxy \in Proxies /\ Good(Before, proxy) /\ Before \in Pairs /\ s5 = Before.s5
  BY DEF S5Inv, Good, Before
<1>2. CASE s5.mS5State = "S_TRANS" /\ sendQueue("mOutQueue")
  BY <1>2, PayloadSent
<1>3. CASE s5.mS5State = "S_TRANS" /\ AskClient
  BY <1>3, AskStep
<1>4. CASE /\ s5.mS5State = "S_INIT"
           /\ Becomes(switchS5State(sendS5Greet(Before), "S_GREET", TRUE))
           /\ UNCHANGED proxy
  <2> DEFINE u == encryptAndQueue(Before, "mSocks5", Greet)
  <2>1. u.s5.mS5State = "S_INIT"
    BY <1>1, <1>4, Kinds, RequestFields
  <2>2. sendS5Greet(Before) = u
    BY DEF sendS5Greet, Greet
  <2> HIDE DEF u
  <2>3. switchS5State(u, "S_GREET", TRUE) = [u EXCEPT !.s5.mS5State = "S_GREET"]
    BY <2>1 DEF switchS5State
  <2>4. Good([u EXCEPT !.s5.mS5State = "S_GREET"], proxy)
    BY <1>1, <1>4, Kinds, StageOrder, RequestGood DEF EarlyStates, u
  <2> QED BY <1>4, <2>2, <2>3, <2>4, TunnelStep
<1>5. CASE Becomes([Before EXCEPT !.s5.wr = FALSE]) /\ UNCHANGED proxy
  <2>1. Quiet([Before EXCEPT !.s5.wr = FALSE], Before)
    BY <1>1, QuietFunctions
  <2>2. Good([Before EXCEPT !.s5.wr = FALSE], proxy)
    BY <1>1, <2>1, QuietGood
  <2> QED BY <1>5, <2>2, TunnelStep
<1>6. CASE s5.mS5State \notin {"S_INIT", "S_TRANS"} /\ sendQueue("mSocks5")
  BY <1>6, RequestsSent
<1> QED BY <1>2, <1>3, <1>4, <1>5, <1>6 DEF OnWritable

-----------------------------------------------------------------------------
(* The client's steps                                                      *)

(* The app sends one more segment, which the client holds.                 *)
LEMMA AcceptGood ==
  ASSUME NEW p \in Proxies, NEW v, Good(v, p), v.client.accepted < MaxAccept
  PROVE  Good([v EXCEPT !.client.accepted = @ + 1,
                        !.client.pending = Append(@, v.client.accepted + 1)], p)
<1> DEFINE n == v.client.accepted + 1
           q == v.client.pending
           t == Append(q, n)
           c == [v.client EXCEPT !.accepted = n, !.pending = t]
           w == [v EXCEPT !.client.accepted = @ + 1, !.client.pending = Append(@, n)]
<1>1. /\ v \in Pairs /\ v.client.accepted \in 0 .. MaxAccept /\ MaxAccept \in Nat
      /\ q \in Seq(1 .. MaxAccept) /\ Len(q) \in Nat
  BY PairFields, ProxyAssumption, LenProperties DEF Good
<1>2. n \in 1 .. MaxAccept /\ n \in 0 .. MaxAccept /\ n = v.client.accepted + 1
  BY <1>1
<1>3. w = [v EXCEPT !.client = c]
  BY <1>1 DEF Pairs, ClientType
<1> HIDE DEF w, q
<1>4. /\ t \in Seq(1 .. MaxAccept) /\ Len(t) = Len(q) + 1
      /\ \A i \in 1 .. Len(q) : t[i] = q[i]
      /\ t[Len(q) + 1] = n
  <2>1. q \in Seq(1 .. MaxAccept) /\ n \in 1 .. MaxAccept
    BY <1>1, <1>2
  <2> HIDE DEF n
  <2> QED BY <2>1, AppendProperties
<1> HIDE DEF t, n
<1>5. /\ c \in ClientType /\ c.accepted = n /\ c.pending = t /\ c.back = v.client.back
  BY <1>1, <1>2, <1>4, PairFields DEF ClientType
<1> HIDE DEF c
<1>6. w \in Pairs /\ w.s5 = v.s5 /\ w.client = c /\ w.loop = v.loop
  BY <1>1, <1>3, <1>5 DEF Pairs
<1>7. PICK h \in Handshakes : Ordered(v, p, h)
  BY DEF Good, InOrder
<1>8. Given(v) = v.client.accepted - Len(q) /\ Given(w) = n - Len(t)
  BY <1>5, <1>6 DEF Given, q
<1>9. Given(w) = Given(v) /\ Given(v) \in Int
  <2> DEFINE a == v.client.accepted
             l == Len(q)
  <2>1. a \in Int /\ l \in Int /\ Given(v) = a - l /\ Given(w) = (a + 1) - (l + 1)
    BY <1>1, <1>2, <1>4, <1>8
  <2> HIDE DEF a, l
  <2> QED BY <2>1
<1>10. OnWire(w, p) = OnWire(v, p)
  BY <1>6 DEF OnWire
<1>11. \A m : Knows(v, p, m) => Knows(w, p, m)
  BY <1>6 DEF Knows
<1>12. w.client.pending = [i \in 1 .. Len(w.client.pending) |-> Given(w) + i]
  <2> DEFINE g == Given(v)
  <2>1. q = [i \in 1 .. Len(q) |-> g + i]
    BY <1>7 DEF Ordered, q
  <2>2. \A i \in 1 .. Len(q) : q[i] = g + i
    BY <2>1, Zenon
  <2>3. n = g + (Len(q) + 1)
    BY <1>1, <1>2, <1>8
  <2> HIDE DEF g
  <2>4. \A i \in 1 .. Len(t) : t[i] = g + i
    <3> TAKE i \in 1 .. Len(t)
    <3>1. i \in 1 .. Len(q) \/ i = Len(q) + 1
      BY <1>1, <1>4
    <3> QED BY <1>4, <2>2, <2>3, <3>1
  <2>5. t = [i \in 1 .. Len(t) |-> t[i]]
    BY <1>4, LenProperties
  <2>6. t = [i \in 1 .. Len(t) |-> g + i]
    BY <2>4, <2>5
  <2> QED BY <1>5, <1>6, <1>9, <2>6 DEF g
<1>13. Ordered(w, p, h)
  BY <1>6, <1>7, <1>9, <1>10, <1>11, <1>12 DEF Ordered
<1>14. Exact(w) /\ Over(w) /\ Counted(w, p)
  BY <1>6 DEF Good, Exact, Over, Counted
<1>15. Handed(v, p) => Handed(w, p)
  BY <1>5, <1>6 DEF Handed
<1>16. Good(w, p)
  BY <1>6, <1>13, <1>14, <1>15 DEF Good, InOrder
<1> QED BY <1>16 DEF w, n

(* The app sends, the client resumes reading or closes.                    *)
LEMMA ClientSteps ==
  ASSUME S5Inv, Accept \/ ClientResumes \/ ClientCloses
  PROVE  S5Inv'
<1>1. /\ proxy \in Proxies /\ Good(Before, proxy) /\ Before \in Pairs
      /\ client = Before.client
  BY DEF S5Inv, Good, Before
<1>2. CASE Accept
  <2> DEFINE v == [Before EXCEPT !.client.accepted = @ + 1,
                                 !.client.pending = Append(@, client.accepted + 1)]
  <2>1. Good(v, proxy)
    BY <1>1, <1>2, AcceptGood DEF Accept
  <2>2. Becomes(v) \/ Becomes(requestSendData(v))
    BY <1>2 DEF Accept
  <2> HIDE DEF v
  <2>3. Good(requestSendData(v), proxy)
    <3>1. Quiet(requestSendData(v), v)
      BY <2>1, QuietFunctions DEF Good
    <3> QED BY <2>1, <3>1, QuietGood
  <2> QED BY <1>2, <2>1, <2>2, <2>3, TunnelStep DEF Accept
<1>3. CASE ClientResumes
  <2>1. Quiet(resumeReceiveData(Before), Before)
    BY <1>1, QuietFunctions
  <2>2. Good(resumeReceiveData(Before), proxy)
    BY <1>1, <2>1, QuietGood
  <2> QED BY <1>3, <2>2, TunnelStep DEF ClientResumes
<1>4. CASE ClientCloses
  <2> DEFINE u == destroyTunnel(Before)
             w == [u EXCEPT !.client.mAlive = FALSE]
  <2>1. /\ u \in Pairs /\ u.loop = Before.loop /\ u.client = Before.client
        /\ ~u.s5.mAlive /\ ~u.s5.mSocket
        /\ u.s5.mS5State = Before.s5.mS5State
        /\ u.s5.mSocks5 = Before.s5.mSocks5 /\ u.s5.mOutQueue = Before.s5.mOutQueue
        /\ u.s5.mBufferedSize = Before.s5.mBufferedSize
        /\ u.s5.used = Before.s5.used /\ u.s5.received = Before.s5.received
    BY <1>1, DestroyFields
  <2>2. Becomes(w)
    BY <1>4 DEF ClientCloses
  <2> HIDE DEF u
  <2>3. /\ w \in Pairs /\ w.loop = u.loop /\ w.s5 = u.s5
        /\ w.client.accepted = u.client.accepted
        /\ w.client.pending = u.client.pending /\ w.client.back = u.client.back
    BY <2>1, AliveFields
  <2> HIDE DEF w
  <2>4. Exact(w) /\ InOrder(w, proxy)
    <3>1. SameQueues(w, Before) /\ w.s5.used >= Before.s5.used
      BY <1>1, <2>1, <2>3, PairFields DEF SameQueues
    <3> QED BY <1>1, <2>3, <3>1, Carried DEF Good
  <2>5. Over(w) /\ Counted(w, proxy)
    BY <1>1, <2>1, <2>3 DEF Good, Over, Counted
  <2>6. Handed(Before, proxy) => Handed(w, proxy)
    BY <2>1, <2>3 DEF Handed
  <2>7. Good(w, proxy)
    BY <1>1, <2>3, <2>4, <2>5, <2>6 DEF Good
  <2> QED BY <1>4, <2>2, <2>7, TunnelStep DEF ClientCloses
<1> QED BY <1>2, <1>3, <1>4

-----------------------------------------------------------------------------
(* The invariant holds of every state                                      *)

(* The first state, in which nothing was sent or read.                     *)
LEMMA InitGood ==
  ASSUME Init
  PROVE  S5Inv
<1>1. /\ s5 = establish /\ loop = "poll"
      /\ proxy = [up |-> <<>>, answered |-> 0, down |-> <<>>, eof |-> FALSE, conn |-> "up"]
      /\ client.kind \in Clients /\ client.mAlive = TRUE /\ client.accepted = 0
      /\ client.pending = <<>> /\ client.back = <<>>
      /\ settings.methods \subseteq {VERIFY_NONE, VERIFY_ACCOUNT, NoMethod}
  BY DEF Init
<1>2. s5 \in Tunnels
  BY <1>1 DEF establish, Tunnels, S5States, QueueType, Empty, Parcel
<1>3. client \in ClientType
  <2>1. 0 \in 0 .. MaxAccept /\ TRUE \in BOOLEAN
    BY ProxyAssumption
  <2>2. /\ <<>> \in Seq(1 .. MaxAccept) /\ <<>> \in Seq(Downwards)
    OBVIOUS
  <2>3. client \in [kind : Clients, mAlive : {TRUE}, accepted : {0}, pending : {<<>>},
                    back : {<<>>}]
    BY DEF Init
  <2> QED BY <2>1, <2>2, <2>3 DEF ClientType
<1>4. Before \in Pairs
  BY <1>1, <1>2, <1>3 DEF Before, Pairs, Loops
<1>5. proxy \in Proxies /\ Replied(proxy)
  <2>1. proxy \in Proxies
    BY <1>1 DEF Proxies
  <2>2. Payload(<<>>) = {}
    BY DEF Payload
  <2> QED BY <1>1, <2>1, <2>2 DEF Replied
<1>6. /\ s5.mS5State = "S_INIT" /\ s5.mAlive /\ s5.mSocket
      /\ s5.mSocks5 = Empty /\ s5.mOutQueue = Empty /\ s5.mBufferedSize = 0
      /\ s5.received = 0 /\ s5.used = 0
  BY <1>1 DEF establish
<1>7. Before.s5 = s5 /\ Before.client = client /\ Before.loop = loop
  BY DEF Before
<1>8. Exact(Before)
  <2>1. Units(Empty) = 0
    BY DEF Units, Empty, Parcel
  <2> QED BY <1>6, <1>7, <2>1 DEF Exact
<1>9. Over(Before) /\ Counted(Before, proxy)
  BY <1>1, <1>6, <1>7 DEF Over, Counted, EndStates, Parcel
<1>10. Ordered(Before, proxy, <<>>)
  <2>1. Given(Before) = 0 /\ Len(client.pending) = 0
    BY <1>1, <1>7 DEF Given
  <2>2. client.pending = [i \in 1 .. 0 |-> 0 + i]
    BY <1>1
  <2>3. Data(0) = <<>>
    BY DEF Data
  <2>4. <<>> \o <<>> = <<>>
    <3>1. <<>> \in Seq(Upwards)
      OBVIOUS
    <3> QED BY <3>1, ConcatEmptySeq
  <2>5. OnWire(Before, proxy) = <<>> \o Data(0)
    <3>1. /\ Before.s5.mSocks5.q = <<>> /\ Before.s5.mOutQueue.q = <<>>
          /\ proxy.up = <<>>
      BY <1>1, <1>6, <1>7 DEF Empty
    <3>2. OnWire(Before, proxy) = (<<>> \o <<>>) \o <<>>
      BY <3>1, Zenon DEF OnWire
    <3> QED BY <2>3, <2>4, <3>2
  <2>6. <<>> \in Stage("S_INIT") /\ <<>> \notin Done
    <3>1. <<Greet, Connect>> # <<>> /\ <<Greet, Account, Connect>> # <<>>
      OBVIOUS
    <3> QED BY <3>1 DEF Stage, Done
  <2> QED BY <1>6, <1>7, <2>1, <2>2, <2>5, <2>6 DEF Ordered, Empty
<1>11. InOrder(Before, proxy)
  BY <1>10 DEF InOrder, Handshakes
<1>12. Handed(Before, proxy)
  <2>1. 0 \in 0 .. Before.s5.used
    BY <1>6, <1>7
  <2>2. SubSeq(proxy.down, 0 + 1, Before.s5.used) = <<>>
    BY <1>1, <1>6, <1>7, SubSeqEmpty
  <2>3. \A i \in 1 .. 0 : proxy.down[i].kind # "data"
    OBVIOUS
  <2>4. Before.client.back = <<>>
    BY <1>1, <1>7
  <2>5. \E h \in 0 .. Before.s5.used :
          /\ \A i \in 1 .. h : proxy.down[i].kind # "data"
          /\ Before.client.back = SubSeq(proxy.down, h + 1, Before.s5.used)
    <3> WITNESS 0 \in 0 .. Before.s5.used
    <3> QED BY <2>2, <2>3, <2>4
  <2> QED BY <2>4, <2>5 DEF Handed
<1> QED BY <1>1, <1>4, <1>5, <1>8, <1>9, <1>11, <1>12 DEF S5Inv, Good

(* Every step keeps the invariant.                                         *)
LEMMA S5Step ==
  ASSUME S5Inv, [Next]_vars
  PROVE  S5Inv'
<1>1. CASE UNCHANGED vars
  <2>1. Before' = Before /\ proxy' = proxy /\ settings' = settings
    BY <1>1 DEF vars, Before
  <2> QED BY <2>1 DEF S5Inv
<1>2. CASE Next
  BY <1>2, ReadableStep, DecryptStep, EndSteps, WritableStep, ClientSteps, AnswerStep,
     RelayStep, LineSteps DEF Next
<1> QED BY <1>1, <1>2

(* In every state of the tunnel: the handshake that was sent or queued is  *)
(* one that the state stands for, the app's segments come behind it in     *)
(* order, what was decrypted was received, and each reply is to the        *)
(* request in its place (Socks5Proxy, with its client and the proxy).      *)
THEOREM TunnelInvariant == Spec => []S5Inv
<1>1. Init => S5Inv
  BY InitGood
<1>2. S5Inv /\ [Next]_vars => S5Inv'
  BY S5Step
<1> QED BY <1>1, <1>2, PTL DEF Spec

(* The tunnel, its client and the proxy keep their types.                  *)
THEOREM TunnelTypeOK == Spec => []TypeOK
<1>1. S5Inv => TypeOK
  <2> SUFFICES ASSUME S5Inv PROVE TypeOK
    OBVIOUS
  <2>1. s5 \in Tunnels /\ client \in ClientType /\ loop \in Loops /\ proxy \in Proxies
    BY DEF S5Inv, Good, Pairs, Before
  <2> QED BY <2>1 DEF TypeOK, Tunnels, ClientType, Loops, Proxies
<1> QED BY <1>1, TunnelInvariant, PTL

(* mBufferedSize is what the two queues hold, whatever is queued, sent in  *)
(* part, or sent (encryptAndQueue, sendQueue).                             *)
THEOREM TunnelBufferedExact == Spec => []BufferedExact
<1>1. S5Inv => BufferedExact
  BY BufferedFromGood DEF S5Inv
<1> QED BY <1>1, TunnelInvariant, PTL

(* No segment of the app is lost, repeated or overtaken between the        *)
(* client's queue, mOutQueue and the socket, however it cuts them.         *)
THEOREM TunnelStreamKept == Spec => []StreamKept
<1>1. S5Inv => StreamKept
  BY KeptFromOrder DEF S5Inv, Good, InOrder
<1> QED BY <1>1, TunnelInvariant, PTL

(* The proxy sees the handshake in order, CONNECT behind an accepted       *)
(* account and payload behind an accepted CONNECT (switchS5State and the   *)
(* handlers of the replies).                                               *)
THEOREM TunnelHandshakeOrder == Spec => []HandshakeOrder
<1>1. S5Inv => HandshakeOrder
  BY OrderFromOrder DEF S5Inv, Good, InOrder
<1> QED BY <1>1, TunnelInvariant, PTL

(* With remotes that do not speak first, all payload that was decrypted    *)
(* was handed to the client in order until the tunnel ends                 *)
(* (onTunnelDataBack); with one that does, payload joined with the reply   *)
(* to CONNECT is dropped (handleS5ConnBack).                               *)
THEOREM TunnelPayloadReaches ==
  ASSUME "speaksFirst" \notin Env
  PROVE  Spec => []PayloadReachesClient
<1>1. S5Inv => PayloadReachesClient
  BY ReachesFromGood DEF S5Inv
<1> QED BY <1>1, TunnelInvariant, PTL

(* A tunnel that ended keeps its state, sends nothing more and gives its   *)
(* client nothing more, with parcels left in the decrypt loop and segments *)
(* left in the queues (switchS5State, destroyTunnel).                      *)
THEOREM TunnelEndsForGood == Spec => EndsForGood
<1> DEFINE Stays == s5.mS5State \in {"S_END", "S_FAILED"} =>
                      /\ s5'.mS5State = s5.mS5State /\ ~s5'.mAlive
                      /\ proxy'.up = proxy.up /\ client'.back = client.back
<1>1. ASSUME S5Inv, [Next]_vars, s5.mS5State \in EndStates
      PROVE  /\ s5'.mS5State = s5.mS5State /\ ~s5'.mAlive
             /\ proxy'.up = proxy.up /\ client'.back = client.back
  <2>1. /\ ~s5.mAlive /\ ~s5.mSocket /\ ~Polling
        /\ s5.mS5State = "S_END" => loop # "decrypt"
        /\ Before \in Pairs /\ Before.s5 = s5 /\ Before.client = client
        /\ proxy \in Proxies
    BY <1>1 DEF S5Inv, Good, Over, Before, Polling
  <2>2. ASSUME NEW v, Becomes(v), UNCHANGED proxy, ~v.s5.mAlive,
               v.s5.mS5State = s5.mS5State, v.client.back = client.back
        PROVE  /\ s5'.mS5State = s5.mS5State /\ ~s5'.mAlive
               /\ proxy'.up = proxy.up /\ client'.back = client.back
    BY <2>2 DEF Becomes
  <2>3. CASE UNCHANGED vars
    BY <2>1, <2>3 DEF vars
  <2>4. CASE Decrypt
    <3> DEFINE n == decrypt(s5.received, s5.used)
               k == s5.used + n
               v == [Before EXCEPT !.s5.used = @ + n]
               ms == SubSeq(proxy.down, s5.used + 1, k)
    <3>1. s5.mS5State = "S_FAILED" /\ UNCHANGED proxy
      BY <1>1, <2>1, <2>4 DEF Decrypt, EndStates
    <3>2. IF n = 0 THEN Becomes([Before EXCEPT !.loop = "poll"])
          ELSE \E stays, full \in BOOLEAN : Becomes(handleBack(v, ms, stays, full))
      BY <2>4 DEF Decrypt
    <3> HIDE DEF n, ms
    <3>3. /\ v.s5.mS5State = s5.mS5State /\ v.s5.mAlive = s5.mAlive
          /\ v.client = client
      BY <2>1 DEF Pairs, Tunnels
    <3> HIDE DEF v
    <3>4. \A stays, full \in BOOLEAN : handleBack(v, ms, stays, full) = v
      BY <3>1, <3>3 DEF handleBack, switchS5State
    <3>5. /\ [Before EXCEPT !.loop = "poll"].s5 = s5
          /\ [Before EXCEPT !.loop = "poll"].client = client
      BY <2>1 DEF Pairs
    <3>6. Becomes(v) \/ Becomes([Before EXCEPT !.loop = "poll"])
      BY <3>2, <3>4
    <3> QED BY <2>1, <2>2, <3>1, <3>3, <3>5, <3>6
  <2>5. CASE Accept
    <3> DEFINE v == [Before EXCEPT !.client.accepted = @ + 1,
                                   !.client.pending = Append(@, client.accepted + 1)]
    <3>1. v.s5 = s5 /\ v.client.back = client.back
      BY <2>1 DEF Pairs, ClientType
    <3>2. Becomes(v) \/ Becomes(requestSendData(v))
      BY <2>5 DEF Accept
    <3> HIDE DEF v
    <3>3. requestSendData(v) = v
      BY <2>1, <3>1 DEF requestSendData, inTrans
    <3> QED BY <2>1, <2>2, <2>5, <3>1, <3>2, <3>3 DEF Accept
  <2>6. CASE ClientResumes
    <3>1. resumeReceiveData(Before) = Before
      BY <2>1 DEF resumeReceiveData, inTrans
    <3> QED BY <2>1, <2>2, <2>6, <3>1 DEF ClientResumes
  <2>7. CASE ClientCloses
    <3> DEFINE u == destroyTunnel(Before)
               w == [u EXCEPT !.client.mAlive = FALSE]
    <3>1. /\ u \in Pairs /\ u.client = Before.client /\ ~u.s5.mAlive
          /\ u.s5.mS5State = Before.s5.mS5State
      BY <2>1, DestroyFields
    <3>2. Becomes(w)
      BY <2>7 DEF ClientCloses
    <3> HIDE DEF u
    <3>3. w.s5 = u.s5 /\ w.client.back = u.client.back
      BY <3>1, AliveFields
    <3> HIDE DEF w
    <3> QED BY <2>1, <2>2, <2>7, <3>1, <3>2, <3>3 DEF ClientCloses
  <2>8. CASE ProxyAnswers \/ ProxyRelays \/ ProxyCloses \/ Reset
    <3>1. proxy'.up = proxy.up
      BY <2>1, <2>8 DEF ProxyAnswers, ProxyRelays, ProxyCloses, Reset, Proxies
    <3>2. s5' = s5 /\ client' = client
      BY <2>8 DEF ProxyAnswers, ProxyRelays, ProxyCloses, Reset
    <3> QED BY <2>1, <3>1, <3>2
  <2>9. ~OnReadable /\ ~OnReadEnd /\ ~OnReadError /\ ~OnException /\ ~OnWritable
    BY <2>1 DEF OnReadable, OnReadEnd, OnReadError, OnException, OnWritable
  <2> QED BY <1>1, <2>3, <2>4, <2>5, <2>6, <2>7, <2>8, <2>9 DEF Next
<1>2. S5Inv /\ [Next]_vars => [Stays]_vars
  BY <1>1 DEF EndStates
<1>3. Spec => [][Stays]_vars
  BY <1>2, TunnelInvariant, PTL DEF Spec
<1> QED BY <1>3 DEF EndsForGood

=============================================================================
