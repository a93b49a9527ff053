------------------------ MODULE DatagramRouterProofs ------------------------
(* The table of UDP sessions, for any flows, any time limit and any number *)
(* of datagrams, answers and failures: each direction of a flow keeps its  *)
(* order.                                                                  *)
EXTENDS DatagramRouter, TLAPS, SequenceTheorems

-----------------------------------------------------------------------------
(* The inductive invariant                                                 *)

(* Every entry is at most n; every entry of s is less than every one of t. *)
UpTo(s, n) == \A a \in DOMAIN s : s[a] <= n
Before(s, t) == \A a \in DOMAIN s, b \in DOMAIN t : s[a] < t[b]

(* A flow has one open session, whatever else is still in the list.        *)
OneOpen ==
  \A i, j \in DOMAIN mUDPSessions :
    /\ mUDPSessions[i].mAlive = TRUE /\ mUDPSessions[j].mAlive = TRUE
    /\ mUDPSessions[i].flow = mUDPSessions[j].flow
    => i = j

(* A session that has ended sends nothing and hears nothing.               *)
EndedIsQuiet(s) == s.mAlive = FALSE => s.write = FALSE /\ s.inbox = <<>>

(* What an open session has queued is in order, and behind all that was    *)
(* sent for its flow.                                                      *)
SendsInOrder(s, done, n) ==
  /\ Increasing(s.mOutBuffer) /\ UpTo(s.mOutBuffer, n)
  /\ s.mAlive = TRUE => Before(done[s.flow], s.mOutBuffer)

(* What a socket holds is in order, and behind all that left the sockets   *)
(* of its flow.                                                            *)
HearsInOrder(s, done, n) ==
  /\ Increasing(s.inbox) /\ UpTo(s.inbox, n)
  /\ \A a \in DOMAIN done, b \in DOMAIN s.inbox :
       done[a].flow = s.flow => done[a].n < s.inbox[b]

Sent(done, n) == \A f \in Flows : Increasing(done[f]) /\ UpTo(done[f], n)

Heard(done, n) == InOrder(done) /\ \A a \in DOMAIN done : done[a].n <= n

(* The answers that left the sockets: those the apps got, and those that   *)
(* wait for the tun device.                                                *)
Answers == back \o mData

DatagramInv ==
  /\ TypeOK /\ OneOpen /\ Sent(took, sent) /\ Heard(Answers, answered)
  /\ \A i \in DOMAIN mUDPSessions :
       /\ EndedIsQuiet(mUDPSessions[i])
       /\ SendsInOrder(mUDPSessions[i], took, sent)
       /\ HearsInOrder(mUDPSessions[i], Answers, answered)

-----------------------------------------------------------------------------
(* Sequences in order                                                      *)

LEMMA IncreasingAppend ==
  ASSUME NEW s \in Seq(Nat), NEW m \in Nat, NEW n \in Nat, m < n,
         Increasing(s), UpTo(s, m)
  PROVE  Increasing(Append(s, n)) /\ UpTo(Append(s, n), n)
<1>1. /\ Len(s) \in Nat /\ DOMAIN s = 1 .. Len(s)
      /\ DOMAIN Append(s, n) = 1 .. Len(s) + 1
      /\ \A i \in 1 .. Len(s) : Append(s, n)[i] = s[i] /\ s[i] \in Nat /\ s[i] <= m
      /\ Append(s, n)[Len(s) + 1] = n
  BY DEF UpTo
<1>2. Increasing(Append(s, n))
  BY <1>1 DEF Increasing
<1> QED BY <1>1, <1>2 DEF UpTo

(* The first k entries and the rest of a sequence.                         *)
LEMMA Parts ==
  ASSUME NEW S, NEW s \in Seq(S), NEW k \in 0 .. Len(s)
  PROVE  /\ SubSeq(s, 1, k) \in Seq(S) /\ DOMAIN SubSeq(s, 1, k) = 1 .. k
         /\ SubSeq(s, k + 1, Len(s)) \in Seq(S)
         /\ DOMAIN SubSeq(s, k + 1, Len(s)) = 1 .. Len(s) - k
         /\ \A i \in 1 .. k : SubSeq(s, 1, k)[i] = s[i]
         /\ \A i \in 1 .. Len(s) - k : SubSeq(s, k + 1, Len(s))[i] = s[i + k]
         /\ SubSeq(s, 1, k) \o SubSeq(s, k + 1, Len(s)) = s
<1>0. Len(s) \in Nat /\ k \in Nat /\ k <= Len(s)
  BY LenProperties
<1>1. /\ s \in [1 .. Len(s) -> S] /\ k \in Int /\ k + 1 \in Int /\ Len(s) \in Int
      /\ \A i \in 1 .. k : s[i] \in S
      /\ \A i \in k + 1 .. Len(s) : s[i] \in S
  BY <1>0, LenProperties
<1>2. /\ SubSeq(s, 1, k) \in Seq(S) /\ Len(SubSeq(s, 1, k)) = k
      /\ \A i \in 1 .. k : SubSeq(s, 1, k)[i] = s[i]
  BY <1>0, <1>1, SubSeqProperties
<1>3. /\ SubSeq(s, k + 1, Len(s)) \in Seq(S)
      /\ Len(SubSeq(s, k + 1, Len(s))) = Len(s) - k
      /\ \A i \in 1 .. Len(s) - k : SubSeq(s, k + 1, Len(s))[i] = s[i + k]
  BY <1>0, <1>1, SubSeqProperties
<1>4. SubSeq(s, 1, k) \o SubSeq(s, k + 1, Len(s)) = SubSeq(s, 1, Len(s))
  <2>1. /\ 1 \in 1 .. Len(s) + 1 /\ k \in 1 - 1 .. Len(s) /\ Len(s) \in k .. Len(s)
    BY <1>0
  <2> QED BY <2>1, ConcatAdjacentSubSeq
<1> QED BY <1>0, <1>2, <1>3, <1>4, SubSeqFull, LenProperties

LEMMA IncreasingParts ==
  ASSUME NEW s \in Seq(Nat), NEW k \in 0 .. Len(s), NEW n \in Nat,
         Increasing(s), UpTo(s, n)
  PROVE  /\ Increasing(SubSeq(s, 1, k)) /\ UpTo(SubSeq(s, 1, k), n)
         /\ Increasing(SubSeq(s, k + 1, Len(s)))
         /\ UpTo(SubSeq(s, k + 1, Len(s)), n)
         /\ Before(SubSeq(s, 1, k), SubSeq(s, k + 1, Len(s)))
<1> DEFINE a == SubSeq(s, 1, k)
           b == SubSeq(s, k + 1, Len(s))
<1>1. /\ Len(s) \in Nat /\ k \in Nat /\ k <= Len(s) /\ DOMAIN s = 1 .. Len(s)
      /\ DOMAIN a = 1 .. k /\ DOMAIN b = 1 .. Len(s) - k
      /\ \A i \in 1 .. k : a[i] = s[i]
      /\ \A i \in 1 .. Len(s) - k : b[i] = s[i + k]
  BY Parts
<1> HIDE DEF a, b
<1>2. \A i, j \in 1 .. Len(s) : i < j => s[i] < s[j]
  BY <1>1 DEF Increasing
<1>3. \A i \in 1 .. Len(s) : s[i] <= n
  BY <1>1 DEF UpTo
<1>4. Increasing(a) /\ UpTo(a, n)
  BY <1>1, <1>2, <1>3, SMTT(30) DEF Increasing, UpTo
<1>5. \A i \in 1 .. Len(s) - k : i + k \in 1 .. Len(s)
  BY <1>1
<1>6. Increasing(b) /\ UpTo(b, n)
  <2>1. ASSUME NEW i \in 1 .. Len(s) - k PROVE b[i] <= n
    BY <1>1, <1>3, <1>5
  <2>2. ASSUME NEW i \in 1 .. Len(s) - k, NEW j \in 1 .. Len(s) - k, i < j
        PROVE  b[i] < b[j]
    <3>1. i + k \in 1 .. Len(s) /\ j + k \in 1 .. Len(s) /\ i + k < j + k
      BY <1>1, <1>5, <2>2
    <3>2. b[i] = s[i + k] /\ b[j] = s[j + k]
      BY <1>1
    <3> QED BY <1>2, <3>1, <3>2
  <2> QED BY <1>1, <2>1, <2>2 DEF Increasing, UpTo
<1>7. Before(a, b)
  <2> SUFFICES ASSUME NEW i \in 1 .. k, NEW j \in 1 .. Len(s) - k PROVE a[i] < b[j]
    BY <1>1 DEF Before
  <2>1. i \in 1 .. Len(s) /\ j + k \in 1 .. Len(s) /\ i < j + k
    BY <1>1, <1>5
  <2> QED BY <1>1, <1>2, <2>1
<1> QED BY <1>4, <1>6, <1>7 DEF a, b

(* The entries of a concatenation.                                         *)
LEMMA Joined ==
  ASSUME NEW S, NEW s \in Seq(S), NEW t \in Seq(S)
  PROVE  /\ s \o t \in Seq(S)
         /\ \A i \in DOMAIN (s \o t) :
              \/ i \in DOMAIN s /\ (s \o t)[i] = s[i]
              \/ i - Len(s) \in DOMAIN t /\ i > Len(s) /\ (s \o t)[i] = t[i - Len(s)]
<1>1. Len(s) \in Nat /\ Len(t) \in Nat /\ DOMAIN s = 1 .. Len(s) /\ DOMAIN t = 1 .. Len(t)
  OBVIOUS
<1>2. s \o t \in Seq(S) /\ DOMAIN (s \o t) = 1 .. Len(s) + Len(t)
  BY ConcatProperties, LenProperties
<1>3. \A i \in 1 .. Len(s) + Len(t) :
        (s \o t)[i] = IF i <= Len(s) THEN s[i] ELSE t[i - Len(s)]
  BY ConcatProperties
<1> QED BY <1>1, <1>2, <1>3

LEMMA IncreasingJoined ==
  ASSUME NEW s \in Seq(Nat), NEW t \in Seq(Nat), NEW n \in Nat,
         Increasing(s), Increasing(t), UpTo(s, n), UpTo(t, n), Before(s, t)
  PROVE  Increasing(s \o t) /\ UpTo(s \o t, n)
<1> DEFINE u == s \o t
<1>1. /\ Len(s) \in Nat /\ DOMAIN s = 1 .. Len(s)
      /\ u \in Seq(Nat)
      /\ \A i \in DOMAIN u :
              \/ i \in DOMAIN s /\ u[i] = s[i]
              \/ i - Len(s) \in DOMAIN t /\ i > Len(s) /\ u[i] = t[i - Len(s)]
  BY Joined
<1> HIDE DEF u
<1>2. DOMAIN u = 1 .. Len(u) /\ Len(u) \in Nat
  BY <1>1
<1>3. UpTo(u, n)
  BY <1>1 DEF UpTo
<1>4. Increasing(u)
  <2> SUFFICES ASSUME NEW i \in DOMAIN u, NEW j \in DOMAIN u, i < j PROVE u[i] < u[j]
    BY DEF Increasing
  <2>1. i \in Int /\ j \in Int
    BY <1>2
  <2>2. CASE j \in DOMAIN s /\ u[j] = s[j]
    <3>1. i \in DOMAIN s /\ u[i] = s[i]
      BY <1>1, <2>1, <2>2
    <3> QED BY <2>2, <3>1 DEF Increasing
  <2>3. CASE j - Len(s) \in DOMAIN t /\ j > Len(s) /\ u[j] = t[j - Len(s)]
    <3>1. CASE i \in DOMAIN s /\ u[i] = s[i]
      BY <2>3, <3>1 DEF Before
    <3>2. CASE i - Len(s) \in DOMAIN t /\ u[i] = t[i - Len(s)]
      BY <1>1, <2>1, <2>3, <3>2 DEF Increasing
    <3> QED BY <1>1, <3>1, <3>2
  <2> QED BY <1>1, <2>2, <2>3
<1> QED BY <1>3, <1>4 DEF u

-----------------------------------------------------------------------------
(* Sessions                                                                *)

LEMMA Numbers ==
  ASSUME NEW M, NEW s \in Seq(1 .. M)
  PROVE  s \in Seq(Nat)
<1>1. Len(s) \in Nat /\ s \in [1 .. Len(s) -> 1 .. M]
  BY LenProperties
<1>2. s \in [1 .. Len(s) -> Nat]
  BY <1>1
<1> QED BY <1>1, <1>2, SeqDef

LEMMA SessionFields ==
  ASSUME NEW s \in SessionType
  PROVE  /\ s.flow \in Flows /\ s.mAlive \in BOOLEAN /\ s.write \in BOOLEAN
         /\ s.age \in 0 .. Limit + 1
         /\ s.mOutBuffer \in Seq(1 .. MaxAccept) /\ s.mOutBuffer \in Seq(Nat)
         /\ s.inbox \in Seq(1 .. MaxAnswers) /\ s.inbox \in Seq(Nat)
<1>1. /\ s.flow \in Flows /\ s.mAlive \in BOOLEAN /\ s.write \in BOOLEAN
      /\ s.age \in 0 .. Limit + 1
      /\ s.mOutBuffer \in Seq(1 .. MaxAccept) /\ s.inbox \in Seq(1 .. MaxAnswers)
  BY DEF SessionType
<1>2. s.mOutBuffer \in Seq(Nat) /\ s.inbox \in Seq(Nat)
  BY <1>1, Numbers
<1> QED BY <1>1, <1>2

(* All of TypeOK but the table.                                            *)
RestTyped ==
  /\ mData \in Seq(Answer) /\ back \in Seq(Answer)
  /\ tunWrite \in BOOLEAN /\ running \in BOOLEAN
  /\ sent \in 0 .. MaxAccept /\ answered \in 0 .. MaxAnswers
  /\ took \in [Flows -> Seq(1 .. MaxAccept)] /\ fails \in 0 .. MaxFails

(* One session of the table is replaced by t: what t and the others must   *)
(* satisfy.                                                                *)
LEMMA BecomesGood ==
  ASSUME DatagramInv, NEW i \in DOMAIN mUDPSessions, NEW t \in SessionType,
         Becomes(i, t), t.flow = mUDPSessions[i].flow,
         t.mAlive = TRUE => mUDPSessions[i].mAlive = TRUE,
         RestTyped', sent <= sent', Sent(took, sent)', Heard(Answers, answered)',
         EndedIsQuiet(t), SendsInOrder(t, took', sent'),
         HearsInOrder(t, Answers', answered'),
         \A j \in DOMAIN mUDPSessions \ {i} :
           /\ SendsInOrder(mUDPSessions[j], took', sent')
           /\ HearsInOrder(mUDPSessions[j], Answers', answered')
  PROVE  DatagramInv'
<1>1. /\ DOMAIN mUDPSessions \subseteq 1 .. sent
      /\ mUDPSessions \in [DOMAIN mUDPSessions -> SessionType] /\ sent \in Nat
  BY DEF DatagramInv, TypeOK
<1>2. /\ DOMAIN mUDPSessions' = DOMAIN mUDPSessions /\ mUDPSessions'[i] = t
      /\ \A j \in DOMAIN mUDPSessions \ {i} : mUDPSessions'[j] = mUDPSessions[j]
      /\ mUDPSessions' \in [DOMAIN mUDPSessions -> SessionType]
  BY <1>1 DEF Becomes
<1>3. TypeOK'
  <2>1. sent' \in Nat
    BY DEF RestTyped
  <2>2. DOMAIN mUDPSessions' \subseteq 1 .. sent'
    BY <1>1, <1>2, <2>1
  <2> QED BY <1>2, <2>2, Zenon DEF RestTyped, TypeOK
<1>4. OneOpen'
  BY <1>2 DEF DatagramInv, OneOpen
<1>5. ASSUME NEW j \in DOMAIN mUDPSessions'
      PROVE  /\ EndedIsQuiet(mUDPSessions'[j])
             /\ SendsInOrder(mUDPSessions'[j], took', sent')
             /\ HearsInOrder(mUDPSessions'[j], Answers', answered')
  <2>1. CASE j = i
    BY <1>2, <2>1
  <2>2. CASE j # i
    BY <1>2, <2>2 DEF DatagramInv
  <2> QED BY <2>1, <2>2
<1> QED BY <1>3, <1>4, <1>5 DEF DatagramInv

LEMMA SendsLater ==
  ASSUME NEW s \in SessionType, NEW done, NEW n \in Nat, NEW m \in Nat, n <= m,
         SendsInOrder(s, done, n)
  PROVE  SendsInOrder(s, done, m)
<1>1. s.mOutBuffer \in Seq(Nat)
  BY SessionFields
<1> QED BY <1>1 DEF SendsInOrder, UpTo

LEMMA HearsLater ==
  ASSUME NEW s \in SessionType, NEW done, NEW n \in Nat, NEW m \in Nat, n <= m,
         HearsInOrder(s, done, n)
  PROVE  HearsInOrder(s, done, m)
<1>1. s.inbox \in Seq(Nat)
  BY SessionFields
<1> QED BY <1>1 DEF HearsInOrder, UpTo

LEMMA SentLater ==
  ASSUME NEW done \in [Flows -> Seq(Nat)], NEW n \in Nat, NEW m \in Nat, n <= m,
         Sent(done, n)
  PROVE  Sent(done, m)
BY DEF Sent, UpTo

LEMMA HeardLater ==
  ASSUME NEW done \in Seq(Answer), NEW n \in Nat, NEW m \in Nat, n <= m,
         Heard(done, n)
  PROVE  Heard(done, m)
<1>1. \A a \in DOMAIN done : done[a].n \in Nat
  <2> TAKE a \in DOMAIN done
  <2>1. done[a] \in Answer
    OBVIOUS
  <2> QED BY <2>1 DEF Answer
<1> QED BY <1>1 DEF Heard

(* The facts about the variables that the steps use.                       *)
LEMMA Typed ==
  ASSUME DatagramInv
  PROVE  /\ RestTyped /\ sent \in Nat /\ answered \in Nat
         /\ took \in [Flows -> Seq(Nat)] /\ Answers \in Seq(Answer)
         /\ Sent(took, sent) /\ Heard(Answers, answered)
         /\ DOMAIN mUDPSessions \subseteq Nat
         /\ \A i \in DOMAIN mUDPSessions :
              /\ mUDPSessions[i] \in SessionType
              /\ EndedIsQuiet(mUDPSessions[i])
              /\ SendsInOrder(mUDPSessions[i], took, sent)
              /\ HearsInOrder(mUDPSessions[i], Answers, answered)
<1>1. RestTyped
  BY Zenon DEF DatagramInv, TypeOK, RestTyped
<1>2. sent \in Nat /\ answered \in Nat /\ DOMAIN mUDPSessions \subseteq Nat
  BY DEF DatagramInv, TypeOK
<1>3. took \in [Flows -> Seq(Nat)]
  <2>1. ASSUME NEW f \in Flows PROVE took[f] \in Seq(Nat)
    <3>1. took[f] \in Seq(1 .. MaxAccept)
      BY <1>1 DEF RestTyped
    <3> QED BY <3>1, Numbers
  <2> QED BY <1>1, <2>1 DEF RestTyped
<1>4. Answers \in Seq(Answer)
  BY <1>1, ConcatProperties DEF Answers, RestTyped
<1>5. \A i \in DOMAIN mUDPSessions : mUDPSessions[i] \in SessionType
  BY DEF DatagramInv, TypeOK
<1> QED BY <1>1, <1>2, <1>3, <1>4, <1>5 DEF DatagramInv

-----------------------------------------------------------------------------
(* The Router's steps                                                      *)

(* The open session of a flow is the one that is found.                    *)
LEMMA FirstFound ==
  ASSUME DatagramInv, NEW f \in Flows, findSession(f) # {}
  PROVE  /\ Min(findSession(f)) \in DOMAIN mUDPSessions
         /\ mUDPSessions[Min(findSession(f))].mAlive = TRUE
         /\ mUDPSessions[Min(findSession(f))].flow = f
<1>1. PICK x : x \in findSession(f)
  OBVIOUS
<1>2. ASSUME NEW y \in findSession(f)
      PROVE  /\ y \in DOMAIN mUDPSessions /\ y \in Nat /\ mUDPSessions[y].flow = f
             /\ mUDPSessions[y].mAlive = TRUE
  <2>1. /\ y \in DOMAIN mUDPSessions /\ ~hasClosed(mUDPSessions[y])
        /\ mUDPSessions[y].flow = f
    BY DEF findSession
  <2>2. mUDPSessions[y] \in SessionType /\ y \in Nat
    BY <2>1, Typed
  <2> QED BY <2>1, <2>2, SessionFields DEF hasClosed
<1>3. \A y \in findSession(f) : y = x
  BY <1>1, <1>2 DEF DatagramInv, OneOpen
<1>4. \A y \in findSession(f) : x <= y
  <2>1. x \in Nat
    BY <1>1, <1>2
  <2>2. x <= x
    BY <2>1
  <2> QED BY <1>3, <2>2
<1>5. Min(findSession(f)) \in findSession(f)
  BY <1>1, <1>4 DEF Min
<1> QED BY <1>2, <1>5

(* The datagram n is queued.                                               *)
LEMMA AcceptGood ==
  ASSUME NEW s \in SessionType, s.mAlive = TRUE, NEW done \in [Flows -> Seq(Nat)],
         NEW m \in Nat, NEW n \in 1 .. MaxAccept, m < n, SendsInOrder(s, done, m),
         Sent(done, m)
  PROVE  /\ accept(s, n) \in SessionType /\ accept(s, n).flow = s.flow
         /\ accept(s, n).mAlive = TRUE /\ accept(s, n).inbox = s.inbox
         /\ SendsInOrder(accept(s, n), done, n)
<1> DEFINE t == accept(s, n)
<1>1. /\ s.flow \in Flows /\ s.mOutBuffer \in Seq(1 .. MaxAccept)
      /\ s.mOutBuffer \in Seq(Nat) /\ Append(s.mOutBuffer, n) \in Seq(1 .. MaxAccept)
  BY SessionFields
<1>2. t = [s EXCEPT !.mOutBuffer = Append(@, n), !.write = TRUE, !.age = 0]
  BY Zenon DEF accept, hasClosed
<1>3. 0 \in 0 .. Limit + 1
  BY DatagramAssumption
<1>4. /\ t \in SessionType /\ t.flow = s.flow /\ t.mAlive = TRUE /\ t.inbox = s.inbox
      /\ t.mOutBuffer = Append(s.mOutBuffer, n)
  BY <1>1, <1>2, <1>3 DEF SessionType
<1> HIDE DEF t
<1>5. Increasing(t.mOutBuffer) /\ UpTo(t.mOutBuffer, n)
  BY <1>1, <1>4, IncreasingAppend DEF SendsInOrder
<1>6. Before(done[t.flow], t.mOutBuffer)
  <2>1. /\ \A a \in DOMAIN done[s.flow] : done[s.flow][a] \in Nat /\ done[s.flow][a] <= m
        /\ Before(done[s.flow], s.mOutBuffer)
    BY <1>1 DEF Sent, UpTo, SendsInOrder
  <2>2. /\ Len(s.mOutBuffer) \in Nat /\ DOMAIN s.mOutBuffer = 1 .. Len(s.mOutBuffer)
        /\ DOMAIN t.mOutBuffer = 1 .. Len(s.mOutBuffer) + 1
        /\ \A b \in 1 .. Len(s.mOutBuffer) : t.mOutBuffer[b] = s.mOutBuffer[b]
        /\ t.mOutBuffer[Len(s.mOutBuffer) + 1] = n
    BY <1>1, <1>4
  <2> QED BY <1>4, <2>1, <2>2 DEF Before
<1> QED BY <1>4, <1>5, <1>6 DEF SendsInOrder, t

LEMMA RouterReadTunGood ==
  ASSUME DatagramInv, NEW f \in Flows, RouterReadTun(f)
  PROVE  DatagramInv'
<1> DEFINE n == sent + 1
<1>1. /\ RestTyped /\ sent \in Nat /\ answered \in Nat
      /\ took \in [Flows -> Seq(Nat)] /\ Answers \in Seq(Answer)
      /\ Sent(took, sent) /\ Heard(Answers, answered)
      /\ \A i \in DOMAIN mUDPSessions :
           /\ mUDPSessions[i] \in SessionType
           /\ EndedIsQuiet(mUDPSessions[i])
           /\ SendsInOrder(mUDPSessions[i], took, sent)
           /\ HearsInOrder(mUDPSessions[i], Answers, answered)
  BY Typed
<1>2. /\ sent < MaxAccept /\ sent' = n /\ mData' = mData /\ tunWrite' = tunWrite
      /\ back' = back /\ running' = running /\ answered' = answered /\ took' = took
      /\ Answers' = Answers
      /\ fails' = fails \/ (fails > 0 /\ fails' = fails - 1)
  <2>1. /\ sent < MaxAccept /\ sent' = sent + 1 /\ tun' = tun
        /\ running' = running /\ answered' = answered /\ took' = took
        /\ fails' = fails \/ Fail
    BY Zenon DEF RouterReadTun
  <2>2. mData' = mData /\ tunWrite' = tunWrite /\ back' = back
    BY <2>1 DEF tun
  <2>3. Answers' = Answers
    BY <2>2, Zenon DEF Answers
  <2>4. fails' = fails \/ (fails > 0 /\ fails' = fails - 1)
    BY <2>1, Zenon DEF Fail
  <2> QED BY <2>1, <2>2, <2>3, <2>4
<1>3. /\ n \in 1 .. MaxAccept /\ sent < n /\ n \in Nat
      /\ sent' \in 0 .. MaxAccept /\ fails' \in 0 .. MaxFails
  BY <1>1, <1>2, DatagramAssumption DEF RestTyped
<1>4. RestTyped'
  BY <1>1, <1>2, <1>3, Zenon DEF RestTyped
<1>5. Sent(took, sent)' /\ Heard(Answers, answered)'
  BY <1>1, <1>2, <1>3, SentLater
<1>6. \A i \in DOMAIN mUDPSessions :
        /\ SendsInOrder(mUDPSessions[i], took', sent')
        /\ HearsInOrder(mUDPSessions[i], Answers', answered')
  BY <1>1, <1>2, <1>3, SendsLater
<1> HIDE DEF n
<1>7. CASE /\ findSession(f) # {}
           /\ mUDPSessions' = [mUDPSessions EXCEPT ![Min(findSession(f))] = accept(@, n)]
  <2> DEFINE i == Min(findSession(f))
             s == mUDPSessions[i]
             t == accept(s, n)
  <2>1. i \in DOMAIN mUDPSessions /\ s.mAlive = TRUE
    BY <1>7, FirstFound
  <2>2. s \in SessionType /\ SendsInOrder(s, took, sent)
    BY <1>1, <2>1
  <2>3. Becomes(i, t)
    BY <1>7, <2>1 DEF Becomes
  <2>0. s = mUDPSessions[i]
    OBVIOUS
  <2> HIDE DEF i, s
  <2>4. /\ t \in SessionType /\ t.flow = s.flow /\ t.mAlive = TRUE /\ t.inbox = s.inbox
        /\ SendsInOrder(t, took, n)
    BY <1>1, <1>3, <2>1, <2>2, AcceptGood
  <2>5. HearsInOrder(t, Answers', answered') /\ EndedIsQuiet(t)
    BY <1>1, <1>2, <2>1, <2>4, <2>0, SMTT(30) DEF HearsInOrder, EndedIsQuiet
  <2> HIDE DEF t
  <2>6. sent <= sent' /\ SendsInOrder(t, took', sent')
    BY <1>1, <1>2, <1>3, <2>4
  <2> QED BY <1>4, <1>5, <1>6, <2>1, <2>3, <2>4, <2>5, <2>6, <2>0, BecomesGood
<1>8. CASE /\ findSession(f) = {}
           /\ mUDPSessions' = [i \in DOMAIN mUDPSessions \cup {n} |->
                IF i = n THEN accept(buildSession(f), n) ELSE mUDPSessions[i]]
  <2> DEFINE s == buildSession(f)
             t == accept(s, n)
  <2>1. /\ s.flow = f /\ s.mAlive = TRUE /\ s.mOutBuffer = <<>> /\ s.inbox = <<>>
        /\ s \in SessionType
    BY DatagramAssumption DEF buildSession, SessionType
  <2>2. SendsInOrder(s, took, sent)
    BY <2>1 DEF SendsInOrder, Increasing, UpTo, Before
  <2> HIDE DEF s
  <2>3. /\ t \in SessionType /\ t.flow = f /\ t.mAlive = TRUE /\ t.inbox = <<>>
        /\ SendsInOrder(t, took, n)
    BY <1>1, <1>3, <2>1, <2>2, AcceptGood
  <2> HIDE DEF t
  <2>4. HearsInOrder(t, Answers', answered') /\ EndedIsQuiet(t)
    BY <2>3 DEF HearsInOrder, EndedIsQuiet, Increasing, UpTo
  <2>5. DOMAIN mUDPSessions \subseteq 1 .. sent
    BY DEF DatagramInv, TypeOK
  <2>6. /\ n \notin DOMAIN mUDPSessions /\ DOMAIN mUDPSessions' = DOMAIN mUDPSessions \cup {n}
        /\ mUDPSessions'[n] = t
        /\ \A i \in DOMAIN mUDPSessions : i # n /\ mUDPSessions'[i] = mUDPSessions[i]
    BY <1>1, <1>3, <1>8, <2>5 DEF s, t
  <2>7. TypeOK'
    <3>1. DOMAIN mUDPSessions' \subseteq 1 .. sent'
      BY <1>1, <1>2, <1>3, <2>5, <2>6
    <3>2. mUDPSessions' \in [DOMAIN mUDPSessions' -> SessionType]
      <4>1. mUDPSessions' = [i \in DOMAIN mUDPSessions' |-> mUDPSessions'[i]]
        BY <1>8, <2>6, Zenon
      <4>2. \A i \in DOMAIN mUDPSessions' : mUDPSessions'[i] \in SessionType
        BY <1>1, <2>3, <2>6
      <4> QED BY <4>1, <4>2
    <3> QED BY <1>4, <3>1, <3>2, Zenon DEF TypeOK, RestTyped
  <2>8. OneOpen'
    <3>1. ASSUME NEW i \in DOMAIN mUDPSessions,
                 mUDPSessions[i].mAlive = TRUE, mUDPSessions[i].flow = f
          PROVE  FALSE
      BY <1>8, <3>1 DEF findSession, hasClosed
    <3> QED BY <2>3, <2>6, <3>1 DEF OneOpen, DatagramInv
  <2>9. \A i \in DOMAIN mUDPSessions' :
          /\ EndedIsQuiet(mUDPSessions'[i])
          /\ SendsInOrder(mUDPSessions'[i], took', sent')
          /\ HearsInOrder(mUDPSessions'[i], Answers', answered')
    BY <1>1, <1>2, <1>6, <2>3, <2>4, <2>6
  <2> QED BY <1>5, <2>7, <2>8, <2>9 DEF DatagramInv
<1>9. CASE mUDPSessions' = mUDPSessions
  <2>1. TypeOK'
    <3>1. DOMAIN mUDPSessions' \subseteq 1 .. sent'
      BY <1>1, <1>2, <1>3, <1>9 DEF DatagramInv, TypeOK
    <3> QED BY <1>4, <1>9, <3>1, Zenon DEF TypeOK, RestTyped, DatagramInv
  <2>2. OneOpen'
    BY <1>9 DEF OneOpen, DatagramInv
  <2> QED BY <1>1, <1>5, <1>6, <1>9, <2>1, <2>2 DEF DatagramInv
<1> QED BY <1>7, <1>8, <1>9 DEF RouterReadTun, n

LEMMA cleanDeadSessionsGood ==
  ASSUME DatagramInv, cleanDeadSessions
  PROVE  DatagramInv'
<1> DEFINE S == {i \in DOMAIN mUDPSessions : ~hasClosed(mUDPSessions[i])}
<1>1. /\ mUDPSessions' = [i \in S |-> mUDPSessions[i]]
      /\ tun' = tun /\ running' = running /\ sent' = sent /\ answered' = answered
      /\ took' = took /\ fails' = fails
  BY Zenon DEF cleanDeadSessions, Restrict
<1>2. mData' = mData /\ tunWrite' = tunWrite /\ back' = back
  BY <1>1 DEF tun
<1>3. Answers' = Answers
  BY <1>2, Zenon DEF Answers
<1>4. /\ S \subseteq DOMAIN mUDPSessions /\ DOMAIN mUDPSessions' = S
      /\ \A i \in S : mUDPSessions'[i] = mUDPSessions[i]
  BY <1>1
<1> HIDE DEF S
<1>5. TypeOK'
  <2>1. DOMAIN mUDPSessions' \subseteq 1 .. sent'
    BY <1>1, <1>4 DEF DatagramInv, TypeOK
  <2>2. mUDPSessions' \in [DOMAIN mUDPSessions' -> SessionType]
    BY <1>1, <1>4, Typed
  <2>3. RestTyped'
    BY <1>1, <1>2, Typed, Zenon DEF RestTyped
  <2> QED BY <2>1, <2>2, <2>3, Zenon DEF TypeOK, RestTyped
<1>6. OneOpen'
  BY <1>4 DEF DatagramInv, OneOpen
<1>7. \A i \in DOMAIN mUDPSessions' :
        /\ EndedIsQuiet(mUDPSessions'[i])
        /\ SendsInOrder(mUDPSessions'[i], took', sent')
        /\ HearsInOrder(mUDPSessions'[i], Answers', answered')
  BY <1>1, <1>3, <1>4, Typed
<1> QED BY <1>1, <1>3, <1>5, <1>6, <1>7 DEF DatagramInv

(* What is written to the tun device moves from mData to the apps.         *)
LEMMA RouterWriteTunGood ==
  ASSUME DatagramInv, RouterWriteTun
  PROVE  DatagramInv'
<1>1. PICK k \in 0 .. Len(mData) :
        /\ IF k < Len(mData) THEN Fail ELSE UNCHANGED fails
        /\ mData' = SubSeq(mData, k + 1, Len(mData))
        /\ back' = back \o SubSeq(mData, 1, k)
  BY Zenon DEF RouterWriteTun
<1>2. /\ tunWrite' = FALSE /\ mUDPSessions' = mUDPSessions /\ running' = running
      /\ sent' = sent /\ answered' = answered /\ took' = took
  BY DEF RouterWriteTun
<1>3. /\ mData \in Seq(Answer) /\ back \in Seq(Answer) /\ fails \in 0 .. MaxFails
  BY Typed DEF RestTyped
<1>4. /\ SubSeq(mData, 1, k) \in Seq(Answer) /\ mData' \in Seq(Answer)
      /\ SubSeq(mData, 1, k) \o mData' = mData
  BY <1>1, <1>3, Parts
<1>5. back' \in Seq(Answer)
  BY <1>1, <1>3, <1>4, ConcatProperties
<1>6. Answers' = Answers
  <2> DEFINE a == SubSeq(mData, 1, k)
  <2>2. a \in Seq(Answer)
    BY <1>4
  <2> HIDE DEF a
  <2>3. \A x, y, z \in Seq(Answer) : (x \o y) \o z = x \o (y \o z)
    BY ConcatAssociative, SMTT(30)
  <2>1. (back \o SubSeq(mData, 1, k)) \o mData' = back \o (SubSeq(mData, 1, k) \o mData')
    BY <1>3, <1>4, <2>2, <2>3, Zenon DEF a
  <2> QED BY <1>1, <1>4, <2>1 DEF Answers
<1>7. fails' \in 0 .. MaxFails
  BY <1>1, <1>3, DatagramAssumption DEF Fail
<1>8. TypeOK'
  BY <1>2, <1>4, <1>5, <1>7, Zenon DEF DatagramInv, TypeOK
<1>9. OneOpen'
  BY <1>2 DEF DatagramInv, OneOpen
<1> QED BY <1>2, <1>6, <1>8, <1>9 DEF DatagramInv

(* What the apps got is the beginning of what left the sockets.            *)
LEMMA Prefix ==
  ASSUME NEW s \in Seq(Answer), NEW t \in Seq(Answer), NEW n, Heard(s \o t, n)
  PROVE  Heard(s, n)
<1>1. /\ Len(s) \in Nat /\ Len(t) \in Nat /\ DOMAIN s = 1 .. Len(s)
      /\ DOMAIN (s \o t) = 1 .. Len(s) + Len(t)
  BY ConcatProperties, LenProperties
<1>2. \A i \in DOMAIN s : i \in DOMAIN (s \o t) /\ (s \o t)[i] = s[i]
  BY <1>1, ConcatProperties
<1> QED BY <1>2 DEF Heard, InOrder

LEMMA RouterDeletedGood ==
  ASSUME DatagramInv, RouterDeleted
  PROVE  DatagramInv'
<1>1. /\ running' = FALSE /\ mUDPSessions' = <<>> /\ mData' = <<>> /\ tunWrite' = FALSE
      /\ sent' = sent /\ answered' = answered /\ took' = took /\ back' = back
      /\ fails' = fails
  BY DEF RouterDeleted
<1>2. mData \in Seq(Answer) /\ back \in Seq(Answer)
  BY Typed DEF RestTyped
<1>3. Answers' = back
  BY <1>1, <1>2, ConcatEmptySeq DEF Answers
<1>4. Heard(back, answered)
  BY <1>2, Prefix DEF DatagramInv, Answers
<1>5. DOMAIN mUDPSessions' = {}
  BY <1>1
<1>6. TypeOK'
  <2>1. mUDPSessions' \in [{} -> SessionType] /\ mData' \in Seq(Answer)
    BY <1>1
  <2> QED BY <1>1, <1>5, <2>1, Zenon DEF DatagramInv, TypeOK
<1>7. OneOpen'
  BY <1>5 DEF OneOpen
<1> QED BY <1>1, <1>3, <1>4, <1>5, <1>6, <1>7 DEF DatagramInv

-----------------------------------------------------------------------------
(* The sessions' steps                                                     *)

(* A session that may write, or that has received something, is open.      *)
LEMMA BusyIsOpen ==
  ASSUME NEW s \in SessionType, EndedIsQuiet(s), s.write = TRUE \/ s.inbox # <<>>
  PROVE  s.mAlive = TRUE
BY SessionFields DEF EndedIsQuiet

LEMMA OnWritableGood ==
  ASSUME DatagramInv, NEW i \in DOMAIN mUDPSessions, OnWritable(i)
  PROVE  DatagramInv'
<1> DEFINE s == mUDPSessions[i]
<1>1. /\ tun' = tun /\ running' = running /\ sent' = sent /\ answered' = answered
      /\ fails' = fails /\ s.write
  BY Zenon DEF OnWritable
<1>2. mData' = mData /\ tunWrite' = tunWrite /\ back' = back
  BY <1>1 DEF tun
<1>3. Answers' = Answers
  BY <1>2, Zenon DEF Answers
<1>4. /\ RestTyped /\ sent \in Nat /\ answered \in Nat
      /\ took \in [Flows -> Seq(Nat)] /\ Sent(took, sent) /\ Heard(Answers, answered)
      /\ s \in SessionType /\ EndedIsQuiet(s) /\ SendsInOrder(s, took, sent)
      /\ HearsInOrder(s, Answers, answered)
  BY Typed
<1>5. /\ s.flow \in Flows /\ s.mOutBuffer \in Seq(1 .. MaxAccept) /\ s.mOutBuffer \in Seq(Nat)
      /\ s.write = TRUE
  BY <1>1, <1>4, SessionFields
<1>6. s.mAlive = TRUE
  BY <1>4, <1>5, BusyIsOpen
<1>7. CASE Becomes(i, [s EXCEPT !.write = FALSE]) /\ UNCHANGED took
  <2> DEFINE t == [s EXCEPT !.write = FALSE]
  <2>1. /\ t \in SessionType /\ t.flow = s.flow /\ t.mAlive = TRUE
        /\ t.mOutBuffer = s.mOutBuffer /\ t.inbox = s.inbox
    BY <1>4, <1>6 DEF SessionType
  <2>2. Becomes(i, t) /\ t.flow = mUDPSessions[i].flow /\ mUDPSessions[i].mAlive = TRUE
    BY <1>6, <1>7, <2>1
  <2> HIDE DEF t, s
  <2>3. /\ EndedIsQuiet(t) /\ SendsInOrder(t, took', sent')
        /\ HearsInOrder(t, Answers', answered')
    BY <1>1, <1>3, <1>4, <1>7, <2>1 DEF EndedIsQuiet, SendsInOrder, HearsInOrder
  <2>4. RestTyped'
    BY <1>1, <1>2, <1>4, <1>7, Zenon DEF RestTyped
  <2>5. /\ sent <= sent' /\ Sent(took, sent)' /\ Heard(Answers, answered)'
        /\ \A j \in DOMAIN mUDPSessions \ {i} :
             /\ SendsInOrder(mUDPSessions[j], took', sent')
             /\ HearsInOrder(mUDPSessions[j], Answers', answered')
    BY <1>1, <1>3, <1>4, <1>7, Typed
  <2> QED BY <2>1, <2>2, <2>3, <2>4, <2>5, BecomesGood
<1>8. ASSUME NEW k \in 0 .. Len(s.mOutBuffer),
             Becomes(i, [s EXCEPT !.mOutBuffer = SubSeq(@, k + 1, Len(@))]),
             took' = [took EXCEPT ![s.flow] = @ \o SubSeq(s.mOutBuffer, 1, k)]
      PROVE  DatagramInv'
  <2> DEFINE a == SubSeq(s.mOutBuffer, 1, k)
             b == SubSeq(s.mOutBuffer, k + 1, Len(s.mOutBuffer))
             t == [s EXCEPT !.mOutBuffer = b]
             h == took[s.flow]
  <2>1. /\ a \in Seq(1 .. MaxAccept) /\ b \in Seq(1 .. MaxAccept)
        /\ a \in Seq(Nat) /\ b \in Seq(Nat)
        /\ DOMAIN a = 1 .. k /\ \A x \in 1 .. k : a[x] = s.mOutBuffer[x]
        /\ DOMAIN b = 1 .. Len(s.mOutBuffer) - k
        /\ \A x \in 1 .. Len(s.mOutBuffer) - k : b[x] = s.mOutBuffer[x + k]
    <3>1. /\ a \in Seq(1 .. MaxAccept) /\ b \in Seq(1 .. MaxAccept)
          /\ DOMAIN a = 1 .. k /\ \A x \in 1 .. k : a[x] = s.mOutBuffer[x]
          /\ DOMAIN b = 1 .. Len(s.mOutBuffer) - k
          /\ \A x \in 1 .. Len(s.mOutBuffer) - k : b[x] = s.mOutBuffer[x + k]
      <4> DEFINE q == s.mOutBuffer
                 T == 1 .. MaxAccept
      <4>1. q \in Seq(T) /\ k \in 0 .. Len(q)
        BY <1>5
      <4> HIDE DEF q, T
      <4>2. /\ SubSeq(q, 1, k) \in Seq(T) /\ DOMAIN SubSeq(q, 1, k) = 1 .. k
            /\ SubSeq(q, k + 1, Len(q)) \in Seq(T)
            /\ DOMAIN SubSeq(q, k + 1, Len(q)) = 1 .. Len(q) - k
            /\ \A x \in 1 .. k : SubSeq(q, 1, k)[x] = q[x]
            /\ \A x \in 1 .. Len(q) - k : SubSeq(q, k + 1, Len(q))[x] = q[x + k]
        BY <4>1, Parts
      <4> QED BY <4>2 DEF q, T
    <3> HIDE DEF a, b, s
    <3>2. a \in Seq(Nat) /\ b \in Seq(Nat)
      BY <3>1, Numbers
    <3> QED BY <3>1, <3>2
  <2>2. /\ Increasing(a) /\ UpTo(a, sent) /\ Increasing(b) /\ UpTo(b, sent) /\ Before(a, b)
    BY <1>4, <1>5, IncreasingParts DEF SendsInOrder
  <2>3. Becomes(i, t)
    BY <1>8
  <2>4. took' = [took EXCEPT ![s.flow] = h \o a]
    BY <1>8
  <2> HIDE DEF a, b
  <2>5. /\ t \in SessionType /\ t.flow = s.flow /\ t.mAlive = TRUE
        /\ t.mOutBuffer = b /\ t.inbox = s.inbox
    BY <1>4, <1>6, <2>1 DEF SessionType
  <2>6. t.flow = mUDPSessions[i].flow /\ mUDPSessions[i].mAlive = TRUE
    BY <1>6, <2>5
  <2> HIDE DEF t
  <2>7. /\ h \in Seq(1 .. MaxAccept) /\ h \in Seq(Nat) /\ Increasing(h) /\ UpTo(h, sent)
        /\ Before(h, s.mOutBuffer)
    BY <1>4, <1>5, <1>6 DEF RestTyped, Sent, SendsInOrder
  <2>8. /\ Len(s.mOutBuffer) \in Nat /\ DOMAIN s.mOutBuffer = 1 .. Len(s.mOutBuffer)
        /\ k \in Nat /\ k <= Len(s.mOutBuffer)
    BY <1>5
  <2>9. Before(h, a) /\ Before(h, b)
    <3>1. \A x \in 1 .. k : x \in DOMAIN s.mOutBuffer
      BY <2>8
    <3>2. \A x \in 1 .. Len(s.mOutBuffer) - k : x + k \in DOMAIN s.mOutBuffer
      BY <2>8
    <3> QED BY <2>1, <2>7, <3>1, <3>2 DEF Before
  <2> HIDE DEF h
  <2>10. /\ h \o a \in Seq(1 .. MaxAccept) /\ Increasing(h \o a) /\ UpTo(h \o a, sent)
    <3>1. h \o a \in Seq(1 .. MaxAccept)
      BY <2>1, <2>7, ConcatProperties
    <3> QED BY <1>4, <2>1, <2>2, <2>7, <2>9, <3>1, IncreasingJoined
  <2>11. Before(h \o a, b)
    <3> DEFINE u == h \o a
    <3>1. \A x \in DOMAIN u :
            \/ x \in DOMAIN h /\ u[x] = h[x]
            \/ x - Len(h) \in DOMAIN a /\ x > Len(h) /\ u[x] = a[x - Len(h)]
      BY <2>1, <2>7, Joined
    <3> HIDE DEF u
    <3>2. Before(u, b)
      BY <2>2, <2>9, <3>1 DEF Before
    <3> QED BY <3>2 DEF u
  <2>12. /\ took'[s.flow] = h \o a
         /\ \A f \in Flows \ {s.flow} : took'[f] = took[f]
         /\ took' \in [Flows -> Seq(1 .. MaxAccept)]
    BY <1>4, <1>5, <2>4, <2>10 DEF RestTyped
  <2>13. RestTyped'
    BY <1>1, <1>2, <1>4, <2>12, Zenon DEF RestTyped
  <2>14. Sent(took, sent)'
    <3>1. ASSUME NEW f \in Flows PROVE Increasing(took'[f]) /\ UpTo(took'[f], sent)
      <4>1. CASE f = s.flow
        BY <2>10, <2>12, <4>1
      <4>2. CASE f # s.flow
        BY <1>4, <2>12, <4>2 DEF Sent
      <4> QED BY <4>1, <4>2
    <3> QED BY <1>1, <3>1 DEF Sent
  <2>15. /\ EndedIsQuiet(t) /\ SendsInOrder(t, took', sent')
         /\ HearsInOrder(t, Answers', answered')
    BY <1>1, <1>3, <1>4, <2>2, <2>5, <2>11, <2>12 DEF EndedIsQuiet, SendsInOrder, HearsInOrder
  <2>16. ASSUME NEW j \in DOMAIN mUDPSessions \ {i}
         PROVE  /\ SendsInOrder(mUDPSessions[j], took', sent')
                /\ HearsInOrder(mUDPSessions[j], Answers', answered')
    <3>1. /\ mUDPSessions[j] \in SessionType /\ SendsInOrder(mUDPSessions[j], took, sent)
          /\ HearsInOrder(mUDPSessions[j], Answers, answered)
      BY Typed
    <3>2. mUDPSessions[j].flow \in Flows
      BY <3>1, SessionFields
    <3>3. mUDPSessions[j].mAlive = TRUE => mUDPSessions[j].flow # s.flow
      BY <1>6 DEF DatagramInv, OneOpen
    <3> QED BY <1>1, <1>3, <2>12, <3>1, <3>2, <3>3 DEF SendsInOrder
  <2>17. sent <= sent' /\ Heard(Answers, answered)'
    BY <1>1, <1>3, <1>4
  <2> QED BY <2>3, <2>5, <2>6, <2>13, <2>14, <2>15, <2>16, <2>17, BecomesGood
<1> HIDE DEF s
<1>9. \/ Becomes(i, [s EXCEPT !.write = FALSE]) /\ UNCHANGED took
      \/ \E k \in 0 .. Len(s.mOutBuffer) :
           /\ Becomes(i, [s EXCEPT !.mOutBuffer = SubSeq(@, k + 1, Len(@))])
           /\ took' = [took EXCEPT ![s.flow] = @ \o SubSeq(s.mOutBuffer, 1, k)]
  BY Zenon DEF OnWritable, s
<1> QED BY <1>7, <1>8, <1>9

(* The first datagram a socket holds becomes the last that left one.       *)
LEMMA HeardOne ==
  ASSUME NEW A \in Seq(Answer), NEW n \in Nat, NEW s \in SessionType, s.inbox # <<>>,
         Heard(A, n), HearsInOrder(s, A, n)
  PROVE  LET d == [flow |-> s.flow, n |-> Head(s.inbox)]
         IN  /\ d \in Answer /\ Heard(Append(A, d), n)
             /\ HearsInOrder([s EXCEPT !.inbox = Tail(@)], Append(A, d), n)
<1> DEFINE q == s.inbox
           d == [flow |-> s.flow, n |-> Head(q)]
           B == Append(A, d)
           t == [s EXCEPT !.inbox = Tail(@)]
<1>1. s.flow \in Flows /\ q \in Seq(Nat) /\ q \in Seq(1 .. MaxAnswers) /\ q # <<>>
  BY SessionFields
<1>2. t.inbox = Tail(q) /\ t.flow = s.flow
  BY DEF SessionType
<1> HIDE DEF q, t
<1>3. /\ Len(q) \in Nat /\ Len(q) > 0 /\ DOMAIN q = 1 .. Len(q) /\ Head(q) = q[1]
      /\ DOMAIN Tail(q) = 1 .. Len(q) - 1
      /\ \A b \in 1 .. Len(q) - 1 : Tail(q)[b] = q[b + 1] /\ b + 1 \in DOMAIN q
      /\ q[1] \in 1 .. MaxAnswers /\ 1 \in DOMAIN q
      /\ \A b \in DOMAIN q : q[b] \in Nat
  <2>1. /\ Len(q) \in Nat /\ DOMAIN q = 1 .. Len(q) /\ \A b \in DOMAIN q : q[b] \in Nat
    BY <1>1
  <2>2. Len(q) > 0 /\ 1 \in DOMAIN q
    BY <1>1, <2>1, EmptySeq
  <2>3. /\ Head(q) = q[1] /\ DOMAIN Tail(q) = 1 .. Len(q) - 1
        /\ \A b \in 1 .. Len(q) - 1 : Tail(q)[b] = q[b + 1]
    BY <1>1, <2>1, HeadTailProperties, LenProperties
  <2>4. q[1] \in 1 .. MaxAnswers
    <3>1. Head(q) \in 1 .. MaxAnswers
      BY <1>1, HeadTailProperties, Zenon
    <3> QED BY <2>3, <3>1
  <2>5. \A b \in 1 .. Len(q) - 1 : b + 1 \in DOMAIN q
    BY <2>1
  <2> QED BY <2>1, <2>2, <2>3, <2>4, <2>5
<1>4. d \in Answer /\ d.flow = s.flow /\ d.n = q[1]
  BY <1>1, <1>3 DEF Answer
<1> HIDE DEF d
<1>5. /\ Len(A) \in Nat /\ DOMAIN A = 1 .. Len(A) /\ DOMAIN B = 1 .. Len(A) + 1
      /\ \A a \in 1 .. Len(A) : B[a] = A[a]
      /\ B[Len(A) + 1] = d
  BY <1>4
<1> HIDE DEF B
<1>6. /\ \A a \in DOMAIN A : A[a].n <= n
      /\ \A a, b \in DOMAIN A : a < b /\ A[a].flow = A[b].flow => A[a].n < A[b].n
  BY DEF Heard, InOrder
<1>7. /\ Increasing(q) /\ \A b \in DOMAIN q : q[b] <= n
      /\ \A a \in DOMAIN A, b \in DOMAIN q : A[a].flow = s.flow => A[a].n < q[b]
  BY DEF HearsInOrder, UpTo, q
<1>8. Heard(B, n)
  <2>1. \A a \in DOMAIN B : B[a].n <= n
    BY <1>3, <1>4, <1>5, <1>6, <1>7
  <2>2. ASSUME NEW a \in DOMAIN B, NEW b \in DOMAIN B, a < b, B[a].flow = B[b].flow
        PROVE  B[a].n < B[b].n
    <3>1. CASE b \in DOMAIN A
      BY <1>5, <1>6, <2>2, <3>1
    <3>2. CASE b = Len(A) + 1
      <4>1. a \in DOMAIN A /\ B[a] = A[a] /\ B[b] = d
        BY <1>5, <2>2, <3>2
      <4> QED BY <1>3, <1>4, <1>7, <2>2, <4>1
    <3> QED BY <1>5, <3>1, <3>2
  <2> QED BY <2>1, <2>2 DEF Heard, InOrder
<1>9. HearsInOrder(t, B, n)
  <2>1. Increasing(Tail(q))
    <3> SUFFICES ASSUME NEW a \in 1 .. Len(q) - 1, NEW b \in 1 .. Len(q) - 1, a < b
                 PROVE  Tail(q)[a] < Tail(q)[b]
      BY <1>3 DEF Increasing
    <3>1. a + 1 \in DOMAIN q /\ b + 1 \in DOMAIN q /\ a + 1 < b + 1
      BY <1>3
    <3>2. q[a + 1] < q[b + 1]
      BY <1>7, <3>1 DEF Increasing
    <3> QED BY <1>3, <3>2
  <2>2. UpTo(Tail(q), n)
    BY <1>3, <1>7 DEF UpTo
  <2>3. ASSUME NEW a \in DOMAIN B, NEW b \in DOMAIN Tail(q), B[a].flow = s.flow
        PROVE  B[a].n < Tail(q)[b]
    <3>1. b + 1 \in DOMAIN q /\ Tail(q)[b] = q[b + 1] /\ 1 < b + 1
      BY <1>3
    <3>2. CASE a \in DOMAIN A
      BY <1>5, <1>7, <2>3, <3>1, <3>2
    <3>3. CASE a = Len(A) + 1
      <4>1. B[a].n = q[1]
        BY <1>4, <1>5, <3>3
      <4>2. q[1] < q[b + 1]
        BY <1>3, <1>7, <3>1 DEF Increasing
      <4> QED BY <3>1, <4>1, <4>2
    <3> QED BY <1>5, <3>2, <3>3
  <2> QED BY <1>2, <2>1, <2>2, <2>3 DEF HearsInOrder
<1> QED BY <1>4, <1>8, <1>9 DEF d, B, q, t

LEMMA OnReadableGood ==
  ASSUME DatagramInv, NEW i \in DOMAIN mUDPSessions, OnReadable(i)
  PROVE  DatagramInv'
<1> DEFINE s == mUDPSessions[i]
           d == [flow |-> s.flow, n |-> Head(s.inbox)]
           t == [s EXCEPT !.inbox = Tail(@)]
<1>1. /\ s.inbox # <<>> /\ Becomes(i, t) /\ mData' = Append(mData, d) /\ tunWrite' = TRUE
      /\ back' = back /\ running' = running /\ sent' = sent /\ answered' = answered
      /\ took' = took /\ fails' = fails
  BY Zenon DEF OnReadable, queue
<1>2. /\ RestTyped /\ sent \in Nat /\ answered \in Nat /\ Answers \in Seq(Answer)
      /\ Sent(took, sent) /\ Heard(Answers, answered)
      /\ s \in SessionType /\ EndedIsQuiet(s) /\ SendsInOrder(s, took, sent)
      /\ HearsInOrder(s, Answers, answered)
  BY Typed
<1>3. s.mAlive = TRUE
  BY <1>1, <1>2, BusyIsOpen
<1>4. /\ s.inbox \in Seq(1 .. MaxAnswers) /\ Tail(s.inbox) \in Seq(1 .. MaxAnswers)
  <2>1. s.inbox \in Seq(1 .. MaxAnswers)
    BY <1>2, SessionFields
  <2> QED BY <1>1, <2>1, HeadTailProperties, Zenon
<1>5. /\ t \in SessionType /\ t.flow = mUDPSessions[i].flow /\ t.mAlive = TRUE
      /\ t.mOutBuffer = s.mOutBuffer /\ mUDPSessions[i].mAlive = TRUE
  BY <1>2, <1>3, <1>4 DEF SessionType
<1>6. /\ d \in Answer /\ Heard(Append(Answers, d), answered)
      /\ HearsInOrder(t, Append(Answers, d), answered)
  BY <1>1, <1>2, HeardOne
<1>7. d.flow = s.flow
  OBVIOUS
<1> HIDE DEF d, t
<1>8. mData \in Seq(Answer) /\ back \in Seq(Answer)
  BY <1>2 DEF RestTyped
<1>9. Answers' = Append(Answers, d)
  <2>1. back \o Append(mData, d) = Append(back \o mData, d)
    BY <1>6, <1>8
  <2> QED BY <1>1, <2>1 DEF Answers
<1>10. RestTyped'
  <2>1. Append(mData, d) \in Seq(Answer)
    BY <1>6, <1>8
  <2> QED BY <1>1, <1>2, <2>1, Zenon DEF RestTyped
<1>11. EndedIsQuiet(t) /\ SendsInOrder(t, took', sent')
  BY <1>1, <1>2, <1>5 DEF EndedIsQuiet, SendsInOrder
<1>12. ASSUME NEW j \in DOMAIN mUDPSessions \ {i}
       PROVE  /\ SendsInOrder(mUDPSessions[j], took', sent')
              /\ HearsInOrder(mUDPSessions[j], Answers', answered')
  <2> DEFINE u == mUDPSessions[j]
  <2>1. /\ u \in SessionType /\ SendsInOrder(u, took, sent)
        /\ HearsInOrder(u, Answers, answered) /\ EndedIsQuiet(u)
    BY Typed
  <2>2. u.flow # s.flow \/ u.inbox = <<>>
    BY <1>3, <2>1, BusyIsOpen DEF DatagramInv, OneOpen
  <2> HIDE DEF u
  <2>3. /\ Len(Answers) \in Nat /\ DOMAIN Answers = 1 .. Len(Answers)
        /\ DOMAIN Answers' = 1 .. Len(Answers) + 1
        /\ \A a \in 1 .. Len(Answers) : Answers'[a] = Answers[a]
        /\ Answers'[Len(Answers) + 1] = d
    BY <1>2, <1>9
  <2>4. ASSUME NEW a \in DOMAIN Answers', NEW b \in DOMAIN u.inbox, Answers'[a].flow = u.flow
        PROVE  Answers'[a].n < u.inbox[b]
    <3>1. u.inbox # <<>>
      OBVIOUS
    <3>2. a \in DOMAIN Answers /\ Answers'[a] = Answers[a]
      BY <1>7, <2>2, <2>3, <2>4, <3>1
    <3> QED BY <2>1, <2>4, <3>2 DEF HearsInOrder
  <2>5. HearsInOrder(u, Answers', answered')
    BY <1>1, <2>1, <2>4 DEF HearsInOrder
  <2> QED BY <1>1, <2>1, <2>5 DEF u
<1>13. /\ sent <= sent' /\ Sent(took, sent)' /\ Heard(Answers, answered)'
       /\ HearsInOrder(t, Answers', answered')
  BY <1>1, <1>2, <1>6, <1>9
<1> QED BY <1>1, <1>5, <1>10, <1>11, <1>12, <1>13, BecomesGood

(* OnError and OnPeriodicallyCheck: the session ends.                      *)
LEMMA CloseGood ==
  ASSUME DatagramInv, NEW i \in DOMAIN mUDPSessions,
         ~hasClosed(mUDPSessions[i]), Becomes(i, close(mUDPSessions[i])),
         fails' = fails \/ Fail, UNCHANGED <<tun, running, sent, answered, took>>
  PROVE  DatagramInv'
<1> DEFINE s == mUDPSessions[i]
           t == close(s)
<1>1. mData' = mData /\ tunWrite' = tunWrite /\ back' = back
  BY DEF tun
<1>2. Answers' = Answers
  BY <1>1, Zenon DEF Answers
<1>3. /\ RestTyped /\ sent \in Nat /\ s \in SessionType /\ SendsInOrder(s, took, sent)
  BY Typed
<1>4. s.mAlive = TRUE
  BY <1>3, SessionFields DEF hasClosed
<1>5. /\ t \in SessionType /\ t.flow = mUDPSessions[i].flow /\ t.mAlive = FALSE
      /\ t.mOutBuffer = s.mOutBuffer /\ t.inbox = <<>> /\ t.write = FALSE
      /\ mUDPSessions[i].mAlive = TRUE
  <2>1. t = [s EXCEPT !.mAlive = FALSE, !.write = FALSE, !.inbox = <<>>]
    BY Zenon DEF close
  <2>2. <<>> \in Seq(1 .. MaxAnswers)
    OBVIOUS
  <2> HIDE DEF t, s
  <2>3. /\ t \in SessionType /\ t.flow = s.flow /\ t.mAlive = FALSE
        /\ t.mOutBuffer = s.mOutBuffer /\ t.inbox = <<>> /\ t.write = FALSE
    BY <1>3, <2>1, <2>2 DEF SessionType
  <2> QED BY <1>4, <2>3 DEF s
<1>6. Becomes(i, t)
  OBVIOUS
<1> HIDE DEF t
<1>7. RestTyped'
  <2>1. fails' \in 0 .. MaxFails
    BY <1>3, DatagramAssumption DEF RestTyped, Fail
  <2> QED BY <1>1, <1>3, <2>1, Zenon DEF RestTyped
<1>8. /\ EndedIsQuiet(t) /\ SendsInOrder(t, took', sent')
      /\ HearsInOrder(t, Answers', answered')
  BY <1>3, <1>5 DEF EndedIsQuiet, SendsInOrder, HearsInOrder, Increasing, UpTo
<1>9. /\ sent <= sent' /\ Sent(took, sent)' /\ Heard(Answers, answered)'
      /\ \A j \in DOMAIN mUDPSessions \ {i} :
           /\ SendsInOrder(mUDPSessions[j], took', sent')
           /\ HearsInOrder(mUDPSessions[j], Answers', answered')
  BY <1>2, Typed
<1> QED BY <1>5, <1>6, <1>7, <1>8, <1>9, BecomesGood

LEMMA RemoteAnswersGood ==
  ASSUME DatagramInv, NEW i \in DOMAIN mUDPSessions, RemoteAnswers(i)
  PROVE  DatagramInv'
<1> DEFINE s == mUDPSessions[i]
           n == answered + 1
           t == [s EXCEPT !.inbox = Append(@, n)]
<1>1. /\ ~hasClosed(s) /\ answered < MaxAnswers /\ answered' = n /\ Becomes(i, t)
      /\ tun' = tun /\ running' = running /\ sent' = sent /\ took' = took
      /\ fails' = fails
  BY Zenon DEF RemoteAnswers
<1>2. mData' = mData /\ tunWrite' = tunWrite /\ back' = back
  BY <1>1 DEF tun
<1>3. Answers' = Answers
  BY <1>2, Zenon DEF Answers
<1>4. /\ RestTyped /\ sent \in Nat /\ answered \in Nat /\ Answers \in Seq(Answer)
      /\ Sent(took, sent) /\ Heard(Answers, answered)
      /\ s \in SessionType /\ EndedIsQuiet(s) /\ SendsInOrder(s, took, sent)
      /\ HearsInOrder(s, Answers, answered)
  BY Typed
<1>5. s.mAlive = TRUE
  BY <1>1, <1>4, SessionFields DEF hasClosed
<1>6. /\ n \in 1 .. MaxAnswers /\ n \in Nat /\ answered < n /\ answered <= n
      /\ answered' \in 0 .. MaxAnswers
  BY <1>1, <1>4, DatagramAssumption
<1>7. /\ s.inbox \in Seq(1 .. MaxAnswers) /\ s.inbox \in Seq(Nat)
  BY <1>4, SessionFields
<1> HIDE DEF n
<1>8. Append(s.inbox, n) \in Seq(1 .. MaxAnswers)
  BY <1>6, <1>7
<1>9. /\ t \in SessionType /\ t.flow = mUDPSessions[i].flow /\ t.mAlive = TRUE
      /\ t.mOutBuffer = s.mOutBuffer /\ mUDPSessions[i].mAlive = TRUE
      /\ t.inbox = Append(s.inbox, n) /\ t.flow = s.flow
  BY <1>4, <1>5, <1>8 DEF SessionType
<1> HIDE DEF t
<1>10. RestTyped'
  BY <1>1, <1>2, <1>4, <1>6, Zenon DEF RestTyped
<1>11. EndedIsQuiet(t) /\ SendsInOrder(t, took', sent')
  BY <1>1, <1>4, <1>9 DEF EndedIsQuiet, SendsInOrder
<1>12. HearsInOrder(t, Answers', answered')
  <2> DEFINE q == s.inbox
  <2>1. /\ q \in Seq(Nat) /\ Increasing(q) /\ UpTo(q, answered)
        /\ \A a \in DOMAIN Answers, b \in DOMAIN q :
             Answers[a].flow = s.flow => Answers[a].n < q[b]
    BY <1>4, <1>7 DEF HearsInOrder
  <2> HIDE DEF q
  <2>2. Increasing(Append(q, n)) /\ UpTo(Append(q, n), n)
    BY <1>4, <1>6, <2>1, IncreasingAppend
  <2>3. \A a \in DOMAIN Answers : Answers[a].n \in Nat /\ Answers[a].n < n
    <3> TAKE a \in DOMAIN Answers
    <3>1. Answers[a] \in Answer
      BY <1>4
    <3>2. Answers[a].n \in Nat
      BY <3>1 DEF Answer
    <3> QED BY <1>4, <1>6, <3>2 DEF Heard
  <2>4. /\ Len(q) \in Nat /\ DOMAIN q = 1 .. Len(q) /\ DOMAIN Append(q, n) = 1 .. Len(q) + 1
        /\ \A b \in 1 .. Len(q) : Append(q, n)[b] = q[b]
        /\ Append(q, n)[Len(q) + 1] = n
    BY <1>6, <2>1
  <2>5. ASSUME NEW a \in DOMAIN Answers, NEW b \in DOMAIN Append(q, n),
               Answers[a].flow = s.flow
        PROVE  Answers[a].n < Append(q, n)[b]
    BY <2>1, <2>3, <2>4, <2>5
  <2>6. t.inbox = Append(q, n)
    BY <1>9 DEF q
  <2> QED BY <1>1, <1>3, <1>9, <2>2, <2>5, <2>6 DEF HearsInOrder
<1>13. Heard(Answers, answered)'
  BY <1>1, <1>3, <1>4, <1>6, HeardLater
<1>14. \A j \in DOMAIN mUDPSessions \ {i} :
         /\ SendsInOrder(mUDPSessions[j], took', sent')
         /\ HearsInOrder(mUDPSessions[j], Answers', answered')
  BY <1>1, <1>3, <1>4, <1>6, Typed, HearsLater
<1>15. sent <= sent' /\ Sent(took, sent)'
  BY <1>1, <1>4
<1> QED BY <1>1, <1>9, <1>10, <1>11, <1>12, <1>13, <1>14, <1>15, BecomesGood

LEMMA TickGood ==
  ASSUME DatagramInv, Tick
  PROVE  DatagramInv'
<1> DEFINE w == [i \in DOMAIN mUDPSessions |->
                  [mUDPSessions[i] EXCEPT !.age = IF @ <= Limit THEN @ + 1 ELSE @]]
<1>1. /\ mUDPSessions' = w /\ tun' = tun /\ running' = running /\ sent' = sent
      /\ answered' = answered /\ took' = took /\ fails' = fails
  BY Zenon DEF Tick
<1>2. mData' = mData /\ tunWrite' = tunWrite /\ back' = back
  BY <1>1 DEF tun
<1>3. Answers' = Answers
  BY <1>2, Zenon DEF Answers
<1>4. ASSUME NEW i \in DOMAIN mUDPSessions
      PROVE  /\ w[i] \in SessionType /\ w[i].flow = mUDPSessions[i].flow
             /\ w[i].mAlive = mUDPSessions[i].mAlive /\ w[i].write = mUDPSessions[i].write
             /\ w[i].mOutBuffer = mUDPSessions[i].mOutBuffer
             /\ w[i].inbox = mUDPSessions[i].inbox
  <2> DEFINE s == mUDPSessions[i]
             a == IF s.age <= Limit THEN s.age + 1 ELSE s.age
  <2>1. s \in SessionType
    BY Typed
  <2>2. s.age \in 0 .. Limit + 1
    BY <2>1, SessionFields
  <2>3. a \in 0 .. Limit + 1
    BY <2>2, DatagramAssumption
  <2>4. w[i] = [s EXCEPT !.age = a]
    OBVIOUS
  <2> HIDE DEF a, w, s
  <2>5. /\ w[i] \in SessionType /\ w[i].flow = s.flow /\ w[i].mAlive = s.mAlive
        /\ w[i].write = s.write /\ w[i].mOutBuffer = s.mOutBuffer /\ w[i].inbox = s.inbox
    BY <2>1, <2>3, <2>4 DEF SessionType
  <2> QED BY <2>5 DEF s
<1>5. DOMAIN w = DOMAIN mUDPSessions /\ w = [i \in DOMAIN w |-> w[i]]
  OBVIOUS
<1> HIDE DEF w
<1>6. TypeOK'
  <2>1. DOMAIN mUDPSessions' \subseteq 1 .. sent'
    BY <1>1, <1>5 DEF DatagramInv, TypeOK
  <2>2. mUDPSessions' \in [DOMAIN mUDPSessions' -> SessionType]
    BY <1>1, <1>4, <1>5
  <2> QED BY <1>1, <1>2, <2>1, <2>2, Zenon DEF DatagramInv, TypeOK
<1>7. OneOpen'
  BY <1>1, <1>4, <1>5 DEF DatagramInv, OneOpen
<1>8. ASSUME NEW i \in DOMAIN mUDPSessions
      PROVE  /\ EndedIsQuiet(w[i]) /\ SendsInOrder(w[i], took', sent')
             /\ HearsInOrder(w[i], Answers', answered')
  BY <1>1, <1>3, <1>4, Typed DEF EndedIsQuiet, SendsInOrder, HearsInOrder
<1> QED BY <1>1, <1>3, <1>5, <1>6, <1>7, <1>8 DEF DatagramInv

-----------------------------------------------------------------------------
(* The theorem                                                             *)

LEMMA DatagramInit == Init => DatagramInv
<1> SUFFICES ASSUME Init PROVE DatagramInv
  OBVIOUS
<1>1. /\ mUDPSessions = <<>> /\ mData = <<>> /\ tunWrite = FALSE /\ running = TRUE
      /\ sent = 0 /\ answered = 0 /\ took = [f \in Flows |-> <<>>] /\ back = <<>>
      /\ fails = MaxFails
  BY DEF Init
<1>2. DOMAIN mUDPSessions = {} /\ mUDPSessions \in [{} -> SessionType]
  BY <1>1
<1>3. Answers = <<>>
  BY <1>1 DEF Answers
<1>4. TypeOK
  <2>1. /\ mData \in Seq(Answer) /\ back \in Seq(Answer)
        /\ sent \in 0 .. MaxAccept /\ answered \in 0 .. MaxAnswers
        /\ took \in [Flows -> Seq(1 .. MaxAccept)] /\ fails \in 0 .. MaxFails
        /\ tunWrite \in BOOLEAN /\ running \in BOOLEAN
    <3>1. /\ sent \in 0 .. MaxAccept /\ answered \in 0 .. MaxAnswers
          /\ fails \in 0 .. MaxFails
      BY <1>1, DatagramAssumption
    <3>2. <<>> \in Seq(Answer) /\ <<>> \in Seq(1 .. MaxAccept)
      OBVIOUS
    <3>3. took \in [Flows -> Seq(1 .. MaxAccept)]
      BY <1>1, <3>2
    <3> QED BY <1>1, <3>1, <3>2, <3>3
  <2>2. DOMAIN mUDPSessions \subseteq 1 .. sent
    BY <1>2
  <2> QED BY <1>2, <2>1, <2>2, Zenon DEF TypeOK
<1>5. Sent(took, sent)
  BY <1>1 DEF Sent, Increasing, UpTo
<1>6. Heard(Answers, answered)
  BY <1>3 DEF Heard, InOrder
<1> QED BY <1>2, <1>4, <1>5, <1>6 DEF DatagramInv, OneOpen

LEMMA DatagramStep == DatagramInv /\ [Next]_vars => DatagramInv'
<1> SUFFICES ASSUME DatagramInv, [Next]_vars PROVE DatagramInv'
  OBVIOUS
<1>1. ASSUME NEW f \in Flows, RouterReadTun(f) PROVE DatagramInv'
  BY <1>1, RouterReadTunGood
<1>2. CASE cleanDeadSessions
  BY <1>2, cleanDeadSessionsGood
<1>3. CASE RouterWriteTun
  BY <1>3, RouterWriteTunGood
<1>4. CASE RouterDeleted
  BY <1>4, RouterDeletedGood
<1>5. ASSUME NEW i \in DOMAIN mUDPSessions, OnWritable(i) PROVE DatagramInv'
  BY <1>5, OnWritableGood
<1>6. ASSUME NEW i \in DOMAIN mUDPSessions, OnReadable(i) PROVE DatagramInv'
  BY <1>6, OnReadableGood
<1>7. ASSUME NEW i \in DOMAIN mUDPSessions, OnError(i) PROVE DatagramInv'
  BY <1>7, CloseGood, Zenon DEF OnError
<1>8. ASSUME NEW i \in DOMAIN mUDPSessions, OnPeriodicallyCheck(i) PROVE DatagramInv'
  <2>1. /\ ~hasClosed(mUDPSessions[i]) /\ Becomes(i, close(mUDPSessions[i]))
        /\ fails' = fails /\ UNCHANGED <<tun, running, sent, answered, took>>
    BY <1>8 DEF OnPeriodicallyCheck
  <2> QED BY <2>1, CloseGood, Zenon
<1>9. ASSUME NEW i \in DOMAIN mUDPSessions, RemoteAnswers(i) PROVE DatagramInv'
  BY <1>9, RemoteAnswersGood
<1>10. CASE Tick
  BY <1>10, TickGood
<1>11. CASE UNCHANGED vars
  <2>1. /\ mUDPSessions' = mUDPSessions /\ mData' = mData /\ tunWrite' = tunWrite
        /\ running' = running /\ sent' = sent /\ answered' = answered /\ took' = took
        /\ back' = back /\ fails' = fails
    BY <1>11 DEF vars
  <2> QED BY <2>1, Zenon DEF DatagramInv, TypeOK, OneOpen, Answers
<1> QED BY <1>1, <1>2, <1>3, <1>4, <1>5, <1>6, <1>7, <1>8, <1>9, <1>10, <1>11, Zenon
        DEF Next, Check

(* Of every flow the sockets take the app's datagrams in order and each at *)
(* most once, and the app gets the remote's likewise: whatever sessions    *)
(* fail, time out with datagrams queued, stay in the Router's list after   *)
(* their end and are replaced.                                             *)
THEOREM FlowsStayInOrder == Spec => []FlowsInOrder
<1>1. DatagramInv => FlowsInOrder
  <2> SUFFICES ASSUME DatagramInv PROVE FlowsInOrder
    OBVIOUS
  <2>1. mData \in Seq(Answer) /\ back \in Seq(Answer)
    BY Typed DEF RestTyped
  <2>2. Heard(back, answered)
    BY <2>1, Prefix DEF DatagramInv, Answers
  <2> QED BY <2>2 DEF FlowsInOrder, DatagramInv, Sent, Heard
<1> QED BY <1>1, DatagramInit, DatagramStep, PTL DEF Spec
=============================================================================
