--------------------------- MODULE DatagramRouter ---------------------------
(***************************************************************************)
(* The Router's table of UDP sessions, for apps that are not sent through  *)
(* a proxy: a datagram from the tun device finds the session of its flow   *)
(* or gets a new one; each session has a socket of its own, a queue of     *)
(* datagrams to send and a time limit; answers go through the Router's     *)
(* queue to the tun device.                                                *)
(***************************************************************************)
EXTENDS Naturals, Sequences, SequencesExt

CONSTANTS Flows,       \* pairs of addresses and ports
          Limit,       \* seconds without a datagram until the time limit
          MaxAccept,   \* bound: datagrams apps send
          MaxAnswers,  \* bound: datagrams remotes send
          MaxFails     \* bound: calls of the kernel that fail, sendto apart

ASSUME DatagramAssumption ==
  /\ Limit \in Nat /\ MaxAccept \in Nat /\ MaxAnswers \in Nat /\ MaxFails \in Nat

VARIABLES mUDPSessions,  \* the Router's list: its sessions, by their number
          mData,         \* datagrams that wait for the tun device
          tunWrite,      \* WRITE is registered for it
          running,       \* the Router exists
          sent,          \* number of datagrams the apps sent
          answered,      \* number of datagrams the remotes sent
          took,          \* history: numbers the sockets took, of each flow
          back,          \* history: the datagrams the apps got
          fails          \* failures the bound still allows

vars == <<mUDPSessions, mData, tunWrite, running, sent, answered, took, back, fails>>
tun == <<mData, tunWrite, back>>

(* A session is numbered by the datagram it was built for, so the list is  *)
(* in the order of the numbers.  It has mAlive, mOutBuffer, whether WRITE  *)
(* is registered, the seconds since mLastTime (one more than Limit stands  *)
(* for more) and what the socket has received.                             *)
SessionType ==
  [flow : Flows, mAlive : BOOLEAN, mOutBuffer : Seq(1 .. MaxAccept),
   write : BOOLEAN, age : 0 .. Limit + 1, inbox : Seq(1 .. MaxAnswers)]

(* A datagram from a remote, for the app of a flow.                        *)
Answer == [flow : Flows, n : 1 .. MaxAnswers]

TypeOK ==
  /\ DOMAIN mUDPSessions \subseteq 1 .. sent
  /\ mUDPSessions \in [DOMAIN mUDPSessions -> SessionType]
  /\ mData \in Seq(Answer) /\ back \in Seq(Answer)
  /\ tunWrite \in BOOLEAN /\ running \in BOOLEAN
  /\ sent \in 0 .. MaxAccept /\ answered \in 0 .. MaxAnswers
  /\ took \in [Flows -> Seq(1 .. MaxAccept)] /\ fails \in 0 .. MaxFails

Init ==
  /\ mUDPSessions = <<>> /\ mData = <<>> /\ tunWrite = FALSE /\ running = TRUE
  /\ sent = 0 /\ answered = 0
  /\ took = [f \in Flows |-> <<>>] /\ back = <<>>
  /\ fails = MaxFails

-----------------------------------------------------------------------------
(* UDPSession.                                                             *)

hasClosed(s) == ~s.mAlive

(* Mutant: the socket stays open and registered.                           *)
Mut_close(s) == [s EXCEPT !.mAlive = FALSE]

(* The kernel forgets what the socket received.                            *)
close(s) == [s EXCEPT !.mAlive = FALSE, !.write = FALSE, !.inbox = <<>>]

accept(s, n) ==
  IF hasClosed(s) THEN s
  ELSE [s EXCEPT !.mOutBuffer = Append(@, n), !.write = TRUE, !.age = 0]

(* Mutant: a session that still has something to send never times out.     *)
Mut_timeout(s) == s.age > Limit /\ s.mOutBuffer = <<>>

timeout(s) == s.age > Limit

(* init and connectRemote: READ and WRITE are registered.                  *)
buildSession(f) ==
  [flow |-> f, mAlive |-> TRUE, mOutBuffer |-> <<>>, write |-> TRUE, age |-> 0,
   inbox |-> <<>>]

Fail == fails > 0 /\ fails' = fails - 1

-----------------------------------------------------------------------------
(* The Router.                                                             *)

findSession(f) ==
  {i \in DOMAIN mUDPSessions : ~hasClosed(mUDPSessions[i]) /\ mUDPSessions[i].flow = f}

(* onReadable and route: the first session found, or a new one at the end. *)
RouterReadTun(f) ==
  /\ running /\ sent < MaxAccept
  /\ sent' = sent + 1
  /\ LET found == findSession(f)
         n     == sent + 1
     IN  \/ /\ found # {}
            /\ mUDPSessions' = [mUDPSessions EXCEPT ![Min(found)] = accept(@, n)]
            /\ UNCHANGED fails
         \/ /\ found = {}
            /\ mUDPSessions' = [i \in DOMAIN mUDPSessions \cup {n} |->
                 IF i = n THEN accept(buildSession(f), n) ELSE mUDPSessions[i]]
            /\ UNCHANGED fails
         \/ found = {} /\ Fail /\ UNCHANGED mUDPSessions
  /\ UNCHANGED <<tun, running, answered, took>>

(* cleanDeadSessions, in the Router's periodic check.                      *)
cleanDeadSessions ==
  /\ running
  /\ mUDPSessions' = Restrict(mUDPSessions,
       {i \in DOMAIN mUDPSessions : ~hasClosed(mUDPSessions[i])})
  /\ UNCHANGED <<tun, running, sent, answered, took, fails>>

(* onSyncEvent.                                                            *)
queue(f, n) ==
  mData' = Append(mData, [flow |-> f, n |-> n]) /\ tunWrite' = TRUE /\ UNCHANGED back

(* onWritable: datagrams are written until a write fails; WRITE is         *)
(* unregistered in both cases.                                             *)
RouterWriteTun ==
  /\ running /\ tunWrite /\ tunWrite' = FALSE
  /\ \E k \in 0 .. Len(mData) :
       /\ IF k < Len(mData) THEN Fail ELSE UNCHANGED fails
       /\ mData' = SubSeq(mData, k + 1, Len(mData))
       /\ back' = back \o SubSeq(mData, 1, k)
  /\ UNCHANGED <<mUDPSessions, running, sent, answered, took>>

(* The destructor: releaseSessions and releaseData.                        *)
RouterDeleted ==
  /\ running /\ running' = FALSE
  /\ mUDPSessions' = <<>> /\ mData' = <<>> /\ tunWrite' = FALSE
  /\ UNCHANGED <<sent, answered, took, back, fails>>

-----------------------------------------------------------------------------
(* The sessions' handlers, called for a socket that is open.               *)

Becomes(i, s) == mUDPSessions' = [mUDPSessions EXCEPT ![i] = s]

(* onWritable: send until the queue is empty or sendto fails, which keeps  *)
(* WRITE; with an empty queue WRITE is given up.                           *)
OnWritable(i) ==
  LET s == mUDPSessions[i]
  IN  /\ s.write
      /\ \/ /\ s.mOutBuffer = <<>>
            /\ Becomes(i, [s EXCEPT !.write = FALSE]) /\ UNCHANGED took
         \/ /\ s.mOutBuffer # <<>>
            /\ \E k \in 0 .. Len(s.mOutBuffer) :
                 /\ Becomes(i, [s EXCEPT !.mOutBuffer = SubSeq(@, k + 1, Len(@))])
                 /\ took' = [took EXCEPT ![s.flow] = @ \o SubSeq(s.mOutBuffer, 1, k)]
      /\ UNCHANGED <<tun, running, sent, answered, fails>>

(* onReadable: buildPacket, and the Router queues it.                      *)
OnReadable(i) ==
  LET s == mUDPSessions[i]
  IN  /\ s.inbox # <<>>
      /\ Becomes(i, [s EXCEPT !.inbox = Tail(@)])
      /\ queue(s.flow, Head(s.inbox))
      /\ UNCHANGED <<running, sent, answered, took, fails>>

(* onReadable with a failing read, and onException.                        *)
OnError(i) ==
  /\ ~hasClosed(mUDPSessions[i]) /\ Fail
  /\ Becomes(i, close(mUDPSessions[i]))
  /\ UNCHANGED <<tun, running, sent, answered, took>>

OnPeriodicallyCheck(i) ==
  /\ ~hasClosed(mUDPSessions[i]) /\ timeout(mUDPSessions[i])
  /\ Becomes(i, close(mUDPSessions[i]))
  /\ UNCHANGED <<tun, running, sent, answered, took, fails>>

(* The remote answers to a socket that is open.                            *)
RemoteAnswers(i) ==
  /\ ~hasClosed(mUDPSessions[i]) /\ answered < MaxAnswers
  /\ answered' = answered + 1
  /\ Becomes(i, [mUDPSessions[i] EXCEPT !.inbox = Append(@, answered + 1)])
  /\ UNCHANGED <<tun, running, sent, took, fails>>

(* A second passes.                                                        *)
Tick ==
  /\ \E i \in DOMAIN mUDPSessions : mUDPSessions[i].age <= Limit
  /\ mUDPSessions' = [i \in DOMAIN mUDPSessions |->
       [mUDPSessions[i] EXCEPT !.age = IF @ <= Limit THEN @ + 1 ELSE @]]
  /\ UNCHANGED <<tun, running, sent, answered, took, fails>>

-----------------------------------------------------------------------------
Check == \E i \in DOMAIN mUDPSessions : OnPeriodicallyCheck(i)

Next ==
  \/ \E f \in Flows : RouterReadTun(f)
  \/ cleanDeadSessions \/ RouterWriteTun \/ RouterDeleted
  \/ \E i \in DOMAIN mUDPSessions :
       \/ OnWritable(i) \/ OnReadable(i) \/ OnError(i) \/ RemoteAnswers(i)
  \/ Check \/ Tick

Spec == Init /\ [][Next]_vars

(* The clock goes on, and the reactor checks its handlers periodically;    *)
(* nothing makes a sendto succeed.                                         *)
FairSpec ==
  Spec /\ WF_vars(Tick) /\ WF_vars(Check) /\ WF_vars(cleanDeadSessions)

-----------------------------------------------------------------------------
(* Properties.                                                             *)

Increasing(s) == \A i, j \in DOMAIN s : i < j => s[i] < s[j]

(* The answers of each flow are in the order they were sent in.            *)
InOrder(s) ==
  \A i, j \in DOMAIN s : i < j /\ s[i].flow = s[j].flow => s[i].n < s[j].n

(* Of each flow, the sockets take the app's datagrams in their order and   *)
(* each at most once, and the app gets the remote's in theirs, though the  *)
(* session may time out with datagrams queued, stay in the list and be     *)
(* replaced by another with the same addresses.                            *)
FlowsInOrder == (\A f \in Flows : Increasing(took[f])) /\ InOrder(back)

(* Every session ends: once the apps are silent the table becomes empty,   *)
(* even when sendto fails for ever and the remotes go on answering (the    *)
(* number of datagrams the apps send is bounded).                          *)
SessionsEnd == <>[](DOMAIN mUDPSessions = {})
=============================================================================
