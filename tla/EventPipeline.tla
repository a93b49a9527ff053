--------------------------- MODULE EventPipeline ---------------------------
(***************************************************************************)
(* What the native core tells the outside: the events of its connections,  *)
(* which TrafficMgr hands to Java, VpnCore to the main thread and MyHandler *)
(* to the listener, in MsgData objects from a pool; and the packets        *)
(* PacketCapture writes to a file.  Three threads besides the reactor's:   *)
(* each dispatcher's own and the main thread.                              *)
(***************************************************************************)
EXTENDS Naturals, FiniteSets, Sequences, SequencesExt

CONSTANTS Conns,     \* connections
          Objects,   \* bound: MsgData objects, as addresses
          PoolSize,  \* mSize of the pool
          MaxFile,   \* MAX_PACP_FILE_SIZE
          Seconds,   \* bound: the clock, as numbers from 1
          Loads      \* bounds: how much of each kind may happen in a behaviour

(* Routers built, events of connections, packets captured, seconds passed, *)
(* writes to the file that fail.                                           *)
LoadType ==
  [routers : Nat, events : Nat, packets : Nat, ticks : 0..(Seconds - 1), failures : Nat]

ASSUME PipelineAssumption ==
  /\ PoolSize \in Nat /\ MaxFile \in Nat /\ Seconds \in Nat \ {0}
  /\ Loads \subseteq LoadType /\ 0 \notin Objects

NoEvent == [what |-> "none"]
NoSession == 0

VARIABLES tQueue, tAsleep, tEvent, tHandlers,  \* the dispatcher of all
          cQueue, cAsleep, cEvent, cHandlers,  \* PacketCapture's own
          router,   \* the Router alive, or 0; is its loop running; Routers built
          session,  \* the total of each connection's session, or NoSession
          held,     \* the MsgData TrafficMgr's call is about to send, or 0
          data,     \* what each MsgData contains
          mPool,    \* the pool's objects
          looper,   \* the main thread's messages
          told,     \* the MsgData whose message the listener heard, or 0
          cap,      \* PacketCapture: mPcapFd, the files, their faults
          now,      \* the clock, in seconds
          due,      \* history: events dispatched that the listener has not heard
          heardWell,\* history: it heard each in its turn, as it was dispatched
          left      \* what the load still allows

traffic == <<tQueue, tAsleep, tEvent, tHandlers>>
capture == <<cQueue, cAsleep, cEvent, cHandlers, cap>>
java == <<held, data, mPool, looper, told>>
native == <<router, session>>
history == <<due, heardWell>>
vars == <<traffic, capture, java, native, history, now, left>>

T == INSTANCE EventDispatcher WITH
       mQueue <- tQueue, asleep <- tAsleep, event <- tEvent, mHandlers <- tHandlers
C == INSTANCE EventDispatcher WITH
       mQueue <- cQueue, asleep <- cAsleep, event <- cEvent, mHandlers <- cHandlers

(* TrafficMgr and PacketCapture register when the library is loaded.       *)
Init ==
  /\ T!DispatcherInit([CONN |-> <<"TrafficMgr">>, WRITE_PACKAGE |-> <<>>])
  /\ C!DispatcherInit([CAPTURE |-> <<"PacketCapture">>])
  /\ router = [up |-> 0, looping |-> FALSE, built |-> 0]
  /\ session = [c \in Conns |-> NoSession]
  /\ held = 0 /\ data = [o \in Objects |-> NoEvent] /\ mPool = <<>>
  /\ looper = <<>> /\ told = 0
  /\ cap = [mPcapFd |-> 0,
            files   |-> [s \in 1..Seconds |-> [items |-> <<>>, size |-> 0]],
            opened  |-> [s \in 1..Seconds |-> 0],
            faulty  |-> {}]
  /\ now = 1 /\ due = <<>> /\ heardWell = TRUE
  /\ left \in Loads

-----------------------------------------------------------------------------
(* The VPN thread: the Router's life, and the sessions in its loop.        *)

(* The constructor registers, start() begins a capture and loops.          *)
RouterStart ==
  /\ router.up = 0 /\ left.routers > 0
  /\ left' = [left EXCEPT !.routers = @ - 1]
  /\ router' = [up |-> router.built + 1, looping |-> TRUE, built |-> router.built + 1]
  /\ T!registerEvent("WRITE_PACKAGE", router.built + 1)
  /\ C!dispatch([what |-> "START", size |-> 0])
  /\ UNCHANGED <<cap, java, session, history, now>>

LoopEnds ==
  /\ router.looping /\ router' = [router EXCEPT !.looping = FALSE]
  /\ C!dispatch([what |-> "STOP", size |-> 0])
  /\ UNCHANGED <<traffic, cap, java, session, history, now, left>>

(* The destructor has released the sessions, and unregisters.              *)
RouterDeleted ==
  /\ router.up # 0 /\ ~router.looping /\ \A c \in Conns : session[c] = NoSession
  /\ router' = [router EXCEPT !.up = 0]
  /\ T!unregisterEvent("WRITE_PACKAGE", router.up)
  /\ UNCHANGED <<capture, java, session, history, now, left>>

Dispatching ==
  /\ router.looping /\ left.events > 0
  /\ left' = [left EXCEPT !.events = @ - 1]

Tell(what, c, total) ==
  LET e == [what |-> what, conn |-> c, total |-> total]
  IN  T!dispatch(e) /\ due' = Append(due, e) /\ UNCHANGED heardWell

(* buildSession.                                                           *)
Born(c) ==
  /\ Dispatching /\ session[c] = NoSession
  /\ session' = [session EXCEPT ![c] = 1]
  /\ Tell("BORN", c, 1)
  /\ UNCHANGED <<router, capture, java, now>>

(* An event about a session's bytes or state, with its totals so far.      *)
Traffic(c) ==
  /\ Dispatching /\ session[c] # NoSession
  /\ session' = [session EXCEPT ![c] = @ + 1]
  /\ Tell("TRAFFIC", c, session[c] + 1)
  /\ UNCHANGED <<router, capture, java, now>>

(* releaseSession, in the loop or from the destructor; not bounded, so that *)
(* a Router can always be deleted.                                         *)
Die(c) ==
  /\ session[c] # NoSession
  /\ session' = [session EXCEPT ![c] = NoSession]
  /\ Tell("DIE", c, session[c])
  /\ UNCHANGED <<router, capture, java, now, left>>

(* PacketCapture::write copies the packet.                                 *)
Captured(size) ==
  /\ router.looping /\ left.packets > 0
  /\ left' = [left EXCEPT !.packets = @ - 1]
  /\ C!dispatch([what |-> "PACKET", size |-> size])
  /\ UNCHANGED <<traffic, cap, java, native, history, now>>

-----------------------------------------------------------------------------
(* The dispatcher's thread in TrafficMgr::onEvent, notifyConnInfo and      *)
(* onConnInfo.                                                             *)

TrafficWaits ==
  /\ T!Wait \/ T!obtainEvent
  /\ UNCHANGED <<capture, java, native, history, now, left>>

InUse == {held, told} \cup {looper[i].obj : i \in DOMAIN looper}

(* A new object is at an address nothing else has.                         *)
NewInstance == CHOOSE o \in Objects : o \notin InUse

(* Mutant: the first object is handed out and stays in the pool.           *)
Mut_obtain == IF mPool = <<>> THEN <<NewInstance, mPool>> ELSE <<Head(mPool), mPool>>

(* The object and the pool without it.                                     *)
obtain == IF mPool = <<>> THEN <<NewInstance, mPool>> ELSE <<Head(mPool), Tail(mPool)>>

(* The walk over the handlers: one call for each.                          *)
onConnInfo ==
  /\ tEvent # NoEvent /\ held = 0 /\ tHandlers.CONN # <<>>
  /\ mPool # <<>> \/ Objects \ InUse # {}
  /\ held' = obtain[1] /\ mPool' = obtain[2]
  /\ data' = [data EXCEPT ![obtain[1]] = [conn |-> tEvent.conn, total |-> tEvent.total]]
  /\ UNCHANGED <<traffic, capture, looper, told, native, history, now, left>>

SendToTarget ==
  /\ held # 0 /\ held' = 0
  /\ looper' = Append(looper, [what |-> tEvent.what, obj |-> held])
  /\ T!DeleteEvent
  /\ UNCHANGED <<capture, data, mPool, told, native, history, now, left>>

(* The main thread: MyHandler.handleMessage, the listener's call and then  *)
(* recycle.                                                                *)
handleMessage ==
  /\ told = 0 /\ looper # <<>>
  /\ LET m == Head(looper)
         e == [what |-> m.what, conn |-> data[m.obj].conn, total |-> data[m.obj].total]
     IN  /\ heardWell' = (heardWell /\ due # <<>> /\ e = due[1])
         /\ due' = Tail(due) /\ told' = m.obj
  /\ looper' = Tail(looper)
  /\ UNCHANGED <<traffic, capture, held, data, mPool, native, now, left>>

recycle ==
  /\ told # 0 /\ told' = 0
  /\ mPool' = IF Len(mPool) > PoolSize \/ Contains(mPool, told) THEN mPool
              ELSE Append(mPool, told)
  /\ UNCHANGED <<traffic, capture, held, data, looper, native, history, now, left>>

-----------------------------------------------------------------------------
(* PacketCapture's thread.                                                 *)

CaptureWaits ==
  /\ C!Wait \/ C!obtainEvent
  /\ UNCHANGED <<traffic, cap, java, native, history, now, left>>

(* Mutant: at the limit the write is skipped and the file stays open.      *)
Mut_writeFile(p, item, size, ok) ==
  IF p.mPcapFd = 0 THEN p
  ELSE IF ~ok \/ p.files[p.mPcapFd].size + size > MaxFile + 1
       THEN [p EXCEPT !.faulty = IF ok THEN @ ELSE @ \cup {p.mPcapFd}]
       ELSE [p EXCEPT !.files[p.mPcapFd] =
                        [items |-> Append(@.items, item), size |-> @.size + size]]

(* A write that fails changes nothing; one that passes the limit is the    *)
(* last.                                                                   *)
writeFile(p, item, size, ok) ==
  IF p.mPcapFd = 0 THEN p
  ELSE IF ~ok THEN [p EXCEPT !.faulty = @ \cup {p.mPcapFd}]
  ELSE LET after == p.files[p.mPcapFd].size + size
       IN  [p EXCEPT !.files[p.mPcapFd] =
                       [items |-> Append(@.items, item), size |-> after],
                     !.mPcapFd = IF after > MaxFile THEN 0 ELSE @]

(* The file's name is the time; an open that fails leaves no file.         *)
openFile(p) == [p EXCEPT !.mPcapFd = now, !.opened[now] = @ + 1]

Ends(ok) ==
  /\ ok = <<TRUE, TRUE>> \/ left.failures > 0
  /\ left' = IF ok = <<TRUE, TRUE>> THEN left ELSE [left EXCEPT !.failures = @ - 1]
  /\ C!DeleteEvent
  /\ UNCHANGED <<traffic, java, native, history, now>>

CaptureStart ==
  /\ cEvent.what = "START" /\ cHandlers.CAPTURE # <<>>
  /\ \/ cap.mPcapFd # 0 /\ cap' = cap /\ Ends(<<TRUE, TRUE>>)
     \/ cap.mPcapFd = 0 /\ cap' = cap /\ Ends(<<FALSE, FALSE>>)
     \/ /\ cap.mPcapFd = 0
        /\ \E ok \in BOOLEAN :
             cap' = writeFile(openFile(cap), "hdr", 1, ok) /\ Ends(<<TRUE, ok>>)

CaptureStop ==
  /\ cEvent.what = "STOP"
  /\ cap' = [cap EXCEPT !.mPcapFd = 0]
  /\ Ends(<<TRUE, TRUE>>)

(* The record's header and its data are two writes.                        *)
CapturePacket ==
  /\ cEvent.what = "PACKET"
  /\ \E ok \in BOOLEAN \X BOOLEAN :
       /\ cap.mPcapFd = 0 => ok = <<TRUE, TRUE>>
       /\ cap' = writeFile(writeFile(cap, "rec", 1, ok[1]), "data", cEvent.size, ok[2])
       /\ Ends(ok)

Tick ==
  /\ left.ticks > 0 /\ left' = [left EXCEPT !.ticks = @ - 1]
  /\ now' = now + 1
  /\ UNCHANGED <<traffic, capture, java, native, history>>

-----------------------------------------------------------------------------
VpnThread ==
  \/ RouterStart \/ LoopEnds \/ RouterDeleted
  \/ \E c \in Conns : Born(c) \/ Traffic(c) \/ Die(c)
  \/ \E size \in 1..2 : Captured(size)

TrafficThread == TrafficWaits \/ onConnInfo \/ SendToTarget
MainThread == handleMessage \/ recycle
CaptureThread == CaptureWaits \/ CaptureStart \/ CaptureStop \/ CapturePacket

Next == VpnThread \/ TrafficThread \/ MainThread \/ CaptureThread \/ Tick

Spec == Init /\ [][Next]_vars

(* The two dispatchers' threads and the main thread go on; the Router need *)
(* not.                                                                    *)
FairSpec ==
  /\ Spec
  /\ WF_vars(TrafficThread) /\ WF_vars(MainThread) /\ WF_vars(CaptureThread)

-----------------------------------------------------------------------------
(* Properties.                                                             *)

(* The listener hears every event once, in the order of dispatch and with  *)
(* the values of its own event, though the objects that carry them are     *)
(* used again on one thread while another reads.                           *)
HeardInOrder == heardWell

(* What is dispatched is heard: the listener is, again and again, up to    *)
(* date (the number of events is bounded).                                 *)
AllHeard == []<>(due = <<>>)

(* A capture file can be read: a header, then pairs of a record's header   *)
(* and its data; only the last record of a file at its limit is cut.  This *)
(* needs that no write failed and no second capture began in the same      *)
(* second.                                                                 *)
CaptureReadable ==
  \A s \in (1..Seconds) \ cap.faulty :
    LET f == cap.files[s]
    IN  cap.opened[s] <= 1 =>
          /\ \A i \in DOMAIN f.items :
               f.items[i] = IF i = 1 THEN "hdr" ELSE IF i % 2 = 0 THEN "rec" ELSE "data"
          /\ Len(f.items) > 0 /\ Len(f.items) % 2 = 0 => f.size > MaxFile
=============================================================================
