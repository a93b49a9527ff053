------------------------ MODULE EventPipelineProofs ------------------------
(* The event pipeline, for every number of connections, objects, events    *)
(* and packets: what the listener hears, and what a capture file holds.    *)
EXTENDS EventPipeline, TLAPS

-----------------------------------------------------------------------------
(* What the listener hears: the inductive invariant                        *)

Whats == {"BORN", "TRAFFIC", "DIE"}
EventType == [what : Whats, conn : Conns, total : Nat]
DataType == [conn : Conns, total : Nat] \cup {NoEvent}
MessageType == [what : Whats, obj : Objects]

HeardTyped ==
  /\ session \in [Conns -> Nat]
  /\ tQueue \in Seq(EventType) /\ due \in Seq(EventType)
  /\ tEvent \in EventType \cup {NoEvent}
  /\ held \in Objects \cup {0} /\ told \in Objects \cup {0}
  /\ data \in [Objects -> DataType]
  /\ mPool \in Seq(Objects) /\ looper \in Seq(MessageType)

(* No object is in two places at once: about to be sent, in a message, at  *)
(* the listener, in the pool.                                              *)
OneOwner ==
  /\ held # 0 => held # told
  /\ \A i \in 1..Len(looper) :
       /\ looper[i].obj # held /\ looper[i].obj # told
       /\ \A j \in 1..Len(looper) : i # j => looper[i].obj # looper[j].obj
       /\ \A j \in 1..Len(mPool) : looper[i].obj # mPool[j]
  /\ \A i \in 1..Len(mPool) :
       /\ mPool[i] # held /\ mPool[i] # told
       /\ \A j \in 1..Len(mPool) : i # j => mPool[i] # mPool[j]

(* The event a message stands for.                                         *)
Carried(m) == [what |-> m.what, conn |-> data[m.obj].conn, total |-> data[m.obj].total]

(* The events the dispatcher's thread has in its hands.                    *)
AtWork == IF tEvent = NoEvent THEN 0 ELSE 1

(* What the listener has yet to hear is in the main thread's messages,     *)
(* then with the dispatcher's thread, then in its queue.                   *)
InTransit ==
  /\ Len(due) = Len(looper) + AtWork + Len(tQueue)
  /\ \A i \in 1..Len(looper) : due[i] = Carried(looper[i])
  /\ tEvent # NoEvent => due[Len(looper) + 1] = tEvent
  /\ \A i \in 1..Len(tQueue) : due[Len(looper) + AtWork + i] = tQueue[i]
  /\ held # 0 => /\ tEvent # NoEvent
                 /\ data[held].conn = tEvent.conn /\ data[held].total = tEvent.total

HeardInv == HeardTyped /\ OneOwner /\ InTransit /\ heardWell = TRUE

-----------------------------------------------------------------------------
(* The capture files: the inductive invariant                              *)

Kinds == {"hdr", "rec", "data"}
PieceType == [what : {"START", "STOP", "PACKET"}, size : Nat]
CapType ==
  [mPcapFd : 0..Seconds,
   files   : [1..Seconds -> [items : Seq(Kinds), size : Nat]],
   opened  : [1..Seconds -> Nat],
   faulty  : SUBSET (1..Seconds)]

(* What stands at place i of a file.                                       *)
Expected(i) == IF i = 1 THEN "hdr" ELSE IF i % 2 = 0 THEN "rec" ELSE "data"

(* How many pieces the open file has: none yet, up to the end of its header *)
(* or a record, up to the header of a record.                              *)
InPhase(n, phase) ==
  /\ phase = "new" => n = 0
  /\ phase = "ready" => n % 2 = 1
  /\ phase = "half" => n > 0 /\ n % 2 = 0

(* A file in order, which ends in half a record only at its limit; the one *)
(* that is open is in the given phase.                                     *)
FileGood(p, phase, s) ==
  LET f == p.files[s]
  IN  /\ \A i \in 1..Len(f.items) : f.items[i] = Expected(i)
      /\ p.mPcapFd = s => InPhase(Len(f.items), phase)
      /\ p.mPcapFd # s /\ Len(f.items) > 0 /\ Len(f.items) % 2 = 0 => f.size > MaxFile

FilesGood(p, phase) ==
  /\ p.mPcapFd # 0 => p.opened[p.mPcapFd] > 0
  /\ \A s \in 1..Seconds : p.opened[s] = 0 => p.files[s].items = <<>>
  /\ \A s \in (1..Seconds) \ p.faulty : p.opened[s] <= 1 => FileGood(p, phase, s)

CaptureInv ==
  /\ cQueue \in Seq(PieceType) /\ cEvent \in PieceType \cup {NoEvent}
  /\ now \in 1..Seconds /\ left \in LoadType /\ now + left.ticks <= Seconds
  /\ cap \in CapType /\ FilesGood(cap, "ready")

-----------------------------------------------------------------------------
(* What the listener hears: every step keeps the invariant                 *)

LEMMA NoEventAside == NoEvent \notin EventType
<1>1. \A e \in EventType : e.what # "none"
  BY DEF EventType, Whats
<1> QED BY <1>1 DEF NoEvent

(* What the invariant is about.                                            *)
heardVars == <<session, tQueue, tEvent, held, data, mPool, looper, told, due, heardWell>>

LEMMA HeardKept == HeardInv /\ UNCHANGED heardVars => HeardInv'
<1> SUFFICES ASSUME HeardInv, UNCHANGED heardVars PROVE HeardInv'
  OBVIOUS
<1>1. HeardTyped'
  BY DEF HeardInv, HeardTyped, heardVars
<1>2. OneOwner'
  BY DEF HeardInv, OneOwner, heardVars
<1>3. InTransit'
  BY DEF HeardInv, InTransit, AtWork, Carried, heardVars
<1> QED BY <1>1, <1>2, <1>3 DEF HeardInv, heardVars

(* An event is dispatched.                                                 *)
LEMMA TellHeard ==
  ASSUME HeardInv, NEW what \in Whats, NEW c \in Conns, NEW total \in Nat,
         Tell(what, c, total), session' \in [Conns -> Nat], UNCHANGED java
  PROVE  HeardInv'
<1> DEFINE e == [what |-> what, conn |-> c, total |-> total]
<1>1. /\ tQueue' = Append(tQueue, e) /\ due' = Append(due, e)
      /\ tEvent' = tEvent /\ heardWell' = heardWell /\ e \in EventType
      /\ held' = held /\ data' = data /\ mPool' = mPool /\ looper' = looper /\ told' = told
  BY DEF Tell, T!dispatch, java, EventType
<1> HIDE DEF e
<1>2. HeardTyped
  BY DEF HeardInv
<1>3. HeardTyped'
  BY <1>1, <1>2 DEF HeardTyped
<1>4. OneOwner'
  BY <1>1 DEF HeardInv, OneOwner
<1>5. InTransit'
  <2>1. AtWork' = AtWork /\ AtWork \in {0, 1}
    BY <1>1 DEF AtWork
  <2>2. /\ Len(due) \in Nat /\ Len(tQueue) \in Nat /\ Len(looper) \in Nat
        /\ Len(due') = Len(due) + 1 /\ due'[Len(due) + 1] = e
        /\ \A i \in 1..Len(due) : due'[i] = due[i]
        /\ Len(tQueue') = Len(tQueue) + 1 /\ tQueue'[Len(tQueue) + 1] = e
        /\ \A i \in 1..Len(tQueue) : tQueue'[i] = tQueue[i]
    BY <1>1, <1>2 DEF HeardTyped
  <2>3. Len(due) = Len(looper) + AtWork + Len(tQueue) /\ InTransit
    BY DEF HeardInv, InTransit
  <2>4. \A i \in 1..Len(looper) : due'[i] = Carried(looper[i])'
    <3>1. \A i \in 1..Len(looper) : i \in 1..Len(due) /\ due[i] = Carried(looper[i])
      BY <2>1, <2>2, <2>3 DEF InTransit
    <3> QED BY <1>1, <2>2, <3>1 DEF Carried
  <2>5. tEvent' # NoEvent => due'[Len(looper') + 1] = tEvent'
    BY <1>1, <2>2, <2>3 DEF InTransit, AtWork
  <2>6. ASSUME NEW i \in 1..Len(tQueue') PROVE due'[Len(looper') + AtWork' + i] = tQueue'[i]
    <3>1. CASE i \in 1..Len(tQueue)
      BY <1>1, <2>1, <2>2, <2>3, <3>1 DEF InTransit
    <3>2. CASE i = Len(tQueue) + 1
      BY <1>1, <2>1, <2>2, <2>3, <3>2
    <3> QED BY <2>2, <2>6, <3>1, <3>2
  <2>7. Len(due') = Len(looper') + AtWork' + Len(tQueue')
    BY <1>1, <2>1, <2>2, <2>3
  <2>8. held' # 0 => /\ tEvent' # NoEvent
                     /\ data'[held'].conn = tEvent'.conn /\ data'[held'].total = tEvent'.total
    BY <1>1, <2>3 DEF InTransit
  <2> QED BY <1>1, <2>4, <2>5, <2>6, <2>7, <2>8 DEF InTransit, Carried
<1> QED BY <1>1, <1>3, <1>4, <1>5 DEF HeardInv

(* The thread waits, or takes the front of its queue.                      *)
LEMMA TrafficWaitsHeard == HeardInv /\ TrafficWaits => HeardInv'
<1> SUFFICES ASSUME HeardInv, TrafficWaits PROVE HeardInv'
  OBVIOUS
<1>1. /\ held' = held /\ data' = data /\ mPool' = mPool /\ looper' = looper /\ told' = told
      /\ session' = session /\ due' = due /\ heardWell' = heardWell
  BY DEF TrafficWaits, java, native, history
<1>2. CASE T!Wait
  BY <1>1, <1>2, HeardKept DEF heardVars, T!Wait
<1>3. CASE T!obtainEvent
  <2>1. /\ tEvent = NoEvent /\ tQueue # <<>> /\ tEvent' = Head(tQueue) /\ tQueue' = Tail(tQueue)
        /\ HeardTyped /\ InTransit
    BY <1>3 DEF T!obtainEvent, HeardInv
  <2>2. /\ Len(tQueue) \in Nat /\ Len(tQueue) >= 1 /\ tEvent' = tQueue[1] /\ tEvent' \in EventType
        /\ Len(tQueue') = Len(tQueue) - 1 /\ tQueue' \in Seq(EventType)
        /\ \A i \in 1..Len(tQueue') : tQueue'[i] = tQueue[i + 1]
        /\ Len(looper) \in Nat /\ Len(due) \in Nat
    BY <2>1 DEF HeardTyped
  <2>3. AtWork = 0 /\ AtWork' = 1 /\ tEvent' # NoEvent
    BY <2>1, <2>2, NoEventAside DEF AtWork
  <2>4. HeardTyped'
    BY <1>1, <2>1, <2>2 DEF HeardTyped
  <2>5. OneOwner'
    BY <1>1 DEF HeardInv, OneOwner
  <2>6. held = 0
    BY <2>1 DEF InTransit
  <2>7. \A i \in 1..Len(tQueue) : due[Len(looper) + i] = tQueue[i]
    BY <2>1, <2>2, <2>3 DEF InTransit
  <2>8. due'[Len(looper') + 1] = tEvent'
    <3>1. 1 \in 1..Len(tQueue)
      BY <2>2
    <3>2. due[Len(looper) + 1] = tQueue[1]
      BY <2>7, <3>1
    <3> QED BY <1>1, <2>2, <3>2
  <2>9. ASSUME NEW i \in 1..Len(tQueue') PROVE due'[Len(looper') + AtWork' + i] = tQueue'[i]
    <3>1. i + 1 \in 1..Len(tQueue) /\ Len(looper) + 1 + i = Len(looper) + (i + 1)
      BY <2>2
    <3> QED BY <1>1, <2>2, <2>3, <2>7, <3>1
  <2>10. Len(due') = Len(looper') + AtWork' + Len(tQueue')
    BY <1>1, <2>1, <2>2, <2>3 DEF InTransit
  <2>11. \A i \in 1..Len(looper') : due'[i] = Carried(looper[i])'
    BY <1>1, <2>1 DEF InTransit, Carried
  <2>12. InTransit'
    BY <1>1, <2>6, <2>8, <2>9, <2>10, <2>11 DEF InTransit
  <2> QED BY <1>1, <2>4, <2>5, <2>12 DEF HeardInv
<1> QED BY <1>2, <1>3 DEF TrafficWaits

(* The object for an event: nobody else has it.                            *)
LEMMA ObtainedFree ==
  ASSUME HeardInv, mPool # <<>> \/ Objects \ InUse # {}
  PROVE  /\ obtain[1] \in Objects /\ obtain[2] \in Seq(Objects)
         /\ obtain[1] # told /\ \A i \in 1..Len(looper) : looper[i].obj # obtain[1]
         /\ \A i \in 1..Len(obtain[2]) :
              /\ obtain[2][i] # obtain[1]
              /\ \E k \in 1..Len(mPool) : obtain[2][i] = mPool[k]
              /\ \A j \in 1..Len(obtain[2]) : i # j => obtain[2][i] # obtain[2][j]
<1>1. HeardTyped /\ OneOwner
  BY DEF HeardInv
<1>2. CASE mPool = <<>>
  <2>1. NewInstance \in Objects /\ NewInstance \notin InUse
    <3>1. \E o \in Objects : o \notin InUse
      BY <1>2
    <3> QED BY <3>1 DEF NewInstance
  <2>2. obtain[1] = NewInstance /\ obtain[2] = <<>>
    BY <1>2 DEF obtain
  <2>3. \A i \in 1..Len(looper) : looper[i].obj \in InUse
    BY <1>1 DEF InUse, HeardTyped
  <2>4. told \in InUse
    BY DEF InUse
  <2> QED BY <2>1, <2>2, <2>3, <2>4
<1>3. CASE mPool # <<>>
  <2>1. obtain[1] = Head(mPool) /\ obtain[2] = Tail(mPool)
    BY <1>3 DEF obtain
  <2>2. /\ Len(mPool) \in Nat /\ Len(mPool) >= 1 /\ obtain[1] = mPool[1] /\ obtain[1] \in Objects
        /\ obtain[2] \in Seq(Objects) /\ Len(obtain[2]) = Len(mPool) - 1
        /\ \A i \in 1..Len(obtain[2]) : obtain[2][i] = mPool[i + 1]
    BY <1>1, <1>3, <2>1 DEF HeardTyped
  <2>3. ASSUME NEW i \in 1..Len(obtain[2])
        PROVE  /\ obtain[2][i] # obtain[1]
               /\ \E k \in 1..Len(mPool) : obtain[2][i] = mPool[k]
               /\ \A j \in 1..Len(obtain[2]) : i # j => obtain[2][i] # obtain[2][j]
    <3>1. i + 1 \in 1..Len(mPool) /\ 1 \in 1..Len(mPool) /\ i + 1 # 1 /\ obtain[2][i] = mPool[i + 1]
      BY <2>2
    <3>2. \A j \in 1..Len(obtain[2]) : j + 1 \in 1..Len(mPool) /\ obtain[2][j] = mPool[j + 1]
      BY <2>2
    <3> QED BY <1>1, <2>2, <3>1, <3>2 DEF OneOwner
  <2>4. obtain[1] # told /\ \A i \in 1..Len(looper) : looper[i].obj # obtain[1]
    BY <1>1, <2>2 DEF OneOwner
  <2> QED BY <2>2, <2>3, <2>4
<1> QED BY <1>2, <1>3

LEMMA onConnInfoHeard == HeardInv /\ onConnInfo => HeardInv'
<1> SUFFICES ASSUME HeardInv, onConnInfo PROVE HeardInv'
  OBVIOUS
<1> DEFINE o == obtain[1]
           new == [conn |-> tEvent.conn, total |-> tEvent.total]
<1>1. /\ tEvent # NoEvent /\ held = 0 /\ held' = o /\ mPool' = obtain[2]
      /\ data' = [data EXCEPT ![o] = new]
      /\ tQueue' = tQueue /\ tEvent' = tEvent /\ looper' = looper /\ told' = told
      /\ session' = session /\ due' = due /\ heardWell' = heardWell
      /\ HeardTyped /\ OneOwner /\ InTransit
  BY DEF onConnInfo, HeardInv, traffic, native, history
<1>2. mPool # <<>> \/ Objects \ InUse # {}
  BY DEF onConnInfo
<1>3. /\ o \in Objects /\ obtain[2] \in Seq(Objects)
      /\ o # told /\ \A i \in 1..Len(looper) : looper[i].obj # o
      /\ \A i \in 1..Len(obtain[2]) :
           /\ obtain[2][i] # o
           /\ \E k \in 1..Len(mPool) : obtain[2][i] = mPool[k]
           /\ \A j \in 1..Len(obtain[2]) : i # j => obtain[2][i] # obtain[2][j]
  BY <1>2, ObtainedFree
<1> HIDE DEF o
<1>4. new \in DataType /\ new.conn = tEvent.conn /\ new.total = tEvent.total
  BY <1>1 DEF HeardTyped, DataType, EventType
<1> HIDE DEF new
<1>5. /\ data' \in [Objects -> DataType] /\ data'[o] = new
      /\ \A p \in Objects : p # o => data'[p] = data[p]
  BY <1>1, <1>3, <1>4 DEF HeardTyped
<1>6. HeardTyped'
  BY <1>1, <1>3, <1>5 DEF HeardTyped
<1>7. OneOwner'
  <2>1. ASSUME NEW i \in 1..Len(mPool') PROVE
          /\ mPool'[i] # held' /\ mPool'[i] # told'
          /\ \A j \in 1..Len(mPool') : i # j => mPool'[i] # mPool'[j]
          /\ \A j \in 1..Len(looper') : looper'[j].obj # mPool'[i]
    BY <1>1, <1>3 DEF OneOwner
  <2>2. ASSUME NEW i \in 1..Len(looper') PROVE
          /\ looper'[i].obj # held' /\ looper'[i].obj # told'
          /\ \A j \in 1..Len(looper') : i # j => looper'[i].obj # looper'[j].obj
    BY <1>1, <1>3 DEF OneOwner
  <2>3. held' # told'
    BY <1>1, <1>3
  <2> QED BY <2>1, <2>2, <2>3 DEF OneOwner
<1>8. InTransit'
  <2>1. \A i \in 1..Len(looper') : due'[i] = Carried(looper[i])'
    <3>1. \A i \in 1..Len(looper) : looper[i].obj \in Objects
      <4>1. \A i \in 1..Len(looper) : looper[i] \in MessageType
        BY <1>1 DEF HeardTyped
      <4> QED BY <4>1 DEF MessageType
    <3>2. \A i \in 1..Len(looper) : data'[looper[i].obj] = data[looper[i].obj]
      BY <1>3, <1>5, <3>1
    <3> QED BY <1>1, <3>2 DEF InTransit, Carried
  <2>2. AtWork' = AtWork
    BY <1>1 DEF AtWork
  <2>3. data'[held'].conn = tEvent'.conn /\ data'[held'].total = tEvent'.total
    BY <1>1, <1>4, <1>5
  <2> QED BY <1>1, <2>1, <2>2, <2>3 DEF InTransit
<1> QED BY <1>1, <1>6, <1>7, <1>8 DEF HeardInv

LEMMA SendHeard == HeardInv /\ SendToTarget => HeardInv'
<1> SUFFICES ASSUME HeardInv, SendToTarget PROVE HeardInv'
  OBVIOUS
<1> DEFINE m == [what |-> tEvent.what, obj |-> held]
<1>1. /\ held # 0 /\ held' = 0 /\ looper' = Append(looper, m)
      /\ tEvent' = NoEvent /\ tQueue' = tQueue /\ data' = data /\ mPool' = mPool /\ told' = told
      /\ session' = session /\ due' = due /\ heardWell' = heardWell
      /\ HeardTyped /\ OneOwner /\ InTransit
  BY DEF SendToTarget, T!DeleteEvent, HeardInv, native, history
<1>2. tEvent \in EventType /\ tEvent # NoEvent /\ held \in Objects
  BY <1>1 DEF HeardTyped, InTransit
<1>3. m \in MessageType /\ m.what = tEvent.what /\ m.obj = held
  BY <1>2 DEF MessageType, EventType
<1> HIDE DEF m
<1>4. /\ looper' \in Seq(MessageType) /\ Len(looper) \in Nat /\ Len(looper') = Len(looper) + 1
      /\ looper'[Len(looper) + 1] = m /\ \A i \in 1..Len(looper) : looper'[i] = looper[i]
  BY <1>1, <1>3 DEF HeardTyped
<1>5. HeardTyped'
  BY <1>1, <1>4 DEF HeardTyped
<1>6. OneOwner'
  <2>1. ASSUME NEW i \in 1..Len(looper') PROVE
          /\ looper'[i].obj # held' /\ looper'[i].obj # told'
          /\ \A j \in 1..Len(looper') : i # j => looper'[i].obj # looper'[j].obj
          /\ \A j \in 1..Len(mPool') : looper'[i].obj # mPool'[j]
    <3>1. \A j \in 1..Len(looper') : looper'[j] \in MessageType
      BY <1>4
    <3>2. looper'[i].obj # 0
      BY <3>1, PipelineAssumption DEF MessageType
    <3>3. CASE i \in 1..Len(looper)
      <4>1. ASSUME NEW j \in 1..Len(looper'), i # j PROVE looper'[i].obj # looper'[j].obj
        <5>1. CASE j \in 1..Len(looper)
          BY <1>1, <1>4, <3>3, <4>1, <5>1 DEF OneOwner
        <5>2. CASE j = Len(looper) + 1
          BY <1>1, <1>3, <1>4, <3>3, <5>2 DEF OneOwner
        <5> QED BY <1>4, <5>1, <5>2
      <4> QED BY <1>1, <1>4, <3>2, <3>3, <4>1 DEF OneOwner
    <3>4. CASE i = Len(looper) + 1
      <4>1. ASSUME NEW j \in 1..Len(looper'), i # j PROVE looper'[i].obj # looper'[j].obj
        <5>1. j \in 1..Len(looper)
          BY <1>4, <3>4, <4>1
        <5> QED BY <1>1, <1>3, <1>4, <3>4, <5>1 DEF OneOwner
      <4> QED BY <1>1, <1>3, <1>4, <3>2, <3>4, <4>1 DEF OneOwner
    <3> QED BY <1>4, <2>1, <3>3, <3>4
  <2>2. ASSUME NEW i \in 1..Len(mPool) PROVE mPool[i] # 0
    BY <1>1, PipelineAssumption DEF HeardTyped
  <2> QED BY <1>1, <2>1, <2>2 DEF OneOwner
<1>7. InTransit'
  <2>1. AtWork = 1 /\ AtWork' = 0
    BY <1>1, <1>2 DEF AtWork
  <2>2. ASSUME NEW i \in 1..Len(looper') PROVE due'[i] = Carried(looper[i])'
    <3>1. CASE i \in 1..Len(looper)
      BY <1>1, <1>4, <3>1 DEF InTransit, Carried
    <3>2. CASE i = Len(looper) + 1
      <4>1. due[i] = tEvent /\ data[held].conn = tEvent.conn /\ data[held].total = tEvent.total
        BY <1>1, <1>2, <3>2 DEF InTransit
      <4>2. tEvent = [what |-> tEvent.what, conn |-> tEvent.conn, total |-> tEvent.total]
        BY <1>2 DEF EventType
      <4> QED BY <1>1, <1>3, <1>4, <3>2, <4>1, <4>2 DEF Carried
    <3> QED BY <1>4, <2>2, <3>1, <3>2
  <2>3. ASSUME NEW i \in 1..Len(tQueue') PROVE due'[Len(looper') + AtWork' + i] = tQueue'[i]
    BY <1>1, <1>4, <2>1 DEF InTransit
  <2>4. Len(due') = Len(looper') + AtWork' + Len(tQueue')
    <3>1. Len(tQueue) \in Nat
      BY <1>1 DEF HeardTyped
    <3> QED BY <1>1, <1>4, <2>1, <3>1 DEF InTransit
  <2> QED BY <1>1, <2>2, <2>3, <2>4 DEF InTransit
<1> QED BY <1>1, <1>5, <1>6, <1>7 DEF HeardInv

(* The listener hears the oldest event due.                                *)
LEMMA handleMessageHeard == HeardInv /\ handleMessage => HeardInv'
<1> SUFFICES ASSUME HeardInv, handleMessage PROVE HeardInv'
  OBVIOUS
<1> DEFINE m == looper[1]
<1>1. /\ told = 0 /\ looper # <<>> /\ looper' = Tail(looper)
      /\ due' = Tail(due) /\ told' = Head(looper).obj
      /\ heardWell' = (heardWell /\ due # <<>> /\ Carried(Head(looper)) = due[1])
      /\ tQueue' = tQueue /\ tEvent' = tEvent /\ held' = held /\ data' = data /\ mPool' = mPool
      /\ session' = session
      /\ HeardTyped /\ OneOwner /\ InTransit /\ heardWell = TRUE
  BY DEF handleMessage, HeardInv, Carried, traffic, native
<1>2. /\ Len(looper) \in Nat /\ Len(looper) >= 1 /\ Head(looper) = m /\ m \in MessageType
      /\ looper' \in Seq(MessageType) /\ Len(looper') = Len(looper) - 1
      /\ \A i \in 1..Len(looper') : looper'[i] = looper[i + 1]
      /\ Len(tQueue) \in Nat /\ Len(due) \in Nat /\ AtWork \in {0, 1} /\ AtWork' = AtWork
  BY <1>1 DEF HeardTyped, AtWork
<1>3. /\ Len(due) >= 1 /\ due # <<>> /\ due' \in Seq(EventType) /\ Len(due') = Len(due) - 1
      /\ \A i \in 1..Len(due') : due'[i] = due[i + 1]
  <2>1. Len(due) >= 1
    BY <1>1, <1>2 DEF InTransit
  <2>2. due # <<>>
    BY <2>1
  <2> QED BY <1>1, <2>1, <2>2 DEF HeardTyped
<1>4. heardWell' = TRUE
  <2>1. 1 \in 1..Len(looper)
    BY <1>2
  <2>2. due[1] = Carried(m)
    BY <1>1, <2>1 DEF InTransit
  <2> QED BY <1>1, <1>2, <1>3, <2>2
<1>5. m.obj \in Objects /\ told' = m.obj
  BY <1>1, <1>2 DEF MessageType
<1>6. HeardTyped'
  BY <1>1, <1>2, <1>3, <1>5 DEF HeardTyped
<1>7. \A i \in 1..Len(looper') : i + 1 \in 1..Len(looper) /\ 1 \in 1..Len(looper) /\ i + 1 # 1
  BY <1>2
<1>8. OneOwner'
  <2>1. ASSUME NEW i \in 1..Len(looper') PROVE
          /\ looper'[i].obj # held' /\ looper'[i].obj # told'
          /\ \A j \in 1..Len(looper') : i # j => looper'[i].obj # looper'[j].obj
          /\ \A j \in 1..Len(mPool') : looper'[i].obj # mPool'[j]
    <3>1. \A j \in 1..Len(looper') : i # j => i + 1 # j + 1
      BY <1>2
    <3> QED BY <1>1, <1>2, <1>5, <1>7, <3>1 DEF OneOwner
  <2>2. held' # 0 => held' # told'
    BY <1>1, <1>2, <1>5 DEF OneOwner
  <2>3. ASSUME NEW i \in 1..Len(mPool') PROVE mPool'[i] # told'
    BY <1>1, <1>2, <1>5 DEF OneOwner
  <2> QED BY <1>1, <2>1, <2>2, <2>3 DEF OneOwner
<1>9. InTransit'
  <2>1. Len(due') = Len(looper') + AtWork' + Len(tQueue')
    BY <1>1, <1>2, <1>3 DEF InTransit
  <2>2. ASSUME NEW i \in 1..Len(looper') PROVE due'[i] = Carried(looper[i])'
    <3>1. i \in 1..Len(due') /\ due[i + 1] = Carried(looper[i + 1])
      BY <1>1, <1>2, <1>7, <2>1 DEF InTransit
    <3> QED BY <1>1, <1>2, <1>3, <3>1 DEF Carried
  <2>3. tEvent' # NoEvent => due'[Len(looper') + 1] = tEvent'
    <3> SUFFICES ASSUME tEvent # NoEvent PROVE due'[Len(looper') + 1] = tEvent
      BY <1>1
    <3>1. AtWork = 1
      BY DEF AtWork
    <3>2. Len(looper') + 1 \in 1..Len(due') /\ Len(looper') + 1 = Len(looper)
      BY <1>2, <2>1, <3>1, <1>1
    <3> QED BY <1>1, <1>3, <3>2 DEF InTransit
  <2>4. ASSUME NEW i \in 1..Len(tQueue') PROVE due'[Len(looper') + AtWork' + i] = tQueue'[i]
    <3>1. /\ Len(looper') + AtWork' + i \in 1..Len(due')
          /\ Len(looper') + AtWork' + i + 1 = Len(looper) + AtWork + i
      BY <1>1, <1>2, <2>1
    <3> QED BY <1>1, <1>3, <3>1 DEF InTransit
  <2> QED BY <1>1, <2>1, <2>2, <2>3, <2>4 DEF InTransit
<1> QED BY <1>4, <1>6, <1>8, <1>9 DEF HeardInv

LEMMA recycleHeard == HeardInv /\ recycle => HeardInv'
<1> SUFFICES ASSUME HeardInv, recycle PROVE HeardInv'
  OBVIOUS
<1>1. /\ told # 0 /\ told' = 0
      /\ tQueue' = tQueue /\ tEvent' = tEvent /\ held' = held /\ data' = data /\ looper' = looper
      /\ session' = session /\ due' = due /\ heardWell' = heardWell
      /\ HeardTyped /\ OneOwner /\ InTransit
  BY DEF recycle, HeardInv, traffic, native, history
<1>2. told \in Objects
  BY <1>1 DEF HeardTyped
<1>3. CASE mPool' = mPool
  <2>1. HeardTyped'
    BY <1>1, <1>3 DEF HeardTyped
  <2>2. \A i \in 1..Len(mPool) : mPool[i] # 0
    BY <1>1, PipelineAssumption DEF HeardTyped
  <2>3. \A i \in 1..Len(looper) : looper[i].obj # 0
    <3>1. \A i \in 1..Len(looper) : looper[i] \in MessageType
      BY <1>1 DEF HeardTyped
    <3> QED BY <3>1, PipelineAssumption DEF MessageType
  <2>4. OneOwner'
    BY <1>1, <1>3, <2>2, <2>3 DEF OneOwner
  <2>5. InTransit'
    BY <1>1 DEF InTransit, AtWork, Carried
  <2> QED BY <1>1, <2>1, <2>4, <2>5 DEF HeardInv
<1>4. CASE mPool' = Append(mPool, told)
  <2>1. /\ mPool' \in Seq(Objects) /\ Len(mPool) \in Nat /\ Len(mPool') = Len(mPool) + 1
        /\ mPool'[Len(mPool) + 1] = told /\ \A i \in 1..Len(mPool) : mPool'[i] = mPool[i]
    BY <1>1, <1>2, <1>4 DEF HeardTyped
  <2>2. HeardTyped'
    BY <1>1, <2>1 DEF HeardTyped
  <2>3. \A i \in 1..Len(mPool') : mPool'[i] # 0
    BY <2>1, PipelineAssumption
  <2>4. \A i \in 1..Len(looper) : looper[i].obj # 0
    <3>1. \A i \in 1..Len(looper) : looper[i] \in MessageType
      BY <1>1 DEF HeardTyped
    <3> QED BY <3>1, PipelineAssumption DEF MessageType
  <2>5. \A i \in 1..Len(mPool') : i \in 1..Len(mPool) \/ i = Len(mPool) + 1
    BY <2>1
  <2>6. ASSUME NEW i \in 1..Len(mPool') PROVE
          /\ mPool'[i] # held /\ \A j \in 1..Len(looper) : looper[j].obj # mPool'[i]
          /\ \A j \in 1..Len(mPool') : i # j => mPool'[i] # mPool'[j]
    BY <1>1, <2>1, <2>5 DEF OneOwner
  <2>7. OneOwner'
    BY <1>1, <2>3, <2>4, <2>6 DEF OneOwner
  <2>8. InTransit'
    BY <1>1 DEF InTransit, AtWork, Carried
  <2> QED BY <1>1, <2>2, <2>7, <2>8 DEF HeardInv
<1> QED BY <1>3, <1>4 DEF recycle

LEMMA HeardNext == HeardInv /\ [Next]_vars => HeardInv'
<1> SUFFICES ASSUME HeardInv, [Next]_vars PROVE HeardInv'
  OBVIOUS
<1>1. session \in [Conns -> Nat]
  BY DEF HeardInv, HeardTyped
<1>2. ASSUME NEW c \in Conns, Born(c) \/ Traffic(c) \/ Die(c) PROVE HeardInv'
  <2>1. CASE Born(c)
    <3>1. session' \in [Conns -> Nat] /\ Tell("BORN", c, 1) /\ UNCHANGED java
      BY <1>1, <2>1 DEF Born
    <3> QED BY <3>1, TellHeard DEF Whats
  <2>2. CASE Traffic(c)
    <3>1. session' \in [Conns -> Nat] /\ Tell("TRAFFIC", c, session[c] + 1) /\ UNCHANGED java
      BY <1>1, <2>2 DEF Traffic
    <3>2. session[c] + 1 \in Nat
      BY <1>1
    <3> QED BY <3>1, <3>2, TellHeard DEF Whats
  <2>3. CASE Die(c)
    <3>1. session' \in [Conns -> Nat] /\ Tell("DIE", c, session[c]) /\ UNCHANGED java
      BY <1>1, <2>3 DEF Die, NoSession
    <3>2. session[c] \in Nat
      BY <1>1
    <3> QED BY <3>1, <3>2, TellHeard DEF Whats
  <2> QED BY <1>2, <2>1, <2>2, <2>3
<1>3. CASE RouterStart
  BY <1>3, HeardKept DEF RouterStart, heardVars, java, history, T!registerEvent
<1>4. CASE LoopEnds
  BY <1>4, HeardKept DEF LoopEnds, heardVars, java, history, traffic
<1>5. CASE RouterDeleted
  BY <1>5, HeardKept DEF RouterDeleted, heardVars, java, history, T!unregisterEvent
<1>6. ASSUME NEW size \in 1..2, Captured(size) PROVE HeardInv'
  BY <1>6, HeardKept DEF Captured, heardVars, java, history, traffic, native
<1>7. CASE TrafficThread
  BY <1>7, TrafficWaitsHeard, onConnInfoHeard, SendHeard DEF TrafficThread
<1>8. CASE MainThread
  BY <1>8, handleMessageHeard, recycleHeard DEF MainThread
<1>9. CASE CaptureWaits
  BY <1>9, HeardKept DEF CaptureWaits, heardVars, java, history, traffic, native
<1>10. ASSUME NEW ok, Ends(ok) PROVE HeardInv'
  BY <1>10, HeardKept DEF Ends, heardVars, java, history, traffic, native
<1>11. CASE CaptureStart \/ CaptureStop \/ CapturePacket
  BY <1>10, <1>11 DEF CaptureStart, CaptureStop, CapturePacket
<1>12. CASE Tick
  BY <1>12, HeardKept DEF Tick, heardVars, java, history, traffic, native
<1>13. CASE UNCHANGED vars
  BY <1>13, HeardKept DEF vars, heardVars, java, history, traffic, native
<1> QED BY <1>2, <1>3, <1>4, <1>5, <1>6, <1>7, <1>8, <1>9, <1>11, <1>12, <1>13
        DEF Next, VpnThread, CaptureThread

LEMMA HeardInit == Init => HeardInv
<1> SUFFICES ASSUME Init PROVE HeardInv
  OBVIOUS
<1>1. /\ tQueue = <<>> /\ tEvent = NoEvent /\ session = [c \in Conns |-> 0]
      /\ held = 0 /\ data = [o \in Objects |-> NoEvent] /\ mPool = <<>>
      /\ looper = <<>> /\ told = 0 /\ due = <<>> /\ heardWell = TRUE
  BY DEF Init, T!DispatcherInit, NoSession
<1>2. HeardTyped
  BY <1>1 DEF HeardTyped, DataType
<1>3. OneOwner /\ InTransit
  BY <1>1 DEF OneOwner, InTransit, AtWork
<1> QED BY <1>1, <1>2, <1>3 DEF HeardInv

(* The listener hears every event once, in order and with its own values,  *)
(* however the four threads interleave and the pool's objects are used     *)
(* again.                                                                  *)
THEOREM EventsHeardInOrder == Spec => []HeardInOrder
<1>1. HeardInv => HeardInOrder
  BY DEF HeardInv, HeardInOrder
<1> QED BY <1>1, HeardInit, HeardNext, PTL DEF Spec

-----------------------------------------------------------------------------
(* The capture files: every step keeps the invariant                       *)

(* The three kinds of write, and the phases they lead between.             *)
Writes == {<<"new", "hdr", "ready">>, <<"ready", "rec", "half">>, <<"half", "data", "ready">>}

LEMMA Parity ==
  ASSUME NEW n \in Nat
  PROVE  /\ n % 2 = 1 => (n + 1) % 2 = 0
         /\ n % 2 = 0 => (n + 1) % 2 = 1
OBVIOUS

LEMMA WriteGood ==
  ASSUME NEW p \in CapType, NEW w \in Writes, FilesGood(p, w[1]), NEW size \in Nat, NEW ok \in BOOLEAN
  PROVE  writeFile(p, w[2], size, ok) \in CapType /\ FilesGood(writeFile(p, w[2], size, ok), w[3])
<1> DEFINE q == writeFile(p, w[2], size, ok)
           d == p.mPcapFd
<1>0. Seconds \in Nat /\ MaxFile \in Nat
  BY PipelineAssumption
<1>1. CASE d = 0
  <2>1. q = p
    BY <1>1 DEF writeFile
  <2>2. ASSUME NEW s \in 1..Seconds, FileGood(p, w[1], s) PROVE FileGood(p, w[3], s)
    <3>1. p.mPcapFd # s
      BY <1>0, <1>1
    <3> QED BY <2>2, <3>1 DEF FileGood
  <2> QED BY <2>1, <2>2 DEF FilesGood
<1>2. CASE d # 0 /\ ~ok
  <2>1. q = [p EXCEPT !.faulty = @ \cup {d}] /\ d \in 1..Seconds
    BY <1>0, <1>2 DEF writeFile, CapType
  <2>2. /\ q \in CapType /\ q.mPcapFd = d /\ q.files = p.files /\ q.opened = p.opened
        /\ q.faulty = p.faulty \cup {d}
    BY <2>1 DEF CapType
  <2> HIDE DEF q
  <2>3. \A s \in (1..Seconds) \ q.faulty : FileGood(p, w[1], s) => FileGood(q, w[3], s)
    BY <2>2 DEF FileGood
  <2>4. FilesGood(q, w[3])
    BY <2>2, <2>3 DEF FilesGood
  <2> QED BY <2>2, <2>4 DEF q
<1>3. CASE d # 0 /\ ok
  <2> DEFINE f == p.files[d]
             after == f.size + size
             g == [items |-> Append(f.items, w[2]), size |-> after]
  <2>1. d \in 1..Seconds /\ f.items \in Seq(Kinds) /\ f.size \in Nat
    <3>1. d \in 1..Seconds
      BY <1>0, <1>3 DEF CapType
    <3>2. f \in [items : Seq(Kinds), size : Nat]
      BY <3>1 DEF CapType
    <3> QED BY <3>1, <3>2
  <2>2. w[2] \in Kinds
    BY DEF Writes, Kinds
  <2>3. q = [p EXCEPT !.files = [p.files EXCEPT ![d] = g],
                     !.mPcapFd = IF after > MaxFile THEN 0 ELSE d]
    BY <1>3 DEF writeFile
  <2> HIDE DEF f, d
  <2>4. g \in [items : Seq(Kinds), size : Nat] /\ g.size = after /\ after \in Nat
    BY <2>1, <2>2
  <2>5. /\ Len(f.items) \in Nat /\ Len(g.items) = Len(f.items) + 1
        /\ g.items[Len(f.items) + 1] = w[2] /\ \A i \in 1..Len(f.items) : g.items[i] = f.items[i]
    BY <2>1, <2>2
  <2> HIDE DEF g
  <2>6. /\ q \in CapType /\ q.opened = p.opened /\ q.faulty = p.faulty
        /\ q.files[d] = g /\ \A s \in (1..Seconds) \ {d} : q.files[s] = p.files[s]
        /\ q.mPcapFd = IF after > MaxFile THEN 0 ELSE d
    <3>1. p.files \in [1..Seconds -> [items : Seq(Kinds), size : Nat]]
      BY DEF CapType
    <3>2. [p.files EXCEPT ![d] = g] \in [1..Seconds -> [items : Seq(Kinds), size : Nat]]
      BY <2>1, <2>4, <3>1
    <3>3. (IF after > MaxFile THEN 0 ELSE d) \in 0..Seconds
      BY <1>0, <2>1
    <3>4. /\ q \in CapType /\ q.opened = p.opened /\ q.faulty = p.faulty
          /\ q.files = [p.files EXCEPT ![d] = g]
          /\ q.mPcapFd = IF after > MaxFile THEN 0 ELSE d
      BY <2>3, <3>2, <3>3 DEF CapType
    <3> HIDE DEF q, after
    <3> QED BY <2>1, <3>1, <3>4
  <2> HIDE DEF q
  <2>7. ASSUME NEW s \in (1..Seconds) \ q.faulty, q.opened[s] <= 1 PROVE FileGood(q, w[3], s)
    <3>1. FileGood(p, w[1], s)
      BY <2>6, <2>7 DEF FilesGood
    <3>2. CASE s # d
      <4>1. p.mPcapFd # s /\ q.mPcapFd # s /\ q.files[s] = p.files[s]
        BY <2>6, <3>2 DEF d
      <4> QED BY <3>1, <4>1 DEF FileGood
    <3>3. CASE s = d
      <4>1. InPhase(Len(f.items), w[1]) /\ \A i \in 1..Len(f.items) : f.items[i] = Expected(i)
        BY <3>1, <3>3 DEF FileGood, f, d
      <4>2. w[2] = Expected(Len(f.items) + 1) /\ InPhase(Len(g.items), w[3])
        <5> DEFINE n == Len(f.items)
        <5>0. /\ n \in Nat /\ Len(g.items) = n + 1 /\ InPhase(n, w[1])
              /\ n % 2 = 1 => (n + 1) % 2 = 0
              /\ n % 2 = 0 => (n + 1) % 2 = 1
          BY <2>5, <4>1, Parity
        <5> HIDE DEF n
        <5>1. CASE w = <<"new", "hdr", "ready">>
          <6>1. w[1] = "new" /\ w[2] = "hdr" /\ w[3] = "ready"
            BY <5>1
          <6>2. n = 0 /\ n + 1 = 1
            BY <5>0, <6>1 DEF InPhase
          <6>3. (n + 1) % 2 = 1
            BY <5>0, <6>2
          <6> QED BY <5>0, <6>1, <6>2, <6>3 DEF InPhase, Expected, n
        <5>2. CASE w = <<"ready", "rec", "half">>
          <6>1. w[1] = "ready" /\ w[2] = "rec" /\ w[3] = "half"
            BY <5>2
          <6>2. (n + 1) % 2 = 0 /\ n + 1 > 0 /\ n + 1 # 1
            BY <5>0, <6>1 DEF InPhase
          <6> QED BY <5>0, <6>1, <6>2 DEF InPhase, Expected, n
        <5>3. CASE w = <<"half", "data", "ready">>
          <6>1. w[1] = "half" /\ w[2] = "data" /\ w[3] = "ready"
            BY <5>3
          <6>2. (n + 1) % 2 = 1 /\ n + 1 # 1
            BY <5>0, <6>1 DEF InPhase
          <6> QED BY <5>0, <6>1, <6>2 DEF InPhase, Expected, n
        <5> QED BY <5>1, <5>2, <5>3 DEF Writes
      <4>3. \A i \in 1..Len(g.items) : g.items[i] = Expected(i)
        <5>1. \A i \in 1..Len(g.items) : i \in 1..Len(f.items) \/ i = Len(f.items) + 1
          BY <2>5
        <5> QED BY <2>5, <4>1, <4>2, <5>1
      <4>4. q.mPcapFd # d => g.size > MaxFile
        BY <2>4, <2>6
      <4> QED BY <2>6, <3>3, <4>2, <4>3, <4>4 DEF FileGood
    <3> QED BY <3>2, <3>3
  <2>8. ASSUME NEW s \in 1..Seconds, q.opened[s] = 0 PROVE q.files[s].items = <<>>
    <3>1. s # d
      BY <1>3, <2>1, <2>6, <2>8 DEF FilesGood, d
    <3> QED BY <2>6, <2>8, <3>1 DEF FilesGood
  <2>9. q.mPcapFd # 0 => q.opened[q.mPcapFd] > 0
    BY <1>3, <2>1, <2>6 DEF FilesGood, d
  <2>10. FilesGood(q, w[3])
    BY <2>7, <2>8, <2>9 DEF FilesGood
  <2> QED BY <2>6, <2>10 DEF q
<1> QED BY <1>1, <1>2, <1>3

(* No file is open.                                                        *)
LEMMA OpenGood ==
  ASSUME cap \in CapType, FilesGood(cap, "ready"), cap.mPcapFd = 0, now \in 1..Seconds
  PROVE  openFile(cap) \in CapType /\ FilesGood(openFile(cap), "new")
<1> DEFINE q == openFile(cap)
<1>1. /\ q \in CapType /\ q.mPcapFd = now /\ q.files = cap.files /\ q.faulty = cap.faulty
      /\ q.opened[now] = cap.opened[now] + 1 /\ cap.opened[now] \in Nat
      /\ \A s \in (1..Seconds) \ {now} : q.opened[s] = cap.opened[s]
  <2>1. q = [cap EXCEPT !.mPcapFd = now, !.opened = [cap.opened EXCEPT ![now] = @ + 1]]
    BY DEF openFile
  <2>2. cap.opened \in [1..Seconds -> Nat] /\ now \in 0..Seconds /\ Seconds \in Nat
    BY PipelineAssumption DEF CapType
  <2>3. [cap.opened EXCEPT ![now] = @ + 1] \in [1..Seconds -> Nat]
    <3>1. cap.opened[now] + 1 \in Nat
      BY <2>2
    <3> QED BY <2>2, <3>1
  <2>4. /\ q \in CapType /\ q.mPcapFd = now /\ q.files = cap.files /\ q.faulty = cap.faulty
        /\ q.opened = [cap.opened EXCEPT ![now] = @ + 1]
    BY <2>1, <2>2, <2>3 DEF CapType
  <2> HIDE DEF q
  <2> QED BY <2>2, <2>4
<1> HIDE DEF q
<1>2. ASSUME NEW s \in (1..Seconds) \ q.faulty, q.opened[s] <= 1 PROVE FileGood(q, "new", s)
  <2>1. CASE s = now
    <3>1. cap.opened[s] = 0
      BY <1>1, <1>2, <2>1
    <3>2. q.files[s].items = <<>>
      BY <1>1, <3>1 DEF FilesGood
    <3>3. Len(q.files[s].items) = 0
      BY <3>2
    <3> QED BY <1>1, <2>1, <3>3 DEF FileGood, InPhase
  <2>2. CASE s # now
    <3>1. FileGood(cap, "ready", s)
      BY <1>1, <1>2, <2>2 DEF FilesGood
    <3>2. q.mPcapFd # s /\ cap.mPcapFd # s /\ q.files[s] = cap.files[s]
      BY <1>1, <2>2
    <3> QED BY <3>1, <3>2 DEF FileGood
  <2> QED BY <2>1, <2>2
<1>3. ASSUME NEW s \in 1..Seconds, q.opened[s] = 0 PROVE q.files[s].items = <<>>
  BY <1>1, <1>3 DEF FilesGood
<1>4. FilesGood(q, "new")
  BY <1>1, <1>2, <1>3 DEF FilesGood
<1> QED BY <1>1, <1>4 DEF q

(* The capture is stopped.                                                 *)
LEMMA StopGood ==
  ASSUME cap \in CapType, FilesGood(cap, "ready")
  PROVE  [cap EXCEPT !.mPcapFd = 0] \in CapType /\ FilesGood([cap EXCEPT !.mPcapFd = 0], "ready")
<1> DEFINE q == [cap EXCEPT !.mPcapFd = 0]
<1>1. /\ q \in CapType /\ q.mPcapFd = 0 /\ q.files = cap.files
      /\ q.faulty = cap.faulty /\ q.opened = cap.opened
  BY PipelineAssumption DEF CapType
<1> HIDE DEF q
<1>2. ASSUME NEW s \in (1..Seconds) \ q.faulty, q.opened[s] <= 1 PROVE FileGood(q, "ready", s)
  <2>1. FileGood(cap, "ready", s)
    BY <1>1, <1>2 DEF FilesGood
  <2>2. cap.mPcapFd = s => Len(cap.files[s].items) % 2 = 1
    BY <2>1 DEF FileGood, InPhase
  <2>3. q.mPcapFd # s /\ q.files[s] = cap.files[s]
    BY <1>1
  <2>4. CASE cap.mPcapFd = s
    <3>1. ~(Len(cap.files[s].items) % 2 = 0)
      <4>1. \A x : x = 1 => x # 0
        OBVIOUS
      <4> QED BY ONLY <2>2, <2>4, <4>1, Zenon
    <3> QED BY <2>1, <2>3, <3>1 DEF FileGood
  <2>5. CASE cap.mPcapFd # s
    BY <2>1, <2>3, <2>5 DEF FileGood
  <2> QED BY <2>4, <2>5
<1>3. FilesGood(q, "ready")
  BY <1>1, <1>2 DEF FilesGood
<1> QED BY <1>1, <1>3 DEF q

(* The load left shrinks; time passes in Tick only.                        *)
LEMMA LeftKept ==
  ASSUME left \in LoadType,
         \/ left' = left
         \/ left.routers > 0 /\ left' = [left EXCEPT !.routers = @ - 1]
         \/ left.events > 0 /\ left' = [left EXCEPT !.events = @ - 1]
         \/ left.packets > 0 /\ left' = [left EXCEPT !.packets = @ - 1]
         \/ left.failures > 0 /\ left' = [left EXCEPT !.failures = @ - 1]
  PROVE  left' \in LoadType /\ left'.ticks = left.ticks
<1>1. left.routers \in Nat /\ left.events \in Nat /\ left.packets \in Nat /\ left.failures \in Nat
  BY DEF LoadType
<1>2. /\ left.routers > 0 => left.routers - 1 \in Nat
      /\ left.events > 0 => left.events - 1 \in Nat
      /\ left.packets > 0 => left.packets - 1 \in Nat
      /\ left.failures > 0 => left.failures - 1 \in Nat
  BY <1>1
<1> QED BY <1>2 DEF LoadType

LEMMA CaptureKept ==
  ASSUME CaptureInv, UNCHANGED <<cap, now>>, left' \in LoadType, left'.ticks = left.ticks,
         cQueue' \in Seq(PieceType), cEvent' \in PieceType \cup {NoEvent}
  PROVE  CaptureInv'
<1>1. FilesGood(cap, "ready")' <=> FilesGood(cap, "ready")
  BY DEF FilesGood, FileGood
<1> QED BY <1>1 DEF CaptureInv

(* A piece is queued for the capture.                                      *)
LEMMA PieceQueued ==
  ASSUME CaptureInv, NEW e \in PieceType, C!dispatch(e)
  PROVE  cQueue' \in Seq(PieceType) /\ cEvent' \in PieceType \cup {NoEvent}
BY DEF CaptureInv, C!dispatch

(* The capture's thread is done with an event.                             *)
LEMMA EndsCapture ==
  ASSUME CaptureInv, NEW ok, Ends(ok), cap' \in CapType, FilesGood(cap', "ready")
  PROVE  CaptureInv'
<1>1. left' \in LoadType /\ left'.ticks = left.ticks
  <2>1. left' = left \/ (left.failures > 0 /\ left' = [left EXCEPT !.failures = @ - 1])
    BY DEF Ends
  <2> QED BY <2>1, LeftKept DEF CaptureInv
<1>2. cQueue' = cQueue /\ cEvent' = NoEvent /\ now' = now
  BY DEF Ends, C!DeleteEvent
<1>3. FilesGood(cap, "ready")'
  BY DEF FilesGood, FileGood
<1> QED BY <1>1, <1>2, <1>3 DEF CaptureInv

LEMMA CaptureNext == CaptureInv /\ [Next]_vars => CaptureInv'
<1> SUFFICES ASSUME CaptureInv, [Next]_vars PROVE CaptureInv'
  OBVIOUS
<1>1. /\ left \in LoadType /\ cQueue \in Seq(PieceType) /\ cEvent \in PieceType \cup {NoEvent}
      /\ now \in 1..Seconds /\ cap \in CapType /\ FilesGood(cap, "ready")
  BY DEF CaptureInv
<1>2. ASSUME NEW c \in Conns, Born(c) \/ Traffic(c) \/ Die(c) PROVE CaptureInv'
  <2>1. /\ cap' = cap /\ now' = now /\ cQueue' = cQueue /\ cEvent' = cEvent
        /\ left' = left \/ (left.events > 0 /\ left' = [left EXCEPT !.events = @ - 1])
    BY <1>2 DEF Born, Traffic, Die, Dispatching, capture
  <2>2. left' \in LoadType /\ left'.ticks = left.ticks
    BY <1>1, <2>1, LeftKept
  <2> QED BY <1>1, <2>1, <2>2, CaptureKept
<1>3. CASE RouterStart
  <2>1. [what |-> "START", size |-> 0] \in PieceType
    BY DEF PieceType
  <2>2. /\ C!dispatch([what |-> "START", size |-> 0]) /\ UNCHANGED <<cap, now>>
        /\ left.routers > 0 /\ left' = [left EXCEPT !.routers = @ - 1]
    BY <1>3 DEF RouterStart
  <2>3. left' \in LoadType /\ left'.ticks = left.ticks
    BY <1>1, <2>2, LeftKept
  <2> QED BY <2>1, <2>2, <2>3, PieceQueued, CaptureKept
<1>4. CASE LoopEnds
  <2>1. [what |-> "STOP", size |-> 0] \in PieceType
    BY DEF PieceType
  <2>2. C!dispatch([what |-> "STOP", size |-> 0]) /\ UNCHANGED <<cap, now, left>>
    BY <1>4 DEF LoopEnds
  <2> QED BY <1>1, <2>1, <2>2, PieceQueued, CaptureKept
<1>5. ASSUME NEW size \in 1..2, Captured(size) PROVE CaptureInv'
  <2>1. [what |-> "PACKET", size |-> size] \in PieceType
    BY DEF PieceType
  <2>2. /\ C!dispatch([what |-> "PACKET", size |-> size]) /\ UNCHANGED <<cap, now>>
        /\ left.packets > 0 /\ left' = [left EXCEPT !.packets = @ - 1]
    BY <1>5 DEF Captured
  <2>3. left' \in LoadType /\ left'.ticks = left.ticks
    BY <1>1, <2>2, LeftKept
  <2> QED BY <2>1, <2>2, <2>3, PieceQueued, CaptureKept
<1>6. CASE RouterDeleted
  BY <1>1, <1>6, CaptureKept DEF RouterDeleted, capture
<1>7. CASE TrafficThread \/ MainThread
  BY <1>1, <1>7, CaptureKept
    DEF TrafficThread, MainThread, TrafficWaits, onConnInfo, SendToTarget, handleMessage, recycle, capture
<1>8. CASE CaptureWaits
  <2>1. UNCHANGED <<cap, now, left>>
    BY <1>8 DEF CaptureWaits
  <2>2. cQueue' \in Seq(PieceType) /\ cEvent' \in PieceType \cup {NoEvent}
    <3>1. CASE C!Wait
      BY <1>1, <3>1 DEF C!Wait
    <3>2. CASE C!obtainEvent
      BY <1>1, <3>2 DEF C!obtainEvent
    <3> QED BY <1>8, <3>1, <3>2 DEF CaptureWaits
  <2> QED BY <1>1, <2>1, <2>2, CaptureKept
<1>9. CASE CaptureStart
  <2>1. CASE cap' = cap /\ \E ok : Ends(ok)
    BY <1>1, <2>1, EndsCapture
  <2>2. CASE cap.mPcapFd = 0 /\ \E ok \in BOOLEAN :
               cap' = writeFile(openFile(cap), "hdr", 1, ok) /\ Ends(<<TRUE, ok>>)
    <3>1. PICK ok \in BOOLEAN : cap' = writeFile(openFile(cap), "hdr", 1, ok) /\ Ends(<<TRUE, ok>>)
      BY <2>2
    <3>2. openFile(cap) \in CapType /\ FilesGood(openFile(cap), "new")
      BY <1>1, <2>2, OpenGood
    <3> DEFINE w == <<"new", "hdr", "ready">>
    <3>3. w \in Writes /\ w[1] = "new" /\ w[2] = "hdr" /\ w[3] = "ready" /\ 1 \in Nat
      BY DEF Writes
    <3> HIDE DEF w
    <3>4. cap' \in CapType /\ FilesGood(cap', "ready")
      BY <3>1, <3>2, <3>3, WriteGood
    <3> QED BY <3>1, <3>4, EndsCapture
  <2> QED BY <1>9, <2>1, <2>2 DEF CaptureStart
<1>10. CASE CaptureStop
  <2>1. cap' \in CapType /\ FilesGood(cap', "ready")
    BY <1>1, <1>10, StopGood DEF CaptureStop
  <2> QED BY <1>10, <2>1, EndsCapture DEF CaptureStop
<1>11. CASE CapturePacket
  <2>1. PICK ok \in BOOLEAN \X BOOLEAN :
          /\ cap' = writeFile(writeFile(cap, "rec", 1, ok[1]), "data", cEvent.size, ok[2])
          /\ Ends(ok)
    BY <1>11 DEF CapturePacket
  <2>2. ok[1] \in BOOLEAN /\ ok[2] \in BOOLEAN
    OBVIOUS
  <2>3. cEvent.size \in Nat
    <3>1. cEvent # NoEvent
      BY <1>11 DEF CapturePacket, NoEvent
    <3> QED BY <1>1, <3>1 DEF PieceType
  <2> DEFINE w == <<"ready", "rec", "half">>
             x == <<"half", "data", "ready">>
             half == writeFile(cap, "rec", 1, ok[1])
  <2>4. /\ w \in Writes /\ w[1] = "ready" /\ w[2] = "rec" /\ w[3] = "half" /\ 1 \in Nat
        /\ x \in Writes /\ x[1] = "half" /\ x[2] = "data" /\ x[3] = "ready"
    BY DEF Writes
  <2> HIDE DEF w, x
  <2>5. half \in CapType /\ FilesGood(half, "half")
    BY <1>1, <2>2, <2>4, WriteGood
  <2> HIDE DEF half
  <2>6. cap' = writeFile(half, "data", cEvent.size, ok[2])
    BY <2>1 DEF half
  <2>7. cap' \in CapType /\ FilesGood(cap', "ready")
    BY <2>2, <2>3, <2>4, <2>5, <2>6, WriteGood
  <2> QED BY <2>1, <2>7, EndsCapture
<1>12. CASE Tick
  <2>1. left.ticks > 0 /\ left' = [left EXCEPT !.ticks = @ - 1] /\ now' = now + 1
    BY <1>12 DEF Tick
  <2>2. cap' = cap /\ cQueue' = cQueue /\ cEvent' = cEvent
    BY <1>12 DEF Tick, capture
  <2>3. now + left.ticks <= Seconds /\ left.ticks \in 0..(Seconds - 1) /\ Seconds \in Nat
    BY PipelineAssumption DEF CaptureInv, LoadType
  <2>4. left.ticks - 1 \in 0..(Seconds - 1) /\ now + 1 \in 1..Seconds
        /\ (now + 1) + (left.ticks - 1) <= Seconds
    BY <1>1, <2>1, <2>3
  <2>5. left' \in LoadType /\ left'.ticks = left.ticks - 1
    BY <1>1, <2>1, <2>4 DEF LoadType
  <2>6. FilesGood(cap, "ready")'
    BY <1>1, <2>2 DEF FilesGood, FileGood
  <2> QED BY <1>1, <2>1, <2>2, <2>4, <2>5, <2>6 DEF CaptureInv
<1>13. CASE UNCHANGED vars
  BY <1>1, <1>13, CaptureKept DEF vars, capture
<1> QED BY <1>2, <1>3, <1>4, <1>5, <1>6, <1>7, <1>8, <1>9, <1>10, <1>11, <1>12, <1>13
        DEF Next, VpnThread, CaptureThread

LEMMA CaptureInit == Init => CaptureInv
<1> SUFFICES ASSUME Init PROVE CaptureInv
  OBVIOUS
<1>1. /\ cQueue = <<>> /\ cEvent = NoEvent /\ now = 1 /\ left \in Loads
      /\ cap = [mPcapFd |-> 0,
                files   |-> [s \in 1..Seconds |-> [items |-> <<>>, size |-> 0]],
                opened  |-> [s \in 1..Seconds |-> 0],
                faulty  |-> {}]
  BY DEF Init, C!DispatcherInit
<1>2. Seconds \in Nat \ {0} /\ left \in LoadType
  BY <1>1, PipelineAssumption
<1>3. now \in 1..Seconds /\ now + left.ticks <= Seconds
  <2>1. left.ticks \in 0..(Seconds - 1)
    BY <1>2 DEF LoadType
  <2> QED BY <1>1, <1>2, <2>1
<1>4. cap \in CapType
  <2>1. <<>> \in Seq(Kinds)
    OBVIOUS
  <2> QED BY <1>1, <1>2, <2>1 DEF CapType
<1>5. FilesGood(cap, "ready")
  <2>1. \A s \in 1..Seconds : cap.files[s].items = <<>> /\ Len(cap.files[s].items) = 0 /\ cap.mPcapFd # s
    <3>1. \A s \in 1..Seconds : cap.files[s].items = <<>> /\ cap.mPcapFd # s
      BY <1>1
    <3> QED BY <3>1
  <2>2. ASSUME NEW s \in 1..Seconds PROVE FileGood(cap, "ready", s)
    <3>1. Len(cap.files[s].items) = 0 /\ cap.mPcapFd # s
      BY <2>1
    <3>2. 1..Len(cap.files[s].items) = {} /\ ~(Len(cap.files[s].items) > 0)
      BY <3>1
    <3> QED BY <3>1, <3>2 DEF FileGood
  <2> QED BY <1>1, <2>1, <2>2 DEF FilesGood
<1> QED BY <1>1, <1>2, <1>3, <1>4, <1>5 DEF CaptureInv

(* A capture file has its header, then whole records, and half a record    *)
(* only at its limit, however events are queued and writes fail, unless a  *)
(* write to it failed or it was opened twice.                              *)
THEOREM CaptureFilesReadable == Spec => []CaptureReadable
<1>1. CaptureInv => CaptureReadable
  <2> SUFFICES ASSUME CaptureInv, NEW s \in (1..Seconds) \ cap.faulty, cap.opened[s] <= 1
               PROVE  /\ \A i \in DOMAIN cap.files[s].items : cap.files[s].items[i] = Expected(i)
                      /\ Len(cap.files[s].items) > 0 /\ Len(cap.files[s].items) % 2 = 0
                           => cap.files[s].size > MaxFile
    BY DEF CaptureReadable, Expected
  <2>1. cap.files[s].items \in Seq(Kinds)
    <3>1. cap.files[s] \in [items : Seq(Kinds), size : Nat]
      BY DEF CaptureInv, CapType
    <3> QED BY <3>1
  <2>2. DOMAIN cap.files[s].items = 1..Len(cap.files[s].items)
    BY <2>1
  <2>3. FileGood(cap, "ready", s)
    BY DEF CaptureInv, FilesGood
  <2>4. cap.mPcapFd = s => ~(Len(cap.files[s].items) % 2 = 0)
    <3>1. cap.mPcapFd = s => Len(cap.files[s].items) % 2 = 1
      BY <2>3 DEF FileGood, InPhase
    <3>2. \A x : x = 1 => x # 0
      OBVIOUS
    <3> QED BY ONLY <3>1, <3>2, Zenon
  <2> QED BY <2>2, <2>3, <2>4 DEF FileGood
<1> QED BY <1>1, CaptureInit, CaptureNext, PTL DEF Spec
=============================================================================
