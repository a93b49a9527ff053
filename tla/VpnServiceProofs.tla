-------------------------- MODULE VpnServiceProofs --------------------------
(* The life of the VPN, for every number of threads, requests and kills:   *)
(* what the listener hears, what stop() and an enabled app find, and what  *)
(* becomes of the settings.                                                *)
EXTENDS VpnService, TLAPS

-----------------------------------------------------------------------------
(* The inductive invariant                                                 *)

(* A sequence of whatever its elements are.                                *)
IsSeq(s) == s \in Seq({s[i] : i \in 1..Len(s)})

(* The native start() has made a router and not cleared the pointer.       *)
WithRouter == {"init", "loop", "delete", "deleted"}

(* One thread runs at a time: the one mThread is for.  sRouter is its      *)
(* router, which is alive until the thread deletes it.                     *)
OneThread ==
  /\ svr.mThread \in ThreadIds /\ jni.sRouter \in ThreadIds
  /\ pc \in [Threads -> Places]
  /\ \A t \in Threads :
       /\ pc[t] # "off" <=> svr.mThread = t
       /\ pc[t] \in WithRouter <=> jni.sRouter = t
       /\ t \in jni.live <=> pc[t] \in {"init", "loop", "delete"}
  /\ jni.cmd \subseteq jni.live

(* The records keep their fields.                                          *)
JniType == [sRouter : ThreadIds, live : SUBSET Threads, cmd : SUBSET Threads]
SvrType == [mThread : ThreadIds, mFd : ThreadIds, sRunning : BOOLEAN, sVpnSvr : BOOLEAN]

AppShape ==
  app \in [listener : BOOLEAN, enabled : BOOLEAN, asked : Intents \cup {"nothing"},
           hasty : BOOLEAN, late : BOOLEAN]

(* No service was destroyed with its thread running.                       *)
Shapes ==
  /\ orphans = {} /\ ~torn
  /\ IsSeq(looper)
  /\ svr \in SvrType /\ jni \in JniType
  /\ tun \in [Threads -> {"none", "open", "closed"}]
  /\ misuse \in BOOLEAN
  /\ AppShape

(* Where the thread is.                                                    *)
Running == IF svr.mThread = 0 THEN "off" ELSE pc[svr.mThread]

(* The listener was there in time, and is.                                 *)
Hears == app.listener /\ ~app.late

(* The notices alternate, and the last tells whether start() runs.         *)
InOrder ==
  /\ InTurn
  /\ \A i \in 0..Len(looper) :
       IsNotice(i) /\ (\A k \in (i + 1)..Len(looper) : ~IsNotice(k)) =>
         (Heard(i) = "VPN_START" <=> Running \in Announced)

Turns == Hears => InOrder

(* No request and no notice is queued; w is the only one.                  *)
Spoken == Intents \cup Notices
Silent == \A i \in 1..Len(looper) : looper[i].what \notin Spoken
Only(w) == \E i \in 1..Len(looper) :
             /\ looper[i].what = w
             /\ \A j \in 1..Len(looper) : j # i => looper[j].what \notin Spoken

(* The thread has its tun device.                                          *)
HasTun == svr.mFd = svr.mThread /\ svr.mThread # 0 /\ tun[svr.mThread] = "open"

(* start() runs, and nobody has disturbed it.                              *)
Up == Running \in {"enter", "init", "loop"} /\ HasTun /\ jni.cmd = {}

Asleep == Running \in {"off", "end"}

(* What an app that waits for its answers can meet, by its last request.   *)
Resting ==
  /\ main = "idle" /\ Silent
  /\ app.enabled => Up /\ svr.sVpnSvr
  /\ ~app.enabled => Asleep

Preparing ==
  \/ Running \in {"off", "end", "prepare"}
  \/ Running = "check" /\ (svr.mFd # 0 => HasTun)
  \/ Running = "getFd" /\ HasTun

Starting ==
  /\ main = "idle" /\ ~app.enabled
  /\ \/ Only("START") /\ Asleep
     \/ Silent /\ Preparing
     \/ Only("VPN_START") /\ Up /\ svr.sVpnSvr

Stopping ==
  /\ app.enabled
  /\ \/ Only("STOP") /\ main = "idle" /\ Up
     \/ Silent /\ main = "test" /\ Up
     \/ Silent /\ main = "use" /\ Up /\ jni.sRouter # 0
     \/ Silent /\ main \in {"close", "idle"} /\ Running \in Announced
     \/ Only("VPN_STOP") /\ main \in {"close", "idle"} /\ Asleep

Calm ==
  ~app.hasty =>
    /\ ~misuse /\ ~app.late /\ (app.asked # "nothing" => app.listener)
    /\ app.asked = "nothing" => Resting
    /\ app.asked = "START" => Starting
    /\ app.asked = "STOP" => Stopping

ServiceInv == Shapes /\ OneThread /\ Turns /\ Calm

-----------------------------------------------------------------------------
(* The main thread's queue                                                 *)

(* A message is posted.                                                    *)
LEMMA AppendSeq ==
  ASSUME NEW q, IsSeq(q), NEW m
  PROVE  LET p == Append(q, m)
         IN  /\ IsSeq(p) /\ Len(q) \in Nat /\ Len(p) = Len(q) + 1
             /\ p[Len(p)] = m /\ \A i \in 1..Len(q) : p[i] = q[i]
<1> DEFINE S == {q[i] : i \in 1..Len(q)}
           p == Append(q, m)
<1>1. q \in Seq(S \cup {m})
  <2>1. q \in Seq(S)
    BY DEF IsSeq
  <2> HIDE DEF S
  <2> QED BY <2>1
<1> HIDE DEF S
<1>2. /\ p \in Seq(S \cup {m}) /\ Len(q) \in Nat /\ Len(p) = Len(q) + 1
      /\ p[Len(p)] = m /\ \A i \in 1..Len(q) : p[i] = q[i]
  BY <1>1
<1> HIDE DEF p
<1>3. p \in Seq({p[i] : i \in 1..Len(p)})
  BY <1>2
<1> QED BY <1>2, <1>3 DEF IsSeq, p

(* A message is taken.                                                     *)
LEMMA TailSeq ==
  ASSUME NEW q, IsSeq(q), q # <<>>
  PROVE  LET p == Tail(q)
         IN  /\ IsSeq(p) /\ Len(q) \in Nat /\ Len(q) >= 1 /\ Len(p) = Len(q) - 1
             /\ Head(q) = q[1] /\ \A i \in 1..Len(p) : p[i] = q[i + 1]
<1> DEFINE S == {q[i] : i \in 1..Len(q)}
           p == Tail(q)
<1>1. q \in Seq(S)
  BY DEF IsSeq
<1> HIDE DEF S
<1>2. /\ p \in Seq(S) /\ Len(q) \in Nat /\ Len(q) >= 1 /\ Len(p) = Len(q) - 1
      /\ Head(q) = q[1] /\ \A i \in 1..Len(p) : p[i] = q[i + 1]
  BY <1>1
<1> HIDE DEF p
<1>3. p \in Seq({p[i] : i \in 1..Len(p)})
  BY <1>2
<1> QED BY <1>2, <1>3 DEF IsSeq, p

(* Posting what no one speaks of changes nothing; the first word spoken is *)
(* the only one.                                                           *)
LEMMA PostSpoken ==
  ASSUME IsSeq(looper), NEW m, looper' = Append(looper, m)
  PROVE  /\ IsSeq(looper')
         /\ m.what \notin Spoken => /\ Silent => Silent'
                                    /\ \A w : Only(w) => Only(w)'
         /\ Silent => Only(m.what)'
<1>1. /\ IsSeq(looper') /\ Len(looper) \in Nat /\ Len(looper') = Len(looper) + 1
      /\ looper'[Len(looper) + 1] = m
      /\ \A i \in 1..Len(looper) : looper'[i] = looper[i]
  BY AppendSeq
<1>2. ASSUME m.what \notin Spoken, Silent PROVE Silent'
  BY <1>1, <1>2 DEF Silent
<1>3. ASSUME m.what \notin Spoken, NEW w, Only(w) PROVE Only(w)'
  BY <1>1, <1>3 DEF Only
<1>4. ASSUME Silent PROVE Only(m.what)'
  <2>1. Len(looper) + 1 \in 1..Len(looper')
    BY <1>1
  <2>2. \A j \in 1..Len(looper') : j # Len(looper) + 1 => looper'[j].what \notin Spoken
    BY <1>1, <1>4 DEF Silent
  <2> QED BY <1>1, <2>1, <2>2 DEF Only
<1> QED BY <1>1, <1>2, <1>3, <1>4

(* Taking the only word spoken leaves silence.                             *)
LEMMA TakeSpoken ==
  ASSUME IsSeq(looper), NEW what, Take(what)
  PROVE  /\ IsSeq(looper')
         /\ Silent => what \notin Spoken /\ Silent'
         /\ \A w \in Spoken : Only(w) => IF what \in Spoken THEN what = w /\ Silent' ELSE Only(w)'
<1>1. /\ IsSeq(looper') /\ Len(looper) \in Nat /\ Len(looper) >= 1
      /\ Len(looper') = Len(looper) - 1 /\ looper[1].what = what
      /\ \A i \in 1..Len(looper') : looper'[i] = looper[i + 1]
  BY TailSeq DEF Take
<1>2. ASSUME Silent PROVE what \notin Spoken /\ Silent'
  BY <1>1, <1>2 DEF Silent
<1>3. ASSUME NEW w \in Spoken, Only(w), what \in Spoken PROVE what = w /\ Silent'
  BY <1>1, <1>3 DEF Only, Silent
<1>4. ASSUME NEW w \in Spoken, Only(w), what \notin Spoken PROVE Only(w)'
  <2>1. PICK i \in 1..Len(looper) :
             /\ looper[i].what = w
             /\ \A j \in 1..Len(looper) : j # i => looper[j].what \notin Spoken
    BY <1>4 DEF Only
  <2>2. i - 1 \in 1..Len(looper') /\ looper'[i - 1].what = w
    BY <1>1, <1>4, <2>1
  <2>3. \A j \in 1..Len(looper') : j # i - 1 => looper'[j].what \notin Spoken
    BY <1>1, <2>1
  <2> QED BY <2>2, <2>3 DEF Only
<1> QED BY <1>1, <1>2, <1>3, <1>4

(* Nothing was said or heard: the turns depend on where the thread is.     *)
LEMMA TurnsKept ==
  ASSUME Turns, looper' = looper, app'.listener = app.listener, app'.late = app.late,
         app'.enabled = app.enabled,
         Running' \in Announced <=> Running \in Announced
  PROVE  Turns'
<1> SUFFICES ASSUME InOrder, app.listener PROVE InOrder'
  BY DEF Turns, Hears
<1>1. \A i : Heard(i)' = Heard(i)
  BY DEF Heard
<1>2. \A i : IsNotice(i)' <=> IsNotice(i)
  BY <1>1 DEF IsNotice
<1>3. InTurn'
  BY <1>1, <1>2 DEF InOrder, InTurn, InARow
<1> QED BY <1>1, <1>2, <1>3 DEF InOrder

(* A message that is no notice is posted.                                  *)
LEMMA TurnsPost ==
  ASSUME Turns, IsSeq(looper), NEW m, looper' = Append(looper, m), m.what \notin Notices,
         app'.listener = app.listener, app'.late = app.late,
         app'.enabled = app.enabled, Running' \in Announced <=> Running \in Announced
  PROVE  Turns'
<1> SUFFICES ASSUME InOrder, app.listener PROVE InOrder'
  BY DEF Turns, Hears
<1>0. PICK n \in Nat : n = Len(looper)
  BY AppendSeq
<1>1. /\ n \in Nat /\ Len(looper') = n + 1
      /\ looper'[n + 1] = m
      /\ \A i \in 1..n : looper'[i] = looper[i]
  BY <1>0, AppendSeq
<1>2. \A i \in 0..n : Heard(i)' = Heard(i) /\ (IsNotice(i)' <=> IsNotice(i))
  BY <1>0, <1>1 DEF Heard, IsNotice
<1>3. ~IsNotice(n + 1)'
  BY <1>0, <1>1 DEF Heard, IsNotice
<1>4. InTurn'
  <2> SUFFICES ASSUME NEW i \in 0..Len(looper'), NEW j \in 0..Len(looper'), InARow(i, j)'
               PROVE  Heard(i)' # Heard(j)'
    BY DEF InTurn
  <2>1. i \in 0..n /\ j \in 0..n
    BY <1>0, <1>1, <1>3 DEF InARow
  <2>2. InARow(i, j)
    BY <1>0, <1>1, <1>2, <2>1 DEF InARow
  <2> QED BY <1>0, <1>2, <2>1, <2>2 DEF InOrder, InTurn
<1>5. ASSUME NEW i \in 0..Len(looper'), IsNotice(i)', \A k \in (i + 1)..Len(looper') : ~IsNotice(k)'
      PROVE  Heard(i)' = "VPN_START" <=> Running' \in Announced
  <2>1. i \in 0..n
    BY <1>0, <1>1, <1>3, <1>5
  <2>2. IsNotice(i) /\ \A k \in (i + 1)..n : ~IsNotice(k)
    BY <1>0, <1>1, <1>2, <1>5, <2>1
  <2> QED BY <1>0, <1>2, <2>1, <2>2 DEF InOrder
<1> QED BY <1>4, <1>5 DEF InOrder

(* A notice is posted, when start() is entered or returns.                 *)
LEMMA TurnsNotice ==
  ASSUME Turns, IsSeq(looper), NEW what \in Notices, Announce(what),
         app'.listener = app.listener, app'.late = app.late,
         app'.enabled = app.enabled,
         what = "VPN_START" <=> Running \notin Announced,
         what = "VPN_START" <=> Running' \in Announced
  PROVE  Turns'
<1> SUFFICES ASSUME InOrder, app.listener PROVE InOrder'
  BY DEF Turns, Hears
<1>0. PICK n \in Nat : n = Len(looper)
  BY AppendSeq
<1>1. /\ n \in Nat /\ Len(looper') = n + 1
      /\ looper'[n + 1].what = what
      /\ \A i \in 1..n : looper'[i] = looper[i]
  BY <1>0, AppendSeq DEF Announce, Msg
<1>2. \A i \in 0..n : Heard(i)' = Heard(i) /\ (IsNotice(i)' <=> IsNotice(i))
  BY <1>0, <1>1 DEF Heard, IsNotice
<1>3. Heard(n + 1)' = what /\ IsNotice(n + 1)'
  BY <1>0, <1>1 DEF Heard, IsNotice
<1>4. InTurn'
  <2> SUFFICES ASSUME NEW i \in 0..Len(looper'), NEW j \in 0..Len(looper'), InARow(i, j)'
               PROVE  Heard(i)' # Heard(j)'
    BY DEF InTurn
  <2>1. i \in 0..n /\ i < j
    BY <1>0, <1>1 DEF InARow
  <2>2. CASE j \in 0..n
    <3>1. InARow(i, j)
      BY <1>0, <1>1, <1>2, <2>1, <2>2 DEF InARow
    <3> QED BY <1>0, <1>2, <2>1, <2>2, <3>1 DEF InOrder, InTurn
  <2>3. CASE j = n + 1
    <3>1. IsNotice(i) /\ \A k \in (i + 1)..n : ~IsNotice(k)
      BY <1>0, <1>1, <1>2, <2>1, <2>3 DEF InARow
    <3>2. Heard(i) = "VPN_START" <=> Running \in Announced
      BY <1>0, <2>1, <3>1 DEF InOrder
    <3> QED BY <1>0, <1>2, <1>3, <2>1, <2>3, <3>2
  <2> QED BY <1>0, <1>1, <2>2, <2>3
<1>5. ASSUME NEW i \in 0..Len(looper'), IsNotice(i)', \A k \in (i + 1)..Len(looper') : ~IsNotice(k)'
      PROVE  Heard(i)' = "VPN_START" <=> Running' \in Announced
  <2>1. i = n + 1
    BY <1>0, <1>1, <1>3, <1>5
  <2> QED BY <1>3, <2>1
<1> QED BY <1>4, <1>5 DEF InOrder

(* A message is taken: the notices move up, and a notice is heard.         *)
LEMMA TurnsTake ==
  ASSUME Turns, IsSeq(looper), NEW what, Take(what),
         app'.listener = app.listener, app'.late = app.late,
         what = "VPN_START" => app'.enabled, what = "VPN_STOP" => ~app'.enabled,
         what \notin Notices => app'.enabled = app.enabled,
         Running' \in Announced <=> Running \in Announced
  PROVE  Turns'
<1> SUFFICES ASSUME InOrder, app.listener PROVE InOrder'
  BY DEF Turns, Hears
<1>1. /\ Len(looper) \in Nat /\ Len(looper) >= 1
      /\ Len(looper') = Len(looper) - 1 /\ looper[1].what = what
      /\ \A i \in 1..Len(looper') : looper'[i] = looper[i + 1]
  BY TailSeq DEF Take
<1> DEFINE From(i) == IF i = 0 /\ what \notin Notices THEN 0 ELSE i + 1
<1>2. \A i \in 0..Len(looper') : Heard(i)' = Heard(From(i)) /\ (IsNotice(i)' <=> IsNotice(From(i)))
  <2>1. ASSUME NEW i \in 1..Len(looper') PROVE Heard(i)' = Heard(From(i))
    BY <1>1 DEF Heard
  <2>2. Heard(0)' = Heard(From(0))
    <3>1. CASE what = "VPN_START"
      BY <1>1, <3>1 DEF Heard, Notices
    <3>2. CASE what = "VPN_STOP"
      BY <1>1, <3>2 DEF Heard, Notices
    <3>3. CASE what \notin Notices
      BY <1>1, <3>3 DEF Heard
    <3> QED BY <3>1, <3>2, <3>3 DEF Notices
  <2> QED BY <1>1, <2>1, <2>2 DEF IsNotice
<1>3. what \notin Notices => ~IsNotice(1)
  BY <1>1 DEF IsNotice, Heard
<1>4. InTurn'
  <2> SUFFICES ASSUME NEW i \in 0..Len(looper'), NEW j \in 0..Len(looper'), InARow(i, j)'
               PROVE  Heard(i)' # Heard(j)'
    BY DEF InTurn
  <2>1. i < j /\ From(i) < From(j) /\ From(i) \in 0..Len(looper) /\ From(j) \in 0..Len(looper)
    BY <1>1 DEF InARow
  <2>2. ASSUME NEW k \in (From(i) + 1)..(From(j) - 1) PROVE ~IsNotice(k)
    <3>1. CASE k = 1 /\ From(i) = 0
      BY <1>3, <3>1, <1>1
    <3>2. CASE ~(k = 1 /\ From(i) = 0)
      <4>1. k - 1 \in (i + 1)..(j - 1) /\ From(k - 1) = k /\ k - 1 \in 0..Len(looper')
        BY <1>1, <2>1, <3>2
      <4> QED BY <1>2, <4>1 DEF InARow
    <3> QED BY <3>1, <3>2
  <2>3. InARow(From(i), From(j))
    BY <1>2, <2>1, <2>2 DEF InARow
  <2> QED BY <1>2, <2>1, <2>3 DEF InOrder, InTurn
<1>5. ASSUME NEW i \in 0..Len(looper'), IsNotice(i)', \A k \in (i + 1)..Len(looper') : ~IsNotice(k)'
      PROVE  Heard(i)' = "VPN_START" <=> Running' \in Announced
  <2>1. From(i) \in 0..Len(looper) /\ IsNotice(From(i))
    BY <1>1, <1>2, <1>5
  <2>2. ASSUME NEW k \in (From(i) + 1)..Len(looper) PROVE ~IsNotice(k)
    <3>1. CASE k = 1 /\ From(i) = 0
      BY <1>3, <3>1, <1>1
    <3>2. CASE ~(k = 1 /\ From(i) = 0)
      <4>1. k - 1 \in (i + 1)..Len(looper') /\ From(k - 1) = k /\ k - 1 \in 0..Len(looper')
        BY <1>1, <3>2
      <4> QED BY <1>2, <1>5, <4>1
    <3> QED BY <3>1, <3>2
  <2>3. Heard(From(i)) = "VPN_START" <=> Running \in Announced
    BY <2>1, <2>2 DEF InOrder
  <2> QED BY <1>2, <2>3
<1> QED BY <1>4, <1>5 DEF InOrder

-----------------------------------------------------------------------------
(* The one thread                                                          *)

(* What its place says of the rest.                                        *)
LEMMA TheThread ==
  ASSUME Shapes, OneThread, NEW t \in Threads, pc[t] # "off"
  PROVE  /\ svr.mThread = t /\ t # 0 /\ Running = pc[t] /\ pc[t] \in Places
         /\ \A u \in Threads : u # t => pc[u] = "off"
         /\ jni.sRouter = IF pc[t] \in WithRouter THEN t ELSE 0
         /\ jni.live = IF pc[t] \in {"init", "loop", "delete"} THEN {t} ELSE {}
<1>1. svr.mThread = t /\ t # 0 /\ pc[t] \in Places /\ \A u \in Threads : u # t => pc[u] = "off"
  BY ServiceAssumption DEF OneThread
<1>2. Running = pc[t]
  BY <1>1 DEF Running
<1>3. jni.sRouter = IF pc[t] \in WithRouter THEN t ELSE 0
  BY <1>1 DEF OneThread, WithRouter, ThreadIds
<1>4. jni.live \subseteq Threads
  BY DEF Shapes, JniType
<1>5. jni.live = IF pc[t] \in {"init", "loop", "delete"} THEN {t} ELSE {}
  BY <1>1, <1>4 DEF OneThread
<1> QED BY <1>1, <1>2, <1>3, <1>5

(* Without one there is no router.                                         *)
LEMMA NoThread ==
  ASSUME Shapes, OneThread, svr.mThread = 0
  PROVE  /\ Running = "off" /\ \A t \in Threads : pc[t] = "off"
         /\ jni.sRouter = 0 /\ jni.live = {} /\ jni.cmd = {}
<1>1. Running = "off"
  BY DEF Running
<1>2. \A t \in Threads : pc[t] = "off"
  BY ServiceAssumption DEF OneThread
<1>3. jni.sRouter = 0
  BY <1>2 DEF OneThread, WithRouter, ThreadIds
<1>4. jni.live = {} /\ jni.cmd = {}
  BY <1>2 DEF OneThread, Shapes, JniType
<1> QED BY <1>1, <1>2, <1>3, <1>4

(* It goes from one place to the next.                                     *)
LEMMA Moves ==
  ASSUME Shapes, OneThread, NEW t \in Threads, NEW from, NEW to \in Places \ {"off"},
         At(t, from, to), from # "off", svr'.mThread = svr.mThread,
         jni'.sRouter = IF to \in WithRouter THEN t ELSE 0,
         jni'.live = IF to \in {"init", "loop", "delete"} THEN {t} ELSE {},
         jni'.cmd \subseteq jni'.live
  PROVE  OneThread' /\ Running = from /\ Running' = to /\ svr.mThread = t /\ t # 0
<1>1. pc[t] = from /\ pc' = [pc EXCEPT ![t] = to] /\ pc \in [Threads -> Places]
  BY DEF At, OneThread
<1>2. /\ svr.mThread = t /\ t # 0 /\ Running = from
      /\ \A u \in Threads : u # t => pc[u] = "off"
  BY <1>1, TheThread
<1>3. pc' \in [Threads -> Places] /\ pc'[t] = to /\ \A u \in Threads : u # t => pc'[u] = pc[u]
  BY <1>1
<1>4. Running' = to
  BY <1>2, <1>3 DEF Running
<1>5. OneThread'
  <2>1. svr'.mThread \in ThreadIds /\ jni'.sRouter \in ThreadIds
    BY <1>2 DEF ThreadIds
  <2>2. ASSUME NEW u \in Threads
        PROVE  /\ pc'[u] # "off" <=> svr'.mThread = u
               /\ pc'[u] \in WithRouter <=> jni'.sRouter = u
               /\ u \in jni'.live <=> pc'[u] \in {"init", "loop", "delete"}
    BY <1>2, <1>3, ServiceAssumption DEF WithRouter
  <2> QED BY <1>3, <2>1, <2>2 DEF OneThread
<1> QED BY <1>2, <1>4, <1>5

(* Nothing spoken is added or taken, and the thread's progress is one that *)
(* the app's last request allows.                                          *)
LEMMA CalmKept ==
  ASSUME Calm, main' = main, misuse' = misuse,
         app'.enabled = app.enabled, app'.asked = app.asked, app'.hasty = app.hasty,
         app'.listener = app.listener, app'.late = app.late,
         Silent => Silent', \A w \in Spoken : Only(w) => Only(w)',
         Up => Up', Asleep => Asleep', Preparing => Preparing',
         Running \in Announced => Running' \in Announced,
         Up /\ jni.sRouter # 0 => jni'.sRouter # 0, svr'.sVpnSvr = svr.sVpnSvr
  PROVE  Calm'
<1>0. {"START", "STOP", "VPN_START", "VPN_STOP"} \subseteq Spoken
  BY DEF Spoken, Intents, Notices
<1>1. Resting => Resting'
  BY DEF Resting
<1>2. Starting => Starting'
  BY <1>0 DEF Starting
<1>3. Stopping => Stopping'
  BY <1>0 DEF Stopping
<1> QED BY <1>1, <1>2, <1>3 DEF Calm

(* A step that leaves the threads alone and posts or takes nothing spoken. *)
LEMMA AsideInv ==
  ASSUME ServiceInv, UNCHANGED <<main, svr, orphans, pc, tun, jni, app, misuse, torn>>,
         \/ looper' = looper
         \/ \E m : looper' = Append(looper, m) /\ m.what \notin Spoken
         \/ \E what : Take(what) /\ what \notin Spoken
  PROVE  ServiceInv'
<1>1. IsSeq(looper) /\ Turns /\ Calm
  BY DEF ServiceInv, Shapes
<1>2. Running' = Running /\ OneThread'
  BY DEF Running, ServiceInv, OneThread
<1>3. Notices \subseteq Spoken
  BY DEF Spoken
<1>4. IsSeq(looper') /\ Turns' /\ (Silent => Silent') /\ \A w \in Spoken : Only(w) => Only(w)'
  <2>1. CASE looper' = looper
    BY <1>1, <1>2, <2>1, TurnsKept DEF Silent, Only
  <2>2. ASSUME NEW m, looper' = Append(looper, m), m.what \notin Spoken
        PROVE  IsSeq(looper') /\ Turns' /\ (Silent => Silent') /\ \A w \in Spoken : Only(w) => Only(w)'
    BY <1>1, <1>2, <1>3, <2>2, TurnsPost, PostSpoken
  <2>3. ASSUME NEW what, Take(what), what \notin Spoken
        PROVE  IsSeq(looper') /\ Turns' /\ (Silent => Silent') /\ \A w \in Spoken : Only(w) => Only(w)'
    <3>1. what # "VPN_START" /\ what # "VPN_STOP" /\ what \notin Notices
      BY <2>3 DEF Spoken, Notices
    <3>2. Turns'
      BY <1>1, <1>2, <2>3, <3>1, TurnsTake
    <3> QED BY <1>1, <2>3, <3>2, TakeSpoken
  <2> QED BY <2>1, <2>2, <2>3
<1>5. Shapes'
  BY <1>4 DEF ServiceInv, Shapes, AppShape
<1>6. (Up => Up') /\ (Asleep => Asleep') /\ (Preparing => Preparing')
  BY <1>2 DEF Up, Asleep, Preparing, HasTun
<1>7. Calm'
  BY <1>1, <1>2, <1>4, <1>6, CalmKept
<1> QED BY <1>2, <1>4, <1>5, <1>7 DEF ServiceInv

-----------------------------------------------------------------------------
(* The steps of the VPN thread                                             *)

(* A step that says nothing: what is left to show of it.                   *)
LEMMA QuietInv ==
  ASSUME ServiceInv, OneThread', UNCHANGED <<looper, main, orphans, app, misuse, torn>>,
         svr' \in SvrType, svr'.sVpnSvr = svr.sVpnSvr,
         jni' \in JniType, tun' \in [Threads -> {"none", "open", "closed"}],
         Running' \in Announced <=> Running \in Announced,
         Up => Up', Asleep => Asleep', Preparing => Preparing',
         Up /\ jni.sRouter # 0 => jni'.sRouter # 0
  PROVE  ServiceInv'
<1>1. Shapes'
  BY DEF ServiceInv, Shapes, SvrType, JniType, AppShape
<1>2. Turns'
  BY TurnsKept DEF ServiceInv
<1>3. (Silent => Silent') /\ \A w \in Spoken : Only(w) => Only(w)'
  BY DEF Silent, Only
<1>4. Calm'
  BY <1>3, CalmKept DEF ServiceInv
<1> QED BY <1>1, <1>2, <1>4 DEF ServiceInv

(* The builder has given a descriptor, or null.                            *)
LEMMA EstablishInv ==
  ASSUME ServiceInv, NEW t \in Threads, Establish(t)
  PROVE  ServiceInv'
<1>1. Shapes /\ OneThread /\ svr \in SvrType /\ t \in ThreadIds /\ 0 \in ThreadIds
        /\ At(t, "prepare", "check") /\ UNCHANGED <<looper, main, orphans, jni, app, misuse, torn>>
  BY DEF ServiceInv, Establish, Shapes, SvrType, ThreadIds
<1>2. pc[t] = "prepare" /\ svr.mThread = t /\ jni.sRouter = 0 /\ jni.live = {} /\ jni.cmd = {} /\ t # 0
  BY <1>1, TheThread DEF At, WithRouter, OneThread
<1>3. \/ svr' = [svr EXCEPT !.mFd = t] /\ tun' = [tun EXCEPT ![t] = "open"]
      \/ svr' = [svr EXCEPT !.mFd = 0] /\ tun' = tun
  BY <1>1 DEF Establish, Shapes
<1>4. /\ svr' \in SvrType /\ svr'.mThread = svr.mThread /\ svr'.sVpnSvr = svr.sVpnSvr
      /\ \/ svr'.mFd = t /\ tun' = [tun EXCEPT ![t] = "open"]
         \/ svr'.mFd = 0 /\ tun' = tun
  BY <1>1, <1>3 DEF SvrType
<1>5. OneThread' /\ Running = "prepare" /\ Running' = "check"
  BY <1>1, <1>2, <1>4, Moves DEF Places, WithRouter
<1>6. tun' \in [Threads -> {"none", "open", "closed"}] /\ jni' \in JniType
  BY <1>1, <1>4 DEF Shapes, JniType
<1>7. Preparing'
  BY <1>1, <1>2, <1>4, <1>5 DEF Preparing, HasTun, Shapes
<1>8. ~Up /\ ~Asleep
  BY <1>5 DEF Up, Asleep
<1> QED BY <1>1, <1>4, <1>5, <1>6, <1>7, <1>8, QuietInv DEF Announced

(* The service is given up without a descriptor.                           *)
LEMMA CheckFdInv ==
  ASSUME ServiceInv, NEW t \in Threads, CheckFd(t)
  PROVE  ServiceInv'
<1> DEFINE to == IF svr.mFd = 0 THEN "end" ELSE "getFd"
<1>1. Shapes /\ OneThread /\ At(t, "check", to)
        /\ UNCHANGED <<looper, main, svr, orphans, tun, jni, app, misuse, torn>>
  BY DEF ServiceInv, CheckFd, Fd, Shapes
<1>2. pc[t] = "check" /\ svr.mThread = t /\ jni.sRouter = 0 /\ jni.live = {} /\ jni.cmd = {}
  BY <1>1, TheThread DEF At, WithRouter, OneThread
<1>3. OneThread' /\ Running = "check" /\ Running' = to
  BY <1>1, <1>2, Moves DEF Places, WithRouter
<1>4. svr' \in SvrType /\ tun' \in [Threads -> {"none", "open", "closed"}] /\ jni' \in JniType
  BY <1>1 DEF Shapes, SvrType, JniType
<1>5. Preparing => Preparing'
  BY <1>1, <1>3 DEF Preparing, HasTun
<1>6. ~Up /\ ~Asleep /\ Running \notin Announced /\ Running' \notin Announced
  BY <1>3 DEF Up, Asleep, Announced
<1> QED BY <1>1, <1>3, <1>4, <1>5, <1>6, QuietInv

(* The native start() makes the router: there is no other.                 *)
LEMMA EnterStartInv ==
  ASSUME ServiceInv, NEW t \in Threads, EnterStart(t)
  PROVE  ServiceInv'
<1>1. Shapes /\ OneThread /\ UNCHANGED <<looper, main, svr, orphans, tun, app, misuse, torn>>
        /\ pc[t] = "enter"
  BY DEF ServiceInv, EnterStart, At
<1>2. svr.mThread = t /\ jni.sRouter = 0 /\ jni.live = {} /\ jni.cmd = {} /\ t # 0
  BY <1>1, TheThread DEF WithRouter, OneThread
<1>3. At(t, "enter", "init") /\ jni' = [jni EXCEPT !.sRouter = t, !.live = @ \cup {t}]
  BY <1>2 DEF EnterStart
<1>4. jni' \in JniType /\ jni'.sRouter = t /\ jni'.live = {t} /\ jni'.cmd = {}
  BY <1>1, <1>2, <1>3 DEF Shapes, JniType, ThreadIds
<1>5. OneThread' /\ Running = "enter" /\ Running' = "init"
  BY <1>1, <1>3, <1>4, Moves DEF Places, WithRouter
<1>6. svr' \in SvrType /\ tun' \in [Threads -> {"none", "open", "closed"}]
  BY <1>1 DEF Shapes, SvrType
<1>7. Up => Up'
  BY <1>1, <1>4, <1>5 DEF Up, HasTun
<1>8. ~Preparing /\ ~Asleep /\ Running \in Announced /\ Running' \in Announced
  BY <1>5 DEF Preparing, Asleep, Announced
<1> QED BY <1>1, <1>2, <1>4, <1>5, <1>6, <1>7, <1>8, QuietInv

(* Router::init fails only after stop() closed the descriptor.             *)
LEMMA RouterInitInv ==
  ASSUME ServiceInv, NEW t \in Threads, RouterInit(t)
  PROVE  ServiceInv'
<1>1. Shapes /\ OneThread /\ UNCHANGED <<looper, main, svr, orphans, tun, jni, app, misuse, torn>>
        /\ pc[t] = "init"
  BY DEF ServiceInv, RouterInit, At
<1>2. svr.mThread = t /\ jni.sRouter = t /\ jni.live = {t} /\ jni.cmd \subseteq {t} /\ t # 0
  BY <1>1, TheThread DEF WithRouter, OneThread
<1>3. PICK to \in {"loop", "delete"} : At(t, "init", to) /\ (to = "delete" => tun[t] = "closed")
  BY DEF RouterInit
<1>4. OneThread' /\ Running = "init" /\ Running' = to
  BY <1>1, <1>2, <1>3, Moves DEF Places, WithRouter
<1>5. svr' \in SvrType /\ tun' \in [Threads -> {"none", "open", "closed"}] /\ jni' \in JniType
  BY <1>1 DEF Shapes, SvrType, JniType
<1>6. Up => Up'
  BY <1>1, <1>2, <1>3, <1>4 DEF Up, HasTun
<1>7. ~Preparing /\ ~Asleep /\ Running \in Announced /\ Running' \in Announced
  BY <1>4 DEF Preparing, Asleep, Announced
<1> QED BY <1>1, <1>4, <1>5, <1>6, <1>7, QuietInv

(* The loop ends with a command only.                                      *)
LEMMA LoopEndsInv ==
  ASSUME ServiceInv, NEW t \in Threads, LoopEnds(t)
  PROVE  ServiceInv'
<1>1. Shapes /\ OneThread /\ UNCHANGED <<looper, main, svr, orphans, tun, jni, app, misuse, torn>>
        /\ At(t, "loop", "delete") /\ t \in jni.cmd /\ pc[t] = "loop"
  BY DEF ServiceInv, LoopEnds, At
<1>2. svr.mThread = t /\ jni.sRouter = t /\ jni.live = {t} /\ jni.cmd \subseteq {t}
  BY <1>1, TheThread DEF WithRouter, OneThread
<1>3. OneThread' /\ Running = "loop" /\ Running' = "delete"
  BY <1>1, <1>2, Moves DEF Places, WithRouter
<1>4. svr' \in SvrType /\ tun' \in [Threads -> {"none", "open", "closed"}] /\ jni' \in JniType
  BY <1>1 DEF Shapes, SvrType, JniType
<1>5. ~Up /\ ~Preparing /\ ~Asleep /\ Running \in Announced /\ Running' \in Announced
  BY <1>1, <1>3 DEF Up, Preparing, Asleep, Announced
<1> QED BY <1>1, <1>3, <1>4, <1>5, QuietInv

(* The router is deleted, and the pointer to it cleared after that.        *)
LEMMA DeleteRouterInv ==
  ASSUME ServiceInv, NEW t \in Threads, DeleteRouter(t) \/ ClearRouter(t)
  PROVE  ServiceInv'
<1>1. Shapes /\ OneThread /\ UNCHANGED <<looper, main, svr, orphans, tun, app, misuse, torn>>
  BY DEF ServiceInv, DeleteRouter, ClearRouter
<1>2. PICK from \in {"delete", "deleted"} :
        /\ At(t, from, IF from = "delete" THEN "deleted" ELSE "return")
        /\ jni' = IF from = "delete" THEN [jni EXCEPT !.live = @ \ {t}, !.cmd = @ \ {t}]
                  ELSE [jni EXCEPT !.sRouter = 0]
  BY DEF DeleteRouter, ClearRouter
<1>3. /\ svr.mThread = t /\ jni.sRouter = t /\ jni.live \subseteq {t} /\ jni.cmd \subseteq jni.live
      /\ (from = "deleted" => jni.live = {})
  BY <1>1, <1>2, TheThread DEF At, WithRouter, OneThread
<1>4. /\ jni' \in JniType /\ jni'.live = {} /\ jni'.cmd = {}
      /\ jni'.sRouter = IF from = "delete" THEN t ELSE 0
  BY <1>1, <1>2, <1>3 DEF Shapes, JniType, ThreadIds
<1>5. OneThread' /\ Running = from /\ Running' \in {"deleted", "return"}
  BY <1>1, <1>2, <1>4, Moves DEF Places, WithRouter
<1>6. svr' \in SvrType /\ tun' \in [Threads -> {"none", "open", "closed"}]
  BY <1>1 DEF Shapes, SvrType
<1>7. ~Up /\ ~Preparing /\ ~Asleep /\ Running \in Announced /\ Running' \in Announced
  BY <1>5 DEF Up, Preparing, Asleep, Announced
<1> QED BY <1>1, <1>4, <1>5, <1>6, <1>7, QuietInv

(* The thread is gone.                                                     *)
LEMMA EndThreadInv ==
  ASSUME ServiceInv, NEW t \in Threads, EndThread(t)
  PROVE  ServiceInv'
<1>1. /\ Shapes /\ OneThread /\ UNCHANGED <<looper, main, orphans, jni, app, misuse, torn>>
      /\ pc[t] = "end" /\ pc' = [pc EXCEPT ![t] = "off"]
      /\ svr' = [svr EXCEPT !.mThread = 0] /\ tun' = [tun EXCEPT ![t] = "none"]
  BY DEF ServiceInv, EndThread, At, Shapes
<1>2. /\ svr.mThread = t /\ t # 0 /\ Running = "end" /\ jni.sRouter = 0 /\ jni.live = {}
      /\ \A u \in Threads : u # t => pc[u] = "off"
  BY <1>1, TheThread DEF WithRouter
<1>3. svr' \in SvrType /\ svr'.mThread = 0 /\ svr'.sVpnSvr = svr.sVpnSvr
  BY <1>1 DEF Shapes, SvrType, ThreadIds
<1>4. pc' \in [Threads -> Places] /\ \A u \in Threads : pc'[u] = "off"
  BY <1>1, <1>2 DEF OneThread, Places
<1>5. Running' = "off"
  BY <1>3 DEF Running
<1>6. OneThread'
  BY <1>1, <1>2, <1>3, <1>4, ServiceAssumption DEF OneThread, WithRouter, ThreadIds
<1>7. tun' \in [Threads -> {"none", "open", "closed"}] /\ jni' \in JniType
  BY <1>1 DEF Shapes, JniType
<1>8. ~Up /\ Asleep' /\ Preparing' /\ Running \notin Announced /\ Running' \notin Announced
  BY <1>2, <1>5 DEF Up, Preparing, Asleep, Announced
<1> QED BY <1>1, <1>3, <1>6, <1>7, <1>8, QuietInv

(* A process that has just started.                                        *)
LEMMA BootInv ==
  ASSUME NEW sSP, svr' = Boot(sSP).svr, pc' = Boot(sSP).pc, tun' = Boot(sSP).tun,
         jni' = Boot(sSP).jni, app' = Boot(sSP).app,
         looper' = <<>>, main' = "idle", orphans' = {}, misuse' = FALSE, torn' = FALSE
  PROVE  ServiceInv'
<1>1. /\ svr' = [mThread |-> 0, mFd |-> 0, sRunning |-> FALSE, sVpnSvr |-> FALSE]
      /\ pc' = [t \in Threads |-> "off"] /\ tun' = [t \in Threads |-> "none"]
      /\ jni' = [sRouter |-> 0, live |-> {}, cmd |-> {}]
      /\ app'.enabled = FALSE /\ app'.asked = "nothing" /\ app'.hasty = FALSE
      /\ app'.listener = FALSE /\ app'.late = FALSE
  BY DEF Boot
<1>2. IsSeq(looper') /\ Len(looper') = 0
  BY DEF IsSeq
<1>3. Shapes'
  <2>1. AppShape'
    BY DEF AppShape, Boot
  <2>2. svr' \in SvrType /\ jni' \in JniType
    BY <1>1 DEF SvrType, JniType, ThreadIds
  <2>3. tun' \in [Threads -> {"none", "open", "closed"}]
    BY <1>1
  <2> QED BY <1>2, <2>1, <2>2, <2>3 DEF Shapes, SvrType, JniType
<1>4. OneThread'
  BY <1>1, ServiceAssumption DEF OneThread, ThreadIds, Places, WithRouter
<1>5. Running' = "off"
  BY <1>1 DEF Running
<1>6. Turns'
  BY <1>1 DEF Turns, Hears
<1>7. Calm'
  BY <1>1, <1>2, <1>5 DEF Calm, Resting, Silent, Asleep
<1> QED BY <1>3, <1>4, <1>6, <1>7 DEF ServiceInv

(* VpnCore.start posts its notice, or the exception ends the process.      *)
LEMMA GetFdInv ==
  ASSUME ServiceInv, NEW t \in Threads, GetFd(t)
  PROVE  ServiceInv'
<1>0. Shapes /\ Fd(t) = svr.mFd
  BY DEF ServiceInv, Shapes, Fd
<1>1. CASE svr.mFd = 0
  <2>1. Reboot
    BY <1>0, <1>1 DEF GetFd
  <2> QED BY <2>1, BootInv DEF Reboot
<1>2. CASE svr.mFd # 0
  <2>1. /\ Shapes /\ OneThread /\ At(t, "getFd", "enter")
        /\ svr' = [svr EXCEPT !.sVpnSvr = TRUE] /\ Announce("VPN_START")
        /\ UNCHANGED <<main, orphans, tun, jni, app, misuse, torn>>
    BY <1>0, <1>2 DEF ServiceInv, GetFd
  <2>2. pc[t] = "getFd" /\ svr.mThread = t /\ jni.sRouter = 0 /\ jni.live = {} /\ jni.cmd = {}
    BY <2>1, TheThread DEF At, WithRouter, OneThread
  <2>3. /\ svr' \in SvrType /\ svr'.mThread = svr.mThread /\ svr'.mFd = svr.mFd
        /\ svr'.sVpnSvr = TRUE
    BY <2>1 DEF Shapes, SvrType
  <2>4. OneThread' /\ Running = "getFd" /\ Running' = "enter"
    BY <2>1, <2>2, <2>3, Moves DEF Places, WithRouter
  <2>5. IsSeq(looper') /\ (app.listener /\ Silent => Only("VPN_START")')
    BY <2>1, PostSpoken DEF Shapes, Announce, Msg
  <2>6. Shapes'
    BY <2>1, <2>3, <2>5 DEF Shapes, AppShape, SvrType
  <2>7. Turns'
    BY <2>1, <2>4, TurnsNotice DEF ServiceInv, Shapes, Notices, Announced
  <2>8. app.listener /\ Starting => Starting'
    <3>1. ~Asleep /\ ~Up
      BY <2>4 DEF Asleep, Up
    <3>2. Preparing => HasTun
      BY <2>4 DEF Preparing
    <3>3. HasTun => Up'
      BY <2>1, <2>2, <2>3, <2>4 DEF HasTun, Up
    <3> QED BY <2>1, <2>3, <2>5, <3>1, <3>2, <3>3 DEF Starting
  <2>9. ~Resting /\ ~Stopping
    BY <2>4 DEF Resting, Stopping, Up, Asleep, Announced
  <2>10. Calm'
    BY <2>1, <2>8, <2>9 DEF Calm, ServiceInv
  <2> QED BY <2>4, <2>6, <2>7, <2>10 DEF ServiceInv
<1> QED BY <1>1, <1>2

(* start() has returned and its end is announced.                          *)
LEMMA StartReturnsInv ==
  ASSUME ServiceInv, NEW t \in Threads, StartReturns(t)
  PROVE  ServiceInv'
<1>1. /\ Shapes /\ OneThread /\ At(t, "return", "end")
      /\ Announce("VPN_STOP")
      /\ UNCHANGED <<main, svr, orphans, tun, jni, app, misuse, torn>>
  BY DEF ServiceInv, StartReturns
<1>2. pc[t] = "return" /\ svr.mThread = t /\ jni.sRouter = 0 /\ jni.live = {} /\ jni.cmd = {}
  BY <1>1, TheThread DEF At, WithRouter, OneThread
<1>3. OneThread' /\ Running = "return" /\ Running' = "end"
  BY <1>1, <1>2, Moves DEF Places, WithRouter
<1>4. IsSeq(looper') /\ (app.listener /\ Silent => Only("VPN_STOP")')
  BY <1>1, PostSpoken DEF Shapes, Announce, Msg
<1>5. Shapes'
  BY <1>1, <1>4 DEF Shapes, AppShape
<1>6. Turns'
  BY <1>1, <1>3, TurnsNotice DEF ServiceInv, Shapes, Notices, Announced
<1>7. ~Resting /\ ~Starting
  BY <1>3 DEF Resting, Starting, Up, Asleep, Preparing
<1>8. app.listener /\ Stopping => Stopping'
  BY <1>1, <1>3, <1>4 DEF Stopping, Up, Asleep
<1>9. Calm'
  BY <1>1, <1>7, <1>8 DEF Calm, ServiceInv
<1> QED BY <1>3, <1>5, <1>6, <1>9 DEF ServiceInv

-----------------------------------------------------------------------------
(* The steps of the main thread                                            *)

(* startVpn and stopVpn: a request is posted.                              *)
LEMMA AskInv ==
  ASSUME ServiceInv, startVpn \/ stopVpn
  PROVE  ServiceInv'
<1>1. PICK what \in Intents :
        /\ looper' = Append(looper, Msg(what)) /\ main = "idle"
        /\ UNCHANGED <<main, svr, orphans, pc, tun, jni, misuse, torn>>
        /\ app' = [app EXCEPT !.asked = what,
                     !.hasty = \/ @ \/ (IF what = "START" THEN app.enabled ELSE ~app.enabled)
                               \/ ~app.listener \/ app.asked # "nothing"]
  BY DEF startVpn, stopVpn, Ask, Intents
<1>2. /\ Shapes /\ Turns /\ Calm /\ IsSeq(looper)
  BY DEF ServiceInv, Shapes
<1>3. Running' = Running /\ OneThread'
  BY <1>1 DEF Running, ServiceInv, OneThread
<1>4. Msg(what).what = what /\ what \notin Notices
  BY DEF Msg, Intents, Notices
<1>5. IsSeq(looper') /\ (Silent => Only(what)')
  BY <1>1, <1>2, <1>4, PostSpoken
<1>6. /\ app'.enabled = app.enabled /\ app'.asked = what /\ app'.hasty \in BOOLEAN
      /\ app'.listener = app.listener /\ app'.late = app.late
      /\ ~app'.hasty => ~app.hasty /\ app.asked = "nothing" /\ app.listener
                        /\ (what = "START" => ~app.enabled) /\ (what = "STOP" => app.enabled)
  BY <1>1, <1>2 DEF Shapes, AppShape
<1>7. Shapes'
  BY <1>1, <1>2, <1>5, <1>6 DEF Shapes, AppShape, Intents
<1>8. Turns'
  BY <1>1, <1>2, <1>3, <1>4, <1>6, TurnsPost
<1>9. ASSUME ~app'.hasty PROVE ~misuse' /\ (what = "START" => Starting') /\ (what = "STOP" => Stopping')
  <2>1. Resting /\ ~misuse /\ Silent
    BY <1>2, <1>6, <1>9 DEF Calm, Resting
  <2>2. (Up => Up') /\ (Asleep => Asleep')
    BY <1>1, <1>3 DEF Up, Asleep, HasTun
  <2>3. what = "START" => Starting'
    BY <1>1, <1>5, <1>6, <1>9, <2>1, <2>2 DEF Starting, Resting
  <2>4. what = "STOP" => Stopping'
    BY <1>1, <1>5, <1>6, <1>9, <2>1, <2>2 DEF Stopping, Resting
  <2> QED BY <1>1, <2>1, <2>3, <2>4
<1>10. Calm'
  BY <1>2, <1>6, <1>9 DEF Calm, Intents
<1> QED BY <1>3, <1>7, <1>8, <1>10 DEF ServiceInv

(* onStartCommand with ACT_START: a thread, unless there is one.           *)
LEMMA OnStartInv == ServiceInv /\ onStart => ServiceInv'
<1> SUFFICES ASSUME ServiceInv, onStart PROVE ServiceInv'
  OBVIOUS
<1>1. /\ Shapes /\ OneThread /\ Turns /\ Calm /\ IsSeq(looper) /\ Take("START") /\ main = "idle"
      /\ UNCHANGED <<main, orphans, tun, jni, app, misuse, torn>>
  BY DEF ServiceInv, Shapes, onStart, Take
<1>2. "START" \in Spoken /\ "START" \notin Notices /\ {"START", "STOP", "VPN_START", "VPN_STOP"} \subseteq Spoken
  BY DEF Spoken, Intents, Notices
<1>3. /\ IsSeq(looper') /\ ~Silent /\ (Only("START") => Silent') /\ ~Only("STOP")
      /\ ~Only("VPN_START") /\ ~Only("VPN_STOP")
  BY <1>1, <1>2, TakeSpoken
<1>4. CASE svr.mThread # 0
  <2>1. svr' \in SvrType /\ svr'.mThread = svr.mThread /\ pc' = pc
    BY <1>1, <1>4 DEF onStart, Shapes, SvrType
  <2>2. OneThread' /\ Running' = Running
    BY <1>1, <2>1 DEF OneThread, Running
  <2>3. Shapes'
    BY <1>1, <1>3, <2>1 DEF Shapes, AppShape, SvrType
  <2>4. Turns'
    BY <1>1, <1>2, <2>2, TurnsTake
  <2>5. ~Resting /\ ~Stopping
    BY <1>1, <1>3 DEF Resting, Stopping
  <2>6. Starting => Starting'
    BY <1>1, <1>3, <2>2 DEF Starting, Asleep, Preparing
  <2>7. Calm'
    BY <1>1, <2>5, <2>6 DEF Calm
  <2> QED BY <2>2, <2>3, <2>4, <2>7 DEF ServiceInv
<1>5. CASE svr.mThread = 0
  <2>1. /\ Running = "off" /\ \A t \in Threads : pc[t] = "off"
        /\ jni.sRouter = 0 /\ jni.live = {} /\ jni.cmd = {}
    BY <1>1, <1>5, NoThread
  <2>2. PICK n \in Threads : n = NewThread /\ n # 0
    BY <2>1, ServiceAssumption DEF NewThread
  <2>3. svr' \in SvrType /\ svr'.mThread = n /\ pc' = [pc EXCEPT ![n] = "prepare"]
    <3>1. /\ svr' = [svr EXCEPT !.sRunning = TRUE, !.mThread = n]
          /\ pc' = [pc EXCEPT ![n] = "prepare"]
      BY <1>5, <2>2 DEF onStart
    <3>2. svr \in SvrType /\ n \in ThreadIds
      BY <1>1 DEF Shapes, SvrType, ThreadIds
    <3> QED BY <3>1, <3>2 DEF SvrType
  <2>4. pc' \in [Threads -> Places] /\ pc'[n] = "prepare" /\ \A u \in Threads : u # n => pc'[u] = "off"
    BY <1>1, <2>1, <2>3 DEF OneThread, Places
  <2>5. Running' = "prepare"
    BY <2>2, <2>3, <2>4 DEF Running
  <2>6. OneThread'
    BY <1>1, <2>1, <2>2, <2>3, <2>4, ServiceAssumption DEF OneThread, WithRouter, ThreadIds
  <2>7. Shapes'
    BY <1>1, <1>3, <2>3 DEF Shapes, AppShape, SvrType
  <2>8. Turns'
    BY <1>1, <1>2, <2>1, <2>5, TurnsTake DEF Announced
  <2>9. ~Resting /\ ~Stopping
    BY <1>1, <1>3 DEF Resting, Stopping
  <2>10. Starting => Starting'
    BY <1>1, <1>3, <2>5 DEF Starting, Preparing
  <2>11. Calm'
    BY <1>1, <2>9, <2>10 DEF Calm
  <2> QED BY <2>6, <2>7, <2>8, <2>11 DEF ServiceInv
<1> QED BY <1>4, <1>5

(* onStartCommand with ACT_STOP.                                           *)
LEMMA OnStopInv == ServiceInv /\ onStop => ServiceInv'
<1> SUFFICES ASSUME ServiceInv, onStop PROVE ServiceInv'
  OBVIOUS
<1>1. /\ Shapes /\ OneThread /\ Turns /\ Calm /\ IsSeq(looper) /\ Take("STOP") /\ main = "idle"
      /\ main' = "test" /\ svr' = [svr EXCEPT !.sVpnSvr = FALSE]
      /\ UNCHANGED <<orphans, pc, tun, jni, app, misuse, torn>>
  BY DEF ServiceInv, Shapes, onStop, Take
<1>2. "STOP" \in Spoken /\ "STOP" \notin Notices /\ {"START", "STOP", "VPN_START", "VPN_STOP"} \subseteq Spoken
  BY DEF Spoken, Intents, Notices
<1>3. /\ IsSeq(looper') /\ ~Silent /\ (Only("STOP") => Silent') /\ ~Only("START")
      /\ ~Only("VPN_START") /\ ~Only("VPN_STOP")
  BY <1>1, <1>2, TakeSpoken
<1>4. svr' \in SvrType /\ svr'.mThread = svr.mThread /\ svr'.mFd = svr.mFd
  BY <1>1 DEF Shapes, SvrType
<1>5. OneThread' /\ Running' = Running
  BY <1>1, <1>4 DEF OneThread, Running
<1>6. Shapes'
  BY <1>1, <1>3, <1>4 DEF Shapes, AppShape, SvrType
<1>7. Turns'
  BY <1>1, <1>2, <1>5, TurnsTake
<1>8. ~Resting /\ ~Starting
  BY <1>3 DEF Resting, Starting
<1>9. Stopping => Stopping'
  BY <1>1, <1>3, <1>4, <1>5 DEF Stopping, Up, HasTun
<1>10. Calm'
  BY <1>1, <1>8, <1>9 DEF Calm
<1> QED BY <1>5, <1>6, <1>7, <1>10 DEF ServiceInv

(* The native stop() tests sRouter, and later uses it.                     *)
LEMMA StopInv == ServiceInv /\ (TestRouter \/ UseRouter) => ServiceInv'
<1> SUFFICES ASSUME ServiceInv, TestRouter \/ UseRouter PROVE ServiceInv'
  OBVIOUS
<1>1. /\ Shapes /\ OneThread /\ Turns /\ Calm /\ IsSeq(looper) /\ main \in {"test", "use"}
      /\ UNCHANGED <<looper, svr, orphans, pc, tun, app, torn>>
  BY DEF ServiceInv, Shapes, TestRouter, UseRouter
<1>2. Running' = Running /\ Turns'
  BY <1>1, TurnsKept DEF Running
<1>3. ~Resting /\ ~Starting /\ (Silent => Silent')
  BY <1>1 DEF Resting, Starting, Silent
<1>4. CASE TestRouter
  <2>1. jni' = jni /\ misuse' = misuse /\ main = "test"
          /\ main' = IF jni.sRouter = 0 THEN "close" ELSE "use"
    BY <1>4 DEF TestRouter
  <2>2. OneThread' /\ Shapes'
    BY <1>1, <2>1 DEF OneThread, Shapes, AppShape
  <2>3. Up => Up' /\ Running' \in Announced
    BY <1>1, <1>2, <2>1 DEF Up, HasTun, Announced
  <2>4. Stopping => Stopping'
    BY <1>1, <1>3, <2>1, <2>3 DEF Stopping
  <2>5. Calm'
    BY <1>1, <1>3, <2>1, <2>4 DEF Calm
  <2> QED BY <1>2, <2>2, <2>5 DEF ServiceInv
<1>5. CASE UseRouter
  <2>1. /\ main = "use" /\ main' = "close"
        /\ misuse' = (misuse \/ jni.sRouter \notin jni.live)
        /\ jni' = [jni EXCEPT !.cmd = @ \cup ({jni.sRouter} \cap jni.live)]
    BY <1>5 DEF UseRouter
  <2>2. /\ jni' \in JniType /\ jni'.sRouter = jni.sRouter /\ jni'.live = jni.live
        /\ jni'.cmd \subseteq jni.live
    BY <1>1, <2>1 DEF Shapes, JniType, OneThread
  <2>3. OneThread'
    BY <1>1, <2>2 DEF OneThread
  <2>4. misuse' \in BOOLEAN
    BY <2>1
  <2>5. Shapes'
    BY <1>1, <2>2, <2>4 DEF Shapes, AppShape, JniType
  <2>6. Up /\ jni.sRouter # 0 => jni.sRouter \in jni.live /\ Running \in Announced
    <3>1. ASSUME Up, jni.sRouter # 0 PROVE jni.sRouter \in jni.live /\ Running \in Announced
      <4>1. jni.sRouter \in Threads /\ pc[jni.sRouter] \in WithRouter
        BY <1>1, <3>1 DEF OneThread, ThreadIds
      <4>2. Running = pc[jni.sRouter]
        BY <1>1, <4>1, TheThread DEF WithRouter
      <4>3. pc[jni.sRouter] \in {"init", "loop"}
        BY <3>1, <4>1, <4>2 DEF Up, WithRouter
      <4> QED BY <1>1, <4>1, <4>2, <4>3 DEF OneThread, Announced
    <3> QED BY <3>1
  <2>7. Stopping => Up /\ jni.sRouter # 0 /\ Silent /\ app.enabled
    BY <2>1 DEF Stopping
  <2>8. Stopping => Stopping' /\ (misuse' <=> misuse)
    BY <1>1, <1>2, <1>3, <2>1, <2>6, <2>7 DEF Stopping
  <2>9. Calm'
    BY <1>1, <1>3, <2>8 DEF Calm, Shapes, AppShape, Intents
  <2> QED BY <1>2, <2>3, <2>5, <2>9 DEF ServiceInv
<1> QED BY <1>4, <1>5

(* The service's stop() closes the tun device.                             *)
LEMMA CloseTunInv == ServiceInv /\ CloseTun => ServiceInv'
<1> SUFFICES ASSUME ServiceInv, CloseTun PROVE ServiceInv'
  OBVIOUS
<1>1. /\ Shapes /\ OneThread /\ Turns /\ Calm /\ IsSeq(looper) /\ main = "close" /\ main' = "idle"
      /\ svr' = [svr EXCEPT !.mFd = 0, !.sRunning = FALSE]
      /\ tun' = [t \in Threads |-> IF t = svr.mFd THEN "closed" ELSE tun[t]]
      /\ UNCHANGED <<looper, orphans, pc, jni, app, misuse, torn>>
  BY DEF ServiceInv, Shapes, CloseTun
<1>2. svr' \in SvrType /\ svr'.mThread = svr.mThread
  BY <1>1 DEF Shapes, SvrType, ThreadIds
<1>3. tun' \in [Threads -> {"none", "open", "closed"}]
  BY <1>1 DEF Shapes
<1>4. OneThread' /\ Running' = Running
  BY <1>1, <1>2 DEF OneThread, Running
<1>5. Turns'
  BY <1>1, <1>4, TurnsKept
<1>6. Shapes'
  BY <1>1, <1>2, <1>3 DEF Shapes, AppShape, SvrType
<1>7. ~Resting /\ ~Starting
  BY <1>1 DEF Resting, Starting
<1>8. (Silent => Silent') /\ \A w : Only(w) => Only(w)'
  BY <1>1 DEF Silent, Only
<1>9. Stopping => Stopping'
  BY <1>1, <1>4, <1>8 DEF Stopping, Asleep
<1>10. Calm'
  BY <1>1, <1>7, <1>9 DEF Calm
<1> QED BY <1>4, <1>5, <1>6, <1>10 DEF ServiceInv

(* MyHandler: the listener hears a notice.                                 *)
LEMMA HandleNoticeInv ==
  ASSUME ServiceInv, NEW what \in Notices, HandleNotice(what)
  PROVE  ServiceInv'
<1>1. /\ Shapes /\ OneThread /\ Turns /\ Calm /\ IsSeq(looper) /\ Take(what) /\ main = "idle"
      /\ UNCHANGED <<main, svr, orphans, pc, tun, jni, misuse, torn>>
  BY DEF ServiceInv, Shapes, HandleNotice, Take
<1>2. /\ app'.hasty = app.hasty /\ app'.listener = app.listener /\ app'.late = app.late
      /\ AppShape'
      /\ app.listener =>
           /\ app'.enabled <=> what = "VPN_START"
           /\ app'.asked = IF <<app.asked, what>> \in {<<"START", "VPN_START">>, <<"STOP", "VPN_STOP">>}
                           THEN "nothing" ELSE app.asked
      /\ ~app.listener => app' = app
  BY <1>1 DEF HandleNotice, Shapes, AppShape
<1>3. what \in Spoken /\ {"START", "STOP", "VPN_START", "VPN_STOP"} \subseteq Spoken
  BY DEF Spoken, Intents, Notices
<1>4. IsSeq(looper') /\ ~Silent /\ \A w \in Spoken : Only(w) => what = w /\ Silent'
  BY <1>1, <1>3, TakeSpoken
<1>5. OneThread' /\ Running' = Running
  BY <1>1 DEF OneThread, Running
<1>6. Turns'
  <2>1. CASE app.listener
    BY <1>1, <1>2, <1>5, <2>1, TurnsTake DEF Notices
  <2>2. CASE ~app.listener
    BY <1>2, <2>2 DEF Turns, Hears
  <2> QED BY <2>1, <2>2
<1>7. Shapes'
  BY <1>1, <1>2, <1>4 DEF Shapes
<1>8. (Up => Up') /\ (Asleep => Asleep')
  BY <1>1, <1>5 DEF Up, Asleep, HasTun
<1>9. ASSUME ~app.hasty PROVE app'.asked = "nothing" /\ Resting'
  <2>1. app.asked \in {"START", "STOP", "nothing"}
    BY <1>1 DEF Shapes, AppShape, Intents
  <2>2. ~Resting
    BY <1>4 DEF Resting
  <2>3. CASE app.asked = "START"
    <3>1. Starting
      BY <1>1, <1>9, <2>3 DEF Calm
    <3>2. what = "VPN_START" /\ Silent' /\ Up /\ svr.sVpnSvr
      BY <1>3, <1>4, <3>1 DEF Starting, Notices
    <3> QED BY <1>1, <1>2, <1>8, <1>9, <2>3, <3>2 DEF Resting, Calm
  <2>4. CASE app.asked = "STOP"
    <3>1. Stopping
      BY <1>1, <1>9, <2>4 DEF Calm
    <3>2. what = "VPN_STOP" /\ Silent' /\ Asleep
      BY <1>3, <1>4, <3>1 DEF Stopping, Notices
    <3> QED BY <1>1, <1>2, <1>8, <1>9, <2>4, <3>2 DEF Resting, Calm
  <2> QED BY <1>1, <1>9, <2>1, <2>2, <2>3, <2>4 DEF Calm
<1>10. Calm'
  BY <1>1, <1>2, <1>9 DEF Calm
<1> QED BY <1>5, <1>6, <1>7, <1>10 DEF ServiceInv

(* The configuration's steps leave the service alone.                      *)
LEMMA ConfigInv ==
  ASSUME ServiceInv,
         \/ AppInit \/ ConfigLoaded \/ ConfigSaved \/ Background
         \/ \E c, want : Update(c, want)
  PROVE  ServiceInv'
<1>1. UNCHANGED <<main, svr, orphans, pc, tun, jni, app, misuse, torn>>
  BY DEF AppInit, ConfigLoaded, ConfigSaved, Background, LoadKey, LoadDone, Save, Update
<1>4. \/ looper' = looper
      \/ \E m : looper' = Append(looper, m) /\ m.what \notin Spoken
      \/ \E what : Take(what) /\ what \notin Spoken
  <2>1. "LOADED" \notin Spoken /\ "SAVED" \notin Spoken
    BY DEF Spoken, Intents, Notices
  <2>2. Msg("LOADED").what = "LOADED" /\ \A task : Saved(task).what = "SAVED"
    BY DEF Msg, Saved
  <2>3. CASE AppInit \/ LoadKey \/ \E c, want : Update(c, want)
    BY <2>3 DEF AppInit, LoadKey, Update
  <2>4. CASE ConfigLoaded \/ ConfigSaved
    BY <2>1, <2>4 DEF ConfigLoaded, ConfigSaved
  <2>5. CASE LoadDone
    BY <2>1, <2>2, <2>5 DEF LoadDone
  <2>6. CASE Save
    <3>1. looper' = Append(looper, Saved(Head(conf.bg)))
      BY <2>6 DEF Save
    <3> QED BY <2>1, <2>2, <3>1
  <2> QED BY <2>3, <2>4, <2>5, <2>6 DEF Background
<1> QED BY <1>1, <1>4, AsideInv

(* A listener is set: in time when nothing is announced.                   *)
LEMMA SetListenerInv == ServiceInv /\ setListener => ServiceInv'
<1> SUFFICES ASSUME ServiceInv, setListener PROVE ServiceInv'
  OBVIOUS
<1>1. /\ Shapes /\ OneThread /\ Calm /\ IsSeq(looper)
      /\ UNCHANGED <<looper, main, svr, orphans, pc, tun, jni, misuse, torn>>
  BY DEF ServiceInv, Shapes, setListener
<1>2. Underway \in BOOLEAN
  BY DEF Underway
<1>3. /\ AppShape' /\ app'.listener = TRUE /\ app'.enabled = FALSE /\ app'.asked = app.asked
      /\ app'.late = Underway /\ app'.hasty = (app.hasty \/ Underway)
  BY <1>1, <1>2 DEF setListener, Shapes, AppShape
<1>4. Shapes' /\ OneThread' /\ Running' = Running
  BY <1>1, <1>3 DEF Shapes, OneThread, Running
<1>5. ASSUME ~Underway
      PROVE  Running \notin Announced /\ \A i \in 1..Len(looper) : looper[i].what \notin Notices
  BY <1>1, <1>5 DEF Underway, Running, OneThread, ThreadIds, Announced
<1>6. Turns'
  <2> SUFFICES ASSUME ~Underway PROVE InOrder'
    BY <1>3 DEF Turns, Hears
  <2>1. \A i \in 1..Len(looper') : ~IsNotice(i)'
    BY <1>1, <1>5 DEF IsNotice, Heard
  <2>2. Heard(0)' = "VPN_STOP"
    BY <1>3 DEF Heard
  <2>3. Len(looper') \in Nat
    BY <1>1, AppendSeq
  <2>4. InTurn'
    BY <2>1, <2>3 DEF InTurn, InARow
  <2>5. ASSUME NEW i \in 0..Len(looper'), IsNotice(i)'
        PROVE  Heard(i)' = "VPN_START" <=> Running' \in Announced
    <3>1. i = 0
      BY <2>1, <2>3, <2>5
    <3> QED BY <1>4, <1>5, <2>2, <3>1
  <2> QED BY <2>4, <2>5 DEF InOrder
<1>7. ASSUME ~app'.hasty
      PROVE  /\ ~app.hasty /\ ~app'.late
             /\ (Resting => Resting') /\ (Starting => Starting') /\ ~Stopping
  <2>1. ~app.hasty /\ ~Underway
    BY <1>2, <1>3, <1>7 DEF Shapes, AppShape
  <2>2. Running \notin Announced /\ ~Up /\ ~Only("VPN_STOP")
    BY <1>5, <2>1 DEF Up, Announced, Only, Notices
  <2>3. (Silent => Silent') /\ (\A w : Only(w) => Only(w)')
    BY <1>1 DEF Silent, Only
  <2>4. (Asleep => Asleep') /\ (Preparing => Preparing')
    BY <1>1, <1>4 DEF Asleep, Preparing, HasTun
  <2>5. Resting => Resting'
    BY <1>1, <1>3, <2>2, <2>3, <2>4 DEF Resting
  <2>6. Starting => Starting'
    BY <1>1, <1>3, <2>2, <2>3, <2>4 DEF Starting
  <2>7. ~Stopping
    BY <2>2 DEF Stopping
  <2> QED BY <1>3, <2>1, <2>5, <2>6, <2>7
<1>8. Calm'
  <2> SUFFICES ASSUME ~app'.hasty PROVE Calm'
    BY DEF Calm
  <2>1. /\ ~app.hasty /\ ~app'.late /\ ~misuse'
        /\ app.asked \in {"START", "STOP", "nothing"}
    BY <1>1, <1>7 DEF Calm, Shapes, AppShape, Intents
  <2>2. CASE app.asked = "nothing"
    BY <1>1, <1>3, <1>7, <2>1, <2>2 DEF Calm
  <2>3. CASE app.asked = "START"
    BY <1>1, <1>3, <1>7, <2>1, <2>3 DEF Calm
  <2>4. CASE app.asked = "STOP"
    BY <1>1, <1>7, <2>1, <2>4 DEF Calm
  <2> QED BY <2>1, <2>2, <2>3, <2>4
<1> QED BY <1>4, <1>6, <1>8 DEF ServiceInv

(* The listener is lost: a patient app has no request open, or is patient  *)
(* no more.                                                                *)
LEMMA LoseListenerInv == ServiceInv /\ LoseListener => ServiceInv'
<1> SUFFICES ASSUME ServiceInv, LoseListener PROVE ServiceInv'
  OBVIOUS
<1>1. /\ Shapes /\ OneThread /\ Calm
      /\ UNCHANGED <<looper, main, svr, orphans, pc, tun, jni, misuse, torn>>
  BY DEF ServiceInv, LoseListener
<1>2. /\ AppShape' /\ app'.listener = FALSE /\ app'.enabled = app.enabled
      /\ app'.asked = app.asked /\ app'.late = app.late
      /\ app'.hasty = (app.hasty \/ app.asked # "nothing")
  BY <1>1 DEF LoseListener, Shapes, AppShape
<1>3. Shapes' /\ OneThread' /\ Running' = Running
  BY <1>1, <1>2 DEF Shapes, OneThread, Running
<1>4. Turns'
  BY <1>2 DEF Turns, Hears
<1>5. Resting => Resting'
  <2>1. (Silent => Silent') /\ (Up => Up') /\ (Asleep => Asleep')
    BY <1>1, <1>3 DEF Silent, Up, Asleep, HasTun
  <2> QED BY <1>1, <1>2, <2>1 DEF Resting
<1>6. Calm'
  BY <1>1, <1>2, <1>5 DEF Calm, Shapes, AppShape
<1> QED BY <1>3, <1>4, <1>6 DEF ServiceInv

(* The service is destroyed between two runs.                              *)
LEMMA DestroyInv == ServiceInv /\ Destroy => torn' \/ ServiceInv'
<1> SUFFICES ASSUME ServiceInv, Destroy, svr.mThread = 0 PROVE ServiceInv'
  BY DEF Destroy
<1>1. /\ Shapes /\ OneThread /\ UNCHANGED <<looper, main, pc, tun, jni, app, misuse>>
      /\ svr' = [svr EXCEPT !.mThread = 0, !.mFd = 0]
      /\ orphans' = orphans /\ torn' = torn
  <2>1. Shapes /\ OneThread /\ orphans = {} /\ torn = FALSE
    BY DEF ServiceInv, Shapes
  <2>2. orphans' = {}
    BY <2>1 DEF Destroy
  <2>3. torn' = FALSE
    BY <2>1 DEF Destroy
  <2> QED BY <2>1, <2>2, <2>3 DEF Destroy
<1>2. svr' \in SvrType /\ svr'.mThread = svr.mThread /\ svr'.sVpnSvr = svr.sVpnSvr
  BY <1>1 DEF Shapes, SvrType, ThreadIds
<1>3. Running = "off" /\ Running' = "off"
  BY <1>2 DEF Running
<1>4. OneThread'
  BY <1>1, <1>2 DEF OneThread
<1>5. jni' \in JniType /\ tun' \in [Threads -> {"none", "open", "closed"}]
  BY <1>1 DEF Shapes, JniType
<1>6. ~Up /\ Asleep' /\ Preparing' /\ Running \notin Announced /\ Running' \notin Announced
  BY <1>3 DEF Up, Asleep, Preparing, Announced
<1> QED BY <1>1, <1>2, <1>4, <1>5, <1>6, QuietInv

(* What holds in every state.                                              *)
LifeInv == torn \/ ServiceInv

(* Every step keeps the invariant.                                         *)
LEMMA ServiceNext == ServiceInv /\ [Next]_vars => LifeInv'
<1> SUFFICES ASSUME ServiceInv, [Next]_vars, ~torn' PROVE ServiceInv'
  BY DEF LifeInv
<1>1. CASE startVpn \/ stopVpn
  BY <1>1, AskInv
<1>2. CASE AppInit \/ ConfigLoaded \/ ConfigSaved \/ Background
  BY <1>2, ConfigInv
<1>3. CASE \/ \E v \in Values \cup {""} : AppSetConfig(v)
           \/ \E t \in Targets, k \in Ctrls \cup {0} : AppUpdateCtrl(t, k)
  BY <1>3, ConfigInv DEF AppSetConfig, AppUpdateCtrl
<1>4. CASE MainThread
  BY <1>2, <1>4, OnStartInv, OnStopInv, StopInv, CloseTunInv, HandleNoticeInv DEF MainThread
<1>5. CASE \E t \in Threads : VpnThread(t)
  BY <1>5, EstablishInv, CheckFdInv, GetFdInv, EnterStartInv, RouterInitInv, LoopEndsInv,
     DeleteRouterInv, StartReturnsInv, EndThreadInv DEF VpnThread
<1>6. CASE Kill
  BY <1>6, BootInv DEF Kill, Reboot
<1>7. CASE UNCHANGED vars
  BY <1>7, AsideInv DEF vars
<1>8. CASE setListener \/ LoseListener \/ Destroy
  BY <1>8, SetListenerInv, LoseListenerInv, DestroyInv
<1> QED BY <1>1, <1>2, <1>3, <1>4, <1>5, <1>6, <1>7, <1>8 DEF Next

(* The end of the process ends what a destroyed service left.              *)
LEMMA TornNext == torn /\ [Next]_vars => LifeInv'
<1> SUFFICES ASSUME torn, [Next]_vars, torn' # torn, ~torn' PROVE ServiceInv'
  BY DEF LifeInv
<1>1. Reboot
  <2>1. ASSUME NEW t \in Threads, VpnThread(t) PROVE Reboot
    BY <2>1 DEF VpnThread, Establish, CheckFd, GetFd, EnterStart, RouterInit, LoopEnds,
       DeleteRouter, ClearRouter, StartReturns, EndThread
  <2>2. CASE MainThread \/ Background
    BY <2>2 DEF MainThread, onStart, onStop, TestRouter, UseRouter, CloseTun, HandleNotice,
       ConfigLoaded, ConfigSaved, Background, LoadKey, LoadDone, Save
  <2>3. CASE AppInit \/ startVpn \/ stopVpn \/ setListener \/ LoseListener \/ Destroy
    BY <2>3 DEF AppInit, startVpn, stopVpn, Ask, setListener, LoseListener, Destroy
  <2>4. CASE \/ \E v \in Values \cup {""} : AppSetConfig(v)
             \/ \E t \in Targets, k \in Ctrls \cup {0} : AppUpdateCtrl(t, k)
    BY <2>4 DEF AppSetConfig, AppUpdateCtrl, Update
  <2>5. CASE Kill
    BY <2>5 DEF Kill
  <2> QED BY <2>1, <2>2, <2>3, <2>4, <2>5 DEF Next, vars
<1> QED BY <1>1, BootInv DEF Reboot

(* The first process starts as every other.                                *)
LEMMA ServiceInit == Init => ServiceInv
<1> SUFFICES ASSUME Init PROVE ServiceInv
  OBVIOUS
<1>1. /\ svr = [mThread |-> 0, mFd |-> 0, sRunning |-> FALSE, sVpnSvr |-> FALSE]
      /\ pc = [t \in Threads |-> "off"] /\ tun = [t \in Threads |-> "none"]
      /\ jni = [sRouter |-> 0, live |-> {}, cmd |-> {}]
      /\ app.enabled = FALSE /\ app.asked = "nothing" /\ app.hasty = FALSE
      /\ app.listener = FALSE /\ app.late = FALSE
      /\ looper = <<>> /\ main = "idle" /\ orphans = {} /\ misuse = FALSE /\ torn = FALSE
  BY DEF Init, Boot
<1>2. IsSeq(looper) /\ Len(looper) = 0
  BY <1>1 DEF IsSeq
<1>3. Shapes
  <2>1. AppShape
    BY DEF AppShape, Init, Boot
  <2>2. svr \in SvrType /\ jni \in JniType
    BY <1>1 DEF SvrType, JniType, ThreadIds
  <2>3. tun \in [Threads -> {"none", "open", "closed"}] /\ misuse \in BOOLEAN
    BY <1>1
  <2> QED BY <1>1, <1>2, <2>1, <2>2, <2>3 DEF Shapes, SvrType, JniType
<1>4. OneThread
  BY <1>1, ServiceAssumption DEF OneThread, ThreadIds, Places, WithRouter
<1>5. Running = "off"
  BY <1>1 DEF Running
<1>6. Turns
  BY <1>1 DEF Turns, Hears
<1>7. Calm
  BY <1>1, <1>2, <1>5 DEF Calm, Resting, Silent, Asleep
<1> QED BY <1>3, <1>4, <1>6, <1>7 DEF ServiceInv

-----------------------------------------------------------------------------
(* The theorems                                                            *)

(* The invariant holds in every state.                                     *)
LEMMA ServiceAlways == Spec => []LifeInv
<1>1. Init => LifeInv
  BY ServiceInit DEF LifeInv
<1>2. LifeInv /\ [Next]_vars => LifeInv'
  BY ServiceNext, TornNext DEF LifeInv
<1> QED BY <1>1, <1>2, PTL DEF Spec

(* A listener that was set in time hears onEnable and onDisable in turn,   *)
(* however the app's requests, the VPN thread and kills of the process     *)
(* interleave, unless the service was destroyed with its thread running.   *)
THEOREM ServiceNoticesAlternate == Spec => []NoticesAlternate
<1>1. LifeInv => NoticesAlternate
  BY DEF LifeInv, ServiceInv, Turns, Hears, InOrder, NoticesAlternate
<1> QED BY <1>1, ServiceAlways, PTL

(* The native stop() never uses a router that start() has deleted, for an  *)
(* app that waits for its answers and a service that was not destroyed     *)
(* with its thread running.                                                *)
THEOREM ServiceStopFindsRouter == Spec => []StopFindsRouter
<1>1. LifeInv => StopFindsRouter
  BY DEF LifeInv, ServiceInv, Calm, StopFindsRouter
<1> QED BY <1>1, ServiceAlways, PTL

(* Such an app, once told onEnable, has a thread in start(), an open tun   *)
(* device and the service that protects sockets.                           *)
THEOREM ServiceEnabledMeansUp == Spec => []EnabledMeansUp
<1>1. LifeInv => EnabledMeansUp
  <2> SUFFICES ASSUME ServiceInv, app.enabled, app.asked = "nothing", ~app.hasty
               PROVE  /\ svr.sVpnSvr
                      /\ \E t \in Threads : pc[t] \in {"enter", "init", "loop"} /\ tun[t] = "open"
    BY DEF LifeInv, EnabledMeansUp
  <2>1. Up /\ svr.sVpnSvr
    BY DEF ServiceInv, Calm, Resting
  <2>2. svr.mThread \in Threads
    BY <2>1 DEF ServiceInv, OneThread, ThreadIds, Up, HasTun
  <2> QED BY <2>1, <2>2 DEF Up, HasTun, Running
<1> QED BY <1>1, ServiceAlways, PTL

-----------------------------------------------------------------------------
(* The settings                                                            *)

CoreValues == Values \cup {""}

SaveType ==
  [task : {"save"}, key : {"core"}, value : CoreValues] \cup
  [task : {"save"}, key : {"ctrls"}, value : Serialised]

LoadType == [task : {"load"}, todo : SUBSET Keys]

TaskType == SaveType \cup LoadType

(* Records of these kinds; bg may be any queue.                            *)
FileType == [core : CoreValues, ctrls : Serialised]
WantType == [core : CoreValues, ctrls : Strategies]
ConfType(b) ==
  [sInited : BOOLEAN, sConfigs : [core : CoreValues \cup {"absent"}, ctrls : Serialised],
   ctrls : Strategies, sSP : FileType, file : FileType,
   settings : Values \cup {"absent"}, bg : {b}]
UserType ==
  [want : WantType, loaded : BOOLEAN, early : BOOLEAN, lost : BOOLEAN, failed : BOOLEAN]

ToldShape ==
  \A i \in 1..Len(looper) : looper[i].what = "SAVED" =>
    looper[i].key = "ctrls" \/ (looper[i].key = "core" /\ looper[i].value \in CoreValues)

(* What conf, the user's wishes and the queued messages look like.         *)
ConfShape ==
  /\ conf \in ConfType(conf.bg)
  /\ IsSeq(conf.bg) /\ IsSeq(looper)
  /\ \A i \in 1..Len(conf.bg) : conf.bg[i] \in TaskType
  /\ ToldShape
  /\ user \in UserType

(* What the background thread posts: nothing, no LOADED, one LOADED.       *)
Answers == {"LOADED", "SAVED"}
NoAnswer == \A i \in 1..Len(looper) : looper[i].what \notin Answers
NoLoaded == \A i \in 1..Len(looper) : looper[i].what # "LOADED"
OneLoaded == \E i \in 1..Len(looper) :
               /\ looper[i].what = "LOADED"
               /\ \A j \in 1..Len(looper) : j # i => looper[j].what \notin Answers

(* What the entries say of the plain targets is what ctrls has for them.   *)
Agrees(entries, ctrls) ==
  \A t \in Plain : Reads(entries, t) = IF ctrls[t] = 0 THEN {} ELSE {ctrls[t]}

(* What the preferences have is what the user wants.                       *)
AsFiled ==
  /\ user.want.core = conf.sSP.core
  /\ Agrees(conf.sSP.ctrls, user.want.ctrls)

Unread == ~conf.sInited /\ conf.bg = <<>> /\ NoAnswer

Reading ==
  /\ conf.sInited /\ Len(conf.bg) = 1 /\ conf.bg[1].task = "load" /\ NoAnswer
  /\ \A key \in Keys \ conf.bg[1].todo : conf.sConfigs[key] = conf.sSP[key]

Read ==
  /\ conf.sInited /\ conf.bg = <<>>
  /\ conf.sConfigs.core = conf.sSP.core /\ conf.sConfigs.ctrls = conf.sSP.ctrls
  /\ OneLoaded

(* Task i saves key, and no later task does.                               *)
Saves(i, key) == conf.bg[i].key = key
LastSave(i, key) == Saves(i, key) /\ \A j \in (i + 1)..Len(conf.bg) : ~Saves(j, key)
NoSave(key) == \A i \in 1..Len(conf.bg) : ~Saves(i, key)

(* Message i tells that core was saved, and no later one does.             *)
Tells(i) == looper[i].what = "SAVED" /\ looper[i].key = "core"
LastTold(i) == Tells(i) /\ \A j \in (i + 1)..Len(looper) : ~Tells(j)
NoneTold == \A i \in 1..Len(looper) : ~Tells(i)
ToldLast(v) == \A i \in 1..Len(looper) : LastTold(i) => looper[i].value = v

(* The last save of each key carries the user's value; without one the     *)
(* preferences have it.                                                    *)
FileFollows ==
  /\ \A i \in 1..Len(conf.bg) :
       /\ LastSave(i, "core") => conf.bg[i].value = user.want.core
       /\ LastSave(i, "ctrls") => Agrees(conf.bg[i].value, user.want.ctrls)
  /\ NoSave("core") => conf.sSP.core = user.want.core
  /\ NoSave("ctrls") => Agrees(conf.sSP.ctrls, user.want.ctrls)

(* The native side learns it from the last message once no save is left.   *)
NativeFollows ==
  NoSave("core") =>
    /\ ToldLast(user.want.core)
    /\ NoneTold /\ user.want.core # "" => conf.settings = user.want.core

Following ==
  /\ conf.sInited /\ user.loaded
  /\ \A i \in 1..Len(conf.bg) : conf.bg[i].task = "save"
  /\ NoLoaded
  /\ conf.sConfigs.core = user.want.core
  /\ \A t \in Plain : conf.ctrls[t] = user.want.ctrls[t]
  /\ FileFollows /\ NativeFollows

(* No update came too early, and none was lost.                            *)
Sound == ~user.early /\ ~user.lost

(* The file has what the preferences have, but for a failed commit.        *)
Written == ~user.failed => conf.file = conf.sSP

SettingsInv ==
  /\ ConfShape /\ Written
  /\ Sound =>
       IF user.loaded THEN Following ELSE AsFiled /\ (Unread \/ Reading \/ Read)

(* What the answers say is not changed.                                    *)
AnswersKept ==
  /\ IsSeq(looper') /\ (ToldShape => ToldShape')
  /\ (NoAnswer => NoAnswer') /\ (NoLoaded => NoLoaded') /\ (OneLoaded => OneLoaded')
  /\ (NoneTold' => NoneTold) /\ \A v : ToldLast(v) => ToldLast(v)'

(* Other messages come and go.                                             *)
LEMMA OtherMessages ==
  ASSUME IsSeq(looper),
         \/ looper' = looper
         \/ \E m : looper' = Append(looper, m) /\ m.what \notin Answers
         \/ \E what : Take(what) /\ what \notin Answers
  PROVE  AnswersKept
<1>1. CASE looper' = looper
  BY <1>1
    DEF AnswersKept, ToldShape, NoAnswer, NoLoaded, OneLoaded, NoneTold, ToldLast, LastTold, Tells
<1>2. ASSUME NEW m, looper' = Append(looper, m), m.what \notin Answers PROVE AnswersKept
  <2>1. /\ IsSeq(looper') /\ Len(looper) \in Nat /\ Len(looper') = Len(looper) + 1
        /\ looper'[Len(looper')] = m
        /\ \A i \in 1..Len(looper) : looper'[i] = looper[i]
    BY <1>2, AppendSeq
  <2>2. m.what # "LOADED" /\ m.what # "SAVED"
    BY <1>2 DEF Answers
  <2>3. (ToldShape => ToldShape') /\ (NoAnswer => NoAnswer') /\ (NoLoaded => NoLoaded')
    BY <1>2, <2>1, <2>2 DEF ToldShape, NoAnswer, NoLoaded
  <2>4. OneLoaded => OneLoaded'
    BY <1>2, <2>1 DEF OneLoaded
  <2>5. NoneTold' => NoneTold
    BY <2>1 DEF NoneTold, Tells
  <2>6. ASSUME NEW v, ToldLast(v), NEW i \in 1..Len(looper'), LastTold(i)' PROVE looper'[i].value = v
    <3>1. i \in 1..Len(looper)
      BY <2>1, <2>2, <2>6 DEF LastTold, Tells
    <3>2. LastTold(i)
      BY <2>1, <2>6, <3>1 DEF LastTold, Tells
    <3> QED BY <2>1, <2>6, <3>1, <3>2 DEF ToldLast
  <2> QED BY <2>1, <2>3, <2>4, <2>5, <2>6 DEF AnswersKept, ToldLast
<1>3. ASSUME NEW what, Take(what), what \notin Answers PROVE AnswersKept
  <2>1. /\ IsSeq(looper') /\ Len(looper) \in Nat /\ Len(looper) >= 1
        /\ Len(looper') = Len(looper) - 1 /\ looper[1].what = what
        /\ \A i \in 1..Len(looper') : looper'[i] = looper[i + 1]
    BY <1>3, TailSeq DEF Take
  <2>2. what # "LOADED" /\ what # "SAVED"
    BY <1>3 DEF Answers
  <2>3. (ToldShape => ToldShape') /\ (NoAnswer => NoAnswer') /\ (NoLoaded => NoLoaded')
    BY <2>1 DEF ToldShape, NoAnswer, NoLoaded
  <2>4. ASSUME OneLoaded PROVE OneLoaded'
    <3>1. PICK i \in 1..Len(looper) :
             /\ looper[i].what = "LOADED"
             /\ \A j \in 1..Len(looper) : j # i => looper[j].what \notin Answers
      BY <2>4 DEF OneLoaded
    <3>2. i - 1 \in 1..Len(looper') /\ looper'[i - 1].what = "LOADED"
      BY <2>1, <2>2, <3>1
    <3>3. \A j \in 1..Len(looper') : j # i - 1 => looper'[j].what \notin Answers
      BY <2>1, <3>1
    <3> QED BY <3>2, <3>3 DEF OneLoaded
  <2>5. ASSUME NoneTold', NEW i \in 1..Len(looper) PROVE ~Tells(i)
    <3>1. CASE i = 1
      BY <2>1, <2>2, <3>1 DEF Tells
    <3>2. CASE i # 1
      <4>1. i - 1 \in 1..Len(looper') /\ looper'[i - 1] = looper[i]
        BY <2>1, <3>2
      <4> QED BY <2>5, <4>1 DEF NoneTold, Tells
    <3> QED BY <3>1, <3>2
  <2>6. ASSUME NEW v, ToldLast(v), NEW i \in 1..Len(looper'), LastTold(i)' PROVE looper'[i].value = v
    <3>1. i + 1 \in 1..Len(looper) /\ looper'[i] = looper[i + 1] /\ Tells(i + 1)
      BY <2>1, <2>6 DEF LastTold, Tells
    <3>2. ASSUME NEW j \in (i + 2)..Len(looper) PROVE ~Tells(j)
      <4>1. j - 1 \in (i + 1)..Len(looper') /\ looper'[j - 1] = looper[j]
        BY <2>1
      <4> QED BY <2>6, <4>1 DEF LastTold, Tells
    <3>3. LastTold(i + 1)
      BY <3>1, <3>2 DEF LastTold
    <3> QED BY <2>6, <3>1, <3>3 DEF ToldLast
  <2> QED BY <2>1, <2>3, <2>4, <2>5, <2>6 DEF AnswersKept, ToldLast, NoneTold
<1> QED BY <1>1, <1>2, <1>3

(* What the file gives back of a strategy map: the plain targets.          *)
LEMMA RoundTrip ==
  ASSUME NEW c \in Strategies
  PROVE  serializeCtrls(c) \in Serialised /\ Agrees(serializeCtrls(c), c)
<1> DEFINE e == serializeCtrls(c)
<1>1. \A p : p \in e <=> \E t \in Targets : c[t] # 0 /\ p = <<t, c[t]>>
  BY DEF serializeCtrls
<1>2. e \in Serialised
  BY <1>1 DEF Serialised, Strategies
<1> HIDE DEF e
<1>3. ASSUME NEW t \in Plain PROVE Reads(e, t) = IF c[t] = 0 THEN {} ELSE {c[t]}
  <2>1. t \in Targets /\ t \notin Colons /\ \A u \in Colons : KeyOf[u] = t => NumOf[u] = 0
    BY DEF Plain
  <2>2. {x \in e : x[1] \notin Colons /\ x[1] = t} = IF c[t] = 0 THEN {} ELSE {<<t, c[t]>>}
    BY <1>1, <2>1
  <2>3. {x \in e : x[1] \in Colons /\ KeyOf[x[1]] = t /\ NumOf[x[1]] # 0} = {}
    BY <2>1
  <2>4. Reads(e, t) = {x[2] : x \in IF c[t] = 0 THEN {} ELSE {<<t, c[t]>>}} \cup {NumOf[x[1]] : x \in {}}
    BY ONLY <2>2, <2>3 DEF Reads
  <2> QED BY <2>4
<1> QED BY <1>2, <1>3 DEF Agrees, e

(* Whatever map the reader makes of entries that agree has their values.   *)
LEMMA ReadBack ==
  ASSUME NEW e, NEW w, Agrees(e, w), NEW m \in parseCtrls(e)
  PROVE  m \in Strategies /\ \A t \in Plain : m[t] = w[t]
<1>1. /\ m \in Strategies
      /\ \A t \in Targets : m[t] \in IF Reads(e, t) = {} THEN {0} ELSE Reads(e, t)
  BY DEF parseCtrls
<1>2. ASSUME NEW t \in Plain PROVE m[t] = w[t]
  <2>1. t \in Targets /\ Reads(e, t) = IF w[t] = 0 THEN {} ELSE {w[t]}
    BY DEF Agrees, Plain
  <2> QED BY <1>1, <2>1
<1> QED BY <1>1, <1>2

(* Nothing of the settings changes, save that init may schedule the load.  *)
LEMMA KeepSettings ==
  ASSUME SettingsInv, AnswersKept, user' = user, conf' = conf \/ conf' = init(conf)
  PROVE  SettingsInv'
<1>1. user' = user /\ (Sound' <=> Sound)
  BY DEF Sound
<1>2. user' \in UserType
  BY DEF SettingsInv, ConfShape
<1>3. IsSeq(looper') /\ ToldShape'
  BY DEF AnswersKept, SettingsInv, ConfShape, ConfType, UserType, TaskType, FileType, WantType
<1>4. CASE conf' = conf
  <2>1. ConfShape'
    BY <1>2, <1>3, <1>4 DEF SettingsInv, ConfShape, ConfType, UserType, TaskType, FileType, WantType
  <2>2. AsFiled => AsFiled'
    BY <1>1, <1>4 DEF AsFiled
  <2>3. (Unread => Unread') /\ (Reading => Reading') /\ (Read => Read')
    BY <1>4 DEF Unread, Reading, Read, AnswersKept
  <2>4. FileFollows => FileFollows'
    BY <1>1, <1>4 DEF FileFollows, LastSave, NoSave, Saves
  <2>5. NativeFollows => NativeFollows'
    BY <1>1, <1>4 DEF NativeFollows, NoSave, Saves, AnswersKept
  <2>6. Following => Following'
    BY <1>1, <1>4, <2>4, <2>5 DEF Following, AnswersKept
  <2> QED BY <1>1, <1>4, <2>1, <2>2, <2>3, <2>6 DEF SettingsInv, Written
<1>5. CASE conf' = init(conf) /\ ~conf.sInited
  <2>1. conf' = [conf EXCEPT !.bg = Append(@, LoadConfigTask), !.sInited = TRUE]
    BY <1>5 DEF init, schedule
  <2>2. /\ conf'.bg = Append(conf.bg, LoadConfigTask) /\ conf'.sInited = TRUE
        /\ conf'.sConfigs = conf.sConfigs /\ conf'.ctrls = conf.ctrls
        /\ conf'.sSP = conf.sSP /\ conf'.file = conf.file /\ conf'.settings = conf.settings
    BY <2>1 DEF SettingsInv, ConfShape, ConfType, UserType, TaskType, FileType, WantType
  <2>3. /\ IsSeq(conf'.bg) /\ Len(conf.bg) \in Nat /\ Len(conf'.bg) = Len(conf.bg) + 1
        /\ conf'.bg[Len(conf'.bg)] = LoadConfigTask
        /\ \A i \in 1..Len(conf.bg) : conf'.bg[i] = conf.bg[i]
    BY <2>2, AppendSeq DEF SettingsInv, ConfShape, ConfType, UserType, TaskType, FileType, WantType
  <2>4. LoadConfigTask \in LoadType
    BY DEF LoadConfigTask, LoadType
  <2>5. ConfShape'
    <3>1. \A i \in 1..Len(conf'.bg) : conf'.bg[i] \in TaskType
      BY <2>3, <2>4 DEF SettingsInv, ConfShape, ConfType, UserType, TaskType, FileType, WantType
    <3>2. (conf \in ConfType(conf.bg))'
      BY <2>1, <2>2 DEF SettingsInv, ConfShape, ConfType, UserType, TaskType, FileType, WantType
    <3> QED BY <1>2, <1>3, <2>3, <3>1, <3>2
      DEF ConfShape, ConfType, UserType, TaskType, FileType, WantType
  <2>6. CASE Sound
    <3>1. ~user.loaded /\ AsFiled /\ Unread
      BY <1>5, <2>6 DEF SettingsInv, Following, Reading, Read
    <3>2. Reading'
      <4>1. Len(conf.bg) = 0 /\ Len(conf'.bg) = 1 /\ conf'.bg[1] = LoadConfigTask
        BY <2>3, <3>1 DEF Unread
      <4>2. NoAnswer'
        BY <3>1 DEF Unread, AnswersKept
      <4> QED BY <2>2, <4>1, <4>2 DEF Reading, LoadConfigTask
    <3>3. AsFiled'
      BY <1>1, <2>2, <3>1 DEF AsFiled
    <3> QED BY <1>1, <2>2, <2>5, <3>1, <3>2, <3>3 DEF SettingsInv, Written
  <2> QED BY <1>1, <2>2, <2>5, <2>6 DEF SettingsInv, Written
<1>6. CASE conf' = init(conf) /\ conf.sInited
  BY <1>4, <1>6 DEF init
<1> QED BY <1>4, <1>5, <1>6

(* A process has just started from a file that has what the user wants,    *)
(* unless something was lost.                                              *)
FreshFrom(s) ==
  /\ conf = Boot(s).conf /\ looper = <<>>
  /\ user \in UserType /\ ~user.loaded
  /\ Sound => user.want.core = s.core /\ Agrees(s.ctrls, user.want.ctrls)

Fresh == \E s \in FileType : FreshFrom(s)

LEMMA FreshSettings == Fresh => SettingsInv
<1> SUFFICES ASSUME NEW s \in FileType, FreshFrom(s) PROVE SettingsInv
  BY DEF Fresh
<1>1. conf = [sInited |-> FALSE, sConfigs |-> Cleared, ctrls |-> NoCtrls, sSP |-> s, file |-> s,
              settings |-> "absent", bg |-> <<>>]
  BY DEF FreshFrom, Boot, Booted
<1>2. IsSeq(<<>>) /\ Len(<<>>) = 0
  BY DEF IsSeq
<1>3. Cleared \in [core : CoreValues \cup {"absent"}, ctrls : Serialised]
  BY DEF Cleared, Serialised
<1>4. NoCtrls \in Strategies
  BY DEF NoCtrls, Strategies, Numbers
<1>5. ConfShape
  <2>1. conf \in ConfType(conf.bg)
    BY <1>1, <1>3, <1>4 DEF ConfType, FreshFrom
  <2> QED BY <1>1, <1>2, <2>1 DEF ConfShape, ToldShape, FreshFrom
<1>6. (Sound => AsFiled) /\ Unread /\ Written
  BY <1>1, <1>2 DEF AsFiled, Unread, NoAnswer, Written, FreshFrom
<1> QED BY <1>5, <1>6 DEF SettingsInv, FreshFrom

LEMMA FreshNext == Fresh' => SettingsInv'
<1> QED BY FreshSettings, PTL

(* A process that ends with everything in the file leaves what the user    *)
(* wants.                                                                  *)
LEMMA RebootSettings == SettingsInv /\ Reboot => SettingsInv'
<1> SUFFICES ASSUME SettingsInv, Reboot PROVE Fresh'
  BY FreshNext
<1>1. conf.file \in FileType /\ user \in UserType /\ IsSeq(conf.bg)
  BY DEF SettingsInv, ConfShape, ConfType
<1>2. /\ conf' = Boot(conf.file).conf /\ looper' = <<>>
      /\ user' = [user EXCEPT !.loaded = FALSE, !.failed = FALSE, !.lost = @ \/ Unsaved]
  BY DEF Reboot
<1>3. /\ user' \in UserType /\ ~user'.loaded /\ user'.want = user.want
      /\ user'.early = user.early /\ user'.lost = (user.lost \/ Unsaved)
  BY <1>1, <1>2 DEF UserType, Unsaved
<1>4. ASSUME Sound' PROVE user.want.core = conf.file.core /\ Agrees(conf.file.ctrls, user.want.ctrls)
  <2>1. Sound /\ conf.file = conf.sSP /\ \A i \in 1..Len(conf.bg) : conf.bg[i].task # "save"
    BY <1>3, <1>4 DEF Sound, Unsaved
  <2>2. CASE user.loaded
    <3>1. Following
      BY <2>1, <2>2 DEF SettingsInv
    <3>2. NoSave("core") /\ NoSave("ctrls")
      BY <2>1, <3>1 DEF NoSave, Following
    <3> QED BY <2>1, <3>1, <3>2 DEF Following, FileFollows
  <2>3. CASE ~user.loaded
    BY <2>1, <2>3 DEF SettingsInv, AsFiled
  <2> QED BY <2>2, <2>3
<1> QED BY <1>1, <1>2, <1>3, <1>4 DEF Fresh, FreshFrom

(* A save is scheduled: it is the last of its key.                         *)
LEMMA SaveScheduled ==
  ASSUME IsSeq(conf.bg), NEW key \in Keys, NEW value,
         conf'.bg = Append(conf.bg, SaveConfigTask(key, value))
  PROVE  /\ IsSeq(conf'.bg) /\ ~NoSave(key)'
         /\ \A i \in 1..Len(conf'.bg) :
              conf'.bg[i] = SaveConfigTask(key, value) \/ \E j \in 1..Len(conf.bg) : conf'.bg[i] = conf.bg[j]
         /\ \A i \in 1..Len(conf'.bg) : LastSave(i, key)' => conf'.bg[i].value = value
         /\ \A k \in Keys \ {key} : \A i \in 1..Len(conf'.bg) : LastSave(i, k)' =>
              i \in 1..Len(conf.bg) /\ LastSave(i, k) /\ conf'.bg[i] = conf.bg[i]
         /\ \A k \in Keys \ {key} : NoSave(k)' => NoSave(k)
<1>1. /\ IsSeq(conf'.bg) /\ Len(conf.bg) \in Nat /\ Len(conf'.bg) = Len(conf.bg) + 1
      /\ conf'.bg[Len(conf'.bg)] = SaveConfigTask(key, value)
      /\ \A i \in 1..Len(conf.bg) : conf'.bg[i] = conf.bg[i]
  BY AppendSeq
<1>2. SaveConfigTask(key, value).key = key /\ SaveConfigTask(key, value).value = value
  BY DEF SaveConfigTask
<1>3. ~NoSave(key)'
  BY <1>1, <1>2 DEF NoSave, Saves
<1>4. \A i \in 1..Len(conf'.bg) :
        conf'.bg[i] = SaveConfigTask(key, value) \/ \E j \in 1..Len(conf.bg) : conf'.bg[i] = conf.bg[j]
  BY <1>1
<1>5. ASSUME NEW i \in 1..Len(conf'.bg), LastSave(i, key)' PROVE conf'.bg[i].value = value
  <2>1. i = Len(conf'.bg)
    BY <1>1, <1>2, <1>5 DEF LastSave, Saves
  <2> QED BY <1>1, <1>2, <2>1
<1>6. ASSUME NEW k \in Keys \ {key}, NEW i \in 1..Len(conf'.bg), LastSave(i, k)'
      PROVE  i \in 1..Len(conf.bg) /\ LastSave(i, k) /\ conf'.bg[i] = conf.bg[i]
  <2>1. i \in 1..Len(conf.bg)
    BY <1>1, <1>2, <1>6 DEF LastSave, Saves
  <2> QED BY <1>1, <1>6, <2>1 DEF LastSave, Saves
<1>7. ASSUME NEW k \in Keys \ {key}, NoSave(k)' PROVE NoSave(k)
  BY <1>1, <1>7 DEF NoSave, Saves
<1> QED BY <1>1, <1>3, <1>4, <1>5, <1>6, <1>7

LEMMA UpdateShape ==
  ASSUME ConfShape, looper' = looper, NEW want \in WantType,
         user' = [user EXCEPT !.want = want, !.early = @ \/ ~user.loaded]
  PROVE  /\ IsSeq(looper') /\ ToldShape'
         /\ user'.want = want /\ user'.loaded = user.loaded
         /\ user'.early = (user.early \/ ~user.loaded)
         /\ user'.lost = user.lost /\ user'.failed = user.failed
         /\ user' \in UserType
<1>1. /\ user'.want = want /\ user'.loaded = user.loaded
      /\ user'.early = (user.early \/ ~user.loaded)
      /\ user'.lost = user.lost /\ user'.failed = user.failed
      /\ user' \in UserType
  BY DEF ConfShape, ConfType, UserType, TaskType, FileType, WantType
<1> QED BY <1>1 DEF ConfShape, ToldShape, ConfType, UserType, TaskType, FileType, WantType

LEMMA SetConfigSettings ==
  ASSUME SettingsInv, NEW v \in CoreValues, AppSetConfig(v)
  PROVE  SettingsInv'
<1> DEFINE want == [user.want EXCEPT !.core = v]
<1>1. /\ looper' = looper /\ user' = [user EXCEPT !.want = want, !.early = @ \/ ~user.loaded]
      /\ conf' = setConfig(conf, v) /\ ConfShape /\ Written /\ conf.sInited
  BY DEF AppSetConfig, Update, SettingsInv
<1>2. want \in WantType /\ want.core = v /\ want.ctrls = user.want.ctrls
  BY <1>1 DEF ConfShape, ConfType, UserType, TaskType, FileType, WantType
<1> HIDE DEF want
<1>3. /\ IsSeq(looper') /\ ToldShape'
      /\ user'.want = want /\ user'.loaded = user.loaded
      /\ user'.early = (user.early \/ ~user.loaded)
      /\ user'.lost = user.lost /\ user'.failed = user.failed
      /\ user' \in UserType
  BY <1>1, <1>2, UpdateShape
<1>4. Sound' => Following /\ user'.loaded
  BY <1>3 DEF SettingsInv, Sound
<1>5. CASE v = conf.sConfigs.core
  <2>1. conf' = conf
    BY <1>1, <1>5 DEF setConfig
  <2>2. ConfShape'
    BY <1>1, <1>3, <2>1 DEF ConfShape, ConfType, UserType, TaskType, FileType, WantType
  <2>3. Following => Following'
    <3> SUFFICES ASSUME Following PROVE Following'
      OBVIOUS
    <3>1. user'.want.core = user.want.core /\ user'.want.ctrls = user.want.ctrls
      BY <1>2, <1>3, <1>5 DEF Following
    <3>2. FileFollows'
      BY <2>1, <3>1 DEF Following, FileFollows, LastSave, NoSave, Saves
    <3>3. NativeFollows'
      BY <1>1, <2>1, <3>1
        DEF Following, NativeFollows, NoSave, Saves, ToldLast, NoneTold, LastTold, Tells
    <3> QED BY <1>1, <1>3, <2>1, <3>1, <3>2, <3>3 DEF Following, NoLoaded
  <2> QED BY <1>1, <1>3, <1>4, <2>1, <2>2, <2>3 DEF SettingsInv, Written
<1>6. CASE v # conf.sConfigs.core
  <2>1. conf' = [conf EXCEPT !.sConfigs.core = v, !.bg = Append(@, SaveConfigTask("core", v))]
    BY <1>1, <1>6
      DEF setConfig, schedule, ConfShape, ConfType, UserType, TaskType, FileType, WantType
  <2>2. /\ conf'.bg = Append(conf.bg, SaveConfigTask("core", v))
        /\ conf'.sConfigs = [conf.sConfigs EXCEPT !.core = v]
        /\ conf'.sInited = conf.sInited /\ conf'.ctrls = conf.ctrls
        /\ conf'.sSP = conf.sSP /\ conf'.file = conf.file /\ conf'.settings = conf.settings
    BY <1>1, <2>1 DEF ConfShape, ConfType, UserType, TaskType, FileType, WantType
  <2>3. /\ conf'.sConfigs \in [core : CoreValues \cup {"absent"}, ctrls : Serialised]
        /\ conf'.sConfigs.core = v
    BY <1>1, <2>2 DEF ConfShape, ConfType, UserType, TaskType, FileType, WantType
  <2>4. "core" \in Keys /\ "ctrls" \in Keys \ {"core"}
    BY DEF Keys
  <2>5. /\ IsSeq(conf'.bg) /\ ~NoSave("core")'
        /\ \A i \in 1..Len(conf'.bg) :
              conf'.bg[i] = SaveConfigTask("core", v) \/ \E j \in 1..Len(conf.bg) : conf'.bg[i] = conf.bg[j]
        /\ \A i \in 1..Len(conf'.bg) : LastSave(i, "core")' => conf'.bg[i].value = v
        /\ \A i \in 1..Len(conf'.bg) : LastSave(i, "ctrls")' =>
              i \in 1..Len(conf.bg) /\ LastSave(i, "ctrls") /\ conf'.bg[i] = conf.bg[i]
        /\ NoSave("ctrls")' => NoSave("ctrls")
    BY <1>1, <2>2, <2>4, SaveScheduled
      DEF ConfShape, ConfType, UserType, TaskType, FileType, WantType
  <2>6. SaveConfigTask("core", v) \in SaveType /\ SaveConfigTask("core", v).task = "save"
    BY DEF SaveConfigTask, SaveType
  <2>7. ConfShape'
    <3>1. \A i \in 1..Len(conf'.bg) : conf'.bg[i] \in TaskType
      BY <1>1, <2>5, <2>6 DEF ConfShape, ConfType, UserType, TaskType, FileType, WantType
    <3>2. (conf \in ConfType(conf.bg))'
      BY <1>1, <2>1, <2>2, <2>3 DEF ConfShape, ConfType, UserType, TaskType, FileType, WantType
    <3> QED BY <1>3, <2>5, <3>1, <3>2 DEF ConfShape, ConfType, UserType, TaskType, FileType, WantType
  <2>8. Following => Following'
    <3> SUFFICES ASSUME Following PROVE Following'
      OBVIOUS
    <3>1. FileFollows'
      <4>1. ASSUME NEW i \in 1..Len(conf'.bg), LastSave(i, "ctrls")'
            PROVE  Agrees(conf'.bg[i].value, user'.want.ctrls)
        BY <1>2, <1>3, <2>5, <4>1 DEF Following, FileFollows
      <4>2. ASSUME NoSave("ctrls")'
            PROVE  Agrees(conf'.sSP.ctrls, user'.want.ctrls)
        BY <1>2, <1>3, <2>2, <2>5, <4>2 DEF Following, FileFollows
      <4> QED BY <1>2, <1>3, <2>5, <4>1, <4>2 DEF FileFollows
    <3>2. NativeFollows'
      BY <2>5 DEF NativeFollows
    <3>3. \A i \in 1..Len(conf'.bg) : conf'.bg[i].task = "save"
      BY <2>5, <2>6 DEF Following
    <3> QED BY <1>1, <1>2, <1>3, <2>2, <2>3, <3>1, <3>2, <3>3 DEF Following, NoLoaded
  <2> QED BY <1>1, <1>3, <1>4, <2>2, <2>7, <2>8 DEF SettingsInv, Written
<1> QED BY <1>5, <1>6

LEMMA UpdateCtrlSettings ==
  ASSUME SettingsInv, NEW target \in Targets, NEW ctrl \in Ctrls \cup {0},
         AppUpdateCtrl(target, ctrl)
  PROVE  SettingsInv'
<1> DEFINE want == [user.want EXCEPT !.ctrls[target] = ctrl]
           new == [conf.ctrls EXCEPT ![target] = ctrl]
<1>1. /\ looper' = looper /\ user' = [user EXCEPT !.want = want, !.early = @ \/ ~user.loaded]
      /\ conf' = updateCtrl(conf, target, ctrl) /\ ConfShape /\ Written /\ conf.sInited
  BY DEF AppUpdateCtrl, Update, SettingsInv
<1>2. /\ user.want \in WantType /\ conf.ctrls \in Strategies
      /\ new \in Strategies
  BY <1>1 DEF ConfShape, Strategies, Numbers, ConfType, UserType, TaskType, FileType, WantType
<1>3. /\ want \in WantType /\ want.core = user.want.core
      /\ want.ctrls = [user.want.ctrls EXCEPT ![target] = ctrl]
  BY <1>2 DEF Strategies, WantType
<1> HIDE DEF want
<1>4. /\ IsSeq(looper') /\ ToldShape'
      /\ user'.want = want /\ user'.loaded = user.loaded
      /\ user'.early = (user.early \/ ~user.loaded)
      /\ user'.lost = user.lost /\ user'.failed = user.failed
      /\ user' \in UserType
  BY <1>1, <1>3, UpdateShape
<1>5. Sound' => Following /\ user'.loaded
  BY <1>4 DEF SettingsInv, Sound
<1>6. Following => /\ user'.want.core = user.want.core
                  /\ \A t \in Plain : user'.want.ctrls[t] = new[t]
  BY <1>2, <1>3, <1>4 DEF Following, WantType, Strategies, Plain
<1>7. CASE conf.ctrls[target] = ctrl
  <2>1. conf' = conf
    BY <1>1, <1>7 DEF updateCtrl
  <2>2. ConfShape'
    BY <1>1, <1>4, <2>1 DEF ConfShape, ConfType, UserType, TaskType, FileType, WantType
  <2>3. Following => Following'
    <3> SUFFICES ASSUME Following PROVE Following'
      OBVIOUS
    <3>1. /\ user'.want.core = user.want.core
          /\ \A t \in Plain : user'.want.ctrls[t] = user.want.ctrls[t]
      BY <1>2, <1>6, <1>7 DEF Following, Strategies
    <3>2. FileFollows'
      <4>1. \A e : Agrees(e, user.want.ctrls) => Agrees(e, user'.want.ctrls)
        BY <3>1 DEF Agrees
      <4> QED BY <2>1, <3>1, <4>1 DEF Following, FileFollows, LastSave, NoSave, Saves
    <3>3. NativeFollows'
      BY <1>1, <2>1, <3>1
        DEF Following, NativeFollows, NoSave, Saves, ToldLast, NoneTold, LastTold, Tells
    <3> QED BY <1>1, <1>4, <2>1, <3>1, <3>2, <3>3 DEF Following, NoLoaded
  <2> QED BY <1>1, <1>4, <1>5, <2>1, <2>2, <2>3 DEF SettingsInv, Written
<1>8. CASE conf.ctrls[target] # ctrl
  <2> DEFINE task == SaveConfigTask("ctrls", serializeCtrls(new))
  <2>1. conf' = [conf EXCEPT !.ctrls = new, !.bg = Append(@, task)]
    BY <1>1, <1>8
      DEF updateCtrl, schedule, ConfShape, ConfType, UserType, TaskType, FileType, WantType
  <2>2. /\ conf'.bg = Append(conf.bg, task) /\ conf'.ctrls = new
        /\ conf'.sConfigs = conf.sConfigs /\ conf'.sInited = conf.sInited
        /\ conf'.sSP = conf.sSP /\ conf'.file = conf.file /\ conf'.settings = conf.settings
    BY <1>1, <2>1 DEF ConfShape, ConfType, UserType, TaskType, FileType, WantType
  <2>3. "ctrls" \in Keys /\ "core" \in Keys \ {"ctrls"}
    BY DEF Keys
  <2>4. serializeCtrls(new) \in Serialised /\ Agrees(serializeCtrls(new), new)
    BY <1>2, RoundTrip
  <2> HIDE DEF new
  <2>5. /\ IsSeq(conf'.bg) /\ ~NoSave("ctrls")'
        /\ \A i \in 1..Len(conf'.bg) :
              conf'.bg[i] = task \/ \E j \in 1..Len(conf.bg) : conf'.bg[i] = conf.bg[j]
        /\ \A i \in 1..Len(conf'.bg) : LastSave(i, "ctrls")' => conf'.bg[i].value = serializeCtrls(new)
        /\ \A i \in 1..Len(conf'.bg) : LastSave(i, "core")' =>
              i \in 1..Len(conf.bg) /\ LastSave(i, "core") /\ conf'.bg[i] = conf.bg[i]
        /\ NoSave("core")' => NoSave("core")
    BY <1>1, <2>2, <2>3, SaveScheduled
      DEF ConfShape, ConfType, UserType, TaskType, FileType, WantType
  <2>6. task \in SaveType /\ task.task = "save"
    BY <2>4 DEF SaveConfigTask, SaveType
  <2> HIDE DEF task
  <2>7. ConfShape'
    <3>1. \A i \in 1..Len(conf'.bg) : conf'.bg[i] \in TaskType
      BY <1>1, <2>5, <2>6 DEF ConfShape, ConfType, UserType, TaskType, FileType, WantType
    <3>2. (conf \in ConfType(conf.bg))'
      BY <1>1, <1>2, <2>1, <2>2 DEF ConfShape, ConfType, UserType, TaskType, FileType, WantType
    <3> QED BY <1>4, <2>5, <3>1, <3>2 DEF ConfShape, ConfType, UserType, TaskType, FileType, WantType
  <2>8. Following => Following'
    <3> SUFFICES ASSUME Following PROVE Following'
      OBVIOUS
    <3>1. FileFollows'
      <4>1. Agrees(serializeCtrls(new), user'.want.ctrls)
        BY <1>6, <2>4 DEF Agrees
      <4>2. ASSUME NEW i \in 1..Len(conf'.bg), LastSave(i, "ctrls")'
            PROVE  Agrees(conf'.bg[i].value, user'.want.ctrls)
        BY <2>5, <4>1, <4>2
      <4> QED BY <1>6, <2>2, <2>5, <4>2 DEF Following, FileFollows
    <3>2. NativeFollows'
      <4>1. \A u : ToldLast(u) => ToldLast(u)'
        BY <1>1 DEF ToldLast, LastTold, Tells
      <4>2. NoneTold' => NoneTold
        BY <1>1 DEF NoneTold, Tells
      <4> QED BY <1>6, <2>2, <2>5, <4>1, <4>2 DEF Following, NativeFollows
    <3>3. \A i \in 1..Len(conf'.bg) : conf'.bg[i].task = "save"
      BY <2>5, <2>6 DEF Following
    <3> QED BY <1>1, <1>4, <1>6, <2>2, <3>1, <3>2, <3>3 DEF Following, NoLoaded
  <2> QED BY <1>1, <1>4, <1>5, <2>2, <2>7, <2>8 DEF SettingsInv, Written
<1> QED BY <1>7, <1>8

(* The main thread gets the file's values: the memory and the native side  *)
(* follow them from here on.                                               *)
LEMMA LoadedSettings == SettingsInv /\ ConfigLoaded => SettingsInv'
<1> SUFFICES ASSUME SettingsInv, ConfigLoaded PROVE SettingsInv'
  OBVIOUS
<1>1. /\ looper # <<>> /\ Head(looper).what = "LOADED" /\ looper' = Tail(looper)
      /\ user' = [user EXCEPT !.loaded = TRUE] /\ ConfShape /\ Written
  BY DEF ConfigLoaded, Take, SettingsInv
<1>2. /\ IsSeq(looper') /\ Len(looper) \in Nat /\ Len(looper) >= 1
      /\ Len(looper') = Len(looper) - 1 /\ looper[1].what = "LOADED"
      /\ \A i \in 1..Len(looper') : looper'[i] = looper[i + 1]
  BY <1>1, TailSeq DEF ConfShape, ConfType, UserType, TaskType, FileType, WantType
<1>3. /\ user'.loaded = TRUE /\ user'.early = user.early /\ user'.want = user.want
      /\ user'.lost = user.lost /\ user'.failed = user.failed
      /\ user' \in UserType
  BY <1>1 DEF ConfShape, ConfType, UserType, TaskType, FileType, WantType
<1>4. PICK ctrls \in parseCtrls(conf.sConfigs.ctrls) : conf' = onConfigLoadSucc(conf, ctrls)
  BY DEF ConfigLoaded
<1>4a. ctrls \in Strategies
  BY DEF parseCtrls
<1> DEFINE value == conf.sConfigs.core
           given == [conf EXCEPT !.ctrls = ctrls]
<1>5. /\ conf'.bg = conf.bg /\ conf'.ctrls = ctrls
      /\ conf'.sConfigs = conf.sConfigs /\ conf'.sInited = conf.sInited /\ conf'.sSP = conf.sSP
      /\ conf'.file = conf.file
      /\ conf'.settings = IF value \in {"", "absent"} THEN conf.settings ELSE value
      /\ conf' \in ConfType(conf'.bg)
  <2>1. CASE value \in {"", "absent"}
    <3>1. conf' = given
      BY <1>4, <2>1 DEF onConfigLoadSucc, setShellConfig
    <3> QED BY <1>1, <1>4a, <2>1, <3>1 DEF ConfShape, ConfType, UserType, TaskType, FileType, WantType
  <2>2. CASE value \notin {"", "absent"}
    <3>1. conf' = [given EXCEPT !.settings = value]
      BY <1>4, <2>2 DEF onConfigLoadSucc, setShellConfig
    <3>2. value \in Values
      BY <1>1, <2>2 DEF ConfShape, CoreValues, ConfType, UserType, TaskType, FileType, WantType
    <3> QED BY <1>1, <1>4a, <2>2, <3>1, <3>2
      DEF ConfShape, ConfType, UserType, TaskType, FileType, WantType
  <2> QED BY <2>1, <2>2
<1> HIDE DEF value, given
<1>6. ConfShape'
  <2>1. ToldShape'
    BY <1>1, <1>2 DEF ConfShape, ToldShape, ConfType, UserType, TaskType, FileType, WantType
  <2> QED BY <1>1, <1>2, <1>3, <1>5, <2>1
    DEF ConfShape, ConfType, UserType, TaskType, FileType, WantType
<1>7. CASE Sound
  <2>1. ~user.loaded /\ AsFiled /\ Read
    BY <1>2, <1>7 DEF SettingsInv, Following, NoLoaded, Unread, Reading, NoAnswer, Answers
  <2>2. \A i \in 1..Len(looper') : looper'[i].what \notin Answers
    <3>1. \A i \in 2..Len(looper) : looper[i].what \notin Answers
      BY <1>2, <2>1 DEF Read, OneLoaded, Answers
    <3> QED BY <1>2, <3>1
  <2>3. conf'.bg = <<>> /\ Len(conf'.bg) = 0
    <3>1. conf'.bg = <<>>
      BY <1>5, <2>1 DEF Read
    <3> QED BY <3>1
  <2>4. FileFollows'
    <3>1. 1..Len(conf'.bg) = {}
      BY <2>3
    <3>2. user'.want.core = conf'.sSP.core /\ Agrees(conf'.sSP.ctrls, user'.want.ctrls)
      BY <1>3, <1>5, <2>1 DEF AsFiled
    <3> QED BY <3>1, <3>2 DEF FileFollows
  <2>5. user.want.core \in CoreValues /\ value = user.want.core
    BY <1>1, <2>1
      DEF ConfShape, Read, AsFiled, value, ConfType, UserType, TaskType, FileType, WantType
  <2>6. value # "absent"
    BY <2>5, ConfigAssumption DEF CoreValues
  <2>7. NativeFollows'
    <3>1. \A u : ToldLast(u)'
      BY <2>2 DEF ToldLast, LastTold, Tells, Answers
    <3> QED BY <1>3, <1>5, <2>5, <2>6, <3>1 DEF NativeFollows
  <2>8. Following'
    <3>1. conf'.sInited /\ conf'.sConfigs.core = user'.want.core
      BY <1>3, <1>5, <2>1 DEF Read, AsFiled
    <3>1a. \A t \in Plain : conf'.ctrls[t] = user'.want.ctrls[t]
      <4>1. Agrees(conf.sConfigs.ctrls, user.want.ctrls)
        BY <2>1 DEF Read, AsFiled
      <4>2. \A t \in Plain : ctrls[t] = user.want.ctrls[t]
        BY <1>4, <4>1, ReadBack
      <4> QED BY <1>3, <1>5, <4>2
    <3>2. NoLoaded' /\ \A i \in 1..Len(conf'.bg) : conf'.bg[i].task = "save"
      BY <2>2, <2>3 DEF NoLoaded, Answers
    <3> QED BY <1>3, <2>4, <2>7, <3>1, <3>1a, <3>2 DEF Following
  <2> QED BY <1>1, <1>3, <1>5, <1>6, <2>8 DEF SettingsInv, Written
<1> QED BY <1>1, <1>3, <1>5, <1>6, <1>7 DEF SettingsInv, Sound, Written

(* The native side is told of a save.                                      *)
LEMMA SavedSettings == SettingsInv /\ ConfigSaved => SettingsInv'
<1> SUFFICES ASSUME SettingsInv, ConfigSaved PROVE SettingsInv'
  OBVIOUS
<1> DEFINE m == looper[1]
<1>1. /\ looper # <<>> /\ Head(looper).what = "SAVED" /\ looper' = Tail(looper)
      /\ conf' = onConfigSaveSucc(conf, Head(looper).key, Head(looper).value) /\ user' = user /\ ConfShape /\ Written
  BY DEF ConfigSaved, Take, SettingsInv
<1>2. /\ IsSeq(looper') /\ Len(looper) \in Nat /\ Len(looper) >= 1 /\ Head(looper) = m
      /\ Len(looper') = Len(looper) - 1 /\ m.what = "SAVED"
      /\ \A i \in 1..Len(looper') : looper'[i] = looper[i + 1]
  BY <1>1, TailSeq DEF ConfShape, ConfType, UserType, TaskType, FileType, WantType
<1>3. m.key = "ctrls" \/ (m.key = "core" /\ m.value \in CoreValues)
  BY <1>1, <1>2 DEF ConfShape, ToldShape, ConfType, UserType, TaskType, FileType, WantType
<1> HIDE DEF m
<1>4. /\ conf'.bg = conf.bg /\ conf'.ctrls = conf.ctrls
      /\ conf'.sConfigs = conf.sConfigs /\ conf'.sInited = conf.sInited /\ conf'.sSP = conf.sSP
      /\ conf'.file = conf.file
      /\ conf'.settings = IF m.key = "core" /\ m.value # "" THEN m.value ELSE conf.settings
      /\ conf' \in ConfType(conf'.bg)
  <2>1. CASE m.key = "core" /\ m.value # ""
    <3>1. m.value \in Values /\ m.value \notin {"", "absent"}
      BY <1>3, <2>1, ConfigAssumption DEF CoreValues
    <3>2. conf' = [conf EXCEPT !.settings = m.value]
      BY <1>1, <1>2, <2>1, <3>1 DEF onConfigSaveSucc, setShellConfig
    <3> QED BY <1>1, <2>1, <3>1, <3>2 DEF ConfShape, ConfType, UserType, TaskType, FileType, WantType
  <2>2. CASE ~(m.key = "core" /\ m.value # "")
    <3>1. conf' = conf
      BY <1>1, <1>2, <2>2 DEF onConfigSaveSucc, setShellConfig
    <3> QED BY <1>1, <2>2, <3>1 DEF ConfShape, ConfType, UserType, TaskType, FileType, WantType
  <2> QED BY <2>1, <2>2
<1>5. ConfShape'
  <2>1. ToldShape'
    BY <1>1, <1>2 DEF ConfShape, ToldShape, ConfType, UserType, TaskType, FileType, WantType
  <2> QED BY <1>1, <1>2, <1>4, <2>1 DEF ConfShape, ConfType, UserType, TaskType, FileType, WantType
<1>6. CASE Sound
  <2>1. user.loaded /\ Following
    BY <1>2, <1>6 DEF SettingsInv, Unread, Reading, Read, NoAnswer, OneLoaded, Answers, m
  <2>2. ASSUME NEW i \in 1..Len(looper'), LastTold(i)'
        PROVE  i + 1 \in 1..Len(looper) /\ LastTold(i + 1) /\ looper'[i] = looper[i + 1]
    <3>1. i + 1 \in 1..Len(looper) /\ looper'[i] = looper[i + 1] /\ Tells(i + 1)
      BY <1>2, <2>2 DEF LastTold, Tells
    <3>2. ASSUME NEW j \in (i + 2)..Len(looper) PROVE ~Tells(j)
      <4>1. j - 1 \in (i + 1)..Len(looper') /\ looper'[j - 1] = looper[j]
        BY <1>2
      <4> QED BY <2>2, <4>1 DEF LastTold, Tells
    <3> QED BY <3>1, <3>2 DEF LastTold
  <2>3. ASSUME NoneTold', NEW i \in 2..Len(looper) PROVE ~Tells(i)
    <3>1. i - 1 \in 1..Len(looper') /\ looper'[i - 1] = looper[i]
      BY <1>2
    <3> QED BY <2>3, <3>1 DEF NoneTold, Tells
  <2>4. NoSave("core")' <=> NoSave("core")
    BY <1>4 DEF NoSave, Saves
  <2>5. ASSUME NoSave("core") PROVE ToldLast(user.want.core)'
    <3>1. ToldLast(user.want.core)
      BY <2>1, <2>5 DEF Following, NativeFollows
    <3> QED BY <1>1, <2>2, <3>1 DEF ToldLast
  <2>6. ASSUME NoSave("core"), NoneTold', user.want.core # "" PROVE conf'.settings = user.want.core
    <3>1. CASE m.key = "core"
      <4>1. 1 \in 1..Len(looper) /\ LastTold(1)
        <5>1. 1 \in 1..Len(looper) /\ Tells(1)
          BY <1>2, <3>1 DEF Tells, m
        <5>2. \A j \in (1 + 1)..Len(looper) : ~Tells(j)
          <6>1. \A j \in 2..Len(looper) : ~Tells(j)
            BY <2>3, <2>6
          <6>2. (1 + 1)..Len(looper) = 2..Len(looper)
            OBVIOUS
          <6> QED BY <6>1, <6>2
        <5> QED BY <5>1, <5>2 DEF LastTold
      <4>2. m.value = user.want.core
        BY <2>1, <2>6, <4>1 DEF Following, NativeFollows, ToldLast, m
      <4> QED BY <1>4, <2>6, <3>1, <4>2
    <3>2. CASE m.key # "core"
      <4>1. NoneTold
        <5>1. ~Tells(1)
          BY <3>2 DEF Tells, m
        <5>2. \A j \in 1..Len(looper) : j = 1 \/ j \in 2..Len(looper)
          BY <1>2
        <5> QED BY <2>3, <2>6, <5>1, <5>2 DEF NoneTold
      <4> QED BY <1>4, <2>1, <2>6, <3>2, <4>1 DEF Following, NativeFollows
    <3> QED BY <3>1, <3>2
  <2>7. NativeFollows'
    BY <1>1, <2>4, <2>5, <2>6 DEF NativeFollows
  <2>8. FileFollows'
    <3>1. \A i, k : LastSave(i, k)' <=> LastSave(i, k)
      BY <1>4 DEF LastSave, Saves
    <3>2. \A k : NoSave(k)' <=> NoSave(k)
      BY <1>4 DEF NoSave, Saves
    <3>3. \A i \in 1..Len(conf.bg) :
            /\ LastSave(i, "core")' => conf.bg[i].value = user.want.core
            /\ LastSave(i, "ctrls")' => Agrees(conf.bg[i].value, user.want.ctrls)
      BY <2>1, <3>1 DEF Following, FileFollows
    <3>4. /\ NoSave("core")' => conf.sSP.core = user.want.core
          /\ NoSave("ctrls")' => Agrees(conf.sSP.ctrls, user.want.ctrls)
      BY <2>1, <3>2 DEF Following, FileFollows
    <3> QED BY <1>1, <1>4, <3>3, <3>4 DEF FileFollows
  <2>9. NoLoaded'
    BY <1>2, <2>1 DEF Following, NoLoaded
  <2>10. Following'
    BY <1>1, <1>4, <2>1, <2>7, <2>8, <2>9 DEF Following
  <2> QED BY <1>1, <1>4, <1>5, <2>1, <2>10 DEF SettingsInv, Written
<1> QED BY <1>1, <1>4, <1>5, <1>6 DEF SettingsInv, Sound, Written

(* The preferences get the value of the task, and the file may.            *)
LEMMA CommitSettings == SettingsInv /\ Save => SettingsInv'
<1> SUFFICES ASSUME SettingsInv, Save PROVE SettingsInv'
  OBVIOUS
<1> DEFINE task == conf.bg[1]
           m == Saved(task)
<1>1. /\ conf.bg # <<>> /\ Head(conf.bg).task = "save"
      /\ looper' = Append(looper, Saved(Head(conf.bg))) /\ ConfShape
  BY DEF Save, Task, SettingsInv
<1>1a. PICK written \in BOOLEAN :
         conf' = Commit(conf, written) /\ user' = [user EXCEPT !.failed = ~written]
  BY DEF Save
<1>1b. /\ user' \in UserType /\ user'.want = user.want /\ user'.loaded = user.loaded
       /\ user'.early = user.early /\ user'.lost = user.lost /\ user'.failed = ~written
  BY <1>1, <1>1a DEF ConfShape, UserType
<1>2. /\ IsSeq(Tail(conf.bg)) /\ Len(conf.bg) \in Nat /\ Len(conf.bg) >= 1 /\ Head(conf.bg) = task
      /\ Len(Tail(conf.bg)) = Len(conf.bg) - 1
      /\ \A i \in 1..Len(Tail(conf.bg)) : Tail(conf.bg)[i] = conf.bg[i + 1]
  BY <1>1, TailSeq DEF ConfShape, ConfType, UserType, TaskType, FileType, WantType
<1>3. task \in SaveType
  BY <1>1, <1>2 DEF ConfShape, ConfType, UserType, TaskType, FileType, WantType, LoadType
<1>4. /\ m.what = "SAVED" /\ m.key = task.key /\ m.value = task.value
      /\ looper' = Append(looper, m)
  BY <1>1, <1>2 DEF Saved
<1> HIDE DEF task, m
<1>5. /\ IsSeq(looper') /\ Len(looper) \in Nat /\ Len(looper') = Len(looper) + 1
      /\ looper'[Len(looper')] = m
      /\ \A i \in 1..Len(looper) : looper'[i] = looper[i]
  BY <1>1, <1>4, AppendSeq DEF ConfShape, ConfType, UserType, TaskType, FileType, WantType
<1> DEFINE new == [conf.sSP EXCEPT ![task.key] = task.value]
<1>6. conf' = [conf EXCEPT !.sSP = new, !.file = IF written THEN new ELSE conf.file,
                           !.bg = Tail(conf.bg)]
  BY <1>1a, <1>2 DEF Commit
<1>7. /\ conf'.bg = Tail(conf.bg) /\ conf'.ctrls = conf.ctrls /\ conf'.sConfigs = conf.sConfigs
      /\ conf'.sInited = conf.sInited /\ conf'.settings = conf.settings
      /\ conf'.sSP = new /\ conf'.file = IF written THEN new ELSE conf.file
  BY <1>1, <1>6 DEF ConfShape, ConfType, UserType, TaskType, FileType, WantType
<1>8. /\ conf'.sSP \in FileType
      /\ task.key = "core" => conf'.sSP.core = task.value /\ conf'.sSP.ctrls = conf.sSP.ctrls
      /\ task.key = "ctrls" => conf'.sSP.ctrls = task.value /\ conf'.sSP.core = conf.sSP.core
      /\ task.key \in {"core", "ctrls"} /\ conf'.file \in FileType
  BY <1>1, <1>3, <1>7 DEF ConfShape, SaveType, ConfType, UserType, TaskType, FileType, WantType
<1>9. ConfShape'
  <2>1. ToldShape'
    BY <1>1, <1>3, <1>4, <1>5
      DEF ConfShape, ToldShape, SaveType, ConfType, UserType, TaskType, FileType, WantType
  <2>2. \A i \in 1..Len(conf'.bg) : conf'.bg[i] \in TaskType
    <3>1. \A i \in 1..Len(conf'.bg) : i + 1 \in 1..Len(conf.bg) /\ conf'.bg[i] = conf.bg[i + 1]
      BY <1>2, <1>7
    <3>2. \A i \in 1..Len(conf.bg) : conf.bg[i] \in TaskType
      BY <1>1 DEF ConfShape, ConfType, UserType, TaskType, FileType, WantType
    <3> QED BY ONLY <3>1, <3>2
  <2>3. (conf \in ConfType(conf.bg))'
    BY <1>1, <1>6, <1>7, <1>8 DEF ConfShape, ConfType, UserType, TaskType, FileType, WantType
  <2> QED BY <1>1, <1>1b, <1>2, <1>5, <1>7, <2>1, <2>2, <2>3
    DEF ConfShape, ConfType, UserType, TaskType, FileType, WantType
<1> HIDE DEF new
<1>9a. Written'
  BY <1>1b, <1>7 DEF Written
<1>10. CASE Sound
  <2>1. user.loaded /\ Following
    <3>1. ~Unread /\ ~Reading /\ ~Read
      BY <1>1, <1>2 DEF Unread, Reading, Read
    <3> QED BY <1>10, <3>1 DEF SettingsInv
  <2>2. ASSUME NEW k, NEW i \in 1..Len(conf'.bg), LastSave(i, k)'
        PROVE  i + 1 \in 1..Len(conf.bg) /\ LastSave(i + 1, k) /\ conf'.bg[i] = conf.bg[i + 1]
    <3>1. i + 1 \in 1..Len(conf.bg) /\ conf'.bg[i] = conf.bg[i + 1] /\ Saves(i + 1, k)
      BY <1>2, <1>7, <2>2 DEF LastSave, Saves
    <3>2. ASSUME NEW j \in (i + 2)..Len(conf.bg) PROVE ~Saves(j, k)
      <4>1. j - 1 \in (i + 1)..Len(conf'.bg) /\ conf'.bg[j - 1] = conf.bg[j]
        BY <1>2, <1>7
      <4> QED BY <2>2, <4>1 DEF LastSave, Saves
    <3> QED BY <3>1, <3>2 DEF LastSave
  <2>3. ASSUME NEW k, NoSave(k)', NEW i \in 2..Len(conf.bg) PROVE ~Saves(i, k)
    <3>1. i - 1 \in 1..Len(conf'.bg) /\ conf'.bg[i - 1] = conf.bg[i]
      BY <1>2, <1>7
    <3> QED BY <2>3, <3>1 DEF NoSave, Saves
  <2>4. ASSUME NEW k, NoSave(k)', task.key = k PROVE 1 \in 1..Len(conf.bg) /\ LastSave(1, k)
    BY <1>2, <2>3, <2>4 DEF LastSave, Saves, task
  <2>5. ASSUME NEW k, NoSave(k)', task.key # k PROVE NoSave(k)
    <3>1. \A i \in 1..Len(conf.bg) : i = 1 \/ i \in 2..Len(conf.bg)
      BY <1>2
    <3>2. ~Saves(1, k)
      BY <2>5 DEF Saves, task
    <3> QED BY <2>3, <2>5, <3>1, <3>2 DEF NoSave
  <2>7. FileFollows'
    <3>1. NoSave("core")' => conf'.sSP.core = user.want.core
      <4>1. CASE task.key = "core"
        BY <1>8, <2>1, <2>4, <4>1 DEF Following, FileFollows, task
      <4>2. CASE task.key # "core"
        BY <1>8, <2>1, <2>5, <4>2 DEF Following, FileFollows
      <4> QED BY <4>1, <4>2
    <3>2. NoSave("ctrls")' => Agrees(conf'.sSP.ctrls, user.want.ctrls)
      <4>1. ASSUME NoSave("ctrls")', task.key = "ctrls"
            PROVE  Agrees(conf'.sSP.ctrls, user.want.ctrls)
        BY <1>8, <2>1, <2>4, <4>1 DEF Following, FileFollows, task
      <4>2. CASE task.key # "ctrls"
        BY <1>8, <2>1, <2>5, <4>2 DEF Following, FileFollows
      <4> QED BY <4>1, <4>2
    <3>3. ASSUME NEW i \in 1..Len(conf'.bg)
          PROVE  /\ LastSave(i, "core")' => conf'.bg[i].value = user.want.core
                 /\ LastSave(i, "ctrls")' => Agrees(conf'.bg[i].value, user.want.ctrls)
      BY <2>1, <2>2 DEF Following, FileFollows
    <3> QED BY <1>1b, <3>1, <3>2, <3>3 DEF FileFollows
  <2>8. NativeFollows'
    <3> SUFFICES ASSUME NoSave("core")'
                 PROVE  /\ ToldLast(user.want.core)'
                        /\ NoneTold' /\ user.want.core # "" => conf'.settings = user.want.core
      BY <1>1b DEF NativeFollows
    <3>1. CASE task.key = "core"
      <4>1. m.value = user.want.core
        BY <1>4, <2>1, <2>4, <3>1 DEF Following, FileFollows, task
      <4>3. ~NoneTold'
        BY <1>4, <1>5, <3>1 DEF NoneTold, Tells
      <4>4. ASSUME NEW i \in 1..Len(looper'), LastTold(i)' PROVE i = Len(looper')
        BY <1>4, <1>5, <3>1, <4>4 DEF LastTold, Tells
      <4> QED BY <1>1b, <1>5, <4>1, <4>3, <4>4 DEF ToldLast
    <3>2. CASE task.key # "core"
      <4>1. NoSave("core")
        BY <2>5, <3>2
      <4>2. NoneTold' => NoneTold
        BY <1>5 DEF NoneTold, Tells
      <4>3. ASSUME NEW i \in 1..Len(looper'), LastTold(i)'
            PROVE  i \in 1..Len(looper) /\ LastTold(i) /\ looper'[i] = looper[i]
        <5>1. i \in 1..Len(looper)
          BY <1>4, <1>5, <3>2, <4>3 DEF LastTold, Tells
        <5> QED BY <1>5, <4>3, <5>1 DEF LastTold, Tells
      <4>4. ToldLast(user.want.core)'
        BY <1>1b, <2>1, <4>1, <4>3 DEF ToldLast, Following, NativeFollows
      <4> QED BY <1>7, <2>1, <4>1, <4>2, <4>4 DEF Following, NativeFollows
    <3> QED BY <3>1, <3>2
  <2>9. NoLoaded' /\ \A i \in 1..Len(conf'.bg) : conf'.bg[i].task = "save"
    BY <1>2, <1>4, <1>5, <1>7, <2>1 DEF Following, NoLoaded
  <2>10. Following'
    BY <1>1b, <1>7, <2>1, <2>7, <2>8, <2>9 DEF Following
  <2> QED BY <1>1b, <1>9, <1>9a, <2>1, <2>10 DEF SettingsInv
<1> QED BY <1>1b, <1>9, <1>9a, <1>10 DEF SettingsInv, Sound

(* An element of a sequence is replaced.                                   *)
LEMMA ReplaceSeq ==
  ASSUME NEW q, IsSeq(q), q # <<>>, NEW x
  PROVE  LET p == [q EXCEPT ![1] = x]
         IN  IsSeq(p) /\ Len(p) = Len(q) /\ p[1] = x /\ \A i \in 2..Len(q) : p[i] = q[i]
<1> DEFINE S == {q[i] : i \in 1..Len(q)}
           p == [q EXCEPT ![1] = x]
<1>1. q \in Seq(S)
  BY DEF IsSeq
<1> HIDE DEF S
<1>2. Len(q) \in Nat /\ Len(q) >= 1 /\ DOMAIN q = 1..Len(q)
  BY <1>1
<1>3. p \in Seq(S \cup {x}) /\ Len(p) = Len(q) /\ p[1] = x /\ \A i \in 2..Len(q) : p[i] = q[i]
  <2>1. p \in [1..Len(q) -> S \cup {x}]
    BY <1>1, <1>2
  <2>2. p[1] = x /\ \A i \in 2..Len(q) : p[i] = q[i]
    BY <1>2
  <2> HIDE DEF p
  <2>3. p \in Seq(S \cup {x}) /\ Len(p) = Len(q)
    BY <1>2, <2>1
  <2> QED BY <2>2, <2>3
<1> HIDE DEF p
<1>4. p \in Seq({p[i] : i \in 1..Len(p)})
  BY <1>3
<1> QED BY <1>3, <1>4 DEF IsSeq, p

(* The load reads a key; it clears the memory with the first.              *)
LEMMA LoadKeySettings == SettingsInv /\ LoadKey => SettingsInv'
<1> SUFFICES ASSUME SettingsInv, LoadKey PROVE SettingsInv'
  OBVIOUS
<1>1. PICK key \in Head(conf.bg).todo : conf' = ReadKey(conf, key)
  BY DEF LoadKey
<1>2. /\ conf.bg # <<>> /\ Head(conf.bg).task = "load" /\ ConfShape /\ Written
      /\ looper' = looper /\ user' = user
  BY DEF LoadKey, Task, SettingsInv
<1> DEFINE task == conf.bg[1]
           new == [task EXCEPT !.todo = @ \ {key}]
           base == IF task.todo = Keys THEN Cleared ELSE conf.sConfigs
<1>3. Len(conf.bg) \in Nat /\ Len(conf.bg) >= 1 /\ Head(conf.bg) = task
  BY <1>2, TailSeq DEF ConfShape, ConfType, UserType, TaskType, FileType, WantType
<1>4. task \in LoadType /\ key \in Keys /\ key \in task.todo
  BY <1>1, <1>2, <1>3
    DEF ConfShape, SaveType, ConfType, UserType, TaskType, FileType, WantType, LoadType
<1>5. new \in LoadType /\ new.todo = task.todo \ {key} /\ new.task = "load"
  BY <1>4 DEF LoadType
<1>6. /\ base \in [core : CoreValues \cup {"absent"}, ctrls : Serialised]
      /\ task.todo # Keys => base = conf.sConfigs
  BY <1>2 DEF ConfShape, Cleared, Serialised, ConfType, UserType, TaskType, FileType, WantType
<1>7. conf' = [conf EXCEPT !.sConfigs = [base EXCEPT ![key] = conf.sSP[key]],
                           !.bg = [conf.bg EXCEPT ![1] = new]]
  BY <1>1, <1>2, <1>3 DEF ReadKey, ConfShape, ConfType, UserType, TaskType, FileType, WantType
<1> HIDE DEF task, new, base
<1>8. /\ conf'.sConfigs = [base EXCEPT ![key] = conf.sSP[key]]
      /\ conf'.bg = [conf.bg EXCEPT ![1] = new]
      /\ conf'.ctrls = conf.ctrls /\ conf'.sInited = conf.sInited
      /\ conf'.settings = conf.settings /\ conf'.sSP = conf.sSP
      /\ conf'.file = conf.file
  BY <1>2, <1>7 DEF ConfShape, ConfType, UserType, TaskType, FileType, WantType
<1>9. /\ IsSeq(conf'.bg) /\ Len(conf'.bg) = Len(conf.bg) /\ conf'.bg[1] = new
      /\ \A i \in 2..Len(conf.bg) : conf'.bg[i] = conf.bg[i]
  <2>1. IsSeq(conf.bg) /\ conf.bg # <<>>
    BY <1>2 DEF ConfShape, ConfType, UserType, TaskType, FileType, WantType
  <2> QED BY ONLY <1>8, <2>1, ReplaceSeq
<1>10. /\ conf'.sConfigs \in [core : CoreValues \cup {"absent"}, ctrls : Serialised]
       /\ conf'.sConfigs[key] = conf.sSP[key]
       /\ \A k \in Keys \ {key} : conf'.sConfigs[k] = base[k]
  BY <1>2, <1>4, <1>6, <1>8 DEF ConfShape, Keys, ConfType, UserType, TaskType, FileType, WantType
<1>11. ConfShape'
  <2>1. \A i \in 1..Len(conf'.bg) : conf'.bg[i] \in TaskType
    <3>1. \A i \in 1..Len(conf.bg) : i = 1 \/ i \in 2..Len(conf.bg)
      BY <1>3
    <3> QED BY <1>2, <1>5, <1>9, <3>1 DEF ConfShape, ConfType, UserType, TaskType, FileType, WantType
  <2>2. (conf \in ConfType(conf.bg))'
    BY <1>2, <1>7, <1>8, <1>10 DEF ConfShape, ConfType, UserType, TaskType, FileType, WantType
  <2> QED BY <1>2, <1>9, <2>1, <2>2
    DEF ConfShape, ToldShape, ConfType, UserType, TaskType, FileType, WantType
<1>12. CASE Sound
  <2>1. ~user.loaded /\ AsFiled /\ Reading
    <3>1. ~Following /\ ~Unread /\ ~Read
      BY <1>2, <1>3, <1>4 DEF Following, Unread, Read, task
    <3> QED BY <1>12, <3>1 DEF SettingsInv
  <2>2. ASSUME NEW k \in Keys \ new.todo PROVE conf'.sConfigs[k] = conf.sSP[k]
    <3>1. CASE k = key
      BY <1>10, <3>1
    <3>2. CASE k # key
      <4>1. k \in Keys \ task.todo
        BY <1>5, <2>2, <3>2
      <4> QED BY <1>6, <1>10, <2>1, <3>2, <4>1 DEF Reading, task
    <3> QED BY <3>1, <3>2
  <2>3. NoAnswer'
    BY <1>2, <2>1 DEF Reading, NoAnswer
  <2>4. Reading'
    BY <1>5, <1>8, <1>9, <2>1, <2>2, <2>3 DEF Reading
  <2> QED BY <1>2, <1>8, <1>11, <2>1, <2>4 DEF SettingsInv, AsFiled, Written
<1> QED BY <1>2, <1>8, <1>11, <1>12 DEF SettingsInv, Sound, Written

(* The load is complete, and its message is the only answer queued.        *)
LEMMA LoadDoneSettings == SettingsInv /\ LoadDone => SettingsInv'
<1> SUFFICES ASSUME SettingsInv, LoadDone PROVE SettingsInv'
  OBVIOUS
<1> DEFINE m == Msg("LOADED")
<1>1. /\ conf.bg # <<>> /\ Head(conf.bg).task = "load" /\ Head(conf.bg).todo = {}
      /\ conf' = [conf EXCEPT !.bg = Tail(@)]
      /\ looper' = Append(looper, m) /\ user' = user /\ ConfShape /\ Written
  BY DEF LoadDone, Task, SettingsInv
<1>2. /\ IsSeq(Tail(conf.bg)) /\ Len(conf.bg) \in Nat /\ Len(conf.bg) >= 1
      /\ Head(conf.bg) = conf.bg[1] /\ Len(Tail(conf.bg)) = Len(conf.bg) - 1
      /\ \A i \in 1..Len(Tail(conf.bg)) : Tail(conf.bg)[i] = conf.bg[i + 1]
  BY <1>1, TailSeq DEF ConfShape, ConfType, UserType, TaskType, FileType, WantType
<1>3. m.what = "LOADED"
  BY DEF Msg
<1> HIDE DEF m
<1>4. /\ IsSeq(looper') /\ Len(looper) \in Nat /\ Len(looper') = Len(looper) + 1
      /\ looper'[Len(looper')] = m
      /\ \A i \in 1..Len(looper) : looper'[i] = looper[i]
  BY <1>1, AppendSeq DEF ConfShape, ConfType, UserType, TaskType, FileType, WantType
<1>5. /\ conf'.bg = Tail(conf.bg) /\ conf'.ctrls = conf.ctrls /\ conf'.sConfigs = conf.sConfigs
      /\ conf'.sInited = conf.sInited /\ conf'.settings = conf.settings /\ conf'.sSP = conf.sSP
      /\ conf'.file = conf.file
  BY <1>1 DEF ConfShape, ConfType, UserType, TaskType, FileType, WantType
<1>6. ConfShape'
  <2>1. ToldShape'
    BY <1>1, <1>3, <1>4 DEF ConfShape, ToldShape, ConfType, UserType, TaskType, FileType, WantType
  <2>2. \A i \in 1..Len(conf'.bg) : conf'.bg[i] \in TaskType
    <3>1. \A i \in 1..Len(conf'.bg) : i + 1 \in 1..Len(conf.bg) /\ conf'.bg[i] = conf.bg[i + 1]
      BY <1>2, <1>5
    <3>2. \A i \in 1..Len(conf.bg) : conf.bg[i] \in TaskType
      BY <1>1 DEF ConfShape, ConfType, UserType, TaskType, FileType, WantType
    <3> QED BY ONLY <3>1, <3>2
  <2>3. (conf \in ConfType(conf.bg))'
    BY <1>1, <1>5 DEF ConfShape, ConfType, UserType, TaskType, FileType, WantType
  <2> QED BY <1>1, <1>2, <1>4, <1>5, <2>1, <2>2, <2>3
    DEF ConfShape, ConfType, UserType, TaskType, FileType, WantType
<1>7. CASE Sound
  <2>1. ~user.loaded /\ AsFiled /\ Reading
    <3>1. ~Following /\ ~Unread /\ ~Read
      BY <1>1, <1>2 DEF Following, Unread, Read
    <3> QED BY <1>7, <3>1 DEF SettingsInv
  <2>2. conf'.sConfigs.core = conf'.sSP.core /\ conf'.sConfigs.ctrls = conf'.sSP.ctrls
    <3>1. \A k \in Keys : conf.sConfigs[k] = conf.sSP[k]
      BY <1>1, <1>2, <2>1 DEF Reading
    <3>2. /\ conf.sConfigs["core"] = conf.sConfigs.core /\ conf.sConfigs["ctrls"] = conf.sConfigs.ctrls
          /\ conf.sSP["core"] = conf.sSP.core /\ conf.sSP["ctrls"] = conf.sSP.ctrls
      OBVIOUS
    <3> QED BY <1>5, <3>1, <3>2 DEF Keys
  <2>3. conf'.bg = <<>>
    <3>1. Len(conf'.bg) = 0
      BY <1>2, <1>5, <2>1 DEF Reading
    <3>2. \A S : \A q \in Seq(S) : Len(q) = 0 => q = <<>>
      OBVIOUS
    <3> QED BY <1>2, <1>5, <3>1, <3>2 DEF IsSeq
  <2>4. OneLoaded'
    <3>1. Len(looper') \in 1..Len(looper') /\ looper'[Len(looper')].what = "LOADED"
      BY <1>3, <1>4
    <3>2. \A j \in 1..Len(looper') : j # Len(looper') => looper'[j].what \notin Answers
      BY <1>4, <2>1 DEF Reading, NoAnswer
    <3> QED BY <3>1, <3>2 DEF OneLoaded
  <2>5. Read'
    BY <1>5, <2>1, <2>2, <2>3, <2>4 DEF Read, Reading
  <2> QED BY <1>1, <1>5, <1>6, <2>1, <2>5 DEF SettingsInv, AsFiled, Written
<1> QED BY <1>1, <1>5, <1>6, <1>7 DEF SettingsInv, Sound, Written

(* A step that leaves the settings alone, save that init may come first.   *)
LEMMA AsideSettings ==
  ASSUME SettingsInv, conf' = conf \/ conf' = init(conf), user' = user,
         \/ looper' = looper
         \/ \E m : looper' = Append(looper, m) /\ m.what \notin Answers
         \/ \E what : Take(what) /\ what \notin Answers
  PROVE  SettingsInv'
<1>1. AnswersKept
  BY OtherMessages DEF SettingsInv, ConfShape, ConfType, UserType, TaskType, FileType, WantType
<1> QED BY <1>1, KeepSettings

LEMMA SettingsNext == SettingsInv /\ [Next]_vars => SettingsInv'
<1> SUFFICES ASSUME SettingsInv, [Next]_vars PROVE SettingsInv'
  OBVIOUS
<1>1. Answers = {"LOADED", "SAVED"} /\ \A what : Msg(what).what = what
  BY DEF Answers, Msg
<1>2. CASE AppInit
  BY <1>2, AsideSettings DEF AppInit
<1>3. ASSUME NEW what \in Intents, NEW p, Ask(what, p) PROVE SettingsInv'
  <2>1. Msg(what).what \notin Answers
    BY <1>1 DEF Intents
  <2> QED BY <1>3, <2>1, AsideSettings DEF Ask
<1>4. CASE startVpn \/ stopVpn
  BY <1>3, <1>4 DEF startVpn, stopVpn, Intents
<1>5. ASSUME NEW v \in Values \cup {""}, AppSetConfig(v) PROVE SettingsInv'
  BY <1>5, SetConfigSettings DEF CoreValues
<1>6. ASSUME NEW t \in Targets, NEW k \in Ctrls \cup {0}, AppUpdateCtrl(t, k) PROVE SettingsInv'
  BY <1>6, UpdateCtrlSettings
<1>7. CASE onStart
  <2>1. "START" \notin Answers
    BY <1>1
  <2> QED BY <1>7, <2>1, AsideSettings DEF onStart
<1>8. CASE onStop
  <2>1. "STOP" \notin Answers
    BY <1>1
  <2> QED BY <1>8, <2>1, AsideSettings DEF onStop
<1>9. CASE TestRouter \/ UseRouter \/ CloseTun
  BY <1>9, AsideSettings DEF TestRouter, UseRouter, CloseTun
<1>10. ASSUME NEW what \in Notices, HandleNotice(what) PROVE SettingsInv'
  <2>1. what \notin Answers
    BY <1>1 DEF Notices
  <2>2. Take(what) /\ conf' = conf /\ user' = user
    BY <1>10 DEF HandleNotice
  <2> QED BY <2>1, <2>2, AsideSettings
<1>11. CASE ConfigLoaded \/ ConfigSaved
  BY <1>11, LoadedSettings, SavedSettings
<1>12. CASE Background
  BY <1>12, LoadKeySettings, LoadDoneSettings, CommitSettings DEF Background
<1>13. ASSUME NEW t \in Threads, VpnThread(t) PROVE SettingsInv'
  <2>1. CASE GetFd(t)
    <3>1. CASE Reboot
      BY <3>1, RebootSettings
    <3>2. CASE ~Reboot
      <4>1. /\ conf' = conf /\ user' = user
            /\ looper' = looper \/ looper' = Append(looper, Msg("VPN_START"))
        BY <2>1, <3>2 DEF GetFd, Announce
      <4> QED BY <1>1, <4>1, AsideSettings
    <3> QED BY <3>1, <3>2
  <2>2. CASE StartReturns(t)
    <3>1. /\ conf' = conf /\ user' = user
          /\ looper' = looper \/ looper' = Append(looper, Msg("VPN_STOP"))
      BY <2>2 DEF StartReturns, Announce
    <3> QED BY <1>1, <3>1, AsideSettings
  <2>3. CASE ~GetFd(t) /\ ~StartReturns(t)
    <3>1. conf' = conf /\ user' = user /\ looper' = looper
      BY <1>13, <2>3 DEF VpnThread, Establish, CheckFd, EnterStart, RouterInit, LoopEnds,
           DeleteRouter, ClearRouter, EndThread
    <3> QED BY <3>1, AsideSettings
  <2> QED BY <2>1, <2>2, <2>3
<1>14. CASE Kill
  BY <1>14, RebootSettings DEF Kill
<1>15. CASE UNCHANGED vars
  BY <1>15, AsideSettings DEF vars
<1>16. CASE setListener \/ LoseListener \/ Destroy
  BY <1>16, AsideSettings DEF setListener, LoseListener, Destroy
<1> QED BY <1>2, <1>4, <1>5, <1>6, <1>7, <1>8, <1>9, <1>10, <1>11, <1>12, <1>13, <1>14, <1>15, <1>16
        DEF Next, MainThread

LEMMA SettingsInit == Init => SettingsInv
<1> SUFFICES ASSUME Init PROVE Fresh
  BY FreshSettings
<1>1. Unset \in FileType /\ Unset.core = "" /\ Unset.ctrls = {}
  BY DEF Unset, CoreValues, Serialised, FileType
<1>2. /\ conf = Boot(Unset).conf /\ looper = <<>>
      /\ user = [want |-> [core |-> "", ctrls |-> NoCtrls],
                 loaded |-> FALSE, early |-> FALSE, lost |-> FALSE, failed |-> FALSE]
  BY DEF Init
<1>3. NoCtrls \in Strategies
  BY DEF NoCtrls, Strategies, Numbers
<1>4. user \in UserType /\ ~user.loaded /\ user.want.core = "" /\ user.want.ctrls = NoCtrls
  BY <1>2, <1>3 DEF UserType, WantType, CoreValues
<1>5. Agrees({}, NoCtrls)
  BY DEF Agrees, Reads, NoCtrls, Plain
<1> QED BY <1>1, <1>2, <1>4, <1>5 DEF Fresh, FreshFrom

(* When the background thread and its answers are done, the memory, the    *)
(* preferences, their file and the native settings agree with what the     *)
(* user set last, over any number of processes, for the targets the file   *)
(* can give back: unless something was changed before the load was         *)
(* complete or lost with a process, but for a file behind a failed commit  *)
(* and an empty setting on the native side.                                *)
THEOREM ServiceSettingsAgree == Spec => []SettingsAgree
<1>1. SettingsInv => SettingsAgree
  <2> SUFFICES ASSUME SettingsInv, conf.bg = <<>>, user.loaded, Sound,
                      \A i \in 1..Len(looper) : looper[i].what \notin {"LOADED", "SAVED"}
               PROVE  /\ conf.sConfigs.core = user.want.core /\ conf.sSP.core = user.want.core
                      /\ user.want.core # "" => conf.settings = user.want.core
                      /\ \A t \in Plain :
                           /\ conf.ctrls[t] = user.want.ctrls[t]
                           /\ \A ctrls \in parseCtrls(conf.sSP.ctrls) : ctrls[t] = user.want.ctrls[t]
                      /\ ~user.failed => conf.file = conf.sSP
    BY DEF SettingsAgree, Sound
  <2>1. Following
    BY DEF SettingsInv
  <2>2. NoneTold
    BY DEF NoneTold, Tells
  <2>3. NoSave("core") /\ NoSave("ctrls")
    <3>1. 1..Len(conf.bg) = {}
      OBVIOUS
    <3> QED BY <3>1 DEF NoSave
  <2>4. \A ctrls \in parseCtrls(conf.sSP.ctrls) : \A t \in Plain : ctrls[t] = user.want.ctrls[t]
    BY <2>1, <2>3, ReadBack DEF Following, FileFollows
  <2>5. ~user.failed => conf.file = conf.sSP
    BY DEF SettingsInv, Written
  <2> QED BY <2>1, <2>2, <2>3, <2>4, <2>5 DEF Following, FileFollows, NativeFollows
<1> QED BY <1>1, SettingsInit, SettingsNext, PTL DEF Spec
=============================================================================
