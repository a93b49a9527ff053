------------------------- MODULE EpollReactorProofs -------------------------
(* The reactor's safety, for every set of handlers, descriptors and stubs: *)
(* who points to a stub, and who is called.                                *)
EXTENDS EpollReactor, TLAPS

-----------------------------------------------------------------------------
(* The inductive invariant                                                 *)

(* The reactor's and the kernel's maps are partial functions.              *)
Partial(S) == UNION {[D -> S] : D \in SUBSET Fds}

RegType ==
  [stubs          : [Stubs -> StubType],
   mFd2Events     : Partial(Stubs),
   mDelEventStubs : SUBSET Stubs,
   interest       : Partial(ReportType),
   tun            : TunStates]

ThreadType ==
  [at : At, batch : SUBSET ReportType, cur : ReportType, copy : SUBSET Stubs,
   call : [listener : Listeners \cup {"NULL"},
           what : {"none", "in", "out", "err", "check"}]]

Typed ==
  /\ reg \in RegType
  /\ ready \in [Fds -> SUBSET Conditions]
  /\ cmd \in Nat /\ stopped \in Nat
  /\ mSocket \in [Handlers -> Sockets \cup {Tun, NoFd}]
  /\ unborn \subseteq Handlers
  /\ mWorking \in BOOLEAN
  /\ thread \in ThreadType

(* A stub is registered for its own descriptor, or waits for its deletion  *)
(* without a listener, or is free.                                         *)
Kept(r) ==
  /\ \A fd \in DOMAIN r.mFd2Events :
       LET st == r.stubs[r.mFd2Events[fd]]
       IN  st.live /\ st.fd = fd /\ st.listener # "NULL"
  /\ \A s \in r.mDelEventStubs : r.stubs[s].live /\ r.stubs[s].listener = "NULL"
  /\ \A s \in Stubs : r.stubs[s].live =>
       s \in r.mDelEventStubs \/ \E fd \in DOMAIN r.mFd2Events : r.mFd2Events[fd] = s

(* The number the kernel has forgotten: the tun device's, once closed.     *)
Forgotten(r) == IF r.tun = "open" THEN {} ELSE {Tun}

(* The kernel has what the reactor has, but for that number.               *)
Agrees(r) ==
  /\ DOMAIN r.interest = DOMAIN r.mFd2Events \ Forgotten(r)
  /\ \A fd \in DOMAIN r.interest :
       /\ r.interest[fd].ptr = r.mFd2Events[fd]
       /\ r.interest[fd].events = convertEvent(r.stubs[r.mFd2Events[fd]].events)

(* The listener of a descriptor is the one that has it; the tun device's   *)
(* number is anyone's once a socket has had it.                            *)
Owned(r, sockets) ==
  \A fd \in DOMAIN r.mFd2Events :
    LET l == r.stubs[r.mFd2Events[fd]].listener
    IN  /\ fd = Cmd => l = "reactor"
        /\ fd = Tun => l = "router" \/ r.tun \in {"taken", "freed"}
        /\ fd \in Sockets => l \in Handlers /\ sockets[l] = fd

(* Every open socket is registered, by one handler, and always for errors, *)
(* so that pausing never unregisters it.                                   *)
Watched(r, sockets) ==
  /\ \A h \in Handlers : sockets[h] # NoFd =>
       /\ sockets[h] \in DOMAIN r.mFd2Events
       /\ sockets[h] = Tun => r.tun = "taken"
       /\ \A k \in Handlers : sockets[k] = sockets[h] => k = h
  /\ \A fd \in DOMAIN r.mFd2Events :
       LET events == r.stubs[r.mFd2Events[fd]].events
       IN  /\ fd \in Sockets => "ERROR" \in events
           /\ fd = Tun /\ r.tun = "open" => "READ" \in events

Good(r, sockets) ==
  /\ r \in RegType /\ Kept(r) /\ Agrees(r) /\ Owned(r, sockets) /\ Watched(r, sockets)

(* The pointers the thread holds are to live stubs, and it holds none when *)
(* it cleans up.                                                           *)
Held ==
  /\ \A e \in thread.batch : reg.stubs[e.ptr].live
  /\ \A s \in thread.copy : reg.stubs[s].live
  /\ thread.cur.events # {} => reg.stubs[thread.cur.ptr].live
  /\ thread.at # "batch" => thread.batch = {} /\ thread.cur.events = {}
  /\ thread.at # "check" => thread.copy = {}
  /\ thread.call.listener # "NULL" => thread.at \in {"batch", "check"}

(* The loop of a Router whose tun device was closed before Router::start:  *)
(* only stop() reaches it.                                                 *)
Deaf ==
  /\ DOMAIN reg.mFd2Events = {Cmd} /\ reg.mDelEventStubs = {}
  /\ thread.call.listener \in {"NULL", "reactor"}

(* What is registered while the loop runs, and that nothing waits for its  *)
(* deletion while it waits.                                                *)
Phases ==
  /\ thread.at = "idle" => /\ DOMAIN reg.mFd2Events = {Cmd}
                           /\ reg.mDelEventStubs = {}
                           /\ reg.tun \in {"open", "closed"}
  /\ thread.at \in {"wait", "batch", "check", "ended"} => Tun \in DOMAIN reg.mFd2Events \/ Deaf
  /\ thread.at = "wait" => reg.mDelEventStubs = {}

ReactorInv ==
  /\ Typed /\ Good(reg, mSocket) /\ Held /\ Phases
  /\ \A h \in unborn : mSocket[h] = NoFd

-----------------------------------------------------------------------------
(* Partial functions                                                       *)

(* Put adds or replaces one entry of the kernel's map.                     *)
LEMMA PutReport ==
  ASSUME NEW f \in Partial(ReportType), NEW a \in Fds, NEW b \in ReportType
  PROVE  /\ Put(f, a, b) \in Partial(ReportType)
         /\ DOMAIN Put(f, a, b) = DOMAIN f \cup {a}
         /\ Put(f, a, b)[a] = b
         /\ \A i \in DOMAIN f : i # a => Put(f, a, b)[i] = f[i]
<1>1. PICK D \in SUBSET Fds : f \in [D -> ReportType]
  BY DEF Partial
<1>2. Put(f, a, b) \in [D \cup {a} -> ReportType] /\ D \cup {a} \in SUBSET Fds
  BY <1>1 DEF Put
<1> QED BY <1>1, <1>2 DEF Put, Partial

(* Without takes one entry of it away.                                     *)
LEMMA WithoutReport ==
  ASSUME NEW f \in Partial(ReportType), NEW a
  PROVE  /\ Without(f, a) \in Partial(ReportType)
         /\ DOMAIN Without(f, a) = DOMAIN f \ {a}
         /\ \A i \in DOMAIN f \ {a} : Without(f, a)[i] = f[i]
<1>1. PICK D \in SUBSET Fds : f \in [D -> ReportType]
  BY DEF Partial
<1>2. Without(f, a) \in [D \ {a} -> ReportType] /\ D \ {a} \in SUBSET Fds
  BY <1>1 DEF Without, Restrict
<1> QED BY <1>1, <1>2 DEF Without, Restrict, Partial

(* Put adds or replaces one entry of the reactor's map.                    *)
LEMMA PutStub ==
  ASSUME NEW f \in Partial(Stubs), NEW a \in Fds, NEW b \in Stubs
  PROVE  /\ Put(f, a, b) \in Partial(Stubs)
         /\ DOMAIN Put(f, a, b) = DOMAIN f \cup {a}
         /\ Put(f, a, b)[a] = b
         /\ \A i \in DOMAIN f : i # a => Put(f, a, b)[i] = f[i]
<1>1. PICK D \in SUBSET Fds : f \in [D -> Stubs]
  BY DEF Partial
<1>2. Put(f, a, b) \in [D \cup {a} -> Stubs] /\ D \cup {a} \in SUBSET Fds
  BY <1>1 DEF Put
<1> QED BY <1>1, <1>2 DEF Put, Partial

(* Without takes one entry of it away.                                     *)
LEMMA WithoutStub ==
  ASSUME NEW f \in Partial(Stubs), NEW a
  PROVE  /\ Without(f, a) \in Partial(Stubs)
         /\ DOMAIN Without(f, a) = DOMAIN f \ {a}
         /\ \A i \in DOMAIN f \ {a} : Without(f, a)[i] = f[i]
<1>1. PICK D \in SUBSET Fds : f \in [D -> Stubs]
  BY DEF Partial
<1>2. Without(f, a) \in [D \ {a} -> Stubs] /\ D \ {a} \in SUBSET Fds
  BY <1>1 DEF Without, Restrict
<1> QED BY <1>1, <1>2 DEF Without, Restrict, Partial

(* An empty map has no entry.                                              *)
LEMMA NoEntry ==
  <<>> \in Partial(Stubs) /\ <<>> \in Partial(ReportType) /\ DOMAIN <<>> = {}
<1>1. <<>> \in [{} -> Stubs] /\ <<>> \in [{} -> ReportType] /\ DOMAIN <<>> = {}
  OBVIOUS
<1>2. {} \in SUBSET Fds
  OBVIOUS
<1> QED BY <1>1, <1>2 DEF Partial

(* Delete frees the dead and leaves the others alone.                      *)
LEMMA DeleteStubs ==
  ASSUME NEW stubs \in [Stubs -> StubType], NEW dead
  PROVE  /\ Delete(stubs, dead) \in [Stubs -> StubType]
         /\ \A s \in Stubs \ dead : Delete(stubs, dead)[s] = stubs[s]
         /\ \A s \in Stubs \cap dead : ~Delete(stubs, dead)[s].live
<1>1. Blank \in StubType /\ ~Blank.live
  BY DEF Blank, StubType, Fds
<1> QED BY <1>1 DEF Delete

(* What a partial function gives.                                          *)
LEMMA Entries ==
  ASSUME NEW S, NEW f \in Partial(S)
  PROVE  DOMAIN f \subseteq Fds /\ \A i \in DOMAIN f : f[i] \in S
BY DEF Partial

-----------------------------------------------------------------------------
(* The registrations                                                       *)

(* Changing the stub registered for a descriptor, in the reactor and, when *)
(* it watches it, in the kernel.                                           *)
Replace(r, fd, st) ==
  [r EXCEPT !.stubs = [r.stubs EXCEPT ![r.mFd2Events[fd]] = st],
            !.interest = ctlModify(r.interest, fd, r.mFd2Events[fd], st.events)]

(* It keeps the registrations good.                                        *)
LEMMA ReplaceGood ==
  ASSUME NEW r, NEW sockets, Good(r, sockets),
         NEW fd \in DOMAIN r.mFd2Events, NEW st \in StubType,
         st.live, st.fd = fd,
         \/ st.listener = r.stubs[r.mFd2Events[fd]].listener
         \/ fd \in Sockets /\ st.listener \in Handlers /\ sockets[st.listener] = fd
         \/ fd = Tun /\ st.listener # "NULL" /\ r.tun \in {"taken", "freed"}
         \/ fd = Tun /\ st.listener = "router",
         fd \in Sockets => "ERROR" \in st.events,
         fd = Tun /\ r.tun = "open" => "READ" \in st.events
  PROVE  LET v == Replace(r, fd, st)
         IN  /\ Good(v, sockets)
             /\ v.mFd2Events = r.mFd2Events /\ v.tun = r.tun
             /\ v.mDelEventStubs = r.mDelEventStubs
             /\ \A s \in Stubs : v.stubs[s].live <=> r.stubs[s].live
<1> DEFINE v == Replace(r, fd, st)
           s == r.mFd2Events[fd]
           rep == [ptr |-> s, events |-> convertEvent(st.events)]
<1>1. r \in RegType /\ fd \in Fds /\ s \in Stubs
  BY Entries DEF Good, RegType
<1>2. r.stubs[s] \in StubType /\ r.stubs[s].live /\ r.stubs[s].listener # "NULL"
  BY <1>1 DEF RegType, Good, Kept
<1>3. rep \in ReportType /\ rep.ptr = s /\ rep.events = convertEvent(st.events)
  BY <1>1 DEF ReportType, convertEvent, Conditions
<1> HIDE DEF rep
<1>4. /\ v.stubs = [r.stubs EXCEPT ![s] = st]
      /\ v.interest = IF fd \in DOMAIN r.interest THEN Put(r.interest, fd, rep) ELSE r.interest
      /\ v.mFd2Events = r.mFd2Events /\ v.mDelEventStubs = r.mDelEventStubs /\ v.tun = r.tun
  BY <1>1 DEF RegType, rep, Replace, ctlModify
<1> HIDE DEF s
<1>5. r.interest \in Partial(ReportType)
  BY <1>1 DEF RegType
<1>6. /\ v.interest \in Partial(ReportType)
      /\ DOMAIN v.interest = DOMAIN r.interest
      /\ fd \in DOMAIN r.interest => v.interest[fd] = rep
      /\ \A i \in DOMAIN r.interest : i # fd => v.interest[i] = r.interest[i]
  <2> DEFINE p == Put(r.interest, fd, rep)
  <2>1. /\ p \in Partial(ReportType)
        /\ DOMAIN p = DOMAIN r.interest \cup {fd} /\ p[fd] = rep
        /\ \A i \in DOMAIN r.interest : i # fd => p[i] = r.interest[i]
    <3>1. fd \in Fds /\ rep \in ReportType
      BY <1>1, <1>3
    <3> QED BY ONLY <1>5, <3>1, PutReport DEF p
  <2>2. v.interest = IF fd \in DOMAIN r.interest THEN p ELSE r.interest
    BY <1>4
  <2> HIDE DEF p
  <2>3. CASE fd \in DOMAIN r.interest
    BY <2>1, <2>2, <2>3
  <2>4. CASE fd \notin DOMAIN r.interest
    BY <1>5, <2>2, <2>4
  <2> QED BY <2>3, <2>4
<1>7. /\ v.stubs \in [Stubs -> StubType] /\ v.stubs[s] = st
      /\ \A t \in Stubs : t # s => v.stubs[t] = r.stubs[t]
  BY <1>1, <1>4 DEF RegType
<1>8. v \in RegType
  BY <1>1, <1>4, <1>6, <1>7 DEF RegType, Replace
<1> HIDE DEF v
<1>9. \A i \in DOMAIN r.mFd2Events : r.mFd2Events[i] \in Stubs /\ (i # fd => r.mFd2Events[i] # s)
  BY <1>1, Entries DEF Good, Kept, RegType, s
<1>10. \A t \in Stubs : v.stubs[t].live <=> r.stubs[t].live
  BY <1>2, <1>7
<1>11. st.listener # "NULL"
  BY <1>2, ReactorAssumption DEF s
<1>12. s \notin r.mDelEventStubs
  BY <1>2 DEF Good, Kept
<1>13. Kept(v)
  BY <1>1, <1>2, <1>4, <1>7, <1>9, <1>11, <1>12 DEF Good, Kept, RegType, s
<1>14. Agrees(v)
  <2>1. DOMAIN v.interest = DOMAIN v.mFd2Events \ Forgotten(v)
    BY <1>4, <1>6 DEF Good, Agrees, Forgotten
  <2>2. ASSUME NEW i \in DOMAIN v.interest
        PROVE  /\ v.interest[i].ptr = v.mFd2Events[i]
               /\ v.interest[i].events = convertEvent(v.stubs[v.mFd2Events[i]].events)
    <3>1. CASE i = fd
      BY <3>1, <1>3, <1>4, <1>6, <1>7 DEF s
    <3>2. CASE i # fd
      <4>1. i \in DOMAIN r.mFd2Events /\ i \in DOMAIN r.interest
        BY <1>6 DEF Good, Agrees
      <4>2. v.stubs[r.mFd2Events[i]] = r.stubs[r.mFd2Events[i]]
        BY <4>1, <3>2, <1>7, <1>9
      <4> QED BY <4>1, <4>2, <3>2, <1>4, <1>6 DEF Good, Agrees
    <3> QED BY <3>1, <3>2
  <2> QED BY <2>1, <2>2 DEF Agrees
<1>15. Owned(v, sockets)
  BY <1>4, <1>7, <1>9, ReactorAssumption DEF Good, Owned, Cmd, Tun, s
<1>16. Watched(v, sockets)
  BY <1>4, <1>7, <1>9 DEF Good, Watched, s
<1> QED BY <1>4, <1>8, <1>10, <1>13, <1>14, <1>15, <1>16 DEF Good, v

(* addEvent for a registered descriptor, by its owner.                     *)
LEMMA ModifyGood ==
  ASSUME NEW r, NEW sockets, Good(r, sockets),
         NEW fd \in DOMAIN r.mFd2Events, NEW events \in SUBSET Events, NEW l \in Listeners,
         \/ l = r.stubs[r.mFd2Events[fd]].listener
         \/ fd \in Sockets /\ l \in Handlers /\ sockets[l] = fd
         \/ fd = Tun /\ r.tun \in {"taken", "freed"}
         \/ fd = Tun /\ l = "router"
  PROVE  LET v == addEvent(r, fd, events, l)
         IN  /\ Good(v, sockets)
             /\ v.mFd2Events = r.mFd2Events /\ v.tun = r.tun
             /\ v.mDelEventStubs = r.mDelEventStubs
             /\ \A s \in Stubs : v.stubs[s].live <=> r.stubs[s].live
<1> DEFINE s == r.mFd2Events[fd]
           st == [r.stubs[s] EXCEPT !.events = @ \cup events, !.listener = l]
           v == modify(r, fd, events, l)
<1>1. r \in RegType /\ fd \in Fds /\ s \in Stubs
  BY Entries DEF Good, RegType
<1>2. r.stubs[s] \in StubType
  BY <1>1 DEF RegType
<1>3. /\ st \in StubType /\ st.live = r.stubs[s].live /\ st.fd = r.stubs[s].fd
      /\ st.listener = l /\ st.events = r.stubs[s].events \cup events
  BY <1>2 DEF StubType
<1>4. v = Replace(r, fd, st)
  BY <1>1, <1>2 DEF modify, RegType, StubType, Replace
<1>5. addEvent(r, fd, events, l) = v
  BY DEF addEvent
<1> HIDE DEF v, st
<1>6. st.live /\ st.fd = fd
  BY <1>3 DEF Good, Kept
<1>7. /\ fd \in Sockets => "ERROR" \in st.events
      /\ fd = Tun /\ r.tun = "open" => "READ" \in st.events
  BY <1>3 DEF Good, Watched
<1>8. /\ Good(v, sockets)
      /\ v.mFd2Events = r.mFd2Events /\ v.tun = r.tun
      /\ v.mDelEventStubs = r.mDelEventStubs
      /\ \A t \in Stubs : v.stubs[t].live <=> r.stubs[t].live
  <2>1. l # "NULL"
    BY ReactorAssumption DEF Listeners
  <2> QED BY <1>3, <1>4, <1>6, <1>7, <2>1, ReplaceGood
<1> QED BY <1>5, <1>8

(* delEvent of events that are not all of those the stub has, or for a     *)
(* number the kernel has forgotten.                                        *)
LEMMA DelPartGood ==
  ASSUME NEW r, NEW sockets, Good(r, sockets),
         NEW fd \in DOMAIN r.mFd2Events, NEW events \in SUBSET Events,
         fd \in Sockets \cup {Tun},
         fd \in Sockets => "ERROR" \notin events,
         fd = Tun /\ r.tun = "open" => "READ" \notin events
  PROVE  LET v == delEvent(r, fd, events)
         IN  /\ Good(v, sockets)
             /\ v.mFd2Events = r.mFd2Events /\ v.tun = r.tun
             /\ v.mDelEventStubs = r.mDelEventStubs
             /\ \A s \in Stubs : v.stubs[s].live <=> r.stubs[s].live
<1> DEFINE s == r.mFd2Events[fd]
           st == [r.stubs[s] EXCEPT !.events = @ \ events]
           w == [r EXCEPT !.stubs[s].events = @ \ events]
           v == delEvent(r, fd, events)
<1>1. r \in RegType /\ fd \in Fds /\ s \in Stubs
  BY Entries DEF Good, RegType
<1>2. r.stubs[s] \in StubType
  BY <1>1 DEF RegType
<1>3. /\ st \in StubType /\ st.live = r.stubs[s].live /\ st.fd = r.stubs[s].fd
      /\ st.listener = r.stubs[s].listener /\ st.events = r.stubs[s].events \ events
  BY <1>2 DEF StubType
<1>4. st.live /\ st.fd = fd
  BY <1>3 DEF Good, Kept
<1>5. /\ fd \in Sockets => "ERROR" \in st.events
      /\ fd = Tun /\ r.tun = "open" => "READ" \in st.events
  BY <1>3 DEF Good, Watched
<1>6. w = [r EXCEPT !.stubs = [r.stubs EXCEPT ![s] = st]] /\ w.stubs[s].events = st.events
  BY <1>1, <1>2 DEF RegType, StubType
<1>7. v = [w EXCEPT !.interest = ctlModify(@, fd, s, st.events)]
  <2>1. fd \in DOMAIN r.interest => st.events # {}
    BY <1>5 DEF Good, Agrees, Forgotten
  <2> QED BY <1>6, <2>1 DEF delEvent
<1>8. v = Replace(r, fd, st)
  BY <1>1, <1>6, <1>7 DEF RegType, Replace
<1> HIDE DEF v, st, w
<1>9. /\ Good(v, sockets)
      /\ v.mFd2Events = r.mFd2Events /\ v.tun = r.tun
      /\ v.mDelEventStubs = r.mDelEventStubs
      /\ \A t \in Stubs : v.stubs[t].live <=> r.stubs[t].live
  BY <1>3, <1>4, <1>5, <1>8, ReplaceGood
<1> QED BY <1>9 DEF v

(* addEvent for a descriptor nobody has registered: it gets a free stub.   *)
LEMMA RegisterGood ==
  ASSUME NEW r, NEW old, NEW new, Good(r, old), FreeStubs(r) # {},
         NEW fd \in Fds, fd \notin DOMAIN r.mFd2Events,
         NEW events \in SUBSET Events, NEW l \in Listeners,
         fd = Cmd => l = "reactor",
         fd = Tun => r.tun = "open" /\ l = "router" /\ "READ" \in events,
         fd \in Sockets => l \in Handlers /\ new[l] = fd /\ "ERROR" \in events,
         \A h \in Handlers : new[h] = old[h] \/ (h = l /\ old[h] = NoFd /\ new[h] = fd)
  PROVE  LET v == addEvent(r, fd, events, l)
         IN  /\ Good(v, new)
             /\ DOMAIN v.mFd2Events = DOMAIN r.mFd2Events \cup {fd}
             /\ v.mDelEventStubs = r.mDelEventStubs /\ v.tun = r.tun
             /\ \A s \in Stubs : r.stubs[s].live => v.stubs[s].live
<1> DEFINE v == addEvent(r, fd, events, l)
           s == CHOOSE c \in FreeStubs(r) : TRUE
           st == [live |-> TRUE, fd |-> fd, events |-> events, listener |-> l]
           rep == [ptr |-> s, events |-> convertEvent(events)]
<1>1. r \in RegType /\ fd \notin DOMAIN r.interest
  BY DEF Good, Agrees
<1>2. s \in Stubs /\ ~r.stubs[s].live
  BY DEF FreeStubs
<1>3. st \in StubType /\ st.live /\ st.fd = fd /\ st.events = events /\ st.listener = l
  BY DEF StubType
<1>4. rep \in ReportType /\ rep.ptr = s /\ rep.events = convertEvent(events)
  BY <1>2 DEF ReportType, convertEvent, Conditions
<1>5. v = [r EXCEPT !.stubs = [r.stubs EXCEPT ![s] = st],
                    !.mFd2Events = Put(r.mFd2Events, fd, s),
                    !.interest = Put(r.interest, fd, rep)]
  BY <1>1 DEF addEvent, register, TunGone
<1> HIDE DEF v, s, st, rep
<1>6. /\ v.stubs = [r.stubs EXCEPT ![s] = st] /\ v.interest = Put(r.interest, fd, rep)
      /\ v.mFd2Events = Put(r.mFd2Events, fd, s) /\ v.mDelEventStubs = r.mDelEventStubs
      /\ v.tun = r.tun
  BY <1>1, <1>5 DEF RegType
<1>7. r.mFd2Events \in Partial(Stubs) /\ r.interest \in Partial(ReportType)
  BY <1>1 DEF RegType
<1>8. /\ v.mFd2Events \in Partial(Stubs)
      /\ DOMAIN v.mFd2Events = DOMAIN r.mFd2Events \cup {fd} /\ v.mFd2Events[fd] = s
      /\ \A i \in DOMAIN r.mFd2Events : i # fd => v.mFd2Events[i] = r.mFd2Events[i]
  <2>1. /\ Put(r.mFd2Events, fd, s) \in Partial(Stubs)
        /\ DOMAIN Put(r.mFd2Events, fd, s) = DOMAIN r.mFd2Events \cup {fd}
        /\ Put(r.mFd2Events, fd, s)[fd] = s
        /\ \A i \in DOMAIN r.mFd2Events : i # fd => Put(r.mFd2Events, fd, s)[i] = r.mFd2Events[i]
    BY ONLY <1>2, <1>7, fd \in Fds, PutStub
  <2> QED BY <1>6, <2>1
<1>9. /\ v.interest \in Partial(ReportType)
      /\ DOMAIN v.interest = DOMAIN r.interest \cup {fd} /\ v.interest[fd] = rep
      /\ \A i \in DOMAIN r.interest : i # fd => v.interest[i] = r.interest[i]
  <2>1. /\ Put(r.interest, fd, rep) \in Partial(ReportType)
        /\ DOMAIN Put(r.interest, fd, rep) = DOMAIN r.interest \cup {fd}
        /\ Put(r.interest, fd, rep)[fd] = rep
        /\ \A i \in DOMAIN r.interest : i # fd => Put(r.interest, fd, rep)[i] = r.interest[i]
    BY ONLY <1>4, <1>7, fd \in Fds, PutReport
  <2> QED BY <1>6, <2>1
<1>10. /\ v.stubs \in [Stubs -> StubType] /\ v.stubs[s] = st
       /\ \A t \in Stubs : t # s => v.stubs[t] = r.stubs[t]
  BY <1>1, <1>2, <1>3, <1>6 DEF RegType
<1>11. v \in RegType
  BY <1>1, <1>5, <1>6, <1>8, <1>9, <1>10 DEF RegType
<1>12. \A i \in DOMAIN r.mFd2Events :
         r.mFd2Events[i] \in Stubs /\ r.mFd2Events[i] # s /\ i # fd /\ v.mFd2Events[i] = r.mFd2Events[i]
           /\ v.stubs[v.mFd2Events[i]] = r.stubs[r.mFd2Events[i]]
  BY <1>2, <1>7, <1>8, <1>10, Entries DEF Good, Kept
<1>13. l # "NULL"
  BY ReactorAssumption DEF Listeners
<1>14. s \notin r.mDelEventStubs /\ r.mDelEventStubs \subseteq Stubs
  BY <1>1, <1>2 DEF Good, Kept, RegType
<1>15. Kept(v)
  BY <1>3, <1>6, <1>8, <1>10, <1>12, <1>13, <1>14 DEF Good, Kept
<1>16. Agrees(v)
  <2>1. DOMAIN v.interest = DOMAIN v.mFd2Events \ Forgotten(v)
    BY <1>6, <1>8, <1>9 DEF Good, Agrees, Forgotten
  <2> QED BY <2>1, <1>3, <1>4, <1>8, <1>9, <1>10, <1>12 DEF Good, Agrees
<1>17. NoFd \notin Fds /\ Cmd # Tun /\ Cmd \notin Sockets /\ Tun \notin Sockets
  BY ReactorAssumption DEF NoFd, Fds, Cmd, Tun
<1>18. Owned(v, new)
  <2>1. ASSUME NEW i \in DOMAIN r.mFd2Events, i \in Sockets
        PROVE  r.stubs[r.mFd2Events[i]].listener \in Handlers /\ new[r.stubs[r.mFd2Events[i]].listener] = i
    BY <2>1, <1>17 DEF Good, Owned, Fds
  <2> QED BY <1>3, <1>6, <1>8, <1>10, <1>12, <1>17, <2>1 DEF Good, Owned
<1>19. Watched(v, new)
  <2>1. ASSUME NEW h \in Handlers, new[h] # NoFd
        PROVE  /\ new[h] \in DOMAIN v.mFd2Events
               /\ new[h] = Tun => v.tun = "taken"
               /\ \A k \in Handlers : new[k] = new[h] => k = h
    BY <2>1, <1>6, <1>8, <1>17, ReactorAssumption DEF Good, Watched
  <2> QED BY <1>3, <1>6, <1>8, <1>10, <1>12, <1>17, <2>1 DEF Good, Watched
<1>20. \A t \in Stubs : r.stubs[t].live => v.stubs[t].live
  BY <1>2, <1>10
<1> QED BY <1>6, <1>8, <1>11, <1>15, <1>16, <1>18, <1>19, <1>20 DEF Good, v

(* delEvent of every event: the stub goes to the list of those to delete.  *)
LEMMA RemoveGood ==
  ASSUME NEW r, NEW old, NEW new, Good(r, old), NEW fd \in DOMAIN r.interest,
         \A h \in Handlers : new[h] = IF old[h] = fd THEN NoFd ELSE old[h]
  PROVE  LET v == delEvent(r, fd, ALL)
         IN  /\ Good(v, new)
             /\ DOMAIN v.mFd2Events = DOMAIN r.mFd2Events \ {fd} /\ v.tun = r.tun
             /\ \A s \in Stubs : v.stubs[s].live <=> r.stubs[s].live
<1> DEFINE v == delEvent(r, fd, ALL)
           s == r.mFd2Events[fd]
           w == [r EXCEPT !.stubs[s].events = @ \ ALL]
           st == [r.stubs[s] EXCEPT !.events = {}, !.listener = "NULL"]
<1>1. r \in RegType /\ fd \in Fds /\ s \in Stubs /\ fd \in DOMAIN r.mFd2Events
  BY Entries DEF Good, Agrees, RegType
<1>2. r.stubs[s] \in StubType /\ r.stubs[s].live
  BY <1>1 DEF RegType, Good, Kept
<1>3. st \in StubType /\ st.live /\ st.listener = "NULL"
  BY <1>2 DEF StubType
<1>4. /\ w = [r EXCEPT !.stubs = [r.stubs EXCEPT ![s] = [r.stubs[s] EXCEPT !.events = {}]]]
      /\ w.stubs[s].events = {} /\ w.mFd2Events = r.mFd2Events /\ w.interest = r.interest
      /\ w.mDelEventStubs = r.mDelEventStubs
  BY <1>1, <1>2 DEF RegType, StubType, ALL
<1>5. v = remove(w, fd)
  BY <1>1, <1>4 DEF delEvent
<1>6. v = [r EXCEPT !.stubs = [r.stubs EXCEPT ![s] = st],
                    !.mDelEventStubs = r.mDelEventStubs \cup {s},
                    !.mFd2Events = Without(r.mFd2Events, fd),
                    !.interest = Without(r.interest, fd)]
  <2>1. [w.stubs EXCEPT ![s].listener = "NULL"] = [r.stubs EXCEPT ![s] = st]
    BY <1>1, <1>2, <1>4 DEF RegType, StubType
  <2>2. v = [w EXCEPT !.stubs = [w.stubs EXCEPT ![s].listener = "NULL"],
                      !.mDelEventStubs = r.mDelEventStubs \cup {s},
                      !.mFd2Events = Without(r.mFd2Events, fd),
                      !.interest = Without(r.interest, fd)]
    BY <1>4, <1>5 DEF remove
  <2> HIDE DEF v
  <2> QED BY <1>1, <1>4, <2>1, <2>2 DEF RegType
<1> HIDE DEF v, s, w, st
<1>7. /\ v.stubs = [r.stubs EXCEPT ![s] = st] /\ v.interest = Without(r.interest, fd)
      /\ v.mFd2Events = Without(r.mFd2Events, fd)
      /\ v.mDelEventStubs = r.mDelEventStubs \cup {s} /\ v.tun = r.tun
  BY <1>1, <1>6 DEF RegType
<1>8. r.mFd2Events \in Partial(Stubs) /\ r.interest \in Partial(ReportType)
  BY <1>1 DEF RegType
<1>9. /\ v.mFd2Events \in Partial(Stubs) /\ v.interest \in Partial(ReportType)
      /\ DOMAIN v.mFd2Events = DOMAIN r.mFd2Events \ {fd}
      /\ DOMAIN v.interest = DOMAIN r.interest \ {fd}
      /\ \A i \in DOMAIN r.mFd2Events \ {fd} : v.mFd2Events[i] = r.mFd2Events[i]
      /\ \A i \in DOMAIN r.interest \ {fd} : v.interest[i] = r.interest[i]
  <2>1. /\ Without(r.mFd2Events, fd) \in Partial(Stubs)
        /\ DOMAIN Without(r.mFd2Events, fd) = DOMAIN r.mFd2Events \ {fd}
        /\ \A i \in DOMAIN r.mFd2Events \ {fd} : Without(r.mFd2Events, fd)[i] = r.mFd2Events[i]
    BY ONLY <1>8, WithoutStub
  <2>2. /\ Without(r.interest, fd) \in Partial(ReportType)
        /\ DOMAIN Without(r.interest, fd) = DOMAIN r.interest \ {fd}
        /\ \A i \in DOMAIN r.interest \ {fd} : Without(r.interest, fd)[i] = r.interest[i]
    BY ONLY <1>8, WithoutReport
  <2> QED BY <1>7, <2>1, <2>2
<1>10. /\ v.stubs \in [Stubs -> StubType] /\ v.stubs[s] = st
       /\ \A t \in Stubs : t # s => v.stubs[t] = r.stubs[t]
  BY <1>1, <1>3, <1>7 DEF RegType
<1>11. v \in RegType
  BY <1>1, <1>6, <1>7, <1>9, <1>10 DEF RegType
<1>12. \A i \in DOMAIN v.mFd2Events :
         /\ i \in DOMAIN r.mFd2Events /\ i # fd /\ r.mFd2Events[i] \in Stubs
         /\ r.mFd2Events[i] # s /\ v.mFd2Events[i] = r.mFd2Events[i]
         /\ v.stubs[v.mFd2Events[i]] = r.stubs[r.mFd2Events[i]]
  BY <1>1, <1>8, <1>9, <1>10, Entries DEF Good, Kept, s
<1>13. \A t \in Stubs : v.stubs[t].live <=> r.stubs[t].live
  BY <1>2, <1>3, <1>10
<1>14. Kept(v)
  <2>1. \A i \in DOMAIN v.mFd2Events :
          LET x == v.stubs[v.mFd2Events[i]] IN x.live /\ x.fd = i /\ x.listener # "NULL"
    BY <1>12 DEF Good, Kept
  <2>2. r.mDelEventStubs \subseteq Stubs
    BY <1>1 DEF RegType
  <2>3. \A t \in v.mDelEventStubs : v.stubs[t].live /\ v.stubs[t].listener = "NULL"
    BY <1>3, <1>7, <1>10, <2>2 DEF Good, Kept
  <2>4. ASSUME NEW t \in Stubs, v.stubs[t].live
        PROVE  t \in v.mDelEventStubs \/ \E i \in DOMAIN v.mFd2Events : v.mFd2Events[i] = t
    BY <2>4, <1>7, <1>9, <1>10 DEF Good, Kept, s
  <2> QED BY <2>1, <2>3, <2>4 DEF Kept
<1>15. Agrees(v)
  <2>1. DOMAIN v.interest = DOMAIN v.mFd2Events \ Forgotten(v)
    BY <1>7, <1>9 DEF Good, Agrees, Forgotten
  <2> QED BY <1>9, <1>12, <2>1 DEF Good, Agrees
<1>16. NoFd \notin Fds /\ Sockets \subseteq Fds
  BY ReactorAssumption DEF NoFd, Fds, Cmd, Tun
<1>17. Owned(v, new)
  BY <1>7, <1>12, <1>16 DEF Good, Owned
<1>18. Watched(v, new)
  <2>1. ASSUME NEW h \in Handlers, new[h] # NoFd
        PROVE  /\ new[h] \in DOMAIN v.mFd2Events
               /\ new[h] = Tun => v.tun = "taken"
               /\ \A k \in Handlers : new[k] = new[h] => k = h
    BY <2>1, <1>7, <1>9 DEF Good, Watched
  <2> QED BY <1>7, <1>12, <2>1 DEF Good, Watched
<1> QED BY <1>7, <1>9, <1>11, <1>13, <1>14, <1>15, <1>17, <1>18 DEF Good, v

(* Taking away what is not there.                                          *)
LEMMA WithoutNothing ==
  ASSUME NEW f \in Partial(ReportType), NEW a, a \notin DOMAIN f
  PROVE  Without(f, a) = f
<1>1. PICK D \in SUBSET Fds : f \in [D -> ReportType]
  BY DEF Partial
<1> QED BY <1>1 DEF Without, Restrict

(* SAFE_CLOSE_SOCKET has nothing left to do in the kernel after delEvent.  *)
LEMMA CloseGood ==
  ASSUME NEW r, NEW old, NEW new, Good(r, old), NEW fd \in DOMAIN r.mFd2Events, fd # Tun,
         \A h \in Handlers : new[h] = IF old[h] = fd THEN NoFd ELSE old[h]
  PROVE  LET v == closeSocket(r, fd)
         IN  /\ Good(v, new)
             /\ DOMAIN v.mFd2Events = DOMAIN r.mFd2Events \ {fd}
             /\ \A s \in Stubs : v.stubs[s].live <=> r.stubs[s].live
<1> DEFINE v == delEvent(r, fd, ALL)
<1>0. fd \in DOMAIN r.interest
  BY DEF Good, Agrees, Forgotten
<1>1. /\ Good(v, new) /\ DOMAIN v.mFd2Events = DOMAIN r.mFd2Events \ {fd}
      /\ \A s \in Stubs : v.stubs[s].live <=> r.stubs[s].live
  BY <1>0, RemoveGood
<1>2. closeSocket(r, fd) = [v EXCEPT !.interest = Without(v.interest, fd), !.tun = v.tun]
  BY DEF closeSocket
<1> HIDE DEF v
<1>3. v \in RegType /\ fd \notin DOMAIN v.interest
  BY <1>1 DEF Good, Agrees
<1>4. Without(v.interest, fd) = v.interest
  BY <1>3, WithoutNothing DEF RegType
<1>5. closeSocket(r, fd) = v
  BY <1>2, <1>3, <1>4 DEF RegType
<1> QED BY <1>1, <1>5

(* The sockets when one gets the tun device's number, or gives it back.    *)
TakesTun(old, new, h) ==
  /\ old[h] = NoFd /\ new[h] = Tun
  /\ \A k \in Handlers : k # h => new[k] = old[k] /\ new[k] # Tun

FreesTun(old, new) ==
  \A h \in Handlers : new[h] = IF old[h] = Tun THEN NoFd ELSE old[h]

(* Another state of the tun device's number, closed before and after.      *)
LEMMA TunGood ==
  ASSUME NEW r, NEW old, NEW new, Good(r, old), r.tun # "open", NEW b \in {"taken", "freed"},
         Tun \in DOMAIN r.mFd2Events,
         \/ b = "taken" /\ \E h \in Handlers : TakesTun(old, new, h)
         \/ FreesTun(old, new)
  PROVE  LET v == [r EXCEPT !.tun = b]
         IN  /\ Good(v, new) /\ v.tun = b /\ v.mFd2Events = r.mFd2Events
             /\ v.mDelEventStubs = r.mDelEventStubs /\ v.stubs = r.stubs
<1> DEFINE v == [r EXCEPT !.tun = b]
<1>1. r \in RegType
  BY DEF Good
<1>2. /\ v \in RegType /\ v.tun = b /\ v.mFd2Events = r.mFd2Events /\ v.stubs = r.stubs
      /\ v.mDelEventStubs = r.mDelEventStubs /\ v.interest = r.interest
  BY <1>1 DEF RegType, TunStates
<1> HIDE DEF v
<1>3. Kept(v)
  BY <1>2 DEF Good, Kept
<1>4. Agrees(v)
  BY <1>2 DEF Good, Agrees, Forgotten
<1>5. Tun \notin Sockets /\ NoFd \notin Sockets /\ NoFd # Tun
  BY ReactorAssumption DEF Tun, NoFd
<1>6. Owned(v, new)
  <2>1. ASSUME NEW fd \in DOMAIN r.mFd2Events, fd \in Sockets
        PROVE  r.stubs[r.mFd2Events[fd]].listener \in Handlers
                 /\ new[r.stubs[r.mFd2Events[fd]].listener] = fd
    BY <1>5, <2>1 DEF Good, Owned, TakesTun, FreesTun
  <2> QED BY <1>2, <2>1 DEF Good, Owned
<1>7. Watched(v, new)
  <2>1. ASSUME NEW h \in Handlers, new[h] # NoFd
        PROVE  /\ new[h] \in DOMAIN v.mFd2Events
               /\ new[h] = Tun => v.tun = "taken"
               /\ \A k \in Handlers : new[k] = new[h] => k = h
    <3>1. CASE FreesTun(old, new)
      BY <1>2, <1>5, <2>1, <3>1 DEF Good, Watched, FreesTun
    <3>2. CASE b = "taken" /\ \E k \in Handlers : TakesTun(old, new, k)
      BY <1>2, <1>5, <2>1, <3>2 DEF Good, Watched, TakesTun
    <3> QED BY <3>1, <3>2
  <2> QED BY <1>2, <2>1 DEF Good, Watched
<1> QED BY <1>2, <1>3, <1>4, <1>6, <1>7 DEF Good, v

(* SAFE_CLOSE_SOCKET of a socket under the tun device's number: delEvent   *)
(* fails and the stub stays registered.                                    *)
LEMMA CloseTakenGood ==
  ASSUME NEW r, NEW old, NEW new, Good(r, old), Tun \in DOMAIN r.mFd2Events, r.tun # "open",
         FreesTun(old, new)
  PROVE  LET v == closeSocket(r, Tun)
         IN  /\ Good(v, new)
             /\ DOMAIN v.mFd2Events = DOMAIN r.mFd2Events
             /\ \A s \in Stubs : v.stubs[s].live <=> r.stubs[s].live
<1> DEFINE w == delEvent(r, Tun, ALL)
           v == [w EXCEPT !.tun = "freed"]
<1>0. ALL \in SUBSET Events /\ Tun \notin Sockets
  BY ReactorAssumption DEF ALL
<1>1. /\ Good(w, old) /\ w.mFd2Events = r.mFd2Events /\ w.tun = r.tun
      /\ \A s \in Stubs : w.stubs[s].live <=> r.stubs[s].live
  BY <1>0, DelPartGood
<1>2. closeSocket(r, Tun) = [w EXCEPT !.interest = Without(w.interest, Tun), !.tun = "freed"]
  BY DEF closeSocket
<1> HIDE DEF w
<1>3. w \in RegType /\ Tun \notin DOMAIN w.interest
  BY <1>1 DEF Good, Agrees, Forgotten
<1>4. Without(w.interest, Tun) = w.interest
  BY <1>3, WithoutNothing DEF RegType
<1>5. closeSocket(r, Tun) = v
  BY <1>2, <1>3, <1>4 DEF RegType
<1>6. w.tun # "open" /\ Tun \in DOMAIN w.mFd2Events
  BY <1>1
<1>7. Good(v, new) /\ v.mFd2Events = w.mFd2Events /\ v.stubs = w.stubs
  BY <1>1, <1>6, TunGood
<1> HIDE DEF v
<1> QED BY <1>1, <1>5, <1>7

(* VpnServer.stop closes the tun device.                                   *)
LEMMA CloseTunGood ==
  ASSUME NEW r, NEW sockets, Good(r, sockets), r.tun = "open"
  PROVE  LET v == [r EXCEPT !.tun = "closed", !.interest = Without(r.interest, Tun)]
         IN  /\ Good(v, sockets) /\ v.mFd2Events = r.mFd2Events
             /\ v.mDelEventStubs = r.mDelEventStubs /\ v.stubs = r.stubs
<1> DEFINE i == Without(r.interest, Tun)
           v == [r EXCEPT !.tun = "closed", !.interest = i]
<1>1. r \in RegType /\ r.interest \in Partial(ReportType)
  BY DEF Good, RegType
<1>2. /\ i \in Partial(ReportType) /\ DOMAIN i = DOMAIN r.interest \ {Tun}
      /\ \A fd \in DOMAIN r.interest \ {Tun} : i[fd] = r.interest[fd]
  BY <1>1, WithoutReport
<1> HIDE DEF i
<1>3. /\ v \in RegType /\ v.tun = "closed" /\ v.mFd2Events = r.mFd2Events
      /\ v.stubs = r.stubs /\ v.mDelEventStubs = r.mDelEventStubs /\ v.interest = i
  BY <1>1, <1>2 DEF RegType, TunStates
<1> HIDE DEF v
<1>4. Kept(v)
  BY <1>3 DEF Good, Kept
<1>5. Agrees(v)
  BY <1>2, <1>3 DEF Good, Agrees, Forgotten
<1>6. Owned(v, sockets) /\ Watched(v, sockets)
  BY <1>3 DEF Good, Owned, Watched
<1> QED BY <1>3, <1>4, <1>5, <1>6 DEF Good, v, i

(* cleanDeletedEvents at the end of a round.                               *)
LEMMA CleanGood ==
  ASSUME NEW r, NEW sockets, Good(r, sockets)
  PROVE  LET v == cleanDeletedEvents(r)
         IN  /\ Good(v, sockets)
             /\ v.mFd2Events = r.mFd2Events
             /\ v.mDelEventStubs = {}
<1> DEFINE v == cleanDeletedEvents(r)
<1>1. r \in RegType
  BY DEF Good
<1>2. /\ v.stubs = Delete(r.stubs, r.mDelEventStubs) /\ v.mDelEventStubs = {}
      /\ v.mFd2Events = r.mFd2Events /\ v.interest = r.interest /\ v.tun = r.tun
  BY <1>1 DEF cleanDeletedEvents, RegType
<1>3. /\ v.stubs \in [Stubs -> StubType]
      /\ \A s \in Stubs \ r.mDelEventStubs : v.stubs[s] = r.stubs[s]
      /\ \A s \in Stubs \cap r.mDelEventStubs : ~v.stubs[s].live
  <2>1. r.stubs \in [Stubs -> StubType]
    BY <1>1 DEF RegType
  <2> QED BY <1>2, <2>1, DeleteStubs
<1>4. v \in RegType
  BY <1>1, <1>2, <1>3 DEF cleanDeletedEvents, RegType
<1> HIDE DEF v
<1>5. \A i \in DOMAIN r.mFd2Events :
        r.mFd2Events[i] \in Stubs \ r.mDelEventStubs
          /\ v.stubs[r.mFd2Events[i]] = r.stubs[r.mFd2Events[i]]
  BY <1>1, <1>3, Entries DEF RegType, Good, Kept
<1>6. Kept(v) /\ Agrees(v) /\ Owned(v, sockets)
  BY <1>2, <1>3, <1>5 DEF Good, Kept, Agrees, Forgotten, Owned
<1>7. Watched(v, sockets)
  BY <1>2, <1>5 DEF Good, Watched
<1> QED BY <1>2, <1>4, <1>6, <1>7 DEF Good, v

(* The destructor, when every socket is closed; what the kernel has        *)
(* forgotten stays.                                                        *)
LEMMA DestroyGood ==
  ASSUME NEW r, NEW sockets, Good(r, sockets), \A h \in Handlers : sockets[h] = NoFd
  PROVE  Good(destroy(r), sockets)
<1> DEFINE v == destroy(r)
           gone == DOMAIN r.mFd2Events \cap DOMAIN r.interest
           dead == {r.mFd2Events[fd] : fd \in gone}
           left == Restrict(r.mFd2Events, DOMAIN r.mFd2Events \ gone)
<1>1. r \in RegType /\ r.mFd2Events \in Partial(Stubs)
  BY DEF Good, RegType
<1>2. /\ v.stubs = Delete(r.stubs, dead) /\ v.mFd2Events = left /\ v.interest = <<>>
      /\ v.mDelEventStubs = r.mDelEventStubs /\ v.tun = r.tun
  BY <1>1 DEF destroy, RegType
<1>3. /\ left \in Partial(Stubs) /\ DOMAIN left = DOMAIN r.mFd2Events \ gone
      /\ \A fd \in DOMAIN left : left[fd] = r.mFd2Events[fd] /\ left[fd] \in Stubs
  <2>1. PICK D \in SUBSET Fds : r.mFd2Events \in [D -> Stubs]
    BY <1>1 DEF Partial
  <2>2. left \in [D \ gone -> Stubs] /\ D \ gone \in SUBSET Fds
    BY <2>1 DEF Restrict
  <2> QED BY <2>1, <2>2 DEF Restrict, Partial
<1>4. /\ v.stubs \in [Stubs -> StubType]
      /\ \A s \in Stubs \ dead : v.stubs[s] = r.stubs[s]
      /\ \A s \in Stubs \cap dead : ~v.stubs[s].live
  <2>1. r.stubs \in [Stubs -> StubType]
    BY <1>1 DEF RegType
  <2> QED BY <1>2, <2>1, DeleteStubs
<1>5. <<>> \in Partial(ReportType) /\ DOMAIN <<>> = {}
  BY NoEntry
<1>6. v \in RegType
  BY <1>1, <1>2, <1>3, <1>4, <1>5 DEF destroy, RegType
<1> HIDE DEF v, left
<1>7. \A fd \in DOMAIN left :
        /\ fd \in DOMAIN r.mFd2Events /\ r.mFd2Events[fd] \in Stubs \ dead
        /\ left[fd] = r.mFd2Events[fd] /\ v.stubs[left[fd]] = r.stubs[r.mFd2Events[fd]]
  <2>1. ASSUME NEW fd \in DOMAIN left PROVE r.mFd2Events[fd] \notin dead
    BY <1>3, <2>1 DEF Good, Kept
  <2> QED BY <1>3, <1>4, <2>1
<1>8. r.mDelEventStubs \subseteq Stubs \ dead
  BY <1>1 DEF RegType, Good, Kept
<1>9. Kept(v)
  <2>1. ASSUME NEW s \in Stubs, v.stubs[s].live
        PROVE  s \in v.mDelEventStubs \/ \E fd \in DOMAIN left : left[fd] = s
    <3>1. s \notin dead /\ r.stubs[s].live
      BY <1>4, <2>1
    <3>2. CASE s \in r.mDelEventStubs
      BY <1>2, <3>2
    <3>3. CASE \E fd \in DOMAIN r.mFd2Events : r.mFd2Events[fd] = s
      <4>1. PICK fd \in DOMAIN r.mFd2Events : r.mFd2Events[fd] = s
        BY <3>3
      <4>2. fd \in DOMAIN left
        BY <1>3, <3>1, <4>1
      <4> QED BY <1>3, <4>1, <4>2
    <3> QED BY <3>1, <3>2, <3>3 DEF Good, Kept
  <2>2. \A s \in v.mDelEventStubs : v.stubs[s].live /\ v.stubs[s].listener = "NULL"
    BY <1>2, <1>4, <1>8 DEF Good, Kept
  <2>3. \A fd \in DOMAIN v.mFd2Events :
          LET st == v.stubs[v.mFd2Events[fd]] IN st.live /\ st.fd = fd /\ st.listener # "NULL"
    BY <1>2, <1>7 DEF Good, Kept
  <2> QED BY <1>2, <2>1, <2>2, <2>3 DEF Kept
<1>10. Agrees(v)
  BY <1>2, <1>3, <1>5 DEF Good, Agrees, Forgotten
<1>11. Owned(v, sockets)
  BY <1>2, <1>7 DEF Good, Owned
<1>12. Watched(v, sockets)
  BY <1>2, <1>7 DEF Good, Watched
<1> QED BY <1>6, <1>9, <1>10, <1>11, <1>12 DEF Good, v

(* The registrations before the constructor's.                             *)
LEMMA EmptyGood ==
  ASSUME NEW sockets, \A h \in Handlers : sockets[h] = NoFd
  PROVE  Good(EmptyReg, sockets) /\ FreeStubs(EmptyReg) # {} /\ DOMAIN EmptyReg.mFd2Events = {}
<1>1. <<>> \in Partial(Stubs) /\ <<>> \in Partial(ReportType) /\ DOMAIN <<>> = {}
  BY NoEntry
<1>2. EmptyReg \in RegType
  BY <1>1 DEF EmptyReg, Blank, RegType, StubType, Fds, TunStates
<1>3. /\ EmptyReg.mFd2Events = <<>> /\ EmptyReg.interest = <<>> /\ EmptyReg.mDelEventStubs = {}
      /\ \A s \in Stubs : ~EmptyReg.stubs[s].live
  BY DEF EmptyReg, Blank
<1> QED BY <1>1, <1>2, <1>3, ReactorAssumption DEF Good, Kept, Agrees, Forgotten, Owned, Watched, FreeStubs

-----------------------------------------------------------------------------
(* The invariant is inductive                                              *)

(* The constructor establishes it.                                         *)
LEMMA InitInv == Init => ReactorInv
<1> SUFFICES ASSUME Init PROVE ReactorInv
  OBVIOUS
<1>1. mSocket \in [Handlers -> Sockets \cup {Tun, NoFd}] /\ \A h \in Handlers : mSocket[h] = NoFd
  BY DEF Init
<1>2. Good(EmptyReg, mSocket) /\ FreeStubs(EmptyReg) # {} /\ DOMAIN EmptyReg.mFd2Events = {}
  BY <1>1, EmptyGood
<1>3. EmptyReg.mDelEventStubs = {} /\ EmptyReg.tun = "open"
  BY DEF EmptyReg
<1>4. Cmd \in Fds /\ Cmd # Tun /\ Cmd \notin Sockets /\ {"READ"} \in SUBSET Events /\ "reactor" \in Listeners
  BY ReactorAssumption DEF Fds, Cmd, Tun, Events, Listeners
<1>5. /\ Good(reg, mSocket) /\ DOMAIN reg.mFd2Events = {Cmd} /\ reg.mDelEventStubs = {}
      /\ reg.tun = "open"
  <2> DEFINE v == addEvent(EmptyReg, Cmd, {"READ"}, "reactor")
  <2>1. Good(v, mSocket) /\ DOMAIN v.mFd2Events = DOMAIN EmptyReg.mFd2Events \cup {Cmd}
          /\ v.mDelEventStubs = EmptyReg.mDelEventStubs /\ v.tun = EmptyReg.tun
    BY <1>2, <1>4, RegisterGood
  <2> QED BY <1>2, <1>3, <2>1 DEF Init
<1>6. NoReport \in ReportType /\ NoReport.events = {}
  BY ReactorAssumption DEF NoReport, ReportType
<1>7. thread \in ThreadType
  BY <1>6 DEF Init, ThreadType, At, NoCall
<1>8. Typed
  BY <1>1, <1>5, <1>7 DEF Init, Typed, Good, Conditions
<1>9. Held /\ Phases
  BY <1>5, <1>6 DEF Init, Held, Phases, NoCall
<1> QED BY <1>1, <1>5, <1>8, <1>9 DEF ReactorInv, Init

(* A handler runs in a round of the loop, when the tun device is           *)
(* registered.                                                             *)
LEMMA InRound ==
  ASSUME ReactorInv, InHandler
  PROVE  thread.at \in {"batch", "check"} /\ Tun \in DOMAIN reg.mFd2Events
<1>1. Called \notin {"NULL", "reactor"}
  BY ReactorAssumption DEF InHandler
<1> QED BY <1>1 DEF ReactorInv, Held, Phases, Called, Deaf

(* What an open socket's registration is.                                  *)
LEMMA OpenSocket ==
  ASSUME ReactorInv, NEW h \in Handlers, mSocket[h] # NoFd
  PROVE  /\ mSocket[h] \in Sockets \cup {Tun} /\ mSocket[h] \in DOMAIN reg.mFd2Events
         /\ mSocket[h] \in Fds \ {Cmd} /\ Tun \notin Sockets
         /\ mSocket[h] = Tun => reg.tun = "taken"
         /\ \A k \in Handlers : mSocket[k] = mSocket[h] => k = h
  BY ReactorAssumption DEF ReactorInv, Typed, Good, Watched, Fds, Cmd, Tun

(* A handler's change of the registrations that takes no stub from anyone  *)
(* and leaves the tun device registered.                                   *)
LEMMA ChangeInv ==
  ASSUME ReactorInv, Good(reg', mSocket'),
         thread.at \in {"batch", "check"}, UNCHANGED thread,
         Tun \in DOMAIN reg'.mFd2Events,
         \A s \in Stubs : reg.stubs[s].live => reg'.stubs[s].live,
         ready' \in [Fds -> SUBSET Conditions],
         mSocket' \in [Handlers -> Sockets \cup {Tun, NoFd}],
         unborn' \subseteq Handlers, \A h \in unborn' : mSocket'[h] = NoFd,
         UNCHANGED <<cmd, stopped, mWorking>>
  PROVE  ReactorInv'
<1>1. Typed'
  BY DEF ReactorInv, Typed, Good
<1>2. \A e \in ReportType : e.ptr \in Stubs
  BY DEF ReportType
<1>3. thread.batch \subseteq ReportType /\ thread.cur \in ReportType /\ thread.copy \subseteq Stubs
  BY DEF ReactorInv, Typed, ThreadType
<1>4. Held'
  BY <1>2, <1>3 DEF ReactorInv, Held
<1>5. Phases'
  BY DEF ReactorInv, Phases, Deaf
<1> QED BY <1>1, <1>4, <1>5 DEF ReactorInv

(* A step of the thread that leaves the registrations alone.               *)
LEMMA ThreadInv ==
  ASSUME ReactorInv, thread' \in ThreadType, Held', Phases',
         UNCHANGED <<reg, stopped, mSocket, unborn>>, cmd' \in Nat, mWorking' \in BOOLEAN,
         ready' \in [Fds -> SUBSET Conditions]
  PROVE  ReactorInv'
<1>1. Typed'
  BY DEF ReactorInv, Typed
<1> QED BY <1>1 DEF ReactorInv

(* Router::start registers an open tun for READ.                           *)
LEMMA RegisterTunGood ==
  ASSUME NEW r, NEW sock, Good(r, sock), FreeStubs(r) # {},
         Tun \notin DOMAIN r.mFd2Events, r.tun = "open"
  PROVE  LET v == addEvent(r, Tun, {"READ"}, "router")
         IN  /\ Good(v, sock)
             /\ DOMAIN v.mFd2Events = DOMAIN r.mFd2Events \cup {Tun}
             /\ v.mDelEventStubs = r.mDelEventStubs
<1>1. ASSUME NEW fd \in Fds, NEW events \in SUBSET Events, NEW l \in Listeners,
             fd = Tun, l = "router", "READ" \in events
      PROVE  LET v == addEvent(r, fd, events, l)
             IN  /\ Good(v, sock)
                 /\ DOMAIN v.mFd2Events = DOMAIN r.mFd2Events \cup {fd}
                 /\ v.mDelEventStubs = r.mDelEventStubs
  <2>1. fd # Cmd /\ fd \notin Sockets
    BY <1>1, ReactorAssumption DEF Cmd, Tun
  <2>2. fd \notin DOMAIN r.mFd2Events
    BY <1>1
  <2>3. \A h \in Handlers : sock[h] = sock[h] \/ (h = l /\ sock[h] = NoFd /\ sock[h] = fd)
    OBVIOUS
  <2> QED BY <1>1, <2>1, <2>2, <2>3, RegisterGood
<1>2. Tun \in Fds /\ {"READ"} \in SUBSET Events /\ "router" \in Listeners
  BY ReactorAssumption DEF Fds, Events, Listeners
<1> QED BY ONLY <1>1, <1>2

(* Router::start.                                                          *)
LEMMA StartInv == ReactorInv /\ Start => ReactorInv'
<1> SUFFICES ASSUME ReactorInv, Start PROVE ReactorInv'
  OBVIOUS
<1>1. Good(reg, mSocket) /\ DOMAIN reg.mFd2Events = {Cmd} /\ reg.mDelEventStubs = {}
  BY DEF ReactorInv, Phases, Start
<1>2. FreeStubs(reg) # {}
  <2>1. PICK s \in Stubs : s # reg.mFd2Events[Cmd]
    BY ReactorAssumption
  <2>2. ~reg.stubs[s].live
    BY <1>1, <2>1 DEF Good, Kept
  <2> QED BY <2>1, <2>2 DEF FreeStubs
<1>3. /\ Tun \in Fds /\ Cmd # Tun /\ Tun \notin Sockets /\ {"READ"} \in SUBSET Events
      /\ "router" \in Listeners
  BY ReactorAssumption DEF Fds, Cmd, Tun, Events, Listeners
<1>4. /\ Good(reg', mSocket) /\ reg'.mDelEventStubs = {}
      /\ DOMAIN reg'.mFd2Events \in {{Cmd, Tun}, {Cmd}}
  <2> DEFINE v == addEvent(reg, Tun, {"READ"}, "router")
  <2>0. Tun \notin DOMAIN reg.mFd2Events
    BY <1>1, <1>3
  <2>1. CASE reg.tun = "open"
    <3>1. Good(v, mSocket) /\ DOMAIN v.mFd2Events = DOMAIN reg.mFd2Events \cup {Tun}
            /\ v.mDelEventStubs = reg.mDelEventStubs
      BY ONLY <1>1, <1>2, <1>3, <2>0, <2>1, RegisterTunGood
    <3> QED BY <1>1, <3>1 DEF Start
  <2>2. CASE reg.tun # "open"
    <3>1. reg.tun \in {"closed", "freed"}
      BY <2>2 DEF ReactorInv, Typed, RegType, TunStates, Phases, Start
    <3>2. v = reg
      BY <2>0, <3>1 DEF addEvent, register, TunGone
    <3> QED BY <1>1, <3>2 DEF Start
  <2> QED BY <2>1, <2>2
<1>5. /\ thread' = [thread EXCEPT !.at = "wait"] /\ thread \in ThreadType
      /\ thread.batch = {} /\ thread.cur.events = {} /\ thread.copy = {}
      /\ thread.call.listener = "NULL"
  BY DEF ReactorInv, Typed, Held, Start
<1>6. /\ thread' \in ThreadType /\ thread'.at = "wait" /\ thread'.batch = {}
      /\ thread'.cur.events = {} /\ thread'.copy = {} /\ thread'.call.listener = "NULL"
  BY <1>5 DEF ThreadType, At
<1>7. UNCHANGED <<ready, cmd, stopped, mSocket, unborn>> /\ mWorking' = TRUE
  BY DEF Start
<1>8. Typed'
  BY <1>4, <1>6, <1>7 DEF ReactorInv, Typed, Good
<1>9. Held' /\ Phases'
  BY <1>4, <1>6 DEF Held, Phases, Deaf
<1> QED BY <1>4, <1>7, <1>8, <1>9 DEF ReactorInv

(* requestSendData and resumeReceiveData.                                  *)
LEMMA ResumeInv ==
  ASSUME ReactorInv, NEW h \in Handlers, NEW ev \in {"READ", "WRITE"}, Resume(h, ev)
  PROVE  ReactorInv'
<1>1. thread.at \in {"batch", "check"} /\ Tun \in DOMAIN reg.mFd2Events
  BY InRound DEF Resume
<1>2. /\ mSocket[h] \in Sockets \cup {Tun} /\ mSocket[h] \in DOMAIN reg.mFd2Events
      /\ mSocket[h] = Tun => reg.tun = "taken"
  BY OpenSocket DEF Resume
<1>3. Good(reg, mSocket) /\ {ev} \in SUBSET Events /\ h \in Listeners
  BY DEF ReactorInv, Events, Listeners
<1>4. /\ Good(reg', mSocket) /\ reg'.mFd2Events = reg.mFd2Events
      /\ \A s \in Stubs : reg'.stubs[s].live <=> reg.stubs[s].live
  <2> DEFINE v == addEvent(reg, mSocket[h], {ev}, h)
  <2>1. /\ Good(v, mSocket) /\ v.mFd2Events = reg.mFd2Events
        /\ \A s \in Stubs : v.stubs[s].live <=> reg.stubs[s].live
    BY ONLY <1>2, <1>3, h \in Handlers, ModifyGood
  <2> QED BY <2>1 DEF Resume
<1> QED BY <1>1, <1>4, ChangeInv DEF Resume, ReactorInv, Typed

(* pauseSendData and pauseReceiveData.                                     *)
LEMMA PauseInv ==
  ASSUME ReactorInv, NEW h \in Handlers, NEW ev \in {"READ", "WRITE"}, Pause(h, ev)
  PROVE  ReactorInv'
<1>1. thread.at \in {"batch", "check"} /\ Tun \in DOMAIN reg.mFd2Events
  BY InRound DEF Pause
<1>2. /\ mSocket[h] \in Sockets \cup {Tun} /\ mSocket[h] \in DOMAIN reg.mFd2Events
      /\ mSocket[h] = Tun => reg.tun # "open"
  BY OpenSocket DEF Pause
<1>3. Good(reg, mSocket) /\ {ev} \in SUBSET Events /\ "ERROR" \notin {ev}
  BY DEF ReactorInv, Events
<1>4. /\ Good(reg', mSocket) /\ reg'.mFd2Events = reg.mFd2Events
      /\ \A s \in Stubs : reg'.stubs[s].live <=> reg.stubs[s].live
  <2> DEFINE v == delEvent(reg, mSocket[h], {ev})
  <2>1. /\ Good(v, mSocket) /\ v.mFd2Events = reg.mFd2Events
        /\ \A s \in Stubs : v.stubs[s].live <=> reg.stubs[s].live
    BY ONLY <1>2, <1>3, DelPartGood
  <2> QED BY <2>1 DEF Pause
<1> QED BY <1>1, <1>4, ChangeInv DEF Pause, ReactorInv, Typed

(* Router::onSyncEvent.                                                    *)
LEMMA RouterWantsInv == ReactorInv /\ RouterWants => ReactorInv'
<1> SUFFICES ASSUME ReactorInv, RouterWants PROVE ReactorInv'
  OBVIOUS
<1>1. thread.at \in {"batch", "check"} /\ Tun \in DOMAIN reg.mFd2Events
  BY InRound DEF RouterWants
<1>2. Good(reg, mSocket) /\ {"WRITE"} \in SUBSET Events /\ "router" \in Listeners
  BY DEF ReactorInv, Events, Listeners
<1>4. /\ Good(reg', mSocket) /\ reg'.mFd2Events = reg.mFd2Events
      /\ \A s \in Stubs : reg'.stubs[s].live <=> reg.stubs[s].live
  <2> DEFINE v == addEvent(reg, Tun, {"WRITE"}, "router")
  <2>1. /\ Good(v, mSocket) /\ v.mFd2Events = reg.mFd2Events
        /\ \A s \in Stubs : v.stubs[s].live <=> reg.stubs[s].live
    BY ONLY <1>1, <1>2, ModifyGood
  <2> QED BY <2>1 DEF RouterWants
<1> QED BY <1>1, <1>4, ChangeInv DEF RouterWants, ReactorInv, Typed

(* The end of Router::onWritable.                                          *)
LEMMA RouterWrittenInv == ReactorInv /\ RouterWritten => ReactorInv'
<1> SUFFICES ASSUME ReactorInv, RouterWritten PROVE ReactorInv'
  OBVIOUS
<1>1. thread.at \in {"batch", "check"} /\ Tun \in DOMAIN reg.mFd2Events
  BY InRound DEF RouterWritten, InHandler
<1>2. /\ Good(reg, mSocket) /\ {"WRITE"} \in SUBSET Events /\ "READ" \notin {"WRITE"}
      /\ Tun \notin Sockets
  BY ReactorAssumption DEF ReactorInv, Events
<1>3. /\ Good(reg', mSocket) /\ reg'.mFd2Events = reg.mFd2Events
      /\ \A s \in Stubs : reg'.stubs[s].live <=> reg.stubs[s].live
  <2> DEFINE v == delEvent(reg, Tun, {"WRITE"})
  <2>1. /\ Good(v, mSocket) /\ v.mFd2Events = reg.mFd2Events
        /\ \A s \in Stubs : v.stubs[s].live <=> reg.stubs[s].live
    BY ONLY <1>1, <1>2, DelPartGood
  <2> QED BY <2>1 DEF RouterWritten
<1> QED BY <1>1, <1>3, ChangeInv DEF RouterWritten, ReactorInv, Typed

(* A new socket: no stub is registered for its descriptor, even when the   *)
(* number was closed a moment ago, unless it is the tun device's.          *)
LEMMA OpenInv ==
  ASSUME ReactorInv, NEW h \in Handlers, NEW fd \in Sockets \cup {Tun}, Open(h, fd)
  PROVE  ReactorInv'
<1>1. thread.at \in {"batch", "check"} /\ Tun \in DOMAIN reg.mFd2Events
  BY InRound DEF Open
<1>2. Good(reg, mSocket) /\ FreeStubs(reg) # {} /\ ALL \in SUBSET Events /\ h \in Listeners
        /\ "ERROR" \in ALL
  BY DEF ReactorInv, Open, Events, Listeners, ALL
<1>3. fd \in Fds /\ fd # Cmd /\ Tun \notin Sockets
  BY ReactorAssumption DEF Fds, Cmd, Tun
<1>4. \A k \in Handlers : mSocket[k] # fd
  BY DEF Open, IsOpen, IsSocket
<1>5. /\ mSocket \in [Handlers -> Sockets \cup {Tun, NoFd}] /\ mSocket[h] = NoFd
      /\ mSocket' = [mSocket EXCEPT ![h] = fd]
  BY DEF ReactorInv, Typed, Open
<1>6. /\ mSocket' \in [Handlers -> Sockets \cup {Tun, NoFd}] /\ mSocket'[h] = fd
      /\ \A k \in Handlers : k # h => mSocket'[k] = mSocket[k]
  BY <1>5
<1>7. reg' = addEvent([reg EXCEPT !.tun = IF fd = Tun THEN "taken" ELSE @], fd, ALL, h)
  BY DEF Open
<1>8. /\ Good(reg', mSocket') /\ Tun \in DOMAIN reg'.mFd2Events
      /\ \A s \in Stubs : reg.stubs[s].live => reg'.stubs[s].live
  <2> DEFINE new == mSocket'
  <2>1. CASE fd # Tun
    <3> DEFINE v == addEvent(reg, fd, ALL, h)
    <3>1. new[h] = fd /\ \A k \in Handlers :
            new[k] = mSocket[k] \/ (k = h /\ mSocket[k] = NoFd /\ new[k] = fd)
      BY <1>5, <1>6
    <3>2. fd \notin DOMAIN reg.mFd2Events
      BY <1>2, <1>4, <2>1 DEF Good, Owned
    <3>3. reg' = v
      <4>1. [reg EXCEPT !.tun = reg.tun] = reg
        BY <1>2 DEF Good, RegType
      <4> QED BY <1>7, <2>1, <4>1
    <3> HIDE DEF new
    <3>4. /\ Good(v, new) /\ DOMAIN v.mFd2Events = DOMAIN reg.mFd2Events \cup {fd}
          /\ \A s \in Stubs : reg.stubs[s].live => v.stubs[s].live
      BY ONLY <1>2, <1>3, <2>1, <3>1, <3>2, h \in Handlers, RegisterGood
    <3> QED BY <1>1, <3>3, <3>4 DEF new
  <2>2. CASE fd = Tun
    <3> DEFINE w == [reg EXCEPT !.tun = "taken"]
               v == addEvent(w, Tun, ALL, h)
    <3>1. reg' = v
      BY <1>7, <2>2
    <3>2. reg.tun # "open"
      BY <2>2 DEF Open, IsOpen
    <3>3. \E k \in Handlers : TakesTun(mSocket, new, k)
      BY <1>4, <1>5, <1>6, <2>2 DEF TakesTun
    <3> HIDE DEF new
    <3>4. /\ Good(w, new) /\ w.tun = "taken" /\ w.mFd2Events = reg.mFd2Events
          /\ w.stubs = reg.stubs
      BY ONLY <1>1, <1>2, <3>2, <3>3, TunGood
    <3> HIDE DEF w
    <3>5. Tun \in DOMAIN w.mFd2Events
      BY <1>1, <3>4
    <3>6. /\ Good(v, new) /\ v.mFd2Events = w.mFd2Events
          /\ \A s \in Stubs : v.stubs[s].live <=> w.stubs[s].live
      BY ONLY <1>2, <3>4, <3>5, ModifyGood
    <3> QED BY <3>1, <3>4, <3>5, <3>6 DEF new
  <2> QED BY <2>1, <2>2
<1>9. ready' \in [Fds -> SUBSET Conditions]
  BY <1>3 DEF ReactorInv, Typed, Open, Conditions
<1>10. unborn' \subseteq Handlers /\ \A k \in unborn' : mSocket'[k] = NoFd
  BY <1>6 DEF ReactorInv, Typed, Open
<1>11. UNCHANGED <<cmd, stopped, mWorking, thread>>
  BY DEF Open
<1> QED BY <1>1, <1>6, <1>8, <1>9, <1>10, <1>11, ChangeInv

(* A session is closed, in a round or after the loop.                      *)
LEMMA CloseInv ==
  ASSUME ReactorInv, NEW h \in Handlers, Close(h)
  PROVE  ReactorInv'
<1> DEFINE fd == mSocket[h]
<1>1. /\ fd \in DOMAIN reg.mFd2Events /\ fd \in Fds
      /\ fd = Tun => reg.tun # "open"
      /\ \A k \in Handlers : mSocket[k] = fd => k = h
  BY OpenSocket DEF Close
<1>2. Good(reg, mSocket) /\ mSocket \in [Handlers -> Sockets \cup {Tun, NoFd}]
  BY DEF ReactorInv, Typed
<1>3. /\ mSocket' \in [Handlers -> Sockets \cup {Tun, NoFd}]
      /\ \A k \in Handlers : mSocket'[k] = IF mSocket[k] = fd THEN NoFd ELSE mSocket[k]
  BY <1>1, <1>2 DEF Close
<1>4. reg' = closeSocket(reg, fd) /\ ready' = [ready EXCEPT ![fd] = {}]
        /\ UNCHANGED <<cmd, stopped, unborn, mWorking, thread>>
  BY DEF Close
<1> HIDE DEF fd
<1>5. /\ Good(reg', mSocket')
      /\ Tun \in DOMAIN reg.mFd2Events => Tun \in DOMAIN reg'.mFd2Events
      /\ \A s \in Stubs : reg'.stubs[s].live <=> reg.stubs[s].live
  <2> DEFINE v == closeSocket(reg, fd)
             new == mSocket'
  <2>1. \A k \in Handlers : new[k] = IF mSocket[k] = fd THEN NoFd ELSE mSocket[k]
    BY <1>3
  <2> HIDE DEF new
  <2>2. CASE fd # Tun
    <3>1. /\ Good(v, new) /\ DOMAIN v.mFd2Events = DOMAIN reg.mFd2Events \ {fd}
          /\ \A s \in Stubs : v.stubs[s].live <=> reg.stubs[s].live
      BY ONLY <1>1, <1>2, <2>1, <2>2, CloseGood
    <3> QED BY <1>4, <2>2, <3>1 DEF new
  <2>3. CASE fd = Tun
    <3>1. FreesTun(mSocket, new) /\ Tun \in DOMAIN reg.mFd2Events /\ reg.tun # "open"
      BY <1>1, <2>1, <2>3 DEF FreesTun
    <3>2. LET x == closeSocket(reg, Tun)
          IN  /\ Good(x, new) /\ DOMAIN x.mFd2Events = DOMAIN reg.mFd2Events
              /\ \A s \in Stubs : x.stubs[s].live <=> reg.stubs[s].live
      BY ONLY <1>2, <3>1, CloseTakenGood
    <3> QED BY <1>4, <2>3, <3>2 DEF new
  <2> QED BY <2>2, <2>3
<1>6. ready' \in [Fds -> SUBSET Conditions]
  BY <1>1, <1>4 DEF ReactorInv, Typed
<1>7. unborn' \subseteq Handlers /\ \A k \in unborn' : mSocket'[k] = NoFd
  BY <1>3, <1>4 DEF ReactorInv, Typed
<1>8. CASE InHandler
  <2>1. thread.at \in {"batch", "check"} /\ Tun \in DOMAIN reg'.mFd2Events
    BY <1>1, <1>5, <1>8, InRound
  <2> QED BY <1>3, <1>4, <1>5, <1>6, <1>7, <2>1, ChangeInv
<1>9. CASE thread.at = "done"
  <2>1. Typed'
    BY <1>3, <1>4, <1>5, <1>6, <1>7 DEF ReactorInv, Typed, Good
  <2>2. Held' /\ Phases'
    BY <1>4, <1>9 DEF ReactorInv, Held, Phases
  <2> QED BY <1>5, <1>7, <2>1, <2>2 DEF ReactorInv
<1> QED BY <1>8, <1>9 DEF Close

(* Router::start after the loop.                                           *)
LEMMA AfterLoopInv == ReactorInv /\ AfterLoop => ReactorInv'
<1> SUFFICES ASSUME ReactorInv, AfterLoop PROVE ReactorInv'
  OBVIOUS
<1>1. Good(reg, mSocket) /\ Tun \notin Sockets /\ ALL \in SUBSET Events
  BY ReactorAssumption DEF ReactorInv, ALL
<1>3. Good(reg', mSocket)
  <2> DEFINE v == delEvent(reg, Tun, ALL)
  <2>1. CASE Tun \notin DOMAIN reg.mFd2Events
    BY <1>1, <2>1 DEF AfterLoop, delEvent
  <2>2. CASE Tun \in DOMAIN reg.mFd2Events /\ reg.tun = "open"
    <3>1. Tun \in DOMAIN reg.interest
      BY <1>1, <2>2 DEF Good, Agrees, Forgotten
    <3>2. \A h \in Handlers : mSocket[h] = IF mSocket[h] = Tun THEN NoFd ELSE mSocket[h]
      BY <1>1, <2>2, ReactorAssumption DEF Good, Watched, NoFd, Tun
    <3>3. Good(v, mSocket)
      BY ONLY <1>1, <3>1, <3>2, RemoveGood
    <3> QED BY <3>3 DEF AfterLoop
  <2>3. CASE Tun \in DOMAIN reg.mFd2Events /\ reg.tun # "open"
    <3>1. Good(v, mSocket)
      BY ONLY <1>1, <2>3, DelPartGood
    <3> QED BY <3>1 DEF AfterLoop
  <2> QED BY <2>1, <2>2, <2>3
<1>4. /\ thread' = [thread EXCEPT !.at = "done"] /\ thread \in ThreadType
      /\ thread.batch = {} /\ thread.cur.events = {} /\ thread.copy = {}
      /\ thread.call.listener = "NULL"
  BY DEF ReactorInv, Typed, Held, AfterLoop
<1>5. /\ thread' \in ThreadType /\ thread'.at = "done" /\ thread'.batch = {}
      /\ thread'.cur.events = {} /\ thread'.copy = {} /\ thread'.call.listener = "NULL"
  BY <1>4 DEF ThreadType, At
<1>6. UNCHANGED <<ready, cmd, stopped, mSocket, unborn, mWorking>>
  BY DEF AfterLoop
<1>7. Typed' /\ Held' /\ Phases'
  BY <1>3, <1>5, <1>6 DEF ReactorInv, Typed, Good, Held, Phases
<1> QED BY <1>3, <1>6, <1>7 DEF ReactorInv

(* Router::~Router deletes the reactor.                                    *)
LEMMA DestroyInv == ReactorInv /\ Destroy => ReactorInv'
<1> SUFFICES ASSUME ReactorInv, Destroy PROVE ReactorInv'
  OBVIOUS
<1>1. Good(reg', mSocket)
  <2> DEFINE v == destroy(reg)
  <2>1. Good(v, mSocket)
    BY DestroyGood DEF ReactorInv, Destroy
  <2> QED BY <2>1 DEF Destroy
<1>2. /\ thread' = [thread EXCEPT !.at = "destroyed"] /\ thread \in ThreadType
      /\ thread.batch = {} /\ thread.cur.events = {} /\ thread.copy = {}
      /\ thread.call.listener = "NULL"
  BY DEF ReactorInv, Typed, Held, Destroy
<1>3. /\ thread' \in ThreadType /\ thread'.at = "destroyed" /\ thread'.batch = {}
      /\ thread'.cur.events = {} /\ thread'.copy = {} /\ thread'.call.listener = "NULL"
  BY <1>2 DEF ThreadType, At
<1>4. UNCHANGED <<ready, cmd, stopped, mSocket, unborn, mWorking>>
  BY DEF Destroy
<1>5. Typed' /\ Held' /\ Phases'
  BY <1>1, <1>3, <1>4 DEF ReactorInv, Typed, Good, Held, Phases
<1> QED BY <1>1, <1>4, <1>5 DEF ReactorInv

(* What epoll_wait reports points to stubs that are registered.            *)
LEMMA EpollWaitInv ==
  ASSUME ReactorInv, NEW chosen \in SUBSET ReadyFds, EpollWait(chosen)
  PROVE  ReactorInv'
<1> DEFINE batch == {[ptr |-> reg.interest[fd].ptr, events |-> Reported(fd)] : fd \in chosen}
<1>1. /\ thread' = [thread EXCEPT !.at = "batch", !.batch = batch] /\ thread \in ThreadType
      /\ thread.at = "wait" /\ thread.cur.events = {} /\ thread.copy = {}
  BY DEF EpollWait, ReactorInv, Typed, Held
<1>2. ASSUME NEW fd \in chosen
      PROVE  /\ reg.interest[fd].ptr \in Stubs /\ reg.stubs[reg.interest[fd].ptr].live
             /\ Reported(fd) \in SUBSET Conditions
  <2>1. fd \in DOMAIN reg.interest /\ fd \in DOMAIN reg.mFd2Events
    BY DEF ReadyFds, ReactorInv, Good, Agrees
  <2>2. reg.interest[fd] \in ReportType /\ fd \in Fds
    BY <2>1, Entries DEF ReactorInv, Typed, RegType
  <2>3. reg.stubs[reg.interest[fd].ptr].live
    BY <2>1 DEF ReactorInv, Good, Agrees, Kept
  <2>4. Condition(fd) \in SUBSET Conditions
    BY <2>2 DEF Condition, ReactorInv, Typed, Conditions
  <2> QED BY <2>2, <2>3, <2>4 DEF Reported, ReportType
<1>3. batch \in SUBSET ReportType /\ \A e \in batch : reg.stubs[e.ptr].live
  BY <1>2 DEF ReportType
<1> HIDE DEF batch
<1>4. /\ thread'.call = thread.call /\ thread' \in ThreadType /\ thread'.at = "batch" /\ thread'.batch = batch
      /\ thread'.cur = thread.cur /\ thread'.copy = {}
  BY <1>1, <1>3 DEF ThreadType, At
<1>5. UNCHANGED <<reg, ready, cmd, stopped, mSocket, unborn, mWorking>>
  BY DEF EpollWait
<1>6. Held' /\ Phases'
  BY <1>1, <1>3, <1>4, <1>5 DEF ReactorInv, Held, Phases, Deaf
<1> QED BY <1>4, <1>5, <1>6, ThreadInv DEF ReactorInv, Typed

(* The loop is left.                                                       *)
LEMMA EpollWaitFailsInv == ReactorInv /\ EpollWaitFails => ReactorInv'
<1> SUFFICES ASSUME ReactorInv, EpollWaitFails PROVE ReactorInv'
  OBVIOUS
<1>1. /\ thread' = [thread EXCEPT !.at = "ended"] /\ thread \in ThreadType /\ thread.at = "wait"
  BY DEF EpollWaitFails, ReactorInv, Typed
<1>2. /\ thread' \in ThreadType /\ thread'.at = "ended" /\ thread'.batch = thread.batch
      /\ thread'.cur = thread.cur /\ thread'.copy = thread.copy /\ thread'.call = thread.call
  BY <1>1 DEF ThreadType, At
<1>3. UNCHANGED <<reg, ready, cmd, stopped, mSocket, unborn, mWorking>>
  BY DEF EpollWaitFails
<1>4. Held' /\ Phases'
  BY <1>1, <1>2, <1>3 DEF ReactorInv, Held, Phases, Deaf
<1> QED BY <1>2, <1>3, <1>4, ThreadInv DEF ReactorInv, Typed

(* dispatchEvent takes a report.                                           *)
LEMMA TakeReportInv ==
  ASSUME ReactorInv, NEW e \in thread.batch, TakeReport(e)
  PROVE  ReactorInv'
<1> DEFINE cur == IF reg.stubs[e.ptr].listener = "NULL" THEN NoReport ELSE e
<1>1. /\ thread' = [thread EXCEPT !.batch = @ \ {e}, !.cur = cur] /\ thread \in ThreadType
      /\ thread.at = "batch"
  BY DEF TakeReport, Between, ReactorInv, Typed
<1>2. cur \in ReportType /\ (cur.events # {} => reg.stubs[cur.ptr].live)
  <2>1. NoReport \in ReportType /\ NoReport.events = {}
    BY ReactorAssumption DEF NoReport, ReportType
  <2>2. e \in ReportType /\ reg.stubs[e.ptr].live
    BY <1>1 DEF ThreadType, ReactorInv, Held
  <2> QED BY <2>1, <2>2
<1> HIDE DEF cur
<1>3. /\ thread'.call = thread.call /\ thread' \in ThreadType /\ thread'.at = "batch" /\ thread'.batch = thread.batch \ {e}
      /\ thread'.cur = cur /\ thread'.copy = thread.copy
  BY <1>1, <1>2 DEF ThreadType
<1>4. UNCHANGED <<reg, ready, cmd, stopped, mSocket, unborn, mWorking>>
  BY DEF TakeReport
<1>5. Held' /\ Phases'
  BY <1>1, <1>2, <1>3, <1>4 DEF ReactorInv, Held, Phases, Deaf
<1> QED BY <1>3, <1>4, <1>5, ThreadInv DEF ReactorInv, Typed

(* dispatchEvent calls the listener.                                       *)
LEMMA CallListenerInv == ReactorInv /\ CallListener => ReactorInv'
<1> SUFFICES ASSUME ReactorInv, CallListener PROVE ReactorInv'
  OBVIOUS
<1> DEFINE c == First(thread.cur.events)
           cur == IF Listener = "NULL" \/ thread.cur.events = {c} THEN NoReport
                  ELSE [thread.cur EXCEPT !.events = @ \ {c}]
           call == IF Listener = "NULL" THEN NoCall ELSE [listener |-> Listener, what |-> c]
<1>1. /\ thread' = [thread EXCEPT !.cur = cur, !.call = call] /\ thread \in ThreadType
      /\ thread.at = "batch" /\ thread.cur.events # {}
  <2>1. thread' = [thread EXCEPT !.cur = cur, !.call = call]
    BY DEF CallListener
  <2>2. thread \in ThreadType /\ thread.at = "batch" /\ thread.cur.events # {}
    BY DEF CallListener, Between, ReactorInv, Typed
  <2> QED BY <2>1, <2>2
<1>2. thread.cur \in ReportType /\ thread.cur.ptr \in Stubs /\ reg.stubs[thread.cur.ptr].live
  BY <1>1 DEF ThreadType, ReportType, ReactorInv, Held
<1>3. Listener \in Listeners \cup {"NULL"}
  <2>1. reg.stubs[thread.cur.ptr] \in StubType
    BY <1>2 DEF ReactorInv, Typed, RegType
  <2> QED BY <2>1 DEF Listener, StubType
<1>4. call \in [listener : Listeners \cup {"NULL"}, what : {"none", "in", "out", "err", "check"}]
  BY <1>3 DEF NoCall, First
<1>5. cur \in ReportType /\ (cur.events # {} => cur.ptr = thread.cur.ptr)
  <2>1. NoReport \in ReportType /\ NoReport.events = {}
    BY ReactorAssumption DEF NoReport, ReportType
  <2>2. /\ [thread.cur EXCEPT !.events = @ \ {c}] \in ReportType
        /\ [thread.cur EXCEPT !.events = @ \ {c}].ptr = thread.cur.ptr
    BY <1>2 DEF ReportType
  <2> QED BY <2>1, <2>2
<1>9. Deaf => call.listener \in {"NULL", "reactor"}
  <2>1. Deaf => thread.cur.ptr = reg.mFd2Events[Cmd]
    BY <1>2 DEF Deaf, ReactorInv, Good, Kept
  <2>2. Deaf => reg.stubs[reg.mFd2Events[Cmd]].listener = "reactor"
    BY DEF Deaf, ReactorInv, Good, Owned
  <2> QED BY <2>1, <2>2 DEF Listener, NoCall
<1> HIDE DEF c, cur, call
<1>6. /\ thread'.call = call /\ thread' \in ThreadType /\ thread'.at = "batch" /\ thread'.batch = thread.batch
      /\ thread'.cur = cur /\ thread'.copy = thread.copy
  BY <1>1, <1>4, <1>5 DEF ThreadType
<1>7. UNCHANGED <<reg, ready, cmd, stopped, mSocket, unborn, mWorking>>
  BY DEF CallListener
<1>8. Held' /\ Phases'
  BY <1>1, <1>2, <1>5, <1>6, <1>7, <1>9 DEF ReactorInv, Held, Phases, Deaf
<1> QED BY <1>6, <1>7, <1>8, ThreadInv DEF ReactorInv, Typed

(* cleanDeletedEvents at the end of a round: the thread holds no pointer.  *)
LEMMA RoundInv == ReactorInv /\ (SkipCheck \/ EndCheck) => ReactorInv'
<1> SUFFICES ASSUME ReactorInv, SkipCheck \/ EndCheck PROVE ReactorInv'
  OBVIOUS
<1>1. /\ reg' = cleanDeletedEvents(reg) /\ thread' = EndRound(thread)
      /\ UNCHANGED <<ready, cmd, stopped, mSocket, unborn, mWorking>>
  BY DEF SkipCheck, EndCheck
<1>2. /\ thread \in ThreadType /\ thread.batch = {} /\ thread.cur.events = {} /\ thread.copy = {}
      /\ thread.call = NoCall /\ thread.at \in {"batch", "check"}
  BY DEF SkipCheck, EndCheck, BatchDone, Between, Checking, ReactorInv, Typed, Held
<1>3. Good(reg', mSocket) /\ reg'.mFd2Events = reg.mFd2Events /\ reg'.mDelEventStubs = {}
  <2> DEFINE v == cleanDeletedEvents(reg)
  <2>1. Good(v, mSocket) /\ v.mFd2Events = reg.mFd2Events /\ v.mDelEventStubs = {}
    BY CleanGood DEF ReactorInv
  <2> QED BY <1>1, <2>1
<1>4. Tun \in DOMAIN reg.mFd2Events \/ DOMAIN reg.mFd2Events = {Cmd}
  BY <1>2 DEF ReactorInv, Phases, Deaf
<1>5. /\ thread' \in ThreadType /\ thread'.at \in {"wait", "ended"} /\ thread'.batch = {}
      /\ thread'.cur.events = {} /\ thread'.copy = {} /\ thread'.call.listener = "NULL"
  BY <1>1, <1>2 DEF EndRound, ThreadType, At, NoCall
<1>6. Typed' /\ Held' /\ Phases'
  BY <1>1, <1>3, <1>4, <1>5 DEF ReactorInv, Typed, Good, Held, Phases, Deaf
<1> QED BY <1>1, <1>3, <1>6 DEF ReactorInv

(* dispatchCheck copies the stubs that are registered.                     *)
LEMMA BeginCheckInv == ReactorInv /\ BeginCheck => ReactorInv'
<1> SUFFICES ASSUME ReactorInv, BeginCheck PROVE ReactorInv'
  OBVIOUS
<1> DEFINE copy == Range(reg.mFd2Events)
<1>1. /\ thread' = [thread EXCEPT !.at = "check", !.copy = copy] /\ thread \in ThreadType
      /\ thread.at = "batch" /\ thread.batch = {} /\ thread.cur.events = {}
  BY DEF BeginCheck, BatchDone, Between, ReactorInv, Typed
<1>2. copy \in SUBSET Stubs /\ \A s \in copy : reg.stubs[s].live
  BY Entries DEF ReactorInv, Typed, RegType, Good, Kept, Range
<1> HIDE DEF copy
<1>3. /\ thread'.call = thread.call /\ thread' \in ThreadType /\ thread'.at = "check" /\ thread'.batch = {}
      /\ thread'.cur = thread.cur /\ thread'.copy = copy
  BY <1>1, <1>2 DEF ThreadType, At
<1>4. UNCHANGED <<reg, ready, cmd, stopped, mSocket, unborn, mWorking>>
  BY DEF BeginCheck
<1>5. Held' /\ Phases'
  BY <1>1, <1>2, <1>3, <1>4 DEF ReactorInv, Held, Phases, Deaf
<1> QED BY <1>3, <1>4, <1>5, ThreadInv DEF ReactorInv, Typed

(* dispatchCheck calls the listener of one of them.                        *)
LEMMA CheckStubInv ==
  ASSUME ReactorInv, NEW s \in thread.copy, CheckStub(s)
  PROVE  ReactorInv'
<1> DEFINE call == IF reg.stubs[s].listener = "NULL" THEN NoCall
                   ELSE [listener |-> reg.stubs[s].listener, what |-> "check"]
<1>1. /\ thread' = [thread EXCEPT !.copy = @ \ {s}, !.call = call] /\ thread \in ThreadType
      /\ thread.at = "check"
  BY DEF CheckStub, Checking, ReactorInv, Typed
<1>2. reg.stubs[s] \in StubType
  BY <1>1 DEF ThreadType, ReactorInv, Typed, RegType
<1>3. call \in [listener : Listeners \cup {"NULL"}, what : {"none", "in", "out", "err", "check"}]
  BY <1>2 DEF NoCall, StubType
<1>7. Deaf => call.listener \in {"NULL", "reactor"}
  <2>1. s \in Stubs /\ reg.stubs[s].live
    BY <1>1 DEF ThreadType, ReactorInv, Held
  <2>2. Deaf => s = reg.mFd2Events[Cmd]
    BY <2>1 DEF Deaf, ReactorInv, Good, Kept
  <2>3. Deaf => reg.stubs[reg.mFd2Events[Cmd]].listener = "reactor"
    BY DEF Deaf, ReactorInv, Good, Owned
  <2> QED BY <2>2, <2>3 DEF NoCall
<1> HIDE DEF call
<1>4. /\ thread'.call = call /\ thread' \in ThreadType /\ thread'.at = "check" /\ thread'.batch = thread.batch
      /\ thread'.cur = thread.cur /\ thread'.copy = thread.copy \ {s}
  BY <1>1, <1>3 DEF ThreadType
<1>5. UNCHANGED <<reg, ready, cmd, stopped, mSocket, unborn, mWorking>>
  BY DEF CheckStub
<1>6. Held' /\ Phases'
  BY <1>1, <1>4, <1>5, <1>7 DEF ReactorInv, Held, Phases, Deaf
<1> QED BY <1>4, <1>5, <1>6, ThreadInv DEF ReactorInv, Typed

(* The call of a handler returns.                                          *)
LEMMA ReturnInv ==
  ASSUME ReactorInv, ReadCmd \/ \E rest \in SUBSET {"in"} : HandlerReturns(rest)
  PROVE  ReactorInv'
<1>1. /\ thread' = [thread EXCEPT !.call = NoCall] /\ thread \in ThreadType
      /\ UNCHANGED <<reg, stopped, mSocket, unborn>>
  BY DEF ReadCmd, HandlerReturns, Return, ReactorInv, Typed
<1>2. /\ thread' \in ThreadType /\ thread'.at = thread.at /\ thread'.batch = thread.batch
      /\ thread'.cur = thread.cur /\ thread'.copy = thread.copy
      /\ thread'.call.listener = "NULL"
  BY <1>1 DEF ThreadType, NoCall
<1>3. cmd' \in Nat /\ mWorking' \in BOOLEAN
  <2>1. cmd \in Nat /\ mWorking \in BOOLEAN
    BY DEF ReactorInv, Typed
  <2>2. CASE ReadCmd
    <3>1. CASE thread.call.what = "in" /\ cmd > 0
      <4>1. cmd' = cmd - 1 /\ cmd > 0
        BY <2>2, <3>1 DEF ReadCmd
      <4>2. mWorking' = FALSE
        BY <2>2, <3>1 DEF ReadCmd
      <4>3. cmd' \in Nat
        BY <2>1, <4>1
      <4>4. mWorking' \in BOOLEAN
        BY <4>2
      <4> QED BY <4>3, <4>4
    <3>2. CASE ~(thread.call.what = "in" /\ cmd > 0)
      <4>1. cmd' = cmd /\ mWorking' = mWorking
        BY <2>2, <3>2 DEF ReadCmd
      <4> QED BY <2>1, <4>1
    <3> QED BY <3>1, <3>2
  <2>3. CASE \E rest \in SUBSET {"in"} : HandlerReturns(rest)
    <3>1. cmd' = cmd /\ mWorking' = mWorking
      BY <2>3 DEF HandlerReturns
    <3> QED BY <2>1, <3>1
  <2> QED BY <2>2, <2>3
<1>4. ready' \in [Fds -> SUBSET Conditions]
  <2>1. ready \in [Fds -> SUBSET Conditions]
    BY DEF ReactorInv, Typed
  <2>2. CASE ReadCmd
    BY <2>1, <2>2 DEF ReadCmd
  <2>3. ASSUME NEW rest \in SUBSET {"in"}, HandlerReturns(rest) PROVE ready' \in [Fds -> SUBSET Conditions]
    <3>1. \/ \E fd \in Fds : ready' = [ready EXCEPT ![fd] = ready[fd] \ rest]
          \/ ready' = ready
      BY <2>1, <2>3 DEF HandlerReturns
    <3> QED BY <2>1, <3>1
  <2> QED BY <2>2, <2>3
<1>5. Held' /\ Phases'
  BY <1>1, <1>2 DEF ReactorInv, Held, Phases, Deaf
<1> QED BY <1>1, <1>2, <1>3, <1>4, <1>5, ThreadInv

(* stop() and the kernel touch neither the registrations nor the thread.   *)
LEMMA OutsideInv ==
  ASSUME ReactorInv, Stop \/ \E fd \in Fds, c \in {"in", "err"} : Arrive(fd, c)
  PROVE  ReactorInv'
<1>1. UNCHANGED <<reg, mSocket, unborn, mWorking, thread>>
  BY DEF Stop, Arrive
<1>2. cmd' \in Nat /\ stopped' \in Nat /\ ready' \in [Fds -> SUBSET Conditions]
  BY DEF Stop, Arrive, ReactorInv, Typed, Conditions
<1>3. Typed'
  BY <1>1, <1>2 DEF ReactorInv, Typed
<1> QED BY <1>1, <1>3 DEF ReactorInv, Held, Phases, Deaf

(* VpnServer.stop closes the tun device: no registration changes.          *)
LEMMA CloseTunInv == ReactorInv /\ CloseTun => ReactorInv'
<1> SUFFICES ASSUME ReactorInv, CloseTun PROVE ReactorInv'
  OBVIOUS
<1>1. /\ Good(reg, mSocket) /\ reg.tun = "open"
      /\ UNCHANGED <<cmd, stopped, mSocket, unborn, mWorking, thread>>
  BY DEF ReactorInv, CloseTun
<1>2. /\ Good(reg', mSocket) /\ reg'.mFd2Events = reg.mFd2Events
      /\ reg'.mDelEventStubs = reg.mDelEventStubs /\ reg'.stubs = reg.stubs
  <2> DEFINE v == [reg EXCEPT !.tun = "closed", !.interest = Without(reg.interest, Tun)]
  <2>1. /\ Good(v, mSocket) /\ v.mFd2Events = reg.mFd2Events
        /\ v.mDelEventStubs = reg.mDelEventStubs /\ v.stubs = reg.stubs
    BY <1>1, CloseTunGood
  <2>2. reg' = v
    BY DEF CloseTun
  <2> HIDE DEF v
  <2> QED BY <2>1, <2>2
<1>3. reg'.tun = "closed"
  BY <1>1 DEF CloseTun, Good, RegType
<1>4. ready' \in [Fds -> SUBSET Conditions]
  BY DEF CloseTun, ReactorInv, Typed, Fds
<1>5. Typed'
  BY <1>1, <1>2, <1>4 DEF ReactorInv, Typed, Good
<1>6. Held' /\ Phases'
  BY <1>1, <1>2, <1>3 DEF ReactorInv, Held, Phases, Deaf
<1> QED BY <1>1, <1>2, <1>5, <1>6 DEF ReactorInv

(* Every step keeps the invariant.                                         *)
LEMMA NextInv == ReactorInv /\ [Next]_vars => ReactorInv'
<1> SUFFICES ASSUME ReactorInv, [Next]_vars PROVE ReactorInv'
  OBVIOUS
<1>1. CASE Start
  BY <1>1, StartInv
<1>2. CASE Loop
  BY <1>2, EpollWaitInv, EpollWaitFailsInv, TakeReportInv, CallListenerInv, RoundInv,
     BeginCheckInv, CheckStubInv DEF Loop
<1>3. CASE Handler
  BY <1>3, ReturnInv, OpenInv, ResumeInv, PauseInv, CloseInv, RouterWantsInv,
     RouterWrittenInv DEF Handler
<1>4. CASE AfterLoop
  BY <1>4, AfterLoopInv
<1>5. CASE Destroy
  BY <1>5, DestroyInv
<1>6. CASE Stop \/ \E fd \in Fds, c \in {"in", "err"} : Arrive(fd, c)
  BY <1>6, OutsideInv
<1>7. CASE UNCHANGED vars
  BY <1>7 DEF vars, ReactorInv, Typed, Held, Phases, Deaf
<1>8. CASE CloseTun
  BY <1>8, CloseTunInv
<1> QED BY <1>1, <1>2, <1>3, <1>4, <1>5, <1>6, <1>7, <1>8 DEF Next

-----------------------------------------------------------------------------
(* What the invariant gives                                                *)

(* Who points to a stub and whom it calls, in a state of the invariant.    *)
LEMMA Consequences ==
  ReactorInv => TypeOK /\ NoFreedStub /\ CallsOwner /\ InterestAgrees /\ StubsAccounted
<1> SUFFICES ASSUME ReactorInv
             PROVE  TypeOK /\ NoFreedStub /\ CallsOwner /\ InterestAgrees /\ StubsAccounted
  OBVIOUS
<1>1. /\ DOMAIN reg.mFd2Events \subseteq Fds /\ \A fd \in DOMAIN reg.mFd2Events : reg.mFd2Events[fd] \in Stubs
      /\ DOMAIN reg.interest \subseteq Fds /\ \A fd \in DOMAIN reg.interest : reg.interest[fd] \in ReportType
  BY Entries DEF ReactorInv, Typed, RegType
<1>2. TypeOK
  BY <1>1 DEF ReactorInv, Typed, RegType, ThreadType, TypeOK, Range
<1>3. NoFreedStub
  <2>1. \A s \in {e.ptr : e \in thread.batch} \cup thread.copy \cup
                 (IF thread.cur.events # {} THEN {thread.cur.ptr} ELSE {}) : reg.stubs[s].live
    BY DEF ReactorInv, Held
  <2>2. \A s \in Range(reg.mFd2Events) \cup reg.mDelEventStubs : reg.stubs[s].live
    BY DEF ReactorInv, Good, Kept, Range
  <2>3. \A e \in Range(reg.interest) : reg.stubs[e.ptr].live
    BY DEF ReactorInv, Good, Kept, Agrees, Range
  <2> QED BY <2>1, <2>2, <2>3 DEF NoFreedStub
<1>4. CallsOwner
  <2> SUFFICES ASSUME NEW s \in Stubs, reg.stubs[s].live, reg.stubs[s].listener # "NULL"
               PROVE  /\ reg.stubs[s].fd \in DOMAIN reg.mFd2Events
                      /\ reg.mFd2Events[reg.stubs[s].fd] = s
                      /\ \/ reg.stubs[s].fd = IF reg.stubs[s].listener = "reactor" THEN Cmd
                                              ELSE FdOf(reg.stubs[s].listener)
                         \/ reg.stubs[s].fd = Tun /\ TunReused
    BY DEF CallsOwner
  <2>1. PICK fd \in DOMAIN reg.mFd2Events : reg.mFd2Events[fd] = s
    BY DEF ReactorInv, Good, Kept
  <2>2. reg.stubs[s].fd = fd
    BY <2>1 DEF ReactorInv, Good, Kept
  <2>3. fd = Cmd \/ fd = Tun \/ fd \in Sockets
    BY <1>1 DEF Fds
  <2>4. LET l == reg.stubs[s].listener
        IN  /\ fd = Cmd => l = "reactor"
            /\ fd = Tun => l = "router" \/ TunReused
            /\ fd \in Sockets => l \in Handlers /\ mSocket[l] = fd
    BY <2>1 DEF ReactorInv, Good, Owned, TunReused
  <2> QED BY <2>1, <2>2, <2>3, <2>4, ReactorAssumption DEF FdOf
<1>5. InterestAgrees
  BY DEF ReactorInv, Good, Agrees, Forgotten, InterestAgrees
<1>6. StubsAccounted
  <2>1. Range(reg.mFd2Events) \cap reg.mDelEventStubs = {}
    BY DEF ReactorInv, Good, Kept, Range
  <2>2. IsInjective(reg.mFd2Events)
    BY DEF ReactorInv, Good, Kept, IsInjective
  <2> QED BY <2>1, <2>2 DEF ReactorInv, Good, Kept, Phases, StubsAccounted, Range
<1> QED BY <1>2, <1>3, <1>4, <1>5, <1>6

(* The invariant holds in every state.                                     *)
LEMMA AlwaysInv == Spec => []ReactorInv
<1> QED BY InitInv, NextInv, PTL DEF Spec

(* The reactor's state has its type.                                       *)
THEOREM ReactorTypeOK == Spec => []TypeOK
<1> QED BY AlwaysInv, Consequences, PTL

(* Whatever handlers register, pause and close while they are called, the  *)
(* stubs the thread, the kernel and the reactor point to are not deleted.  *)
THEOREM ReactorNoFreedStub == Spec => []NoFreedStub
<1> QED BY AlwaysInv, Consequences, PTL

(* A stub with a listener is registered, and the listener is the handler   *)
(* that has the descriptor open, also when a number is used again, but for *)
(* the tun device's number once a socket has had it.                       *)
THEOREM ReactorCallsOwner == Spec => []CallsOwner
<1> QED BY AlwaysInv, Consequences, PTL

(* The kernel watches what addEvent and delEvent have registered, but for  *)
(* the tun device once the service has closed it.                          *)
THEOREM ReactorInterestAgrees == Spec => []InterestAgrees
<1> QED BY AlwaysInv, Consequences, PTL

(* No stub is lost, registered twice or registered and on the list of      *)
(* those to delete, and a waiting thread has none left to delete.          *)
THEOREM ReactorStubsAccounted == Spec => []StubsAccounted
<1> QED BY AlwaysInv, Consequences, PTL
=============================================================================
