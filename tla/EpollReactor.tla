---------------------------- MODULE EpollReactor ----------------------------
(***************************************************************************)
(* The reactor: the registrations the handlers make, the kernel's epoll    *)
(* instance, and the thread that waits for events and calls the handlers.  *)
(* A handler may register, change and close descriptors while it is        *)
(* called, its own and those of others; a closed descriptor's number may   *)
(* come back at once for a new socket.  The tun device is closed by the    *)
(* service's main thread, which tells nobody, and its number too may come  *)
(* back for a socket.                                                      *)
(***************************************************************************)
EXTENDS Integers, FiniteSets, Functions

CONSTANTS Handlers,   \* TCPTunnels, UDPSessions and proxies, one socket each
          Sockets,    \* descriptors their sockets may get
          Stubs,      \* bound: addresses of EventStubs
          MAX_EVENTS, \* events one epoll_wait returns
          Stops       \* bound: calls of stop()

(* The command pipe, the tun device, and no descriptor.                    *)
Cmd == 0
Tun == 1
NoFd == -1

Fds == Sockets \cup {Cmd, Tun}

(* The tun device is open; it was closed; its number belongs to a socket;  *)
(* that socket has been closed too.                                        *)
TunStates == {"open", "closed", "taken", "freed"}

Listeners == Handlers \cup {"router", "reactor"}

ASSUME ReactorAssumption ==
  /\ {"router", "reactor", "NULL"} \cap Handlers = {}
  /\ Sockets \subseteq Nat \ {Cmd, Tun}
  /\ \E s, t \in Stubs : s # t    \* for the command pipe and the tun device
  /\ MAX_EVENTS \in Nat \ {0}
  /\ Stops \in Nat

VARIABLES reg,      \* the registrations, in the reactor and in the kernel
          ready,    \* what each open descriptor is ready for (kernel)
          cmd,      \* bytes in the command pipe
          stopped,  \* how often stop() was called
          mSocket,  \* each handler's descriptor
          unborn,   \* handlers that have not opened their socket
          mWorking,
          thread    \* where the reactor's thread is

vars == <<reg, ready, cmd, stopped, mSocket, unborn, mWorking, thread>>

Events == {"READ", "WRITE", "ERROR"}
ALL == Events
Conditions == {"in", "out", "err"}

StubType ==
  [live : BOOLEAN, fd : Fds, events : SUBSET Events, listener : Listeners \cup {"NULL"}]

ReportType == [ptr : Stubs, events : SUBSET Conditions]

-----------------------------------------------------------------------------
(* Registrations: r.stubs is the memory, r.mFd2Events and r.mDelEventStubs *)
(* are the reactor's, r.interest is the kernel's list, r.tun what the      *)
(* kernel has under the tun device's number.                               *)

Put(f, a, b) == [i \in DOMAIN f \cup {a} |-> IF i = a THEN b ELSE f[i]]

Without(f, a) == Restrict(f, DOMAIN f \ {a})

convertEvent(events) ==
  (IF "READ" \in events THEN {"in"} ELSE {}) \cup
  (IF "WRITE" \in events THEN {"out"} ELSE {})

(* Memory no stub is in.                                                   *)
Blank == [live |-> FALSE, fd |-> Cmd, events |-> {}, listener |-> "NULL"]

FreeStubs(r) == {s \in Stubs : ~r.stubs[s].live}

(* What EPOLL_CTL_MOD leaves: it fails for a descriptor not in the list.   *)
ctlModify(interest, fd, s, events) ==
  IF fd \in DOMAIN interest
  THEN Put(interest, fd, [ptr |-> s, events |-> convertEvent(events)])
  ELSE interest

(* Mutant: the kernel is not told of the new events.                       *)
Mut_modify(r, fd, events, listener) ==
  LET s == r.mFd2Events[fd]
  IN  [r EXCEPT !.stubs[s].events = @ \cup events, !.stubs[s].listener = listener]

(* addEvent for a descriptor that is registered.                           *)
modify(r, fd, events, listener) ==
  LET s == r.mFd2Events[fd]
  IN  [r EXCEPT !.stubs[s].events = @ \cup events,
                !.stubs[s].listener = listener,
                !.interest = ctlModify(@, fd, s, r.stubs[s].events \cup events)]

(* No file under the tun device's number.                                  *)
TunGone(r) == r.tun \in {"closed", "freed"}

(* addEvent for one that is not; the stub is deleted when EPOLL_CTL_ADD    *)
(* fails: the descriptor is in the list already, or is not open.           *)
register(r, fd, events, listener) ==
  LET s == CHOOSE c \in FreeStubs(r) : TRUE
  IN  IF fd \in DOMAIN r.interest \/ (fd = Tun /\ TunGone(r)) THEN r
      ELSE [r EXCEPT
              !.stubs[s] = [live |-> TRUE, fd |-> fd, events |-> events,
                            listener |-> listener],
              !.mFd2Events = Put(@, fd, s),
              !.interest = Put(@, fd, [ptr |-> s, events |-> convertEvent(events)])]

addEvent(r, fd, events, listener) ==
  IF fd \in DOMAIN r.mFd2Events
  THEN modify(r, fd, events, listener)
  ELSE register(r, fd, events, listener)

(* Mutant: the stub is deleted at once.                                    *)
Mut_removeDeletes(r, fd) ==
  [r EXCEPT !.stubs[r.mFd2Events[fd]].live = FALSE,
            !.mFd2Events = Without(@, fd),
            !.interest = Without(@, fd)]

(* Mutant: the stub keeps its listener.                                    *)
Mut_removeKeeps(r, fd) ==
  [r EXCEPT !.mDelEventStubs = @ \cup {r.mFd2Events[fd]},
            !.mFd2Events = Without(@, fd),
            !.interest = Without(@, fd)]

(* The last event is gone: the stub stays, without its listener, until the *)
(* end of the round.                                                       *)
remove(r, fd) ==
  [r EXCEPT !.stubs[r.mFd2Events[fd]].listener = "NULL",
            !.mDelEventStubs = @ \cup {r.mFd2Events[fd]},
            !.mFd2Events = Without(@, fd),
            !.interest = Without(@, fd)]

(* A failing epoll_ctl leaves the stub changed and registered.             *)
delEvent(r, fd, events) ==
  IF fd \notin DOMAIN r.mFd2Events THEN r
  ELSE LET s == r.mFd2Events[fd]
           v == [r EXCEPT !.stubs[s].events = @ \ events]
       IN  IF v.stubs[s].events = {} /\ fd \in DOMAIN r.interest
           THEN remove(v, fd)
           ELSE [v EXCEPT !.interest = ctlModify(@, fd, s, v.stubs[s].events)]

containEvent(r, fd, events) ==
  /\ fd \in DOMAIN r.mFd2Events
  /\ convertEvent(events) \subseteq convertEvent(r.stubs[r.mFd2Events[fd]].events)

(* SAFE_CLOSE_SOCKET: the kernel forgets a descriptor that is closed.      *)
closeSocket(r, fd) ==
  LET v == delEvent(r, fd, ALL)
  IN  [v EXCEPT !.interest = Without(@, fd),
                !.tun = IF fd = Tun THEN "freed" ELSE @]

Delete(stubs, dead) ==
  [s \in Stubs |-> IF s \in dead THEN Blank ELSE stubs[s]]

(* Mutant: the list is cleared and its stubs are not deleted.              *)
Mut_cleanDeletedEvents(r) == [r EXCEPT !.mDelEventStubs = {}]

cleanDeletedEvents(r) ==
  [r EXCEPT !.stubs = Delete(@, r.mDelEventStubs), !.mDelEventStubs = {}]

(* The destructor deletes what is still registered, but for the stubs of   *)
(* descriptors the kernel has forgotten: their EPOLL_CTL_DEL fails.        *)
destroy(r) ==
  LET gone == DOMAIN r.mFd2Events \cap DOMAIN r.interest
  IN  [r EXCEPT !.stubs = Delete(@, {r.mFd2Events[fd] : fd \in gone}),
                !.mFd2Events = Restrict(@, DOMAIN @ \ gone), !.interest = <<>>]

EmptyReg ==
  [stubs |-> [s \in Stubs |-> Blank], mFd2Events |-> <<>>, mDelEventStubs |-> {},
   interest |-> <<>>, tun |-> "open"]

-----------------------------------------------------------------------------
(* The thread: where start() is, the reports of epoll_wait not dispatched  *)
(* yet, the one being dispatched with the calls it still asks for, the     *)
(* stubs dispatchCheck has copied, and the handler being called.           *)
NoReport == [ptr |-> CHOOSE s \in Stubs : TRUE, events |-> {}]
NoCall == [listener |-> "NULL", what |-> "none"]

At == {"idle", "wait", "batch", "check", "ended", "done", "destroyed"}

TypeOK ==
  /\ reg.stubs \in [Stubs -> StubType]
  /\ DOMAIN reg.mFd2Events \subseteq Fds /\ Range(reg.mFd2Events) \subseteq Stubs
  /\ reg.mDelEventStubs \subseteq Stubs
  /\ DOMAIN reg.interest \subseteq Fds /\ Range(reg.interest) \subseteq ReportType
  /\ reg.tun \in TunStates
  /\ ready \in [Fds -> SUBSET Conditions]
  /\ cmd \in Nat /\ stopped \in Nat
  /\ mSocket \in [Handlers -> Sockets \cup {Tun, NoFd}]
  /\ unborn \subseteq Handlers
  /\ mWorking \in BOOLEAN
  /\ thread.at \in At
  /\ thread.batch \subseteq ReportType /\ thread.cur \in ReportType
  /\ thread.copy \subseteq Stubs
  /\ thread.call.listener \in Listeners \cup {"NULL"}

(* The constructor has registered the command pipe.                        *)
Init ==
  /\ reg = addEvent(EmptyReg, Cmd, {"READ"}, "reactor")
  /\ ready = [fd \in Fds |-> IF fd = Tun THEN {"out"} ELSE {}]
  /\ cmd = 0 /\ stopped = 0
  /\ mSocket = [h \in Handlers |-> NoFd]
  /\ unborn = Handlers
  /\ mWorking = FALSE
  /\ thread = [at |-> "idle", batch |-> {}, cur |-> NoReport, copy |-> {},
               call |-> NoCall]

(* Router::start registers the tun device and starts the loop.             *)
Start ==
  /\ thread.at = "idle"
  /\ reg' = addEvent(reg, Tun, {"READ"}, "router")
  /\ mWorking' = TRUE
  /\ thread' = [thread EXCEPT !.at = "wait"]
  /\ UNCHANGED <<ready, cmd, stopped, mSocket, unborn>>

(* stop(), from any thread, at any time before the reactor is deleted.     *)
Stop ==
  /\ stopped < Stops /\ thread.at # "destroyed"
  /\ cmd' = cmd + 1 /\ stopped' = stopped + 1
  /\ UNCHANGED <<reg, ready, mSocket, unborn, mWorking, thread>>

(* VpnServer.stop closes the tun device, from the main thread and at any   *)
(* time: the kernel forgets the descriptor, the reactor does not.          *)
CloseTun ==
  /\ reg.tun = "open" /\ thread.at # "destroyed"
  /\ reg' = [reg EXCEPT !.tun = "closed", !.interest = Without(@, Tun)]
  /\ ready' = [ready EXCEPT ![Tun] = {}]
  /\ UNCHANGED <<cmd, stopped, mSocket, unborn, mWorking, thread>>

-----------------------------------------------------------------------------
(* The kernel (external)                                                   *)

IsSocket(fd) == \E h \in Handlers : mSocket[h] = fd

IsOpen(fd) == (fd = Tun /\ reg.tun = "open") \/ IsSocket(fd)

(* Data arrives, or the peer resets; epoll_wait is the only one to see it. *)
Arrive(fd, c) ==
  /\ thread.at = "wait"
  /\ fd # Cmd /\ IsOpen(fd)
  /\ c = "err" => IsSocket(fd)
  /\ c \notin ready[fd]
  /\ ready' = [ready EXCEPT ![fd] = @ \cup {c}]
  /\ UNCHANGED <<reg, cmd, stopped, mSocket, unborn, mWorking, thread>>

Condition(fd) == IF fd # Cmd THEN ready[fd] ELSE IF cmd > 0 THEN {"in"} ELSE {}

(* Errors are reported whether or not they were asked for.                 *)
Reported(fd) == Condition(fd) \cap (reg.interest[fd].events \cup {"err"})

ReadyFds == {fd \in DOMAIN reg.interest : Reported(fd) # {}}

-----------------------------------------------------------------------------
(* epoll_wait returns the reports for chosen; none when it times out.      *)
EpollWait(chosen) ==
  /\ thread.at = "wait"
  /\ chosen \subseteq ReadyFds
  /\ \/ chosen = ReadyFds /\ Cardinality(chosen) <= MAX_EVENTS
     \/ Cardinality(chosen) = MAX_EVENTS
  /\ thread' = [thread EXCEPT
       !.at = "batch",
       !.batch = {[ptr |-> reg.interest[fd].ptr, events |-> Reported(fd)] : fd \in chosen}]
  /\ UNCHANGED <<reg, ready, cmd, stopped, mSocket, unborn, mWorking>>

(* epoll_wait fails for good and the loop is left.                         *)
EpollWaitFails ==
  /\ thread.at = "wait"
  /\ thread' = [thread EXCEPT !.at = "ended"]
  /\ UNCHANGED <<reg, ready, cmd, stopped, mSocket, unborn, mWorking>>

Between == thread.at = "batch" /\ thread.call = NoCall

(* dispatchEvent takes the next report; its listener may have gone.        *)
TakeReport(e) ==
  /\ Between
  /\ thread.cur.events = {}
  /\ e \in thread.batch
  /\ thread' = [thread EXCEPT
       !.batch = @ \ {e},
       !.cur = IF reg.stubs[e.ptr].listener = "NULL" THEN NoReport ELSE e]
  /\ UNCHANGED <<reg, ready, cmd, stopped, mSocket, unborn, mWorking>>

(* onReadable comes before onWritable, and that before onException.        *)
First(events) ==
  IF "in" \in events THEN "in" ELSE IF "out" \in events THEN "out" ELSE "err"

Listener == reg.stubs[thread.cur.ptr].listener

(* dispatchEvent calls the listener, if the calls before left one.         *)
CallListener ==
  /\ Between
  /\ thread.cur.events # {}
  /\ LET c == First(thread.cur.events)
     IN  thread' = [thread EXCEPT
           !.cur = IF Listener = "NULL" \/ thread.cur.events = {c} THEN NoReport
                   ELSE [thread.cur EXCEPT !.events = @ \ {c}],
           !.call = IF Listener = "NULL" THEN NoCall
                    ELSE [listener |-> Listener, what |-> c]]
  /\ UNCHANGED <<reg, ready, cmd, stopped, mSocket, unborn, mWorking>>

(* cleanDeletedEvents, and the loop's condition.                           *)
EndRound(at) == IF mWorking THEN [at EXCEPT !.at = "wait"] ELSE [at EXCEPT !.at = "ended"]

BatchDone == Between /\ thread.batch = {} /\ thread.cur.events = {}

(* The last check was not long ago.                                        *)
SkipCheck ==
  /\ BatchDone
  /\ reg' = cleanDeletedEvents(reg)
  /\ thread' = EndRound(thread)
  /\ UNCHANGED <<ready, cmd, stopped, mSocket, unborn, mWorking>>

(* dispatchCheck copies the stubs that are registered.                     *)
BeginCheck ==
  /\ BatchDone
  /\ thread' = [thread EXCEPT !.at = "check", !.copy = Range(reg.mFd2Events)]
  /\ UNCHANGED <<reg, ready, cmd, stopped, mSocket, unborn, mWorking>>

Checking == thread.at = "check" /\ thread.call = NoCall

(* It calls them in the order of their descriptors.                        *)
CheckStub(s) ==
  /\ Checking
  /\ s \in thread.copy
  /\ \A t \in thread.copy : reg.stubs[s].fd <= reg.stubs[t].fd
  /\ thread' = [thread EXCEPT
       !.copy = @ \ {s},
       !.call = IF reg.stubs[s].listener = "NULL" THEN NoCall
                ELSE [listener |-> reg.stubs[s].listener, what |-> "check"]]
  /\ UNCHANGED <<reg, ready, cmd, stopped, mSocket, unborn, mWorking>>

EndCheck ==
  /\ Checking
  /\ thread.copy = {}
  /\ reg' = cleanDeletedEvents(reg)
  /\ thread' = EndRound(thread)
  /\ UNCHANGED <<ready, cmd, stopped, mSocket, unborn, mWorking>>

-----------------------------------------------------------------------------
(* The call of a handler                                                   *)

Called == thread.call.listener
InHandler == Called \in Handlers \cup {"router"}

Return == thread' = [thread EXCEPT !.call = NoCall]

(* Mutant: the command is read and the loop goes on.                       *)
Mut_ReadCmd ==
  /\ Called = "reactor"
  /\ cmd' = IF thread.call.what = "in" /\ cmd > 0 THEN cmd - 1 ELSE cmd
  /\ Return
  /\ UNCHANGED <<reg, ready, stopped, mSocket, unborn, mWorking>>

(* The reactor's own handler: onReadable reads one command.                *)
ReadCmd ==
  /\ Called = "reactor"
  /\ IF thread.call.what = "in" /\ cmd > 0
     THEN cmd' = cmd - 1 /\ mWorking' = FALSE
     ELSE UNCHANGED <<cmd, mWorking>>
  /\ Return
  /\ UNCHANGED <<reg, ready, stopped, mSocket, unborn>>

FdOf(l) == IF l = "router" THEN Tun ELSE mSocket[l]

(* A handler returns; one that was told to read may have read everything.  *)
HandlerReturns(rest) ==
  /\ InHandler
  /\ LET fd == FdOf(Called)
     IN  IF thread.call.what = "in" /\ fd \in Fds
         THEN ready' = [ready EXCEPT ![fd] = @ \ rest]
         ELSE rest = {} /\ UNCHANGED ready
  /\ Return
  /\ UNCHANGED <<reg, cmd, stopped, mSocket, unborn, mWorking>>

(* TCPTunnel::establish, Socks5Proxy and UDPSession: a new socket, as long *)
(* as the bound leaves an address for its stub.  It may get the number the *)
(* tun device had: its addEvent then finds the Router's stub.              *)
Open(h, fd) ==
  /\ InHandler
  /\ h \in unborn /\ ~IsOpen(fd) /\ FreeStubs(reg) # {}
  /\ reg' = addEvent([reg EXCEPT !.tun = IF fd = Tun THEN "taken" ELSE @], fd, ALL, h)
  /\ mSocket' = [mSocket EXCEPT ![h] = fd]
  /\ unborn' = unborn \ {h}
  /\ ready' = [ready EXCEPT ![fd] = {"out"}]
  /\ UNCHANGED <<cmd, stopped, mWorking, thread>>

(* requestSendData and resumeReceiveData.                                  *)
Resume(h, ev) ==
  /\ InHandler
  /\ mSocket[h] # NoFd
  /\ reg' = addEvent(reg, mSocket[h], {ev}, h)
  /\ UNCHANGED <<ready, cmd, stopped, mSocket, unborn, mWorking, thread>>

(* pauseSendData and pauseReceiveData.                                     *)
Pause(h, ev) ==
  /\ InHandler
  /\ mSocket[h] # NoFd
  /\ reg' = delEvent(reg, mSocket[h], {ev})
  /\ UNCHANGED <<ready, cmd, stopped, mSocket, unborn, mWorking, thread>>

(* A session is closed; its handler may be deleted from then on.           *)
Close(h) ==
  /\ InHandler \/ thread.at = "done"
  /\ mSocket[h] # NoFd
  /\ reg' = closeSocket(reg, mSocket[h])
  /\ ready' = [ready EXCEPT ![mSocket[h]] = {}]
  /\ mSocket' = [mSocket EXCEPT ![h] = NoFd]
  /\ UNCHANGED <<cmd, stopped, unborn, mWorking, thread>>

(* Router::onSyncEvent, in any handler's call.                             *)
RouterWants ==
  /\ InHandler
  /\ ~containEvent(reg, Tun, {"WRITE"})
  /\ reg' = addEvent(reg, Tun, {"WRITE"}, "router")
  /\ UNCHANGED <<ready, cmd, stopped, mSocket, unborn, mWorking, thread>>

(* The end of Router::onWritable.                                          *)
RouterWritten ==
  /\ Called = "router" /\ thread.call.what = "out"
  /\ reg' = delEvent(reg, Tun, {"WRITE"})
  /\ UNCHANGED <<ready, cmd, stopped, mSocket, unborn, mWorking, thread>>

-----------------------------------------------------------------------------
(* Router::start after the loop; the tun device may have been closed.      *)
AfterLoop ==
  /\ thread.at = "ended"
  /\ reg' = delEvent(reg, Tun, ALL)
  /\ thread' = [thread EXCEPT !.at = "done"]
  /\ UNCHANGED <<ready, cmd, stopped, mSocket, unborn, mWorking>>

(* Router::~Router has released the sessions and deletes the reactor.      *)
Destroy ==
  /\ thread.at = "done"
  /\ \A h \in Handlers : mSocket[h] = NoFd
  /\ reg' = destroy(reg)
  /\ thread' = [thread EXCEPT !.at = "destroyed"]
  /\ UNCHANGED <<ready, cmd, stopped, mSocket, unborn, mWorking>>

Loop ==
  \/ \E chosen \in SUBSET ReadyFds : EpollWait(chosen)
  \/ EpollWaitFails
  \/ \E e \in thread.batch : TakeReport(e)
  \/ CallListener
  \/ SkipCheck
  \/ BeginCheck
  \/ \E s \in thread.copy : CheckStub(s)
  \/ EndCheck

Handler ==
  \/ ReadCmd
  \/ \E rest \in SUBSET {"in"} : HandlerReturns(rest)
  \/ \E h \in Handlers, fd \in Sockets \cup {Tun} : Open(h, fd)
  \/ \E h \in Handlers, ev \in {"READ", "WRITE"} : Resume(h, ev) \/ Pause(h, ev)
  \/ \E h \in Handlers : Close(h)
  \/ RouterWants
  \/ RouterWritten

Next ==
  \/ Start \/ Loop \/ Handler \/ AfterLoop \/ Destroy
  \/ Stop \/ CloseTun
  \/ \E fd \in Fds, c \in {"in", "err"} : Arrive(fd, c)

Spec == Init /\ [][Next]_vars

(* The thread goes on, and handlers return.  When more descriptors are     *)
(* ready than epoll_wait returns, the kernel takes them in turn.           *)
Fairness ==
  /\ WF_vars(Start \/ Loop)
  /\ WF_vars(ReadCmd \/ \E rest \in SUBSET {"in"} : HandlerReturns(rest))
  /\ \A fd \in Fds : SF_vars(\E chosen \in SUBSET ReadyFds : fd \in chosen /\ EpollWait(chosen))

FairSpec == Spec /\ Fairness

-----------------------------------------------------------------------------
(* Properties                                                              *)

(* Every stub the thread or the kernel still points to is live: a handler  *)
(* that closes a descriptor while its report waits in the batch, or while  *)
(* its stub waits in the copy of dispatchCheck, does not pull the memory   *)
(* from under dispatchEvent.                                               *)
NoFreedStub ==
  \A s \in {e.ptr : e \in thread.batch \cup Range(reg.interest)}
             \cup thread.copy \cup Range(reg.mFd2Events) \cup reg.mDelEventStubs
             \cup (IF thread.cur.events # {} THEN {thread.cur.ptr} ELSE {}) :
     reg.stubs[s].live

(* The tun device's number has been given to a socket.                     *)
TunReused == reg.tun \in {"taken", "freed"}

(* A stub that still has a listener is the one registered for its          *)
(* descriptor, and the listener is the handler that has the descriptor     *)
(* open: no report reaches a handler that is gone, nor the next owner of a *)
(* descriptor number that was closed and opened again in the same batch.   *)
(* The second half excepts the tun device's number once a socket has it:   *)
(* the Router's stub is then the socket's, and stays when that is closed.  *)
CallsOwner ==
  \A s \in Stubs :
     LET st == reg.stubs[s]
     IN  st.live /\ st.listener # "NULL" =>
           /\ st.fd \in DOMAIN reg.mFd2Events /\ reg.mFd2Events[st.fd] = s
           /\ \/ st.fd = IF st.listener = "reactor" THEN Cmd ELSE FdOf(st.listener)
              \/ st.fd = Tun /\ TunReused

(* What the reactor has registered is what the kernel watches, so that     *)
(* containEvent, on which Router::onSyncEvent relies to be called, tells   *)
(* the truth and no epoll_ctl of addEvent and delEvent fails; but for the  *)
(* tun device once VpnServer.stop has closed it, whose registration stays  *)
(* behind.                                                                 *)
InterestAgrees ==
  thread.at # "destroyed" =>
    /\ DOMAIN reg.interest =
         DOMAIN reg.mFd2Events \ (IF reg.tun = "open" THEN {} ELSE {Tun})
    /\ \A fd \in DOMAIN reg.interest :
          /\ reg.interest[fd].ptr = reg.mFd2Events[fd]
          /\ reg.interest[fd].events =
               convertEvent(reg.stubs[reg.mFd2Events[fd]].events)

(* Every stub is registered or on the list of those to delete, never both, *)
(* and never for two descriptors; the list is empty whenever the thread    *)
(* waits.                                                                  *)
StubsAccounted ==
  /\ \A s \in Stubs : reg.stubs[s].live =>
       s \in Range(reg.mFd2Events) \cup reg.mDelEventStubs
  /\ Range(reg.mFd2Events) \cap reg.mDelEventStubs = {}
  /\ IsInjective(reg.mFd2Events)
  /\ thread.at = "wait" => reg.mDelEventStubs = {}

Over == thread.at \in {"ended", "done", "destroyed"}

(* stop() ends the loop, called before start() too, and however many other *)
(* descriptors are ready.                                                  *)
StopHonoured == stopped > 0 ~> Over

CanRead(h) ==
  /\ mSocket[h] \in DOMAIN reg.mFd2Events \ {Tun}
  /\ "READ" \in reg.stubs[reg.mFd2Events[mSocket[h]]].events
  /\ "in" \in ready[mSocket[h]]

(* Level-triggered: a handler that has asked to read and can read is told, *)
(* unless the loop ends or the handler pauses first.  A socket that got    *)
(* the tun device's number is not: the kernel does not watch it.           *)
Served ==
  \A h \in Handlers :
     CanRead(h) ~> Over \/ ~CanRead(h) \/ thread.call = [listener |-> h, what |-> "in"]
=============================================================================
