----------------------------- MODULE VpnService -----------------------------
(***************************************************************************)
(* The life of the VPN: the app's requests (NetCoreIface), the service     *)
(* (VpnServer) on the main thread, the VPN thread that blocks in the       *)
(* native start() (VpnCore, VpnIface, Router), and the background thread   *)
(* that loads and saves the configuration (VpnConfig).  The main thread    *)
(* takes intents, notices and posted runnables from one queue.  The system *)
(* may destroy the service, whose thread then runs on, and kill the        *)
(* process, at any time.                                                   *)
(***************************************************************************)
EXTENDS VpnConfig, FiniteSets, SequencesExt

CONSTANTS Threads,  \* bound: VPN threads of one process, as positive numbers
          Budgets   \* bounds on the app and the system, one of which holds

(* How often the app asks, updates the configuration and calls             *)
(* setListener, and how often the system kills the process and destroys    *)
(* the service.                                                            *)
Budget == [calls : Nat, updates : Nat, listeners : Nat, kills : Nat, destroys : Nat]

ASSUME ServiceAssumption ==
  /\ Threads \subseteq Nat \ {0} /\ Threads # {}
  /\ Budgets \subseteq Budget

VARIABLES conf,    \* the configuration, see VpnConfig
          looper,  \* the main thread's queue
          main,    \* where onStartCommand is: "idle", "test", "use", "close"
          svr,     \* VpnServer: mThread, mFd, sRunning; VpnCore: sVpnSvr is set
          orphans, \* the threads of services that were destroyed
          pc,      \* where each VPN thread is in run()
          tun,     \* each thread's tun descriptor: "none", "open", "closed"
          jni,     \* VpnIface: sRouter, the routers alive, stop commands sent
          app,     \* VpnCore: sListener is set; what the app asked for, was told
          user,    \* what the user set last, and what became of it
          misuse,  \* stop() went through a router that was not there
          torn,    \* a service of this process was destroyed with its thread running
          left     \* what the bounds still allow

vars == <<conf, looper, main, svr, orphans, pc, tun, jni, app, user, misuse, torn, left>>

(* run() from its start to the end of the thread.                          *)
Places == {"off", "prepare", "check", "getFd", "enter", "init", "loop",
           "delete", "deleted", "return", "end"}

(* start() was announced, and its end was not.                             *)
Announced == {"enter", "init", "loop", "delete", "deleted", "return"}

Intents == {"START", "STOP"}
Notices == {"VPN_START", "VPN_STOP"}

Msg(what) == [what |-> what]
Saved(task) == [what |-> "SAVED", key |-> task.key, value |-> task.value]

ThreadIds == Threads \cup {0}

TypeOK ==
  /\ conf.ctrls \in Strategies
  /\ \A s \in {conf.sSP, conf.file} : s.ctrls \in Serialised /\ s.core \in Values \cup {""}
  /\ conf.sConfigs.core \in Values \cup {"", "absent"}
  /\ conf.settings \in Values \cup {"absent"}
  /\ \A i \in 1..Len(looper) :
       looper[i].what \in Intents \cup Notices \cup {"LOADED", "SAVED"}
  /\ main \in {"idle", "test", "use", "close"}
  /\ svr \in [mThread : ThreadIds, mFd : ThreadIds, sRunning : BOOLEAN,
             sVpnSvr : BOOLEAN]
  /\ pc \in [Threads -> Places]
  /\ tun \in [Threads -> {"none", "open", "closed"}]
  /\ jni \in [sRouter : ThreadIds, live : SUBSET Threads, cmd : SUBSET Threads]
  /\ orphans \subseteq Threads
  /\ misuse \in BOOLEAN /\ torn \in BOOLEAN

(* What a new process starts from; the file outlives it.                   *)
Boot(file) ==
  [conf |-> Booted(file),
   svr  |-> [mThread |-> 0, mFd |-> 0, sRunning |-> FALSE, sVpnSvr |-> FALSE],
   pc   |-> [t \in Threads |-> "off"],
   tun  |-> [t \in Threads |-> "none"],
   jni  |-> [sRouter |-> 0, live |-> {}, cmd |-> {}],
   app  |-> [listener |-> FALSE, enabled |-> FALSE, asked |-> "nothing",
             hasty |-> FALSE, late |-> FALSE]]

Unset == [core |-> "", ctrls |-> {}]

Init ==
  /\ conf = Boot(Unset).conf /\ svr = Boot(Unset).svr /\ pc = Boot(Unset).pc
  /\ tun = Boot(Unset).tun /\ jni = Boot(Unset).jni /\ app = Boot(Unset).app
  /\ looper = <<>> /\ main = "idle" /\ orphans = {} /\ misuse = FALSE /\ torn = FALSE
  /\ user = [want |-> [core |-> "", ctrls |-> NoCtrls],
             loaded |-> FALSE, early |-> FALSE, lost |-> FALSE, failed |-> FALSE]
  /\ left \in Budgets

(* Something set is not in the file.                                       *)
Unsaved ==
  \/ conf.file # conf.sSP
  \/ \E i \in 1..Len(conf.bg) : conf.bg[i].task = "save"

(* The process is gone, and a new one is started.  The user still wants    *)
(* what was set; what was not in the file is lost.                         *)
Reboot ==
  LET b == Boot(conf.file)
  IN  /\ conf' = b.conf /\ svr' = b.svr /\ pc' = b.pc /\ tun' = b.tun
      /\ jni' = b.jni /\ app' = b.app
      /\ looper' = <<>> /\ main' = "idle" /\ orphans' = {}
      /\ misuse' = FALSE /\ torn' = FALSE
      /\ user' = [user EXCEPT !.loaded = FALSE, !.failed = FALSE, !.lost = @ \/ Unsaved]

Kill ==
  /\ left.kills > 0 /\ left' = [left EXCEPT !.kills = @ - 1]
  /\ Reboot

(* The VPN is revoked, or the service stops itself for want of a           *)
(* notification.  The next intent makes a new service, whose mThread and   *)
(* mFd are null; a thread of the old one runs on.                          *)
Destroy ==
  /\ main = "idle"
  /\ left.destroys > 0 /\ left' = [left EXCEPT !.destroys = @ - 1]
  /\ svr' = [svr EXCEPT !.mThread = 0, !.mFd = 0]
  /\ orphans' = orphans \cup ({svr.mThread} \ {0})
  /\ torn' = (torn \/ svr.mThread # 0)
  /\ UNCHANGED <<conf, looper, main, pc, tun, jni, app, user, misuse>>

-----------------------------------------------------------------------------
(* The app, on the main thread.                                            *)

(* NetCoreIface.init.                                                      *)
AppInit ==
  /\ main = "idle" /\ ~conf.sInited
  /\ conf' = init(conf)
  /\ UNCHANGED <<looper, main, svr, orphans, pc, tun, jni, app, user, misuse, torn, left>>

(* setListener, by the app: the new listener has heard nothing, and it is  *)
(* late when a run is announced or a notice is on its way.                 *)
Underway ==
  \/ \E t \in Threads : pc[t] \in Announced
  \/ \E i \in 1..Len(looper) : looper[i].what \in Notices

setListener ==
  /\ left.listeners > 0 /\ left' = [left EXCEPT !.listeners = @ - 1]
  /\ app' = [app EXCEPT !.listener = TRUE, !.enabled = FALSE,
                        !.late = Underway, !.hasty = @ \/ Underway]
  /\ UNCHANGED <<conf, looper, main, svr, orphans, pc, tun, jni, user, misuse, torn>>

(* Only a WeakReference holds the listener, which may be collected.        *)
LoseListener ==
  /\ app.listener
  /\ app' = [app EXCEPT !.listener = FALSE, !.hasty = @ \/ app.asked # "nothing"]
  /\ UNCHANGED <<conf, looper, main, svr, orphans, pc, tun, jni, user, misuse, torn, left>>

(* A request is hasty when the last one has not been answered, or asks for *)
(* what there is, or no listener is there for the answer.                  *)
Ask(what, pointless) ==
  /\ main = "idle" /\ conf.sInited /\ left.calls > 0
  /\ left' = [left EXCEPT !.calls = @ - 1]
  /\ looper' = Append(looper, Msg(what))
  /\ app' = [app EXCEPT !.asked = what,
                        !.hasty = \/ @ \/ pointless \/ ~app.listener
                                  \/ app.asked # "nothing"]
  /\ UNCHANGED <<conf, main, svr, orphans, pc, tun, jni, user, misuse, torn>>

startVpn == Ask("START", app.enabled)

stopVpn == svr.sRunning /\ Ask("STOP", ~app.enabled)

(* An update is early when the loaded strategies are not in place yet.     *)
Update(c, want) ==
  /\ conf.sInited /\ left.updates > 0
  /\ left' = [left EXCEPT !.updates = @ - 1]
  /\ conf' = c
  /\ user' = [user EXCEPT !.want = want, !.early = @ \/ ~user.loaded]
  /\ UNCHANGED <<looper, main, svr, orphans, pc, tun, jni, app, misuse, torn>>

AppSetConfig(value) ==
  Update(setConfig(conf, value), [user.want EXCEPT !.core = value])

AppUpdateCtrl(target, ctrl) ==
  Update(updateCtrl(conf, target, ctrl), [user.want EXCEPT !.ctrls[target] = ctrl])

-----------------------------------------------------------------------------
(* The main thread: what it takes from its queue.                          *)

Take(what) ==
  /\ main = "idle" /\ looper # <<>> /\ Head(looper).what = what
  /\ looper' = Tail(looper)

NewThread == CHOOSE t \in Threads : pc[t] = "off"

(* Mutant: a thread for every START.                                       *)
Mut_onStart ==
  /\ Take("START") /\ \E t \in Threads : pc[t] = "off"
  /\ conf' = init(conf)
  /\ svr' = [svr EXCEPT !.sRunning = TRUE, !.mThread = NewThread]
  /\ pc' = [pc EXCEPT ![NewThread] = "prepare"]
  /\ UNCHANGED <<main, orphans, tun, jni, app, user, misuse, torn, left>>

(* onStartCommand with ACT_START; mThread is the service's own field.      *)
onStart ==
  /\ Take("START")
  /\ conf' = init(conf)
  /\ IF svr.mThread = 0
     THEN /\ \E t \in Threads : pc[t] = "off"
          /\ svr' = [svr EXCEPT !.sRunning = TRUE, !.mThread = NewThread]
          /\ pc' = [pc EXCEPT ![NewThread] = "prepare"]
     ELSE svr' = [svr EXCEPT !.sRunning = TRUE] /\ UNCHANGED pc
  /\ UNCHANGED <<main, orphans, tun, jni, app, user, misuse, torn, left>>

(* onStartCommand with ACT_STOP: terminate() and the native stop(), which  *)
(* tests sRouter, uses it, and returns to the service's stop().            *)
onStop ==
  /\ Take("STOP")
  /\ conf' = init(conf) /\ main' = "test"
  /\ svr' = [svr EXCEPT !.sVpnSvr = FALSE]
  /\ UNCHANGED <<orphans, pc, tun, jni, app, user, misuse, torn, left>>

TestRouter ==
  /\ main = "test"
  /\ main' = IF jni.sRouter = 0 THEN "close" ELSE "use"
  /\ UNCHANGED <<conf, looper, svr, orphans, pc, tun, jni, app, user, misuse, torn, left>>

(* Mutant: a command that comes before the loop is dropped.                *)
Mut_UseRouter ==
  LET r == jni.sRouter
  IN  /\ main = "use" /\ main' = "close"
      /\ misuse' = (misuse \/ r \notin jni.live)
      /\ jni' = IF r \in jni.live /\ pc[r] = "loop"
                THEN [jni EXCEPT !.cmd = @ \cup {r}] ELSE jni
      /\ UNCHANGED <<conf, looper, svr, orphans, pc, tun, app, user, torn, left>>

(* sRouter->stop() writes to the command pipe of the router's reactor.     *)
UseRouter ==
  /\ main = "use" /\ main' = "close"
  /\ misuse' = (misuse \/ jni.sRouter \notin jni.live)
  /\ jni' = [jni EXCEPT !.cmd = @ \cup ({jni.sRouter} \cap jni.live)]
  /\ UNCHANGED <<conf, looper, svr, orphans, pc, tun, app, user, torn, left>>

CloseTun ==
  /\ main = "close" /\ main' = "idle"
  /\ svr' = [svr EXCEPT !.mFd = 0, !.sRunning = FALSE]
  /\ tun' = [t \in Threads |-> IF t = svr.mFd THEN "closed" ELSE tun[t]]
  /\ UNCHANGED <<conf, looper, orphans, pc, jni, app, user, misuse, torn, left>>

(* MyHandler: the listener's onEnable and onDisable, if it is still there. *)
HandleNotice(what) ==
  /\ Take(what)
  /\ app' = IF ~app.listener THEN app
            ELSE [app EXCEPT !.enabled = (what = "VPN_START"),
                             !.asked = IF <<@, what>> \in {<<"START", "VPN_START">>,
                                                           <<"STOP", "VPN_STOP">>}
                                       THEN "nothing" ELSE @]
  /\ UNCHANGED <<conf, main, svr, orphans, pc, tun, jni, user, misuse, torn, left>>

ConfigLoaded ==
  /\ Take("LOADED")
  /\ \E ctrls \in parseCtrls(conf.sConfigs.ctrls) : conf' = onConfigLoadSucc(conf, ctrls)
  /\ user' = [user EXCEPT !.loaded = TRUE]
  /\ UNCHANGED <<main, svr, orphans, pc, tun, jni, app, misuse, torn, left>>

ConfigSaved ==
  /\ Take("SAVED")
  /\ conf' = onConfigSaveSucc(conf, Head(looper).key, Head(looper).value)
  /\ UNCHANGED <<main, svr, orphans, pc, tun, jni, app, user, misuse, torn, left>>

-----------------------------------------------------------------------------
(* The background thread: the head of its queue is the task it runs.       *)

Task(kind) == conf.bg # <<>> /\ Head(conf.bg).task = kind

LoadKey ==
  /\ Task("load")
  /\ \E key \in Head(conf.bg).todo : conf' = ReadKey(conf, key)
  /\ UNCHANGED <<looper, main, svr, orphans, pc, tun, jni, app, user, misuse, torn, left>>

LoadDone ==
  /\ Task("load") /\ Head(conf.bg).todo = {}
  /\ conf' = [conf EXCEPT !.bg = Tail(@)]
  /\ looper' = Append(looper, Msg("LOADED"))
  /\ UNCHANGED <<main, svr, orphans, pc, tun, jni, app, user, misuse, torn, left>>

(* The message follows whether the file was written or not.                *)
Save ==
  /\ Task("save")
  /\ \E written \in BOOLEAN :
       /\ conf' = Commit(conf, written)
       /\ user' = [user EXCEPT !.failed = ~written]
  /\ looper' = Append(looper, Saved(Head(conf.bg)))
  /\ UNCHANGED <<main, svr, orphans, pc, tun, jni, app, misuse, torn, left>>

-----------------------------------------------------------------------------
(* The VPN thread t.                                                       *)

At(t, from, to) == pc[t] = from /\ pc' = [pc EXCEPT ![t] = to]

(* The mFd of the thread's service: that of a service that was destroyed   *)
(* is closed by nobody.                                                    *)
Fd(t) == IF t \notin orphans THEN svr.mFd ELSE IF tun[t] = "open" THEN t ELSE 0

(* establish() after the builder was given the configuration; null without *)
(* the permission.                                                         *)
Establish(t) ==
  /\ At(t, "prepare", "check")
  /\ \E granted \in BOOLEAN :
       /\ tun' = IF granted THEN [tun EXCEPT ![t] = "open"] ELSE tun
       /\ svr' = IF t \in orphans THEN svr
                 ELSE [svr EXCEPT !.mFd = IF granted THEN t ELSE 0]
  /\ UNCHANGED <<conf, looper, main, orphans, jni, app, user, misuse, torn, left>>

CheckFd(t) ==
  /\ At(t, "check", IF Fd(t) = 0 THEN "end" ELSE "getFd")
  /\ UNCHANGED <<conf, looper, main, svr, orphans, tun, jni, app, user, misuse, torn, left>>

(* A notice is posted when there is a listener.                            *)
Announce(what) == looper' = IF app.listener THEN Append(looper, Msg(what)) ELSE looper

(* mFd is read again: when stop() took it away the exception ends the      *)
(* process.  Otherwise VpnCore.start keeps the service, which protects the *)
(* sessions' sockets, and posts its notice.                                *)
GetFd(t) ==
  \/ /\ Fd(t) # 0 /\ At(t, "getFd", "enter")
     /\ svr' = [svr EXCEPT !.sVpnSvr = TRUE]
     /\ Announce("VPN_START")
     /\ UNCHANGED <<conf, main, orphans, tun, jni, app, user, misuse, torn, left>>
  \/ pc[t] = "getFd" /\ Fd(t) = 0 /\ Reboot /\ UNCHANGED left

(* The native start() up to Router::init; DUPLICATE, while the thread of a *)
(* destroyed service is in start(), leaves without a notice.               *)
EnterStart(t) ==
  /\ IF jni.sRouter = 0
     THEN /\ At(t, "enter", "init")
          /\ jni' = [jni EXCEPT !.sRouter = t, !.live = @ \cup {t}]
     ELSE At(t, "enter", "end") /\ UNCHANGED jni
  /\ UNCHANGED <<conf, looper, main, svr, orphans, tun, app, user, misuse, torn, left>>

(* fcntl fails for a closed descriptor, unless its number was given to     *)
(* another file meanwhile.                                                 *)
RouterInit(t) ==
  /\ \/ At(t, "init", "loop")
     \/ tun[t] = "closed" /\ At(t, "init", "delete")
  /\ UNCHANGED <<conf, looper, main, svr, orphans, tun, jni, app, user, misuse, torn, left>>

(* Mutant: a signal (EINTR) ends the loop.                                 *)
Mut_LoopEnds(t) ==
  /\ At(t, "loop", "delete")
  /\ UNCHANGED <<conf, looper, main, svr, orphans, tun, jni, app, user, misuse, torn, left>>

(* The reactor's loop ends with a command; epoll_wait on its own           *)
(* descriptor fails with EINTR only, which the loop goes over.             *)
LoopEnds(t) ==
  /\ t \in jni.cmd
  /\ At(t, "loop", "delete")
  /\ UNCHANGED <<conf, looper, main, svr, orphans, tun, jni, app, user, misuse, torn, left>>

(* SAFE_DELETE(sRouter): the object goes first, the pointer after it.      *)
DeleteRouter(t) ==
  /\ At(t, "delete", "deleted")
  /\ jni' = [jni EXCEPT !.live = @ \ {t}, !.cmd = @ \ {t}]
  /\ UNCHANGED <<conf, looper, main, svr, orphans, tun, app, user, misuse, torn, left>>

ClearRouter(t) ==
  /\ At(t, "deleted", "return")
  /\ jni' = [jni EXCEPT !.sRouter = 0]
  /\ UNCHANGED <<conf, looper, main, svr, orphans, tun, app, user, misuse, torn, left>>

StartReturns(t) ==
  /\ At(t, "return", "end")
  /\ Announce("VPN_STOP")
  /\ UNCHANGED <<conf, main, svr, orphans, tun, jni, app, user, misuse, torn, left>>

EndThread(t) ==
  /\ At(t, "end", "off")
  /\ svr' = IF t \in orphans THEN svr ELSE [svr EXCEPT !.mThread = 0]
  /\ orphans' = orphans \ {t}
  /\ tun' = [tun EXCEPT ![t] = "none"]
  /\ UNCHANGED <<conf, looper, main, jni, app, user, misuse, torn, left>>

-----------------------------------------------------------------------------
MainThread ==
  \/ onStart \/ onStop \/ TestRouter \/ UseRouter \/ CloseTun
  \/ \E what \in Notices : HandleNotice(what)
  \/ ConfigLoaded \/ ConfigSaved

VpnThread(t) ==
  \/ Establish(t) \/ CheckFd(t) \/ GetFd(t) \/ EnterStart(t) \/ RouterInit(t)
  \/ LoopEnds(t) \/ DeleteRouter(t) \/ ClearRouter(t) \/ StartReturns(t)
  \/ EndThread(t)

Background == LoadKey \/ LoadDone \/ Save

Next ==
  \/ AppInit \/ startVpn \/ stopVpn \/ setListener \/ LoseListener
  \/ \E v \in Values \cup {""} : AppSetConfig(v)
  \/ \E t \in Targets, k \in Ctrls \cup {0} : AppUpdateCtrl(t, k)
  \/ MainThread \/ Background
  \/ \E t \in Threads : VpnThread(t)
  \/ Kill \/ Destroy

Spec == Init /\ [][Next]_vars

(* A thread that can go on does; the loop goes on when it has a command.   *)
FairSpec ==
  /\ Spec
  /\ WF_vars(MainThread) /\ WF_vars(Background)
  /\ \A t \in Threads : WF_vars(VpnThread(t))

-----------------------------------------------------------------------------
(* Properties.                                                             *)

(* What the listener has heard last, at 0, and is about to hear.           *)
Heard(i) ==
  IF i > 0 THEN looper[i].what ELSE IF app.enabled THEN "VPN_START" ELSE "VPN_STOP"

IsNotice(i) == Heard(i) \in Notices

(* i and j are two notices in a row.                                       *)
InARow(i, j) ==
  i < j /\ IsNotice(i) /\ IsNotice(j) /\ \A k \in (i + 1)..(j - 1) : ~IsNotice(k)

InTurn == \A i, j \in 0..Len(looper) : InARow(i, j) => Heard(i) # Heard(j)

(* A listener that was set before the run it hears of, and is still there, *)
(* hears onEnable and onDisable in turn, whatever the app asks for and     *)
(* when: no two runs of start() overlap, none returns DUPLICATE, and each  *)
(* that was announced is ended.  Not so after the service was destroyed    *)
(* with its thread running: the next START is announced, and is DUPLICATE. *)
NoticesAlternate == app.listener /\ ~app.late /\ ~torn => InTurn

(* For an app that waits for the answer to each request, in a process      *)
(* whose service was not destroyed with its thread running, the native     *)
(* stop() never goes through sRouter after start() deleted it on the other *)
(* thread.                                                                 *)
StopFindsRouter == ~app.hasty /\ ~torn => ~misuse

(* An app that waits for its answers and was told onEnable has a VPN until *)
(* it asks for its end, or the system takes it away: a thread in start(),  *)
(* an open tun device, and the service that protects sockets.              *)
EnabledMeansUp ==
  app.enabled /\ app.asked = "nothing" /\ ~app.hasty /\ ~torn =>
    /\ svr.sVpnSvr
    /\ \E t \in Threads : pc[t] \in {"enter", "init", "loop"} /\ tun[t] = "open"

(* The targets whose strategies the file can give back: their names have   *)
(* no ':', and are not what is before it in another's.                     *)
Plain == {t \in Targets \ Colons : \A c \in Colons : KeyOf[c] = t => NumOf[c] = 0}

(* Once all tasks are done, the memory, the preferences, their file and    *)
(* the native settings agree with what the user set last, over any number  *)
(* of processes.  The exceptions: something was changed before the load    *)
(* was complete; a process ended before something was in the file; the     *)
(* last commit failed, which leaves the file behind; a setting was made    *)
(* empty, which the native side never learns; and strategies for names     *)
(* that the reader cuts at their ':' or takes for the piece of one.        *)
SettingsAgree ==
  LET quiet == /\ conf.bg = <<>> /\ user.loaded
               /\ \A i \in 1..Len(looper) : looper[i].what \notin {"LOADED", "SAVED"}
      w == user.want
  IN  quiet /\ ~user.early /\ ~user.lost =>
        /\ conf.sConfigs.core = w.core /\ conf.sSP.core = w.core
        /\ w.core # "" => conf.settings = w.core
        /\ \A t \in Plain :
             /\ conf.ctrls[t] = w.ctrls[t]
             /\ \A ctrls \in parseCtrls(conf.sSP.ctrls) : ctrls[t] = w.ctrls[t]
        /\ ~user.failed => conf.file = conf.sSP

(* A stop() that found the router ends the VPN thread, even when it came   *)
(* before the reactor's loop.                                              *)
StopEndsRun ==
  \A t \in Threads : (main = "use" /\ jni.sRouter = t) ~> (pc[t] = "off")

(* "block here until terminate be called": when the service terminates a   *)
(* start() that was announced, that start() returns.                       *)
TerminateUnblocks ==
  \A t \in Threads :
    (main = "test" /\ pc[t] \in {"enter", "init", "loop"}) ~> (pc[t] = "off")
=============================================================================
