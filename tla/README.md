# VpnService_android: TLA+ specifications

The repository is an Android VPN that relays every connection of the device
through user-space code: apps' packets come in on a tun device, a native
library (`netcore/src/jni`) rebuilds TCP and UDP sessions from them, and each
session talks to the remote server over a socket of its own.  This directory
holds TLA+ modules that model the native core and the Java service around it, the
TLC configurations that check them, and TLAPS proofs.

`PROJECT.json` lists, for every definition that models code, the source lines
it stands for; for every property a mutant of the code that breaks it; and the
hazards of this code with the properties that cover them.  Paths below are
relative to `netcore/src/jni` or, for `*.java`, to
`netcore/src/main/java/com/summer/netcore`, unless they say otherwise.

## 1. The system

One thread, the reactor's, runs nearly everything that moves packets:

```
 app <-> kernel TCP <-> tun device <-> Router <-> TCPSession <-> TCPTunnel  <-> remote
                                         |    \-> UDPSession     Socks5Proxy <-> proxy
                                         |
                                    EpollReactor (calls every handler)
                                         |
                 EventDispatcher (sync: Router queue; async: PacketCapture, TrafficMgr)
                                         |
                     JniBridge / VpnIface <-> VpnCore, VpnServer, VpnConfig (Java)
```

Around it are the app's main thread (requests, the service's commands, the
listener, native `stop`), a thread for each run of the VPN (it blocks in native
`start` and is the reactor's), two dispatcher threads (`TrafficMgr`'s and
`PacketCapture`'s) and a background thread that loads and saves the configuration.

| Component | State | Operations | What makes it hard | What makes it correct |
|---|---|---|---|---|
| `EpollReactor` | `mFd2Events`, `mDelEventStubs`, `mWorking`, the command pipe; the kernel's interest list | `addEvent`, `delEvent`, `containEvent`, `start` (wait, dispatch, check, clean), `stop`, destructor | handlers register and close descriptors while their events are dispatched; descriptor numbers are reused; `stop` comes from another thread | no freed stub is used, no call reaches a handler that is gone, the kernel watches what is registered, `stop` ends the loop, ready handlers are served |
| `Router` | `mTCPSessions`, `mUDPSessions`, `mData` (datagrams for the tun device) | `onReadable`/`route`, `onWritable`, `onSyncEvent`, `cleanDeadSessions`, `start`, `stop` | shares datagrams with sessions without counting references; sessions die while their datagrams are queued | nothing dangling, nothing leaked |
| `TCPSession` | TCP state, sequence numbers, `mBackQueue` (to the app), `mForwardQueue` (to the remote), window | `accept`, `onTunnelDataBack`, `onTunnelWritable`, `onTunnelDisconnected`, `timeout`, destructor | its own TCP: repetition, windows, half-close, FIN in both directions; no timer of its own | both byte streams arrive complete and in order; FIN only after all data; nobody waits for ever |
| `TCPTunnel` | socket, registrations, `mAlive`, `mConnected`, `mLastTime` | `establish`, `sendData`, pause/resume, `destroyTunnel`, callbacks | destroys itself inside the client's callback | no callback after the session closed it |
| `BufferQueue`, `BufferSegment` | list of segments, their flags and positions | push, pop, insert, find | three flags decide who deletes | flags are exact |
| sequence numbers (`TCP_RELATIVE_SEQ`, `compare_u32`) | - | conversion, comparison | wrap-around, signed overflow | new bytes told from old |
| `Session` | addresses, totals | find, build, release | timed-out sessions are invisible but alive | one live session per connection |
| `UDPSession` | `mOutBuffer`, socket or tunnel | accept, read, write, timeout | loops that depend on `sendData`'s result | datagrams in order and never twice, idle sessions end |
| `Socks5Proxy` | handshake state, two queues, decrypt buffer | the handshake, `sendData`, callbacks | replies cut or joined by the stream, failing sends | handshake in order, no data before `S_TRANS` |
| `Cipher`, `PaddingCoder`, `ShiftCoder` | buffers | encrypt, decrypt, pack, unpack | frames cut anywhere | decrypt inverts encrypt |
| `EventDispatcher`, `PacketCapture`, `TrafficMgr` | queue, handler lists, capture file | dispatch, register, loop | a second thread | every event heard, in order; readable files |
| `VpnIface`, `JniBridge`, `VpnServer`, `VpnCore` | `sRouter`, `mThread`, `mFd`, `sVpnSvr`, `sListener` | start, stop, `setListener` | two threads, a service that is destroyed while its thread runs on, a listener that only a weak reference holds, a process that is killed | stop ends the run and never uses a deleted router; notices match what there is |
| `VpnConfig`, `Settings` | maps of settings and strategies, the preferences and their file, the native settings | load, save, update | loading and saving in the background, saves that fail or are lost with the process | memory, file and native settings agree |
| `ObjectPool` (Java) | pool of message objects | obtain, recycle | two threads | no object with two owners |
| `Dns`, `IPAdpt`, `Log`, `IPUtils` | none | parsing, formatting | - | not modelled (no control) |

## 2. Modules

| Module | Models | Used by |
|---|---|---|
| `TcpSeq` | absolute and relative sequence numbers, `compare_u32` with C's conversions; `Half` stands for 2^31 | `SeqWalk` |
| `SeqWalk`, `MCSeqWalk` | one stream's numbers from the SYN on, past 2^31 and 2^32, with segments in flight: `onReceiveSYN`, `enqueueIfNeed` with its queue, `mRemoteNext` | run `seq_all` |
| `SessionMemory` | what a session's code can reach in memory: the session, the heap of datagrams, `Router::mData`, the tunnel's socket; `buildPackage`, `safeReleaseSegment`, the Router's and the tunnel's side | `TCPHandlers` |
| `TCPHandlers` | the functions of `TCPSession`, each an operator from memory to memory, named as in the source | `TCPSession` |
| `TCPSession`, `MCTCPSession` | the composition: app's kernel, tun device, Router, session, tunnel, remote | runs `tcp_*` |
| `Pipe` | the abstract specification of one direction of a connection | `TCPSession` (refinement) |
| `EpollReactor`, `MCEpollReactor` | the reactor with its handlers, the epoll instance, `stop`, `Router::start`, the destructors, and the tun device that the service closes | run `reactor` |
| `Socks5Proxy`, `MCSocks5Proxy` | the proxy tunnel, with a `TCPSession` or a proxied `UDPSession` as its client, `Cipher`'s parcels, and the proxy | runs `s5_*` |
| `DatagramRouter`, `MCDatagramRouter` | the Router's table with direct `UDPSession`s: lookup, building, sockets, the time limit, removal, the queue for the tun device | run `udp` |
| `CipherStream`, `MCCipherStream` | `Cipher`, `ShiftCoder` and `PaddingCoder` as functions on sequences of bytes, under `encryptAndQueue` and the decrypt loop | run `cipher` |
| `EventDispatcher` | one dispatcher: queue, thread, handlers | `EventPipeline` (twice) |
| `EventPipeline`, `MCEventPipeline` | `TrafficMgr`, `PacketCapture`, the messages to the listener and `ObjectPool`, with the Router's registration | run `events` |
| `VpnConfig` | the configuration: memory, file, native `Settings`, background tasks, as operators on a record | `VpnService` |
| `VpnService`, `MCVpnService` | `NetCoreIface`, `VpnServer`, `VpnCore`, `VpnIface` over the main, VPN and background threads, with listeners that come and go, services that are destroyed and kills of the process | runs `vpn_*` |
| `SeqWalkProofs`, `TCPHandlersProofs`, `TCPSessionProofs`, `EpollReactorProofs`, `Socks5ProxyProofs`, `DatagramRouterProofs`, `VpnServiceProofs`, `EventPipelineProofs` | theorems and proofs about the module of that name | |

### How the state and the actions correspond to the code

*A handler is one step.*  The reactor's thread runs one handler at a time, so
`accept` or `onTunnelDisconnected`, with all they call, is an operator on the
record `mem`, and the action that runs it sets `mem'`.  Two loops are not one
step because the outside sees their middle: `Router::onWritable` (the app's
kernel receives each datagram as it is written) and `onTunnelWritable` (each
`send`).  `reactor` says which loop the thread is in.

*Memory.*  A `TCPDatagram` is a cell of `mem.heap`; `live` is FALSE once it
was deleted, and `buffering`, `abort` and `release` are the flags
`BufferSegment` has.  `mBackQueue` and `mData` are sequences of cells, so a
dangling pointer is a cell that is not live.  When no cell is free the handler
sets `full`, and no action ends in such a memory: `Cells` bounds how many
datagrams exist at once, nothing else.

*Data.*  A payload is a slice of a stream (`off`, `len`).  The receiver keeps
how many bytes it got and whether each stood in its place (`StreamType`), which
is all the properties need.  Relative sequence numbers do not wrap in
`TCPSession`; wrapping is the subject of `TcpSeq`.

*External parts.*  The kernel's TCP (`AppConnect` ... `Received`, `Answers`)
sends, acknowledges, repeats what is not acknowledged, announces windows, sends
D-SACK for repeated data, and may put data in its FIN.  `onSack` does nothing
with it: `getOptionAddr` returns the address of the option's kind byte, which `onSack`
takes for the length, so `SackKind` is all the parsing that is modelled.  `Env` chooses what an
instance's environment does, so that each run can ask one question.

*Reactor.*  `reg` holds the stubs, `mFd2Events`, `mDelEventStubs` and the
kernel's interest list; `thread` is the program counter of `start`, with the
reports not yet dispatched, the copy made by `dispatchCheck` and the handler
being called.  While a handler is called, `Open`, `Resume`, `Pause` and `Close`
are what handlers may do to the reactor, to their own descriptor and to others'
(the Router closes and deletes sessions).  `CloseTun` is `VpnServer.stop` on the
main thread, right after `terminate()` and so possibly in the middle of the loop: the
kernel forgets the descriptor, `mFd2Events` keeps it, and its number may be given to
a socket that a handler opens (`reg.tun`).  EPOLL_CTL_ADD, MOD and DEL fail when the
kernel has, or does not have, the descriptor, with the code's error paths;
`InterestAgrees` shows that this happens to the closed tun device only.

*Proxy tunnel.*  `s5` has the fields of `Socks5Proxy` (`rd` and `wr` are its two
event registrations), `client` what the tunnel sees of the session, `settings`
what the user configured.  The functions are operators on the pair of tunnel and
client, named as in the source; `OnReadable`, `OnWritable` and the rest are the
reactor's calls.  The stream to the proxy is counted in units, two for a parcel:
`send` takes any number of units and leaves half a segment, `read` returns any
number and leaves half a parcel in the decrypt buffer, and `decrypt` returns all
whole parcels (up to `PerCall`) as one piece, which is how replies get joined.
The loop of `onReadable` is one step a round.  `loop = "spin"` is a thread inside
a loop that cannot end.  What a `TCPSession` does with its data is in
`TCPSession`; here it is only the client that pauses, resumes and closes.

*UDP table.*  `mUDPSessions` is the Router's list, as a function: a session is
numbered by the datagram it was built for, so the order of the numbers is that of
the list, and `findSession` takes the first that fits.  A session keeps `mAlive`,
`mOutBuffer`, its WRITE registration, the seconds since `mLastTime` (its age, in
place of a clock; one more than `Limit` stands for all later) and what its socket
has received.  The histories `took` and `back` are what the sockets took and what
the apps got.  `findSession` skips sessions that are closed, which stay in the list
until `cleanDeadSessions`, so two sessions of one flow exist at once.  `sendto` may
fail at any time and for ever; other failing calls are bounded.

*Cipher.*  Bytes have `W` bits and sections `M` bytes, with the sizes of the other
buffers in the same proportion to `M` as in the code.  `rand()` is a choice of
shift, length of padding and bytes of padding.  The wire is a sequence of bytes
that `Read` cuts anywhere.  The peer is taken to use the same `Cipher`, which the
protocol implies.

*Service.*  The main thread takes intents, notices and posted runnables from
`looper`; `main` is its place inside the native `stop` (test `sRouter`, use it,
close the tun device), because the VPN thread may run in between.  `pc` is the
place of each VPN thread in `run()`, `VpnCore.start` and native `start`.  The record
`conf` is everything `VpnConfig` and `Settings` hold; the head of `conf.bg` is the
task the background thread runs, and a load reads one key a step because it holds no
lock.  `Commit` puts the value in the preferences (`sSP`) and, if the disk lets it, in
their file; the code goes on either way.  `parseCtrls` is the set of maps that the
Java may make of an entry list: it cuts an entry at every ':' and takes the second
piece for the number, so an entry for a name with a ':' may set a strategy for the
piece before it, and the last of several entries for one target counts.
`Reboot` is a new process with the old preferences file: `Kill` takes it at
any time, and an uncaught exception on the VPN thread takes it too.  `Destroy` is the
system taking the service alone: the next intent makes a new `VpnServer`, whose
`mThread` and `mFd` are null, while the old one's thread runs on (`orphans`, `torn`).
`setListener` and `LoseListener` set the listener and collect what the weak
reference held; a notice is posted only when there is one (`VpnCore.java:93`, `:99`).
`app` records what the app asked for and was told, whether its listener was set in
the middle of a run (`late`), and whether it ever asked before it was answered or
without anybody to hear the answer (`hasty`).  `user.want` is what the user set last,
across processes; `early`, `lost` and `failed` say that a setting was changed before
the load was done, that a process ended with something not in the file, and that
the last commit failed.

*Events.*  `EventDispatcher` has one dispatcher's queue, whether its thread sleeps
on the condition variable, the event it holds and the handlers; `EventPipeline`
instantiates it for all events (`T!`) and for the capture (`C!`).  An event goes from
`dispatch` to `onConnInfo`, which fills a pooled `MsgData`, to the main thread's
queue, the listener and back to the pool.  `due` holds the events not yet heard and
`heardWell` says that each was heard in its turn with its own values.  A capture
file is the sequence of what was written to it and its size; its name is the second
in which it was opened.  `dispatchSync` is a call of its handlers and part of the
callers' actions in the other modules.

## 3. Runs

Runs that end in "violation" state what a comment or declaration of the
repository says, and TLC shows a behaviour of the code that contradicts it; the
`findings` in `PROJECT.json` quote the lines.

| Run | Question | Result |
|---|---|---|
| `seq_all` | from every initial number, with segments in flight: are new and repeated bytes told apart, is a byte acknowledged that was not sent? | yes until the numbers wrap or reach 2^31; no before 2^31 bytes were sent, across the wrap too |
| `tcp_core` | with windows that change and either side closing, does the direction to the app implement `Pipe`, is the back queue numbered without gaps, and is reading paused only for a full buffer? | yes (the pause: in ESTABLISHED) |
| `tcp_faults` | resets, failed writes, failed sends, lost packets, FIN with data, sessions that time out and are deleted: is memory sound, does the app see only right bytes, is a closed session closed for good? | yes |
| `tcp_live` | without faults, does the direction to the remote implement `Pipe`, do the app's bytes arrive in their places and is what is acknowledged held, and under fairness does a download end (for an app that only listens) and an upload arrive? | yes |
| `reactor` | handlers that close and open descriptors in the middle of a round, a tun device that another thread closes: is a freed stub used, does an event reach a handler that is gone, do reactor and kernel agree, is a stub lost? does `stop` end the loop, is a readable handler called? | no, no, yes for all but the closed tun device, no; yes, with more descriptors ready than `MAX_EVENTS` |
| `s5_core` | with cut and joined parcels, partial sends, refusals and resets: is the handshake in order, is every segment of the app kept once, is `mBufferedSize` exact, does the handshake end, is a TCP session's payload taken and does the client get what was decrypted? | yes (for remotes that do not speak first) |
| `s5_full` | does `UDPSession::onTunnelWritable` return? | not when the tunnel's buffer is full |
| `udp` | flows whose sessions fail, time out and are replaced while datagrams are queued: does each direction keep its order, is no datagram repeated, and does every session end once its app is silent? | yes, even when `sendto` fails for ever |
| `cipher` | does `decrypt` give back what was encrypted, whatever the shift and the padding and wherever the connection cuts; does nothing stay in the buffer? | yes, also when a parcel ends with a full section |
| `events` | does the listener hear every event once, in order and with its own values, while message objects are used again? can a capture file be read? | yes; yes, when no write failed and no second capture began in the same second |
| `vpn_service` | requests, updates, listeners, kills and a destroyed service in every order: do notices alternate, does `stop` avoid a deleted Router, is the VPN up when the app was told so, do memory, file and native settings agree with what the user set last, does a `stop` that found the Router end the run? | yes; the first for a listener that was set before the run, the second and third for an app that waits for the answer to each request, all three unless a service was destroyed with its thread running; the fourth with the exceptions the property names |
| `vpn_stop` | does `start` block only "until terminate be called"? | no: a STOP handled between the notice VPN_START and the setting of `sRouter` is lost |

More disagreements were met while modelling and have no run:

- `compare_u32` names RFC 1982 (`utils/Utils.cpp:68`) but compares two `int`s: once
  `mRemoteNext` has reached 2^31, a repeated segment from below it has another sign,
  compares as greater, and is queued and counted again, on connections whose numbers
  never wrapped too.  Without `sent <= MaxInt` in `InRange` TLC shows it, from base 0;
- the loop under "pop all packets that had acdk" also aborts a bare ACK the Router
  has not written yet, which breaks no stream in the instances checked;
- `onSack` never marks a datagram: `getOptionAddr` (`core/IPAdpt.cpp:83`) returns the
  address of the option's kind, and `core/TCPSession.cpp:271` reads the length there;
- a packet lost on the tun device leaves a gap in what the remote gets, because
  `accept` adds the length of any queued segment to `mRemoteNext`; the `tcp_live`
  run, which checks `UpIsPipe`, has no such loss;
- a session that timed out drops the app's packets and is revived by data from
  the tunnel, which leaves the same kind of gap;
- the FIN for a finished remote waits while a bare ACK stands in the back queue
  and the app is silent (comment at `core/TCPSession.cpp:370`);
- a proxy that accepts none of the methods (0xFF) is taken to accept one, because
  the setting is filled up with 0xFF; and an account that is asked for but not
  configured is waited for in `S_VERIFY`.  `HandshakeEnds` excludes both;
- after the sequence numbers wrapped, `TCP_RELATIVE_SEQ` is one short
  (`core/TCPSession.cpp:9`): the next segment is refused and those in flight behind it
  are queued past the gap (`core/TCPSession.cpp:149`).  `VerdictRight` is about numbers
  that neither wrap nor reach 2^31; `AcksNothingUnsent` is what is left behind the wrap;
- the payload of a FIN is acknowledged in part and dropped (`core/TCPSession.cpp:238`),
  so `tcp_live` has FINs without data;
- reading that was paused is resumed in ESTABLISHED only (`core/TCPSession.cpp:417`);
- the app's FIN is never passed to the remote (`core/TCPSession.cpp:231`);
- `UDPSession::accept` compares the strategy with `==` (`core/UDPSession.cpp:128`), so
  an idle tunnel is not woken for a proxied datagram; payload that is decrypted
  together with the reply to CONNECT is dropped (`core/proxy/Socks5Proxy.cpp:276`);
  and the handshake with a proxy has no time limit (`core/proxy/Socks5Proxy.cpp:333`);
- a UDP session whose socket cannot be protected leaves it open
  (`core/UDPSession.cpp:84`), the segment of a direct answer is not marked for release
  (`core/UDPSession.cpp:168`), answers do not extend the time limit, and one datagram
  that `sendto` refuses holds back those behind it until the session times out;
- `estimateEncryptLen` is two short, since `PaddingCoder::encodeLen` leaves out its two
  length bytes; with the buffers `Socks5Proxy` passes there is always room;
- `VpnServer.stop` closes the tun device while the loop may run (`VpnServer.java:149`).
  The Router's stub stays registered, its DEL fails (`core/Router.cpp:60`), and a socket
  that gets the device's number takes over that stub with `addEvent`, is never watched by
  the kernel, and leaves it behind with a listener that was deleted.  `CallsOwner`,
  `InterestAgrees` and `Served` except the tun device's number;
- a START after the service was destroyed with its thread running announces VPN_START
  and returns DUPLICATE without VPN_STOP (`VpnCore.java:93`, `VpnIface.cpp:52`), and a
  listener set while the VPN runs hears only the end of it.  `NoticesAlternate` leaves
  out both;
- with two STOPs in a row, the second `stop` may use `sRouter` while it is deleted
  (`VpnIface.cpp:75`); a START that comes before `mThread` was cleared starts nothing
  (`VpnServer.java:54`, VPN_STOP is posted first); a STOP between `run`'s test of `mFd`
  and its second use ends the process with an exception (`VpnServer.java:137`);
- updates before the load is complete are cleared from memory; a setting made empty
  never reaches the native side; the result of `commit()` is ignored
  (`VpnConfig.java:362`), so a setting that was not written is confirmed and gone with
  the process; and of a strategy whose target has a ':' (`VpnConfig.java:272`)
  "1.2.3.4:80" comes back as the number 80 for "1.2.3.4", in place of that target's own,
  and an IPv6 address is lost or comes back as its first group.
  `SettingsAgree` leaves these out.  A VPN started before the load sees no strategies (`VpnCore.java:120` asks for the
  opposite order);
- two captures within one second write two headers to one file, a failed write
  leaves a file that cannot be read, one `Event` is leaked for each captured packet
  (`core/PacketCapture.cpp:41`), and `ObjectPool.recycle` keeps one object more than
  `mSize` (`ObjectPool.java:39`);
- the dispatcher's thread walks the handlers without the lock
  (`core/event/EventDispatcher.h:214`); the lists it visits only change when the library
  is loaded.

### Bounds

- `Cells` 6 to 9: enough for the back queue at its limit, the SYN, FIN and RST,
  a bare ACK and datagrams the Router still holds, all at once.
- `HeaderSize` 1, `SessionBuffer` 4, `MaxSendWindow` 8: the thresholds of the
  code (`TCP_SESSION_BUFFER_SIZE`, its half, the send window) keep their order,
  and two or three datagrams cross each of them.
- `RemoteBytes` 1 to 4, `AppBytes` 0 to 2, `MaxRead` 1 or 2: streams longer than
  one datagram, so that repetition, reordering by repetition and a gap happen.
  `tcp_core` spends its states on windows (2 and 8) and one byte upstream,
  `tcp_live` on longer streams (3 down, 2 up) with one window.
  `TunRoom` 1 or 2 bounds what the kernel sends unasked; its answers are not bounded.
- `Half` 8 in place of 2^31 with every initial number, and streams of 20: past 2^31 (8)
  and 2^32 (16) from each of them, so both boundaries and the wrap are met, together and
  apart.  Segments of up to three bytes, two of them queued, five bytes back: a segment
  that is refused has others behind it, in flight and in the queue.
- Reactor: two handlers, one socket number and the tun device's, which are reused at
  once, four stubs (`Open` waits for a free one, and two exist for the command pipe and
  the tun device), two reports a round while three descriptors (command pipe, tun
  device, socket) can be ready: reuse of a number within a round, removal during both
  kinds of dispatch, a descriptor left out of a round, and a tun device closed at any of
  these moments all happen.
- Proxy tunnel: `MaxSendBuffer` 3 units, so that the second parcel fills it;
  `MaxAccept` 3 segments from the app, one more than it takes; `PerCall` 2 and
  `MaxBack` 2, so that parcels are joined and left over.
- UDP table: two flows, three datagrams from apps, two answers and one failing call
  with a limit of one second: a session times out with a datagram queued, is
  replaced while it is still listed, and its successor gets the next datagram.
- Cipher: three bits and six bytes a section, so that a parcel of one section, of a
  full section and an empty one, and of several is made, and one message that one
  `encrypt` does not take; every cut of the wire is tried.
- Events: two connections and three message objects with a pool of one (it keeps
  two, so an object is dropped and others come back); three loads, since the two
  dispatchers hardly meet: three events (and any number of ends), three packets over
  two captures with a failing write, and a small mix.  A file passes its limit with
  the second record.
- Service: two VPN threads (a destroyed service's and the next one's).  What the app and
  the system may do is one of four budgets (`Each`), since the life cycle and the settings
  meet only where a START calls `init`: three requests with one listener and one service
  destroyed; three requests with two calls of `setListener`; one request, two updates
  and one kill; two updates and two kills.  Listeners are lost at any time.  A kill
  changes nothing for the life cycle, every process begins in the same state.  Two values
  of a setting besides the empty one, and four targets: an app, an address, that address
  with a port, and an IPv6 address.  `vpn_stop` needs one thread and two requests.
- Deadlock is not checked: a stream at its bound, a connection that is over, a reactor that is
  destroyed, a service without requests and a conversation that ended stop.  That
  nothing stops too early is what the liveness properties say.

### Fairness

`ReactorFairness` in `TCPSession` says: while a handler's event stays ready (and
the thread is in no loop), the handler eventually runs.  epoll is
level-triggered and every round serves all reports; `Served` in `EpollReactor`
checks this of the reactor itself.  It is written as `<>[]ready => []<>step`,
which is weak fairness with the enabling condition spelled out: TLC is slow in
finding out whether a handler's action is enabled.  `KernelFairness`: the app
connects, and the kernel's retransmission timer runs.  No fairness is assumed
for faults, for the app sending or closing, or for the clean-up of sessions.
In `EpollReactor` the thread goes on and handlers return (weak fairness), and
the kernel takes ready descriptors in turn (strong fairness for each), which is
how epoll's ready list rotates.
In `Socks5Proxy` each handler whose event stays ready runs, the decrypt loop goes
on, and the proxy answers what it received (weak fairness each).  The client, the
remote behind the proxy, refusals, resets and closes have none.
In `VpnService` the main thread, the background thread and each VPN thread go on
when they can (weak fairness each); the app and its listener, the
permission for the tun device, and the system's kills and the destruction of
services have none.  In `EventPipeline` the two dispatcher threads and the
main thread go on, the Router need not.  In `DatagramRouter` the clock goes on and the
reactor's periodic checks run (weak fairness); `sendto` and the tun device have
none.  `CipherStream` has only safety properties.

## 4. Proofs

All theorems hold for every value of the constants that satisfies the
assumptions in the modules (`HalfAssumption`, `WalkAssumption`,
`MemoryAssumption`, `SessionAssumption`, `ReactorAssumption`, `ProxyAssumption`,
`DatagramAssumption`, `ServiceAssumption`, `ConfigAssumption`, `PipelineAssumption`), and are checked by
TLAPS.  These give the constants their types and keep apart names that the code
keeps apart: a handler is none of the reactor's own, a socket's number is neither
the pipe's nor the tun device's, 0 (NULL) is no object.  Three theorems assume more
(`UpstreamStaysIntact`, `UpImplementsPipe`, `TunnelPayloadReaches`), and say so.  Most
of the properties are not inductive alone; for each component there is one invariant
that is, and the theorems are its consequences.

### Sequence numbers (`SeqWalkProofs`)

- `VerdictsAreRight`: until the numbers wrap or reach `Half` (`InRange`, a condition of the
  property and not an assumption), a segment is queued exactly when it is new, and
  `mRemoteNext` is the number of bytes sent.  `RoundTrip` and `CompareSmall` show that
  conversion and comparison are exact in that range; `Exact` is the invariant.
- `NothingUnsentAcked`: while fewer than `Half` bytes were sent, from every initial number
  and across the wrap, `mRemoteNext` is never ahead of what was sent.  A number reads back
  exact or, behind the wrap, one short (`SeqOfBounds`), so one that passes the
  test is counted from `mRemoteNext` to no further than its own end, which was sent.
  It is the half of `VerdictRight` that survives the wrap.

Both hold for streams of every length; what happens at `Half` is among the disagreements above.

### A session's memory, end, numbers and stream (`TCPHandlersProofs`, `TCPSessionProofs`)

- `TypeCorrect`, `NothingDangles`, `NothingLeaks`, `FlagsAreExact`: the four
  invariants about memory.  None of the last three is inductive alone: who deletes
  a datagram depends on the flags, and whether the flags are right on who deleted
  it.  The invariant `Inv` has them together as `Agreed(mem, {})`, with the fact
  that WRITE is registered for the tun device only while `mData` is not empty
  (otherwise `onWritable` would take the front of an empty queue).  Its second
  parameter, `hand`, is the set of datagrams a handler has in its hands, in neither
  queue, between two of its calls (`resetConnection` builds an RST that never enters
  `mBackQueue`).  `TCPHandlersProofs` shows, function by function and bottom up, that
  each leaves memory as good as it found it; `TCPSessionProofs` has one lemma for
  each group of actions and combines them.

- `SessionClosedForGood`, an action property.  Its invariant is that CLOSED comes with
  a dead session and a tunnel without socket or registrations (`Ended`), and that
  there is none before the session is built and after it is deleted.  Every handler keeps it, also where it
  goes on after a reset in its middle and may leave another state than CLOSED
  (`onReceiveFIN`): such a handler did not start in CLOSED, and none runs in it.

- `BackQueueIsNumbered`, `PausedOnlyWhenFull`, by `NumInv`.  `Numbered` is the part
  about numbers: neighbours in the queue follow each other without a gap up to
  `mLocalSeq`, and no number the session may still be acknowledged with cuts a datagram
  in two (`Between`).  Those numbers are `Heard`: what the app expects next and what
  the packets in the tun device acknowledge; what the app comes to expect is the end
  of a datagram that is still in the queue, or of one already behind the left edge.
  So a new left edge, taken from any of them, old or new, is the start of a datagram
  or the end of the queue, and once `popAcked` has run it is the start of the first
  (`Lined`; before that only `Loose`).  Bare ACKs have no length and are popped
  when they were tried, so `Numbered` also says that what was tried does not begin
  ahead of the left edge.  Between two functions of a handler the queue may be
  `Loose`; a handler that leaves the session open leaves it `Settled`, which adds
  that reading is paused for a full buffer only.  `resetConnection` breaks the
  numbering (it takes `mLocalSeq` back), and closes the session in the same call.

- `DownstreamStaysIntact` and `DownImplementsPipe`, by `StreamInv`, which adds the
  remote's bytes to `NumInv`.  With `n` bytes read of the tunnel, `Placed` says of every
  datagram in memory, queued or given up, that its number is its place in the stream and that
  its bytes are among the `n`; a FIN comes behind all of them and exists only when the
  session knows that the remote finished.  `Carries` says why the next one will fit:
  until then `mLocalSeq` is the number of the next byte to read.  A reset takes
  `mLocalSeq` back below that, which is harmless as it closes the session, and nothing is read
  for a closed session or a finished remote.  `AppStream` is the other end: the number
  the app expects is one behind the bytes it got.  So a datagram it accepts, whenever
  and however often it was sent, brings exactly the next bytes or, when all were read and
  delivered, the end.  Each action then is a step of `Pipe` or none: a read is `Write`,
  the end of the tunnel is `Close` (or nothing, when the session just closes), a write to the tun
  device is `Deliver`, `Finish`, `Break` or nothing, and every other step of the
  session is nothing.

- `DownPipeIsHonest`, from the same invariant: what being that pipe is worth to its
  reader, no early end and no more than was written.
- `UpstreamStaysIntact` and `UpImplementsPipe`, by `UpInv`, which adds the app's bytes to
  `NumInv`.  While the tunnel is up (`UpLive`), `mForwardQueue` continues what the remote
  got, each datagram where the one before it ends, up to `mRemoteNext` (`Forwards`);
  every datagram in memory, and so everything the app's kernel can come to know,
  acknowledges at most `mRemoteNext` (`AcksUpTo`).  This does not keep itself, as
  `enqueueIfNeed` takes any segment that begins at or behind `mRemoteNext`, one
  beyond a gap too, and counts its length: what saves the stream is the order in the
  tun device.  So `Chain` says that the packets there, read one after the other,
  take the session from `mRemoteNext` to the number the kernel will send next,
  each bringing exactly the next bytes, or bytes the session has, or none
  (`Takes`); and `Acknowledge` that their acknowledgements never go back, as `accept`
  ignores the data of a packet with an older one.  A retransmission joins the chain
  only because it repeats bytes that are on their way or arrived.  Without
  a session there is nothing but the kernel's tries to connect (`UpNew`); once the tunnel is
  down nothing brings it up (`TunnelDown`), and only what the remote has matters.
  Each action then is a step of `Pipe` or none: a `send` of the app is `Write`, its FIN
  `Close`, a `send()` to the tunnel `Deliver`, the end of the tunnel `Break`.
- What these two assume of `Env`.  `UpstreamStaysIntact` leaves out `"tunLoss"` (a
  packet lost in the tun device leaves the gap above), `"finData"` (`onReceiveFIN` counts a FIN
  and drops the data in its packet) and `"idle"` (a session past its time limit
  misses packets until a read of the tunnel revives it, which leaves a gap).  Each of
  the three alone makes `UpstreamIntact` false: add it to `Env` in `MCTCPSession_live.cfg`
  and TLC shows how.  Everything else may happen: resets, windows, failing writes to the
  tun device, failing sends, the end of the tunnel at any time.  `UpImplementsPipe` also
  leaves out `"sendError"`, since a `send()` that takes a part and then fails delivers and
  breaks in one step, which is two steps of `Pipe`.

### The reactor (`EpollReactorProofs`)

- `ReactorNoFreedStub`, `ReactorCallsOwner`, `ReactorInterestAgrees`,
  `ReactorStubsAccounted`, `ReactorTypeOK`.  That a stub in the thread's hands was not
  freed rests on nobody freeing stubs within a round, which rests on `mDelEventStubs`
  having every removed stub, which rests on what is known of the kernel's interest list,
  since `delEvent` and `addEvent` return early when `epoll_ctl` fails: it has what
  `mFd2Events` has, but for the tun device once it was closed, whose stub then stays
  registered to the end.  `ReactorInv` has these as `Kept` (a live stub is registered for its own descriptor
  or waits for deletion without a listener), `Agrees` (kernel and reactor), `Owned` and
  `Watched` (an open socket is registered, by the one handler that has it, always for
  errors, so that a pause never removes the registration), `Held` (what the thread
  points to) and `Phases` (what is registered where in `start`).  `StubsAccounted` is the
  book-keeping itself: registered or waiting, never both, never for two descriptors.

### The proxy tunnel (`Socks5ProxyProofs`)

- `TunnelInvariant`, and from it `TunnelTypeOK`, `TunnelBufferedExact`,
  `TunnelStreamKept`, `TunnelHandshakeOrder`, `TunnelPayloadReaches`, and
  `TunnelEndsForGood` as an action property.  What stands on the wire together with
  what the two queues hold is one of a few handshakes `h`, which the tunnel's state
  determines up to the methods offered, followed by the app's segments `1 .. n` with
  nothing left out, the client holding `n + 1` and on (`InOrder`).  This alone does not
  keep itself: which request comes next is decided by a reply, so the invariant also
  says that the i-th reply answers the i-th request (`Replied`), and that what was
  decrypted was received and what was received was sent (`Counted`), whatever piece of
  a parcel `read` returned.  `Exact` is the size of the queues, `Over` what an ended tunnel
  lacks, and `Handed` that the client has exactly what was decrypted behind the replies.
  The invariant is on a pair of tunnel and client, so that it can be said of the middle
  of a handler: each function of the source has a lemma that it keeps `Good`.
- `TunnelPayloadReaches` assumes that no remote speaks first (`"speaksFirst"` is not in
  `Env`): payload that is joined with the reply to CONNECT is dropped
  (`core/proxy/Socks5Proxy.cpp:276`), so the property is false without it.

### The UDP table (`DatagramRouterProofs`)

- `FlowsStayInOrder`, by `DatagramInv`.  Of each flow at most one session is open
  (`OneOpen`, which is what `findSession` before `buildSession` is for) and a closed one has
  no WRITE registration and an empty socket (`EndedIsQuiet`), so the datagrams still in its
  queue are never sent behind those of its successor.  The queue of an open
  session is in order, behind what the sockets took of its flow and not ahead of what
  the apps sent (`SendsInOrder`); what its socket received is in order behind what the
  app got and what waits for the tun device (`HearsInOrder`).  `took` and `back` need their
  upper bounds for that (`Sent`, `Heard`).

### The service and the configuration (`VpnServiceProofs`)

- `ServiceNoticesAlternate`, `ServiceStopFindsRouter`, `ServiceEnabledMeansUp`.
  `LifeInv` is `torn \/ ServiceInv`: until a service is destroyed with its thread running,
  and again from the next process on, `ServiceInv` says that the thread `mThread` is for
  is the only one that is not "off"
  and that `sRouter` is its router exactly while it is inside `start` (`OneThread`);
  that for a listener that was set in time (`Hears`) the last notice, heard or still in
  the main thread's queue, tells whether `start` runs (`Turns`); and, for an app that waits
  for its answers (not `hasty`), everything that can be under way after it asked for a
  start or a stop: which one message is queued, where the main and the VPN thread are
  (`Calm`).  Alternation needs no patience of the app, the other two do.  Of the conditions,
  `~late` and `~torn` are needed for the notices (TLC shows why without them); the
  other two properties hold without `~torn` too at the bounds of `vpn_service`, but are
  proved and stated with it.
- `ServiceSettingsAgree`, by the invariant `SettingsInv`.  As long as no update was too
  early and none was lost (`Sound`), what the user set last is in the preferences before the
  load (`AsFiled`), which memory follows key by key; afterwards (`Following`) it is in
  memory, the last "save" of each key in the background thread's queue carries it, and the
  last message for the main thread hands it to the native side.  `Written` is the
  file: what the preferences have, unless the last commit failed.  A new process finds
  in the file what the user wants because nothing was unsaved when the old one ended.
  For strategies this is said of the targets that `parseCtrls` gives back (`Plain`).

### Events and captures (`EventPipelineProofs`)

- `EventsHeardInOrder`, by `HeardInv`: what the listener has yet to hear is, in order, in
  the main thread's messages, with the dispatcher's thread and in its queue
  (`InTransit`), and no message object is in two of pool, hand, message and listener
  (`OneOwner`), without which a recycled object would change a message on its way.
- `CaptureFilesReadable`, by `CaptureInv`: between two functions of `PacketCapture` a
  file is a header and whole records, and inside of one it is as far as the function
  got (`InPhase`).

### Only model-checked

- Liveness: TLAPS does not reason about ENABLED and fairness.
- `CipherStream`: `decode` and `parcels` are recursive operators, and what they compute
  is an induction over data; the module stays apart from those with theorems.

## 5. Not modelled

- The receive window the session advertises, traffic totals and events for the
  statistics: no control depends on them.
- A second session for the addresses of a closed one: `RouterReadTun` stops
  before a SYN that would build it, which no run reaches.
- IPv6, checksums, and the parsing of options but for `SackKind`: layout only.
- What a closed tun descriptor's number means once another file than a session's socket
  has it (`VpnServer.java:149`): `RouterInit` allows both outcomes of `fcntl`, later reads
  and writes are not followed.
- Stubs removed after the loop has ended are on `mDelEventStubs` when the
  reactor is destroyed, and the stub of a closed tun device is in `mFd2Events`; neither
  is deleted.  `StubsAccounted` accounts for them, it does not say they are freed.
- Two VPN threads inside `start`'s test and assignment of `sRouter` at once
  (`VpnIface.cpp:52`): the two are one step of `EnterStart`.
- What the revocation of the VPN does to the tun device; `Destroy` is the service's end.
- In `Socks5Proxy`: `mConnected` and `onTunnelConnected` (they only log), the
  overflow of the decrypt buffer (it holds four reads and keeps less than one
  parcel between two), the bytes of requests and replies.
- In `DatagramRouter`: proxied sessions (they are in `Socks5Proxy`) and the fields of
  the packets `buildPacket` makes.
- The three maps of strategies and the many settings: one of each stands for them,
  as they are treated alike.  Listeners of the configuration are only called.
- The options of the VPN's builder, the deletion of old capture files, the lookups of
  `JniBridge` (method ids, app names, strategies): no other step depends on them.
- `EventDispatcher::stop` and its destructor, which nothing calls.
- `Dns`, `IPAdpt`, `IPUtils`, logging: parsing and formatting without state.

## 6. Plan

Every component with state of its own has a module, and every safety property of the runs
but the cipher's has a theorem.  What is left is outside this prover's reach (liveness,
`CipherStream`) or would begin with a change of the code: once `accept` refuses a segment
beyond a gap, `onReceiveFIN` queues its packet's data and a session past its limit
stays closed, `UpstreamStaysIntact` should lose its assumption.
