# A TLA+ model of DarwinServer

DarwinServer is a fork of Apple's Darwin Streaming Server (EasyDarwin): an RTSP
streaming server, a management server for cameras (CMS) and an authorization
server, all built on one library for tasks, threads and sockets. These modules
model the concurrent core of that library and, of the streaming server, the HTTP
tunnel, reliable UDP and the reflector of live streams. TLC checks them on small
instances, and TLAPS proves their safety properties for every size.

Contents: [the system](#the-system) · [plan](#plan) ·
[modules and code](#modules-and-code) · [runs](#runs-and-what-they-show) ·
[bounds](#bounds) · [fairness](#fairness) · [proofs](#proofs) ·
[findings](#what-the-code-does-that-its-text-denies) · [not modelled](#not-modelled)

## The system

### Layers

| layer | directory | what it holds |
|---|---|---|
| library | `CommonUtilitiesLib` | tasks and task threads, mutexes, conditions, the readers/writer lock, reference tables, queues and heaps, the event thread, sockets, text utilities |
| streaming server | `EasyDarwin/Server.tproj` | RTSP sessions, RTP sessions and streams, the module interface, start and stop |
| modules | `EasyDarwin/APIModules` | files, live streams (reflector), access, administration, logs, MP3 |
| CMS | `CMS/Server.tproj` | sessions of cameras and clients, the table of devices |
| AuthServer | `AuthServer/Server.tproj` | the same skeleton with HTTP |

Everything that lives longer than a call is a `Task`: a session, a listener, a
socket of the reflector, the RTCP reader. A task has no thread. It is *signalled*
(by the event thread when its socket is ready, by a timer, by another task) and a
task thread then calls its `Run`, under the global readers/writer lock. Objects
that several tasks use (sessions, devices, the contexts of sockets) are found
through an `OSRefTable` and counted while in use.

### Components

| component | state | operations | interacts with | what is hard |
|---|---|---|---|---|
| `OSMutexRW` | `fState`, two counters of waiting threads, two conditions | LockRead, LockWrite, TryLock*, Unlock | every `Run` is inside it | whom to wake; writer preference; two writers |
| `Task`, `TaskThread`, `TaskThreadPool` | the mask `fEvents` with its bit `kAlive`, `fUseThisThread`, `fWriteLock`; a queue and a heap per thread | Signal, GetEvents, ForceSameThread, CallLocked, Entry, WaitForTask, AddThreads, RemoveThreads | event thread, timers and tasks signal; the lock above | lock-free Signal against the end of Run; deletion; shutdown |
| `OSRefTable` | hash table, `fRefCount` and a condition per ref | Register, RegisterOrResolve, Swap, Resolve, Release, UnRegister, TryUnRegister | sessions, devices, socket contexts | freeing an object that is being looked up |
| `EventContext`, `EventThread`, `ev` | two `fd_set`s and their copies, cookies, descriptors to close, a pipe | RequestEvent, Cleanup, the loop around `select` | the table above; signals tasks | arming while select sleeps; descriptors used again |
| `TimeoutTask` | a queue of timeouts | SetTimeout, RefreshTimeout, Run | signals sessions | the next look at the queue |
| `IdleTask` | a heap, a thread of its own | SetIdleTimer, CancelTimeout | reflector sockets | cancelling against expiring |
| `TCPListenerSocket` | the listening socket, whether it sleeps | accept, slow down | event thread, sessions | running out of descriptors, other errors |
| `UDPSocketPool`, `UDPDemuxer` | pairs of sockets with counts, a table per socket | Get, Create, Release; RegisterTask, UnregisterTask | RTP streams, `RTCPTask` | test here, registration there |
| `RTSPSession` | a state machine over one request; the HTTP tunnel | Run, the tunnel's binding of two sessions | tables, sockets, RTP sessions | moving a socket between two sessions |
| `RTPSession`, `RTPStream` | play state, streams, a resend list each, one congestion window | Play, Pause, Teardown, Run, write, acks | RTSP session, pool, modules | teardown while in use; a window that several lists count |
| module interface, dictionaries, preferences | tables | get and set attributes, roles | modules | size rather than concurrency |
| reflector module | the table of broadcasts by path, the attributes of clients that point to their session or output | ANNOUNCE, DESCRIBE, SETUP, PLAY, RECORD, end of a client, kill | RTSP and RTP sessions | who deletes a session that viewers and broadcasters share |
| reflector streams | packet queues with bookmarks, a free queue, outputs | push, reflect, remove old packets | sockets, idle timer, RTP sessions | outputs that lag behind removal; packets used again |
| CMS `ServiceSession` | state machine; `fObjectHolders`; table of devices | register, stream request, snapshots, list | other sessions | a session that goes while another uses it |
| AuthServer `HttpSession` | state machine | Run | - | little |

What makes each of them correct:

* **lock**: `fState` names the holders; nobody sleeps for nothing; a writer gets in.
* **scheduler**: a task is in one place at a time and in one whenever an event is
  pending; Run is never re-entered; nothing is left of a deleted task; a task that
  holds a mutex between Runs comes back on the same thread; a locked Run is alone, unless
  the lock lets a second one in (it does, see [below](#what-the-code-does-that-its-text-denies)).
* **ref table**: an object that somebody has resolved is not freed; what can be
  found is live; UnRegister returns.
* **socket events**: a ready armed socket has its own task signalled; no closed
  descriptor is polled; a removed one is closed.
* **timeouts**: signalled after and not long after the time; never for timeout 0.
* **pool**: a client address has one stream per pair; a pair is freed once.
* **tunnel**: one socket belongs to one session; a session is not used after it is gone.
* **reliable UDP**: the window counts what the lists hold; a packet is resent until it is
  acknowledged or too old, and then no more; a blocked session is let through again.
* **reflector module**: a path has one session; who needs it finds it alive; a client
  gives back what it has taken.
* **reflector streams**: a lagging output finds its place again; it is sent nothing twice
  and skips nothing that is young.
* **CMS**: the table names the live session of each device.

PROJECT.json lists the places in the code where each of these can go wrong
("hazards") with the property that would notice.

## Plan

In order of how much of the system depends on it. The first eight are done, and their
safety properties are proved.

1. `OSMutexRW`.
2. `TaskScheduler`, on top of an instance of `OSMutexRW`, against the abstract
   `TaskContract` (what Task.h promises of one task).
3. `OSRefTable`.
4. `EventContext`, on top of an instance of `OSRefTable`.
5. `RTSPTunnel`: the HTTP tunnel of `RTSPSession`, on top of an instance of `OSRefTable`.
6. `ReflectorSessions`: the life of a broadcast in the reflector module.
7. `ReflectorSender`: its packets, bookmarks and outputs.
8. `ReliableUDP`: the tracker and the resenders of a session.
9. `RTSPSession`/`RTPSession` lives: teardown, timeout, TryUnRegister, `fObjectHolders`.
10. `UDPSocketPool` with the demuxers and `RTCPTask`.
11. CMS: `ServiceSession` and the device table over `OSRefTable`.
12. `TimeoutTask`, `IdleTask`, `TCPListenerSocket`; `SnarfEventContext` in `EventContext`.
13. The heap as a pure algorithm against a reference definition.

Theorems still worth having come with the modules still to be written: that an `RTSPSession`
is not deleted while its `RTPSession` is (9), that a pair of the pool is freed once (10).

## Modules and code

Each module says in its header what it leaves out. A definition marked "mutant"
is a plausible mistake in the definition below it; PROJECT.json substitutes one
for the other to see that the property it names notices. `MC*` modules only give
values to constants; `*_proof` modules only hold proofs.

* **OSMutexRW** — `OSMutexRW.cpp`. Every method runs under `fInternalLock` except
  in a condition wait, so a method is one action up to its wait (`LockRead`,
  `LockWrite`) and one per wake-up (`RetryRead`, `RetryWrite`). `WaitEnds` is the
  timeout and the spurious wake-up. `fActiveReaders` is a debugging copy. `doubled` is a
  ghost: a second writer has been let in since the lock was last empty.
* **TaskScheduler** — `Task.cpp`, `Task.h`. The atomic operations of the code are
  the actions: `Signal` (the `atomic_or`) and `Post` (the enqueue) are apart, as
  are the read and the subtraction in `GetEvents`, and what Entry does after Run
  (`StoreDone`/`StoreFails` for `compare_and_store`, `InsertTimer`, `DeleteTask`).
  `stage` is where a thread is in Entry, `theTask` what it holds. The global lock
  is `GlobalLock == INSTANCE OSMutexRW`. `AddThreads`, `RequestStop`, `JoinThread`,
  `ThreadsRemoved` are the pool's life. `calledLocked` is a ghost.
* **TaskContract** — what `Task.h` says of one task: idle, due, running, gone.
  `TaskScheduler` has the mapping (`statusOf`, `pendingOf`, `seenOf`) and the
  property `KeepsContract`.
* **OSRefTable** — `OSRef.cpp`, `OSRef.h`, `OSHashTable.h`. All under `fMutex`; the
  wait in `UnRegister` is split from the test that follows it (`Leave`,
  `SleepAgain`). `ended` is the set of refs whose UnRegister has returned: the
  caller frees the object then. `holds` is who has resolved what.
* **EventContext** — `EventContext.cpp`, `EventContext.h`, `ev.cpp`. The event thread
  is the sequence `CopyMasks`, `CallSelect`, `SelectReturns`/`SelectTimesOut`,
  `DrainPipe`, `CloseRemoved`, then `Construct`/`NextMask` over the result and
  `Resolve`, `ProcessEvent`, `Release` for each descriptor found. The parts of
  `select_modwatch` and `select_removeevent` under the mutex are `ModWatch` and
  `RemoveEvent`; the writes to the pipe follow on their own (`Poke`, `CleanupEnds`).
  `RefTable == INSTANCE OSRefTable` with contexts as refs and IDs as keys. The
  kernel's side: `polled` is what select was given, `ready` who has data or room.
  `SelectTimesOut` is a select that finds nothing, at its timeout or for a signal
  (`EINTR`, which may leave the copies as they were); that it never fails for a closed
  descriptor is `OnlyOpenIsPolled`.
* **RTSPTunnel** — `RTSPSession.cpp` (`Run`, `PreFilterForHTTPProxyTunnel`, the
  destructor), `SnarfInputSocket`, the recursive `OSMutex`. `pc` is where the Run of a
  session is and `on` its thread; `loop` is the `while (IsLiveSession())`. The steps of
  the binding (`FindOther`, `TryLockOther`, `Snarf`, `Swap`, `Join`, `SignalOther`,
  `UnlockOther`, `Joined`) are apart because the other session, a third one and the
  timeouts come between them. `ReadRequest` gives the mutex back and `HaveRequest` takes
  it again, as the code does; `ProcessWaits` is a return that keeps it.
  `TunnelMap == INSTANCE OSRefTable` with sessions as refs and one cookie as key.
* **ReflectorSessions** — `QTSSReflectorModule.cpp`. Every handler holds the mutex of
  `sSessionMap` from start to end: a handler with one outcome is one action, one that can
  be refused has an action for the refusal (`Refuse`, `PushSetupFails`). `Creates` and
  `Finds` are the two halves of `FindOrCreateSession`, `Dispose` the end of
  `RemoveOutput`. `output`, `source` and `pushTo` are attributes of the clients, which
  point to a session (`None`: not set, `Null`: set to NULL). `gave`, `strays` and
  `robbed` are ghosts: whose the references are. A dereference of what is gone is the
  action `Crash` ends a behaviour with.
* **ReflectorSender** — `ReflectorStream.cpp`, `ReflectorOutput.h`, `RTPSessionOutput.cpp`.
  `ProcessPacket` is a packet that is queued, `PutsBack` one that is not, `Run` the task of
  the socket with all that `ReflectPackets` does: for each output the bookmark (`Found`),
  its relocation (`Start`), the writes up to where one may block (`Stops`), the new
  bookmark (`Written`), then `RemovesOldPackets`. `ComesDue` is the idle timer;
  `GetFirstPacketInfo` is what PLAY asks of the RTP sender, and marks a packet as needed.
  A packet arrives at age 0: the preference that makes it younger or older
  (`sUsePacketReceiveTime`, lines 1844-1878, off by default) is left out. `place`,
  `given` and `again` are ghosts: where an output stands and what is behind it.
* **ReliableUDP** — `RTPBandwidthTracker.cpp`, `RTPPacketResender.cpp`, and of
  `RTPStream.cpp` and `RTPSession.cpp` what calls them. The operators on the tracker and
  on a resender have the names of the methods; the actions are the callers, which hold
  the session mutex: `Play`, `Pause`, `Write` (`ReliableRTPWrite`), `SendRetransmits`,
  `ProcessAckPacket` with any numbers from the network, and `Tick`. The loops are `Repeat`,
  over the entries of a list, the streams of the session (`EachStream`) or the numbers of an
  ack (`AckNamed`). `life` is a ghost:
  how long each packet is of use.

## Runs and what they show

| run | instance | question |
|---|---|---|
| `rw_many` | 2 writing, 2 reading threads, fair | counters, lost wake-ups, writer preference, writers get in |
| `rw_two_writers` | violation | "only one" writer: there are two |
| `sched_safety` | 2 tasks (both may ask for the lock), 2 threads, 2 signallers, server stops | scheduling, events, forced thread, first locked call, a locked Run is alone until a second is let in, contract |
| `sched_live` | fair, 1 signaller | every event is taken |
| `ref` | 3 threads, 2 refs, 2 keys, fair | held is safe, found is live, no lost wake-up, UnRegister returns |
| `ev_safety` | 2 contexts, 2 descriptors, 3 IDs given out | see `socket events` above |
| `ev_live` | 1 context, both masks, fair | ready is signalled, removed is closed |
| `tunnel_safety` | 3 connections, each a GET or a POST, 2 threads | one reader per socket, no deleted session is written to, a session in a request is snarfed by no other thread, the cookie finds the tunnel |
| `tunnel_live` | 2 connections, fair | a joined tunnel is read without an event from outside |
| `refl` | 2 viewers, 2 broadcasters, 2 streams, 3 addresses | references add up, who needs a session finds it alive, one session per path |
| `sender` | 1 output, an RTP and an RTCP sender, 3 packets arrive | no place is lost, nothing is sent twice, nothing young is skipped outside video |
| `reliable` | 2 streams, a window of 4 segments, fair | the window adds up and is bounded, the lists are what waits, a burst halves once, flow control ends |

Every property has a mutant of the code that breaks it; PROJECT.json pairs them.

`CHECK_DEADLOCK FALSE` is in the configurations of the scheduler, the tunnel and
`ReflectorSessions` only: tasks may all have been deleted, threads stopped and sessions
gone; a `Crash` ends a behaviour.

## Bounds

* Two threads of each kind are what a race needs in `OSMutexRW` and `TaskScheduler`
  (one that decides, one that interferes); two tasks so that one can keep a thread
  or the lock from the other. Four threads in `OSMutexRW` leave one asleep of each
  kind while the others act. In `sched_safety` either task may ask to be called back
  locked, so that two locked Runs do meet. The proofs lift these to any number.
* Two refs and two keys in `OSRefTable`: one in the table and one to be swapped for
  it or to live beside it under the other key; three threads: the one that leaves,
  one that holds, one that resolves. (Three refs and two keys, 105143 states, give
  the same in more time; the proof covers any number.)
* `EventContext`: two contexts and two descriptors, so that a descriptor (and the
  highest one) can pass from one context to the other while the event thread has it
  in hand. `MaxID` bounds the IDs given out: four allow three registrations, so that
  a descriptor is used again twice. In `ev_safety` a context arms for reading only; the two masks
  are in `ev_live` (with two contexts and both masks the safety properties hold
  too, in 3.4 million states with `MaxID` = 3). `kLastID` is 10000000 in the code;
  `ev_live` sets it to 3, so that the IDs wrap (with one context none is still taken).
* `RTSPTunnel`: one cookie, since sessions with different cookies never meet. Three
  connections: two that are joined and one that comes to them at any moment, as a
  second POST, a second GET or a second half for the same first. Two threads, so that
  the third can run on the thread of the second or beside it. A client reconnects as a
  new connection; a session that has gone does not come back. Two connections in
  `tunnel_live`, because a session whose mutex is never given back (see "snarfed in a
  request" below) blocks a thread for good.
* `ReflectorSessions`: two of each client, so that one acts while another still needs the
  session, and three addresses, so that a deleted session is told from the one made after
  it while an address is given out again. Two streams, so that a broadcaster can give fewer
  references than it takes back, and more. `MaxGave` (references one broadcaster takes) and
  `MaxStrays` (references that nobody will give back, which keep a session for ever) only
  cut off repetition.
* `ReflectorSender`: three packets reach the case where an output stands at the oldest, a
  later one ages and is used again while a third comes in; the RTP socket has three
  buffers, one allocated beforehand, so that the free queue is empty and refilled. Ages 0,
  1, 2 keep the order of the limits: a new output may start at age 0 (10 s), a bookmark
  moves from 1 on (13 s), and what is past 1 is removed (20 s). Two outputs
  share nothing but the packets' flags; with two the same properties hold for two
  packets.
* `ReliableUDP`: sizes are such that a segment is 1, the window 4, a packet 1 or 2 and an
  integer 16, as 1466, 24K to 64K and 2^32 are to each other: the product of `EmptyWindow`
  wraps exactly when the window is 64K, and the window stays in its bounds. Two streams
  with two sequence numbers each are the least that share the tracker and exchange places
  in a list. `AdjustGap` 0 makes each tick longer than 250 ms.
* Time is abstracted: any timer may be found expired, any wait may end. A property
  that holds here holds for every clock. In the reflector's packets and in reliable UDP
  ages are counted in ticks, since the code compares them.

## Fairness

* `OSMutexRW`: a holder unlocks, a woken thread gets the mutex. Nothing obliges a
  thread to ask for the lock and no wait need time out.
* `TaskScheduler`: threads run and every Run returns (weak fairness of `ThreadStep`
  and `Post`). Three assumptions are about load, and strong: a queue is not starved
  by expired timers for ever; a reader is not overtaken by locked Runs for ever
  (`CallLocked` keeps them 10 ms apart); and a task is not signalled during each of
  its Runs for ever, since its thread would then run nothing else (Task.cpp:210, 279).
  The last is a limit of the code, stated as an assumption.
* `OSRefTable`: references are given back ("you MUST call release in a timely
  manner") and the count is zero again and again: UnRegister leaves the ref in the
  table while it waits, so nothing in the code bounds how often it is resolved.
* `EventContext`: the event thread goes on when it can, and a thread that has let go of
  the mutex writes its byte to the pipe. The 15 s timeout of select is *not* assumed:
  that is what the pipe is for.

* `RTSPTunnel`: threads go on with a Run, and a session that was signalled gets a
  thread (the property `sched_live` shows for tasks). No client, socket event or timeout
  is assumed to come.
* `ReliableUDP`: time passes, and a session that was refused comes back and sends what is
  due (its Run, or the write it tries again; both call `ResendDueEntries`). No ack is
  assumed to come. For a file, the timer of the session's Run does it. A write of a live
  stream is tried again by the reflector's sender, and after "a wake-up that is lost" (below)
  only with the next packet: for such a stream the assumption includes that packets keep coming.

The modules of the reflector state safety only.

## Proofs

Each property has an inductive invariant, with one lemma for each conjunct that a step
can disturb and one step for each action or effect, and `PTL` for the last step. They
assume only the named `ASSUME`s (finite sets of threads, `None` distinct, the limits in
their order), which TLC evaluates on every run. TLC checked each inductive invariant on the
run's instance before it was proved.

* `OSMutexRW_proof`: `Typed` counts threads by cardinalities of `ThreadsAt`, so
  each move of a thread from one place to another is a lemma on cardinality
  (`PcMove`). `NoWakeupIsLost` follows from it step by step. Who may be inside is proved for
  any number of writers: `ExclusiveUntilAnotherWriter` says that `fState` names the
  holders, one writer or exactly so many readers, as long as `doubled` is not set, and
  `WriterIsAlone` and `FreeOnceEmpty` follow. The damage of a second writer ends with the
  holders: each Unlock takes `fState` to 0 or down by one, and the last (`LastOneFrees`) finds
  it at most 1. `WritersComeFirst` is about steps: what a waiting writer holds off.
* `TaskScheduler_proof`: in `OnlyScheduledOnce` the places where
  a task can be (`PlacesOf`: about to be posted, queued, timed, held) are at most
  one, none when `kAlive` is not set, and none for a deleted task. `kAlive` works as
  a token: Signal takes it when it makes the one place, `compare_and_store` gives it
  back when the last place is left. `NowhereOnceDeleted` and `NothingStranded` come
  out of the same invariant; `Typed` is its first part and includes that the
  global lock is held exactly during Run. `UsesTheLock` proves that the pool's steps are
  steps of `OSMutexRW`, so that the theorems about the lock hold of the global lock:
  `LockedRunIsTheOnlyRun` (from `WriterIsAlone`) and `LockHeals` (from `FreeOnceEmpty`) hold
  whichever tasks ask for the lock, and however many. `ForcedThreadIsHonoured` follows a forced task through the queues of the
  threads it may be in, `FirstCallBackIsLocked` the mark `fWriteLock` from Run to Run.
  `PoolKeepsContract` is the refinement: every action of the pool is a step of
  `TaskContract` for each task, or leaves its status, its events and what it has seen alone.
* `OSRefTable_proof`: `IInv` joins the count (`fRefCount` is the number of holders),
  who sleeps and leaves, one leaver per ref, and the properties. `ResolvedIsSafe` needs that a
  ref leaves the table and ends only when its count is zero *and* that only what is in
  the table is taken; a swapped-out ref is out of the table but still counted.
* `EventContext_proof`: the invariant follows a descriptor from the context that has it
  (`Descriptors`) over the cookie (`Cookies`) into the masks and into select (`Armed`): what select works
  on has a cookie, or waits to be closed when select is back. `Heard`: what is armed and
  not polled has a byte in the pipe, or on its way. The table is an instance of
  `OSRefTable_proof` (`UsesTheTable`), from which `EventIsForOwner` takes that the context
  the event thread has resolved is not freed and that an ID finds one context. Its premise
  `[]NotWrapped` is that fewer than 10000000 sockets have been armed: after that an ID may
  have two contexts (see "IDs that wrap").
* `RTSPTunnel_proof`: `Links` says what the thread that joins two sessions has in hand,
  `Mapped` which session the cookie finds at each step of the joining, `Sockets` who reads which
  connection, `Mutexes` who has `fReadMutex`. The map is again an instance of
  `OSRefTable_proof` (`UsesTheMap`), which gives that the other half is not deleted.
  `Mutexes` had to be weakened while it was proved: the joining thread may hold
  the mutex of a session in a request, if it is the thread that session comes back on. It
  then has the recursive mutex twice, and that is what the invariant says. `BusyIsNotSnarfed`
  is what is left of the code's claim: no other thread joins a session in a request.
* `ReflectorSessions_proof`: the references that broadcasters owe are a set of pairs,
  one for each reference (`Pairs`), so that `RefsAddUp` is about its cardinality
  and each handler adds or removes the pairs of one broadcaster (`PairsChange`). `GoneIsEmpty`
  is the strengthening: an address without a session has no references.
* `ReflectorSender_proof`: a pass is described by what it makes of one output (`IsWritten`)
  and the removal by the map of the new positions into the old ones (`Shrinks`).
  `BookmarkIsFound` rests on `Marked`: an output that has not paused has one bookmark per
  sender it has heard of, so of its two slots one is free for the other. A stream has
  two senders in the code; the assumption says no more. `PacketIsSentOnce` rests on
  `Ahead`. A packet behind an output that was not sent to it (a new output starts after it)
  could still be sent if a later pass began before it; so each bookmark, of a former life of its packet
  too, is after what is unsent, and a new output, now and later, starts after it (`Passed`).
  That the start does not move back needs the order of the limits, 10 s before 13 s, and
  that the key frames looked at are recent. `AudioIsGivenInOrder` rests on
  `GivenInOrder`: what is before the bookmark was given, what is after it was not.

* `ReliableUDP_proof`: `IInv` says that a session that has not played holds nothing, that the
  tracker is within its bounds (`Trackers`), that its bytes are those of all lists (`InLists`)
  and that the packets of each list, with the time each is still of use, are those that wait
  (`Waits`). The code's loops are `Repeat`, a recursive function; each is replaced by a run of its steps
  (`RunExists`: a least number of steps without a run is impossible), and what holds after k
  steps by `RunStaysIn`, so that no induction over data is needed. What one turn of
  a loop does to a list and to the tracker together is `Balances` (what leaves the list is
  what leaves the count), `Frees` (and nothing is added) and `Drops` (only what has expired
  goes). `BurstHalvesOnce` holds of a pass over all streams because of `Least`, the
  least window that a pass can leave: the first retransmit takes the window there, no other
  moves it. `FlightIsBounded` needs the congestion window to be at most the client's, which
  `EmptyWindow` keeps, and that it is compared before a packet is added.

Only model-checked: liveness, which is out of the prover's reach (`WriterGetsIn`,
`EventIsTaken`, `UnRegisterReturns`, `ReadyIsSignalled`, `RemovedIsClosed`, `TunnelIsRead`,
`WindowReopens`).

## What the code does that its text denies

* **Two writers** (`rw_two_writers`): `LockWrite` waits for readers only; with a writer inside,
  a second goes in. Two tasks called back locked at the same time do it, and every
  `RTSPSession` may ask (RTSPSession.cpp:470, 940, 1020). The first of the two to leave sets
  `fState` to 0, so that readers too come in beside the other. What remains is
  `LockedRunIsAlone`, alone until a second writer comes, and that the lock is sound
  again once it is empty (`LockHeals`).

The rest is shown by no run: it is what the models contain, and what the properties of the
passing runs leave out for that reason.

* **Locked again**: `fWriteLock` is reset after a locked Run, also when this Run has just
  asked to be called back locked (Task.cpp:228-229), while RTSPSession.cpp:470 says "call
  this request back locked". `FirstCallIsLocked` is about the first such call only.
* **Shutdown**: `RemoveThreads` deletes the threads before it resets `sNumTaskThreads`
  (Task.cpp:411-414), and a Signal that has looked at it enqueues on a thread that is gone.
* **Snarfed in a request**: a GET session whose response does not get out at once
  returns with `fReadMutex` held and bound to its thread. Another POST with the cookie, run
  by the same thread, gets the recursive mutex, clears the input stream and sets the state
  back to reading, although RTSPSession.cpp:388 means to prevent it and 1408 says that "it
  cannot be in the process of reading data or processing a request". Any thread may also take
  the input between the end of kReadingRequest and the lock in kHaveNonTunnelMessage
  (RTSPSession.cpp:372, 390), which then makes an RTSPRequest from no buffer. Both happen in
  the model. `NotSnarfedInUse` is about the rest: a session that reads or processes a request,
  or waits for its thread in the middle of one, is joined by no *other* thread.
* **IDs that wrap**: after 10000000 sockets the IDs of contexts begin again at 1, and the
  refusal of a key that is still taken is not looked at (EventContext.cpp:191).
* **Robbed references**: a broadcaster that leaves gives back one reference per
  stream of the SDP. It has taken one per SETUP (none for the first, if that made the
  session) and one per PLAY, so with a stream not set up it takes those of viewers, whose
  session is then deleted under them ("this shouldn't happen", QTSSReflectorModule.cpp:2181).
  `KillSession` does the same, and uses the session after `RemoveOutput` may have deleted it
  (line 2032). `RefsAddUp` and `NeededIsAlive` except the sessions in `robbed`.
* **References kept**: a refused request keeps what it has resolved (lines 1383-1419), and
  a refused second broadcaster loses its session (line 1555), so that a session may stay
  for ever: `strays`.
* **A NULL output**: DESCRIBE after SETUP leaves an output that is NULL, which the next
  request uses (lines 1642, 723): `UseOutput`.
* **Young video is skipped**: a bookmark is relocated when the next packet's ID is not
  the next number (ReflectorStream.cpp:1299), and an RTCP packet takes a number from the same
  count. `SkipsOnlyAged` therefore holds only without relocation (`AudioSkipsOnlyAged`).
* **Bookmarks of a paused output**: nothing marks the packets of an output that does not
  play, so its bookmark may come back to life on a packet that was used again.
  `PlaceIsKept` is about outputs that have not paused.
* **A wake-up that is lost**: `ShouldReflectNow` means to hand on the next time to
  run (ReflectorStream.cpp:557) but adds the current time to a time that contains it and compares with 0:
  a Run for an event without a packet has cancelled the timer, and sets none. A blocked
  output then waits for the next packet.
* **An Assert that hits**: three Asserts of the tracker (RTPBandwidthTracker.cpp:93, 121, 176)
  demand that the bytes in flight stay below the client's window and 2000, "this
  assert hits" in the comments beside them. Flow control lets a packet in
  while the bytes are below the window, whatever its size, and a reflected packet may have
  10240 bytes (ReflectorStream.h:109): one near the end of the window makes them hit although
  nothing was miscounted. `InFlightBounded` says what does hold: the bytes in flight stay
  below the client's window and one largest packet.

## Not modelled

PROJECT.json lists each component with the reason. In short: the wrappers of the
platform's primitives are assumed to do what they say; text utilities and message
parsing are sequential functions of their input; dictionaries, preferences and logs
are tables; live555, EasyDSSProtocol, boost and libEasyCMS are third-party; the
Windows event loop (`win32ev.cpp`) and the Mac OS X event queue are other
implementations of what `ev.cpp` does. The rest is on the plan above.
