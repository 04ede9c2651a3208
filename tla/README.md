# A TLA+ development of the Android platform tools

The repository packages Android's host tools, in a tree that also holds much of
the Android platform. This directory holds TLA+ models of its concurrent and
protocol-bearing parts, the TLC configurations that check them on small
instances, and TLAPS proofs of the results that matter most:

- `adb`: a server on the host, a daemon (`adbd`) on the device, and streams
  between the two over one connection (`AdbSockets`, `AdbTransports`,
  `AdbConnection`);
- `fastboot` over UDP (`FastbootUdp`);
- `tombstoned`, which hands out the files that crashes are dumped to
  (`Tombstoned`);
- the `BufferQueue` of libgui, between the threads of a producer and a consumer
  of graphic buffers (`BufferQueue`).

Paths below are relative to `src/packages/modules/adb` unless they begin with
`system/` or `frameworks/`.

## Inventory

| Part | State | Operations | What is hard about it |
|---|---|---|---|
| Streams, `sockets.cpp` | local sockets, peers, queues, windows, the closing list | open, read, write, acknowledge, close | half-closes, hangups, simultaneous close, windows, ids used again after a restart |
| Packets, `adb.cpp` | online flag, features, connection state | CNXN, AUTH, STLS, OPEN, OKAY, WRTE, CLSE | packets of an earlier session |
| Transports, `transport.cpp` | two lists, kicked flag, connection, waitable | register, start, kick, destroy, remove | four threads share a raw pointer |
| Reconnect handler, `transport.cpp` | queue of attempts, running flag | track, wait, scan, retry, stop | condition variable, deadline, stop |
| Blocking connections, `transport.cpp` | two threads, a mutex, a write queue | start, stop, reset, write, TLS handshake | handshake against stop, thread joins |
| Event loop, `fdevent/` | interest, run queue, timeouts | poll, dispatch, run on looper | hangups, fairness, timeouts |
| Connecting, `client/transport_local.cpp` | map of emulator ports | connect, reconnect | check and use under two locks |
| Smart sockets, `sockets.cpp` | half-read request, peer | enqueue, switch transport | -1 with and without closing |
| Listeners, `adb_listeners.cpp` | listeners by name and transport | install, rebind, remove | disconnect in between |
| Authentication, `client/auth.cpp`, `daemon/auth.cpp` | keys left, token, prompt | sign, verify, prompt, authorize | late answers, key removal on another thread |
| USB, `daemon/usb.cpp`, `client/usb_*.cpp` | submitted requests, functionfs events | submit, complete, cancel | cancelled and completed at once |
| File sync | outstanding acknowledgements | push, pull | both ends full |
| Shell, jdwp, other services | descriptors of subprocesses | copy, exit | last output against exit status |
| fastboot over UDP, `system/core/fastboot/udp.cpp` | sequence number, attempts | send, retransmit, continue | late and duplicated answers, wrap |
| tombstoned, `system/core/debuggerd/tombstoned` | queue, running dumps, artifacts | request, perform, complete, intercept | failures and timeouts must give the place back |
| BufferQueue, `frameworks/native/libs/gui` | slots, four lists, queue, limits, caches of both sides | dequeue, queue, acquire, release, attach, detach, disconnect, allocate | the lock is left to allocate, to wait and to call back; caches go stale |

The packaging (`debian/`) builds adb, adbd, fastboot, the libsparse tools,
mkbootimg, etc1tool, hprof-conv and the libraries they need; only the first three
have concurrency or a protocol. tombstoned and libgui are in the tree and are not
packaged. `PROJECT.json` lists every part, with the reason for those that are not
modelled, and the hazards with the properties that cover them.

## Modules

### AdbSockets: streams over one transport

`sockets.cpp` and `handle_packet` run at both ends on one looper thread, so a
packet handler or an fdevent callback is one step. The model has both ends and a
FIFO of packets each way.

| Model | Code |
|---|---|
| `sock[e][i]`: `list`, `peer`, `delayed`/`available`, `packet_queue`, `has_write_error`, `read`, `write` | `asocket`, the two socket lists, `available_send_bytes`, the FDE_READ and FDE_WRITE bits |
| `tr[e]` | `online` and the delayed_ack feature of the `atransport` |
| `fd[e][i]` | the application's end: what it received, whether it shut a side |
| `OpenAccepted`, `OpenRefused`, `OkayKnown`, `OkayUnknown`, `ClseKnown`, `WrteKnown`, `UnknownDropped`, `OfflineDropped`, `handle_new_connection` | the branches of `handle_packet` |
| `WriteEvent`, `ReadEvent`, `WriteReadEvent` | `local_socket_event_func`, writing before reading |
| `flush_incoming`, `flush_outgoing`, `local_socket_ack`, `local_socket_close`, `remote_socket_shutdown` | the functions of these names |
| `connect_to_remote` | `listener_event_func` with `connect_to_remote` |
| `HostRestarts`, `CancelWrites` | a new server on the same USB connection; the daemon's cancelling of stale writes |

A remote socket is an id and a transport, and is the `peer` field of its local
socket. A byte is known by the socket that read it and its position. The server
a stream was opened for (`gen`) is history: no action depends on it.

A partial write, EAGAIN, an error and a hangup are choices at every call. A shut
writing side raises EPOLLRDHUP, which is always asked for and is reported as
FDE_READ whatever the fdevent wants; this drives several results below.
Authentication is taken as not required, so going online is one step.

### AdbTransports: the life of a transport in the host server

Four kinds of threads share an `atransport` by raw pointer: the connecting
thread, the looper, the threads of the connection, and the reconnect handler.

| Model | Code |
|---|---|
| `mem`, `list`, `kicked`, `conn`, `state`, `waitable` | the transport: allocated, its list, `kicked_`, its connection, `connection_state_`, the ConnectionWaitable |
| `reg`, `runq` | the registration socket; the queue of `fdevent_run_on_looper` |
| `looper` | poll one event, then flush the run queue; the end of the server |
| `running`, `queue`, `handler`, `attempt` | `ReconnectHandler` |
| `RegisterRefused` ... `RegisterReads` | `register_socket_transport`, cut at its lock, its send, its wait and its last read |
| `Register`, `Unregister` | `transport_registration_func` |
| `RunPacket`, `RunError` | the closures of `HandleRead` and `HandleError`, the latter with `transport_destroy` |
| `kick_transport`, `kick_all_tcp_devices` | the functions of these names |
| `StopRequested`, `StopNotifies`, `StopJoined` | `adb_server_cleanup`, `kick_all_transports`, `ReconnectHandler::Stop` |
| `RunWaits` ... `ReconnectAborts` | `ReconnectHandler::Run`, cut where it waits, unlocks and reconnects |

A reconnect time is reached at any moment, so there is no clock. The handler's
mutex is held across two steps (`LockFree`). A connection is one state: what
`Stop` does is one step that returns with the threads joined, and kicks come from
the looper. `AdbConnection` opens that one state up, and shows when it may be
taken for one (`ImplementsLife`): always, but for the window after a failed TLS
handshake that is described there.

`MCTransports` gives the transports their addresses for TLC.

### AdbConnection: the threads of one connection

`BlockingConnectionAdapter` over a TCP socket, cut wherever a thread takes
`mutex_`, waits or joins. Four threads take part: the looper, the read thread,
the write thread, and the detached thread of `adb_auth_tls_handshake`.

| Model | Code |
|---|---|
| `conn` | `started_`, `stopped_`, `write_queue_`, the two `std::thread` members, `error_flag_`, and of the `FdConnection` whether it is open and its `tls_` |
| `reader`, `writer`, `writing`, `shaker`, `looper`, `stop` | where each thread is, `stop` for each of the two that may be in `Stop` |
| `Reads`, `HandleRead`, `ReadFails`, `ReadReports` | `StartReadThread` |
| `WriterTakes` ... `WriteReports` | the write thread of `Start` |
| `ResetEnter` ... `StopReports` | `Reset` and `Stop` |
| `DoTlsHandshake`, `HandshakeBegins`, `HandshakeEnds` | `DoTlsHandshake`, which holds `mutex_` throughout and starts a read thread whether or not the handshake succeeded |
| `Register` ... `Unregister`, `ReconnectHandler` | what the transport's owner does to the connection, as in `AdbTransports` |

`AdbConnectionLife` is the abstract specification: a connection as
`AdbTransports` takes it, one phase and what it queues on the looper. The mapping
calls it "failed" once the error is reported and "stopped" once `Stop` has
returned to the looper and the handshake thread is not in a `Stop` of its own.

That last condition matters after a failed handshake. The handshake thread has then
started a read thread on the bare socket, kicks the transport, and closes and joins
in its `Stop`. The looper's `Stop` finds `stopped_` set and returns at once, so the
transport may be deleted while that read thread still queues a packet that came in
plain. The model lets the device send one. `ClosuresLive` and `ImplementsLife` name
this window, `AdbTransports` does not have it: `PacketsLive` is about connections
whose `Stop` is one step. (`adbd` itself sends nothing in plain after a failed
handshake, `daemon/auth.cpp:367`.)

### FastbootUdp: fastboot over an unreliable network

`UdpTransport` on the host, a network that loses, repeats, delays and reorders
datagrams, and the target. The boot loader is not in the repository: it is
modelled from the answers the host's code expects, and marked external.

| Model | Code |
|---|---|
| `host`: `sequence`, `attempts`, the packet outstanding, the pieces left | `UdpTransport` and the locals of `SendData` and `SendSinglePacketHelper` |
| `Connect`, `AcceptQuery`, `AcceptInit` | `InitializeProtocol` |
| `Write`, `Read`, `AcceptChunk`, `AcceptMore`, `AcceptLast`, `AcceptError` | `SendData`, continuation packets both ways |
| `receive`, `Discard`, `Elapses`, `Timeout`, `SocketFails` | `Receive`: a datagram that does not match is dropped and gives it its whole timeout back; time passes; it times out, or fails |
| `Stop` | the program ends, at any moment, and may be started again |

`sequence` is as wide as the code's variable and is cut to `SeqMod` values when it
is put in a header. `num` and `op` in a datagram are history: no action reads them.
A datagram disappears when the target has executed `Lifetime` more packets, with
`Lifetime < SeqMod`: 65536 packets take far longer than a datagram lives. Without
such a bound no transport with a finite number could be correct. `MaxPackets` bounds
the packets that are ever sent; no property depends on it to hold, and in particular
none says that a call ends: a target that answers and goes on answering keeps the
host in `SendSinglePacketHelper`, which gets all its attempts back with each
continuation.

`FastbootExchange` is the abstract specification: packets are executed in order,
none twice, and a call ends only when its packet was executed. A call that gives
up costs the session its trust, and nothing is promised after that: the code
cannot know whether the packet was executed, and leaves the number as it was.

### Tombstoned: the crash queues

One libevent thread, so a callback is one step. `maybe_dequeue_crashes` is a step
per pass of its loop, during which nothing else happens.

| Model | Code |
|---|---|
| `crash`, `queue`, `intercept`, `intercepts` | `Crash`, the two `CrashQueue`s, `Intercept`, `InterceptManager` |
| `disk`, `written` | the artifacts on disk, by the order they were linked in, which the code does not see |
| `Stats` | what `stat` tells at a restart (external): seconds, `Missing`, or `Failed` |
| `crash_accept_cb`, `CrashRefused`, `crash_request_cb`, `CompletedEmpty`, `CompletedFile`, `Dequeue` | the callbacks of `tombstoned.cpp`, with `perform_request` |
| `intercept_accept_cb`, `InterceptRefused`, `intercept_request_cb`, `intercept_close_cb`, `GetIntercept` | `intercept_manager.cpp` |
| `Restart`, `find_oldest_artifact` | init starts tombstoned again; connections are lost, files stay |

`st_mtime` is the second of the last write to a file, by a clock that may be set. So
two files may have one second, and the seconds need not follow the order in which the
dumps ended. At a restart the model therefore draws any seconds for the files, lets
`stat` fail on any path, and records in the history variable `intact` whether what was
told still gave the order: no failure, and every file `Earlier` than the ones written
after it, where of two equal seconds the lower path is taken. `OldestReplaced` is
stated for queues that are `intact`; for the others the code has nothing to go by.

### BufferQueue: slots between a producer and a consumer

A step is one critical section of the core's `mMutex` together with what the
caller in `Surface` or `ConsumerBase` does with its result. Calls that leave the
section to allocate, to wait, or to call a listener have a step for each part.

| Model | Code |
|---|---|
| `mCore`, `mSlots`, `mFreeSlots`, `mFreeBuffers`, `mUnusedSlots`, `mActiveBuffers`, `mQueue` | `BufferQueueCore` |
| `surface`, `owned` | `Surface::mSlots`, and what the application has dequeued |
| `consumer`, `held` | `ConsumerBase::mSlots`, and what the consumer has acquired |
| `dequeueBuffer`, `DequeueAwaits`, `DequeueSearches`, `Woken`, `TimedOut`, `DequeueAllocated`, `SurfaceDequeued` | `dequeueBuffer`, `waitForFreeSlotThenRelock` and `Surface::dequeueBuffer(s)` |
| `attachBuffer`, `queueBuffer`, `QueueCallsBack`, `cancelBuffer`, `detachBuffer`, `detachNextBuffer`, `allocateBuffers` ..., `connect`, `disconnect`, the three setters | `BufferQueueProducer.cpp` |
| `acquireBuffer`, `releaseBuffer`, `DetachAcquired`, the two setters, `discardFreeBuffers`, `abandon` | `BufferQueueConsumer.cpp` |
| `freeAllBuffersLocked`, `adjustAvailableSlotsLocked` and the counts | `BufferQueueCore.cpp` |

Constants say which threads make which calls and which faults occur, so that the
passing run and each disagreement below are the same module. A buffer that is attached
is one that nobody refers to: attaching one that a cache still holds is not explored.
In the passing run one thread dequeues, queues and manages, and another allocates
ahead.

## What the runs show

| Run | Checks | Bounds |
|---|---|---|
| `sockets_flow` | a parked socket waits for FDE_WRITE (the `CHECK_EQ` of `local_socket_close`); streams arrive in order without gaps; delayed acks conserve credit; a sender never stalls; no data after A_CLSE; the window is overdrawn by less than a payload; a closing socket drains | one stream, two bytes each way, payload 2, window 1, both ack modes |
| `sockets_restart` | ends agree who their peer is, and belong to one server | one restart, two device ids, one byte |
| `sockets_live` | a hangup closes the socket; every A_OPEN is answered; an orphan is closed | both ends open, one restart, one byte |
| `transports_one_device` | no device has two transports; a lost transport is reconnected or deleted; a kicked one is deleted | two connects to one address, one retry |
| `transports_two_devices` | one custodian per transport; no closure outlives its transport; a connection is started once | a device and an emulator, one retry |
| `connection` | type; no closure of a deleted transport, but for a packet in plain after a failed handshake; `Stop` joins threads that are joinable; `Stop` returns; the connection implements `AdbConnectionLife` | one connection, one handshake, one packet queued at a time |
| `fastboot_udp` | an answer is to the packet that was sent; a session starts on an initialized target; the transport implements `FastbootExchange`; a packet is answered or given up unless datagrams that do not match come for ever | 3 sequence numbers, lifetime 2, two sessions, six packets, two attempts |
| `tombstoned` | places are counted; no idle place while a crash waits; one owner per crash; the two fatal checks of intercepts; the oldest artifact is replaced, if `stat` tells which that is; every crash ends | three crashes, two intercepts of one pid, one place for tombstones and two for ANRs, one restart, two seconds |
| `buffer_queue` | type; `validateConsistencyLocked`; the application has the buffer the queue has in its slot; the consumer's buffer is not given to the producer; the consumer has every buffer it is not sent; no lost wake-up; callbacks in order | two producer threads, three slots, two buffers alive at a time, two frames, every call of the module |

The type invariants of the modules that have proofs are proved and not run.

A window of 1 with payloads of 2 makes the window negative at the first read; two
bytes are enough for a partial write and for a gap or a swap in a stream. One
restart reuses the host's ids while the device still has the old streams, and two
device ids let it hold an old and a new socket at once. Two transports compete
for an address, for the registration socket and for the handler; one retry gives
a transport both kinds of failed attempt. Three sequence numbers wrap within one
session, with a lifetime one short of them; two sessions let the datagrams of the
first reach the second. Three crashes fill a place, the queue and the place
again; two intercepts of one pid collide; two seconds give files that are alike, in
order and out of order. Two buffers let a slot change its buffer
under a cached one, and two frames put callbacks out of order; with a third buffer
(one queued, one acquired, one dequeued) the run also passes, with 820,174 states. Ids, transports, crashes and frames are used once, so all of these
systems come to rest: deadlock is not checked.

### Where the code and its documents disagree

| Run | The text | What the run shows |
|---|---|---|
| `transports_waiter` | `transport.h:214`: the transport can be destroyed race-free | the waiting thread reads the transport after the wait, when it may be deleted |
| `connection_threads` | `transport.cpp:412`: the threads are moved out and left to exit | the handshake thread takes `mutex_` after `Stop` has moved the threads out, and starts a read thread that nobody joins |
| `buffer_queue_allocation` | `BufferQueueCore.h:287`: FREE slots are left alone while `mIsAllocating` is true; `BufferQueueProducer.cpp:423`: no allocation in parallel | a dequeue and `allocateBuffers` allocate at once behind one flag; the first to end clears it, a disconnect on another thread does not wait, and the late buffer ends up in a FREE slot |

The same modules show further disagreements with other values of the constants.
These are not kept as runs.

- `MCSocketsRestart.cfg` with two restarts violates `SameServer`: an A_CNXN left
  over from the first server brings the third one online early, and an A_OKAY for
  the second joins a socket of the third (`protocol.txt:140`).
- `MCBufferQueue.cfg` with `LateLimits = TRUE` violates `NoLostWakeup`:
  `setMaxAcquiredBufferCount` adds slots and does not notify, although
  `BufferQueueProducer.cpp:358` says that the wait is also for the limit to change.
- With `Failures = {TRUE}` it violates `Consistent`: a dequeue whose allocation
  fails leaves its slot in `mActiveBuffers` and `mFreeSlots` both.
- With `BufferCounts = {2, 3}`, or `ByApps = {TRUE}`, it violates `Consistent`:
  the limits change by the difference of the arguments, while the number of slots
  is clipped by `mMaxBufferCount`.
- With `Batches = {TRUE}` it violates `OwnedByProducer`: `Surface::dequeueBuffers`
  tests the reallocation bit of the call's status instead of each output's
  (`Surface.cpp:855`), and keeps a stale buffer.

Passing properties that are weaker than a reader might expect, for reasons the
model shows:

- `KickedIsDeleted` names the moments at which a kick is honoured. One during
  `Reconnect()` is forgotten, and later ones do nothing, although
  `transport.cpp:1585` says that a kicked transport is closed and freed.
- `LostIsResolved` excludes the end of the server: `ReconnectHandler::Stop` may
  notify while the handler is in `Reconnect()`, and then joins a thread that waits
  without a deadline.
- A transport may be shown online without a connection, when an A_CNXN is handled
  after the write thread's error (`OVERVIEW.TXT:38`).
- `OverdraftBounded` and `ClosingDrains` except hangups: after one, the rest of
  the data is read and sent without waiting for A_OKAY (`protocol.txt:166`), and a
  closing socket is destroyed with data queued (`socket.h:127`, `sockets.cpp:160`
  do not mention it).
- `ClosuresLive` and `ImplementsLife` except a packet in plain after a failed
  handshake, as described under AdbConnection.
- `PacketSettles` excepts datagrams that do not match and come for ever, and is about
  one packet, not about a call.
- `OldestReplaced` excepts restarts at which the times of the files do not give their
  order.
- `StopReturns` depends on the device: while a handshake lasts, the looper waits
  for `mutex_`.
- `Consistent` and `OwnedByProducer` say nothing of an abandoned queue, which may
  still be given a slot by a late dequeue.

### Fairness

`AdbSockets`: weak fairness of each looper's packet handling, and of serving a
hangup on each descriptor, since epoll is level-triggered and reports it in every
poll. This assumes that no descriptor is ready for ever: `HandleEvents` stops
after one event per poll, so one that never goes quiet could keep others waiting.
Nothing is assumed of applications: they may never read or write.

`AdbTransports`: weak fairness of the looper, the handler and the connecting
threads. Strong fairness of `FlushEnds` and of the registration socket says that
the run queue is not refilled for ever faster than it is emptied, and that other
events do not always come first. Strong fairness of `RunTakes(t)` says that a
reconnect time is reached: the queue is ordered by time, and times only pass.
Spurious wake-ups, kicks, failures, packets and the end of the server are never
forced.

`AdbConnection`: weak fairness of each thread. A read or a write of a closed socket
fails; one of an open socket may take for ever. The device ends a handshake, or
the connection to it breaks.

`FastbootUdp`: weak fairness of `Elapses` and `Timeout`: time passes, and a `Receive`
that no datagram interrupts returns. A datagram that does not match disables `Timeout`
until time has passed again, so one that comes again and again may keep it from ever
happening, as in the code. Nothing is assumed of the network or the target.

`Tombstoned`: weak fairness of a crash's time-out, which every event of a crash has,
and of the loop that starts waiting crashes. Nothing is assumed of the processes. A
process connects once, so `CrashEnds` says of each one that it ends by saying that again
and again none that has connected is left.

`BufferQueue` states safety only; `NoLostWakeup` is the safety part of progress.

## What is proved

All theorems hold for every value of the constants that satisfies the module's
assumption: positive ids, payload and window and any features and openers in
`AdbSockets`; finitely many transports with an address each in `AdbTransports`;
any number of sequence numbers, and datagrams that live shorter than a wrap, in
`FastbootUdp`; any number of crashes, intercepts and restarts, any times, and more
artifacts than places, which the constructor checks, in `Tombstoned`; any threads,
slots, buffers and calls in `BufferQueue`.

`AdbSocketsProofs`
- `TypeCorrect`: `Spec => []TypeOK`.
- `ClosingCheckHolds`: `Spec => []ClosingWaitsForWrite`, the `CHECK_EQ` of
  `local_socket_close` and what it is there for.

  The check is not inductive: whether a socket that is parked wants FDE_WRITE
  depends on its history. `IInv` adds `WriteInterest` (FDE_WRITE is wanted exactly
  while there is data and no write error) and `FdBounded`. Lemmas show that each
  function of `sockets.cpp` maps a good socket to a good socket; one lemma per
  action combines them.

`AdbTransportsProofs`, which extends `AdbTransportsSteps` (the steps of the looper
and of the reconnect handler) and `AdbTransportsInvariant` (the invariant, lemmas
about the queues, the steps of the other threads)
- `CustodyTheorem`: exactly one party is responsible for a live transport and
  none for a deleted one: nothing is removed or tracked twice, or forgotten.
- `PacketsLiveTheorem`: no closure on the run queue outlives its transport.
- `StartsFreshTheorem`: `Start` is never called on a started connection.
- `SerialsUniqueTheorem`: no two live transports have one address.
- `TypeCorrect`: `Spec => []TypeOK`.

  `IInv` states custody as a function that gives each transport its one place
  (`Placed`), and that it occurs there once (`Once`). `Connections` says that a
  failed connection has its error closure queued and that one not registered yet
  is fresh. `Packets` is the ordering argument: while the looper polls, which is
  when it reads the message that deletes a transport, a queued packet belongs to a
  running connection or comes with the error closure of its own, and then the
  custodian of its transport is not the registration socket. `Listed` says
  that a live transport is in a list, where the next connect finds its address.

`FastbootUdpProofs`
- `UdpImplementsExchange`: the transport implements `FastbootExchange`.
- `AnswersAreMine`: an answer that is taken answers the packet that was sent.
- `SessionsStartClean`: a session begins on a target that was initialized last.
- `TypeCorrect`: `Spec => []TypeOK`.

  `IInv` says what may be in the network: no datagram is older than its lifetime
  (so two numbers that agree when cut are equal, lemma `CutEqual`), a packet with
  the number the target expects is newer than all it executed, and an answer with
  the last number answers the last packet. The host's number is the expected one,
  or the one before it while nothing else can take the expected one (`Current`,
  `Free`). For a session that has not given up, the packet it waits for is the
  only one that can be executed, or the one that was executed last (`MineOK`).

`TombstonedProofs`, which extends `TombstonedSteps` (the invariant and the steps up
to the dump)
- `PlacesAreCounted`: `num_concurrent_dumps_` is the number of dumps that run.
- `NoPlaceIdle`: no crash waits while there is a place.
- `CrashesOwned`: a crash is in a queue once, or has an event, never both.
- `InterceptsAreFound`: the fatal checks of `intercept_close_cb` hold.
- `OldestIsReplaced`: only the oldest artifact is replaced, across restarts too, while
  renaming works and if `stat` told the order of the files.
- `TypeCorrect`: `Spec => []TypeOK`.

  `IInv` joins these and adds `Rotation`: the artifacts before `next_artifact_` are
  newer than those from it on, each part is in order, and no two are alike. After a
  restart `find_oldest_artifact` has only the seconds of the files; `Rotation` is why
  the first minimum it finds, if they give the order, is the place where the rotation
  stopped (lemma `OldestIsNext`).

`BufferQueueProofs`
- `ListenerToldInOrder`: `Spec => CallbacksInOrder`.
- `TicketNeverLost`: while the listener has not been told of a queued frame, exactly
  one thread holds the ticket that is due.
- `NoSleeperForgotten`: no thread sleeps in `waitForFreeSlotThenRelock` while there is a
  slot for it, for any number of threads that dequeue, attach and manage. Its
  hypothesis `FixedLimits` leaves out what may make a slot free without notifying, the
  consumer's two setters and failed allocations, and a queue whose two sides belong to
  one application, where a dequeue does not wait.

  `Tickets` says that the threads between `queueBuffer` and its callback hold the
  tickets from the next one to the frame counter, one each. `Sleepers` says that while
  a thread sleeps there is no free slot or the queue is too long.

Only model-checked: stream integrity, credit, stalls, agreement of the ends,
which relate the contents of both channels and need sums over them; the threads
of `AdbConnection`, which has no constants, so that its run covers it up to one
queued packet; the rest of `BufferQueue`; and all liveness properties, which are outside what
the prover handles.

## Not modelled

- adb: authentication, pairing and the cryptography of TLS, corrupt packets, USB
  transports and hotplug, smart sockets, listeners, file sync, the services behind
  their descriptor, the command line, and the choice of the event loop among ready
  descriptors. `hazards` in `PROJECT.json` lists what could go wrong there.
- fastboot: TCP and USB, the flashing tasks, and everything on the device.
- tombstoned: temporary names, and the dumping itself.
- BufferQueue: shared buffer mode, the consumer's `attachBuffer`,
  `allowAllocation(false)`, a dequeue time-out of zero, the extra buffer that
  `ConsumerBase` may acquire, and the mutexes of `Surface` and `ConsumerBase`.
- The rest of the tree, some 700,000 lines: init, fs_mgr, the system daemons,
  SurfaceFlinger, binder, dalvik, the base libraries, image tools and vendored
  libraries. Much of it is sequential I/O, parsing and format conversion; init,
  binder, SurfaceFlinger and libsnapshot have state machines and threads of their
  own, each worth a development of its own. Most of it is not built into the
  packaged tools. The mapped lines are well under one per cent of the tree, and no
  set of faithful models of this kind would bring them near a third of it.

Sizes are small numbers: `available_send_bytes` is 64 bits wide and cannot wrap in
a session; the 32-bit socket id and the 64-bit frame number are taken not to wrap.
