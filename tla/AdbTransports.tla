---------------------------- MODULE AdbTransports ----------------------------
(***************************************************************************)
(* The life of a transport in the adb host server: connect_device on a     *)
(* service thread creates it and waits for the device to answer, the       *)
(* looper registers, starts, destroys and deletes it, the threads of its   *)
(* connection report its failure, and the ReconnectHandler thread tries to *)
(* bring it back.  The four share the transport by raw pointer, through    *)
(* the registration socket, the looper's run queue and the queue of        *)
(* reconnect attempts.                                                     *)
(*                                                                         *)
(* A connection stands for a BlockingConnectionAdapter with its two        *)
(* threads.  Times are left out: a reconnect time is reached, and a        *)
(* timeout expires, at any moment.                                         *)
(***************************************************************************)
EXTENDS Integers, Sequences, FiniteSets

CONSTANTS
    Transports,     \* the transports that may be created, each once
    Serials,        \* the addresses of devices
    Serial,         \* the address each transport is for
    Emulators,      \* the transports whose reconnect callback gives up at once
    MaxAttempts     \* ReconnectHandler::kMaxAttempts

ASSUME TransportsAssumption ==
    /\ Serial \in [Transports -> Serials]
    /\ IsFiniteSet(Transports)
    /\ Emulators \subseteq Transports
    /\ MaxAttempts \in Nat

VARIABLES
    mem,            \* is the atransport allocated: "unused", "live", "deleted"
    list,           \* the list it is in: "none", "pending", "transports"
    kicked,         \* atransport::kicked_
    conn,           \* its connection: "fresh" before Start, "running", "failed"
                    \* once its error is reported, "stopped"
    state,          \* atransport::connection_state_: "offline" or "device"
    waitable,       \* ConnectionWaitable: "pending", "established", "failed"
    connector,      \* the thread in register_socket_transport for it
    reg,            \* the transport registration socket, a queue of tmsg
    runq,           \* the closures queued by fdevent_run_on_looper
    looper,         \* what the looper does: "poll", "flush" the run queue, ...
    running,        \* ReconnectHandler::running_
    queue,          \* ReconnectHandler::reconnect_queue_
    handler,        \* where the ReconnectHandler thread is in Run
    attempt         \* the attempt it has taken from the queue, if any

life == <<mem, list, kicked, conn, state, waitable>>
reconnect == <<running, queue, handler, attempt>>
vars == <<life, connector, reg, runq, looper, reconnect>>

Attempt == [transport : Transports, left : 0..MaxAttempts]
Tmsg == [action : {"REGISTER", "UNREGISTER"}, transport : Transports]
Closure == [runs : {"packet", "error"}, transport : Transports]

REGISTER(t) == [action |-> "REGISTER", transport |-> t]
UNREGISTER(t) == [action |-> "UNREGISTER", transport |-> t]

\* HandleRead queues a packet, here the device's CNXN; HandleError the teardown.
HandleRead(t) == [runs |-> "packet", transport |-> t]
HandleError(t) == [runs |-> "error", transport |-> t]

TypeOK ==
    /\ mem \in [Transports -> {"unused", "live", "deleted"}]
    /\ list \in [Transports -> {"none", "pending", "transports"}]
    /\ kicked \in [Transports -> BOOLEAN]
    /\ conn \in [Transports -> {"fresh", "running", "failed", "stopped"}]
    /\ state \in [Transports -> {"offline", "device"}]
    /\ waitable \in [Transports -> {"pending", "established", "failed"}]
    /\ connector \in [Transports -> {"idle", "created", "waiting", "answered", "done"}]
    /\ reg \in Seq(Tmsg)
    /\ runq \in Seq(Closure)
    /\ looper \in {"poll", "flush", "stopping", "joining", "exited"}
    /\ running \in BOOLEAN
    /\ queue \in SUBSET Attempt
    /\ handler \in {"top", "waiting", "sleeping", "woken", "scanned", "reconnecting", "returned"}
    /\ attempt \in SUBSET Attempt

Init ==
    /\ mem = [t \in Transports |-> "unused"]
    /\ list = [t \in Transports |-> "none"]
    /\ kicked = [t \in Transports |-> FALSE]
    /\ conn = [t \in Transports |-> "fresh"]
    /\ state = [t \in Transports |-> "offline"]
    /\ waitable = [t \in Transports |-> "pending"]
    /\ connector = [t \in Transports |-> "idle"]
    /\ reg = <<>>
    /\ runq = <<>>
    /\ looper = "poll"
    /\ running = TRUE
    /\ queue = {}
    /\ handler = "top"
    /\ attempt = {}

-----------------------------------------------------------------------------
\* The reconnect handler's mutex: held from the scan of its queue to the choice
\* of an attempt, and otherwise only within a step.
LockFree == handler # "scanned"

\* reconnect_cv_.notify_one(): lost unless the thread is waiting.
Notified == IF handler \in {"waiting", "sleeping"} THEN "woken" ELSE handler

\* The orders in which a loop over a set may visit it.
Orders(S) ==
    {s \in [1..Cardinality(S) -> S] :
        /\ \A i, j \in DOMAIN s : s[i] = s[j] => i = j
        /\ \A x \in S : \E i \in DOMAIN s : s[i] = x}

UNREGISTERs(s) == [i \in DOMAIN s |-> UNREGISTER(s[i])]
HandleErrors(s) == [i \in DOMAIN s |-> HandleError(s[i])]

\* Variant: Stop does not wait for the read thread.
StopUnjoined(S) ==
    [t \in Transports |->
        IF t \in S /\ conn[t] # "fresh" THEN "failed" ELSE conn[t]]

\* BlockingConnectionAdapter::Stop, of the connections of the transports in S:
\* one not started, or already stopped, is left alone; the error flag makes it
\* report an error only if none of its threads has.
Stop(S) ==
    [t \in Transports |->
        IF t \in S /\ conn[t] # "fresh" THEN "stopped" ELSE conn[t]]

StopReports(S) == {t \in S : conn[t] = "running"}

\* atransport::Kick of every transport in S: only the first kick stops.
Kick(S) ==
    LET first == {t \in S : ~kicked[t]} IN
    /\ kicked' = [t \in Transports |-> kicked[t] \/ t \in S]
    /\ conn' = Stop(first)
    /\ \E s \in Orders(StopReports(first)) : runq' = runq \o HandleErrors(s)

InList(l) == {t \in Transports : list[t] = l}

-----------------------------------------------------------------------------
(* The thread that connects: register_socket_transport.                      *)

\* A transport whose serial is already in a list is deleted again.
RegisterRefused(t) ==
    /\ looper # "exited"
    /\ mem[t] = "unused"
    /\ \E u \in InList("pending") \cup InList("transports") : Serial[u] = Serial[t]
    /\ mem' = [mem EXCEPT ![t] = "deleted"]
    /\ connector' = [connector EXCEPT ![t] = "done"]
    /\ UNCHANGED <<list, kicked, conn, state, waitable, reg, runq, looper, reconnect>>

\* Variant: only the list of registered transports is searched.
RegisterUnseen(t) ==
    /\ looper # "exited"
    /\ mem[t] = "unused"
    /\ \A u \in InList("transports") : Serial[u] # Serial[t]
    /\ mem' = [mem EXCEPT ![t] = "live"]
    /\ list' = [list EXCEPT ![t] = "pending"]
    /\ connector' = [connector EXCEPT ![t] = "created"]
    /\ UNCHANGED <<kicked, conn, state, waitable, reg, runq, looper, reconnect>>

\* Any other joins the pending list.
RegisterPending(t) ==
    /\ looper # "exited"
    /\ mem[t] = "unused"
    /\ \A u \in InList("pending") \cup InList("transports") : Serial[u] # Serial[t]
    /\ mem' = [mem EXCEPT ![t] = "live"]
    /\ list' = [list EXCEPT ![t] = "pending"]
    /\ connector' = [connector EXCEPT ![t] = "created"]
    /\ UNCHANGED <<kicked, conn, state, waitable, reg, runq, looper, reconnect>>

\* register_transport; nobody waits for an emulator.
RegisterSends(t) ==
    /\ looper # "exited"
    /\ connector[t] = "created"
    /\ reg' = Append(reg, REGISTER(t))
    /\ connector' = [connector EXCEPT ![t] = IF t \in Emulators THEN "done" ELSE "waiting"]
    /\ UNCHANGED <<life, runq, looper, reconnect>>

\* WaitForConnection returns: answered, refused by the destructor, or after
\* its timeout.
RegisterWaits(t) ==
    /\ looper # "exited"
    /\ connector[t] = "waiting"
    /\ connector' = [connector EXCEPT ![t] =
           IF waitable[t] = "established" THEN "answered" ELSE "done"]
    /\ UNCHANGED <<life, reg, runq, looper, reconnect>>

\* t->GetConnectionState(), through the raw pointer.
RegisterReads(t) ==
    /\ looper # "exited"
    /\ connector[t] = "answered"
    /\ connector' = [connector EXCEPT ![t] = "done"]
    /\ UNCHANGED <<life, reg, runq, looper, reconnect>>

-----------------------------------------------------------------------------
(* The threads of a connection.  A write failure leaves the read thread       *)
(* running until the connection is stopped.                                   *)

ConnectionReads(t) ==
    /\ looper # "exited"
    /\ conn[t] \in {"running", "failed"}
    /\ \A i \in DOMAIN runq : runq[i] # HandleRead(t)   \* bounds the packets
    /\ runq' = Append(runq, HandleRead(t))
    /\ UNCHANGED <<life, connector, reg, looper, reconnect>>

ConnectionFails(t) ==
    /\ looper # "exited"
    /\ conn[t] = "running"
    /\ conn' = [conn EXCEPT ![t] = "failed"]
    /\ runq' = Append(runq, HandleError(t))
    /\ UNCHANGED <<mem, list, kicked, state, waitable, connector, reg, looper, reconnect>>

-----------------------------------------------------------------------------
(* The looper: one event per poll, then the whole run queue.                  *)

\* transport_registration_func, UNREGISTER: the destructor answers the waiter.
Unregister ==
    /\ looper = "poll"
    /\ reg # <<>>
    /\ Head(reg).action = "UNREGISTER"
    /\ LET t == Head(reg).transport IN
       /\ list' = [list EXCEPT ![t] = "none"]
       /\ mem' = [mem EXCEPT ![t] = "deleted"]
       /\ waitable' = [waitable EXCEPT ![t] = IF @ = "pending" THEN "failed" ELSE @]
    /\ reg' = Tail(reg)
    /\ looper' = "flush"
    /\ UNCHANGED <<kicked, conn, state, connector, runq, reconnect>>

\* transport_registration_func, REGISTER: the connection's threads start.
Register ==
    /\ looper = "poll"
    /\ reg # <<>>
    /\ Head(reg).action = "REGISTER"
    /\ LET t == Head(reg).transport IN
       /\ conn' = [conn EXCEPT ![t] = "running"]
       /\ list' = [list EXCEPT ![t] = IF @ = "pending" THEN "transports" ELSE @]
    /\ reg' = Tail(reg)
    /\ looper' = "flush"
    /\ UNCHANGED <<mem, kicked, state, waitable, connector, runq, reconnect>>

\* kick_transport, for "adb disconnect <address>" and "adb reconnect".
kick_transport(t) ==
    /\ looper = "poll"
    /\ list[t] = "transports"
    /\ Kick({t})
    /\ handler' = Notified
    /\ looper' = "flush"
    /\ UNCHANGED <<mem, list, state, waitable, connector, reg, running, queue, attempt>>

\* "adb disconnect": every transport of the list.
kick_all_tcp_devices ==
    /\ looper = "poll"
    /\ InList("transports") # {}
    /\ Kick(InList("transports"))
    /\ handler' = Notified
    /\ looper' = "flush"
    /\ UNCHANGED <<mem, list, state, waitable, connector, reg, running, queue, attempt>>

\* fdevent_context::Run interrupts the poll.
Interrupt ==
    /\ looper = "poll"
    /\ runq # <<>>
    /\ looper' = "flush"
    /\ UNCHANGED <<life, connector, reg, runq, reconnect>>

FlushEnds ==
    /\ looper = "flush"
    /\ runq = <<>>
    /\ looper' = "poll"
    /\ UNCHANGED <<life, connector, reg, runq, reconnect>>

\* handle_packet, A_CNXN.
RunPacket ==
    /\ looper = "flush"
    /\ runq # <<>>
    /\ Head(runq).runs = "packet"
    /\ LET t == Head(runq).transport IN
       /\ state' = [state EXCEPT ![t] = "device"]
       /\ waitable' = [waitable EXCEPT ![t] = IF @ = "pending" THEN "established" ELSE @]
    /\ runq' = Tail(runq)
    /\ UNCHANGED <<mem, list, kicked, conn, connector, reg, looper, reconnect>>

\* Variant: a tracked transport is removed as well.
DestroyRemoves(t) ==
    /\ reg' = Append(reg, UNREGISTER(t))
    /\ IF kicked[t]
       THEN UNCHANGED <<queue, handler>>
       ELSE /\ LockFree
            /\ queue' = queue \cup {[transport |-> t, left |-> MaxAttempts]}
            /\ handler' = Notified

\* transport_destroy of a kicked transport ends in remove_transport; any other
\* is tracked for reconnection, unless the handler has been stopped.
transport_destroy(t) ==
    IF kicked[t]
    THEN /\ reg' = Append(reg, UNREGISTER(t))
         /\ UNCHANGED <<queue, handler>>
    ELSE /\ LockFree
         /\ queue' = IF running
                     THEN queue \cup {[transport |-> t, left |-> MaxAttempts]}
                     ELSE queue
         /\ handler' = IF running THEN Notified ELSE handler
         /\ UNCHANGED reg

\* The closure of HandleError: handle_offline, then transport_destroy.
RunError ==
    /\ looper = "flush"
    /\ runq # <<>>
    /\ Head(runq).runs = "error"
    /\ LET t == Head(runq).transport IN
       /\ state' = [state EXCEPT ![t] = "offline"]
       /\ conn' = Stop({t})
       /\ transport_destroy(t)
    /\ runq' = Tail(runq)
    /\ UNCHANGED <<mem, list, kicked, waitable, connector, looper, running, attempt>>

-----------------------------------------------------------------------------
(* The end of the server, on the looper: adb_server_cleanup calls             *)
(* kick_all_transports, which first stops the reconnect handler.              *)

StopRequested ==
    /\ looper = "poll"
    /\ LockFree
    /\ running' = FALSE
    /\ looper' = "stopping"
    /\ UNCHANGED <<life, connector, reg, runq, queue, handler, attempt>>

StopNotifies ==
    /\ looper = "stopping"
    /\ handler' = Notified
    /\ looper' = "joining"
    /\ UNCHANGED <<life, connector, reg, runq, running, queue, attempt>>

\* After the join: the queue is drained and every listed transport kicked.
StopJoined ==
    /\ looper = "joining"
    /\ handler = "returned"
    /\ \E s \in Orders({a.transport : a \in queue}) : reg' = reg \o UNREGISTERs(s)
    /\ queue' = {}
    /\ Kick(InList("transports"))
    /\ looper' = "exited"
    /\ UNCHANGED <<mem, list, state, waitable, connector, running, handler, attempt>>

-----------------------------------------------------------------------------
(* ReconnectHandler::Run.                                                     *)

\* Variant: the thread waits without a deadline.
WaitsForNotify ==
    /\ looper # "exited"
    /\ handler = "top"
    /\ handler' = "sleeping"
    /\ UNCHANGED <<life, connector, reg, runq, looper, running, queue, attempt>>

\* At the top of the loop the thread waits, whatever running_ is.
RunWaits ==
    /\ looper # "exited"
    /\ handler = "top"
    /\ handler' = IF queue = {} THEN "sleeping" ELSE "waiting"
    /\ UNCHANGED <<life, connector, reg, runq, looper, running, queue, attempt>>

\* The first reconnect time is reached.
RunTimesOut ==
    /\ looper # "exited"
    /\ handler = "waiting"
    /\ handler' = "woken"
    /\ UNCHANGED <<life, connector, reg, runq, looper, running, queue, attempt>>

RunWakesSpuriously ==
    /\ looper # "exited"
    /\ handler = "sleeping"
    /\ handler' = "woken"
    /\ UNCHANGED <<life, connector, reg, runq, looper, running, queue, attempt>>

RunReturns ==
    /\ looper # "exited"
    /\ handler = "woken"
    /\ ~running
    /\ handler' = "returned"
    /\ UNCHANGED <<life, connector, reg, runq, looper, running, queue, attempt>>

\* Variant: a kicked transport is dropped from the queue and not removed.
ScanDrops ==
    /\ looper # "exited"
    /\ handler = "woken"
    /\ running
    /\ queue' = {a \in queue : ~kicked[a.transport]}
    /\ handler' = IF queue' = {} THEN "top" ELSE "scanned"
    /\ UNCHANGED <<life, connector, reg, runq, looper, running, attempt>>

\* The scan removes the kicked transports.
RunScans ==
    /\ looper # "exited"
    /\ handler = "woken"
    /\ running
    /\ LET gone == {a \in queue : kicked[a.transport]} IN
       /\ \E s \in Orders({a.transport : a \in gone}) : reg' = reg \o UNREGISTERs(s)
       /\ queue' = queue \ gone
       /\ handler' = IF queue = gone THEN "top" ELSE "scanned"
    /\ UNCHANGED <<life, connector, runq, looper, running, attempt>>

\* The first attempt is not due yet.
RunNotDue ==
    /\ looper # "exited"
    /\ handler = "scanned"
    /\ handler' = "top"
    /\ UNCHANGED <<life, connector, reg, runq, looper, running, queue, attempt>>

RunTakes(t) ==
    /\ looper # "exited"
    /\ handler = "scanned"
    /\ \E a \in queue :
       /\ a.transport = t
       /\ queue' = queue \ {a}
       /\ attempt' = {a}
    /\ handler' = "reconnecting"
    /\ UNCHANGED <<life, connector, reg, runq, looper, running>>

\* Reconnect() fails: another attempt, or the transport is given up.
ReconnectRetries ==
    /\ looper # "exited"
    /\ handler = "reconnecting"
    /\ \E a \in attempt :
       /\ a.transport \notin Emulators
       /\ IF a.left = 0
          THEN /\ reg' = Append(reg, UNREGISTER(a.transport))
               /\ UNCHANGED queue
          ELSE /\ queue' = queue \cup {[a EXCEPT !.left = @ - 1]}
               /\ UNCHANGED reg
    /\ attempt' = {}
    /\ handler' = "top"
    /\ UNCHANGED <<life, connector, runq, looper, running>>

\* Variant: the transport keeps its stopped connection.
SucceedsWithOld ==
    /\ looper # "exited"
    /\ handler = "reconnecting"
    /\ \E a \in attempt :
       /\ a.transport \notin Emulators
       /\ reg' = Append(reg, REGISTER(a.transport))
    /\ attempt' = {}
    /\ handler' = "top"
    /\ UNCHANGED <<life, connector, runq, looper, running, queue>>

\* Reconnect() gives the transport a new connection and registers it again.
ReconnectSucceeds ==
    /\ looper # "exited"
    /\ handler = "reconnecting"
    /\ \E a \in attempt :
       /\ a.transport \notin Emulators
       /\ conn' = [conn EXCEPT ![a.transport] = "fresh"]
       /\ reg' = Append(reg, REGISTER(a.transport))
    /\ attempt' = {}
    /\ handler' = "top"
    /\ UNCHANGED <<mem, list, kicked, state, waitable, connector, runq, looper, running, queue>>

ReconnectAborts ==
    /\ looper # "exited"
    /\ handler = "reconnecting"
    /\ \E a \in attempt :
       /\ a.transport \in Emulators
       /\ reg' = Append(reg, UNREGISTER(a.transport))
    /\ attempt' = {}
    /\ handler' = "top"
    /\ UNCHANGED <<life, connector, runq, looper, running, queue>>

-----------------------------------------------------------------------------
Next ==
    \/ \E t \in Transports :
       \/ RegisterRefused(t)
       \/ RegisterPending(t)
       \/ RegisterSends(t)
       \/ RegisterWaits(t)
       \/ RegisterReads(t)
       \/ ConnectionReads(t)
       \/ ConnectionFails(t)
       \/ kick_transport(t)
       \/ RunTakes(t)
    \/ Unregister
    \/ Register
    \/ kick_all_tcp_devices
    \/ Interrupt
    \/ FlushEnds
    \/ RunPacket
    \/ RunError
    \/ StopRequested
    \/ StopNotifies
    \/ StopJoined
    \/ RunWaits
    \/ RunTimesOut
    \/ RunWakesSpuriously
    \/ RunReturns
    \/ RunScans
    \/ RunNotDue
    \/ ReconnectRetries
    \/ ReconnectSucceeds
    \/ ReconnectAborts

Spec == Init /\ [][Next]_vars

-----------------------------------------------------------------------------
(* Safety.                                                                    *)

\* Who will act on a transport next: a message on the registration socket, the
\* closure of HandleError, the reconnect handler, the threads of a running
\* connection, or the thread that is about to register it.
Custodians(t) ==
    {<<"reg", i>> : i \in {j \in DOMAIN reg : reg[j].transport = t}}
    \cup {<<"runq", i>> : i \in {j \in DOMAIN runq : runq[j] = HandleError(t)}}
    \cup {<<"queue", a>> : a \in {b \in queue : b.transport = t}}
    \cup {<<"attempt", a>> : a \in {b \in attempt : b.transport = t}}
    \cup {<<"conn", c>> : c \in {conn[t]} \cap {"running"}}
    \cup {<<"connector", c>> : c \in {connector[t]} \cap {"created"}}

\* Exactly one party is responsible for a live transport at any moment, and none
\* for a deleted one: so no transport is registered, tracked or removed twice
\* (remove_transport would delete it twice, Start dies with "started multiple
\* times"), and none is forgotten.
Custody ==
    \A t \in Transports :
        IF mem[t] = "live"
        THEN \E c \in Custodians(t) : Custodians(t) = {c}
        ELSE Custodians(t) = {}

\* No packet is handled for a deleted transport: the closures of HandleRead
\* hold a raw pointer, and nothing but the order of the run queue and of the
\* registration socket keeps it valid.
PacketsLive ==
    \A i \in DOMAIN runq : mem[runq[i].transport] = "live"

\* A connection is started once: BlockingConnectionAdapter::Start is fatal on a
\* connection that has been started.
StartsFresh ==
    \A i \in DOMAIN reg :
        reg[i].action = "REGISTER" => conn[reg[i].transport] = "fresh"

\* No device has two transports: register_socket_transport refuses a serial
\* that is in a list, and a transport stays in its list until it is deleted,
\* while it is being reconnected too.
SerialsUnique ==
    \A t, u \in Transports :
        /\ mem[t] = "live"
        /\ mem[u] = "live"
        /\ Serial[t] = Serial[u]
        => t = u

\* The waiting thread reads the transport only while it exists.
WaiterReadsLive ==
    \A t \in Transports : connector[t] = "answered" => mem[t] = "live"

-----------------------------------------------------------------------------
(* Liveness.                                                                  *)

\* The looper, the reconnect handler and the connecting threads keep running,
\* a reconnect ends, and a reconnect time is reached: an attempt that stays in
\* the queue is taken in the end.
Looper ==
    \/ Unregister \/ Register \/ Interrupt \/ FlushEnds \/ RunPacket \/ RunError
    \/ StopNotifies \/ StopJoined

Handler ==
    \/ RunWaits \/ RunTimesOut \/ RunReturns \/ RunScans \/ RunNotDue
    \/ ReconnectRetries \/ ReconnectSucceeds \/ ReconnectAborts

Fairness ==
    /\ WF_vars(Looper)
    /\ SF_vars(FlushEnds)
    /\ SF_vars(Unregister \/ Register)
    /\ WF_vars(Handler \/ \E t \in Transports : RunTakes(t))
    /\ \A t \in Transports :
       /\ SF_vars(RunTakes(t))
       /\ WF_vars(RegisterSends(t) \/ RegisterWaits(t) \/ RegisterReads(t))

FairSpec == Spec /\ Fairness

Ending == looper \in {"stopping", "joining", "exited"}

\* A transport that has lost its connection is connected again or deleted,
\* unless the server ends first: the handler never drops an attempt.
LostIsResolved ==
    \A t \in Transports :
        (mem[t] = "live" /\ conn[t] \in {"failed", "stopped"})
            ~> (conn[t] = "running" \/ mem[t] = "deleted" \/ Ending)

\* A transport that is kicked while it is connected or waits for its next
\* attempt is deleted, unless the server ends first.
KickedIsDeleted ==
    \A t \in Transports :
        /\ kicked[t]
        /\ \/ \E i \in DOMAIN runq : runq[i] = HandleError(t)
           \/ handler # "scanned" /\ \E a \in queue : a.transport = t
        ~> (mem[t] = "deleted" \/ Ending)

=============================================================================
