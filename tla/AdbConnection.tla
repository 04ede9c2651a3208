---------------------------- MODULE AdbConnection ----------------------------
(***************************************************************************)
(* The threads of a BlockingConnectionAdapter of the host over a TCP       *)
(* socket: the read and the write thread, the looper, and the detached     *)
(* thread of adb_auth_tls_handshake, which replaces the read thread and    *)
(* may kick the transport.  Here Stop, which AdbTransports takes as one    *)
(* step, is a step for each time it takes or waits for something.          *)
(*                                                                         *)
(* mutex_ is held over several steps only by DoTlsHandshake.               *)
(***************************************************************************)
EXTENDS Integers, Sequences, SequencesExt

VARIABLES
  conn,       \* the BlockingConnectionAdapter and its FdConnection
  reader,     \* the read thread, and the one the handshake starts
  writer,     \* the write thread
  writing,    \* the packet it has taken from the queue
  stop,       \* where the looper and the handshake thread are in Stop
  looper,     \* what the looper does
  shaker,     \* where the handshake thread is
  transport,  \* the transport of the connection
  runq,       \* the closures queued by fdevent_run_on_looper for it
  wire,       \* what was sent to the device
  halted      \* history: Stop has returned to the looper

vars == <<conn, reader, writer, writing, stop, looper, shaker, transport, runq, wire, halted>>
threads == <<reader, writer, writing>>
control == <<stop, looper, shaker, transport>>

Stoppers == {"looper", "shaker"}
Readers == {1, 2}
NoPacket == "none"

(* reader and writer are the std::thread members: 0 and FALSE if not       *)
(* joinable.  tls is FdConnection::tls_: "setup" during the handshake.     *)
Connection ==
  [started : BOOLEAN, stopped : BOOLEAN, open : BOOLEAN, tls : {"none", "setup", "ready"},
   write_queue : Seq({"cnxn", "stls"}), reader : 0 .. 2, writer : BOOLEAN, reported : BOOLEAN]

Init ==
  /\ conn = [started |-> FALSE, stopped |-> FALSE, open |-> TRUE, tls |-> "none",
             write_queue |-> <<>>, reader |-> 0, writer |-> FALSE, reported |-> FALSE]
  /\ reader = [r \in Readers |-> "unborn"]
  /\ writer = "unborn" /\ writing = NoPacket
  /\ stop = [s \in Stoppers |-> [pc |-> "out", reader |-> 0]]
  /\ looper = "poll"
  /\ shaker = "unborn"
  /\ transport = [state |-> "pending", kicked |-> FALSE]
  /\ runq = <<>> /\ wire = <<>>
  /\ halted = FALSE

(* Mutant: DoTlsHandshake takes no lock. *)
LockedNever == FALSE

(* DoTlsHandshake holds mutex_. *)
Locked == shaker \in {"joining", "shaking"}

(* The transport is deleted or has another connection. *)
Lost == transport.state \in {"deleted", "reconnected"}

----------------------------------------------------------------------------
(* The read and the write thread. *)

(* A packet is read and then, in HandleRead, queued; the thread that a     *)
(* failed handshake starts reads the socket as it is.  Bounds: one packet  *)
(* waits on the looper, and the device sends one A_STLS, after the CNXN.   *)
Reads(r) ==
  /\ reader[r] = "reading" /\ conn.open
  /\ \E p \in {"packet", "stls"} :
       /\ p = "packet" => ~Contains(runq, "packet")
       /\ p = "stls" => r = 1 /\ Contains(wire, "cnxn")
       /\ reader' = [reader EXCEPT ![r] = p]
  /\ UNCHANGED <<conn, writer, writing, control, runq, wire, halted>>

(* Mutant: the thread reads on after A_STLS. *)
HandleReadOn(r) ==
  /\ reader[r] \in {"packet", "stls"}
  /\ runq' = Append(runq, reader[r])
  /\ reader' = [reader EXCEPT ![r] = "reading"]
  /\ UNCHANGED <<conn, writer, writing, control, wire, halted>>

(* After A_STLS the thread returns. *)
HandleRead(r) ==
  /\ reader[r] \in {"packet", "stls"}
  /\ runq' = Append(runq, reader[r])
  /\ reader' = [reader EXCEPT ![r] = IF reader[r] = "stls" THEN "done" ELSE "reading"]
  /\ UNCHANGED <<conn, writer, writing, control, wire, halted>>

ReadFails(r) ==
  /\ reader[r] = "reading"
  /\ reader' = [reader EXCEPT ![r] = "failed"]
  /\ UNCHANGED <<conn, writer, writing, control, runq, wire, halted>>

(* Mutant: no call_once. *)
ReportsAgain ==
  /\ conn' = [conn EXCEPT !.reported = TRUE]
  /\ runq' = Append(runq, "error")

(* call_once of HandleError. *)
Reports ==
  /\ conn' = [conn EXCEPT !.reported = TRUE]
  /\ runq' = IF conn.reported THEN runq ELSE Append(runq, "error")

ReadReports(r) ==
  /\ reader[r] = "failed"
  /\ Reports
  /\ reader' = [reader EXCEPT ![r] = "done"]
  /\ UNCHANGED <<writer, writing, control, wire, halted>>

(* Mutant: a wait without its predicate. *)
WriterTakesWoken ==
  /\ writer = "waiting" /\ ~Locked /\ ~conn.stopped
  /\ writer' = "writing"
  /\ writing' = IF conn.write_queue = <<>> THEN NoPacket ELSE Head(conn.write_queue)
  /\ conn' = [conn EXCEPT !.write_queue = IF @ = <<>> THEN @ ELSE Tail(@)]
  /\ UNCHANGED <<reader, control, runq, wire, halted>>

WriterTakes ==
  /\ writer = "waiting" /\ ~Locked /\ ~conn.stopped /\ conn.write_queue # <<>>
  /\ writer' = "writing" /\ writing' = Head(conn.write_queue)
  /\ conn' = [conn EXCEPT !.write_queue = Tail(@)]
  /\ UNCHANGED <<reader, control, runq, wire, halted>>

WriterReturns ==
  /\ writer = "waiting" /\ ~Locked /\ conn.stopped
  /\ writer' = "done"
  /\ UNCHANGED <<conn, reader, writing, control, runq, wire, halted>>

(* tls_ is read without a lock while the handshake sets it: the packet may *)
(* still go out as it is. *)
Writes ==
  /\ writer = "writing" /\ conn.open
  /\ wire' = Append(wire, writing)
  /\ writer' = "waiting" /\ writing' = NoPacket
  /\ UNCHANGED <<conn, reader, control, runq, halted>>

WriteFails ==
  /\ writer = "writing"
  /\ writer' = "failed" /\ writing' = NoPacket
  /\ UNCHANGED <<conn, reader, control, runq, wire, halted>>

WriteReports ==
  /\ writer = "failed"
  /\ Reports
  /\ writer' = "done"
  /\ UNCHANGED <<reader, writing, control, wire, halted>>

----------------------------------------------------------------------------
(* Stop, on the looper or on the handshake thread; Reset closes the socket *)
(* before it calls Stop. *)

ResetEnter(s) ==
  /\ stop[s].pc = "reset" /\ ~Locked
  /\ stop' = [stop EXCEPT ![s].pc = IF conn.stopped THEN "out" ELSE "shut"]
  /\ halted' = (halted \/ (s = "looper" /\ conn.stopped))
  /\ UNCHANGED <<conn, threads, looper, shaker, transport, runq, wire>>

ResetCloses(s) ==
  /\ stop[s].pc = "shut"
  /\ conn' = [conn EXCEPT !.open = FALSE]
  /\ stop' = [stop EXCEPT ![s].pc = "enter"]
  /\ UNCHANGED <<threads, looper, shaker, transport, runq, wire, halted>>

StopEnter(s) ==
  /\ stop[s].pc = "enter" /\ ~Locked
  /\ IF conn.stopped
     THEN /\ stop' = [stop EXCEPT ![s].pc = "out"]
          /\ halted' = (halted \/ s = "looper")
          /\ UNCHANGED conn
     ELSE /\ stop' = [stop EXCEPT ![s].pc = "close"]
          /\ conn' = [conn EXCEPT !.stopped = TRUE]
          /\ UNCHANGED halted
  /\ UNCHANGED <<threads, looper, shaker, transport, runq, wire>>

StopCloses(s) ==
  /\ stop[s].pc = "close"
  /\ conn' = [conn EXCEPT !.open = FALSE]
  /\ stop' = [stop EXCEPT ![s].pc = "move"]
  /\ UNCHANGED <<threads, looper, shaker, transport, runq, wire, halted>>

StopMoves(s) ==
  /\ stop[s].pc = "move" /\ ~Locked
  /\ stop' = [stop EXCEPT ![s] = [pc |-> "join", reader |-> conn.reader]]
  /\ conn' = [conn EXCEPT !.reader = 0, !.writer = FALSE]
  /\ UNCHANGED <<threads, looper, shaker, transport, runq, wire, halted>>

(* Mutant: the read thread is detached. *)
StopJoinsWriter(s) ==
  /\ stop[s].pc = "join" /\ writer = "done"
  /\ stop' = [stop EXCEPT ![s].pc = "report"]
  /\ UNCHANGED <<conn, threads, looper, shaker, transport, runq, wire, halted>>

StopJoins(s) ==
  /\ stop[s].pc = "join"
  /\ reader[stop[s].reader] = "done" /\ writer = "done"
  /\ stop' = [stop EXCEPT ![s].pc = "report"]
  /\ UNCHANGED <<conn, threads, looper, shaker, transport, runq, wire, halted>>

StopReports(s) ==
  /\ stop[s].pc = "report"
  /\ Reports
  /\ stop' = [stop EXCEPT ![s].pc = "out"]
  /\ halted' = (halted \/ s = "looper")
  /\ UNCHANGED <<threads, looper, shaker, transport, wire>>

(* atransport::Kick, first = "enter", and atransport::Reset: only the      *)
(* first of them does anything.                                            *)
Kick(s, first) ==
  /\ transport' = [transport EXCEPT !.kicked = TRUE]
  /\ stop' = IF transport.kicked THEN stop ELSE [stop EXCEPT ![s].pc = first]

----------------------------------------------------------------------------
(* The looper: an event per poll, then the run queue. *)

(* transport_registration_func: Start, and send_connect. *)
Register ==
  /\ looper = "poll" /\ transport.state = "pending"
  /\ transport' = [transport EXCEPT !.state = "listed"]
  /\ conn' = [conn EXCEPT !.started = TRUE, !.reader = 1, !.writer = TRUE,
                          !.write_queue = Append(@, "cnxn")]
  /\ reader' = [reader EXCEPT ![1] = "reading"]
  /\ writer' = "waiting"
  /\ looper' = "flush"
  /\ UNCHANGED <<writing, stop, shaker, runq, wire, halted>>

(* kick_transport, for "adb disconnect" or "adb reconnect": a tracked       *)
(* transport is still in the list.                                         *)
kick_transport ==
  /\ looper = "poll" /\ transport.state \in {"listed", "tracked"}
  /\ \E first \in {"enter", "reset"} : Kick("looper", first)
  /\ looper' = "kicking"
  /\ UNCHANGED <<conn, threads, shaker, runq, wire, halted>>

KickReturns ==
  /\ looper = "kicking" /\ stop["looper"].pc = "out"
  /\ looper' = "flush"
  /\ UNCHANGED <<conn, threads, stop, shaker, transport, runq, wire, halted>>

Interrupt ==
  /\ looper = "poll" /\ runq # <<>>
  /\ looper' = "flush"
  /\ UNCHANGED <<conn, threads, stop, shaker, transport, runq, wire, halted>>

FlushEnds ==
  /\ looper = "flush" /\ runq = <<>>
  /\ looper' = "poll"
  /\ UNCHANGED <<conn, threads, stop, shaker, transport, runq, wire, halted>>

RunPacket ==
  /\ looper = "flush" /\ runq # <<>> /\ Head(runq) = "packet"
  /\ runq' = Tail(runq)
  /\ UNCHANGED <<conn, threads, control, wire, halted>>

(* A_STLS: send_tls_request and adb_auth_tls_handshake. *)
RunStls ==
  /\ looper = "flush" /\ runq # <<>> /\ Head(runq) = "stls"
  /\ runq' = Tail(runq)
  /\ conn' = [conn EXCEPT !.write_queue = Append(@, "stls")]
  /\ shaker' = "spawned"
  /\ UNCHANGED <<threads, stop, looper, transport, wire, halted>>

(* The closure of HandleError: handle_offline and transport_destroy. *)
RunError ==
  /\ looper = "flush" /\ runq # <<>> /\ Head(runq) = "error"
  /\ runq' = Tail(runq)
  /\ looper' = "destroying"
  /\ stop' = [stop EXCEPT !["looper"].pc = "enter"]
  /\ UNCHANGED <<conn, threads, shaker, transport, wire, halted>>

Destroys ==
  /\ looper = "destroying" /\ stop["looper"].pc = "out"
  /\ transport' = [transport EXCEPT !.state = IF transport.kicked THEN "removed" ELSE "tracked"]
  /\ looper' = "flush"
  /\ UNCHANGED <<conn, threads, stop, shaker, runq, wire, halted>>

Unregister ==
  /\ looper = "poll" /\ transport.state = "removed"
  /\ transport' = [transport EXCEPT !.state = "deleted"]
  /\ looper' = "flush"
  /\ UNCHANGED <<conn, threads, stop, shaker, runq, wire, halted>>

(* The reconnect handler gives the transport a new connection, or removes  *)
(* it when it was kicked or cannot be reached; a kick during Reconnect()    *)
(* does not count.                                                         *)
ReconnectHandler ==
  /\ transport.state = "tracked"
  /\ \E st \in {"reconnected", "removed"} : transport' = [transport EXCEPT !.state = st]
  /\ UNCHANGED <<conn, threads, stop, looper, shaker, runq, wire, halted>>

----------------------------------------------------------------------------
(* The handshake thread. *)

(* t->connection(), through the raw pointer: when the transport has lost    *)
(* this connection, the thread does nothing to it.                         *)
ShakerBegins ==
  /\ shaker = "spawned"
  /\ shaker' = IF Lost THEN "done" ELSE "locking"
  /\ UNCHANGED <<conn, threads, stop, looper, transport, runq, wire, halted>>

DoTlsHandshake ==
  /\ shaker = "locking"
  /\ shaker' = "joining"
  /\ UNCHANGED <<conn, threads, stop, looper, transport, runq, wire, halted>>

HandshakeBegins ==
  /\ shaker = "joining"
  /\ conn.reader # 0 => reader[conn.reader] = "done"
  /\ conn' = [conn EXCEPT !.reader = 0, !.tls = "setup"]
  /\ wire' = IF conn.open THEN Append(wire, "hello") ELSE wire
  /\ shaker' = "shaking"
  /\ UNCHANGED <<threads, stop, looper, transport, runq, halted>>

(* The device shakes hands if it was told so first. *)
Announced == \E i, j \in DOMAIN wire : i < j /\ wire[i] = "stls" /\ wire[j] = "hello"

(* StartReadThread, also when the handshake has failed. *)
HandshakeEnds ==
  /\ shaker = "shaking"
  /\ \E ok \in BOOLEAN :
       /\ ok => conn.open /\ Announced
       /\ shaker' = IF ok THEN "done" ELSE "failed"
       /\ conn' = [conn EXCEPT !.tls = IF ok THEN "ready" ELSE "none", !.reader = 2]
  /\ reader' = [reader EXCEPT ![2] = "reading"]
  /\ UNCHANGED <<writer, writing, stop, looper, transport, runq, wire, halted>>

(* t->Kick(), through the raw pointer: it stops the connection that the    *)
(* transport has now.                                                      *)
ShakerKicks ==
  /\ shaker = "failed"
  /\ shaker' = "kicking"
  /\ IF Lost
     THEN transport' = [transport EXCEPT !.kicked = TRUE] /\ UNCHANGED stop
     ELSE Kick("shaker", "enter")
  /\ UNCHANGED <<conn, threads, looper, runq, wire, halted>>

ShakerReturns ==
  /\ shaker = "kicking" /\ stop["shaker"].pc = "out"
  /\ shaker' = "done"
  /\ UNCHANGED <<conn, threads, stop, looper, transport, runq, wire, halted>>

----------------------------------------------------------------------------
ReadThread(r) == Reads(r) \/ HandleRead(r) \/ ReadFails(r) \/ ReadReports(r)
WriteThread == WriterTakes \/ WriterReturns \/ Writes \/ WriteFails \/ WriteReports
StopSteps(s) == \/ ResetEnter(s) \/ ResetCloses(s)
                \/ StopEnter(s) \/ StopCloses(s) \/ StopMoves(s) \/ StopJoins(s) \/ StopReports(s)
Events == Register \/ kick_transport \/ Interrupt \/ Unregister
Looper == \/ Events \/ KickReturns \/ FlushEnds \/ RunPacket \/ RunStls \/ RunError \/ Destroys
          \/ StopSteps("looper")
Shaker == \/ ShakerBegins \/ DoTlsHandshake \/ HandshakeBegins \/ HandshakeEnds
          \/ ShakerKicks \/ ShakerReturns \/ StopSteps("shaker")

Next == (\E r \in Readers : ReadThread(r)) \/ WriteThread \/ Looper \/ ReconnectHandler \/ Shaker

Spec == Init /\ [][Next]_vars

(* Threads go on; a read or write of a closed socket fails, and one of an  *)
(* open socket may take for ever; the device ends a handshake, or the      *)
(* connection to it breaks.                                                *)
Fairness ==
  /\ \A r \in Readers : WF_vars(HandleRead(r) \/ ReadReports(r) \/ (~conn.open /\ ReadFails(r)))
  /\ WF_vars(WriterTakes \/ WriterReturns \/ WriteReports \/ (~conn.open /\ WriteFails))
  /\ WF_vars(Looper)
  /\ WF_vars(Shaker)

FairSpec == Spec /\ Fairness

----------------------------------------------------------------------------
(* Properties. *)

(* Types: in particular the write thread writes a packet. *)
TypeOK ==
  /\ conn \in Connection
  /\ reader \in [Readers -> {"unborn", "reading", "packet", "stls", "failed", "done"}]
  /\ writer \in {"unborn", "waiting", "writing", "failed", "done"}
  /\ writing \in IF writer = "writing" THEN {"cnxn", "stls"} ELSE {NoPacket}
  /\ stop \in [Stoppers -> [pc : {"out", "reset", "shut", "enter", "close", "move", "join",
                                  "report"},
                            reader : 0 .. 2]]
  /\ looper \in {"poll", "flush", "kicking", "destroying"}
  /\ shaker \in {"unborn", "spawned", "locking", "joining", "shaking", "failed", "kicking", "done"}
  /\ transport \in [state : {"pending", "listed", "tracked", "removed", "reconnected", "deleted"},
                    kicked : BOOLEAN]
  /\ runq \in Seq({"packet", "stls", "error"})
  /\ wire \in Seq({"cnxn", "stls", "hello"})
  /\ halted \in BOOLEAN

(* The handshake has failed, and a thread reads what follows as packets.   *)
ReadsPlain == conn.tls = "none" /\ reader[2] # "unborn"

(* Closures of a connection hold its transport by raw pointer.  None is    *)
(* queued when the transport is deleted, with one exception: after a       *)
(* failed handshake, a packet that came in plain.  The looper's Stop then  *)
(* returns at once if the handshake thread is in its own, which has yet to *)
(* join the read thread.                                                   *)
ClosuresLive ==
  transport.state = "deleted" => \/ runq = <<>>
                                 \/ ReadsPlain /\ runq = <<"packet">>

(* The std::threads that Stop joins are joinable, or join throws.          *)
JoinsThreads == \A s \in Stoppers : stop[s].pc = "join" => stop[s].reader # 0

(* Stop has found the connection running, and has not returned yet.        *)
Stopping(s) == stop[s].pc \in {"close", "move", "join", "report"}

(* The connection is as AdbTransports takes it to be, except that it may   *)
(* still queue packets while the handshake thread is in Stop, even if Stop *)
(* has returned to the looper: it is stopped, and queues nothing any more, *)
(* once neither of them is.                                                *)
Phase ==
  IF halted /\ ~Stopping("shaker") THEN "stopped"
  ELSE IF conn.reported THEN "failed"
  ELSE IF conn.started THEN "running" ELSE "fresh"

Life == INSTANCE AdbConnectionLife WITH phase <- Phase

ImplementsLife == Life!Spec

(* The looper gets out of Stop, although the handshake thread may hold     *)
(* mutex_ and Stop may have to join the thread it starts.                  *)
StopReturns == [](stop["looper"].pc # "out" => <>(stop["looper"].pc = "out"))

(* Nobody refers to the connection any more. *)
Destroyed ==
  /\ Lost
  /\ \A s \in Stoppers : stop[s].pc = "out"
  /\ shaker \notin {"locking", "joining", "shaking"}

(* Stop has taken the threads of a connection that is destroyed: the       *)
(* destructor of a std::thread that is still joinable ends the process.    *)
ThreadsTaken == Destroyed => conn.reader = 0 /\ ~conn.writer
=============================================================================
