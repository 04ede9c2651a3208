----------------------------- MODULE AdbSockets -----------------------------
(***************************************************************************)
(* The asocket layer of adb: streams multiplexed over one transport.       *)
(*                                                                         *)
(* The host server and the device daemon run the same code (sockets.cpp,   *)
(* and handle_packet in adb.cpp) on a single looper thread each, so every  *)
(* packet handler and every fdevent callback is one atomic step.  A local  *)
(* socket joins a file descriptor, whose other end belongs to an           *)
(* application, to a remote socket, which is only an id and a transport    *)
(* and is modelled by the peer field of its local socket.                  *)
(*                                                                         *)
(* The transport is a FIFO of packets in each direction that survives a    *)
(* restart of the host server, as a USB connection does.                   *)
(***************************************************************************)
EXTENDS Integers, Sequences, FiniteSets

CONSTANTS
    MaxId,        \* socket ids the device hands out: 1..MaxId (a bound)
    HostIds,      \* socket ids one host server hands out (a bound)
    MaxBytes,     \* bytes an application writes on one socket (a bound)
    MaxPayload,   \* asocket::get_max_payload
    Window,       \* INITIAL_DELAYED_ACK_BYTES
    AckModes,     \* whether a host server offers the delayed_ack feature
    Openers,      \* the ends at which a listener opens streams
    MaxRestarts   \* restarts of the host server (a bound)

End == {"host", "device"}

ASSUME ConstantsAssumption ==
    /\ MaxId \in Nat \ {0}
    /\ HostIds \in 0..MaxId
    /\ MaxBytes \in Nat
    /\ MaxPayload \in Nat \ {0}
    /\ Window \in Nat \ {0}
    /\ AckModes \subseteq BOOLEAN /\ AckModes # {}
    /\ Openers \subseteq End
    /\ MaxRestarts \in Nat

VARIABLES
    chan,      \* chan[e]: the packets on their way to e, oldest first
    tr,        \* tr[e]: the fields of e's atransport.  online stands for the
               \* flag and for a connection state other than kCsOffline: the
               \* two agree when no authentication is required
    nextId,    \* nextId[e]: local_socket_next_id
    sock,      \* sock[e][i]: the local socket of e with id i
    fd,        \* fd[e][i]: the application's end of that socket's descriptor
    hostAck,   \* does the running host server offer delayed_ack?
    restarts   \* number of host server restarts so far

vars == <<chan, tr, nextId, sock, fd, hostAck, restarts>>

Id == 1..MaxId
PeerId == 0..MaxId      \* 0: no peer
Generation == 0..MaxRestarts
IdLimit(e) == IF e = "host" THEN HostIds ELSE MaxId
Other(e) == IF e = "host" THEN "device" ELSE "host"

-----------------------------------------------------------------------------
(* Packets.  A data byte is known by the socket that read it and by its    *)
(* position in what that socket read.  gen, the number of the host server  *)
(* that a stream was opened for, is not part of the program's state: the   *)
(* properties need it to tell apart streams that have the same ids.        *)

NoAck == -1     \* an A_OKAY without payload

Byte == [gen : Generation, id : Id, pos : 1..MaxBytes]

send_connect(f)     == [cmd |-> "CNXN", delayedAck |-> f]
send_open(i, n)     == [cmd |-> "OPEN", arg0 |-> i, arg1 |-> n, gen |-> restarts]
send_close(i, j)    == [cmd |-> "CLSE", arg0 |-> i, arg1 |-> j]
send_write(i, j, d) == [cmd |-> "WRTE", arg0 |-> i, arg1 |-> j, data |-> d]
send_ready(e, i, j, n) ==
    [cmd |-> "OKAY", arg0 |-> i, arg1 |-> j,
     ack |-> IF tr[e].delayedAck THEN n ELSE NoAck]

Packet ==
    [cmd : {"CNXN"}, delayedAck : BOOLEAN]
        \cup [cmd : {"OPEN"}, arg0 : Id, arg1 : {0, Window}, gen : Generation]
        \cup [cmd : {"CLSE"}, arg0 : PeerId, arg1 : Id]
        \cup [cmd : {"WRTE"}, arg0 : Id, arg1 : Id, data : Seq(Byte)]
        \cup [cmd : {"OKAY"}, arg0 : Id, arg1 : Id, ack : Nat \cup {NoAck}]

Receives(e, c) == chan[e] # <<>> /\ Head(chan[e]).cmd = c

\* e handles the oldest packet sent to it and answers with the packets out.
HandledWith(e, out) ==
    chan' = [chan EXCEPT ![e] = Tail(@), ![Other(e)] = @ \o out]

Sends(e, out) == chan' = [chan EXCEPT ![Other(e)] = @ \o out]

-----------------------------------------------------------------------------
(* Local sockets.  list says which of local_socket_list and                *)
(* local_socket_closing_list holds the socket; the closing flag is set     *)
(* exactly on the latter.  read and write are the FDE_READ and FDE_WRITE   *)
(* bits of its fdevent, peer the id of its remote socket (0: none), and    *)
(* delayed says that available_send_bytes holds a value.                   *)

Socket ==
    [list : {"none", "local", "closing"}, peer : PeerId,
     delayed : BOOLEAN, available : Int, packet_queue : Seq(Byte),
     has_write_error : BOOLEAN, read : BOOLEAN, write : BOOLEAN]

NoSocket ==
    [list |-> "none", peer |-> 0, delayed |-> FALSE, available |-> 0,
     packet_queue |-> <<>>, has_write_error |-> FALSE,
     read |-> FALSE, write |-> FALSE]

create_local_socket == [NoSocket EXCEPT !.list = "local"]

Exists(e, i) == sock[e][i].list # "none"

find_local_socket(e, i, j) ==
    sock[e][i].list = "local" /\ (j = 0 \/ sock[e][i].peer = j)

(* The application's end of a descriptor.  left is the number of bytes     *)
(* still unread once the application has shut its writing side, Open       *)
(* before that: until then each read finds whatever the application has    *)
(* written just before it.  taken counts the bytes adb has read, got is    *)
(* what adb has written, deaf says that the reading side is shut, and      *)
(* accepted that the socket answers an A_OPEN of the other end.            *)

Open == -1

FdEnd ==
    [gen : Generation, taken : 0..MaxBytes, left : {Open} \cup 0..MaxBytes,
     deaf : BOOLEAN, accepted : BOOLEAN, got : Seq(Byte)]

NewFd(g, a) ==
    [gen |-> g, taken |-> 0, left |-> Open, deaf |-> FALSE, accepted |-> a,
     got |-> <<>>]

Min(a, b) == IF a < b THEN a ELSE b

-----------------------------------------------------------------------------
(* local_socket_close.  The remote socket's shutdown sends A_CLSE while it *)
(* still knows its peer; then the local socket is destroyed, or parked on  *)
(* the closing list when it still has data for its descriptor.             *)

\* Variant: a write error does not keep the socket off the closing list.
CloseKeepsFailed(s) ==
    IF s.list = "closing" \/ s.packet_queue = <<>>
    THEN NoSocket
    ELSE [s EXCEPT !.list = "closing", !.peer = 0, !.read = FALSE]

local_socket_close(s) ==
    IF s.list = "closing" \/ s.has_write_error \/ s.packet_queue = <<>>
    THEN NoSocket
    ELSE [s EXCEPT !.list = "closing", !.peer = 0, !.read = FALSE]

remote_socket_shutdown(i, s) ==
    IF s.peer # 0 THEN <<send_close(i, s.peer)>> ELSE <<>>

(* local_socket_flush_incoming.  rc is the outcome of writev: the number   *)
(* of bytes taken, 0 for EAGAIN or WriteFails.                             *)

WriteFails == -1

Flushed(rc) == IF rc > 0 THEN rc ELSE 0

\* Variant: a partial write leaves the queue as it is.
FlushKeepsQueue(s, rc) ==
    LET queue   == IF rc = Len(s.packet_queue) THEN <<>> ELSE s.packet_queue
        failed  == s.has_write_error \/ rc = WriteFails
        fd_full == queue # <<>> /\ ~failed
    IN  IF s.list = "closing" /\ ~fd_full
        THEN NoSocket
        ELSE [s EXCEPT !.packet_queue = queue, !.has_write_error = failed,
                       !.write = fd_full]

\* Variant: the first write on a closing socket destroys it.
FlushClosesEarly(s, rc) ==
    LET queue   == SubSeq(s.packet_queue, Flushed(rc) + 1, Len(s.packet_queue))
        failed  == s.has_write_error \/ rc = WriteFails
    IN  IF s.list = "closing"
        THEN NoSocket
        ELSE [s EXCEPT !.packet_queue = queue, !.has_write_error = failed,
                       !.write = queue # <<>> /\ ~failed]

flush_incoming(s, rc) ==
    LET queue   == SubSeq(s.packet_queue, Flushed(rc) + 1, Len(s.packet_queue))
        failed  == s.has_write_error \/ rc = WriteFails
        fd_full == queue # <<>> /\ ~failed
    IN  IF s.list = "closing" /\ ~fd_full
        THEN NoSocket
        ELSE [s EXCEPT !.packet_queue = queue, !.has_write_error = failed,
                       !.write = fd_full]

\* The acknowledgement that flush_incoming sends for the bytes it wrote.
flush_ack(e, i, s, rc) ==
    IF s.peer # 0 /\ (s.delayed \/ Flushed(rc) # 0)
    THEN <<send_ready(e, i, s.peer, IF s.delayed THEN Flushed(rc) ELSE 0)>>
    ELSE <<>>

\* What writev may return: a shut reading side makes it fail, otherwise it
\* takes at least `least` bytes.
WriteOutcomes(f, s, least) ==
    IF f.deaf THEN {WriteFails} ELSE least..Len(s.packet_queue)

(* local_socket_flush_outgoing, for n bytes read from the descriptor.      *)

\* Variant: sent data is not taken from the window.
SentUncounted(s, n) ==
    IF n = 0 \/ s.peer = 0 THEN s
    ELSE [s EXCEPT !.read = @ /\ s.delayed /\ s.available > 0]

sent_outgoing(s, n) ==
    LET left == s.available - n IN
    IF n = 0 \/ s.peer = 0 THEN s
    ELSE IF s.delayed
         THEN [s EXCEPT !.available = left, !.read = @ /\ left > 0]
         ELSE [s EXCEPT !.read = FALSE]

flush_outgoing(s, n, eof) ==
    IF eof THEN local_socket_close(sent_outgoing(s, n)) ELSE sent_outgoing(s, n)

\* Variant: the peer is shut down before the last data is sent.
ClosesBeforeData(i, s, f, n, eof) ==
    LET data == [k \in 1..n |-> [gen |-> f.gen, id |-> i, pos |-> f.taken + k]]
    IN  (IF eof THEN remote_socket_shutdown(i, s) ELSE <<>>)
            \o (IF n # 0 /\ s.peer # 0 THEN <<send_write(i, s.peer, data)>> ELSE <<>>)

outgoing_packets(i, s, f, n, eof) ==
    LET data == [k \in 1..n |-> [gen |-> f.gen, id |-> i, pos |-> f.taken + k]]
    IN  (IF n # 0 /\ s.peer # 0 THEN <<send_write(i, s.peer, data)>> ELSE <<>>)
            \o (IF eof THEN remote_socket_shutdown(i, s) ELSE <<>>)

(* The event loop.  A shut writing side raises EPOLLRDHUP, which is always *)
(* asked for and which is reported as FDE_READ whatever the fdevent asks.  *)

Hangup(f) == f.left # Open

\* Variant: a hangup is not reported to an fdevent that asks for nothing.
ReadAsked(s, f) == s.read

ReadReported(s, f) == s.read \/ Hangup(f)

\* The read loop stops at a full payload, at EAGAIN or at end of file.
ReadOutcomes(f) ==
    IF Hangup(f)
    THEN {[n |-> Min(f.left, MaxPayload), eof |-> f.left < MaxPayload]}
    ELSE {[n |-> k, eof |-> FALSE] :
             k \in 1..Min(MaxBytes - f.taken, MaxPayload)}

FdAfterRead(f, n) ==
    [f EXCEPT !.taken = @ + n, !.left = IF @ = Open THEN Open ELSE @ - n]

FdAfterWrite(f, s, rc) ==
    [f EXCEPT !.got = @ \o SubSeq(s.packet_queue, 1, Flushed(rc))]

-----------------------------------------------------------------------------
(* local_socket_event_func: FDE_WRITE is served before FDE_READ.           *)

\* FDE_WRITE alone: the descriptor takes data and nothing can be read.
WriteEvent(e, i) ==
    LET s == sock[e][i]  f == fd[e][i] IN
    /\ Exists(e, i) /\ s.write /\ ~Hangup(f)
    /\ \E rc \in WriteOutcomes(f, s, 1) :
          /\ sock' = [sock EXCEPT ![e][i] = flush_incoming(s, rc)]
          /\ fd' = [fd EXCEPT ![e][i] = FdAfterWrite(f, s, rc)]
          /\ Sends(e, flush_ack(e, i, s, rc))
    /\ UNCHANGED <<tr, nextId, hostAck, restarts>>

\* FDE_READ, real or faked by a hangup, while the descriptor takes no data
\* (a shut reading side always counts as writable).
ReadEvent(e, i) ==
    LET s == sock[e][i]  f == fd[e][i] IN
    /\ Exists(e, i) /\ ReadReported(s, f) /\ ~(s.write /\ f.deaf)
    /\ \E r \in ReadOutcomes(f) :
          /\ sock' = [sock EXCEPT ![e][i] = flush_outgoing(s, r.n, r.eof)]
          /\ fd' = [fd EXCEPT ![e][i] = FdAfterRead(f, r.n)]
          /\ Sends(e, outgoing_packets(i, s, f, r.n, r.eof))
    /\ UNCHANGED <<tr, nextId, hostAck, restarts>>

\* FDE_WRITE and FDE_READ in one callback; a socket that the first destroys
\* is not read any more.
WriteReadEvent(e, i) ==
    LET s == sock[e][i]  f == fd[e][i] IN
    /\ Exists(e, i) /\ s.write /\ ReadReported(s, f)
    /\ \E rc \in WriteOutcomes(f, s, 1), r \in ReadOutcomes(f) :
          LET w  == flush_incoming(s, rc)
              fw == FdAfterWrite(f, s, rc)
              ok == w.list # "none"
          IN  /\ sock' = [sock EXCEPT ![e][i] =
                             IF ok THEN flush_outgoing(w, r.n, r.eof) ELSE w]
              /\ fd' = [fd EXCEPT ![e][i] = IF ok THEN FdAfterRead(fw, r.n) ELSE fw]
              /\ Sends(e, flush_ack(e, i, s, rc) \o
                          IF ok THEN outgoing_packets(i, w, fw, r.n, r.eof) ELSE <<>>)
    /\ UNCHANGED <<tr, nextId, hostAck, restarts>>

-----------------------------------------------------------------------------
(* listener_event_func and connect_to_remote: a client of a forwarded port *)
(* connects.  A listener exists only while its transport is online, since  *)
(* handle_offline runs listener_disconnect.                                *)

connect_to_remote(e) ==
    /\ e \in Openers /\ tr[e].online /\ nextId[e] <= IdLimit(e)
    /\ sock' = [sock EXCEPT ![e][nextId[e]] =
                   [create_local_socket EXCEPT !.delayed = tr[e].delayedAck]]
    /\ fd' = [fd EXCEPT ![e][nextId[e]] = NewFd(restarts, FALSE)]
    /\ nextId' = [nextId EXCEPT ![e] = @ + 1]
    /\ Sends(e, <<send_open(nextId[e], IF tr[e].delayedAck THEN Window ELSE 0)>>)
    /\ UNCHANGED <<tr, hostAck, restarts>>

-----------------------------------------------------------------------------
(* handle_packet, one action per command.                                  *)

\* A packet that its handler drops.
Ignored(e, out) ==
    /\ HandledWith(e, out)
    /\ UNCHANGED <<tr, nextId, sock, fd, hostAck, restarts>>

\* Variant: a refused A_OPEN is not answered.
RefusedSilently(e) ==
    Receives(e, "OPEN") /\ tr[e].online /\ Ignored(e, <<>>)

\* A_OPEN is refused when the service cannot be created (here also when the
\* bound on ids is reached) or when its argument does not fit the features.
OpenRefused(e) ==
    /\ Receives(e, "OPEN") /\ tr[e].online
    /\ Ignored(e, <<send_close(0, Head(chan[e]).arg0)>>)

\* Variant: the remote socket gets the id of the local one.
AcceptedWithOwnId(e) ==
    LET p == Head(chan[e])  i == nextId[e] IN
    /\ Receives(e, "OPEN") /\ tr[e].online
    /\ tr[e].delayedAck = (p.arg1 # 0)
    /\ i <= IdLimit(e)
    /\ sock' = [sock EXCEPT ![e][i] =
                   [create_local_socket EXCEPT !.peer = i, !.read = TRUE,
                       !.delayed = tr[e].delayedAck, !.available = p.arg1]]
    /\ fd' = [fd EXCEPT ![e][i] = NewFd(p.gen, TRUE)]
    /\ nextId' = [nextId EXCEPT ![e] = @ + 1]
    /\ HandledWith(e, <<send_ready(e, i, p.arg0, Window)>>)
    /\ UNCHANGED <<tr, hostAck, restarts>>

\* Variant: the opener's window is not recorded.
AcceptedWithoutWindow(e) ==
    LET p == Head(chan[e])  i == nextId[e] IN
    /\ Receives(e, "OPEN") /\ tr[e].online
    /\ tr[e].delayedAck = (p.arg1 # 0)
    /\ i <= IdLimit(e)
    /\ sock' = [sock EXCEPT ![e][i] =
                   [create_local_socket EXCEPT !.peer = p.arg0, !.read = TRUE,
                       !.delayed = tr[e].delayedAck]]
    /\ fd' = [fd EXCEPT ![e][i] = NewFd(p.gen, TRUE)]
    /\ nextId' = [nextId EXCEPT ![e] = @ + 1]
    /\ HandledWith(e, <<send_ready(e, i, p.arg0, Window)>>)
    /\ UNCHANGED <<tr, hostAck, restarts>>

OpenAccepted(e) ==
    LET p == Head(chan[e])  i == nextId[e] IN
    /\ Receives(e, "OPEN") /\ tr[e].online
    /\ tr[e].delayedAck = (p.arg1 # 0)
    /\ i <= IdLimit(e)
    /\ sock' = [sock EXCEPT ![e][i] =
                   [create_local_socket EXCEPT !.peer = p.arg0, !.read = TRUE,
                       !.delayed = tr[e].delayedAck, !.available = p.arg1]]
    /\ fd' = [fd EXCEPT ![e][i] = NewFd(p.gen, TRUE)]
    /\ nextId' = [nextId EXCEPT ![e] = @ + 1]
    /\ HandledWith(e, <<send_ready(e, i, p.arg0, Window)>>)
    /\ UNCHANGED <<tr, hostAck, restarts>>

\* Variant: the window is tested before the acknowledged bytes are added.
AckTestsOldWindow(s, ack) ==
    IF s.delayed # (ack # NoAck) THEN s
    ELSE IF s.delayed
         THEN [s EXCEPT !.available = @ + ack, !.read = @ \/ s.available > 0]
         ELSE [s EXCEPT !.read = TRUE]

\* local_socket_ack: an acknowledgement of the wrong kind is dropped.
local_socket_ack(s, ack) ==
    IF s.delayed # (ack # NoAck) THEN s
    ELSE IF s.delayed
         THEN [s EXCEPT !.available = @ + ack, !.read = @ \/ s.available + ack > 0]
         ELSE [s EXCEPT !.read = TRUE]

\* A_OKAY for a known socket: the first one creates the remote socket.
OkayKnown(e) ==
    LET p == Head(chan[e])  i == p.arg1  s == sock[e][i] IN
    /\ Receives(e, "OKAY") /\ tr[e].online /\ find_local_socket(e, i, 0)
    /\ sock' = [sock EXCEPT ![e][i] =
          IF s.peer = 0
          THEN [local_socket_ack(s, p.ack) EXCEPT !.peer = p.arg0, !.read = TRUE]
          ELSE IF s.peer = p.arg0 THEN local_socket_ack(s, p.ack) ELSE s]
    /\ HandledWith(e, <<>>)
    /\ UNCHANGED <<tr, nextId, fd, hostAck, restarts>>

\* Variant: A_OKAY for a socket that has gone is dropped.
OkayUnknownDropped(e) ==
    /\ Receives(e, "OKAY") /\ tr[e].online
    /\ ~find_local_socket(e, Head(chan[e]).arg1, 0)
    /\ Ignored(e, <<>>)

\* A_OKAY for a socket that has gone makes the other end close its own.
OkayUnknown(e) ==
    LET p == Head(chan[e]) IN
    /\ Receives(e, "OKAY") /\ tr[e].online /\ ~find_local_socket(e, p.arg1, 0)
    /\ Ignored(e, <<send_close(p.arg1, p.arg0)>>)

ClseKnown(e) ==
    LET p == Head(chan[e])  i == p.arg1  s == sock[e][i] IN
    /\ Receives(e, "CLSE") /\ tr[e].online /\ find_local_socket(e, i, p.arg0)
    /\ sock' = [sock EXCEPT ![e][i] = local_socket_close(s)]
    /\ HandledWith(e, remote_socket_shutdown(i, s))
    /\ UNCHANGED <<tr, nextId, fd, hostAck, restarts>>

\* A_WRTE: local_socket_enqueue appends and tries to write at once.
WrteKnown(e) ==
    LET p == Head(chan[e])  i == p.arg1
        s == [sock[e][i] EXCEPT !.packet_queue = @ \o p.data]
    IN
    /\ Receives(e, "WRTE") /\ tr[e].online /\ find_local_socket(e, i, p.arg0)
    /\ \E rc \in WriteOutcomes(fd[e][i], s, 0) :
          /\ sock' = [sock EXCEPT ![e][i] = flush_incoming(s, rc)]
          /\ fd' = [fd EXCEPT ![e][i] = FdAfterWrite(@, s, rc)]
          /\ HandledWith(e, flush_ack(e, i, s, rc))
    /\ UNCHANGED <<tr, nextId, hostAck, restarts>>

\* A_CLSE and A_WRTE for a socket that has gone are dropped.
UnknownDropped(e) ==
    LET p == Head(chan[e]) IN
    /\ Receives(e, "CLSE") \/ Receives(e, "WRTE")
    /\ tr[e].online /\ ~find_local_socket(e, p.arg1, p.arg0)
    /\ Ignored(e, <<>>)

\* Every stream packet is dropped while the transport is not online.
OfflineDropped(e) ==
    /\ chan[e] # <<>> /\ Head(chan[e]).cmd # "CNXN" /\ ~tr[e].online
    /\ Ignored(e, <<>>)

(* A_CNXN: handle_new_connection.  handle_offline closes every socket of   *)
(* the old session, unless the transport is offline already; parse_banner  *)
(* agrees on delayed acks; the device answers with its own A_CNXN.         *)

\* Variant: sockets outlive the session.
ClosesNoSocket(e) == sock[e]

close_all_sockets(e) ==
    [i \in Id |-> IF sock[e][i].list = "local"
                  THEN local_socket_close(sock[e][i]) ELSE sock[e][i]]

\* The A_CLSE packets of close_all_sockets in list order, which is the order of
\* the ids (a set with one element).
all_shutdowns(e) ==
    LET ids  == {i \in Id : tr[e].online /\ sock[e][i].peer # 0}
        n    == Cardinality(ids)
        list == {f \in [1..n -> ids] : \A k, m \in 1..n : k < m => f[k] < f[m]}
    IN  {[k \in 1..n |-> send_close(f[k], sock[e][f[k]].peer)] : f \in list}

CanUseDelayedAck(e, f) == f /\ (e = "host" => hostAck)

handle_new_connection(e) ==
    LET f == Head(chan[e]).delayedAck IN
    /\ Receives(e, "CNXN")
    /\ tr' = [tr EXCEPT ![e] = [online |-> TRUE, delayedAck |-> CanUseDelayedAck(e, f)]]
    /\ sock' = [sock EXCEPT ![e] = IF tr[e].online THEN close_all_sockets(e) ELSE @]
    /\ \E out \in all_shutdowns(e) :
          HandledWith(e, out \o
                         IF e = "device" THEN <<send_connect(TRUE)>> ELSE <<>>)
    /\ UNCHANGED <<nextId, fd, hostAck, restarts>>

-----------------------------------------------------------------------------
(* The environment: applications, and restarts of the host server.         *)

\* The application shuts its writing side, leaving k bytes to be read.
AppShutsWrite(e, i) ==
    /\ Exists(e, i) /\ fd[e][i].left = Open
    /\ \E k \in 0..(MaxBytes - fd[e][i].taken) :
          fd' = [fd EXCEPT ![e][i].left = k]
    /\ UNCHANGED <<chan, tr, nextId, sock, hostAck, restarts>>

\* The application shuts its reading side.
AppShutsRead(e, i) ==
    /\ Exists(e, i) /\ ~fd[e][i].deaf
    /\ fd' = [fd EXCEPT ![e][i].deaf = TRUE]
    /\ UNCHANGED <<chan, tr, nextId, sock, hostAck, restarts>>

OfflineTransport == [online |-> FALSE, delayedAck |-> FALSE]

\* The host server dies and a new one opens the device: its sockets and ids
\* start afresh.  Packets it had read but not handled, and packets it had
\* queued but not written, are lost.
HostRestarts ==
    /\ restarts < MaxRestarts
    /\ restarts' = restarts + 1
    /\ hostAck' \in AckModes
    /\ tr' = [tr EXCEPT !["host"] = OfflineTransport]
    /\ nextId' = [nextId EXCEPT !["host"] = 1]
    /\ sock' = [sock EXCEPT !["host"] = [i \in Id |-> NoSocket]]
    /\ fd' = [fd EXCEPT !["host"] = [i \in Id |-> NewFd(restarts + 1, FALSE)]]
    /\ \E k \in 0..Len(chan["host"]), m \in 0..Len(chan["device"]) :
          chan' = [chan EXCEPT
                     !["host"] = SubSeq(@, k + 1, Len(@)),
                     !["device"] = Append(SubSeq(@, 1, m), send_connect(hostAck'))]

\* daemon/usb.cpp: when the device has read an A_CNXN, its USB thread asks to
\* cancel the writes that are submitted and pending, oldest first.  Which of
\* them the host has taken already, and whether io_cancel succeeds, is not
\* known: its result is ignored.  So any number is lost, possibly none.
CancelWrites ==
    /\ \E k \in DOMAIN chan["device"] : chan["device"][k].cmd = "CNXN"
    /\ chan["host"] # <<>>
    /\ chan' = [chan EXCEPT !["host"] = Tail(@)]
    /\ UNCHANGED <<tr, nextId, sock, fd, hostAck, restarts>>

-----------------------------------------------------------------------------
Init ==
    /\ hostAck \in AckModes
    /\ restarts = 0
    /\ chan = [e \in End |-> IF e = "device" THEN <<send_connect(hostAck)>> ELSE <<>>]
    /\ tr = [e \in End |-> OfflineTransport]
    /\ nextId = [e \in End |-> 1]
    /\ sock = [e \in End |-> [i \in Id |-> NoSocket]]
    /\ fd = [e \in End |-> [i \in Id |-> NewFd(0, FALSE)]]

\* The steps of the looper of end e.
HandlePacket(e) ==
    \/ OpenRefused(e) \/ OpenAccepted(e)
    \/ OkayKnown(e) \/ OkayUnknown(e)
    \/ ClseKnown(e) \/ WrteKnown(e) \/ UnknownDropped(e)
    \/ OfflineDropped(e) \/ handle_new_connection(e)

Next ==
    \/ \E e \in End : HandlePacket(e) \/ connect_to_remote(e)
    \/ \E e \in End, i \in Id :
          \/ WriteEvent(e, i) \/ ReadEvent(e, i) \/ WriteReadEvent(e, i)
          \/ AppShutsWrite(e, i) \/ AppShutsRead(e, i)
    \/ HostRestarts \/ CancelWrites

Spec == Init /\ [][Next]_vars

-----------------------------------------------------------------------------
(* Safety.                                                                 *)

\* Every variable has its type.
TypeOK ==
    /\ chan \in [End -> Seq(Packet)]
    /\ tr \in [End -> [online : BOOLEAN, delayedAck : BOOLEAN]]
    /\ nextId \in [End -> 1..(MaxId + 1)]
    /\ sock \in [End -> [Id -> Socket]]
    /\ fd \in [End -> [Id -> FdEnd]]
    /\ hostAck \in BOOLEAN
    /\ restarts \in Generation

\* FDE_WRITE is wanted exactly while there is data that can still be written,
\* and a socket whose descriptor has failed never waits on the closing list.
WriteInterest ==
    \A e \in End, i \in Id :
        LET s == sock[e][i] IN
        /\ Exists(e, i) => (s.write <=> s.packet_queue # <<>> /\ ~s.has_write_error)
        /\ s.list = "closing" => ~s.has_write_error

\* An application shuts its writing side with no more bytes left unread than the
\* bound allows.
FdBounded ==
    \A e \in End, i \in Id :
        fd[e][i].left # Open => fd[e][i].taken + fd[e][i].left <= MaxBytes

\* A socket parked on the closing list waits for FDE_WRITE, the CHECK_EQ at
\* the end of local_socket_close: it has data left and nobody else would
\* ever look at it again.
ClosingWaitsForWrite ==
    \A e \in End, i \in Id :
        sock[e][i].list = "closing" =>
            /\ sock[e][i].write /\ ~sock[e][i].read
            /\ sock[e][i].peer = 0 /\ sock[e][i].packet_queue # <<>>

\* What an application receives was read from one socket of the other end, in
\* order and without a gap.  It starts at the first byte if the receiver opened
\* the stream; a socket that waits for its first A_OKAY may drop what it reads.
StreamIntact ==
    \A e \in End, i \in Id :
        LET got == fd[e][i].got IN
        got # <<>> =>
            /\ \A k \in DOMAIN got : got[k] = [got[1] EXCEPT !.pos = @ + k - 1]
            /\ ~fd[e][i].accepted => got[1].pos = 1

\* Sockets (e, i) and (Other(e), j) are the two ends of one stream.
Joined(e, i, j) ==
    /\ sock[e][i].list = "local" /\ sock[e][i].peer = j
    /\ sock[Other(e)][j].list = "local" /\ sock[Other(e)][j].peer = i

\* The remote socket of a host socket leads back to it: the device's socket
\* with that id has gone, or knows the host socket, or has not heard of it yet.
PeersAgree ==
    \A i \in Id, j \in Id :
        /\ sock["host"][i].list = "local" /\ sock["host"][i].peer = j
        /\ sock["device"][j].list = "local"
        => sock["device"][j].peer \in {0, i}

\* Two joined sockets belong to a stream opened for one and the same server,
\* so that a client never talks to a service that another server started.
SameServer ==
    \A i \in Id, j \in Id :
        Joined("host", i, j) => fd["host"][i].gen = fd["device"][j].gen

InFlight(e, c, i, j) ==
    {k \in DOMAIN chan[e] :
        chan[e][k].cmd = c /\ chan[e][k].arg0 = i /\ chan[e][k].arg1 = j}

BytesInFlight(e, i, j) ==
    Cardinality({p \in InFlight(e, "WRTE", i, j) \X (1..MaxBytes) :
                    p[2] \in DOMAIN chan[e][p[1]].data})

AcksInFlight(e, i, j) ==
    Cardinality({p \in InFlight(e, "OKAY", i, j) \X (1..(Window + MaxBytes)) :
                    p[2] <= chan[e][p[1]].ack})

\* Delayed acks lose and invent no credit: what a socket may still send, what
\* it has sent that is under way or queued, and the acknowledgements under way
\* add up to the window.
CreditConserved ==
    \A e \in End, i \in Id, j \in Id :
        LET o == Other(e) IN
        Joined(e, i, j) /\ sock[e][i].delayed =>
            /\ sock[o][j].delayed
            /\ sock[e][i].available + BytesInFlight(o, i, j)
                 + Len(sock[o][j].packet_queue) + AcksInFlight(e, j, i) = Window

\* A sender stops reading its descriptor only while something that will start
\* it again is under way: data that is to be acknowledged, or its A_OKAY.
NoStall ==
    \A e \in End, i \in Id, j \in Id :
        Joined(e, i, j) /\ ~sock[e][i].read =>
            \/ InFlight(Other(e), "WRTE", i, j) # {}
            \/ InFlight(e, "OKAY", j, i) # {}
            \/ sock[Other(e)][j].packet_queue # <<>>

\* No data of a stream follows its A_CLSE.
SilentAfterClose ==
    \A e \in End, i \in Id, j \in Id :
        \A k \in InFlight(e, "CLSE", i, j) :
            \A m \in InFlight(e, "WRTE", i, j) : m < k

\* A sender overdraws its window by less than one payload, until a hangup makes
\* the event loop read whatever the window says.
OverdraftBounded ==
    \A e \in End, i \in Id :
        Exists(e, i) /\ ~Hangup(fd[e][i]) => sock[e][i].available > -MaxPayload

\* e leaves socket i with the data that was queued for its descriptor unwritten.
LosesQueue(e, i) ==
    /\ sock[e][i].list = "closing" /\ sock'[e][i].list = "none"
    /\ restarts' = restarts
    /\ fd'[e][i].got # fd[e][i].got \o sock[e][i].packet_queue

\* A socket on the closing list is destroyed when its last byte is written;
\* only a hangup or a write error of its descriptor makes it go earlier.
ClosingDrains ==
    [][\A e \in End, i \in Id :
          LosesQueue(e, i) => Hangup(fd[e][i]) \/ fd[e][i].deaf]_vars

-----------------------------------------------------------------------------
(* Liveness.  A looper goes on handling packets, and a hangup is reported  *)
(* by every poll until it is dealt with.  Nothing is assumed about what    *)
(* applications read or write.                                             *)

ServeHangup(e, i) ==
    Hangup(fd[e][i]) /\ (ReadEvent(e, i) \/ WriteReadEvent(e, i))

Fairness ==
    /\ \A e \in End : WF_vars(HandlePacket(e))
    /\ \A e \in End, i \in Id : WF_vars(ServeHangup(e, i))

FairSpec == Spec /\ Fairness

\* A socket whose application has hung up is destroyed, whatever its peer, its
\* window and its queue are like.
HangupCloses ==
    \A e \in End, i \in Id :
        (Exists(e, i) /\ Hangup(fd[e][i])) ~> ~Exists(e, i)

\* Every A_OPEN is answered: a socket does not wait for its peer for ever.
OpenAnswered ==
    \A e \in End, i \in Id :
        (sock[e][i].list = "local" /\ sock[e][i].peer = 0)
            ~> (sock[e][i].list # "local" \/ sock[e][i].peer # 0)

\* A socket whose peer has gone, or is not its peer any more, is closed, across
\* restarts of the host server and simultaneous closes.
OrphanCloses ==
    \A e \in End, i \in Id, j \in Id :
        LET o == Other(e) IN
        (/\ sock[e][i].list = "local" /\ sock[e][i].peer = j
         /\ ~(sock[o][j].list = "local" /\ sock[o][j].peer \in {0, i}))
            ~> (sock[e][i].list # "local" \/ sock[e][i].peer # j)

=============================================================================
