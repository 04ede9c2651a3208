-------------------------- MODULE AdbSocketsProofs --------------------------
(***************************************************************************)
(* Proofs about the asocket layer, for any number of sockets, any payload, *)
(* window and amount of data, and any number of server restarts.           *)
(***************************************************************************)
EXTENDS AdbSockets, FiniteSetTheorems, SequenceTheorems, TLAPS

\* The inductive invariant.
IInv == TypeOK /\ FdBounded /\ WriteInterest /\ ClosingWaitsForWrite

\* What the invariant says of one socket.
GoodSocket(s) ==
    /\ s \in Socket
    /\ s.list # "none" => (s.write <=> s.packet_queue # <<>> /\ ~s.has_write_error)
    /\ s.list = "closing" =>
          /\ s.write /\ ~s.read /\ s.peer = 0
          /\ s.packet_queue # <<>> /\ ~s.has_write_error

\* ... and of one descriptor.
GoodFd(f) == f \in FdEnd /\ (f.left # Open => f.taken + f.left <= MaxBytes)

-----------------------------------------------------------------------------
(* The operators on one socket.                                            *)

\* Ids and the absence of a peer, as the provers need them.
LEMMA NoPeer == 0 \in PeerId /\ Id \subseteq PeerId /\ 0 \notin Id
BY ConstantsAssumption DEF PeerId, Id

\* The absent socket, and one that is newly created, are good.
LEMMA NewSockets == GoodSocket(NoSocket) /\ GoodSocket(create_local_socket)
<1>1. NoSocket \in Socket /\ NoSocket.list = "none"
  BY NoPeer DEF NoSocket, Socket
<1>2. /\ create_local_socket \in Socket /\ create_local_socket.list = "local"
      /\ create_local_socket.write = NoSocket.write
      /\ create_local_socket.packet_queue = NoSocket.packet_queue
  BY <1>1 DEF create_local_socket, Socket
<1>3. NoSocket.write = FALSE /\ NoSocket.packet_queue = <<>>
  BY DEF NoSocket
<1> QED
  BY <1>1, <1>2, <1>3 DEF GoodSocket

\* local_socket_close leaves a good socket: the one it parks has data to write,
\* so FDE_WRITE is set.
LEMMA CloseGood ==
    ASSUME NEW s, GoodSocket(s), s.list # "none"
    PROVE  GoodSocket(local_socket_close(s))
<1>1. CASE local_socket_close(s) = NoSocket
  BY <1>1, NewSockets
<1>2. CASE local_socket_close(s) # NoSocket
  <2>1. /\ s.list # "closing" /\ ~s.has_write_error /\ s.packet_queue # <<>>
        /\ local_socket_close(s)
             = [s EXCEPT !.list = "closing", !.peer = 0, !.read = FALSE]
    BY <1>2 DEF local_socket_close
  <2> QED
    BY <2>1, NoPeer, Zenon DEF GoodSocket, Socket
<1> QED
  BY <1>1, <1>2

\* local_socket_flush_incoming sets FDE_WRITE again exactly when data is left.
LEMMA FlushIncomingGood ==
    ASSUME NEW s \in Socket, s.list # "none",
           s.list = "closing" => ~s.read /\ s.peer = 0,
           NEW rc \in {WriteFails} \cup 0..Len(s.packet_queue)
    PROVE  GoodSocket(flush_incoming(s, rc))
<1> DEFINE queue   == SubSeq(s.packet_queue, Flushed(rc) + 1, Len(s.packet_queue))
           failed  == s.has_write_error \/ rc = WriteFails
           full    == queue # <<>> /\ ~failed
<1>1. queue \in Seq(Byte)
  <2>1. s.packet_queue \in Seq(Byte) /\ Flushed(rc) \in Nat
    BY DEF Socket, Flushed, WriteFails
  <2> QED
    BY <2>1, SubSeqProperties
<1>2. failed \in BOOLEAN /\ full \in BOOLEAN
  BY DEF Socket
<1>3. CASE s.list = "closing" /\ ~full
  BY <1>3, NewSockets DEF flush_incoming
<1>4. CASE ~(s.list = "closing" /\ ~full)
  <2>1. flush_incoming(s, rc) = [s EXCEPT !.packet_queue = queue,
                                          !.has_write_error = failed, !.write = full]
    BY <1>4 DEF flush_incoming
  <2> HIDE DEF queue, failed
  <2> QED
    BY <2>1, <1>1, <1>2, <1>4, Zenon DEF GoodSocket, Socket
<1> QED
  BY <1>3, <1>4

\* Sending takes from the window and may stop the reading; nothing else changes.
LEMMA SentGood ==
    ASSUME NEW s, GoodSocket(s), NEW n \in Nat
    PROVE  GoodSocket(sent_outgoing(s, n)) /\ sent_outgoing(s, n).list = s.list
<1> DEFINE left == s.available - n
<1>1. left \in Int /\ (left > 0) \in BOOLEAN
  BY DEF GoodSocket, Socket
<1>2. CASE n = 0 \/ s.peer = 0
  BY <1>2 DEF sent_outgoing
<1>3. CASE n # 0 /\ s.peer # 0 /\ s.delayed
  <2>1. sent_outgoing(s, n) = [s EXCEPT !.available = left, !.read = @ /\ left > 0]
    BY <1>3 DEF sent_outgoing
  <2> DEFINE more == left > 0
  <2>2. sent_outgoing(s, n) = [s EXCEPT !.available = left, !.read = s.read /\ more]
    BY <2>1
  <2> HIDE DEF left, more
  <2>3. more \in BOOLEAN /\ left \in Int
    BY <1>1 DEF more
  <2> QED
    BY <2>2, <2>3, <1>3, Zenon DEF GoodSocket, Socket
<1>4. CASE n # 0 /\ s.peer # 0 /\ ~s.delayed
  BY <1>4, Zenon DEF sent_outgoing, GoodSocket, Socket
<1> QED
  BY <1>2, <1>3, <1>4

\* local_socket_flush_outgoing leaves a good socket.
LEMMA FlushOutgoingGood ==
    ASSUME NEW s, GoodSocket(s), s.list # "none", NEW n \in Nat, NEW eof \in BOOLEAN
    PROVE  GoodSocket(flush_outgoing(s, n, eof))
BY SentGood, CloseGood DEF flush_outgoing

\* local_socket_ack leaves a good socket on its list.
LEMMA AckGood ==
    ASSUME NEW s, GoodSocket(s), s.list = "local", NEW ack \in Nat \cup {NoAck}
    PROVE  /\ GoodSocket(local_socket_ack(s, ack))
           /\ local_socket_ack(s, ack).list = "local"
<1> DEFINE sum == s.available + ack
           more == sum > 0
<1>1. sum \in Int /\ more \in BOOLEAN
  BY DEF GoodSocket, Socket, NoAck
<1>2. CASE s.delayed # (ack # NoAck)
  BY <1>2 DEF local_socket_ack
<1>3. CASE s.delayed = (ack # NoAck) /\ s.delayed
  <2>1. local_socket_ack(s, ack)
          = [s EXCEPT !.available = sum, !.read = s.read \/ more]
    BY <1>3, Zenon DEF local_socket_ack
  <2> HIDE DEF sum, more
  <2> QED
    BY <2>1, <1>1, Zenon DEF GoodSocket, Socket
<1>4. CASE s.delayed = (ack # NoAck) /\ ~s.delayed
  BY <1>4, Zenon DEF local_socket_ack, GoodSocket, Socket
<1> QED
  BY <1>2, <1>3, <1>4

-----------------------------------------------------------------------------
(* Packets.                                                                *)

\* The packets that need nothing but ids are well typed.
LEMMA PacketTypes ==
    /\ \A f \in BOOLEAN : send_connect(f) \in Packet
    /\ \A i \in PeerId, j \in Id : send_close(i, j) \in Packet
    /\ \A i, j \in Id, d \in Seq(Byte) : send_write(i, j, d) \in Packet
    /\ \A e \in End, i, j \in Id, n \in Nat : send_ready(e, i, j, n) \in Packet
    /\ restarts \in Generation =>
          \A i \in Id, n \in {0, Window} : send_open(i, n) \in Packet
<1>1. \A f \in BOOLEAN : send_connect(f) \in Packet
  BY DEF send_connect, Packet
<1>2. \A i \in PeerId, j \in Id : send_close(i, j) \in Packet
  BY DEF send_close, Packet
<1>3. \A i, j \in Id, d \in Seq(Byte) : send_write(i, j, d) \in Packet
  BY DEF send_write, Packet
<1>4. \A e \in End, i, j \in Id, n \in Nat : send_ready(e, i, j, n) \in Packet
  BY DEF send_ready, Packet
<1>5. ASSUME restarts \in Generation, NEW i \in Id, NEW n \in {0, Window}
      PROVE  send_open(i, n) \in Packet
  BY <1>5 DEF send_open, Packet
<1> QED
  BY <1>1, <1>2, <1>3, <1>4, <1>5

\* The answers of flush_incoming and of remote_socket_shutdown are packets.
LEMMA AnswerTypes ==
    ASSUME NEW e \in End, NEW i \in Id, NEW s \in Socket,
           NEW rc \in {WriteFails} \cup 0..Len(s.packet_queue)
    PROVE  /\ flush_ack(e, i, s, rc) \in Seq(Packet)
           /\ remote_socket_shutdown(i, s) \in Seq(Packet)
<1>1. s.peer # 0 => s.peer \in Id
  BY ConstantsAssumption DEF Socket, PeerId, Id
<1>2. Flushed(rc) \in Nat /\ i \in PeerId
  BY NoPeer DEF Flushed, WriteFails, Socket
<1>3. flush_ack(e, i, s, rc) \in Seq(Packet)
  <2> DEFINE n == IF s.delayed THEN Flushed(rc) ELSE 0
  <2>1. n \in Nat
    BY <1>2
  <2> HIDE DEF n
  <2>2. s.peer # 0 => <<send_ready(e, i, s.peer, n)>> \in Seq(Packet)
    BY <1>1, <2>1, PacketTypes
  <2> QED
    BY <2>2 DEF flush_ack, n
<1>4. remote_socket_shutdown(i, s) \in Seq(Packet)
  <2>1. s.peer # 0 => <<send_close(i, s.peer)>> \in Seq(Packet)
    BY <1>1, <1>2, PacketTypes
  <2> QED
    BY <2>1 DEF remote_socket_shutdown
<1> QED
  BY <1>3, <1>4

\* So are the packets for what is read from a descriptor.
LEMMA OutgoingTypes ==
    ASSUME NEW i \in Id, NEW s \in Socket, NEW f \in FdEnd, NEW eof \in BOOLEAN,
           NEW n \in Nat, f.taken + n <= MaxBytes
    PROVE  outgoing_packets(i, s, f, n, eof) \in Seq(Packet)
<1> DEFINE data == [k \in 1..n |-> [gen |-> f.gen, id |-> i, pos |-> f.taken + k]]
<1>1. data \in Seq(Byte)
  <2>1. \A k \in 1..n : f.taken + k \in 1..MaxBytes
    BY ConstantsAssumption DEF FdEnd
  <2>2. \A k \in 1..n : [gen |-> f.gen, id |-> i, pos |-> f.taken + k] \in Byte
    BY <2>1 DEF FdEnd, Byte
  <2> QED
    BY <2>2
<1> HIDE DEF data
<1>2. s.peer # 0 => s.peer \in Id
  BY ConstantsAssumption DEF Socket, PeerId, Id
<1>3. s.peer # 0 => <<send_write(i, s.peer, data)>> \in Seq(Packet)
  BY <1>1, <1>2, PacketTypes
<1>4. remote_socket_shutdown(i, s) \in Seq(Packet)
  <2>1. WriteFails \in {WriteFails} \cup 0..Len(s.packet_queue)
    OBVIOUS
  <2>2. "host" \in End
    BY DEF End
  <2> QED
    BY <2>1, <2>2, AnswerTypes
<1> DEFINE first == IF n # 0 /\ s.peer # 0 THEN <<send_write(i, s.peer, data)>> ELSE <<>>
           last  == IF eof THEN remote_socket_shutdown(i, s) ELSE <<>>
<1>5. first \in Seq(Packet) /\ last \in Seq(Packet)
  BY <1>3, <1>4
<1>6. outgoing_packets(i, s, f, n, eof) = first \o last
  BY DEF outgoing_packets, data
<1> QED
  BY <1>5, <1>6, ConcatProperties

\* Handling the oldest packet and sending packets keep the channels well typed.
LEMMA ChannelSteps ==
    ASSUME chan \in [End -> Seq(Packet)], NEW e \in End, NEW out \in Seq(Packet)
    PROVE  /\ Sends(e, out) => chan' \in [End -> Seq(Packet)]
           /\ chan[e] # <<>> /\ HandledWith(e, out) => chan' \in [End -> Seq(Packet)]
<1>1. Other(e) \in End /\ Other(e) # e
  BY DEF Other, End
<1>2. chan[Other(e)] \o out \in Seq(Packet)
  BY <1>1, ConcatProperties
<1>3. chan[e] # <<>> => Tail(chan[e]) \in Seq(Packet)
  BY HeadTailProperties
<1> QED
  BY <1>1, <1>2, <1>3, Zenon DEF Sends, HandledWith

-----------------------------------------------------------------------------
(* Descriptors.                                                            *)

\* What a read may return fits the bound on the data.
LEMMA ReadOutcomeTypes ==
    ASSUME NEW f, GoodFd(f), NEW r \in ReadOutcomes(f)
    PROVE  /\ r.n \in Nat /\ r.eof \in BOOLEAN
           /\ f.taken + r.n <= MaxBytes
           /\ f.left # Open => r.n <= f.left
<1>1. CASE Hangup(f)
  <2>1. f.left \in 0..MaxBytes /\ f.taken \in 0..MaxBytes /\ f.taken + f.left <= MaxBytes
    BY <1>1 DEF GoodFd, Hangup, FdEnd, Open
  <2>2. r = [n |-> Min(f.left, MaxPayload), eof |-> f.left < MaxPayload]
    BY <1>1 DEF ReadOutcomes
  <2>3. r.n = Min(f.left, MaxPayload) /\ r.eof = (f.left < MaxPayload)
    BY <2>2
  <2> QED
    BY <2>1, <2>3, ConstantsAssumption DEF Min
<1>2. CASE ~Hangup(f)
  <2>1. f.left = Open /\ f.taken \in 0..MaxBytes
    BY <1>2 DEF GoodFd, Hangup, FdEnd
  <2>2. PICK k \in 1..Min(MaxBytes - f.taken, MaxPayload) : r = [n |-> k, eof |-> FALSE]
    BY <1>2 DEF ReadOutcomes
  <2>3. r.n = k /\ r.eof = FALSE
    BY <2>2
  <2> QED
    BY <2>1, <2>2, <2>3, ConstantsAssumption DEF Min
<1> QED
  BY <1>1, <1>2

\* Reading from and writing to a good descriptor leaves it good.
LEMMA FdGood ==
    ASSUME NEW f, GoodFd(f)
    PROVE  /\ \A r \in ReadOutcomes(f) : GoodFd(FdAfterRead(f, r.n))
           /\ \A s \in Socket : \A rc \in {WriteFails} \cup 0..Len(s.packet_queue) :
                 GoodFd(FdAfterWrite(f, s, rc)) /\ FdAfterWrite(f, s, rc).left = f.left
                   /\ FdAfterWrite(f, s, rc).taken = f.taken
<1>1. ASSUME NEW r \in ReadOutcomes(f)
      PROVE  GoodFd(FdAfterRead(f, r.n))
  <2> DEFINE took == f.taken + r.n
             rest == IF f.left = Open THEN Open ELSE f.left - r.n
  <2>1. /\ took \in 0..MaxBytes /\ rest \in {Open} \cup 0..MaxBytes
        /\ rest # Open => took + rest <= MaxBytes
    BY ReadOutcomeTypes, ConstantsAssumption DEF GoodFd, FdEnd, Open
  <2>2. FdAfterRead(f, r.n) = [f EXCEPT !.taken = took, !.left = rest]
    BY DEF FdAfterRead, GoodFd, FdEnd
  <2> HIDE DEF took, rest
  <2> QED
    BY <2>1, <2>2, Zenon DEF GoodFd, FdEnd
<1>2. ASSUME NEW s \in Socket, NEW rc \in {WriteFails} \cup 0..Len(s.packet_queue)
      PROVE  GoodFd(FdAfterWrite(f, s, rc)) /\ FdAfterWrite(f, s, rc).left = f.left
               /\ FdAfterWrite(f, s, rc).taken = f.taken
  <2> DEFINE more == f.got \o SubSeq(s.packet_queue, 1, Flushed(rc))
  <2>1. more \in Seq(Byte)
    <3>1. s.packet_queue \in Seq(Byte) /\ f.got \in Seq(Byte)
      BY DEF Socket, GoodFd, FdEnd
    <3>2. Flushed(rc) \in 0..Len(s.packet_queue)
      BY <3>1, LenProperties DEF Flushed, WriteFails
    <3>3. SubSeq(s.packet_queue, 1, Flushed(rc)) \in Seq(Byte)
      BY <3>1, <3>2, SubSeqProperties
    <3> QED
      BY <3>1, <3>3, ConcatProperties
  <2>2. FdAfterWrite(f, s, rc) = [f EXCEPT !.got = more]
    BY DEF FdAfterWrite
  <2> HIDE DEF more
  <2> QED
    BY <2>1, <2>2, ZenonT(30) DEF GoodFd, FdEnd
<1> QED
  BY <1>1, <1>2

-----------------------------------------------------------------------------
(* The steps.                                                              *)

Control ==
    /\ tr \in [End -> [online : BOOLEAN, delayedAck : BOOLEAN]]
    /\ nextId \in [End -> 1..(MaxId + 1)]
    /\ hostAck \in BOOLEAN
    /\ restarts \in Generation

Sockets ==
    /\ sock \in [End -> [Id -> Socket]]
    /\ fd \in [End -> [Id -> FdEnd]]
    /\ \A e \in End, i \in Id : GoodSocket(sock[e][i]) /\ GoodFd(fd[e][i])

Channels == chan \in [End -> Seq(Packet)]

\* The invariant, socket by socket.
LEMMA IInvParts == IInv <=> Control /\ Sockets /\ Channels
<1>1. IInv => Control /\ Sockets /\ Channels
  BY DEF IInv, TypeOK, FdBounded, WriteInterest, ClosingWaitsForWrite, Exists,
         Control, Sockets, Channels, GoodSocket, GoodFd
<1>2. Control /\ Sockets /\ Channels => IInv
  BY DEF IInv, TypeOK, FdBounded, WriteInterest, ClosingWaitsForWrite, Exists,
         Control, Sockets, Channels, GoodSocket, GoodFd
<1> QED
  BY <1>1, <1>2

\* A step that changes one socket and its descriptor.
LEMMA OneSocket ==
    ASSUME Sockets, NEW e \in End, NEW i \in Id,
           NEW t, GoodSocket(t), sock' = [sock EXCEPT ![e][i] = t],
           NEW g, GoodFd(g), fd' = [fd EXCEPT ![e][i] = g]
    PROVE  Sockets'
<1>1. t \in Socket /\ g \in FdEnd
  BY DEF GoodSocket, GoodFd
<1>2. sock' \in [End -> [Id -> Socket]] /\ fd' \in [End -> [Id -> FdEnd]]
  BY <1>1 DEF Sockets
<1>3. ASSUME NEW d \in End, NEW k \in Id
      PROVE  GoodSocket(sock'[d][k]) /\ GoodFd(fd'[d][k])
  <2>1. CASE d = e /\ k = i
    BY <2>1 DEF Sockets
  <2>2. CASE d # e \/ k # i
    <3>1. sock'[d][k] = sock[d][k] /\ fd'[d][k] = fd[d][k]
      BY <2>2 DEF Sockets
    <3> QED
      BY <3>1 DEF Sockets
  <2> QED
    BY <2>1, <2>2
<1> QED
  BY <1>2, <1>3 DEF Sockets

\* ... or the socket alone.
LEMMA OneSocketOnly ==
    ASSUME Sockets, NEW e \in End, NEW i \in Id,
           NEW t, GoodSocket(t), sock' = [sock EXCEPT ![e][i] = t], fd' = fd
    PROVE  Sockets'
<1>1. GoodFd(fd[e][i]) /\ fd' = [fd EXCEPT ![e][i] = fd[e][i]]
  BY DEF Sockets
<1> QED
  BY <1>1, OneSocket, Zenon

\* FDE_WRITE.
LEMMA WriteEventStep ==
    ASSUME Control, Sockets, Channels, NEW e \in End, NEW i \in Id, WriteEvent(e, i)
    PROVE  Sockets' /\ Channels'
<1> DEFINE s == sock[e][i]
           f == fd[e][i]
<1>1. GoodSocket(s) /\ GoodFd(f) /\ s \in Socket /\ s.list # "none"
  BY DEF Sockets, WriteEvent, Exists
<1>2. PICK rc \in WriteOutcomes(f, s, 1) :
         /\ sock' = [sock EXCEPT ![e][i] = flush_incoming(s, rc)]
         /\ fd' = [fd EXCEPT ![e][i] = FdAfterWrite(f, s, rc)]
         /\ Sends(e, flush_ack(e, i, s, rc))
  BY Zenon DEF WriteEvent
<1>3. rc \in {WriteFails} \cup 0..Len(s.packet_queue)
  BY <1>1 DEF WriteOutcomes, Socket
<1> HIDE DEF s, f
<1>4. GoodSocket(flush_incoming(s, rc))
  BY <1>1, <1>3, FlushIncomingGood DEF GoodSocket
<1>5. GoodFd(FdAfterWrite(f, s, rc))
  BY <1>1, <1>3, FdGood
<1>6. flush_ack(e, i, s, rc) \in Seq(Packet)
  BY <1>1, <1>3, AnswerTypes
<1> QED
  BY <1>2, <1>4, <1>5, <1>6, OneSocket, ChannelSteps, Zenon DEF Channels

\* FDE_READ.
LEMMA ReadEventStep ==
    ASSUME Control, Sockets, Channels, NEW e \in End, NEW i \in Id, ReadEvent(e, i)
    PROVE  Sockets' /\ Channels'
<1> DEFINE s == sock[e][i]
           f == fd[e][i]
<1>1. GoodSocket(s) /\ GoodFd(f) /\ s \in Socket /\ f \in FdEnd /\ s.list # "none"
  BY DEF Sockets, ReadEvent, Exists
<1>2. PICK r \in ReadOutcomes(f) :
         /\ sock' = [sock EXCEPT ![e][i] = flush_outgoing(s, r.n, r.eof)]
         /\ fd' = [fd EXCEPT ![e][i] = FdAfterRead(f, r.n)]
         /\ Sends(e, outgoing_packets(i, s, f, r.n, r.eof))
  BY Zenon DEF ReadEvent
<1> HIDE DEF s, f
<1>3. r.n \in Nat /\ r.eof \in BOOLEAN /\ f.taken + r.n <= MaxBytes
  BY <1>1, ReadOutcomeTypes
<1>4. GoodSocket(flush_outgoing(s, r.n, r.eof))
  BY <1>1, <1>3, FlushOutgoingGood
<1>5. GoodFd(FdAfterRead(f, r.n))
  BY <1>1, FdGood
<1>6. outgoing_packets(i, s, f, r.n, r.eof) \in Seq(Packet)
  BY <1>1, <1>3, OutgoingTypes
<1> QED
  BY <1>2, <1>4, <1>5, <1>6, OneSocket, ChannelSteps, Zenon DEF Channels

\* FDE_WRITE and FDE_READ in one callback.
LEMMA WriteReadEventStep ==
    ASSUME Control, Sockets, Channels, NEW e \in End, NEW i \in Id, WriteReadEvent(e, i)
    PROVE  Sockets' /\ Channels'
<1> DEFINE s == sock[e][i]
           f == fd[e][i]
           W(rc) == flush_incoming(s, rc)
           F(rc) == FdAfterWrite(f, s, rc)
           ok(rc) == W(rc).list # "none"
           T(rc, r) == IF ok(rc) THEN flush_outgoing(W(rc), r.n, r.eof) ELSE W(rc)
           G(rc, r) == IF ok(rc) THEN FdAfterRead(F(rc), r.n) ELSE F(rc)
           last(rc, r) == IF ok(rc) THEN outgoing_packets(i, W(rc), F(rc), r.n, r.eof)
                          ELSE <<>>
<1>1. GoodSocket(s) /\ GoodFd(f) /\ s \in Socket /\ s.list # "none"
  BY DEF Sockets, WriteReadEvent, Exists
<1>2. PICK rc \in WriteOutcomes(f, s, 1), r \in ReadOutcomes(f) :
         /\ sock' = [sock EXCEPT ![e][i] = T(rc, r)]
         /\ fd' = [fd EXCEPT ![e][i] = G(rc, r)]
         /\ Sends(e, flush_ack(e, i, s, rc) \o last(rc, r))
  BY Zenon DEF WriteReadEvent
<1>3. rc \in {WriteFails} \cup 0..Len(s.packet_queue)
  BY <1>1 DEF WriteOutcomes, Socket
<1> HIDE DEF s, f
<1>4. GoodSocket(W(rc)) /\ W(rc) \in Socket
  BY <1>1, <1>3, FlushIncomingGood DEF GoodSocket
<1>5. GoodFd(F(rc)) /\ F(rc) \in FdEnd /\ F(rc).left = f.left /\ F(rc).taken = f.taken
  BY <1>1, <1>3, FdGood DEF GoodFd
<1>6. r \in ReadOutcomes(F(rc))
  BY <1>5 DEF ReadOutcomes, Hangup
<1> HIDE DEF W, F
<1>7. r.n \in Nat /\ r.eof \in BOOLEAN /\ F(rc).taken + r.n <= MaxBytes
  BY <1>5, <1>6, ReadOutcomeTypes
<1>8. GoodSocket(T(rc, r))
  BY <1>4, <1>7, FlushOutgoingGood
<1>9. GoodFd(G(rc, r))
  BY <1>5, <1>6, FdGood
<1>10. flush_ack(e, i, s, rc) \o last(rc, r) \in Seq(Packet)
  <2>1. flush_ack(e, i, s, rc) \in Seq(Packet)
    BY <1>1, <1>3, AnswerTypes
  <2>2. last(rc, r) \in Seq(Packet)
    BY <1>4, <1>5, <1>7, OutgoingTypes
  <2> QED
    BY <2>1, <2>2, ConcatProperties
<1> HIDE DEF T, G, last
<1> QED
  BY <1>2, <1>8, <1>9, <1>10, OneSocket, ChannelSteps, Zenon DEF Channels

\* A new descriptor.
LEMMA NewFdGood == \A g \in Generation, a \in BOOLEAN : GoodFd(NewFd(g, a))
BY ConstantsAssumption DEF NewFd, GoodFd, FdEnd, Open

\* The next id is an id of the model while the bound is not reached.
LEMMA NextIdType ==
    ASSUME Control, NEW e \in End, nextId[e] <= IdLimit(e)
    PROVE  /\ nextId[e] \in Id
           /\ [nextId EXCEPT ![e] = @ + 1] \in [End -> 1..(MaxId + 1)]
<1>1. nextId[e] \in 1..(MaxId + 1) /\ IdLimit(e) \in 0..MaxId
  BY ConstantsAssumption DEF Control, IdLimit
<1>2. nextId[e] \in Id /\ nextId[e] + 1 \in 1..(MaxId + 1)
  BY <1>1, ConstantsAssumption DEF Id
<1> QED
  BY <1>2 DEF Control

\* A client connects.
LEMMA ConnectStep ==
    ASSUME Control, Sockets, Channels, NEW e \in End, connect_to_remote(e)
    PROVE  Control' /\ Sockets' /\ Channels'
<1> DEFINE i == nextId[e]
           t == [create_local_socket EXCEPT !.delayed = tr[e].delayedAck]
           n == IF tr[e].delayedAck THEN Window ELSE 0
<1>1. i \in Id /\ nextId' \in [End -> 1..(MaxId + 1)]
  BY NextIdType DEF connect_to_remote
<1>2. Control'
  BY <1>1 DEF Control, connect_to_remote
<1>3. GoodSocket(t)
  BY NewSockets, Zenon DEF GoodSocket, Socket, Control
<1>4. GoodFd(NewFd(restarts, FALSE))
  BY NewFdGood, Zenon DEF Control
<1>5. <<send_open(i, n)>> \in Seq(Packet)
  BY <1>1, PacketTypes DEF Control
<1>6. /\ sock' = [sock EXCEPT ![e][i] = t]
      /\ fd' = [fd EXCEPT ![e][i] = NewFd(restarts, FALSE)]
      /\ Sends(e, <<send_open(i, n)>>)
  BY DEF connect_to_remote
<1> HIDE DEF i, t, n
<1> QED
  BY <1>1, <1>2, <1>3, <1>4, <1>5, <1>6, OneSocket, ChannelSteps, Zenon DEF Channels

\* The fields of the packet at the head of a channel.
LEMMA HeadTypes ==
    ASSUME Channels, NEW e \in End
    PROVE  LET p == Head(chan[e]) IN
           /\ \A c : Receives(e, c) => chan[e] # <<>> /\ p \in Packet /\ p.cmd = c
           /\ Receives(e, "OPEN") =>
                 p.arg0 \in Id /\ p.arg1 \in {0, Window} /\ p.gen \in Generation
           /\ Receives(e, "OKAY") =>
                 p.arg0 \in Id /\ p.arg1 \in Id /\ p.ack \in Nat \cup {NoAck}
           /\ Receives(e, "CLSE") => p.arg0 \in PeerId /\ p.arg1 \in Id
           /\ Receives(e, "WRTE") => p.arg0 \in Id /\ p.arg1 \in Id /\ p.data \in Seq(Byte)
           /\ Receives(e, "CNXN") => p.delayedAck \in BOOLEAN
<1> DEFINE p == Head(chan[e])
<1>1. chan[e] # <<>> => p \in Packet
  BY HeadTailProperties DEF Channels
<1> HIDE DEF p
<1> QED
  BY <1>1, ZenonT(30) DEF Receives, Packet, p

\* A packet whose handler only answers.
LEMMA IgnoredStep ==
    ASSUME Control, Sockets, Channels, NEW e \in End, NEW out \in Seq(Packet),
           chan[e] # <<>>, Ignored(e, out)
    PROVE  Control' /\ Sockets' /\ Channels'
BY ChannelSteps DEF Ignored, Control, Sockets, Channels

\* A_OPEN.
LEMMA OpenStep ==
    ASSUME Control, Sockets, Channels, NEW e \in End,
           OpenRefused(e) \/ OpenAccepted(e)
    PROVE  Control' /\ Sockets' /\ Channels'
<1> DEFINE p == Head(chan[e])
           i == nextId[e]
<1>1. chan[e] # <<>> /\ p.arg0 \in Id /\ p.arg1 \in {0, Window} /\ p.gen \in Generation
  BY HeadTypes, Zenon DEF OpenRefused, OpenAccepted
<1>2. CASE OpenRefused(e)
  <2>1. <<send_close(0, p.arg0)>> \in Seq(Packet)
    BY <1>1, PacketTypes, NoPeer
  <2> QED
    BY <1>1, <1>2, <2>1, IgnoredStep, Zenon DEF OpenRefused
<1>3. CASE OpenAccepted(e)
  <2> DEFINE t == [create_local_socket EXCEPT !.peer = p.arg0, !.read = TRUE,
                      !.delayed = tr[e].delayedAck, !.available = p.arg1]
  <2>1. i \in Id /\ nextId' \in [End -> 1..(MaxId + 1)]
    BY <1>3, NextIdType DEF OpenAccepted
  <2>2. Control'
    BY <1>3, <2>1 DEF Control, OpenAccepted
  <2>3. GoodSocket(t)
    <3>1. p.arg0 \in PeerId /\ p.arg1 \in Int /\ tr[e].delayedAck \in BOOLEAN
      BY <1>1, NoPeer, ConstantsAssumption DEF Control
    <3>2. create_local_socket \in Socket /\ create_local_socket.list = "local"
      BY NewSockets DEF create_local_socket, GoodSocket, NoSocket
    <3> HIDE DEF p
    <3> QED
      BY <3>1, <3>2, NewSockets, Zenon DEF GoodSocket, Socket
  <2>4. GoodFd(NewFd(p.gen, TRUE))
    BY <1>1, NewFdGood, Zenon
  <2>5. <<send_ready(e, i, p.arg0, Window)>> \in Seq(Packet)
    BY <1>1, <2>1, PacketTypes, ConstantsAssumption
  <2>6. /\ sock' = [sock EXCEPT ![e][i] = t]
        /\ fd' = [fd EXCEPT ![e][i] = NewFd(p.gen, TRUE)]
        /\ HandledWith(e, <<send_ready(e, i, p.arg0, Window)>>)
    BY <1>3 DEF OpenAccepted
  <2> HIDE DEF i, t, p
  <2>7. Sockets'
    BY <2>1, <2>3, <2>4, <2>6, OneSocket, Zenon
  <2> QED
    BY <1>1, <2>2, <2>5, <2>6, <2>7, ChannelSteps, Zenon DEF Channels
<1> QED
  BY <1>2, <1>3

\* A_OKAY.
LEMMA OkayStep ==
    ASSUME Control, Sockets, Channels, NEW e \in End, OkayKnown(e) \/ OkayUnknown(e)
    PROVE  Control' /\ Sockets' /\ Channels'
<1> DEFINE p == Head(chan[e])
           i == p.arg1
           s == sock[e][i]
<1>1. chan[e] # <<>> /\ p.arg0 \in Id /\ i \in Id /\ p.ack \in Nat \cup {NoAck}
  BY HeadTypes, Zenon DEF OkayKnown, OkayUnknown
<1>2. CASE OkayUnknown(e)
  <2>1. <<send_close(p.arg1, p.arg0)>> \in Seq(Packet)
    BY <1>1, PacketTypes, NoPeer
  <2> QED
    BY <1>1, <1>2, <2>1, IgnoredStep, Zenon DEF OkayUnknown
<1>3. CASE OkayKnown(e)
  <2> DEFINE a == local_socket_ack(s, p.ack)
             c == [a EXCEPT !.peer = p.arg0, !.read = TRUE]
             t == IF s.peer = 0 THEN c ELSE IF s.peer = p.arg0 THEN a ELSE s
  <2>1. GoodSocket(s) /\ s.list = "local"
    BY <1>1, <1>3, ZenonT(30) DEF Sockets, OkayKnown, find_local_socket
  <2>2. GoodSocket(a) /\ a.list = "local"
    BY <1>1, <2>1, AckGood, Zenon
  <2>3. p.arg0 \in PeerId
    BY <1>1, NoPeer
  <2>4. /\ sock' = [sock EXCEPT ![e][i] = t]
        /\ fd' = fd /\ HandledWith(e, <<>>)
    BY <1>3, ZenonT(30) DEF OkayKnown
  <2> HIDE DEF p, a, s, i
  <2>5. GoodSocket(c)
    BY <2>2, <2>3, Zenon DEF GoodSocket, Socket
  <2>6. GoodSocket(t)
    BY <2>1, <2>2, <2>5
  <2> HIDE DEF c, t
  <2>7. Sockets'
    BY <1>1, <2>4, <2>6, OneSocketOnly, Zenon
  <2>8. Channels'
    BY <1>1, <2>4, ChannelSteps, <<>> \in Seq(Packet), Zenon DEF Channels
  <2> QED
    BY <1>3, <2>7, <2>8, ZenonT(30) DEF OkayKnown, Control
<1> QED
  BY <1>2, <1>3

\* A_CLSE for a known socket.
LEMMA ClseStep ==
    ASSUME Control, Sockets, Channels, NEW e \in End, ClseKnown(e)
    PROVE  Control' /\ Sockets' /\ Channels'
<1> DEFINE p == Head(chan[e])
           i == p.arg1
           s == sock[e][i]
<1>1. chan[e] # <<>> /\ i \in Id
  BY HeadTypes DEF ClseKnown
<1>2. GoodSocket(s) /\ s.list = "local" /\ s \in Socket
  BY <1>1, ZenonT(30) DEF Sockets, ClseKnown, find_local_socket
<1>3. GoodSocket(local_socket_close(s))
  BY <1>2, CloseGood
<1>4. remote_socket_shutdown(i, s) \in Seq(Packet)
  <2>1. WriteFails \in {WriteFails} \cup 0..Len(s.packet_queue)
    OBVIOUS
  <2> QED
    BY <1>1, <1>2, <2>1, AnswerTypes, Zenon
<1>5. /\ sock' = [sock EXCEPT ![e][i] = local_socket_close(s)]
      /\ fd' = fd /\ HandledWith(e, remote_socket_shutdown(i, s))
      /\ UNCHANGED <<tr, nextId, hostAck, restarts>>
  BY DEF ClseKnown
<1> HIDE DEF p, i, s
<1>6. Sockets'
  BY <1>1, <1>3, <1>5, OneSocketOnly, Zenon
<1>7. Channels'
  BY <1>1, <1>4, <1>5, ChannelSteps DEF Channels
<1> QED
  BY <1>5, <1>6, <1>7 DEF Control

\* A_WRTE for a known socket.
LEMMA WrteStep ==
    ASSUME Control, Sockets, Channels, NEW e \in End, WrteKnown(e)
    PROVE  Control' /\ Sockets' /\ Channels'
<1> DEFINE p == Head(chan[e])
           i == p.arg1
           q == sock[e][i].packet_queue \o p.data
           s == [sock[e][i] EXCEPT !.packet_queue = q]
           f == fd[e][i]
<1>1. chan[e] # <<>> /\ i \in Id /\ p.data \in Seq(Byte)
  BY HeadTypes, Zenon DEF WrteKnown
<1>2. GoodSocket(sock[e][i]) /\ sock[e][i] \in Socket /\ sock[e][i].list = "local" /\ GoodFd(f)
  BY <1>1, ZenonT(40) DEF Sockets, WrteKnown, find_local_socket
<1>3. q \in Seq(Byte)
  BY <1>1, <1>2, ConcatProperties, ZenonT(30) DEF Socket
<1>4. PICK rc \in WriteOutcomes(f, s, 0) :
         /\ sock' = [sock EXCEPT ![e][i] = flush_incoming(s, rc)]
         /\ fd' = [fd EXCEPT ![e][i] = FdAfterWrite(f, s, rc)]
         /\ HandledWith(e, flush_ack(e, i, s, rc))
  BY <1>1, Zenon DEF WrteKnown, Sockets
<1>5. s \in Socket /\ s.list = "local"
  <2> HIDE DEF q, p, i
  <2> QED
    BY <1>2, <1>3 DEF Socket
<1>6. rc \in {WriteFails} \cup 0..Len(s.packet_queue)
  BY <1>5, Zenon DEF WriteOutcomes
<1>7. Control'
  BY Zenon DEF WrteKnown, Control
<1> HIDE DEF s, f, p, i
<1>8. GoodSocket(flush_incoming(s, rc))
  BY <1>5, <1>6, FlushIncomingGood
<1>9. GoodFd(FdAfterWrite(f, s, rc))
  BY <1>2, <1>5, <1>6, FdGood
<1>10. flush_ack(e, i, s, rc) \in Seq(Packet)
  BY <1>1, <1>5, <1>6, AnswerTypes
<1>11. Sockets'
  BY <1>1, <1>4, <1>8, <1>9, OneSocket, Zenon
<1>12. Channels'
  BY <1>1, <1>4, <1>10, ChannelSteps DEF Channels
<1> QED
  BY <1>7, <1>11, <1>12

\* Packets that are dropped.
LEMMA DroppedStep ==
    ASSUME Control, Sockets, Channels, NEW e \in End,
           UnknownDropped(e) \/ OfflineDropped(e)
    PROVE  Control' /\ Sockets' /\ Channels'
<1>1. chan[e] # <<>> /\ Ignored(e, <<>>) /\ <<>> \in Seq(Packet)
  BY DEF UnknownDropped, OfflineDropped, Receives
<1> QED
  BY <1>1, IgnoredStep, Zenon

\* The A_CLSE packets of close_all_sockets.
LEMMA ShutdownTypes ==
    ASSUME Sockets, NEW e \in End, NEW out \in all_shutdowns(e)
    PROVE  out \in Seq(Packet)
<1> DEFINE ids == {i \in Id : tr[e].online /\ sock[e][i].peer # 0}
           n   == Cardinality(ids)
<1>1. n \in Nat
  <2>1. IsFiniteSet(Id)
    BY FS_Interval, ConstantsAssumption DEF Id
  <2> QED
    BY <2>1, FS_Subset, FS_CardinalityType
<1>2. PICK f \in [1..n -> ids] :
         out = [k \in 1..n |-> send_close(f[k], sock[e][f[k]].peer)]
  BY Zenon DEF all_shutdowns
<1>3. \A i \in ids : i \in PeerId /\ sock[e][i].peer \in Id
  BY NoPeer, ConstantsAssumption DEF Sockets, Socket, PeerId, Id
<1> HIDE DEF n, ids
<1>4. \A k \in 1..n : send_close(f[k], sock[e][f[k]].peer) \in Packet
  BY <1>3, PacketTypes
<1> QED
  BY <1>1, <1>2, <1>4

\* A_CNXN.
LEMMA CnxnStep ==
    ASSUME Control, Sockets, Channels, NEW e \in End, handle_new_connection(e)
    PROVE  Control' /\ Sockets' /\ Channels'
<1> DEFINE f == Head(chan[e]).delayedAck
           reply == IF e = "device" THEN <<send_connect(TRUE)>> ELSE <<>>
<1>1. chan[e] # <<>> /\ f \in BOOLEAN
  BY HeadTypes, ZenonT(30) DEF handle_new_connection
<1>2. CanUseDelayedAck(e, f) \in BOOLEAN
  BY DEF CanUseDelayedAck
<1>3. Control'
  BY <1>2 DEF handle_new_connection, Control
<1>4. Sockets'
  <2>1. close_all_sockets(e) \in [Id -> Socket]
        /\ \A i \in Id : GoodSocket(close_all_sockets(e)[i])
    <3>1. \A i \in Id : GoodSocket(sock[e][i])
      BY DEF Sockets
    <3>2. \A i \in Id : sock[e][i].list = "local" => GoodSocket(local_socket_close(sock[e][i]))
      BY <3>1, CloseGood
    <3>3. \A i \in Id : GoodSocket(close_all_sockets(e)[i])
      BY <3>1, <3>2 DEF close_all_sockets
    <3> QED
      BY <3>3, Zenon DEF close_all_sockets, GoodSocket
  <2> DEFINE all == IF tr[e].online THEN close_all_sockets(e) ELSE sock[e]
  <2>2. all \in [Id -> Socket] /\ \A i \in Id : GoodSocket(all[i])
    BY <2>1 DEF Sockets
  <2>3. sock' = [sock EXCEPT ![e] = all] /\ fd' = fd
    BY DEF handle_new_connection
  <2> HIDE DEF all
  <2> QED
    BY <2>2, <2>3 DEF Sockets
<1>5. Channels'
  <2>1. PICK out \in all_shutdowns(e) : HandledWith(e, out \o reply)
    BY DEF handle_new_connection
  <2>2. reply \in Seq(Packet)
    <3> DEFINE c == send_connect(TRUE)
    <3>1. c \in Packet
      BY PacketTypes, Zenon
    <3> HIDE DEF c
    <3>2. <<c>> \in Seq(Packet) /\ <<>> \in Seq(Packet)
      BY <3>1
    <3> USE DEF c
    <3>3. CASE e = "device"
      BY <3>2, <3>3, Zenon
    <3>4. CASE e # "device"
      BY <3>2, <3>4
    <3> QED
      BY <3>3, <3>4, Zenon
  <2>3. out \o reply \in Seq(Packet)
    BY <2>2, ShutdownTypes, ConcatProperties, Zenon
  <2> HIDE DEF reply
  <2> QED
    BY <1>1, <2>1, <2>3, ChannelSteps, Zenon DEF Channels
<1> QED
  BY <1>3, <1>4, <1>5

\* The applications and the device's transport.
LEMMA EnvironmentStep ==
    ASSUME Control, Sockets, Channels,
           \/ CancelWrites
           \/ \E e \in End, i \in Id : AppShutsWrite(e, i) \/ AppShutsRead(e, i)
    PROVE  Control' /\ Sockets' /\ Channels'
<1>1. CASE CancelWrites
  <2>1. Tail(chan["host"]) \in Seq(Packet)
    BY <1>1, HeadTailProperties DEF CancelWrites, Channels, End
  <2> QED
    BY <1>1, <2>1, Zenon DEF CancelWrites, Control, Sockets, Channels
<1>2. ASSUME NEW e \in End, NEW i \in Id, AppShutsWrite(e, i) \/ AppShutsRead(e, i)
      PROVE  Control' /\ Sockets' /\ Channels'
  <2> DEFINE s == sock[e][i]
             f == fd[e][i]
  <2>1. GoodSocket(s) /\ GoodFd(f) /\ sock' = [sock EXCEPT ![e][i] = s]
    BY <1>2 DEF Sockets, AppShutsWrite, AppShutsRead
  <2>2. PICK g : GoodFd(g) /\ fd' = [fd EXCEPT ![e][i] = g]
    <3>1. CASE AppShutsWrite(e, i)
      <4>1. PICK k \in 0..(MaxBytes - f.taken) : fd' = [fd EXCEPT ![e][i].left = k]
        BY <3>1, Zenon DEF AppShutsWrite
      <4>2. f.taken \in 0..MaxBytes /\ k \in 0..MaxBytes /\ f.taken + k <= MaxBytes
        BY <2>1, <4>1, ConstantsAssumption DEF GoodFd, FdEnd
      <4>3. fd' = [fd EXCEPT ![e][i] = [f EXCEPT !.left = k]]
        BY <4>1 DEF Sockets
      <4> HIDE DEF f
      <4>4. GoodFd([f EXCEPT !.left = k])
        BY <2>1, <4>2 DEF GoodFd, FdEnd
      <4> QED
        BY <4>3, <4>4, Zenon
    <3>2. CASE AppShutsRead(e, i)
      <4>1. fd' = [fd EXCEPT ![e][i] = [f EXCEPT !.deaf = TRUE]]
        BY <3>2 DEF AppShutsRead, Sockets
      <4> HIDE DEF f
      <4>2. GoodFd([f EXCEPT !.deaf = TRUE])
        BY <2>1, Zenon DEF GoodFd, FdEnd
      <4> QED
        BY <4>1, <4>2, Zenon
    <3> QED
      BY <1>2, <3>1, <3>2
  <2> HIDE DEF s
  <2>3. Sockets'
    BY <2>1, <2>2, OneSocket, Zenon
  <2> QED
    BY <1>2, <2>3 DEF AppShutsWrite, AppShutsRead, Control, Channels
<1> QED
  BY <1>1, <1>2

\* A restart of the host server.
LEMMA RestartStep ==
    ASSUME Control, Sockets, Channels, HostRestarts
    PROVE  Control' /\ Sockets' /\ Channels'
<1>1. "host" \in End /\ "device" \in End
  BY DEF End
<1>2. restarts + 1 \in Generation /\ 1 \in 1..(MaxId + 1)
  BY ConstantsAssumption DEF Control, HostRestarts, Generation
<1>3. OfflineTransport \in [online : BOOLEAN, delayedAck : BOOLEAN]
  BY DEF OfflineTransport
<1>4. hostAck' \in BOOLEAN
  BY ConstantsAssumption DEF HostRestarts
<1>5. Control'
  BY <1>2, <1>3, <1>4, Zenon DEF HostRestarts, Control
<1>6. Sockets'
  <2>1. GoodSocket(NoSocket) /\ GoodFd(NewFd(restarts + 1, FALSE))
    BY <1>2, NewSockets, NewFdGood, Zenon
  <2> DEFINE ss == [i \in Id |-> NoSocket]
             ff == [i \in Id |-> NewFd(restarts + 1, FALSE)]
  <2>2. /\ ss \in [Id -> Socket] /\ ff \in [Id -> FdEnd]
        /\ \A i \in Id : GoodSocket(ss[i]) /\ GoodFd(ff[i])
    BY <2>1, Zenon DEF GoodSocket, GoodFd
  <2>3. sock' = [sock EXCEPT !["host"] = ss] /\ fd' = [fd EXCEPT !["host"] = ff]
    BY DEF HostRestarts
  <2> HIDE DEF ss, ff
  <2> QED
    BY <1>1, <2>2, <2>3 DEF Sockets
<1>7. Channels'
  <2>1. PICK k \in 0..Len(chan["host"]), m \in 0..Len(chan["device"]) :
           chan' = [chan EXCEPT
                      !["host"] = SubSeq(@, k + 1, Len(@)),
                      !["device"] = Append(SubSeq(@, 1, m), send_connect(hostAck'))]
    BY Zenon DEF HostRestarts
  <2> DEFINE h == SubSeq(chan["host"], k + 1, Len(chan["host"]))
             d == SubSeq(chan["device"], 1, m)
  <2>2. chan["host"] \in Seq(Packet) /\ chan["device"] \in Seq(Packet)
    BY <1>1 DEF Channels
  <2>3. h \in Seq(Packet) /\ d \in Seq(Packet)
    BY <2>2, SubSeqProperties, LenProperties
  <2>4. send_connect(hostAck') \in Packet
    BY <1>4, PacketTypes
  <2>5. Append(d, send_connect(hostAck')) \in Seq(Packet)
    BY <2>3, <2>4, AppendProperties
  <2>6. chan' = [chan EXCEPT !["host"] = h,
                             !["device"] = Append(d, send_connect(hostAck'))]
    BY <2>1
  <2> HIDE DEF h, d
  <2> QED
    BY <1>1, <2>3, <2>5, <2>6, Zenon DEF Channels
<1> QED
  BY <1>5, <1>6, <1>7

-----------------------------------------------------------------------------
(* The theorems.                                                           *)

\* The initial states satisfy the invariant.
LEMMA InitIInv == Init => IInv
<1> SUFFICES ASSUME Init PROVE Control /\ Sockets /\ Channels
  BY IInvParts
<1>1. Control
  <2>1. hostAck \in BOOLEAN /\ 0 \in Generation /\ 1 \in 1..(MaxId + 1)
    BY ConstantsAssumption DEF Init, Generation
  <2>2. OfflineTransport \in [online : BOOLEAN, delayedAck : BOOLEAN]
    BY DEF OfflineTransport
  <2> QED
    BY <2>1, <2>2 DEF Init, Control
<1>2. Sockets
  <2>1. 0 \in Generation
    BY ConstantsAssumption DEF Generation
  <2>2. GoodSocket(NoSocket) /\ GoodFd(NewFd(0, FALSE))
    BY <2>1, NewSockets, NewFdGood, Zenon
  <2> QED
    BY <2>2, ZenonT(60) DEF Init, Sockets, GoodSocket, GoodFd
<1>3. Channels
  <2>1. hostAck \in BOOLEAN
    BY ConstantsAssumption DEF Init
  <2>2. send_connect(hostAck) \in Packet
    BY <2>1, PacketTypes
  <2>3. <<send_connect(hostAck)>> \in Seq(Packet) /\ <<>> \in Seq(Packet)
    BY <2>2
  <2> QED
    BY <2>3 DEF Init, Channels
<1> QED
  BY <1>1, <1>2, <1>3

\* Every step, by either looper, an application or a restart, preserves it.
LEMMA NextIInv == IInv /\ [Next]_vars => IInv'
<1> SUFFICES ASSUME Control, Sockets, Channels, [Next]_vars
             PROVE  Control' /\ Sockets' /\ Channels'
  <2>1. IInv' <=> (Control /\ Sockets /\ Channels)'
    BY IInvParts, PTL
  <2> QED
    BY <2>1, IInvParts
<1>1. ASSUME NEW e \in End, HandlePacket(e)
      PROVE  Control' /\ Sockets' /\ Channels'
  BY <1>1, OpenStep, OkayStep, ClseStep, WrteStep, DroppedStep, CnxnStep
     DEF HandlePacket
<1>2. ASSUME NEW e \in End, connect_to_remote(e)
      PROVE  Control' /\ Sockets' /\ Channels'
  BY <1>2, ConnectStep
<1>3. ASSUME NEW e \in End, NEW i \in Id,
             WriteEvent(e, i) \/ ReadEvent(e, i) \/ WriteReadEvent(e, i)
      PROVE  Control' /\ Sockets' /\ Channels'
  <2>1. Sockets' /\ Channels'
    BY <1>3, WriteEventStep, ReadEventStep, WriteReadEventStep
  <2>2. Control'
    BY <1>3, Zenon DEF WriteEvent, ReadEvent, WriteReadEvent, Control
  <2> QED
    BY <2>1, <2>2
<1>4. CASE UNCHANGED vars
  BY <1>4 DEF vars, Control, Sockets, Channels
<1> QED
  BY <1>1, <1>2, <1>3, <1>4, EnvironmentStep, RestartStep DEF Next

\* The inductive invariant holds for ever.
THEOREM Invariance == Spec => []IInv
BY InitIInv, NextIInv, PTL DEF Spec

\* Every variable keeps its type: ids, windows and packets stay well formed
\* through every handler and event of both ends.
THEOREM TypeCorrect == Spec => []TypeOK
<1>1. IInv => TypeOK
  BY DEF IInv
<1> QED
  BY <1>1, Invariance, PTL

\* The CHECK_EQ at the end of local_socket_close never fails, and a socket on
\* the closing list always has data, FDE_WRITE and nothing else to wait for.
THEOREM ClosingCheckHolds == Spec => []ClosingWaitsForWrite
<1>1. IInv => ClosingWaitsForWrite
  BY DEF IInv
<1> QED
  BY <1>1, Invariance, PTL

=============================================================================
