---------------------------- MODULE FastbootUdp ----------------------------
(***************************************************************************)
(* fastboot's UDP transport (system/core/fastboot/udp.cpp): one packet is  *)
(* outstanding, a packet without an answer is sent again, and a 16-bit     *)
(* number pairs answers with packets.  The program may be stopped and      *)
(* started again at any moment.                                            *)
(*                                                                         *)
(* The target is a boot loader, outside this repository: it is modelled    *)
(* from the answers the host's code expects of it.  The network loses,     *)
(* delays, reorders and repeats datagrams.                                 *)
(***************************************************************************)
EXTENDS Integers

CONSTANTS
  SeqMod,             \* how many sequence numbers there are: 65536 in the code
  Lifetime,           \* a datagram is gone when the target has executed this many more packets
  ConnectAttempts,    \* kMaxConnectAttempts
  TransmitAttempts,   \* kMaxTransmissionAttempts
  MaxChunks,          \* bound: packets of one Write
  MaxSessions,        \* bound: how often the program is started
  MaxPackets          \* bound: packets sent in all, retransmissions apart

ASSUME UdpAssumption ==
  /\ SeqMod \in Nat /\ Lifetime \in Nat \ {0} /\ Lifetime < SeqMod
  /\ ConnectAttempts \in Nat \ {0} /\ TransmitAttempts \in Nat \ {0}
  /\ MaxChunks \in Nat \ {0} /\ MaxSessions \in Nat /\ MaxPackets \in Nat

VARIABLES
  host,     \* the UdpTransport and the call it is in
  target,   \* the boot loader
  net,      \* datagrams that may still arrive, any number of times or never
  issued,   \* history: packets sent so far, retransmissions apart
  receive   \* socket_->Receive: "open", or "again" when a datagram that did not
            \* match has just given it its whole timeout back

vars == <<host, target, net, issued, receive>>

Ids == {"query", "init", "fastboot", "error"}

(* num and op are history: num is the sequence number before it is cut to  *)
(* 16 bits, op tells apart the packets the host made.  An answer has the   *)
(* op of the packet it was made for.  data is what a query answer tells.   *)
Datagram ==
  [to : {"target", "host"}, port : Nat, id : Ids, cont : BOOLEAN,
   seq : 0 .. SeqMod - 1, num : Nat, op : Nat, data : Nat]

NoReply == [none |-> TRUE]

HostState ==
  [pc : {"down", "idle", "wait"}, session : Nat, call : {"connect", "write", "read"},
   id : Ids, cont : BOOLEAN, sequence : Nat, num : Nat, op : Nat, left : Nat,
   attempts : Nat, sound : BOOLEAN]

TargetState == [next : Nat, saved : Datagram \cup {NoReply}, last : Nat, lastId : Ids]

Init ==
  /\ host = [pc |-> "down", session |-> 0, call |-> "connect", id |-> "query", cont |-> FALSE,
             sequence |-> 0, num |-> 0, op |-> 0, left |-> 0, attempts |-> 0, sound |-> TRUE]
  /\ target = [next |-> 0, saved |-> NoReply, last |-> 0, lastId |-> "query"]
  /\ net = {}
  /\ issued = 0
  /\ receive = "open"

----------------------------------------------------------------------------
(* The host. *)

(* Header::Set and socket_->Send: the number is cut to the width of the    *)
(* field.                                                                  *)
Send(h) ==
  [to |-> "target", port |-> h.session, id |-> h.id, cont |-> h.cont,
   seq |-> h.sequence % SeqMod, num |-> h.num, op |-> h.op, data |-> 0]

Attempts(call) == IF call = "connect" THEN ConnectAttempts ELSE TransmitAttempts

(* A pass of SendSinglePacketHelper's loop with a new packet. *)
SendNew(h) ==
  LET h1 == [h EXCEPT !.pc = "wait", !.op = issued + 1]
  IN  /\ issued < MaxPackets
      /\ issued' = issued + 1
      /\ host' = h1
      /\ net' = net \cup {Send(h1)}
      /\ receive' = "open"
      /\ UNCHANGED target

(* The end of the process closes its port. *)
Ends(h) ==
  /\ host' = [h EXCEPT !.pc = "down"]
  /\ net' = {d \in net : d.to = "target"}
  /\ receive' = "open"
  /\ UNCHANGED <<target, issued>>

(* Connect: a new process with a new socket, and so with a new port, asks  *)
(* the target for its sequence number.                                     *)
Connect ==
  /\ host.pc = "down" /\ host.session < MaxSessions
  /\ SendNew([host EXCEPT !.session = @ + 1, !.call = "connect", !.id = "query", !.cont = FALSE,
                          !.sequence = 0, !.num = target.next, !.left = 1,
                          !.attempts = ConnectAttempts, !.sound = TRUE])

(* SendData: a chunk carries the continuation flag if more follow. *)
Chunk(h, call, k) ==
  [h EXCEPT !.call = call, !.id = "fastboot", !.cont = k > 1, !.left = k,
            !.attempts = TransmitAttempts]

Write ==
  /\ host.pc = "idle"
  /\ \E k \in 1 .. MaxChunks : SendNew(Chunk(host, "write", k))

Read ==
  /\ host.pc = "idle"
  /\ SendNew(Chunk(host, "read", 1))

(* Mutant: an answer to another kind of packet is taken. *)
MatchesNumber(h, d) == d.seq = h.sequence % SeqMod

Matches(h, d) ==
  /\ d.seq = h.sequence % SeqMod
  /\ d.id \in {h.id, "error"}

(* A matching answer. ++sequence_ counts every answer; what a query tells  *)
(* replaces the count.                                                     *)
Answered(h, d) ==
  IF h.id = "query" /\ d.id = "query"
  THEN [h EXCEPT !.sequence = d.data % SeqMod, !.num = d.data]
  ELSE [h EXCEPT !.sequence = @ + 1, !.num = @ + 1]

Arrives(d) == host.pc = "wait" /\ d \in net /\ d.to = "host" /\ d.port = host.session

Accept(d) == Arrives(d) /\ Matches(host, d)

(* Mutant: the packet that asks for the rest has the old number. *)
AcceptMoreUncounted(d) ==
  /\ Accept(d) /\ d.cont
  /\ SendNew([host EXCEPT !.id = d.id, !.cont = FALSE, !.attempts = Attempts(host.call)])

(* The answer is to be continued: an empty packet asks for the rest. *)
AcceptMore(d) ==
  /\ Accept(d) /\ d.cont
  /\ SendNew([Answered(host, d) EXCEPT !.id = d.id, !.cont = FALSE,
                                       !.attempts = Attempts(host.call)])

Returns(h) ==
  /\ host' = [h EXCEPT !.pc = "idle"]
  /\ receive' = "open"
  /\ UNCHANGED <<target, net, issued>>

(* A failed call leaves the transport as it is; if it is one of            *)
(* InitializeProtocol there is no transport and the program ends.          *)
Fails(h) == IF host.call = "connect" THEN Ends(h) ELSE Returns(h)

(* The target reports an error. *)
AcceptError(d) ==
  /\ Accept(d) /\ ~d.cont /\ d.id = "error"
  /\ Fails(Answered(host, d))

(* The query is answered: InitializeProtocol goes on with the number told. *)
AcceptQuery(d) ==
  /\ Accept(d) /\ ~d.cont /\ d.id = "query"
  /\ SendNew([Answered(host, d) EXCEPT !.id = "init", !.attempts = TransmitAttempts])

(* The initialization is answered, with values the host accepts or not. *)
AcceptInit(d) ==
  /\ Accept(d) /\ ~d.cont /\ d.id = "init"
  /\ Returns(Answered(host, d)) \/ Fails(Answered(host, d))

(* A chunk is answered and was not the last one. *)
AcceptChunk(d) ==
  /\ Accept(d) /\ ~d.cont /\ d.id = "fastboot" /\ host.left > 1
  /\ SendNew(Chunk(Answered(host, d), host.call, host.left - 1))

(* Mutant: the last answer of a call is not counted. *)
AcceptLastUncounted(d) ==
  /\ Accept(d) /\ ~d.cont /\ d.id = "fastboot" /\ host.left = 1
  /\ Returns(host)

(* The last packet of a Read or Write is answered.  Whether the call then  *)
(* finds too much data in the answers makes no difference to the transport. *)
AcceptLast(d) ==
  /\ Accept(d) /\ ~d.cont /\ d.id = "fastboot" /\ host.left = 1
  /\ Returns(Answered(host, d))

(* Any other datagram is dropped, and Receive is called again with the     *)
(* whole timeout.                                                          *)
Discard(d) ==
  /\ Arrives(d) /\ ~Matches(host, d)
  /\ receive' = "again"
  /\ UNCHANGED <<host, target, net, issued>>

(* Time passes in a Receive that was called again. *)
Elapses ==
  /\ host.pc = "wait" /\ receive = "again"
  /\ receive' = "open"
  /\ UNCHANGED <<host, target, net, issued>>

(* The call returns -1 without an answer: the number is not counted.       *)
(* sound is history: no call of this session has given up so.              *)
GivesUp == Fails([host EXCEPT !.sound = FALSE])

(* Mutant: the attempts are not counted. *)
TimeoutUncounted ==
  /\ host.pc = "wait" /\ receive = "open"
  /\ \/ /\ host.attempts > 1
        /\ net' = net \cup {Send(host)}
        /\ receive' = "open"
        /\ UNCHANGED <<host, target, issued>>
     \/ host.attempts <= 1 /\ GivesUp

(* Receive times out: the packet is sent again or the call gives up. *)
Timeout ==
  /\ host.pc = "wait" /\ receive = "open"
  /\ \/ /\ host.attempts > 1
        /\ host' = [host EXCEPT !.attempts = @ - 1]
        /\ net' = net \cup {Send(host)}
        /\ receive' = "open"
        /\ UNCHANGED <<target, issued>>
     \/ host.attempts <= 1 /\ GivesUp

(* Send or Receive fails, or a datagram is shorter than a header. *)
SocketFails == host.pc = "wait" /\ GivesUp

(* The user stops the program, or it ends. *)
Stop ==
  /\ host.pc # "down"
  /\ Ends(host)

Host ==
  \/ Connect \/ Write \/ Read \/ Elapses \/ Timeout \/ SocketFails \/ Stop
  \/ \E d \in net : \/ AcceptMore(d) \/ AcceptError(d) \/ AcceptQuery(d)
                    \/ AcceptInit(d) \/ AcceptChunk(d) \/ AcceptLast(d) \/ Discard(d)

----------------------------------------------------------------------------
(* The target (external). *)

(* An answer has the number of the packet, and its id unless it is an      *)
(* error.  A query tells the next number.                                  *)
Reply(d, id, cont) ==
  [to |-> "host", port |-> d.port, id |-> id, cont |-> cont,
   seq |-> d.seq, num |-> d.num, op |-> d.op, data |-> target.next]

(* The network drops what is too old when the target moves on. *)
Younger(s, n) == {d \in s : n <= d.num + Lifetime}

Gets(d) == d \in net /\ d.to = "target"

TargetQuery(d) ==
  /\ Gets(d) /\ d.id = "query"
  /\ net' = net \cup {Reply(d, "query", FALSE)}
  /\ UNCHANGED <<host, target, issued, receive>>

TargetExecutes(d) ==
  /\ Gets(d) /\ d.id # "query" /\ d.seq = target.next % SeqMod
  /\ \E id \in {d.id, "error"}, cont \in BOOLEAN :
        /\ cont => d.id # "init"      \* what answers an initialization fits in one packet
        /\ target' = [next |-> target.next + 1, saved |-> Reply(d, id, cont),
                      last |-> d.op, lastId |-> d.id]
        /\ net' = Younger(net, target.next + 1) \cup {Reply(d, id, cont)}
  /\ UNCHANGED <<host, issued, receive>>

(* The packet before the next one: its answer was lost. *)
TargetRepeats(d) ==
  /\ Gets(d) /\ d.id # "query" /\ target.saved # NoReply
  /\ d.seq = (target.next - 1) % SeqMod
  /\ net' = net \cup {[target.saved EXCEPT !.port = d.port]}
  /\ UNCHANGED <<host, target, issued, receive>>

Target == \E d \in net : TargetQuery(d) \/ TargetExecutes(d) \/ TargetRepeats(d)

Next == Host \/ Target

(* Time passes, and Receive returns at its timeout unless a datagram comes *)
(* first: Timeout need not happen if one that does not match comes again   *)
(* and again.                                                              *)
Spec == Init /\ [][Next]_vars /\ WF_vars(Elapses) /\ WF_vars(Timeout)

----------------------------------------------------------------------------
(* Properties. *)

(* Types. *)
TypeOK ==
  /\ host \in HostState
  /\ target \in TargetState
  /\ net \subseteq Datagram
  /\ issued \in Nat
  /\ receive \in {"open", "again"}

(* The answer SendSinglePacketHelper takes is the answer to the packet it  *)
(* sent, which is the last one the target executed, unless an earlier call *)
(* of the session has given up.                                            *)
AnswerIsMine ==
  [][\A d \in net :
        (Accept(d) /\ host' # host /\ host.id = "fastboot" /\ d.id = "fastboot" /\ host.sound)
        => d.op = host.op /\ target.last = host.op]_vars

(* When InitializeProtocol succeeds an initialization is the last thing    *)
(* the target did: nothing of an earlier program is in progress.           *)
StartsClean ==
  [][host.pc = "wait" /\ host.call = "connect" /\ host'.pc = "idle" => target.lastId = "init"]_vars

(* The transport implements the exchange of packets the engine expects.    *)
Waiting == IF host.pc = "wait" /\ host.id = "fastboot" THEN host.op ELSE 0

Trusted == host.pc # "down" /\ host.sound

Exchange ==
  INSTANCE FastbootExchange
  WITH made <- issued, done <- target.last, waiting <- Waiting, trusted <- Trusted

ImplementsExchange == Exchange!Spec

(* A packet is answered or given up: SendSinglePacketHelper waits for one  *)
(* for ever only if datagrams that do not match come again and again,      *)
(* since each gives Receive its whole timeout back.  Nothing is said of a  *)
(* call as a whole, which lasts as long as the target continues.           *)
PacketSettles ==
  \A n \in 1 .. MaxPackets :
     <>[](host.pc = "wait" /\ host.op = n) => []<>(receive = "again")
=============================================================================
