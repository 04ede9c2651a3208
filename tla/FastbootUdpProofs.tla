------------------------- MODULE FastbootUdpProofs -------------------------
(***************************************************************************)
(* Proofs about FastbootUdp: for every number of sequence numbers and      *)
(* every shorter lifetime of datagrams, a call takes the answer to its own *)
(* packet, a session starts on a target that was initialized, and the      *)
(* transport implements FastbootExchange.                                  *)
(***************************************************************************)
EXTENDS FastbootUdp, TLAPS

----------------------------------------------------------------------------
(* The inductive invariant.                                                *)

Request(d) == d.to = "target" /\ d.id # "query"

(* No packet with the number the target expects is on its way. *)
Free == \A d \in net : Request(d) => d.num # target.next

(* A datagram is not older than its lifetime; a packet with the number     *)
(* expected is newer than all that were executed, and a numbered answer is *)
(* to an executed packet, to the last one if it has the last number.       *)
DatagramOK(d) ==
  /\ d.op <= issued /\ d.port <= host.session
  /\ d.num <= target.next /\ target.next <= d.num + Lifetime
  /\ d.id # "query" => d.seq = d.num % SeqMod
  /\ Request(d) /\ d.num = target.next => d.op > target.last
  /\ d.to = "host" /\ d.id # "query" =>
        /\ d.num < target.next
        /\ d.num = target.next - 1 => d.op = target.last /\ d.id \in {target.lastId, "error"}
  /\ d.to = "host" /\ d.id = "query" => ~d.cont /\ d.num <= d.data /\ d.data <= target.next

NetOK == \A d \in net : DatagramOK(d)

TargetOK ==
  /\ target.last <= issued
  /\ target.saved # NoReply =>
       /\ target.saved.to = "host" /\ target.saved.id # "query"
       /\ target.saved.num = target.next - 1
       /\ target.saved.seq = target.saved.num % SeqMod
       /\ target.saved.op = target.last
       /\ target.saved.id \in {target.lastId, "error"}

(* A number the host may use: the expected one, or the last one if nothing *)
(* can take the expected one.                                              *)
Current(n) == n = target.next \/ (n = target.next - 1 /\ Free)

HostOK ==
  /\ host.op <= issued
  /\ host.pc # "down" =>
       /\ Current(host.num)
       /\ host.id # "query" => host.sequence % SeqMod = host.num % SeqMod
  /\ host.pc = "wait" /\ host.num = target.next => host.op > target.last
  /\ host.pc = "wait" =>
       /\ host.id = "fastboot" => host.call # "connect"
       /\ host.id = "query" => host.call = "connect"
  /\ host.pc = "idle" => host.id # "query"

(* While the query is not answered nothing else has been sent. *)
QueryOK ==
  host.pc = "wait" /\ host.id = "query" =>
    \A d \in net : d.port = host.session =>
       d.id = "query" /\ (d.to = "host" => Current(d.data))

(* Between the calls of a sound session the target has executed all. *)
IdleOK == host.pc = "idle" /\ host.sound => host.num = target.next /\ Free

(* What a call of a sound session waits for is all that can be executed,   *)
(* or is what was executed last.                                           *)
MineOK ==
  host.pc = "wait" /\ host.id = "fastboot" /\ host.sound =>
    \/ /\ host.num = target.next
       /\ \A d \in net : Request(d) /\ d.num = target.next => d.op = host.op
    \/ host.num = target.next - 1 /\ target.last = host.op

IInv == TypeOK /\ NetOK /\ TargetOK /\ HostOK /\ QueryOK /\ IdleOK /\ MineOK

----------------------------------------------------------------------------
(* Numbers cut to the width of the field.                                  *)

(* Numbers that are close and agree when cut to the field are equal: this  *)
(* is where the lifetime of datagrams is used.                             *)
LEMMA CutEqual ==
  ASSUME NEW a \in Nat, NEW b \in Nat, b <= a, a - b < SeqMod, a % SeqMod = b % SeqMod
  PROVE  a = b
<1> USE UdpAssumption
<1>0. SeqMod \in Nat \ {0} OBVIOUS
<1>1. a = SeqMod * (a \div SeqMod) + (a % SeqMod)  BY <1>0
<1>2. b = SeqMod * (b \div SeqMod) + (b % SeqMod)  BY <1>0
<1> DEFINE k == (a \div SeqMod) - (b \div SeqMod)
<1>3. k \in Int /\ a - b = SeqMod * k  BY <1>0, <1>1, <1>2
<1>4. CASE k >= 1  BY <1>0, <1>3, <1>4
<1>5. CASE k <= -1  BY <1>0, <1>3, <1>5
<1>6. CASE k = 0  BY <1>3, <1>6
<1> QED  BY <1>3, <1>4, <1>5, <1>6

(* The cut number is the only remainder. *)
LEMMA CutUnique ==
  ASSUME NEW a \in Nat, NEW q \in Int, NEW r \in 0 .. SeqMod - 1, a = SeqMod * q + r
  PROVE  a % SeqMod = r
<1>0. SeqMod \in Nat \ {0}  BY UdpAssumption
<1>1. a = SeqMod * (a \div SeqMod) + (a % SeqMod)  BY <1>0
<1>2. a % SeqMod \in 0 .. SeqMod - 1  BY <1>0
<1> DEFINE k == (a \div SeqMod) - q
<1>3. k \in Int /\ r - (a % SeqMod) = SeqMod * k  BY <1>0, <1>1, <1>2
<1>4. CASE k >= 1  BY <1>0, <1>2, <1>3, <1>4
<1>5. CASE k <= -1  BY <1>0, <1>2, <1>3, <1>5
<1>6. CASE k = 0  BY <1>0, <1>2, <1>3, <1>6
<1> QED  BY <1>3, <1>4, <1>5, <1>6

(* Counting on keeps cut numbers equal. *)
LEMMA CutSucc ==
  ASSUME NEW a \in Nat, NEW b \in Nat, a % SeqMod = b % SeqMod
  PROVE  (a + 1) % SeqMod = (b + 1) % SeqMod
<1> USE UdpAssumption
<1>0. SeqMod \in Nat \ {0} OBVIOUS
<1>1. a = SeqMod * (a \div SeqMod) + (a % SeqMod)  BY <1>0
<1>2. b = SeqMod * (b \div SeqMod) + (b % SeqMod)  BY <1>0
<1> DEFINE r == a % SeqMod
<1>3. r \in 0 .. SeqMod - 1  BY <1>0
<1>4. /\ a + 1 \in Nat /\ b + 1 \in Nat /\ 0 \in 0 .. SeqMod - 1
      /\ a \div SeqMod \in Int /\ b \div SeqMod \in Int
      /\ (a \div SeqMod) + 1 \in Int /\ (b \div SeqMod) + 1 \in Int
  BY <1>0
<1>5. CASE r = SeqMod - 1
  <2>1. /\ a + 1 = SeqMod * ((a \div SeqMod) + 1) + 0
        /\ b + 1 = SeqMod * ((b \div SeqMod) + 1) + 0
    BY <1>0, <1>1, <1>2, <1>5
  <2>2. (a + 1) % SeqMod = 0  BY <1>4, <2>1, CutUnique, Zenon
  <2>3. (b + 1) % SeqMod = 0  BY <1>4, <2>1, CutUnique, Zenon
  <2> QED  BY <2>2, <2>3
<1>6. CASE r < SeqMod - 1
  <2>1. r + 1 \in 0 .. SeqMod - 1  BY <1>0, <1>3, <1>6
  <2>2. /\ a + 1 = SeqMod * (a \div SeqMod) + (r + 1)
        /\ b + 1 = SeqMod * (b \div SeqMod) + (r + 1)
    BY <1>0, <1>1, <1>2, <1>3
  <2> HIDE DEF r
  <2>3. (a + 1) % SeqMod = r + 1  BY <1>4, <2>1, <2>2, CutUnique, Zenon
  <2>4. (b + 1) % SeqMod = r + 1  BY <1>4, <2>1, <2>2, CutUnique, Zenon
  <2> QED  BY <2>3, <2>4
<1> QED  BY <1>3, <1>5, <1>6

LEMMA CutRange ==
  ASSUME NEW a \in Nat
  PROVE  /\ a % SeqMod \in 0 .. SeqMod - 1
         /\ (a % SeqMod) % SeqMod = a % SeqMod
  BY UdpAssumption

----------------------------------------------------------------------------
(* The two places where numbers are compared.                              *)

(* The answer taken by a call has the last number, and so answers what the *)
(* target executed last.                                                   *)
LEMMA AnswerIsLast ==
  ASSUME IInv, NEW d \in net, Accept(d), host.id # "query"
  PROVE  /\ d.num = target.next - 1 /\ host.num = target.next - 1 /\ Free
         /\ d.id \in {host.id, "error"} /\ d.id # "query"
         /\ d.op = target.last /\ d.id \in {target.lastId, "error"}
<1>1. /\ host \in HostState /\ target \in TargetState /\ d \in Datagram
  BY DEF IInv, TypeOK
<1>2. d.to = "host" /\ d.id \in {host.id, "error"} /\ d.id # "query"
      /\ d.seq = host.sequence % SeqMod /\ host.pc = "wait"
  BY DEF Accept, Arrives, Matches
<1>3. /\ d.num < target.next /\ target.next <= d.num + Lifetime
      /\ d.seq = d.num % SeqMod
      /\ d.num = target.next - 1 => d.op = target.last /\ d.id \in {target.lastId, "error"}
  BY <1>2 DEF IInv, NetOK, DatagramOK
<1>4. Current(host.num) /\ host.sequence % SeqMod = host.num % SeqMod
  BY <1>2 DEF IInv, HostOK
<1>5. d.num \in Nat /\ host.num \in Nat /\ target.next \in Nat
  BY <1>1 DEF HostState, TargetState, Datagram
<1>6. d.num <= host.num /\ host.num - d.num < SeqMod
  BY <1>3, <1>4, <1>5, UdpAssumption DEF Current
<1>7. host.num = d.num
  BY <1>2, <1>3, <1>4, <1>5, <1>6, CutEqual
<1> QED  BY <1>2, <1>3, <1>4, <1>5, <1>7 DEF Current

(* The packet the target executes has the expected number before the cut.  *)
LEMMA ExecutedIsNext ==
  ASSUME IInv, NEW d \in net, Request(d), d.seq = target.next % SeqMod
  PROVE  d.num = target.next /\ d.op > target.last /\ d.op <= issued
<1>1. /\ target \in TargetState /\ d \in Datagram
  BY DEF IInv, TypeOK
<1>2. /\ d.num <= target.next /\ target.next <= d.num + Lifetime /\ d.seq = d.num % SeqMod
      /\ d.num = target.next => d.op > target.last
      /\ d.op <= issued
  BY DEF IInv, NetOK, DatagramOK, Request
<1>3. d.num \in Nat /\ target.next \in Nat  BY <1>1 DEF TargetState, Datagram
<1>4. target.next - d.num < SeqMod  BY <1>2, <1>3, UdpAssumption
<1>5. target.next = d.num  BY <1>2, <1>3, <1>4, CutEqual
<1> QED  BY <1>2, <1>5

----------------------------------------------------------------------------
(* The steps keep the invariant.                                           *)

(* A new packet may be sent with a current number. *)
LEMMA SendNewKeeps ==
  ASSUME IInv, NEW h \in HostState, SendNew(h),
         h.session >= host.session, Current(h.num),
         h.id # "query" => h.sequence % SeqMod = h.num % SeqMod,
         h.id = "fastboot" => h.call # "connect",
         h.id = "query" => h.session > host.session /\ h.call = "connect",
         h.id = "fastboot" /\ h.sound => h.num = target.next /\ Free
  PROVE  IInv'
<1> DEFINE h1 == [h EXCEPT !.pc = "wait", !.op = issued + 1]
           m == Send(h1)
<1>1. /\ host' = h1 /\ net' = net \cup {m} /\ issued' = issued + 1 /\ target' = target
      /\ receive' = "open"
  BY DEF SendNew
<1>2. /\ host \in HostState /\ target \in TargetState /\ net \subseteq Datagram /\ issued \in Nat
  BY DEF IInv, TypeOK
<1>3. /\ h1 \in HostState /\ h1.pc = "wait" /\ h1.op = issued + 1 /\ h1.session = h.session
      /\ h1.num = h.num /\ h1.id = h.id /\ h1.call = h.call /\ h1.sequence = h.sequence
      /\ h1.sound = h.sound
  <2>1. issued + 1 \in Nat  BY <1>2
  <2> QED  BY Zenon, <2>1 DEF HostState
<1>4. /\ m \in Datagram /\ m.to = "target" /\ m.port = h.session /\ m.id = h.id
      /\ m.seq = h.sequence % SeqMod /\ m.num = h.num /\ m.op = issued + 1
  <2>1. h1.sequence \in Nat  BY <1>3 DEF HostState
  <2>2. h1.sequence % SeqMod \in 0 .. SeqMod - 1  BY <2>1, CutRange
  <2> QED  BY Zenon, <1>3, <2>2 DEF Send, Datagram, HostState
<1> HIDE DEF h1, m
<1>5. /\ h.session \in Nat /\ h.num \in Nat /\ host.session \in Nat /\ host.op \in Nat
      /\ target.next \in Nat /\ target.last \in Nat
  BY <1>2 DEF HostState, TargetState
<1>6. /\ target.last <= issued /\ NetOK  BY DEF IInv, TargetOK
<1>7. TypeOK'  BY <1>1, <1>2, <1>3, <1>4 DEF TypeOK
<1>8. NetOK'
  <2>1. ASSUME NEW d \in net PROVE DatagramOK(d)'
    <3>1. DatagramOK(d) /\ d \in Datagram  BY <1>2, <1>6 DEF NetOK
    <3>2. d.op \in Nat /\ d.port \in Nat  BY <3>1 DEF Datagram
    <3> QED  BY <1>1, <1>2, <1>3, <1>5, <3>1, <3>2 DEF DatagramOK, Request
  <2>2. ASSUME NEW d, d = m PROVE DatagramOK(d)'
    BY <2>2, <1>1, <1>2, <1>3, <1>4, <1>5, <1>6, UdpAssumption DEF DatagramOK, Request, Current
  <2> QED  BY <1>1, <2>1, <2>2 DEF NetOK
<1>9. TargetOK'  BY <1>1, <1>2, <1>5 DEF IInv, TargetOK
<1>10. h.num = target.next - 1 /\ Free => Free'
  BY <1>1, <1>4, <1>5 DEF Free, Request
<1>11. host'.num = target'.next \/ (host'.num = target'.next - 1 /\ Free')
  BY <1>1, <1>3, <1>10 DEF Current
<1>12. HostOK'
  <2>1. host'.op <= issued' /\ host'.op > target'.last
    BY <1>1, <1>2, <1>3, <1>5, <1>6
  <2>2. host'.id # "query" => host'.sequence % SeqMod = host'.num % SeqMod
    BY <1>1, <1>3
  <2>3. /\ host'.pc = "wait" /\ (host'.id = "fastboot" => host'.call # "connect")
        /\ host'.id = "query" => host'.call = "connect"
    BY <1>1, <1>3
  <2> QED  BY <1>11, <2>1, <2>2, <2>3 DEF HostOK, Current
<1>13. QueryOK'
  <2>1. \A d \in net : d.port <= host.session /\ d.port \in Nat
    BY <1>2, <1>6 DEF NetOK, DatagramOK, Datagram
  <2>2. h.id = "query" => \A d \in net : d.port # h.session  BY <1>5, <2>1
  <2> QED  BY <1>1, <1>3, <1>4, <2>2 DEF QueryOK
<1>14. IdleOK'  BY <1>1, <1>3 DEF IdleOK
<1>15. MineOK'  BY <1>1, <1>3, <1>4 DEF MineOK, Free, Request
<1> QED  BY <1>7, <1>8, <1>9, <1>12, <1>13, <1>14, <1>15 DEF IInv

(* A process may end at any moment. *)
LEMMA EndsKeeps ==
  ASSUME IInv, NEW h \in HostState, Ends(h), h.session = host.session, h.op = host.op
  PROVE  IInv'
<1>1. /\ host \in HostState /\ target \in TargetState /\ net \subseteq Datagram /\ issued \in Nat
  BY DEF IInv, TypeOK
<1>2. /\ host' \in HostState /\ host'.pc = "down" /\ host'.session = host.session
      /\ host'.op = host.op
      /\ net' \subseteq net /\ issued' = issued /\ target' = target /\ receive' = "open"
  BY <1>1 DEF Ends, HostState
<1>3. TypeOK'  BY <1>1, <1>2 DEF TypeOK
<1>4. NetOK'  BY <1>2 DEF IInv, NetOK, DatagramOK, Request
<1>5. TargetOK'  BY <1>2 DEF IInv, TargetOK
<1>6. HostOK'  BY <1>2 DEF IInv, HostOK
<1> QED  BY <1>2, <1>3, <1>4, <1>5, <1>6 DEF IInv, QueryOK, IdleOK, MineOK

(* A call may return with a current number, and with the expected one if   *)
(* the session is sound.                                                   *)
LEMMA ReturnsKeeps ==
  ASSUME IInv, NEW h \in HostState, Returns(h), h.session = host.session, h.op = host.op,
         Current(h.num), h.id # "query", h.sequence % SeqMod = h.num % SeqMod,
         h.sound => h.num = target.next /\ Free
  PROVE  IInv'
<1>1. /\ host \in HostState /\ target \in TargetState /\ net \subseteq Datagram /\ issued \in Nat
  BY DEF IInv, TypeOK
<1>2. /\ host' \in HostState /\ host'.pc = "idle" /\ host'.session = host.session
      /\ host'.op = host.op /\ host'.num = h.num /\ host'.id = h.id
      /\ host'.sequence = h.sequence /\ host'.sound = h.sound
      /\ net' = net /\ issued' = issued /\ target' = target /\ receive' = "open"
  BY <1>1 DEF Returns, HostState
<1>3. TypeOK'  BY <1>1, <1>2 DEF TypeOK
<1>4. NetOK'  BY <1>2 DEF IInv, NetOK, DatagramOK, Request
<1>5. TargetOK'  BY <1>2 DEF IInv, TargetOK
<1>6. Free' <=> Free  BY <1>2 DEF Free, Request
<1>7. HostOK'  BY <1>2, <1>6 DEF IInv, HostOK, Current
<1>8. IdleOK'  BY <1>2, <1>6 DEF IdleOK
<1> QED  BY <1>2, <1>3, <1>4, <1>5, <1>7, <1>8 DEF IInv, QueryOK, MineOK

(* A call that gives up leaves the number; the session is not sound then.  *)
LEMMA GivesUpKeeps ==
  ASSUME IInv, GivesUp, host.pc = "wait"
  PROVE  IInv'
<1> DEFINE h == [host EXCEPT !.sound = FALSE]
<1>1. host \in HostState  BY DEF IInv, TypeOK
<1>2. /\ h \in HostState /\ h.session = host.session /\ h.op = host.op /\ h.num = host.num
      /\ h.id = host.id /\ h.sequence = host.sequence /\ h.sound = FALSE
  BY Zenon, <1>1 DEF HostState
<1> HIDE DEF h
<1>3. CASE host.call = "connect"
  <2>1. Ends(h)  BY <1>3 DEF GivesUp, Fails, h
  <2> QED  BY <1>2, <2>1, EndsKeeps
<1>4. CASE host.call # "connect"
  <2>1. Returns(h)  BY <1>4 DEF GivesUp, Fails, h
  <2>2. host.id # "query" /\ Current(host.num) /\ host.sequence % SeqMod = host.num % SeqMod
    BY <1>4 DEF IInv, HostOK
  <2> QED  BY <1>2, <2>1, <2>2, ReturnsKeeps
<1> QED  BY <1>3, <1>4

(* A packet sent again is no new one. *)
LEMMA TimeoutKeeps ==
  ASSUME IInv, Timeout
  PROVE  IInv'
<1>1. /\ host \in HostState /\ target \in TargetState /\ net \subseteq Datagram /\ issued \in Nat
  BY DEF IInv, TypeOK
<1>2. CASE host.attempts <= 1 /\ GivesUp  BY <1>2, GivesUpKeeps DEF Timeout
<1>3. CASE /\ host.attempts > 1
           /\ host' = [host EXCEPT !.attempts = @ - 1]
           /\ net' = net \cup {Send(host)}
           /\ receive' = "open"
           /\ UNCHANGED <<target, issued>>
  <2> DEFINE m == Send(host)
  <2>1. /\ host.pc = "wait" /\ host.num \in Nat /\ host.op \in Nat /\ host.session \in Nat
        /\ target.next \in Nat /\ target.last \in Nat
    BY <1>1 DEF Timeout, HostState, TargetState
  <2>2. /\ m \in Datagram /\ m.to = "target" /\ m.port = host.session /\ m.id = host.id
        /\ m.seq = host.sequence % SeqMod /\ m.num = host.num /\ m.op = host.op
    <3>1. host.sequence \in Nat  BY <1>1 DEF HostState
    <3>2. host.sequence % SeqMod \in 0 .. SeqMod - 1  BY <3>1, CutRange
    <3> QED  BY <1>1, <3>2 DEF Send, Datagram, HostState
  <2>3. /\ host' \in HostState /\ host'.pc = "wait" /\ host'.session = host.session
        /\ host'.op = host.op /\ host'.num = host.num /\ host'.id = host.id
        /\ host'.sequence = host.sequence /\ host'.sound = host.sound /\ host'.call = host.call
    <3>1. host.attempts - 1 \in Nat  BY <1>1, <1>3 DEF HostState
    <3> QED  BY <1>1, <1>3, <2>1, <3>1 DEF HostState
  <2>4. net' = net \cup {m} /\ target' = target /\ issued' = issued /\ receive' = "open"  BY <1>3
  <2> HIDE DEF m
  <2>5. /\ Current(host.num)
        /\ host.id # "query" => host.sequence % SeqMod = host.num % SeqMod
        /\ host.num = target.next => host.op > target.last
        /\ host.op <= issued
    BY <2>1 DEF IInv, HostOK
  <2>6. TypeOK'  BY <1>1, <2>2, <2>3, <2>4 DEF TypeOK
  <2>7. NetOK'
    <3>1. ASSUME NEW d \in net PROVE DatagramOK(d)'
      BY <2>3, <2>4 DEF IInv, NetOK, DatagramOK, Request
    <3>2. ASSUME NEW d, d = m PROVE DatagramOK(d)'
      BY <1>1, <2>1, <2>2, <2>3, <2>4, <2>5, <3>2, UdpAssumption DEF DatagramOK, Request, Current
    <3> QED  BY <2>4, <3>1, <3>2 DEF NetOK
  <2>8. TargetOK'  BY <2>4 DEF IInv, TargetOK
  <2>9. host.num = target.next - 1 /\ Free => Free'
    BY <2>1, <2>2, <2>4 DEF Free, Request
  <2>10. host'.num = target'.next \/ (host'.num = target'.next - 1 /\ Free')
    BY <2>3, <2>4, <2>5, <2>9 DEF Current
  <2>11. HostOK'  BY <2>1, <2>3, <2>4, <2>5, <2>10 DEF IInv, HostOK, Current
  <2>12. QueryOK'
    <3>1. CASE host.id = "query"
      <4>1. Free => Free'  BY <2>2, <2>4, <3>1 DEF Free, Request
      <4> QED  BY <2>1, <2>2, <2>3, <2>4, <3>1, <4>1 DEF IInv, QueryOK, Current
    <3>2. CASE host.id # "query"  BY <2>3, <3>2 DEF QueryOK
    <3> QED  BY <3>1, <3>2
  <2>13. IdleOK'  BY <2>3 DEF IdleOK
  <2>14. MineOK'  BY <2>1, <2>2, <2>3, <2>4 DEF IInv, MineOK, Request
  <2> QED  BY <2>6, <2>7, <2>8, <2>11, <2>12, <2>13, <2>14 DEF IInv
<1> QED  BY <1>2, <1>3 DEF Timeout

(* How long Receive has waited is not part of the exchange. *)
LEMMA ReceiveKeeps ==
  ASSUME IInv, UNCHANGED <<host, target, net, issued>>, receive' \in {"open", "again"}
  PROVE  IInv'
  BY Zenon DEF IInv, TypeOK, NetOK, DatagramOK, Request, TargetOK, HostOK, QueryOK, IdleOK,
               MineOK, Current, Free

(* What is taken as an answer leaves the expected number. *)
LEMMA AnsweredNumber ==
  ASSUME IInv, NEW d \in net, Accept(d)
  PROVE  LET h == Answered(host, d)
         IN  /\ h \in HostState
             /\ h = [host EXCEPT !.sequence = h.sequence, !.num = h.num]
             /\ h.sequence % SeqMod = h.num % SeqMod
             /\ Current(h.num)
             /\ host.id # "query" => h.num = target.next /\ Free
             /\ host.id = "query" => d.id = "query" /\ ~d.cont
<1> DEFINE h == Answered(host, d)
<1>1. /\ host \in HostState /\ target \in TargetState /\ d \in Datagram
  BY DEF IInv, TypeOK
<1>2. host.sequence \in Nat /\ host.num \in Nat /\ d.data \in Nat /\ target.next \in Nat
  BY <1>1 DEF HostState, Datagram, TargetState
<1>3. CASE host.id = "query"
  <2>1. d.id = "query" /\ Current(d.data) /\ ~d.cont
    BY <1>3 DEF IInv, QueryOK, Accept, Arrives, NetOK, DatagramOK
  <2>2. h = [host EXCEPT !.sequence = d.data % SeqMod, !.num = d.data]
    BY <1>3, <2>1 DEF Answered
  <2>3. d.data % SeqMod \in 0 .. SeqMod - 1 /\ (d.data % SeqMod) % SeqMod = d.data % SeqMod
    BY <1>2, CutRange
  <2>4. d.data % SeqMod \in Nat  BY <2>3, UdpAssumption
  <2>5. h \in HostState /\ h.sequence = d.data % SeqMod /\ h.num = d.data
    BY Zenon, <1>1, <1>2, <2>2, <2>4 DEF HostState
  <2> QED  BY <1>1, <1>3, <2>1, <2>2, <2>3, <2>5 DEF HostState
<1>4. CASE host.id # "query"
  <2>1. host.num = target.next - 1 /\ Free  BY <1>4, AnswerIsLast
  <2>2. h = [host EXCEPT !.sequence = @ + 1, !.num = @ + 1]
    BY <1>4 DEF Answered
  <2>3. host.sequence + 1 \in Nat /\ host.num + 1 \in Nat  BY <1>2
  <2>4. h \in HostState /\ h.sequence = host.sequence + 1 /\ h.num = host.num + 1
        /\ h = [host EXCEPT !.sequence = h.sequence, !.num = h.num]
    BY Zenon, <1>1, <2>2, <2>3 DEF HostState
  <2>5. host.sequence % SeqMod = host.num % SeqMod
    BY <1>4 DEF IInv, HostOK, Accept, Arrives
  <2>6. h.sequence % SeqMod = h.num % SeqMod
    BY <1>2, <2>4, <2>5, CutSucc
  <2>7. h.num = target.next  BY <1>2, <2>1, <2>4
  <2> QED  BY <1>4, <2>1, <2>4, <2>6, <2>7 DEF Current
<1> QED  BY <1>3, <1>4

LEMMA HostKeeps ==
  ASSUME IInv, Host
  PROVE  IInv'
<1>1. /\ host \in HostState /\ target \in TargetState /\ net \subseteq Datagram /\ issued \in Nat
  BY DEF IInv, TypeOK
<1>2. CASE Connect
  <2> DEFINE h == [host EXCEPT !.session = @ + 1, !.call = "connect", !.id = "query",
                               !.cont = FALSE, !.sequence = 0, !.num = target.next, !.left = 1,
                               !.attempts = ConnectAttempts, !.sound = TRUE]
  <2>1. /\ host.session \in Nat /\ host.session + 1 \in Nat /\ target.next \in Nat
        /\ ConnectAttempts \in Nat /\ host.session + 1 > host.session
    BY <1>1, UdpAssumption DEF HostState, TargetState
  <2>2. /\ h \in HostState /\ h.session = host.session + 1 /\ h.id = "query"
        /\ h.call = "connect" /\ h.num = target.next
    BY Zenon, <1>1, <2>1 DEF HostState, Ids
  <2>3. SendNew(h)  BY <1>2 DEF Connect
  <2> HIDE DEF h
  <2> QED  BY <2>1, <2>2, <2>3, SendNewKeeps DEF Current
<1>3. ASSUME NEW call \in {"write", "read"}, NEW k \in Nat, host.pc = "idle",
             SendNew(Chunk(host, call, k))
      PROVE  IInv'
  <2> DEFINE h == Chunk(host, call, k)
  <2>1. TransmitAttempts \in Nat /\ (k > 1) \in BOOLEAN  BY UdpAssumption
  <2>2. /\ h \in HostState /\ h.session = host.session /\ h.id = "fastboot"
        /\ h.call = call /\ h.num = host.num /\ h.sequence = host.sequence /\ h.sound = host.sound
    BY Zenon, <1>1, <2>1 DEF HostState, Ids, Chunk
  <2>3. SendNew(h)  BY <1>3
  <2>4. /\ Current(host.num) /\ host.sequence % SeqMod = host.num % SeqMod
        /\ (host.sound => host.num = target.next /\ Free)
    BY <1>3 DEF IInv, HostOK, IdleOK
  <2>5. h.session >= host.session  BY <1>1, <2>2 DEF HostState
  <2> HIDE DEF h
  <2> QED  BY <2>2, <2>3, <2>4, <2>5, SendNewKeeps
<1>4. CASE Write
  <2>1. PICK k \in 1 .. MaxChunks : SendNew(Chunk(host, "write", k))  BY <1>4 DEF Write
  <2>2. k \in Nat  BY UdpAssumption
  <2> QED  BY <1>3, <1>4, <2>1, <2>2 DEF Write
<1>5. CASE Read  BY <1>3, <1>5 DEF Read
<1>6. CASE Timeout  BY <1>6, TimeoutKeeps
<1>7. CASE SocketFails  BY <1>7, GivesUpKeeps DEF SocketFails
<1>8. CASE Stop  BY <1>1, <1>8, EndsKeeps DEF Stop
<1>10. CASE Elapses  BY <1>10, ReceiveKeeps DEF Elapses
<1>11. CASE \E d \in net : Discard(d)  BY <1>11, ReceiveKeeps DEF Discard
<1>9. ASSUME NEW d \in net,
             \/ AcceptMore(d) \/ AcceptError(d) \/ AcceptQuery(d)
             \/ AcceptInit(d) \/ AcceptChunk(d) \/ AcceptLast(d)
      PROVE  IInv'
  <2> DEFINE a == Answered(host, d)
  <2>1. Accept(d) /\ d \in Datagram
    BY <1>1, <1>9 DEF AcceptMore, AcceptError, AcceptQuery, AcceptInit, AcceptChunk, AcceptLast
  <2>2. /\ a \in HostState /\ a = [host EXCEPT !.sequence = a.sequence, !.num = a.num]
        /\ a.sequence % SeqMod = a.num % SeqMod /\ Current(a.num)
        /\ host.id # "query" => a.num = target.next /\ Free
        /\ host.id = "query" => d.id = "query" /\ ~d.cont
    BY Zenon, <2>1, AnsweredNumber
  <2>3. /\ a.session = host.session /\ a.id = host.id /\ a.call = host.call /\ a.op = host.op
        /\ a.sound = host.sound
    BY Zenon, <1>1, <2>2 DEF HostState
  <2>4. /\ d.id \in {host.id, "error"} /\ host.pc = "wait" /\ host.session >= host.session
        /\ d.id \in Ids /\ host.call \in {"connect", "write", "read"}
        /\ host.left \in Nat
    BY <1>1, <2>1 DEF Accept, Arrives, Matches, HostState, Datagram
  <2>5. /\ Attempts(host.call) \in Nat /\ TransmitAttempts \in Nat
    BY UdpAssumption DEF Attempts
  <2>6. /\ host.id = "fastboot" => host.call # "connect"
        /\ host.id = "query" => host.call = "connect"
    BY <2>4 DEF IInv, HostOK
  <2> HIDE DEF a
  <2>7. CASE AcceptMore(d)
    <3> DEFINE h == [a EXCEPT !.id = d.id, !.cont = FALSE, !.attempts = Attempts(host.call)]
    <3>1. /\ h \in HostState /\ h.session = a.session /\ h.id = d.id /\ h.call = a.call
          /\ h.num = a.num /\ h.sequence = a.sequence /\ h.sound = a.sound
      BY Zenon, <2>2, <2>4, <2>5 DEF HostState
    <3>2. SendNew(h) /\ host.id # "query" /\ d.id # "query"  BY <2>2, <2>4, <2>7 DEF AcceptMore, a
    <3> HIDE DEF h
    <3> QED  BY <2>2, <2>3, <2>4, <2>6, <3>1, <3>2, SendNewKeeps
  <2>8. ASSUME Returns(a), host.id # "query" PROVE IInv'
    BY <2>2, <2>3, <2>8, ReturnsKeeps
  <2>9. ASSUME Fails(a), host.id # "query" PROVE IInv'
    BY <2>2, <2>3, <2>8, <2>9, EndsKeeps DEF Fails
  <2>10. CASE AcceptError(d)  BY <2>2, <2>9, <2>10 DEF AcceptError, a
  <2>11. CASE AcceptQuery(d)
    <3> DEFINE h == [a EXCEPT !.id = "init", !.attempts = TransmitAttempts]
    <3>1. /\ h \in HostState /\ h.session = a.session /\ h.id = "init" /\ h.call = a.call
          /\ h.num = a.num /\ h.sequence = a.sequence /\ h.sound = a.sound
      BY Zenon, <2>2, <2>5 DEF HostState, Ids
    <3>2. SendNew(h)  BY <2>11 DEF AcceptQuery, a
    <3> HIDE DEF h
    <3> QED  BY <2>2, <2>3, <2>4, <3>1, <3>2, SendNewKeeps
  <2>12. CASE AcceptInit(d)  BY <2>4, <2>8, <2>9, <2>12 DEF AcceptInit, a
  <2>13. CASE AcceptChunk(d)
    <3> DEFINE h == Chunk(a, host.call, host.left - 1)
    <3>1. host.id = "fastboot" /\ host.left - 1 \in Nat /\ SendNew(h)
          /\ (host.left - 1 > 1) \in BOOLEAN
      BY <2>4, <2>13 DEF AcceptChunk, a
    <3>2. /\ h \in HostState /\ h.session = a.session /\ h.id = "fastboot" /\ h.call = host.call
          /\ h.num = a.num /\ h.sequence = a.sequence /\ h.sound = a.sound
      BY Zenon, <2>2, <2>4, <2>5, <3>1 DEF HostState, Ids, Chunk
    <3> HIDE DEF h
    <3> QED  BY <2>2, <2>3, <2>4, <2>6, <3>1, <3>2, SendNewKeeps
  <2>14. CASE AcceptLast(d)  BY <2>4, <2>8, <2>14 DEF AcceptLast, a
  <2> QED  BY <1>9, <2>7, <2>10, <2>11, <2>12, <2>13, <2>14
<1> QED  BY <1>2, <1>4, <1>5, <1>6, <1>7, <1>8, <1>9, <1>10, <1>11 DEF Host

LEMMA QueryKeeps ==
  ASSUME IInv, NEW d \in net, TargetQuery(d)
  PROVE  IInv'
<1> DEFINE r == Reply(d, "query", FALSE)
<1>1. /\ host \in HostState /\ target \in TargetState /\ net \subseteq Datagram
      /\ issued \in Nat /\ receive \in {"open", "again"} /\ d \in Datagram /\ DatagramOK(d)
  BY DEF IInv, TypeOK, NetOK
<1>2. /\ target.next \in Nat /\ d.num \in Nat  BY <1>1 DEF TargetState, Datagram
<1>3. /\ r \in Datagram /\ r.to = "host" /\ r.port = d.port /\ r.id = "query" /\ ~r.cont
      /\ r.num = d.num /\ r.op = d.op /\ r.data = target.next
  BY <1>1, <1>2 DEF Reply, Datagram, Ids
<1>4. /\ net' = net \cup {r} /\ host' = host /\ target' = target /\ issued' = issued
      /\ receive' = receive
  BY DEF TargetQuery
<1> HIDE DEF r
<1>5. Free' <=> Free  BY <1>3, <1>4 DEF Free, Request
<1>6. TypeOK'  BY <1>1, <1>3, <1>4 DEF TypeOK
<1>7. NetOK'
  <2>1. ASSUME NEW e \in net PROVE DatagramOK(e)'
    BY <1>4 DEF IInv, NetOK, DatagramOK, Request
  <2>2. ASSUME NEW e, e = r PROVE DatagramOK(e)'
    BY <1>1, <1>2, <1>3, <1>4, <2>2 DEF DatagramOK, Request
  <2> QED  BY <1>4, <2>1, <2>2 DEF NetOK
<1>8. TargetOK' /\ IdleOK'  BY <1>4, <1>5 DEF IInv, TargetOK, IdleOK
<1>9. HostOK'  BY <1>4, <1>5 DEF IInv, HostOK, Current
<1>10. QueryOK'  BY <1>3, <1>4, <1>5 DEF IInv, QueryOK, Current
<1>11. MineOK'  BY <1>3, <1>4 DEF IInv, MineOK, Request
<1> QED  BY <1>6, <1>7, <1>8, <1>9, <1>10, <1>11 DEF IInv

LEMMA RepeatsKeeps ==
  ASSUME IInv, NEW d \in net, TargetRepeats(d)
  PROVE  IInv'
<1> DEFINE r == [target.saved EXCEPT !.port = d.port]
<1>1. /\ host \in HostState /\ target \in TargetState /\ net \subseteq Datagram
      /\ issued \in Nat /\ receive \in {"open", "again"} /\ d \in Datagram /\ DatagramOK(d)
  BY DEF IInv, TypeOK, NetOK
<1>2. /\ target.next \in Nat /\ target.last \in Nat /\ d.port \in Nat
      /\ target.saved \in Datagram
  BY <1>1 DEF TargetState, Datagram, TargetRepeats
<1>3. /\ r \in Datagram /\ r.to = target.saved.to /\ r.port = d.port /\ r.id = target.saved.id
      /\ r.num = target.saved.num /\ r.op = target.saved.op /\ r.seq = target.saved.seq
  BY <1>2 DEF Datagram
<1>4. /\ net' = net \cup {r} /\ host' = host /\ target' = target /\ issued' = issued
      /\ receive' = receive /\ Request(d) /\ target.saved # NoReply
  BY DEF TargetRepeats, Gets, Request
<1> HIDE DEF r
<1>5. /\ r.to = "host" /\ r.id # "query" /\ r.num = target.next - 1 /\ r.seq = r.num % SeqMod
      /\ r.op = target.last /\ r.id \in {target.lastId, "error"} /\ target.last <= issued
  BY <1>3, <1>4 DEF IInv, TargetOK
<1>6. Free' <=> Free  BY <1>4, <1>5 DEF Free, Request
<1>7. TypeOK'  BY <1>1, <1>3, <1>4 DEF TypeOK
<1>8. NetOK'
  <2>1. ASSUME NEW e \in net PROVE DatagramOK(e)'
    BY <1>4 DEF IInv, NetOK, DatagramOK, Request
  <2>2. ASSUME NEW e, e = r PROVE DatagramOK(e)'
    BY <1>1, <1>2, <1>3, <1>4, <1>5, <2>2, UdpAssumption DEF DatagramOK, Request
  <2> QED  BY <1>4, <2>1, <2>2 DEF NetOK
<1>9. TargetOK' /\ IdleOK'  BY <1>4, <1>6 DEF IInv, TargetOK, IdleOK
<1>10. HostOK'  BY <1>4, <1>6 DEF IInv, HostOK, Current
<1>11. QueryOK'
  <2>1. d.id # "query"  BY <1>4 DEF Request
  <2> QED  BY <1>3, <1>4, <1>6, <2>1 DEF IInv, QueryOK, Current
<1>12. MineOK'  BY <1>4, <1>5 DEF IInv, MineOK, Request
<1> QED  BY <1>7, <1>8, <1>9, <1>10, <1>11, <1>12 DEF IInv

(* The target moves on: the numbers that were expected are the last ones.  *)
LEMMA ExecutesKeeps ==
  ASSUME IInv, NEW d \in net, TargetExecutes(d)
  PROVE  IInv'
<1>1. /\ host \in HostState /\ target \in TargetState /\ net \subseteq Datagram
      /\ issued \in Nat /\ receive \in {"open", "again"} /\ d \in Datagram /\ NetOK
  BY DEF IInv, TypeOK
<1>2. PICK id \in {d.id, "error"}, cont \in BOOLEAN :
        /\ target' = [next |-> target.next + 1, saved |-> Reply(d, id, cont),
                      last |-> d.op, lastId |-> d.id]
        /\ net' = Younger(net, target.next + 1) \cup {Reply(d, id, cont)}
  BY DEF TargetExecutes
<1> DEFINE r == Reply(d, id, cont)
<1>3. /\ Request(d) /\ d.seq = target.next % SeqMod
      /\ host' = host /\ issued' = issued /\ receive' = receive
  BY DEF TargetExecutes, Gets, Request
<1>4. d.num = target.next /\ d.op > target.last /\ d.op <= issued
  BY <1>1, <1>3, ExecutedIsNext
<1>5. /\ target.next \in Nat /\ target.last \in Nat /\ d.op \in Nat /\ d.id \in Ids
      /\ host.num \in Nat /\ d.port <= host.session /\ d.id # "query"
  BY <1>1, <1>3 DEF TargetState, Datagram, HostState, NetOK, DatagramOK, Request
<1>6. /\ r \in Datagram /\ r.to = "host" /\ r.port = d.port /\ r.id = id /\ r.seq = d.seq
      /\ r.num = target.next /\ r.op = d.op
  BY <1>1, <1>4, <1>5 DEF Reply, Datagram, Ids
<1> HIDE DEF r
<1>7. /\ target'.next = target.next + 1 /\ target'.saved = r /\ target'.last = d.op
      /\ target'.lastId = d.id /\ target' \in TargetState
  BY <1>2, <1>5, <1>6 DEF r, TargetState
<1>8. \A e \in net' : e = r \/ (e \in net /\ target.next + 1 <= e.num + Lifetime)
  BY <1>2 DEF Younger, r
<1>9. id # "query" /\ id \in {d.id, "error"}  BY <1>5
<1>10. TypeOK'  BY <1>1, <1>3, <1>6, <1>7, <1>8 DEF TypeOK
<1>11. NetOK'
  <2>1. ASSUME NEW e \in net, target.next + 1 <= e.num + Lifetime PROVE DatagramOK(e)'
    <3>1. DatagramOK(e) /\ e.num \in Nat /\ e.data \in Nat  BY <1>1 DEF NetOK, Datagram
    <3> QED  BY <1>3, <1>5, <1>7, <2>1, <3>1 DEF DatagramOK, Request
  <2>2. ASSUME NEW e, e = r PROVE DatagramOK(e)'
    BY <1>3, <1>4, <1>5, <1>6, <1>7, <1>9, <2>2, UdpAssumption DEF DatagramOK, Request
  <2> QED  BY <1>8, <2>1, <2>2 DEF NetOK
<1>12. TargetOK'  BY <1>3, <1>4, <1>5, <1>6, <1>7, <1>9 DEF TargetOK
<1>13. Free'
  <2>1. \A e \in net : e.num <= target.next /\ e.num \in Nat  BY <1>1 DEF NetOK, DatagramOK, Datagram
  <2> QED  BY <1>5, <1>6, <1>7, <1>8, <2>1 DEF Free, Request
<1>14. ~Free  BY <1>3, <1>4 DEF Free
<1>15. host.pc # "down" => host.num = target.next
  BY <1>14 DEF IInv, HostOK, Current
<1>16. HostOK'
  BY <1>3, <1>5, <1>7, <1>13, <1>15 DEF IInv, HostOK, Current
<1>17. QueryOK'
  <2>1. ASSUME host.pc = "wait", host.id = "query", NEW e \in net', e.port = host.session
        PROVE  e.id = "query" /\ (e.to = "host" => e.data = target.next)
    <3>1. d.port # host.session  BY <1>5, <2>1 DEF IInv, QueryOK
    <3>2. e \in net  BY <1>6, <1>8, <2>1, <3>1
    <3> QED  BY <1>14, <2>1, <3>2 DEF IInv, QueryOK, Current
  <2> QED  BY <1>3, <1>5, <1>7, <1>13, <2>1 DEF QueryOK, Current
<1>18. IdleOK'  BY <1>3, <1>14 DEF IInv, IdleOK
<1>19. MineOK'
  <2>1. ASSUME host.pc = "wait", host.id = "fastboot", host.sound
        PROVE  d.op = host.op
    BY <1>3, <1>4, <1>5, <1>15, <2>1 DEF IInv, MineOK
  <2> QED  BY <1>3, <1>5, <1>7, <1>15, <2>1 DEF MineOK
<1> QED  BY <1>10, <1>11, <1>12, <1>16, <1>17, <1>18, <1>19 DEF IInv

----------------------------------------------------------------------------
(* Theorems.                                                               *)

LEMMA InitIInv == Init => IInv
<1> SUFFICES ASSUME Init PROVE IInv  OBVIOUS
<1>1. host \in HostState /\ host.pc = "down" /\ host.op = 0 /\ issued = 0 /\ net = {}
  BY DEF Init, HostState, Ids
<1>2. target \in TargetState /\ target.saved = NoReply /\ target.last = 0 /\ receive = "open"
  BY DEF Init, TargetState, Ids
<1> QED  BY <1>1, <1>2 DEF IInv, TypeOK, NetOK, TargetOK, HostOK, QueryOK, IdleOK, MineOK

LEMMA NextIInv == IInv /\ [Next]_vars => IInv'
<1> SUFFICES ASSUME IInv, [Next]_vars PROVE IInv'  OBVIOUS
<1>1. CASE Host  BY <1>1, HostKeeps
<1>2. CASE Target  BY <1>2, QueryKeeps, RepeatsKeeps, ExecutesKeeps DEF Target
<1>3. CASE UNCHANGED vars
  BY Zenon, <1>3 DEF vars, IInv, TypeOK, NetOK, DatagramOK, Request, TargetOK, HostOK, QueryOK, IdleOK,
              MineOK, Current, Free
<1> QED  BY <1>1, <1>2, <1>3 DEF Next

(* Everything that is kept of the numbers holds in every reachable state.  *)
THEOREM Invariance == Spec => []IInv
  BY InitIInv, NextIInv, PTL DEF Spec

(* Types hold for every size of the field, every bound and every number of *)
(* attempts.                                                               *)
THEOREM TypeCorrect == Spec => []TypeOK
<1>1. IInv => TypeOK  BY DEF IInv
<1> QED  BY <1>1, Invariance, PTL

(* A call of a session in which no call has given up takes the answer to   *)
(* its own packet, whatever the network repeats, delays or reorders, as    *)
(* long as datagrams live shorter than it takes the numbers to come round. *)
THEOREM AnswersAreMine == Spec => AnswerIsMine
<1>1. IInv /\ [Next]_vars =>
        [\A d \in net : (Accept(d) /\ host' # host /\ host.id = "fastboot" /\ d.id = "fastboot" /\ host.sound)
            => d.op = host.op /\ target.last = host.op]_vars
  <2> SUFFICES ASSUME IInv, NEW d \in net, Accept(d), host.id = "fastboot", host.sound
               PROVE  d.op = host.op /\ target.last = host.op
    OBVIOUS
  <2>1. d.op = target.last /\ host.num = target.next - 1  BY AnswerIsLast
  <2>2. target.next \in Nat  BY DEF IInv, TypeOK, TargetState
  <2>3. MineOK /\ host.pc = "wait"  BY Zenon DEF IInv, Accept, Arrives
  <2> QED  BY <2>1, <2>2, <2>3 DEF MineOK
<1> QED  BY <1>1, Invariance, PTL DEF AnswerIsMine, Spec

(* InitializeProtocol succeeds only with an answer to an initialization    *)
(* that is the last packet the target executed.                            *)
THEOREM SessionsStartClean == Spec => StartsClean
<1>1. IInv /\ [Next]_vars =>
        [host.pc = "wait" /\ host.call = "connect" /\ host'.pc = "idle" => target.lastId = "init"]_vars
  <2> SUFFICES ASSUME IInv, Next, host.pc = "wait", host.call = "connect", host'.pc = "idle"
               PROVE  target.lastId = "init"
    BY DEF vars
  <2>1. host \in HostState  BY DEF IInv, TypeOK
  <2>2. ASSUME NEW h \in HostState, SendNew(h) PROVE FALSE
    BY <2>2 DEF SendNew, HostState
  <2>3. ASSUME NEW h \in HostState, Ends(h) PROVE FALSE
    BY <2>3 DEF Ends, HostState
  <2>4. ASSUME GivesUp PROVE FALSE
    <3>1. [host EXCEPT !.sound = FALSE] \in HostState  BY Zenon, <2>1 DEF HostState
    <3> QED  BY <2>3, <2>4, <3>1 DEF GivesUp, Fails
  <2>5. ~Target  BY Zenon DEF Target, TargetQuery, TargetExecutes, TargetRepeats
  <2>6. ~(Connect \/ Write \/ Read)  BY DEF Connect, Write, Read
  <2>7. ~(SocketFails \/ Stop)  BY <2>1, <2>3, <2>4 DEF SocketFails, Stop
  <2>8. ~Timeout
    <3>1. ASSUME host' = [host EXCEPT !.attempts = @ - 1] PROVE FALSE  BY <2>1, <3>1 DEF HostState
    <3> QED  BY <2>4, <3>1 DEF Timeout
  <2>15. ~Elapses /\ \A d \in net : ~Discard(d)  BY DEF Elapses, Discard
  <2>9. PICK d \in net : \/ AcceptMore(d) \/ AcceptError(d) \/ AcceptQuery(d)
                        \/ AcceptInit(d) \/ AcceptChunk(d) \/ AcceptLast(d)
    BY <2>5, <2>6, <2>7, <2>8, <2>15 DEF Next, Host
  <2>10. Accept(d)
    BY <2>9 DEF AcceptMore, AcceptError, AcceptQuery, AcceptInit, AcceptChunk, AcceptLast
  <2>11. ~(AcceptMore(d) \/ AcceptQuery(d) \/ AcceptChunk(d))
    <3>2. Answered(host, d) \in HostState  BY Zenon, <2>10, AnsweredNumber
    <3>3. [Answered(host, d) EXCEPT !.id = d.id, !.cont = FALSE, !.attempts = Attempts(host.call)] \in HostState
      <4>1. Attempts(host.call) \in Nat /\ d.id \in Ids
        BY UdpAssumption DEF Attempts, IInv, TypeOK, Datagram
      <4> QED  BY Zenon, <3>2, <4>1 DEF HostState
    <3>4. [Answered(host, d) EXCEPT !.id = "init", !.attempts = TransmitAttempts] \in HostState
      BY Zenon, <3>2, UdpAssumption DEF HostState, Ids
    <3>5. ~AcceptMore(d)  BY <2>2, <3>3 DEF AcceptMore
    <3>6. ~AcceptQuery(d)  BY <2>2, <3>4 DEF AcceptQuery
    <3>7. ~AcceptChunk(d)
      BY <2>10 DEF AcceptChunk, Accept, Arrives, Matches, IInv, HostOK
    <3> QED  BY <3>5, <3>6, <3>7
  <2>12. ~AcceptLast(d)
    BY DEF AcceptLast, Accept, Arrives, Matches, IInv, HostOK
  <2>13. ~AcceptError(d)
    <3>1. Answered(host, d) \in HostState  BY Zenon, <2>10, AnsweredNumber
    <3> QED  BY <2>3, <3>1 DEF AcceptError, Fails
  <2>14. d.id = "init" /\ host.id = "init"
    BY <2>9, <2>11, <2>12, <2>13 DEF AcceptInit, Accept, Matches
  <2> QED  BY <2>10, <2>14, AnswerIsLast
<1> QED  BY <1>1, Invariance, PTL DEF StartsClean, Spec

(* A packet is made when nothing is waited for or what is waited for was   *)
(* executed.                                                               *)
LEMMA SendNewMakes ==
  ASSUME IInv, NEW h \in HostState, SendNew(h), Exchange!Answered,
         (host.pc # "down" /\ h.sound = host.sound) \/ (h.sound /\ h.id # "fastboot")
  PROVE  Exchange!Make
<1>1. /\ host'.pc = "wait" /\ host'.op = issued + 1 /\ host'.id = h.id /\ host'.sound = h.sound
      /\ issued' = issued + 1 /\ target' = target
  BY DEF SendNew, HostState
<1>2. h.sound \in BOOLEAN /\ host.sound \in BOOLEAN  BY DEF HostState, IInv, TypeOK
<1>3. CASE h.id = "fastboot"
  <2>1. Waiting' = issued + 1 /\ Trusted' = Trusted  BY <1>1, <1>2, <1>3 DEF Waiting, Trusted
  <2> QED  BY <1>1, <2>1 DEF Exchange!Make
<1>4. CASE h.id # "fastboot"
  <2>1. Waiting' = 0  BY <1>1, <1>4 DEF Waiting
  <2>2. Trusted' \in {Trusted, TRUE}  BY Zenon, <1>1, <1>2 DEF Trusted
  <2> QED  BY Zenon, <1>1, <2>1, <2>2 DEF Exchange!Make
<1> QED  BY <1>3, <1>4

(* A call that gives up, and a session that ends. *)
LEMMA EndFails ==
  ASSUME NEW h \in HostState, Ends(h) \/ (Returns(h) /\ h.sound = FALSE)
  PROVE  Exchange!Fail
<1>1. /\ host'.pc # "wait" /\ issued' = issued /\ target' = target
      /\ host'.pc = "down" \/ host'.sound = FALSE
  BY DEF Ends, Returns, HostState
<1>2. Waiting' = 0 /\ Trusted' = FALSE  BY <1>1 DEF Waiting, Trusted
<1> QED  BY <1>1, <1>2 DEF Exchange!Fail

(* A call that returns with an answer. *)
LEMMA ReturnTakes ==
  ASSUME IInv, host.pc = "wait", NEW h \in HostState, Returns(h), h.sound = host.sound,
         Exchange!Answered
  PROVE  [Exchange!Take]_(Exchange!vars)
<1>1. /\ host'.pc = "idle" /\ host'.sound = host.sound /\ issued' = issued /\ target' = target
  BY DEF Returns, HostState
<1>2. Waiting' = 0 /\ Trusted' = Trusted  BY <1>1 DEF Waiting, Trusted
<1> QED  BY <1>1, <1>2 DEF Exchange!Take, Exchange!vars

(* An answer that is taken for a fastboot packet says it was executed. *)
LEMMA TakenIsAnswered ==
  ASSUME IInv, NEW d \in net, Accept(d)
  PROVE  Exchange!Answered
<1>1. target.next \in Nat  BY DEF IInv, TypeOK, TargetState
<1>2. CASE host.id = "fastboot" /\ host.sound
  <2>1. host.num = target.next - 1  BY <1>2, AnswerIsLast
  <2> QED  BY <1>1, <1>2, <2>1 DEF IInv, MineOK, Accept, Arrives, Waiting, Exchange!Answered
<1>3. CASE ~(host.id = "fastboot" /\ host.sound)
  BY <1>3 DEF Waiting, Trusted, Exchange!Answered
<1> QED  BY <1>2, <1>3

LEMMA HostExchanges ==
  ASSUME IInv, Host
  PROVE  [Exchange!Next]_(Exchange!vars)
<1>1. host \in HostState /\ host.session \in Nat /\ target.next \in Nat
  BY DEF IInv, TypeOK, HostState, TargetState
<1>2. host.pc # "wait" => Exchange!Answered  BY DEF Exchange!Answered, Waiting
<1>3. CASE Connect
  <2> DEFINE h == [host EXCEPT !.session = @ + 1, !.call = "connect", !.id = "query",
                               !.cont = FALSE, !.sequence = 0, !.num = target.next, !.left = 1,
                               !.attempts = ConnectAttempts, !.sound = TRUE]
  <2>1. ConnectAttempts \in Nat /\ host.session + 1 \in Nat  BY <1>1, UdpAssumption
  <2>2. h \in HostState /\ h.sound /\ h.id = "query"  BY Zenon, <1>1, <2>1 DEF HostState, Ids
  <2>3. SendNew(h) /\ Exchange!Answered  BY <1>2, <1>3 DEF Connect
  <2> HIDE DEF h
  <2> QED  BY <2>2, <2>3, SendNewMakes DEF Exchange!Next
<1>4. ASSUME NEW call \in {"write", "read"}, NEW k \in Nat, host.pc = "idle",
             SendNew(Chunk(host, call, k))
      PROVE  Exchange!Next
  <2> DEFINE h == Chunk(host, call, k)
  <2>1. TransmitAttempts \in Nat /\ (k > 1) \in BOOLEAN  BY UdpAssumption
  <2>2. h \in HostState /\ h.sound = host.sound  BY Zenon, <1>1, <2>1 DEF HostState, Ids, Chunk
  <2>3. SendNew(h) /\ Exchange!Answered /\ host.pc # "down"  BY <1>2, <1>4
  <2> HIDE DEF h
  <2> QED  BY <2>2, <2>3, SendNewMakes DEF Exchange!Next
<1>5. CASE Write
  <2>1. PICK k \in 1 .. MaxChunks : SendNew(Chunk(host, "write", k))  BY <1>5 DEF Write
  <2>2. k \in Nat  BY UdpAssumption
  <2> QED  BY <1>4, <1>5, <2>1, <2>2 DEF Write
<1>6. CASE Read  BY <1>4, <1>6 DEF Read
<1>7. ASSUME GivesUp PROVE Exchange!Next
  <2> DEFINE h == [host EXCEPT !.sound = FALSE]
  <2>1. h \in HostState /\ h.sound = FALSE  BY Zenon, <1>1 DEF HostState
  <2>2. Ends(h) \/ (Returns(h) /\ h.sound = FALSE)  BY <1>7, <2>1 DEF GivesUp, Fails
  <2> HIDE DEF h
  <2> QED  BY Zenon, <2>1, <2>2, EndFails DEF Exchange!Next
<1>8. CASE Timeout
  <2>1. CASE GivesUp  BY <1>7, <2>1
  <2>2. CASE host' = [host EXCEPT !.attempts = @ - 1] /\ UNCHANGED <<target, issued>>
    <3>1. host'.pc = host.pc /\ host'.id = host.id /\ host'.op = host.op /\ host'.sound = host.sound
      BY <1>1, <2>2 DEF HostState
    <3> QED  BY <2>2, <3>1 DEF Exchange!vars, Waiting, Trusted
  <2> QED  BY <1>8, <2>1, <2>2 DEF Timeout
<1>9. CASE SocketFails  BY <1>7, <1>9 DEF SocketFails
<1>10. CASE Stop  BY Zenon, <1>1, <1>10, EndFails DEF Stop, Exchange!Next
<1>12. CASE Elapses \/ \E d \in net : Discard(d)
  BY Zenon, <1>12 DEF Elapses, Discard, Exchange!vars, Waiting, Trusted
<1>11. ASSUME NEW d \in net,
              \/ AcceptMore(d) \/ AcceptError(d) \/ AcceptQuery(d)
              \/ AcceptInit(d) \/ AcceptChunk(d) \/ AcceptLast(d)
       PROVE  [Exchange!Next]_(Exchange!vars)
  <2> DEFINE a == Answered(host, d)
  <2>1. Accept(d) /\ d \in Datagram
    BY <1>11 DEF AcceptMore, AcceptError, AcceptQuery, AcceptInit, AcceptChunk, AcceptLast, IInv, TypeOK
  <2>2. /\ a \in HostState /\ a = [host EXCEPT !.sequence = a.sequence, !.num = a.num]
    BY Zenon, <2>1, AnsweredNumber
  <2>3. a.sound = host.sound /\ a.id = host.id  BY Zenon, <1>1, <2>2 DEF HostState
  <2>4. Exchange!Answered  BY <2>1, TakenIsAnswered
  <2>5. /\ d.id \in {host.id, "error"} /\ host.pc = "wait" /\ d.id \in Ids
        /\ host.call \in {"connect", "write", "read"} /\ host.left \in Nat
        /\ Attempts(host.call) \in Nat /\ TransmitAttempts \in Nat
    BY <1>1, <2>1, UdpAssumption DEF Accept, Arrives, Matches, HostState, Datagram, Attempts
  <2> HIDE DEF a
  <2>6. CASE AcceptMore(d)
    <3> DEFINE h == [a EXCEPT !.id = d.id, !.cont = FALSE, !.attempts = Attempts(host.call)]
    <3>1. h \in HostState /\ h.sound = host.sound  BY Zenon, <2>2, <2>3, <2>5 DEF HostState
    <3>2. SendNew(h)  BY <2>6 DEF AcceptMore, a
    <3> HIDE DEF h
    <3> QED  BY <2>4, <2>5, <3>1, <3>2, SendNewMakes DEF Exchange!Next
  <2>7. CASE AcceptError(d)
    BY Zenon, <2>2, <2>3, <2>4, <2>5, <2>7, EndFails, ReturnTakes DEF AcceptError, Fails, Exchange!Next, a
  <2>8. CASE AcceptQuery(d)
    <3> DEFINE h == [a EXCEPT !.id = "init", !.attempts = TransmitAttempts]
    <3>1. h \in HostState /\ h.sound = host.sound  BY Zenon, <2>2, <2>3, <2>5 DEF HostState, Ids
    <3>2. SendNew(h)  BY <2>8 DEF AcceptQuery, a
    <3> HIDE DEF h
    <3> QED  BY <2>4, <2>5, <3>1, <3>2, SendNewMakes DEF Exchange!Next
  <2>9. CASE AcceptInit(d)
    BY Zenon, <2>2, <2>3, <2>4, <2>5, <2>9, EndFails, ReturnTakes DEF AcceptInit, Fails, Exchange!Next, a
  <2>10. CASE AcceptChunk(d)
    <3> DEFINE h == Chunk(a, host.call, host.left - 1)
    <3>1. host.left - 1 \in Nat /\ SendNew(h) /\ (host.left - 1 > 1) \in BOOLEAN
      BY <2>5, <2>10 DEF AcceptChunk, a
    <3>2. h \in HostState /\ h.sound = host.sound
      BY Zenon, <2>2, <2>3, <2>5, <3>1 DEF HostState, Ids, Chunk
    <3> HIDE DEF h
    <3> QED  BY <2>4, <2>5, <3>1, <3>2, SendNewMakes DEF Exchange!Next
  <2>11. CASE AcceptLast(d)
    <3>1. Returns(a)  BY <2>11 DEF AcceptLast, a
    <3> QED  BY <2>2, <2>3, <2>4, <2>5, <3>1, ReturnTakes DEF Exchange!Next
  <2> QED  BY <1>11, <2>6, <2>7, <2>8, <2>9, <2>10, <2>11
<1> QED  BY <1>3, <1>5, <1>6, <1>8, <1>9, <1>10, <1>11, <1>12 DEF Host

LEMMA TargetExchanges ==
  ASSUME IInv, Target
  PROVE  [Exchange!Next]_(Exchange!vars)
<1>1. PICK d \in net : TargetQuery(d) \/ TargetExecutes(d) \/ TargetRepeats(d)  BY DEF Target
<1>2. CASE TargetQuery(d) \/ TargetRepeats(d)
  BY Zenon, <1>2 DEF TargetQuery, TargetRepeats, Exchange!vars, Waiting, Trusted
<1>3. CASE TargetExecutes(d)
  <2>1. d.op > target.last /\ d.op <= issued
    BY <1>3, ExecutedIsNext DEF TargetExecutes, Gets, Request
  <2>2. target'.last = d.op /\ host' = host /\ issued' = issued  BY <1>3 DEF TargetExecutes
  <2>3. target.last \in Nat /\ d.op \in Nat /\ issued \in Nat
    BY DEF IInv, TypeOK, TargetState, Datagram
  <2>4. d.op \in target.last + 1 .. issued  BY <2>1, <2>3
  <2>5. Waiting' = Waiting /\ Trusted' = Trusted  BY <2>2 DEF Waiting, Trusted
  <2>6. Exchange!Execute  BY <2>2, <2>4, <2>5 DEF Exchange!Execute
  <2> QED  BY <2>6 DEF Exchange!Next
<1> QED  BY <1>1, <1>2, <1>3

(* The UDP transport implements the exchange: packets are executed in      *)
(* order and at most once, and a session in which no call gave up goes on  *)
(* only when its packet was executed.                                      *)
THEOREM UdpImplementsExchange == Spec => ImplementsExchange
<1>1. Init => Exchange!Init
  BY DEF Init, Exchange!Init, Waiting, Trusted
<1>2. IInv /\ [Next]_vars => [Exchange!Next]_(Exchange!vars)
  <2>1. ASSUME UNCHANGED vars PROVE UNCHANGED Exchange!vars
    BY <2>1 DEF vars, Exchange!vars, Waiting, Trusted
  <2> QED  BY <2>1, HostExchanges, TargetExchanges DEF Next
<1> QED  BY <1>1, <1>2, Invariance, PTL DEF ImplementsExchange, Exchange!Spec, Spec
=============================================================================
