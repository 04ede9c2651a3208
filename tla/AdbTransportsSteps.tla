------------------------- MODULE AdbTransportsSteps --------------------------
(***************************************************************************)
(* The looper's steps on one transport, and the attempts of the reconnect  *)
(* handler, preserve the invariant of AdbTransports.                       *)
(***************************************************************************)
EXTENDS AdbTransportsInvariant

-----------------------------------------------------------------------------
\* transport_registration_func deletes a transport that nobody else holds.
LEMMA UnregisterStep ==
    ASSUME IInv, Unregister
    PROVE  IInv'
<1>0. /\ reg \in Seq(Tmsg) /\ reg # <<>> /\ reg' = Tail(reg) /\ looper' = "flush"
      /\ looper = "poll"
      /\ UNCHANGED <<kicked, conn, state, connector, runq, running, queue, handler, attempt>>
  BY DEF IInv, TypeOK, Unregister, reconnect
<1>1. PICK t \in Transports :
        t = Head(reg).transport /\ Tail(reg) \in Seq(Tmsg) /\ Names(reg, t)
  <2>1. Head(reg) \in Tmsg /\ Tail(reg) \in Seq(Tmsg)
    BY <1>0, TailElements
  <2> QED  BY <1>0, <2>1, NamesHead DEF Tmsg
<1>2. /\ list' = [list EXCEPT ![t] = "none"]
      /\ mem' = [mem EXCEPT ![t] = "deleted"]
      /\ waitable' = [waitable EXCEPT ![t] = IF @ = "pending" THEN "failed" ELSE @]
      /\ DOMAIN mem = Transports /\ DOMAIN list = Transports
  BY <1>1 DEF IInv, TypeOK, Unregister
<1>3. PICK w \in [Transports -> Places] : PlacedBy(w)
  BY DEF IInv, Placed
<1>4. /\ w[t] = "reg" /\ conn[t] # "running" /\ ~Errs(runq, t) /\ mem[t] = "live"
      /\ connector[t] # "created"
  BY <1>1, <1>3 DEF PlacedBy
<1>5. /\ \A u : Names(reg', u) <=> Names(reg, u) /\ u # t
      /\ NamedOnce(reg')
  BY <1>0, <1>1, NamesTail DEF IInv, Once
<1>6. TypeOK'
  BY <1>0, <1>1, <1>2 DEF IInv, TypeOK
<1>7. Handling'
  BY <1>0 DEF IInv, Handling
<1>8. Once'
  BY <1>0, <1>5 DEF IInv, Once
<1>9. Placed'
  <2> DEFINE v == [w EXCEPT ![t] = "none"]
  <2>1. v \in [Transports -> Places]
    BY DEF Places
  <2>2. PlacedBy(v)'
    BY <1>0, <1>1, <1>2, <1>3, <1>4, <1>5 DEF PlacedBy
  <2> QED  BY <2>1, <2>2, Zenon DEF Placed
<1>10. Connections'
  BY <1>0, <1>1, <1>2 DEF IInv, Connections
<1>11. StartsFresh'
  BY <1>0, TailElements DEF IInv, StartsFresh
<1>12. Packets'
  BY <1>0, <1>2, <1>4 DEF IInv, Packets
<1>13. Listed'
  BY <1>1, <1>2 DEF IInv, Listed, SerialsUnique
<1> QED  BY <1>6, <1>7, <1>8, <1>9, <1>10, <1>11, <1>12, <1>13 DEF IInv

\* transport_registration_func hands a transport to the threads it starts.
LEMMA RegisterStep ==
    ASSUME IInv, Register
    PROVE  IInv'
<1>0. /\ reg \in Seq(Tmsg) /\ reg # <<>> /\ reg' = Tail(reg) /\ looper' = "flush"
      /\ looper = "poll"
      /\ UNCHANGED <<mem, kicked, state, waitable, connector, runq, running, queue,
                     handler, attempt>>
  BY DEF IInv, TypeOK, Register, reconnect
<1>1. PICK t \in Transports :
        t = Head(reg).transport /\ Tail(reg) \in Seq(Tmsg) /\ Names(reg, t)
  <2>1. Head(reg) \in Tmsg /\ Tail(reg) \in Seq(Tmsg)
    BY <1>0, TailElements
  <2> QED  BY <1>0, <2>1, NamesHead DEF Tmsg
<1>2. /\ list' = [list EXCEPT ![t] = IF @ = "pending" THEN "transports" ELSE @]
      /\ conn' = [conn EXCEPT ![t] = "running"]
      /\ DOMAIN conn = Transports /\ DOMAIN list = Transports
  BY <1>1 DEF IInv, TypeOK, Register
<1>3. PICK w \in [Transports -> Places] : PlacedBy(w)
  BY DEF IInv, Placed
<1>4. w[t] = "reg" /\ mem[t] = "live" /\ connector[t] # "created"
  BY <1>1, <1>3 DEF PlacedBy
<1>5. /\ \A u : Names(reg', u) <=> Names(reg, u) /\ u # t
      /\ NamedOnce(reg')
  BY <1>0, <1>1, NamesTail DEF IInv, Once
<1>6. TypeOK'
  BY <1>0, <1>1, <1>2 DEF IInv, TypeOK
<1>7. Handling'
  BY <1>0 DEF IInv, Handling
<1>8. Once'
  BY <1>0, <1>5 DEF IInv, Once
<1>9. Placed'
  <2> DEFINE v == [w EXCEPT ![t] = "conn"]
  <2>1. v \in [Transports -> Places]
    BY DEF Places
  <2>2. PlacedBy(v)'
    BY <1>0, <1>1, <1>2, <1>3, <1>4, <1>5 DEF PlacedBy
  <2> QED  BY <2>1, <2>2, Zenon DEF Placed
<1>10. Connections'
  BY <1>0, <1>1, <1>2, <1>4 DEF IInv, Connections
<1>11. StartsFresh'
  <2> SUFFICES ASSUME NEW i \in DOMAIN reg', reg'[i].action = "REGISTER"
               PROVE  conn'[reg'[i].transport] = "fresh"
    BY DEF StartsFresh
  <2>1. PICK j \in DOMAIN reg : reg'[i] = reg[j]
    BY <1>0, TailElements
  <2>2. conn[reg[j].transport] = "fresh"
    BY <2>1 DEF IInv, StartsFresh
  <2>3. reg'[i].transport # t
    BY <1>5 DEF Names
  <2> QED  BY <1>2, <2>1, <2>2, <2>3
<1>12. Packets'
  BY <1>0 DEF IInv, Packets
<1>13. Listed'
  BY <1>0, <1>1, <1>2 DEF IInv, Listed, SerialsUnique
<1> QED  BY <1>6, <1>7, <1>8, <1>9, <1>10, <1>11, <1>12, <1>13 DEF IInv

\* handle_packet changes no custody.
LEMMA PacketStep ==
    ASSUME IInv, RunPacket
    PROVE  IInv'
<1>0. /\ runq \in Seq(Closure) /\ runq # <<>> /\ runq' = Tail(runq)
      /\ looper = "flush" /\ Head(runq).runs = "packet"
      /\ UNCHANGED <<mem, list, kicked, conn, connector, reg, looper, running, queue,
                     handler, attempt>>
  BY DEF IInv, TypeOK, RunPacket, reconnect
<1>1. PICK t \in Transports : t = Head(runq).transport /\ Tail(runq) \in Seq(Closure)
  <2>1. Head(runq) \in Closure /\ Tail(runq) \in Seq(Closure)
    BY <1>0, TailElements
  <2> QED  BY <2>1 DEF Closure
<1>2. /\ state' = [state EXCEPT ![t] = "device"]
      /\ waitable' = [waitable EXCEPT ![t] = IF @ = "pending" THEN "established" ELSE @]
  BY <1>1 DEF RunPacket
<1>3. PICK w \in [Transports -> Places] : PlacedBy(w)
  BY DEF IInv, Placed
<1>4. /\ \A u \in Transports : Errs(runq', u) <=> Errs(runq, u)
      /\ ErrOnce(runq')
      /\ \A i \in DOMAIN runq' : \E j \in DOMAIN runq : runq'[i] = runq[j]
  BY <1>0, ErrsTail, Closures, SMTT(40) DEF IInv, Once
<1>5. TypeOK'
  BY <1>0, <1>1, <1>2 DEF IInv, TypeOK
<1>6. Handling'
  BY <1>0 DEF IInv, Handling
<1>7. Once'
  BY <1>0, <1>4 DEF IInv, Once
<1>8. Placed'
  <2>1. PlacedBy(w)'
    BY <1>0, <1>3, <1>4 DEF PlacedBy
  <2> QED  BY <2>1 DEF Placed
<1>9. Connections'
  BY <1>0, <1>4 DEF IInv, Connections
<1>10. StartsFresh'
  BY <1>0 DEF IInv, StartsFresh
<1>11. Packets'
  BY <1>0, <1>4 DEF IInv, Packets
<1>12. Listed'
  BY <1>0 DEF IInv, Listed, SerialsUnique
<1> QED  BY <1>5, <1>6, <1>7, <1>8, <1>9, <1>10, <1>11, <1>12 DEF IInv

\* An attempt of the reconnect handler.
LEMMA AttemptType ==
    ASSUME NEW t \in Transports, NEW n \in 0..MaxAttempts
    PROVE  /\ [transport |-> t, left |-> n] \in Attempt
           /\ [transport |-> t, left |-> n].transport = t
  BY DEF Attempt

\* transport_destroy hands the transport to the registration socket or to the
\* reconnect handler.
LEMMA ErrorStep ==
    ASSUME IInv, RunError
    PROVE  IInv'
<1>0. /\ runq \in Seq(Closure) /\ runq # <<>> /\ runq' = Tail(runq)
      /\ looper = "flush" /\ Head(runq).runs = "error"
      /\ conn \in [Transports -> {"fresh", "running", "failed", "stopped"}]
      /\ UNCHANGED <<mem, list, kicked, waitable, connector, looper, running, attempt>>
      /\ reg \in Seq(Tmsg) /\ running
  BY DEF IInv, TypeOK, Handling, RunError
<1>1. PICK t \in Transports :
        /\ t = Head(runq).transport
        /\ Tail(runq) \in Seq(Closure)
        /\ Head(runq) = HandleError(t)
  <2>1. Head(runq) \in Closure /\ Tail(runq) \in Seq(Closure)
    BY <1>0, TailElements
  <2> QED  BY <1>0, <2>1, Closures DEF Closure
<1>2. /\ state' = [state EXCEPT ![t] = "offline"]
      /\ conn' = [u \in Transports |-> IF u \in {t} /\ conn[u] # "fresh" THEN "stopped" ELSE conn[u]]
      /\ transport_destroy(t)
  BY <1>1 DEF RunError, Stop
<1>3. PICK w \in [Transports -> Places] : PlacedBy(w)
  BY DEF IInv, Placed
<1>4. /\ w[t] = "runq" /\ mem[t] = "live" /\ conn[t] # "running"
      /\ ~Names(reg, t) /\ ~Queued(queue, t) /\ connector[t] # "created"
  <2>1. Errs(runq, t)
    BY <1>0, <1>1 DEF Errs
  <2> QED  BY <1>1, <1>3, <2>1 DEF PlacedBy
<1>5. /\ \A u \in Transports : Errs(runq', u) <=> Errs(runq, u) /\ u # t
      /\ ErrOnce(runq')
      /\ \A i \in DOMAIN runq' : \E j \in DOMAIN runq : runq'[i] = runq[j]
  <2>1. \A u \in Transports : Head(runq) = HandleError(u) <=> u = t
    BY <1>1, Closures
  <2>2. ErrOnce(runq)
    BY DEF IInv, Once
  <2> QED  BY <1>0, <2>1, <2>2, ErrsTail
<1> DEFINE a == [transport |-> t, left |-> MaxAttempts]
<1>6. a \in Attempt /\ a.transport = t
  BY <1>1, AttemptType, TransportsAssumption
<1>7. \/ /\ reg' = Append(reg, UNREGISTER(t)) /\ UNCHANGED <<queue, handler>>
      \/ /\ queue' = queue \cup {a} /\ handler' = Notified /\ UNCHANGED reg
  BY <1>0, <1>2 DEF transport_destroy
<1>8. /\ \A u \in Transports : conn'[u] = "running" <=> conn[u] = "running"
      /\ \A u \in Transports : conn'[u] = "failed" => conn[u] = "failed" /\ u # t
      /\ \A u \in Transports : conn'[u] = "fresh" <=> conn[u] = "fresh"
      /\ conn' \in [Transports -> {"fresh", "running", "failed", "stopped"}]
  BY <1>0, <1>1, <1>2, <1>4
<1> HIDE DEF a
<1>9. TypeOK'
  <2>1. reg' \in Seq(Tmsg)
    <3>1. UNREGISTER(t) \in Tmsg
      BY Messages
    <3>2. Append(reg, UNREGISTER(t)) \in Seq(Tmsg)
      BY <1>0, <3>1
    <3> QED  BY <1>0, <1>7, <3>2, ZenonT(30)
  <2>2. queue' \in SUBSET Attempt
    BY <1>6, <1>7 DEF IInv, TypeOK
  <2>3. handler' \in {"top", "waiting", "sleeping", "woken", "scanned", "reconnecting", "returned"}
    BY <1>7 DEF IInv, TypeOK, Notified
  <2>4. runq' \in Seq(Closure) /\ state' \in [Transports -> {"offline", "device"}]
    BY <1>0, <1>1, <1>2 DEF IInv, TypeOK
  <2> QED  BY <1>0, <1>8, <2>1, <2>2, <2>3, <2>4 DEF IInv, TypeOK
<1>10. Handling'
  BY <1>0, <1>7 DEF IInv, Handling, Notified
<1>11. /\ NamedOnce(reg') /\ TransportsOnce(queue')
       /\ StartsFresh'
  <2>1. CASE reg' = Append(reg, UNREGISTER(t)) /\ UNCHANGED <<queue, handler>>
    <3>1. NamedOnce(reg')
      BY <1>0, <1>1, <1>4, <2>1, NamesAppend, Messages DEF IInv, Once
    <3>2. StartsFresh'
      <4> SUFFICES ASSUME NEW i \in DOMAIN reg', reg'[i].action = "REGISTER"
                   PROVE  conn'[reg'[i].transport] = "fresh"
        BY DEF StartsFresh
      <4>1. i \in DOMAIN reg /\ reg'[i] = reg[i]
        BY <1>0, <1>1, <2>1, AppendElements, Messages, SMTT(40)
      <4>2. reg[i] \in Tmsg
        BY <1>0, <4>1
      <4>3. reg[i].transport \in Transports
        BY <4>2 DEF Tmsg
      <4> QED  BY <1>8, <4>1, <4>3 DEF IInv, StartsFresh
    <3> QED  BY <2>1, <3>1, <3>2 DEF IInv, Once
  <2>2. CASE queue' = queue \cup {a} /\ UNCHANGED reg
    <3>1. TransportsOnce(queue')
      BY <1>4, <1>6, <2>2 DEF IInv, Once, TransportsOnce, Queued
    <3>2. StartsFresh'
      <4> SUFFICES ASSUME NEW i \in DOMAIN reg, reg[i].action = "REGISTER"
                   PROVE  conn'[reg[i].transport] = "fresh"
        BY <2>2 DEF StartsFresh
      <4>1. reg[i] \in Tmsg
        BY <1>0
      <4>2. reg[i].transport \in Transports
        BY <4>1 DEF Tmsg
      <4> QED  BY <1>8, <4>2 DEF IInv, StartsFresh
    <3> QED  BY <2>2, <3>1, <3>2 DEF IInv, Once
  <2> QED  BY <1>7, <2>1, <2>2
<1>12. Once'
  BY <1>0, <1>5, <1>11 DEF IInv, Once
<1>13. Placed'
  <2>1. CASE reg' = Append(reg, UNREGISTER(t)) /\ UNCHANGED queue
    <3> DEFINE v == [w EXCEPT ![t] = "reg"]
    <3>1. v \in [Transports -> Places]
      BY DEF Places
    <3>2. \A u : Names(reg', u) <=> Names(reg, u) \/ u = t
      BY <1>0, <2>1, NamesAppend, Messages, SMTT(40)
    <3>3. PlacedBy(v)'
      BY <1>0, <1>1, <1>3, <1>4, <1>5, <1>8, <2>1, <3>2, SMTT(40) DEF PlacedBy
    <3> QED  BY <3>1, <3>3, Zenon DEF Placed
  <2>2. CASE queue' = queue \cup {a} /\ UNCHANGED reg
    <3> DEFINE v == [w EXCEPT ![t] = "queue"]
    <3>1. v \in [Transports -> Places]
      BY DEF Places
    <3>2. \A u : Queued(queue', u) <=> Queued(queue, u) \/ u = t
      BY <1>6, <2>2 DEF Queued
    <3>3. PlacedBy(v)'
      <4> SUFFICES ASSUME NEW u \in Transports
                   PROVE  /\ Names(reg, u) <=> v[u] = "reg"
                          /\ Errs(runq', u) <=> v[u] = "runq"
                          /\ Queued(queue', u) <=> v[u] = "queue"
                          /\ Queued(attempt, u) <=> v[u] = "attempt"
                          /\ conn'[u] = "running" <=> v[u] = "conn"
                          /\ connector[u] = "created" <=> v[u] = "connector"
                          /\ mem[u] = "live" <=> v[u] # "none"
        BY <1>0, <2>2, Zenon DEF PlacedBy
      <4>1. CASE u = t
        BY <1>3, <1>4, <1>5, <1>8, <3>2, <4>1 DEF PlacedBy
      <4>2. CASE u # t
        BY <1>3, <1>5, <1>8, <3>2, <4>2 DEF PlacedBy
      <4> QED  BY <4>1, <4>2
    <3> QED  BY <3>1, <3>3, Zenon DEF Placed
  <2> QED  BY <1>7, <2>1, <2>2
<1>14. Connections'
  BY <1>0, <1>5, <1>8 DEF IInv, Connections
<1>15. Packets'
  BY <1>0, <1>5 DEF IInv, Packets
<1>16. Listed'
  BY <1>0 DEF IInv, Listed, SerialsUnique
<1> QED  BY <1>9, <1>10, <1>11, <1>12, <1>13, <1>14, <1>15, <1>16 DEF IInv

\* Taking an attempt moves its transport out of the queue.
LEMMA TakesStep ==
    ASSUME IInv, NEW t \in Transports, RunTakes(t)
    PROVE  IInv'
<1>0. /\ handler = "scanned" /\ handler' = "reconnecting"
      /\ UNCHANGED <<mem, list, kicked, conn, state, waitable, connector, reg, runq, looper,
                     running>>
  BY DEF RunTakes, life
<1>1. PICK a \in queue : a.transport = t /\ queue' = queue \ {a} /\ attempt' = {a}
  BY DEF RunTakes
<1>2. a \in Attempt /\ attempt = {}
  BY <1>0 DEF IInv, TypeOK, Handling
<1>3. PICK w \in [Transports -> Places] : PlacedBy(w)
  BY DEF IInv, Placed
<1>4. /\ \A u : Queued(queue', u) <=> Queued(queue, u) /\ u # t
      /\ \A u : Queued(attempt', u) <=> u = t
      /\ Queued(queue, t)
  BY <1>1 DEF IInv, Once, TransportsOnce, Queued
<1>5. w[t] = "queue" /\ \A u : ~Queued(attempt, u)
  BY <1>2, <1>3, <1>4 DEF PlacedBy, Queued
<1>6. TypeOK'
  BY <1>0, <1>1, <1>2 DEF IInv, TypeOK
<1>7. Handling'
  BY <1>0 DEF IInv, Handling
<1>8. Once'
  BY <1>0, <1>1 DEF IInv, Once, TransportsOnce
<1>9. Placed'
  <2> DEFINE v == [w EXCEPT ![t] = "attempt"]
  <2>1. v \in [Transports -> Places]
    BY DEF Places
  <2>2. PlacedBy(v)'
    BY <1>0, <1>3, <1>4, <1>5 DEF PlacedBy
  <2> QED  BY <2>1, <2>2, Zenon DEF Placed
<1>10. Connections' /\ StartsFresh' /\ Packets' /\ Listed'
  BY <1>0, ZenonT(30) DEF IInv, Connections, StartsFresh, Packets, Listed, SerialsUnique
<1> QED  BY <1>6, <1>7, <1>8, <1>9, <1>10 DEF IInv

\* The transport in hand is given up: no more attempts, or an emulator.
LEMMA GiveUpStep ==
    ASSUME IInv, NEW a \in attempt, handler = "reconnecting",
           reg' = Append(reg, UNREGISTER(a.transport)),
           attempt' = {}, handler' = "top",
           UNCHANGED <<mem, list, kicked, conn, state, waitable, connector, runq, looper,
                       running, queue>>
    PROVE  IInv'
<1>1. PICK t \in Transports : t = a.transport
  <2>1. a \in Attempt
    BY DEF IInv, TypeOK
  <2> QED  BY <2>1 DEF Attempt
<1>2. UNREGISTER(t) \in Tmsg /\ reg \in Seq(Tmsg) /\ reg' = Append(reg, UNREGISTER(t))
  BY <1>1, Messages DEF IInv, TypeOK
<1>3. PICK w \in [Transports -> Places] : PlacedBy(w)
  BY DEF IInv, Placed
<1>4. \A u : Queued(attempt, u) <=> u = t
  BY <1>1 DEF IInv, Once, TransportsOnce, Queued
<1>5. w[t] = "attempt" /\ ~Names(reg, t) /\ \A u : ~Queued(attempt', u)
  BY <1>3, <1>4, SMTT(40) DEF PlacedBy, Queued
<1>6. /\ \A u : Names(reg', u) <=> Names(reg, u) \/ u = t
      /\ NamedOnce(reg')
  BY <1>2, <1>5, Messages, NamesAppend, SMTT(40) DEF IInv, Once
<1>7. TypeOK'
  <2>1. reg' \in Seq(Tmsg)
    BY <1>2
  <2> QED  BY <2>1 DEF IInv, TypeOK
<1>8. Handling'
  BY DEF IInv, Handling
<1>9. Once'
  BY <1>6 DEF IInv, Once, TransportsOnce
<1>10. Placed'
  <2> DEFINE v == [w EXCEPT ![t] = "reg"]
  <2>1. v \in [Transports -> Places]
    BY DEF Places
  <2>2. PlacedBy(v)'
    BY <1>3, <1>4, <1>5, <1>6, ZenonT(30) DEF PlacedBy
  <2> QED  BY <2>1, <2>2, Zenon DEF Placed
<1>11. Connections' /\ Packets' /\ Listed'
  BY DEF IInv, Connections, Packets, Listed, SerialsUnique
<1>12. StartsFresh'
  BY <1>2, Messages, AppendElements, SMTT(40) DEF IInv, StartsFresh
<1> QED  BY <1>7, <1>8, <1>9, <1>10, <1>11, <1>12 DEF IInv

\* The transport in hand goes back to the queue.
LEMMA RequeueStep ==
    ASSUME IInv, NEW a \in attempt, NEW b \in Attempt, handler = "reconnecting",
           b.transport = a.transport, queue' = queue \cup {b},
           attempt' = {}, handler' = "top",
           UNCHANGED <<mem, list, kicked, conn, state, waitable, connector, reg, runq,
                       looper, running>>
    PROVE  IInv'
<1>1. PICK t \in Transports : t = a.transport
  <2>1. a \in Attempt
    BY DEF IInv, TypeOK
  <2> QED  BY <2>1 DEF Attempt
<1>2. PICK w \in [Transports -> Places] : PlacedBy(w)
  BY DEF IInv, Placed
<1>3. \A u : Queued(attempt, u) <=> u = t
  BY <1>1, ZenonT(30) DEF IInv, Once, TransportsOnce, Queued
<1>4. w[t] = "attempt" /\ ~Queued(queue, t) /\ \A u : ~Queued(attempt', u)
  BY <1>2, <1>3, SMTT(40) DEF PlacedBy, Queued
<1>5. \A u : Queued(queue', u) <=> Queued(queue, u) \/ u = t
  BY <1>1 DEF Queued
<1>6. TypeOK' /\ Handling'
  BY DEF IInv, TypeOK, Handling
<1>7. Once'
  BY <1>1, <1>4, ZenonT(30) DEF IInv, Once, TransportsOnce, Queued
<1>8. Placed'
  <2> DEFINE v == [w EXCEPT ![t] = "queue"]
  <2>1. v \in [Transports -> Places]
    BY ZenonT(30) DEF Places
  <2>2. PlacedBy(v)'
    BY <1>2, <1>3, <1>4, <1>5, Zenon DEF PlacedBy
  <2> QED  BY <2>1, <2>2, Zenon DEF Placed
<1>9. Connections' /\ StartsFresh' /\ Packets' /\ Listed'
  BY DEF IInv, Connections, StartsFresh, Packets, Listed, SerialsUnique
<1> QED  BY <1>6, <1>7, <1>8, <1>9 DEF IInv

\* A failed attempt goes back to the queue, or its transport is removed.
LEMMA RetriesStep ==
    ASSUME IInv, ReconnectRetries
    PROVE  IInv'
<1>1. PICK a \in attempt :
        IF a.left = 0
        THEN reg' = Append(reg, UNREGISTER(a.transport)) /\ UNCHANGED queue
        ELSE queue' = queue \cup {[a EXCEPT !.left = @ - 1]} /\ UNCHANGED reg
  BY DEF ReconnectRetries
<1>2. /\ handler = "reconnecting" /\ attempt' = {} /\ handler' = "top"
      /\ UNCHANGED <<mem, list, kicked, conn, state, waitable, connector, runq, looper, running>>
  BY DEF ReconnectRetries, life
<1>3. CASE a.left = 0
  BY <1>1, <1>2, <1>3, GiveUpStep
<1>4. CASE a.left # 0
  <2> DEFINE n == a.left - 1
             b == [a EXCEPT !.left = n]
  <2>1. a \in Attempt
    BY DEF IInv, TypeOK
  <2>2. n \in 0..MaxAttempts
    BY <1>4, <2>1, TransportsAssumption DEF Attempt
  <2> HIDE DEF n
  <2>3. b \in Attempt /\ b.transport = a.transport
    BY <2>1, <2>2 DEF Attempt
  <2>4. queue' = queue \cup {b} /\ UNCHANGED reg
    BY <1>1, <1>4 DEF n
  <2> HIDE DEF b
  <2> QED  BY <1>2, <2>3, <2>4, RequeueStep, ZenonT(30)
<1> QED  BY <1>3, <1>4

\* A callback that gives up has its transport removed.
LEMMA AbortsStep ==
    ASSUME IInv, ReconnectAborts
    PROVE  IInv'
<1>1. PICK a \in attempt : reg' = Append(reg, UNREGISTER(a.transport))
  BY DEF ReconnectAborts
<1> QED  BY <1>1, GiveUpStep DEF ReconnectAborts, life

\* A reconnected transport goes back to the registration socket with a fresh
\* connection.
LEMMA SucceedsStep ==
    ASSUME IInv, ReconnectSucceeds
    PROVE  IInv'
<1>0. PICK a \in attempt : /\ conn' = [conn EXCEPT ![a.transport] = "fresh"]
                           /\ reg' = Append(reg, REGISTER(a.transport))
  BY Zenon DEF ReconnectSucceeds
<1>1. PICK t \in Transports : t = a.transport
  <2>1. a \in Attempt
    BY DEF IInv, TypeOK
  <2> QED  BY <2>1 DEF Attempt
<1>2. /\ REGISTER(t) \in Tmsg /\ reg \in Seq(Tmsg) /\ reg' = Append(reg, REGISTER(t))
      /\ conn' = [conn EXCEPT ![t] = "fresh"] /\ DOMAIN conn = Transports
      /\ handler = "reconnecting" /\ handler' = "top" /\ attempt' = {}
      /\ UNCHANGED <<mem, list, kicked, state, waitable, connector, runq, looper, running, queue>>
  BY <1>0, <1>1, Messages, Zenon DEF IInv, TypeOK, ReconnectSucceeds
<1>3. PICK w \in [Transports -> Places] : PlacedBy(w)
  BY DEF IInv, Placed
<1>4. \A u : Queued(attempt, u) <=> u = t
  BY <1>1 DEF IInv, Once, TransportsOnce, Queued
<1>5. /\ w[t] = "attempt" /\ ~Names(reg, t) /\ \A u : ~Queued(attempt', u)
      /\ conn[t] # "running"
  BY <1>2, <1>3, <1>4, SMTT(40) DEF PlacedBy, Queued
<1>6. /\ \A u : Names(reg', u) <=> Names(reg, u) \/ u = t
      /\ NamedOnce(reg')
  BY <1>2, <1>5, Messages, NamesAppend, SMTT(40) DEF IInv, Once
<1>7. TypeOK'
  <2>1. reg' \in Seq(Tmsg)
    BY <1>2
  <2> QED  BY <1>2, <2>1 DEF IInv, TypeOK
<1>8. Handling'
  BY <1>2 DEF IInv, Handling
<1>9. Once'
  BY <1>2, <1>6 DEF IInv, Once, TransportsOnce
<1>10. Placed'
  <2> DEFINE v == [w EXCEPT ![t] = "reg"]
  <2>1. v \in [Transports -> Places]
    BY DEF Places
  <2>2. PlacedBy(v)'
    BY <1>2, <1>3, <1>4, <1>5, <1>6, ZenonT(30) DEF PlacedBy
  <2> QED  BY <2>1, <2>2, Zenon DEF Placed
<1>11. /\ UNCHANGED <<mem, list, connector, runq, looper>>
       /\ \A u \in Transports : conn'[u] = IF u = t THEN "fresh" ELSE conn[u]
  <2>1. UNCHANGED <<mem, list, connector, runq, looper>>
    BY <1>2
  <2>2. conn' = [conn EXCEPT ![t] = "fresh"] /\ DOMAIN conn = Transports
    BY <1>2
  <2>3. \A u \in Transports : conn'[u] = IF u = t THEN "fresh" ELSE conn[u]
    BY <2>2
  <2> QED  BY <2>1, <2>3
<1>12. Connections' /\ Listed'
  <2>1. Connections /\ Listed
    BY DEF IInv
  <2> QED  BY <1>11, <2>1 DEF Connections, Listed, SerialsUnique
<1>13. Packets'
  <2>1. Packets /\ runq \in Seq(Closure) /\ conn[t] # "running"
    BY <1>5 DEF IInv, TypeOK
  <2>2. ASSUME NEW i \in DOMAIN runq PROVE runq[i].transport \in Transports
    <3>1. runq[i] \in Closure
      BY <2>1
    <3> QED  BY <3>1 DEF Closure
  <2> QED  BY <1>11, <2>1, <2>2 DEF Packets
<1>14. StartsFresh'
  <2>1. REGISTER(t) \in Tmsg /\ reg \in Seq(Tmsg) /\ reg' = Append(reg, REGISTER(t))
    BY <1>2
  <2>2. \A i \in DOMAIN reg' :
           reg'[i] = REGISTER(t) \/ (i \in DOMAIN reg /\ reg'[i] = reg[i])
    BY <2>1, AppendElements
  <2>3. ASSUME NEW i \in DOMAIN reg PROVE reg[i].transport \in Transports
    <3>1. reg[i] \in Tmsg
      BY <2>1
    <3> QED  BY <3>1 DEF Tmsg
  <2>4. StartsFresh /\ REGISTER(t).transport = t
    BY Messages DEF IInv
  <2> QED  BY <1>11, <2>2, <2>3, <2>4 DEF StartsFresh
<1> QED  BY <1>7, <1>8, <1>9, <1>10, <1>12, <1>13, <1>14 DEF IInv

=============================================================================
