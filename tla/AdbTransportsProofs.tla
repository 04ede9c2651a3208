------------------------- MODULE AdbTransportsProofs -------------------------
(***************************************************************************)
(* Proofs about AdbTransports, for any number of transports, serials and   *)
(* attempts: every live transport has exactly one custodian, and no        *)
(* closure outlives its transport.                                         *)
(***************************************************************************)
EXTENDS AdbTransportsSteps

-----------------------------------------------------------------------------
\* Attempts that leave the queue become unregistrations.
LEMMA RemovalFacts ==
    ASSUME IInv, NEW gone \in SUBSET queue,
           \E s \in Orders({a.transport : a \in gone}) : reg' = reg \o UNREGISTERs(s),
           queue' = queue \ gone
    PROVE  /\ reg' \in Seq(Tmsg)
           /\ queue' \in SUBSET Attempt
           /\ NamedOnce(reg')
           /\ TransportsOnce(queue')
           /\ \A u : Names(reg', u) <=> Names(reg, u) \/ Queued(gone, u)
           /\ \A u : Queued(queue', u) <=> Queued(queue, u) /\ ~Queued(gone, u)
           /\ \A i \in DOMAIN reg' :
                 \/ reg'[i].action = "UNREGISTER"
                 \/ i \in DOMAIN reg /\ reg'[i] = reg[i]
<1> DEFINE T == {a.transport : a \in gone}
<1>1. queue \in SUBSET Attempt /\ reg \in Seq(Tmsg) /\ NamedOnce(reg) /\ TransportsOnce(queue)
  BY DEF IInv, TypeOK, Once
<1>2. T \in SUBSET Transports
  BY <1>1 DEF Attempt
<1>3. \A u : u \in T <=> Queued(gone, u)
  BY DEF Queued
<1>4. PICK s \in Orders(T) : reg' = reg \o UNREGISTERs(s)
  BY Zenon
<1>5. PICK w \in [Transports -> Places] : PlacedBy(w)
  BY DEF IInv, Placed
<1>6. \A u \in T : ~Names(reg, u)
  <2>1. \A u \in T : Queued(queue, u)
    BY <1>3 DEF Queued
  <2> QED  BY <1>2, <1>5, <2>1 DEF PlacedBy
<1> HIDE DEF T
<1>7. /\ reg \o UNREGISTERs(s) \in Seq(Tmsg)
      /\ \A u : Names(reg \o UNREGISTERs(s), u) <=> Names(reg, u) \/ u \in T
      /\ NamedOnce(reg \o UNREGISTERs(s))
      /\ \A i \in DOMAIN (reg \o UNREGISTERs(s)) :
            \/ (reg \o UNREGISTERs(s))[i].action = "UNREGISTER"
            \/ i \in DOMAIN reg /\ (reg \o UNREGISTERs(s))[i] = reg[i]
  BY <1>1, <1>2, <1>6, NamesConcat
<1>8. /\ TransportsOnce(queue')
      /\ \A u : Queued(queue', u) <=> Queued(queue, u) /\ ~Queued(gone, u)
      /\ queue' \in SUBSET Attempt
  BY <1>1 DEF TransportsOnce, Queued
<1> QED  BY <1>3, <1>4, <1>7, <1>8, Zenon

\* The scan of the reconnect queue removes every kicked transport once.
LEMMA ScansStep ==
    ASSUME IInv, RunScans
    PROVE  IInv'
<1> DEFINE gone == {a \in queue : kicked[a.transport]}
<1>0. /\ \E s \in Orders({a.transport : a \in gone}) : reg' = reg \o UNREGISTERs(s)
      /\ queue' = queue \ gone
      /\ handler = "woken" /\ handler' \in {"top", "scanned"}
      /\ UNCHANGED <<mem, list, kicked, conn, state, waitable, connector, runq, looper,
                     running, attempt>>
  BY Zenon DEF RunScans, life
<1>1. PICK left \in SUBSET queue : left = gone
  BY Zenon
<1> HIDE DEF gone
<1>2. /\ reg' \in Seq(Tmsg)
      /\ queue' \in SUBSET Attempt
      /\ NamedOnce(reg')
      /\ TransportsOnce(queue')
      /\ \A u : Names(reg', u) <=> Names(reg, u) \/ Queued(left, u)
      /\ \A u : Queued(queue', u) <=> Queued(queue, u) /\ ~Queued(left, u)
      /\ \A i \in DOMAIN reg' :
            \/ reg'[i].action = "UNREGISTER"
            \/ i \in DOMAIN reg /\ reg'[i] = reg[i]
  BY <1>0, <1>1, RemovalFacts, Zenon
<1>3. PICK w \in [Transports -> Places] : PlacedBy(w)
  BY DEF IInv, Placed
<1>4. \A u : Queued(left, u) => Queued(queue, u)
  BY DEF Queued
<1>5. TypeOK'
  BY <1>0, <1>2 DEF IInv, TypeOK
<1>6. Handling'
  BY <1>0 DEF IInv, Handling
<1>7. Once'
  BY <1>0, <1>2 DEF IInv, Once
<1>8. Placed'
  <2> DEFINE v == [u \in Transports |-> IF Queued(left, u) THEN "reg" ELSE w[u]]
  <2>1. v \in [Transports -> Places]
    BY DEF Places
  <2>2. PlacedBy(v)'
    BY <1>0, <1>2, <1>3, <1>4, ZenonT(40) DEF PlacedBy
  <2> QED  BY <2>1, <2>2 DEF Placed
<1>9. Connections' /\ Packets' /\ Listed'
  BY <1>0 DEF IInv, Connections, Packets, Listed, SerialsUnique
<1>10. StartsFresh'
  BY <1>0, <1>2 DEF IInv, StartsFresh
<1> QED  BY <1>5, <1>6, <1>7, <1>8, <1>9, <1>10 DEF IInv

\* A kick turns running connections into error closures.
LEMMA KickFacts ==
    ASSUME IInv, NEW S \in SUBSET Transports, Kick(S)
    PROVE  \E F \in SUBSET Transports :
           /\ kicked' \in [Transports -> BOOLEAN]
           /\ conn' \in [Transports -> {"fresh", "running", "failed", "stopped"}]
           /\ runq' \in Seq(Closure)
           /\ ErrOnce(runq')
           /\ \A u \in F : conn[u] = "running"
           /\ \A u \in Transports :
                 /\ Errs(runq', u) <=> Errs(runq, u) \/ u \in F
                 /\ conn'[u] = "running" <=> conn[u] = "running" /\ u \notin F
                 /\ conn'[u] = "failed" => conn[u] = "failed"
                 /\ conn'[u] = "fresh" <=> conn[u] = "fresh"
           /\ \A i \in DOMAIN runq' : mem[runq'[i].transport] = "live"
<1> DEFINE first == {t \in S : ~kicked[t]}
           F == {t \in first : conn[t] = "running"}
<1>1. /\ kicked \in [Transports -> BOOLEAN]
      /\ conn \in [Transports -> {"fresh", "running", "failed", "stopped"}]
      /\ runq \in Seq(Closure) /\ ErrOnce(runq)
  BY DEF IInv, TypeOK, Once
<1>2. /\ conn' = [t \in Transports |->
                     IF t \in first /\ conn[t] # "fresh" THEN "stopped" ELSE conn[t]]
      /\ kicked' = [t \in Transports |-> kicked[t] \/ t \in S]
  BY DEF Kick, Stop
<1>3. PICK s \in Orders(F) : runq' = runq \o HandleErrors(s)
  BY Zenon DEF Kick, StopReports
<1>4. F \in SUBSET Transports /\ first \in SUBSET Transports
  OBVIOUS
<1>5. PICK w \in [Transports -> Places] : PlacedBy(w)
  BY DEF IInv, Placed
<1>6. \A u \in F : ~Errs(runq, u) /\ mem[u] = "live"
  BY <1>4, <1>5 DEF PlacedBy
<1>7. kicked' \in [Transports -> BOOLEAN]
  BY <1>2
<1>8. /\ conn' \in [Transports -> {"fresh", "running", "failed", "stopped"}]
      /\ \A u \in F : conn[u] = "running"
      /\ \A u \in Transports :
            /\ conn'[u] = "running" <=> conn[u] = "running" /\ u \notin F
            /\ conn'[u] = "failed" => conn[u] = "failed"
            /\ conn'[u] = "fresh" <=> conn[u] = "fresh"
  BY <1>1, <1>2
<1> HIDE DEF F
<1>9. /\ runq' \in Seq(Closure)
      /\ ErrOnce(runq')
      /\ \A u \in Transports : Errs(runq', u) <=> Errs(runq, u) \/ u \in F
      /\ \A i \in DOMAIN runq' :
            \/ \E u \in F : runq'[i] = HandleError(u)
            \/ i \in DOMAIN runq /\ runq'[i] = runq[i]
  BY <1>1, <1>3, <1>4, <1>6, ErrsConcat, SMTT(40)
<1>10. \A i \in DOMAIN runq' : mem[runq'[i].transport] = "live"
  BY <1>4, <1>6, <1>9, Closures, SMTT(40) DEF IInv, Packets
<1> QED  BY <1>4, <1>7, <1>8, <1>9, <1>10, Zenon

\* kick_transport and kick_all_tcp_devices hand running transports to the run
\* queue.
LEMMA KickStep ==
    ASSUME IInv, NEW S \in SUBSET Transports, Kick(S), handler' = Notified,
           looper = "poll", looper' = "flush",
           UNCHANGED <<mem, list, state, waitable, connector, reg, running, queue, attempt>>
    PROVE  IInv'
<1>1. PICK F \in SUBSET Transports :
           /\ kicked' \in [Transports -> BOOLEAN]
           /\ conn' \in [Transports -> {"fresh", "running", "failed", "stopped"}]
           /\ runq' \in Seq(Closure)
           /\ ErrOnce(runq')
           /\ \A u \in F : conn[u] = "running"
           /\ \A u \in Transports :
                 /\ Errs(runq', u) <=> Errs(runq, u) \/ u \in F
                 /\ conn'[u] = "running" <=> conn[u] = "running" /\ u \notin F
                 /\ conn'[u] = "failed" => conn[u] = "failed"
                 /\ conn'[u] = "fresh" <=> conn[u] = "fresh"
           /\ \A i \in DOMAIN runq' : mem[runq'[i].transport] = "live"
  BY KickFacts, Zenon
<1>2. PICK w \in [Transports -> Places] : PlacedBy(w)
  BY DEF IInv, Placed
<1>3. TypeOK'
  BY <1>1 DEF IInv, TypeOK, Notified
<1>4. Handling'
  BY DEF IInv, Handling, Notified
<1>5. Once'
  BY <1>1 DEF IInv, Once
<1>6. Placed'
  <2> DEFINE v == [u \in Transports |-> IF u \in F THEN "runq" ELSE w[u]]
  <2>1. v \in [Transports -> Places]
    BY DEF Places
  <2>2. PlacedBy(v)'
    BY <1>1, <1>2 DEF PlacedBy
  <2> QED  BY <2>1, <2>2 DEF Placed
<1>7. Connections'
  BY <1>1 DEF IInv, Connections
<1>8. StartsFresh'
  <2> SUFFICES ASSUME NEW i \in DOMAIN reg, reg[i].action = "REGISTER"
               PROVE  conn'[reg[i].transport] = "fresh"
    BY DEF StartsFresh
  <2>1. reg[i] \in Tmsg
    BY SMTT(40) DEF IInv, TypeOK
  <2>2. reg[i].transport \in Transports
    BY <2>1 DEF Tmsg
  <2> QED  BY <1>1, <2>2 DEF IInv, StartsFresh
<1>9. Packets'
  BY <1>1 DEF Packets
<1>10. Listed'
  BY DEF IInv, Listed, SerialsUnique
<1> QED  BY <1>3, <1>4, <1>5, <1>6, <1>7, <1>8, <1>9, <1>10 DEF IInv

\* The end of ReconnectHandler::Stop and kick_all_transports hand every
\* transport on once.
LEMMA JoinedStep ==
    ASSUME IInv, StopJoined
    PROVE  IInv'
<1>0. /\ \E s \in Orders({a.transport : a \in queue}) : reg' = reg \o UNREGISTERs(s)
      /\ queue' = queue \ queue
      /\ Kick(InList("transports"))
      /\ looper = "joining" /\ looper' = "exited"
      /\ UNCHANGED <<mem, list, state, waitable, connector, running, handler, attempt>>
  BY Zenon DEF StopJoined
<1>1. PICK F \in SUBSET Transports :
           /\ kicked' \in [Transports -> BOOLEAN]
           /\ conn' \in [Transports -> {"fresh", "running", "failed", "stopped"}]
           /\ runq' \in Seq(Closure)
           /\ ErrOnce(runq')
           /\ \A u \in F : conn[u] = "running"
           /\ \A u \in Transports :
                 /\ Errs(runq', u) <=> Errs(runq, u) \/ u \in F
                 /\ conn'[u] = "running" <=> conn[u] = "running" /\ u \notin F
                 /\ conn'[u] = "failed" => conn[u] = "failed"
                 /\ conn'[u] = "fresh" <=> conn[u] = "fresh"
           /\ \A i \in DOMAIN runq' : mem[runq'[i].transport] = "live"
  <2>1. InList("transports") \in SUBSET Transports
    BY DEF InList
  <2> QED  BY <1>0, <2>1, KickFacts, Zenon
<1>2. PICK left \in SUBSET queue : left = queue
  OBVIOUS
<1>3. /\ reg' \in Seq(Tmsg)
      /\ queue' \in SUBSET Attempt
      /\ NamedOnce(reg')
      /\ TransportsOnce(queue')
      /\ \A u : Names(reg', u) <=> Names(reg, u) \/ Queued(left, u)
      /\ \A u : Queued(queue', u) <=> Queued(queue, u) /\ ~Queued(left, u)
      /\ \A i \in DOMAIN reg' :
            \/ reg'[i].action = "UNREGISTER"
            \/ i \in DOMAIN reg /\ reg'[i] = reg[i]
  BY <1>0, <1>2, RemovalFacts, Zenon
<1>4. PICK w \in [Transports -> Places] : PlacedBy(w)
  BY DEF IInv, Placed
<1>5. \A u : Queued(left, u) => Queued(queue, u)
  BY DEF Queued
<1>6. TypeOK'
  BY <1>0, <1>1, <1>3 DEF IInv, TypeOK
<1>7. Handling'
  BY <1>0 DEF IInv, Handling
<1>8. Once'
  BY <1>0, <1>1, <1>3, Zenon DEF IInv, Once
<1>9. Placed'
  <2> DEFINE v == [u \in Transports |->
                      IF u \in F THEN "runq" ELSE IF Queued(left, u) THEN "reg" ELSE w[u]]
  <2>1. v \in [Transports -> Places]
    BY DEF Places
  <2>2. PlacedBy(v)'
    BY <1>0, <1>1, <1>3, <1>4, <1>5, ZenonT(40) DEF PlacedBy
  <2> QED  BY <2>1, <2>2 DEF Placed
<1>10. Connections'
  BY <1>0, <1>1 DEF IInv, Connections
<1>11. StartsFresh'
  <2> SUFFICES ASSUME NEW i \in DOMAIN reg', reg'[i].action = "REGISTER"
               PROVE  conn'[reg'[i].transport] = "fresh"
    BY DEF StartsFresh
  <2>1. i \in DOMAIN reg /\ reg'[i] = reg[i]
    BY <1>3
  <2>2. reg[i] \in Tmsg
    BY <2>1 DEF IInv, TypeOK
  <2>3. reg[i].transport \in Transports
    BY <2>2 DEF Tmsg
  <2> QED  BY <1>1, <2>1, <2>3, SMTT(40) DEF IInv, StartsFresh
<1>12. Packets'
  BY <1>0, <1>1 DEF Packets
<1>13. Listed'
  BY <1>0 DEF IInv, Listed, SerialsUnique
<1> QED  BY <1>6, <1>7, <1>8, <1>9, <1>10, <1>11, <1>12, <1>13 DEF IInv

-----------------------------------------------------------------------------
(* The theorems.                                                              *)

\* The invariant holds when the server starts: there is no transport.
LEMMA InitIInv == Init => IInv
<1> SUFFICES ASSUME Init PROVE IInv
  OBVIOUS
<1> USE DEF Init
<1>1. TypeOK
  BY DEF TypeOK
<1>2. Handling /\ Once
  BY DEF Handling, Once, NamedOnce, ErrOnce, TransportsOnce
<1>3. Placed
  <2> DEFINE w == [u \in Transports |-> "none"]
  <2>1. w \in [Transports -> Places]
    BY DEF Places
  <2>2. PlacedBy(w)
    BY DEF PlacedBy, Names, Errs, Queued
  <2> QED  BY <2>1, <2>2 DEF Placed
<1>4. Connections /\ StartsFresh /\ Packets /\ Listed
  BY DEF Connections, StartsFresh, Packets, Listed, SerialsUnique
<1> QED  BY <1>1, <1>2, <1>3, <1>4 DEF IInv

\* Every step of every thread preserves it.
LEMMA NextIInv == IInv /\ [Next]_vars => IInv'
<1> SUFFICES ASSUME IInv, [Next]_vars PROVE IInv'
  OBVIOUS
<1>1. ASSUME NEW t \in Transports,
             \/ RegisterRefused(t) \/ RegisterPending(t) \/ RegisterSends(t)
             \/ RegisterWaits(t) \/ RegisterReads(t)
      PROVE  IInv'
  BY <1>1, RefusedStep, PendingStep, SendsStep, WaiterStep
<1>2. ASSUME NEW t \in Transports, ConnectionReads(t) \/ ConnectionFails(t) \/ RunTakes(t)
      PROVE  IInv'
  BY <1>2, ReadsStep, FailsStep, TakesStep
<1>3. ASSUME NEW t \in Transports, kick_transport(t)
      PROVE  IInv'
  <2>1. {t} \in SUBSET Transports
    OBVIOUS
  <2> QED  BY <1>3, <2>1, KickStep DEF kick_transport
<1>4. CASE kick_all_tcp_devices
  <2>1. InList("transports") \in SUBSET Transports
    BY DEF InList
  <2> QED  BY <1>4, <2>1, KickStep DEF kick_all_tcp_devices
<1>5. CASE Unregister \/ Register \/ RunPacket \/ RunError \/ StopJoined
  BY <1>5, UnregisterStep, RegisterStep, PacketStep, ErrorStep, JoinedStep
<1>6. CASE Interrupt \/ FlushEnds \/ StopRequested \/ StopNotifies
  BY <1>6, LooperQuietStep
<1>7. CASE RunWaits \/ RunTimesOut \/ RunWakesSpuriously \/ RunReturns \/ RunNotDue
  BY <1>7, HandlerQuietStep
<1>8. CASE RunScans \/ ReconnectRetries \/ ReconnectSucceeds \/ ReconnectAborts
  BY <1>8, ScansStep, RetriesStep, SucceedsStep, AbortsStep
<1>9. CASE UNCHANGED vars
  <2>1. UNCHANGED <<mem, list, kicked, conn, state, waitable, connector, reg, runq, looper,
                    running, queue, handler, attempt>>
    BY <1>9 DEF vars, life, reconnect
  <2>2. TypeOK' /\ Handling'
    BY <2>1 DEF IInv, TypeOK, Handling
  <2> QED  BY <2>1, <2>2, QuietStep
<1> QED  BY <1>1, <1>2, <1>3, <1>4, <1>5, <1>6, <1>7, <1>8, <1>9 DEF Next

\* The inductive invariant holds for ever.
THEOREM Invariance == Spec => []IInv
BY InitIInv, NextIInv, PTL DEF Spec

\* A place with one entry for the transport is one custodian, and the places
\* exclude each other.
LEMMA CustodyHolds == IInv => Custody
<1> SUFFICES ASSUME IInv, NEW t \in Transports
             PROVE  IF mem[t] = "live"
                    THEN \E c \in Custodians(t) : Custodians(t) = {c}
                    ELSE Custodians(t) = {}
  BY DEF Custody
<1>1. PICK w \in [Transports -> Places] : PlacedBy(w)
  BY DEF IInv, Placed
<1> DEFINE inReg == {j \in DOMAIN reg : reg[j].transport = t}
           inRunq == {j \in DOMAIN runq : runq[j] = HandleError(t)}
           inQueue == {b \in queue : b.transport = t}
           inAttempt == {b \in attempt : b.transport = t}
           inConn == {conn[t]} \cap {"running"}
           inConnector == {connector[t]} \cap {"created"}
<1>2. /\ inReg # {} <=> w[t] = "reg"
      /\ inRunq # {} <=> w[t] = "runq"
      /\ inQueue # {} <=> w[t] = "queue"
      /\ inAttempt # {} <=> w[t] = "attempt"
      /\ inConn # {} <=> w[t] = "conn"
      /\ inConnector # {} <=> w[t] = "connector"
      /\ mem[t] = "live" <=> w[t] # "none"
  <2>1. /\ inReg # {} <=> Names(reg, t)
        /\ inRunq # {} <=> Errs(runq, t)
    BY DEF Names, Errs
  <2>2. /\ inQueue # {} <=> Queued(queue, t)
        /\ inAttempt # {} <=> Queued(attempt, t)
    BY DEF Queued
  <2>3. /\ inConn # {} <=> conn[t] = "running"
        /\ inConnector # {} <=> connector[t] = "created"
    BY Zenon
  <2> HIDE DEF inReg, inRunq, inQueue, inAttempt, inConn, inConnector
  <2> QED  BY <1>1, <2>1, <2>2, <2>3 DEF PlacedBy
<1>3. /\ \A i, j \in inReg : i = j
      /\ \A i, j \in inRunq : i = j
      /\ \A i, j \in inQueue : i = j
      /\ \A i, j \in inAttempt : i = j
      /\ \A i, j \in inConn : i = j
      /\ \A i, j \in inConnector : i = j
  BY DEF IInv, Once, NamedOnce, ErrOnce, TransportsOnce
<1>4. Custodians(t) =
          {<<"reg", i>> : i \in inReg} \cup {<<"runq", i>> : i \in inRunq}
          \cup {<<"queue", i>> : i \in inQueue} \cup {<<"attempt", i>> : i \in inAttempt}
          \cup {<<"conn", i>> : i \in inConn} \cup {<<"connector", i>> : i \in inConnector}
  BY DEF Custodians
<1>5. w[t] \in Places
  OBVIOUS
<1> HIDE DEF inReg, inRunq, inQueue, inAttempt, inConn, inConnector
<1>6. CASE w[t] = "none"
  BY <1>2, <1>4, <1>6
<1>7. CASE w[t] = "reg"
  <2>1. PICK i \in inReg : inReg = {i}
    BY <1>2, <1>3, <1>7
  <2>2. Custodians(t) = {<<"reg", i>>}
    BY <1>2, <1>4, <1>7, <2>1
  <2> QED  BY <1>2, <1>7, <2>2
<1>8. CASE w[t] = "runq"
  <2>1. PICK i \in inRunq : inRunq = {i}
    BY <1>2, <1>3, <1>8
  <2>2. Custodians(t) = {<<"runq", i>>}
    BY <1>2, <1>4, <1>8, <2>1
  <2> QED  BY <1>2, <1>8, <2>2
<1>9. CASE w[t] = "queue"
  <2>1. PICK i \in inQueue : inQueue = {i}
    BY <1>2, <1>3, <1>9
  <2>2. Custodians(t) = {<<"queue", i>>}
    BY <1>2, <1>4, <1>9, <2>1
  <2> QED  BY <1>2, <1>9, <2>2
<1>10. CASE w[t] = "attempt"
  <2>1. PICK i \in inAttempt : inAttempt = {i}
    BY <1>2, <1>3, <1>10
  <2>2. Custodians(t) = {<<"attempt", i>>}
    BY <1>2, <1>4, <1>10, <2>1
  <2> QED  BY <1>2, <1>10, <2>2
<1>11. CASE w[t] = "conn"
  <2>1. PICK i \in inConn : inConn = {i}
    BY <1>2, <1>3, <1>11
  <2>2. Custodians(t) = {<<"conn", i>>}
    BY <1>2, <1>4, <1>11, <2>1
  <2> QED  BY <1>2, <1>11, <2>2
<1>12. CASE w[t] = "connector"
  <2>1. PICK i \in inConnector : inConnector = {i}
    BY <1>2, <1>3, <1>12
  <2>2. Custodians(t) = {<<"connector", i>>}
    BY <1>2, <1>4, <1>12, <2>1
  <2> QED  BY <1>2, <1>12, <2>2
<1> QED  BY <1>5, <1>6, <1>7, <1>8, <1>9, <1>10, <1>11, <1>12 DEF Places

\* Exactly one party is responsible for a live transport, none for any other:
\* no transport is deleted or started twice, and none is forgotten, for any
\* number of transports and attempts.
THEOREM CustodyTheorem == Spec => []Custody
BY Invariance, CustodyHolds, PTL

\* Every closure on the run queue is of a transport that exists.
THEOREM PacketsLiveTheorem == Spec => []PacketsLive
<1>1. IInv => PacketsLive
  BY DEF IInv, Packets, PacketsLive
<1> QED  BY <1>1, Invariance, PTL

\* A transport that waits to be registered has a connection not yet started.
THEOREM StartsFreshTheorem == Spec => []StartsFresh
<1>1. IInv => StartsFresh
  BY DEF IInv
<1> QED  BY <1>1, Invariance, PTL

\* No two live transports have one serial.
THEOREM SerialsUniqueTheorem == Spec => []SerialsUnique
<1>1. IInv => SerialsUnique
  BY DEF IInv, Listed
<1> QED  BY <1>1, Invariance, PTL

\* Every variable keeps its type.
THEOREM TypeCorrect == Spec => []TypeOK
<1>1. IInv => TypeOK
  BY DEF IInv
<1> QED  BY <1>1, Invariance, PTL

=============================================================================
