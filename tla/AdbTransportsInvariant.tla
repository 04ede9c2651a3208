----------------------- MODULE AdbTransportsInvariant ------------------------
(***************************************************************************)
(* The inductive invariant behind the theorems about AdbTransports, lemmas *)
(* about the queues it speaks of, and the steps of the connecting thread   *)
(* and of the threads of a connection.                                     *)
(***************************************************************************)
EXTENDS AdbTransports, FiniteSetTheorems, TLAPS

-----------------------------------------------------------------------------
(* The inductive invariant.                                                   *)

\* A queue of messages names u; an error closure of u is in it.
Names(q, u) == \E i \in DOMAIN q : q[i].transport = u
Errs(q, u) == \E i \in DOMAIN q : q[i] = HandleError(u)

NamedOnce(q) ==
    \A i, j \in DOMAIN q : q[i].transport = q[j].transport => i = j

ErrOnce(q) ==
    \A u \in Transports : \A i, j \in DOMAIN q :
        q[i] = HandleError(u) /\ q[j] = HandleError(u) => i = j

TransportsOnce(S) == \A a, b \in S : a.transport = b.transport => a = b

Queued(S, u) == \E a \in S : a.transport = u

\* The place a transport is in, as Custodians has it.
Places == {"reg", "runq", "queue", "attempt", "conn", "connector", "none"}

PlacedBy(w) ==
    \A t \in Transports :
        /\ Names(reg, t) <=> w[t] = "reg"
        /\ Errs(runq, t) <=> w[t] = "runq"
        /\ Queued(queue, t) <=> w[t] = "queue"
        /\ Queued(attempt, t) <=> w[t] = "attempt"
        /\ conn[t] = "running" <=> w[t] = "conn"
        /\ connector[t] = "created" <=> w[t] = "connector"
        /\ mem[t] = "live" <=> w[t] # "none"

Placed == \E w \in [Transports -> Places] : PlacedBy(w)

\* At most once in each place.
Once ==
    /\ NamedOnce(reg)
    /\ ErrOnce(runq)
    /\ TransportsOnce(queue)
    /\ \A a, b \in attempt : a = b

\* The handler holds an attempt only during Reconnect; the looper stops it last.
Handling ==
    /\ handler # "reconnecting" => attempt = {}
    /\ looper \in {"poll", "flush"} => running

Connections ==
    \A t \in Transports :
        /\ conn[t] = "failed" => Errs(runq, t)
        /\ connector[t] = "created" => conn[t] = "fresh"
        /\ mem[t] = "unused" => conn[t] = "fresh"

\* While the looper polls, a queued packet is of a running connection or comes
\* with the error closure of its connection.
Packets ==
    \A i \in DOMAIN runq :
        /\ mem[runq[i].transport] = "live"
        /\ looper = "poll" =>
              \/ conn[runq[i].transport] = "running"
              \/ Errs(runq, runq[i].transport)

Listed ==
    /\ \A t \in Transports : mem[t] = "live" => list[t] # "none"
    /\ SerialsUnique

IInv ==
    /\ TypeOK
    /\ Handling
    /\ Once
    /\ Placed
    /\ Connections
    /\ StartsFresh
    /\ Packets
    /\ Listed

-----------------------------------------------------------------------------
(* Queues.                                                                    *)

\* What a queue holds after an Append or a Tail.
LEMMA AppendElements ==
    ASSUME NEW S, NEW q \in Seq(S), NEW m \in S
    PROVE  /\ Append(q, m) \in Seq(S)
           /\ \A i \in DOMAIN Append(q, m) :
                 \/ Append(q, m)[i] = m
                 \/ i \in DOMAIN q /\ Append(q, m)[i] = q[i]
  OBVIOUS

\* What a Tail keeps comes from the queue, and its Head does too.
LEMMA TailElements ==
    ASSUME NEW S, NEW q \in Seq(S), q # <<>>
    PROVE  /\ Tail(q) \in Seq(S)
           /\ Head(q) \in S
           /\ \E i \in DOMAIN q : q[i] = Head(q)
           /\ \A i \in DOMAIN Tail(q) : \E j \in DOMAIN q : Tail(q)[i] = q[j]
<1>1. \A i \in DOMAIN Tail(q) : i + 1 \in DOMAIN q /\ Tail(q)[i] = q[i + 1]
  OBVIOUS
<1>2. 1 \in DOMAIN q /\ q[1] = Head(q)
  OBVIOUS
<1> QED  BY <1>1, <1>2

\* Appending a message adds its transport to those the registration socket names.
LEMMA NamesAppend ==
    ASSUME NEW S, NEW q \in Seq(S), NEW m \in S
    PROVE  /\ \A u : Names(Append(q, m), u) <=> Names(q, u) \/ m.transport = u
           /\ NamedOnce(q) /\ ~Names(q, m.transport) => NamedOnce(Append(q, m))
<1> DEFINE r == Append(q, m)
<1>1. /\ DOMAIN r = 1..(Len(q) + 1)
      /\ DOMAIN q = 1..Len(q)
      /\ Len(q) \in Nat
      /\ \A i \in 1..Len(q) : r[i] = q[i]
      /\ r[Len(q) + 1] = m
  OBVIOUS
<1> HIDE DEF r
<1>2. \A u : Names(r, u) <=> Names(q, u) \/ m.transport = u
  BY <1>1 DEF Names
<1>3. ASSUME NamedOnce(q), ~Names(q, m.transport)
      PROVE  NamedOnce(r)
  BY <1>1, <1>3 DEF Names, NamedOnce
<1> QED  BY <1>2, <1>3 DEF r

\* Reading a message takes its transport from those named, when each is named once.
LEMMA NamesTail ==
    ASSUME NEW S, NEW q \in Seq(S), q # <<>>, NamedOnce(q)
    PROVE  /\ \A u : Names(Tail(q), u) <=> Names(q, u) /\ Head(q).transport # u
           /\ NamedOnce(Tail(q))
<1> DEFINE r == Tail(q)
<1>1. /\ DOMAIN r = 1..(Len(q) - 1)
      /\ DOMAIN q = 1..Len(q)
      /\ Len(q) \in Nat /\ Len(q) > 0
      /\ \A i \in 1..(Len(q) - 1) : r[i] = q[i + 1]
      /\ Head(q) = q[1]
  OBVIOUS
<1> HIDE DEF r
<1>2. NamedOnce(r)
  <2> SUFFICES ASSUME NEW i \in DOMAIN r, NEW j \in DOMAIN r,
                      r[i].transport = r[j].transport
               PROVE  i = j
    BY DEF NamedOnce
  <2>1. /\ i \in Int /\ i + 1 \in DOMAIN q /\ q[i + 1] = r[i]
        /\ j \in Int /\ j + 1 \in DOMAIN q /\ q[j + 1] = r[j]
    BY <1>1
  <2>2. i + 1 = j + 1
    BY <2>1 DEF NamedOnce
  <2> QED  BY <2>1, <2>2
<1>3. ASSUME NEW u, Names(r, u) PROVE Names(q, u) /\ Head(q).transport # u
  BY <1>1, <1>3 DEF Names, NamedOnce
<1>4. ASSUME NEW u, Names(q, u), Head(q).transport # u PROVE Names(r, u)
  <2>1. PICK i \in 1..Len(q) : q[i].transport = u
    BY <1>1, <1>4 DEF Names
  <2>2. i # 1 /\ i - 1 \in 1..(Len(q) - 1)
    BY <1>1, <1>4, <2>1
  <2>3. r[i - 1] = q[i]
    BY <1>1, <2>2
  <2> QED  BY <1>1, <2>1, <2>2, <2>3 DEF Names
<1> QED  BY <1>2, <1>3, <1>4 DEF r

\* The oldest message names its transport.
LEMMA NamesHead ==
    ASSUME NEW S, NEW q \in Seq(S), q # <<>>
    PROVE  Names(q, Head(q).transport)
  BY DEF Names

\* The unregistrations of a set of transports, appended in some order.
LEMMA NamesConcat ==
    ASSUME NEW q \in Seq(Tmsg), NEW T \in SUBSET Transports, NEW s \in Orders(T)
    PROVE  /\ q \o UNREGISTERs(s) \in Seq(Tmsg)
           /\ \A u : Names(q \o UNREGISTERs(s), u) <=> Names(q, u) \/ u \in T
           /\ NamedOnce(q) /\ (\A u \in T : ~Names(q, u))
                => NamedOnce(q \o UNREGISTERs(s))
           /\ \A i \in DOMAIN (q \o UNREGISTERs(s)) :
                 \/ (q \o UNREGISTERs(s))[i].action = "UNREGISTER"
                 \/ i \in DOMAIN q /\ (q \o UNREGISTERs(s))[i] = q[i]
<1> DEFINE n == Cardinality(T)
           e == UNREGISTERs(s)
           r == q \o e
<1>1. n \in Nat
  BY TransportsAssumption, FS_Subset, FS_CardinalityType
<1>2. /\ s \in [1..n -> T]
      /\ \A i, j \in 1..n : s[i] = s[j] => i = j
      /\ \A x \in T : \E i \in 1..n : s[i] = x
  BY DEF Orders
<1>3. e = [i \in 1..n |-> UNREGISTER(s[i])]
  BY <1>2 DEF UNREGISTERs
<1>4. \A i \in 1..n : /\ e[i].transport = s[i]
                      /\ e[i].action = "UNREGISTER"
                      /\ e[i] \in Tmsg
  BY <1>2, <1>3 DEF UNREGISTER, Tmsg
<1>5. e \in Seq(Tmsg) /\ Len(e) = n
  BY <1>1, <1>3, <1>4
<1> HIDE DEF n, e
<1>6. /\ DOMAIN r = 1..(Len(q) + n)
      /\ DOMAIN q = 1..Len(q)
      /\ Len(q) \in Nat
      /\ \A i \in 1..Len(q) : r[i] = q[i]
      /\ \A i \in 1..n : r[Len(q) + i] = e[i]
      /\ r \in Seq(Tmsg)
  BY <1>1, <1>5
<1> HIDE DEF r
<1>7. ASSUME NEW i \in DOMAIN r, i \notin DOMAIN q
      PROVE  i - Len(q) \in 1..n /\ r[i] = e[i - Len(q)]
  <2>1. i - Len(q) \in 1..n
    BY <1>1, <1>6, <1>7
  <2> QED  BY <1>6, <2>1
<1>8. ASSUME NEW u PROVE Names(r, u) <=> Names(q, u) \/ u \in T
  <2>1. ASSUME Names(r, u) PROVE Names(q, u) \/ u \in T
    <3>1. PICK i \in DOMAIN r : r[i].transport = u
      BY <2>1 DEF Names
    <3>2. CASE i \in DOMAIN q
      BY <1>6, <3>1, <3>2 DEF Names
    <3>3. CASE i \notin DOMAIN q
      BY <1>2, <1>4, <1>7, <3>1, <3>3
    <3> QED  BY <3>2, <3>3
  <2>2. ASSUME Names(q, u) PROVE Names(r, u)
    BY <1>1, <1>6, <2>2 DEF Names
  <2>3. ASSUME u \in T PROVE Names(r, u)
    <3>1. PICK i \in 1..n : s[i] = u
      BY <1>2, <2>3
    <3>2. Len(q) + i \in DOMAIN r
      BY <1>1, <1>6
    <3>3. r[Len(q) + i] = e[i]
      BY <1>6
    <3> QED  BY <1>4, <3>1, <3>2, <3>3 DEF Names
  <2> QED  BY <2>1, <2>2, <2>3
<1>9. ASSUME NamedOnce(q), \A u \in T : ~Names(q, u)
      PROVE  NamedOnce(r)
  <2> SUFFICES ASSUME NEW i \in DOMAIN r, NEW j \in DOMAIN r,
                      r[i].transport = r[j].transport
               PROVE  i = j
    BY DEF NamedOnce
  <2>1. CASE i \in DOMAIN q /\ j \in DOMAIN q
    BY <1>6, <1>9, <2>1 DEF NamedOnce
  <2>2. CASE i \notin DOMAIN q /\ j \notin DOMAIN q
    <3>1. s[i - Len(q)] = s[j - Len(q)]
      BY <1>4, <1>7, <2>2
    <3>2. i - Len(q) = j - Len(q)
      BY <1>2, <1>7, <2>2, <3>1
    <3> QED  BY <1>1, <1>6, <3>2
  <2>3. ASSUME NEW k \in DOMAIN q, NEW l \in DOMAIN r, l \notin DOMAIN q
        PROVE  r[k].transport # r[l].transport
    <3>1. r[l].transport \in T
      BY <1>2, <1>4, <1>7, <2>3
    <3> QED  BY <1>6, <1>9, <3>1 DEF Names
  <2> QED  BY <2>1, <2>2, <2>3
<1> QED  BY <1>4, <1>6, <1>7, <1>8, <1>9, Zenon DEF r, e

\* Closures are told apart by what they run and for whom.
LEMMA Closures ==
    ASSUME NEW t \in Transports
    PROVE  /\ HandleRead(t) \in Closure /\ HandleError(t) \in Closure
           /\ HandleRead(t).transport = t /\ HandleError(t).transport = t
           /\ HandleRead(t).runs = "packet" /\ HandleError(t).runs = "error"
           /\ \A c \in Closure : c.runs = "error" /\ c.transport = t => c = HandleError(t)
  BY DEF Closure, HandleRead, HandleError

\* Queueing a packet closure leaves the error closures as they are.
LEMMA ErrsAppendPacket ==
    ASSUME NEW q \in Seq(Closure), NEW t \in Transports
    PROVE  /\ \A u \in Transports : Errs(Append(q, HandleRead(t)), u) <=> Errs(q, u)
           /\ ErrOnce(q) => ErrOnce(Append(q, HandleRead(t)))
<1> DEFINE m == HandleRead(t)
           r == Append(q, m)
<1>1. m \in Closure /\ \A u \in Transports : m # HandleError(u)
  BY Closures
<1> HIDE DEF m
<1>2. /\ DOMAIN r = 1..(Len(q) + 1)
      /\ DOMAIN q = 1..Len(q)
      /\ Len(q) \in Nat
      /\ \A i \in 1..Len(q) : r[i] = q[i]
      /\ r[Len(q) + 1] = m
  BY <1>1
<1> HIDE DEF r
<1>3. \A u \in Transports : Errs(r, u) <=> Errs(q, u)
  BY <1>1, <1>2 DEF Errs
<1>4. ErrOnce(q) => ErrOnce(r)
  BY <1>1, <1>2 DEF ErrOnce
<1> QED  BY <1>3, <1>4 DEF r, m

\* Queueing an error closure adds one for its transport.
LEMMA ErrsAppendError ==
    ASSUME NEW q \in Seq(Closure), NEW t \in Transports
    PROVE  /\ \A u \in Transports : Errs(Append(q, HandleError(t)), u) <=> Errs(q, u) \/ u = t
           /\ ErrOnce(q) /\ ~Errs(q, t) => ErrOnce(Append(q, HandleError(t)))
<1> DEFINE m == HandleError(t)
           r == Append(q, m)
<1>1. m \in Closure /\ \A u \in Transports : m = HandleError(u) <=> u = t
  BY Closures
<1>0. ~Errs(q, t) => \A i \in DOMAIN q : q[i] # m
  BY DEF Errs
<1> HIDE DEF m
<1>2. /\ DOMAIN r = 1..(Len(q) + 1)
      /\ DOMAIN q = 1..Len(q)
      /\ Len(q) \in Nat
      /\ \A i \in 1..Len(q) : r[i] = q[i]
      /\ r[Len(q) + 1] = m
  BY <1>1
<1> HIDE DEF r
<1>3. \A u \in Transports : Errs(r, u) <=> Errs(q, u) \/ u = t
  BY <1>1, <1>2 DEF Errs
<1>4. ErrOnce(q) /\ ~Errs(q, t) => ErrOnce(r)
  BY <1>0, <1>1, <1>2 DEF ErrOnce
<1> QED  BY <1>3, <1>4 DEF r, m

\* Running a closure removes the error closure of its transport, if it is one.
LEMMA ErrsTail ==
    ASSUME NEW q \in Seq(Closure), q # <<>>, ErrOnce(q)
    PROVE  /\ \A u \in Transports :
                 Errs(Tail(q), u) <=> Errs(q, u) /\ Head(q) # HandleError(u)
           /\ ErrOnce(Tail(q))
           /\ \A i \in DOMAIN Tail(q) : \E j \in DOMAIN q : Tail(q)[i] = q[j]
<1> DEFINE r == Tail(q)
<1>1. /\ DOMAIN r = 1..(Len(q) - 1)
      /\ DOMAIN q = 1..Len(q)
      /\ Len(q) \in Nat /\ Len(q) > 0
      /\ \A i \in 1..(Len(q) - 1) : r[i] = q[i + 1]
      /\ Head(q) = q[1]
  OBVIOUS
<1> HIDE DEF r
<1>2. \A i \in DOMAIN r : i \in Int /\ i + 1 \in DOMAIN q /\ q[i + 1] = r[i] /\ i + 1 # 1
  BY <1>1
<1>3. ErrOnce(r)
  <2> SUFFICES ASSUME NEW u \in Transports, NEW i \in DOMAIN r, NEW j \in DOMAIN r,
                      r[i] = HandleError(u), r[j] = HandleError(u)
               PROVE  i = j
    BY DEF ErrOnce
  <2>1. i + 1 = j + 1
    BY <1>2 DEF ErrOnce
  <2> QED  BY <1>2, <2>1
<1>4. ASSUME NEW u \in Transports, Errs(r, u) PROVE Errs(q, u) /\ Head(q) # HandleError(u)
  <2>1. PICK i \in DOMAIN r : r[i] = HandleError(u)
    BY <1>4 DEF Errs
  <2>2. Errs(q, u)
    BY <1>2, <2>1 DEF Errs
  <2>3. 1 \in DOMAIN q
    BY <1>1
  <2>4. Head(q) # HandleError(u)
    BY <1>1, <1>2, <2>1, <2>3 DEF ErrOnce
  <2> QED  BY <2>2, <2>4
<1>5. ASSUME NEW u \in Transports, Errs(q, u), Head(q) # HandleError(u) PROVE Errs(r, u)
  <2>1. PICK i \in 1..Len(q) : q[i] = HandleError(u)
    BY <1>1, <1>5 DEF Errs
  <2>2. i # 1 /\ i - 1 \in 1..(Len(q) - 1)
    BY <1>1, <1>5, <2>1
  <2>3. r[i - 1] = q[i]
    BY <1>1, <2>2
  <2> QED  BY <1>1, <2>1, <2>2, <2>3 DEF Errs
<1>6. \A i \in DOMAIN r : \E j \in DOMAIN q : r[i] = q[j]
  BY <1>2
<1> QED  BY <1>3, <1>4, <1>5, <1>6 DEF r

\* The error closures of a set of transports, appended in some order.
LEMMA ErrsConcat ==
    ASSUME NEW q \in Seq(Closure), NEW T \in SUBSET Transports, NEW s \in Orders(T)
    PROVE  /\ q \o HandleErrors(s) \in Seq(Closure)
           /\ \A u \in Transports : Errs(q \o HandleErrors(s), u) <=> Errs(q, u) \/ u \in T
           /\ ErrOnce(q) /\ (\A u \in T : ~Errs(q, u)) => ErrOnce(q \o HandleErrors(s))
           /\ \A i \in DOMAIN (q \o HandleErrors(s)) :
                 \/ \E u \in T : (q \o HandleErrors(s))[i] = HandleError(u)
                 \/ i \in DOMAIN q /\ (q \o HandleErrors(s))[i] = q[i]
<1> DEFINE n == Cardinality(T)
           e == HandleErrors(s)
           r == q \o e
<1>1. n \in Nat
  BY TransportsAssumption, FS_Subset, FS_CardinalityType
<1>2. /\ s \in [1..n -> T]
      /\ \A i, j \in 1..n : s[i] = s[j] => i = j
      /\ \A x \in T : \E i \in 1..n : s[i] = x
  BY DEF Orders
<1>3. e = [i \in 1..n |-> HandleError(s[i])]
  BY <1>2 DEF HandleErrors
<1>4. \A i \in 1..n : /\ e[i] = HandleError(s[i])
                      /\ s[i] \in Transports
                      /\ e[i] \in Closure
                      /\ \A u \in Transports : e[i] = HandleError(u) => u = s[i]
  BY <1>2, <1>3, Closures
<1>5. e \in Seq(Closure) /\ Len(e) = n
  BY <1>1, <1>3, <1>4
<1> HIDE DEF n, e
<1>6. /\ DOMAIN r = 1..(Len(q) + n)
      /\ DOMAIN q = 1..Len(q)
      /\ Len(q) \in Nat
      /\ \A i \in 1..Len(q) : r[i] = q[i]
      /\ \A i \in 1..n : r[Len(q) + i] = e[i]
      /\ r \in Seq(Closure)
  BY <1>1, <1>5
<1> HIDE DEF r
<1>7. ASSUME NEW i \in DOMAIN r, i \notin DOMAIN q
      PROVE  i - Len(q) \in 1..n /\ r[i] = e[i - Len(q)]
  <2>1. i - Len(q) \in 1..n
    BY <1>1, <1>6, <1>7
  <2> QED  BY <1>6, <2>1
<1>8. ASSUME NEW u \in Transports PROVE Errs(r, u) <=> Errs(q, u) \/ u \in T
  <2>1. ASSUME Errs(r, u) PROVE Errs(q, u) \/ u \in T
    <3>1. PICK i \in DOMAIN r : r[i] = HandleError(u)
      BY <2>1 DEF Errs
    <3>2. CASE i \in DOMAIN q
      BY <1>6, <3>1, <3>2 DEF Errs
    <3>3. CASE i \notin DOMAIN q
      BY <1>2, <1>4, <1>7, <3>1, <3>3
    <3> QED  BY <3>2, <3>3
  <2>2. ASSUME Errs(q, u) PROVE Errs(r, u)
    BY <1>1, <1>6, <2>2 DEF Errs
  <2>3. ASSUME u \in T PROVE Errs(r, u)
    <3>1. PICK i \in 1..n : s[i] = u
      BY <1>2, <2>3
    <3>2. Len(q) + i \in DOMAIN r
      BY <1>1, <1>6
    <3>3. r[Len(q) + i] = e[i]
      BY <1>6
    <3> QED  BY <1>4, <3>1, <3>2, <3>3 DEF Errs
  <2> QED  BY <2>1, <2>2, <2>3
<1>9. ASSUME ErrOnce(q), \A u \in T : ~Errs(q, u)
      PROVE  ErrOnce(r)
  <2> SUFFICES ASSUME NEW u \in Transports, NEW i \in DOMAIN r, NEW j \in DOMAIN r,
                      r[i] = HandleError(u), r[j] = HandleError(u)
               PROVE  i = j
    BY DEF ErrOnce
  <2>1. CASE i \in DOMAIN q /\ j \in DOMAIN q
    BY <1>6, <1>9, <2>1 DEF ErrOnce
  <2>2. CASE i \notin DOMAIN q /\ j \notin DOMAIN q
    <3>1. s[i - Len(q)] = s[j - Len(q)]
      BY <1>4, <1>7, <2>2
    <3>2. i - Len(q) = j - Len(q)
      BY <1>2, <1>7, <2>2, <3>1
    <3> QED  BY <1>1, <1>6, <3>2
  <2>3. ASSUME NEW k \in DOMAIN q, NEW l \in DOMAIN r, l \notin DOMAIN q,
               r[l] = HandleError(u)
        PROVE  r[k] # HandleError(u)
    <3>1. u \in T
      BY <1>2, <1>4, <1>7, <2>3
    <3> QED  BY <1>6, <1>9, <3>1 DEF Errs
  <2> QED  BY <2>1, <2>2, <2>3
<1>10. ASSUME NEW i \in DOMAIN r
       PROVE  (\E u \in T : r[i] = HandleError(u)) \/ (i \in DOMAIN q /\ r[i] = q[i])
  <2>1. CASE i \in DOMAIN q
    BY <1>6, <2>1
  <2>2. CASE i \notin DOMAIN q
    BY <1>2, <1>4, <1>7, <2>2
  <2> QED  BY <2>1, <2>2
<1> QED  BY <1>6, <1>8, <1>9, <1>10, Zenon DEF r, e

-----------------------------------------------------------------------------
(* One lemma per action, or per kind of action.                               *)

\* Steps that move a program counter and leave the custody of every transport.
LEMMA QuietStep ==
    ASSUME IInv, TypeOK', Handling',
           UNCHANGED <<mem, list, conn, reg, runq, queue, attempt>>,
           \A u \in Transports : connector'[u] = "created" <=> connector[u] = "created",
           looper' = "poll" => looper = "poll" \/ runq = <<>>
    PROVE  IInv'
<1>1. Once'
  BY DEF IInv, Once
<1>2. Placed'
  <2>1. PICK w \in [Transports -> Places] : PlacedBy(w)
    BY DEF IInv, Placed
  <2>2. PlacedBy(w)'
    BY <2>1 DEF PlacedBy
  <2> QED  BY <2>2 DEF Placed
<1>3. Connections'
  BY DEF IInv, Connections
<1>4. StartsFresh'
  BY DEF IInv, StartsFresh
<1>5. Packets'
  BY DEF IInv, Packets
<1>6. Listed'
  BY DEF IInv, Listed, SerialsUnique
<1> QED  BY <1>1, <1>2, <1>3, <1>4, <1>5, <1>6 DEF IInv

\* RegisterWaits and RegisterReads only move the thread that waits in
\* register_socket_transport.
LEMMA WaiterStep ==
    ASSUME IInv, NEW t \in Transports, RegisterWaits(t) \/ RegisterReads(t)
    PROVE  IInv'
<1>1. TypeOK'
  BY DEF IInv, TypeOK, RegisterWaits, RegisterReads, life, reconnect
<1>2. Handling'
  BY DEF IInv, Handling, RegisterWaits, RegisterReads, life, reconnect
<1>3. \A u \in Transports : connector'[u] = "created" <=> connector[u] = "created"
  BY DEF IInv, TypeOK, RegisterWaits, RegisterReads
<1> QED
  BY <1>1, <1>2, <1>3, QuietStep DEF RegisterWaits, RegisterReads, life, reconnect

\* Going between poll and the run queue, and the two halves of Stop, keep the
\* invariant.
LEMMA LooperQuietStep ==
    ASSUME IInv, Interrupt \/ FlushEnds \/ StopRequested \/ StopNotifies
    PROVE  IInv'
<1> USE DEF Interrupt, FlushEnds, StopRequested, StopNotifies, Notified, life, reconnect
<1>1. TypeOK'
  BY ZenonT(60) DEF IInv, TypeOK
<1>2. Handling'
  BY DEF IInv, Handling
<1> QED
  BY <1>1, <1>2, QuietStep

\* The steps of ReconnectHandler::Run that only wait, wake or return keep it.
LEMMA HandlerQuietStep ==
    ASSUME IInv,
           RunWaits \/ RunTimesOut \/ RunWakesSpuriously \/ RunReturns \/ RunNotDue
    PROVE  IInv'
<1> USE DEF RunWaits, RunTimesOut, RunWakesSpuriously, RunReturns, RunNotDue, life
<1>1. TypeOK'
  BY DEF IInv, TypeOK
<1>2. Handling'
  BY DEF IInv, Handling
<1> QED
  BY <1>1, <1>2, QuietStep

\* A transport that register_socket_transport refuses never had a custodian.
LEMMA RefusedStep ==
    ASSUME IInv, NEW t \in Transports, RegisterRefused(t)
    PROVE  IInv'
<1> USE DEF RegisterRefused, reconnect
<1>1. TypeOK'
  BY DEF IInv, TypeOK
<1>2. Handling'
  BY DEF IInv, Handling
<1>3. Once'
  BY DEF IInv, Once
<1>4. Placed'
  <2>1. PICK w \in [Transports -> Places] : PlacedBy(w)
    BY DEF IInv, Placed
  <2>2. w[t] = "none"
    BY <2>1 DEF PlacedBy
  <2>3. PlacedBy(w)'
    BY <2>1, <2>2 DEF PlacedBy, IInv, TypeOK
  <2> QED  BY <2>3 DEF Placed
<1>5. Connections'
  BY DEF IInv, Connections, TypeOK
<1>6. StartsFresh'
  BY DEF IInv, StartsFresh
<1>7. Packets'
  BY DEF IInv, Packets, TypeOK
<1>8. Listed'
  BY DEF IInv, Listed, SerialsUnique, TypeOK
<1> QED  BY <1>1, <1>2, <1>3, <1>4, <1>5, <1>6, <1>7, <1>8 DEF IInv

\* A new transport is in the hands of the thread that connects.
LEMMA PendingStep ==
    ASSUME IInv, NEW t \in Transports, RegisterPending(t)
    PROVE  IInv'
<1> USE DEF RegisterPending, reconnect
<1>1. TypeOK'
  BY DEF IInv, TypeOK
<1>2. Handling'
  BY DEF IInv, Handling
<1>3. Once'
  BY DEF IInv, Once
<1>4. Placed'
  <2>1. PICK w \in [Transports -> Places] : PlacedBy(w)
    BY DEF IInv, Placed
  <2>2. w[t] = "none"
    BY <2>1 DEF PlacedBy
  <2> DEFINE v == [w EXCEPT ![t] = "connector"]
  <2>3. v \in [Transports -> Places]
    BY DEF Places
  <2>4. /\ mem' = [mem EXCEPT ![t] = "live"] /\ mem \in [Transports -> {"unused", "live", "deleted"}]
        /\ connector' = [connector EXCEPT ![t] = "created"] /\ DOMAIN connector = Transports
    BY DEF IInv, TypeOK
  <2>5. PlacedBy(v)'
    BY <2>1, <2>2, <2>4 DEF PlacedBy
  <2> QED  BY <2>3, <2>5, Zenon DEF Placed
<1>5. Connections'
  BY DEF IInv, Connections, TypeOK
<1>6. StartsFresh'
  BY DEF IInv, StartsFresh
<1>7. Packets'
  BY DEF IInv, Packets, TypeOK
<1>8. Listed'
  BY DEF IInv, Listed, SerialsUnique, InList, TypeOK
<1> QED  BY <1>1, <1>2, <1>3, <1>4, <1>5, <1>6, <1>7, <1>8 DEF IInv

\* The messages of register_transport and remove_transport.
LEMMA Messages ==
    ASSUME NEW t \in Transports
    PROVE  /\ REGISTER(t) \in Tmsg /\ REGISTER(t).transport = t
           /\ REGISTER(t).action = "REGISTER"
           /\ UNREGISTER(t) \in Tmsg /\ UNREGISTER(t).transport = t
           /\ UNREGISTER(t).action = "UNREGISTER"
  BY DEF REGISTER, UNREGISTER, Tmsg

\* register_transport hands the transport to the registration socket.
LEMMA SendsStep ==
    ASSUME IInv, NEW t \in Transports, RegisterSends(t)
    PROVE  IInv'
<1> USE DEF RegisterSends, life, reconnect
<1>0. /\ reg \in Seq(Tmsg) /\ reg' = Append(reg, REGISTER(t))
      /\ connector' = [connector EXCEPT ![t] = IF t \in Emulators THEN "done" ELSE "waiting"]
      /\ DOMAIN connector = Transports /\ connector[t] = "created"
  BY DEF IInv, TypeOK
<1>1. TypeOK'
  BY <1>0, Messages, AppendElements DEF IInv, TypeOK
<1>2. Handling'
  BY DEF IInv, Handling
<1>3. PICK w \in [Transports -> Places] : PlacedBy(w)
  BY DEF IInv, Placed
<1>4. w[t] = "connector" /\ ~Names(reg, t)
  BY <1>0, <1>3 DEF PlacedBy
<1>5. /\ \A u : Names(reg', u) <=> Names(reg, u) \/ u = t
      /\ NamedOnce(reg')
  BY <1>0, <1>4, Messages, NamesAppend DEF IInv, Once
<1>6. Once'
  BY <1>5 DEF IInv, Once
<1>7. Placed'
  <2> DEFINE v == [w EXCEPT ![t] = "reg"]
  <2>1. v \in [Transports -> Places]
    BY DEF Places
  <2>2. PlacedBy(v)'
    BY <1>0, <1>3, <1>4, <1>5, SMTT(40) DEF PlacedBy
  <2> QED  BY <2>1, <2>2, Zenon DEF Placed
<1>8. Connections'
  BY <1>0 DEF IInv, Connections
<1>9. StartsFresh'
  BY <1>0, Messages, AppendElements DEF IInv, Connections, StartsFresh
<1>10. Packets'
  BY DEF IInv, Packets
<1>11. Listed'
  BY DEF IInv, Listed, SerialsUnique
<1> QED  BY <1>1, <1>2, <1>6, <1>7, <1>8, <1>9, <1>10, <1>11 DEF IInv

\* HandleRead queues a packet of a connection that is not stopped.
LEMMA ReadsStep ==
    ASSUME IInv, NEW t \in Transports, ConnectionReads(t)
    PROVE  IInv'
<1> USE DEF ConnectionReads, life, reconnect
<1>0. runq \in Seq(Closure) /\ runq' = Append(runq, HandleRead(t))
  BY DEF IInv, TypeOK
<1>1. TypeOK'
  BY <1>0, Closures, AppendElements DEF IInv, TypeOK
<1>2. Handling'
  BY DEF IInv, Handling
<1>3. PICK w \in [Transports -> Places] : PlacedBy(w)
  BY DEF IInv, Placed
<1>4. /\ \A u \in Transports : Errs(runq', u) <=> Errs(runq, u)
      /\ ErrOnce(runq')
  BY <1>0, ErrsAppendPacket DEF IInv, Once
<1>5. Once'
  BY <1>4 DEF IInv, Once
<1>6. Placed'
  <2>1. PlacedBy(w)'
    BY <1>3, <1>4 DEF PlacedBy
  <2> QED  BY <2>1 DEF Placed
<1>7. Connections'
  BY <1>4 DEF IInv, Connections
<1>8. StartsFresh'
  BY DEF IInv, StartsFresh
<1>9. Packets'
  <2>1. mem[t] = "live" /\ (conn[t] = "running" \/ Errs(runq, t))
    <3>1. conn[t] = "failed" => Errs(runq, t)
      BY DEF IInv, Connections
    <3> QED  BY <1>3, <3>1, ZenonT(30) DEF PlacedBy
  <2> SUFFICES ASSUME NEW i \in DOMAIN runq'
               PROVE  /\ mem[runq'[i].transport] = "live"
                      /\ looper = "poll" =>
                            \/ conn[runq'[i].transport] = "running"
                            \/ Errs(runq', runq'[i].transport)
    BY DEF Packets
  <2>2. CASE runq'[i] = HandleRead(t)
    BY <1>4, <2>1, <2>2, Closures
  <2>3. CASE i \in DOMAIN runq /\ runq'[i] = runq[i]
    <3>0. runq[i] \in Closure
      BY <1>0, <2>3
    <3>1. runq[i].transport \in Transports
      BY <3>0 DEF Closure
    <3> QED  BY <1>4, <2>3, <3>1 DEF IInv, Packets
  <2> QED  BY <1>0, <2>2, <2>3, Closures, AppendElements, SMTT(40)
<1>10. Listed'
  BY DEF IInv, Listed, SerialsUnique
<1> QED  BY <1>1, <1>2, <1>5, <1>6, <1>7, <1>8, <1>9, <1>10 DEF IInv

\* HandleError hands a running transport to the run queue, once.
LEMMA FailsStep ==
    ASSUME IInv, NEW t \in Transports, ConnectionFails(t)
    PROVE  IInv'
<1> USE DEF ConnectionFails, reconnect
<1>0. /\ runq \in Seq(Closure) /\ runq' = Append(runq, HandleError(t))
      /\ conn' = [conn EXCEPT ![t] = "failed"] /\ DOMAIN conn = Transports
      /\ conn[t] = "running"
  BY DEF IInv, TypeOK
<1>1. TypeOK'
  BY <1>0, Closures, AppendElements DEF IInv, TypeOK
<1>2. Handling'
  BY DEF IInv, Handling
<1>3. PICK w \in [Transports -> Places] : PlacedBy(w)
  BY DEF IInv, Placed
<1>4. w[t] = "conn" /\ ~Errs(runq, t) /\ ~Names(reg, t) /\ connector[t] # "created"
      /\ mem[t] = "live"
  BY <1>0, <1>3 DEF PlacedBy
<1>5. /\ \A u \in Transports : Errs(runq', u) <=> Errs(runq, u) \/ u = t
      /\ ErrOnce(runq')
  BY <1>0, <1>4, ErrsAppendError DEF IInv, Once
<1>6. Once'
  BY <1>5 DEF IInv, Once
<1>7. Placed'
  <2> DEFINE v == [w EXCEPT ![t] = "runq"]
  <2>1. v \in [Transports -> Places]
    BY DEF Places
  <2>2. PlacedBy(v)'
    BY <1>0, <1>3, <1>4, <1>5, SMTT(40) DEF PlacedBy
  <2> QED  BY <2>1, <2>2, Zenon DEF Placed
<1>8. Connections'
  BY <1>0, <1>4, <1>5, ZenonT(30) DEF IInv, Connections
<1>9. StartsFresh'
  BY <1>0, <1>4 DEF IInv, StartsFresh, Names
<1>10. Packets'
  <2> SUFFICES ASSUME NEW i \in DOMAIN runq'
               PROVE  /\ mem[runq'[i].transport] = "live"
                      /\ looper = "poll" =>
                            \/ conn'[runq'[i].transport] = "running"
                            \/ Errs(runq', runq'[i].transport)
    BY DEF Packets
  <2>2. CASE runq'[i] = HandleError(t)
    BY <1>4, <1>5, <2>2, Closures, SMTT(40)
  <2>3. CASE i \in DOMAIN runq /\ runq'[i] = runq[i]
    <3>0. runq[i] \in Closure
      BY <1>0, <2>3
    <3>1. runq[i].transport \in Transports
      BY <3>0, ZenonT(30) DEF Closure
    <3> QED  BY <1>0, <1>5, <2>3, <3>1, Zenon DEF IInv, Packets
  <2> QED  BY <1>0, <2>2, <2>3, Closures, AppendElements, SMTT(40)
<1>11. Listed'
  BY ZenonT(30) DEF IInv, Listed, SerialsUnique
<1> QED  BY <1>1, <1>2, <1>6, <1>7, <1>8, <1>9, <1>10, <1>11 DEF IInv

=============================================================================
