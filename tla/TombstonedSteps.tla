-------------------------- MODULE TombstonedSteps --------------------------
(***************************************************************************)
(* The inductive invariant of Tombstoned, and the steps of crashes and     *)
(* interceptors up to the dump.                                            *)
(***************************************************************************)
EXTENDS Tombstoned, FiniteSetTheorems, TLAPS

----------------------------------------------------------------------------
(* The inductive invariant. *)

(* A crash or an interceptor whose request was read has a pid. *)
PidsKnown ==
  /\ \A c \in Crashes : crash[c].state \in {"queued", "running"} => crash[c].pid \in Pids
  /\ \A i \in Intercepts : intercept[i].state = "registered" => intercept[i].pid \in Pids

(* The artifacts of a queue rotate: those before next_artifact_ are newer  *)
(* than those from it on, each part is in order, and no two are alike.     *)
Rotates(q) ==
  /\ \A k \in Paths(q) : disk[q][k] <= written[q]
  /\ \A k, l \in Paths(q) :
       LET n == queue[q].next_artifact
       IN  /\ k < n /\ n <= l => disk[q][l] < disk[q][k]
           /\ k < l /\ (l < n \/ n <= k) => disk[q][k] <= disk[q][l]
           /\ k # l /\ disk[q][k] = disk[q][l] => disk[q][k] = 0

Rotation == \A q \in Queues : intact[q] => Rotates(q)

IInv == /\ TypeOK /\ PidsKnown /\ PlacesCounted /\ NoIdlePlace /\ Owned /\ InterceptsFound
        /\ Rotation

----------------------------------------------------------------------------
(* Facts about the types. *)

QueueState == [num_concurrent_dumps : Nat, queued_requests : Seq(Crashes), next_artifact : Nat]

LEMMA QueueOf == ASSUME NEW type PROVE for_crash(type) \in Queues
BY DEF for_crash, Queues

LEMMA DeletedTyped ==
  /\ Deleted \in Crash /\ Deleted.state = "gone"
  /\ InterceptDeleted \in Intercept /\ InterceptDeleted.state = "gone"
BY DEF Deleted, NewCrash, Crash, InterceptDeleted, NewIntercept, Intercept, DumpTypes

LEMMA NewTyped ==
  /\ NewCrash \in Crash /\ NewCrash.state = "none"
  /\ NewIntercept \in Intercept /\ NewIntercept.state = "none"
  /\ NewQueue \in QueueState /\ NewQueue.num_concurrent_dumps = 0
  /\ NewQueue.queued_requests = <<>> /\ NewQueue.next_artifact = 0
BY DEF NewCrash, Crash, NewIntercept, Intercept, NewQueue, QueueState, DumpTypes

LEMMA PathsFact ==
  ASSUME NEW q \in Queues
  PROVE  /\ MaxArtifacts[q] \in Nat \ {0} /\ MaxDumps[q] \in Nat \ {0}
         /\ Paths(q) = 0 .. MaxArtifacts[q] - 1
         /\ 0 \in Paths(q)
BY TombstonedAssumption DEF Paths

(* get_next_artifact_paths goes round the paths. *)
LEMMA NextPath ==
  ASSUME NEW M \in Nat \ {0}, NEW k \in 0 .. M - 1
  PROVE  /\ (k + 0) % M = k
         /\ (k + 1) % M = IF k + 1 = M THEN 0 ELSE k + 1
OBVIOUS

----------------------------------------------------------------------------
(* Dumps that run. *)

LEMMA RunningFinite == ASSUME NEW q PROVE IsFiniteSet(Running(q))
BY TombstonedAssumption, FS_Subset DEF Running

LEMMA RunningSame ==
  ASSUME NEW q, NEW c \in Crashes, crash[c].state # "running", crash'[c].state # "running",
         \A e \in Crashes : e # c => crash'[e] = crash[e]
  PROVE  Running(q)' = Running(q)
BY DEF Running

LEMMA RunningMore ==
  ASSUME NEW q \in Queues, NEW c \in Crashes,
         crash[c].state # "running", crash'[c].state = "running",
         \A e \in Crashes : e # c => crash'[e] = crash[e]
  PROVE  IF q = for_crash(crash'[c].type)
         THEN Cardinality(Running(q)') = Cardinality(Running(q)) + 1
         ELSE Running(q)' = Running(q)
<1>1. CASE q = for_crash(crash'[c].type)
  <2>1. Running(q)' = Running(q) \cup {c} /\ c \notin Running(q)  BY <1>1 DEF Running
  <2> QED  BY Zenon, <1>1, <2>1, RunningFinite, FS_AddElement
<1>2. CASE q # for_crash(crash'[c].type)  BY <1>2 DEF Running
<1> QED  BY <1>1, <1>2

LEMMA RunningFewer ==
  ASSUME NEW q \in Queues, NEW c \in Crashes,
         crash[c].state = "running", crash'[c].state # "running",
         \A e \in Crashes : e # c => crash'[e] = crash[e]
  PROVE  IF q = for_crash(crash[c].type)
         THEN /\ Cardinality(Running(q)') = Cardinality(Running(q)) - 1
              /\ Cardinality(Running(q)) \in Nat \ {0}
         ELSE Running(q)' = Running(q)
<1>1. CASE q = for_crash(crash[c].type)
  <2>1. Running(q)' = Running(q) \ {c} /\ c \in Running(q)  BY <1>1 DEF Running
  <2>2. Cardinality(Running(q) \ {c}) = Cardinality(Running(q)) - 1
    BY Zenon, <2>1, RunningFinite, FS_RemoveElement
  <2>3. Cardinality(Running(q)) \in Nat /\ Cardinality(Running(q)) # 0
    BY <2>1, RunningFinite, FS_CardinalityType, FS_EmptySet
  <2> QED  BY <1>1, <2>1, <2>2, <2>3
<1>2. CASE q # for_crash(crash[c].type)  BY <1>2 DEF Running
<1> QED  BY <1>1, <1>2

----------------------------------------------------------------------------
(* Interceptors. *)

InterceptsTyped ==
  /\ intercept \in [Intercepts -> Intercept]
  /\ intercepts \in [Pids -> Intercepts \cup {None}]
  /\ \A i \in Intercepts : intercept[i].state = "registered" => intercept[i].pid \in Pids

(* Whoever takes an interceptor out of the map deletes it. *)
LEMMA TakeKeeps ==
  ASSUME InterceptsTyped, InterceptsFound,
         NEW i \in Intercepts, NEW p \in Pids, intercepts[p] = i,
         intercept' = [intercept EXCEPT ![i] = InterceptDeleted],
         intercepts' = [intercepts EXCEPT ![p] = None]
  PROVE  InterceptsTyped' /\ InterceptsFound'
<1>1. InterceptsTyped'  BY DeletedTyped DEF InterceptsTyped
<1>2. ASSUME NEW j \in Intercepts, NEW r \in Pids
      PROVE  (intercepts[r] = j <=> intercept[j].state = "registered" /\ intercept[j].pid = r)'
  <2>1. CASE j = i  BY <2>1, DeletedTyped, TombstonedAssumption DEF InterceptsFound, InterceptsTyped
  <2>2. CASE j # i
    <3>1. intercept'[j] = intercept[j]  BY <2>2 DEF InterceptsTyped
    <3>2. CASE r = p
      <4>1. intercepts'[r] # j  BY <3>2, TombstonedAssumption DEF InterceptsTyped
      <4>2. intercepts[r] # j  BY <3>2, <2>2
      <4> QED  BY <3>1, <4>1, <4>2 DEF InterceptsFound
    <3>3. CASE r # p
      <4>1. intercepts'[r] = intercepts[r]  BY <3>3 DEF InterceptsTyped
      <4> QED  BY <3>1, <4>1 DEF InterceptsFound
    <3> QED  BY <3>2, <3>3
  <2> QED  BY <2>1, <2>2
<1> QED  BY <1>1, <1>2 DEF InterceptsFound

LEMMA GetInterceptKeeps ==
  ASSUME InterceptsTyped, InterceptsFound, NEW p \in Pids, NEW type, GetIntercept(p, type)
  PROVE  InterceptsTyped' /\ InterceptsFound'
<1>1. CASE Intercepted(p, type)
  <2>1. intercepts[p] \in Intercepts  BY <1>1 DEF Intercepted, InterceptsTyped
  <2> QED  BY <1>1, <2>1, TakeKeeps DEF GetIntercept
<1>2. CASE ~Intercepted(p, type)
  BY <1>2 DEF GetIntercept, InterceptsTyped, InterceptsFound
<1> QED  BY <1>1, <1>2

----------------------------------------------------------------------------
(* perform_request. *)

(* A crash that has a free place runs and is counted, or is dropped and is *)
(* not counted.                                                            *)
LEMMA PerformKeeps ==
  ASSUME IInv, NEW c \in Crashes, NEW d \in Crash, NEW Q \in QueueState, d.pid \in Pids,
         crash[c].state # "running",
         Q.num_concurrent_dumps = queue[for_crash(d.type)].num_concurrent_dumps,
         Q.next_artifact = queue[for_crash(d.type)].next_artifact,
         Q.num_concurrent_dumps < MaxDumps[for_crash(d.type)],
         perform_request(c, d, Q)
  PROVE  /\ crash' \in [Crashes -> Crash] /\ queue' \in [Queues -> QueueState]
         /\ InterceptsTyped' /\ InterceptsFound'
         /\ \A e \in Crashes : e # c => crash'[e] = crash[e]
         /\ crash'[c].state \in {"running", "gone"}
         /\ crash'[c].state = "running" => crash'[c].pid \in Pids
         /\ \A q \in Queues : /\ queue'[q].next_artifact = queue[q].next_artifact
                              /\ q # for_crash(d.type) => queue'[q] = queue[q]
         /\ queue'[for_crash(d.type)].queued_requests = Q.queued_requests
         /\ PlacesCounted'
<1> DEFINE q == for_crash(d.type)
           output == IF Intercepted(d.pid, d.type) THEN "intercept" ELSE get_output(d.type)
           run == [d EXCEPT !.state = "running", !.output = output]
           Q1 == [Q EXCEPT !.num_concurrent_dumps = @ + 1]
<1>0. /\ crash \in [Crashes -> Crash] /\ queue \in [Queues -> QueueState]
      /\ InterceptsTyped /\ InterceptsFound /\ PlacesCounted
  BY SMTT(30) DEF IInv, TypeOK, PidsKnown, InterceptsTyped, QueueState
<1>1. InterceptsTyped' /\ InterceptsFound'
  <2>1. GetIntercept(d.pid, d.type)  BY DEF perform_request
  <2> QED  BY <1>0, <2>1, GetInterceptKeeps
<1>2. q \in Queues  BY QueueOf
<1>3. run \in Crash /\ run.state = "running" /\ run.pid = d.pid /\ run.type = d.type
  BY Zenon DEF Crash, get_output
<1>4. /\ Q1 \in QueueState /\ Q1.num_concurrent_dumps = Q.num_concurrent_dumps + 1
      /\ Q1.next_artifact = Q.next_artifact /\ Q1.queued_requests = Q.queued_requests
  BY DEF QueueState
<1>5. CASE crash' = [crash EXCEPT ![c] = run] /\ queue' = [queue EXCEPT ![q] = Q1]
  <2> HIDE DEF run, Q1, q
  <2>1. /\ crash' \in [Crashes -> Crash] /\ queue' \in [Queues -> QueueState]
        /\ crash'[c] = run /\ queue'[q] = Q1
        /\ \A e \in Crashes : e # c => crash'[e] = crash[e]
        /\ \A r \in Queues : r # q => queue'[r] = queue[r]
    BY <1>0, <1>2, <1>3, <1>4, <1>5
  <2>2. ASSUME NEW r \in Queues
        PROVE  /\ queue'[r].num_concurrent_dumps = Cardinality(Running(r)')
               /\ queue'[r].num_concurrent_dumps <= MaxDumps[r]
    <3>1. CASE r = q
      <4>1. Cardinality(Running(r)') = Cardinality(Running(r)) + 1
        BY <2>1, <1>3, <3>1, RunningMore DEF q
      <4>2. Q1.num_concurrent_dumps <= MaxDumps[r]
        BY <1>4, <3>1, PathsFact DEF q, QueueState
      <4>3. queue[r].num_concurrent_dumps = Cardinality(Running(r))  BY <1>0 DEF PlacesCounted
      <4> QED  BY <4>1, <4>2, <4>3, <2>1, <3>1, <1>4 DEF q
    <3>2. CASE r # q
      <4>1. Running(r)' = Running(r)  BY <2>1, <1>3, <3>2, RunningMore DEF q
      <4> QED  BY <4>1, <2>1, <1>0, <3>2 DEF PlacesCounted
    <3> QED  BY <3>1, <3>2
  <2>3. PlacesCounted'  BY <2>2 DEF PlacesCounted
  <2> QED  BY <1>1, <1>3, <1>4, <2>1, <2>3 DEF q
<1>6. CASE crash' = [crash EXCEPT ![c] = Deleted] /\ queue' = [queue EXCEPT ![q] = Q]
  <2> HIDE DEF run, Q1, q
  <2>1. /\ crash' \in [Crashes -> Crash] /\ queue' \in [Queues -> QueueState]
        /\ crash'[c].state = "gone" /\ queue'[q] = Q
        /\ \A e \in Crashes : e # c => crash'[e] = crash[e]
        /\ \A r \in Queues : r # q => queue'[r] = queue[r]
    BY <1>0, <1>2, <1>6, DeletedTyped
  <2>2. \A r \in Queues : Running(r)' = Running(r)  BY <2>1, RunningSame
  <2>3. \A r \in Queues : queue'[r].num_concurrent_dumps = queue[r].num_concurrent_dumps
    BY <2>1 DEF q
  <2>4. PlacesCounted'  BY <2>2, <2>3, <1>0 DEF PlacesCounted
  <2> QED  BY <1>1, <2>1, <2>4 DEF q
<1> QED  BY <1>5, <1>6 DEF perform_request

----------------------------------------------------------------------------
(* Parts of the invariant that a step leaves alone. *)

FilesTyped ==
  /\ \A q \in Queues : queue[q].next_artifact \in Paths(q)
  /\ DOMAIN disk = Queues
  /\ \A q \in Queues : disk[q] \in [Paths(q) -> Nat]
  /\ written \in [Queues -> Nat]
  /\ intact \in [Queues -> BOOLEAN]

LEMMA TypeOKParts ==
  /\ crash \in [Crashes -> Crash] /\ queue \in [Queues -> QueueState]
  /\ InterceptsTyped /\ FilesTyped
  /\ dequeuing \in Queues \cup {None} /\ restarts \in Nat
  => TypeOK
BY DEF TypeOK, QueueState, InterceptsTyped, FilesTyped

LEMMA FilesSame ==
  ASSUME FilesTyped, Rotation, UNCHANGED files,
         \A q \in Queues : queue'[q].next_artifact = queue[q].next_artifact
  PROVE  FilesTyped' /\ Rotation'
BY DEF FilesTyped, Rotation, Rotates, files

(* A crash that is not queued before or after does not matter to Owned. *)
LEMMA OwnedSame ==
  ASSUME Owned, NEW c \in Crashes, crash[c].state # "queued", crash'[c].state # "queued",
         \A e \in Crashes : e # c => crash'[e] = crash[e],
         \A q \in Queues : queue'[q].queued_requests = queue[q].queued_requests
  PROVE  Owned'
<1>1. \A q \in Queues : Queued(q)' = Queued(q)  BY DEF Queued
<1> QED  BY <1>1 DEF Owned

----------------------------------------------------------------------------
(* One lemma per kind of step. *)

LEMMA InitIInv == Init => IInv
<1> SUFFICES ASSUME Init PROVE IInv  OBVIOUS
<1> USE DEF Init
<1>1. \A q \in Queues : queue[q] = NewQueue /\ NewQueue.next_artifact \in Paths(q)
  BY NewTyped, PathsFact
<1>2. TypeOK
  <2>1. crash \in [Crashes -> Crash] /\ queue \in [Queues -> QueueState] /\ InterceptsTyped
    BY NewTyped DEF InterceptsTyped
  <2>2. FilesTyped  BY <1>1 DEF FilesTyped
  <2> QED  BY <2>1, <2>2, TypeOKParts
<1>3. PidsKnown  BY NewTyped DEF PidsKnown
<1>4. PlacesCounted
  <2>1. \A q \in Queues : Running(q) = {}  BY NewTyped DEF Running
  <2>2. Cardinality({}) = 0  BY FS_EmptySet
  <2>3. \A q \in Queues : queue[q].num_concurrent_dumps = 0 /\ 0 <= MaxDumps[q]
    BY <1>1, NewTyped, PathsFact
  <2> QED  BY Zenon, <2>1, <2>2, <2>3 DEF PlacesCounted
<1>5. NoIdlePlace  BY <1>1, NewTyped DEF NoIdlePlace
<1>6. Owned  BY <1>1, NewTyped DEF Owned, Queued, Enumerates
<1>7. InterceptsFound  BY NewTyped, TombstonedAssumption DEF InterceptsFound
<1>8. Rotation
  <2>1. \A q \in Queues : \A k \in Paths(q) : disk[q][k] = 0 /\ k \in Nat  BY PathsFact
  <2> QED  BY <2>1, <1>1, NewTyped DEF Rotation, Rotates
<1> QED  BY <1>2, <1>3, <1>4, <1>5, <1>6, <1>7, <1>8 DEF IInv

(* A step of an interceptor. *)
LEMMA InterceptorKeeps ==
  ASSUME IInv, InterceptsTyped', InterceptsFound', UNCHANGED <<crash, queue, dequeuing, files, restarts>>
  PROVE  IInv'
<1>1. TypeOK'  BY TypeOKParts DEF IInv, TypeOK, PidsKnown, InterceptsTyped, QueueState, FilesTyped, files
<1>2. PidsKnown'  BY DEF IInv, PidsKnown, InterceptsTyped
<1>3. PlacesCounted'  BY DEF IInv, PlacesCounted, Running
<1>4. NoIdlePlace'  BY DEF IInv, NoIdlePlace, Full
<1>5. Owned'  BY DEF IInv, Owned, Queued
<1>6. Rotation'  BY DEF IInv, Rotation, Rotates, files
<1> QED  BY <1>1, <1>2, <1>3, <1>4, <1>5, <1>6 DEF IInv

(* A step of a crash that neither waits nor runs. *)
LEMMA ConnectionKeeps ==
  ASSUME IInv, NEW c \in Crashes, NEW d \in Crash, d.state \in {"accepted", "gone"},
         crash[c].state \in {"none", "accepted"}, crash' = [crash EXCEPT ![c] = d],
         UNCHANGED <<queue, intercept, intercepts, dequeuing, files, restarts>>
  PROVE  IInv'
<1>1. /\ crash' \in [Crashes -> Crash] /\ crash'[c] = d
      /\ \A e \in Crashes : e # c => crash'[e] = crash[e]
  BY DEF IInv, TypeOK
<1>2. TypeOK'  BY <1>1, TypeOKParts DEF IInv, TypeOK, PidsKnown, InterceptsTyped, QueueState, FilesTyped, files
<1>3. PidsKnown'  BY <1>1 DEF IInv, PidsKnown
<1>4. PlacesCounted'
  <2>1. \A q \in Queues : Running(q)' = Running(q)  BY <1>1, RunningSame
  <2> QED  BY <2>1 DEF IInv, PlacesCounted
<1>5. NoIdlePlace'  BY DEF IInv, NoIdlePlace, Full
<1>6. Owned'
  <2>1. Owned  BY DEF IInv
  <2> QED  BY <1>1, <2>1, OwnedSame
<1>7. InterceptsFound'  BY DEF IInv, InterceptsFound
<1>8. Rotation'  BY DEF IInv, Rotation, Rotates, files
<1> QED  BY <1>2, <1>3, <1>4, <1>5, <1>6, <1>7, <1>8 DEF IInv

----------------------------------------------------------------------------
(* Sequences that enumerate a set. *)

LEMMA EnumeratesAppend ==
  ASSUME NEW S, NEW T, NEW s \in Seq(T), NEW c \in T, Enumerates(s, S), c \notin S
  PROVE  Enumerates(Append(s, c), S \cup {c})
<1> DEFINE u == Append(s, c)
<1>1. /\ DOMAIN u = 1 .. Len(s) + 1 /\ DOMAIN s = 1 .. Len(s) /\ Len(s) \in Nat
      /\ u[Len(s) + 1] = c /\ \A n \in 1 .. Len(s) : u[n] = s[n]
  OBVIOUS
<1> HIDE DEF u
<1>2. \A n \in DOMAIN u : n = Len(s) + 1 \/ n \in DOMAIN s  BY <1>1
<1>3. \A n \in DOMAIN u : u[n] \in S \cup {c}  BY <1>1, <1>2 DEF Enumerates
<1>4. \A m, n \in DOMAIN u : u[m] = u[n] => m = n  BY <1>1, <1>2 DEF Enumerates
<1>5. \A e \in S \cup {c} : \E n \in DOMAIN u : u[n] = e
  <2>1. DOMAIN s \subseteq DOMAIN u /\ Len(s) + 1 \in DOMAIN u  BY <1>1
  <2> QED  BY <1>1, <2>1 DEF Enumerates
<1> QED  BY <1>3, <1>4, <1>5 DEF Enumerates, u

LEMMA EnumeratesTail ==
  ASSUME NEW S, NEW T, NEW s \in Seq(T), s # <<>>, Enumerates(s, S)
  PROVE  Enumerates(Tail(s), S \ {Head(s)}) /\ Head(s) \in S
<1> DEFINE u == Tail(s)
<1>1. /\ DOMAIN s = 1 .. Len(s) /\ Len(s) \in Nat \ {0} /\ DOMAIN u = 1 .. Len(s) - 1
      /\ Head(s) = s[1] /\ \A n \in 1 .. Len(s) - 1 : u[n] = s[n + 1]
  OBVIOUS
<1> HIDE DEF u
<1>2. \A n \in DOMAIN u : n \in Nat /\ n + 1 \in DOMAIN s /\ n + 1 # 1 /\ u[n] = s[n + 1]  BY <1>1
<1>3. 1 \in DOMAIN s  BY <1>1
<1>4. \A n \in DOMAIN u : u[n] \in S \ {Head(s)}  BY <1>1, <1>2, <1>3 DEF Enumerates
<1>5. \A m, n \in DOMAIN u : u[m] = u[n] => m = n
  <2> TAKE m, n \in DOMAIN u
  <2>1. u[m] = u[n] => m + 1 = n + 1  BY <1>2 DEF Enumerates
  <2> QED  BY <2>1, <1>2
<1>6. ASSUME NEW e \in S \ {Head(s)} PROVE \E n \in DOMAIN u : u[n] = e
  <2>1. PICK k \in DOMAIN s : s[k] = e  BY DEF Enumerates
  <2>2. k # 1  BY <2>1, <1>1
  <2>3. k - 1 \in 1 .. Len(s) - 1 /\ (k - 1) + 1 = k  BY <2>2, <1>1
  <2>4. k - 1 \in DOMAIN u /\ u[k - 1] = e  BY <2>1, <2>3, <1>1
  <2> QED  BY <2>4
<1>7. Head(s) \in S  BY <1>1, <1>3 DEF Enumerates
<1> QED  BY <1>4, <1>5, <1>6, <1>7 DEF Enumerates, u

----------------------------------------------------------------------------
(* The steps of a crash that has made its request. *)

LEMMA EnqueueKeeps ==
  ASSUME IInv, NEW c \in Crashes, NEW d \in Crash, d.state = "queued", d.pid \in Pids,
         crash[c].state = "accepted", Idle, Full(for_crash(d.type)),
         crash' = [crash EXCEPT ![c] = d],
         queue' = [queue EXCEPT ![for_crash(d.type)].queued_requests = Append(@, c)],
         UNCHANGED <<intercept, intercepts, dequeuing, files, restarts>>
  PROVE  IInv'
<1> DEFINE q == for_crash(d.type)
           Q == [queue[q] EXCEPT !.queued_requests = Append(@, c)]
<1>0. q \in Queues  BY QueueOf
<1>1. /\ crash' \in [Crashes -> Crash] /\ crash'[c] = d
      /\ \A e \in Crashes : e # c => crash'[e] = crash[e]
  BY DEF IInv, TypeOK
<1>2. queue \in [Queues -> QueueState]  BY DEF IInv, TypeOK, QueueState
<1>3. /\ Q \in QueueState /\ Q.queued_requests = Append(queue[q].queued_requests, c)
      /\ Q.num_concurrent_dumps = queue[q].num_concurrent_dumps
      /\ Q.next_artifact = queue[q].next_artifact
      /\ queue[q].queued_requests \in Seq(Crashes)
  <2>1. queue[q] \in QueueState /\ queue[q].queued_requests \in Seq(Crashes)
    BY <1>0, <1>2 DEF QueueState
  <2>2. Append(queue[q].queued_requests, c) \in Seq(Crashes)  BY <2>1
  <2> QED  BY Zenon, <2>1, <2>2 DEF QueueState
<1>4. queue' = [queue EXCEPT ![q] = Q]  OBVIOUS
<1> HIDE DEF Q, q
<1>5. /\ queue' \in [Queues -> QueueState] /\ queue'[q] = Q
      /\ \A r \in Queues : r # q => queue'[r] = queue[r]
  BY <1>0, <1>2, <1>3, <1>4
<1>6. \A r \in Queues : /\ queue'[r].next_artifact = queue[r].next_artifact
                        /\ queue'[r].num_concurrent_dumps = queue[r].num_concurrent_dumps
  BY <1>3, <1>5
<1>7. FilesTyped' /\ Rotation'
  <2>1. FilesTyped /\ Rotation  BY DEF IInv, TypeOK, FilesTyped
  <2> QED  BY <2>1, <1>6, FilesSame
<1>8. TypeOK'
  <2>1. InterceptsTyped'  BY DEF IInv, TypeOK, PidsKnown, InterceptsTyped
  <2>2. dequeuing' \in Queues \cup {None} /\ restarts' \in Nat  BY DEF IInv, TypeOK
  <2> QED  BY <1>1, <1>5, <1>7, <2>1, <2>2 DEF TypeOK, QueueState, InterceptsTyped, FilesTyped
<1>9. PidsKnown'  BY <1>1 DEF IInv, PidsKnown
<1>10. PlacesCounted'
  <2>1. \A r \in Queues : Running(r)' = Running(r)  BY <1>1, RunningSame
  <2> QED  BY <2>1, <1>6 DEF IInv, PlacesCounted
<1>11. NoIdlePlace'
  <2>1. ASSUME NEW r \in Queues, r # q, queue'[r].queued_requests # <<>>, dequeuing' # r
        PROVE  Full(r)'
    BY <2>1, <1>5 DEF IInv, NoIdlePlace, Full
  <2>2. Full(q)'  BY <1>0, <1>6 DEF Full, q
  <2> QED  BY <2>1, <2>2 DEF NoIdlePlace
<1>12. Owned'
  <2>1. c \notin Queued(q) /\ Queued(q)' = Queued(q) \cup {c}  BY <1>1 DEF Queued, q
  <2>2. Enumerates(queue[q].queued_requests, Queued(q))  BY <1>0 DEF IInv, Owned
  <2>3. Enumerates(Q.queued_requests, Queued(q)')  BY <2>1, <2>2, <1>3, EnumeratesAppend
  <2>4. \A r \in Queues : r # q => Queued(r)' = Queued(r)  BY <1>1 DEF Queued, q
  <2> QED  BY Zenon, <2>3, <2>4, <1>5 DEF IInv, Owned
<1>13. InterceptsFound'  BY DEF IInv, InterceptsFound
<1> QED  BY <1>7, <1>8, <1>9, <1>10, <1>11, <1>12, <1>13 DEF IInv

LEMMA RequestKeeps ==
  ASSUME IInv, NEW c \in Crashes, NEW p \in Pids, NEW type \in DumpTypes, crash_request_cb(c, p, type)
  PROVE  IInv'
<1> DEFINE q == for_crash(type)
           d == [crash[c] EXCEPT !.type = type, !.pid = p]
           w == [d EXCEPT !.state = "queued"]
<1>0. /\ q \in Queues /\ Idle /\ crash[c].state = "accepted" /\ crash[c] \in Crash
      /\ UNCHANGED <<dequeuing, files, restarts>>
  BY QueueOf DEF crash_request_cb, IInv, TypeOK
<1>1. d \in Crash /\ d.type = type /\ d.pid = p  BY Zenon, <1>0 DEF Crash
<1>2. w \in Crash /\ w.type = type /\ w.pid = p /\ w.state = "queued"  BY Zenon, <1>0 DEF Crash
<1>3. \/ /\ Full(q) /\ crash' = [crash EXCEPT ![c] = w]
         /\ queue' = [queue EXCEPT ![q].queued_requests = Append(@, c)]
         /\ UNCHANGED <<intercept, intercepts>>
      \/ ~Full(q) /\ perform_request(c, d, queue[q])
  BY DEF crash_request_cb
<1> HIDE DEF d, w
<1>4. CASE /\ Full(q) /\ crash' = [crash EXCEPT ![c] = w]
           /\ queue' = [queue EXCEPT ![q].queued_requests = Append(@, c)]
           /\ UNCHANGED <<intercept, intercepts>>
  BY Zenon, <1>0, <1>2, <1>4, EnqueueKeeps
<1>5. CASE ~Full(q) /\ perform_request(c, d, queue[q])
  <2> HIDE DEF q
  <2>1. /\ queue[q] \in QueueState /\ queue[q].num_concurrent_dumps < MaxDumps[q]
        /\ queue[q].queued_requests = <<>>
    <3>1. queue[q] \in QueueState  BY <1>0 DEF IInv, TypeOK, QueueState
    <3>2. queue[q].num_concurrent_dumps <= MaxDumps[q] /\ queue[q].num_concurrent_dumps # MaxDumps[q]
      BY <1>0, <1>5 DEF IInv, PlacesCounted, Full
    <3>3. dequeuing # q  BY <1>0 DEF Idle, None, Queues
    <3>4. queue[q].queued_requests = <<>>  BY <1>0, <1>5, <3>3 DEF IInv, NoIdlePlace
    <3>5. queue[q].num_concurrent_dumps \in Nat /\ MaxDumps[q] \in Nat
      BY <3>1, <1>0, PathsFact DEF QueueState
    <3> QED  BY <3>1, <3>2, <3>4, <3>5
  <2>2. for_crash(d.type) = q  BY <1>1 DEF q
  <2>3. /\ crash' \in [Crashes -> Crash] /\ queue' \in [Queues -> QueueState]
        /\ InterceptsTyped' /\ InterceptsFound' /\ PlacesCounted'
        /\ \A e \in Crashes : e # c => crash'[e] = crash[e]
        /\ crash'[c].state \in {"running", "gone"}
        /\ crash'[c].state = "running" => crash'[c].pid \in Pids
        /\ \A r \in Queues : /\ queue'[r].next_artifact = queue[r].next_artifact
                             /\ r # q => queue'[r] = queue[r]
        /\ queue'[q].queued_requests = queue[q].queued_requests
    <3>1. crash[c].state # "running" /\ d.pid \in Pids  BY <1>0, <1>1
    <3> QED  BY <1>1, <1>5, <2>1, <2>2, <3>1, PerformKeeps
  <2>4. FilesTyped' /\ Rotation'
    <3>1. FilesTyped /\ Rotation  BY DEF IInv, TypeOK, FilesTyped
    <3> QED  BY <3>1, <1>0, <2>3, FilesSame
  <2>5. TypeOK'
    <3>1. dequeuing' \in Queues \cup {None} /\ restarts' \in Nat  BY <1>0 DEF IInv, TypeOK
    <3> QED  BY SMTT(30), <2>3, <2>4, <3>1 DEF TypeOK, QueueState, InterceptsTyped, FilesTyped
  <2>6. PidsKnown'  BY <2>3 DEF IInv, PidsKnown, InterceptsTyped
  <2>7. NoIdlePlace'
    <3>1. ASSUME NEW r \in Queues, r # q, queue'[r].queued_requests # <<>>, dequeuing' # r
          PROVE  Full(r)'
      BY <3>1, <2>3, <1>0 DEF IInv, NoIdlePlace, Full
    <3> QED  BY <3>1, <2>1, <2>3 DEF NoIdlePlace
  <2>8. Owned'
    <3>1. crash[c].state # "queued" /\ crash'[c].state # "queued" /\ Owned  BY <1>0, <2>3 DEF IInv
    <3>2. \A r \in Queues : queue'[r].queued_requests = queue[r].queued_requests  BY <2>3
    <3> QED  BY <2>3, <3>1, <3>2, OwnedSame
  <2> QED  BY <2>3, <2>4, <2>5, <2>6, <2>7, <2>8 DEF IInv
<1> QED  BY <1>3, <1>4, <1>5

LEMMA DequeueStepKeeps ==
  ASSUME IInv, NEW q \in Queues, Dequeue(q)
  PROVE  IInv'
<1> DEFINE c == Head(queue[q].queued_requests)
           Q == [queue[q] EXCEPT !.queued_requests = Tail(@)]
<1>0. /\ dequeuing = q /\ Waits(q) /\ perform_request(c, crash[c], Q)
      /\ UNCHANGED <<dequeuing, files, restarts>>
  BY DEF Dequeue
<1>1. queue[q] \in QueueState /\ queue[q].queued_requests \in Seq(Crashes)
  BY DEF IInv, TypeOK, QueueState
<1>2. /\ Enumerates(Tail(queue[q].queued_requests), Queued(q) \ {c}) /\ c \in Queued(q)
  <2>1. Enumerates(queue[q].queued_requests, Queued(q))  BY DEF IInv, Owned
  <2> QED  BY Zenon, <1>0, <1>1, <2>1, EnumeratesTail DEF Waits
<1>3. /\ c \in Crashes /\ crash[c] \in Crash /\ crash[c].state = "queued"
      /\ for_crash(crash[c].type) = q /\ crash[c].pid \in Pids
  BY <1>2 DEF Queued, IInv, TypeOK, PidsKnown
<1>4. /\ Q \in QueueState /\ Q.num_concurrent_dumps = queue[q].num_concurrent_dumps
      /\ Q.next_artifact = queue[q].next_artifact
      /\ Q.queued_requests = Tail(queue[q].queued_requests)
  <2>1. Tail(queue[q].queued_requests) \in Seq(Crashes)  BY <1>0, <1>1 DEF Waits
  <2> QED  BY Zenon, <1>1, <2>1 DEF QueueState
<1> HIDE DEF c, Q
<1>5. /\ crash' \in [Crashes -> Crash] /\ queue' \in [Queues -> QueueState]
      /\ InterceptsTyped' /\ InterceptsFound' /\ PlacesCounted'
      /\ \A e \in Crashes : e # c => crash'[e] = crash[e]
      /\ crash'[c].state \in {"running", "gone"}
      /\ crash'[c].state = "running" => crash'[c].pid \in Pids
      /\ \A r \in Queues : /\ queue'[r].next_artifact = queue[r].next_artifact
                           /\ r # q => queue'[r] = queue[r]
      /\ queue'[q].queued_requests = Q.queued_requests
  <2>1. Q.num_concurrent_dumps < MaxDumps[q]  BY <1>0, <1>4 DEF Waits
  <2>2. crash[c].state # "running"  BY <1>3
  <2> QED  BY <1>0, <1>3, <1>4, <2>1, <2>2, PerformKeeps
<1>6. FilesTyped' /\ Rotation'
  <2>1. FilesTyped /\ Rotation  BY DEF IInv, TypeOK, FilesTyped
  <2> QED  BY <2>1, <1>0, <1>5, FilesSame
<1>7. TypeOK'
  <2>1. dequeuing' \in Queues \cup {None} /\ restarts' \in Nat  BY <1>0 DEF IInv, TypeOK
  <2> QED  BY <1>5, <1>6, <2>1 DEF TypeOK, QueueState, InterceptsTyped, FilesTyped
<1>8. PidsKnown'  BY <1>5 DEF IInv, PidsKnown, InterceptsTyped
<1>9. NoIdlePlace'  BY <1>0, <1>5 DEF IInv, NoIdlePlace, Full
<1>10. Owned'
  <2>1. Queued(q)' = Queued(q) \ {c}  BY <1>3, <1>5 DEF Queued
  <2>2. \A r \in Queues : r # q => Queued(r)' = Queued(r)  BY <1>3, <1>5 DEF Queued
  <2>3. Enumerates(queue'[q].queued_requests, Queued(q)')  BY <1>2, <1>4, <1>5, <2>1
  <2> QED  BY <2>2, <2>3, <1>5 DEF IInv, Owned
<1> QED  BY <1>5, <1>6, <1>7, <1>8, <1>9, <1>10 DEF IInv

LEMMA DequeueEndsKeeps ==
  ASSUME IInv, NEW q \in Queues, DequeueEnds(q)
  PROVE  IInv'
<1> USE DEF DequeueEnds
<1>1. TypeOK'  BY TypeOKParts DEF IInv, TypeOK, PidsKnown, InterceptsTyped, QueueState, FilesTyped, files
<1>2. PidsKnown'  BY DEF IInv, PidsKnown
<1>3. PlacesCounted'  BY DEF IInv, PlacesCounted, Running
<1>4. NoIdlePlace'
  <2>1. ASSUME NEW r \in Queues, queue[r].queued_requests # <<>> PROVE Full(r)
    <3>1. CASE r # q  BY <2>1, <3>1 DEF IInv, NoIdlePlace
    <3>2. CASE r = q
      <4>1. /\ queue[q].num_concurrent_dumps \in Nat /\ MaxDumps[q] \in Nat
            /\ queue[q].num_concurrent_dumps <= MaxDumps[q]
        BY PathsFact DEF IInv, TypeOK, PlacesCounted
      <4> QED  BY <2>1, <3>2, <4>1 DEF Waits, Full
    <3> QED  BY <3>1, <3>2
  <2> QED  BY <2>1 DEF NoIdlePlace, Full
<1>5. Owned'  BY DEF IInv, Owned, Queued
<1>6. InterceptsFound'  BY DEF IInv, InterceptsFound
<1>7. Rotation'  BY DEF IInv, Rotation, Rotates, files
<1> QED  BY <1>1, <1>2, <1>3, <1>4, <1>5, <1>6, <1>7 DEF IInv
=============================================================================
