-------------------------- MODULE TombstonedProofs --------------------------
(***************************************************************************)
(* Proofs about Tombstoned, for any number of processes, interceptors,     *)
(* pids and places.  The invariant and the steps up to the dump are in     *)
(* TombstonedSteps.                                                        *)
(***************************************************************************)
EXTENDS TombstonedSteps, WellFoundedInduction

----------------------------------------------------------------------------
(* The end of a dump. *)

(* The new artifact takes the place of the oldest, and the next is oldest. *)
LEMMA WriteRotates ==
  ASSUME NEW q \in Queues, FilesTyped, Rotates(q),
         queue'[q].next_artifact = (queue[q].next_artifact + 1) % MaxArtifacts[q],
         written'[q] = written[q] + 1,
         disk'[q] = [disk[q] EXCEPT ![queue[q].next_artifact] = written[q] + 1]
  PROVE  Rotates(q)'
<1> DEFINE n == queue[q].next_artifact
           M == MaxArtifacts[q]
           D == disk[q]
           E == disk'[q]
           w == written[q]
<1>1. /\ M \in Nat \ {0} /\ n \in 0 .. M - 1 /\ D \in [0 .. M - 1 -> Nat] /\ w \in Nat
      /\ Paths(q) = 0 .. M - 1
  BY SMTT(30), PathsFact DEF FilesTyped
<1>2. /\ \A k \in 0 .. M - 1 : D[k] <= w
      /\ \A k, l \in 0 .. M - 1 : /\ k < n /\ n <= l => D[l] < D[k]
                                  /\ k < l /\ (l < n \/ n <= k) => D[k] <= D[l]
                                  /\ k # l /\ D[k] = D[l] => D[k] = 0
  BY Zenon, <1>1 DEF Rotates
<1>3. E[n] = w + 1 /\ \A k \in 0 .. M - 1 : k # n => E[k] = D[k]  BY SMTT(30), <1>1
<1>4. queue'[q].next_artifact = IF n + 1 = M THEN 0 ELSE n + 1  BY Zenon, <1>1, NextPath
<1>5. written'[q] = w + 1  OBVIOUS
<1> HIDE DEF n, M, D, E, w
<1>6. \A k \in 0 .. M - 1 : E[k] <= w + 1
  <2> TAKE k \in 0 .. M - 1
  <2>1. D[k] \in Nat /\ D[k] <= w /\ w \in Nat  BY <1>1, <1>2
  <2> QED  BY <2>1, <1>3
<1>7. ASSUME NEW k \in 0 .. M - 1, NEW l \in 0 .. M - 1
      PROVE  /\ k < queue'[q].next_artifact /\ queue'[q].next_artifact <= l => E[l] < E[k]
             /\ k < l /\ (l < queue'[q].next_artifact \/ queue'[q].next_artifact <= k) => E[k] <= E[l]
             /\ k # l /\ E[k] = E[l] => E[k] = 0
  <2>1. /\ D[k] \in Nat /\ D[l] \in Nat /\ D[k] <= w /\ D[l] <= w /\ w \in Nat
        /\ n \in 0 .. M - 1 /\ M \in Nat
    BY <1>1, <1>2
  <2>2. /\ k < n /\ n <= l => D[l] < D[k]
        /\ k < l /\ (l < n \/ n <= k) => D[k] <= D[l]
        /\ k # l /\ D[k] = D[l] => D[k] = 0
    BY <1>2
  <2>3. /\ k = n => E[k] = w + 1
        /\ k # n => E[k] = D[k]
        /\ l = n => E[l] = w + 1
        /\ l # n => E[l] = D[l]
    BY <1>3
  <2> QED  BY <2>1, <2>2, <2>3, <1>4
<1> QED  BY SMTT(30), <1>1, <1>5, <1>6, <1>7 DEF Rotates, E

LEMMA CompletedKeeps ==
  ASSUME IInv, NEW c \in Crashes, crash_completed_cb(c)
  PROVE  IInv'
<1> DEFINE q == for_crash(crash[c].type)
           n == queue[q].next_artifact
           N == queue[q].num_concurrent_dumps
           M == MaxArtifacts[q]
<1>0. q \in Queues  BY QueueOf
<1>1. /\ Idle /\ crash[c].state = "running" /\ dequeuing' = q
      /\ crash' = [crash EXCEPT ![c] = Deleted]
      /\ UNCHANGED <<intercept, intercepts, restarts>>
  BY DEF crash_completed_cb, CompletedEmpty, CompletedFile, Completed
<1>2. PICK step \in {0, 1} :
        /\ OnCompleted(q, step)
        /\ step = 0 => UNCHANGED files
        /\ step = 1 =>
             \/ /\ written' = [written EXCEPT ![q] = @ + 1]
                /\ disk' = [disk EXCEPT ![q][n] = written[q] + 1]
                /\ UNCHANGED intact
             \/ /\ intact' = [intact EXCEPT ![q] = FALSE]
                /\ disk' \in {disk, [disk EXCEPT ![q][n] = 0]}
                /\ UNCHANGED written
  BY DEF crash_completed_cb, CompletedEmpty, CompletedFile
<1>3. FilesTyped /\ Rotation /\ crash \in [Crashes -> Crash] /\ queue \in [Queues -> QueueState]
  BY DEF IInv, TypeOK, FilesTyped, QueueState
<1>4. M \in Nat \ {0} /\ n \in 0 .. M - 1 /\ Paths(q) = 0 .. M - 1
  BY <1>0, <1>3, PathsFact DEF FilesTyped
<1>5. /\ crash' \in [Crashes -> Crash] /\ crash'[c].state = "gone"
      /\ \A e \in Crashes : e # c => crash'[e] = crash[e]
  BY <1>1, <1>3, DeletedTyped
<1>6. N \in Nat \ {0} /\ N = Cardinality(Running(q)) /\ N <= MaxDumps[q]
  <2>1. Cardinality(Running(q)) \in Nat \ {0}  BY <1>0, <1>1, <1>5, RunningFewer
  <2> QED  BY <1>0, <2>1 DEF IInv, PlacesCounted
<1>7. /\ queue' \in [Queues -> QueueState]
      /\ queue'[q].num_concurrent_dumps = N - 1
      /\ queue'[q].next_artifact = (n + step) % M
      /\ \A r \in Queues : queue'[r].queued_requests = queue[r].queued_requests
      /\ \A r \in Queues : r # q => queue'[r] = queue[r]
  <2> DEFINE Q == [queue[q] EXCEPT !.num_concurrent_dumps = @ - 1, !.next_artifact = (@ + step) % M]
  <2>1. (n + step) % M \in Nat /\ N - 1 \in Nat  BY SMTT(30), <1>4, <1>6
  <2>2. queue' = [queue EXCEPT ![q] = Q]  BY Zenon, <1>2 DEF OnCompleted
  <2>3. queue[q] \in QueueState  BY <1>0, <1>3
  <2>4. /\ Q \in QueueState /\ Q.num_concurrent_dumps = N - 1 /\ Q.next_artifact = (n + step) % M
        /\ Q.queued_requests = queue[q].queued_requests
    BY Zenon, <2>1, <2>3 DEF QueueState
  <2> HIDE DEF Q, n, N, M, q
  <2>5. queue' \in [Queues -> QueueState] /\ queue'[q] = Q /\ \A r \in Queues : r # q => queue'[r] = queue[r]
    BY <2>2, <2>4, <1>0, <1>3
  <2> QED  BY <2>4, <2>5
<1>8. queue'[q].next_artifact \in 0 .. M - 1 /\ (step = 0 => queue'[q].next_artifact = n)
  <2> HIDE DEF q, n, N, M
  <2>1. (n + 0) % M = n /\ (n + 1) % M \in 0 .. M - 1
    <3>1. (n + 1) % M = IF n + 1 = M THEN 0 ELSE n + 1  BY Zenon, <1>4, NextPath
    <3>2. (n + 0) % M = n  BY Zenon, <1>4, NextPath
    <3>3. (IF n + 1 = M THEN 0 ELSE n + 1) \in 0 .. M - 1  BY <1>4
    <3> QED  BY <3>1, <3>2, <3>3
  <2>2. CASE step = 0  BY <2>1, <2>2, <1>4, <1>7
  <2>3. CASE step = 1  BY <2>1, <2>3, <1>7
  <2> QED  BY <1>2, <2>2, <2>3
<1> HIDE DEF q, n, N, M
<1>9. FilesTyped' /\ Rotation'
  <2>1. CASE step = 0
    <3>1. \A r \in Queues : queue'[r].next_artifact = queue[r].next_artifact
      BY <2>1, <1>7, <1>8 DEF n
    <3>2. UNCHANGED files  BY <2>1, <1>2
    <3> QED  BY <3>1, <3>2, <1>3, FilesSame
  <2>2. CASE /\ step = 1
             /\ written' = [written EXCEPT ![q] = @ + 1]
             /\ disk' = [disk EXCEPT ![q][n] = written[q] + 1]
             /\ UNCHANGED intact
    <3>1. written[q] + 1 \in Nat /\ disk[q] \in [Paths(q) -> Nat]  BY <1>0, <1>3 DEF FilesTyped
    <3>2. /\ written'[q] = written[q] + 1 /\ written' \in [Queues -> Nat]
          /\ disk'[q] = [disk[q] EXCEPT ![n] = written[q] + 1] /\ DOMAIN disk' = Queues
          /\ \A r \in Queues : r # q => disk'[r] = disk[r] /\ written'[r] = written[r]
      BY <2>2, <3>1, <1>0, <1>3 DEF FilesTyped
    <3>3. disk'[q] \in [Paths(q) -> Nat]  BY Zenon, <3>1, <3>2
    <3>4. FilesTyped'
      BY Zenon, <2>2, <3>2, <3>3, <1>3, <1>4, <1>7, <1>8 DEF FilesTyped
    <3>5. ASSUME NEW r \in Queues, intact'[r] PROVE Rotates(r)'
      <4>1. Rotates(r)  BY <3>5, <2>2, <1>3 DEF Rotation
      <4>2. CASE r = q  BY Zenon, <4>1, <4>2, <3>2, <2>2, <1>3, <1>7, <1>0, WriteRotates DEF n, M
      <4>3. CASE r # q  BY <4>1, <4>3, <3>2, <1>7 DEF Rotates
      <4> QED  BY <4>2, <4>3
    <3> QED  BY <3>4, <3>5 DEF Rotation
  <2>3. CASE /\ intact' = [intact EXCEPT ![q] = FALSE]
             /\ disk' \in {disk, [disk EXCEPT ![q][n] = 0]}
             /\ UNCHANGED written
    <3>1. disk[q] \in [Paths(q) -> Nat]  BY <1>0, <1>3 DEF FilesTyped
    <3>2. /\ intact' \in [Queues -> BOOLEAN] /\ ~intact'[q]
          /\ \A r \in Queues : r # q => intact'[r] = intact[r]
      BY <2>3, <1>0, <1>3 DEF FilesTyped
    <3>3. /\ DOMAIN disk' = Queues
          /\ disk'[q] = disk[q] \/ disk'[q] = [disk[q] EXCEPT ![n] = 0]
          /\ \A r \in Queues : r # q => disk'[r] = disk[r]
      BY <2>3, <1>0, <1>3 DEF FilesTyped
    <3>4. disk'[q] \in [Paths(q) -> Nat]  BY <3>1, <3>3
    <3>5. FilesTyped'
      BY Zenon, <2>3, <3>2, <3>3, <3>4, <1>3, <1>4, <1>7, <1>8 DEF FilesTyped
    <3>6. ASSUME NEW r \in Queues, intact'[r] PROVE Rotates(r)'
      <4>1. r # q /\ Rotates(r)  BY <3>2, <3>6, <1>3 DEF Rotation
      <4> QED  BY <4>1, <3>3, <1>7, <2>3 DEF Rotates
    <3> QED  BY <3>5, <3>6 DEF Rotation
  <2> QED  BY <2>1, <2>2, <2>3, <1>2
<1>10. TypeOK'
  <2>1. InterceptsTyped'  BY <1>1 DEF IInv, TypeOK, PidsKnown, InterceptsTyped
  <2>2. dequeuing' \in Queues \cup {None} /\ restarts' \in Nat  BY <1>0, <1>1 DEF IInv, TypeOK, q
  <2> QED  BY SMTT(30), <1>5, <1>7, <1>9, <2>1, <2>2 DEF TypeOK, QueueState, InterceptsTyped, FilesTyped
<1>11. PidsKnown'  BY <1>1, <1>5 DEF IInv, PidsKnown
<1>12. PlacesCounted'
  <2>1. ASSUME NEW r \in Queues
        PROVE  /\ queue'[r].num_concurrent_dumps = Cardinality(Running(r)')
               /\ queue'[r].num_concurrent_dumps <= MaxDumps[r]
    <3>1. CASE r = q
      <4>1. Cardinality(Running(r)') = Cardinality(Running(r)) - 1
        BY <3>1, <1>1, <1>5, RunningFewer DEF q
      <4>2. N - 1 <= MaxDumps[q]  BY <1>0, <1>6, PathsFact
      <4> QED  BY <3>1, <4>1, <4>2, <1>6, <1>7
    <3>2. CASE r # q
      <4>1. Running(r)' = Running(r)  BY <3>2, <1>1, <1>5, RunningFewer DEF q
      <4> QED  BY <3>2, <4>1, <1>7 DEF IInv, PlacesCounted
    <3> QED  BY <3>1, <3>2
  <2> QED  BY <2>1 DEF PlacesCounted
<1>13. NoIdlePlace'
  <2>1. ASSUME NEW r \in Queues, queue'[r].queued_requests # <<>>, dequeuing' # r
        PROVE  Full(r)'
    <3>1. r # q /\ dequeuing # r /\ queue'[r] = queue[r]
      <4>1. r # q  BY <2>1, <1>1 DEF q
      <4> QED  BY <4>1, <1>1, <1>7 DEF Idle, None, Queues
    <3> QED  BY <2>1, <3>1 DEF IInv, NoIdlePlace, Full
  <2> QED  BY <2>1 DEF NoIdlePlace
<1>14. Owned'
  <2>1. Owned /\ crash[c].state # "queued" /\ crash'[c].state # "queued"  BY <1>1, <1>5 DEF IInv
  <2> QED  BY <2>1, <1>5, <1>7, OwnedSame
<1>15. InterceptsFound'  BY <1>1 DEF IInv, InterceptsFound
<1> QED  BY <1>9, <1>10, <1>11, <1>12, <1>13, <1>14, <1>15 DEF IInv

----------------------------------------------------------------------------
(* A new start. *)

(* A set of naturals has a least member. *)
LEMMA LeastNatural ==
  ASSUME NEW T \in SUBSET Nat, T # {}
  PROVE  \E x \in T : \A y \in T : x <= y
<1> DEFINE R == OpToRel(<, Nat)
<1>1. \E x \in T : \A y \in T : ~(<<y, x>> \in R)  BY Zenon, NatLessThanWellFounded, WFMin
<1>2. \A x, y \in Nat : x < y => <<x, y>> \in R  BY DEF OpToRel
<1> HIDE DEF R
<1>3. \A x, y \in Nat : ~(y < x) => x <= y  OBVIOUS
<1> QED  BY Zenon, <1>1, <1>2, <1>3

(* What stat tells is a time, Missing or Failed, and Missing of a path     *)
(* without a file only.                                                    *)
LEMMA StatsTold ==
  ASSUME NEW q \in Queues, NEW st \in Stats(q), NEW k \in Paths(q)
  PROVE  /\ st[k] \in Nat \cup {Failed} /\ Failed \notin Nat
         /\ disk[q][k] = 0 /\ st[k] # Failed => st[k] = 0
<1>1. PICK s \in [Paths(q) -> Times \cup {Failed}] :
        st = [l \in Paths(q) |-> IF disk[q][l] = 0 /\ s[l] # Failed THEN Missing ELSE s[l]]
  BY Zenon DEF Stats
<1>2. st[k] = IF disk[q][k] = 0 /\ s[k] # Failed THEN Missing ELSE s[k]  BY Zenon, <1>1
<1>3. s[k] \in Nat \cup {Failed}  BY <1>1, TombstonedAssumption
<1> QED  BY <1>2, <1>3 DEF Missing, Failed

(* Of the paths that stat tells of, one is earlier than all others. *)
LEMMA EarliestExists ==
  ASSUME NEW q \in Queues, NEW st \in Stats(q), NEW told \in SUBSET Paths(q), told # {},
         \A k \in told : st[k] # Failed
  PROVE  \E k \in told : \A l \in told : k = l \/ Earlier(st, k, l)
<1>1. Paths(q) \in SUBSET Nat  BY PathsFact
<1>2. told \in SUBSET Nat /\ \A k \in told : st[k] \in Nat  BY <1>1, StatsTold
<1>3. PICK k1 \in told : \A l \in told : st[k1] <= st[l]
  <2> DEFINE T == {st[k] : k \in told}
  <2>1. T \in SUBSET Nat /\ T # {}  BY <1>2
  <2>2. \E x \in T : \A y \in T : x <= y  BY Zenon, <2>1, LeastNatural
  <2> QED  BY <2>2
<1>4. PICK k \in told : st[k] = st[k1] /\ \A l \in told : st[l] = st[k1] => k <= l
  <2> DEFINE T == {k \in told : st[k] = st[k1]}
  <2>1. T \in SUBSET Nat /\ T # {}  BY <1>2, <1>3
  <2>2. \E x \in T : \A y \in T : x <= y  BY Zenon, <2>1, LeastNatural
  <2> QED  BY <2>2
<1>5. \A l \in told : k = l \/ Earlier(st, k, l)  BY <1>2, <1>3, <1>4 DEF Earlier
<1> QED  BY <1>5

(* find_oldest_artifact gives a path, and if stat told of all of them the  *)
(* earliest.                                                               *)
LEMMA OldestFound ==
  ASSUME NEW q \in Queues, NEW st \in Stats(q)
  PROVE  /\ find_oldest_artifact(q, st) \in Paths(q)
         /\ (\A k \in Paths(q) : st[k] # Failed) =>
              \A l \in Paths(q) : \/ find_oldest_artifact(q, st) = l
                                  \/ Earlier(st, find_oldest_artifact(q, st), l)
<1> DEFINE told == {k \in Paths(q) : st[k] # Failed}
           P(k) == \A l \in told : k = l \/ Earlier(st, k, l)
<1>1. find_oldest_artifact(q, st) = IF told = {} THEN 0 ELSE CHOOSE k \in told : P(k)
  BY Zenon DEF find_oldest_artifact
<1>2. 0 \in Paths(q)  BY PathsFact
<1>3. told \in SUBSET Paths(q) /\ \A k \in told : st[k] # Failed  OBVIOUS
<1>4. told # {} => \E k \in told : P(k)  BY Zenon, <1>3, EarliestExists
<1>5. (\A k \in Paths(q) : st[k] # Failed) => told = Paths(q) /\ told # {}  BY <1>2
<1> HIDE DEF told
<1>6. CASE told = {}  BY <1>1, <1>2, <1>5, <1>6
<1>7. CASE told # {}
  <2> HIDE DEF P
  <2>1. /\ find_oldest_artifact(q, st) \in told /\ P(find_oldest_artifact(q, st))
    BY Zenon, <1>1, <1>4, <1>7
  <2> QED  BY Zenon, <2>1, <1>3, <1>5 DEF P
<1> QED  BY <1>6, <1>7

(* While renaming works, and if stat tells the order of the files, that is *)
(* where the last process left off.                                        *)
LEMMA OldestIsNext ==
  ASSUME NEW q \in Queues, FilesTyped, Rotates(q), NEW st \in Stats(q), Tells(q, st)
  PROVE  find_oldest_artifact(q, st) = queue[q].next_artifact
<1> DEFINE k == find_oldest_artifact(q, st)
           n == queue[q].next_artifact
<1>1. /\ Paths(q) \in SUBSET Nat /\ \A l \in Paths(q) : disk[q][l] \in Nat
      /\ n \in Paths(q)
  BY PathsFact DEF FilesTyped
<1>2. \A l \in Paths(q) : st[l] # Failed  BY Zenon, <1>1 DEF Tells
<1>3. k \in Paths(q) /\ (k = n \/ Earlier(st, k, n))  BY Zenon, <1>1, <1>2, OldestFound
<1> HIDE DEF k
<1>4. /\ k < n /\ n <= n => disk[q][n] < disk[q][k]
      /\ n < k /\ (k < n \/ n <= n) => disk[q][n] <= disk[q][k]
      /\ n # k /\ disk[q][n] = disk[q][k] => disk[q][n] = 0
  BY <1>1, <1>3 DEF Rotates
<1>5. k \in Nat /\ n \in Nat /\ disk[q][k] \in Nat /\ disk[q][n] \in Nat  BY <1>1, <1>3
<1>6. disk[q][n] < disk[q][k] => Earlier(st, n, k)  BY Zenon, <1>1, <1>3 DEF Tells
<1>7. /\ st[k] \in Nat /\ st[n] \in Nat
      /\ disk[q][k] = 0 => st[k] = 0
      /\ disk[q][n] = 0 => st[n] = 0
  BY <1>1, <1>2, <1>3, StatsTold
<1>8. k = n  BY <1>3, <1>4, <1>5, <1>6, <1>7 DEF Earlier
<1> QED  BY <1>8 DEF k

LEMMA RestartKeeps == ASSUME IInv, Restart PROVE IInv'
<1>1. FilesTyped /\ Rotation  BY DEF IInv, TypeOK, FilesTyped
<1>2. /\ UNCHANGED <<disk, written>> /\ dequeuing' = None /\ restarts' \in Nat
      /\ intercepts' = [p \in Pids |-> None]
  BY DEF Restart, IInv, TypeOK
<1>3. /\ crash' \in [Crashes -> Crash] /\ \A c \in Crashes : crash'[c].state \in {"none", "gone"}
      /\ intercept' \in [Intercepts -> Intercept]
      /\ \A i \in Intercepts : intercept'[i].state \in {"none", "gone"}
  BY NewTyped, DeletedTyped DEF Restart
<1>4. ASSUME NEW q \in Queues
      PROVE  /\ queue'[q] \in QueueState /\ queue'[q].num_concurrent_dumps = 0
             /\ queue'[q].queued_requests = <<>>
             /\ queue'[q].next_artifact \in Paths(q)
             /\ intact'[q] \in BOOLEAN
             /\ intact'[q] => intact[q] /\ queue'[q].next_artifact = queue[q].next_artifact
  <2>1. PICK f \in Found(q) :
          /\ queue'[q] = [NewQueue EXCEPT !.next_artifact = f.next]
          /\ intact'[q] = (intact[q] /\ f.told)
    <3>1. PICK t \in Found("tombstones"), a \in Found("anrs") :
            LET found == [r \in Queues |-> IF r = "anrs" THEN a ELSE t] IN
            /\ queue' = [r \in Queues |-> [NewQueue EXCEPT !.next_artifact = found[r].next]]
            /\ intact' = [r \in Queues |-> intact[r] /\ found[r].told]
      BY Zenon DEF Restart
    <3> DEFINE f == IF q = "anrs" THEN a ELSE t
    <3>2. f \in Found(q)  BY DEF Queues
    <3>3. /\ queue'[q] = [NewQueue EXCEPT !.next_artifact = f.next]
          /\ intact'[q] = (intact[q] /\ f.told)
      BY Zenon, <3>1
    <3> QED  BY Zenon, <3>2, <3>3
  <2>2. PICK st \in Stats(q) : f = [next |-> find_oldest_artifact(q, st), told |-> Tells(q, st)]
    BY Zenon DEF Found
  <2>3. f.next = find_oldest_artifact(q, st) /\ f.told = Tells(q, st)  BY Zenon, <2>2
  <2>4. f.next \in Paths(q)  BY Zenon, <2>3, OldestFound
  <2>5. f.next \in Nat  BY <2>4, PathsFact
  <2>6. queue'[q] = [num_concurrent_dumps |-> 0, queued_requests |-> <<>>, next_artifact |-> f.next]
    BY <2>1 DEF NewQueue
  <2>7. <<>> \in Seq(Crashes)  OBVIOUS
  <2>8. intact'[q] => intact[q] /\ Tells(q, st)  BY Zenon, <2>1, <2>3
  <2>9. intact'[q] \in BOOLEAN
    <3>1. Tells(q, st) \in BOOLEAN  BY Zenon DEF Tells
    <3>2. intact[q] \in BOOLEAN  BY Zenon, <1>1 DEF FilesTyped
    <3> QED  BY Zenon, <3>1, <3>2, <2>1, <2>3
  <2>10. intact'[q] => f.next = queue[q].next_artifact
    BY Zenon, <2>3, <2>8, <1>1, OldestIsNext DEF Rotation
  <2> QED  BY <2>4, <2>5, <2>6, <2>7, <2>8, <2>9, <2>10 DEF QueueState
<1>5. queue' \in [Queues -> QueueState]
  <2>1. queue' = [q \in Queues |-> queue'[q]]  BY DEF Restart
  <2> QED  BY <2>1, <1>4
<1>6. FilesTyped'
  <2>1. intact' = [q \in Queues |-> intact'[q]]  BY DEF Restart
  <2>2. intact' \in [Queues -> BOOLEAN]  BY Zenon, <2>1, <1>4
  <2> QED  BY <2>2, <1>1, <1>2, <1>4 DEF FilesTyped
<1>7. TypeOK'
  BY <1>2, <1>3, <1>5, <1>6 DEF TypeOK, QueueState, FilesTyped
<1>8. PidsKnown'  BY <1>3 DEF PidsKnown
<1>9. PlacesCounted'
  <2>1. \A q \in Queues : Running(q)' = {}  BY <1>3 DEF Running
  <2>2. Cardinality({}) = 0  BY FS_EmptySet
  <2>3. \A q \in Queues : 0 <= MaxDumps[q]  BY PathsFact
  <2> QED  BY Zenon, <2>1, <2>2, <2>3, <1>4 DEF PlacesCounted
<1>10. NoIdlePlace'  BY <1>4 DEF NoIdlePlace
<1>11. Owned'  BY <1>3, <1>4 DEF Owned, Queued, Enumerates
<1>12. InterceptsFound'  BY <1>2, <1>3, TombstonedAssumption DEF InterceptsFound
<1>13. Rotation'
  <2>1. ASSUME NEW q \in Queues, intact'[q]
        PROVE  Rotates(q) /\ queue'[q].next_artifact = queue[q].next_artifact
    BY <2>1, <1>1, <1>4 DEF Rotation
  <2> QED  BY <2>1, <1>2 DEF Rotation, Rotates
<1> QED  BY <1>7, <1>8, <1>9, <1>10, <1>11, <1>12, <1>13 DEF IInv

----------------------------------------------------------------------------
(* All steps. *)

LEMMA InterceptSteps ==
  ASSUME IInv, NEW i \in Intercepts,
         \/ intercept_accept_cb(i) \/ InterceptRefused(i) \/ intercept_close_cb(i)
         \/ \E p \in Pids, type \in Types : intercept_request_cb(i, p, type)
  PROVE  IInv'
<1>0. InterceptsTyped /\ InterceptsFound /\ None \notin Intercepts
  BY TombstonedAssumption DEF IInv, TypeOK, PidsKnown, InterceptsTyped
<1>1. CASE intercept_accept_cb(i) \/ InterceptRefused(i)
  <2> DEFINE j == IF intercept_accept_cb(i) THEN [intercept[i] EXCEPT !.state = "accepted"]
                  ELSE InterceptDeleted
  <2>1. j \in Intercept /\ j.state # "registered"
    BY <1>0, DeletedTyped DEF InterceptsTyped, Intercept
  <2>2. /\ intercept' = [intercept EXCEPT ![i] = j] /\ intercept[i].state # "registered"
        /\ UNCHANGED <<crash, queue, intercepts, dequeuing, files, restarts>>
    BY <1>1 DEF intercept_accept_cb, InterceptRefused
  <2> HIDE DEF j
  <2>3. InterceptsTyped' /\ InterceptsFound'
    BY <1>0, <2>1, <2>2 DEF InterceptsTyped, InterceptsFound
  <2> QED  BY <2>2, <2>3, InterceptorKeeps
<1>2. CASE intercept_close_cb(i)
  <2>1. \E p \in Pids : intercept[i].pid = p /\ intercepts[p] = i
    <3>1. intercept[i].pid \in Pids  BY <1>2 DEF IInv, PidsKnown, intercept_close_cb
    <3>2. intercepts[intercept[i].pid] = i
      BY <1>0, <1>2, <3>1 DEF intercept_close_cb, InterceptsFound
    <3> QED  BY <3>1, <3>2
  <2>2. InterceptsTyped' /\ InterceptsFound'
    BY Zenon, <1>0, <1>2, <2>1, TakeKeeps DEF intercept_close_cb
  <2> QED  BY <1>2, <2>2, InterceptorKeeps DEF intercept_close_cb
<1>3. ASSUME NEW p \in Pids, NEW type \in Types, intercept_request_cb(i, p, type)
      PROVE  IInv'
  <2> DEFINE j == [state |-> "registered", type |-> type, pid |-> p]
  <2>1. j \in Intercept /\ j.state = "registered" /\ j.pid = p
    BY TombstonedAssumption DEF Intercept
  <2>2. /\ intercept' = [intercept EXCEPT ![i] = j] /\ intercept[i].state # "registered"
        /\ intercepts[p] = None /\ intercepts' = [intercepts EXCEPT ![p] = i]
        /\ UNCHANGED <<crash, queue, dequeuing, files, restarts>>
    BY <1>3 DEF intercept_request_cb
  <2> HIDE DEF j
  <2>3. InterceptsTyped'  BY <1>0, <2>1, <2>2 DEF InterceptsTyped
  <2>4. InterceptsFound'  BY <1>0, <2>1, <2>2 DEF InterceptsTyped, InterceptsFound
  <2> QED  BY <2>2, <2>3, <2>4, InterceptorKeeps
<1> QED  BY <1>1, <1>2, <1>3

LEMMA NextIInv == IInv /\ [Next]_vars => IInv'
<1> SUFFICES ASSUME IInv, [Next]_vars PROVE IInv'  OBVIOUS
<1>1. ASSUME NEW i \in Intercepts,
             \/ intercept_accept_cb(i) \/ InterceptRefused(i) \/ intercept_close_cb(i)
             \/ \E p \in Pids, type \in Types : intercept_request_cb(i, p, type)
      PROVE  IInv'
  BY <1>1, InterceptSteps
<1>2. ASSUME NEW c \in Crashes, crash_accept_cb(c) \/ CrashRefused(c) PROVE IInv'
  <2> DEFINE d == IF crash_accept_cb(c) THEN [crash[c] EXCEPT !.state = "accepted"] ELSE Deleted
  <2>1. d \in Crash /\ d.state \in {"accepted", "gone"}
    BY Zenon, DeletedTyped DEF IInv, TypeOK, Crash
  <2>2. /\ crash' = [crash EXCEPT ![c] = d] /\ crash[c].state \in {"none", "accepted"}
        /\ UNCHANGED <<queue, intercept, intercepts, dequeuing, files, restarts>>
    BY <1>2 DEF crash_accept_cb, CrashRefused
  <2> HIDE DEF d
  <2> QED  BY Zenon, <2>1, <2>2, ConnectionKeeps
<1>3. ASSUME NEW c \in Crashes, crash_completed_cb(c) PROVE IInv'  BY <1>3, CompletedKeeps
<1>4. ASSUME NEW c \in Crashes, NEW p \in Pids, NEW type \in Types, crash_request_cb(c, p, type)
      PROVE  IInv'
  BY <1>4, TombstonedAssumption, RequestKeeps
<1>5. ASSUME NEW q \in Queues, Dequeue(q) PROVE IInv'  BY <1>5, DequeueStepKeeps
<1>6. ASSUME NEW q \in Queues, DequeueEnds(q) PROVE IInv'  BY <1>6, DequeueEndsKeeps
<1>7. CASE Restart  BY <1>7, RestartKeeps
<1>8. CASE UNCHANGED vars
  <2>1. InterceptsTyped' /\ InterceptsFound'
    BY <1>8 DEF vars, IInv, TypeOK, PidsKnown, InterceptsTyped, InterceptsFound
  <2>2. UNCHANGED <<crash, queue, dequeuing, files, restarts>>  BY <1>8 DEF vars, files
  <2> QED  BY <2>1, <2>2, InterceptorKeeps
<1> QED  BY <1>1, <1>2, <1>3, <1>4, <1>5, <1>6, <1>7, <1>8 DEF Next

THEOREM Invariance == Spec => []IInv
<1> QED  BY InitIInv, NextIInv, PTL DEF Spec

----------------------------------------------------------------------------
(* The results. *)

(* Types hold. *)
THEOREM TypeCorrect == Spec => []TypeOK
<1>1. IInv => TypeOK  BY DEF IInv
<1> QED  BY <1>1, Invariance, PTL

(* num_concurrent_dumps_ counts the running dumps and stays in its bound.  *)
THEOREM PlacesAreCounted == Spec => []PlacesCounted
<1>1. IInv => PlacesCounted  BY DEF IInv
<1> QED  BY <1>1, Invariance, PTL

(* A crash is queued only while the queue's places are all taken. *)
THEOREM NoPlaceIdle == Spec => []NoIdlePlace
<1>1. IInv => NoIdlePlace  BY DEF IInv
<1> QED  BY <1>1, Invariance, PTL

(* queued_requests holds each waiting crash once and nothing else. *)
THEOREM CrashesOwned == Spec => []Owned
<1>1. IInv => Owned  BY DEF IInv
<1> QED  BY <1>1, Invariance, PTL

(* intercept_close_cb finds the interceptor in the map. *)
THEOREM InterceptsAreFound == Spec => []InterceptsFound
<1>1. IInv => InterceptsFound  BY DEF IInv
<1> QED  BY <1>1, Invariance, PTL

(* A new artifact replaces the oldest, also after tombstoned was started   *)
(* again, while renaming works and if stat told the order of the files.    *)
THEOREM OldestIsReplaced == Spec => OldestReplaced
<1> DEFINE A == \A q \in Queues : \A k \in Paths(q) :
                  intact[q] /\ disk'[q][k] > disk[q][k]
                    => \A l \in Paths(q) : disk[q][k] <= disk[q][l]
<1>1. IInv /\ [Next]_vars => [A]_vars
  <2> SUFFICES ASSUME IInv, Next, NEW q \in Queues, NEW k \in Paths(q),
                      intact[q], disk'[q][k] > disk[q][k], NEW l \in Paths(q)
               PROVE  disk[q][k] <= disk[q][l]
    OBVIOUS
  <2>1. FilesTyped /\ Rotates(q)  BY SMTT(30) DEF IInv, TypeOK, FilesTyped, Rotation
  <2>2. disk[q][k] \in Nat /\ disk[q][l] \in Nat /\ disk[q] \in [Paths(q) -> Nat]  BY <2>1 DEF FilesTyped
  <2>3. disk'[q][k] # disk[q][k]  BY <2>2
  <2>4. PICK c \in Crashes : CompletedFile(c)
    BY Zenon, <2>3 DEF Next, intercept_accept_cb, InterceptRefused, intercept_close_cb,
                intercept_request_cb, crash_accept_cb, CrashRefused, crash_completed_cb,
                CompletedEmpty, crash_request_cb, Dequeue, DequeueEnds, Restart, files
  <2> DEFINE r == for_crash(crash[c].type)
             n == queue[r].next_artifact
  <2>5. r \in Queues  BY QueueOf
  <2>6. disk' = disk \/ \E v : disk' = [disk EXCEPT ![r][n] = v]  BY Zenon, <2>4 DEF CompletedFile
  <2> HIDE DEF r
  <2>7. r = q /\ k = n  BY <2>1, <2>2, <2>3, <2>5, <2>6 DEF FilesTyped
  <2>8. k \in Nat /\ l \in Nat /\ n \in Paths(q)
    <3>1. Paths(q) \in SUBSET Nat  BY PathsFact
    <3> QED  BY <3>1, <2>7
  <2>9. /\ l < n /\ n <= k => disk[q][k] < disk[q][l]
        /\ k < l /\ n <= k => disk[q][k] <= disk[q][l]
    BY <2>1, <2>7, <2>8 DEF Rotates
  <2>10. CASE k = l  BY <2>10, <2>2
  <2>11. CASE k # l  BY <2>11, <2>2, <2>7, <2>8, <2>9
  <2> QED  BY <2>10, <2>11
<1> QED  BY <1>1, Invariance, PTL DEF Spec, OldestReplaced
=============================================================================
