----------------------------- MODULE Tombstoned -----------------------------
(***************************************************************************)
(* tombstoned: crashing processes ask for a descriptor to dump to, wait in *)
(* a queue per kind of dump, and report the end of the dump; interceptors  *)
(* ask for the next dump of a process.  One thread, so every callback of   *)
(* libevent is one step; the loop of maybe_dequeue_crashes is a step per   *)
(* pass, during which nothing else happens.                                *)
(***************************************************************************)
EXTENDS Integers, Sequences, FiniteSets

CONSTANTS
  Crashes,      \* connections to the crash sockets; each is used once
  Intercepts,   \* connections to the intercept socket; each is used once
  Pids,
  Types,        \* the dump types asked for
  MaxDumps,     \* max_concurrent_dumps_ of each queue
  MaxArtifacts, \* max_artifacts_ of each queue
  Times,        \* what st_mtime of a file may be, in seconds
  MaxRestarts   \* bound: how often init starts tombstoned again

Queues == {"tombstones", "anrs"}
DumpTypes == {"native", "tombstone", "java", "any", "proto"}

None == "none"

ASSUME TombstonedAssumption ==
  /\ IsFiniteSet(Crashes) /\ None \notin Intercepts
  /\ Types \subseteq DumpTypes
  /\ MaxDumps \in [Queues -> Nat \ {0}]
  /\ MaxArtifacts \in [Queues -> Nat]
  /\ \A q \in Queues : MaxArtifacts[q] > MaxDumps[q]      \* the CHECK of the constructor
  /\ Times \subseteq Nat \ {0}
  /\ MaxRestarts \in Nat

VARIABLES
  crash,        \* the Crash objects
  queue,        \* the CrashQueues
  intercept,    \* the Intercept objects
  intercepts,   \* InterceptManager::intercepts
  dequeuing,    \* the queue whose maybe_dequeue_crashes runs, or "none"
  disk,         \* the artifact at each path of a queue: the order in which it was written, or 0
  written,      \* history: artifacts written to each queue
  intact,       \* history: no rename_tombstone_fd of the queue has failed, and stat told
                \* the order of the artifacts whenever tombstoned was started again
  restarts

vars == <<crash, queue, intercept, intercepts, dequeuing, disk, written, intact, restarts>>
files == <<disk, written, intact>>

(* output is what the process was given: a file, an interceptor's          *)
(* descriptor (output.text.fd is -1 then), or nothing yet.                 *)
Crash ==
  [state : {"none", "accepted", "queued", "running", "gone"}, type : DumpTypes,
   pid : Pids \cup {None}, output : {"none", "file", "intercept"}]

Intercept ==
  [state : {"none", "accepted", "registered", "gone"}, type : DumpTypes, pid : Pids \cup {None}]

NewCrash == [state |-> "none", type |-> "native", pid |-> None, output |-> "none"]
NewIntercept == [state |-> "none", type |-> "native", pid |-> None]
Deleted == [NewCrash EXCEPT !.state = "gone"]
InterceptDeleted == [NewIntercept EXCEPT !.state = "gone"]
NewQueue == [num_concurrent_dumps |-> 0, queued_requests |-> <<>>, next_artifact |-> 0]

Paths(q) == 0 .. MaxArtifacts[q] - 1

Init ==
  /\ crash = [c \in Crashes |-> NewCrash]
  /\ queue = [q \in Queues |-> NewQueue]
  /\ intercept = [i \in Intercepts |-> NewIntercept]
  /\ intercepts = [p \in Pids |-> None]
  /\ dequeuing = None
  /\ disk = [q \in Queues |-> [k \in Paths(q) |-> 0]]
  /\ written = [q \in Queues |-> 0]
  /\ intact = [q \in Queues |-> TRUE]
  /\ restarts = 0

for_crash(type) == IF type = "java" THEN "anrs" ELSE "tombstones"

Idle == dequeuing = None

----------------------------------------------------------------------------
(* Interceptors. *)

intercept_accept_cb(i) ==
  /\ Idle /\ intercept[i].state = "none"
  /\ intercept' = [intercept EXCEPT ![i].state = "accepted"]
  /\ UNCHANGED <<crash, queue, intercepts, dequeuing, files, restarts>>

(* A timeout, a bad request, a pid that is intercepted already or an       *)
(* interceptor that is not there to be told.                               *)
InterceptRefused(i) ==
  /\ Idle /\ intercept[i].state = "accepted"
  /\ intercept' = [intercept EXCEPT ![i] = InterceptDeleted]
  /\ UNCHANGED <<crash, queue, intercepts, dequeuing, files, restarts>>

(* Mutant: a second interceptor replaces the first. *)
InterceptReplaces(i, p, type) ==
  /\ Idle /\ intercept[i].state = "accepted"
  /\ type \notin {"any", "proto"}
  /\ intercept' = [intercept EXCEPT ![i] = [state |-> "registered", type |-> type, pid |-> p]]
  /\ intercepts' = [intercepts EXCEPT ![p] = i]
  /\ UNCHANGED <<crash, queue, dequeuing, files, restarts>>

intercept_request_cb(i, p, type) ==
  /\ Idle /\ intercept[i].state = "accepted"
  /\ type \notin {"any", "proto"}      \* is_intercept_request_valid
  /\ intercepts[p] = None
  /\ intercept' = [intercept EXCEPT ![i] = [state |-> "registered", type |-> type, pid |-> p]]
  /\ intercepts' = [intercepts EXCEPT ![p] = i]
  /\ UNCHANGED <<crash, queue, dequeuing, files, restarts>>

(* The interceptor closes its socket, or no dump has come in time. *)
intercept_close_cb(i) ==
  /\ Idle /\ intercept[i].state = "registered"
  /\ intercept' = [intercept EXCEPT ![i] = InterceptDeleted]
  /\ intercepts' = [intercepts EXCEPT ![intercept[i].pid] = None]
  /\ UNCHANGED <<crash, queue, dequeuing, files, restarts>>

dump_types_compatible(interceptor, dump) ==
  interceptor = dump \/ (interceptor = "tombstone" /\ dump = "proto")

(* GetIntercept finds one for a dump of the process. *)
Intercepted(p, type) ==
  /\ intercepts[p] # None
  /\ type = "any" \/ dump_types_compatible(intercept[intercepts[p]].type, type)

(* ... and takes it from the map. *)
GetIntercept(p, type) ==
  IF Intercepted(p, type)
  THEN /\ intercept' = [intercept EXCEPT ![intercepts[p]] = InterceptDeleted]
       /\ intercepts' = [intercepts EXCEPT ![p] = None]
  ELSE UNCHANGED <<intercept, intercepts>>

----------------------------------------------------------------------------
(* Crashes. *)

get_output(type) == IF type \in {"native", "any"} THEN "none" ELSE "file"

(* Mutant: a dump is counted before it is known to start. *)
PerformCountsFirst(c, d, Q) ==
  LET q == for_crash(d.type)
      output == IF Intercepted(d.pid, d.type) THEN "intercept" ELSE get_output(d.type)
  IN  /\ GetIntercept(d.pid, d.type)
      /\ queue' = [queue EXCEPT ![q] = [Q EXCEPT !.num_concurrent_dumps = @ + 1]]
      /\ \/ /\ output # "none"
            /\ crash' = [crash EXCEPT ![c] = [d EXCEPT !.state = "running", !.output = output]]
         \/ crash' = [crash EXCEPT ![c] = Deleted]

(* perform_request: d is the crash as it is now and Q its queue.  The      *)
(* crash is dropped if there is no output for it or if the process is not  *)
(* there to be sent it.                                                    *)
perform_request(c, d, Q) ==
  LET q == for_crash(d.type)
      output == IF Intercepted(d.pid, d.type) THEN "intercept" ELSE get_output(d.type)
      Starts == /\ output # "none"
                /\ crash' = [crash EXCEPT ![c] = [d EXCEPT !.state = "running", !.output = output]]
                /\ queue' = [queue EXCEPT ![q] = [Q EXCEPT !.num_concurrent_dumps = @ + 1]]
      Drops == /\ crash' = [crash EXCEPT ![c] = Deleted]
               /\ queue' = [queue EXCEPT ![q] = Q]
  IN  /\ GetIntercept(d.pid, d.type)
      /\ Starts \/ Drops

crash_accept_cb(c) ==
  /\ Idle /\ crash[c].state = "none"
  /\ crash' = [crash EXCEPT ![c].state = "accepted"]
  /\ UNCHANGED <<queue, intercept, intercepts, dequeuing, files, restarts>>

(* No request in time, or a bad one. *)
CrashRefused(c) ==
  /\ Idle /\ crash[c].state = "accepted"
  /\ crash' = [crash EXCEPT ![c] = Deleted]
  /\ UNCHANGED <<queue, intercept, intercepts, dequeuing, files, restarts>>

Full(q) == queue[q].num_concurrent_dumps = MaxDumps[q]

crash_request_cb(c, p, type) ==
  LET q == for_crash(type)
      d == [crash[c] EXCEPT !.type = type, !.pid = p]
  IN  /\ Idle /\ crash[c].state = "accepted"
      /\ \/ /\ Full(q)
            /\ crash' = [crash EXCEPT ![c] = [d EXCEPT !.state = "queued"]]
            /\ queue' = [queue EXCEPT ![q].queued_requests = Append(@, c)]
            /\ UNCHANGED <<intercept, intercepts>>
         \/ ~Full(q) /\ perform_request(c, d, queue[q])
      /\ UNCHANGED <<dequeuing, files, restarts>>

(* on_crash_completed, and then maybe_dequeue_crashes. *)
Completed(c) ==
  LET q == for_crash(crash[c].type)
  IN  /\ Idle /\ crash[c].state = "running"
      /\ crash' = [crash EXCEPT ![c] = Deleted]
      /\ dequeuing' = q
      /\ UNCHANGED <<intercept, intercepts, restarts>>

OnCompleted(q, step) ==
  queue' = [queue EXCEPT ![q].num_concurrent_dumps = @ - 1,
                         ![q].next_artifact = (@ + step) % MaxArtifacts[q]]

(* Mutant: nobody is let in after a timeout. *)
CompletedSilently(c) ==
  /\ Idle /\ crash[c].state = "running"
  /\ crash' = [crash EXCEPT ![c] = Deleted]
  /\ OnCompleted(for_crash(crash[c].type), 0)
  /\ UNCHANGED <<intercept, intercepts, dequeuing, files, restarts>>

(* crash_completed_cb without an artifact: a timeout, a process that has   *)
(* died or sent something else, or an intercept.                           *)
CompletedEmpty(c) ==
  /\ Completed(c)
  /\ OnCompleted(for_crash(crash[c].type), 0)
  /\ UNCHANGED files

(* crash_completed_cb with an artifact, whose renaming may leave what was  *)
(* at the path or nothing.                                                 *)
CompletedFile(c) ==
  LET q == for_crash(crash[c].type)
      k == queue[q].next_artifact
  IN  /\ Completed(c) /\ crash[c].output = "file"
      /\ OnCompleted(q, 1)
      /\ \/ /\ written' = [written EXCEPT ![q] = @ + 1]
            /\ disk' = [disk EXCEPT ![q][k] = written[q] + 1]
            /\ UNCHANGED intact
         \/ /\ intact' = [intact EXCEPT ![q] = FALSE]
            /\ disk' \in {disk, [disk EXCEPT ![q][k] = 0]}
            /\ UNCHANGED written

crash_completed_cb(c) == CompletedEmpty(c) \/ CompletedFile(c)

(* A pass of the loop of maybe_dequeue_crashes. *)
Waits(q) == queue[q].queued_requests # <<>> /\ queue[q].num_concurrent_dumps < MaxDumps[q]

(* Mutant: one pass only. *)
DequeueOnce(q) ==
  LET c == Head(queue[q].queued_requests)
  IN  /\ dequeuing = q /\ Waits(q)
      /\ perform_request(c, crash[c], [queue[q] EXCEPT !.queued_requests = Tail(@)])
      /\ dequeuing' = None
      /\ UNCHANGED <<files, restarts>>

(* Mutant: the crash stays in the queue. *)
DequeueKeeps(q) ==
  LET c == Head(queue[q].queued_requests)
  IN  /\ dequeuing = q /\ Waits(q)
      /\ perform_request(c, crash[c], queue[q])
      /\ UNCHANGED <<dequeuing, files, restarts>>

Dequeue(q) ==
  LET c == Head(queue[q].queued_requests)
  IN  /\ dequeuing = q /\ Waits(q)
      /\ perform_request(c, crash[c], [queue[q] EXCEPT !.queued_requests = Tail(@)])
      /\ UNCHANGED <<dequeuing, files, restarts>>

DequeueEnds(q) ==
  /\ dequeuing = q /\ ~Waits(q)
  /\ dequeuing' = None
  /\ UNCHANGED <<crash, queue, intercept, intercepts, files, restarts>>

----------------------------------------------------------------------------
(* stat fails with ENOENT, or otherwise. *)
Missing == 0
Failed == -1

(* What stat may tell of the paths of a queue (external).  A file has the  *)
(* second of its last write, by a clock that may be set: the seconds of    *)
(* two files may be the same, and need not be in the order in which the    *)
(* dumps ended.                                                            *)
Stats(q) ==
  {[k \in Paths(q) |-> IF disk[q][k] = 0 /\ st[k] # Failed THEN Missing ELSE st[k]] :
     st \in [Paths(q) -> Times \cup {Failed}]}

(* The file at k is older than the one at l, or as old and found first. *)
Earlier(st, k, l) == st[k] < st[l] \/ (st[k] = st[l] /\ k < l)

(* Mutant: of files as old the last is taken. *)
FindsLast(q, st) ==
  LET told == {k \in Paths(q) : st[k] # Failed}
  IN  IF told = {} THEN 0
      ELSE CHOOSE k \in told : \A l \in told :
             st[k] < st[l] \/ (st[k] = st[l] /\ (IF st[k] = Missing THEN k <= l ELSE k >= l))

(* The first path without a file, or else the first one of the oldest      *)
(* file; paths that stat fails on are passed over.                         *)
find_oldest_artifact(q, st) ==
  LET told == {k \in Paths(q) : st[k] # Failed}
  IN  IF told = {} THEN 0
      ELSE CHOOSE k \in told : \A l \in told : k = l \/ Earlier(st, k, l)

(* History: what stat tells is the order in which the files were written. *)
Tells(q, st) ==
  \A k, l \in Paths(q) : st[k] # Failed /\ (disk[q][k] < disk[q][l] => Earlier(st, k, l))

(* What a new CrashQueue may find. *)
Found(q) ==
  {[next |-> find_oldest_artifact(q, st), told |-> Tells(q, st)] : st \in Stats(q)}

(* tombstoned dies and init starts it again: connections are closed. *)
Restart ==
  /\ restarts < MaxRestarts
  /\ restarts' = restarts + 1
  /\ crash' = [c \in Crashes |-> IF crash[c].state = "none" THEN NewCrash ELSE Deleted]
  /\ intercept' = [i \in Intercepts |->
                    IF intercept[i].state = "none" THEN NewIntercept ELSE InterceptDeleted]
  /\ intercepts' = [p \in Pids |-> None]
  /\ \E t \in Found("tombstones"), a \in Found("anrs") :
       LET found == [q \in Queues |-> IF q = "anrs" THEN a ELSE t] IN
       /\ queue' = [q \in Queues |-> [NewQueue EXCEPT !.next_artifact = found[q].next]]
       /\ intact' = [q \in Queues |-> intact[q] /\ found[q].told]
  /\ dequeuing' = None
  /\ UNCHANGED <<disk, written>>

Next ==
  \/ \E i \in Intercepts :
       \/ intercept_accept_cb(i) \/ InterceptRefused(i) \/ intercept_close_cb(i)
       \/ \E p \in Pids, type \in Types : intercept_request_cb(i, p, type)
  \/ \E c \in Crashes :
       \/ crash_accept_cb(c) \/ CrashRefused(c) \/ crash_completed_cb(c)
       \/ \E p \in Pids, type \in Types : crash_request_cb(c, p, type)
  \/ \E q \in Queues : Dequeue(q) \/ DequeueEnds(q)
  \/ Restart

Spec == Init /\ [][Next]_vars

(* Events of accepted and of running crashes have a timeout, and a loop    *)
(* goes on.                                                                *)
Fairness ==
  /\ \A c \in Crashes : WF_vars(CrashRefused(c)) /\ WF_vars(CompletedEmpty(c))
  /\ \A q \in Queues : WF_vars(Dequeue(q) \/ DequeueEnds(q))

FairSpec == Spec /\ Fairness

----------------------------------------------------------------------------
(* Properties. *)

(* Types. *)
TypeOK ==
  /\ crash \in [Crashes -> Crash]
  /\ queue \in [Queues -> [num_concurrent_dumps : Nat, queued_requests : Seq(Crashes),
                           next_artifact : Nat]]
  /\ \A q \in Queues : queue[q].next_artifact \in Paths(q)
  /\ intercept \in [Intercepts -> Intercept]
  /\ intercepts \in [Pids -> Intercepts \cup {None}]
  /\ dequeuing \in Queues \cup {None}
  /\ DOMAIN disk = Queues
  /\ \A q \in Queues : disk[q] \in [Paths(q) -> Nat]
  /\ written \in [Queues -> Nat]
  /\ intact \in [Queues -> BOOLEAN]
  /\ restarts \in Nat

Running(q) == {c \in Crashes : crash[c].state = "running" /\ for_crash(crash[c].type) = q}

(* num_concurrent_dumps_ counts the dumps that run, however they began and *)
(* however others ended, and stays within max_concurrent_dumps_.           *)
PlacesCounted ==
  \A q \in Queues : /\ queue[q].num_concurrent_dumps = Cardinality(Running(q))
                    /\ queue[q].num_concurrent_dumps <= MaxDumps[q]

(* A crash waits only while every place is taken: so a crash that comes    *)
(* later cannot start before it.                                           *)
NoIdlePlace ==
  \A q \in Queues : queue[q].queued_requests # <<>> /\ dequeuing # q => Full(q)

Queued(q) == {c \in Crashes : crash[c].state = "queued" /\ for_crash(crash[c].type) = q}

(* The sequence s has each member of S once and nothing else. *)
Enumerates(s, S) ==
  /\ \A n \in DOMAIN s : s[n] \in S
  /\ \A m, n \in DOMAIN s : s[m] = s[n] => m = n
  /\ \A c \in S : \E n \in DOMAIN s : s[n] = c

(* A Crash is owned by queued_requests exactly when no event refers to it, *)
(* and only once.                                                          *)
Owned == \A q \in Queues : Enumerates(queue[q].queued_requests, Queued(q))

(* A registered interceptor is in the map under its pid, as                *)
(* intercept_close_cb insists, and the map has no other.                   *)
InterceptsFound ==
  \A i \in Intercepts, p \in Pids :
    intercepts[p] = i <=> intercept[i].state = "registered" /\ intercept[i].pid = p

(* Only the oldest artifact is replaced, also after tombstoned was started *)
(* again, while renaming works and if stat told the order of the files:    *)
(* equal seconds are no harm while the older file has the lower path.      *)
OldestReplaced ==
  [][\A q \in Queues : \A k \in Paths(q) :
       intact[q] /\ disk'[q][k] > disk[q][k]
         => \A l \in Paths(q) : disk[q][k] <= disk[q][l]]_vars

(* Every process that connects is served or dropped in the end, also when  *)
(* those before it hang: again and again none of those that have connected *)
(* is left.                                                                *)
CrashEnds == []<>(\A c \in Crashes : crash[c].state \in {"none", "gone"})
=============================================================================
