-------------------------- MODULE AdbConnectionLife --------------------------
(***************************************************************************)
(* A connection as AdbTransports sees it: one state, which Stop ends at    *)
(* once, an error that is reported once, and no word once it is stopped.   *)
(***************************************************************************)
EXTENDS Sequences

VARIABLES
  phase,    \* "fresh", "running", "failed" once its error is reported, "stopped"
  runq      \* what the connection has queued on the looper

vars == <<phase, runq>>

Init == phase = "fresh" /\ runq = <<>>

Start == phase = "fresh" /\ phase' = "running" /\ UNCHANGED runq

Reads ==
  /\ phase \in {"running", "failed"}
  /\ \E p \in {"packet", "stls"} : runq' = Append(runq, p)
  /\ UNCHANGED phase

Fails == phase = "running" /\ phase' = "failed" /\ runq' = Append(runq, "error")

(* Stop reports an error if none was reported. *)
Stop ==
  /\ phase' = "stopped"
  /\ \/ phase = "running" /\ runq' = Append(runq, "error")
     \/ phase = "failed" /\ UNCHANGED runq

(* The looper runs what is queued. *)
Runs == runq # <<>> /\ runq' = Tail(runq) /\ UNCHANGED phase

Next == Start \/ Reads \/ Fails \/ Stop \/ Runs

Spec == Init /\ [][Next]_vars
=============================================================================
