---------------------------- MODULE MCTombstoned ----------------------------
(* A small tombstoned for TLC. *)
EXTENDS Tombstoned

Dumps == [q \in Queues |-> IF q = "anrs" THEN 2 ELSE 1]
Artifacts == [q \in Queues |-> IF q = "anrs" THEN 3 ELSE 2]
=============================================================================
