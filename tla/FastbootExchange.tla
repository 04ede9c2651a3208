-------------------------- MODULE FastbootExchange --------------------------
(***************************************************************************)
(* What fastboot's engine is promised by a transport: the target executes  *)
(* the packets in the order they were made, none of them twice, and a      *)
(* trusted host ends a call, or goes on to its next packet, only when the  *)
(* target has executed the last one.  Packets that set a session up are    *)
(* made but not waited for here.  A call that gives up, not knowing        *)
(* whether its packet was executed, costs the session its trust: nothing   *)
(* is promised of its later answers.                                       *)
(***************************************************************************)
EXTENDS Integers

VARIABLES
  made,      \* packets made so far: they are numbered from 1
  done,      \* the last packet the target executed, 0 for none
  waiting,   \* the packet whose answer the host waits for, 0 for none
  trusted    \* a session is open and no call of it has given up

vars == <<made, done, waiting, trusted>>

Init == made = 0 /\ done = 0 /\ waiting = 0 /\ trusted = FALSE

(* The packet waited for, if there is one, has been executed. *)
Answered == waiting = 0 \/ ~trusted \/ done = waiting

(* The host makes a packet, and may wait for it; with a packet it does not *)
(* wait for it may start a new session.                                    *)
Make ==
  /\ Answered
  /\ made' = made + 1
  /\ \/ waiting' = made + 1 /\ UNCHANGED trusted
     \/ waiting' = 0 /\ trusted' \in {trusted, TRUE}
  /\ UNCHANGED done

(* A call returns with the answer to its packet, be it an error. *)
Take ==
  /\ waiting # 0 /\ Answered
  /\ waiting' = 0
  /\ UNCHANGED <<made, done, trusted>>

(* A call gives up, or the session ends. *)
Fail ==
  /\ waiting' = 0
  /\ trusted' = FALSE
  /\ UNCHANGED <<made, done>>

Execute ==
  /\ \E o \in done + 1 .. made : done' = o
  /\ UNCHANGED <<made, waiting, trusted>>

Next == Make \/ Take \/ Fail \/ Execute

Spec == Init /\ [][Next]_vars
=============================================================================
