---------------------------- MODULE UnitContract ----------------------------
(* What the lifecycle of one unit promises (DESIGN.md, section 3): at most   *)
(* one live invocation, and a unit that was told to stop does not become     *)
(* active again until a newer start readmits it.                             *)

VARIABLES
  live,      \* processes of the unit whose termination is not confirmed
  active,    \* the unit is reported active
  disarmed   \* a stop, a cancellation or a shutdown was accepted

vars == <<live, active, disarmed>>

Init == live = {} /\ ~active /\ ~disarmed

(* A launch creates a process; there is no other one.                        *)
Create ==
  /\ live = {}
  /\ \E p \in live' : live' = {p}
  /\ UNCHANGED <<active, disarmed>>

(* Supervision: processes end, the outcome is published.                     *)
Supervise ==
  /\ live' \subseteq live
  /\ active' \in BOOLEAN /\ (active' => active \/ ~disarmed)
  /\ disarmed' = disarmed

(* A stop, cancellation or shutdown is accepted.                             *)
Disarm ==
  /\ disarmed'
  /\ active' \in BOOLEAN /\ (active' => active)
  /\ live' = live

(* A start newer than every accepted stop begins its launch.                 *)
Readmit ==
  /\ disarmed /\ ~disarmed'
  /\ UNCHANGED <<live, active>>

Next == Create \/ Supervise \/ Disarm \/ Readmit

Spec == Init /\ [][Next]_vars
=============================================================================
