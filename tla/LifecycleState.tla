--------------------------- MODULE LifecycleState ---------------------------
(* The lifecycle transition table of internal/core/state.go, the Restart=    *)
(* decision of internal/core/restart.go and the start limit of              *)
(* internal/core/startlimit.go, as operators over any record that has the   *)
(* fields state and sub (unitRuntime in internal/manager).                   *)
EXTENDS Integers

States == {"inactive", "activating", "active", "deactivating", "failed"}

(* SubStartPre, SubStartPost and SubStopPost are declared by the source but  *)
(* no transition produces them.                                              *)
Substates == {"none", "start", "running", "stop", "auto-restart", "watchdog"}

Events == {"start-requested", "start-succeeded", "start-failed",
           "stop-requested", "stop-finished", "main-exited", "auto-restart",
           "restart-cancelled", "watchdog-failed"}

(* The from-states allowedStep lists for an event.                           *)
Sources(ev) ==
  CASE ev = "start-requested"   -> States \ {"deactivating"}
    [] ev = "start-succeeded"   -> {"activating"}
    [] ev = "start-failed"      -> {"activating", "active", "deactivating"}
    [] ev = "stop-requested"    -> States
    [] ev = "stop-finished"     -> {"deactivating"}
    [] ev = "main-exited"       -> {"active", "activating", "inactive"}
    [] ev = "auto-restart"      -> {"inactive", "active", "failed"}
    [] ev = "restart-cancelled" -> {"activating"}
    [] ev = "watchdog-failed"   -> {"active", "activating"}

(* The (state, substate) pair an accepted event leads to.                    *)
Target(ev) ==
  CASE ev = "start-requested"   -> <<"activating", "start">>
    [] ev = "start-succeeded"   -> <<"active", "running">>
    [] ev = "start-failed"      -> <<"failed", "none">>
    [] ev = "stop-requested"    -> <<"deactivating", "stop">>
    [] ev = "stop-finished"     -> <<"inactive", "none">>
    [] ev = "main-exited"       -> <<"failed", "none">>
    [] ev = "auto-restart"      -> <<"activating", "auto-restart">>
    [] ev = "restart-cancelled" -> <<"inactive", "none">>
    [] ev = "watchdog-failed"   -> <<"failed", "watchdog">>

Allowed(r, ev) ==
  /\ r.state \in Sources(ev)
  /\ ev = "restart-cancelled" => r.sub = "auto-restart"

(* Step: an event outside the allowlist is not applied.                      *)
Step(r, ev) ==
  IF Allowed(r, ev)
  THEN [r EXCEPT !.state = Target(ev)[1], !.sub = Target(ev)[2]]
  ELSE r

(* publishStartOutcome: the result of an explicit start, published without   *)
(* the table; a failed watchdog keeps its cause.                             *)
PublishStartOutcome(r, state) ==
  [r EXCEPT !.state = state,
            !.sub = CASE state = "active" -> "running"
                      [] state = "failed" /\ r.state = "failed"
                           /\ r.sub = "watchdog" -> "watchdog"
                      [] OTHER -> "none"]

Policies == {"no", "always", "on-failure", "on-watchdog"}

(* ExitAbnormal and ExitResourceLimit are told apart from ExitFailure only   *)
(* in messages, so the kind "failure" stands for the three.                  *)
ShouldRestart(policy, kind) ==
  \/ policy = "always"
  \/ policy = "on-failure" /\ kind # "success"
  \/ policy = "on-watchdog" /\ kind = "watchdog"

(* Mutant: the limit lets one start too many through.                        *)
LimitOffByOne(starts, burst) == burst > 0 /\ starts > burst

(* The start limit over the number of starts recorded inside the interval.   *)
StartLimitHit(starts, burst) == burst > 0 /\ starts >= burst

RecordStart(starts, burst) == IF burst > 0 THEN starts + 1 ELSE 0

(* Every (state, substate) pair the table and the publication can produce.   *)
Pairs ==
  {<<"inactive", "none">>, <<"activating", "start">>,
   <<"activating", "auto-restart">>, <<"active", "running">>,
   <<"deactivating", "stop">>, <<"failed", "none">>, <<"failed", "watchdog">>}
=============================================================================
