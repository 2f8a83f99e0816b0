---------------------------- MODULE UnitLifecycle ----------------------------
(* One process-backed unit of internal/manager: its unitRuntime record, the  *)
(* decision handlers that m.mu serializes, the per-unit gate (unitOps) and   *)
(* the workers that do native work between two handlers: start operations,  *)
(* stop operations, the shutdown pass, automatic recovery, the exit watcher, *)
(* the watchdog and the reaper of failed units.                              *)
(*                                                                           *)
(* An action is one critical section of m.mu, with the native call whose     *)
(* result it applies.  A worker that needs the gate keeps its place in       *)
(* gate.pc; what the other handlers can change between two sections of the   *)
(* gate's holder (stopping, stopEpoch, closed, cancellations) interleaves.   *)
(*                                                                           *)
(* A process is a number, 0 is nil.  tree holds the processes whose job may  *)
(* still have members, main those whose main process runs.                   *)
EXTENDS LifecycleState

CONSTANTS
  Type,             \* Type= : "simple", "notify" or "oneshot"
  Restart,          \* Restart= : a member of Policies
  RemainAfterExit,  \* RemainAfterExit= of a oneshot
  Watchdog,         \* WatchdogSec= set with WatchdogMode=notify
  Burst,            \* StartLimitBurst=; every start falls inside the interval
  Starts,           \* start operations that may be admitted
  Triggered,        \* those of Starts with a timer or watch origin
  Stops,            \* explicit stop operations that may be admitted
  MayClose          \* whether the manager may shut down

Shutdown == "shutdown"

ASSUME ConfigAssumption ==
  /\ Type \in {"simple", "notify", "oneshot"}
  /\ Restart \in Policies
  /\ RemainAfterExit \in BOOLEAN /\ Watchdog \in BOOLEAN
  /\ Burst \in Nat /\ MayClose \in BOOLEAN
ASSUME OperationAssumption ==
  /\ Triggered \subseteq Starts
  /\ Shutdown \notin Starts \cup Stops /\ Starts \cap Stops = {}

VARIABLES
  rt,        \* unitRuntime
  closed,    \* Manager.closed
  plan,      \* plannedStart of each start operation, and its worker's place
  stop,      \* each stop's worker: place, captured owner and process, outcome
  gate,      \* the unit gate: its holder, the holder's place and captures
  recovery,  \* the accepted recovery worker outside the gate: "none", "wait"
  watchers,  \* processes with a watch goroutine that has not taken the gate
  reaps,     \* reapFailed goroutines waiting for the gate
  loop,      \* generation of the running watchdog loop, 0 when none runs
  fired,     \* generations whose watchdog timed out, waiting for the gate
  exits,     \* exits whose cleanup is confirmed, not yet applied
  rearms,    \* generations whose watchdog cleanup is confirmed, to recover
  tree,      \* processes whose job is not known to be empty
  main,      \* processes whose main process runs
  nproc      \* processes created so far

native  == <<tree, main, nproc>>
pending == <<watchers, reaps, loop, fired, exits, rearms>>
vars    == <<rt, closed, plan, stop, gate, recovery, pending, native>>

StopIds == Stops \cup {Shutdown}
Workers == Starts \cup StopIds   \* a cancelled start runs a stop of its own

Resources == {"workload", "notification", "journal"}
NeedsPipe == Type = "notify" \/ Watchdog

NoGate == [by |-> "none", id |-> Shutdown, pc |-> "free", gen |-> 0,
           proc |-> 0, flag |-> FALSE, cancelled |-> FALSE]

NoPlan == [pc |-> "idle", stopEpoch |-> 0, gen |-> 0, launched |-> FALSE,
           completed |-> FALSE, launchGen |-> 0, cancelled |-> FALSE,
           join |-> FALSE, err |-> FALSE]
NoStop == [pc |-> "idle", gen |-> 0, proc |-> 0, capture |-> 0, waitGen |-> 0,
           err |-> FALSE, mark |-> 0]

Init ==
  /\ rt = [state |-> "inactive", sub |-> "none", gen |-> 0, stopEpoch |-> 0,
           proc |-> 0, notify |-> 0, watchdog |-> 0, startCancel |-> FALSE,
           restart |-> FALSE, restartGen |-> 0, stopping |-> FALSE,
           terminated |-> FALSE, cleanup |-> {}, invocation |-> FALSE,
           invoked |-> FALSE, capture |-> 0, starts |-> 0]
  /\ closed = FALSE
  /\ plan = [i \in Starts |-> NoPlan]
  /\ stop = [s \in Workers |-> NoStop]
  /\ gate = NoGate
  /\ recovery = "none"
  /\ watchers = {} /\ reaps = {} /\ loop = 0
  /\ fired = {} /\ exits = {} /\ rearms = {}
  /\ tree = {} /\ main = {} /\ nproc = 0
-----------------------------------------------------------------------------
(* Parts of handlers, as functions of the unit's record.                     *)

SetCleanup(r, bit, on) ==
  [r EXCEPT !.cleanup = IF on THEN @ \cup {bit} ELSE @ \ {bit}]

(* cancelRestart; its context ends in FireCancels.                           *)
CancelRestart(r) == [r EXCEPT !.restart = FALSE]

(* Mutant: disarming forgets restartCancel.                                  *)
FireStartCancel == [gate EXCEPT !.cancelled = @ \/ rt.startCancel]

(* Mutant: disarming ends no wait of the gate's holder.                      *)
FireNothing == gate

(* startCancel() and restartCancel() as the gate's holder sees them.         *)
FireCancels ==
  [gate EXCEPT !.cancelled =
     @ \/ rt.startCancel \/ (gate.by = "recovery" /\ rt.restart)]

(* closeNotify: acceptNotifyCleanup, the close, applyNotifyCleanup.          *)
CloseNotify(r, ok) ==
  CASE r.notify = 0 -> r
    [] r.notify # 0 /\ ok -> SetCleanup([r EXCEPT !.notify = 0], "notification", FALSE)
    [] OTHER -> SetCleanup(r, "notification", TRUE)

(* publishJournalCompletion for the capture a waiter read.                   *)
JournalCompletion(r, capture, gen, complete) ==
  IF r.capture # capture \/ (capture = 0 /\ r.gen # gen)
  THEN r
  ELSE SetCleanup([r EXCEPT !.capture = IF complete THEN 0 ELSE @],
                  "journal", ~complete)

(* failStartLimitLocked.                                                     *)
FailStartLimit(r) == Step(r, "main-exited")

(* acceptRecovery for the owner of generation gen.                           *)
Recoverable(r, gen) ==
  /\ ~closed /\ gen = r.gen /\ ~r.stopping /\ r.cleanup = {} /\ r.proc = 0
  /\ ~(r.sub = "auto-restart" /\ r.restart /\ r.restartGen = r.gen)

AcceptRecovery(r, gen) ==
  IF ~Recoverable(r, gen) THEN r
  ELSE IF StartLimitHit(r.starts, Burst) THEN FailStartLimit(r)
  ELSE LET a == IF Type = "oneshot" /\ r.state = "activating" /\ r.sub = "start"
                THEN Step(r, "start-failed") ELSE r
       IN [Step(a, "auto-restart") EXCEPT !.restart = TRUE, !.restartGen = r.gen]

(* Whether acceptRecovery hands out a recovery worker.                       *)
Recovers(r, gen) == Recoverable(r, gen) /\ ~StartLimitHit(r.starts, Burst)

(* applyStartOutcomeLocked.                                                  *)
StartOutcome(r, state, launched) ==
  IF \/ r.sub = "auto-restart"
     \/ state = "failed" /\ r.state = "active" /\ ~launched
     \/ state = "active" /\ r.stopping
     \/ /\ state = "inactive" /\ ~r.stopping
        /\ r.state \in {"active", "activating"} \/ r.proc # 0
  THEN r
  ELSE PublishStartOutcome(r, state)

(* applyStartCompletionLocked up to its trailing reapFailedLocked.           *)
StartCompletion(r, p, err) ==
  LET state == IF err THEN "failed"
               ELSE IF Type = "oneshot" /\ ~RemainAfterExit THEN "inactive"
               ELSE "active"
  IN StartOutcome(r, state, p.launched)

CompletionCurrent(r, p) == r.stopEpoch = p.stopEpoch /\ ~closed

(* reapFailedLocked: the worker it starts is [gen, proc].                    *)
MustReap(r) == r.state = "failed" /\ r.proc # 0 /\ r.cleanup = {}
-----------------------------------------------------------------------------
(* Operation admission, cancellation and publication.                        *)

Running(i) == plan[i].pc \in {"gate", "run"}

(* startOperation: the member's plan is captured under m.mu.                 *)
StartAdmit(i) ==
  /\ plan[i].pc = "idle" /\ ~closed
  /\ plan' = [plan EXCEPT ![i] =
       [@ EXCEPT !.pc = "gate", !.stopEpoch = rt.stopEpoch, !.gen = rt.gen,
                 !.join = Type = "oneshot" /\ rt.state = "activating"
                                           /\ rt.sub = "start"]]
  /\ UNCHANGED <<rt, closed, stop, gate, recovery, pending, native>>

(* The member of a start operation cancelOperationLocked disarms.            *)
OwnsLaunch(i) ==
  /\ plan[i].launched /\ ~plan[i].completed /\ plan[i].launchGen # 0
  /\ plan[i].launchGen = rt.gen
CancelsMember(i) == OwnsLaunch(i) /\ plan[i].stopEpoch = rt.stopEpoch

CancelMember(r) ==
  [r EXCEPT !.stopping = TRUE, !.stopEpoch = @ + 1, !.restart = FALSE,
            !.cleanup = IF r.proc # 0 \/ r.invocation
                        THEN @ \cup {"workload"} ELSE @]

(* An accepted stop suppresses every later success of the unit.              *)
Suspend(r) == [r EXCEPT !.stopping = TRUE]

(* CancelOperation and the operation deadline.                               *)
CancelOperation(i) ==
  /\ Running(i) /\ ~plan[i].cancelled
  /\ plan' = [plan EXCEPT ![i].cancelled = TRUE]
  /\ IF CancelsMember(i)
     THEN rt' = CancelMember(rt) /\ gate' = FireCancels /\ recovery' = "none"
     ELSE UNCHANGED <<rt, gate, recovery>>
  /\ UNCHANGED <<closed, stop, pending, native>>

(* The plan of a finished operation, of which only the outcome matters.      *)
Retired(completed, err) ==
  [NoPlan EXCEPT !.pc = "done", !.completed = completed, !.err = err]

(* applyStartCompletionLocked for start i on the record r.                   *)
CompleteStart(i, r, err) ==
  LET current == CompletionCurrent(r, plan[i])
      c       == IF current THEN StartCompletion(r, plan[i], err) ELSE r
      reap    == current /\ MustReap(c)
  IN /\ rt' = IF reap THEN SetCleanup(c, "workload", TRUE) ELSE c
     /\ reaps' = IF reap THEN reaps \cup {[gen |-> c.gen, proc |-> c.proc]}
                 ELSE reaps
     /\ plan' = [plan EXCEPT ![i] = Retired(TRUE, err)]

(* applyStartRejection: a dependency failed, or the context ended before the *)
(* gate was taken.                                                           *)
StartRejected(i) ==
  /\ plan[i].pc = "gate"
  /\ IF plan[i].gen = rt.gen
     THEN CompleteStart(i, rt, TRUE)
     ELSE /\ plan' = [plan EXCEPT ![i] = Retired(FALSE, TRUE)]
          /\ UNCHANGED <<rt, reaps>>
  /\ UNCHANGED <<closed, stop, gate, recovery, watchers, loop, fired, exits,
                 rearms, native>>

(* The context of the launch in the gate: the operation's or the recovery's. *)
CtxDone == IF gate.by = "start" THEN plan[gate.id].cancelled ELSE gate.cancelled

(* The end of launchUnitOwnedOp: a start goes on to publish, a recovery      *)
(* drops the result and the gate.                                            *)
Return(err) ==
  gate' = IF gate.by = "recovery" THEN NoGate
          ELSE [gate EXCEPT !.pc = "return", !.flag = err]

(* publishOperationStart: completion and cancellation share m.mu.            *)
PublishStart ==
  /\ gate.pc = "return" /\ ~CtxDone
  /\ CompleteStart(gate.id, rt, gate.flag)
  /\ gate' = NoGate
  /\ UNCHANGED <<closed, stop, recovery, watchers, loop, fired, exits, rearms,
                 native>>

(* executeOperationStart after a refused publication: stop what it launched. *)
AbandonStart ==
  /\ gate.pc = "return" /\ CtxDone
  /\ IF OwnsLaunch(gate.id)
     THEN /\ gate' = [gate EXCEPT !.pc = "stop"]
          /\ UNCHANGED <<rt, plan, reaps>>
     ELSE /\ CompleteStart(gate.id, rt, TRUE)
          /\ gate' = NoGate
  /\ UNCHANGED <<closed, stop, recovery, watchers, loop, fired, exits, rearms,
                 native>>
-----------------------------------------------------------------------------
(* The launch worker: launchUnitOwnedOp under the gate.                      *)

(* lockContext, then observeLaunch.                                          *)
TakeGate(by, id, gen) ==
  gate' = [NoGate EXCEPT !.by = by, !.id = id, !.pc = "accept", !.gen = gen,
             !.proc = rt.proc,
             !.flag = ~closed /\ rt.cleanup = {} /\ rt.proc \in main]

StartGate(i) ==
  /\ gate = NoGate /\ plan[i].pc = "gate" /\ ~plan[i].cancelled
  /\ TakeGate("start", i, 0)
  /\ plan' = [plan EXCEPT ![i].pc = "run"]
  /\ UNCHANGED <<rt, closed, stop, recovery, pending, native>>

(* runRecovery after its delay; its own owner check repeats in Verdict.      *)
RecoveryGate ==
  /\ gate = NoGate /\ recovery = "wait"
  /\ TakeGate("recovery", Shutdown, rt.restartGen)
  /\ recovery' = "none"
  /\ UNCHANGED <<rt, closed, plan, stop, pending, native>>

(* acceptLaunch's decision: "refuse" and "drop" end the worker with and      *)
(* without an error, "limit" is the start limit.                             *)
Verdict ==
  LET p        == plan[gate.id]
      start    == gate.by = "start"
      joins    == /\ start /\ Type = "oneshot" /\ rt.invoked
                  /\ p.join \/ p.gen # rt.gen
      retained == rt.state = "active" /\ Type = "oneshot" /\ RemainAfterExit
  IN IF ~start /\ (gate.cancelled \/ gate.gen # rt.gen \/ rt.stopping) THEN "drop"
     ELSE IF closed \/ rt.cleanup # {} \/ rt.proc # gate.proc THEN "refuse"
     ELSE IF start /\ p.stopEpoch # rt.stopEpoch THEN "refuse"
     ELSE IF joins
          THEN IF rt.state \in {"inactive", "active"} THEN "drop" ELSE "refuse"
     ELSE IF gate.flag \/ retained THEN "drop"
     ELSE IF (start => gate.id \in Triggered) /\ StartLimitHit(rt.starts, Burst)
          THEN "limit"
     ELSE "launch"

LaunchRefused ==
  /\ gate.pc = "accept" /\ Verdict \in {"refuse", "drop"}
  /\ Return(Verdict = "refuse")
  /\ UNCHANGED <<rt, closed, plan, stop, recovery, pending, native>>

LaunchLimited ==
  /\ gate.pc = "accept" /\ Verdict = "limit"
  /\ Return(TRUE)
  /\ IF gate.by = "start"
     THEN /\ plan' = [plan EXCEPT ![gate.id].launched = TRUE]
          /\ rt' = FailStartLimit(CancelRestart(rt))
          /\ recovery' = "none"
     ELSE rt' = FailStartLimit(rt) /\ UNCHANGED <<plan, recovery>>
  /\ UNCHANGED <<closed, stop, pending, native>>

(* acceptLaunch takes over the unit; a start readmits a stopped one, and one *)
(* that is not triggered resets the start limit.                             *)
TakeOver(r) ==
  [r EXCEPT !.gen = @ + 1,
            !.cleanup = IF r.proc # 0 THEN @ \cup {"workload"} ELSE @]
Readmit(r, i) ==
  [r EXCEPT !.stopping = FALSE, !.starts = IF i \in Triggered THEN @ ELSE 0]

LaunchAccepted ==
  /\ gate.pc = "accept" /\ Verdict = "launch"
  /\ IF gate.by = "start"
     THEN /\ plan' = [plan EXCEPT ![gate.id].launched = TRUE,
                                  ![gate.id].launchGen = rt.gen + 1]
          /\ rt' = CancelRestart(Readmit(TakeOver(rt), gate.id))
          /\ recovery' = "none"
     ELSE rt' = TakeOver(rt) /\ UNCHANGED <<plan, recovery>>
  /\ gate' = [gate EXCEPT !.pc = IF rt.proc # 0 THEN "evict" ELSE "record",
                          !.gen = rt.gen + 1, !.flag = FALSE]
  /\ UNCHANGED <<closed, stop, pending, native>>

(* proc.Stop with its confirmation: on success the job of p is empty.        *)
StopNative(p, ok) ==
  /\ tree' = IF ok THEN tree \ {p} ELSE tree
  /\ main' = IF ok THEN main \ {p} ELSE main
  /\ nproc' = nproc

(* A handler's release of the process it confirmed dead.                     *)
ReleaseProc(r) == SetCleanup([r EXCEPT !.proc = 0], "workload", FALSE)
ReleaseFailed(r) == ReleaseProc([r EXCEPT !.terminated = FALSE])

EvictPrevious == \E ok \in BOOLEAN :
  /\ gate.pc = "evict"
  /\ StopNative(gate.proc, ok)
  /\ IF ok /\ ~closed
     THEN rt' = ReleaseProc(rt) /\ gate' = [gate EXCEPT !.pc = "record", !.proc = 0]
     ELSE Return(TRUE) /\ UNCHANGED rt
  /\ UNCHANGED <<closed, plan, stop, recovery, pending>>

RecordServiceLaunch ==
  /\ gate.pc = "record"
  /\ gate' = [gate EXCEPT !.pc = "prepare"]
  /\ rt' = IF closed THEN rt
           ELSE [(IF Type = "oneshot" THEN Step(rt, "start-requested") ELSE rt)
                   EXCEPT !.starts = RecordStart(@, Burst)]
  /\ UNCHANGED <<closed, plan, stop, recovery, pending, native>>

(* stopWatchdog and waitJournalContext; recordInvocation.                    *)
Quiesce(r, drains) ==
  JournalCompletion([r EXCEPT !.watchdog = 0], r.capture, r.gen, drains)
Invoke(r) == [r EXCEPT !.invocation = TRUE, !.invoked = TRUE]

PrepareLaunch == \E closes, drains \in BOOLEAN :
  /\ gate.pc = "prepare"
  /\ LET n == CloseNotify(rt, closes)
     IN IF n.notify # 0 THEN rt' = n /\ Return(TRUE)
        ELSE IF ~drains THEN rt' = Quiesce(n, FALSE) /\ Return(TRUE)
        ELSE /\ rt' = Invoke(Quiesce(n, TRUE))
             /\ gate' = [gate EXCEPT !.pc = IF NeedsPipe THEN "open" ELSE "create"]
  /\ UNCHANGED <<closed, plan, stop, recovery, pending, native>>

(* openNotify and adoptLaunchNotify; a listener that is not adopted goes to  *)
(* disposeNotify, which keeps it on the record when it cannot close it.      *)
OpenNotify == \E opens, disposes \in BOOLEAN :
  /\ gate.pc = "open"
  /\ IF opens /\ ~closed
     THEN /\ rt' = [rt EXCEPT !.notify = gate.gen]
          /\ gate' = [gate EXCEPT !.pc = "create"]
     ELSE /\ Return(TRUE)
          /\ rt' = IF disposes \/ closed THEN rt
                   ELSE SetCleanup([rt EXCEPT !.notify = gate.gen],
                                   "notification", TRUE)
  /\ UNCHANGED <<closed, plan, stop, recovery, pending, native>>

(* maybeRestart on the record r: acceptRecovery decides.                     *)
MaybeRestart(r, kind) ==
  LET wanted == ShouldRestart(Restart, kind)
  IN /\ rt' = IF wanted THEN AcceptRecovery(r, r.gen) ELSE r
     /\ recovery' = IF wanted /\ Recovers(r, r.gen) THEN "wait" ELSE recovery

(* retainLaunchFailure with attachMainCapture.                               *)
RetainProc(r, gen, p) ==
  [r EXCEPT !.capture = gen, !.proc = p, !.cleanup = @ \cup {"workload"}]

(* launch.Start and attachMainCapture.  It creates the process ("ok"); fails *)
(* and owns nothing ("failed"), perhaps because the account cannot log on    *)
(* ("account"); or fails with a process it could not clean up ("retained").  *)
(* The Windows launcher never reports an exit status without a process.      *)
CreateProcess == \E outcome \in {"ok", "failed", "account", "retained"},
                    closes \in BOOLEAN :
  /\ gate.pc = "create"
  /\ LET owned == outcome \in {"ok", "retained"}
         p     == nproc + 1
         c     == CloseNotify(IF owned THEN RetainProc(rt, gate.gen, p) ELSE rt, closes)
         f     == IF closed \/ c.stopping \/ c.state # "activating" THEN c
                  ELSE Step(c, "start-failed")
     IN /\ nproc' = IF owned THEN p ELSE nproc
        /\ tree'  = IF owned THEN tree \cup {p} ELSE tree
        /\ main'  = IF owned THEN main \cup {p} ELSE main
        /\ IF outcome = "ok"
           THEN /\ rt' = [rt EXCEPT !.capture = gate.gen]
                /\ gate' = [gate EXCEPT !.pc = "adopt", !.proc = p]
                /\ UNCHANGED recovery
           ELSE /\ Return(TRUE)
                /\ IF outcome = "account" THEN MaybeRestart(f, "failure")
                   ELSE rt' = c /\ UNCHANGED recovery
  /\ UNCHANGED <<closed, plan, stop, pending>>

(* Mutant: adoption does not look at stopping.                               *)
AdoptStopped == \E alive \in BOOLEAN :
  /\ gate.pc = "adopt" /\ (~alive => gate.proc \notin main)
  /\ LET t == [rt EXCEPT !.proc = gate.proc, !.terminated = FALSE]
     IN /\ rt' = IF gate.by = "recovery" /\ alive THEN Step(t, "start-succeeded") ELSE t
        /\ gate' = [gate EXCEPT !.pc = "activate"]
  /\ UNCHANGED <<closed, plan, stop, recovery, pending, native>>

(* adoptProcess.  alive was read before m.mu was taken.                      *)
AdoptProcess == \E alive \in BOOLEAN :
  /\ gate.pc = "adopt" /\ (~alive => gate.proc \notin main)
  /\ LET r == [rt EXCEPT !.proc = gate.proc]
         t == [r EXCEPT !.terminated = FALSE]
         next == CASE Type = "notify" -> "ready"
                   [] Type = "oneshot" -> "register"
                   [] Type = "simple" -> "activate"
     IN IF closed \/ rt.stopping
        THEN /\ rt' = SetCleanup(r, "workload", TRUE)
             /\ gate' = [gate EXCEPT !.pc = "late"]
        ELSE /\ rt' = IF Type = "notify" THEN Step(t, "start-requested")
                      ELSE IF gate.by = "recovery" /\ alive /\ Type = "simple"
                      THEN Step(t, "start-succeeded") ELSE t
             /\ gate' = [gate EXCEPT !.pc = next]
  /\ UNCHANGED <<closed, plan, stop, recovery, pending, native>>

(* A creation that stop or shutdown overtook is stopped under the same gate. *)
LateLaunchCleanup == \E ok, closes \in BOOLEAN :
  /\ gate.pc = "late"
  /\ StopNative(gate.proc, ok)
  /\ LET n == CloseNotify(rt, closes)
     IN rt' = IF ok THEN ReleaseProc(n) ELSE Step(n, "start-failed")
  /\ Return(TRUE)
  /\ UNCHANGED <<closed, plan, stop, recovery, pending>>

(* registerStartWait: a refusal cancels the wait at once.                    *)
RegisterStartWait ==
  /\ gate.pc = "register"
  /\ LET refused == closed \/ rt.stopping
     IN /\ rt' = [rt EXCEPT !.startCancel = ~refused]
        /\ gate' = [gate EXCEPT !.pc = "wait", !.cancelled = @ \/ refused]
  /\ UNCHANGED <<closed, plan, stop, recovery, pending, native>>

(* proc.Wait of a oneshot failed: exit status, cancellation or timeout.      *)
OneshotFailed == \E ok \in BOOLEAN :
  /\ gate.pc = "wait"
  /\ StopNative(gate.proc, ok)
  /\ LET c == SetCleanup([rt EXCEPT !.startCancel = FALSE, !.terminated = TRUE],
                         "workload", ~ok)
         r == IF c.stopping THEN c ELSE Step(c, "start-failed")
     IN IF ok THEN MaybeRestart(r, "failure") ELSE rt' = r /\ UNCHANGED recovery
  /\ watchers' = watchers \cup {gate.proc}
  /\ Return(TRUE)
  /\ UNCHANGED <<closed, plan, stop, reaps, loop, fired, exits, rearms>>

(* proc.Wait of a oneshot succeeded: empty the job.                          *)
OneshotExited == \E kills \in BOOLEAN :
  /\ gate.pc = "wait" /\ gate.proc \notin main /\ ~CtxDone /\ ~gate.cancelled
  /\ LET w == [rt EXCEPT !.startCancel = FALSE]
         k == SetCleanup(w, "workload", TRUE)
     IN IF kills
        THEN rt' = w /\ gate' = [gate EXCEPT !.pc = "finish"]
        ELSE /\ rt' = IF k.stopping THEN k ELSE Step(k, "start-failed")
             /\ Return(TRUE)
  /\ UNCHANGED <<closed, plan, stop, recovery, pending, native>>

(* Drain, stop, close the notify pipe, completeOneshot.                      *)
OneshotFinished == \E drains, ok, closes \in BOOLEAN :
  /\ gate.pc = "finish"
  /\ StopNative(gate.proc, ok)
  /\ LET n == CloseNotify(JournalCompletion(rt, rt.capture, rt.gen, drains), closes)
         c == IF ok THEN ReleaseProc(n) ELSE SetCleanup(n, "workload", TRUE)
         done == IF RemainAfterExit THEN "active" ELSE "inactive"
     IN IF c.cleanup # {}
        THEN rt' = Step(c, "start-failed") /\ Return(TRUE) /\ UNCHANGED recovery
        ELSE IF CtxDone \/ closed \/ c.stopping
        THEN rt' = c /\ Return(TRUE) /\ UNCHANGED recovery
        ELSE /\ MaybeRestart(PublishStartOutcome(c, done), "success")
             /\ Return(FALSE)
  /\ UNCHANGED <<closed, plan, stop, pending>>

(* waitReady failed: acceptReadinessFailure before the cleanup.              *)
ReadinessFailed ==
  /\ gate.pc = "ready"
  /\ LET r == SetCleanup([rt EXCEPT !.terminated = TRUE], "workload", TRUE)
     IN rt' = IF r.stopping THEN r ELSE Step(r, "start-failed")
  /\ gate' = [gate EXCEPT !.pc = "unready", !.flag = rt.stopping]
  /\ UNCHANGED <<closed, plan, stop, recovery, pending, native>>

ReadinessCleanup == \E ok, closes \in BOOLEAN :
  /\ gate.pc = "unready"
  /\ StopNative(gate.proc, ok)
  /\ LET n == CloseNotify(rt, closes)
         r == IF ok THEN ReleaseFailed(n) ELSE n
     IN IF ~gate.flag /\ ok /\ n.notify = 0
        THEN MaybeRestart(r, "failure") ELSE rt' = r /\ UNCHANGED recovery
  /\ Return(TRUE)
  /\ UNCHANGED <<closed, plan, stop, pending>>

(* acceptProcessActivation, startWatchdog and go watch; for Type=notify      *)
(* after READY=1.                                                            *)
Activate ==
  /\ gate.pc \in {"activate", "ready"}
  /\ LET accepted == /\ ~CtxDone /\ ~closed /\ ~rt.stopping
                     /\ Type = "notify" => Allowed(rt, "start-succeeded")
         a == IF accepted /\ Type = "notify" THEN Step(rt, "start-succeeded")
              ELSE rt
     IN /\ rt' = IF accepted /\ Watchdog THEN [a EXCEPT !.watchdog = gate.gen]
                 ELSE a
        /\ loop' = IF accepted /\ Watchdog THEN gate.gen ELSE loop
        /\ Return(~accepted /\ Type = "notify")
  /\ watchers' = watchers \cup {gate.proc}
  /\ UNCHANGED <<closed, plan, stop, recovery, reaps, fired, exits, rearms,
                 native>>
-----------------------------------------------------------------------------
(* Stop operations, shutdown, and a cancelled start's own stop.              *)

(* disarmStartLocked, for a stop operation's whole scope at admission.       *)
Disarm(j) ==
  /\ rt' = CancelRestart([rt EXCEPT !.stopping = TRUE, !.stopEpoch = @ + 1])
  /\ gate' = FireCancels
  /\ recovery' = "none"
  /\ stop' = [stop EXCEPT ![j].pc = "gate"]

StopAdmit(j) ==
  /\ stop[j].pc = "idle"
  /\ Disarm(j)
  /\ UNCHANGED <<closed, plan, pending, native>>

(* sealShutdownLocked.                                                       *)
Seal ==
  /\ MayClose /\ ~closed
  /\ closed' = TRUE
  /\ plan' = [i \in Starts |-> IF Running(i) THEN [plan[i] EXCEPT !.cancelled = TRUE]
                               ELSE plan[i]]
  /\ LET cancels == \E i \in Starts :
                      Running(i) /\ ~plan[i].cancelled /\ CancelsMember(i)
         r == IF cancels THEN CancelMember(rt) ELSE rt
         c == IF rt.proc # 0 THEN SetCleanup(r, "workload", TRUE) ELSE r
     IN rt' = CancelRestart(Suspend(c))
  /\ gate' = FireCancels
  /\ recovery' = "none"
  /\ UNCHANGED <<stop, pending, native>>

(* Mutant: an admitted start is not counted.                                 *)
OperationsUncounted ==
  \/ \E s \in Workers : stop[s].pc \notin {"idle", "done"}
  \/ gate.by = "recovery" /\ gate.pc # "accept"

(* unitRuntime.operations # 0: an operation admitted and not finished, or a  *)
(* recovery past its acceptance.                                             *)
Operations ==
  \/ \E i \in Starts : Running(i)
  \/ \E s \in Workers : stop[s].pc \notin {"idle", "done"}
  \/ gate.by = "recovery" /\ gate.pc # "accept"

(* shutdownPass with shutdownRootsLocked; stopUnitCtx disarms.               *)
ShutdownPass ==
  /\ closed /\ stop[Shutdown].pc = "idle"
  /\ IF rt.state # "inactive" \/ rt.proc # 0 \/ Operations \/ rt.cleanup # {}
     THEN Disarm(Shutdown)
     ELSE /\ stop' = [stop EXCEPT ![Shutdown].pc = "done"]
          /\ UNCHANGED <<rt, gate, recovery>>
  /\ UNCHANGED <<closed, plan, pending, native>>

(* lockContext of a stop whose deadline passes.                              *)
StopDeadline(j) ==
  /\ stop[j].pc = "gate"
  /\ stop' = [stop EXCEPT ![j].pc = "done", ![j].err = TRUE]
  /\ UNCHANGED <<rt, closed, plan, gate, recovery, pending, native>>

StopGate(j) ==
  /\ gate = NoGate /\ stop[j].pc = "gate"
  /\ gate' = [NoGate EXCEPT !.by = "stop", !.id = j, !.pc = "stop"]
  /\ stop' = [stop EXCEPT ![j].pc = "run"]
  /\ UNCHANGED <<rt, closed, plan, recovery, pending, native>>

AcceptStopCleanup ==
  /\ gate.pc = "stop"
  /\ LET r == CancelRestart([rt EXCEPT !.stopping = TRUE, !.gen = @ + 1,
                                         !.watchdog = 0])
         c == IF r.proc # 0 THEN SetCleanup(r, "workload", TRUE) ELSE r
     IN rt' = SetCleanup(Step(c, "stop-requested"), "notification", rt.notify # 0)
  /\ gate' = [gate EXCEPT !.pc = "kill", !.gen = rt.gen + 1, !.proc = rt.proc]
  /\ recovery' = "none"
  /\ stop' = [stop EXCEPT ![gate.id] = [@ EXCEPT !.pc = "run", !.gen = rt.gen + 1,
                                          !.proc = rt.proc, !.mark = nproc]]
  /\ UNCHANGED <<closed, plan, pending, native>>

(* Mutant: the process is released although its job may have members.        *)
ReleaseAnyway(r, ok) == ReleaseProc(r)

(* applyStopCleanup for the native result.                                   *)
StopCleanupResult(r, ok) ==
  IF ~ok THEN SetCleanup(r, "workload", TRUE)
  ELSE LET c == ReleaseProc(r)
       IN [c EXCEPT !.invocation = IF c.cleanup = {} THEN FALSE ELSE @]

(* Mutant: the stop drops the error of the native stop.                      *)
StopUnconfirmed == \E ok, closes \in BOOLEAN :
  /\ gate.pc = "kill" /\ (gate.proc = 0 => ok)
  /\ StopNative(gate.proc, ok)
  /\ rt' = CloseNotify(StopCleanupResult(rt, ok), closes)
  /\ stop' = [stop EXCEPT ![gate.id].pc = "drain", ![gate.id].err = rt'.notify # 0]
  /\ gate' = NoGate
  /\ UNCHANGED <<closed, plan, recovery, pending>>

(* The native stop, applyStopCleanup, closeNotify, release of the gate.      *)
StopCleanup == \E ok, closes \in BOOLEAN :
  /\ gate.pc = "kill" /\ (gate.proc = 0 => ok)
  /\ StopNative(gate.proc, ok)
  /\ LET r == CloseNotify(StopCleanupResult(rt, ok), closes)
     IN /\ rt' = r
        /\ stop' = [stop EXCEPT ![gate.id].pc = "drain",
                                ![gate.id].err = ~ok \/ r.notify # 0]
  /\ gate' = NoGate
  /\ UNCHANGED <<closed, plan, recovery, pending>>

(* waitJournalContext reads the capture to wait for after the release.       *)
StopReadCapture(s) ==
  /\ stop[s].pc = "drain"
  /\ stop' = [stop EXCEPT ![s].pc = "wait", ![s].capture = rt.capture,
                          ![s].waitGen = rt.gen]
  /\ UNCHANGED <<rt, closed, plan, gate, recovery, pending, native>>

StopDrain(s) == \E complete \in BOOLEAN :
  /\ stop[s].pc = "wait"
  /\ rt' = JournalCompletion(rt, stop[s].capture, stop[s].waitGen, complete)
  /\ stop' = [stop EXCEPT ![s].pc = "complete", ![s].err = @ \/ ~complete]
  /\ UNCHANGED <<closed, plan, gate, recovery, pending, native>>

(* applyStopCompletion; a cancelled start then publishes its own failure.    *)
StopComplete(s) ==
  /\ stop[s].pc = "complete"
  /\ LET current == rt.gen = stop[s].gen /\ rt.proc \in {0, stop[s].proc}
         r == IF ~current THEN rt
              ELSE Step(rt, IF stop[s].err THEN "start-failed" ELSE "stop-finished")
     IN IF s \in Starts THEN CompleteStart(s, r, TRUE)
        ELSE rt' = r /\ UNCHANGED <<plan, reaps>>
  /\ stop' = [stop EXCEPT ![s] = [NoStop EXCEPT !.pc = "done", !.err = stop[s].err,
                                                !.mark = stop[s].mark]]
  /\ UNCHANGED <<closed, gate, recovery, watchers, loop, fired, exits, rearms,
                 native>>
-----------------------------------------------------------------------------
(* The exit watcher, the watchdog, the reaper and automatic recovery.        *)

(* watch: the main process exited or its job hit a resource limit.           *)
WatchGate(p) ==
  /\ p \in watchers /\ gate = NoGate
  /\ watchers' = watchers \ {p}
  /\ IF rt.proc = p /\ rt.cleanup = {}
     THEN /\ rt' = SetCleanup([rt EXCEPT !.terminated = FALSE, !.watchdog = 0],
                              "workload", TRUE)
          /\ gate' = [NoGate EXCEPT !.by = "watch", !.pc = "watch", !.gen = rt.gen,
                        !.proc = p, !.flag = rt.stopping \/ rt.terminated]
     ELSE UNCHANGED <<rt, gate>>
  /\ UNCHANGED <<closed, plan, stop, recovery, reaps, loop, fired, exits, rearms,
                 native>>

(* Mutant: the watcher takes the exit of the main process for the end of its *)
(* job.                                                                      *)
WatchReleases == \E ok, closes \in BOOLEAN :
  /\ gate.pc = "watch"
  /\ StopNative(gate.proc, ok)
  /\ rt' = ReleaseProc(CloseNotify(rt, closes))
  /\ exits' = exits \cup {[gen |-> gate.gen, suppressed |-> gate.flag]}
  /\ gate' = NoGate
  /\ UNCHANGED <<closed, plan, stop, recovery, watchers, reaps, loop, fired,
                 rearms>>

(* The native stop, closeNotify, applyProcessExitCleanup.                    *)
WatchCleanup == \E ok, closes \in BOOLEAN :
  /\ gate.pc = "watch"
  /\ StopNative(gate.proc, ok)
  /\ LET n == CloseNotify(rt, closes)
         r == IF ok THEN ReleaseProc(n) ELSE n
     IN IF r.cleanup # {}
        THEN rt' = Step(r, "start-failed") /\ UNCHANGED exits
        ELSE /\ rt' = r
             /\ exits' = exits \cup {[gen |-> gate.gen, suppressed |-> gate.flag]}
  /\ gate' = NoGate
  /\ UNCHANGED <<closed, plan, stop, recovery, watchers, reaps, loop, fired,
                 rearms>>

(* Mutant: a clean exit of any service is left to its start, as a oneshot's. *)
ExitIgnored(e) == \E kind \in {"success", "failure"} :
  /\ e \in exits
  /\ exits' = exits \ {e}
  /\ IF e.suppressed \/ e.gen # rt.gen \/ rt.stopping
     THEN UNCHANGED <<rt, recovery>>
     ELSE IF ShouldRestart(Restart, kind) THEN MaybeRestart(rt, kind)
     ELSE /\ rt' = IF kind = "success" THEN rt ELSE Step(rt, "main-exited")
          /\ UNCHANGED recovery
  /\ UNCHANGED <<closed, plan, stop, gate, watchers, reaps, loop, fired, rearms,
                 native>>

(* applyProcessExit for an exit e of the given kind, and beginRestart.       *)
ProcessExited(e) == \E kind \in {"success", "failure"} :
  /\ e \in exits
  /\ exits' = exits \ {e}
  /\ IF e.suppressed \/ e.gen # rt.gen \/ rt.stopping
     THEN UNCHANGED <<rt, recovery>>
     ELSE IF ShouldRestart(Restart, kind) THEN MaybeRestart(rt, kind)
     ELSE /\ rt' = IF \/ rt.sub = "watchdog"
                      \/ Type = "oneshot" /\ kind = "success"
                   THEN rt ELSE Step(rt, "main-exited")
          /\ UNCHANGED recovery
  /\ UNCHANGED <<closed, plan, stop, gate, watchers, reaps, loop, fired, rearms,
                 native>>

(* watchdogLoop times out while its context is live.                         *)
WatchdogFire ==
  /\ loop # 0 /\ rt.watchdog = loop
  /\ fired' = fired \cup {loop} /\ loop' = 0
  /\ UNCHANGED <<rt, closed, plan, stop, gate, recovery, watchers, reaps, exits,
                 rearms, native>>

(* onWatchdogTimeout up to acceptWatchdogFailure.                            *)
WatchdogGate(g) ==
  /\ g \in fired /\ gate = NoGate
  /\ fired' = fired \ {g}
  /\ IF /\ g = rt.gen /\ ~rt.stopping /\ ~closed /\ rt.cleanup = {}
        /\ Allowed(rt, "watchdog-failed")
     THEN /\ rt' = SetCleanup(Step([rt EXCEPT !.terminated = TRUE, !.watchdog = 0],
                                   "watchdog-failed"), "workload", rt.proc # 0)
          /\ gate' = [NoGate EXCEPT !.by = "watchdog", !.pc = "watchdog",
                                    !.gen = g, !.proc = rt.proc]
     ELSE UNCHANGED <<rt, gate>>
  /\ UNCHANGED <<closed, plan, stop, recovery, watchers, reaps, loop, exits,
                 rearms, native>>

(* The native stop, closeNotify, applyWatchdogCleanup.                       *)
WatchdogCleanup == \E ok, closes \in BOOLEAN :
  /\ gate.pc = "watchdog" /\ (gate.proc = 0 => ok)
  /\ StopNative(gate.proc, ok)
  /\ LET n == CloseNotify(rt, closes)
         r == IF ok THEN ReleaseFailed(n) ELSE n
     IN /\ rt' = r
        /\ rearms' = IF r.cleanup = {} /\ ShouldRestart(Restart, "watchdog")
                     THEN rearms \cup {gate.gen} ELSE rearms
  /\ gate' = NoGate
  /\ UNCHANGED <<closed, plan, stop, recovery, watchers, reaps, loop, fired,
                 exits>>

(* beginRestart of the watchdog worker after it released the gate.           *)
WatchdogRestart(g) ==
  /\ g \in rearms
  /\ rearms' = rearms \ {g}
  /\ rt' = AcceptRecovery(rt, g)
  /\ recovery' = IF Recovers(rt, g) THEN "wait" ELSE recovery
  /\ UNCHANGED <<closed, plan, stop, gate, watchers, reaps, loop, fired, exits,
                 native>>

(* reapFailed.                                                               *)
ReapGate(e) ==
  /\ e \in reaps /\ gate = NoGate
  /\ reaps' = reaps \ {e}
  /\ gate' = IF ~closed /\ e.gen = rt.gen /\ e.proc = rt.proc
             THEN [NoGate EXCEPT !.by = "reap", !.pc = "reap", !.gen = e.gen,
                                 !.proc = e.proc]
             ELSE gate
  /\ UNCHANGED <<rt, closed, plan, stop, recovery, watchers, loop, fired, exits,
                 rearms, native>>

ReapCleanup == \E ok \in BOOLEAN :
  /\ gate.pc = "reap"
  /\ StopNative(gate.proc, ok)
  /\ rt' = IF ok THEN ReleaseProc(rt) ELSE rt
  /\ gate' = NoGate
  /\ UNCHANGED <<closed, plan, stop, recovery, pending>>
-----------------------------------------------------------------------------
(* What processes do by themselves.                                          *)

MainExit(p) ==
  /\ p \in main
  /\ main' = main \ {p}
  /\ UNCHANGED <<rt, closed, plan, stop, gate, recovery, pending, tree, nproc>>

(* The last descendant of an exited main process leaves the job.             *)
TreeExit(p) ==
  /\ p \in tree \ main
  /\ tree' = tree \ {p}
  /\ UNCHANGED <<rt, closed, plan, stop, gate, recovery, pending, main, nproc>>
-----------------------------------------------------------------------------
Launching ==
  \/ LaunchRefused \/ LaunchLimited \/ LaunchAccepted \/ EvictPrevious
  \/ RecordServiceLaunch \/ PrepareLaunch \/ OpenNotify \/ CreateProcess
  \/ AdoptProcess \/ LateLaunchCleanup \/ RegisterStartWait \/ OneshotFailed
  \/ OneshotExited \/ OneshotFinished \/ ReadinessFailed \/ ReadinessCleanup
  \/ Activate \/ PublishStart \/ AbandonStart

Stopping ==
  \/ AcceptStopCleanup \/ StopCleanup
  \/ \E j \in StopIds : StopDeadline(j) \/ StopGate(j)
  \/ \E s \in Workers : StopReadCapture(s) \/ StopDrain(s) \/ StopComplete(s)

Supervising ==
  \/ \E p \in watchers : WatchGate(p)
  \/ \E e \in exits : ProcessExited(e)
  \/ \E g \in fired : WatchdogGate(g)
  \/ \E g \in rearms : WatchdogRestart(g)
  \/ \E e \in reaps : ReapGate(e)
  \/ WatchCleanup \/ WatchdogFire \/ WatchdogCleanup \/ ReapCleanup
  \/ RecoveryGate

Requests ==
  \/ \E i \in Starts : \/ StartAdmit(i) \/ CancelOperation(i)
                       \/ StartRejected(i) \/ StartGate(i)
  \/ \E j \in Stops : StopAdmit(j)
  \/ Seal \/ ShutdownPass

Next == \/ Launching \/ Stopping \/ Supervising \/ Requests
        \/ \E p \in tree : MainExit(p) \/ TreeExit(p)

Spec == Init /\ [][Next]_vars

(* The holder of the gate always proceeds: native calls have timeouts, and a *)
(* launch that waits for its process goes on once the process exits, the     *)
(* wait's context ends or, for readiness, its ticker sees stopping.          *)
WaitOver == \/ gate.proc \notin main \/ CtxDone \/ gate.cancelled
            \/ gate.pc = "ready" /\ rt.stopping
GateStep ==
  \/ Launching /\ (gate.pc \in {"wait", "ready"} => WaitOver)
  \/ AcceptStopCleanup \/ StopCleanup
  \/ WatchCleanup \/ WatchdogCleanup \/ ReapCleanup

(* Every waiter of a free gate gets it, every operation has a deadline and   *)
(* journal waits time out.  Nothing is assumed of processes, of the watchdog *)
(* timer or of the deadline of a stop that waits for the gate.               *)
Fairness ==
  /\ WF_vars(GateStep)
  /\ \A i \in Starts : WF_vars(CancelOperation(i)) /\ WF_vars(StartGate(i))
                       /\ WF_vars(plan[i].cancelled /\ StartRejected(i))
  /\ \A j \in StopIds : WF_vars(StopGate(j))
  /\ \A s \in Workers :
       WF_vars(StopReadCapture(s) \/ StopDrain(s) \/ StopComplete(s))
  /\ WF_vars(ShutdownPass)

FairSpec == Spec /\ Fairness
-----------------------------------------------------------------------------
(* Properties.                                                               *)

Records ==
  [state : States, sub : Substates, gen : Nat, stopEpoch : Nat, proc : Nat,
   notify : Nat, watchdog : Nat, startCancel : BOOLEAN, restart : BOOLEAN,
   restartGen : Nat, stopping : BOOLEAN, terminated : BOOLEAN,
   cleanup : SUBSET Resources, invocation : BOOLEAN, invoked : BOOLEAN,
   capture : Nat, starts : Nat]
Plans ==
  [pc : {"idle", "gate", "run", "done"}, stopEpoch : Nat, gen : Nat,
   launched : BOOLEAN, completed : BOOLEAN, launchGen : Nat,
   cancelled : BOOLEAN, join : BOOLEAN, err : BOOLEAN]
StopWorkers ==
  [pc : {"idle", "gate", "run", "drain", "wait", "complete", "done"}, gen : Nat,
   proc : Nat, capture : Nat, waitGen : Nat, err : BOOLEAN, mark : Nat]
Gates ==
  [by : {"none", "start", "recovery", "stop", "watch", "watchdog", "reap"},
   id : Workers,
   pc : {"free", "accept", "evict", "record", "prepare", "open", "create", "adopt",
         "late", "register", "wait", "finish", "ready", "unready", "activate",
         "return", "stop", "kill", "watch", "watchdog", "reap"},
   gen : Nat, proc : Nat, flag : BOOLEAN, cancelled : BOOLEAN]

(* Every field of the record and of the workers has its type, the unit's     *)
(* state and substate form a pair the lifecycle table knows, and a process   *)
(* that runs has a job.                                                      *)
TypeOK ==
  /\ rt \in Records /\ <<rt.state, rt.sub>> \in Pairs
  /\ closed \in BOOLEAN /\ recovery \in {"none", "wait"}
  /\ plan \in [Starts -> Plans]
  /\ stop \in [Workers -> StopWorkers]
  /\ gate \in Gates
  /\ watchers \subseteq Nat /\ reaps \subseteq [gen : Nat, proc : Nat]
  /\ loop \in Nat /\ fired \subseteq Nat /\ rearms \subseteq Nat
  /\ exits \subseteq [gen : Nat, suppressed : BOOLEAN]
  /\ nproc \in Nat /\ tree \subseteq 1..nproc /\ main \subseteq tree

(* The unit never has two invocations alive: no path of launch, eviction,    *)
(* recovery, watchdog or late adoption creates a process while an earlier    *)
(* one may still have members in its job.                                    *)
OneLiveTree == \A p, q \in tree : p = q

(* No process is orphaned: one whose job may have members is the record's    *)
(* proc, where Stop, shutdown and the watchers find it, or is just being     *)
(* adopted by the launch that created it.                                    *)
LiveTreeOwned ==
  \A p \in tree : p = rt.proc \/ (gate.pc = "adopt" /\ gate.proc = p)

(* A stop that reports success, of an operation, of shutdown or of a         *)
(* cancelled start, has confirmed the termination of every process created   *)
(* before it took over the unit, whatever ran meanwhile.                     *)
StopConfirmed ==
  \A s \in Workers : stop[s].pc = "done" /\ ~stop[s].err =>
    \A p \in tree : p > stop[s].mark

(* A shutdown pass that reports success leaves no process of the unit alive, *)
(* and none can appear later: a launch inside the OS when admission closed   *)
(* is in the stop's scope.                                                   *)
ShutdownComplete == stop[Shutdown].pc = "done" /\ ~stop[Shutdown].err => tree = {}

(* The start limit: between two explicit starts no more launches are         *)
(* recorded than StartLimitBurst= allows (one, for the explicit start).      *)
StartBudgetKept == Burst > 0 => rt.starts <= Burst

(* An accepted stop, cancellation or shutdown is not undone by a late        *)
(* result: while stopping is set no step makes the unit active.              *)
NoResurrection ==
  [][rt.stopping /\ rt'.stopping /\ rt'.state = "active" => rt.state = "active"]_vars

(* Recovery is disarmed before teardown: once stopping is set no accepted    *)
(* recovery waits for the gate, and one that holds it has been cancelled or  *)
(* already owns the launch the stop waits for.                               *)
RecoveryDisarmed ==
  rt.stopping => /\ recovery = "none"
                 /\ gate.by = "recovery" /\ gate.pc = "accept" => gate.cancelled

(* No operation, watcher or recovery has anything left to do: the unit stays *)
(* as it is until a process exits or a new request arrives.                  *)
Settled ==
  /\ gate = NoGate /\ recovery = "none"
  /\ watchers \subseteq main /\ reaps = {} /\ fired = {} /\ exits = {} /\ rearms = {}
  /\ \A i \in Starts : plan[i].pc \in {"idle", "done"}
  /\ \A s \in Workers : stop[s].pc \in {"idle", "done"}
  /\ closed => stop[Shutdown].pc = "done"

NoStopFailed == \A s \in Workers : ~stop[s].err

(* A settled unit that is reported active owns a process (or is a retained   *)
(* oneshot), unless a stop failed: an exit that races a stop, a cancelled    *)
(* start, the watchdog or shutdown is always accounted for.                  *)
ActiveBacked ==
  Settled /\ NoStopFailed /\ rt.state = "active" /\ Type # "oneshot" => rt.proc # 0

(* A unit never stays deactivating, unless a stop failed: whatever overtakes *)
(* a stop while it drains the journal, someone publishes an outcome.         *)
StopPublished == Settled /\ NoStopFailed => rt.state # "deactivating"

(* A stop that waits for the gate gets it without the help of a deadline,    *)
(* also when the holder waits for a oneshot to exit or for READY=1, because  *)
(* disarming ends that wait.  Only a newer start, which clears stopping, may *)
(* go first.                                                                 *)
StopTakesGate ==
  \A j \in Stops : []<>(stop[j].pc = "gate" => ~rt.stopping)

(* Every admitted start ends, with its own cleanup when it was cancelled.    *)
StartTerminates == \A i \in Starts : []<>(plan[i].pc \in {"idle", "done"})
-----------------------------------------------------------------------------
(* The lifecycle implements the contract of a unit.                          *)
Contract == INSTANCE UnitContract WITH
  live <- tree, active <- rt.state = "active", disarmed <- rt.stopping
ContractSpec == Contract!Spec
-----------------------------------------------------------------------------
(* Statements of the repository that the code does not meet.                 *)

(* lifecycle_events.go, applyStartOutcomeLocked: "successful members survive *)
(* a rejection before launch".  A start that reports success and is neither  *)
(* cancelled nor stopped leaves the unit with its process.                   *)
SuccessSurvives ==
  /\ Settled /\ rt.state = "active" /\ Type # "oneshot"
  /\ \A s \in Workers : stop[s].pc = "idle"
  => rt.proc # 0

(* restart_test.go, TestOneshotRestartOnFailureRelaunchesAfterNonZero: a     *)
(* oneshot whose process fails is restarted when Restart= asks for it.  A    *)
(* capture is set only by a launch that created its process.                 *)
OneshotRestarts ==
  /\ Settled /\ Type = "oneshot" /\ rt.state = "failed" /\ rt.capture # 0
  /\ ~rt.stopping /\ rt.cleanup = {} /\ ~StartLimitHit(rt.starts, Burst)
  => ~ShouldRestart(Restart, "failure")

(* DESIGN.md, lifecycle states: publication of an explicit start produces    *)
(* active/running, inactive or failed.                                       *)
StartPublished ==
  Settled /\ (\E i \in Starts : plan[i].pc = "done" /\ ~plan[i].err)
          /\ ~(\E s \in Workers : stop[s].pc = "done")
  => rt.state \in {"active", "inactive", "failed"}

(* lifecycle_journal.go, publishJournalCompletion: a late stop wait cannot   *)
(* clear the capture of a replacement invocation.                            *)
LateStopWait ==
  [][\A s \in Workers : stop[s].pc = "wait" /\ stop'[s].pc = "complete"
       /\ rt.capture > stop[s].gen => rt'.capture = rt.capture]_vars
=============================================================================
