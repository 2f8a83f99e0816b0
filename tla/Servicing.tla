----------------------------- MODULE Servicing -----------------------------
(***************************************************************************)
(* Servicing: the compatibility floor and the product package.  Three      *)
(* kinds of process meet here: "winunitd floor" commands                   *)
(* (cmd/winunitd/floor.go over internal/servicing/store.go), system        *)
(* managers under the service control manager (cmd/winunitd/daemon.go) and *)
(* the package helper of one installer transaction (tools/msi-check).      *)
(*                                                                         *)
(* A floor is the set of what it requires and a build the set of what it   *)
(* offers: Floor.tla shows that Within and Evaluate behave like inclusion. *)
(* The empty set is no floor, Bad an unusable record.  The service control *)
(* manager and Windows Installer are modelled from how the code uses them. *)
(***************************************************************************)
EXTENDS Integers, Sequences, FiniteSets

CONSTANTS
  Managers,   \* 1..n: the manager processes that may be started
  Scenarios   \* what happens: see Init

VARIABLES
  scene,    \* the scenario
  record,   \* the floor record
  lock,     \* the command that holds the floor's lock, or 0
  cmd,      \* the floor commands: [pc, prev, raise, exit]
  man,      \* the managers: [st, build, hold]
  svc,      \* the service: [own, state, pid, policy]
  disk,     \* the installed build, {} for none
  tx,       \* the transaction: [pc, saved, state, pid]
  prior,    \* what the transaction found: [own, running, policy, disk]
  warned,   \* the managers a raise reported as started during the change
  promised, \* whether the record was raised and the command exited 0
  touched,  \* the registrations the helper quiesced, stopped, changed or
            \* started, each with the one it had recorded: [own, saved]
  left      \* what may still happen: [faults, starts, kills, swaps]

vars == <<scene, record, lock, cmd, man, svc, disk, tx, prior, warned, promised,
          touched, left>>

Bad == {"unusable"}
Commands == DOMAIN scene.cmds

Up(k) == man[k].st \notin {"none", "gone"}
Running(c) == cmd[c].pc \notin {"idle", "done"}
Ended == {"idle", "committed", "rolledback", "broken"}

Init ==
  /\ scene \in Scenarios
  /\ record = scene.record
  /\ lock = 0
  /\ cmd = [c \in Commands |-> [pc |-> "idle", prev |-> {}, raise |-> FALSE, exit |-> 0]]
  /\ man = [k \in Managers |->
              IF k = 1 /\ scene.running
              THEN [st |-> "admitting", build |-> scene.disk, hold |-> FALSE]
              ELSE [st |-> "none", build |-> {}, hold |-> FALSE]]
  /\ svc = [own |-> scene.own, policy |-> "chosen",
            state |-> IF scene.running THEN "running" ELSE "stopped",
            pid |-> IF scene.running THEN 1 ELSE 0]
  /\ disk = scene.disk
  /\ tx = [pc |-> "idle", saved |-> << >>, state |-> "none", pid |-> 0]
  /\ prior = [own |-> "none", running |-> FALSE, policy |-> "none", disk |-> {}]
  /\ warned = {} /\ promised = FALSE /\ touched = {}
  /\ left = scene.left

Spent(what) == left[what] > 0 /\ left' = [left EXCEPT ![what] = @ - 1]

-----------------------------------------------------------------------------
(* Managers under the service control manager *)

(* AdmissionHold and startupHold: what is sampled once, at start-up.       *)
startupHold(b) ==
  \/ record = Bad \/ ~(record \subseteq b)
  \/ scene.chain = "unsafe" \/ ~scene.safe

(* The service control manager creates the process of the installed build. *)
Launch(k) ==
  /\ k = 1 + Cardinality({j \in Managers : man[j].st # "none"})
  /\ svc.own # "none" /\ svc.state = "stopped" /\ svc.pid = 0
  /\ man' = [man EXCEPT ![k] = [st |-> "opening", build |-> disk, hold |-> FALSE]]
  /\ svc' = [svc EXCEPT !.state = "starting", !.pid = k]

(* A start that is not the package's: boot, recovery, an administrator.    *)
ScmStart(k) ==
  /\ Spent("starts")
  /\ Launch(k)
  /\ UNCHANGED <<scene, record, lock, cmd, disk, tx, prior, warned, promised, touched>>

Sample(k) ==
  /\ man[k].st = "opening"
  /\ man' = [man EXCEPT ![k].hold = startupHold(man[k].build), ![k].st = "sampled"]
  /\ UNCHANGED <<scene, record, lock, cmd, svc, disk, tx, prior, warned, promised, touched, left>>

(* Both endpoints serve: the service is ready.                             *)
Ready(k) ==
  /\ man[k].st = "sampled"
  /\ man' = [man EXCEPT ![k].st = "serving"]
  /\ svc' = [svc EXCEPT !.state = "running"]
  /\ UNCHANGED <<scene, record, lock, cmd, disk, tx, prior, warned, promised, touched, left>>

startAdmittedWork(k) ==
  /\ man[k].st = "serving"
  /\ man' = [man EXCEPT ![k].st = IF man[k].hold THEN "held" ELSE "admitting"]
  /\ UNCHANGED <<scene, record, lock, cmd, svc, disk, tx, prior, warned, promised, touched, left>>

(* The endpoints cannot be opened, or the process dies.                    *)
ManagerDies(k) ==
  /\ Up(k) /\ man[k].st # "reported"
  /\ Spent("kills")
  /\ man' = [man EXCEPT ![k].st = "gone"]
  /\ svc' = [svc EXCEPT !.state = "stopped", !.pid = 0]
  /\ UNCHANGED <<scene, record, lock, cmd, disk, tx, prior, warned, promised, touched>>

(* The stop control reaches the process.                                   *)
StopControl ==
  /\ man' = [man EXCEPT ![svc.pid].st = "stopping"]
  /\ svc' = [svc EXCEPT !.state = "stopping"]

(* finish: units and user managers are stopped, then SERVICE_STOPPED is    *)
(* reported while the process still exists.                                *)
Finish(k) ==
  /\ man[k].st = "stopping"
  /\ man' = [man EXCEPT ![k].st = "reported"]
  /\ svc' = [svc EXCEPT !.state = "stopped"]
  /\ UNCHANGED <<scene, record, lock, cmd, disk, tx, prior, warned, promised, touched, left>>

Exit(k) ==
  /\ man[k].st = "reported"
  /\ man' = [man EXCEPT ![k].st = "gone"]
  /\ UNCHANGED <<scene, record, lock, cmd, svc, disk, tx, prior, warned, promised, touched, left>>

(* The service control manager forgets the process a little later.         *)
ForgetProcess ==
  /\ svc.pid # 0 /\ man[svc.pid].st = "gone"
  /\ svc' = [svc EXCEPT !.pid = 0]
  /\ UNCHANGED <<scene, record, lock, cmd, man, disk, tx, prior, warned, promised, touched, left>>

-----------------------------------------------------------------------------
(* Floor commands *)

(* systemStopped: the service has no process, nothing serves the endpoints *)
(* and no other winunitd.exe runs, floor commands included.                *)
systemStopped(c) ==
  /\ svc.own # "none" => svc.state = "stopped" /\ svc.pid = 0
  /\ \A k \in Managers : ~Up(k)
  /\ \A d \in Commands \ {c} : ~Running(d)

Verb(c) == scene.cmds[c].verb
Wanted(c) == scene.cmds[c].floor

(* The command ends; a lock it holds is released by Close or by the        *)
(* system.                                                                 *)
End(c, code) ==
  /\ cmd' = [cmd EXCEPT ![c].pc = "done", ![c].exit = code]
  /\ lock' = IF lock = c THEN 0 ELSE lock

Goto(c, pc) == cmd' = [cmd EXCEPT ![c].pc = pc]

(* runFloor up to BeginFloorChange's lock, or the open record of a reader. *)
Begin(c) ==
  /\ cmd[c].pc = "idle"
  /\ disk # {}
  /\ IF Verb(c) = "check" THEN Goto(c, "reading") /\ UNCHANGED lock
     ELSE IF Verb(c) = "set" /\ ~(Wanted(c) \subseteq disk) THEN End(c, 1)
     ELSE IF scene.chain = "unsafe" THEN End(c, 1)
     ELSE IF scene.chain = "missing" THEN End(c, IF Verb(c) = "set" THEN 1 ELSE 0)
     ELSE Goto(c, "lock") /\ UNCHANGED lock
  /\ UNCHANGED <<scene, record, man, svc, disk, tx, prior, warned, promised, touched, left>>

(* show and check: the record is held open while it is read.               *)
ReadFloor(c) ==
  /\ cmd[c].pc = "reading"
  /\ End(c, IF record = Bad \/ ~(record \subseteq disk) \/ scene.chain = "unsafe"
            THEN 1 ELSE 0)
  /\ UNCHANGED <<scene, record, man, svc, disk, tx, prior, warned, promised, touched, left>>

(* A lock that is taken whether or not it is held.                         *)
LockShared(c) == TRUE

LockFree(c) == lock = 0

lockFloor(c) ==
  /\ cmd[c].pc = "lock"
  /\ LockFree(c)
  /\ lock' = c
  /\ Goto(c, "locked")
  /\ UNCHANGED <<scene, record, man, svc, disk, tx, prior, warned, promised, touched, left>>

(* ErrFloorBusy: the lock was held for longer than the wait.               *)
FloorBusy(c) ==
  /\ cmd[c].pc = "lock"
  /\ lock \notin {0, c}
  /\ End(c, 1)
  /\ UNCHANGED <<scene, record, man, svc, disk, tx, prior, warned, promised, touched, left>>

(* setFloor reads and classifies; an unusable record counts as no floor.   *)
Current(c) ==
  LET prev == IF record = Bad THEN {} ELSE record
      raise == ~(Wanted(c) \subseteq prev)
  IN  /\ cmd[c].pc = "locked" /\ Verb(c) = "set"
      /\ cmd' = [cmd EXCEPT ![c].prev = prev, ![c].raise = raise,
                            ![c].pc = IF raise THEN "check" ELSE "write"]
      /\ UNCHANGED <<scene, record, lock, man, svc, disk, tx, prior, warned, promised,
                     touched, left>>

CheckStopped(c) ==
  /\ cmd[c].pc = "check"
  /\ IF systemStopped(c) THEN Goto(c, "write") /\ UNCHANGED lock ELSE End(c, 1)
  /\ UNCHANGED <<scene, record, man, svc, disk, tx, prior, warned, promised, touched, left>>

BeingRead == \E d \in Commands : cmd[d].pc = "reading"

AfterWrite(c) == IF cmd[c].raise THEN "recheck" ELSE "close"

(* Write: the record is replaced at once when no reader holds it.          *)
Write(c) ==
  /\ cmd[c].pc = "write"
  /\ ~BeingRead
  /\ record' = Wanted(c)
  /\ promised' = FALSE
  /\ Goto(c, AfterWrite(c))
  /\ UNCHANGED <<scene, lock, man, svc, disk, tx, prior, warned, touched, left>>

(* The temporary file cannot be written, or a reader refuses the           *)
(* replacement for two seconds.                                            *)
WriteFails(c) ==
  /\ cmd[c].pc = "write"
  /\ End(c, 1)
  /\ IF BeingRead THEN UNCHANGED left ELSE Spent("faults")
  /\ UNCHANGED <<scene, record, man, svc, disk, tx, prior, warned, promised, touched>>

(* A manager that started during the change is reported.                   *)
Recheck(c) ==
  /\ cmd[c].pc = "recheck"
  /\ IF systemStopped(c)
     THEN Goto(c, "close") /\ UNCHANGED <<lock, warned>>
     ELSE End(c, 1) /\ warned' = warned \cup {k \in Managers : Up(k)}
  /\ UNCHANGED <<scene, record, man, svc, disk, tx, prior, promised, touched, left>>

Close(c) ==
  /\ cmd[c].pc = "close"
  /\ End(c, 0)
  /\ promised' = (promised \/ (cmd[c].raise /\ record = Wanted(c)))
  /\ UNCHANGED <<scene, record, man, svc, disk, tx, prior, warned, touched, left>>

(* floor clear *)
Remove(c) ==
  /\ cmd[c].pc = "locked" /\ Verb(c) = "clear"
  /\ IF BeingRead
     THEN End(c, 1) /\ UNCHANGED <<record, promised>>
     ELSE End(c, 0) /\ record' = {} /\ promised' = FALSE
  /\ UNCHANGED <<scene, man, svc, disk, tx, prior, warned, touched, left>>

(* The process is ended from outside; its lock goes with it.               *)
CommandKilled(c) ==
  /\ Running(c)
  /\ Spent("kills")
  /\ End(c, 2)
  /\ UNCHANGED <<scene, record, man, svc, disk, tx, prior, warned, promised, touched>>

-----------------------------------------------------------------------------
(* The package helper: service-prepare *)

Mode == scene.msi.mode
To(pc) == tx' = [tx EXCEPT !.pc = pc]
Fail == To("failed")

(* Waits give up: serviceStopBudget, or the five seconds after it.  The    *)
(* deadline passes for sure when the service has settled otherwise.        *)
TimesOut(settled) == IF svc.state = settled THEN UNCHANGED left ELSE Spent("faults")

TxBegin ==
  /\ tx.pc = "idle" /\ Mode # "none"
  /\ To("preflight")
  /\ prior' = [own |-> svc.own, running |-> svc.state = "running",
               policy |-> svc.policy, disk |-> disk]
  /\ UNCHANGED <<scene, record, lock, cmd, man, svc, disk, warned, promised, touched, left>>

(* classifyService refuses a registration that is not the package's, and   *)
(* any registration at all on a first install.                             *)
classifyService == svc.own = "none" \/ (svc.own = "ours" /\ Mode # "install")

classifyPilot == Mode = "uninstall" \/ scene.msi.pilots = 0

(* evaluatePreflight over the directories, the service and the launchers.  *)
Preflight ==
  /\ tx.pc = "preflight"
  /\ IF scene.safe /\ classifyService /\ classifyPilot THEN To("floor") ELSE Fail
  /\ UNCHANGED <<scene, record, lock, cmd, man, svc, disk, prior, warned, promised, touched, left>>

floorPreflight ==
  /\ tx.pc = "floor"
  /\ IF \/ Mode = "uninstall"
        \/ record # Bad /\ record \subseteq scene.msi.build /\ scene.chain # "unsafe"
     THEN To("open") ELSE Fail
  /\ UNCHANGED <<scene, record, lock, cmd, man, svc, disk, prior, warned, promised, touched, left>>

(* "Re-check immediately before stop".                                     *)
Reclassified(m) == svc.own = "ours" /\ m # "install"

Saved(exists, running) ==
  <<[exists |-> exists, running |-> running, policy |-> svc.policy, own |-> svc.own]>>

Touch == touched' = touched \cup {[own |-> svc.own, saved |-> tx.saved[1].own]}

(* prepareService up to the persisted state.                               *)
prepareService ==
  /\ tx.pc = "open"
  /\ IF svc.own = "none"
     THEN tx' = [tx EXCEPT !.pc = "payload", !.saved = Saved(FALSE, FALSE)]
     ELSE IF ~Reclassified(Mode) \/ svc.state \notin {"running", "stopped"} THEN Fail
     ELSE tx' = [tx EXCEPT !.pc = IF svc.state = "running" THEN "quiesce" ELSE "stop",
                           !.saved = Saved(TRUE, svc.state = "running"),
                           !.state = svc.state, !.pid = svc.pid]
  /\ UNCHANGED <<scene, record, lock, cmd, man, svc, disk, prior, warned, promised, touched, left>>

(* The state file cannot be created.                                       *)
SaveFails ==
  /\ tx.pc = "open"
  /\ Spent("faults")
  /\ Fail
  /\ UNCHANGED <<scene, record, lock, cmd, man, svc, disk, prior, warned, promised, touched>>

Serving == svc.pid # 0 /\ man[svc.pid].st \in {"serving", "admitting", "held", "quiesced"}

(* quiesceManager and the second query of the service.                     *)
quiesceManager ==
  /\ tx.pc = "quiesce"
  /\ Serving
  /\ man' = [man EXCEPT ![svc.pid].st = "quiesced"]
  /\ Touch
  /\ tx' = [tx EXCEPT !.pc = "stop", !.state = svc.state, !.pid = svc.pid]
  /\ UNCHANGED <<scene, record, lock, cmd, svc, disk, prior, warned, promised, left>>

(* No endpoint, or maintenance that did not finish: admission may be       *)
(* closed by then.                                                         *)
QuiesceFails ==
  /\ tx.pc = "quiesce"
  /\ \/ /\ Serving /\ Spent("faults")
        /\ man' \in {man, [man EXCEPT ![svc.pid].st = "quiesced"]}
        /\ Touch
     \/ ~Serving /\ UNCHANGED <<left, man, touched>>
  /\ Fail
  /\ UNCHANGED <<scene, record, lock, cmd, svc, disk, prior, warned, promised>>

(* The stop control of stopForReplacement and ensureStopped, by the state  *)
(* that was queried; next and fail are where they go.                      *)
StopQueried(next, fail) ==
  IF tx.state = "stopped" \/ svc.state = "stopped"
  THEN To(next) /\ UNCHANGED <<man, svc, touched>>
  ELSE IF svc.state = "running"
  THEN StopControl /\ To(next) /\ Touch
  ELSE To(fail) /\ UNCHANGED <<man, svc, touched>>

stopForReplacement ==
  /\ tx.pc = "stop"
  /\ StopQueried(IF tx.state = "stopped" THEN "process" ELSE "stopping", "failed")
  /\ UNCHANGED <<scene, record, lock, cmd, disk, prior, warned, promised, left>>

(* waitServiceState, waitProcessExit and the wait for the process id.      *)
Waited(pc) ==
  CASE pc = "stopping" -> svc.state = "stopped"
    [] pc = "process" -> (tx.pid # 0 => ~Up(tx.pid))
    [] pc = "clear" -> svc.state = "stopped" /\ svc.pid = 0

AfterWait == [stopping |-> "process", process |-> "clear", clear |-> "payload"]

StopWait ==
  /\ tx.pc \in DOMAIN AfterWait
  /\ \/ Waited(tx.pc) /\ To(AfterWait[tx.pc]) /\ UNCHANGED left
     \/ ~Waited(tx.pc) /\ TimesOut("running") /\ Fail
     \/ tx.pc = "clear" /\ svc.state # "stopped" /\ Fail /\ UNCHANGED left
  /\ UNCHANGED <<scene, record, lock, cmd, man, svc, disk, prior, warned, promised, touched>>

(* abortIfPayloadBusy: winunitd.exe is in use while any process of it runs.*)
abortIfPayloadBusy ==
  /\ tx.pc = "payload"
  /\ IF (\E k \in Managers : Up(k)) \/ (\E c \in Commands : Running(c))
     THEN Fail ELSE To("prepared")
  /\ UNCHANGED <<scene, record, lock, cmd, man, svc, disk, prior, warned, promised, touched, left>>

-----------------------------------------------------------------------------
(* Windows Installer between prepare and the end of the transaction *)

(* Files and registration change; a repair may reinstall no component.     *)
InstallFiles ==
  /\ tx.pc = "prepared"
  /\ \A k \in Managers : ~Up(k)
  /\ disk' = IF Mode = "uninstall" THEN {} ELSE IF scene.msi.components THEN scene.msi.build ELSE disk
  /\ svc' = IF Mode = "uninstall" THEN [svc EXCEPT !.own = "none"]
            ELSE IF scene.msi.components THEN [svc EXCEPT !.own = "ours", !.policy = "package"]
            ELSE svc
  /\ To(IF Mode # "uninstall" /\ scene.msi.components THEN "start"
        ELSE IF Mode = "repair" THEN "complete" ELSE "end")
  /\ UNCHANGED <<scene, record, lock, cmd, man, prior, warned, promised, touched, left>>

(* StartServices *)
StartServices ==
  /\ tx.pc = "start"
  /\ \E k \in Managers : Launch(k)
  /\ To("started")
  /\ UNCHANGED <<scene, record, lock, cmd, disk, prior, warned, promised, touched, left>>

ServiceStarted ==
  /\ tx.pc = "started" /\ svc.state = "running"
  /\ To(IF Mode = "repair" THEN "complete" ELSE "end")
  /\ UNCHANGED <<scene, record, lock, cmd, man, svc, disk, prior, warned, promised, touched, left>>

(* Any later step of the installer fails, a start that does not come up    *)
(* included.                                                               *)
InstallerFails ==
  /\ \/ tx.pc \in {"prepared", "start", "started", "complete", "end"} /\ Spent("faults")
     \/ tx.pc = "prepared" /\ (\E k \in Managers : Up(k)) /\ UNCHANGED left
     \/ tx.pc = "start" /\ svc.state # "stopped" /\ UNCHANGED left
     \/ tx.pc = "started" /\ svc.state = "stopped" /\ UNCHANGED left
  /\ Fail
  /\ UNCHANGED <<scene, record, lock, cmd, man, svc, disk, prior, warned, promised, touched>>

(* Windows Installer puts files and registration back before the helper's  *)
(* rollback runs; the policy may be the package's by then.                 *)
RestoreFiles ==
  /\ tx.pc = "failed"
  /\ disk' = prior.disk
  /\ IF svc.own # prior.own /\ svc.own # "other"
     THEN IF svc.pid = 0
          THEN svc' = [svc EXCEPT !.own = prior.own] /\ UNCHANGED man
          ELSE /\ svc' = [svc EXCEPT !.own = prior.own, !.pid = 0, !.state = "stopped"]
               /\ man' = [man EXCEPT ![svc.pid].st = "gone"]
     ELSE UNCHANGED <<svc, man>>
  /\ To("rollback")
  /\ UNCHANGED <<scene, record, lock, cmd, prior, warned, promised, touched, left>>

-----------------------------------------------------------------------------
(* The package helper: service-complete, service-commit, service-rollback *)

Recorded == tx.saved # << >> /\ tx.saved[1].exists

(* completeService starts a manager this transaction stopped, or waits for *)
(* one that the installer has started.  It opens the service by name.      *)
CompleteStarts ==
  /\ tx.pc = "complete"
  /\ IF ~Recorded \/ ~tx.saved[1].running \/ svc.state = "running"
     THEN To("end") /\ UNCHANGED <<man, svc, touched>>
     ELSE IF svc.state = "stopped"
     THEN (\E k \in Managers : Launch(k)) /\ Touch /\ To("completing")
     ELSE /\ To(IF svc.state = "starting" THEN "completing" ELSE "failed")
          /\ UNCHANGED <<man, svc, touched>>

completeService ==
  /\ CompleteStarts
  /\ UNCHANGED <<scene, record, lock, cmd, disk, prior, warned, promised, left>>

(* waitServiceState for a service that was started.                        *)
StartWait(next, fail) ==
  \/ svc.state = "running" /\ To(next) /\ UNCHANGED left
  \/ svc.state # "running" /\ TimesOut("stopped") /\ To(fail)

CompleteWait ==
  /\ tx.pc = "completing"
  /\ StartWait("end", "failed")
  /\ UNCHANGED <<scene, record, lock, cmd, man, svc, disk, prior, warned, promised, touched>>

(* service-commit removes the state file.                                  *)
Commit ==
  /\ tx.pc = "end"
  /\ tx' = [tx EXCEPT !.pc = "committed", !.saved = << >>]
  /\ UNCHANGED <<scene, record, lock, cmd, man, svc, disk, prior, warned, promised, touched, left>>

(* Nothing was saved, or there was no service: nothing to undo.            *)
NothingSaved ==
  /\ tx.pc = "rollback"
  /\ ~Recorded
  /\ tx' = [tx EXCEPT !.pc = "rolledback", !.saved = << >>]
  /\ UNCHANGED <<scene, record, lock, cmd, man, svc, disk, prior, warned, promised, touched, left>>

(* ensureStopped queries again.                                            *)
ensureStopped ==
  /\ tx.pc = "rollback"
  /\ Recorded
  /\ tx' = [tx EXCEPT !.state = svc.state, !.pid = svc.pid,
                      !.pc = IF svc.state = "stopped" /\ svc.pid = 0 THEN "restore" ELSE "halt"]
  /\ UNCHANGED <<scene, record, lock, cmd, man, svc, disk, prior, warned, promised, touched, left>>

RollbackStop ==
  /\ tx.pc = "halt"
  /\ StopQueried("halting", "broken")
  /\ UNCHANGED <<scene, record, lock, cmd, disk, prior, warned, promised, left>>

RollbackWait ==
  /\ tx.pc = "halting"
  /\ \/ svc.state = "stopped" /\ (svc.pid # 0 => ~Up(svc.pid)) /\ To("restore") /\ UNCHANGED left
     \/ TimesOut("running") /\ To("broken")
  /\ UNCHANGED <<scene, record, lock, cmd, man, svc, disk, prior, warned, promised, touched>>

(* restorePolicy, then the running state that was saved.  One of its calls *)
(* may fail and leave the policy as it is, or part of it changed.          *)
restorePolicy ==
  /\ tx.pc = "restore"
  /\ Touch
  /\ \/ /\ svc' = [svc EXCEPT !.policy = tx.saved[1].policy]
        /\ To(IF tx.saved[1].running THEN "restart"
              ELSE IF svc.state = "stopped" THEN "retire" ELSE "broken")
        /\ UNCHANGED left
     \/ /\ \E p \in {svc.policy, "partly"} : svc' = [svc EXCEPT !.policy = p]
        /\ To("broken") /\ Spent("faults")
  /\ UNCHANGED <<scene, record, lock, cmd, man, disk, prior, warned, promised>>

(* Start is called once; a service that already runs is not an error.      *)
RollbackStart ==
  /\ tx.pc = "restart"
  /\ IF svc.state = "stopped" THEN (\E k \in Managers : Launch(k)) /\ Touch
     ELSE UNCHANGED <<man, svc, touched>>
  /\ To("restarting")
  /\ UNCHANGED <<scene, record, lock, cmd, disk, prior, warned, promised, left>>

RollbackStarted ==
  /\ tx.pc = "restarting"
  /\ StartWait("retire", "broken")
  /\ UNCHANGED <<scene, record, lock, cmd, man, svc, disk, prior, warned, promised, touched>>

Retire ==
  /\ tx.pc = "retire"
  /\ tx' = [tx EXCEPT !.pc = "rolledback", !.saved = << >>]
  /\ UNCHANGED <<scene, record, lock, cmd, man, svc, disk, prior, warned, promised, touched, left>>

-----------------------------------------------------------------------------
(* The surroundings *)

(* The helper has the service open, so that its name cannot be registered  *)
(* again.                                                                  *)
Holding ==
  \/ tx.pc \in {"quiesce", "stop", "stopping", "process", "clear", "completing",
                "halt", "halting", "restore", "restart", "restarting"}
  \/ tx.pc = "payload" /\ Recorded

(* Someone registers a service of this name.                               *)
Reregister ==
  /\ svc.pid = 0 /\ svc.state = "stopped" /\ svc.own # "other"
  /\ ~Holding
  /\ Spent("swaps")
  /\ svc' = [svc EXCEPT !.own = "other", !.policy = "foreign"]
  /\ UNCHANGED <<scene, record, lock, cmd, man, disk, tx, prior, warned, promised, touched>>

(* The record is damaged on disk.                                          *)
Damage ==
  /\ record # Bad
  /\ Spent("swaps")
  /\ record' = Bad /\ promised' = FALSE
  /\ UNCHANGED <<scene, lock, cmd, man, svc, disk, tx, prior, warned, touched>>

ManagerSteps ==
  \/ \E k \in Managers : Sample(k) \/ Ready(k) \/ startAdmittedWork(k) \/ Finish(k) \/ Exit(k)
  \/ ForgetProcess

CommandSteps ==
  \E c \in Commands :
    \/ ReadFloor(c) \/ lockFloor(c) \/ FloorBusy(c) \/ Current(c) \/ CheckStopped(c)
    \/ Write(c) \/ WriteFails(c) \/ Recheck(c) \/ Close(c) \/ Remove(c)

TxSteps ==
  \/ Preflight \/ floorPreflight \/ prepareService \/ SaveFails \/ quiesceManager
  \/ QuiesceFails \/ stopForReplacement \/ StopWait \/ abortIfPayloadBusy \/ InstallFiles
  \/ StartServices \/ ServiceStarted \/ InstallerFails \/ RestoreFiles \/ completeService
  \/ CompleteWait \/ Commit \/ NothingSaved \/ ensureStopped \/ RollbackStop \/ RollbackWait
  \/ restorePolicy \/ RollbackStart \/ RollbackStarted \/ Retire

Progress == ManagerSteps \/ CommandSteps \/ TxSteps

Next ==
  \/ Progress
  \/ TxBegin
  \/ \E c \in Commands : Begin(c) \/ CommandKilled(c)
  \/ \E k \in Managers : ScmStart(k) \/ ManagerDies(k)
  \/ Reregister
  \/ Damage

Spec == Init /\ [][Next]_vars

(* The processes run; waits end because their deadlines do.                *)
Fairness == WF_vars(Progress)
FairSpec == Spec /\ Fairness

-----------------------------------------------------------------------------
(* Properties *)

(* A raise that reported success governs: no manager admits work with a    *)
(* build below the record, whichever way starts, the write and the two     *)
(* looks at the stopped system of setFloor fall between one another.       *)
RaiseGoverns ==
  promised => \A k \in Managers :
                man[k].st = "admitting" => record \subseteq man[k].build

(* The lock keeps the classification true: a floor that setFloor writes    *)
(* without a stopped manager asks for nothing the record it replaces did   *)
(* not ask for.                                                            *)
LowersOnly ==
  [][\A c \in Commands :
       cmd[c].pc = "write" /\ cmd'[c].pc = "close" /\ ~cmd[c].raise =>
         record' \subseteq record]_vars

(* Nobody but the transaction started, stopped or replaced anything.       *)
Undisturbed == left.starts = scene.left.starts /\ left.kills = scene.left.kills
               /\ left.swaps = scene.left.swaps

(* A transaction that is rolled back leaves what it found: the build, the  *)
(* policy, and a manager that runs, not quiesced, exactly if one ran,      *)
(* wherever prepare or the installer failed.                               *)
RollbackRestores ==
  [][tx'.pc = "rolledback" /\ tx.pc # "rolledback" /\ Undisturbed /\ prior.own = "ours" =>
       /\ svc'.own = "ours" /\ svc'.policy = prior.policy
       /\ disk' = prior.disk
       /\ (svc'.state = "running") = prior.running
       /\ prior.running => man'[svc'.pid].st \in {"serving", "admitting", "held"}]_vars

(* Maintenance that succeeds leaves a manager running that ran before it,  *)
(* also when no component was reinstalled.                                 *)
MaintenanceRestores ==
  [][tx'.pc = "committed" /\ tx.pc # "committed" /\ Undisturbed /\ Mode = "repair"
     /\ prior.running => svc'.state = "running"]_vars

(* A service of the same name that is not the package's is never quiesced, *)
(* stopped, reconfigured or started by the helper, even one that appears   *)
(* after the preflight looked, with one exception: complete and rollback   *)
(* open the service by its name, and one that took the name after prepare  *)
(* had recorded the package's own is taken for it (prepareService,         *)
(* completeService, rollbackService).                                      *)
ForeignUntouched == \A t \in touched : t.own = "other" => t.saved = "ours"

(* Without the exception, as INSTALLATION.md has it: an unrelated service  *)
(* of the same name is left unchanged.                                     *)
ForeignLeftUnchanged == \A t \in touched : t.own # "other"

(* Floor commands return and transactions end.                             *)
CommandsEnd ==
  /\ \A c \in 1..3 : []<>(c \in Commands => ~Running(c))
  /\ []<>(tx.pc \in Ended)
=============================================================================
