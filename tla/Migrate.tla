------------------------------ MODULE Migrate ------------------------------
(***************************************************************************)
(* The operator's migration command (tools/migrate): it backs up a Task    *)
(* Scheduler pilot, hands its units over to the product service and, when  *)
(* a phase fails or the operator asks, restores what the backup holds.     *)
(*                                                                         *)
(* A command is a sequence of file writes, and the process running it can  *)
(* be killed between two of them or inside one (os.WriteFile truncates the *)
(* file first, so a torn file is left).  A write can also fail, and the    *)
(* pilot's files can be edited at any moment: its manager is still running *)
(* when backup and apply start.                                            *)
(*                                                                         *)
(* Every tree holds one file per kind; a content is a version, a torn      *)
(* file, a link (reparse point) or the control-owner marker.  discover,    *)
(* dry-run and health write nothing and are not actions; what they compute *)
(* is Blocked and Healthy.                                                 *)
(***************************************************************************)
EXTENDS Integers

CONSTANTS
  Users,      \* 1..n, the accounts of the fixture
  Scenarios   \* the fixtures and the operator's options and bounds

PilotKinds == {"unit", "enable", "linger", "journal"}
DestKinds == {"unit", "enable", "linger", "owner", "other"}

VARIABLES
  scene,   \* the scenario
  fx,      \* fixture.json: service, launchers, tasks and processes
  fxTorn,  \* fixture.json was left truncated
  pilot,   \* the pilot trees
  dest,    \* the destination trees
  real,    \* the winunitd service of the machine: "none", "stopped", "running"
  started, \* ghost: the handoff started that service and nothing stopped it
  bk,      \* the backup directory
  cmd,     \* the running command
  origin,  \* ghost: the destination trees as they were before the handoff
  left     \* what is left of the scenario's bounds

vars == <<scene, fx, fxTorn, pilot, dest, real, started, bk, cmd, origin, left>>
disk == <<fx, fxTorn, pilot, dest, real, started, bk, origin>>

-----------------------------------------------------------------------------
(* The fixture and the classification of a plan.                           *)

serviceManaged(s) == s.exists /\ s.local /\ s.product /\ s.standard

\* The service record a handoff writes.
Installed == [exists |-> TRUE, local |-> TRUE, product |-> TRUE,
              standard |-> TRUE, running |-> TRUE]

classifyService(s) == s.exists /\ ~(s.local /\ s.product /\ s.standard)

Files(tree, u, kinds) == {k \in kinds : tree[u][k] # "none"}

walkFails(tree, u, kinds) == \E k \in kinds : tree[u][k] = "link"

userHasWork(u) ==
  scene.tasks[u] # {} \/ scene.process[u] \/ Files(pilot, u, PilotKinds) # {}

\* destStateExact: a link is an error of its own, but both end in a conflict.
Collides(u, kind, body) == dest[u][kind] \notin {"none", body}

Copied(o) == {"unit", "enable"} \union (IF o.linger THEN {"linger"} ELSE {})

classifyTree(u, o) ==
  \/ walkFails(pilot, u, PilotKinds)
  \/ \E k \in Copied(o) : pilot[u][k] # "none" /\ Collides(u, k, pilot[u][k])
  \/ Collides(u, "owner", "marker")

Launchers == {"pilot", "extra"}

classifyUser(u, o) ==
  \/ fx.enabled[u] \intersect Launchers = Launchers
  \/ classifyTree(u, o)

\* appendMachineActions: an installation needs the caller's package.
msiRequired(o) == ~fx.svc.exists /\ ~o.msi

\* Something plan reports as a conflict: apply refuses to start.
Blocked(o) ==
  \/ fx.reparse \/ fx.unsafe \/ fx.beta \/ fx.launcher
  \/ classifyService(fx.svc)
  \/ \E u \in Users :
       /\ scene.tasks[u] = {} /\ ~scene.process[u]
       /\ walkFails(pilot, u, PilotKinds)
  \/ o.user /\ \E u \in Users : classifyUser(u, o)
  \/ ~o.user /\ \E u \in Users : userHasWork(u)
  \/ msiRequired(o)

-----------------------------------------------------------------------------
\* A backup directory without a file: its fixture means nothing until saved.
NoBackup == [saved |-> FALSE, fx |-> scene.fx, sums |-> [u \in Users |-> [k \in PilotKinds |-> "none"]],
             files |-> [u \in Users |-> [k \in PilotKinds |-> "none"]],
             manifest |-> "none", before |-> "none", keep |-> {}, marker |-> FALSE]

Idle == [pc |-> "idle", verb |-> "none", opt |-> [user |-> TRUE], mem |-> scene.fx,
         todo |-> {}, end |-> "none"]

\* The fixtures of `migrate init` and the ones an operator edits from them.
Init ==
  /\ scene \in Scenarios
  /\ fx = scene.fx /\ fxTorn = FALSE
  /\ pilot = scene.pilot /\ dest = scene.dest
  /\ real = scene.real /\ started = FALSE
  /\ bk = NoBackup
  /\ cmd = Idle
  /\ origin = scene.dest
  /\ left = [commands |-> scene.commands, crashes |-> scene.crashes,
             faults |-> scene.faults, edits |-> scene.edits]

End(how) == [cmd EXCEPT !.pc = "idle", !.end = how, !.todo = {}, !.mem = scene.fx]
At(pc) == cmd.pc = pc
Goto(pc) == cmd' = [cmd EXCEPT !.pc = pc]
Failing == left.faults > 0 /\ left' = [left EXCEPT !.faults = @ - 1]

\* The next file of a walk; nothing depends on the order of walkFiles.
Pick == CHOOSE i \in cmd.todo : TRUE
Rest == cmd.todo \ {Pick}
Walk(tree, kinds) == {<<u, k>> \in Users \X kinds : tree[u][k] # "none"}

\* A phase of mutate failed: apply rolls back.
Fails == cmd' = [cmd EXCEPT !.pc = "undo", !.todo = {}]

\* The end of a phase: -fail-after injects a failure there.
Phase(name, next) == IF cmd.opt.fail = name THEN Fails ELSE Goto(next)

-----------------------------------------------------------------------------
(* backup                                                                  *)

Start(verb, o) ==
  /\ At("idle") /\ left.commands > 0
  /\ left' = [left EXCEPT !.commands = @ - 1]
  /\ cmd' = [Idle EXCEPT !.verb = verb, !.opt = o,
                         !.pc = IF verb = "rollback" THEN "undo" ELSE verb]
  /\ UNCHANGED <<disk, scene>>

\* emptyDir, loadFixture, and the fixture written first.
BackupFixture ==
  /\ At("backup")
  /\ IF bk.saved \/ fxTorn
     THEN cmd' = End("refused") /\ UNCHANGED bk
     ELSE /\ bk' = [bk EXCEPT !.saved = TRUE, !.fx = fx]
          /\ cmd' = IF \E u \in Users : walkFails(pilot, u, PilotKinds)
                    THEN End("failed")
                    ELSE [cmd EXCEPT !.pc = "hash", !.todo = Walk(pilot, PilotKinds)]
  /\ UNCHANGED <<scene, fx, fxTorn, pilot, dest, real, started, origin, left>>

\* A file is hashed, then read again and copied.
BackupHash ==
  /\ At("hash") /\ cmd.todo # {}
  /\ bk' = [bk EXCEPT !.sums[Pick[1]][Pick[2]] = pilot[Pick[1]][Pick[2]]]
  /\ Goto("archive")
  /\ UNCHANGED <<scene, fx, fxTorn, pilot, dest, real, started, origin, left>>

BackupCopy ==
  /\ At("archive")
  /\ \/ /\ bk' = [bk EXCEPT !.files[Pick[1]][Pick[2]] = pilot[Pick[1]][Pick[2]]]
        /\ cmd' = [cmd EXCEPT !.pc = "hash", !.todo = Rest]
        /\ UNCHANGED left
     \/ Failing /\ cmd' = End("failed") /\ UNCHANGED bk
  /\ UNCHANGED <<scene, fx, fxTorn, pilot, dest, real, started, origin>>

\* The manifest is written last: without it apply does not accept the backup.
BackupManifest ==
  /\ At("hash") /\ cmd.todo = {}
  /\ \/ /\ bk' = [bk EXCEPT !.manifest = "written"]
        /\ cmd' = End("done")
        /\ UNCHANGED left
     \/ Failing /\ cmd' = End("failed") /\ bk' = [bk EXCEPT !.manifest = "torn"]
  /\ UNCHANGED <<scene, fx, fxTorn, pilot, dest, real, started, origin>>

-----------------------------------------------------------------------------
(* apply: checks, then the snapshot of the destination, then the phases    *)

backupMatches ==
  /\ bk.manifest = "written"
  /\ fx = bk.fx
  /\ pilot = bk.sums

ApplyCheck ==
  /\ At("apply")
  /\ cmd' = IF fxTorn \/ ~backupMatches THEN End("refused")
            ELSE IF Blocked(cmd.opt) THEN End("blocked")
            ELSE [cmd EXCEPT !.pc = "before", !.mem = fx]
  /\ UNCHANGED <<disk, scene, left>>

\* writeDestBefore: its failure is reported without a rollback.
writeDestBefore ==
  /\ At("before")
  /\ \/ /\ \E u \in Users : walkFails(dest, u, DestKinds)
        /\ cmd' = End("refused")
        /\ UNCHANGED <<bk, left>>
     \/ /\ \A u \in Users : ~walkFails(dest, u, DestKinds)
        /\ bk' = [bk EXCEPT !.before = "written", !.keep = Walk(dest, DestKinds)]
        /\ Goto("disable")
        /\ UNCHANGED left
     \/ /\ Failing
        /\ bk' = [bk EXCEPT !.before = "torn", !.keep = {}]
        /\ cmd' = End("failed")
  /\ UNCHANGED <<scene, fx, fxTorn, pilot, dest, real, started, origin>>

\* saveFixture of the fixture held in memory.
Save(mem, phase, next) ==
  \/ /\ fx' = mem /\ fxTorn' = FALSE
     /\ IF cmd.opt.fail = phase THEN Fails
        ELSE cmd' = [cmd EXCEPT !.pc = next, !.mem = mem]
     /\ UNCHANGED left
  \/ Failing /\ Fails /\ fxTorn' \in {fxTorn, TRUE} /\ UNCHANGED fx

phaseDisable ==
  /\ At("disable")
  /\ Save([cmd.mem EXCEPT !.enabled = [u \in Users |-> {}]], "disable", "stop")
  /\ UNCHANGED <<scene, pilot, dest, real, started, bk, origin>>

phaseStop ==
  /\ At("stop")
  /\ Save([cmd.mem EXCEPT !.running = {}], "stop", "list")
  /\ UNCHANGED <<scene, pilot, dest, real, started, bk, origin>>

CopyList ==
  /\ At("list")
  /\ cmd' = [cmd EXCEPT !.pc = "copy", !.todo = Walk(pilot, Copied(cmd.opt))]
  /\ UNCHANGED <<disk, scene, left>>

\* writeNew: an existing file is kept when it is equal and refused otherwise.
writeNew(u, k, body) ==
  \/ /\ dest[u][k] = "none"
     /\ dest' = [dest EXCEPT ![u][k] = body]
     /\ cmd' = [cmd EXCEPT !.todo = Rest] /\ UNCHANGED left
  \/ /\ dest[u][k] = body
     /\ cmd' = [cmd EXCEPT !.todo = Rest] /\ UNCHANGED <<dest, left>>
  \/ /\ dest[u][k] \notin {"none", body}
     /\ Fails /\ UNCHANGED <<dest, left>>
  \/ /\ Failing /\ Fails
     /\ \/ UNCHANGED dest
        \/ dest[u][k] = "none" /\ dest' = [dest EXCEPT ![u][k] = "torn"]

phaseCopy ==
  /\ At("copy") /\ cmd.todo # {}
  /\ writeNew(Pick[1], Pick[2], pilot[Pick[1]][Pick[2]])
  /\ UNCHANGED <<scene, fx, fxTorn, pilot, real, started, bk, origin>>

CopyEnd ==
  /\ At("copy") /\ cmd.todo = {}
  /\ Phase("copy", "install")
  /\ UNCHANGED <<disk, scene, left>>

-----------------------------------------------------------------------------
(* install, health                                                         *)

Owners == {<<u, "owner">> : u \in Users}

\* sc start of a managed service that is not running.
startInstalledService ==
  IF cmd.opt.exec /\ ~cmd.mem.svc.running
  THEN real' = "running" /\ started' = (started \/ real # "running")
  ELSE UNCHANGED <<real, started>>

\* phaseInstall up to the markers: msiexec or sc start, when they were asked for.
phaseInstall ==
  /\ At("install")
  /\ \/ /\ ~cmd.mem.svc.exists /\ cmd.opt.exec
        /\ real' = "running" /\ started' = TRUE
        /\ Goto("mark")
        /\ UNCHANGED left
     \/ /\ cmd.mem.svc.exists \/ ~cmd.opt.exec
        /\ startInstalledService
        /\ cmd' = [cmd EXCEPT !.pc = "owner", !.todo = Owners, !.mem.svc = Installed]
        /\ UNCHANGED left
     \/ /\ ~cmd.mem.svc.exists \/ (cmd.opt.exec /\ ~cmd.mem.svc.running)
        /\ Failing /\ Fails
        /\ UNCHANGED <<real, started>>
  /\ UNCHANGED <<scene, fx, fxTorn, pilot, dest, bk, origin>>

\* The record that msiexec ran, written after it.
InstallMark ==
  /\ At("mark")
  /\ \/ /\ bk' = [bk EXCEPT !.marker = TRUE]
        /\ cmd' = [cmd EXCEPT !.pc = "owner", !.todo = Owners, !.mem.svc = Installed]
        /\ UNCHANGED left
     \/ Failing /\ Fails /\ UNCHANGED bk
  /\ UNCHANGED <<scene, fx, fxTorn, pilot, dest, real, started, origin>>

InstallOwner ==
  /\ At("owner") /\ cmd.todo # {}
  /\ writeNew(Pick[1], "owner", "marker")
  /\ UNCHANGED <<scene, fx, fxTorn, pilot, real, started, bk, origin>>

InstallSave ==
  /\ At("owner") /\ cmd.todo = {}
  /\ Save(cmd.mem, "install", "health")
  /\ UNCHANGED <<scene, pilot, dest, real, started, bk, origin>>

healthTree(u, linger) ==
  /\ ~walkFails(pilot, u, {"unit", "enable", "linger"})
  /\ \A k \in {"unit", "enable"} : pilot[u][k] # "none" => dest[u][k] = pilot[u][k]
  /\ pilot[u]["linger"] # "none" =>
       dest[u]["linger"] = IF linger THEN pilot[u]["linger"] ELSE "none"

\* The service of the machine is asked only when msiexec installed it.
productServiceMatches == bk.marker => real = "running"

\* evaluateHealth: what apply demands of itself and `migrate health` reports.
evaluateHealth(f, o) ==
  /\ serviceManaged(f.svc) /\ f.svc.running
  /\ productServiceMatches
  /\ \A u \in Users : f.enabled[u] = {}
  /\ f.running = {} /\ ~f.launcher
  /\ \A u \in Users : healthTree(u, o.linger) /\ dest[u]["owner"] = "marker"

ApplyHealth ==
  /\ At("health")
  /\ IF evaluateHealth(cmd.mem, cmd.opt) /\ cmd.opt.fail # "health"
     THEN cmd' = End("applied")
     ELSE Fails
  /\ UNCHANGED <<disk, scene, left>>

-----------------------------------------------------------------------------
(* rollback: the command, and the end of an apply that failed              *)

Restored == IF cmd.verb = "apply" THEN "undone" ELSE "restored"

\* sc stop, when the backup records that msiexec ran.
stopInstalledService ==
  IF bk.marker
  THEN real' = (IF real = "running" THEN "stopped" ELSE real) /\ started' = FALSE
  ELSE UNCHANGED <<real, started>>

\* The service first, then everything the rollback needs is read.
RollbackBegins ==
  /\ At("undo")
  /\ \/ /\ cmd' = IF \/ ~bk.saved \/ bk.before # "written"
                     \/ \E u \in Users : walkFails(dest, u, DestKinds)
                  THEN End("stuck")
                  ELSE [cmd EXCEPT !.pc = "remove", !.mem = bk.fx,
                                   !.todo = Walk(dest, DestKinds) \ bk.keep]
        /\ stopInstalledService
        /\ UNCHANGED left
     \/ /\ bk.marker /\ Failing
        /\ cmd' = End("stuck") /\ UNCHANGED <<real, started>>
  /\ UNCHANGED <<scene, fx, fxTorn, pilot, dest, bk, origin>>

removeAdded ==
  /\ At("remove") /\ cmd.todo # {}
  /\ \/ /\ dest' = [dest EXCEPT ![Pick[1]][Pick[2]] = "none"]
        /\ cmd' = [cmd EXCEPT !.todo = Rest] /\ UNCHANGED left
     \/ Failing /\ cmd' = End("stuck") /\ UNCHANGED dest
  /\ UNCHANGED <<scene, fx, fxTorn, pilot, real, started, bk, origin>>

\* Mutant: the fixture is restored before the added files are gone.
RestoreEarly ==
  /\ At("remove")
  /\ fx' = cmd.mem /\ fxTorn' = FALSE /\ cmd' = End(Restored)
  /\ UNCHANGED <<scene, pilot, dest, real, started, bk, origin, left>>

\* The fixture is restored last, from the bytes the backup holds.
RestoreFixture ==
  /\ At("remove") /\ cmd.todo = {}
  /\ \/ fx' = cmd.mem /\ fxTorn' = FALSE /\ cmd' = End(Restored) /\ UNCHANGED left
     \/ /\ Failing /\ cmd' = End("stuck")
        /\ fxTorn' \in {fxTorn, TRUE} /\ UNCHANGED fx
  /\ UNCHANGED <<scene, pilot, dest, real, started, bk, origin>>

-----------------------------------------------------------------------------
(* The environment                                                         *)

\* What a killed command leaves of the write it was in.
Torn ==
  \/ At("before") /\ bk' = [bk EXCEPT !.before = "torn", !.keep = {}]
       /\ UNCHANGED <<fxTorn, dest>>
  \/ cmd.pc \in {"disable", "stop"} /\ fxTorn' = TRUE /\ UNCHANGED <<bk, dest>>
  \/ cmd.pc \in {"owner", "remove"} /\ cmd.todo = {} /\ fxTorn' = TRUE /\ UNCHANGED <<bk, dest>>
  \/ /\ cmd.pc \in {"copy", "owner"} /\ cmd.todo # {}
     /\ dest[Pick[1]][Pick[2]] = "none"
     /\ dest' = [dest EXCEPT ![Pick[1]][Pick[2]] = "torn"]
     /\ UNCHANGED <<bk, fxTorn>>
  \/ At("hash") /\ cmd.todo = {} /\ bk' = [bk EXCEPT !.manifest = "torn"]
       /\ UNCHANGED <<fxTorn, dest>>
  \/ UNCHANGED <<bk, fxTorn, dest>>

Kill ==
  /\ ~At("idle") /\ left.crashes > 0
  /\ left' = [left EXCEPT !.crashes = @ - 1]
  /\ Torn
  /\ cmd' = End("killed")
  /\ UNCHANGED <<scene, fx, pilot, real, started, origin>>

\* The pilot or its owner changes a file of the pilot tree.
Edit ==
  /\ left.edits > 0
  /\ left' = [left EXCEPT !.edits = @ - 1]
  /\ \E u \in Users, k \in {"unit", "journal"} :
       /\ pilot[u][k] = "v1"
       /\ pilot' = [pilot EXCEPT ![u][k] = "v2"]
  /\ UNCHANGED <<scene, fx, fxTorn, dest, real, started, bk, cmd, origin>>

\* The new manager writes into the tree it was given (between two commands).
NewFile ==
  /\ At("idle") /\ left.edits > 0
  /\ left' = [left EXCEPT !.edits = @ - 1]
  /\ \E u \in Users :
       /\ fx.svc.running /\ origin[u]["owner"] = "none"
       /\ dest[u]["owner"] = "marker" /\ dest[u]["other"] = "none"
       /\ dest' = [dest EXCEPT ![u]["other"] = "v1"]
  /\ UNCHANGED <<scene, fx, fxTorn, pilot, real, started, bk, cmd, origin>>

Next ==
  \/ Start("backup", Idle.opt)
  \/ \E o \in scene.opts : Start("apply", o)
  \/ Start("rollback", Idle.opt)
  \/ BackupFixture \/ BackupHash \/ BackupCopy \/ BackupManifest
  \/ ApplyCheck \/ writeDestBefore \/ phaseDisable \/ phaseStop
  \/ CopyList \/ phaseCopy \/ CopyEnd
  \/ phaseInstall \/ InstallMark \/ InstallOwner \/ InstallSave \/ ApplyHealth
  \/ RollbackBegins \/ removeAdded \/ RestoreFixture
  \/ Kill \/ Edit \/ NewFile

Spec == Init /\ [][Next]_vars

-----------------------------------------------------------------------------
(* Properties                                                              *)

\* What a handoff makes of a fixture.
HandedOver(f) ==
  [f EXCEPT !.enabled = [u \in Users |-> {}], !.running = {}, !.svc = Installed]

\* A handoff leaves a mark in fixture.json, so that a second apply with the
\* same backup is refused.  Without that mark the snapshot of the destination
\* is taken again, over the files of the first one.
Marked == HandedOver(scene.fx) # scene.fx

Handed == fxTorn \/ fx # scene.fx \/ dest # origin

\* Whatever a killed or failing command leaves, as long as anything differs
\* from the pilot's state the backup is complete and holds that state: the
\* fixture, the archived files and the list of the files that were there.
\* `migrate rollback` can therefore always be run (again).
MutationBacked ==
  Handed /\ Marked =>
    /\ bk.manifest = "written" /\ bk.fx = scene.fx
    /\ bk.before = "written" /\ bk.keep = Walk(origin, DestKinds)

\* A rollback that reports success, and an apply that failed and rolled back,
\* leave the fixture and the destination trees exactly as before the handoff.
RollbackRestores ==
  cmd.end \in {"restored", "undone"} /\ Marked => ~Handed

\* A file that was in a destination tree before the handoff is never
\* overwritten or removed, even when the pilot's file is edited between the
\* plan and the copy.
NeverOverwritten ==
  \A u \in Users, k \in DestKinds :
    origin[u][k] # "none" => dest[u][k] = origin[u][k]

\* An unmanaged, custom or non-LocalSystem service, the beta product, an unsafe
\* data directory, a machine launcher or a second launcher of one user keeps
\* every command from changing the fixture, the trees and the service.
ConflictsRefused ==
  (\/ scene.fx.reparse \/ scene.fx.unsafe \/ scene.fx.beta \/ scene.fx.launcher
   \/ scene.fx.svc.exists /\ ~serviceManaged(scene.fx.svc)
   \/ \E u \in Users : {"pilot", "extra"} \subseteq scene.fx.enabled[u])
  => ~Handed /\ real = scene.real

\* When apply reports success the pilot's launchers are off, the recorded
\* service is the product's, every archived unit and enable record has a whole
\* copy, and no linger record was copied unless the operator asked for it.
AppliedComplete ==
  cmd.end = "applied" /\ ~fxTorn /\ fx # scene.fx =>
    /\ fx = HandedOver(scene.fx)
    /\ \A u \in Users :
         /\ \A k \in Copied(cmd.opt) : bk.files[u][k] # "none" => dest[u][k] \in {"v1", "v2"}
         /\ ~cmd.opt.linger => dest[u]["linger"] = origin[u]["linger"]
         /\ dest[u]["owner"] = "marker"

\* README: a rollback stops the service the handoff started.  Violated: only
\* msiexec leaves the record rollback looks at, `sc start` does not, and the
\* record is written after msiexec.
RollbackStopsService ==
  cmd.end \in {"restored", "undone"} => ~started
=============================================================================
