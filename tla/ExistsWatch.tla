------------------------------ MODULE ExistsWatch ------------------------------
(***************************************************************************)
(* A PathExists= watch from the file system to the activation:             *)
(* pathwatch/exists_windows.go follows a path whose components appear and  *)
(* disappear with one directory watch at a time, and manager/pathwatch.go  *)
(* arms it, reads the predicate on each signal and activates the companion *)
(* on a rising edge.                                                       *)
(*                                                                         *)
(* The path has Depth components; fs of them exist.  The directory watch   *)
(* at level k sits in the k-th component and reports the creation and      *)
(* removal of component k + 1 (NativeWatch is that watch).  A subtree may  *)
(* appear at once; components are removed one at a time.  Renaming a       *)
(* watched ancestor is left out.                                           *)
(***************************************************************************)
EXTENDS Integers

CONSTANTS
    Scenarios       \* [depth, fs, armed, creates, deletes, faults, closes]

VARIABLES
    scene,      \* the scenario of this behaviour
    left,       \* creates, deletes, faults and closes left
    fs,         \* existing components of the path
    inner,      \* the directory watch in use: [level, alive, sig], level -1: none
    pending,    \* replaced or late watches whose close has not succeeded
    open,       \* native watches open (ghost)
    ew,         \* the loop: [pc, to], to the level a re-arm resolved
    closed,     \* existsWatch.closed
    opMu,       \* holder of opMu
    ch,         \* C(): [full, closed]
    arm,        \* armPath: its place; "active" once the start is published
    hub,        \* the consumer: [pc, sat, seen]
    close,      \* the caller of Close: "idle", "want", "held", "ok"
    served,     \* the companion was activated since the target appeared (ghost)
    owed,       \* a creation that must be noticed (ghost)
    blind       \* changes may have gone unseen since the last observation made
                \* with the watch beside the target (ghost)

vars == <<scene, left, fs, inner, pending, open, ew, closed, opMu, ch, arm, hub,
          close, served, owed, blind>>

Depth == scene.depth
Exists == fs = Depth
NoWatch == [level |-> -1, alive |-> FALSE, sig |-> FALSE]
At(k) == [level |-> k, alive |-> TRUE, sig |-> FALSE]

(* isTargetLeafWatch *)
Leaf(k) == k = Depth - 1

Beside(w) == Leaf(w.level) /\ w.alive

(* An armed scenario starts with the watch in place and the unit active. *)
Init ==
    /\ scene \in Scenarios
    /\ left = [creates |-> scene.creates, deletes |-> scene.deletes,
               faults |-> scene.faults, closes |-> scene.closes]
    /\ fs = scene.fs
    /\ inner = IF scene.armed THEN At(IF Exists THEN Depth - 1 ELSE fs) ELSE NoWatch
    /\ pending = 0
    /\ open = IF scene.armed THEN 1 ELSE 0
    /\ ew = [pc |-> IF scene.armed THEN "wait" ELSE "none", to |-> 0]
    /\ closed = FALSE /\ opMu = "free"
    /\ ch = [full |-> FALSE, closed |-> FALSE]
    /\ arm = IF scene.armed THEN "active" ELSE "resolve"
    /\ hub = [pc |-> "idle", sat |-> scene.armed /\ Exists, seen |-> FALSE]
    /\ close = "idle"
    /\ served = (scene.armed /\ Exists) /\ owed = FALSE
    /\ blind = ~Beside(inner)

Faulted == [left EXCEPT !.faults = @ - 1]

-----------------------------------------------------------------------------
(* The file system. *)

(* The watch sits beside the target and everything before is handled: no   *)
(* signal is on its way and none was lost since the last observation. *)
Quiet ==
    /\ arm = "active" /\ Beside(inner) /\ ~inner.sig /\ ~blind
    /\ ew.pc = "wait" /\ ~ch.full /\ hub.pc = "idle" /\ ~closed

(* A change of component k + 1 signals the watch at level k. *)
Signalling(k) == IF inner.level = k /\ inner.alive THEN [inner EXCEPT !.sig = TRUE]
                 ELSE inner

Create ==
    /\ left.creates > 0 /\ ~Exists
    /\ left' = [left EXCEPT !.creates = @ - 1]
    /\ \E d \in fs + 1 .. Depth :
          /\ fs' = d
          /\ served' = (served /\ d # Depth)
          /\ owed' = (owed \/ (d = Depth /\ Quiet))
    /\ inner' = Signalling(fs)
    /\ UNCHANGED <<scene, pending, open, ew, closed, opMu, ch, arm, hub, close, blind>>

(* Removing the directory a watch sits in ends the watch. *)
Delete ==
    /\ left.deletes > 0 /\ fs > 0
    /\ left' = [left EXCEPT !.deletes = @ - 1]
    /\ fs' = fs - 1
    /\ inner' = IF inner.level = fs THEN [inner EXCEPT !.alive = FALSE]
                ELSE Signalling(fs - 1)
    /\ owed' = FALSE
    /\ blind' = (blind \/ inner.level = fs)
    /\ UNCHANGED <<scene, pending, open, ew, closed, opMu, ch, arm, hub, close, served>>

-----------------------------------------------------------------------------
(* The loop of the watch. *)

Leaves == ew' = [ew EXCEPT !.pc = "out"] /\ ch' = [ch EXCEPT !.closed = TRUE]
Signalled == [ch EXCEPT !.full = ~closed \/ @]

(* A wake-up beside the target is passed on without a look; further up the *)
(* target is looked for, in case a whole subtree appeared. *)
PassesOn == Leaf(inner.level)

Woken ==
    /\ ew.pc = "wait" /\ inner.sig
    /\ inner' = [inner EXCEPT !.sig = FALSE]
    /\ IF closed THEN Leaves
       ELSE /\ ew' = [ew EXCEPT !.pc = IF PassesOn THEN "closer" ELSE "stat"]
            /\ ch' = IF PassesOn THEN Signalled ELSE ch
    /\ UNCHANGED <<scene, left, fs, pending, open, closed, opMu, arm, hub, close,
                   served, owed, blind>>

Stat ==
    /\ ew.pc = "stat"
    /\ ew' = [ew EXCEPT !.pc = "closer"]
    /\ ch' = IF Exists THEN Signalled ELSE ch
    /\ UNCHANGED <<scene, left, fs, inner, pending, open, closed, opMu, arm, hub, close,
                   served, owed, blind>>

(* The directory watch ended: resolve the path again. *)
InnerEnds ==
    /\ ew.pc = "wait" /\ inner.level >= 0 /\ ~inner.alive /\ ~inner.sig
    /\ IF closed THEN Leaves ELSE ew' = [ew EXCEPT !.pc = "rearm"] /\ UNCHANGED ch
    /\ blind' = TRUE
    /\ UNCHANGED <<scene, left, fs, inner, pending, open, closed, opMu, arm, hub, close,
                   served, owed>>

(* rearm and rearmCloser under opMu: nothing is opened once the watch is   *)
(* closed or an old watch could not be closed. *)
RearmBegins ==
    /\ ew.pc \in {"closer", "rearm"} /\ opMu = "free"
    /\ IF closed \/ pending > 0 THEN Leaves /\ UNCHANGED opMu
       ELSE /\ UNCHANGED ch
            /\ IF ew.pc = "closer" /\ Leaf(inner.level)
               THEN ew' = [ew EXCEPT !.pc = "wait"] /\ UNCHANGED opMu
               ELSE /\ opMu' = "loop"
                    /\ ew' = IF ew.pc = "closer" THEN [pc |-> "step", to |-> inner.level + 1]
                             ELSE [pc |-> "reopen", to |-> IF Exists THEN Depth - 1 ELSE fs]
    /\ UNCHANGED <<scene, left, fs, inner, pending, open, closed, arm, hub, close,
                   served, owed, blind>>

(* replaceInner: a watch opened while Close waits stays owned; so does an  *)
(* old watch whose close fails, which ends the loop. *)
Kept == pending + 1

Replace(k) ==
    \/ /\ closed /\ pending' = Kept /\ open' = open + 1 /\ opMu' = "free" /\ Leaves
       /\ UNCHANGED <<inner, left>>
    \/ /\ ~closed /\ inner' = At(k) /\ open' = open /\ UNCHANGED <<pending, left, ch>>
       /\ IF ew.pc = "step" /\ ~Leaf(k)
          THEN ew' = [ew EXCEPT !.to = k + 1] /\ UNCHANGED opMu
          ELSE ew' = [ew EXCEPT !.pc = "wait"] /\ opMu' = "free"
    \/ /\ ~closed /\ left.faults > 0 /\ left' = Faulted
       /\ inner' = At(k) /\ open' = open + 1 /\ pending' = pending + 1
       /\ opMu' = "free" /\ Leaves

(* One step toward the target; a component that does not exist ends the    *)
(* walk where it is. *)
Closer ==
    /\ ew.pc = "step"
    /\ IF fs >= ew.to THEN Replace(ew.to)
       ELSE /\ ew' = [ew EXCEPT !.pc = "wait"] /\ opMu' = "free"
            /\ UNCHANGED <<inner, pending, open, left, ch>>
    /\ blind' = TRUE
    /\ UNCHANGED <<scene, fs, closed, arm, hub, close, served, owed>>

(* The resolved directory may be gone again; then the loop gives up. *)
Reopen ==
    /\ ew.pc = "reopen"
    /\ IF fs >= ew.to THEN Replace(ew.to)
       ELSE /\ opMu' = "free" /\ Leaves /\ UNCHANGED <<inner, pending, open, left>>
    /\ blind' = TRUE
    /\ UNCHANGED <<scene, fs, closed, arm, hub, close, served, owed>>

(* existsWatch.Close: inner joins the pending watches, each is closed. *)
CloseBegins ==
    /\ close = "idle" /\ left.closes > 0 /\ arm = "active"
    /\ left' = [left EXCEPT !.closes = @ - 1]
    /\ closed' = TRUE /\ close' = "want"
    /\ UNCHANGED <<scene, fs, inner, pending, open, ew, opMu, ch, arm, hub, served, owed, blind>>

CloseTakes ==
    /\ close = "want" /\ opMu = "free"
    /\ opMu' = "close" /\ close' = "held"
    /\ pending' = IF inner.level >= 0 THEN pending + 1 ELSE pending
    /\ inner' = NoWatch
    /\ UNCHANGED <<scene, left, fs, open, ew, closed, ch, arm, hub, served, owed, blind>>

CloseEach ==
    /\ close = "held"
    /\ \E failed \in 0 .. pending :
          /\ failed <= left.faults
          /\ left' = [left EXCEPT !.faults = @ - failed]
          /\ pending' = failed /\ open' = open - (pending - failed)
          /\ close' = IF failed > 0 THEN "idle" ELSE "ok"
    /\ opMu' = "free"
    /\ UNCHANGED <<scene, fs, inner, ew, closed, ch, arm, hub, served, owed, blind>>

(* A closed directory watch releases the loop. *)
LoopReleased ==
    /\ ew.pc = "wait" /\ inner.level = -1 /\ closed
    /\ Leaves
    /\ UNCHANGED <<scene, left, fs, inner, pending, open, closed, opMu, arm, hub, close,
                   served, owed, blind>>

-----------------------------------------------------------------------------
(* armPath: resolve and open the watch, read the predicate, install the    *)
(* hub, activate when it holds already; the start transaction publishes    *)
(* the unit as active afterwards. *)

OpenExistsWatch ==
    /\ arm = "resolve"
    /\ ew' = [ew EXCEPT !.to = IF Exists THEN Depth - 1 ELSE fs]
    /\ arm' = "open"
    /\ UNCHANGED <<scene, left, fs, inner, pending, open, closed, opMu, ch, hub, close,
                   served, owed, blind>>

OpenFirst ==
    /\ arm = "open"
    /\ IF fs >= ew.to
       THEN /\ inner' = At(ew.to) /\ open' = open + 1
            /\ ew' = [ew EXCEPT !.pc = "wait"] /\ arm' = "predicate"
       ELSE arm' = "failed" /\ UNCHANGED <<inner, open, ew>>
    /\ UNCHANGED <<scene, left, fs, pending, closed, opMu, ch, hub, close, served, owed, blind>>

InstallHub ==
    /\ arm = "predicate"
    /\ arm' = "installed"
    /\ hub' = [hub EXCEPT !.sat = Exists]
    /\ served' = (served \/ Exists)
    /\ blind' = ~Beside(inner)
    /\ UNCHANGED <<scene, left, fs, inner, pending, open, ew, closed, opMu, ch, close, owed>>

Publish ==
    /\ arm = "installed" /\ arm' = "active"
    /\ UNCHANGED <<scene, left, fs, inner, pending, open, ew, closed, opMu, ch, hub,
                   close, served, owed, blind>>

(* runWatch and onPathExistsForHub: a signal before the unit is active is  *)
(* consumed without effect; a closed channel fails the unit. *)
Consume ==
    /\ arm \in {"installed", "active"} /\ hub.pc = "idle" /\ ch.full
    /\ ch' = [ch EXCEPT !.full = FALSE]
    /\ hub' = IF arm = "active" /\ ~closed THEN [hub EXCEPT !.pc = "observe"] ELSE hub
    /\ blind' = (blind \/ arm # "active")
    /\ UNCHANGED <<scene, left, fs, inner, pending, open, ew, closed, opMu, arm, close,
                   served, owed>>

HubFails ==
    /\ arm \in {"installed", "active"} /\ hub.pc = "idle" /\ ~ch.full /\ ch.closed
    /\ hub' = [hub EXCEPT !.pc = "failed"]
    /\ UNCHANGED <<scene, left, fs, inner, pending, open, ew, closed, opMu, ch, arm,
                   close, served, owed, blind>>

(* pathExistsPredicate, outside the manager's mutex. *)
Observe ==
    /\ hub.pc = "observe"
    /\ hub' = [hub EXCEPT !.pc = "apply", !.seen = Exists]
    /\ blind' = ~Beside(inner)
    /\ UNCHANGED <<scene, left, fs, inner, pending, open, ew, closed, opMu, ch, arm,
                   close, served, owed>>

(* applyPathPredicate: the rising edge activates the companion. *)
Apply ==
    /\ hub.pc = "apply"
    /\ hub' = [hub EXCEPT !.pc = "idle", !.sat = IF closed THEN @ ELSE hub.seen]
    /\ LET rises == ~closed /\ hub.seen /\ ~hub.sat IN
       served' = (served \/ rises) /\ owed' = (owed /\ ~rises)
    /\ UNCHANGED <<scene, left, fs, inner, pending, open, ew, closed, opMu, ch, arm, close,
                   blind>>

-----------------------------------------------------------------------------
Progress ==
    \/ Woken \/ Stat \/ InnerEnds \/ RearmBegins \/ Closer \/ Reopen \/ LoopReleased
    \/ CloseTakes \/ CloseEach
    \/ OpenExistsWatch \/ OpenFirst \/ InstallHub \/ Publish
    \/ Consume \/ HubFails \/ Observe \/ Apply

Next == Progress \/ Create \/ Delete \/ CloseBegins

Spec == Init /\ [][Next]_vars

(* The watch's and the manager's goroutines run; the file system need not  *)
(* change and nobody has to close. *)
Fairness == WF_vars(Progress)

FairSpec == Spec /\ Fairness

-----------------------------------------------------------------------------
(* Every native watch that is open has an owner that a later Close will    *)
(* reach, also one opened while Close was waiting and one whose own close  *)
(* failed; a Close that succeeded left none (replaceInner, Close). *)
WatchesOwned ==
    /\ open = pending + (IF inner.level >= 0 THEN 1 ELSE 0)
    /\ close = "ok" => open = 0

(* A target created while the watch sits in its directory, with all that   *)
(* went before handled, activates the companion unless it is removed again *)
(* or the watch ends (Woken, onPathExistsForHub, applyPathPredicate). *)
CreationNoticed == []<>(~owed \/ closed \/ hub.pc = "failed")

(* What the documentation says of every creation: a path that was missing  *)
(* when the unit was armed activates the companion once it exists          *)
(* (OpenExistsWatch, armPath). *)
CreationActivates ==
    Exists ~> (served \/ ~Exists \/ closed \/ hub.pc = "failed" \/ arm = "failed")

=============================================================================
