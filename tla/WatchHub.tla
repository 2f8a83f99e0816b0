------------------------------ MODULE WatchHub ------------------------------
(***************************************************************************)
(* The manager's side of a path, registry or event log unit: the watches   *)
(* opened for it form a hub that the unit's record owns until every native *)
(* close is confirmed (internal/manager watchhub.go, lifecycle_watch.go).  *)
(* One such unit: starts arm it, stops disarm it, reloads drop its         *)
(* configuration and close what no unit uses, watches are lost, changes    *)
(* activate the companion, and the manager shuts down or closes.           *)
(*                                                                         *)
(* Closes go through one attempt per hub (stopSet.wait): callers join it   *)
(* and may give up before it returns.                                      *)
(***************************************************************************)
EXTENDS Integers, Sequences, FiniteSets, FiniteSetsExt, TLC

CONSTANTS
    Scenarios   \* [starts, stops, reloads, events, losses, faults, closes,
                \*  satisfied]: how often each may happen; satisfied: the
                \*  existence predicate holds when the watch is armed

VARIABLES
    scene,          \* the scenario of this behaviour
    left,           \* what may still happen
    rt,             \* the unit's record
    hubs,           \* every hub opened, in order
    closed,         \* Manager.closed
    closePending,   \* hubs the manager itself still has to close
    gate,           \* holder of the unit's operation gate
    st,             \* the start operation: [pc, h, epoch]
    sp,             \* the stop operation: [pc, h, gen, ok]
    att,            \* hubs with a pending close attempt (stopSet.pending)
    waits,          \* <<caller, hub>> -> "wait", "ok" or "err"
    workers,        \* reload cleanup workers of each hub
    cl,             \* Close: [pc, tds, kept]
    revoked         \* hubs whose arm ended: stopped, replaced, lost, dropped (ghost)

vars == <<scene, left, rt, hubs, closed, closePending, gate, st, sp, att, waits,
          workers, cl, revoked>>

NoHub == 0
Ids == DOMAIN hubs
Fresh == [loaded |-> FALSE, avail |-> FALSE, state |-> "inactive", gen |-> 0,
          stopping |-> FALSE, epoch |-> 0, cleanup |-> FALSE, hub |-> NoHub, ops |-> 0]
IdleStart == [pc |-> "idle", h |-> NoHub, epoch |-> 0]
IdleStop == [pc |-> "idle", h |-> NoHub, gen |-> 0, ok |-> FALSE]

(* act: the companion's activation by this hub; run: its runWatch worker.  *)
NewHub(open) == [gen |-> 0, cancelled |-> FALSE, open |-> open, reloading |-> FALSE,
                 act |-> "none", fired |-> 0, run |-> "none"]

Init ==
    /\ scene \in Scenarios
    /\ left = scene
    /\ rt = [Fresh EXCEPT !.loaded = TRUE, !.avail = TRUE]
    /\ hubs = <<>>
    /\ closed = FALSE
    /\ closePending = {}
    /\ gate = "free"
    /\ st = IdleStart
    /\ sp = IdleStop
    /\ att = {}
    /\ waits = <<>>
    /\ workers = <<>>
    /\ cl = [pc |-> "idle", tds |-> {}, kept |-> {}]
    /\ revoked = {}

Spend(f) == /\ left[f] > 0
            /\ left' = [left EXCEPT ![f] = @ - 1]

(* closeHub, disposeHub: cancel the hub's context and start or join its    *)
(* close attempt.                                                          *)
Cancelled(h) == [hubs EXCEPT ![h].cancelled = TRUE]
Joins(who, h) ==
    /\ att' = att \cup {h}
    /\ waits' = (<<who, h>> :> "wait") @@ waits

Answered(who, h) == <<who, h>> \in DOMAIN waits /\ waits[<<who, h>>] # "wait"
Answer(who, h) == waits[<<who, h>>]
Forget(who, h) == waits' = [w \in DOMAIN waits \ {<<who, h>>} |-> waits[w]]

(* applyHubCleanup: only the exact hub the record still holds.             *)
HubCleaned(r, h, res) ==
    IF r.hub # h THEN r
    ELSE IF res = "ok" THEN [r EXCEPT !.hub = NoHub, !.cleanup = FALSE]
    ELSE [r EXCEPT !.cleanup = TRUE]

-----------------------------------------------------------------------------
(* stopSet.wait: the one attempt of a hub runs watchRuntime.stop and       *)
(* answers the callers still waiting for it.                               *)
Answering(h, res) ==
    waits' = [w \in DOMAIN waits |-> IF w[2] = h /\ waits[w] = "wait" THEN res ELSE waits[w]]

Closes(h) ==
    /\ h \in att
    /\ att' = att \ {h}
    /\ \/ /\ hubs' = [hubs EXCEPT ![h].open = FALSE, ![h].cancelled = TRUE]
          /\ Answering(h, "ok")
          /\ UNCHANGED left
       \/ /\ hubs[h].open
          /\ Spend("faults")
          /\ hubs' = Cancelled(h)
          /\ Answering(h, "err")
    /\ UNCHANGED <<scene, rt, closed, closePending, gate, st, sp, workers, cl, revoked>>

(* The caller's deadline: it leaves, the attempt stays.                    *)
Expires(w) ==
    /\ w \in DOMAIN waits /\ waits[w] = "wait"
    /\ waits' = [waits EXCEPT ![w] = "err"]
    /\ UNCHANGED <<scene, left, rt, hubs, closed, closePending, gate, st, sp, att,
                   workers, cl, revoked>>

-----------------------------------------------------------------------------
(* Start: admission plans it with the record's stop epoch.                 *)
StartAsk ==
    /\ st.pc = "idle" /\ rt.loaded /\ ~closed
    /\ Spend("starts")
    /\ st' = [IdleStart EXCEPT !.pc = "planned", !.epoch = rt.epoch]
    /\ rt' = [rt EXCEPT !.ops = @ + 1]
    /\ UNCHANGED <<scene, hubs, closed, closePending, gate, sp, att, waits, workers, cl, revoked>>

(* acceptLaunch, then acceptHubDisarm: a launch has a generation of its    *)
(* own, and the hub of the previous one is closed first.                   *)
Launchable == ~closed /\ st.epoch = rt.epoch /\ ~rt.cleanup /\ rt.avail

StartLaunch ==
    /\ st.pc = "planned" /\ gate = "free"
    /\ gate' = "start"
    /\ IF ~Launchable
         THEN /\ st' = [st EXCEPT !.pc = "rejected"]
              /\ UNCHANGED <<rt, hubs, att, waits, revoked>>
         ELSE IF rt.hub # NoHub
         THEN /\ st' = [st EXCEPT !.pc = "disarming", !.h = rt.hub]
              /\ rt' = [rt EXCEPT !.stopping = FALSE, !.gen = @ + 1, !.cleanup = TRUE]
              /\ hubs' = Cancelled(rt.hub)
              /\ Joins("start", rt.hub)
              /\ revoked' = revoked \cup {rt.hub}
         ELSE /\ st' = [st EXCEPT !.pc = "opening"]
              /\ rt' = [rt EXCEPT !.stopping = FALSE, !.gen = @ + 1]
              /\ UNCHANGED <<hubs, att, waits, revoked>>
    /\ UNCHANGED <<scene, left, closed, closePending, sp, workers, cl>>

StartDisarmed ==
    /\ st.pc = "disarming" /\ Answered("start", st.h)
    /\ rt' = HubCleaned(rt, st.h, Answer("start", st.h))
    /\ st' = [st EXCEPT !.pc = IF Answer("start", st.h) = "ok" THEN "opening" ELSE "failed",
                        !.h = NoHub]
    /\ Forget("start", st.h)
    /\ UNCHANGED <<scene, left, hubs, closed, closePending, gate, sp, att, workers, cl, revoked>>

(* armPath, armRegistry, armEventLog: an open that fails leaves what was   *)
(* opened so far, and perhaps its own handle.                              *)
StartOpens ==
    /\ st.pc = "opening"
    /\ \/ /\ hubs' = Append(hubs, NewHub(TRUE))
          /\ st' = [st EXCEPT !.pc = "install", !.h = Len(hubs) + 1]
          /\ UNCHANGED left
       \/ /\ Spend("faults")
          /\ \E kept \in BOOLEAN : hubs' = Append(hubs, NewHub(kept))
          /\ st' = [st EXCEPT !.pc = "dispose", !.h = Len(hubs) + 1]
    /\ workers' = Append(workers, 0)
    /\ UNCHANGED <<scene, rt, closed, closePending, gate, sp, att, waits, cl, revoked>>

(* acceptHub, and armPath's first activation when the path already exists  *)
AcceptsHub == rt.loaded /\ rt.avail /\ ~rt.stopping /\ ~closed /\ rt.hub = NoHub

StartInstalls ==
    /\ st.pc = "install"
    /\ IF AcceptsHub
         THEN /\ rt' = [rt EXCEPT !.hub = st.h]
              /\ hubs' = [hubs EXCEPT ![st.h].gen = rt.gen, ![st.h].run = "loop",
                                      ![st.h].act = IF scene.satisfied THEN "asked" ELSE "none"]
              /\ st' = [st EXCEPT !.pc = "publish"]
         ELSE /\ st' = [st EXCEPT !.pc = "dispose"]
              /\ UNCHANGED <<rt, hubs>>
    /\ UNCHANGED <<scene, left, closed, closePending, gate, sp, att, waits, workers, cl, revoked>>

(* retainHubDisposal: the unit owns what could not be installed if it can, *)
(* the manager's own close otherwise.                                      *)
UnitRetains == rt.loaded /\ rt.hub = NoHub /\ ~closed
Retained(h) == closePending \cup {h}

StartDisposes ==
    /\ st.pc = "dispose"
    /\ st' = [st EXCEPT !.pc = "disposing"]
    /\ hubs' = Cancelled(st.h)
    /\ Joins("start", st.h)
    /\ IF UnitRetains
         THEN /\ rt' = [rt EXCEPT !.hub = st.h, !.cleanup = TRUE]
              /\ UNCHANGED closePending
         ELSE /\ closePending' = Retained(st.h)
              /\ UNCHANGED rt
    /\ revoked' = revoked \cup {st.h}
    /\ UNCHANGED <<scene, left, closed, gate, sp, workers, cl>>

(* applyHubCleanup or applyPendingHubCleanup, whichever owns the hub.      *)
StartDisposed ==
    /\ st.pc = "disposing" /\ Answered("start", st.h)
    /\ rt' = HubCleaned(rt, st.h, Answer("start", st.h))
    /\ closePending' = IF Answer("start", st.h) = "ok" THEN closePending \ {st.h} ELSE closePending
    /\ st' = [st EXCEPT !.pc = "failed", !.h = NoHub]
    /\ Forget("start", st.h)
    /\ UNCHANGED <<scene, left, hubs, closed, gate, sp, att, workers, cl, revoked>>

(* publishOperationStart: shutdown cancels operations, so a cancelled one  *)
(* stops what it launched (executeOperationStart); otherwise the outcome   *)
(* is published unless a stop was asked for since.                         *)
Published(state) ==
    IF st.epoch # rt.epoch \/ (state = "active" /\ rt.stopping) THEN rt.state ELSE state

StartEnds(state) ==
    /\ rt' = [rt EXCEPT !.state = state, !.ops = @ - 1]
    /\ st' = IdleStart
    /\ gate' = "free"

StartPublishes ==
    /\ st.pc \in {"publish", "failed", "rejected"}
    /\ \/ /\ ~closed
          /\ StartEnds(CASE st.pc = "publish" -> Published("active")
                         [] st.pc = "failed" -> Published("failed")
                         [] OTHER -> IF rt.state = "active" THEN "active" ELSE Published("failed"))
       \/ /\ closed /\ st.pc = "rejected"
          /\ StartEnds(rt.state)
    /\ UNCHANGED <<scene, left, hubs, closed, closePending, sp, att, waits, workers, cl, revoked>>

(* acceptStopCleanup, then acceptHubDisarm and closeHub                    *)
StopAccepted(r) == [r EXCEPT !.stopping = TRUE, !.gen = @ + 1, !.state = "deactivating",
                             !.cleanup = r.hub # NoHub]
Disarms(who) ==
    IF rt.hub = NoHub THEN UNCHANGED <<hubs, att, waits>>
    ELSE hubs' = Cancelled(rt.hub) /\ Joins(who, rt.hub)

(* applyStopCompletion                                                     *)
StopOutcome(ok, gen) ==
    IF rt.gen # gen \/ rt.state # "deactivating" THEN rt.state
    ELSE IF ok THEN "inactive" ELSE "failed"

StartUndoes ==
    /\ closed
    /\ \/ /\ st.pc \in {"publish", "failed"}
          /\ st' = [st EXCEPT !.pc = "undoing", !.h = rt.hub]
          /\ rt' = StopAccepted(rt)
          /\ Disarms("start")
          /\ revoked' = revoked \cup {rt.hub}
          /\ UNCHANGED gate
       \/ /\ st.pc = "undoing" /\ (st.h # NoHub => Answered("start", st.h))
          /\ LET ok == st.h = NoHub \/ Answer("start", st.h) = "ok"
                 r  == HubCleaned(rt, st.h, IF ok THEN "ok" ELSE "err")
             IN rt' = [r EXCEPT !.state = StopOutcome(ok, rt.gen), !.ops = @ - 1]
          /\ Forget("start", st.h)
          /\ st' = IdleStart
          /\ gate' = "free"
          /\ UNCHANGED <<hubs, att, revoked>>
    /\ UNCHANGED <<scene, left, closed, closePending, sp, workers, cl>>

-----------------------------------------------------------------------------
(* Stop: admission disarms the unit before the gate (disarmStartLocked);   *)
(* Shutdown's stop pass does the same.                                     *)
StopAsk ==
    /\ sp.pc = "idle" /\ rt.loaded
    /\ Spend("stops")
    /\ rt' = [rt EXCEPT !.stopping = TRUE, !.epoch = @ + 1, !.ops = @ + 1]
    /\ sp' = [sp EXCEPT !.pc = "asked"]
    /\ revoked' = revoked \cup {rt.hub}
    /\ UNCHANGED <<scene, hubs, closed, closePending, gate, st, att, waits, workers, cl>>

StopAccept ==
    /\ sp.pc = "asked" /\ gate = "free"
    /\ gate' = "stop"
    /\ rt' = StopAccepted(rt)
    /\ sp' = [pc |-> "closing", h |-> rt.hub, gen |-> rt.gen + 1, ok |-> rt.hub = NoHub]
    /\ Disarms("stop")
    /\ UNCHANGED <<scene, left, closed, closePending, st, workers, cl, revoked>>

(* The gate is released before the journal is drained and the outcome of   *)
(* the stop is published.                                                  *)
StopReturns ==
    /\ sp.pc = "closing" /\ (sp.h # NoHub => Answered("stop", sp.h))
    /\ LET ok == sp.h = NoHub \/ Answer("stop", sp.h) = "ok"
       IN /\ rt' = HubCleaned(rt, sp.h, IF ok THEN "ok" ELSE "err")
          /\ sp' = [sp EXCEPT !.pc = "draining", !.ok = ok]
    /\ Forget("stop", sp.h)
    /\ gate' = "free"
    /\ UNCHANGED <<scene, left, hubs, closed, closePending, st, att, workers, cl, revoked>>

StopCompletes ==
    /\ sp.pc = "draining"
    /\ rt' = [rt EXCEPT !.state = StopOutcome(sp.ok, sp.gen), !.ops = @ - 1]
    /\ sp' = IdleStop
    /\ UNCHANGED <<scene, left, hubs, closed, closePending, gate, st, att, waits, workers, cl, revoked>>

-----------------------------------------------------------------------------
(* Reload, with or without the unit's file: a record that still owns       *)
(* something is kept without configuration (retainWithoutConfig).          *)
Reconfigured(file) ==
    IF file THEN [rt EXCEPT !.loaded = TRUE, !.avail = TRUE]
    ELSE IF rt.loaded /\ (rt.hub # NoHub \/ rt.ops # 0 \/ rt.cleanup)
    THEN [rt EXCEPT !.avail = FALSE]
    ELSE Fresh

(* reconcileHubsLocked: an accepted arm is kept until its start publishes. *)
Publishing(r) == r.ops > 0 /\ hubs[r.hub].gen = r.gen /\ ~r.stopping /\ ~r.cleanup
Stale(r) == r.hub # NoHub /\ ~((r.state = "active" \/ Publishing(r)) /\ r.avail)

(* reloadClosing: one cleanup worker for each hub                          *)
NeedsWorker(h) == ~hubs[h].reloading

Reload(file) ==
    /\ ~closed
    /\ Spend("reloads")
    /\ LET r == Reconfigured(file) IN
         IF ~Stale(r)
           THEN rt' = r /\ UNCHANGED <<hubs, att, waits, workers, revoked>>
           ELSE /\ rt' = [r EXCEPT !.cleanup = TRUE]
                /\ hubs' = [hubs EXCEPT ![r.hub].cancelled = TRUE, ![r.hub].reloading = TRUE]
                /\ IF NeedsWorker(r.hub)
                     THEN Joins("reload", r.hub) /\ workers' = [workers EXCEPT ![r.hub] = @ + 1]
                     ELSE UNCHANGED <<att, waits, workers>>
                /\ revoked' = revoked \cup {r.hub}
    /\ UNCHANGED <<scene, closed, closePending, gate, st, sp, cl>>

(* applyHubCleanup, then finishReloadHubCleanup, whatever the answer.      *)
ReloadCloses(h) ==
    /\ Answered("reload", h)
    /\ rt' = HubCleaned(rt, h, Answer("reload", h))
    /\ hubs' = [hubs EXCEPT ![h].reloading = FALSE]
    /\ workers' = [workers EXCEPT ![h] = 0]
    /\ Forget("reload", h)
    /\ UNCHANGED <<scene, left, closed, closePending, gate, st, sp, att, cl, revoked>>

-----------------------------------------------------------------------------
(* runWatch: a watch whose channel closes fails the hub, unless the hub    *)
(* was cancelled (acceptHubFailure).                                       *)
Failable(h) == rt.hub = h /\ rt.gen = hubs[h].gen /\ ~rt.stopping /\ rt.avail /\ ~closed

WatchLost(h) ==
    /\ hubs[h].run = "loop" /\ hubs[h].act = "none" /\ ~hubs[h].cancelled
    /\ Spend("losses")
    /\ hubs' = [hubs EXCEPT ![h].run = "lost"]
    /\ UNCHANGED <<scene, rt, closed, closePending, gate, st, sp, att, waits, workers, cl, revoked>>

FailHub(h) ==
    /\ hubs[h].run = "lost"
    /\ IF Failable(h)
         THEN /\ rt' = [rt EXCEPT !.cleanup = TRUE,
                                 !.state = IF @ = "active" THEN "failed" ELSE @]
              /\ hubs' = [hubs EXCEPT ![h].run = "out", ![h].cancelled = TRUE]
              /\ Joins("fail", h)
              /\ revoked' = revoked \cup {h}
         ELSE /\ hubs' = [hubs EXCEPT ![h].run = "out"]
              /\ UNCHANGED <<rt, att, waits, revoked>>
    /\ UNCHANGED <<scene, left, closed, closePending, gate, st, sp, workers, cl>>

FailCloses(h) ==
    /\ Answered("fail", h)
    /\ rt' = HubCleaned(rt, h, Answer("fail", h))
    /\ Forget("fail", h)
    /\ UNCHANGED <<scene, left, hubs, closed, closePending, gate, st, sp, att, workers, cl, revoked>>

(* startHubCompanion: a change seen while the unit is active; select may   *)
(* still prefer a queued change to the cancelled context.                  *)
Heeded(h) == rt.state = "active" /\ rt.hub = h /\ ~rt.stopping /\ ~rt.cleanup /\ rt.avail /\ ~closed

ChangeFires(h) ==
    /\ hubs[h].run = "loop" /\ hubs[h].act = "none" /\ Heeded(h)
    /\ Spend("events")
    /\ hubs' = [hubs EXCEPT ![h].act = "asked"]
    /\ UNCHANGED <<scene, rt, closed, closePending, gate, st, sp, att, waits, workers, cl, revoked>>

(* watchOrigin.validLocked: checked at admission and, once the companion's *)
(* gate opens, again (acceptLaunch).                                       *)
ValidHubOnly(h) == ~closed /\ rt.loaded /\ rt.hub = h
Valid(h) == ~closed /\ rt.loaded /\ rt.hub = h /\ rt.gen = hubs[h].gen /\ ~rt.stopping
            /\ rt.avail /\ ~rt.cleanup

Activates(h) ==
    /\ hubs[h].act # "none"
    /\ hubs' = [hubs EXCEPT
         ![h].act = IF @ = "asked" /\ Valid(h) THEN "admitted" ELSE "none",
         ![h].fired = IF hubs[h].act = "admitted" /\ Valid(h) THEN @ + 1 ELSE @]
    /\ UNCHANGED <<scene, left, rt, closed, closePending, gate, st, sp, att, waits, workers, cl, revoked>>

-----------------------------------------------------------------------------
(* Shutdown seals admission (sealShutdownLocked); Close seals it too, then *)
(* detaches every hub and closes it itself, keeping what fails.            *)
Shutdown ==
    /\ ~closed /\ left.closes > 0
    /\ closed' = TRUE
    /\ rt' = [rt EXCEPT !.stopping = rt.loaded]
    /\ revoked' = Ids
    /\ UNCHANGED <<scene, left, hubs, closePending, gate, st, sp, att, waits, workers, cl>>

CloseBegin ==
    /\ cl.pc = "idle"
    /\ Spend("closes")
    /\ closed' = TRUE
    /\ cl' = [pc |-> "closing", kept |-> {},
              tds |-> closePending \cup ({rt.hub} \ {NoHub})]
    /\ closePending' = {}
    /\ rt' = [rt EXCEPT !.hub = NoHub]
    /\ hubs' = [h \in Ids |-> IF h \in cl'.tds THEN [hubs[h] EXCEPT !.cancelled = TRUE] ELSE hubs[h]]
    /\ revoked' = Ids
    /\ UNCHANGED <<scene, gate, st, sp, att, waits, workers>>

(* closeBlocking: watchRuntime.closeMu makes it wait for a running attempt *)
CloseHub(h) ==
    /\ cl.pc = "closing" /\ h \in cl.tds /\ h \notin att
    /\ \/ /\ hubs' = [hubs EXCEPT ![h].open = FALSE]
          /\ cl' = [cl EXCEPT !.tds = @ \ {h}]
          /\ UNCHANGED left
       \/ /\ hubs[h].open
          /\ Spend("faults")
          /\ cl' = [cl EXCEPT !.tds = @ \ {h}, !.kept = @ \cup {h}]
          /\ UNCHANGED hubs
    /\ UNCHANGED <<scene, rt, closed, closePending, gate, st, sp, att, waits, workers, revoked>>

Kept == closePending \cup cl.kept

CloseEnd ==
    /\ cl.pc = "closing" /\ cl.tds = {}
    /\ closePending' = Kept
    /\ cl' = [pc |-> "idle", tds |-> {}, kept |-> {}]
    /\ UNCHANGED <<scene, left, rt, hubs, closed, gate, st, sp, att, waits, workers, revoked>>

-----------------------------------------------------------------------------
Progress ==
    \/ \E h \in Ids : Closes(h) \/ ReloadCloses(h) \/ FailHub(h) \/ FailCloses(h)
                       \/ Activates(h) \/ CloseHub(h)
    \/ StartLaunch \/ StartDisarmed \/ StartOpens \/ StartInstalls \/ StartDisposes
    \/ StartDisposed \/ StartPublishes \/ StartUndoes
    \/ StopAccept \/ StopReturns \/ StopCompletes \/ CloseEnd

Next ==
    \/ Progress
    \/ \E w \in DOMAIN waits : Expires(w)
    \/ StartAsk \/ StopAsk \/ Shutdown \/ CloseBegin
    \/ \E file \in BOOLEAN : Reload(file)
    \/ \E h \in Ids : WatchLost(h) \/ ChangeFires(h)

Spec == Init /\ [][Next]_vars
FairSpec == Spec /\ WF_vars(Progress)

-----------------------------------------------------------------------------
(* A hub with a watch still open always has an owner that will close it:   *)
(* the unit's record, the start still holding it, the manager's list, or   *)
(* the Close that took it (retainHubDisposal, closePass).                  *)
HubsOwned ==
    \A h \in Ids : hubs[h].open =>
        \/ h = rt.hub
        \/ h \in closePending \cup cl.tds \cup cl.kept
        \/ st.h = h /\ st.pc \in {"install", "dispose"}

(* A stop that reports success has every watch of the unit closed, even if *)
(* it only joined an attempt begun by a reload, a failure or an earlier    *)
(* stop whose caller gave up (stopSet.wait).                               *)
StopProves ==
    (sp.pc = "draining" /\ sp.ok /\ rt.gen = sp.gen) =>
        \A h \in Ids : hubs[h].open => h \in closePending \cup cl.tds \cup cl.kept

(* Once a watch's arm ended, by a stop, a new start, a reload, a loss or   *)
(* shutdown, no change it saw before starts its companion, however long    *)
(* the start waited (watchOrigin.validLocked at admission and at the gate).*)
NoLateActivation ==
    [][\A h \in Ids : hubs'[h].fired # hubs[h].fired => h \notin revoked]_vars

(* Repeated reloads never pile up cleanup workers for one hub, even while  *)
(* its native close is blocked (watchRuntime.reloadClosing).               *)
OneReloadWorker == \A h \in Ids : workers[h] <= 1

(* Starts, stops, reload workers and Close end, whichever closes fail, and *)
(* free the unit's gate.                                                   *)
CleanupEnds ==
    /\ []<>(st.pc = "idle") /\ []<>(sp.pc = "idle") /\ []<>(cl.pc = "idle")
    /\ \A h \in 1..2 : []<>(h \in Ids => ~hubs[h].reloading)

(* A unit that is configured and reported active has its watches, outside  *)
(* a start of it and a cleanup of theirs.                                  *)
ActiveWatched ==
    (rt.state = "active" /\ rt.avail /\ ~closed /\ st.pc = "idle" /\ ~rt.cleanup) =>
        rt.hub # NoHub
=============================================================================
