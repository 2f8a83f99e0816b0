---------------------------- MODULE TimerEngine ----------------------------
(***************************************************************************)
(* The timer scheduler of internal/timers (engine.go, calendar_work.go,    *)
(* storage_work.go, schedule.go, state.go, state_file.go) and the manager's *)
(* callback onTimerElapsed.  The engine's handlers hold e.mu and are atomic *)
(* actions.  The calendar planner, the storage loader and the callbacks    *)
(* run without it and are split where they take it again; the lock         *)
(* storageIO serialises the file operations.                               *)
(*                                                                         *)
(* Time is counted in ticks: "wall" can be set back or forth, "mono" only  *)
(* grows.  A calendar is the set of its instants (module Calendar models   *)
(* the search for them).  0 is the zero time.  A heap entry and its arm    *)
(* always carry the same generation, since both change under one lock; the *)
(* generations the planner compares are kept as "unchanged since" flags.   *)
(***************************************************************************)
EXTENDS Integers, FiniteSets, FiniteSetsExt

CONSTANTS
  N,          \* the timer units are 1..N, in the order of their names
  Callbacks,  \* bound on maxTimerCallbacks
  MaxTime,    \* bound on both clocks
  Scenarios   \* what one history may see: [timers, the units there are; specs,
              \* the schedules their files give; disk, the records found;
              \* callbacks, maxTimerCallbacks; and bounds on the number of
              \* arms and of faults (crashes, stops, failing file operations);
              \* jumps, the times the wall clock is set to, once each]

Timers == 1..N
Slots == 1..Callbacks
NotArmed == [token |-> 0]
NoRetry == [token |-> 0]
NoActivation == [id |-> 0, unit |-> "", result |-> ""]
NoCallback == [pc |-> "free"]
Idle == [pc |-> "idle"]

VARIABLES
  scene,    \* the scenario of this history
  armed,    \* Engine.armed
  cb,       \* the callbacks in flight, by slot
  planner,  \* planCalendars
  cursor,   \* Engine.scheduleCursor
  loader,   \* loadPending
  io,       \* storageIO: 0 free, -1 the loader, else the slot that holds it
  disk,     \* <name>.json
  running,  \* Engine.running
  wall, mono,  \* the wall clock and the time since boot
  started,  \* mono when this engine was created
  signal,   \* the host has a clock change to report
  jumps,    \* the times the wall clock was set to
  arms, ids, faults   \* counters: Arm calls, activations, faults

clocks == <<wall, mono, started, signal, jumps>>
workers == <<cb, planner, cursor, loader, io>>
vars == <<scene, armed, workers, disk, running, clocks, arms, ids, faults>>

-----------------------------------------------------------------------------
(* Schedules: schedule.go *)

After(cal, t) == {i \in cal : i > t}
Before(cal, t) == {i \in cal : i < t}

(* persistentCatchup: an instant has passed since the last run.            *)
CatchUp(cal, rt, now) ==
  /\ rt.lastActual # 0
  /\ \E i \in Before(cal, now) : i > rt.lastActual

(* The wall deadlines nextDeadline considers.                              *)
WallDues(s, rt, now) ==
  LET due == rt.lastActive + s.active
      active == IF s.active >= 0 /\ rt.lastActive # 0
                   /\ (rt.lastActual = 0 \/ due > rt.lastActual)
                THEN {IF due < now THEN now ELSE due} ELSE {}
      next(c) == IF s.persistent /\ CatchUp(c, rt, now) THEN {now}
                 ELSE IF After(c, now) = {} THEN {} ELSE {Min(After(c, now))}
  IN  active \cup UNION {next(c) : c \in s.cals}

(* What is left of the relative triggers that have not fired.              *)
RelativeWaits(s, rt) ==
  (IF s.boot >= 0 /\ ~rt.firedBoot THEN {s.boot - mono} ELSE {}) \cup
  (IF s.startup >= 0 /\ ~rt.firedStartup THEN {s.startup - (mono - started)} ELSE {})

WallSensitive(s) == s.cals # {} \/ s.active >= 0

(* MarkFired *)
MarkFired(s, rt) ==
  [rt EXCEPT !.lastActual = wall,
     !.firedBoot = @ \/ (s.boot >= 0 /\ mono >= s.boot),
     !.firedStartup = @ \/ (s.startup >= 0 /\ mono - started >= s.startup)]

(* installDeadlineLocked of what nextDeadline found when the clock read    *)
(* now.                                                                    *)
Install(a, walls, waits, now) ==
  LET all == walls \cup {IF w < 0 THEN now ELSE now + w : w \in waits}
  IN  [a EXCEPT !.planning = FALSE, !.ok = all # {}, !.queued = all # {},
         !.wallNext = IF walls = {} THEN 0 ELSE Min(walls),
         !.when = IF all = {} THEN 0 ELSE Min(all), !.seen = now]

Cleared(a) ==
  [a EXCEPT !.queued = FALSE, !.planning = FALSE, !.ok = FALSE,
            !.wallNext = 0, !.when = 0, !.seen = 0]

(* rescheduleLocked: calendars are left to the planner.                    *)
Reschedule(a) ==
  IF a.loading \/ a.failed THEN Cleared(a)
  ELSE IF a.retry = NoRetry /\ a.spec.cals # {}
       THEN [Cleared(a) EXCEPT !.planning = TRUE]
  ELSE IF a.retry # NoRetry
       THEN [Cleared(a) EXCEPT !.ok = TRUE, !.queued = TRUE,
               !.when = wall + Max({0, a.retry.after - (mono - started)})]
  ELSE Install(Cleared(a), WallDues(a.spec, a.rt, wall),
               RelativeWaits(a.spec, a.rt), wall)

(* itemDueLocked *)
Due(a) ==
  IF a.retry # NoRetry THEN mono - started >= a.retry.after
  ELSE \/ \E w \in RelativeWaits(a.spec, a.rt) : w <= 0
       \/ a.wallNext # 0 /\ a.wallNext <= wall

(* The generation of these arms changes under the planner.                 *)
Superseded(S) ==
  IF planner.pc # "idle" /\ planner.name \in S
  THEN [planner EXCEPT !.same = FALSE] ELSE planner

Armed(n) == armed[n] # NotArmed
HasToken(n, token) == Armed(n) /\ armed[n].token = token

(* Current *)
Current(n, token) ==
  running /\ HasToken(n, token) /\ ~armed[n].loading /\ ~armed[n].failed
-----------------------------------------------------------------------------
(* Arming: the manager's calls *)

NewRuntime == [act |-> NoActivation, lastActual |-> 0, lastActive |-> 0,
               firedBoot |-> FALSE, firedStartup |-> FALSE]

NewArm(s, token) ==
  [obj |-> token, token |-> token, spec |-> s, rt |-> NewRuntime,
   loading |-> TRUE, failed |-> FALSE, firing |-> FALSE, retry |-> NoRetry,
   planning |-> FALSE, ok |-> FALSE, queued |-> FALSE, wallNext |-> 0,
   when |-> 0, seen |-> 0]

(* Arm of a timer that is armed already: a new callback identity, and the  *)
(* stored state is read again after a failure or a pending activation.     *)
Refreshed(a, s, token) ==
  LET reload == a.failed \/ a.rt.act.result = "pending"
  IN  [a EXCEPT !.token = token, !.spec = s, !.firing = FALSE,
         !.retry = NoRetry, !.failed = FALSE, !.loading = @ \/ reload]

Arm(n, s) ==
  /\ running /\ arms < scene.arms
  /\ arms' = arms + 1
  /\ armed' = [armed EXCEPT ![n] =
       Reschedule(IF Armed(n) THEN Refreshed(armed[n], s, arms + 1)
                  ELSE NewArm(s, arms + 1))]
  /\ planner' = Superseded({n})
  /\ UNCHANGED <<scene, cb, cursor, loader, io, disk, running, clocks, ids, faults>>

(* Retain, and Disarm, which drops one timer.                              *)
Retain(keep) ==
  /\ \E n \in Timers \ keep : Armed(n)
  /\ armed' = [n \in Timers |-> IF n \in keep THEN armed[n] ELSE NotArmed]
  /\ planner' = Superseded(Timers \ keep)
  /\ UNCHANGED <<scene, cb, cursor, loader, io, disk, running, clocks, arms, ids, faults>>

(* The unit has become active: OnUnitActiveSec= counts from now.           *)
UnitActive(unit) ==
  LET S == {n \in Timers : /\ Armed(n) /\ armed[n].spec.unit = unit
                           /\ armed[n].spec.active >= 0}
  IN  /\ \E n \in S : armed[n].rt.lastActive # wall
      /\ armed' = [n \in Timers |->
           IF n \in S THEN Reschedule([armed[n] EXCEPT !.rt.lastActive = wall])
           ELSE armed[n]]
      /\ planner' = Superseded(S)
      /\ UNCHANGED <<scene, cb, cursor, loader, io, disk, running, clocks, arms, ids, faults>>

-----------------------------------------------------------------------------
(* Deadlines *)

FreeSlots == {k \in 1..scene.callbacks : cb[k].pc = "free"}

(* popDueLocked skips an arm whose callback is still out.                  *)
Poppable == {n \in Timers : /\ Armed(n) /\ armed[n].queued
                            /\ ~armed[n].firing /\ Due(armed[n])}

(* deadlineHeap.Less *)
Earlier(m, n) == \/ armed[m].when < armed[n].when
                 \/ armed[m].when = armed[n].when /\ m < n

(* fireDueLocked pops the earliest due arms while callbacks are free.      *)
Popped ==
  {n \in Poppable :
     Cardinality({m \in Poppable : Earlier(m, n)}) < Cardinality(FreeSlots)}

Persists(s) == s.persistent /\ s.cals # {}

(* consumeLocked, for the activation id.                                   *)
Consumed(a, id) ==
  LET act == [id |-> id, unit |-> a.spec.unit, result |-> "pending"]
      fired == MarkFired(a.spec, a.rt)
      rt == IF a.retry = NoRetry
            THEN IF Persists(a.spec) THEN [fired EXCEPT !.act = act] ELSE fired
            ELSE IF a.retry.id # 0 THEN [a.rt EXCEPT !.lastActual = wall] ELSE a.rt
  IN  [a EXCEPT !.rt = rt, !.retry = NoRetry, !.firing = TRUE]

Callback(n, id) ==
  LET a == armed[n]
  IN  [pc |-> "persist", name |-> n, rt |-> Consumed(a, id).rt,
       token |-> IF a.retry = NoRetry THEN a.token ELSE a.retry.token,
       id |-> IF a.retry # NoRetry THEN a.retry.id
              ELSE IF Persists(a.spec) THEN id ELSE 0]

(* The popped arms, each with its activation and its callback.             *)
Rank(n) == Cardinality({m \in Popped : m <= n})
FireDue(arm) ==
  LET slot == CHOOSE f \in [Popped -> FreeSlots] :
                \A m, n \in Popped : f[m] = f[n] => m = n
  IN  /\ armed' = [n \in Timers |->
           IF n \in Popped THEN Reschedule(Consumed(armed[n], ids + Rank(n)))
           ELSE arm[n]]
      /\ cb' = [k \in Slots |->
           IF \E n \in Popped : slot[n] = k
           THEN LET n == CHOOSE n \in Popped : slot[n] = k
                IN  Callback(n, ids + Rank(n))
           ELSE cb[k]]
      /\ ids' = ids + Cardinality(Popped)

(* The scheduler goroutine wakes: the timer it sleeps on, a kick, or the   *)
(* poll every maxWait.                                                     *)
Loop ==
  /\ running /\ Popped # {}
  /\ FireDue(armed)
  /\ planner' = Superseded(Popped)
  /\ UNCHANGED <<scene, cursor, loader, io, disk, running, clocks, arms, faults>>

(* ClockChanged: what is due stays due, every other wall deadline is       *)
(* computed again.                                                         *)
Recomputed(n) ==
  /\ Armed(n) /\ WallSensitive(armed[n].spec)
  /\ ~(armed[n].queued /\ Due(armed[n]))

ClockChanged ==
  /\ running /\ signal
  /\ FireDue([n \in Timers |-> IF Recomputed(n) THEN Reschedule(armed[n]) ELSE armed[n]])
  /\ planner' = IF planner.pc = "idle" THEN planner
                ELSE [planner EXCEPT !.clock = FALSE,
                        !.same = @ /\ planner.name \notin Popped
                                   /\ ~Recomputed(planner.name)]
  /\ signal' = FALSE
  /\ UNCHANGED <<scene, cursor, loader, io, disk, running, wall, mono, started, jumps, arms, faults>>

-----------------------------------------------------------------------------
(* The calendar planner *)

Planning == {n \in Timers : Armed(n) /\ armed[n].planning}

(* The arms behind the cursor come first.                                  *)
Visited ==
  LET behind == {n \in Planning : n > cursor}
  IN  IF behind = {} THEN Planning ELSE behind

(* One observation of the clocks, taken after the arm was picked, serves   *)
(* the whole search.  A change of the arm or of the clock in between shows *)
(* in the flags, so the two are one step.                                  *)
PlanPick ==
  /\ planner.pc = "idle" /\ running /\ Visited # {}
  /\ LET n == Min(Visited)
         a == armed[n]
     IN  /\ planner' = [pc |-> "publish", name |-> n, same |-> TRUE, clock |-> TRUE,
                        walls |-> WallDues(a.spec, a.rt, wall),
                        waits |-> RelativeWaits(a.spec, a.rt), seen |-> wall]
         /\ cursor' = n
  /\ UNCHANGED <<scene, armed, cb, loader, io, disk, running, clocks, arms, ids, faults>>

Accepts == /\ running /\ planner.same /\ planner.clock
           /\ Armed(planner.name) /\ armed[planner.name].planning

PlanPublish ==
  /\ planner.pc = "publish"
  /\ armed' = IF Accepts
              THEN [armed EXCEPT ![planner.name] =
                      Install(@, planner.walls, planner.waits, planner.seen)]
              ELSE armed
  /\ planner' = Idle
  /\ UNCHANGED <<scene, cb, cursor, loader, io, disk, running, clocks, arms, ids, faults>>
-----------------------------------------------------------------------------
(* The storage loader *)

LoadPick ==
  /\ loader.pc = "idle" /\ running
  /\ \E n \in Timers :
       /\ Armed(n) /\ armed[n].loading
       /\ loader' = [pc |-> "wait", name |-> n, obj |-> armed[n].obj]
  /\ UNCHANGED <<scene, armed, cb, planner, cursor, io, disk, running, clocks, arms, ids, faults>>

StillLoading ==
  /\ running /\ Armed(loader.name)
  /\ armed[loader.name].obj = loader.obj /\ armed[loader.name].loading

LoadBegin ==
  /\ loader.pc = "wait" /\ io = 0
  /\ IF StillLoading
     THEN loader' = [loader EXCEPT !.pc = "read"] /\ io' = -1
     ELSE loader' = Idle /\ io' = io
  /\ UNCHANGED <<scene, armed, cb, planner, cursor, disk, running, clocks, arms, ids, faults>>

(* What loadPending makes of a record it could read.                       *)
Loaded(a, d) ==
  LET rt == [NewRuntime EXCEPT !.act = d.act, !.lastActual = d.lastActual,
                               !.lastActive = a.rt.lastActive]
      b == [a EXCEPT !.loading = FALSE, !.failed = FALSE, !.rt = rt]
  IN  IF d.act.result # "pending" THEN b
      ELSE IF ~Persists(a.spec) \/ a.spec.unit # d.act.unit
           THEN [b EXCEPT !.failed = TRUE]
      ELSE [b EXCEPT !.retry = [token |-> a.token, id |-> d.act.id,
                                after |-> mono - started]]

LoadEnd(ok) ==
  /\ loader.pc = "read"
  /\ ok \/ faults < scene.faults
  /\ faults' = IF ok THEN faults ELSE faults + 1
  /\ armed' = IF ~StillLoading THEN armed
              ELSE [armed EXCEPT ![loader.name] =
                Reschedule(IF ok THEN Loaded(@, disk[loader.name])
                           ELSE [@ EXCEPT !.loading = FALSE, !.failed = TRUE])]
  /\ planner' = IF StillLoading THEN Superseded({loader.name}) ELSE planner
  /\ loader' = Idle /\ io' = 0
  /\ UNCHANGED <<scene, cb, cursor, disk, running, clocks, arms, ids>>

-----------------------------------------------------------------------------
(* A callback: persist the intent, call the manager, record the outcome *)

Goto(k, pc) == [cb EXCEPT ![k].pc = pc]

(* Mutant: the write of a superseded arm is let through.                   *)
MayPersistAny(k) == running /\ Armed(cb[k].name)

(* persist's check, once it holds storageIO.                               *)
MayPersist(k) ==
  LET n == cb[k].name
  IN  /\ running /\ HasToken(n, cb[k].token) /\ ~armed[n].failed
      /\ cb[k].id # 0 => armed[n].rt.act.id = cb[k].id

(* From "persist" before the call and from "record" after it.              *)
PersistBegin(k) ==
  /\ cb[k].pc \in {"persist", "record"} /\ io = 0
  /\ IF MayPersist(k)
     THEN /\ io' = k
          /\ cb' = Goto(k, IF cb[k].pc = "persist" THEN "saving" ELSE "storing")
     ELSE io' = io /\ cb' = Goto(k, "end")
  /\ UNCHANGED <<scene, armed, planner, cursor, loader, disk, running, clocks, arms, ids, faults>>

Image(k) == [act |-> cb[k].rt.act, lastActual |-> cb[k].rt.lastActual]

(* writeStateFile replaces the record in one step; a replacement that      *)
(* reports an error may have happened.  The callback's Current and the one *)
(* at the head of onTimerElapsed see what persist has just seen, or end in *)
(* Ignored.                                                                *)
PersistEnd(k, ok, wrote) ==
  LET n == cb[k].name
      mine == running /\ HasToken(n, cb[k].token)
  IN  /\ cb[k].pc \in {"saving", "storing"}
      /\ ok => wrote
      /\ ok \/ faults < scene.faults
      /\ faults' = IF ok THEN faults ELSE faults + 1
      /\ disk' = IF wrote THEN [disk EXCEPT ![n] = Image(k)] ELSE disk
      /\ armed' = IF mine /\ ~ok
                  THEN [armed EXCEPT ![n] = Reschedule([@ EXCEPT !.failed = TRUE])]
                  ELSE armed
      /\ planner' = IF mine /\ ~ok THEN Superseded({n}) ELSE planner
      /\ cb' = Goto(k, IF ~ok \/ ~mine THEN "end"
                       ELSE IF cb[k].pc = "saving" THEN "fire" ELSE "apply")
      /\ io' = 0
      /\ UNCHANGED <<scene, cursor, loader, running, clocks, arms, ids>>

(* onTimerElapsed returns early: the timer is being stopped, has failed or *)
(* is no longer armed with this token.                                     *)
Ignored(k) ==
  /\ cb[k].pc = "fire"
  /\ cb' = Goto(k, "end")
  /\ UNCHANGED <<scene, armed, planner, cursor, loader, io, disk, running, clocks, arms, ids, faults>>

(* The manager has no capacity for another start: Retry.                   *)
Retry(k) ==
  LET n == cb[k].name
  IN  /\ cb[k].pc = "fire"
      /\ IF running /\ HasToken(n, cb[k].token)
         THEN /\ armed' = [armed EXCEPT ![n] = Reschedule([@ EXCEPT !.retry =
                   [token |-> cb[k].token, id |-> cb[k].id,
                    after |-> mono - started + 1]])]
              /\ planner' = Superseded({n})
         ELSE UNCHANGED <<armed, planner>>
      /\ cb' = Goto(k, "end")
      /\ UNCHANGED <<scene, cursor, loader, io, disk, running, clocks, arms, ids, faults>>

(* The start ended: the first half of RecordResult.                        *)
RecordResult(k, success) ==
  LET n == cb[k].name
      a == armed[n]
      stored == [a.rt EXCEPT !.act.result = IF success THEN "success" ELSE "failed"]
      valid == IF cb[k].id # 0
               THEN a.rt.act.id = cb[k].id /\ a.rt.act.result = "pending"
               ELSE a.rt.act.result # "pending" /\ success
  IN  /\ cb[k].pc = "fire"
      /\ cb' = IF Current(n, cb[k].token) /\ valid
               THEN [cb EXCEPT ![k].pc = "record",
                               ![k].rt = IF cb[k].id # 0 THEN stored ELSE a.rt]
               ELSE Goto(k, "end")
      /\ UNCHANGED <<scene, armed, planner, cursor, loader, io, disk, running, clocks, arms, ids, faults>>

(* Its second half, after the outcome is on disk.                          *)
ApplyResult(k) ==
  LET n == cb[k].name
  IN  /\ cb[k].pc = "apply"
      /\ armed' = IF /\ running /\ HasToken(n, cb[k].token)
                     /\ cb[k].id # 0 => armed[n].rt.act.id = cb[k].id
                  THEN [armed EXCEPT ![n].rt.act = cb[k].rt.act, ![n].retry = NoRetry]
                  ELSE armed
      /\ cb' = Goto(k, "end")
      /\ UNCHANGED <<scene, planner, cursor, loader, io, disk, running, clocks, arms, ids, faults>>

(* An activation nobody recorded an outcome for suspends the timer.        *)
Settled(a) ==
  [a EXCEPT !.firing = FALSE,
            !.failed = @ \/ (a.rt.act.result = "pending" /\ a.retry = NoRetry)]

CallbackEnd(k) ==
  LET n == cb[k].name
      mine == HasToken(n, cb[k].token)
  IN  /\ cb[k].pc = "end"
      /\ armed' = IF ~mine THEN armed
                  ELSE [armed EXCEPT ![n] =
                          IF running THEN Reschedule(Settled(@)) ELSE Settled(@)]
      /\ planner' = IF mine /\ running THEN Superseded({n}) ELSE planner
      /\ cb' = [cb EXCEPT ![k] = NoCallback]
      /\ UNCHANGED <<scene, cursor, loader, io, disk, running, clocks, arms, ids, faults>>
-----------------------------------------------------------------------------
(* The clocks and the process *)

Tick ==
  /\ wall < MaxTime /\ mono < MaxTime
  /\ wall' = wall + 1 /\ mono' = mono + 1
  /\ UNCHANGED <<scene, armed, workers, disk, running, started, signal, jumps, arms, ids, faults>>

(* The wall clock is set; the host will report it.                         *)
Jump(t) ==
  /\ t \in scene.jumps \ jumps /\ t # wall
  /\ wall' = t /\ signal' = TRUE /\ jumps' = jumps \cup {t}
  /\ UNCHANGED <<scene, armed, workers, disk, running, mono, started, arms, ids, faults>>

(* Stop: no decision is taken any more, the workers run to their end.      *)
Stop ==
  /\ running /\ faults < scene.faults
  /\ running' = FALSE /\ faults' = faults + 1
  /\ UNCHANGED <<scene, armed, workers, disk, clocks, arms, ids>>

(* A new engine: NewEngine.                                                *)
Created ==
  /\ armed' = [n \in Timers |-> NotArmed]
  /\ cb' = [k \in Slots |-> NoCallback]
  /\ planner' = Idle /\ loader' = Idle /\ cursor' = 0 /\ io' = 0
  /\ running' = TRUE /\ started' = mono
  /\ UNCHANGED <<scene, wall, mono, signal, jumps, arms, ids>>

(* Stop has returned and the daemon is started again.                      *)
Restart ==
  /\ ~running /\ FreeSlots = 1..scene.callbacks /\ planner.pc = "idle" /\ loader.pc = "idle"
  /\ Created
  /\ UNCHANGED <<disk, faults>>

(* The process dies; a replacement of the record in flight has happened or *)
(* not.                                                                    *)
Crash(wrote) ==
  /\ faults < scene.faults /\ faults' = faults + 1
  /\ disk' = IF io > 0 /\ wrote THEN [disk EXCEPT ![cb[io].name] = Image(io)] ELSE disk
  /\ Created

Init ==
  /\ armed = [n \in Timers |-> NotArmed]
  /\ cb = [k \in Slots |-> NoCallback]
  /\ planner = Idle /\ loader = Idle /\ cursor = 0 /\ io = 0
  /\ scene \in Scenarios
  /\ disk \in [Timers -> scene.disk]
  /\ running = TRUE
  /\ wall = 1 /\ mono = 0 /\ started = 0 /\ signal = FALSE
  /\ arms = 0 /\ ids = 0 /\ faults = 0 /\ jumps = {}

Next ==
  \/ \E n \in scene.timers, s \in scene.specs : Arm(n, s)
  \/ \E keep \in SUBSET Timers : Retain(keep)
  \/ \E s \in scene.specs : UnitActive(s.unit)
  \/ Loop
  \/ ClockChanged
  \/ PlanPick \/ PlanPublish
  \/ LoadPick \/ LoadBegin \/ \E ok \in BOOLEAN : LoadEnd(ok)
  \/ \E k \in Slots :
       \/ PersistBegin(k)
       \/ \E ok, wrote \in BOOLEAN : PersistEnd(k, ok, wrote)
       \/ Ignored(k) \/ Retry(k) \/ \E success \in BOOLEAN : RecordResult(k, success)
       \/ ApplyResult(k)
       \/ CallbackEnd(k)
  \/ Tick \/ \E t \in 1..MaxTime : Jump(t)
  \/ Stop \/ Restart \/ \E wrote \in BOOLEAN : Crash(wrote)

Spec == Init /\ [][Next]_vars

(* The loop's goroutine and the workers run on; the manager answers every  *)
(* callback, since a start is bounded; the host reports a clock change.    *)
Progress ==
  \/ Loop \/ ClockChanged \/ PlanPick \/ PlanPublish
  \/ LoadPick \/ LoadBegin \/ LoadEnd(TRUE)
  \/ \E k \in Slots :
       \/ PersistBegin(k) \/ PersistEnd(k, TRUE, TRUE) \/ Retry(k)
       \/ RecordResult(k, TRUE) \/ RecordResult(k, FALSE)
       \/ ApplyResult(k) \/ CallbackEnd(k)

FairSpec == Spec /\ WF_vars(Progress)

-----------------------------------------------------------------------------
(* Properties *)

Ready(n) == Armed(n) /\ ~armed[n].loading /\ ~armed[n].failed

(* "successful persistence precedes activation dispatch"                   *)
(* (state_file_windows.go): while the manager runs the activation of a     *)
(* current arm, the intent with that identity is on disk, so a crash       *)
(* delivers it again.                                                      *)
IntentDurable ==
  \A k \in Slots :
    /\ cb[k].pc = "fire" /\ cb[k].id # 0
    /\ HasToken(cb[k].name, cb[k].token)
    => disk[cb[k].name].act.id = cb[k].id

(* A pending activation is never forgotten silently: its callback is out,  *)
(* a retry is scheduled, or the timer shows a storage error (the error     *)
(* consume's goroutine sets when no outcome was recorded).                 *)
PendingAccounted ==
  \A n \in Timers :
    Ready(n) /\ armed[n].rt.act.result = "pending" =>
      armed[n].retry # NoRetry \/ armed[n].firing

(* One arm never has two callbacks in the manager at a time: "firing" is   *)
(* set until the callback has ended, whatever reschedules the arm.         *)
OneCallbackPerArm ==
  \A j, k \in Slots :
    /\ cb[j].pc # "free" /\ cb[k].pc # "free"
    /\ cb[j].name = cb[k].name /\ cb[j].token = cb[k].token
    => j = k

(* A ready arm with a deadline is on the heap and nothing else is: Status  *)
(* shows the next trigger from the arm, the loop sleeps on the heap.       *)
HeapMatchesStatus ==
  \A n \in Timers : running /\ Armed(n) =>
    /\ armed[n].ok <=> armed[n].queued
    /\ armed[n].queued => Ready(n) /\ ~armed[n].planning

(* A persistent calendar skips no instant: once its schedule is accepted,  *)
(* an instant after the last run that has passed makes it due, whether it  *)
(* passed before the search, while the search ran, or in a clock change.   *)
(* Only an instant equal to the time the search observed waits for the     *)
(* next one: Next and Previous are both strict.                            *)
NoInstantSkipped ==
  \A n \in Timers :
    LET a == armed[n]
    IN  Ready(n) /\ ~a.planning /\ ~a.firing /\ a.retry = NoRetry
          /\ Persists(a.spec) /\ a.rt.lastActual # 0 =>
        \A i \in UNION a.spec.cals :
          a.rt.lastActual < i /\ i < wall /\ i # a.seen => Due(a)

(* ClockChanged drops no occurrence that is due, not even a non-persistent *)
(* one that found no free callback: it fires or stays due.                 *)
DueKept ==
  \A n \in Timers :
    signal /\ ~signal' /\ n \in Poppable =>
      armed[n]'.firing \/ (armed[n]'.queued /\ Due(armed[n])')
DueSurvivesClockChange == [][DueKept]_vars

(* An outcome on disk is final: no write that was delayed behind a newer   *)
(* one turns a recorded result of the same activation back into pending.   *)
OutcomeKept ==
  \A n \in Timers :
    disk[n].act.result \in {"success", "failed"} =>
      \/ disk'[n].act.id # disk[n].act.id
      \/ disk'[n].act.result = disk[n].act.result
OutcomesFinal == [][OutcomeKept]_vars

(* A timer that is due, loading or being planned does not stay so: it      *)
(* fires, becomes ready, or is disarmed.                                   *)
Unsettled(n) == /\ Armed(n) /\ running
                /\ armed[n].loading \/ armed[n].planning \/ n \in Poppable
TimersSettle == \A n \in Timers : []<>~Unsettled(n)

(* "Existing FiredBoot/FiredStartup and last unit-active time are kept so  *)
(* refresh does not re-fire one-shot relatives" (Arm): a relative trigger  *)
(* that fired stays fired for as long as the same timer stays armed.       *)
FiredStays ==
  \A n \in Timers :
    Armed(n) /\ armed[n].rt.firedStartup =>
      \/ armed'[n] = NotArmed
      \/ armed'[n].obj # armed[n].obj \/ armed'[n].rt.firedStartup
FiredKept == [][FiredStays]_vars
=============================================================================
