----------------------------- MODULE Operations -----------------------------
(***************************************************************************)
(* The manager as the owner of accepted work: admission of start, stop and *)
(* restart transactions, the starts that join one in flight, the operation *)
(* records and their history, cancellation and deadlines, the stops that   *)
(* BindsTo= causes, the reload of the unit directory and the shutdown pass. *)
(* (manager.go, operations.go, operation_lifetime.go,                      *)
(* lifecycle_operations.go, start_coalescing.go, start_admission.go,       *)
(* restart_intent.go, stop_plan.go, lifecycle_bound.go, reload.go,         *)
(* lifecycle_config.go, enable.go, shutdown.go.)                           *)
(*                                                                         *)
(* What UnitLifecycle says of one unit is kept to what these parts see: a  *)
(* unit is a Type=simple service without Restart=, its definition is the   *)
(* set of its BindsTo= peers (each also in After=), and a launch is        *)
(* accepted, creates its process and publishes.  A step is what happens    *)
(* under one hold of Manager.mu, or one return of a native call.  A plan   *)
(* is executed member by member, which for chains is what StartExecutor    *)
(* and StopExecutor do.                                                    *)
(***************************************************************************)
EXTENDS LifecycleState, Sequences, FiniteSets

CONSTANTS
  Names,         \* the units, 1..n: their names, in order
  HistoryLimit,  \* completedOperationLimit
  Scenarios      \* [dir, dirs, configs, calls, starts, stops, bound, shut]: the units
                 \* loaded at first, the directories an administrator may
                 \* write, the calls of the clients, the admission limits,
                 \* the budgets of the environment, whether it shuts down

VARIABLES
  scene, bound,
  closed,       \* Manager.closed
  revision,     \* configSequence
  dir, links,   \* on disk: the unit files and the enabled/ links
  graph,        \* the accepted graph: [defs, wanted]
  units, recs,  \* Manager.units, as indexes into the records ever made
  tasks,        \* the accepted operations, by operation sequence number
  completed,    \* completedOperations
  flights,      \* startFlights (0: none)
  active,       \* activeStarts, activeStops
  boundStops,   \* boundStops
  gate,         \* unitOps: the holder of each unit's gate (0: free)
  clients,      \* the callers of Start, Stop and Restart, and one watch
  watcher,      \* watch(): what it does about each unit's dead process
  config,       \* the holder of configMu: Reload, Enable or Disable
  down,         \* the shutdown
  missed        \* history: units launched while their peer was being lost

vars == <<scene, bound, closed, revision, dir, links, graph, units, recs, tasks,
          completed, flights, active, boundStops, gate, clients, watcher, config, down,
          missed>>
world == <<scene, dir, links>>
settings == <<revision, graph, units, config>>
(* Everything but the clients.                                             *)
others == <<world, settings, bound, closed, recs, tasks, completed, flights, active,
            boundStops, gate, watcher, down, missed>>

-----------------------------------------------------------------------------
(* Unit records.                                                           *)
NewRecord(name, def) ==
  [name |-> name, def |-> def, inv |-> <<>>, state |-> "inactive", sub |-> "none",
   stopping |-> FALSE, epoch |-> 0, gen |-> 0, ops |-> 0, proc |-> "none",
   cleanup |-> FALSE, unavailable |-> FALSE, enabled |-> FALSE]

Loaded == {u \in Names : units[u] # 0}
Rt(u) == recs[units[u]]
Owned(r) == IF r.inv = <<>> THEN r.def ELSE r.inv[1]

(* What a record still holds: its process, or what is left to clean up.    *)
StillHeld(r) == r.proc # "none" \/ r.cleanup

(* retainWithoutConfig, for a service that is no native proxy.             *)
RetainWithoutConfig(r) == StillHeld(r) \/ r.ops # 0

Current(o) == units[o.name] = o.rec /\ recs[o.rec].gen = o.gen

(* The definitions stopGraphLocked builds its graph from.                  *)
StopDef(R, u) ==
  LET r == R[units[u]]
  IN  IF r.state # "inactive" \/ RetainWithoutConfig(r) THEN Owned(r) ELSE r.def

(* The members of a plan and its order: TransactionPlan has the algorithm. *)
Closed(S, next(_)) == \A u \in S : next(u) \subseteq S
Closure(roots, all, next(_)) ==
  {u \in all : \A S \in SUBSET all : roots \subseteq S /\ Closed(S, next) => u \in S}
Ordered(S, first(_)) ==
  CHOOSE q \in [1..Cardinality(S) -> S] :
    /\ \A i, j \in DOMAIN q : i # j => q[i] # q[j]
    /\ \A i, j \in DOMAIN q : q[i] \in first(q[j]) => i < j
PlanStop(R, roots) ==
  LET binders(u) == {v \in Loaded : u \in StopDef(R, v)}
  IN  Ordered(Closure(roots, Loaded, binders), binders)
PlanShutdown(R, roots) ==
  LET peers(u) == StopDef(R, u) \cap Loaded
      binders(u) == {v \in Loaded : u \in peers(v)}
  IN  Ordered(Closure(Closure(roots, Loaded, binders), Loaded, peers), binders)
PlanStart(roots) ==
  LET peers(u) == graph.defs[u]
      all == DOMAIN graph.defs
      reach == Closure(roots, all, LAMBDA u : peers(u) \cap all)
  IN  IF \E u \in reach : ~(peers(u) \subseteq all) THEN <<>> ELSE Ordered(reach, peers)

-----------------------------------------------------------------------------
(* disarmStartLocked, for every member of a scope.                         *)
Disarmed(R, S) ==
  [i \in DOMAIN R |->
     IF \E u \in S : units[u] = i
     THEN [R[i] EXCEPT !.stopping = TRUE, !.epoch = @ + 1] ELSE R[i]]

Counted(R, S, n) ==
  [i \in DOMAIN R |-> IF i \in S THEN [R[i] EXCEPT !.ops = @ + n] ELSE R[i]]

(* History: a stop of the members of S overtakes the starts admitted before. *)
Overtaken(T, S) ==
  [i \in DOMAIN T |-> [T[i] EXCEPT !.planned = [u \in DOMAIN @ |->
     IF u \in S THEN [@[u] EXCEPT !.over = TRUE] ELSE @[u]]]]

(* Mutant: a start that ends wakes nobody.                                 *)
SignalNobody(C) == C

(* signalStartCapacityLocked: every watch waiting for a start slot wakes.  *)
SignalStartCapacity(C) == [c \in DOMAIN C |-> [C[c] EXCEPT !.woken = TRUE]]

(* Mutant: any pending stop of the unit will do.                           *)
PendingAny(R, u) == \E b \in boundStops : b.name = u

(* The pending stop of a unit is kept when it is still about this record,  *)
(* generation and stop epoch.                                              *)
Pending(R, u) ==
  \E b \in boundStops : /\ b.name = u /\ b.rec = units[u]
                        /\ b.gen = R[units[u]].gen /\ b.epoch = R[units[u]].epoch

(* Mutant: a second loss of the peer replaces the entry and keeps both counts. *)
ReplacedCounts(R, S) == Counted(R, {units[u] : u \in S}, 1)

(* The entry being replaced gives its count back.                          *)
EntryCounts(R, S) ==
  Counted(Counted(R, {b.rec : b \in {c \in boundStops : c.name \in S}}, -1),
          {units[u] : u \in S}, 1)

(* queueBoundStopsLocked, given the records at that point: what becomes of *)
(* the records and the pending stops.                                      *)
QueueBoundStops(R, peer) ==
  LET live(u) == R[units[u]].state \in {"active", "activating"}
      roots == {u \in Loaded \ {peer} :
                  live(u) /\ ~R[units[u]].stopping /\ peer \in Owned(R[units[u]])}
      plan == PlanStop(R, roots)
      owned(u) == live(u) \/ R[units[u]].proc # "none" \/ R[units[u]].cleanup
      takes == {u \in Loaded : (\E i \in DOMAIN plan : plan[i] = u) /\ owned(u) /\ ~Pending(R, u)}
      R2 == Disarmed(EntryCounts(R, takes), takes)
  IN  IF closed \/ roots = {} THEN [recs |-> R, stops |-> boundStops, scope |-> {}]
      ELSE [recs  |-> R2, scope |-> takes,
            stops |-> {b \in boundStops : b.name \notin takes} \cup
                      {[name |-> u, rec |-> units[u], gen |-> R2[units[u]].gen,
                        epoch |-> R2[units[u]].epoch, def |-> Owned(R2[units[u]])]
                         : u \in takes}]

(* History: the launches accepted and not yet published that bind to peer. *)
Launching(peer) ==
  {u \in Loaded : \E i \in DOMAIN tasks :
     /\ tasks[i].pc \in {"invoke", "adopt", "publish"} /\ tasks[i].plan[tasks[i].i] = u
     /\ peer \in tasks[i].planned[u].def /\ Rt(u).state \notin {"active", "activating"}}

(* History: the units bound to peer that run and that no stop is to reach. *)
Bound(peer) ==
  {u \in Loaded : Rt(u).state = "active" /\ ~Rt(u).stopping /\ peer \in Owned(Rt(u))}

Lose(R, T, peer) ==
  LET q == QueueBoundStops(R, peer)
  IN  /\ recs' = q.recs /\ boundStops' = q.stops /\ tasks' = Overtaken(T, q.scope)
      /\ missed' = missed \cup Launching(peer)
      /\ clients' = IF q.scope = {} THEN clients ELSE SignalStartCapacity(clients)

Apply(R, T) ==
  /\ recs' = R /\ tasks' = T /\ UNCHANGED <<boundStops, missed, clients>>

(* boundPeersActiveLocked.                                                 *)
BoundPeersActive(def) ==
  \A p \in def : /\ p \in Loaded
                 /\ Rt(p).state = "active" /\ ~Rt(p).stopping /\ ~Rt(p).cleanup

-----------------------------------------------------------------------------
(* Accepted operations.                                                    *)
Task(act, root, stop, plan, planned, keep, intent, members) ==
  [act |-> act, root |-> root, stop |-> stop, plan |-> plan, planned |-> planned,
   keep |-> keep, intent |-> intent, members |-> members, state |-> "running",
   revision |-> revision,
   i |-> 1, err |-> FALSE, out |-> "ok", fails |-> {}, cancelled |-> FALSE, cut |-> {},
   owner |-> [name |-> root, rec |-> 0, gen |-> 0],
   pc |-> IF stop # <<>> THEN "stop" ELSE "start"]

Planned(R, u) ==
  [rec |-> units[u], epoch |-> R[units[u]].epoch, gen |-> R[units[u]].gen,
   def |-> Rt(u).def, completed |-> FALSE, launched |-> FALSE, lgen |-> 0,
   over |-> FALSE]

Members(q) == {q[i] : i \in DOMAIN q}
Times(q, x) == Cardinality({i \in DOMAIN q : q[i] = x})
Kept(R, q, sign) == [i \in DOMAIN R |-> [R[i] EXCEPT !.ops = @ + sign * Times(q, i)]]
RecordsOf(q) == [i \in DOMAIN q |-> units[q[i]]]

(* activeOperations, which the shutdown pass is not part of.               *)
Running(i) == tasks[i].state = "running" /\ tasks[i].act # "shutdown"

Answer(c, reply) ==
  clients' = [clients EXCEPT ![c].pc = "done", ![c].reply = reply]

(* The record, the stop epoch and the revision of the flight are current.  *)
Joins(u) ==
  /\ flights[u] # 0
  /\ LET t == tasks[flights[u]]
     IN  /\ t.planned[u].rec = units[u]
         /\ t.planned[u].epoch = Rt(u).epoch
         /\ t.revision = revision

(* planRestartLocked captures the epoch the restart's own stop will give.  *)
Intent(u, R) == [rec |-> units[u], epoch |-> R[units[u]].epoch]

(* startOperation: the whole of admission, under one lock.                 *)
AdmitStart(c) ==
  LET u == scene.calls[c].unit
      restart == scene.calls[c].act = "restart"
      stop == IF restart THEN PlanStop(recs, {u}) ELSE <<>>
      roots == {u} \cup {v \in Members(stop) : Rt(v).state \in {"active", "activating"}}
      plan == PlanStart(roots)
      R == Disarmed(recs, Members(stop))
      captured == [v \in Members(plan) |->
                    IF v \in Members(stop) THEN [Planned(R, v) EXCEPT !.gen = @ + 1]
                    ELSE Planned(R, v)]
      keep == RecordsOf(plan) \o RecordsOf(stop)
      intent == [v \in Members(stop) |-> Intent(v, R)]
      t == Task(scene.calls[c].act, u, stop, plan, captured, keep, intent, {})
  IN  /\ recs' = Kept(R, keep, 1)
      /\ tasks' = Append(Overtaken(tasks, Members(stop)), t)
      /\ active' = [active EXCEPT !.starts = @ + 1]
      /\ flights' = IF scene.calls[c].act = "start"
                    THEN [flights EXCEPT ![u] = Len(tasks) + 1] ELSE flights
      /\ clients' = [(IF restart THEN SignalStartCapacity(clients) ELSE clients)
                     EXCEPT ![c].pc = "wait", ![c].op = Len(tasks) + 1]
      /\ UNCHANGED <<world, settings, bound, closed, completed, boundStops, gate,
                     watcher, down, missed>>

Refuse(c) ==
  /\ Answer(c, "refused")
  /\ UNCHANGED others

Start(c) ==
  LET u == scene.calls[c].unit
      act == scene.calls[c].act
  IN  /\ clients[c].pc = "idle" /\ act \in {"start", "restart", "watch"}
      /\ IF closed \/ u \notin Loaded THEN Refuse(c)
         ELSE IF act = "start" /\ Joins(u)
         THEN /\ clients' = [clients EXCEPT ![c].pc = "wait", ![c].op = flights[u],
                               ![c].stale = tasks[flights[u]].planned[u].over]
              /\ UNCHANGED others
         ELSE IF active.starts >= scene.starts
         THEN IF act = "watch"
              THEN /\ clients' = [clients EXCEPT ![c].pc = "full"]
                   /\ UNCHANGED others
              ELSE Refuse(c)
         ELSE IF PlanStart({u}) = <<>> THEN Refuse(c)
         ELSE AdmitStart(c)

(* startFromWatch: a round begins by taking the channel of the next change *)
(* of capacity, and ends there when the start found no slot.               *)
WatchRound(c) ==
  /\ scene.calls[c].act = "watch"
  /\ \/ clients[c].pc = "fired" \/ (clients[c].pc = "full" /\ clients[c].woken)
  /\ clients' = [clients EXCEPT ![c].woken = FALSE,
                                ![c].pc = IF closed THEN "done" ELSE "idle"]
  /\ UNCHANGED others

(* stopTransaction: the whole scope is disarmed before any member stops.   *)
Stop(c) ==
  LET u == scene.calls[c].unit
      plan == PlanStop(recs, {u})
      t == Task("stop", u, plan, <<>>, <<>>, RecordsOf(plan), <<>>, {})
  IN  /\ clients[c].pc = "idle" /\ scene.calls[c].act = "stop"
      /\ IF u \notin Loaded \/ active.stops >= scene.stops THEN Refuse(c)
         ELSE /\ recs' = Kept(Disarmed(recs, Members(plan)), RecordsOf(plan), 1)
              /\ tasks' = Append(Overtaken(tasks, Members(plan)), t)
              /\ active' = [active EXCEPT !.stops = @ + 1]
              /\ clients' = [SignalStartCapacity(clients)
                             EXCEPT ![c].pc = "wait", ![c].op = Len(tasks) + 1]
              /\ UNCHANGED <<world, settings, bound, closed, completed, flights,
                             boundStops, gate, watcher, down, missed>>

(* startFlight.wait: the outcome, or the operation's cancellation.         *)
Reply(c) ==
  /\ clients[c].pc = "wait"
  /\ LET t == tasks[clients[c].op]
     IN  \/ t.pc = "done" /\ Answer(c, IF t.err \/ t.cancelled THEN "failed" ELSE "ok")
         \/ t.cancelled /\ Answer(c, "canceled")
  /\ UNCHANGED others

(* The caller's own context ends: the operation goes on.                   *)
GiveUp(c) ==
  /\ clients[c].pc = "wait" /\ bound.leaves > 0
  /\ bound' = [bound EXCEPT !.leaves = @ - 1]
  /\ Answer(c, "gave up")
  /\ UNCHANGED <<world, settings, closed, recs, tasks, completed, flights, active,
                 boundStops, gate, watcher, down, missed>>

-----------------------------------------------------------------------------
(* The worker of an operation.                                             *)
Put(i, t) == [tasks EXCEPT ![i] = t]
Free(u) == [gate EXCEPT ![u] = 0]
rest == <<world, settings, closed, completed, flights, active, watcher, down>>

(* rootError: ExecuteStop answers for the units it was asked to stop, not  *)
(* for the dependents it stops before them.                                *)
RootFailed(t, u) == t.act \in {"stop", "restart"} => u = t.root

(* After a member: the next one, the start phase of a restart, or the end. *)
AfterStop(t) ==
  IF t.i < Len(t.stop) THEN [t EXCEPT !.i = @ + 1, !.pc = "stop"]
  ELSE IF t.plan # <<>> /\ ~t.err THEN [t EXCEPT !.i = 1, !.pc = "start"]
  ELSE [t EXCEPT !.pc = "finish"]
AfterStart(t, u, failed) ==
  LET n == IF failed THEN [t EXCEPT !.err = TRUE, !.fails = @ \cup {u}] ELSE t
  IN  IF t.i < Len(t.plan) THEN [n EXCEPT !.i = @ + 1, !.pc = "start"]
      ELSE [n EXCEPT !.pc = "finish"]

(* acceptStopCleanup.                                                      *)
StopAccepted(r) ==
  Step([r EXCEPT !.ops = @ + 1, !.stopping = TRUE, !.gen = @ + 1,
                 !.cleanup = @ \/ r.proc # "none"], "stop-requested")

(* stopBoundMember checks that the unit is still the one that was captured. *)
StillWanted(t, u) ==
  t.act = "bound" =>
    \A b \in t.members : b.name = u => Current(b) /\ Rt(u).epoch = b.epoch

(* The gate of the next member to stop.  The shutdown pass disarms each    *)
(* member again as it comes to it.                                         *)
StopMember(i) ==
  LET t == tasks[i]
      u == t.stop[t.i]
      R == IF t.act = "shutdown" THEN Disarmed(recs, {u}) ELSE recs
  IN  /\ t.pc = "stop"
      /\ \/ /\ t.cancelled
            /\ Apply(R, Put(i, AfterStop([t EXCEPT !.err = @ \/ RootFailed(t, u)])))
            /\ UNCHANGED gate
         \/ /\ ~t.cancelled /\ gate[u] = 0
            /\ IF StillWanted(t, u)
               THEN /\ recs' = [R EXCEPT ![units[u]] = StopAccepted(@)]
                    /\ tasks' = Put(i, [t EXCEPT !.pc = "kill", !.owner =
                                [name |-> u, rec |-> units[u], gen |-> Rt(u).gen + 1]])
                    /\ gate' = [gate EXCEPT ![u] = i]
                    /\ missed' = missed \cup Launching(u) \cup Bound(u)
                    /\ UNCHANGED <<boundStops, clients>>
               ELSE Apply(R, Put(i, AfterStop(t))) /\ UNCHANGED gate
      /\ UNCHANGED <<rest, bound>>

(* The native stop returns; applyStopCleanup publishes what it proved and  *)
(* the gate is released before the journal is waited for.                  *)
StopNative(i) ==
  LET t == tasks[i]
      o == t.owner
      r == recs[o.rec]
      expired == t.cancelled /\ t.pc = "kill"
  IN  /\ t.pc \in {"kill", "late"}
      /\ \E ok \in BOOLEAN :
           /\ ~ok => r.proc # "none" /\ (expired \/ bound.faults > 0)
           /\ bound' = IF ok \/ expired THEN bound ELSE [bound EXCEPT !.faults = @ - 1]
           /\ Apply(IF ~Current(o) THEN recs
                    ELSE [recs EXCEPT ![o.rec] =
                            IF ok THEN [@ EXCEPT !.cleanup = FALSE, !.proc = "none", !.inv = <<>>]
                            ELSE [@ EXCEPT !.cleanup = TRUE]],
                    Put(i, [t EXCEPT !.pc = IF @ = "kill" THEN "drain" ELSE "drained",
                                     !.out = IF ok THEN "ok" ELSE "err"]))
           /\ gate' = Free(o.name)
      /\ UNCHANGED rest

(* The journal has been waited for; applyStopCompletion.                   *)
StopCompletion(i) ==
  LET t == tasks[i]
      o == t.owner
      failed == t.out = "err" \/ (t.cancelled /\ t.pc = "drain")
      r == Counted(recs, {o.rec}, -1)[o.rec]
  IN  /\ t.pc \in {"drain", "drained"}
      /\ Apply([recs EXCEPT ![o.rec] =
                  IF Current(o) THEN Step(r, IF failed THEN "start-failed" ELSE "stop-finished")
                  ELSE r],
               Put(i, IF t.pc = "drained" THEN [t EXCEPT !.pc = "complete"]
                      ELSE AfterStop([t EXCEPT !.err = @ \/ (failed /\ RootFailed(t, o.name))])))
      /\ UNCHANGED <<rest, bound, gate>>

(* restartOrigin.validLocked.                                              *)
OriginValid(t) ==
  \A u \in DOMAIN t.intent :
    /\ units[u] = t.intent[u].rec
    /\ Rt(u).epoch = t.intent[u].epoch /\ ~Rt(u).unavailable

(* applyStartCompletionLocked and applyStartOutcomeLocked for member u of  *)
(* task i, whose record afterwards is T[i].                                *)
StartCompletion(i, u, out, next) ==
  LET t == tasks[i]
      p == t.planned[u]
      T == Put(i, [next EXCEPT !.planned[u].completed = TRUE])
      r == recs[p.rec]
      state == CASE out = "ok" -> "active" [] out = "skip" -> "inactive" [] OTHER -> "failed"
      dropped ==
        \/ units[u] # p.rec \/ r.epoch # p.epoch \/ closed
        \/ ~p.launched /\ ~OriginValid(t)
        \/ state = "failed" /\ r.state = "active" /\ ~p.launched
        \/ state = "active" /\ r.stopping
        \/ /\ state = "inactive" /\ ~r.stopping
           /\ r.state \in {"active", "activating"} \/ r.proc # "none"
      R == [recs EXCEPT ![p.rec] = PublishStartOutcome(@, state)]
  IN  IF dropped THEN Apply(recs, T)
      ELSE IF state # "active" /\ ~r.stopping THEN Lose(R, T, u)
      ELSE Apply(R, T)

(* A member whose requirement failed, or whose operation is cancelled, is  *)
(* rejected without its gate (applyStartRejection).                        *)
RejectMember(i) ==
  LET t == tasks[i]
      u == t.plan[t.i]
      p == t.planned[u]
      next == AfterStart(t, u, TRUE)
  IN  /\ t.pc = "start"
      /\ t.cancelled \/ p.def \cap t.fails # {}
      /\ IF units[u] = p.rec /\ recs[p.rec].gen = p.gen
         THEN StartCompletion(i, u, "err", next)
         ELSE Apply(recs, Put(i, next))
      /\ UNCHANGED <<rest, bound, gate>>

EnterGate(i) ==
  LET t == tasks[i]
      u == t.plan[t.i]
  IN  /\ t.pc = "start" /\ ~t.cancelled /\ t.planned[u].def \cap t.fails = {}
      /\ gate[u] = 0 /\ gate' = [gate EXCEPT ![u] = i]
      /\ Apply(recs, Put(i, [t EXCEPT !.pc = "launch"]))
      /\ UNCHANGED <<rest, bound>>

(* Mutant: only a replaced record supersedes an admitted start.            *)
SupersededByReload(t, u) == units[u] # t.planned[u].rec

(* A stop admitted after the start, or a restart whose intent is gone.     *)
Superseded(t, u) ==
  \/ units[u] # t.planned[u].rec
  \/ Rt(u).epoch # t.planned[u].epoch
  \/ ~OriginValid(t)

(* acceptLaunch.                                                           *)
AcceptLaunch(i) ==
  LET t == tasks[i]
      u == t.plan[t.i]
      out == IF closed \/ Superseded(t, u) \/ Rt(u).cleanup THEN "err"
             ELSE IF Rt(u).proc = "live" THEN "ok"
             ELSE IF Rt(u).unavailable THEN "err"
             ELSE IF ~BoundPeersActive(t.planned[u].def) THEN "skip" ELSE "launch"
  IN  /\ t.pc = "launch"
      /\ IF out # "launch"
         THEN Apply(recs, Put(i, [t EXCEPT !.pc = "publish", !.out = out]))
         ELSE /\ recs' = [recs EXCEPT ![units[u]] =
                            [@ EXCEPT !.stopping = FALSE, !.ops = @ + 1, !.gen = @ + 1,
                                      !.cleanup = Rt(u).proc # "none"]]
              /\ tasks' = Put(i, [t EXCEPT !.pc = "invoke", !.planned[u].launched = TRUE,
                                           !.planned[u].lgen = Rt(u).gen + 1])
              /\ missed' = missed \ {u}
              /\ UNCHANGED <<boundStops, clients>>
      /\ UNCHANGED <<rest, bound, gate>>

LaunchOwner(t, u) == [name |-> u, rec |-> t.planned[u].rec, gen |-> t.planned[u].lgen]

(* What is left of the previous invocation is cleaned up (applyPreviousCleanup) *)
(* and the definition of this one is recorded (recordInvocation).          *)
Invoke(i) ==
  LET t == tasks[i]
      u == t.plan[t.i]
      p == t.planned[u]
      lost == recs[p.rec].proc # "none" /\ (closed \/ ~Current(LaunchOwner(t, u)))
  IN  /\ t.pc = "invoke"
      /\ IF lost
         THEN Apply(Counted(recs, {p.rec}, -1), Put(i, [t EXCEPT !.pc = "publish", !.out = "err"]))
         ELSE Apply([recs EXCEPT ![p.rec] = [@ EXCEPT !.proc = "none", !.inv = <<p.def>>,
                                               !.cleanup = IF recs[p.rec].proc = "none" THEN @ ELSE FALSE]],
                    Put(i, [t EXCEPT !.pc = "adopt"]))
      /\ UNCHANGED <<rest, bound, gate>>

(* The process is created, or is not; a creation that a stop or the close  *)
(* overtook is adopted first and then killed.                              *)
AdoptProcess(i) ==
  LET t == tasks[i]
      u == t.plan[t.i]
      p == t.planned[u]
      r == Counted(recs, {p.rec}, -1)[p.rec]
      end(s, out) == Apply([recs EXCEPT ![p.rec] = s],
                           Put(i, [t EXCEPT !.pc = "publish", !.out = out]))
  IN  /\ t.pc = "adopt"
      /\ \/ bound.faults > 0 /\ end(r, "err") /\ bound' = [bound EXCEPT !.faults = @ - 1]
         \/ /\ ~closed /\ ~r.stopping /\ Current(LaunchOwner(t, u))
            /\ end([r EXCEPT !.proc = "live"], "ok") /\ UNCHANGED bound
         \/ /\ closed \/ r.stopping \/ ~Current(LaunchOwner(t, u))
            /\ \/ end([r EXCEPT !.cleanup = FALSE], "err") /\ UNCHANGED bound
               \/ /\ bound.faults > 0 /\ bound' = [bound EXCEPT !.faults = @ - 1]
                  /\ end([r EXCEPT !.proc = "live", !.cleanup = TRUE], "err")
      /\ UNCHANGED <<rest, gate>>

OwnsLaunch(t, u) ==
  t.planned[u].launched /\ t.planned[u].lgen # 0 /\ Current(LaunchOwner(t, u))

Released(i, u) == IF gate[u] = i THEN Free(u) ELSE gate

(* publishOperationStart; a cancelled operation stops the launch it still  *)
(* owns, with the gate in its hands, before it says so.                    *)
PublishStart(i) ==
  LET t == tasks[i]
      u == t.plan[t.i]
      o == LaunchOwner(t, u)
  IN  /\ t.pc = "publish"
      /\ IF ~t.cancelled
         THEN /\ StartCompletion(i, u, t.out, AfterStart(t, u, t.out = "err"))
              /\ gate' = Released(i, u)
         ELSE IF OwnsLaunch(t, u)
         THEN /\ Apply([recs EXCEPT ![o.rec] = StopAccepted(@)],
                       Put(i, [t EXCEPT !.pc = "late", !.owner = [o EXCEPT !.gen = @ + 1]]))
              /\ UNCHANGED gate
         ELSE /\ Apply(recs, Put(i, [t EXCEPT !.pc = "complete"]))
              /\ UNCHANGED gate
      /\ UNCHANGED <<rest, bound>>

CompleteCancelled(i) ==
  LET t == tasks[i]
      u == t.plan[t.i]
  IN  /\ t.pc = "complete"
      /\ StartCompletion(i, u, "err", AfterStart(t, u, TRUE))
      /\ gate' = Released(i, u)
      /\ UNCHANGED <<rest, bound>>

-----------------------------------------------------------------------------
(* The end of an operation, its history and its cancellation.              *)

(* finishOperationLocked drops the operation that completed first.         *)
Evict(done) == IF Len(done) > HistoryLimit THEN {Head(done)} ELSE {}

(* finishOperationTask: the slot, the counts and the terminal record, in   *)
(* one decision.                                                           *)
Finish(i) ==
  LET t == tasks[i]
      done == Append(completed, i)
      out == Evict(done)
      end == IF t.err \/ t.cancelled THEN "failed" ELSE "succeeded"
      start == t.act \in {"start", "restart", "watch"}
  IN  /\ t.pc = "finish" /\ t.act # "shutdown"
      /\ tasks' = [j \in DOMAIN tasks |->
                     IF j \in out THEN [tasks[j] EXCEPT !.state = "evicted"]
                     ELSE IF j = i THEN [t EXCEPT !.pc = "flight", !.state = end] ELSE tasks[j]]
      /\ completed' = IF out = {} THEN done ELSE Tail(done)
      /\ recs' = Counted(Kept(recs, t.keep, -1), {b.rec : b \in t.members}, -1)
      /\ active' = [starts |-> active.starts - (IF start THEN 1 ELSE 0),
                    stops  |-> active.stops - (IF t.act = "stop" THEN 1 ELSE 0)]
      /\ clients' = IF start THEN SignalStartCapacity(clients) ELSE clients
      /\ UNCHANGED <<world, settings, bound, closed, flights, boundStops, gate, watcher,
                     down, missed>>

(* finishStartFlight: the waiters get the outcome.                         *)
FinishFlight(i) ==
  /\ tasks[i].pc = "flight"
  /\ flights' = [u \in Names |-> IF flights[u] = i THEN 0 ELSE flights[u]]
  /\ Apply(recs, Put(i, [tasks[i] EXCEPT !.pc = "done"]))
  /\ UNCHANGED <<world, settings, bound, closed, completed, active, gate, watcher, down>>

(* cancelOperationLocked: members in flight are disarmed, finished ones    *)
(* keep running.  History: cut holds the former.                           *)
InFlight(t) ==
  {u \in DOMAIN t.planned :
     LET p == t.planned[u]
     IN  /\ ~p.completed /\ p.launched /\ units[u] = p.rec
         /\ recs[p.rec].gen = p.lgen /\ recs[p.rec].epoch = p.epoch}
CancelledRecs(R, S) ==
  [i \in DOMAIN R |->
     IF \E u \in S : units[u] = i
     THEN [R[i] EXCEPT !.stopping = TRUE, !.epoch = @ + 1,
                       !.cleanup = @ \/ R[i].proc # "none" \/ R[i].inv # <<>>]
     ELSE R[i]]
CancelTask(i) ==
  Apply(CancelledRecs(recs, InFlight(tasks[i])),
        [Overtaken(tasks, InFlight(tasks[i])) EXCEPT ![i].cancelled = TRUE,
                                                    ![i].cut = InFlight(tasks[i])])

(* CancelOperation, which no stop accepts.                                 *)
CancelOperation(i) ==
  /\ Running(i) /\ ~tasks[i].cancelled /\ tasks[i].act \in {"start", "restart", "watch"}
  /\ bound.cancels > 0 /\ bound' = [bound EXCEPT !.cancels = @ - 1]
  /\ CancelTask(i)
  /\ UNCHANGED <<rest, gate>>

(* The deadline of an operation, or of a shutdown pass, passes.            *)
Deadline(i) ==
  /\ tasks[i].state = "running" /\ ~tasks[i].cancelled
  /\ bound.deadlines > 0 /\ bound' = [bound EXCEPT !.deadlines = @ - 1]
  /\ CancelTask(i)
  /\ UNCHANGED <<rest, gate>>

-----------------------------------------------------------------------------
(* runBoundStops: one worker takes all that is pending as one stop.        *)
TakeBatch ==
  LET names == {b.name : b \in boundStops}
      def(u) == (CHOOSE b \in boundStops : b.name = u).def
      plan == Ordered(names, LAMBDA u : {v \in names : u \in def(v)})
  IN  /\ boundStops # {}
      /\ \A i \in DOMAIN tasks : tasks[i].act = "bound" => tasks[i].pc = "done"
      /\ tasks' = Append(tasks, Task("bound", plan[1], plan, <<>>, <<>>, <<>>, <<>>, boundStops))
      /\ boundStops' = {}
      /\ UNCHANGED <<world, settings, bound, closed, recs, completed, flights, active,
                     gate, clients, watcher, down, missed>>

-----------------------------------------------------------------------------
(* watch: a process dies; its watcher takes the gate, cleans up and applies *)
(* the exit.  A process that is "gone" is dead and has no watcher.         *)
Watchers == 100

Die(u) ==
  /\ u \in Loaded /\ Rt(u).proc = "live" /\ bound.deaths > 0
  /\ bound' = [bound EXCEPT !.deaths = @ - 1]
  /\ Apply([recs EXCEPT ![units[u]].proc = "dead"], tasks)
  /\ UNCHANGED <<rest, gate>>

unwatched == <<world, settings, closed, completed, flights, active, down>>

(* acceptProcessExitCleanup.                                               *)
AcceptExit(u) ==
  LET r == Rt(u)
      R == [recs EXCEPT ![units[u]] = IF r.cleanup THEN [@ EXCEPT !.proc = "gone"]
                                      ELSE [@ EXCEPT !.cleanup = TRUE]]
      quiet == r.stopping
  IN  /\ u \in Loaded /\ r.proc = "dead" /\ gate[u] = 0 /\ watcher[u].pc = "none"
      /\ IF quiet THEN Apply(R, tasks) ELSE Lose(R, tasks, u)
      /\ IF r.cleanup THEN UNCHANGED <<gate, watcher>>
         ELSE /\ gate' = [gate EXCEPT ![u] = Watchers]
              /\ watcher' = [watcher EXCEPT ![u] =
                    [pc |-> "clean", quiet |-> quiet,
                     owner |-> [name |-> u, rec |-> units[u], gen |-> r.gen]]]
      /\ UNCHANGED <<unwatched, bound>>

(* applyProcessExitCleanup.                                                *)
CleanExit(u) ==
  LET w == watcher[u]
      o == w.owner
      r == recs[o.rec]
  IN  /\ w.pc = "clean" /\ gate' = Free(u)
      /\ \/ /\ UNCHANGED bound
            /\ Apply([recs EXCEPT ![o.rec] = [@ EXCEPT !.proc = "none", !.cleanup = FALSE]], tasks)
            /\ watcher' = [watcher EXCEPT ![u].pc = "apply"]
         \/ /\ bound.faults > 0 /\ bound' = [bound EXCEPT !.faults = @ - 1]
            /\ watcher' = [watcher EXCEPT ![u].pc = "none"]
            /\ LET R == [recs EXCEPT ![o.rec] = [Step(@, "start-failed") EXCEPT !.proc = "gone"]]
               IN  IF r.stopping THEN Apply(R, tasks) ELSE Lose(R, tasks, u)
      /\ UNCHANGED unwatched

(* applyProcessExit, without Restart=.                                     *)
ApplyExit(u) ==
  LET w == watcher[u]
      R == [recs EXCEPT ![w.owner.rec] = Step(@, "main-exited")]
  IN  /\ w.pc = "apply"
      /\ watcher' = [watcher EXCEPT ![u].pc = "none"]
      /\ IF w.quiet \/ ~Current(w.owner) \/ recs[w.owner.rec].stopping
         THEN Apply(recs, tasks) ELSE Lose(R, tasks, u)
      /\ UNCHANGED <<unwatched, bound, gate>>

-----------------------------------------------------------------------------
(* Configuration: Reload, Enable and Disable, one at a time (configMu).    *)
idle == [pc |-> "idle", loaded |-> <<>>, links |-> {}, retained |-> {}, attempt |-> 0]
unconfigured == <<scene, bound, closed, recs, tasks, completed, flights, active, boundStops,
                  gate, clients, watcher, down, missed>>

(* The administrator writes the unit directory.                            *)
Edit(d) ==
  /\ bound.edits > 0 /\ bound' = [bound EXCEPT !.edits = @ - 1]
  /\ d # dir /\ dir' = d
  /\ UNCHANGED <<scene, links, settings, closed, recs, tasks, completed, flights, active,
                 boundStops, gate, clients, watcher, down, missed>>

(* beginConfigWork; the links are written before the graph is built.       *)
BeginConfig(kind, u) ==
  /\ config.pc = "idle" /\ bound.configs > 0 /\ ~closed
  /\ kind # "reload" => u \in Loaded
  /\ bound' = [bound EXCEPT !.configs = @ - 1]
  /\ links' = CASE kind = "enable" -> links \cup {u}
               [] kind = "disable" -> links \ {u} [] OTHER -> links
  /\ config' = [idle EXCEPT !.links = links',
                            !.pc = IF kind = "reload" THEN "parse" ELSE "build"]
  /\ UNCHANGED <<scene, dir, revision, graph, units, closed, recs, tasks, completed,
                 flights, active, boundStops, gate, clients, watcher, down, missed>>

(* parseUnitDir and readEnabledLinks: one invalid file rejects the whole   *)
(* directory.                                                              *)
ParseUnits ==
  /\ config.pc = "parse"
  /\ config' = IF dir.ok THEN [config EXCEPT !.pc = "capture", !.loaded = dir.defs, !.links = links]
               ELSE idle
  /\ UNCHANGED <<unconfigured, dir, links, revision, graph, units>>

(* The records that ownership keeps although their definition is gone.     *)
Retained(loaded) == {u \in Loaded \ DOMAIN loaded : RetainWithoutConfig(Rt(u))}

(* captureReloadOwnershipLocked; the graph is then built without the lock. *)
CaptureOwnership ==
  /\ config.pc = "capture"
  /\ config' = [config EXCEPT !.pc = "publish", !.retained = Retained(config.loaded)]
  /\ UNCHANGED <<unconfigured, dir, links, revision, graph, units>>

(* reloadOwnershipCurrentLocked.                                           *)
OwnershipCurrent == Retained(config.loaded) = config.retained

(* replaceLocked and acceptConfigRevisionLocked.                           *)
Replace ==
  LET loaded == config.loaded
      fresh == DOMAIN loaded \ Loaded
      at(u) == Len(recs) + Cardinality({v \in fresh : v = u \/ v < u})
      names == DOMAIN loaded \cup config.retained
  IN  /\ units' = [u \in Names |-> CASE u \in fresh -> at(u)
                                    [] u \in Loaded \cap DOMAIN loaded -> units[u]
                                    [] u \in Retained(loaded) -> units[u]
                                    [] OTHER -> 0]
      /\ recs' = [i \in 1..(Len(recs) + Cardinality(fresh)) |->
                   IF i > Len(recs)
                   THEN LET u == CHOOSE v \in fresh : at(v) = i
                        IN  [NewRecord(u, loaded[u]) EXCEPT !.enabled = u \in config.links]
                   ELSE IF units[recs[i].name] # i THEN recs[i]
                   ELSE IF recs[i].name \in DOMAIN loaded
                   THEN [recs[i] EXCEPT !.def = loaded[recs[i].name], !.unavailable = FALSE,
                                        !.enabled = recs[i].name \in config.links]
                   ELSE [recs[i] EXCEPT !.unavailable = TRUE, !.enabled = FALSE]]
      /\ graph' = [defs |-> [u \in names |-> IF u \in DOMAIN loaded THEN loaded[u] ELSE Rt(u).def],
                   wanted |-> config.links \cap names]
      /\ revision' = revision + 1
      /\ clients' = SignalStartCapacity(clients)

(* Up to three plans before the caller is told to retry.                   *)
PublishReload ==
  /\ config.pc = "publish"
  /\ IF ~closed /\ OwnershipCurrent
     THEN Replace /\ config' = idle
     ELSE /\ config' = IF closed \/ config.attempt = 2 THEN idle
                       ELSE [config EXCEPT !.pc = "capture", !.attempt = @ + 1]
          /\ UNCHANGED <<units, recs, graph, revision, clients>>
  /\ UNCHANGED <<scene, bound, closed, tasks, completed, flights, active, boundStops,
                 gate, watcher, down, missed, dir, links>>

(* rebuildGraphWithLinks and acceptEnabledGraphLocked.                     *)
PublishLinks ==
  /\ config.pc = "build" /\ config' = idle
  /\ IF closed THEN UNCHANGED <<revision, graph, recs>>
     ELSE /\ revision' = revision + 1
          /\ graph' = [defs |-> [u \in Loaded |-> Rt(u).def], wanted |-> config.links \cap Loaded]
          /\ recs' = [i \in DOMAIN recs |->
                        IF units[recs[i].name] = i
                        THEN [recs[i] EXCEPT !.enabled = recs[i].name \in config.links]
                        ELSE recs[i]]
  /\ UNCHANGED <<scene, bound, closed, tasks, completed, flights, active, boundStops,
                 gate, clients, watcher, down, missed, dir, links, units>>

(* A reload or an Enable that got this far and is refused: the graph cannot *)
(* be built or has a cycle, or the journal cannot retain the names.  Links *)
(* that were written stay.                                                 *)
ConfigRefused ==
  /\ config.pc \in {"publish", "build"} /\ bound.faults > 0
  /\ config' = idle /\ bound' = [bound EXCEPT !.faults = @ - 1]
  /\ UNCHANGED <<scene, closed, recs, tasks, completed, flights, active, boundStops, gate,
                 clients, watcher, down, missed, dir, links, revision, graph, units>>

-----------------------------------------------------------------------------
(* Shutdown: sealShutdownLocked and shutdownPass.                          *)
Seal ==
  LET starts == {i \in DOMAIN tasks : Running(i) /\ tasks[i].planned # <<>> /\ ~tasks[i].cancelled}
      hit == UNION {InFlight(tasks[i]) : i \in starts}
      R == CancelledRecs(recs, hit)
  IN  /\ scene.shut /\ ~closed /\ closed' = TRUE
      /\ recs' = [i \in DOMAIN R |->
                    IF units[R[i].name] # i THEN R[i]
                    ELSE [R[i] EXCEPT !.stopping = TRUE, !.cleanup = @ \/ R[i].proc # "none"]]
      /\ tasks' = [i \in DOMAIN tasks |->
                     IF i \in starts THEN [tasks[i] EXCEPT !.cancelled = TRUE, !.cut = InFlight(tasks[i])]
                     ELSE tasks[i]]
      /\ clients' = SignalStartCapacity(clients)
      /\ down' = [down EXCEPT !.pc = "pass"]
      /\ UNCHANGED <<world, settings, bound, completed, flights, active, boundStops, gate,
                     watcher, missed>>

(* Mutant: a unit is a root only if its state says that it runs.           *)
RootsByState == {u \in Loaded : Rt(u).state # "inactive"}

(* shutdownRootsLocked.                                                    *)
ShutdownRoots ==
  {u \in Loaded : \/ Rt(u).state # "inactive" \/ Rt(u).proc # "none"
                  \/ Rt(u).ops # 0 \/ Rt(u).cleanup}

ShutdownPass ==
  /\ down.pc = "pass"
  /\ LET plan == PlanShutdown(recs, ShutdownRoots)
     IN  IF plan = <<>>
         THEN down' = [down EXCEPT !.pc = "ok"] /\ UNCHANGED tasks
         ELSE /\ tasks' = Append(tasks, Task("shutdown", plan[1], plan, <<>>, <<>>, <<>>, <<>>, {}))
              /\ down' = [pc |-> "wait", task |-> Len(tasks) + 1]
  /\ UNCHANGED <<world, settings, bound, closed, recs, completed, flights, active,
                 boundStops, gate, clients, watcher, missed>>

(* A pass that failed is tried again by the next caller.                   *)
EndPass ==
  /\ down.pc = "wait" /\ tasks[down.task].pc = "finish"
  /\ LET t == tasks[down.task]
     IN  /\ down' = [down EXCEPT !.pc = IF t.err \/ t.cancelled THEN "pass" ELSE "ok"]
         /\ Apply(recs, Put(down.task, [t EXCEPT !.pc = "done", !.state = "pass"]))
  /\ UNCHANGED <<world, settings, bound, closed, completed, flights, active, gate, watcher>>

-----------------------------------------------------------------------------
Init ==
  /\ scene \in Scenarios
  /\ bound = scene.bound
  /\ dir = [defs |-> scene.dir, ok |-> TRUE] /\ links = {}
  /\ graph = [defs |-> scene.dir, wanted |-> {}]
  /\ units = [u \in Names |-> IF u \in DOMAIN scene.dir THEN u ELSE 0]
  /\ recs = [i \in 1..Cardinality(DOMAIN scene.dir) |->
               LET u == CHOOSE v \in DOMAIN scene.dir : v = i
               IN  NewRecord(u, scene.dir[u])]
  /\ revision = 1 /\ closed = FALSE
  /\ tasks = <<>> /\ completed = <<>> /\ flights = [u \in Names |-> 0]
  /\ active = [starts |-> 0, stops |-> 0]
  /\ boundStops = {} /\ gate = [u \in Names |-> 0]
  /\ clients = [c \in DOMAIN scene.calls |->
       [pc |-> IF scene.calls[c].act = "watch" THEN "fired" ELSE "idle",
        op |-> 0, reply |-> "none", stale |-> FALSE, woken |-> FALSE]]
  /\ watcher = [u \in Names |-> [pc |-> "none", quiet |-> FALSE,
                                  owner |-> [name |-> u, rec |-> 0, gen |-> 0]]]
  /\ config = idle /\ down = [pc |-> "no", task |-> 0] /\ missed = {}

Work(i) ==
  \/ StopMember(i) \/ StopNative(i) \/ StopCompletion(i)
  \/ RejectMember(i) \/ EnterGate(i) \/ AcceptLaunch(i) \/ Invoke(i) \/ AdoptProcess(i)
  \/ PublishStart(i) \/ CompleteCancelled(i) \/ Finish(i) \/ FinishFlight(i)
Watch(u) == AcceptExit(u) \/ CleanExit(u) \/ ApplyExit(u)
Configure == ParseUnits \/ CaptureOwnership \/ PublishReload \/ PublishLinks
Shutdown == ShutdownPass \/ EndPass

Next ==
  \/ \E c \in DOMAIN clients : Start(c) \/ Stop(c) \/ WatchRound(c) \/ Reply(c) \/ GiveUp(c)
  \/ \E i \in DOMAIN tasks : Work(i) \/ CancelOperation(i) \/ Deadline(i)
  \/ \E u \in Names : Die(u) \/ Watch(u)
  \/ TakeBatch \/ Configure \/ ConfigRefused \/ Seal \/ Shutdown
  \/ \E d \in scene.dirs : Edit(d)
  \/ \E kind \in scene.configs, u \in Names : BeginConfig(kind, u)

Spec == Init /\ [][Next]_vars

(* What the manager does by itself: its workers, the watchers of the       *)
(* processes, the holder of configMu, the shutdown, and the callers that   *)
(* wait.                                                                   *)
Progress ==
  \/ \E i \in DOMAIN tasks : Work(i)
  \/ \E u \in Names : Watch(u)
  \/ \E c \in DOMAIN clients :
       Reply(c) \/ WatchRound(c) \/ (scene.calls[c].act = "watch" /\ Start(c))
  \/ TakeBatch \/ Configure \/ Shutdown

(* Workers run and native calls return.  One condition for all of them is  *)
(* enough; nothing obliges anybody to call, edit, cancel or fail.          *)
Fairness == WF_vars(Progress)
FairSpec == Spec /\ Fairness

-----------------------------------------------------------------------------
(* How often record i is held: by the operations whose plan has it, by the *)
(* dependency stops that wait or run, by the launches and the stops that   *)
(* are between their acceptance and their completion.                      *)
Holds(i) ==
  LET ids == DOMAIN tasks
      planned == {<<k, j>> \in ids \X (1..(2 * Cardinality(Names))) :
                    j \in DOMAIN tasks[k].keep /\ tasks[k].state = "running" /\ tasks[k].keep[j] = i}
      batched == {<<k, u>> \in ids \X Names : /\ tasks[k].state = "running"
                    /\ \E b \in tasks[k].members : b.name = u /\ b.rec = i}
      queued == {b \in boundStops : b.rec = i}
      launches == {k \in ids : LET t == tasks[k] IN t.pc \in {"invoke", "adopt"}
                                 /\ t.planned[t.plan[t.i]].rec = i}
      stops == {k \in ids : tasks[k].pc \in {"kill", "drain", "late", "drained"}
                              /\ tasks[k].owner.rec = i}
  IN  Cardinality(planned) + Cardinality(batched) + Cardinality(queued)
        + Cardinality(launches) + Cardinality(stops)

(* A record's count of operations is what really holds it, after every     *)
(* cancellation, replacement of a pending dependency stop and late answer: *)
(* the count decides whether a reload may drop the record.                 *)
RefsBalanced == \A i \in DOMAIN recs : recs[i].ops = Holds(i)

(* The history never loses an operation that is still running, keeps       *)
(* exactly the terminal ones it names, and stays within its limit          *)
(* (finishOperationLocked), in whatever order operations end.              *)
IndexConsistent ==
  /\ Len(completed) <= HistoryLimit
  /\ \A i \in DOMAIN tasks :
       /\ tasks[i].state = "evicted" => tasks[i].pc \in {"flight", "done"}
       /\ i \in Members(completed) <=> tasks[i].state \in {"succeeded", "failed"}

(* A reload drops a record only when nothing runs under it, nothing is to  *)
(* be cleaned up and no operation will come back to it.                    *)
RecordsOwned ==
  \A i \in DOMAIN recs : units[recs[i].name] # i => ~StillHeld(recs[i]) /\ recs[i].ops = 0

(* The accepted graph has exactly the loaded units, and a unit is shown as *)
(* enabled exactly when the graph starts it: no reload publishes a graph   *)
(* built from an ownership that changed while the graph was being built.   *)
GraphCovers ==
  /\ DOMAIN graph.defs = Loaded
  /\ \A u \in Loaded : ~Rt(u).unavailable => (Rt(u).enabled <=> u \in graph.wanted)

(* No caller of start is answered with the outcome of a start that was     *)
(* admitted before a stop of the unit which the caller comes after.        *)
JoinSeesStops == \A c \in DOMAIN clients : ~clients[c].stale

(* Once the process of a unit is accepted as lost, no unit bound to it     *)
(* stays up unless its stop is on its way, with two exceptions: the loss   *)
(* came between the acceptance of the bound unit's launch and its          *)
(* publication, or the peer is stopped by an operation that had already    *)
(* passed the bound unit when a later start launched that one again.       *)
BoundHolds ==
  \A u \in Loaded :
    Rt(u).state = "active" /\ ~Rt(u).stopping /\ u \notin missed =>
      \A p \in Owned(Rt(u)) : p \in Loaded /\ Rt(p).state = "active"

(* The same without the exception, as the documentation of BindsTo= has it. *)
BoundAlwaysHolds ==
  \A u \in Loaded :
    Rt(u).state = "active" /\ ~Rt(u).stopping =>
      \A p \in Owned(Rt(u)) : p \in Loaded /\ Rt(p).state = "active"

(* A shutdown that reports success leaves no process, nothing to clean up  *)
(* and no operation that could still start one.                            *)
ShutdownProves ==
  down.pc = "ok" => \A i \in DOMAIN recs : ~StillHeld(recs[i])

(* A launch that was in flight when its operation was cancelled or timed   *)
(* out has been stopped, or its stop tried, when the operation is over.    *)
CancelledCleaned ==
  \A i \in DOMAIN tasks : tasks[i].pc = "done" =>
    \A u \in tasks[i].cut : Current(LaunchOwner(tasks[i], u)) => recs[tasks[i].planned[u].rec].proc = "none"

(* No start is launched for a unit after a stop of it was admitted that    *)
(* the start's admission precedes: explicit, by dependency, by restart or  *)
(* by cancellation.                                                        *)
StopPrecedence ==
  [][\A i \in DOMAIN tasks : \A u \in DOMAIN tasks[i].planned :
       tasks'[i].planned[u].launched /\ ~tasks[i].planned[u].launched => ~tasks[i].planned[u].over]_vars

(* Every accepted operation ends, whatever fails, is cancelled or dies.    *)
OperationsEnd ==
  []<>(\A i \in DOMAIN tasks : tasks[i].pc = "done")

(* A unit whose peer is gone does not stay up: its queued stop is carried  *)
(* out, with the exceptions of BoundHolds.                                 *)
BoundStopsEnd ==
  \A u \in Names :
    []<>(u \in Loaded /\ Rt(u).state = "active" /\ u \notin missed =>
           \A p \in Owned(Rt(u)) : p \in Loaded /\ Rt(p).state = "active")

(* A watch that fired while every start slot was taken starts its unit     *)
(* when one is free: it does not miss the slot freed between its refused   *)
(* start and its wait.                                                     *)
WatchActivates ==
  []<>(\A c \in DOMAIN clients : scene.calls[c].act = "watch" => clients[c].pc = "done")
=============================================================================
