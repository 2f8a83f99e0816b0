---------------------------- MODULE UnitProcess ----------------------------
(***************************************************************************)
(* The native process of a unit on Windows: its launch into a unit job     *)
(* under the daemon's job (winLauncher, UnitJob), the calls that stop it   *)
(* and release what it holds (winProc.Stop), the waits on its exit         *)
(* (waitProcess), the watch of its job's limits, the profile keeper of a   *)
(* User= account, and the daemon closing its own job at the end.           *)
(*                                                                         *)
(* Windows is external.  A native call can fail.  A process that ends      *)
(* leaves the job's process list first ("dying") and its handle signals    *)
(* later ("dead").  Closing the last handle of a kill-on-close job ends    *)
(* its members.  A handle is a name; what the code knows of is `held` and  *)
(* what is open is `open`.  Reuse of a handle's number is not modelled.    *)
(***************************************************************************)
EXTENDS Integers, Sequences, FiniteSets

CONSTANTS
  Stoppers,   \* callers of Stop after Start returned
  Waiters,    \* callers of Wait
  Kids,       \* processes the main process can create
  Scenarios   \* what each launch is and may meet

VARIABLES
  scene,    \* the scenario
  create,   \* where createWithSetup is
  start,    \* "creating", "cleaning", or what Start returned: "proc", "owned", "nil"
  late,     \* the context of Start ended before it returned
  open,     \* open handles
  held,     \* the handles winProc and UnitJob know of
  ps,       \* the state of each process
  inUnit,   \* members of the unit job
  inDaemon, \* members of the daemon job
  p,        \* winProc: unassigned, exited, confirmed, closed
  exits,    \* jobExitSet of the unit job: admission closed, ready, processes held
  killed,   \* ghost: the processes of the job when it was last terminated
  watch,    \* the limit watch: loop, messages posted, channel closed
  call,     \* the running call of each thread that stops or kills
  stopMu,   \* who holds winProc.stopMu
  jobMu,    \* who holds UnitJob.stopMu
  wait,     \* each Wait: where it is, and the handle it is blocked on
  keeper,   \* the profile keeper: process, and whether the callback is set
  daemon,   \* DaemonJob: where Close is, its handle, its exit set
  left      \* what is left of the scenario's bounds

vars == <<scene, create, start, late, open, held, ps, inUnit, inDaemon, p, exits,
          killed, watch, call, stopMu, jobMu, wait, keeper, daemon, left>>

Threads == Stoppers \union {"start", "keeper"}
Procs == Kids \union {"main"}
Alive(q) == ps[q] \in {"suspended", "running"}

\* The order of closeHandles: the five launch handles, the job with what it
\* retains, the thread, the process, the outputs and the account.
Order == <<"in", "outW", "errW", "outL", "errL", "exits", "iocp", "loop", "job",
           "thread", "process", "outR", "errR", "account">>
LaunchLast == 5
JobParts == {"exits", "iocp", "loop", "job"}
Handles == {Order[i] : i \in 1..Len(Order)}

ASSUME ThreadsDistinct == {"start", "keeper", "none"} \intersect Stoppers = {}
ASSUME WaitersOwnHandles == Waiters \intersect Handles = {}

Init ==
  /\ scene \in Scenarios
  /\ create = "account" /\ start = "creating" /\ late = FALSE
  /\ open = {} /\ held = {}
  /\ ps = [q \in Procs |-> "none"]
  /\ inUnit = {} /\ inDaemon = {}
  /\ p = [unassigned |-> FALSE, exited |-> FALSE, confirmed |-> FALSE, closed |-> FALSE]
  /\ exits = [shut |-> FALSE, ready |-> FALSE, caught |-> {}]
  /\ killed = {}
  /\ watch = [loop |-> "none", posted |-> FALSE, hit |-> FALSE]
  /\ call = [t \in Threads |-> [pc |-> "idle", at |-> 1, bad |-> FALSE]]
  /\ stopMu = "none" /\ jobMu = "none"
  /\ wait = [w \in Waiters |-> [pc |-> "idle", handle |-> "none"]]
  /\ keeper = [state |-> "none", callback |-> FALSE, closing |-> FALSE]
  /\ daemon = [pc |-> "idle", open |-> TRUE, shut |-> FALSE, ready |-> FALSE, caught |-> {}]
  /\ left = [faults |-> scene.faults, timeouts |-> scene.timeouts,
             stops |-> scene.stops, kids |-> Cardinality(Kids), closes |-> scene.closes]

Spend(field) == left[field] > 0 /\ left' = [left EXCEPT ![field] = @ - 1]
Fault == Spend("faults")
\* A call that fails because of c, or for no reason of its own.
Refused(c) == Fault \/ (c /\ UNCHANGED left)

-----------------------------------------------------------------------------
(* Start and the goroutine that creates the process                        *)

\* What no step of the launch before the process exists touches.
quiet == <<scene, start, late, p, exits, killed, call, stopMu, jobMu, wait, daemon>>

\* A call that opens handles, or fails with all or nothing of them open.  What
\* it opened is recorded on winProc even when it fails.
Opens(pc, hs, next) ==
  /\ create = pc
  /\ \/ /\ open' = open \union hs /\ held' = held \union hs
        /\ create' = next
        /\ UNCHANGED left
     \/ /\ Fault
        /\ create' = "failed"
        /\ \E part \in {{}, hs} : open' = open \union part /\ held' = held \union part

OpenAccount ==
  /\ IF scene.account
     THEN /\ Opens("account", {"account"}, "job")
          /\ keeper' = [keeper EXCEPT !.state = IF "account" \in open' THEN "running" ELSE "none"]
     ELSE /\ create = "account" /\ create' = "job"
          /\ UNCHANGED <<open, held, keeper, left>>
  /\ UNCHANGED <<quiet, ps, inUnit, inDaemon, watch>>

OpenUnitJob ==
  /\ Opens("job", {"job"}, IF scene.watch THEN "port" ELSE "stdout")
  /\ UNCHANGED <<quiet, ps, inUnit, inDaemon, watch, keeper>>

\* The port is owned before its association can fail.  A job whose setup fails
\* is closed again, and is kept with the error only when that fails too.
startLimitWatch ==
  /\ create = "port"
  /\ \/ /\ open' = open \union {"iocp"} /\ held' = held \union {"iocp", "loop"}
        /\ watch' = [watch EXCEPT !.loop = "waiting"]
        /\ create' = "stdout"
        /\ UNCHANGED left
     \/ /\ Fault
        /\ create' = "failed"
        /\ \E kept \in {{}, {"job"}, {"job", "iocp"}} :
             /\ open' = (open \ {"job"}) \union kept
             /\ held' = (held \ {"job"}) \union kept
        /\ UNCHANGED watch
  /\ UNCHANGED <<quiet, ps, inUnit, inDaemon, keeper>>

OpenPipes ==
  /\ \/ Opens("stdout", {"outL", "outW"}, "stderr")
     \/ Opens("stderr", {"errL", "errW"}, "stdin")
     \/ Opens("stdin", {"in"}, "process")
  /\ UNCHANGED <<quiet, ps, inUnit, inDaemon, watch, keeper>>

\* CREATE_SUSPENDED.  A child inherits the daemon's own jobs, so a daemon job
\* that admits no process refuses it; a User= launch needs its keeper alive.
CreateProcess ==
  /\ create = "process"
  /\ \/ /\ ~(scene.self /\ daemon.shut)
        /\ scene.account => keeper.state = "running"
        /\ LET opened(hs) == (hs \ {"outL", "errL"}) \union {"process", "thread", "outR", "errR"}
           IN open' = opened(open) /\ held' = opened(held)
        /\ ps' = [ps EXCEPT !["main"] = "suspended"]
        /\ inDaemon' = IF scene.self THEN {"main"} ELSE {}
        /\ p' = [p EXCEPT !.unassigned = TRUE]
        /\ create' = "closeLaunch"
        /\ UNCHANGED left
     \/ /\ Refused(\/ scene.self /\ daemon.shut
                   \/ scene.account /\ keeper.state # "running")
        /\ create' = "failed"
        /\ UNCHANGED <<open, held, ps, inDaemon, p>>
  /\ UNCHANGED <<scene, start, late, inUnit, exits, killed, watch, call, stopMu, jobMu,
                 wait, keeper, daemon>>

CloseLaunchHandles ==
  /\ create = "closeLaunch"
  /\ \/ /\ open' = open \ {"in", "outW", "errW"} /\ held' = held \ {"in", "outW", "errW"}
        /\ create' = "assignDaemon"
        /\ UNCHANGED left
     \/ /\ Fault
        /\ create' = "failed"
        /\ open' = open \ {"in", "errW"} /\ held' = held \ {"in", "errW"}
  /\ UNCHANGED <<quiet, ps, inUnit, inDaemon, watch, keeper>>

\* The error of a step of finishProcessSetup ends the launch.
SetupFails == create' = "failed"

\* DaemonJob.Assign, under the mutex Close holds: membership already satisfied
\* is success.
AssignDaemon ==
  /\ create = "assignDaemon" /\ daemon.pc = "idle"
  /\ \/ /\ daemon.open
        /\ "main" \in inDaemon \/ (Alive("main") /\ ~daemon.shut)
        /\ inDaemon' = inDaemon \union {"main"}
        /\ create' = "assignUnit"
        /\ UNCHANGED left
     \/ /\ Refused(~daemon.open \/ ("main" \notin inDaemon /\ (daemon.shut \/ ~Alive("main"))))
        /\ SetupFails
        /\ UNCHANGED inDaemon
  /\ UNCHANGED <<quiet, open, held, ps, inUnit, watch, keeper>>

AssignUnit ==
  /\ create = "assignUnit"
  /\ \/ /\ Alive("main")
        /\ inUnit' = {"main"}
        /\ p' = [p EXCEPT !.unassigned = FALSE]
        /\ create' = "priority"
        /\ UNCHANGED left
     \/ /\ Refused(~Alive("main"))
        /\ SetupFails
        /\ UNCHANGED <<inUnit, p>>
  /\ UNCHANGED <<scene, start, late, open, held, ps, inDaemon, exits, killed, watch, call,
                 stopMu, jobMu, wait, keeper, daemon>>

SetPriority ==
  /\ create = "priority"
  /\ \/ create' = "resume" /\ UNCHANGED left
     \/ scene.prio /\ Fault /\ SetupFails
  /\ UNCHANGED <<quiet, open, held, ps, inUnit, inDaemon, watch, keeper>>

ResumeThread ==
  /\ create = "resume"
  /\ \/ /\ ps' = [ps EXCEPT !["main"] = IF @ = "suspended" THEN "running" ELSE @]
        /\ create' = "closeThread"
        /\ UNCHANGED left
     \/ Fault /\ SetupFails /\ UNCHANGED ps
  /\ UNCHANGED <<quiet, open, held, inUnit, inDaemon, watch, keeper>>

CloseThread ==
  /\ create = "closeThread"
  /\ \/ /\ open' = open \ {"thread"} /\ held' = held \ {"thread"}
        /\ create' = IF scene.account THEN "keeper" ELSE "done"
        /\ UNCHANGED left
     \/ Fault /\ SetupFails /\ UNCHANGED <<open, held>>
  /\ UNCHANGED <<quiet, ps, inUnit, inDaemon, watch, keeper>>

\* onKeeperExit: the callback is set, and runs at once when the keeper has
\* already ended.
RunsAtOnce == keeper.state = "ended" /\ ~keeper.closing

onKeeperExit ==
  /\ create = "keeper"
  /\ keeper' = [keeper EXCEPT !.callback = TRUE]
  /\ IF RunsAtOnce
     THEN create' = "killing" /\ call' = [call EXCEPT !["keeper"].pc = "admit"]
     ELSE create' = "done" /\ UNCHANGED call
  /\ UNCHANGED <<scene, start, late, open, held, ps, inUnit, inDaemon, p, exits, killed,
                 watch, stopMu, jobMu, wait, daemon, left>>

KilledAtOnce ==
  /\ create = "killing" /\ call["keeper"].pc = "idle"
  /\ create' = "done"
  /\ UNCHANGED <<quiet, open, held, ps, inUnit, inDaemon, watch, keeper, left>>

\* The context of Start ends while the goroutine runs; Start still waits for it.
StartLate ==
  /\ start = "creating" /\ ~late
  /\ Spend("timeouts")
  /\ late' = TRUE
  /\ UNCHANGED <<scene, create, start, open, held, ps, inUnit, inDaemon, p, exits, killed,
                 watch, call, stopMu, jobMu, wait, keeper, daemon>>

\* failedProcessStart stops what a failed or late launch made.
StartReturns ==
  /\ start = "creating" /\ create \in {"done", "failed"}
  /\ IF late \/ create = "failed"
     THEN start' = "cleaning" /\ call' = [call EXCEPT !["start"].pc = "lock"]
     ELSE start' = "proc" /\ UNCHANGED call
  /\ UNCHANGED <<scene, create, late, open, held, ps, inUnit, inDaemon, p, exits, killed,
                 watch, stopMu, jobMu, wait, keeper, daemon, left>>

-----------------------------------------------------------------------------
(* UnitJob.Kill and winProc.Stop, step by step; t is the calling thread    *)

At(t, pc) == call[t].pc = pc
Goes(t, pc) == call' = [call EXCEPT ![t].pc = pc]

\* Stop ends: its result decides what Start returns when Start called it.
Returns(t, ok) ==
  /\ call' = [call EXCEPT ![t] = [pc |-> "idle", at |-> 1, bad |-> FALSE]]
  /\ stopMu' = IF t = "keeper" THEN stopMu ELSE "none"
  /\ start' = IF t = "start" THEN (IF ok THEN "nil" ELSE "owned") ELSE start

native == <<scene, create, late, wait, keeper, daemon, watch>>

StopBegins(t) ==
  /\ start \in {"proc", "owned"} /\ At(t, "idle")
  /\ Spend("stops")
  /\ Goes(t, "lock")
  /\ UNCHANGED <<native, start, open, held, ps, inUnit, inDaemon, p, exits, killed, stopMu, jobMu>>

StopLocks(t) ==
  /\ At(t, "lock") /\ stopMu = "none"
  /\ IF p.closed
     THEN Returns(t, TRUE)
     ELSE /\ stopMu' = t
          /\ Goes(t, IF ps["main"] = "none" \/ p.confirmed THEN "release" ELSE "terminate")
          /\ UNCHANGED start
  /\ UNCHANGED <<native, open, held, ps, inUnit, inDaemon, p, exits, killed, jobMu, left>>

\* A process that never reached its job is ended by its own handle.
TerminateUnassigned(t) ==
  /\ At(t, "terminate")
  /\ \/ /\ ~p.unassigned \/ ps["main"] \in {"suspended", "dead"}
        /\ ps' = IF p.unassigned /\ Alive("main") THEN [ps EXCEPT !["main"] = "dying"] ELSE ps
        /\ Goes(t, "admit")
        /\ UNCHANGED <<start, stopMu, left>>
     \/ /\ p.unassigned /\ ps["main"] # "dead"
        /\ Refused(ps["main"] = "dying")
        /\ Returns(t, FALSE)
        /\ UNCHANGED ps
  /\ UNCHANGED <<native, open, held, inUnit, inDaemon, p, exits, killed, jobMu>>

\* Kill and its jobExitSet: no process is admitted to the job any more ...  Only
\* the keeper's callback can find the job closed.
KillAdmission(t) ==
  /\ At(t, "admit") /\ jobMu = "none"
  /\ \/ /\ "job" \in held
        /\ exits' = [exits EXCEPT !.shut = TRUE]
        /\ jobMu' = t
        /\ Goes(t, IF exits.ready THEN "killJob" ELSE "capture")
        /\ UNCHANGED <<start, stopMu, left>>
     \/ /\ "job" \notin held /\ t = "keeper"
        /\ Returns(t, TRUE)
        /\ UNCHANGED <<exits, jobMu, left>>
     \/ /\ "job" \in held /\ ~exits.ready /\ Fault
        /\ Returns(t, FALSE)
        /\ UNCHANGED <<exits, jobMu>>
  /\ UNCHANGED <<native, open, held, ps, inUnit, inDaemon, p, killed>>

\* ... then every process on its list is opened ...
Listed == {q \in inUnit : Alive(q)}

KillCapture(t) ==
  /\ At(t, "capture")
  /\ \/ /\ exits' = [exits EXCEPT !.ready = TRUE, !.caught = @ \union Listed]
        /\ Goes(t, "killJob")
        /\ UNCHANGED <<start, stopMu, jobMu, left>>
     \/ /\ Fault
        /\ \E some \in SUBSET Listed : some # Listed /\ exits' = [exits EXCEPT !.caught = @ \union some]
        /\ Returns(t, FALSE) /\ jobMu' = "none"
  /\ LET new == IF exits'.caught = {} THEN {} ELSE {"exits"}
     IN open' = open \union new /\ held' = held \union new
  /\ UNCHANGED <<native, ps, inUnit, inDaemon, p, killed>>

\* ... and the job is terminated.
KillJob(t) ==
  /\ At(t, "killJob")
  /\ \/ /\ ps' = [q \in Procs |-> IF q \in Listed THEN "dying" ELSE ps[q]]
        /\ killed' = killed \union Listed
        /\ IF t = "keeper" THEN Returns(t, TRUE) ELSE Goes(t, "waitMain") /\ UNCHANGED <<start, stopMu>>
        /\ UNCHANGED left
     \/ /\ Fault
        /\ Returns(t, FALSE)
        /\ UNCHANGED <<ps, killed>>
  /\ jobMu' = "none"
  /\ UNCHANGED <<native, open, held, inUnit, inDaemon, p, exits>>

\* The wait on the process itself, then on the captured processes and the list.
StopTimesOut(t) ==
  /\ call[t].pc \in {"waitMain", "waitCaught", "waitList"}
  /\ Spend("timeouts") \/ Fault
  /\ Returns(t, FALSE)
  /\ jobMu' = IF jobMu = t THEN "none" ELSE jobMu
  /\ UNCHANGED <<native, open, held, ps, inUnit, inDaemon, p, exits, killed>>

StopWaitsMain(t) ==
  /\ At(t, "waitMain") /\ ps["main"] = "dead"
  /\ p' = [p EXCEPT !.exited = TRUE]
  /\ Goes(t, "waitCaught")
  /\ UNCHANGED <<native, start, open, held, ps, inUnit, inDaemon, exits, killed, stopMu, jobMu, left>>

\* Mutant: an empty process list is taken for exit.
ListOnly == Listed = {}

\* jobExitSet.wait: the captured handles, not the list.
ExitsSignalled == \A q \in exits.caught : ps[q] = "dead"

StopWaitsCaught(t) ==
  /\ At(t, "waitCaught") /\ jobMu = "none"
  /\ ExitsSignalled
  /\ jobMu' = t
  /\ Goes(t, "waitList")
  /\ UNCHANGED <<native, start, open, held, ps, inUnit, inDaemon, p, exits, killed, stopMu, left>>

StopWaitsList(t) ==
  /\ At(t, "waitList") /\ Listed = {}
  /\ jobMu' = "none"
  /\ p' = [p EXCEPT !.confirmed = TRUE]
  /\ Goes(t, "release")
  /\ UNCHANGED <<native, start, open, held, ps, inUnit, inDaemon, exits, killed, stopMu, left>>

\* closeHandles: each handle is forgotten once it is closed.  The launch handles
\* are all tried; after them the first failure ends the call.  UnitJob.Close
\* takes its mutex over the captured handles, the port, the loop and the job.
NextHeld(t) ==
  LET later == {i \in call[t].at..Len(Order) : Order[i] \in held}
  IN IF later = {} THEN Len(Order) + 1 ELSE CHOOSE i \in later : \A j \in later : i <= j

\* Only the wait for the limit loop can block the release.
Closable(h) == h = "loop" => watch.loop = "ended"

Unlocked(t) == jobMu' = IF jobMu = t THEN "none" ELSE jobMu

ReleaseEnds(t) ==
  /\ At(t, "release")
  /\ LET failed == call[t].bad /\ NextHeld(t) > LaunchLast
     IN /\ failed \/ NextHeld(t) > Len(Order)
        /\ p' = [p EXCEPT !.closed = ~failed]
        /\ Returns(t, ~failed)
  /\ UNCHANGED <<native, open, held, ps, inUnit, inDaemon, exits, killed, jobMu, left>>

ReleaseCloses(t) ==
  /\ At(t, "release") /\ NextHeld(t) <= Len(Order)
  /\ call[t].bad => NextHeld(t) <= LaunchLast
  /\ LET h == Order[NextHeld(t)]
     IN /\ Closable(h)
        /\ h \in JobParts => jobMu \in {"none", t}
        /\ open' = open \ {h} /\ held' = held \ {h}
        /\ ps' = [q \in Procs |-> IF h = "job" /\ q \in Listed THEN "dying" ELSE ps[q]]
        /\ keeper' = IF h = "account" THEN [keeper EXCEPT !.closing = TRUE, !.state = "ended"] ELSE keeper
        /\ jobMu' = IF h \in JobParts \ {"job"} THEN t ELSE IF h = "job" THEN "none" ELSE jobMu
  /\ call' = [call EXCEPT ![t].at = NextHeld(t) + 1]
  /\ UNCHANGED <<scene, create, start, late, inUnit, inDaemon, p, exits, killed, watch, stopMu,
                 wait, daemon, left>>

ReleaseFails(t) ==
  /\ At(t, "release") /\ NextHeld(t) <= Len(Order)
  /\ call[t].bad => NextHeld(t) <= LaunchLast
  /\ LET h == Order[NextHeld(t)]
     IN /\ h # "loop" /\ Fault
        /\ h \in JobParts => jobMu \in {"none", t}
        /\ \/ /\ NextHeld(t) <= LaunchLast
              /\ call' = [call EXCEPT ![t].at = NextHeld(t) + 1, ![t].bad = TRUE]
              /\ UNCHANGED <<start, stopMu>>
           \/ NextHeld(t) > LaunchLast /\ Returns(t, FALSE)
        /\ keeper' = IF h = "account" THEN [keeper EXCEPT !.closing = TRUE] ELSE keeper
        /\ Unlocked(t)
  /\ UNCHANGED <<scene, create, late, open, held, ps, inUnit, inDaemon, p, exits, killed, watch,
                 wait, daemon>>

-----------------------------------------------------------------------------
(* Wait, the limit watch, the keeper and the processes                     *)

rest == <<scene, create, start, late, held, inUnit, p, exits, killed, stopMu, jobMu, daemon>>

\* A wait blocks on a duplicate of its own, so that Stop may close the original.
Duplicated(w) == w

WaitBegins(w) ==
  /\ start = "proc" /\ wait[w].pc = "idle"
  /\ \/ /\ "process" \in held /\ ~p.exited
        /\ wait' = [wait EXCEPT ![w] = [pc |-> "blocked", handle |-> Duplicated(w)]]
        /\ open' = open \union {Duplicated(w)}
        /\ UNCHANGED left
     \/ /\ Refused("process" \notin held \/ p.exited)
        /\ wait' = [wait EXCEPT ![w].pc = "returned"]
        /\ UNCHANGED open
  /\ UNCHANGED <<scene, create, start, late, held, ps, inUnit, inDaemon, p, exits, killed, watch,
                 call, stopMu, jobMu, keeper, daemon>>

\* The process exited, or the caller gave up and its cancel event was set.
WaitEnds(w) ==
  /\ wait[w].pc = "blocked"
  /\ \/ /\ ps["main"] = "dead"
        /\ p' = [p EXCEPT !.exited = TRUE]
        /\ UNCHANGED left
     \/ Spend("timeouts") /\ UNCHANGED p
  /\ wait' = [wait EXCEPT ![w].pc = "returned"]
  /\ open' = open \ {w}
  /\ UNCHANGED <<scene, create, start, late, held, ps, inUnit, inDaemon, exits, killed, watch,
                 call, stopMu, jobMu, keeper, daemon>>

LimitEvent ==
  /\ ps["main"] = "running" /\ "iocp" \in open /\ ~watch.posted
  /\ watch' = [watch EXCEPT !.posted = TRUE]
  /\ UNCHANGED <<rest, open, ps, inDaemon, call, wait, keeper, left>>

limitLoop ==
  /\ watch.loop = "waiting"
  /\ \/ /\ "iocp" \in open /\ watch.posted /\ ~watch.hit
        /\ watch' = [watch EXCEPT !.hit = TRUE]
     \/ /\ "iocp" \notin open
        /\ watch' = [watch EXCEPT !.loop = "ended"]
  /\ UNCHANGED <<rest, open, ps, inDaemon, call, wait, keeper, left>>

\* A child inherits the jobs of its parent while both admit processes.
Spawns(q) ==
  /\ q # "main" /\ ps[q] = "none" /\ ps["main"] = "running"
  /\ ~exits.shut /\ ~daemon.shut
  /\ ps' = [ps EXCEPT ![q] = "running"]
  /\ inUnit' = inUnit \union (IF "main" \in inUnit THEN {q} ELSE {})
  /\ inDaemon' = inDaemon \union (IF "main" \in inDaemon THEN {q} ELSE {})
  /\ UNCHANGED <<scene, create, start, late, open, held, p, exits, killed, watch, call, stopMu,
                 jobMu, wait, keeper, daemon, left>>

Exits(q) ==
  /\ ps[q] = "running"
  /\ ps' = [ps EXCEPT ![q] = "dying"]
  /\ UNCHANGED <<rest, open, inDaemon, watch, call, wait, keeper, left>>

Signals(q) ==
  /\ ps[q] = "dying"
  /\ ps' = [ps EXCEPT ![q] = "dead"]
  /\ UNCHANGED <<rest, open, inDaemon, watch, call, wait, keeper, left>>

\* The keeper ends by itself; its watcher runs the callback that is set.
watchKeeper ==
  /\ keeper.state = "running"
  /\ keeper' = [keeper EXCEPT !.state = "ended"]
  /\ call' = IF keeper.callback /\ ~keeper.closing THEN [call EXCEPT !["keeper"].pc = "admit"] ELSE call
  /\ UNCHANGED <<rest, open, ps, inDaemon, watch, wait, left>>

-----------------------------------------------------------------------------
(* DaemonJob.Close, retried after a failure                                *)

units == <<scene, create, start, late, open, held, inUnit, inDaemon, p, exits, killed, watch,
           call, stopMu, jobMu, wait, keeper>>

Daemon(pc) == daemon.pc = pc
DaemonGoes(pc) == daemon' = [daemon EXCEPT !.pc = pc]
DaemonLeft == {q \in inDaemon : Alive(q)}

\* A daemon outside its own job closes the handle, and Windows ends the members.
CloseBegins ==
  /\ Daemon("idle") /\ daemon.open
  /\ Spend("closes")
  /\ DaemonGoes(IF ~scene.self THEN "handle" ELSE IF daemon.ready THEN "kill" ELSE "admission")
  /\ UNCHANGED <<units, ps>>

\* Its own process excepted: no admission, then a handle on every child.
CloseAdmission ==
  /\ Daemon("admission")
  /\ daemon' = [daemon EXCEPT !.shut = TRUE, !.pc = "capture"]
  /\ UNCHANGED <<units, ps, left>>

CloseCapture ==
  /\ Daemon("capture")
  /\ daemon' = [daemon EXCEPT !.ready = TRUE, !.caught = @ \union DaemonLeft, !.pc = "kill"]
  /\ UNCHANGED <<units, ps, left>>

\* A child that is ending but has not signalled may refuse its termination.
CloseKills ==
  /\ Daemon("kill")
  /\ \/ /\ ps' = [q \in Procs |-> IF q \in daemon.caught /\ Alive(q) THEN "dying" ELSE ps[q]]
        /\ DaemonGoes("wait")
     \/ /\ \E q \in daemon.caught : ps[q] = "dying"
        /\ DaemonGoes("idle")
        /\ UNCHANGED ps
  /\ UNCHANGED <<units, left>>

\* Every captured child signalled, and the list without the daemon is empty.
ChildrenEnded == DaemonLeft = {} /\ \A q \in daemon.caught : ps[q] = "dead"

CloseWaits ==
  /\ Daemon("wait") /\ ChildrenEnded
  /\ DaemonGoes("handle")
  /\ UNCHANGED <<units, ps, left>>

CloseHandle ==
  /\ Daemon("handle")
  /\ daemon' = [daemon EXCEPT !.pc = "idle", !.open = FALSE]
  /\ ps' = [q \in Procs |-> IF ~scene.self /\ q \in DaemonLeft THEN "dying" ELSE ps[q]]
  /\ UNCHANGED <<units, left>>

CloseFails ==
  /\ ~Daemon("idle")
  /\ Fault \/ (Daemon("wait") /\ Spend("timeouts"))
  /\ DaemonGoes("idle")
  /\ UNCHANGED <<units, ps>>

-----------------------------------------------------------------------------
Launch ==
  \/ OpenAccount \/ OpenUnitJob \/ startLimitWatch \/ OpenPipes \/ CreateProcess
  \/ CloseLaunchHandles \/ AssignDaemon \/ AssignUnit \/ SetPriority \/ ResumeThread
  \/ CloseThread \/ onKeeperExit \/ KilledAtOnce \/ StartReturns

StopSteps(t) ==
  \/ StopLocks(t) \/ TerminateUnassigned(t) \/ KillAdmission(t) \/ KillCapture(t) \/ KillJob(t)
  \/ StopWaitsMain(t) \/ StopWaitsCaught(t) \/ StopWaitsList(t)
  \/ ReleaseEnds(t) \/ ReleaseCloses(t)

CloseSteps ==
  CloseAdmission \/ CloseCapture \/ CloseKills \/ CloseWaits \/ CloseHandle

\* What the code and Windows do once asked.
Progress ==
  \/ Launch \/ CloseSteps \/ limitLoop
  \/ \E t \in Threads : StopSteps(t)
  \/ \E w \in Waiters : WaitEnds(w)
  \/ \E q \in Procs : Signals(q)

Next ==
  \/ Progress
  \/ StartLate \/ LimitEvent \/ watchKeeper \/ CloseBegins \/ CloseFails
  \/ \E t \in Stoppers : StopBegins(t)
  \/ \E t \in Threads : StopTimesOut(t) \/ ReleaseFails(t)
  \/ \E w \in Waiters : WaitBegins(w)
  \/ \E q \in Procs : Spawns(q) \/ Exits(q)

Spec == Init /\ [][Next]_vars
FairSpec == Spec /\ WF_vars(Progress)

-----------------------------------------------------------------------------
(* Properties                                                              *)

\* No unit process runs outside its unit job or, while the daemon's job is
\* open, outside that: every failure of finishProcessSetup comes before
\* ResumeThread, and a child inherits both jobs.
ContainedRun ==
  \A q \in Procs : ps[q] = "running" => q \in inUnit /\ q \in inDaemon

\* A Start that returns no process has left nothing: failedProcessStart closed
\* every handle the launch opened, at whatever call it failed or timed out,
\* and no process is alive.
FailedStartClean ==
  start = "nil" => open = {} /\ \A q \in Procs : ~Alive(q)

\* Once Stop has closed the process, its main process has exited, every process
\* that was in the job when it was terminated has exited (not only left the
\* job's list), none is alive, and only the waits' own handles are open.
StopProves ==
  p.closed =>
    /\ ps["main"] \in {"none", "dead"}
    /\ \A q \in Procs : ~Alive(q)
    /\ \A q \in killed : ps[q] = "dead"
    /\ open \subseteq Waiters

\* No wait is blocked on a handle another thread has closed.
WaitHandleOpen ==
  \A w \in Waiters : wait[w].pc = "blocked" => wait[w].handle \in open

\* Once DaemonJob.Close has released the handle nothing of the unit runs, also
\* when a launch races it, and a daemon in its own job has seen every child it
\* captured exit.
DaemonCloseProves ==
  ~daemon.open =>
    /\ \A q \in Procs : ps[q] # "running"
    /\ scene.self => (\A q \in Procs : ~Alive(q)) /\ (\A q \in daemon.caught : ps[q] = "dead")

\* What the launch, the stops, the waits and the daemon's close keep between them
\* of the unit's processes and handles: a unit process runs only in its jobs, a
\* failed Start has left nothing, a Stop that closed the process has proved that
\* all of it exited, no wait loses its handle to another thread, and nothing of
\* the unit survives the daemon's job.
ProcessesContained ==
  /\ ContainedRun
  /\ FailedStartClean
  /\ StopProves
  /\ WaitHandleOpen
  /\ DaemonCloseProves

\* Every Stop returns: neither the locks nor the limit loop it waits for can
\* hold it for ever.
StopEnds ==
  \A t \in Threads : []<>(call[t].pc = "idle")

\* A limit message is noticed unless the port is closed first.
LimitNoticed ==
  []<>(watch.posted => watch.hit \/ "iocp" \notin open)

\* A unit whose profile keeper ends does not run on, whether the keeper ends
\* before or after the callback is set, when no native call fails.
KeeperLoss ==
  []<>(keeper.state = "ended" /\ scene.faults = 0 => ps["main"] \in {"none", "dying", "dead"})
=============================================================================
