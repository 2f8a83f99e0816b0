------------------------- MODULE UnitProcessProofs -------------------------
(***************************************************************************)
(* The processes and handles of a unit are contained, for every number of  *)
(* stops, waits and children and every scenario of native failures and     *)
(* time-outs: ProcessesContained of UnitProcess is an invariant.           *)
(*                                                                         *)
(* It is not inductive. IInv adds what each thread relies on where it is:  *)
(* the process joins both jobs before it can run (Launched); a stop holds  *)
(* winProc.stopMu, and UnitJob.stopMu over the job's own parts (Locks), so *)
(* that what the release has passed stays closed (Releases) although the   *)
(* keeper's callback kills the same job; the captured handles cover all    *)
(* that was terminated (Captured), so their signals prove the exit         *)
(* (Waited, Confirmed).                                                    *)
(***************************************************************************)
EXTENDS UnitProcess, TLAPS

Others == Procs \ {"main"}
Early == {"account", "job", "port", "stdout", "stderr", "stdin", "process"}
Setup == {"closeLaunch", "assignDaemon", "assignUnit", "priority", "resume"}
Ends == {"done", "failed"}
InStop == {"terminate", "admit", "capture", "killJob", "waitMain", "waitCaught", "waitList",
           "release"}

CallRecords ==
  [pc : InStop \union {"idle", "lock"}, at : 1..(Len(Order) + 1), bad : BOOLEAN]

Typed ==
  /\ create \in Early \union Setup \union {"closeThread", "keeper", "killing"} \union Ends
  /\ start \in {"creating", "cleaning", "proc", "owned", "nil"}
  /\ held \subseteq Handles
  /\ ps \in [Procs -> {"none", "suspended", "running", "dying", "dead"}]
  /\ inUnit \subseteq Procs /\ inDaemon \subseteq Procs
  /\ p \in [unassigned : BOOLEAN, exited : BOOLEAN, confirmed : BOOLEAN, closed : BOOLEAN]
  /\ exits \in [shut : BOOLEAN, ready : BOOLEAN, caught : SUBSET Procs]
  /\ call \in [Threads -> CallRecords]
  /\ wait \in [Waiters -> [pc : {"idle", "blocked", "returned"}, handle : Waiters \union {"none"}]]
  /\ keeper \in [state : {"none", "running", "ended"}, callback : BOOLEAN, closing : BOOLEAN]
  /\ daemon \in [pc : {"idle", "admission", "capture", "kill", "wait", "handle"},
                 open : BOOLEAN, shut : BOOLEAN, ready : BOOLEAN, caught : SUBSET Procs]

\* Where the launch is tells what can exist: a process runs only after it joined
\* both jobs, and has no child before it runs.
Launched ==
  /\ create \in Early => \A q \in Procs : ps[q] = "none"
  /\ create \in Setup => ps["main"] \notin {"none", "running"} /\ \A q \in Others : ps[q] = "none"
  /\ create \in {"assignUnit", "priority", "resume"} => "main" \in inDaemon
  /\ create \in {"priority", "resume"} => "main" \in inUnit
  /\ ps["main"] = "none" => \A q \in Others : ps[q] = "none"
  /\ \A q \in Others : ps[q] # "suspended"

\* Stops run only after the launch is over, and the keeper's callback only once it
\* is set.
Started ==
  /\ create \notin Ends => start = "creating"
  /\ start = "creating" =>
       /\ ~p.closed /\ ~p.confirmed /\ stopMu = "none"
       /\ \A t \in Threads \ {"keeper"} : At(t, "idle")
  /\ start = "cleaning" => ~p.closed /\ \A t \in Stoppers : At(t, "idle")
  /\ ~At("start", "idle") => start = "cleaning"
  /\ start = "nil" => p.closed
  /\ keeper.callback => create \in {"killing", "done"}
  /\ call["keeper"].pc \in {"idle", "admit", "capture", "killJob"}
  /\ ~At("keeper", "idle") => keeper.callback /\ keeper.state = "ended"

\* winProc.stopMu is held from the lock to the end of Stop, UnitJob.stopMu while
\* the job's exits are captured, the job terminated or its list read.
Locks ==
  \A t \in Threads :
    /\ t # "keeper" /\ call[t].pc \in InStop => stopMu = t
    /\ call[t].pc \in {"capture", "killJob", "waitList"} => jobMu = t
    /\ call[t].pc \in {"capture", "killJob"} => "job" \in held

\* What a release has passed is closed and stays so, unless a launch handle
\* failed; past the captured handles it keeps UnitJob.stopMu until the job is
\* closed.
Releases ==
  \A t \in Threads :
    /\ ~At(t, "release") => call[t].at = 1 /\ ~call[t].bad
    /\ At(t, "release") =>
         /\ IF call[t].bad THEN call[t].at <= LaunchLast + 1
            ELSE \A i \in 1..(call[t].at - 1) : Order[i] \notin held
         /\ call[t].at > LaunchLast + 1 => jobMu = t \/ call[t].at > 9
         /\ ps["main"] = "none" \/ p.confirmed

\* Once the exit set is ready no process joins the job, and every one on its list
\* is captured; so what is terminated is captured.
Captured ==
  /\ exits.ready => exits.shut /\ Listed \subseteq exits.caught
  /\ exits.shut => create \in {"killing", "done", "failed"}
  /\ \A t \in Threads : (At(t, "capture") => exits.shut) /\ (At(t, "killJob") => exits.ready)
  /\ killed \subseteq exits.caught /\ (killed # {} => exits.shut)
  /\ \A q \in killed : ps[q] \in {"dying", "dead"}

\* The waits of a stop: the process has ended, then what was captured has.
Waited ==
  \A t \in Threads :
    /\ call[t].pc \in {"waitCaught", "waitList"} => ps["main"] = "dead"
    /\ At(t, "waitList") => ExitsSignalled

Confirmed ==
  /\ p.confirmed => /\ ps["main"] = "dead" /\ \A q \in Procs : ~Alive(q)
                    /\ \A q \in killed : ps[q] = "dead"
  /\ p.closed => held = {} /\ stopMu = "none" /\ (ps["main"] = "none" \/ p.confirmed)

\* The open handles are the known ones and those the blocked waits duplicated.
HandlesKnown ==
  /\ open \subseteq held \union Waiters
  /\ \A w \in Waiters :
       /\ w \in open <=> wait[w].pc = "blocked"
       /\ wait[w].pc = "blocked" => wait[w].handle = w /\ start = "proc"

\* A daemon job past its admission takes no process; a daemon in its own job
\* releases the handle only when every child ended.
DaemonShuts ==
  /\ scene.self => \A q \in Procs : ps[q] # "none" => q \in inDaemon
  /\ daemon.ready \/ daemon.pc \in {"capture", "kill", "wait"} => daemon.shut
  /\ scene.self /\ (daemon.pc = "handle" \/ ~daemon.open) => daemon.shut /\ ChildrenEnded
  /\ ~daemon.open => daemon.pc = "idle" /\ DaemonLeft = {}

IInv ==
  /\ Typed /\ Launched /\ ContainedRun /\ Started /\ Locks /\ Releases /\ Captured
  /\ Waited /\ Confirmed /\ HandlesKnown /\ DaemonShuts

-----------------------------------------------------------------------------
(* What steps have in common                                               *)

\* Each part of the invariant reads only some of the state.
LEMMA Frames ==
  /\ Launched /\ UNCHANGED <<create, ps, inUnit, inDaemon>> => Launched'
  /\ ContainedRun /\ UNCHANGED <<ps, inUnit, inDaemon>> => ContainedRun'
  /\ Started /\ UNCHANGED <<create, start, p, stopMu, call, keeper>> => Started'
  /\ Locks /\ UNCHANGED <<call, stopMu, jobMu, held>> => Locks'
  /\ Releases /\ UNCHANGED <<call, held, jobMu, ps, p>> => Releases'
  /\ Captured /\ UNCHANGED <<create, ps, inUnit, exits, killed, call>> => Captured'
  /\ Waited /\ UNCHANGED <<call, ps, exits>> => Waited'
  /\ Confirmed /\ UNCHANGED <<p, ps, killed, held, stopMu>> => Confirmed'
  /\ HandlesKnown /\ UNCHANGED <<open, held, wait, start>> => HandlesKnown'
  /\ DaemonShuts /\ UNCHANGED <<scene, ps, inDaemon, daemon>> => DaemonShuts'
<1>1. /\ Launched /\ UNCHANGED <<create, ps, inUnit, inDaemon>> => Launched'
      /\ ContainedRun /\ UNCHANGED <<ps, inUnit, inDaemon>> => ContainedRun'
  BY DEF Launched, ContainedRun
<1>2. /\ Started /\ UNCHANGED <<create, start, p, stopMu, call, keeper>> => Started'
      /\ Locks /\ UNCHANGED <<call, stopMu, jobMu, held>> => Locks'
  BY DEF Started, Locks, At
<1>3. Releases /\ UNCHANGED <<call, held, jobMu, ps, p>> => Releases'
  BY DEF Releases, At
<1>4. Captured /\ UNCHANGED <<create, ps, inUnit, exits, killed, call>> => Captured'
  BY DEF Captured, Listed, Alive, At
<1>5. /\ Waited /\ UNCHANGED <<call, ps, exits>> => Waited'
      /\ Confirmed /\ UNCHANGED <<p, ps, killed, held, stopMu>> => Confirmed'
  BY DEF Waited, ExitsSignalled, At, Confirmed, Alive
<1>6. /\ HandlesKnown /\ UNCHANGED <<open, held, wait, start>> => HandlesKnown'
      /\ DaemonShuts /\ UNCHANGED <<scene, ps, inDaemon, daemon>> => DaemonShuts'
  BY DEF HandlesKnown, DaemonShuts, ChildrenEnded, DaemonLeft, Alive
<1> QED
  BY <1>1, <1>2, <1>3, <1>4, <1>5, <1>6

\* Before the launch is over no stop runs, and before the keeper's callback is set
\* nothing at all ends the job: what the stops rely on holds of any handles and
\* processes.
LEMMA LaunchKeeps ==
  ASSUME IInv, create \notin Ends \union {"killing"},
         UNCHANGED <<start, exits, killed, call, stopMu>>,
         p'.closed = p.closed, p'.confirmed = p.confirmed, keeper'.callback = keeper.callback
  PROVE  Started' /\ Locks' /\ Releases' /\ Captured' /\ Waited' /\ Confirmed'
<1>1. /\ start = "creating" /\ ~p.closed /\ ~p.confirmed /\ ~keeper.callback
      /\ \A t \in Threads : At(t, "idle")
  BY DEF IInv, Started, Ends, Threads, At
<1>2. Started'
  BY <1>1 DEF IInv, Started, Ends, At
<1>3. Locks' /\ Releases' /\ Waited'
  BY <1>1 DEF IInv, Locks, Releases, Waited, At, InStop
<1>4. ~exits.shut /\ ~exits.ready /\ killed = {}
  BY DEF IInv, Captured, Ends
<1>5. Captured' /\ Confirmed'
  BY <1>1, <1>4 DEF IInv, Captured, Confirmed, At
<1> QED
  BY <1>2, <1>3, <1>5

\* A step in which processes only end: those alive leave their job's list, and
\* those that left it signal.
Ages ==
  /\ ps' \in [Procs -> {"none", "suspended", "running", "dying", "dead"}]
  /\ \A q \in Procs : \/ ps'[q] = ps[q]
                      \/ Alive(q) /\ ps'[q] = "dying"
                      \/ ps[q] = "dying" /\ ps'[q] = "dead"

LEMMA AgesKeeps ==
  ASSUME IInv, Ages
  PROVE  /\ UNCHANGED <<create, inUnit, inDaemon>> => Launched' /\ ContainedRun'
         /\ UNCHANGED <<held, p, call, jobMu>> => Releases'
         /\ /\ UNCHANGED <<create, inUnit, exits, killed>>
            /\ \A t \in Threads : call'[t].pc = call[t].pc
            => Captured'
         /\ UNCHANGED exits /\ (\A t \in Threads : call'[t].pc = call[t].pc) => Waited'
         /\ UNCHANGED <<held, p, killed, stopMu>> => Confirmed'
         /\ UNCHANGED <<scene, inDaemon, daemon>> => DaemonShuts'
<1>1. /\ "main" \in Procs /\ Others \subseteq Procs
      /\ killed \subseteq Procs /\ exits.caught \subseteq Procs /\ inUnit \subseteq Procs
      /\ daemon.caught \subseteq Procs /\ inDaemon \subseteq Procs
  BY DEF Procs, Others, IInv, Typed, Captured
<1>2. \A q \in Procs : /\ ps'[q] = "none" <=> ps[q] = "none"
                       /\ ps'[q] \in {"suspended", "running"} => ps'[q] = ps[q]
                       /\ ps[q] = "dead" => ps'[q] = "dead"
                       /\ ps[q] \in {"dying", "dead"} => ps'[q] \in {"dying", "dead"}
  BY DEF Ages, Alive, IInv, Typed
<1>3. UNCHANGED <<create, inUnit, inDaemon>> => Launched' /\ ContainedRun'
  BY <1>1, <1>2 DEF IInv, Typed, Launched, ContainedRun
<1>4. UNCHANGED <<held, p, call, jobMu>> => Releases'
  BY <1>1, <1>2 DEF IInv, Releases, At
<1>5. UNCHANGED <<create, inUnit, exits, killed>> /\ (\A t \in Threads : call'[t].pc = call[t].pc)
        => Captured'
  BY <1>1, <1>2 DEF IInv, Captured, Listed, Alive, At
<1>6. UNCHANGED exits /\ (\A t \in Threads : call'[t].pc = call[t].pc) => Waited'
  BY <1>1, <1>2 DEF IInv, Waited, ExitsSignalled, At
<1>7. UNCHANGED <<held, p, killed, stopMu>> => Confirmed'
  BY <1>1, <1>2 DEF IInv, Confirmed, Alive
<1>8. UNCHANGED <<scene, inDaemon, daemon>> => DaemonShuts'
  <2> SUFFICES ASSUME UNCHANGED <<scene, inDaemon, daemon>>
               PROVE  DaemonShuts'
    OBVIOUS
  <2>1. DaemonLeft = {} => DaemonLeft' = {}
    BY <1>1, <1>2 DEF DaemonLeft, Alive
  <2>2. ChildrenEnded => ChildrenEnded'
    BY <1>1, <1>2, <2>1 DEF ChildrenEnded
  <2> QED
    BY <1>2, <2>1, <2>2 DEF IInv, DaemonShuts
<1> QED
  BY <1>3, <1>4, <1>5, <1>6, <1>7, <1>8
-----------------------------------------------------------------------------
(* The launch                                                              *)

\* A step of the launch that opens or closes handles and leaves the processes
\* alone; what it opens or closes the launch knows of.
Handling ==
  /\ create \notin Ends \union {"killing"}
  /\ \/ create' = "failed"
     \/ create \in Early /\ create' \in Early
     \/ create = "closeLaunch" /\ create' = "assignDaemon"
     \/ create = "priority" /\ create' = "resume"
     \/ create = "closeThread" /\ create' \in {"keeper", "done"}
  /\ UNCHANGED <<quiet, ps, inUnit, inDaemon>>
  /\ held' \subseteq Handles /\ open' \subseteq held' \union Waiters
  /\ \A w \in Waiters : w \in open' <=> w \in open
  /\ keeper' \in [state : {"none", "running", "ended"}, callback : BOOLEAN, closing : BOOLEAN]
  /\ keeper'.callback = keeper.callback

LEMMA KnownHandles ==
  /\ {"in", "outW", "errW", "outL", "errL", "exits", "iocp", "loop", "job", "thread", "process",
      "outR", "errR", "account"} = Handles
  /\ Len(Order) = 14
<1>1. Len(Order) = 14
  BY DEF Order
<1>2. {"in", "outW", "errW", "outL", "errL", "exits", "iocp", "loop", "job", "thread", "process",
      "outR", "errR", "account"} = Handles
  BY <1>1 DEF Order, Handles
<1> QED
  BY <1>1, <1>2

LEMMA HandlingSteps ==
  ASSUME IInv,
         \/ OpenAccount \/ OpenUnitJob \/ startLimitWatch \/ OpenPipes
         \/ CloseLaunchHandles \/ SetPriority \/ CloseThread
  PROVE  Handling
<1>1. /\ held \subseteq Handles /\ open \subseteq held \union Waiters
      /\ Handles \intersect Waiters = {}
      /\ keeper \in [state : {"none", "running", "ended"}, callback : BOOLEAN, closing : BOOLEAN]
  BY WaitersOwnHandles DEF IInv, Typed, HandlesKnown
<1>2. CASE OpenAccount
  BY <1>1, <1>2, KnownHandles DEF OpenAccount, Opens, Handling, Early, Ends
<1>3. CASE OpenUnitJob
  BY <1>1, <1>3, KnownHandles DEF OpenUnitJob, Opens, Handling, Early, Ends
<1>4. CASE startLimitWatch
  BY <1>1, <1>4, KnownHandles DEF startLimitWatch, Handling, Early, Ends
<1>5. CASE OpenPipes
  BY <1>1, <1>5, KnownHandles DEF OpenPipes, Opens, Handling, Early, Ends
<1>6. CASE CloseLaunchHandles
  BY <1>1, <1>6, KnownHandles DEF CloseLaunchHandles, Handling, Early, Ends
<1>7. CASE SetPriority
  BY <1>1, <1>7 DEF SetPriority, SetupFails, Handling, Early, Ends
<1>8. CASE CloseThread
  BY <1>1, <1>8, KnownHandles DEF CloseThread, SetupFails, Handling, Early, Ends
<1> QED
  BY <1>2, <1>3, <1>4, <1>5, <1>6, <1>7, <1>8

LEMMA HandlingKeeps ==
  ASSUME IInv, Handling
  PROVE  IInv'
<1>1. Started' /\ Locks' /\ Releases' /\ Captured' /\ Waited' /\ Confirmed'
  BY LaunchKeeps DEF Handling, quiet
<1>2. ContainedRun' /\ DaemonShuts'
  BY Frames DEF IInv, Handling, quiet
<1>3. Typed'
  BY DEF IInv, Typed, Handling, quiet, Early, Setup, Ends
<1>4. Launched'
  BY DEF IInv, Launched, Handling, Early, Setup, Ends
<1>5. HandlesKnown'
  BY DEF IInv, HandlesKnown, Handling, quiet
<1> QED
  BY <1>1, <1>2, <1>3, <1>4, <1>5 DEF IInv

LEMMA CreateProcessStep ==
  ASSUME IInv, CreateProcess
  PROVE  IInv'
<1>1. /\ create = "process" /\ \A q \in Procs : ps[q] = "none"
      /\ "main" \in Procs /\ Others \subseteq Procs
  BY DEF IInv, CreateProcess, Launched, Early, Procs, Others
<1>2. p' \in [unassigned : BOOLEAN, exited : BOOLEAN, confirmed : BOOLEAN, closed : BOOLEAN]
      /\ p'.closed = p.closed /\ p'.confirmed = p.confirmed
  BY ZenonT(60) DEF IInv, Typed, CreateProcess
<1>3. Started' /\ Locks' /\ Releases' /\ Captured' /\ Waited' /\ Confirmed'
  BY <1>1, <1>2, LaunchKeeps DEF CreateProcess, Ends
<1>4. CASE UNCHANGED <<open, held, ps, inDaemon>> /\ create' = "failed"
  <2>1. ContainedRun' /\ DaemonShuts' /\ HandlesKnown'
    BY <1>4, Frames DEF IInv, CreateProcess
  <2>2. Typed' /\ Launched'
    BY <1>2, <1>4 DEF IInv, Typed, Launched, CreateProcess, Early, Setup, Ends
  <2> QED
    BY <1>3, <2>1, <2>2 DEF IInv
<1>5. CASE /\ create' = "closeLaunch"
           /\ ~(scene.self /\ daemon.shut)
           /\ ps' = [ps EXCEPT !["main"] = "suspended"]
           /\ inDaemon' = IF scene.self THEN {"main"} ELSE {}
           /\ open' = (open \ {"outL", "errL"}) \union {"process", "thread", "outR", "errR"}
           /\ held' = (held \ {"outL", "errL"}) \union {"process", "thread", "outR", "errR"}
  <2>1. ps'["main"] = "suspended" /\ \A q \in Others : ps'[q] = "none"
    BY <1>1, <1>5 DEF IInv, Typed, Others
  <2>2. Launched' /\ ContainedRun'
    BY <1>1, <1>5, <2>1 DEF Launched, ContainedRun, Others, Early, Setup
  <2>3. held' \subseteq Handles /\ HandlesKnown'
    BY <1>5, KnownHandles, WaitersOwnHandles DEF IInv, Typed, HandlesKnown, CreateProcess
  <2>4. Typed'
    BY <1>1, <1>2, <1>5, <2>3 DEF IInv, Typed, CreateProcess, Setup
  <2>5. DaemonLeft' = {} \/ (scene.self /\ ~daemon.shut)
    BY <1>5 DEF DaemonLeft
  <2>6. DaemonShuts'
    BY <1>1, <1>5, <2>1, <2>5 DEF IInv, DaemonShuts, CreateProcess, Others
  <2> QED
    BY <1>3, <2>2, <2>3, <2>4, <2>6 DEF IInv
<1> QED
  BY ZenonT(60), <1>4, <1>5 DEF CreateProcess

LEMMA AssignDaemonStep ==
  ASSUME IInv, AssignDaemon
  PROVE  IInv'
<1>1. Started' /\ Locks' /\ Releases' /\ Captured' /\ Waited' /\ Confirmed'
  BY LaunchKeeps DEF AssignDaemon, quiet, Ends
<1>2. HandlesKnown'
  BY Frames DEF IInv, AssignDaemon, quiet
<1>3. Typed' /\ Launched' /\ ContainedRun'
  BY DEF IInv, Typed, Launched, ContainedRun, AssignDaemon, quiet, SetupFails, Early, Setup, Ends, Procs
<1>4. DaemonShuts'
  BY DEF IInv, DaemonShuts, ChildrenEnded, DaemonLeft, AssignDaemon, quiet, Alive
<1> QED
  BY <1>1, <1>2, <1>3, <1>4 DEF IInv

LEMMA AssignUnitStep ==
  ASSUME IInv, AssignUnit
  PROVE  IInv'
<1>1. p' \in [unassigned : BOOLEAN, exited : BOOLEAN, confirmed : BOOLEAN, closed : BOOLEAN]
      /\ p'.closed = p.closed /\ p'.confirmed = p.confirmed
  BY ZenonT(60) DEF IInv, Typed, AssignUnit
<1>2. Started' /\ Locks' /\ Releases' /\ Captured' /\ Waited' /\ Confirmed'
  BY <1>1, LaunchKeeps DEF AssignUnit, Ends
<1>3. HandlesKnown' /\ DaemonShuts'
  BY Frames DEF IInv, AssignUnit
<1>4. Typed'
  BY <1>1 DEF IInv, Typed, AssignUnit, SetupFails, Setup, Ends, Procs
<1>5. Launched' /\ ContainedRun'
  BY DEF IInv, Launched, ContainedRun, AssignUnit, SetupFails, Early, Setup, Others
<1> QED
  BY <1>2, <1>3, <1>4, <1>5 DEF IInv

\* The process runs from here on, and is in both jobs.
LEMMA ResumeThreadStep ==
  ASSUME IInv, ResumeThread
  PROVE  IInv'
<1>1. Started' /\ Locks' /\ Releases' /\ Captured' /\ Waited' /\ Confirmed'
  BY LaunchKeeps DEF ResumeThread, quiet, Ends
<1>2. HandlesKnown'
  BY Frames DEF IInv, ResumeThread, quiet
<1>3. Typed'
  BY DEF IInv, Typed, ResumeThread, quiet, SetupFails, Ends
<1>4. Launched' /\ ContainedRun'
  BY DEF IInv, Typed, Launched, ContainedRun, ResumeThread, SetupFails, Early, Setup, Others
<1>5. \A q \in Procs : /\ ps'[q] = "none" <=> ps[q] = "none"
                       /\ Alive(q)' <=> Alive(q)
                       /\ ps[q] = "dead" => ps'[q] = "dead"
  BY DEF IInv, Typed, ResumeThread, Alive
<1>6. DaemonShuts'
  <2>1. DaemonLeft' = DaemonLeft
    BY <1>5 DEF IInv, Typed, DaemonLeft, ResumeThread
  <2>2. ChildrenEnded => ChildrenEnded'
    BY <1>5, <2>1 DEF IInv, Typed, ChildrenEnded, ResumeThread, quiet
  <2> QED
    BY <1>5, <2>1, <2>2 DEF IInv, DaemonShuts, ResumeThread, quiet
<1> QED
  BY <1>1, <1>2, <1>3, <1>4, <1>6 DEF IInv

-----------------------------------------------------------------------------
(* The stops and the keeper's callback                                     *)

\* Thread t is at pc now, where no release is under way yet.
Moved(t, pc) ==
  /\ call' \in [Threads -> CallRecords]
  /\ call'[t].pc = pc /\ call'[t].at = 1 /\ ~call'[t].bad
  /\ \A s \in Threads : s # t => call'[s] = call[s]

LEMMA GoesMoves ==
  ASSUME IInv, NEW t \in Threads, ~At(t, "release"),
         NEW pc \in InStop \union {"idle", "lock"}, Goes(t, pc)
  PROVE  Moved(t, pc)
<1>1. call \in [Threads -> CallRecords] /\ call[t].at = 1 /\ ~call[t].bad
  BY ZenonT(60) DEF IInv, Typed, Releases, CallRecords
<1>2. call' \in [Threads -> CallRecords]
  BY <1>1 DEF Goes, CallRecords
<1> QED
  BY <1>1, <1>2 DEF Goes, Moved, CallRecords

LEMMA ReturnsMoves ==
  ASSUME IInv, NEW t \in Threads, NEW ok, Returns(t, ok)
  PROVE  Moved(t, "idle")
<1>1. call \in [Threads -> CallRecords]
  BY ZenonT(60) DEF IInv, Typed, CallRecords
<1>2. call' \in [Threads -> CallRecords]
  BY <1>1, KnownHandles DEF Returns, CallRecords
<1> QED
  BY <1>1, <1>2 DEF Returns, Moved, CallRecords

LEMMA SameAges ==
  ASSUME IInv, UNCHANGED ps
  PROVE  Ages
BY DEF IInv, Typed, Ages

\* A thread that takes and gives back only locks that are free or its own, and
\* has what its new place relies on, keeps what the others rely on.
LEMMA MovesKeeps ==
  ASSUME IInv, NEW t \in Threads, NEW pc \in InStop \union {"idle", "lock"}, Moved(t, pc), Ages,
         jobMu' = jobMu \/ jobMu \in {t, "none"},
         stopMu' = stopMu \/ stopMu \in {t, "none"}
  PROVE  /\ /\ held \subseteq held'
            /\ t # "keeper" /\ pc \in InStop => stopMu' = t
            /\ pc \in {"capture", "killJob", "waitList"} => jobMu' = t
            /\ pc \in {"capture", "killJob"} => "job" \in held
            => Locks'
         /\ /\ UNCHANGED held
            /\ p.confirmed => p'.confirmed
            /\ pc = "release" => ps["main"] = "none" \/ p'.confirmed
            => Releases'
         /\ /\ UNCHANGED <<create, inUnit, exits, killed>>
            /\ pc = "capture" => exits.shut
            /\ pc = "killJob" => exits.ready
            => Captured'
         /\ /\ UNCHANGED exits
            /\ pc \in {"waitCaught", "waitList"} => ps["main"] = "dead"
            /\ pc = "waitList" => ExitsSignalled
            => Waited'
<1>1. /\ "none" \notin Threads
      /\ "main" \in Procs /\ exits.caught \subseteq Procs /\ killed \subseteq Procs
      /\ inUnit \subseteq Procs
  BY ThreadsDistinct DEF IInv, Typed, Threads, Procs, Captured
<1>3. /\ call'[t].pc = pc /\ call'[t].at = 1 /\ ~call'[t].bad
      /\ \A s \in Threads : s # t => call'[s] = call[s]
  BY DEF Moved
<1>4. /\ ps'["main"] = "none" <=> ps["main"] = "none"
      /\ \A q \in Procs : ps[q] = "dead" => ps'[q] = "dead"
      /\ \A q \in Procs : ps[q] \in {"dying", "dead"} => ps'[q] \in {"dying", "dead"}
      /\ \A q \in Procs : Alive(q)' => Alive(q)
  BY <1>1 DEF Ages, Alive, IInv, Typed
<1>5. \A s \in Threads : s # t => (jobMu = s => jobMu' = s) /\ (stopMu = s => stopMu' = s)
  BY <1>1
<1>6. ASSUME held \subseteq held',
             t # "keeper" /\ pc \in InStop => stopMu' = t,
             pc \in {"capture", "killJob", "waitList"} => jobMu' = t,
             pc \in {"capture", "killJob"} => "job" \in held
      PROVE  Locks'
  BY <1>3, <1>5, <1>6 DEF IInv, Locks
<1>7. ASSUME UNCHANGED held, p.confirmed => p'.confirmed,
             pc = "release" => ps["main"] = "none" \/ p'.confirmed
      PROVE  Releases'
  BY <1>3, <1>4, <1>5, <1>7 DEF IInv, Releases, At, LaunchLast
<1>8. ASSUME UNCHANGED <<create, inUnit, exits, killed>>,
             pc = "capture" => exits.shut, pc = "killJob" => exits.ready
      PROVE  Captured'
  BY <1>1, <1>3, <1>4, <1>8 DEF IInv, Captured, Listed, At
<1>9. ASSUME UNCHANGED exits, pc \in {"waitCaught", "waitList"} => ps["main"] = "dead",
             pc = "waitList" => ExitsSignalled
      PROVE  Waited'
  BY <1>1, <1>3, <1>4, <1>9 DEF IInv, Waited, At, ExitsSignalled
<1> QED
  BY <1>6, <1>7, <1>8, <1>9

\* A stop that goes on, or the keeper's callback, belongs to a launch that is over.
LEMMA GoesStarted ==
  ASSUME IInv, NEW t \in Threads, NEW pc, Moved(t, pc), ~At(t, "idle"), pc # "idle",
         UNCHANGED <<create, start, keeper>>, p'.closed = p.closed,
         t = "keeper" => /\ pc \in {"admit", "capture", "killJob"}
                         /\ p'.confirmed = p.confirmed /\ UNCHANGED stopMu
  PROVE  Started'
<1>1. /\ call'[t].pc = pc /\ "start" \in Threads /\ "keeper" \in Threads
      /\ \A s \in Threads : s # t => call'[s] = call[s]
  BY DEF IInv, Typed, Moved, Threads
<1>2. t # "keeper" => start # "creating" /\ (start = "cleaning" => t = "start")
  BY DEF IInv, Started, Threads
<1>3. Stoppers \subseteq Threads /\ "start" \notin Stoppers /\ "keeper" \notin Stoppers
  BY ThreadsDistinct DEF Threads
<1> QED
  BY <1>1, <1>2, <1>3 DEF IInv, Started, At

\* When Stop returns to Start, Start returns.
LEMMA ReturnsStarted ==
  ASSUME IInv, NEW t \in Threads, NEW ok \in BOOLEAN, Returns(t, ok), ~At(t, "idle"),
         UNCHANGED create, keeper'.callback = keeper.callback, keeper'.state = keeper.state,
         p'.confirmed = p.confirmed,
         p'.closed = p.closed \/ t # "keeper",
         start = "nil" \/ (t = "start" /\ ok) => p'.closed
  PROVE  Started' /\ (UNCHANGED <<open, held, wait>> => HandlesKnown')
<1>1. /\ At(t, "idle")' /\ "start" \in Threads /\ "keeper" \in Threads
      /\ \A s \in Threads : s # t => call'[s] = call[s]
  BY DEF IInv, Typed, Returns, At, Threads
<1>2. t # "keeper" => start # "creating" /\ (start = "cleaning" <=> t = "start")
  BY ThreadsDistinct DEF IInv, Started, Threads
<1>3. Stoppers \subseteq Threads /\ "start" \notin Stoppers /\ "keeper" \notin Stoppers
  BY ThreadsDistinct DEF Threads
<1>4. Started'
  BY <1>1, <1>2, <1>3 DEF IInv, Started, At, Returns
<1>5. UNCHANGED <<open, held, wait>> => HandlesKnown'
  BY <1>2 DEF IInv, HandlesKnown, Returns
<1> QED
  BY <1>4, <1>5

LEMMA onKeeperExitStep ==
  ASSUME IInv, onKeeperExit
  PROVE  IInv'
<1>1. /\ create = "keeper" /\ start = "creating" /\ "keeper" \in Threads
      /\ At("keeper", "idle") /\ ~exits.shut /\ ~exits.ready /\ killed = {}
  BY DEF IInv, Started, Captured, onKeeperExit, Ends, Threads
<1>2. keeper' \in [state : {"none", "running", "ended"}, callback : BOOLEAN, closing : BOOLEAN]
      /\ keeper'.callback /\ keeper'.state = keeper.state
  BY ZenonT(60) DEF IInv, Typed, onKeeperExit
<1>3. Launched' /\ ContainedRun' /\ Confirmed' /\ HandlesKnown' /\ DaemonShuts'
  <2>1. ContainedRun' /\ Confirmed' /\ HandlesKnown' /\ DaemonShuts'
    BY Frames DEF IInv, onKeeperExit
  <2>2. Launched'
    BY DEF IInv, Launched, onKeeperExit, Early, Setup
  <2> QED
    BY <2>1, <2>2
<1>4. CASE RunsAtOnce
  <2>1. Goes("keeper", "admit") /\ create' = "killing"
    BY <1>4 DEF onKeeperExit, Goes
  <2>2. Moved("keeper", "admit")
    BY <1>1, <2>1, GoesMoves DEF At, InStop
  <2>3. Ages
    BY SameAges DEF onKeeperExit
  <2>4. Locks' /\ Releases' /\ Waited'
    BY <1>1, <2>2, <2>3, MovesKeeps DEF onKeeperExit, InStop
  <2>5. Typed'
    BY <1>2, <2>1, <2>2 DEF IInv, Typed, onKeeperExit, Moved
  <2>6. Started'
    BY <1>1, <1>2, <1>4, <2>1, <2>2 DEF IInv, Started, onKeeperExit, RunsAtOnce, Moved, At, Ends,
       Threads
  <2>7. Captured'
    BY <1>1, <2>1, <2>2 DEF IInv, Captured, onKeeperExit, Moved, At
  <2> QED
    BY <1>3, <2>4, <2>5, <2>6, <2>7 DEF IInv
<1>5. CASE ~RunsAtOnce
  <2>1. create' = "done" /\ UNCHANGED call
    BY <1>5 DEF onKeeperExit
  <2>2. Locks' /\ Releases' /\ Waited'
    BY <2>1, Frames DEF IInv, onKeeperExit
  <2>3. Typed'
    BY <1>2, <2>1 DEF IInv, Typed, onKeeperExit, Ends
  <2>4. Started' /\ Captured'
    BY <1>1, <1>2, <2>1 DEF IInv, Started, Captured, onKeeperExit, At, Ends
  <2> QED
    BY <1>3, <2>2, <2>3, <2>4 DEF IInv
<1> QED
  BY <1>4, <1>5

LEMMA KilledAtOnceStep ==
  ASSUME IInv, KilledAtOnce
  PROVE  IInv'
<1>1. /\ Locks' /\ Releases' /\ Waited' /\ ContainedRun' /\ Confirmed' /\ HandlesKnown'
      /\ DaemonShuts'
  BY Frames DEF IInv, KilledAtOnce, quiet
<1>2. Typed'
  BY DEF IInv, Typed, KilledAtOnce, quiet, Ends
<1>3. Launched'
  BY DEF IInv, Launched, KilledAtOnce, Early, Setup
<1>4. Started'
  BY DEF IInv, Started, KilledAtOnce, quiet, Ends, At
<1>5. Captured'
  BY DEF IInv, Captured, KilledAtOnce, quiet, At, Listed, Alive
<1> QED
  BY <1>1, <1>2, <1>3, <1>4, <1>5 DEF IInv

LEMMA StartReturnsStep ==
  ASSUME IInv, StartReturns
  PROVE  IInv'
<1>1. /\ start = "creating" /\ create \in Ends /\ "start" \in Threads /\ At("start", "idle")
      /\ Stoppers \subseteq Threads \ {"start", "keeper"}
  BY ThreadsDistinct DEF IInv, Started, StartReturns, Ends, Threads
<1>2. Launched' /\ ContainedRun' /\ Confirmed' /\ DaemonShuts'
  BY Frames DEF IInv, StartReturns
<1>3. HandlesKnown'
  BY <1>1 DEF IInv, HandlesKnown, StartReturns
<1>4. CASE late \/ create = "failed"
  <2>1. Goes("start", "lock") /\ start' = "cleaning"
    BY <1>4 DEF StartReturns, Goes
  <2>2. Moved("start", "lock")
    BY <1>1, <2>1, GoesMoves DEF At
  <2>3. Ages
    BY SameAges DEF StartReturns
  <2>4. Locks' /\ Releases' /\ Captured' /\ Waited'
    BY <1>1, <2>2, <2>3, MovesKeeps DEF StartReturns, InStop
  <2>5. Typed'
    BY <2>1, <2>2 DEF IInv, Typed, StartReturns, Moved
  <2>6. Started'
    BY <1>1, <2>1, <2>2 DEF IInv, Started, StartReturns, Moved, At, Ends, Threads
  <2> QED
    BY <1>2, <1>3, <2>4, <2>5, <2>6 DEF IInv
<1>5. CASE ~(late \/ create = "failed")
  <2>1. start' = "proc" /\ UNCHANGED call
    BY <1>5 DEF StartReturns
  <2>2. Locks' /\ Releases' /\ Captured' /\ Waited'
    BY <2>1, Frames DEF IInv, StartReturns
  <2>3. Typed' /\ Started'
    BY <1>1, <2>1 DEF IInv, Typed, Started, StartReturns, At
  <2> QED
    BY <1>2, <1>3, <2>2, <2>3 DEF IInv
<1> QED
  BY <1>4, <1>5

LEMMA StopBeginsStep ==
  ASSUME IInv, NEW t \in Stoppers, StopBegins(t)
  PROVE  IInv'
<1>1. t \in Threads /\ At(t, "idle") /\ t # "keeper" /\ t # "start"
  BY ThreadsDistinct DEF StopBegins, Threads
<1>2. Moved(t, "lock")
  BY <1>1, GoesMoves DEF StopBegins, At
<1>3. Ages
  BY SameAges DEF StopBegins
<1>4. Locks' /\ Releases' /\ Captured' /\ Waited'
  BY <1>1, <1>2, <1>3, MovesKeeps DEF StopBegins, native, InStop
<1>5. Launched' /\ ContainedRun' /\ Confirmed' /\ HandlesKnown' /\ DaemonShuts'
  BY Frames DEF IInv, StopBegins, native
<1>6. Typed'
  BY <1>2 DEF IInv, Typed, StopBegins, native, Moved
<1>7. Started'
  BY <1>1, <1>2 DEF IInv, Started, StopBegins, native, Moved, At, Threads
<1> QED
  BY <1>4, <1>5, <1>6, <1>7 DEF IInv

\* What a thread inside Stop or Kill can rely on.
LEMMA InStopFacts ==
  ASSUME IInv, NEW t \in Threads, ~At(t, "idle")
  PROVE  /\ create \in {"killing", "done", "failed"}
         /\ t # "keeper" => start # "creating" /\ create \in Ends
         /\ t # "keeper" /\ call[t].pc \in InStop => stopMu = t /\ ~p.closed /\ start # "nil"
         /\ call[t].pc \in {"terminate", "waitMain", "waitCaught", "waitList", "release", "lock"}
              => t # "keeper"
<1>1. "none" \notin Threads
  BY ThreadsDistinct DEF Threads
<1>2. t # "keeper" => start # "creating" /\ create \in Ends
  BY DEF IInv, Started
<1>3. t # "keeper" /\ call[t].pc \in InStop => stopMu = t /\ ~p.closed /\ start # "nil"
  BY <1>1 DEF IInv, Locks, Confirmed, Started
<1> QED
  BY <1>2, <1>3 DEF IInv, Started, Ends, At

LEMMA StopLocksStep ==
  ASSUME IInv, NEW t \in Threads, StopLocks(t)
  PROVE  IInv'
<1>1. /\ At(t, "lock") /\ stopMu = "none" /\ t # "keeper" /\ ~At(t, "idle") /\ ~At(t, "release")
      /\ create \in Ends /\ start # "creating"
  BY InStopFacts DEF StopLocks, At
<1>2. Ages
  BY SameAges DEF StopLocks
<1>3. Launched' /\ ContainedRun' /\ DaemonShuts'
  BY Frames DEF IInv, StopLocks, native
<1>4. CASE p.closed
  <2>1. Returns(t, TRUE)
    BY ZenonT(60), <1>4 DEF StopLocks
  <2>2. Moved(t, "idle")
    BY ZenonT(60), <2>1, ReturnsMoves
  <2>3. Locks' /\ Releases' /\ Captured' /\ Waited'
    BY <1>1, <1>2, <2>2, MovesKeeps DEF StopLocks, native, InStop
  <2>4. Started' /\ HandlesKnown'
    BY ZenonT(60), <1>1, <1>4, <2>1, ReturnsStarted DEF StopLocks, native
  <2>5. Typed'
    BY <2>1, <2>2 DEF IInv, Typed, StopLocks, native, Moved, Returns
  <2>6. Confirmed'
    BY <1>1, <2>1 DEF IInv, Confirmed, StopLocks, Returns, Alive
  <2> QED
    BY <1>3, <2>3, <2>4, <2>5, <2>6 DEF IInv
<1>5. CASE ~p.closed
  <2> DEFINE pc == IF ps["main"] = "none" \/ p.confirmed THEN "release" ELSE "terminate"
  <2>1. Goes(t, pc) /\ stopMu' = t /\ UNCHANGED start
    BY <1>5 DEF StopLocks
  <2>2. pc \in InStop /\ pc # "idle" /\ pc \in {"release", "terminate"}
    BY DEF InStop
  <2>3. Moved(t, pc)
    BY <1>1, <2>1, <2>2, GoesMoves
  <2>4. Locks' /\ Releases' /\ Captured' /\ Waited'
    BY <1>1, <1>2, <2>1, <2>2, <2>3, MovesKeeps DEF StopLocks, native
  <2>5. Started'
    BY <1>1, <2>1, <2>2, <2>3, GoesStarted DEF StopLocks, native
  <2>6. Typed'
    BY <2>1, <2>3 DEF IInv, Typed, StopLocks, native, Moved
  <2>7. Confirmed' /\ HandlesKnown'
    BY ZenonT(60), <1>5, <2>1 DEF IInv, Confirmed, HandlesKnown, StopLocks, native, Alive
  <2> QED
    BY <1>3, <2>4, <2>5, <2>6, <2>7 DEF IInv
<1> QED
  BY <1>4, <1>5

\* A stop that fails inside returns its error, gives back its locks, and leaves the
\* process to a later Stop.
LEMMA StopFailsKeeps ==
  ASSUME IInv, NEW t \in Threads, call[t].pc \in InStop, NEW ok \in BOOLEAN, Returns(t, ok),
         t = "keeper" \/ ~ok, Ages,
         jobMu' = jobMu \/ jobMu \in {t, "none"},
         UNCHANGED <<create, p>>, keeper'.callback = keeper.callback, keeper'.state = keeper.state
  PROVE  /\ call' \in [Threads -> CallRecords] /\ start' \in {start, "owned"}
         /\ Started'
         /\ UNCHANGED <<open, held, wait>> => HandlesKnown'
         /\ held \subseteq held' => Locks'
         /\ UNCHANGED held => Releases'
         /\ UNCHANGED <<inUnit, exits, killed>> => Captured'
         /\ UNCHANGED exits => Waited'
         /\ UNCHANGED <<held, killed>> => Confirmed'
<1>1. ~At(t, "idle") /\ (t # "keeper" => stopMu = t /\ ~p.closed /\ start # "nil")
  BY InStopFacts DEF At, InStop
<1>2. Moved(t, "idle")
  BY ReturnsMoves
<1>3. stopMu' = stopMu \/ stopMu \in {t, "none"}
  BY <1>1 DEF Returns
<1>4. Started' /\ (UNCHANGED <<open, held, wait>> => HandlesKnown')
  BY ZenonT(60), <1>1, ReturnsStarted DEF IInv, Started
<1>5. UNCHANGED <<held, killed>> => Confirmed'
  <2>1. UNCHANGED <<held, killed, stopMu>> => Confirmed'
    BY ZenonT(60), AgesKeeps
  <2>2. CASE t = "keeper"
    BY ZenonT(60), <2>1, <2>2 DEF Returns
  <2>3. CASE t # "keeper"
    <3>1. \A q \in Procs : (~Alive(q) => ~Alive(q)') /\ (ps[q] = "dead" => ps'[q] = "dead")
      BY ZenonT(60) DEF Ages, Alive
    <3>2. "main" \in Procs /\ (UNCHANGED killed => killed' \subseteq Procs)
      BY ZenonT(60) DEF IInv, Captured, Typed, Procs
    <3> QED
      BY ZenonT(60), <1>1, <2>3, <3>1, <3>2 DEF IInv, Confirmed
  <2> QED
    BY <2>2, <2>3
<1>6. /\ held \subseteq held' => Locks'
      /\ UNCHANGED held => Releases'
      /\ UNCHANGED <<inUnit, exits, killed>> => Captured'
      /\ UNCHANGED exits => Waited'
  <2>1. /\ "idle" \in InStop \union {"idle", "lock"}
        /\ "idle" \notin InStop \union {"capture", "killJob", "waitList", "waitCaught", "release"}
    BY DEF InStop
  <2>2. (p.confirmed => p'.confirmed) /\ UNCHANGED create
    OBVIOUS
  <2> QED
    BY ZenonT(60), <1>2, <1>3, <2>1, <2>2, MovesKeeps
<1>7. start' \in {start, "owned"}
  BY ZenonT(60) DEF Returns
<1> QED
  BY ZenonT(60), <1>2, <1>4, <1>5, <1>6, <1>7 DEF Moved

LEMMA TerminateUnassignedStep ==
  ASSUME IInv, NEW t \in Threads, TerminateUnassigned(t)
  PROVE  IInv'
<1>1. /\ At(t, "terminate") /\ t # "keeper" /\ ~At(t, "idle") /\ ~At(t, "release")
      /\ stopMu = t /\ "terminate" \in InStop /\ "admit" \in InStop /\ call[t].pc \in InStop
  BY InStopFacts DEF TerminateUnassigned, At, InStop
<1>2. Ages
  <2>1. ps' = ps \/ (Alive("main") /\ ps' = [ps EXCEPT !["main"] = "dying"])
    BY ZenonT(60) DEF TerminateUnassigned
  <2> QED
    BY <2>1 DEF IInv, Typed, Ages, Alive, Procs
<1>3. Launched' /\ ContainedRun' /\ DaemonShuts'
  BY <1>2, AgesKeeps DEF TerminateUnassigned, native
<1>4. CASE Goes(t, "admit") /\ UNCHANGED <<start, stopMu, left>>
  <2>1. Moved(t, "admit")
    BY ZenonT(60), <1>1, <1>4, GoesMoves
  <2>2. Locks' /\ Releases' /\ Captured' /\ Waited'
    <3>1. "admit" \notin {"capture", "killJob", "waitList", "waitCaught", "release"}
      OBVIOUS
    <3>2. UNCHANGED <<create, held, inUnit, p, exits, killed, jobMu, stopMu>>
      BY ZenonT(60), <1>4 DEF TerminateUnassigned, native
    <3> QED
      BY ZenonT(60), <1>1, <1>2, <2>1, <3>1, <3>2, MovesKeeps
  <2>3. Started'
    BY ZenonT(60), <1>1, <1>4, <2>1, GoesStarted DEF TerminateUnassigned, native
  <2>4. Confirmed'
    BY <1>2, <1>4, AgesKeeps DEF TerminateUnassigned
  <2>5. HandlesKnown'
    BY ZenonT(60), <1>4, Frames DEF IInv, TerminateUnassigned, native
  <2>6. Typed'
    BY <1>2, <1>4, <2>1 DEF IInv, Typed, TerminateUnassigned, native, Moved, Ages
  <2> QED
    BY <1>3, <2>2, <2>3, <2>4, <2>5, <2>6 DEF IInv
<1>5. CASE Returns(t, FALSE)
  <2>1. /\ Started' /\ HandlesKnown' /\ Locks' /\ Releases' /\ Captured' /\ Waited' /\ Confirmed'
        /\ call' \in [Threads -> CallRecords] /\ start' \in {start, "owned"}
    BY ZenonT(60), <1>1, <1>2, <1>5, StopFailsKeeps DEF TerminateUnassigned, native
  <2>2. Typed'
    BY <1>2, <2>1 DEF IInv, Typed, TerminateUnassigned, native, Ages
  <2> QED
    BY <1>3, <2>1, <2>2 DEF IInv
<1> QED
  BY ZenonT(60), <1>4, <1>5 DEF TerminateUnassigned

LEMMA KillAdmissionStep ==
  ASSUME IInv, NEW t \in Threads, KillAdmission(t)
  PROVE  IInv'
<1>1. /\ At(t, "admit") /\ jobMu = "none" /\ ~At(t, "idle") /\ ~At(t, "release")
      /\ call[t].pc \in InStop /\ create \in {"killing", "done", "failed"}
      /\ t # "keeper" => stopMu = t
  BY InStopFacts DEF KillAdmission, At, InStop
<1>2. Ages
  BY SameAges DEF KillAdmission
<1>3. Launched' /\ ContainedRun' /\ DaemonShuts'
  BY Frames DEF IInv, KillAdmission, native
<1>4. CASE /\ "job" \in held
           /\ exits' = [exits EXCEPT !.shut = TRUE]
           /\ jobMu' = t
           /\ Goes(t, IF exits.ready THEN "killJob" ELSE "capture")
           /\ UNCHANGED <<start, stopMu, left>>
  <2> DEFINE pc == IF exits.ready THEN "killJob" ELSE "capture"
  <2>1. pc \in InStop /\ pc \in {"capture", "killJob"} /\ (pc = "killJob" => exits.ready)
    BY DEF InStop
  <2>2. Moved(t, pc)
    BY <1>1, <1>4, <2>1, GoesMoves
  <2>3. Locks' /\ Releases'
    BY <1>1, <1>2, <1>4, <2>1, <2>2, MovesKeeps DEF KillAdmission
  <2>4. Started'
    BY <1>1, <1>4, <2>1, <2>2, GoesStarted DEF KillAdmission, native
  <2>5. Confirmed' /\ HandlesKnown'
    BY <1>4, Frames DEF IInv, KillAdmission, native
  <2>6. /\ exits' \in [shut : BOOLEAN, ready : BOOLEAN, caught : SUBSET Procs]
        /\ exits'.shut /\ exits'.ready = exits.ready /\ exits'.caught = exits.caught
    BY ZenonT(60), <1>4 DEF IInv, Typed
  <2>7. Typed'
    BY <1>4, <2>2, <2>6 DEF IInv, Typed, KillAdmission, native, Moved
  <2>8. Captured' /\ Waited'
    BY <1>1, <2>1, <2>2, <2>6 DEF IInv, Captured, Waited, KillAdmission, native, Moved, At, Listed,
       Alive, ExitsSignalled
  <2> QED
    BY <1>3, <2>3, <2>4, <2>5, <2>7, <2>8 DEF IInv
<1>5. ASSUME NEW ok \in BOOLEAN, Returns(t, ok), t = "keeper" \/ ~ok, UNCHANGED <<exits, jobMu>>
      PROVE  IInv'
  <2>1. /\ Started' /\ HandlesKnown' /\ Locks' /\ Releases' /\ Captured' /\ Waited' /\ Confirmed'
        /\ call' \in [Threads -> CallRecords] /\ start' \in {start, "owned"}
    BY ZenonT(60), <1>1, <1>2, <1>5, StopFailsKeeps DEF KillAdmission, native
  <2>2. Typed'
    BY <1>5, <2>1 DEF IInv, Typed, KillAdmission, native
  <2> QED
    BY <1>3, <2>1, <2>2 DEF IInv
<1> QED
  BY ZenonT(60), <1>4, <1>5 DEF KillAdmission

\* The keeper's callback can capture while a stop releases: the stop is then still
\* before the captured handles, because the job is held and locked.
LEMMA CaptureKeeps ==
  ASSUME IInv, NEW t \in Threads, KillCapture(t), NEW pc \in {"idle", "killJob"}, Moved(t, pc),
         start' = start \/ start = "cleaning"
  PROVE  /\ held' \subseteq Handles /\ held \subseteq held'
         /\ Releases' /\ Waited' /\ Confirmed' /\ HandlesKnown'
<1>1. /\ At(t, "capture") /\ jobMu = t /\ "job" \in held /\ ~p.closed
      /\ "job" = Order[9] /\ "exits" = Order[6] /\ Len(Order) = 14
  BY KnownHandles DEF IInv, Locks, Confirmed, KillCapture, At, Order
<1>2. PICK new \in SUBSET {"exits"} : open' = open \union new /\ held' = held \union new
  BY ZenonT(60) DEF KillCapture
<1>3. /\ call'[t].pc = pc /\ call'[t].at = 1 /\ ~call'[t].bad
      /\ \A s \in Threads : s # t => call'[s] = call[s]
  BY DEF Moved
<1>4. ASSUME NEW s \in Threads, At(s, "release")
      PROVE  s # t /\ call[s].at <= 6
  <2>1. call[s].at \in 1..15 /\ call[s].bad \in BOOLEAN
    BY <1>1 DEF IInv, Typed, CallRecords
  <2> QED
    BY <1>1, <1>4, <2>1 DEF IInv, Releases, At, LaunchLast
<1>5. Releases'
  <2> SUFFICES ASSUME NEW s \in Threads
               PROVE  /\ call'[s].pc # "release" => call'[s].at = 1 /\ ~call'[s].bad
                      /\ call'[s].pc = "release" =>
                           /\ IF call'[s].bad THEN call'[s].at <= LaunchLast + 1
                              ELSE \A i \in 1..(call'[s].at - 1) : Order[i] \notin held'
                           /\ call'[s].at > LaunchLast + 1 => jobMu' = s \/ call'[s].at > 9
                           /\ ps["main"] = "none" \/ p.confirmed
    BY DEF Releases, At, KillCapture
  <2>1. CASE call'[s].pc # "release"
    BY ZenonT(60), <1>3, <2>1 DEF IInv, Releases, At
  <2>2. CASE call'[s].pc = "release"
    <3>1. s # t /\ call'[s] = call[s] /\ At(s, "release") /\ call[s].at <= 6
      BY ZenonT(60), <1>3, <1>4, <2>2 DEF At
    <3>2. call[s].at \in 1..15
      BY <1>1 DEF IInv, Typed, CallRecords
    <3>3. \A i \in 1..(call[s].at - 1) : Order[i] # "exits"
      BY <3>1, <3>2 DEF Order
    <3>4. \A i \in 1..(call[s].at - 1) : Order[i] \notin held => Order[i] \notin held'
      BY ZenonT(60), <1>2, <3>3
    <3>5. /\ IF call[s].bad THEN call[s].at <= LaunchLast + 1
             ELSE \A i \in 1..(call[s].at - 1) : Order[i] \notin held
          /\ ps["main"] = "none" \/ p.confirmed
      BY ZenonT(60), <3>1 DEF IInv, Releases
    <3>6. ~(call[s].at > LaunchLast + 1)
      BY <3>1, <3>2 DEF LaunchLast
    <3> QED
      BY ZenonT(60), <2>2, <3>1, <3>4, <3>5, <3>6
  <2> QED
    BY ZenonT(60), <2>1, <2>2
<1>6. Waited'
  BY <1>1, <1>3 DEF IInv, Locks, Waited, KillCapture, At
<1>7. Confirmed'
  BY <1>1 DEF IInv, Confirmed, KillCapture, Alive
<1>8. HandlesKnown'
  BY <1>2, KnownHandles, WaitersOwnHandles DEF IInv, HandlesKnown, KillCapture, native
<1>9. held' \subseteq Handles /\ held \subseteq held'
  BY ZenonT(60), <1>2, KnownHandles DEF IInv, Typed
<1> QED
  BY <1>5, <1>6, <1>7, <1>8, <1>9

LEMMA KillCaptureStep ==
  ASSUME IInv, NEW t \in Threads, KillCapture(t)
  PROVE  IInv'
<1>1. /\ At(t, "capture") /\ jobMu = t /\ "job" \in held /\ exits.shut
      /\ ~At(t, "idle") /\ ~At(t, "release") /\ call[t].pc \in InStop
      /\ t # "keeper" => stopMu = t
      /\ create \in {"killing", "done", "failed"}
      /\ "killJob" \in InStop
  BY InStopFacts DEF IInv, Locks, Captured, KillCapture, At, InStop
<1>2. Ages
  BY SameAges DEF KillCapture
<1>3. Launched' /\ ContainedRun' /\ DaemonShuts'
  BY Frames DEF IInv, KillCapture, native
<1>4. Listed \subseteq Procs /\ Listed' = Listed
  BY DEF IInv, Typed, Listed, Alive, KillCapture
<1>5. CASE /\ exits' = [exits EXCEPT !.ready = TRUE, !.caught = @ \union Listed]
           /\ Goes(t, "killJob")
           /\ UNCHANGED <<start, stopMu, jobMu, left>>
  <2>1. Moved(t, "killJob")
    BY <1>1, <1>5, GoesMoves
  <2>2. Releases' /\ Waited' /\ Confirmed' /\ HandlesKnown' /\ held' \subseteq Handles /\ held \subseteq held'
    BY <1>5, <2>1, CaptureKeeps
  <2>3. Locks'
    BY <1>1, <1>2, <1>5, <2>1, <2>2, MovesKeeps
  <2>4. Started'
    BY <1>1, <1>5, <2>1, GoesStarted DEF KillCapture, native
  <2>5. /\ exits' \in [shut : BOOLEAN, ready : BOOLEAN, caught : SUBSET Procs]
        /\ exits'.shut /\ exits'.ready /\ exits'.caught = exits.caught \union Listed
    BY ZenonT(60), <1>1, <1>4, <1>5 DEF IInv, Typed
  <2>6. Typed'
    BY <1>5, <2>1, <2>2, <2>5 DEF IInv, Typed, KillCapture, native, Moved
  <2>7. Captured'
    BY <1>1, <1>4, <2>1, <2>5 DEF IInv, Captured, KillCapture, native, Moved, At
  <2> QED
    BY <1>3, <2>2, <2>3, <2>4, <2>6, <2>7 DEF IInv
<1>6. ASSUME NEW some \in SUBSET Listed, exits' = [exits EXCEPT !.caught = @ \union some],
             Returns(t, FALSE), jobMu' = "none"
      PROVE  IInv'
  <2>1. Moved(t, "idle") /\ (start' = start \/ start = "cleaning")
    BY ZenonT(60), <1>1, <1>6, ReturnsMoves DEF Returns, IInv, Started
  <2>2. Releases' /\ Waited' /\ Confirmed' /\ HandlesKnown' /\ held' \subseteq Handles /\ held \subseteq held'
    BY <2>1, CaptureKeeps
  <2>3. /\ Started' /\ Locks'
        /\ call' \in [Threads -> CallRecords] /\ start' \in {start, "owned"}
    BY ZenonT(60), <1>1, <1>2, <1>6, <2>2, StopFailsKeeps DEF KillCapture, native
  <2>4. /\ exits' \in [shut : BOOLEAN, ready : BOOLEAN, caught : SUBSET Procs]
        /\ exits'.shut /\ exits'.ready = exits.ready /\ exits'.caught = exits.caught \union some
    BY ZenonT(60), <1>1, <1>4, <1>6 DEF IInv, Typed
  <2>5. Typed'
    BY <2>2, <2>3, <2>4 DEF IInv, Typed, KillCapture, native
  <2>6. Captured'
    BY <1>1, <1>4, <2>1, <2>4 DEF IInv, Captured, KillCapture, native, Moved, At
  <2> QED
    BY <1>3, <2>2, <2>3, <2>5, <2>6 DEF IInv
<1> QED
  BY ZenonT(60), <1>5, <1>6 DEF KillCapture

\* TerminateJobObject: what it ends is captured.
LEMMA KillJobStep ==
  ASSUME IInv, NEW t \in Threads, KillJob(t)
  PROVE  IInv'
<1>1. /\ At(t, "killJob") /\ jobMu = t /\ "job" \in held
      /\ exits.ready /\ exits.shut /\ Listed \subseteq exits.caught
      /\ ~At(t, "idle") /\ ~At(t, "release") /\ call[t].pc \in InStop
      /\ t # "keeper" => stopMu = t
      /\ "waitMain" \in InStop /\ "killJob" \in InStop
  BY ZenonT(60), InStopFacts DEF IInv, Locks, Captured, KillJob, At, InStop
<1>2. Ages
  BY ZenonT(60) DEF IInv, Typed, KillJob, Ages, Listed
<1>3. Launched' /\ ContainedRun' /\ DaemonShuts'
  BY <1>2, AgesKeeps DEF KillJob, native
<1>4. CASE /\ ps' = [q \in Procs |-> IF q \in Listed THEN "dying" ELSE ps[q]]
           /\ killed' = killed \union Listed
           /\ \/ Returns(t, TRUE) /\ t = "keeper"
              \/ Goes(t, "waitMain") /\ UNCHANGED <<start, stopMu>> /\ t # "keeper"
  <2>1. PICK pc \in {"idle", "waitMain"} : Moved(t, pc)
    BY ZenonT(60), <1>1, <1>4, GoesMoves, ReturnsMoves
  <2>2. UNCHANGED <<start, stopMu>>
    BY <1>4 DEF Returns
  <2>3. Locks' /\ Releases' /\ Waited'
    <3>1. t # "keeper" /\ pc \in InStop => stopMu' = t
      BY <1>1, <2>2
    <3>2. jobMu \in {t, "none"} /\ pc \in InStop \union {"idle", "lock"}
      BY <1>1
    <3> QED
      BY <1>2, <2>1, <2>2, <3>1, <3>2, MovesKeeps DEF KillJob
  <2>4. Started'
    <3>1. CASE Returns(t, TRUE) /\ t = "keeper"
      BY ZenonT(60), <1>1, <3>1, ReturnsStarted DEF KillJob, native, IInv, Started
    <3>2. CASE Goes(t, "waitMain") /\ UNCHANGED <<start, stopMu>> /\ t # "keeper"
      <4>1. Moved(t, "waitMain")
        BY ZenonT(60), <1>1, <3>2, GoesMoves
      <4> QED
        BY <1>1, <3>2, <4>1, GoesStarted DEF KillJob, native
    <3> QED
      BY ZenonT(60), <1>4, <3>1, <3>2
  <2>5. \A q \in Listed : q \in Procs /\ ps'[q] = "dying" /\ Alive(q)
    BY <1>4 DEF IInv, Typed, Listed
  <2>6. Captured'
    <3>1. /\ \A q \in killed' : ps'[q] \in {"dying", "dead"}
          /\ Listed' \subseteq exits.caught
      BY ZenonT(60), <1>1, <1>2, <1>4, <2>5 DEF IInv, Typed, Captured, Ages, Listed, Alive, KillJob
    <3> QED
      BY ZenonT(60), <1>1, <1>4, <2>1, <3>1 DEF IInv, Captured, KillJob, native, Moved, At
  <2>7. Confirmed'
    <3>1. p.confirmed => killed' = killed
      BY <1>4, <2>5 DEF IInv, Confirmed
    <3>2. UNCHANGED killed => Confirmed'
      BY <1>2, <2>2, AgesKeeps DEF KillJob
    <3>3. ~p.closed
      BY ZenonT(60), <1>1 DEF IInv, Confirmed
    <3>4. CASE ~p.confirmed
      BY ZenonT(60), <3>3, <3>4 DEF Confirmed, KillJob
    <3> QED
      BY <3>1, <3>2, <3>4
  <2>8. HandlesKnown'
    BY <2>2, Frames DEF IInv, KillJob, native
  <2>9. Typed'
    BY <1>2, <2>1, <2>2 DEF IInv, Typed, KillJob, native, Moved, Ages
  <2> QED
    BY <1>3, <2>3, <2>4, <2>6, <2>7, <2>8, <2>9 DEF IInv
<1>5. CASE Returns(t, FALSE) /\ UNCHANGED <<ps, killed>>
  <2>1. /\ Started' /\ HandlesKnown' /\ Locks' /\ Releases' /\ Captured' /\ Waited' /\ Confirmed'
        /\ call' \in [Threads -> CallRecords] /\ start' \in {start, "owned"}
    BY ZenonT(60), <1>1, <1>2, <1>5, StopFailsKeeps DEF KillJob, native
  <2>2. Typed'
    BY <1>2, <2>1 DEF IInv, Typed, KillJob, native, Ages
  <2> QED
    BY <1>3, <2>1, <2>2 DEF IInv
<1> QED
  BY ZenonT(60), <1>4, <1>5 DEF KillJob

LEMMA StopTimesOutStep ==
  ASSUME IInv, NEW t \in Threads, StopTimesOut(t)
  PROVE  IInv'
<1>1. call[t].pc \in InStop /\ (jobMu' = jobMu \/ jobMu \in {t, "none"})
  BY DEF StopTimesOut, InStop
<1>2. Ages
  BY SameAges DEF StopTimesOut
<1>3. Launched' /\ ContainedRun' /\ DaemonShuts'
  BY ZenonT(60), Frames DEF IInv, StopTimesOut, native
<1>4. /\ Started' /\ HandlesKnown' /\ Locks' /\ Releases' /\ Captured' /\ Waited' /\ Confirmed'
      /\ call' \in [Threads -> CallRecords] /\ start' \in {start, "owned"}
  BY ZenonT(60), <1>1, <1>2, StopFailsKeeps DEF StopTimesOut, native
<1>5. Typed'
  BY <1>4 DEF IInv, Typed, StopTimesOut, native
<1> QED
  BY <1>3, <1>4, <1>5 DEF IInv

LEMMA StopWaitsMainStep ==
  ASSUME IInv, NEW t \in Threads, StopWaitsMain(t)
  PROVE  IInv'
<1>1. /\ At(t, "waitMain") /\ ~At(t, "idle") /\ ~At(t, "release") /\ t # "keeper" /\ stopMu = t
      /\ "waitCaught" \in InStop
  BY InStopFacts DEF StopWaitsMain, At, InStop
<1>2. Ages
  BY SameAges DEF StopWaitsMain
<1>3. Launched' /\ ContainedRun' /\ DaemonShuts' /\ HandlesKnown'
  BY Frames DEF IInv, StopWaitsMain, native
<1>4. /\ p' \in [unassigned : BOOLEAN, exited : BOOLEAN, confirmed : BOOLEAN, closed : BOOLEAN]
      /\ p'.closed = p.closed /\ p'.confirmed = p.confirmed
  BY ZenonT(60) DEF IInv, Typed, StopWaitsMain
<1>5. Moved(t, "waitCaught")
  BY <1>1, GoesMoves DEF StopWaitsMain
<1>6. Locks' /\ Releases' /\ Captured' /\ Waited'
  BY <1>1, <1>2, <1>4, <1>5, MovesKeeps DEF StopWaitsMain, native
<1>7. Started'
  BY <1>1, <1>4, <1>5, GoesStarted DEF StopWaitsMain, native
<1>8. Confirmed'
  BY <1>4 DEF IInv, Confirmed, StopWaitsMain, Alive
<1>9. Typed'
  BY <1>4, <1>5 DEF IInv, Typed, StopWaitsMain, native, Moved
<1> QED
  BY <1>3, <1>6, <1>7, <1>8, <1>9 DEF IInv

LEMMA StopWaitsCaughtStep ==
  ASSUME IInv, NEW t \in Threads, StopWaitsCaught(t)
  PROVE  IInv'
<1>1. /\ At(t, "waitCaught") /\ ~At(t, "idle") /\ ~At(t, "release") /\ t # "keeper" /\ stopMu = t
      /\ jobMu = "none" /\ "waitList" \in InStop /\ ps["main"] = "dead"
  BY ZenonT(60), InStopFacts DEF StopWaitsCaught, At, InStop, IInv, Waited
<1>2. Ages
  BY SameAges DEF StopWaitsCaught
<1>3. Launched' /\ ContainedRun' /\ DaemonShuts' /\ HandlesKnown' /\ Confirmed'
  BY ZenonT(60), Frames DEF IInv, StopWaitsCaught, native
<1>4. Moved(t, "waitList")
  BY <1>1, GoesMoves DEF StopWaitsCaught
<1>5. Locks' /\ Releases' /\ Captured' /\ Waited'
  BY <1>1, <1>2, <1>4, MovesKeeps DEF StopWaitsCaught, native
<1>6. Started'
  BY <1>1, <1>4, GoesStarted DEF StopWaitsCaught, native
<1>7. Typed'
  BY <1>4 DEF IInv, Typed, StopWaitsCaught, native, Moved
<1> QED
  BY <1>3, <1>5, <1>6, <1>7 DEF IInv

\* The main process, what was captured and so what was terminated have exited, and
\* nothing outside the list can be alive.
LEMMA StopWaitsListStep ==
  ASSUME IInv, NEW t \in Threads, StopWaitsList(t)
  PROVE  IInv'
<1>1. /\ At(t, "waitList") /\ ~At(t, "idle") /\ ~At(t, "release") /\ t # "keeper" /\ stopMu = t
      /\ jobMu = t /\ "release" \in InStop /\ ps["main"] = "dead" /\ ExitsSignalled
  BY InStopFacts DEF StopWaitsList, At, InStop, IInv, Waited, Locks
<1>2. Ages
  BY SameAges DEF StopWaitsList
<1>3. Launched' /\ ContainedRun' /\ DaemonShuts' /\ HandlesKnown'
  BY Frames DEF IInv, StopWaitsList, native
<1>4. /\ p' \in [unassigned : BOOLEAN, exited : BOOLEAN, confirmed : BOOLEAN, closed : BOOLEAN]
      /\ p'.closed = p.closed /\ p'.confirmed
  BY ZenonT(60) DEF IInv, Typed, StopWaitsList
<1>5. Moved(t, "release")
  BY <1>1, GoesMoves DEF StopWaitsList
<1>6. Locks' /\ Releases' /\ Captured' /\ Waited'
  BY <1>1, <1>2, <1>4, <1>5, MovesKeeps DEF StopWaitsList, native
<1>7. Started'
  BY ZenonT(60), <1>1, <1>4, <1>5, GoesStarted DEF StopWaitsList, native
<1>8. \A q \in Procs : ~Alive(q)
  BY <1>1 DEF IInv, Launched, ContainedRun, StopWaitsList, Listed, Alive, Others
<1>9. Confirmed'
  BY <1>1, <1>4, <1>8 DEF IInv, Captured, Confirmed, StopWaitsList, ExitsSignalled, Alive
<1>10. Typed'
  BY <1>4, <1>5 DEF IInv, Typed, StopWaitsList, native, Moved
<1> QED
  BY <1>3, <1>6, <1>7, <1>9, <1>10 DEF IInv

-----------------------------------------------------------------------------
(* closeHandles                                                            *)

LEMMA Least ==
  ASSUME NEW S \in SUBSET (1..14), S # {}
  PROVE  \E i \in S : \A j \in S : i <= j
<1> SUFFICES ASSUME \A i \in S : \E j \in S : j < i
             PROVE  FALSE
  OBVIOUS
<1>1. \A j \in S : j > 4
  OBVIOUS
<1>2. \A j \in S : j > 8
  BY <1>1
<1>3. \A j \in S : j > 12
  BY <1>2
<1>4. \A j \in S : j > 14
  BY <1>3
<1>5. PICK j \in S : j \in 1..14
  BY ZenonT(60)
<1> QED
  BY <1>4, <1>5

\* NextHeld is the first place from `at` on whose handle is still known.
LEMMA NextIsHeld ==
  ASSUME IInv, NEW t \in Threads
  PROVE  /\ call[t].at \in 1..15 /\ NextHeld(t) \in call[t].at..15
         /\ NextHeld(t) <= 14 => Order[NextHeld(t)] \in held
         /\ \A i \in call[t].at..14 : i < NextHeld(t) => Order[i] \notin held
<1> DEFINE later == {i \in call[t].at..14 : Order[i] \in held}
<1>1. call[t].at \in 1..15 /\ later \in SUBSET (1..14)
  BY KnownHandles DEF IInv, Typed, CallRecords
<1>2. NextHeld(t) = IF later = {} THEN 15 ELSE CHOOSE i \in later : \A j \in later : i <= j
  BY KnownHandles DEF NextHeld
<1>3. CASE later = {}
  BY <1>1, <1>2, <1>3
<1>4. CASE later # {}
  <2>1. NextHeld(t) \in later /\ \A j \in later : NextHeld(t) <= j
    <3>1. \E i \in later : \A j \in later : i <= j
      BY ZenonT(60), <1>1, <1>4, Least
    <3> QED
      BY ZenonT(60), <1>2, <1>4, <3>1
  <2> QED
    BY <1>1, <2>1
<1> QED
  BY ZenonT(60), <1>3, <1>4

\* Only one thread releases: it holds winProc.stopMu.
LEMMA OneReleases ==
  ASSUME IInv, NEW t \in Threads, At(t, "release")
  PROVE  /\ t # "keeper" /\ stopMu = t /\ ~p.closed /\ start # "nil" /\ start # "creating"
         /\ ps["main"] = "none" \/ p.confirmed
         /\ \A s \in Threads : s # t => ~At(s, "release")
<1>1. /\ t # "keeper" /\ stopMu = t /\ ~p.closed /\ start # "nil" /\ start # "creating"
  BY InStopFacts DEF At, InStop
<1>2. ps["main"] = "none" \/ p.confirmed
  BY DEF IInv, Releases
<1>3. ASSUME NEW s \in Threads, At(s, "release") PROVE stopMu = s
  BY <1>3, InStopFacts DEF At, InStop
<1> QED
  BY <1>1, <1>2, <1>3

LEMMA ReleaseEndsStep ==
  ASSUME IInv, NEW t \in Threads, ReleaseEnds(t)
  PROVE  IInv'
<1>1. /\ At(t, "release") /\ ~At(t, "idle") /\ t # "keeper" /\ stopMu = t /\ start # "nil"
      /\ ps["main"] = "none" \/ p.confirmed
      /\ \A s \in Threads : s # t => ~At(s, "release")
  BY OneReleases DEF ReleaseEnds, At
<1>2. PICK ok \in BOOLEAN : /\ p' = [p EXCEPT !.closed = ok] /\ Returns(t, ok)
                            /\ ok => ~call[t].bad /\ NextHeld(t) > 14
  <2> DEFINE failed == call[t].bad /\ NextHeld(t) > LaunchLast
  <2>1. /\ failed \/ NextHeld(t) > 14
        /\ p' = [p EXCEPT !.closed = ~failed] /\ Returns(t, ~failed)
    BY ZenonT(60), KnownHandles DEF ReleaseEnds
  <2>2. ~failed => ~call[t].bad /\ NextHeld(t) > 14
    BY <2>1, NextIsHeld DEF LaunchLast
  <2> QED
    BY ZenonT(60), <2>1, <2>2
<1>3. ok => held = {}
  <2>1. ok => \A i \in 1..14 : Order[i] \notin held
    BY <1>1, <1>2, NextIsHeld DEF IInv, Releases
  <2> QED
    BY <2>1, KnownHandles DEF IInv, Typed, Handles
<1>4. /\ p' \in [unassigned : BOOLEAN, exited : BOOLEAN, confirmed : BOOLEAN, closed : BOOLEAN]
      /\ p'.closed = ok /\ p'.confirmed = p.confirmed
  BY ZenonT(60), <1>2 DEF IInv, Typed
<1>5. Ages
  BY SameAges DEF ReleaseEnds
<1>6. Launched' /\ ContainedRun' /\ DaemonShuts'
  BY Frames DEF IInv, ReleaseEnds, native
<1>7. Moved(t, "idle")
  BY ZenonT(60), <1>2, ReturnsMoves
<1>8. Locks' /\ Releases' /\ Captured' /\ Waited'
  BY <1>1, <1>4, <1>5, <1>7, MovesKeeps DEF ReleaseEnds, native, InStop
<1>9. Started' /\ HandlesKnown'
  BY ZenonT(60), <1>1, <1>2, <1>4, ReturnsStarted DEF ReleaseEnds, native
<1>10. Confirmed'
  BY <1>1, <1>2, <1>3, <1>4 DEF IInv, Confirmed, ReleaseEnds, Returns, Alive
<1>11. Typed'
  BY <1>2, <1>4, <1>7 DEF IInv, Typed, ReleaseEnds, native, Moved, Returns
<1> QED
  BY <1>6, <1>8, <1>9, <1>10, <1>11 DEF IInv

\* The places of the next handle and of the one before it.
LEMMA NextPlace ==
  ASSUME NEW n \in 1..14
  PROVE  /\ \A i \in 1..((n + 1) - 1) : i \in 1..n
         /\ n <= 5 => n + 1 <= LaunchLast + 1
         /\ n + 1 > LaunchLast + 1 => n > 5
         /\ n > 8 => n + 1 > 9
BY DEF LaunchLast

\* A release goes on to its next handle.
LEMMA ReleasingKeeps ==
  ASSUME IInv, NEW t \in Threads, At(t, "release"), Ages, NEW n \in 1..14,
         call' \in [Threads -> CallRecords],
         call'[t].pc = "release", call'[t].at = n + 1,
         \A s \in Threads : s # t => call'[s] = call[s],
         IF call'[t].bad THEN n <= 5 ELSE \A i \in 1..n : Order[i] \notin held',
         n > 5 => jobMu' = t \/ n > 8,
         jobMu' = jobMu \/ jobMu \in {t, "none"},
         "job" \in held => "job" \in held' \/ jobMu \in {t, "none"},
         held' \subseteq held, open' \subseteq held' \union Waiters,
         \A w \in Waiters : w \in open' <=> w \in open,
         keeper' \in [state : {"none", "running", "ended"}, callback : BOOLEAN, closing : BOOLEAN],
         keeper'.callback = keeper.callback, keeper'.state \in {keeper.state, "ended"},
         UNCHANGED <<scene, create, start, inUnit, inDaemon, p, exits, killed, stopMu, wait, daemon>>
  PROVE  IInv'
<1>1. /\ t # "keeper" /\ stopMu = t /\ ~p.closed
      /\ ps["main"] = "none" \/ p.confirmed
      /\ \A s \in Threads : s # t => ~At(s, "release")
      /\ \A s \in Threads : call'[s].pc = call[s].pc
  BY ZenonT(60), OneReleases DEF At
<1>2. /\ Launched' /\ ContainedRun' /\ Captured' /\ Waited' /\ DaemonShuts'
  BY ZenonT(60), <1>1, AgesKeeps
<1>3. Typed'
  BY DEF IInv, Typed, Ages
<1>4. Started'
  <2>1. {"start", "keeper"} \union Stoppers = Threads
    BY ZenonT(60) DEF Threads
  <2> QED
    BY ZenonT(60), <1>1, <2>1 DEF IInv, Started, At
<1>5. Locks'
  <2>1. "none" \notin Threads
    BY ZenonT(60), ThreadsDistinct DEF Threads
  <2> QED
    BY ZenonT(60), <1>1, <2>1 DEF IInv, Locks, At
<1>6. Releases'
  <2>1. ps'["main"] = "none" \/ p'.confirmed
    BY ZenonT(60), <1>1 DEF Ages, Procs, Alive
  <2> SUFFICES ASSUME NEW s \in Threads
               PROVE  /\ call'[s].pc # "release" => call'[s].at = 1 /\ ~call'[s].bad
                      /\ call'[s].pc = "release" =>
                           /\ IF call'[s].bad THEN call'[s].at <= LaunchLast + 1
                              ELSE \A i \in 1..(call'[s].at - 1) : Order[i] \notin held'
                           /\ call'[s].at > LaunchLast + 1 => jobMu' = s \/ call'[s].at > 9
    BY ZenonT(60), <2>1 DEF Releases, At
  <2>3. CASE s # t
    BY ZenonT(60), <1>1, <2>3 DEF IInv, Releases, At
  <2>4. CASE s = t
    BY ZenonT(60), <2>4, NextPlace
  <2> QED
    BY ZenonT(60), <2>3, <2>4
<1>7. Confirmed'
  <2>1. \A q \in Procs : (~Alive(q) => ~Alive(q)') /\ (ps[q] = "dead" => ps'[q] = "dead")
    BY ZenonT(60) DEF Ages, Alive
  <2> QED
    BY ZenonT(60), <1>1, <2>1 DEF IInv, Typed, Captured, Confirmed, Procs
<1>8. HandlesKnown'
  BY ZenonT(60) DEF IInv, HandlesKnown
<1> QED
  BY ZenonT(60), <1>2, <1>3, <1>4, <1>5, <1>6, <1>7, <1>8 DEF IInv

LEMMA ReleaseClosesStep ==
  ASSUME IInv, NEW t \in Threads, ReleaseCloses(t)
  PROVE  IInv'
<1> DEFINE n == NextHeld(t)
           h == Order[n]
<1>1. /\ At(t, "release") /\ n \in 1..14 /\ n \in call[t].at..14 /\ h \in held /\ h \in Handles
      /\ call[t].at \in 1..15
      /\ \A i \in call[t].at..14 : i < n => Order[i] \notin held
  <2>1. At(t, "release") /\ n <= 14
    BY KnownHandles DEF ReleaseCloses
  <2>2. /\ call[t].at \in 1..15 /\ n \in call[t].at..15 /\ h \in held
        /\ \A i \in call[t].at..14 : i < n => Order[i] \notin held
    BY ZenonT(60), <2>1, NextIsHeld
  <2>3. held \subseteq Handles
    BY DEF IInv, Typed
  <2> HIDE DEF n
  <2>4. n \in 1..14 /\ n \in call[t].at..14
    BY <2>1, <2>2
  <2> QED
    BY ZenonT(60), <2>1, <2>2, <2>3, <2>4
<1>2. /\ call[t].bad => n <= 5
      /\ h \in JobParts => jobMu \in {"none", t}
      /\ open' = open \ {h} /\ held' = held \ {h}
      /\ ps' = [q \in Procs |-> IF h = "job" /\ q \in Listed THEN "dying" ELSE ps[q]]
      /\ keeper' = IF h = "account" THEN [keeper EXCEPT !.closing = TRUE, !.state = "ended"]
                   ELSE keeper
      /\ jobMu' = IF h \in JobParts \ {"job"} THEN t ELSE IF h = "job" THEN "none" ELSE jobMu
      /\ call' = [call EXCEPT ![t].at = n + 1]
      /\ UNCHANGED <<scene, create, start, inUnit, inDaemon, p, exits, killed, stopMu, wait, daemon>>
  BY ZenonT(60) DEF ReleaseCloses, LaunchLast
<1>3. keeper' \in [state : {"none", "running", "ended"}, callback : BOOLEAN, closing : BOOLEAN]
      /\ keeper'.callback = keeper.callback /\ keeper'.state \in {keeper.state, "ended"}
  BY ZenonT(60), <1>2 DEF IInv, Typed
<1>4. /\ call' \in [Threads -> CallRecords]
      /\ call'[t].pc = "release" /\ call'[t].at = n + 1 /\ call'[t].bad = call[t].bad
      /\ \A s \in Threads : s # t => call'[s] = call[s]
  BY <1>1, <1>2, KnownHandles DEF IInv, Typed, CallRecords, At
<1>5. Ages
  BY <1>2 DEF IInv, Typed, Ages, Listed
<1>6. /\ n \in {6, 7, 8} => h \in JobParts \ {"job"}
      /\ n > 5 => n > 8 \/ n \in {6, 7, 8}
      /\ "job" \in JobParts
  BY <1>1 DEF Order, JobParts
<1>7. IF call'[t].bad THEN n <= 5 ELSE \A i \in 1..n : Order[i] \notin held'
  <2>1. ~call[t].bad => \A i \in 1..(call[t].at - 1) : Order[i] \notin held
    BY ZenonT(60), <1>1 DEF IInv, Releases
  <2> QED
    BY <1>1, <1>2, <1>4, <2>1
<1>8. /\ held' \subseteq held /\ open' \subseteq held' \union Waiters
      /\ \A w \in Waiters : w \in open' <=> w \in open
  BY <1>1, <1>2, WaitersOwnHandles DEF IInv, HandlesKnown
<1> HIDE DEF n, h
<1>9. /\ n > 5 => jobMu' = t \/ n > 8
      /\ jobMu' = jobMu \/ jobMu \in {t, "none"}
      /\ "job" \in held => "job" \in held' \/ jobMu \in {t, "none"}
  BY <1>1, <1>2, <1>6
<1> QED
  BY ZenonT(60), <1>1, <1>2, <1>3, <1>4, <1>5, <1>7, <1>8, <1>9, ReleasingKeeps

LEMMA ReleaseFailsStep ==
  ASSUME IInv, NEW t \in Threads, ReleaseFails(t)
  PROVE  IInv'
<1> DEFINE n == NextHeld(t)
           h == Order[n]
<1>1. /\ At(t, "release") /\ n \in 1..14 /\ call[t].pc \in InStop /\ t # "keeper"
  BY NextIsHeld, KnownHandles, OneReleases DEF ReleaseFails, At, InStop
<1>2. /\ \/ n <= 5 /\ call' = [call EXCEPT ![t].at = n + 1, ![t].bad = TRUE]
            /\ UNCHANGED <<start, stopMu>>
         \/ Returns(t, FALSE)
      /\ keeper' = IF h = "account" THEN [keeper EXCEPT !.closing = TRUE] ELSE keeper
      /\ jobMu' = IF jobMu = t THEN "none" ELSE jobMu
      /\ UNCHANGED <<scene, create, open, held, ps, inUnit, inDaemon, p, exits, killed, wait, daemon>>
  BY ZenonT(60) DEF ReleaseFails, LaunchLast, Unlocked
<1>3. keeper' \in [state : {"none", "running", "ended"}, callback : BOOLEAN, closing : BOOLEAN]
      /\ keeper'.callback = keeper.callback /\ keeper'.state = keeper.state
  BY ZenonT(60), <1>2 DEF IInv, Typed
<1>4. Ages
  BY <1>2, SameAges
<1>5. CASE /\ n <= 5 /\ call' = [call EXCEPT ![t].at = n + 1, ![t].bad = TRUE]
           /\ UNCHANGED <<start, stopMu>>
  <2>1. /\ call' \in [Threads -> CallRecords]
        /\ call'[t].pc = "release" /\ call'[t].at = n + 1 /\ call'[t].bad
        /\ \A s \in Threads : s # t => call'[s] = call[s]
    <3>1. call \in [Threads -> CallRecords] /\ call[t].pc = "release" /\ n + 1 \in 1..15
      BY <1>1 DEF IInv, Typed, At
    <3> DEFINE r == [call[t] EXCEPT !.at = n + 1, !.bad = TRUE]
    <3>2. call' = [call EXCEPT ![t] = r]
      BY ZenonT(60), <1>5
    <3>3. r \in CallRecords
      <4> DEFINE pcs == InStop \union {"idle", "lock"}
      <4>1. CallRecords = [pc : pcs, at : 1..15, bad : BOOLEAN]
        BY KnownHandles DEF CallRecords
      <4>2. call[t] \in [pc : pcs, at : 1..15, bad : BOOLEAN]
        BY <3>1, <4>1
      <4> HIDE DEF pcs
      <4>3. r \in [pc : pcs, at : 1..15, bad : BOOLEAN]
        BY ONLY ZenonT(60), <3>1, <4>2 DEF r
      <4> QED
        BY <4>1, <4>3
    <3>4. r.pc = "release" /\ r.at = n + 1 /\ r.bad = TRUE
      BY ZenonT(60), <3>1 DEF CallRecords
    <3> HIDE DEF n, r
    <3> QED
      BY ZenonT(60), <3>1, <3>2, <3>3, <3>4
  <2>2. open \subseteq held \union Waiters
    BY DEF IInv, HandlesKnown
  <2> HIDE DEF n, h
  <2> QED
    <3>1. IF call'[t].bad THEN n <= 5 ELSE \A i \in 1..n : Order[i] \notin held'
      BY <1>5, <2>1
    <3>2. (n > 5 => jobMu' = t \/ n > 8) /\ (jobMu' = jobMu \/ jobMu \in {t, "none"})
      BY <1>1, <1>2, <1>5
    <3> QED
      BY ZenonT(60), <1>1, <1>2, <1>3, <1>4, <1>5, <2>1, <2>2, <3>1, <3>2, ReleasingKeeps
<1>6. CASE Returns(t, FALSE)
  <2>1. /\ Started' /\ HandlesKnown' /\ Locks' /\ Releases' /\ Captured' /\ Waited' /\ Confirmed'
        /\ call' \in [Threads -> CallRecords] /\ start' \in {start, "owned"}
    BY ZenonT(60), <1>1, <1>2, <1>3, <1>4, <1>6, StopFailsKeeps
  <2>2. Launched' /\ ContainedRun' /\ DaemonShuts'
    BY <1>2, Frames DEF IInv
  <2>3. Typed'
    BY <1>2, <1>3, <2>1 DEF IInv, Typed
  <2> QED
    BY <2>1, <2>2, <2>3 DEF IInv
<1> QED
  BY ZenonT(60), <1>2, <1>5, <1>6

-----------------------------------------------------------------------------
(* Wait, the limit watch, the keeper and the processes                     *)

\* The context of Start, the limit messages and their loop are no part of it.
LEMMA UntouchedKeeps ==
  ASSUME IInv, UNCHANGED <<scene, create, start, open, held, ps, inUnit, inDaemon, p, exits,
                           killed, call, stopMu, jobMu, wait, keeper, daemon>>
  PROVE  IInv'
<1>1. Typed'
  BY DEF IInv, Typed
<1> QED
  BY <1>1, Frames DEF IInv

LEMMA WaitBeginsStep ==
  ASSUME IInv, NEW w \in Waiters, WaitBegins(w)
  PROVE  IInv'
<1>1. /\ Launched' /\ ContainedRun' /\ Started' /\ Locks' /\ Releases' /\ Captured' /\ Waited'
      /\ Confirmed' /\ DaemonShuts'
  BY Frames DEF IInv, WaitBegins
<1>2. Typed'
  BY DEF IInv, Typed, WaitBegins, Duplicated
<1>3. HandlesKnown'
  BY DEF IInv, Typed, HandlesKnown, WaitBegins, Duplicated
<1> QED
  BY <1>1, <1>2, <1>3 DEF IInv

LEMMA WaitEndsStep ==
  ASSUME IInv, NEW w \in Waiters, WaitEnds(w)
  PROVE  IInv'
<1>1. /\ Launched' /\ ContainedRun' /\ Locks' /\ Captured' /\ Waited' /\ DaemonShuts'
  BY Frames DEF IInv, WaitEnds
<1>2. /\ p' \in [unassigned : BOOLEAN, exited : BOOLEAN, confirmed : BOOLEAN, closed : BOOLEAN]
      /\ p'.closed = p.closed /\ p'.confirmed = p.confirmed
  BY ZenonT(60) DEF IInv, Typed, WaitEnds
<1>3. Typed'
  BY <1>2 DEF IInv, Typed, WaitEnds
<1>4. Started' /\ Releases' /\ Confirmed'
  BY <1>2 DEF IInv, Started, Releases, Confirmed, WaitEnds, At, Alive
<1>5. HandlesKnown'
  BY WaitersOwnHandles DEF IInv, Typed, HandlesKnown, WaitEnds
<1> QED
  BY <1>1, <1>2, <1>3, <1>4, <1>5 DEF IInv

\* A child is created only by a running process, so before any stop has proved an
\* exit, and while both jobs admit processes.
LEMMA SpawnsStep ==
  ASSUME IInv, NEW q \in Procs, Spawns(q)
  PROVE  IInv'
<1>1. /\ q \in Others /\ ps["main"] = "running" /\ ~exits.shut /\ ~daemon.shut
      /\ "main" \in inUnit /\ "main" \in inDaemon /\ "main" \in Procs
  BY DEF IInv, ContainedRun, Spawns, Others, Procs
<1>2. /\ ps' = [ps EXCEPT ![q] = "running"] /\ ps' \in [Procs -> {"none", "suspended", "running", "dying", "dead"}]
      /\ inUnit' = inUnit \union {q} /\ inDaemon' = inDaemon \union {q} /\ ps'["main"] = "running"
  BY <1>1 DEF IInv, Typed, Spawns, Others
<1>3. Typed'
  BY <1>2 DEF IInv, Typed, Spawns
<1>4. Launched' /\ ContainedRun'
  <2>1. create \notin Early /\ create \notin Setup
    BY ZenonT(60), <1>1 DEF IInv, Launched
  <2>2. ps'[q] = "running" /\ \A r \in Procs : r # q => ps'[r] = ps[r]
    BY <1>2 DEF IInv, Typed
  <2>3. Launched'
    BY <1>1, <1>2, <2>1, <2>2 DEF IInv, Launched, Spawns, Others, Early, Setup
  <2>4. ContainedRun'
    BY <1>1, <1>2, <2>2 DEF IInv, ContainedRun, Spawns, Others
  <2> QED
    BY <2>3, <2>4
<1>5. Started' /\ Locks' /\ HandlesKnown'
  BY ZenonT(60), Frames DEF IInv, Spawns
<1>6. ~p.confirmed /\ \A t \in Threads : ~At(t, "release") /\ call[t].pc \notin {"waitCaught", "waitList"}
  BY ZenonT(60), <1>1 DEF IInv, Confirmed, Releases, Waited
<1>7. Releases' /\ Waited' /\ Confirmed'
  BY ZenonT(60), <1>1, <1>6 DEF IInv, Releases, Waited, Confirmed, Spawns, At
<1>8. Captured'
  BY ZenonT(60), <1>1 DEF IInv, Captured, Spawns, At
<1>9. DaemonShuts'
  <2>1. daemon.open /\ "main" \in DaemonLeft
    BY <1>1 DEF IInv, DaemonShuts, DaemonLeft, Alive
  <2> QED
    BY ZenonT(60), <1>1, <1>2, <2>1 DEF IInv, Typed, DaemonShuts, Spawns
<1> QED
  BY <1>3, <1>4, <1>5, <1>7, <1>8, <1>9 DEF IInv

LEMMA EndingKeeps ==
  ASSUME IInv, Ages, UNCHANGED <<rest, open, inDaemon, call, wait, keeper>>
  PROVE  IInv'
<1>1. /\ Launched' /\ ContainedRun' /\ Releases' /\ Captured' /\ Waited' /\ Confirmed'
      /\ DaemonShuts'
  BY AgesKeeps DEF rest
<1>2. Started' /\ Locks' /\ HandlesKnown'
  BY Frames DEF IInv, rest
<1>3. Typed'
  BY DEF IInv, Typed, Ages, rest
<1> QED
  BY <1>1, <1>2, <1>3 DEF IInv

LEMMA ExitsStep ==
  ASSUME IInv, NEW q \in Procs, Exits(q) \/ Signals(q)
  PROVE  IInv'
<1>1. Ages
  BY DEF IInv, Typed, Exits, Signals, Ages, Alive
<1> QED
  BY <1>1, EndingKeeps DEF Exits, Signals

LEMMA watchKeeperStep ==
  ASSUME IInv, watchKeeper
  PROVE  IInv'
<1>1. /\ keeper' \in [state : {"none", "running", "ended"}, callback : BOOLEAN, closing : BOOLEAN]
      /\ keeper'.callback = keeper.callback /\ keeper'.state = "ended"
  BY ZenonT(60) DEF IInv, Typed, watchKeeper
<1>2. Launched' /\ ContainedRun' /\ Confirmed' /\ HandlesKnown' /\ DaemonShuts'
  BY Frames DEF IInv, watchKeeper, rest
<1>3. Ages
  BY SameAges DEF watchKeeper
<1>4. CASE UNCHANGED call
  <2>1. Locks' /\ Releases' /\ Captured' /\ Waited'
    BY <1>4, Frames DEF IInv, watchKeeper, rest
  <2>2. Typed'
    <3>1. UNCHANGED <<create, start, held, ps, inUnit, inDaemon, p, exits, call, wait, daemon>>
      BY <1>4 DEF watchKeeper, rest
    <3> QED
      BY <1>1, <3>1 DEF IInv, Typed
  <2>3. Started'
    BY ZenonT(60), <1>1, <1>4 DEF IInv, Started, watchKeeper, rest, At
  <2> QED
    BY <1>2, <2>1, <2>2, <2>3 DEF IInv
<1>5. CASE keeper.callback /\ call' = [call EXCEPT !["keeper"].pc = "admit"]
  <2>1. "keeper" \in Threads /\ At("keeper", "idle")
    BY DEF IInv, Started, watchKeeper, Threads
  <2>2. Moved("keeper", "admit")
    BY ZenonT(60), <1>5, <2>1, GoesMoves DEF Goes, At, InStop
  <2>3. Locks' /\ Releases' /\ Captured' /\ Waited'
    BY <1>3, <2>1, <2>2, MovesKeeps DEF watchKeeper, rest, InStop
  <2>4. Typed'
    BY <1>1, <2>2 DEF IInv, Typed, watchKeeper, rest, Moved
  <2>5. Started'
    BY <1>1, <1>5, <2>1, <2>2, ThreadsDistinct
       DEF IInv, Started, watchKeeper, rest, Moved, At, Threads
  <2> QED
    BY <1>2, <2>3, <2>4, <2>5 DEF IInv
<1> QED
  BY ZenonT(60), <1>4, <1>5 DEF watchKeeper

-----------------------------------------------------------------------------
(* DaemonJob.Close                                                         *)

DaemonRecords ==
  [pc : {"idle", "admission", "capture", "kill", "wait", "handle"},
   open : BOOLEAN, shut : BOOLEAN, ready : BOOLEAN, caught : SUBSET Procs]

LEMMA ClosingKeeps ==
  ASSUME IInv, Ages, UNCHANGED units, daemon' \in DaemonRecords, DaemonShuts'
  PROVE  IInv'
<1>1. Launched' /\ ContainedRun' /\ Releases' /\ Captured' /\ Waited' /\ Confirmed'
  BY AgesKeeps DEF units
<1>2. Started' /\ Locks' /\ HandlesKnown'
  BY ZenonT(60), Frames DEF IInv, units
<1>3. Typed'
  BY DEF IInv, Typed, Ages, units, DaemonRecords
<1> QED
  BY <1>1, <1>2, <1>3 DEF IInv

\* A step of Close that ends no process.
LEMMA CloseProceeds ==
  ASSUME IInv, CloseBegins \/ CloseAdmission \/ CloseCapture \/ CloseWaits \/ CloseFails
  PROVE  IInv'
<1>1. Ages /\ UNCHANGED <<units, ps>>
  BY SameAges DEF CloseBegins, CloseAdmission, CloseCapture, CloseWaits, CloseFails
<1>2. DaemonLeft' = DaemonLeft /\ DaemonLeft \subseteq Procs /\ UNCHANGED scene /\ daemon \in DaemonRecords
  BY <1>1 DEF IInv, Typed, DaemonLeft, Alive, units, DaemonRecords
<1>3. CASE CloseBegins
  <2>1. /\ daemon' \in DaemonRecords /\ daemon.open /\ daemon'.open /\ daemon'.shut = daemon.shut
        /\ daemon'.ready = daemon.ready /\ daemon'.pc \in {"handle", "kill", "admission"}
        /\ daemon'.pc = "handle" => ~scene.self
        /\ daemon'.pc = "kill" => daemon.ready
    BY <1>2, <1>3 DEF CloseBegins, DaemonGoes, DaemonRecords
  <2>2. DaemonShuts'
    BY ZenonT(60), <1>1, <1>2, <2>1 DEF IInv, DaemonShuts, units
  <2> QED
    BY <1>1, <2>1, <2>2, ClosingKeeps
<1>4. CASE CloseAdmission
  <2>1. /\ daemon' \in DaemonRecords /\ daemon.pc = "admission" /\ daemon'.open = daemon.open
        /\ daemon'.shut /\ daemon'.pc = "capture"
    BY ZenonT(60), <1>2, <1>4 DEF CloseAdmission, Daemon, DaemonRecords
  <2>2. DaemonShuts'
    BY ZenonT(60), <1>1, <1>2, <2>1 DEF IInv, DaemonShuts, units
  <2> QED
    BY <1>1, <2>1, <2>2, ClosingKeeps
<1>5. CASE CloseCapture
  <2>1. /\ daemon' \in DaemonRecords /\ daemon.pc = "capture" /\ daemon'.open = daemon.open
        /\ daemon'.shut = daemon.shut /\ daemon'.pc = "kill"
    BY ZenonT(60), <1>2, <1>5 DEF CloseCapture, Daemon, DaemonRecords
  <2>2. DaemonShuts'
    BY ZenonT(60), <1>1, <1>2, <2>1 DEF IInv, DaemonShuts, units
  <2> QED
    BY <1>1, <2>1, <2>2, ClosingKeeps
<1>6. CASE CloseWaits
  <2>1. /\ daemon' \in DaemonRecords /\ daemon.pc = "wait" /\ daemon'.open = daemon.open
        /\ daemon'.shut = daemon.shut /\ daemon'.ready = daemon.ready /\ daemon'.pc = "handle"
        /\ daemon'.caught = daemon.caught /\ ChildrenEnded
    BY <1>2, <1>6 DEF CloseWaits, Daemon, DaemonGoes, DaemonRecords
  <2>2. ChildrenEnded'
    BY <1>1, <1>2, <2>1 DEF ChildrenEnded
  <2>3. DaemonShuts'
    BY ZenonT(60), <1>1, <1>2, <2>1, <2>2 DEF IInv, DaemonShuts, units
  <2> QED
    BY <1>1, <2>1, <2>3, ClosingKeeps
<1>7. CASE CloseFails
  <2>1. /\ daemon' \in DaemonRecords /\ daemon.pc # "idle" /\ daemon'.open = daemon.open
        /\ daemon'.shut = daemon.shut /\ daemon'.ready = daemon.ready /\ daemon'.pc = "idle"
    BY <1>2, <1>7 DEF CloseFails, Daemon, DaemonGoes, DaemonRecords
  <2>2. DaemonShuts'
    BY ZenonT(60), <1>1, <1>2, <2>1 DEF IInv, DaemonShuts, units
  <2> QED
    BY <1>1, <2>1, <2>2, ClosingKeeps
<1> QED
  BY <1>3, <1>4, <1>5, <1>6, <1>7

LEMMA CloseKillsStep ==
  ASSUME IInv, CloseKills
  PROVE  IInv'
<1>1. Ages /\ UNCHANGED units
  <2>1. UNCHANGED units
    BY ZenonT(60) DEF CloseKills
  <2>2. CASE UNCHANGED ps
    BY <2>1, <2>2, SameAges
  <2>3. CASE ps' = [q \in Procs |-> IF q \in daemon.caught /\ Alive(q) THEN "dying" ELSE ps[q]]
    BY ZenonT(60), <2>1, <2>3 DEF IInv, Typed, Ages
  <2> QED
    BY ZenonT(60), <2>1, <2>2, <2>3 DEF CloseKills
<1>2. daemon \in DaemonRecords /\ inDaemon \subseteq Procs
  BY DEF IInv, Typed, DaemonRecords
<1>3. /\ daemon' \in DaemonRecords /\ daemon.pc = "kill" /\ daemon'.open = daemon.open
      /\ daemon'.shut = daemon.shut /\ daemon'.ready = daemon.ready
      /\ daemon'.pc \in {"wait", "idle"}
  BY <1>2 DEF CloseKills, Daemon, DaemonGoes, DaemonRecords
<1>4. \A q \in Procs : ps'[q] = "none" <=> ps[q] = "none"
  BY <1>1 DEF Ages, Alive
<1>5. DaemonShuts'
  BY ZenonT(60), <1>1, <1>3, <1>4 DEF IInv, DaemonShuts, units
<1> QED
  BY <1>1, <1>3, <1>5, ClosingKeeps

LEMMA CloseHandleStep ==
  ASSUME IInv, CloseHandle
  PROVE  IInv'
<1>1. Ages /\ UNCHANGED units
  BY ZenonT(60) DEF IInv, Typed, CloseHandle, Ages, DaemonLeft
<1>2. daemon \in DaemonRecords /\ inDaemon \subseteq Procs
  BY DEF IInv, Typed, DaemonRecords
<1>3. /\ daemon' \in DaemonRecords /\ daemon.pc = "handle" /\ ~daemon'.open
      /\ daemon'.shut = daemon.shut /\ daemon'.ready = daemon.ready /\ daemon'.pc = "idle"
      /\ daemon'.caught = daemon.caught
  BY ZenonT(60), <1>2 DEF CloseHandle, Daemon, DaemonRecords
<1>4. \A q \in Procs : /\ ps'[q] = "none" <=> ps[q] = "none"
                       /\ Alive(q)' => Alive(q)
                       /\ ps[q] = "dead" => ps'[q] = "dead"
  BY <1>1 DEF Ages, Alive
<1>5. DaemonLeft' = {}
  <2>1. ASSUME NEW q \in inDaemon, Alive(q)' PROVE FALSE
    <3>1. q \in DaemonLeft
      BY ZenonT(60), <1>2, <1>4, <2>1 DEF DaemonLeft
    <3>2. scene.self
      BY <1>2, <2>1, <3>1 DEF CloseHandle, Alive
    <3> QED
      BY ZenonT(60), <1>3, <3>1, <3>2 DEF IInv, DaemonShuts, ChildrenEnded
  <2> QED
    BY <1>1, <2>1 DEF DaemonLeft, units
<1>6. scene.self => daemon.shut /\ ChildrenEnded'
  BY ZenonT(60), <1>2, <1>3, <1>4, <1>5 DEF IInv, DaemonShuts, ChildrenEnded, DaemonRecords
<1>7. DaemonShuts'
  BY ZenonT(60), <1>1, <1>3, <1>4, <1>5, <1>6 DEF IInv, DaemonShuts, units
<1> QED
  BY <1>1, <1>3, <1>7, ClosingKeeps

-----------------------------------------------------------------------------
LEMMA InitIInv ==
  ASSUME Init
  PROVE  IInv
<1>1. "main" \in Procs /\ "start" \in Threads /\ "keeper" \in Threads /\ Stoppers \subseteq Threads
  BY DEF Procs, Threads
<1>2. Typed
  <2>1. call \in [Threads -> CallRecords]
    <3>1. [pc |-> "idle", at |-> 1, bad |-> FALSE] \in CallRecords
      BY KnownHandles DEF CallRecords
    <3> QED
      BY ZenonT(60), <3>1 DEF Init
  <2>2. /\ p \in [unassigned : BOOLEAN, exited : BOOLEAN, confirmed : BOOLEAN, closed : BOOLEAN]
        /\ exits \in [shut : BOOLEAN, ready : BOOLEAN, caught : SUBSET Procs]
        /\ keeper \in [state : {"none", "running", "ended"}, callback : BOOLEAN,
                       closing : BOOLEAN]
        /\ daemon \in DaemonRecords
    BY ZenonT(60) DEF Init, DaemonRecords
  <2>3. /\ wait \in [Waiters -> [pc : {"idle", "blocked", "returned"},
                                handle : Waiters \union {"none"}]]
        /\ ps \in [Procs -> {"none", "suspended", "running", "dying", "dead"}]
    BY ZenonT(60) DEF Init
  <2>4. /\ create \in Early /\ start = "creating" /\ held \subseteq Handles
        /\ inUnit \subseteq Procs /\ inDaemon \subseteq Procs
    BY ZenonT(60) DEF Init, Early
  <2> QED
    BY ZenonT(60), <2>1, <2>2, <2>3, <2>4 DEF Typed, DaemonRecords
<1>3. Launched /\ ContainedRun
  BY ZenonT(60), <1>1 DEF Init, Launched, ContainedRun, Others, Early, Setup
<1>4. Started
  BY ZenonT(60), <1>1 DEF Init, Started, At
<1>5. Locks /\ Releases /\ Waited
  BY ZenonT(60) DEF Init, Locks, Releases, Waited, At, InStop
<1>6. Captured /\ Confirmed
  BY ZenonT(60) DEF Init, Captured, Confirmed, At
<1>7. HandlesKnown
  BY ZenonT(60) DEF Init, HandlesKnown
<1>8. DaemonShuts
  BY ZenonT(60) DEF Init, DaemonShuts
<1> QED
  BY <1>2, <1>3, <1>4, <1>5, <1>6, <1>7, <1>8 DEF IInv

LEMMA NextIInv ==
  ASSUME IInv, [Next]_vars
  PROVE  IInv'
<1>1. CASE UNCHANGED vars \/ StartLate \/ LimitEvent \/ limitLoop
  BY <1>1, UntouchedKeeps DEF vars, StartLate, LimitEvent, limitLoop, rest
<1>2. CASE Launch
  BY <1>2, HandlingSteps, HandlingKeeps, CreateProcessStep, AssignDaemonStep, AssignUnitStep,
     ResumeThreadStep, onKeeperExitStep, KilledAtOnceStep, StartReturnsStep DEF Launch
<1>3. ASSUME NEW t \in Threads, StopSteps(t) \/ StopTimesOut(t) \/ ReleaseFails(t)
      PROVE  IInv'
  BY <1>3, StopLocksStep, TerminateUnassignedStep, KillAdmissionStep, KillCaptureStep, KillJobStep,
     StopWaitsMainStep, StopWaitsCaughtStep, StopWaitsListStep, ReleaseEndsStep, ReleaseClosesStep,
     StopTimesOutStep, ReleaseFailsStep DEF StopSteps
<1>4. CASE CloseSteps \/ CloseBegins \/ CloseFails
  BY <1>4, CloseProceeds, CloseKillsStep, CloseHandleStep DEF CloseSteps
<1>5. ASSUME NEW w \in Waiters, WaitBegins(w) \/ WaitEnds(w)
      PROVE  IInv'
  BY <1>5, WaitBeginsStep, WaitEndsStep
<1>6. ASSUME NEW q \in Procs, Spawns(q) \/ Exits(q) \/ Signals(q)
      PROVE  IInv'
  BY <1>6, SpawnsStep, ExitsStep
<1>7. ASSUME NEW t \in Stoppers, StopBegins(t)
      PROVE  IInv'
  BY <1>7, StopBeginsStep
<1>8. CASE watchKeeper
  BY <1>8, watchKeeperStep
<1> QED
  BY ZenonT(60), <1>1, <1>2, <1>3, <1>4, <1>5, <1>6, <1>7, <1>8 DEF Next, Progress

LEMMA IInvContains ==
  ASSUME IInv
  PROVE  ProcessesContained
<1>1. ContainedRun
  BY DEF IInv
<1>2. FailedStartClean
  <2>1. ASSUME start = "nil" PROVE open = {} /\ \A q \in Procs : ~Alive(q)
    <3>1. p.closed /\ held = {}
      BY ZenonT(60), <2>1 DEF IInv, Started, Confirmed
    <3>2. open = {}
      BY <2>1, <3>1 DEF IInv, HandlesKnown
    <3>3. \A q \in Procs : ~Alive(q)
      BY <3>1 DEF IInv, Confirmed, Launched, Others, Alive
    <3> QED
      BY <3>2, <3>3
  <2> QED
    BY <2>1 DEF FailedStartClean
<1>3. StopProves
  <2>1. ASSUME p.closed
        PROVE  /\ ps["main"] \in {"none", "dead"} /\ \A q \in Procs : ~Alive(q)
               /\ \A q \in killed : ps[q] = "dead"
               /\ open \subseteq Waiters
    <3>1. held = {} /\ (ps["main"] = "none" \/ p.confirmed)
      BY <2>1 DEF IInv, Confirmed
    <3>2. open \subseteq Waiters
      BY <3>1 DEF IInv, HandlesKnown
    <3>3. CASE p.confirmed
      BY <3>2, <3>3 DEF IInv, Confirmed
    <3>4. CASE ps["main"] = "none"
      <4>1. \A q \in Procs : ps[q] = "none"
        BY <3>4 DEF IInv, Launched, Others
      <4>2. killed \subseteq Procs /\ \A q \in killed : ps[q] \in {"dying", "dead"}
        BY DEF IInv, Typed, Captured
      <4> QED
        BY <3>2, <3>4, <4>1, <4>2 DEF Alive
    <3> QED
      BY <3>1, <3>3, <3>4
  <2> QED
    BY <2>1 DEF StopProves
<1>4. WaitHandleOpen
  BY ZenonT(60) DEF IInv, HandlesKnown, WaitHandleOpen
<1>5. DaemonCloseProves
  <2>1. ASSUME ~daemon.open
        PROVE  \A q \in Procs : ps[q] # "running"
    BY <2>1 DEF IInv, ContainedRun, DaemonShuts, DaemonLeft, Alive
  <2>2. ASSUME ~daemon.open, scene.self
        PROVE  (\A q \in Procs : ~Alive(q)) /\ \A q \in daemon.caught : ps[q] = "dead"
    <3>1. DaemonLeft = {} /\ ChildrenEnded
      BY <2>2 DEF IInv, DaemonShuts
    <3>2. \A q \in Procs : Alive(q) => q \in DaemonLeft
      BY <2>2 DEF IInv, DaemonShuts, DaemonLeft, Alive
    <3> QED
      BY <3>1, <3>2 DEF ChildrenEnded
  <2> QED
    BY ZenonT(60), <2>1, <2>2 DEF DaemonCloseProves
<1> QED
  BY <1>1, <1>2, <1>3, <1>4, <1>5 DEF ProcessesContained

\* Whatever the launch, the stops, the waits, the keeper and the daemon's close
\* interleave to, and whichever native calls fail or time out: a unit process runs
\* only inside its unit job and the daemon's job, a failed Start has left nothing,
\* a Stop that closed the process has proved that all of the job exited, no wait
\* loses its handle, and nothing of the unit outlives the daemon's job.
THEOREM ProcessesAreContained == Spec => []ProcessesContained
<1>1. Init => IInv
  BY InitIInv
<1>2. IInv /\ [Next]_vars => IInv'
  BY NextIInv
<1>3. IInv => ProcessesContained
  BY IInvContains
<1> QED
  BY <1>1, <1>2, <1>3, PTL DEF Spec
=============================================================================
