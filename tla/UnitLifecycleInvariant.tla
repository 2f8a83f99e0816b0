---------------------- MODULE UnitLifecycleInvariant ------------------------
(* The inductive invariant of UnitLifecycle, and what the parts of its       *)
(* handlers leave alone in the unit's record.  The launch worker, the        *)
(* publication of its result and the cleanups of the exit watcher, the       *)
(* watchdog and the reaper preserve the invariant and take only steps of     *)
(* UnitContract.                                                             *)
EXTENDS UnitLifecycle, TLAPS

(* A well-formed record, and one that a handler may turn r into without      *)
(* touching the ownership of the process or the stop precedence.             *)
WellFormed(r) == r \in Records /\ <<r.state, r.sub>> \in Pairs
Framed(r, q) == WellFormed(q) /\ q.proc = r.proc /\ q.stopping = r.stopping

(* As Framed, with state and recovery untouched as well.                     *)
Same(r, q) == Framed(r, q) /\ q.restart = r.restart /\ q.state = r.state
-----------------------------------------------------------------------------
(* The inductive invariant.                                                  *)

(* Places of a launch: before the decision, before and at creation, holding  *)
(* the process created or found.                                             *)
CreatePcs == {"record", "prepare", "open", "create", "adopt"}
LaunchPcs == CreatePcs \cup {"evict"}
WaitPcs   == {"late", "register", "wait", "finish", "ready", "unready", "activate"}
HoldPcs   == WaitPcs \cup {"evict", "kill", "watch", "watchdog", "reap"}

(* The gate's holder is where its code can be, and a start's own stop runs   *)
(* only after its launch left the gate.                                      *)
Places ==
  /\ gate.by = "start" => /\ gate.id \in Starts /\ plan[gate.id].pc = "run"
                          /\ stop[gate.id].pc = IF gate.pc = "kill" THEN "run" ELSE "idle"
  /\ gate.pc \in LaunchPcs \cup WaitPcs \cup {"accept"} => gate.by \in {"start", "recovery"}
  /\ gate.pc = "return" => gate.by = "start"
  /\ gate.pc \in {"stop", "kill"} => gate.by = "start" \/ stop[gate.id].pc = "run"
  /\ \A i \in Starts : plan[i].pc \in {"idle", "gate"} => stop[i].pc = "idle"

(* The process of a place under the gate is the record's, a launch that is   *)
(* about to create finds none, and no live process is orphaned.              *)
Ownership ==
  /\ gate.pc \in CreatePcs => rt.proc = 0
  /\ gate.pc \in HoldPcs => gate.proc = rt.proc
  /\ LiveTreeOwned

(* Past its native stop a worker without an error has outlived every process *)
(* it found.                                                                 *)
StopMarks ==
  \A s \in Workers :
    /\ stop[s].mark <= nproc
    /\ stop[s].pc \in {"drain", "wait", "complete", "done"} /\ ~stop[s].err
         => \A p \in tree : p > stop[s].mark

(* Once the shutdown's stop owned the gate no launch is in it, and after a   *)
(* confirmed stop no process is left.                                        *)
Sealed ==
  /\ stop[Shutdown].pc # "idle" => closed
  /\ stop[Shutdown].pc \in {"run", "drain", "wait", "complete"}
       => gate.pc \notin LaunchPcs
  /\ stop[Shutdown].pc \in {"drain", "wait", "complete", "done"} /\ ~stop[Shutdown].err
       => gate.pc \notin LaunchPcs /\ tree = {}

(* An accepted recovery is armed on the record until something cancels it.   *)
Armed ==
  /\ recovery = "wait" => rt.restart /\ ~rt.stopping
  /\ gate.by = "recovery" /\ gate.pc = "accept"
       => gate.cancelled \/ (rt.restart /\ ~rt.stopping)

IInv == TypeOK /\ Places /\ Ownership /\ StopMarks /\ Sealed /\ Armed
-----------------------------------------------------------------------------
(* What the parts of handlers leave alone.                                   *)

(* Every event leads to a legal pair, and only start-succeeded to active.    *)
LEMMA TargetLegal ==
  ASSUME NEW ev \in Events
  PROVE  /\ Target(ev) = <<Target(ev)[1], Target(ev)[2]>>
         /\ Target(ev) \in Pairs
         /\ Target(ev)[1] \in States /\ Target(ev)[2] \in Substates
         /\ Target(ev)[1] = "active" => ev = "start-succeeded"
BY ZenonT(60) DEF Target, Pairs, Events, States, Substates

(* Step moves along the table.                                               *)
LEMMA StepFrame ==
  ASSUME NEW r, WellFormed(r), NEW ev \in Events
  PROVE  /\ Framed(r, Step(r, ev))
         /\ Step(r, ev).restart = r.restart
         /\ Step(r, ev).state = "active" => r.state = "active" \/ ev = "start-succeeded"
<1>1. CASE ~Allowed(r, ev)
  BY <1>1 DEF Framed, Step
<1>2. CASE Allowed(r, ev)
  <2> DEFINE q == [r EXCEPT !.state = Target(ev)[1], !.sub = Target(ev)[2]]
  <2>1. Step(r, ev) = q
    BY <1>2 DEF Step
  <2>2. /\ q \in Records /\ q.state = Target(ev)[1] /\ q.sub = Target(ev)[2]
        /\ q.proc = r.proc /\ q.stopping = r.stopping /\ q.restart = r.restart
    BY ZenonT(60), TargetLegal DEF WellFormed, Records
  <2> QED
    BY <2>1, <2>2, TargetLegal DEF Framed, WellFormed
<1> QED
  BY <1>1, <1>2

(* Fields the invariant does not mention.                                    *)
LEMMA FieldFrame ==
  ASSUME NEW r, WellFormed(r), NEW g \in Nat, NEW b \in BOOLEAN
  PROVE  /\ Same(r, r) /\ r.gen \in Nat /\ r.capture \in Nat /\ r.proc \in Nat
         /\ r.restart \in BOOLEAN /\ r.stopping \in BOOLEAN
         /\ Same(r, [r EXCEPT !.watchdog = g]) /\ Same(r, [r EXCEPT !.notify = g])
         /\ Same(r, [r EXCEPT !.capture = g]) /\ Same(r, [r EXCEPT !.terminated = b])
         /\ Same(r, [r EXCEPT !.startCancel = b]) /\ Same(r, Invoke(r))
         /\ Same(r, [r EXCEPT !.startCancel = FALSE, !.terminated = TRUE])
         /\ Same(r, [r EXCEPT !.terminated = b, !.watchdog = g])
BY ZenonT(60) DEF WellFormed, Framed, Same, Records, Invoke

(* setCleanup changes only the cleanup bits.                                 *)
LEMMA SetCleanupFrame ==
  ASSUME NEW r, WellFormed(r), NEW bit \in Resources, NEW on \in BOOLEAN
  PROVE  Same(r, SetCleanup(r, bit, on))
BY DEF WellFormed, Framed, Same, SetCleanup, Records

(* cancelRestart disarms recovery and nothing else.                          *)
LEMMA CancelRestartFrame ==
  ASSUME NEW r, WellFormed(r)
  PROVE  /\ Framed(r, CancelRestart(r))
         /\ ~CancelRestart(r).restart
         /\ CancelRestart(r).state = r.state
BY ZenonT(60) DEF WellFormed, Framed, CancelRestart, Records

(* A handler that releases the process clears its reference only.            *)
LEMMA ReleaseProcFrame ==
  ASSUME NEW r, WellFormed(r)
  PROVE  /\ WellFormed(ReleaseProc(r))
         /\ ReleaseProc(r).proc = 0
         /\ ReleaseProc(r).stopping = r.stopping
         /\ ReleaseProc(r).restart = r.restart
         /\ ReleaseProc(r).state = r.state
BY ZenonT(60) DEF WellFormed, ReleaseProc, SetCleanup, Records, Resources

(* The same after a failure the handler marked as its own termination.       *)
LEMMA ReleaseFailedFrame ==
  ASSUME NEW r, WellFormed(r)
  PROVE  /\ WellFormed(ReleaseFailed(r))
         /\ ReleaseFailed(r).proc = 0
         /\ ReleaseFailed(r).stopping = r.stopping
         /\ ReleaseFailed(r).restart = r.restart
         /\ ReleaseFailed(r).state = r.state
<1> DEFINE q == [r EXCEPT !.terminated = FALSE]
<1>1. Same(r, q)
  BY ZenonT(60), FieldFrame
<1>2. ReleaseFailed(r) = ReleaseProc(q)
  BY DEF ReleaseFailed
<1> HIDE DEF q
<1> QED
  BY <1>1, <1>2, ReleaseProcFrame DEF Same, Framed

(* Closing the notify listener does not touch the process.                   *)
LEMMA CloseNotifyFrame ==
  ASSUME NEW r, WellFormed(r), NEW ok \in BOOLEAN
  PROVE  Same(r, CloseNotify(r, ok))
<1> DEFINE q == [r EXCEPT !.notify = 0]
<1>1. Same(r, q) /\ Same(r, r)
  BY ZenonT(60), FieldFrame
<1>2. CloseNotify(r, ok) \in {r, SetCleanup(q, "notification", FALSE),
                              SetCleanup(r, "notification", TRUE)}
  BY DEF CloseNotify
<1> HIDE DEF q
<1>3. Same(q, SetCleanup(q, "notification", FALSE))
      /\ Same(r, SetCleanup(r, "notification", TRUE))
  BY ZenonT(60), <1>1, SetCleanupFrame DEF Same, Framed, Resources
<1> QED
  BY ZenonT(60), <1>1, <1>2, <1>3 DEF Same, Framed

(* publishJournalCompletion changes the capture and its bit only.            *)
LEMMA JournalFrame ==
  ASSUME NEW r, WellFormed(r), NEW capture \in Nat, NEW gen \in Nat,
         NEW complete \in BOOLEAN
  PROVE  Same(r, JournalCompletion(r, capture, gen, complete))
<1> DEFINE q == [r EXCEPT !.capture = IF complete THEN 0 ELSE @]
<1>1. Same(r, q) /\ Same(r, r)
  BY DEF WellFormed, Framed, Same, Records
<1>2. JournalCompletion(r, capture, gen, complete)
        \in {r, SetCleanup(q, "journal", ~complete)}
  BY DEF JournalCompletion
<1> HIDE DEF q
<1>3. Same(q, SetCleanup(q, "journal", ~complete))
  BY ZenonT(60), <1>1, SetCleanupFrame DEF Same, Framed, Resources
<1> QED
  BY <1>1, <1>2, <1>3 DEF Same, Framed

(* An accepted launch takes the unit over, process included.                 *)
LEMMA TakeOverFrame ==
  ASSUME NEW r, WellFormed(r), NEW i
  PROVE  /\ Same(r, TakeOver(r)) /\ r.gen + 1 \in Nat
         /\ WellFormed(Readmit(r, i)) /\ Readmit(r, i).proc = r.proc
         /\ ~Readmit(r, i).stopping /\ Readmit(r, i).state = r.state
<1>1. r.gen + 1 \in Nat
  BY DEF WellFormed, Records
<1>2. Same(r, TakeOver(r))
  BY ZenonT(60), <1>1 DEF Same, Framed, WellFormed, TakeOver, Records, Resources
<1>3. /\ WellFormed(Readmit(r, i)) /\ Readmit(r, i).proc = r.proc
      /\ ~Readmit(r, i).stopping /\ Readmit(r, i).state = r.state
  BY ZenonT(60) DEF WellFormed, Readmit, Records
<1> QED
  BY <1>1, <1>2, <1>3

(* Cancellation, disarming and shutdown suppress later successes and disarm  *)
(* recovery.                                                                 *)
LEMMA SuspendFrame ==
  ASSUME NEW r, WellFormed(r),
         NEW q \in {CancelMember(r), CancelRestart(Suspend(r)),
                    CancelRestart([r EXCEPT !.stopping = TRUE, !.stopEpoch = @ + 1]),
                    CancelRestart([r EXCEPT !.stopping = TRUE, !.gen = @ + 1,
                                            !.watchdog = 0])}
  PROVE  /\ WellFormed(q) /\ q.proc = r.proc /\ q.stopping /\ ~q.restart
         /\ q.state = r.state
<1>1. r.stopEpoch + 1 \in Nat /\ r.gen + 1 \in Nat
  BY DEF WellFormed, Records
<1>2. CASE q = CancelMember(r)
  BY ZenonT(60), <1>1, <1>2 DEF CancelMember, WellFormed, Records, Resources
<1>3. CASE q = CancelRestart(Suspend(r))
  BY ZenonT(60), <1>3 DEF CancelRestart, Suspend, WellFormed, Records
<1>4. CASE q = CancelRestart([r EXCEPT !.stopping = TRUE, !.stopEpoch = @ + 1])
  BY ZenonT(60), <1>1, <1>4 DEF CancelRestart, WellFormed, Records
<1>5. CASE q = CancelRestart([r EXCEPT !.stopping = TRUE, !.gen = @ + 1, !.watchdog = 0])
  BY ZenonT(60), <1>1, <1>5 DEF CancelRestart, WellFormed, Records
<1> QED
  BY <1>2, <1>3, <1>4, <1>5

(* applyStopCleanup releases the process only when its end is confirmed.     *)
LEMMA StopCleanupFrame ==
  ASSUME NEW r, WellFormed(r), NEW ok \in BOOLEAN
  PROVE  /\ WellFormed(StopCleanupResult(r, ok))
         /\ StopCleanupResult(r, ok).proc = IF ok THEN 0 ELSE r.proc
         /\ StopCleanupResult(r, ok).stopping = r.stopping
         /\ StopCleanupResult(r, ok).restart = r.restart
         /\ StopCleanupResult(r, ok).state = r.state
<1>1. CASE ~ok
  <2>1. Same(r, SetCleanup(r, "workload", TRUE))
    BY ZenonT(60), SetCleanupFrame DEF Resources
  <2> QED
    BY ZenonT(60), <1>1, <2>1 DEF StopCleanupResult, Same, Framed
<1>2. CASE ok
  <2> DEFINE c == ReleaseProc(r)
             q == [c EXCEPT !.invocation = IF c.cleanup = {} THEN FALSE ELSE @]
  <2>1. StopCleanupResult(r, ok) = q
    BY <1>2 DEF StopCleanupResult
  <2>2. /\ WellFormed(c) /\ c.proc = 0 /\ c.stopping = r.stopping
        /\ c.restart = r.restart /\ c.state = r.state
    BY ReleaseProcFrame
  <2> HIDE DEF c
  <2>3. Same(c, q)
    BY ZenonT(60), <2>2 DEF Same, Framed, WellFormed, Records
  <2> QED
    BY ZenonT(60), <1>2, <2>1, <2>2, <2>3 DEF Same, Framed
<1> QED
  BY <1>1, <1>2

(* Adoption puts the created process on the record.                          *)
LEMMA AdoptFrame ==
  ASSUME NEW r, WellFormed(r), NEW p \in Nat
  PROVE  /\ WellFormed([r EXCEPT !.proc = p]) /\ [r EXCEPT !.proc = p].proc = p
         /\ [r EXCEPT !.proc = p].stopping = r.stopping
         /\ [r EXCEPT !.proc = p].restart = r.restart
         /\ [r EXCEPT !.proc = p].state = r.state
BY DEF WellFormed, Records

(* A launch failure that could not clean up keeps its process on the record. *)
LEMMA RetainFrame ==
  ASSUME NEW r, WellFormed(r), NEW gen \in Nat, NEW p \in Nat
  PROVE  /\ WellFormed(RetainProc(r, gen, p))
         /\ RetainProc(r, gen, p).proc = p
         /\ RetainProc(r, gen, p).stopping = r.stopping
         /\ RetainProc(r, gen, p).restart = r.restart
         /\ RetainProc(r, gen, p).state = r.state
BY ZenonT(60) DEF WellFormed, RetainProc, Records, Resources

(* The journal is drained and the watchdog detached before a launch.         *)
LEMMA QuiesceFrame ==
  ASSUME NEW r, WellFormed(r), NEW drains \in BOOLEAN
  PROVE  Same(r, Quiesce(r, drains)) /\ Same(r, Invoke(Quiesce(r, drains)))
<1> DEFINE q == [r EXCEPT !.watchdog = 0]
<1>1. Same(r, q) /\ r.capture \in Nat /\ r.gen \in Nat
  BY ZenonT(60), FieldFrame
<1>2. Quiesce(r, drains) = JournalCompletion(q, r.capture, r.gen, drains)
  BY DEF Quiesce
<1> HIDE DEF q
<1>3. Same(q, Quiesce(r, drains))
  BY SMTT(60), <1>1, <1>2, JournalFrame DEF Same, Framed
<1>4. Same(Quiesce(r, drains), Invoke(Quiesce(r, drains)))
  BY ZenonT(60), <1>3, FieldFrame DEF Same, Framed
<1> QED
  BY <1>1, <1>3, <1>4 DEF Same, Framed

(* Recovery is armed only for a unit that is not stopping, and by itself     *)
(* never makes the unit active.                                              *)
LEMMA AcceptRecoveryFrame ==
  ASSUME NEW r, WellFormed(r), NEW gen \in Nat
  PROVE  /\ Framed(r, AcceptRecovery(r, gen))
         /\ AcceptRecovery(r, gen).state = "active" => r.state = "active"
         /\ AcceptRecovery(r, gen).restart = (r.restart \/ Recovers(r, gen))
         /\ Recovers(r, gen) => ~r.stopping
<1>1. /\ "main-exited" \in Events /\ "start-failed" \in Events
      /\ "auto-restart" \in Events
  BY DEF Events
<1>2. r.restart \in BOOLEAN
  BY DEF WellFormed, Records
<1>3. CASE ~Recoverable(r, gen)
  BY <1>2, <1>3 DEF AcceptRecovery, Recovers, Framed
<1>4. CASE Recoverable(r, gen) /\ StartLimitHit(r.starts, Burst)
  <2>1. AcceptRecovery(r, gen) = Step(r, "main-exited") /\ ~Recovers(r, gen)
    BY <1>4 DEF AcceptRecovery, Recovers, FailStartLimit
  <2> QED
    BY <1>1, <1>2, <2>1, StepFrame
<1>5. CASE Recoverable(r, gen) /\ ~StartLimitHit(r.starts, Burst)
  <2> DEFINE a == IF Type = "oneshot" /\ r.state = "activating" /\ r.sub = "start"
                  THEN Step(r, "start-failed") ELSE r
             b == Step(a, "auto-restart")
             c == [b EXCEPT !.restart = TRUE, !.restartGen = r.gen]
  <2>1. AcceptRecovery(r, gen) = c /\ Recovers(r, gen) /\ ~r.stopping
    BY <1>5 DEF AcceptRecovery, Recovers, Recoverable
  <2>2. Framed(r, a) /\ (a.state = "active" => r.state = "active")
    BY <1>1, StepFrame DEF Framed
  <2> HIDE DEF a
  <2>3. Framed(r, b) /\ (b.state = "active" => r.state = "active")
    BY <1>1, <2>2, StepFrame DEF Framed
  <2> HIDE DEF b
  <2>4. Framed(r, c) /\ c.state = b.state /\ c.restart
    BY ZenonT(60), <2>3 DEF Framed, WellFormed, Records
  <2> HIDE DEF c
  <2> QED
    BY ZenonT(60), <1>2, <2>1, <2>3, <2>4 DEF Framed, WellFormed, Records
<1> QED
  BY <1>3, <1>4, <1>5

(* publishStartOutcome keeps state and substate coherent.                    *)
LEMMA PublishFrame ==
  ASSUME NEW r, WellFormed(r), NEW state \in {"active", "inactive", "failed"}
  PROVE  /\ Framed(r, PublishStartOutcome(r, state))
         /\ PublishStartOutcome(r, state).restart = r.restart
         /\ PublishStartOutcome(r, state).state = state
<1> DEFINE sub == CASE state = "active" -> "running"
                    [] state = "failed" /\ r.state = "failed"
                         /\ r.sub = "watchdog" -> "watchdog"
                    [] OTHER -> "none"
           q   == [r EXCEPT !.state = state, !.sub = sub]
<1>1. PublishStartOutcome(r, state) = q
  BY DEF PublishStartOutcome
<1>2. sub \in Substates /\ <<state, sub>> \in Pairs
  BY DEF Pairs, Substates
<1> HIDE DEF sub
<1>3. /\ q \in Records /\ q.state = state /\ q.sub = sub /\ q.proc = r.proc
      /\ q.stopping = r.stopping /\ q.restart = r.restart
  BY ZenonT(60), <1>2 DEF WellFormed, Records, States
<1> QED
  BY <1>1, <1>2, <1>3 DEF Framed, WellFormed

(* A start's completion makes the unit active only when it is not stopping.  *)
LEMMA StartCompletionFrame ==
  ASSUME NEW r, WellFormed(r), NEW p, NEW err \in BOOLEAN
  PROVE  /\ Framed(r, StartCompletion(r, p, err))
         /\ StartCompletion(r, p, err).restart = r.restart
         /\ StartCompletion(r, p, err).state = "active" =>
              r.state = "active" \/ ~r.stopping
<1> DEFINE state == IF err THEN "failed"
                    ELSE IF Type = "oneshot" /\ ~RemainAfterExit THEN "inactive"
                    ELSE "active"
<1>1. state \in {"active", "inactive", "failed"}
  OBVIOUS
<1>2. StartCompletion(r, p, err) = StartOutcome(r, state, p.launched)
  BY DEF StartCompletion
<1> HIDE DEF state
<1>3. \/ StartOutcome(r, state, p.launched) = r
      \/ /\ StartOutcome(r, state, p.launched) = PublishStartOutcome(r, state)
         /\ state = "active" => ~r.stopping
  BY DEF StartOutcome
<1> QED
  BY <1>1, <1>2, <1>3, PublishFrame DEF Framed
-----------------------------------------------------------------------------
(* The number of starts recorded, which only RecordServiceLaunch raises.     *)

(* A handler that does not record a start leaves their number alone.         *)
Counted(r, q) == "starts" \in DOMAIN q /\ q.starts = r.starts

LEMMA FieldsCount ==
  ASSUME NEW r, "starts" \in DOMAIN r
  PROVE  /\ Counted(r, r)
         /\ \A v : Counted(r, [r EXCEPT !.watchdog = v])
         /\ \A v : Counted(r, [r EXCEPT !.notify = v])
         /\ \A v : Counted(r, [r EXCEPT !.capture = v])
         /\ \A v : Counted(r, [r EXCEPT !.terminated = v])
         /\ \A v : Counted(r, [r EXCEPT !.startCancel = v])
         /\ \A v : Counted(r, [r EXCEPT !.proc = v])
         /\ \A v : Counted(r, [r EXCEPT !.invocation = v])
         /\ \A v : Counted(r, [r EXCEPT !.cleanup = v])
         /\ \A v : Counted(r, [r EXCEPT !.restart = v])
         /\ \A v : Counted(r, [r EXCEPT !.stopping = v])
BY Zenon DEF Counted

LEMMA PairsCount ==
  ASSUME NEW r, "starts" \in DOMAIN r
  PROVE  /\ \A v, w : Counted(r, [r EXCEPT !.startCancel = v, !.terminated = w])
         /\ \A v, w : Counted(r, [r EXCEPT !.terminated = v, !.watchdog = w])
         /\ \A v, w : Counted(r, [r EXCEPT !.stopping = v, !.stopEpoch = w])
         /\ \A v, w : Counted(r, [r EXCEPT !.restart = v, !.restartGen = w])
         /\ \A v, w : Counted(r, [r EXCEPT !.state = v, !.sub = w])
         /\ \A v, w : Counted(r, [r EXCEPT !.gen = v, !.cleanup = w])
         /\ \A v, w, x : Counted(r, [r EXCEPT !.stopping = v, !.gen = w, !.watchdog = x])
         /\ \A v, w, x, y : Counted(r, [r EXCEPT !.stopping = v, !.stopEpoch = w,
                                                !.restart = x, !.cleanup = y])
BY Zenon DEF Counted

LEMMA PartsCount ==
  ASSUME NEW r, "starts" \in DOMAIN r
  PROVE  /\ \A ev : Counted(r, Step(r, ev))
         /\ \A state : Counted(r, PublishStartOutcome(r, state))
         /\ \A bit, on : Counted(r, SetCleanup(r, bit, on))
         /\ Counted(r, CancelRestart(r)) /\ Counted(r, Suspend(r))
         /\ Counted(r, CancelMember(r)) /\ Counted(r, Invoke(r))
         /\ Counted(r, TakeOver(r)) /\ Counted(r, ReleaseProc(r))
         /\ \A gen, p : Counted(r, RetainProc(r, gen, p))
<1>1. \A ev : Counted(r, Step(r, ev))
  BY Zenon DEF Counted, Step
<1>2. \A state : Counted(r, PublishStartOutcome(r, state))
  BY Zenon DEF Counted, PublishStartOutcome
<1>3. \A bit, on : Counted(r, SetCleanup(r, bit, on))
  BY Zenon DEF Counted, SetCleanup
<1>4. Counted(r, CancelRestart(r)) /\ Counted(r, Suspend(r))
  BY Zenon DEF Counted, CancelRestart, Suspend
<1>5. Counted(r, CancelMember(r)) /\ Counted(r, Invoke(r))
  BY Zenon DEF Counted, CancelMember, Invoke
<1>6. Counted(r, TakeOver(r)) /\ Counted(r, ReleaseProc(r))
  BY Zenon DEF Counted, TakeOver, ReleaseProc, SetCleanup
<1>7. \A gen, p : Counted(r, RetainProc(r, gen, p))
  BY Zenon DEF Counted, RetainProc
<1> QED
  BY <1>1, <1>2, <1>3, <1>4, <1>5, <1>6, <1>7

LEMMA WholesCount ==
  ASSUME NEW r, "starts" \in DOMAIN r
  PROVE  /\ \A ok \in BOOLEAN : Counted(r, CloseNotify(r, ok))
         /\ \A capture, gen : \A ok \in BOOLEAN : Counted(r, JournalCompletion(r, capture, gen, ok))
         /\ \A ok \in BOOLEAN : Counted(r, Quiesce(r, ok))
         /\ \A gen : Counted(r, AcceptRecovery(r, gen))
         /\ \A p, err : Counted(r, StartCompletion(r, p, err))
         /\ Counted(r, FailStartLimit(r)) /\ Counted(r, ReleaseFailed(r))
         /\ \A ok \in BOOLEAN : Counted(r, StopCleanupResult(r, ok))
<1>1. \A ok \in BOOLEAN : Counted(r, CloseNotify(r, ok))
  <2> TAKE ok \in BOOLEAN
  <2> DEFINE q == [r EXCEPT !.notify = 0]
  <2>1. Counted(r, q)
    BY Zenon, FieldsCount
  <2>2. \/ CloseNotify(r, ok) = r
        \/ CloseNotify(r, ok) = SetCleanup(q, "notification", FALSE)
        \/ CloseNotify(r, ok) = SetCleanup(r, "notification", TRUE)
    BY ZenonT(60) DEF CloseNotify
  <2> HIDE DEF q
  <2>3. Counted(q, SetCleanup(q, "notification", FALSE))
    BY Zenon, <2>1 DEF Counted, SetCleanup
  <2>4. Counted(r, SetCleanup(r, "notification", TRUE)) /\ Counted(r, r)
    BY Zenon, PartsCount, FieldsCount
  <2> QED
    BY ZenonT(60), <2>1, <2>2, <2>3, <2>4 DEF Counted
<1>2. ASSUME NEW s, "starts" \in DOMAIN s, NEW capture, NEW gen, NEW ok \in BOOLEAN
      PROVE  Counted(s, JournalCompletion(s, capture, gen, ok))
  <2> DEFINE q == [s EXCEPT !.capture = IF ok THEN 0 ELSE @]
  <2>1. Counted(s, q) /\ Counted(s, s)
    BY Zenon, <1>2 DEF Counted
  <2>2. \/ JournalCompletion(s, capture, gen, ok) = s
        \/ JournalCompletion(s, capture, gen, ok) = SetCleanup(q, "journal", ~ok)
    BY Zenon DEF JournalCompletion
  <2> HIDE DEF q
  <2>3. Counted(q, SetCleanup(q, "journal", ~ok))
    BY Zenon, <2>1 DEF Counted, SetCleanup
  <2> QED
    BY <2>1, <2>2, <2>3 DEF Counted
<1>3. \A ok \in BOOLEAN : Counted(r, Quiesce(r, ok))
  <2> TAKE ok \in BOOLEAN
  <2> DEFINE q == [r EXCEPT !.watchdog = 0]
  <2>1. Counted(r, q) /\ Quiesce(r, ok) = JournalCompletion(q, r.capture, r.gen, ok)
    BY Zenon, FieldsCount DEF Quiesce
  <2> HIDE DEF q
  <2> QED
    BY <1>2, <2>1 DEF Counted
<1>4. \A gen : Counted(r, AcceptRecovery(r, gen))
  <2> TAKE gen
  <2> DEFINE a == IF Type = "oneshot" /\ r.state = "activating" /\ r.sub = "start"
                  THEN Step(r, "start-failed") ELSE r
             b == Step(a, "auto-restart")
             c == [b EXCEPT !.restart = TRUE, !.restartGen = r.gen]
  <2>1. \/ AcceptRecovery(r, gen) = r \/ AcceptRecovery(r, gen) = Step(r, "main-exited")
        \/ AcceptRecovery(r, gen) = c
    BY Zenon DEF AcceptRecovery, FailStartLimit
  <2>2. Counted(r, a)
    BY Zenon, PartsCount, FieldsCount
  <2> HIDE DEF a
  <2>3. Counted(a, b)
    BY <2>2, PartsCount DEF Counted
  <2> HIDE DEF b
  <2>4. Counted(b, c)
    BY Zenon, <2>2, <2>3, PairsCount DEF Counted
  <2> HIDE DEF c
  <2>5. Counted(r, Step(r, "main-exited"))
    BY Zenon, PartsCount
  <2> QED
    BY <2>1, <2>2, <2>3, <2>4, <2>5 DEF Counted
<1>5. \A p, err : Counted(r, StartCompletion(r, p, err))
  <2> TAKE p, err
  <2>1. PICK state : \/ StartCompletion(r, p, err) = r
                     \/ StartCompletion(r, p, err) = PublishStartOutcome(r, state)
    BY Zenon DEF StartCompletion, StartOutcome
  <2> QED
    BY <2>1, PartsCount, FieldsCount
<1>6. Counted(r, FailStartLimit(r)) /\ Counted(r, ReleaseFailed(r))
  <2> DEFINE q == [r EXCEPT !.terminated = FALSE]
  <2>1. Counted(r, q) /\ ReleaseFailed(r) = ReleaseProc(q)
    BY Zenon, FieldsCount DEF ReleaseFailed
  <2> HIDE DEF q
  <2> QED
    BY Zenon, <2>1, PartsCount DEF Counted, FailStartLimit
<1>7. \A ok \in BOOLEAN : Counted(r, StopCleanupResult(r, ok))
  <2> TAKE ok \in BOOLEAN
  <2> DEFINE c == ReleaseProc(r)
             q == [c EXCEPT !.invocation = IF c.cleanup = {} THEN FALSE ELSE @]
  <2>1. \/ StopCleanupResult(r, ok) = SetCleanup(r, "workload", TRUE)
        \/ StopCleanupResult(r, ok) = q
    BY Zenon DEF StopCleanupResult
  <2>2. Counted(r, c)
    BY Zenon, PartsCount
  <2> HIDE DEF c
  <2>3. Counted(c, q)
    BY Zenon, <2>2, FieldsCount DEF Counted
  <2> HIDE DEF q
  <2>4. Counted(r, SetCleanup(r, "workload", TRUE))
    BY Zenon, PartsCount
  <2> QED
    BY ZenonT(60), <2>1, <2>2, <2>3, <2>4 DEF Counted
<1> QED
  BY Zenon, <1>1, <1>2, <1>3, <1>4, <1>5, <1>6, <1>7

-----------------------------------------------------------------------------
(* What a step may do to the contract's view of the unit: supervise, disarm, *)
(* create or readmit.                                                        *)
StepKeeps ==
  \/ /\ tree' \subseteq tree /\ rt'.stopping = rt.stopping
     /\ rt'.state = "active" => rt.state = "active" \/ ~rt.stopping
  \/ tree' = tree /\ rt'.stopping /\ (rt'.state = "active" => rt.state = "active")
  \/ /\ tree = {} /\ (\E p \in tree' : tree' = {p})
     /\ rt'.stopping = rt.stopping /\ rt'.state = rt.state
  \/ tree' = tree /\ ~rt'.stopping /\ rt'.state = rt.state

(* TypeOK by the parts that steps change separately.                         *)
NativeOK == nproc \in Nat /\ tree \subseteq 1..nproc /\ main \subseteq tree
PendingOK ==
  /\ watchers \subseteq Nat /\ reaps \subseteq [gen : Nat, proc : Nat]
  /\ loop \in Nat /\ fired \subseteq Nat /\ rearms \subseteq Nat
  /\ exits \subseteq [gen : Nat, suppressed : BOOLEAN]
RecoveryOK == /\ recovery \in {"none", "wait"}
              /\ recovery = "wait" => rt.restart /\ ~rt.stopping
StateOK == NativeOK /\ PendingOK /\ RecoveryOK /\ WellFormed(rt) /\ gate \in Gates

(* What the invariant says of the parts a step reads: the native, pending    *)
(* and recovery state, and whose process the gate's place holds.             *)
LEMMA StateFacts ==
  ASSUME IInv
  PROVE  /\ StateOK /\ Same(rt, rt)
         /\ gate.pc \in LaunchPcs \cup WaitPcs \cup {"accept"}
              => gate.by \in {"start", "recovery"}
         /\ gate.pc \in HoldPcs => gate.proc = rt.proc
         /\ gate.pc \in CreatePcs => rt.proc = 0
BY DEF IInv, TypeOK, StateOK, NativeOK, PendingOK, RecoveryOK, WellFormed, Places,
       Ownership, Armed, Same, Framed
-----------------------------------------------------------------------------
(* Steps of the launch worker under the gate.                                *)

(* The record keeps its stop precedence and becomes active only if allowed.  *)
RecordMoves ==
  /\ WellFormed(rt') /\ rt'.stopping = rt.stopping
  /\ rt'.state = "active" => rt.state = "active" \/ ~rt.stopping

(* The launch goes on in its gate, or returns.                               *)
GateMoves ==
  /\ gate' \in Gates
  /\ \/ gate' = NoGate /\ gate.by = "recovery"
     \/ /\ gate'.by = gate.by /\ gate'.id = gate.id
        /\ gate'.pc \in LaunchPcs \cup WaitPcs \cup {"return"}
        /\ gate'.pc \in LaunchPcs => gate.pc \in LaunchPcs \/ ~closed
        /\ gate'.pc = "return" => gate.by = "start"

(* The end of launchUnitOwnedOp leaves a gate that is free or about to       *)
(* publish.                                                                  *)
LEMMA ReturnFrame ==
  ASSUME gate \in Gates, NEW err \in BOOLEAN, Return(err),
         gate.by \in {"start", "recovery"}
  PROVE  GateMoves /\ gate'.pc \in {"free", "return"}
BY ZenonT(60)
   DEF Return, Gates, GateMoves, NoGate, Workers, StopIds, LaunchPcs, CreatePcs, WaitPcs

(* A native stop creates nothing; a confirmed one removes its process.       *)
LEMMA StopNativeFrame ==
  ASSUME NativeOK, NEW p, NEW ok \in BOOLEAN, StopNative(p, ok)
  PROVE  NativeOK' /\ nproc' = nproc /\ tree' \subseteq tree /\ (ok => p \notin tree')
BY ZenonT(60) DEF NativeOK, StopNative

(* A step of the launch disturbs no other worker.                            *)
LEMMA HolderKeeps ==
  ASSUME IInv, gate.pc \in LaunchPcs \cup WaitPcs \cup {"accept"}, GateMoves,
         UNCHANGED <<closed, stop>>, \A i \in Starts : plan'[i].pc = plan[i].pc,
         NativeOK', nproc' >= nproc,
         \A p \in tree' : p \in tree \/ (p > nproc /\ gate.pc = "create"),
         RecoveryOK'
  PROVE  Places' /\ StopMarks' /\ Sealed' /\ Armed'
<1>1. Places'
  <2>1. gate.pc # "kill" /\ gate'.pc \notin {"kill", "stop"} /\ gate.by \in {"start", "recovery"}
    BY DEF IInv, Places, GateMoves, NoGate, LaunchPcs, CreatePcs, WaitPcs
  <2>2. CASE gate' = NoGate
    BY <2>2 DEF IInv, Places, NoGate, LaunchPcs, CreatePcs, WaitPcs
  <2>3. CASE gate'.by = gate.by /\ gate'.id = gate.id /\ (gate'.pc = "return" => gate.by = "start")
    BY <2>1, <2>3 DEF IInv, Places
  <2> QED BY <2>2, <2>3 DEF GateMoves
<1>2. StopMarks'
  <2> SUFFICES ASSUME NEW s \in Workers PROVE StopMarks!(s)'
    BY DEF StopMarks
  <2>1. stop[s].mark \in Nat /\ nproc \in Nat
    BY DEF IInv, TypeOK, StopWorkers
  <2> QED BY <2>1 DEF IInv, StopMarks, NativeOK
<1>3. Sealed'
  <2>1. /\ gate.pc \notin LaunchPcs => gate.pc # "create"
        /\ gate.pc \notin LaunchPcs /\ closed => gate'.pc \notin LaunchPcs
    BY DEF GateMoves, NoGate, LaunchPcs, CreatePcs, WaitPcs
  <2>2. tree = {} /\ gate.pc # "create" => tree' = {}
    OBVIOUS
  <2> QED BY <2>1, <2>2 DEF IInv, Sealed
<1>4. Armed'
  BY DEF RecoveryOK, Armed, GateMoves, NoGate, LaunchPcs, CreatePcs, WaitPcs
<1> QED BY <1>1, <1>2, <1>3, <1>4

(* A launch step that keeps the record framed and creates nothing keeps the  *)
(* invariant.                                                                *)
LEMMA HolderStep ==
  ASSUME IInv, gate.pc \in LaunchPcs \cup WaitPcs \cup {"accept"}, GateMoves, RecordMoves,
         UNCHANGED <<closed, plan, stop>>,
         NativeOK', nproc' = nproc, tree' \subseteq tree, PendingOK', RecoveryOK',
         Ownership'
  PROVE  IInv' /\ StepKeeps
<1>1. nproc' >= nproc
  BY DEF NativeOK
<1>2. Places' /\ StopMarks' /\ Sealed' /\ Armed'
  BY <1>1, HolderKeeps
<1>3. TypeOK'
  BY
     DEF IInv, TypeOK, NativeOK, PendingOK, RecoveryOK, RecordMoves, GateMoves, WellFormed
<1> QED
  BY <1>2, <1>3 DEF IInv, StepKeeps, RecordMoves

(* A cleanup that forgets the process only when its end is confirmed leaves  *)
(* no orphan.                                                                *)
LEMMA CleanupOwns ==
  ASSUME IInv, gate.pc \in HoldPcs, NEW ok \in BOOLEAN,
         tree' \subseteq tree, ok => gate.proc \notin tree',
         rt'.proc = rt.proc \/ (ok /\ rt'.proc = 0), gate'.pc \in {"free", "return"}
  PROVE  Ownership'
BY DEF IInv, Ownership, LiveTreeOwned, HoldPcs, WaitPcs, CreatePcs

(* maybeRestart arms a recovery only with the record that accepted it.       *)
LEMMA MaybeRestartFrame ==
  ASSUME NEW r, WellFormed(r), NEW kind, MaybeRestart(r, kind),
         recovery \in {"none", "wait"}, recovery = "wait" => r.restart /\ ~r.stopping
  PROVE  /\ Framed(r, rt') /\ (rt'.state = "active" => r.state = "active")
         /\ RecoveryOK' /\ (r.restart => rt'.restart)
<1>1. r.gen \in Nat /\ r.restart \in BOOLEAN /\ Framed(r, r)
  BY DEF WellFormed, Records, Framed
<1>2. CASE ShouldRestart(Restart, kind)
  <2>1. /\ rt' = AcceptRecovery(r, r.gen)
        /\ recovery' = IF Recovers(r, r.gen) THEN "wait" ELSE recovery
    BY <1>2 DEF MaybeRestart
  <2>2. /\ Framed(r, AcceptRecovery(r, r.gen))
        /\ AcceptRecovery(r, r.gen).state = "active" => r.state = "active"
        /\ AcceptRecovery(r, r.gen).restart = (r.restart \/ Recovers(r, r.gen))
        /\ Recovers(r, r.gen) => ~r.stopping
    BY <1>1, AcceptRecoveryFrame
  <2> QED
    BY ZenonT(60), <1>1, <2>1, <2>2 DEF Framed, RecoveryOK
<1>3. CASE ~ShouldRestart(Restart, kind)
  BY <1>1, <1>3 DEF MaybeRestart, RecoveryOK
<1> QED
  BY <1>2, <1>3

(* Evicting the previous process keeps the invariant: the launch goes on     *)
(* only when its termination is confirmed.                                   *)
LEMMA EvictStep ==
  ASSUME IInv, EvictPrevious
  PROVE  IInv' /\ StepKeeps
<1>0. PICK ok \in BOOLEAN : EvictPrevious!(ok)
  BY ZenonT(60) DEF EvictPrevious
<1>1. gate.pc = "evict" /\ gate.pc \in LaunchPcs /\ gate.pc \in HoldPcs
  BY <1>0 DEF LaunchPcs, HoldPcs
<1>2. StateOK /\ gate.by \in {"start", "recovery"} /\ gate.proc = rt.proc
  BY <1>1, StateFacts
<1>3. NativeOK' /\ nproc' = nproc /\ tree' \subseteq tree /\ (ok => gate.proc \notin tree')
  BY <1>0, <1>2, StopNativeFrame DEF StateOK
<1>4. /\ WellFormed(rt') /\ rt'.stopping = rt.stopping /\ rt'.restart = rt.restart
      /\ rt'.state = rt.state /\ rt'.proc = IF ok /\ ~closed THEN 0 ELSE rt.proc
  BY ZenonT(60), <1>0, <1>2, ReleaseProcFrame DEF StateOK
<1>5. CASE ok /\ ~closed
  <2>1. gate' = [gate EXCEPT !.pc = "record", !.proc = 0]
    BY <1>0, <1>5
  <2>2. gate' \in Gates /\ gate'.pc = "record" /\ gate'.by = gate.by /\ gate'.id = gate.id
    BY ZenonT(60), <1>2, <2>1 DEF Gates, StateOK
  <2>3. GateMoves
    BY <1>1, <2>2 DEF GateMoves, LaunchPcs, CreatePcs
  <2>4. Ownership'
    BY SMTT(60), <1>2, <1>3, <1>4, <1>5, <2>2, <1>1
       DEF IInv, Ownership, LiveTreeOwned, HoldPcs, WaitPcs
  <2> QED
    BY <1>0, <1>1, <1>2, <1>3, <1>4, <2>3, <2>4, HolderStep
    DEF RecordMoves, RecoveryOK, PendingOK, pending, StateOK
<1>6. CASE ~(ok /\ ~closed)
  <2>1. GateMoves /\ gate'.pc \in {"free", "return"}
    BY ZenonT(60), <1>0, <1>2, <1>6, ReturnFrame DEF StateOK
  <2>2. Ownership'
    BY <1>1, <1>3, <1>4, <1>6, <2>1, CleanupOwns
  <2> QED
    BY SMTT(60), <1>0, <1>1, <1>2, <1>3, <1>4, <2>1, <2>2, HolderStep
    DEF RecordMoves, RecoveryOK, PendingOK, pending, StateOK
<1> QED
  BY <1>5, <1>6

(* recordServiceLaunch keeps the invariant.                                  *)
LEMMA RecordStep ==
  ASSUME IInv, RecordServiceLaunch
  PROVE  IInv' /\ StepKeeps
<1>1. gate.pc = "record" /\ gate.pc \in LaunchPcs /\ gate.pc \in CreatePcs
  BY DEF RecordServiceLaunch, LaunchPcs, CreatePcs
<1>2. StateOK /\ rt.proc = 0
  BY <1>1, StateFacts
<1>3. /\ Framed(rt, rt') /\ rt'.restart = rt.restart
      /\ rt'.state = "active" => rt.state = "active"
  <2> DEFINE a == IF Type = "oneshot" THEN Step(rt, "start-requested") ELSE rt
             b == [a EXCEPT !.starts = RecordStart(@, Burst)]
  <2>1. /\ Framed(rt, a) /\ a.restart = rt.restart
        /\ a.state = "active" => rt.state = "active"
    BY <1>2, StepFrame DEF Events, Framed, StateOK
  <2>2. rt' = IF closed THEN rt ELSE b
    BY DEF RecordServiceLaunch
  <2> HIDE DEF a
  <2>3. a.starts \in Nat /\ RecordStart(a.starts, Burst) \in Nat
    BY <2>1 DEF Framed, WellFormed, Records, RecordStart
  <2>4. Framed(a, b) /\ b.restart = a.restart /\ b.state = a.state
    BY <2>1, <2>3 DEF Framed, WellFormed, Records
  <2> QED
    BY <1>2, <2>1, <2>2, <2>4 DEF Framed, StateOK
<1>4. gate' \in Gates /\ gate'.pc = "prepare" /\ gate'.by = gate.by /\ gate'.id = gate.id
  BY <1>2 DEF RecordServiceLaunch, Gates, StateOK
<1>5. GateMoves
  BY <1>1, <1>4 DEF GateMoves, LaunchPcs, CreatePcs
<1>6. /\ UNCHANGED <<closed, plan, stop, tree, nproc>>
      /\ NativeOK' /\ PendingOK' /\ RecoveryOK'
  BY <1>2, <1>3 DEF RecordServiceLaunch, native, pending, StateOK, NativeOK, PendingOK,
                    RecoveryOK, Framed
<1>7. Ownership'
  BY <1>1, <1>2, <1>3, <1>4, <1>6
     DEF IInv, Ownership, LiveTreeOwned, HoldPcs, WaitPcs, Framed
<1> QED
  BY <1>1, <1>3, <1>5, <1>6, <1>7, HolderStep DEF RecordMoves, Framed

(* Closing the old listener and draining the journal keep the invariant.     *)
LEMMA PrepareStep ==
  ASSUME IInv, PrepareLaunch
  PROVE  IInv' /\ StepKeeps
<1>1. gate.pc = "prepare" /\ gate.pc \in LaunchPcs /\ gate.pc \in CreatePcs
  BY DEF PrepareLaunch, LaunchPcs, CreatePcs
<1>2. StateOK /\ gate.by \in {"start", "recovery"} /\ rt.proc = 0
  BY <1>1, StateFacts
<1>3. PICK closes \in BOOLEAN :
        /\ \/ rt' \in {CloseNotify(rt, closes), Quiesce(CloseNotify(rt, closes), FALSE)}
              /\ Return(TRUE)
           \/ rt' = Invoke(Quiesce(CloseNotify(rt, closes), TRUE))
              /\ gate' = [gate EXCEPT !.pc = IF NeedsPipe THEN "open" ELSE "create"]
  BY ZenonT(60) DEF PrepareLaunch
<1>4. Same(rt, CloseNotify(rt, closes))
  BY <1>2, CloseNotifyFrame DEF StateOK
<1>5. /\ Same(CloseNotify(rt, closes), Quiesce(CloseNotify(rt, closes), FALSE))
      /\ Same(CloseNotify(rt, closes), Invoke(Quiesce(CloseNotify(rt, closes), TRUE)))
  BY ZenonT(60), <1>4, QuiesceFrame DEF Same, Framed
<1>6. Same(rt, rt')
  BY ZenonT(60), <1>3, <1>4, <1>5 DEF Same, Framed
<1>7. GateMoves /\ gate'.pc \in {"open", "create", "free", "return"}
  <2>1. CASE Return(TRUE)
    BY ZenonT(60), <1>2, <2>1, ReturnFrame DEF StateOK
  <2>2. CASE gate' = [gate EXCEPT !.pc = IF NeedsPipe THEN "open" ELSE "create"]
    <3>1. /\ gate' \in Gates /\ gate'.pc \in {"open", "create"} /\ gate'.by = gate.by
          /\ gate'.id = gate.id
      BY <1>2, <2>2 DEF Gates, StateOK
    <3> QED
      BY <1>1, <3>1 DEF GateMoves, LaunchPcs, CreatePcs
  <2> QED
    BY ZenonT(60), <1>3, <2>1, <2>2
<1>8. /\ UNCHANGED <<closed, plan, stop, tree, nproc>>
      /\ NativeOK' /\ PendingOK' /\ RecoveryOK'
  BY <1>2, <1>6 DEF PrepareLaunch, native, pending, StateOK, NativeOK, PendingOK,
                    RecoveryOK, Same, Framed
<1>9. Ownership'
  BY <1>1, <1>2, <1>6, <1>7, <1>8
  DEF IInv, Ownership, LiveTreeOwned, HoldPcs, WaitPcs, Same, Framed
<1> QED
  BY <1>1, <1>6, <1>7, <1>8, <1>9, HolderStep DEF RecordMoves, Same, Framed

(* Opening the notify listener keeps the invariant.                          *)
LEMMA OpenStep ==
  ASSUME IInv, OpenNotify
  PROVE  IInv' /\ StepKeeps
<1>1. gate.pc = "open" /\ gate.pc \in LaunchPcs /\ gate.pc \in CreatePcs
  BY DEF OpenNotify, LaunchPcs, CreatePcs
<1>2. StateOK /\ Same(rt, rt) /\ gate.by \in {"start", "recovery"} /\ rt.proc = 0
  BY <1>1, StateFacts
<1> DEFINE n == [rt EXCEPT !.notify = gate.gen]
<1>3. /\ rt' \in {rt, n, SetCleanup(n, "notification", TRUE)}
      /\ Return(TRUE) \/ gate' = [gate EXCEPT !.pc = "create"]
  BY ZenonT(60) DEF OpenNotify
<1>4. Same(rt, n)
  BY ZenonT(60), <1>2, FieldFrame DEF StateOK, Gates
<1> HIDE DEF n
<1>5. Same(n, SetCleanup(n, "notification", TRUE))
  BY ZenonT(60), <1>4, SetCleanupFrame DEF Same, Framed, Resources
<1>6. Same(rt, rt')
  BY ZenonT(60), <1>2, <1>3, <1>4, <1>5 DEF Same, Framed
<1>7. GateMoves /\ gate'.pc \in {"create", "free", "return"}
  <2>1. CASE Return(TRUE)
    BY ZenonT(60), <1>2, <2>1, ReturnFrame DEF StateOK
  <2>2. CASE gate' = [gate EXCEPT !.pc = "create"]
    <3>1. gate' \in Gates /\ gate'.pc = "create" /\ gate'.by = gate.by /\ gate'.id = gate.id
      BY <1>2, <2>2 DEF Gates, StateOK
    <3> QED
      BY <1>1, <3>1 DEF GateMoves, LaunchPcs, CreatePcs
  <2> QED
    BY ZenonT(60), <1>3, <2>1, <2>2
<1>8. /\ UNCHANGED <<closed, plan, stop, tree, nproc>>
      /\ NativeOK' /\ PendingOK' /\ RecoveryOK'
  BY SMTT(60), <1>2, <1>6 DEF OpenNotify, native, pending, StateOK, NativeOK, PendingOK,
                    RecoveryOK, Same, Framed
<1>9. Ownership'
  BY SMTT(60), <1>1, <1>2, <1>6, <1>7, <1>8
  DEF IInv, Ownership, LiveTreeOwned, HoldPcs, WaitPcs, Same, Framed
<1> QED
  BY <1>1, <1>6, <1>7, <1>8, <1>9, HolderStep DEF RecordMoves, Same, Framed

(* Creating the process keeps the invariant: nothing is alive before.        *)
LEMMA CreateStep ==
  ASSUME IInv, CreateProcess
  PROVE  IInv' /\ StepKeeps
<1>0. PICK outcome \in {"ok", "failed", "account", "retained"}, closes \in BOOLEAN :
      CreateProcess!(outcome, closes)
  BY ZenonT(60) DEF CreateProcess
<1>1. gate.pc = "create" /\ gate.pc \in LaunchPcs /\ gate.pc \in CreatePcs
  BY <1>0 DEF LaunchPcs, CreatePcs
<1>2. StateOK /\ gate.by \in {"start", "recovery"} /\ rt.proc = 0
  BY <1>1, StateFacts
<1>3. tree = {} /\ nproc \in Nat /\ nproc + 1 \in Nat /\ gate.gen \in Nat
  <2>1. nproc \in Nat /\ gate.gen \in Nat
    BY <1>2 DEF StateOK, NativeOK, Gates
  <2> QED
    BY <1>1, <1>2, <2>1 DEF IInv, Ownership, LiveTreeOwned, StateOK, NativeOK
<1>4. UNCHANGED <<closed, plan, stop>> /\ PendingOK'
  BY <1>0, <1>2 DEF pending, StateOK, PendingOK
<1>5. CASE outcome = "ok"
  <2>1. /\ nproc' = nproc + 1 /\ tree' = {nproc + 1} /\ main' \subseteq tree'
        /\ rt' = [rt EXCEPT !.capture = gate.gen]
        /\ gate' = [gate EXCEPT !.pc = "adopt", !.proc = nproc + 1]
        /\ recovery' = recovery
    BY <1>0, <1>2, <1>3, <1>5 DEF StateOK, NativeOK
  <2>2. Same(rt, rt')
    BY ZenonT(60), <1>2, <1>3, <2>1, FieldFrame DEF StateOK
  <2>3. /\ gate' \in Gates /\ gate'.pc = "adopt" /\ gate'.proc = nproc + 1
        /\ gate'.by = gate.by /\ gate'.id = gate.id
    <3> DEFINE p == nproc + 1
    <3>1. gate' = [gate EXCEPT !.pc = "adopt", !.proc = p] /\ p \in Nat
      BY <1>3, <2>1
    <3> HIDE DEF p
    <3>2. /\ gate' \in Gates /\ gate'.pc = "adopt" /\ gate'.proc = p
          /\ gate'.by = gate.by /\ gate'.id = gate.id
      BY ZenonT(60), <1>2, <3>1 DEF Gates, StateOK
    <3> QED
      BY <3>2 DEF p
  <2>4. GateMoves
    BY <1>1, <2>3 DEF GateMoves, LaunchPcs, CreatePcs
  <2>5. NativeOK' /\ nproc' >= nproc /\ \A p \in tree' : p > nproc
    BY <1>3, <2>1 DEF NativeOK
  <2>6. RecoveryOK'
    BY <1>2, <2>1, <2>2 DEF StateOK, RecoveryOK, Same, Framed
  <2>7. Places' /\ StopMarks' /\ Sealed' /\ Armed'
    BY <1>1, <1>4, <2>4, <2>5, <2>6, HolderKeeps
  <2>8. Ownership'
    BY <1>2, <2>1, <2>2, <2>3
       DEF Ownership, LiveTreeOwned, HoldPcs, WaitPcs, Same, Framed
  <2>9. TypeOK'
    BY <1>4, <2>2, <2>3, <2>5, <2>6
    DEF IInv, TypeOK, NativeOK, PendingOK, RecoveryOK, WellFormed, Same, Framed
  <2> QED
    BY <1>3, <2>1, <2>2, <2>7, <2>8, <2>9 DEF IInv, StepKeeps, Same, Framed
<1>6. CASE outcome = "retained"
  <2> DEFINE p == nproc + 1
             o == RetainProc(rt, gate.gen, p)
  <2>1. /\ nproc' = nproc + 1 /\ tree' = {nproc + 1} /\ main' \subseteq tree'
        /\ rt' = CloseNotify(o, closes) /\ Return(TRUE) /\ recovery' = recovery
    BY ZenonT(60), <1>0, <1>2, <1>3, <1>6 DEF StateOK, NativeOK
  <2>2. /\ WellFormed(o) /\ o.restart = rt.restart /\ o.state = rt.state
        /\ o.proc = nproc + 1 /\ o.stopping = rt.stopping
    <3> DEFINE g == gate.gen
    <3>1. p \in Nat /\ p = nproc + 1 /\ WellFormed(rt) /\ g \in Nat
      BY <1>2, <1>3 DEF StateOK
    <3> HIDE DEF p, g
    <3>2. /\ WellFormed(RetainProc(rt, g, p)) /\ RetainProc(rt, g, p).proc = p
          /\ RetainProc(rt, g, p).stopping = rt.stopping
          /\ RetainProc(rt, g, p).restart = rt.restart
          /\ RetainProc(rt, g, p).state = rt.state
      BY ZenonT(60), <3>1, RetainFrame
    <3>3. /\ WellFormed(o) /\ o.proc = p /\ o.stopping = rt.stopping
          /\ o.restart = rt.restart /\ o.state = rt.state
      BY <3>2 DEF g
    <3> QED
      BY <3>1, <3>3
  <2> HIDE DEF o
  <2>3. Same(o, rt')
    BY <2>1, <2>2, CloseNotifyFrame
  <2>4. GateMoves /\ gate'.pc \in {"free", "return"}
    BY ZenonT(60), <1>2, <2>1, ReturnFrame DEF StateOK
  <2>5. NativeOK' /\ nproc' >= nproc /\ \A q \in tree' : q > nproc
    BY <1>3, <2>1 DEF NativeOK
  <2>6. RecoveryOK'
    BY <1>2, <2>1, <2>2, <2>3 DEF StateOK, RecoveryOK, Same, Framed
  <2>7. Places' /\ StopMarks' /\ Sealed' /\ Armed'
    BY SMTT(60), <1>1, <1>4, <2>4, <2>5, <2>6, HolderKeeps
  <2>8. Ownership'
    BY SMTT(60), <2>1, <2>2, <2>3, <2>4
       DEF Ownership, LiveTreeOwned, HoldPcs, WaitPcs, CreatePcs, Same, Framed
  <2>9. TypeOK'
    BY SMTT(60), <1>4, <2>3, <2>4, <2>5, <2>6
    DEF IInv, TypeOK, NativeOK, PendingOK, RecoveryOK, WellFormed, Same, Framed, GateMoves
  <2> QED
    BY <1>3, <2>1, <2>2, <2>3, <2>7, <2>8, <2>9 DEF IInv, StepKeeps, Same, Framed
<1>7. CASE outcome \in {"failed", "account"}
  <2> DEFINE c == CloseNotify(rt, closes)
             f == IF closed \/ c.stopping \/ c.state # "activating" THEN c
                  ELSE Step(c, "start-failed")
  <2>1. /\ UNCHANGED <<nproc, tree, main>> /\ Return(TRUE)
        /\ \/ MaybeRestart(f, "failure")
           \/ rt' = c /\ recovery' = recovery
    BY ZenonT(60), <1>0, <1>7
  <2>2. Same(rt, c)
    BY <1>2, CloseNotifyFrame DEF StateOK
  <2> HIDE DEF c
  <2>3. Framed(c, f) /\ f.restart = c.restart /\ (f.state = "active" => c.state = "active")
    BY <2>2, StepFrame DEF Same, Framed, Events
  <2> HIDE DEF f
  <2>4. Framed(rt, rt') /\ (rt'.state = "active" => rt.state = "active") /\ RecoveryOK'
    <3>1. CASE MaybeRestart(f, "failure")
      <4>1. /\ Framed(f, rt') /\ (rt'.state = "active" => f.state = "active")
            /\ RecoveryOK'
        BY <1>2, <2>2, <2>3, <3>1, MaybeRestartFrame
           DEF Same, Framed, StateOK, RecoveryOK
      <4> QED
        BY <2>2, <2>3, <4>1 DEF Same, Framed
    <3>2. CASE rt' = c /\ recovery' = recovery
      BY <1>2, <2>2, <3>2 DEF Same, Framed, StateOK, RecoveryOK
    <3> QED
      BY <2>1, <3>1, <3>2
  <2>5. GateMoves /\ gate'.pc \in {"free", "return"}
    BY ZenonT(60), <1>2, <2>1, ReturnFrame DEF StateOK
  <2>6. NativeOK'
    BY <1>2, <2>1 DEF StateOK, NativeOK
  <2>7. Ownership'
    BY <1>3, <2>1, <2>5 DEF Ownership, LiveTreeOwned, HoldPcs, WaitPcs, CreatePcs
  <2> QED
    BY ZenonT(60), <1>1, <1>4, <2>1, <2>4, <2>5, <2>6, <2>7, HolderStep
       DEF RecordMoves, Same, Framed
<1> QED
  BY SMTT(60), <1>5, <1>6, <1>7

(* Moving the holder to another place of its launch.                         *)
LEMMA GateUpdate ==
  ASSUME gate \in Gates, gate.pc \in LaunchPcs \cup WaitPcs, NEW pc \in WaitPcs,
         NEW flag \in BOOLEAN,
         \/ gate' = [gate EXCEPT !.pc = pc]
         \/ gate' = [gate EXCEPT !.pc = pc, !.flag = flag]
         \/ gate' = [gate EXCEPT !.pc = pc, !.cancelled = flag]
  PROVE  GateMoves /\ gate'.pc = pc /\ gate'.proc = gate.proc
<1>1. /\ gate' \in Gates /\ gate'.pc = pc /\ gate'.proc = gate.proc
      /\ gate'.by = gate.by /\ gate'.id = gate.id
  BY ZenonT(60) DEF Gates, WaitPcs
<1> QED
  BY <1>1 DEF GateMoves, LaunchPcs, CreatePcs, WaitPcs

(* adoptProcess keeps the invariant, whether or not a stop overtook it.      *)
LEMMA AdoptStep ==
  ASSUME IInv, AdoptProcess
  PROVE  IInv' /\ StepKeeps
<1> DEFINE r == [rt EXCEPT !.proc = gate.proc]
           t == [r EXCEPT !.terminated = FALSE]
<1>1. gate.pc = "adopt" /\ gate.pc \in LaunchPcs /\ gate.pc \in CreatePcs
  BY DEF AdoptProcess, LaunchPcs, CreatePcs
<1>2. StateOK /\ rt.proc = 0 /\ gate.proc \in Nat
  BY <1>1, StateFacts DEF StateOK, Gates
<1>3. PICK pc \in WaitPcs :
        /\ gate' = [gate EXCEPT !.pc = pc]
        /\ \/ rt' = SetCleanup(r, "workload", TRUE)
           \/ rt' \in {t, Step(t, "start-requested"), Step(t, "start-succeeded")}
              /\ ~rt.stopping
  BY ZenonT(60), ConfigAssumption DEF AdoptProcess, WaitPcs
<1>4. /\ WellFormed(r) /\ r.proc = gate.proc /\ r.stopping = rt.stopping
      /\ r.restart = rt.restart /\ r.state = rt.state
  BY <1>2, AdoptFrame DEF StateOK
<1> HIDE DEF r
<1>5. Same(r, t) /\ Same(r, SetCleanup(r, "workload", TRUE))
  BY ZenonT(60), <1>4, FieldFrame, SetCleanupFrame DEF Resources
<1> HIDE DEF t
<1>6. \A ev \in {"start-requested", "start-succeeded"} :
        Framed(t, Step(t, ev)) /\ Step(t, ev).restart = t.restart
  BY <1>5, StepFrame DEF Events, Same, Framed
<1>7. /\ WellFormed(rt') /\ rt'.proc = gate.proc /\ rt'.stopping = rt.stopping
      /\ rt'.restart = rt.restart
      /\ rt'.state = "active" => rt.state = "active" \/ ~rt.stopping
  BY ZenonT(60), <1>3, <1>4, <1>5, <1>6 DEF Same, Framed
<1>8. GateMoves /\ gate'.pc = pc /\ gate'.proc = gate.proc
  BY ZenonT(60), <1>1, <1>2, <1>3, GateUpdate DEF StateOK
<1>9. /\ UNCHANGED <<closed, plan, stop, tree, nproc>>
      /\ NativeOK' /\ PendingOK' /\ RecoveryOK'
  BY SMTT(60), <1>2, <1>7
     DEF AdoptProcess, native, pending, StateOK, NativeOK, PendingOK, RecoveryOK
<1>10. Ownership'
  BY SMTT(60), <1>1, <1>2, <1>7, <1>8, <1>9
  DEF IInv, Ownership, LiveTreeOwned, HoldPcs, WaitPcs, CreatePcs, StateOK, NativeOK
<1> QED
  BY <1>1, <1>7, <1>8, <1>9, <1>10, HolderStep DEF RecordMoves

(* The cleanup of an overtaken creation keeps the invariant.                 *)
LEMMA LateStep ==
  ASSUME IInv, LateLaunchCleanup
  PROVE  IInv' /\ StepKeeps
<1>0. PICK ok, closes \in BOOLEAN : LateLaunchCleanup!(ok, closes)
  BY ZenonT(60) DEF LateLaunchCleanup
<1> DEFINE n == CloseNotify(rt, closes)
<1>1. gate.pc = "late" /\ gate.pc \in WaitPcs /\ gate.pc \in HoldPcs
  BY <1>0 DEF WaitPcs, HoldPcs
<1>2. StateOK /\ gate.by \in {"start", "recovery"}
  BY <1>1, StateFacts
<1>3. NativeOK' /\ nproc' = nproc /\ tree' \subseteq tree /\ (ok => gate.proc \notin tree')
  BY <1>0, <1>2, StopNativeFrame DEF StateOK
<1>4. rt' = (IF ok THEN ReleaseProc(n) ELSE Step(n, "start-failed")) /\ Return(TRUE)
  BY ZenonT(60), <1>0
<1>5. Same(rt, n)
  BY <1>2, CloseNotifyFrame DEF StateOK
<1> HIDE DEF n
<1>6. /\ WellFormed(rt') /\ rt'.proc = (IF ok THEN 0 ELSE rt.proc)
      /\ rt'.stopping = rt.stopping /\ rt'.restart = rt.restart
      /\ rt'.state = "active" => rt.state = "active"
  BY <1>4, <1>5, ReleaseProcFrame, StepFrame DEF Same, Framed, Events
<1>7. GateMoves /\ gate'.pc \in {"free", "return"}
  BY ZenonT(60), <1>2, <1>4, ReturnFrame DEF StateOK
<1>8. Ownership'
  BY <1>1, <1>3, <1>6, <1>7, CleanupOwns
<1>9. UNCHANGED <<closed, plan, stop>> /\ PendingOK' /\ RecoveryOK'
  BY <1>0, <1>2, <1>6 DEF pending, StateOK, PendingOK, RecoveryOK
<1> QED
  BY SMTT(60), <1>1, <1>3, <1>6, <1>7, <1>8, <1>9, HolderStep DEF RecordMoves

(* registerStartWait keeps the invariant.                                    *)
LEMMA RegisterStep ==
  ASSUME IInv, RegisterStartWait
  PROVE  IInv' /\ StepKeeps
<1> DEFINE refused == closed \/ rt.stopping
           flag == gate.cancelled \/ refused
<1>1. gate.pc = "register" /\ gate.pc \in WaitPcs /\ gate.pc \in HoldPcs
  BY DEF RegisterStartWait, WaitPcs, HoldPcs
<1>2. StateOK /\ gate.proc = rt.proc
  BY <1>1, StateFacts
<1>3. (~refused) \in BOOLEAN /\ flag \in BOOLEAN
  OBVIOUS
<1>4. rt' = [rt EXCEPT !.startCancel = ~refused]
      /\ gate' = [gate EXCEPT !.pc = "wait", !.cancelled = flag]
  BY DEF RegisterStartWait
<1> HIDE DEF refused, flag
<1>5. Same(rt, rt')
  BY ZenonT(60), <1>2, <1>3, <1>4, FieldFrame DEF StateOK
<1>6. GateMoves /\ gate'.pc = "wait" /\ gate'.proc = gate.proc
  BY ZenonT(60), <1>1, <1>2, <1>3, <1>4, GateUpdate DEF StateOK, WaitPcs
<1>7. /\ UNCHANGED <<closed, plan, stop, tree, nproc>>
      /\ NativeOK' /\ PendingOK' /\ RecoveryOK'
  BY SMTT(60), <1>2, <1>5
     DEF RegisterStartWait, native, pending, StateOK, NativeOK, PendingOK,
                    RecoveryOK, Same, Framed
<1>8. Ownership'
  BY SMTT(60), <1>1, <1>2, <1>5, <1>6, <1>7
  DEF IInv, Ownership, LiveTreeOwned, CreatePcs, Same, Framed
<1> QED
  BY <1>1, <1>5, <1>6, <1>7, <1>8, HolderStep DEF RecordMoves, Same, Framed

(* A failed oneshot wait with its native stop keeps the invariant.           *)
LEMMA OneshotFailedStep ==
  ASSUME IInv, OneshotFailed
  PROVE  IInv' /\ StepKeeps
<1>0. PICK ok \in BOOLEAN : OneshotFailed!(ok)
  BY ZenonT(60) DEF OneshotFailed
<1> DEFINE w == [rt EXCEPT !.startCancel = FALSE, !.terminated = TRUE]
           c == SetCleanup(w, "workload", ~ok)
           r == IF c.stopping THEN c ELSE Step(c, "start-failed")
<1>1. gate.pc = "wait" /\ gate.pc \in WaitPcs /\ gate.pc \in HoldPcs
  BY <1>0 DEF WaitPcs, HoldPcs
<1>2. StateOK /\ gate.by \in {"start", "recovery"}
  BY <1>1, StateFacts
<1>3. NativeOK' /\ nproc' = nproc /\ tree' \subseteq tree /\ (ok => gate.proc \notin tree')
  BY <1>0, <1>2, StopNativeFrame DEF StateOK
<1>4. /\ Return(TRUE) /\ UNCHANGED <<closed, plan, stop>>
      /\ MaybeRestart(r, "failure") \/ (rt' = r /\ recovery' = recovery)
  BY ZenonT(60), <1>0
<1>5. Same(rt, w)
  BY ZenonT(60), <1>2, FieldFrame DEF StateOK
<1> HIDE DEF w
<1>6. Same(w, c)
  BY ZenonT(60), <1>5, SetCleanupFrame DEF Same, Framed, Resources
<1> HIDE DEF c
<1>7. Framed(c, r) /\ r.restart = c.restart /\ (r.state = "active" => c.state = "active")
  BY <1>6, StepFrame DEF Same, Framed, Events
<1> HIDE DEF r
<1>8. /\ Framed(rt, r) /\ r.restart = rt.restart
      /\ r.state = "active" => rt.state = "active"
  BY <1>5, <1>6, <1>7 DEF Same, Framed
<1>9. Framed(rt, rt') /\ (rt'.state = "active" => rt.state = "active") /\ RecoveryOK'
  BY <1>2, <1>4, <1>8, MaybeRestartFrame DEF Framed, StateOK, RecoveryOK
<1>10. GateMoves /\ gate'.pc \in {"free", "return"}
  BY ZenonT(60), <1>2, <1>4, ReturnFrame DEF StateOK
<1>11. Ownership'
  BY <1>1, <1>3, <1>9, <1>10, CleanupOwns DEF Framed
<1>12. gate.proc \in Nat
  BY <1>2 DEF StateOK, Gates
<1>13. PendingOK'
  BY <1>0, <1>2, <1>12 DEF StateOK, PendingOK
<1> QED
  BY SMTT(60), <1>1, <1>3, <1>4, <1>9, <1>10, <1>11, <1>13, HolderStep
     DEF RecordMoves, Framed

(* The exit of a oneshot's main process keeps the invariant.                 *)
LEMMA OneshotExitedStep ==
  ASSUME IInv, OneshotExited
  PROVE  IInv' /\ StepKeeps
<1> DEFINE w == [rt EXCEPT !.startCancel = FALSE]
           k == SetCleanup(w, "workload", TRUE)
<1>1. gate.pc = "wait" /\ gate.pc \in WaitPcs /\ gate.pc \in HoldPcs
  BY DEF OneshotExited, WaitPcs, HoldPcs
<1>2. StateOK /\ gate.by \in {"start", "recovery"} /\ gate.proc = rt.proc
  BY <1>1, StateFacts
<1>3. \/ rt' = w /\ gate' = [gate EXCEPT !.pc = "finish"]
      \/ rt' = (IF k.stopping THEN k ELSE Step(k, "start-failed")) /\ Return(TRUE)
  BY ZenonT(60) DEF OneshotExited
<1>4. Same(rt, w)
  BY ZenonT(60), <1>2, FieldFrame DEF StateOK
<1> HIDE DEF w
<1>5. Same(w, k)
  BY ZenonT(60), <1>4, SetCleanupFrame DEF Same, Framed, Resources
<1> HIDE DEF k
<1>6. /\ Framed(rt, rt') /\ rt'.restart = rt.restart
      /\ rt'.state = "active" => rt.state = "active"
  <2>1. /\ Framed(k, Step(k, "start-failed"))
        /\ Step(k, "start-failed").restart = k.restart
        /\ Step(k, "start-failed").state = "active" => k.state = "active"
    BY <1>4, <1>5, StepFrame DEF Same, Framed, Events
  <2> QED
    BY ZenonT(60), <1>3, <1>4, <1>5, <2>1 DEF Same, Framed
<1>7. GateMoves /\ gate'.pc \in {"finish", "free", "return"}
      /\ (gate'.pc = "finish" => gate'.proc = gate.proc)
  <2>1. CASE gate' = [gate EXCEPT !.pc = "finish"]
    BY ZenonT(60), <1>1, <1>2, <2>1, GateUpdate DEF StateOK, WaitPcs
  <2>2. CASE Return(TRUE)
    BY ZenonT(60), <1>2, <2>2, ReturnFrame DEF StateOK
  <2> QED
    BY ZenonT(60), <1>3, <2>1, <2>2
<1>8. /\ UNCHANGED <<closed, plan, stop, tree, nproc>>
      /\ NativeOK' /\ PendingOK' /\ RecoveryOK'
  BY <1>2, <1>6 DEF OneshotExited, native, pending, StateOK, NativeOK, PendingOK,
                    RecoveryOK, Framed
<1>9. Ownership'
  BY <1>1, <1>2, <1>6, <1>7, <1>8
  DEF IInv, Ownership, LiveTreeOwned, CreatePcs, HoldPcs, WaitPcs, Framed
<1> QED
  BY <1>1, <1>6, <1>7, <1>8, <1>9, HolderStep DEF RecordMoves, Framed

(* completeOneshot with its stop and drain keeps the invariant.              *)
LEMMA OneshotFinishedStep ==
  ASSUME IInv, OneshotFinished
  PROVE  IInv' /\ StepKeeps
<1>0. PICK drains, ok, closes \in BOOLEAN : OneshotFinished!(drains, ok, closes)
  BY ZenonT(60) DEF OneshotFinished
<1> DEFINE j == JournalCompletion(rt, rt.capture, rt.gen, drains)
           n == CloseNotify(j, closes)
           c == IF ok THEN ReleaseProc(n) ELSE SetCleanup(n, "workload", TRUE)
           done == IF RemainAfterExit THEN "active" ELSE "inactive"
           d == PublishStartOutcome(c, done)
<1>1. gate.pc = "finish" /\ gate.pc \in WaitPcs /\ gate.pc \in HoldPcs
  BY ZenonT(60), <1>0 DEF WaitPcs, HoldPcs
<1>2. StateOK /\ gate.by \in {"start", "recovery"}
  BY <1>1, StateFacts
<1>3. NativeOK' /\ nproc' = nproc /\ tree' \subseteq tree /\ (ok => gate.proc \notin tree')
  BY ZenonT(60), <1>0, <1>2, StopNativeFrame DEF StateOK
<1>4. /\ Return(TRUE) \/ Return(FALSE)
      /\ \/ rt' \in {c, Step(c, "start-failed")} /\ recovery' = recovery
         \/ MaybeRestart(d, "success") /\ ~c.stopping
  BY ZenonT(60), <1>0
<1>5. Same(rt, j)
  BY ZenonT(60), <1>2, JournalFrame, FieldFrame DEF StateOK
<1> HIDE DEF j
<1>6. Same(j, n)
  BY SMTT(60), <1>5, CloseNotifyFrame DEF Same, Framed
<1> HIDE DEF n
<1>7. /\ WellFormed(c) /\ c.proc = (IF ok THEN 0 ELSE n.proc) /\ c.stopping = n.stopping
      /\ c.restart = n.restart /\ c.state = n.state
  BY ZenonT(60), <1>6, ReleaseProcFrame, SetCleanupFrame DEF Same, Framed, Resources
<1> HIDE DEF c
<1>8. Framed(c, d) /\ d.restart = c.restart
  BY ZenonT(60), <1>7, PublishFrame
<1> HIDE DEF d
<1>9. /\ WellFormed(rt') /\ rt'.proc = c.proc /\ rt'.stopping = c.stopping
      /\ rt'.state = "active" => c.state = "active" \/ ~c.stopping
      /\ RecoveryOK'
  <2>1. CASE rt' \in {c, Step(c, "start-failed")} /\ recovery' = recovery
    BY <1>2, <1>5, <1>6, <1>7, <2>1, StepFrame
       DEF Same, Framed, Events, StateOK, RecoveryOK
  <2>2. CASE MaybeRestart(d, "success") /\ ~c.stopping
    <3>1. WellFormed(d) /\ (recovery = "wait" => d.restart /\ ~d.stopping)
      BY <1>2, <1>5, <1>6, <1>7, <1>8 DEF Same, Framed, StateOK, RecoveryOK
    <3>2. Framed(d, rt') /\ RecoveryOK'
      BY <1>2, <2>2, <3>1, MaybeRestartFrame DEF StateOK, RecoveryOK
    <3> QED
      BY <1>8, <2>2, <3>2 DEF Framed
  <2> QED
    BY <1>4, <2>1, <2>2
<1>10. /\ rt'.proc = (IF ok THEN 0 ELSE rt.proc) /\ RecordMoves
  BY SMTT(60), <1>5, <1>6, <1>7, <1>9 DEF Same, Framed, RecordMoves
<1>11. GateMoves /\ gate'.pc \in {"free", "return"}
  BY ZenonT(60), <1>2, <1>4, ReturnFrame DEF StateOK
<1>12. Ownership'
  BY <1>1, <1>3, <1>10, <1>11, CleanupOwns
<1>13. UNCHANGED <<closed, plan, stop>> /\ PendingOK'
  BY ZenonT(60), <1>0, <1>2 DEF pending, StateOK, PendingOK
<1> QED
  BY <1>1, <1>3, <1>9, <1>10, <1>11, <1>12, <1>13, HolderStep

(* acceptReadinessFailure keeps the invariant.                               *)
LEMMA ReadinessFailedStep ==
  ASSUME IInv, ReadinessFailed
  PROVE  IInv' /\ StepKeeps
<1> DEFINE t == [rt EXCEPT !.terminated = TRUE]
           r == SetCleanup(t, "workload", TRUE)
<1>1. gate.pc = "ready" /\ gate.pc \in WaitPcs /\ gate.pc \in HoldPcs
  BY DEF ReadinessFailed, WaitPcs, HoldPcs
<1>2. StateOK /\ gate.proc = rt.proc
  BY <1>1, StateFacts
<1>3. /\ rt' = IF r.stopping THEN r ELSE Step(r, "start-failed")
      /\ gate' = [gate EXCEPT !.pc = "unready", !.flag = rt.stopping]
  BY SMTT(60) DEF ReadinessFailed
<1>4. Same(rt, t) /\ rt.stopping \in BOOLEAN
  BY ZenonT(60), <1>2, FieldFrame DEF StateOK
<1> HIDE DEF t
<1>5. Same(t, r)
  BY ZenonT(60), <1>4, SetCleanupFrame DEF Same, Framed, Resources
<1> HIDE DEF r
<1>6. /\ Framed(r, Step(r, "start-failed"))
      /\ Step(r, "start-failed").restart = r.restart
      /\ Step(r, "start-failed").state = "active" => r.state = "active"
  BY <1>5, StepFrame DEF Same, Framed, Events
<1>7. /\ Framed(rt, rt') /\ rt'.restart = rt.restart
      /\ rt'.state = "active" => rt.state = "active"
  BY <1>3, <1>4, <1>5, <1>6 DEF Same, Framed
<1>8. GateMoves /\ gate'.pc = "unready" /\ gate'.proc = gate.proc
  BY ZenonT(60), <1>1, <1>2, <1>3, <1>4, GateUpdate DEF StateOK, WaitPcs
<1>9. /\ UNCHANGED <<closed, plan, stop, tree, nproc>>
      /\ NativeOK' /\ PendingOK' /\ RecoveryOK'
  BY ZenonT(60), <1>2, <1>7
     DEF ReadinessFailed, native, pending, StateOK, NativeOK, PendingOK,
                    RecoveryOK, Framed
<1>10. Ownership'
  BY <1>1, <1>2, <1>7, <1>8, <1>9
  DEF IInv, Ownership, LiveTreeOwned, CreatePcs, Framed
<1> QED
  BY ZenonT(60), <1>1, <1>7, <1>8, <1>9, <1>10, HolderStep DEF RecordMoves, Framed

(* applyReadinessCleanup with its native stop keeps the invariant.           *)
LEMMA ReadinessCleanupStep ==
  ASSUME IInv, ReadinessCleanup
  PROVE  IInv' /\ StepKeeps
<1>0. PICK ok, closes \in BOOLEAN : ReadinessCleanup!(ok, closes)
  BY ZenonT(60) DEF ReadinessCleanup
<1> DEFINE n == CloseNotify(rt, closes)
           r == IF ok THEN ReleaseFailed(n) ELSE n
<1>1. gate.pc = "unready" /\ gate.pc \in WaitPcs /\ gate.pc \in HoldPcs
  BY <1>0 DEF WaitPcs, HoldPcs
<1>2. StateOK /\ gate.by \in {"start", "recovery"}
  BY <1>1, StateFacts
<1>3. NativeOK' /\ nproc' = nproc /\ tree' \subseteq tree /\ (ok => gate.proc \notin tree')
  BY <1>0, <1>2, StopNativeFrame DEF StateOK
<1>4. /\ Return(TRUE) /\ UNCHANGED <<closed, plan, stop>>
      /\ MaybeRestart(r, "failure") \/ (rt' = r /\ recovery' = recovery)
  BY ZenonT(60), <1>0
<1>5. Same(rt, n)
  BY <1>2, CloseNotifyFrame DEF StateOK
<1> HIDE DEF n
<1>6. /\ WellFormed(r) /\ r.proc = (IF ok THEN 0 ELSE n.proc) /\ r.stopping = n.stopping
      /\ r.restart = n.restart /\ r.state = n.state
  BY <1>5, ReleaseFailedFrame DEF Same, Framed
<1> HIDE DEF r
<1>7. /\ WellFormed(rt') /\ rt'.proc = r.proc /\ rt'.stopping = r.stopping
      /\ rt'.state = "active" => r.state = "active"
      /\ RecoveryOK'
  <2>1. recovery = "wait" => r.restart /\ ~r.stopping
    BY <1>2, <1>5, <1>6 DEF Same, Framed, StateOK, RecoveryOK
  <2>2. CASE MaybeRestart(r, "failure")
    BY <1>2, <1>6, <2>1, <2>2, MaybeRestartFrame DEF Framed, StateOK, RecoveryOK
  <2>3. CASE rt' = r /\ recovery' = recovery
    BY SMTT(60), <1>2, <1>6, <2>1, <2>3 DEF StateOK, RecoveryOK
  <2> QED
    BY <1>4, <2>2, <2>3
<1>8. rt'.proc = (IF ok THEN 0 ELSE rt.proc) /\ RecordMoves
  BY SMTT(60), <1>5, <1>6, <1>7 DEF Same, Framed, RecordMoves
<1>9. GateMoves /\ gate'.pc \in {"free", "return"}
  BY ZenonT(60), <1>2, <1>4, ReturnFrame DEF StateOK
<1>10. Ownership'
  BY <1>1, <1>3, <1>8, <1>9, CleanupOwns
<1>11. PendingOK'
  BY <1>0, <1>2 DEF pending, StateOK, PendingOK
<1> QED
  BY <1>1, <1>3, <1>4, <1>7, <1>8, <1>9, <1>10, <1>11, HolderStep

(* acceptProcessActivation keeps the invariant: it is refused once a stop    *)
(* was accepted.                                                             *)
LEMMA ActivateStep ==
  ASSUME IInv, Activate
  PROVE  IInv' /\ StepKeeps
<1> DEFINE s == Step(rt, "start-succeeded")
<1>1. gate.pc \in {"activate", "ready"} /\ gate.pc \in WaitPcs /\ gate.pc \in HoldPcs
  BY DEF Activate, WaitPcs, HoldPcs
<1>2. /\ StateOK /\ Same(rt, rt) /\ gate.by \in {"start", "recovery"}
      /\ gate.proc \in Nat /\ gate.gen \in Nat
  BY <1>1, StateFacts DEF StateOK, Gates
<1>3. PICK a \in {rt, s} :
        /\ rt' \in {a, [a EXCEPT !.watchdog = gate.gen]}
        /\ a = s => ~rt.stopping \/ s = rt
  BY DEF Activate
<1>4. PICK err \in BOOLEAN : Return(err)
  BY ZenonT(60) DEF Activate
<1>5. Framed(rt, s) /\ s.restart = rt.restart
  BY <1>2, StepFrame DEF StateOK, Events
<1> HIDE DEF s
<1>6. Same(a, [a EXCEPT !.watchdog = gate.gen])
  BY ZenonT(60), <1>2, <1>3, <1>5, FieldFrame DEF StateOK, Framed
<1>7. /\ Framed(rt, rt') /\ rt'.restart = rt.restart
      /\ rt'.state = "active" => rt.state = "active" \/ ~rt.stopping
  BY ZenonT(60), <1>2, <1>3, <1>5, <1>6 DEF Same, Framed
<1>8. GateMoves /\ gate'.pc \in {"free", "return"}
  BY <1>2, <1>4, ReturnFrame DEF StateOK
<1>9. /\ UNCHANGED <<closed, plan, stop, tree, nproc>>
      /\ NativeOK' /\ PendingOK' /\ RecoveryOK'
  BY <1>2, <1>7 DEF Activate, native, pending, StateOK, NativeOK, PendingOK,
                    RecoveryOK, Framed
<1>10. Ownership'
  BY ZenonT(60), <1>1, <1>2, <1>7, <1>8, <1>9
  DEF IInv, Ownership, LiveTreeOwned, CreatePcs, HoldPcs, WaitPcs, Framed
<1> QED
  BY <1>1, <1>7, <1>8, <1>9, <1>10, HolderStep DEF RecordMoves, Framed

(* A refused or dropped launch keeps the invariant.                          *)
LEMMA LaunchRefusedStep ==
  ASSUME IInv, LaunchRefused
  PROVE  IInv' /\ StepKeeps
<1>1. gate.pc = "accept"
  BY DEF LaunchRefused
<1>2. StateOK /\ Same(rt, rt) /\ gate.by \in {"start", "recovery"}
  BY <1>1, StateFacts
<1>3. PICK err \in BOOLEAN : Return(err)
  BY ZenonT(60) DEF LaunchRefused
<1>4. GateMoves /\ gate'.pc \in {"free", "return"}
  BY <1>2, <1>3, ReturnFrame DEF StateOK
<1>5. /\ UNCHANGED <<rt, closed, plan, stop, tree, nproc>>
      /\ NativeOK' /\ PendingOK' /\ RecoveryOK'
  BY SMTT(60), <1>2
     DEF LaunchRefused, native, pending, StateOK, NativeOK, PendingOK, RecoveryOK
<1>6. Ownership'
  BY <1>1, <1>4, <1>5
  DEF IInv, Ownership, LiveTreeOwned, CreatePcs, HoldPcs, WaitPcs
<1> QED
  BY <1>1, <1>2, <1>4, <1>5, <1>6, HolderStep DEF RecordMoves, Same, Framed

(* A launch decision records itself in its plan, which goes on running.      *)
LEMMA PlanLaunched ==
  ASSUME plan \in [Starts -> Plans], NEW i \in Starts, NEW g \in Nat,
         \/ plan' = plan
         \/ plan' = [plan EXCEPT ![i].launched = TRUE]
         \/ plan' = [plan EXCEPT ![i].launched = TRUE, ![i].launchGen = g]
  PROVE  plan' \in [Starts -> Plans] /\ \A k \in Starts : plan'[k].pc = plan[k].pc
<1>1. plan' = [plan EXCEPT ![i] = plan'[i]]
  BY DEF Plans
<1>2. plan[i] \in Plans
  OBVIOUS
<1>3. \/ plan'[i] = plan[i]
      \/ plan'[i] = [plan[i] EXCEPT !.launched = TRUE]
      \/ plan'[i] = [plan[i] EXCEPT !.launched = TRUE, !.launchGen = g]
  BY ZenonT(60) DEF Plans
<1>4. plan'[i] \in Plans /\ plan'[i].pc = plan[i].pc
  BY ZenonT(60), <1>2, <1>3 DEF Plans
<1> QED
  BY <1>1, <1>4

(* A launch over the start limit keeps the invariant.                        *)
LEMMA LaunchLimitedStep ==
  ASSUME IInv, LaunchLimited
  PROVE  IInv' /\ StepKeeps
<1>1. gate.pc = "accept" /\ Return(TRUE)
  BY ZenonT(60) DEF LaunchLimited
<1>2. StateOK /\ gate.by \in {"start", "recovery"} /\ (gate.by = "start" => gate.id \in Starts)
  BY <1>1, StateFacts DEF IInv, Places
<1>3. GateMoves /\ gate'.pc \in {"free", "return"}
  BY ZenonT(60), <1>1, <1>2, ReturnFrame DEF StateOK
<1>4. plan' \in [Starts -> Plans] /\ \A i \in Starts : plan'[i].pc = plan[i].pc
  <2>1. CASE gate.by = "start"
    BY <1>2, <2>1, PlanLaunched DEF LaunchLimited, IInv, TypeOK
  <2>2. CASE gate.by # "start"
    BY SMTT(60), <2>2 DEF LaunchLimited, IInv, TypeOK
  <2> QED
    BY <2>1, <2>2
<1>5. /\ RecordMoves /\ rt'.proc = rt.proc /\ (rt'.state = "active" => rt.state = "active")
      /\ RecoveryOK'
  <2>1. CASE gate.by = "start"
    <3>1. rt' = Step(CancelRestart(rt), "main-exited") /\ recovery' = "none"
      BY SMTT(60), <2>1 DEF LaunchLimited, FailStartLimit
    <3>2. Framed(rt, CancelRestart(rt)) /\ CancelRestart(rt).state = rt.state
      BY SMTT(60), <1>2, CancelRestartFrame DEF StateOK
    <3>3. /\ Framed(CancelRestart(rt), rt')
          /\ rt'.state = "active" => CancelRestart(rt).state = "active"
      BY SMTT(60), <3>1, <3>2, StepFrame DEF Framed, Events
    <3> QED
      BY <3>1, <3>2, <3>3 DEF Framed, RecordMoves, RecoveryOK
  <2>2. CASE gate.by # "start"
    <3>1. rt' = Step(rt, "main-exited") /\ recovery' = recovery
      BY <2>2 DEF LaunchLimited, FailStartLimit
    <3> QED
      BY <1>2, <3>1, StepFrame DEF StateOK, Framed, Events, RecordMoves, RecoveryOK
  <2> QED
    BY SMTT(60), <2>1, <2>2
<1>6. /\ UNCHANGED <<closed, stop, tree, nproc>> /\ nproc' >= nproc
      /\ NativeOK' /\ PendingOK'
  BY SMTT(60), <1>2 DEF LaunchLimited, native, pending, StateOK, NativeOK, PendingOK
<1>7. Ownership'
  BY SMTT(60), <1>1, <1>3, <1>5, <1>6
  DEF IInv, Ownership, LiveTreeOwned, CreatePcs, HoldPcs, WaitPcs
<1>8. Places' /\ StopMarks' /\ Sealed' /\ Armed'
  BY SMTT(60), <1>1, <1>3, <1>4, <1>5, <1>6, HolderKeeps
<1>9. TypeOK'
  BY ZenonT(60), <1>3, <1>4, <1>5, <1>6
  DEF IInv, TypeOK, NativeOK, PendingOK, RecoveryOK, RecordMoves, GateMoves, WellFormed
<1> QED
  BY <1>5, <1>6, <1>7, <1>8, <1>9 DEF IInv, StepKeeps, RecordMoves

(* acceptLaunch keeps the invariant: admission is open, so no shutdown       *)
(* worker has passed the gate.                                               *)
LEMMA LaunchAcceptedStep ==
  ASSUME IInv, LaunchAccepted
  PROVE  IInv' /\ StepKeeps
<1>1. gate.pc = "accept"
  BY SMTT(60) DEF LaunchAccepted
<1>2. StateOK /\ gate.by \in {"start", "recovery"} /\ (gate.by = "start" => gate.id \in Starts)
  BY ZenonT(60), <1>1, StateFacts DEF IInv, Places
<1>3. ~closed /\ gate.proc = rt.proc
  BY DEF LaunchAccepted, Verdict
<1> DEFINE q == Readmit(TakeOver(rt), gate.id)
<1>4. Same(rt, TakeOver(rt)) /\ rt.gen + 1 \in Nat
  BY SMTT(60), <1>2, TakeOverFrame DEF StateOK
<1>5. WellFormed(q) /\ q.proc = rt.proc /\ ~q.stopping /\ q.state = rt.state
  BY <1>4, TakeOverFrame DEF Same, Framed
<1>6. /\ gate' \in Gates /\ gate'.by = gate.by /\ gate'.id = gate.id
      /\ gate'.proc = gate.proc
      /\ gate'.pc = IF rt.proc # 0 THEN "evict" ELSE "record"
  BY ZenonT(60), <1>2, <1>4 DEF LaunchAccepted, Gates, StateOK
<1>7. GateMoves
  BY <1>3, <1>6 DEF GateMoves, LaunchPcs, CreatePcs
<1>8. plan' \in [Starts -> Plans] /\ \A i \in Starts : plan'[i].pc = plan[i].pc
  <2>1. CASE gate.by = "start"
    <3>1. plan' = [plan EXCEPT ![gate.id].launched = TRUE, ![gate.id].launchGen = rt.gen + 1]
      BY <2>1 DEF LaunchAccepted
    <3> QED
      BY ZenonT(60), <1>2, <1>4, <2>1, <3>1, PlanLaunched DEF IInv, TypeOK
  <2>2. CASE gate.by # "start"
    BY SMTT(60), <2>2 DEF LaunchAccepted, IInv, TypeOK
  <2> QED
    BY <2>1, <2>2
<1>9. /\ WellFormed(rt') /\ rt'.proc = rt.proc /\ rt'.state = rt.state
      /\ rt'.stopping = rt.stopping \/ ~rt'.stopping
      /\ RecoveryOK'
  <2>1. CASE gate.by = "start"
    <3>1. rt' = CancelRestart(q) /\ recovery' = "none"
      BY <2>1 DEF LaunchAccepted
    <3> HIDE DEF q
    <3> QED
      BY SMTT(60), <1>5, <3>1, CancelRestartFrame DEF Framed, RecoveryOK
  <2>2. CASE gate.by # "start"
    BY SMTT(60), <1>2, <1>4, <2>2 DEF LaunchAccepted, StateOK, RecoveryOK, Same, Framed
  <2> QED
    BY SMTT(60), <2>1, <2>2
<1>10. /\ UNCHANGED <<closed, stop, tree, nproc>> /\ nproc' >= nproc
       /\ NativeOK' /\ PendingOK'
  BY SMTT(60), <1>2 DEF LaunchAccepted, native, pending, StateOK, NativeOK, PendingOK
<1>11. Ownership'
  BY SMTT(60), <1>1, <1>3, <1>6, <1>9, <1>10
  DEF IInv, Ownership, LiveTreeOwned, CreatePcs, HoldPcs, WaitPcs
<1>12. Places' /\ StopMarks' /\ Sealed' /\ Armed'
  BY ZenonT(60), <1>1, <1>7, <1>8, <1>9, <1>10, HolderKeeps
<1>13. TypeOK'
  BY <1>6, <1>8, <1>9, <1>10
  DEF IInv, TypeOK, NativeOK, PendingOK, RecoveryOK, WellFormed
<1> QED
  BY SMTT(60), <1>9, <1>10, <1>11, <1>12, <1>13 DEF IInv, StepKeeps
-----------------------------------------------------------------------------

(* A step that leaves the stop workers alone, creates no process and does    *)
(* not reopen admission disturbs at most the gate, the record and the plans. *)
LEMMA KeepStep ==
  ASSUME IInv, UNCHANGED stop, closed' \in BOOLEAN, closed => closed',
         plan' \in [Starts -> Plans], WellFormed(rt'), gate' \in Gates,
         gate'.pc \in LaunchPcs => gate.pc \in LaunchPcs,
         NativeOK', nproc' = nproc, tree' \subseteq tree, PendingOK', RecoveryOK',
         Places', Ownership', Armed'
  PROVE  IInv'
<1>1. TypeOK'
  BY DEF IInv, TypeOK, NativeOK, PendingOK, RecoveryOK, WellFormed
<1>2. StopMarks'
  BY DEF IInv, StopMarks
<1>3. Sealed'
  <2>1. tree = {} => tree' = {}
    OBVIOUS
  <2> QED
    BY ZenonT(60), <2>1 DEF IInv, Sealed
<1> QED
  BY <1>1, <1>2, <1>3 DEF IInv

(* Completion of a start: applyStartCompletionLocked and its reaper.         *)
LEMMA CompleteFrame ==
  ASSUME NEW i \in Starts, NEW r, WellFormed(r), NEW err \in BOOLEAN,
         CompleteStart(i, r, err), plan \in [Starts -> Plans],
         reaps \subseteq [gen : Nat, proc : Nat]
  PROVE  /\ Framed(r, rt') /\ rt'.restart = r.restart
         /\ rt'.state = "active" => r.state = "active" \/ ~r.stopping
         /\ reaps' \subseteq [gen : Nat, proc : Nat]
         /\ plan' \in [Starts -> Plans] /\ plan'[i].pc = "done"
         /\ \A k \in Starts \ {i} : plan'[k] = plan[k]
<1> DEFINE c == IF CompletionCurrent(r, plan[i]) THEN StartCompletion(r, plan[i], err)
                ELSE r
<1>1. /\ Framed(r, c) /\ c.restart = r.restart
      /\ c.state = "active" => r.state = "active" \/ ~r.stopping
  <2>1. CASE CompletionCurrent(r, plan[i])
    BY <2>1, StartCompletionFrame
  <2>2. CASE ~CompletionCurrent(r, plan[i])
    BY <2>2 DEF Framed
  <2> QED
    BY <2>1, <2>2
<1>2. /\ rt' \in {c, SetCleanup(c, "workload", TRUE)}
      /\ reaps' \in {reaps, reaps \cup {[gen |-> c.gen, proc |-> c.proc]}}
      /\ plan' = [plan EXCEPT ![i] = Retired(TRUE, err)]
  BY ZenonT(60) DEF CompleteStart
<1> HIDE DEF c
<1>3. Same(c, SetCleanup(c, "workload", TRUE)) /\ c.gen \in Nat /\ c.proc \in Nat
  BY ZenonT(60), <1>1, SetCleanupFrame, FieldFrame DEF Framed, Resources
<1>4. /\ Framed(r, rt') /\ rt'.restart = r.restart
      /\ rt'.state = "active" => r.state = "active" \/ ~r.stopping
  BY ZenonT(60), <1>1, <1>2, <1>3 DEF Same, Framed
<1>5. reaps' \subseteq [gen : Nat, proc : Nat]
  BY <1>2, <1>3
<1>6. Retired(TRUE, err) \in Plans /\ Retired(TRUE, err).pc = "done"
  BY ZenonT(60) DEF Retired, NoPlan, Plans
<1> QED
  BY ZenonT(60), <1>2, <1>4, <1>5, <1>6

(* The free gate is at no place of a launch or a cleanup.                    *)
LEMMA NoGateFacts ==
  /\ NoGate \in Gates /\ NoGate.pc = "free" /\ NoGate.by = "none"
  /\ "free" \notin LaunchPcs \cup WaitPcs \cup HoldPcs
BY DEF NoGate, Gates, Workers, StopIds, LaunchPcs, WaitPcs, HoldPcs, CreatePcs

(* The end of a start operation frees its gate.                              *)
LEMMA FinishStart ==
  ASSUME IInv, gate.pc = "return", NEW err \in BOOLEAN, CompleteStart(gate.id, rt, err),
         gate' = NoGate, UNCHANGED <<closed, stop, recovery, watchers, loop, fired,
                                     exits, rearms, native>>
  PROVE  IInv' /\ StepKeeps
<1>1. StateOK /\ gate.id \in Starts /\ plan \in [Starts -> Plans]
      /\ plan[gate.id].pc = "run"
  BY ZenonT(60), StateFacts DEF IInv, Places, TypeOK
<1>2. /\ Framed(rt, rt') /\ rt'.restart = rt.restart
      /\ rt'.state = "active" => rt.state = "active" \/ ~rt.stopping
      /\ reaps' \subseteq [gen : Nat, proc : Nat]
      /\ plan' \in [Starts -> Plans] /\ plan'[gate.id].pc = "done"
      /\ \A k \in Starts \ {gate.id} : plan'[k] = plan[k]
  BY ZenonT(60), <1>1, CompleteFrame DEF StateOK, PendingOK
<1>3. /\ UNCHANGED <<tree, nproc>> /\ NativeOK' /\ PendingOK' /\ RecoveryOK'
  BY ZenonT(60), <1>1, <1>2 DEF native, StateOK, NativeOK, PendingOK, RecoveryOK, Framed
<1>4. Places'
  BY ZenonT(60), <1>2, NoGateFacts DEF IInv, Places
<1>5. Ownership'
  BY ZenonT(60), <1>2, <1>3, NoGateFacts DEF IInv, Ownership, LiveTreeOwned, Framed, LaunchPcs
<1>6. Armed'
  BY SMTT(60), <1>3, NoGateFacts DEF Armed, RecoveryOK
<1>7. IInv'
  BY ZenonT(60), <1>2, <1>3, <1>4, <1>5, <1>6, NoGateFacts, KeepStep
     DEF IInv, TypeOK, Framed
<1> QED
  BY ZenonT(60), <1>2, <1>3, <1>7 DEF StepKeeps, Framed

(* publishOperationStart keeps the invariant.                                *)
LEMMA PublishStep ==
  ASSUME IInv, PublishStart
  PROVE  IInv' /\ StepKeeps
<1>1. gate.flag \in BOOLEAN
  BY DEF IInv, TypeOK, Gates
<1> QED
  BY <1>1, FinishStart DEF PublishStart

(* A start whose publication is refused keeps the invariant.                 *)
LEMMA AbandonStep ==
  ASSUME IInv, AbandonStart
  PROVE  IInv' /\ StepKeeps
<1>1. StateOK /\ Same(rt, rt) /\ gate.pc = "return"
  BY StateFacts DEF AbandonStart
<1>2. CASE OwnsLaunch(gate.id)
  <2>1. /\ gate' = [gate EXCEPT !.pc = "stop"]
        /\ UNCHANGED <<rt, plan, closed, stop, recovery, pending, native>>
    BY <1>2 DEF AbandonStart, pending
  <2>2. gate' \in Gates /\ gate'.pc = "stop" /\ gate'.by = gate.by /\ gate'.id = gate.id
    BY <1>1, <2>1 DEF StateOK, Gates
  <2>3. /\ UNCHANGED <<tree, nproc>> /\ NativeOK' /\ PendingOK' /\ RecoveryOK'
    BY SMTT(60), <1>1, <2>1
       DEF native, pending, StateOK, NativeOK, PendingOK, RecoveryOK
  <2>4. Places'
    BY SMTT(60), <1>1, <2>1, <2>2 DEF IInv, Places, LaunchPcs, WaitPcs, CreatePcs
  <2>5. Ownership'
    BY SMTT(60), <1>1, <2>1, <2>2, <2>3
       DEF IInv, Ownership, LiveTreeOwned, HoldPcs, WaitPcs, CreatePcs
  <2>6. Armed'
    BY SMTT(60), <2>2, <2>3 DEF Armed, RecoveryOK
  <2>7. IInv'
    BY SMTT(60), <1>1, <2>1, <2>2, <2>3, <2>4, <2>5, <2>6, KeepStep
    DEF IInv, TypeOK, Same, Framed, LaunchPcs, CreatePcs
  <2> QED
    BY <2>1, <2>3, <2>7 DEF StepKeeps
<1>3. CASE ~OwnsLaunch(gate.id)
  BY ZenonT(60), <1>1, <1>3, FinishStart DEF AbandonStart
<1> QED
  BY <1>2, <1>3
-----------------------------------------------------------------------------
(* Supervision: the exit watcher, the watchdog, the reaper and recovery.     *)

(* A cleanup under the gate that releases it.                                *)
LEMMA ReleaseStep ==
  ASSUME IInv, gate.pc \in {"watch", "watchdog", "reap"}, gate' = NoGate,
         NEW ok \in BOOLEAN, StopNative(gate.proc, ok),
         WellFormed(rt'), rt'.stopping = rt.stopping, rt'.restart = rt.restart,
         rt'.state = "active" => rt.state = "active",
         rt'.proc = rt.proc \/ (ok /\ rt'.proc = 0),
         UNCHANGED <<closed, plan, stop, recovery>>, PendingOK'
  PROVE  IInv' /\ StepKeeps
<1>1. gate.pc \in HoldPcs
  BY DEF HoldPcs
<1>2. StateOK
  BY ZenonT(60), StateFacts
<1>3. NativeOK' /\ nproc' = nproc /\ tree' \subseteq tree /\ (ok => gate.proc \notin tree')
  BY <1>2, StopNativeFrame DEF StateOK
<1>4. Ownership'
  BY <1>1, <1>3, CleanupOwns, NoGateFacts
<1>5. Places'
  BY ZenonT(60), NoGateFacts DEF IInv, Places
<1>6. RecoveryOK'
  BY <1>2 DEF StateOK, RecoveryOK
<1>7. Armed'
  BY <1>6, NoGateFacts DEF Armed, RecoveryOK
<1>8. IInv'
  BY ZenonT(60), <1>3, <1>4, <1>5, <1>6, <1>7, NoGateFacts, KeepStep DEF IInv, TypeOK
<1> QED
  BY ZenonT(60), <1>3, <1>8 DEF StepKeeps

(* applyProcessExitCleanup keeps the invariant.                              *)
LEMMA WatchCleanupStep ==
  ASSUME IInv, WatchCleanup
  PROVE  IInv' /\ StepKeeps
<1>0. PICK ok, closes \in BOOLEAN : WatchCleanup!(ok, closes)
  BY ZenonT(60) DEF WatchCleanup
<1> DEFINE n == CloseNotify(rt, closes)
           r == IF ok THEN ReleaseProc(n) ELSE n
<1>1. StateOK
  BY SMTT(60), StateFacts
<1>2. /\ rt' \in {r, Step(r, "start-failed")}
      /\ exits' \in {exits, exits \cup {[gen |-> gate.gen, suppressed |-> gate.flag]}}
  BY ZenonT(60), <1>0
<1>3. Same(rt, n)
  BY <1>1, CloseNotifyFrame DEF StateOK
<1> HIDE DEF n
<1>4. /\ WellFormed(r) /\ r.proc = (IF ok THEN 0 ELSE n.proc) /\ r.stopping = n.stopping
      /\ r.restart = n.restart /\ r.state = n.state
  BY SMTT(60), <1>3, ReleaseProcFrame DEF Same, Framed
<1> HIDE DEF r
<1>5. /\ WellFormed(rt') /\ rt'.proc = r.proc /\ rt'.stopping = r.stopping
      /\ rt'.restart = r.restart /\ (rt'.state = "active" => r.state = "active")
  BY <1>2, <1>4, StepFrame DEF Framed, Events
<1>6. gate.gen \in Nat /\ gate.flag \in BOOLEAN
  BY SMTT(60), <1>1 DEF StateOK, Gates
<1>7. PendingOK'
  BY SMTT(60), <1>0, <1>1, <1>2, <1>6 DEF StateOK, PendingOK
<1> QED
  BY ZenonT(60), <1>0, <1>3, <1>4, <1>5, <1>7, ReleaseStep DEF Same, Framed

(* applyWatchdogCleanup keeps the invariant.                                 *)
LEMMA WatchdogCleanupStep ==
  ASSUME IInv, WatchdogCleanup
  PROVE  IInv' /\ StepKeeps
<1>0. PICK ok, closes \in BOOLEAN : WatchdogCleanup!(ok, closes)
  BY ZenonT(60) DEF WatchdogCleanup
<1> DEFINE n == CloseNotify(rt, closes)
<1>1. StateOK
  BY StateFacts
<1>2. /\ rt' = IF ok THEN ReleaseFailed(n) ELSE n
      /\ rearms' \in {rearms, rearms \cup {gate.gen}}
  BY ZenonT(60), <1>0
<1>3. Same(rt, n)
  BY <1>1, CloseNotifyFrame DEF StateOK
<1> HIDE DEF n
<1>4. /\ WellFormed(rt') /\ rt'.proc = (IF ok THEN 0 ELSE n.proc)
      /\ rt'.stopping = n.stopping /\ rt'.restart = n.restart /\ rt'.state = n.state
  BY ZenonT(60), <1>2, <1>3, ReleaseFailedFrame DEF Same, Framed
<1>5. gate.gen \in Nat
  BY SMTT(60), <1>1 DEF StateOK, Gates
<1>6. PendingOK'
  BY ZenonT(60), <1>0, <1>1, <1>2, <1>5 DEF StateOK, PendingOK
<1> QED
  BY ZenonT(60), <1>0, <1>3, <1>4, <1>6, ReleaseStep DEF Same, Framed

(* applyFailedProcessCleanup keeps the invariant.                            *)
LEMMA ReapCleanupStep ==
  ASSUME IInv, ReapCleanup
  PROVE  IInv' /\ StepKeeps
<1>0. PICK ok \in BOOLEAN : ReapCleanup!(ok)
  BY DEF ReapCleanup
<1>1. StateOK
  BY StateFacts
<1>2. /\ WellFormed(rt') /\ rt'.proc = (IF ok THEN 0 ELSE rt.proc)
      /\ rt'.stopping = rt.stopping /\ rt'.restart = rt.restart /\ rt'.state = rt.state
  BY <1>0, <1>1, ReleaseProcFrame DEF StateOK
<1>3. PendingOK'
  BY <1>0, <1>1 DEF StateOK, PendingOK, pending
<1> QED
  BY <1>0, <1>2, <1>3, ReleaseStep

(* A step that leaves the gate and the processes alone.                      *)
LEMMA QuietStep ==
  ASSUME IInv, UNCHANGED <<closed, plan, stop, gate, native>>,
         Framed(rt, rt'), rt.restart => rt'.restart,
         rt'.state = "active" => rt.state = "active" \/ ~rt.stopping,
         RecoveryOK', PendingOK'
  PROVE  IInv' /\ StepKeeps
<1>1. StateOK
  BY StateFacts
<1>2. UNCHANGED <<tree, nproc>> /\ NativeOK'
  BY <1>1 DEF native, StateOK, NativeOK
<1>3. Places'
  BY ZenonT(60) DEF IInv, Places
<1>4. Ownership'
  BY ZenonT(60), <1>2 DEF IInv, Ownership, LiveTreeOwned, Framed
<1>5. Armed'
  BY ZenonT(60) DEF IInv, Armed, RecoveryOK, Framed
<1>6. IInv'
  BY ZenonT(60), <1>1, <1>2, <1>3, <1>4, <1>5, KeepStep DEF IInv, TypeOK, Framed
<1> QED
  BY ZenonT(60), <1>2, <1>6 DEF StepKeeps, Framed

(* applyProcessExit keeps the invariant: it recovers only a unit nobody      *)
(* stopped.                                                                  *)
LEMMA ProcessExitedStep ==
  ASSUME IInv, NEW e \in exits, ProcessExited(e)
  PROVE  IInv' /\ StepKeeps
<1>0. PICK kind \in {"success", "failure"} : ProcessExited(e)!(kind)
  BY ZenonT(60) DEF ProcessExited
<1>1. StateOK /\ Same(rt, rt)
  BY SMTT(60), StateFacts
<1>2. \/ rt' \in {rt, Step(rt, "main-exited")} /\ recovery' = recovery
      \/ MaybeRestart(rt, kind)
  BY ZenonT(60), <1>0
<1>3. /\ Framed(rt, Step(rt, "main-exited"))
      /\ Step(rt, "main-exited").restart = rt.restart
      /\ Step(rt, "main-exited").state = "active" => rt.state = "active"
  BY ZenonT(60), <1>1, StepFrame DEF StateOK, Events
<1>4. /\ Framed(rt, rt') /\ (rt.restart => rt'.restart) /\ RecoveryOK'
      /\ rt'.state = "active" => rt.state = "active"
  <2>1. CASE rt' \in {rt, Step(rt, "main-exited")} /\ recovery' = recovery
    BY SMTT(60), <1>1, <1>3, <2>1 DEF StateOK, RecoveryOK, Same, Framed
  <2>2. CASE MaybeRestart(rt, kind)
    BY SMTT(60), <1>1, <2>2, MaybeRestartFrame DEF StateOK, RecoveryOK
  <2> QED
    BY SMTT(60), <1>2, <2>1, <2>2
<1>5. PendingOK'
  BY SMTT(60), <1>0, <1>1 DEF StateOK, PendingOK
<1> QED
  BY ZenonT(60), <1>0, <1>4, <1>5, QuietStep

(* The watchdog's timeout keeps the invariant.                               *)
LEMMA WatchdogFireStep ==
  ASSUME IInv, WatchdogFire
  PROVE  IInv' /\ StepKeeps
<1>1. StateOK /\ Same(rt, rt)
  BY StateFacts
<1>2. PendingOK' /\ RecoveryOK'
  BY SMTT(60), <1>1 DEF WatchdogFire, StateOK, PendingOK, RecoveryOK
<1> QED
  BY <1>1, <1>2, QuietStep DEF WatchdogFire, Same

(* The watchdog's late recovery keeps the invariant: acceptRecovery checks   *)
(* the generation again.                                                     *)
LEMMA WatchdogRestartStep ==
  ASSUME IInv, NEW g \in rearms, WatchdogRestart(g)
  PROVE  IInv' /\ StepKeeps
<1>1. StateOK /\ g \in Nat /\ rt.restart \in BOOLEAN
  BY ZenonT(60), StateFacts, FieldFrame DEF StateOK, PendingOK
<1>2. /\ Framed(rt, rt') /\ (rt'.state = "active" => rt.state = "active")
      /\ rt'.restart = (rt.restart \/ Recovers(rt, g))
      /\ Recovers(rt, g) => ~rt.stopping
  BY SMTT(60), <1>1, AcceptRecoveryFrame DEF WatchdogRestart, StateOK
<1>3. RecoveryOK'
  BY ZenonT(60), <1>1, <1>2 DEF WatchdogRestart, StateOK, RecoveryOK, Framed
<1>4. PendingOK'
  BY <1>1 DEF WatchdogRestart, StateOK, PendingOK
<1> QED
  BY SMTT(60), <1>1, <1>2, <1>3, <1>4, QuietStep DEF WatchdogRestart

=============================================================================
