------------------------ MODULE UnitLifecycleProofs -------------------------
(* Those who take the gate, the requests and the stop workers preserve the   *)
(* invariant; the theorems about UnitLifecycle, for every configuration, any *)
(* number of starts and stops, and any interleaving.                         *)
EXTENDS UnitLifecycleInvariant

(* The watcher, the watchdog and the reaper capture the record's process     *)
(* when they take the gate.                                                  *)
LEMMA TakeStep ==
  ASSUME IInv, gate = NoGate, NEW by \in {"watch", "watchdog", "reap"},
         NEW g \in Nat, NEW flag \in BOOLEAN,
         \/ gate' = [NoGate EXCEPT !.by = by, !.pc = by, !.gen = g, !.proc = rt.proc,
                                   !.flag = flag]
         \/ gate' = [NoGate EXCEPT !.by = by, !.pc = by, !.gen = g, !.proc = rt.proc],
         Framed(rt, rt'), rt'.restart = rt.restart,
         rt'.state = "active" => rt.state = "active",
         UNCHANGED <<closed, plan, stop, recovery, native>>, PendingOK'
  PROVE  IInv' /\ StepKeeps
<1>1. StateOK /\ rt.proc \in Nat
  BY ZenonT(60), StateFacts, FieldFrame DEF StateOK
<1>2. gate' \in Gates /\ gate'.by = by /\ gate'.pc = by /\ gate'.proc = rt.proc
  BY ZenonT(60), <1>1 DEF NoGate, Gates, Workers, StopIds
<1>3. UNCHANGED <<tree, nproc>> /\ NativeOK' /\ RecoveryOK'
  BY <1>1 DEF native, StateOK, NativeOK, RecoveryOK, Framed
<1>4. Places'
  BY <1>2 DEF IInv, Places, LaunchPcs, CreatePcs, WaitPcs
<1>5. Ownership'
  BY <1>2, <1>3, NoGateFacts DEF IInv, Ownership, LiveTreeOwned, CreatePcs, Framed
<1>6. Armed'
  BY <1>2, <1>3 DEF Armed, RecoveryOK
<1>7. by \notin LaunchPcs
  BY DEF LaunchPcs, CreatePcs
<1>8. IInv'
  BY <1>2, <1>3, <1>4, <1>5, <1>6, <1>7, KeepStep DEF IInv, TypeOK, Framed
<1> QED
  BY <1>3, <1>8 DEF StepKeeps, Framed

(* acceptProcessExitCleanup under the gate keeps the invariant.              *)
LEMMA WatchGateStep ==
  ASSUME IInv, NEW p \in watchers, WatchGate(p)
  PROVE  IInv' /\ StepKeeps
<1> DEFINE t == [rt EXCEPT !.terminated = FALSE, !.watchdog = 0]
           flag == rt.stopping \/ rt.terminated
<1>1. StateOK /\ Same(rt, rt) /\ rt.gen \in Nat
  BY ZenonT(60), StateFacts, FieldFrame DEF StateOK
<1>2. PendingOK' /\ UNCHANGED <<closed, plan, stop, recovery, native>> /\ gate = NoGate
  BY <1>1 DEF WatchGate, StateOK, PendingOK
<1>3. CASE rt.proc = p /\ rt.cleanup = {}
  <2>1. /\ rt' = SetCleanup(t, "workload", TRUE)
        /\ gate' = [NoGate EXCEPT !.by = "watch", !.pc = "watch", !.gen = rt.gen,
                                  !.proc = rt.proc, !.flag = flag]
    BY <1>3 DEF WatchGate
  <2>2. flag \in BOOLEAN
    BY SMTT(60)
  <2>3. Same(rt, t)
    BY ZenonT(60), <1>1, FieldFrame DEF StateOK
  <2> HIDE DEF t, flag
  <2>4. Same(t, rt')
    BY ZenonT(60), <2>1, <2>3, SetCleanupFrame DEF Same, Framed, Resources
  <2> QED
    BY ZenonT(60), <1>1, <1>2, <2>1, <2>2, <2>3, <2>4, TakeStep DEF Same, Framed
<1>4. CASE ~(rt.proc = p /\ rt.cleanup = {})
  <2>1. UNCHANGED <<rt, gate>> /\ RecoveryOK'
    BY ZenonT(60), <1>1, <1>2, <1>4 DEF WatchGate, StateOK, RecoveryOK
  <2> QED
    BY <1>1, <1>2, <2>1, QuietStep DEF Same
<1> QED
  BY <1>3, <1>4

(* acceptWatchdogFailure under the gate keeps the invariant.                 *)
LEMMA WatchdogGateStep ==
  ASSUME IInv, NEW g \in fired, WatchdogGate(g)
  PROVE  IInv' /\ StepKeeps
<1> DEFINE t == [rt EXCEPT !.terminated = TRUE, !.watchdog = 0]
           w == Step(t, "watchdog-failed")
           on == rt.proc # 0
<1>1. StateOK /\ Same(rt, rt) /\ g \in Nat
  BY StateFacts DEF StateOK, PendingOK
<1>2. PendingOK' /\ UNCHANGED <<closed, plan, stop, recovery, native>> /\ gate = NoGate
  BY <1>1 DEF WatchdogGate, StateOK, PendingOK
<1>3. CASE UNCHANGED <<rt, gate>>
  <2>1. RecoveryOK'
    BY SMTT(60), <1>1, <1>2, <1>3 DEF StateOK, RecoveryOK
  <2> QED
    BY SMTT(60), <1>1, <1>2, <1>3, <2>1, QuietStep DEF Same
<1>4. CASE ~UNCHANGED <<rt, gate>>
  <2>1. /\ rt' = SetCleanup(w, "workload", on)
        /\ gate' = [NoGate EXCEPT !.by = "watchdog", !.pc = "watchdog", !.gen = g,
                                  !.proc = rt.proc]
    BY <1>4 DEF WatchdogGate
  <2>2. on \in BOOLEAN
    BY SMTT(60)
  <2>3. Same(rt, t)
    BY ZenonT(60), <1>1, FieldFrame DEF StateOK
  <2> HIDE DEF t, on
  <2>4. Framed(t, w) /\ w.restart = t.restart /\ (w.state = "active" => t.state = "active")
    BY <2>3, StepFrame DEF Same, Framed, Events
  <2> HIDE DEF w
  <2>5. Same(w, rt')
    BY SMTT(60), <2>1, <2>2, <2>4, SetCleanupFrame DEF Framed, Resources
  <2> QED
    BY ZenonT(60), <1>1, <1>2, <2>1, <2>3, <2>4, <2>5, TakeStep DEF Same, Framed
<1> QED
  BY <1>3, <1>4

(* acceptFailedProcessCleanup under the gate keeps the invariant.            *)
LEMMA ReapGateStep ==
  ASSUME IInv, NEW e \in reaps, ReapGate(e)
  PROVE  IInv' /\ StepKeeps
<1>1. StateOK /\ Same(rt, rt) /\ e.gen \in Nat
  BY StateFacts DEF StateOK, PendingOK
<1>2. PendingOK' /\ UNCHANGED <<rt, closed, plan, stop, recovery, native>> /\ gate = NoGate
  BY SMTT(60), <1>1 DEF ReapGate, StateOK, PendingOK
<1>3. CASE ~closed /\ e.gen = rt.gen /\ e.proc = rt.proc
  <2>1. gate' = [NoGate EXCEPT !.by = "reap", !.pc = "reap", !.gen = e.gen,
                               !.proc = rt.proc]
    BY SMTT(60), <1>3 DEF ReapGate
  <2> QED
    BY ZenonT(60), <1>1, <1>2, <2>1, TakeStep DEF Same
<1>4. CASE ~(~closed /\ e.gen = rt.gen /\ e.proc = rt.proc)
  <2>1. gate' = gate /\ RecoveryOK'
    BY SMTT(60), <1>1, <1>2, <1>4 DEF ReapGate, StateOK, RecoveryOK
  <2> QED
    BY SMTT(60), <1>1, <1>2, <2>1, QuietStep DEF Same
<1> QED
  BY SMTT(60), <1>3, <1>4
-----------------------------------------------------------------------------
(* Requests: admission, cancellation, rejection and the gate.                *)

(* The admission of a start keeps the invariant.                             *)
LEMMA StartAdmitStep ==
  ASSUME IInv, NEW i \in Starts, StartAdmit(i)
  PROVE  IInv' /\ StepKeeps
<1> DEFINE j == Type = "oneshot" /\ rt.state = "activating" /\ rt.sub = "start"
           q == [plan[i] EXCEPT !.pc = "gate", !.stopEpoch = rt.stopEpoch,
                                !.gen = rt.gen, !.join = j]
<1>1. StateOK /\ Same(rt, rt) /\ plan \in [Starts -> Plans] /\ plan[i].pc = "idle"
  BY SMTT(60), StateFacts DEF StartAdmit, IInv, TypeOK
<1>2. rt.stopEpoch \in Nat /\ rt.gen \in Nat /\ j \in BOOLEAN
  BY <1>1 DEF StateOK, WellFormed, Records
<1>3. plan' = [plan EXCEPT ![i] = q]
  BY DEF StartAdmit
<1> HIDE DEF j
<1>4. q \in Plans /\ q.pc = "gate"
  BY ZenonT(60), <1>1, <1>2 DEF Plans
<1> HIDE DEF q
<1>5. /\ plan' \in [Starts -> Plans] /\ plan'[i].pc = "gate"
      /\ \A k \in Starts \ {i} : plan'[k] = plan[k]
  BY <1>1, <1>3, <1>4
<1>6. /\ UNCHANGED <<rt, closed, stop, gate, tree, nproc>>
      /\ NativeOK' /\ PendingOK' /\ RecoveryOK'
  BY <1>1 DEF StartAdmit, native, pending, StateOK, NativeOK, PendingOK, RecoveryOK
<1>7. Places'
  BY <1>1, <1>5, <1>6 DEF IInv, Places
<1>8. Ownership' /\ Armed'
  BY <1>6 DEF IInv, Ownership, LiveTreeOwned, Armed, RecoveryOK
<1>9. IInv'
  BY <1>1, <1>5, <1>6, <1>7, <1>8, KeepStep DEF IInv, TypeOK, Same, Framed
<1> QED
  BY SMTT(60), <1>6, <1>9 DEF StepKeeps

(* applyStartRejection keeps the invariant.                                  *)
LEMMA StartRejectedStep ==
  ASSUME IInv, NEW i \in Starts, StartRejected(i)
  PROVE  IInv' /\ StepKeeps
<1>1. /\ StateOK /\ Same(rt, rt) /\ plan \in [Starts -> Plans] /\ plan[i].pc = "gate"
      /\ UNCHANGED <<closed, stop, gate, recovery, watchers, loop, fired, exits,
                     rearms, native>>
  BY SMTT(60), StateFacts DEF StartRejected, IInv, TypeOK
<1>2. /\ Framed(rt, rt') /\ rt'.restart = rt.restart
      /\ rt'.state = "active" => rt.state = "active" \/ ~rt.stopping
      /\ reaps' \subseteq [gen : Nat, proc : Nat]
      /\ plan' \in [Starts -> Plans] /\ plan'[i].pc = "done"
      /\ \A k \in Starts \ {i} : plan'[k] = plan[k]
  <2>1. CASE plan[i].gen = rt.gen
    BY ZenonT(60), <1>1, <2>1, CompleteFrame DEF StartRejected, StateOK, PendingOK
  <2>2. CASE plan[i].gen # rt.gen
    <3>1. plan' = [plan EXCEPT ![i] = Retired(FALSE, TRUE)] /\ UNCHANGED <<rt, reaps>>
      BY ZenonT(60), <2>2 DEF StartRejected
    <3>2. Retired(FALSE, TRUE) \in Plans /\ Retired(FALSE, TRUE).pc = "done"
      BY ZenonT(60) DEF Retired, NoPlan, Plans
    <3> QED
      BY ZenonT(60), <1>1, <3>1, <3>2 DEF Same, StateOK, PendingOK
  <2> QED
    BY SMTT(60), <2>1, <2>2
<1>3. UNCHANGED <<tree, nproc>> /\ NativeOK' /\ PendingOK' /\ RecoveryOK'
  BY <1>1, <1>2 DEF native, StateOK, NativeOK, PendingOK, RecoveryOK, Framed
<1>4. Places'
  BY SMTT(60), <1>1, <1>2 DEF IInv, Places
<1>5. Ownership' /\ Armed'
  BY SMTT(60), <1>1, <1>2, <1>3 DEF IInv, Ownership, LiveTreeOwned, Armed,
     RecoveryOK, Framed
<1>6. IInv'
  BY ZenonT(60), <1>1, <1>2, <1>3, <1>4, <1>5, KeepStep DEF IInv, TypeOK, StateOK, Framed
<1> QED
  BY SMTT(60), <1>2, <1>3, <1>6 DEF StepKeeps, Framed

(* A launch takes the gate and observes the unit.                            *)
LEMMA TakeGateFrame ==
  ASSUME gate = NoGate, rt.proc \in Nat, NEW by \in {"start", "recovery"},
         NEW id \in Workers, NEW g \in Nat, TakeGate(by, id, g)
  PROVE  /\ gate' \in Gates /\ gate'.by = by /\ gate'.id = id /\ gate'.pc = "accept"
         /\ ~gate'.cancelled
<1> DEFINE flag == ~closed /\ rt.cleanup = {} /\ rt.proc \in main
<1>1. gate' = [NoGate EXCEPT !.by = by, !.id = id, !.pc = "accept", !.gen = g,
                             !.proc = rt.proc, !.flag = flag]
  BY DEF TakeGate
<1>2. flag \in BOOLEAN
  OBVIOUS
<1> HIDE DEF flag
<1> QED
  BY ZenonT(60), <1>1, <1>2 DEF NoGate, Gates

(* A start that takes the gate keeps the invariant.                          *)
LEMMA StartGateStep ==
  ASSUME IInv, NEW i \in Starts, StartGate(i)
  PROVE  IInv' /\ StepKeeps
<1>1. /\ StateOK /\ Same(rt, rt) /\ plan \in [Starts -> Plans] /\ plan[i].pc = "gate"
      /\ gate = NoGate /\ rt.proc \in Nat /\ i \in Workers
      /\ UNCHANGED <<rt, closed, stop, recovery, pending, native>>
  BY ZenonT(60), StateFacts, FieldFrame DEF StartGate, IInv, TypeOK, StateOK, Workers
<1>2. /\ gate' \in Gates /\ gate'.by = "start" /\ gate'.id = i /\ gate'.pc = "accept"
  BY SMTT(60), <1>1, TakeGateFrame DEF StartGate
<1>3. /\ plan' \in [Starts -> Plans] /\ plan'[i].pc = "run"
      /\ \A k \in Starts \ {i} : plan'[k] = plan[k]
  <2> DEFINE q == [plan[i] EXCEPT !.pc = "run"]
  <2>1. plan' = [plan EXCEPT ![i] = q]
    BY DEF StartGate
  <2>2. q \in Plans /\ q.pc = "run"
    BY SMTT(60), <1>1 DEF Plans
  <2> HIDE DEF q
  <2> QED
    BY <1>1, <2>1, <2>2
<1>4. UNCHANGED <<tree, nproc>> /\ NativeOK' /\ PendingOK' /\ RecoveryOK'
  BY SMTT(60), <1>1 DEF native, pending, StateOK, NativeOK, PendingOK, RecoveryOK
<1>5. Places'
  BY SMTT(60), <1>1, <1>2, <1>3 DEF IInv, Places
<1>6. Ownership'
  BY SMTT(60), <1>1, <1>2, <1>4, NoGateFacts
  DEF IInv, Ownership, LiveTreeOwned, CreatePcs, HoldPcs, WaitPcs
<1>7. Armed'
  BY SMTT(60), <1>2, <1>4 DEF Armed, RecoveryOK
<1>8. IInv'
  BY SMTT(60), <1>1, <1>2, <1>3, <1>4, <1>5, <1>6, <1>7, KeepStep
  DEF IInv, TypeOK, Same, Framed, LaunchPcs, CreatePcs
<1> QED
  BY <1>1, <1>4, <1>8 DEF StepKeeps

(* A recovery that takes the gate keeps the invariant: it is armed then.     *)
LEMMA RecoveryGateStep ==
  ASSUME IInv, RecoveryGate
  PROVE  IInv' /\ StepKeeps
<1>1. /\ StateOK /\ Same(rt, rt) /\ gate = NoGate /\ rt.proc \in Nat
      /\ Shutdown \in Workers /\ recovery = "wait" /\ recovery' = "none"
      /\ UNCHANGED <<rt, closed, plan, stop, pending, native>>
  BY ZenonT(60), StateFacts, FieldFrame DEF RecoveryGate, StateOK, Workers, StopIds
<1>2. rt.restartGen \in Nat
  BY SMTT(60), <1>1 DEF StateOK, WellFormed, Records
<1>3. /\ gate' \in Gates /\ gate'.by = "recovery" /\ gate'.pc = "accept"
  BY SMTT(60), <1>1, <1>2, TakeGateFrame DEF RecoveryGate
<1>4. UNCHANGED <<tree, nproc>> /\ NativeOK' /\ PendingOK' /\ RecoveryOK'
  BY SMTT(60), <1>1 DEF native, pending, StateOK, NativeOK, PendingOK, RecoveryOK
<1>5. Places'
  BY SMTT(60), <1>1, <1>3 DEF IInv, Places
<1>6. Ownership'
  BY SMTT(60), <1>1, <1>3, <1>4, NoGateFacts
  DEF IInv, Ownership, LiveTreeOwned, CreatePcs, HoldPcs, WaitPcs
<1>7. Armed'
  BY SMTT(60), <1>1 DEF Armed, StateOK, RecoveryOK
<1>8. IInv'
  BY SMTT(60), <1>1, <1>3, <1>4, <1>5, <1>6, <1>7, KeepStep
  DEF IInv, TypeOK, Same, Framed, LaunchPcs, CreatePcs
<1> QED
  BY SMTT(60), <1>1, <1>4, <1>8 DEF StepKeeps

(* startCancel and restartCancel reach the gate's holder.                    *)
LEMMA FireFrame ==
  ASSUME gate \in Gates, gate' = FireCancels
  PROVE  /\ gate' \in Gates /\ gate'.by = gate.by /\ gate'.id = gate.id
         /\ gate'.pc = gate.pc /\ gate'.proc = gate.proc
         /\ gate.cancelled => gate'.cancelled
         /\ gate.by = "recovery" /\ rt.restart => gate'.cancelled
<1> DEFINE c == gate.cancelled \/ rt.startCancel \/ (gate.by = "recovery" /\ rt.restart)
<1>1. gate' = [gate EXCEPT !.cancelled = c] /\ c \in BOOLEAN
  BY SMTT(60) DEF FireCancels
<1>2. (gate.cancelled => c) /\ (gate.by = "recovery" /\ rt.restart => c)
  BY SMTT(60)
<1> HIDE DEF c
<1> QED
  BY SMTT(60), <1>1, <1>2 DEF Gates

(* Stop precedence: a step that suspends the unit and fires the cancels.     *)
LEMMA SuspendKeeps ==
  ASSUME IInv, gate' = FireCancels, recovery' = "none", rt'.proc = rt.proc,
         UNCHANGED <<tree, nproc>>
  PROVE  gate' \in Gates /\ gate'.pc = gate.pc /\ Ownership' /\ Armed' /\ RecoveryOK'
<1>1. /\ gate' \in Gates /\ gate'.by = gate.by /\ gate'.id = gate.id
      /\ gate'.pc = gate.pc /\ gate'.proc = gate.proc
      /\ gate.cancelled => gate'.cancelled
      /\ gate.by = "recovery" /\ rt.restart => gate'.cancelled
  BY SMTT(60), FireFrame DEF IInv, TypeOK
<1>2. Ownership'
  BY SMTT(60), <1>1 DEF IInv, Ownership, LiveTreeOwned
<1>3. Armed'
  BY SMTT(60), <1>1 DEF IInv, Armed
<1> QED
  BY SMTT(60), <1>1, <1>2, <1>3 DEF RecoveryOK

(* CancelOperation keeps the invariant: it disarms before it returns.        *)
LEMMA CancelOperationStep ==
  ASSUME IInv, NEW i \in Starts, CancelOperation(i)
  PROVE  IInv' /\ StepKeeps
<1>1. /\ StateOK /\ Same(rt, rt) /\ plan \in [Starts -> Plans]
      /\ UNCHANGED <<closed, stop, pending, native>>
  BY SMTT(60), StateFacts DEF CancelOperation, IInv, TypeOK
<1>2. plan' \in [Starts -> Plans] /\ \A k \in Starts : plan'[k].pc = plan[k].pc
  <2> DEFINE q == [plan[i] EXCEPT !.cancelled = TRUE]
  <2>1. plan' = [plan EXCEPT ![i] = q]
    BY DEF CancelOperation
  <2>2. q \in Plans /\ q.pc = plan[i].pc
    BY ZenonT(60), <1>1 DEF Plans
  <2> HIDE DEF q
  <2> QED
    BY SMTT(60), <1>1, <2>1, <2>2
<1>3. UNCHANGED <<tree, nproc>> /\ NativeOK' /\ PendingOK'
  BY <1>1 DEF native, pending, StateOK, NativeOK, PendingOK
<1>4. CASE CancelsMember(i)
  <2>1. rt' = CancelMember(rt) /\ gate' = FireCancels /\ recovery' = "none"
    BY <1>4 DEF CancelOperation
  <2>2. WellFormed(rt') /\ rt'.proc = rt.proc /\ rt'.stopping /\ rt'.state = rt.state
    BY ZenonT(60), <1>1, <2>1, SuspendFrame DEF StateOK
  <2>3. gate' \in Gates /\ gate'.pc = gate.pc /\ Ownership' /\ Armed' /\ RecoveryOK'
    BY SMTT(60), <1>3, <2>1, <2>2, SuspendKeeps
  <2>4. gate'.by = gate.by /\ gate'.id = gate.id
    BY SMTT(60), <1>1, <2>1, FireFrame DEF StateOK
  <2>5. Places'
    BY SMTT(60), <1>1, <1>2, <2>3, <2>4 DEF IInv, Places
  <2>6. IInv'
    BY ZenonT(60), <1>1, <1>2, <1>3, <2>2, <2>3, <2>5, KeepStep DEF IInv, TypeOK
  <2> QED
    BY ZenonT(60), <1>3, <2>2, <2>6 DEF StepKeeps
<1>5. CASE ~CancelsMember(i)
  <2>1. UNCHANGED <<rt, gate, recovery>>
    BY SMTT(60), <1>5 DEF CancelOperation
  <2>2. Places'
    BY SMTT(60), <1>1, <1>2, <2>1 DEF IInv, Places
  <2>3. Ownership' /\ Armed' /\ RecoveryOK'
    BY SMTT(60), <1>1, <1>3, <2>1
       DEF IInv, Ownership, LiveTreeOwned, Armed, StateOK, RecoveryOK
  <2>4. IInv'
    BY ZenonT(60), <1>1, <1>2, <1>3, <2>1, <2>2, <2>3, KeepStep
       DEF IInv, TypeOK, Same, Framed
  <2> QED
    BY SMTT(60), <1>3, <2>1, <2>4 DEF StepKeeps
<1> QED
  BY SMTT(60), <1>4, <1>5

(* sealShutdownLocked keeps the invariant.                                   *)
LEMMA SealStep ==
  ASSUME IInv, Seal
  PROVE  IInv' /\ StepKeeps
<1>1. /\ StateOK /\ plan \in [Starts -> Plans] /\ closed' = TRUE
      /\ gate' = FireCancels /\ recovery' = "none"
      /\ UNCHANGED <<stop, pending, native>>
  BY StateFacts DEF Seal, IInv, TypeOK
<1>2. plan' \in [Starts -> Plans] /\ \A k \in Starts : plan'[k].pc = plan[k].pc
  <2>1. \A k \in Starts : /\ [plan[k] EXCEPT !.cancelled = TRUE] \in Plans
                          /\ [plan[k] EXCEPT !.cancelled = TRUE].pc = plan[k].pc
    BY ZenonT(60), <1>1 DEF Plans
  <2> QED
    BY <1>1, <2>1 DEF Seal
<1>3. UNCHANGED <<tree, nproc>> /\ NativeOK' /\ PendingOK'
  BY <1>1 DEF native, pending, StateOK, NativeOK, PendingOK
<1>4. WellFormed(rt') /\ rt'.proc = rt.proc /\ rt'.stopping /\ rt'.state = rt.state
  <2>1. PICK r \in {rt, CancelMember(rt)} :
          rt' \in {CancelRestart(Suspend(r)),
                   CancelRestart(Suspend(SetCleanup(r, "workload", TRUE)))}
    BY ZenonT(60) DEF Seal
  <2>2. WellFormed(rt)
    BY <1>1 DEF StateOK
  <2>3. WellFormed(CancelMember(rt)) /\ CancelMember(rt).proc = rt.proc
        /\ CancelMember(rt).state = rt.state
    BY ZenonT(60), <2>2, SuspendFrame
  <2>4. WellFormed(r) /\ r.proc = rt.proc /\ r.state = rt.state
    BY SMTT(60), <2>1, <2>2, <2>3
  <2> DEFINE q == SetCleanup(r, "workload", TRUE)
  <2>5. Same(r, q)
    BY ZenonT(60), <2>4, SetCleanupFrame DEF Resources
  <2>6. WellFormed(q) /\ q.proc = rt.proc /\ q.state = rt.state
    BY ZenonT(60), <2>4, <2>5 DEF Same, Framed
  <2>7. rt' \in {CancelRestart(Suspend(r)), CancelRestart(Suspend(q))}
    BY ZenonT(60), <2>1
  <2> HIDE DEF q
  <2>8. CASE rt' = CancelRestart(Suspend(r))
    BY ZenonT(60), <2>4, <2>8, SuspendFrame
  <2>9. CASE rt' = CancelRestart(Suspend(q))
    BY ZenonT(60), <2>6, <2>9, SuspendFrame
  <2> QED
    BY <2>7, <2>8, <2>9
<1>5. gate' \in Gates /\ gate'.pc = gate.pc /\ Ownership' /\ Armed' /\ RecoveryOK'
  BY SMTT(60), <1>1, <1>3, <1>4, SuspendKeeps
<1>6. gate'.by = gate.by /\ gate'.id = gate.id
  BY SMTT(60), <1>1, FireFrame DEF StateOK
<1>7. Places'
  BY SMTT(60), <1>1, <1>2, <1>5, <1>6 DEF IInv, Places
<1>8. IInv'
  BY SMTT(60), <1>1, <1>2, <1>3, <1>4, <1>5, <1>7, KeepStep
<1> QED
  BY ZenonT(60), <1>3, <1>4, <1>8 DEF StepKeeps
-----------------------------------------------------------------------------
(* What processes do by themselves.                                          *)

(* The exit of a process keeps the invariant.                                *)
LEMMA ExitStep ==
  ASSUME IInv, NEW p, MainExit(p) \/ TreeExit(p)
  PROVE  IInv' /\ StepKeeps
<1>1. /\ StateOK /\ Same(rt, rt) /\ plan \in [Starts -> Plans]
      /\ UNCHANGED <<rt, closed, plan, stop, gate, recovery, pending, nproc>>
  BY SMTT(60), StateFacts DEF MainExit, TreeExit, IInv, TypeOK
<1>2. NativeOK' /\ tree' \subseteq tree
  BY ZenonT(60), <1>1 DEF MainExit, TreeExit, StateOK, NativeOK
<1>3. PendingOK' /\ RecoveryOK'
  BY <1>1 DEF pending, StateOK, PendingOK, RecoveryOK
<1>4. Places' /\ Armed'
  BY ZenonT(60), <1>1 DEF IInv, Places, Armed
<1>5. Ownership'
  BY <1>1, <1>2 DEF IInv, Ownership, LiveTreeOwned
<1>6. IInv'
  BY ZenonT(60), <1>1, <1>2, <1>3, <1>4, <1>5, KeepStep DEF IInv, TypeOK, Same, Framed
<1> QED
  BY SMTT(60), <1>1, <1>2, <1>6 DEF StepKeeps
-----------------------------------------------------------------------------
(* Stop workers.                                                             *)

Past == {"drain", "wait", "complete", "done"}

(* A step that moves one stop worker and creates no process.                 *)
LEMMA StopStep ==
  ASSUME IInv, NEW s \in Workers, NEW w \in StopWorkers, stop' = [stop EXCEPT ![s] = w],
         UNCHANGED closed, plan' \in [Starts -> Plans], WellFormed(rt'),
         gate' \in Gates, gate'.pc \in LaunchPcs => gate.pc \in LaunchPcs,
         NativeOK', nproc' = nproc, tree' \subseteq tree, PendingOK', RecoveryOK',
         Places', Ownership', Armed', w.mark <= nproc,
         w.pc \in Past /\ ~w.err => \A p \in tree' : p > w.mark,
         s = Shutdown =>
           /\ w.pc # "idle" => closed
           /\ w.pc \in {"run", "drain", "wait", "complete"} => gate'.pc \notin LaunchPcs
           /\ w.pc \in Past /\ ~w.err => gate'.pc \notin LaunchPcs /\ tree' = {}
  PROVE  IInv'
<1>1. stop \in [Workers -> StopWorkers] /\ Shutdown \in Workers
  BY DEF IInv, TypeOK, Workers, StopIds
<1>2. /\ stop' \in [Workers -> StopWorkers] /\ stop'[s] = w
      /\ \A k \in Workers \ {s} : stop'[k] = stop[k]
  BY SMTT(60), <1>1
<1>3. TypeOK'
  BY SMTT(60), <1>2 DEF IInv, TypeOK, NativeOK, PendingOK, RecoveryOK, WellFormed
<1>4. StopMarks'
  BY SMTT(60), <1>2 DEF IInv, StopMarks, Past
<1>5. Sealed'
  <2>1. tree = {} => tree' = {}
    BY SMTT(60)
  <2> QED
    BY SMTT(60), <1>1, <1>2, <2>1 DEF IInv, Sealed, Past
<1> QED
  BY ZenonT(60), <1>3, <1>4, <1>5 DEF IInv

(* What the invariant says of one stop worker.                               *)
LEMMA StopFacts ==
  ASSUME IInv, NEW s \in Workers
  PROVE  /\ stop \in [Workers -> StopWorkers] /\ stop[s] \in StopWorkers
         /\ stop[s].mark \in Nat /\ stop[s].mark <= nproc /\ nproc \in Nat
         /\ stop[s].pc \in Past /\ ~stop[s].err => \A p \in tree : p > stop[s].mark
         /\ plan \in [Starts -> Plans] /\ closed \in BOOLEAN
<1>1. stop[s] \in StopWorkers
  BY DEF IInv, TypeOK
<1> QED
  BY SMTT(60), <1>1 DEF IInv, TypeOK, StopMarks, StopWorkers, Past

(* disarmStartLocked at the admission of a stop.                             *)
LEMMA DisarmStep ==
  ASSUME IInv, NEW j \in StopIds, Disarm(j), stop[j].pc = "idle",
         j = Shutdown => closed, UNCHANGED <<closed, plan, pending, native>>
  PROVE  IInv' /\ StepKeeps
<1> DEFINE w == [stop[j] EXCEPT !.pc = "gate"]
<1>1. /\ StateOK /\ j \in Workers /\ j \notin Starts
      /\ UNCHANGED <<tree, nproc>> /\ NativeOK' /\ PendingOK'
  BY StateFacts, OperationAssumption
  DEF Workers, StopIds, native, pending, StateOK, NativeOK, PendingOK
<1>2. /\ stop \in [Workers -> StopWorkers] /\ stop[j] \in StopWorkers
      /\ stop[j].mark <= nproc /\ plan \in [Starts -> Plans]
  BY <1>1, StopFacts
<1>3. stop' = [stop EXCEPT ![j] = w]
  BY DEF Disarm
<1>4. w \in StopWorkers /\ w.pc = "gate" /\ w.mark = stop[j].mark
  BY <1>2 DEF StopWorkers
<1> HIDE DEF w
<1>5. WellFormed(rt') /\ rt'.proc = rt.proc /\ rt'.stopping /\ rt'.state = rt.state
  BY ZenonT(60), <1>1, SuspendFrame DEF Disarm, StateOK
<1>6. gate' = FireCancels /\ recovery' = "none"
  BY DEF Disarm
<1>7. gate' \in Gates /\ gate'.pc = gate.pc /\ Ownership' /\ Armed' /\ RecoveryOK'
  BY SMTT(60), <1>1, <1>5, <1>6, SuspendKeeps
<1>8. gate'.by = gate.by /\ gate'.id = gate.id
  BY SMTT(60), <1>1, <1>6, FireFrame DEF StateOK
<1>9. stop'[j].pc = "gate" /\ \A k \in Workers \ {j} : stop'[k] = stop[k]
  BY SMTT(60), <1>1, <1>2, <1>3, <1>4
<1>10. gate.id \in Workers /\ Starts \subseteq Workers
  BY SMTT(60), <1>1 DEF StateOK, Gates, Workers
<1>11. Places'
  BY ZenonT(60), <1>1, <1>7, <1>8, <1>9, <1>10 DEF IInv, Places
<1>12. IInv'
  BY ZenonT(60), <1>1, <1>2, <1>3, <1>4, <1>5, <1>7, <1>11, StopStep DEF Past
<1> QED
  BY ZenonT(60), <1>1, <1>5, <1>12 DEF StepKeeps

(* The admission of a stop keeps the invariant.                              *)
LEMMA StopAdmitStep ==
  ASSUME IInv, NEW j \in Stops, StopAdmit(j)
  PROVE  IInv' /\ StepKeeps
BY DisarmStep, OperationAssumption DEF StopAdmit, StopIds

(* A stop worker that moves outside the gate, with the record framed.        *)
LEMMA OutsideStep ==
  ASSUME IInv, NEW s \in Workers, NEW w \in StopWorkers, stop' = [stop EXCEPT ![s] = w],
         stop[s].pc \notin {"idle", "run"},
         w.pc \in Past, w.mark = stop[s].mark, stop[s].pc \in Past \/ w.err,
         stop[s].err => w.err,
         Framed(rt, rt'), rt'.restart = rt.restart,
         rt'.state = "active" => rt.state = "active" \/ ~rt.stopping,
         plan' \in [Starts -> Plans],
         \A k \in Starts : plan'[k].pc = plan[k].pc \/ (k = s /\ plan'[k].pc = "done"),
         s = Shutdown /\ w.pc # "done" => gate.pc \notin LaunchPcs,
         UNCHANGED <<closed, gate, recovery, native>>, PendingOK'
  PROVE  IInv' /\ StepKeeps
<1>1. StateOK /\ UNCHANGED <<tree, nproc>> /\ NativeOK' /\ RecoveryOK'
  BY ZenonT(60), StateFacts DEF native, StateOK, NativeOK, RecoveryOK, Framed
<1>2. /\ stop \in [Workers -> StopWorkers] /\ stop[s] \in StopWorkers
      /\ stop[s].mark <= nproc
      /\ stop[s].pc \in Past /\ ~stop[s].err => \A p \in tree : p > stop[s].mark
  BY StopFacts
<1>3. stop'[s] = w /\ \A k \in Workers \ {s} : stop'[k] = stop[k]
  BY <1>2
<1>4. gate.id \in Workers /\ Starts \subseteq Workers /\ w.pc # "idle"
  BY <1>1 DEF StateOK, Gates, Workers, Past
<1>5. Places'
  BY <1>1, <1>3, <1>4 DEF IInv, Places
<1>6. Ownership' /\ Armed'
  BY ZenonT(60), <1>1 DEF IInv, Ownership, LiveTreeOwned, Armed, RecoveryOK, Framed
<1>7. s = Shutdown =>
        /\ closed
        /\ w.pc \in Past /\ ~w.err => gate.pc \notin LaunchPcs /\ tree = {}
  BY ZenonT(60) DEF IInv, Sealed, Past
<1>8. IInv'
  <2>1. w.mark <= nproc /\ (w.pc \in Past /\ ~w.err => \A p \in tree' : p > w.mark)
    BY ZenonT(60), <1>1, <1>2
  <2>2. s = Shutdown =>
           /\ w.pc # "idle" => closed
           /\ w.pc \in {"run", "drain", "wait", "complete"} => gate'.pc \notin LaunchPcs
           /\ w.pc \in Past /\ ~w.err => gate'.pc \notin LaunchPcs /\ tree' = {}
    BY <1>1, <1>7 DEF Past
  <2> QED
    BY ZenonT(60), <1>1, <1>5, <1>6, <2>1, <2>2, StopStep DEF StateOK, Framed
<1> QED
  BY <1>1, <1>8 DEF StepKeeps, Framed

(* A stop that gives up waiting for the gate keeps the invariant: it reports *)
(* an error.                                                                 *)
LEMMA StopDeadlineStep ==
  ASSUME IInv, NEW j \in StopIds, StopDeadline(j)
  PROVE  IInv' /\ StepKeeps
<1> DEFINE w == [stop[j] EXCEPT !.pc = "done", !.err = TRUE]
<1>1. StateOK /\ Same(rt, rt) /\ j \in Workers
  BY StateFacts DEF Workers
<1>2. stop \in [Workers -> StopWorkers] /\ stop[j] \in StopWorkers
      /\ plan \in [Starts -> Plans]
  BY <1>1, StopFacts
<1>3. stop' = [stop EXCEPT ![j] = w]
  BY ZenonT(60), <1>1, <1>2 DEF StopDeadline
<1>4. w \in StopWorkers /\ w.pc = "done" /\ w.err /\ w.mark = stop[j].mark
  BY ZenonT(60), <1>2 DEF StopWorkers
<1> HIDE DEF w
<1>5. /\ stop[j].pc = "gate" /\ UNCHANGED <<rt, closed, plan, gate, recovery, native>>
      /\ PendingOK'
  BY <1>1 DEF StopDeadline, pending, StateOK, PendingOK
<1> QED
  BY ZenonT(60), <1>1, <1>2, <1>3, <1>4, <1>5, OutsideStep DEF Past, Same, Framed

(* The read of the capture a stop waits for keeps the invariant.             *)
LEMMA StopReadCaptureStep ==
  ASSUME IInv, NEW s \in Workers, StopReadCapture(s)
  PROVE  IInv' /\ StepKeeps
<1> DEFINE w == [stop[s] EXCEPT !.pc = "wait", !.capture = rt.capture,
                                !.waitGen = rt.gen]
<1>1. StateOK /\ Same(rt, rt) /\ rt.capture \in Nat /\ rt.gen \in Nat
  BY ZenonT(60), StateFacts, FieldFrame DEF StateOK
<1>2. stop \in [Workers -> StopWorkers] /\ stop[s] \in StopWorkers
      /\ plan \in [Starts -> Plans]
  BY StopFacts
<1>3. stop' = [stop EXCEPT ![s] = w]
  BY ZenonT(60), <1>2 DEF StopReadCapture
<1>4. /\ w \in StopWorkers /\ w.pc = "wait" /\ w.err = stop[s].err
      /\ w.mark = stop[s].mark
  BY ZenonT(60), <1>1, <1>2 DEF StopWorkers
<1> HIDE DEF w
<1>5. /\ stop[s].pc = "drain" /\ UNCHANGED <<rt, closed, plan, gate, recovery, native>>
      /\ PendingOK'
  BY <1>1 DEF StopReadCapture, pending, StateOK, PendingOK
<1>6. s = Shutdown => gate.pc \notin LaunchPcs
  BY SMTT(60), <1>5 DEF IInv, Sealed
<1> QED
  BY ZenonT(60), <1>1, <1>2, <1>3, <1>4, <1>5, <1>6, OutsideStep DEF Past, Same, Framed

(* The end of a stop's journal wait keeps the invariant.                     *)
LEMMA StopDrainStep ==
  ASSUME IInv, NEW s \in Workers, StopDrain(s)
  PROVE  IInv' /\ StepKeeps
<1>1. PICK complete \in BOOLEAN :
        /\ stop[s].pc = "wait"
        /\ rt' = JournalCompletion(rt, stop[s].capture, stop[s].waitGen, complete)
        /\ stop' = [stop EXCEPT ![s].pc = "complete", ![s].err = @ \/ ~complete]
        /\ UNCHANGED <<closed, plan, gate, recovery, pending, native>>
  BY ZenonT(60) DEF StopDrain
<1> DEFINE e == stop[s].err \/ ~complete
           w == [stop[s] EXCEPT !.pc = "complete", !.err = e]
<1>2. StateOK
  BY StateFacts
<1>3. stop \in [Workers -> StopWorkers] /\ stop[s] \in StopWorkers
      /\ plan \in [Starts -> Plans]
  BY StopFacts
<1>4. stop' = [stop EXCEPT ![s] = w]
  BY ZenonT(60), <1>1, <1>3
<1>5. e \in BOOLEAN /\ (stop[s].err => e)
  OBVIOUS
<1> HIDE DEF e
<1>6. w \in StopWorkers /\ w.pc = "complete" /\ w.err = e /\ w.mark = stop[s].mark
      /\ stop[s].capture \in Nat /\ stop[s].waitGen \in Nat
  BY ZenonT(60), <1>3, <1>5 DEF StopWorkers
<1> HIDE DEF w
<1>7. Same(rt, rt')
  BY <1>1, <1>2, <1>6, JournalFrame DEF StateOK
<1>8. UNCHANGED <<closed, plan, gate, recovery, native>> /\ PendingOK'
  BY SMTT(60), <1>1, <1>2 DEF pending, StateOK, PendingOK
<1>9. s = Shutdown => gate.pc \notin LaunchPcs
  BY SMTT(60), <1>1 DEF IInv, Sealed
<1>10. stop[s].pc = "wait" /\ (stop[s].err => w.err)
  BY SMTT(60), <1>1, <1>5, <1>6
<1> QED
  BY ZenonT(60), <1>3, <1>4, <1>6, <1>7, <1>8, <1>9, <1>10, OutsideStep
     DEF Past, Same, Framed

(* applyStopCompletion keeps the invariant.                                  *)
LEMMA StopCompleteStep ==
  ASSUME IInv, NEW s \in Workers, StopComplete(s)
  PROVE  IInv' /\ StepKeeps
<1> DEFINE ev == IF stop[s].err THEN "start-failed" ELSE "stop-finished"
           current == rt.gen = stop[s].gen /\ rt.proc \in {0, stop[s].proc}
           r == IF ~current THEN rt ELSE Step(rt, ev)
           w == [NoStop EXCEPT !.pc = "done", !.err = stop[s].err, !.mark = stop[s].mark]
<1>1. StateOK /\ Same(rt, rt)
  BY StateFacts
<1>2. stop \in [Workers -> StopWorkers] /\ stop[s] \in StopWorkers
      /\ plan \in [Starts -> Plans] /\ stop[s].pc = "complete"
  BY StopFacts DEF StopComplete
<1>3. /\ stop' = [stop EXCEPT ![s] = w]
      /\ IF s \in Starts THEN CompleteStart(s, r, TRUE)
         ELSE rt' = r /\ UNCHANGED <<plan, reaps>>
      /\ UNCHANGED <<closed, gate, recovery, watchers, loop, fired, exits, rearms,
                     native>>
  BY ZenonT(60) DEF StopComplete
<1>4. w \in StopWorkers /\ w.pc = "done" /\ w.err = stop[s].err
      /\ w.mark = stop[s].mark
  BY ZenonT(60), <1>2 DEF StopWorkers, NoStop
<1> HIDE DEF w
<1>5. Framed(rt, r) /\ r.restart = rt.restart /\ (r.state = "active" => rt.state = "active")
  <2>1. ev \in Events /\ ev # "start-succeeded"
    BY DEF Events
  <2> HIDE DEF ev
  <2>2. /\ Framed(rt, Step(rt, ev)) /\ Step(rt, ev).restart = rt.restart
        /\ Step(rt, ev).state = "active" => rt.state = "active"
    BY <1>1, <2>1, StepFrame DEF StateOK
  <2> QED
    BY <1>1, <2>2 DEF Same
<1> HIDE DEF r
<1>6. /\ Framed(rt, rt') /\ rt'.restart = rt.restart
      /\ rt'.state = "active" => rt.state = "active" \/ ~rt.stopping
      /\ reaps' \subseteq [gen : Nat, proc : Nat]
      /\ plan' \in [Starts -> Plans]
      /\ \A k \in Starts : plan'[k].pc = plan[k].pc \/ (k = s /\ plan'[k].pc = "done")
  <2>1. CASE s \in Starts
    <3>1. /\ Framed(r, rt') /\ rt'.restart = r.restart
          /\ rt'.state = "active" => r.state = "active" \/ ~r.stopping
          /\ reaps' \subseteq [gen : Nat, proc : Nat]
          /\ plan' \in [Starts -> Plans] /\ plan'[s].pc = "done"
          /\ \A k \in Starts \ {s} : plan'[k] = plan[k]
      BY ZenonT(60), <1>1, <1>2, <1>3, <1>5, <2>1, CompleteFrame
         DEF StateOK, PendingOK, Framed
    <3> QED
      BY <1>5, <3>1 DEF Framed
  <2>2. CASE s \notin Starts
    BY ZenonT(60), <1>1, <1>2, <1>3, <1>5, <2>2 DEF StateOK, PendingOK
  <2> QED
    BY <2>1, <2>2
<1>7. PendingOK'
  BY ZenonT(60), <1>1, <1>3, <1>6 DEF StateOK, PendingOK
<1> QED
  BY ZenonT(60), <1>2, <1>3, <1>4, <1>6, <1>7, OutsideStep DEF Past

(* A pass that finds nothing to stop: no launch is under way.                *)
LEMMA ShutdownPassStep ==
  ASSUME IInv, ShutdownPass
  PROVE  IInv' /\ StepKeeps
<1>1. /\ StateOK /\ Same(rt, rt) /\ Shutdown \in StopIds /\ Shutdown \in Workers
      /\ closed /\ stop[Shutdown].pc = "idle" /\ UNCHANGED <<closed, plan, pending, native>>
  BY StateFacts DEF ShutdownPass, Workers, StopIds
<1>2. CASE rt.state # "inactive" \/ rt.proc # 0 \/ Operations \/ rt.cleanup # {}
  BY <1>1, <1>2, DisarmStep DEF ShutdownPass
<1>3. CASE ~(rt.state # "inactive" \/ rt.proc # 0 \/ Operations \/ rt.cleanup # {})
  <2> DEFINE w == [stop[Shutdown] EXCEPT !.pc = "done"]
  <2>1. stop' = [stop EXCEPT ![Shutdown] = w] /\ UNCHANGED <<rt, gate, recovery>>
    BY SMTT(60), <1>3 DEF ShutdownPass
  <2>2. /\ stop \in [Workers -> StopWorkers] /\ stop[Shutdown] \in StopWorkers
        /\ stop[Shutdown].mark <= nproc /\ plan \in [Starts -> Plans]
    BY SMTT(60), <1>1, StopFacts
  <2>3. w \in StopWorkers /\ w.pc = "done" /\ w.mark = stop[Shutdown].mark
    BY SMTT(60), <2>2 DEF StopWorkers
  <2> HIDE DEF w
  <2>4. gate.pc \notin LaunchPcs /\ tree = {}
    <3>1. gate.pc \notin LaunchPcs
      <4>1. gate.by # "start"
        BY SMTT(60), <1>3 DEF IInv, Places, Operations, Running
      <4>2. gate.pc # "accept" => gate.by # "recovery"
        BY <1>3 DEF Operations
      <4>3. "accept" \notin LaunchPcs
        BY DEF LaunchPcs, CreatePcs
      <4> QED
        BY ZenonT(60), <4>1, <4>2, <4>3 DEF IInv, Places
    <3>2. NativeOK /\ rt.proc = 0 /\ gate.pc # "adopt"
      BY SMTT(60), <1>1, <1>3, <3>1 DEF StateOK, LaunchPcs, CreatePcs
    <3>3. \A p \in tree : FALSE
      BY SMTT(60), <3>2 DEF IInv, Ownership, LiveTreeOwned, NativeOK
    <3> QED
      BY SMTT(60), <3>1, <3>3
  <2>5. NativeOK' /\ UNCHANGED <<tree, nproc>> /\ PendingOK' /\ RecoveryOK'
    BY SMTT(60), <1>1, <2>1
       DEF native, pending, StateOK, NativeOK, PendingOK, RecoveryOK
  <2>6. Ownership' /\ Armed'
    BY SMTT(60), <2>1, <2>5 DEF IInv, Ownership, LiveTreeOwned, Armed
  <2>7. stop'[Shutdown].pc = "done" /\ \A k \in Workers \ {Shutdown} : stop'[k] = stop[k]
    BY SMTT(60), <1>1, <2>1, <2>2, <2>3
  <2>8. gate.id \in Workers /\ Starts \subseteq Workers /\ Shutdown \notin Starts
    BY ZenonT(60), <1>1, OperationAssumption DEF StateOK, Gates, Workers
  <2>9. Places'
    BY ZenonT(60), <1>1, <2>1, <2>7, <2>8 DEF IInv, Places
  <2>10. IInv'
    BY ZenonT(60), <1>1, <2>1, <2>2, <2>3, <2>4, <2>5, <2>6, <2>9, StopStep DEF StateOK
  <2> QED
    BY SMTT(60), <2>1, <2>5, <2>10 DEF StepKeeps
<1> QED
  BY <1>2, <1>3

(* A stop that takes the gate keeps the invariant: no launch is in the gate  *)
(* then, and none enters after the seal.                                     *)
LEMMA StopGateStep ==
  ASSUME IInv, NEW j \in StopIds, StopGate(j)
  PROVE  IInv' /\ StepKeeps
<1> DEFINE w == [stop[j] EXCEPT !.pc = "run"]
<1>1. /\ StateOK /\ j \in Workers /\ j \notin Starts /\ gate = NoGate
      /\ stop[j].pc = "gate" /\ UNCHANGED <<rt, closed, plan, recovery, pending, native>>
  BY StateFacts, OperationAssumption DEF StopGate, Workers, StopIds
<1>2. /\ stop \in [Workers -> StopWorkers] /\ stop[j] \in StopWorkers
      /\ stop[j].mark <= nproc /\ plan \in [Starts -> Plans]
  BY <1>1, StopFacts
<1>3. stop' = [stop EXCEPT ![j] = w]
  BY DEF StopGate
<1>4. w \in StopWorkers /\ w.pc = "run" /\ w.mark = stop[j].mark
  BY <1>2 DEF StopWorkers
<1> HIDE DEF w
<1>5. gate' \in Gates /\ gate'.by = "stop" /\ gate'.id = j /\ gate'.pc = "stop"
  BY ZenonT(60), <1>1 DEF StopGate, NoGate, Gates
<1>6. NativeOK' /\ UNCHANGED <<tree, nproc>> /\ PendingOK' /\ RecoveryOK'
  BY ZenonT(60), <1>1 DEF native, pending, StateOK, NativeOK, PendingOK, RecoveryOK
<1>7. "stop" \notin LaunchPcs \cup WaitPcs \cup HoldPcs \cup CreatePcs
  BY DEF LaunchPcs, WaitPcs, HoldPcs, CreatePcs
<1>8. Ownership' /\ Armed'
  BY ZenonT(60), <1>1, <1>5, <1>6, <1>7, NoGateFacts
  DEF IInv, Ownership, LiveTreeOwned, Armed, RecoveryOK
<1>9. stop'[j].pc = "run" /\ \A k \in Workers \ {j} : stop'[k] = stop[k]
  BY <1>1, <1>2, <1>3, <1>4
<1>10. Starts \subseteq Workers
  BY SMTT(60) DEF Workers
<1>11. Places'
  BY ZenonT(60), <1>1, <1>5, <1>7, <1>9, <1>10 DEF IInv, Places
<1>12. j = Shutdown => closed
  BY ZenonT(60), <1>1 DEF IInv, Sealed
<1>13. IInv'
  BY ZenonT(60), <1>1, <1>2, <1>3, <1>4, <1>5, <1>6, <1>7, <1>8, <1>11, <1>12, StopStep
  DEF StateOK, Past
<1> QED
  BY ZenonT(60), <1>1, <1>6, <1>13 DEF StepKeeps

(* acceptStopCleanup keeps the invariant: what it captures is all there is.  *)
LEMMA AcceptStopCleanupStep ==
  ASSUME IInv, AcceptStopCleanup
  PROVE  IInv' /\ StepKeeps
<1> DEFINE s == gate.id
           p == rt.proc
           g == rt.gen + 1
           w == [stop[s] EXCEPT !.pc = "run", !.gen = g, !.proc = p, !.mark = nproc]
           r == CancelRestart([rt EXCEPT !.stopping = TRUE, !.gen = @ + 1,
                                         !.watchdog = 0])
           c == IF r.proc # 0 THEN SetCleanup(r, "workload", TRUE) ELSE r
           n == (rt.notify # 0)
<1>1. /\ StateOK /\ gate.pc = "stop" /\ s \in Workers
      /\ UNCHANGED <<closed, plan, pending, native>> /\ recovery' = "none"
  BY StateFacts DEF AcceptStopCleanup, StateOK, Gates
<1>2. /\ stop \in [Workers -> StopWorkers] /\ stop[s] \in StopWorkers /\ nproc \in Nat
      /\ plan \in [Starts -> Plans]
  BY <1>1, StopFacts
<1>3. p \in Nat /\ g \in Nat /\ n \in BOOLEAN
  <2>1. rt.proc \in Nat /\ rt.gen \in Nat
    BY ZenonT(60), <1>1, FieldFrame DEF StateOK
  <2>2. n \in BOOLEAN
    OBVIOUS
  <2> QED
    BY <2>1, <2>2
<1>4. /\ gate' = [gate EXCEPT !.pc = "kill", !.gen = g, !.proc = p]
      /\ rt' = SetCleanup(Step(c, "stop-requested"), "notification", n)
      /\ stop' = [stop EXCEPT ![s] = w]
  BY SMTT(60), <1>1, <1>2 DEF AcceptStopCleanup
<1>5. WellFormed(r) /\ r.proc = rt.proc /\ r.stopping /\ ~r.restart /\ r.state = rt.state
  BY ZenonT(60), <1>1, SuspendFrame DEF StateOK
<1> HIDE DEF r
<1>6. Same(r, c)
  BY ZenonT(60), <1>5, SetCleanupFrame, FieldFrame DEF Resources
<1> HIDE DEF c, n
<1>7. /\ Framed(c, Step(c, "stop-requested"))
      /\ Step(c, "stop-requested").state = "active" => c.state = "active"
  BY SMTT(60), <1>6, StepFrame DEF Same, Framed, Events
<1>8. Same(Step(c, "stop-requested"),
           SetCleanup(Step(c, "stop-requested"), "notification", n))
  BY ZenonT(60), <1>3, <1>7, SetCleanupFrame DEF Framed, Resources
<1>9. WellFormed(rt') /\ rt'.proc = p /\ rt'.stopping
      /\ (rt'.state = "active" => rt.state = "active")
  BY ZenonT(60), <1>4, <1>5, <1>6, <1>7, <1>8 DEF Same, Framed
<1> HIDE DEF g, p
<1>10. w \in StopWorkers /\ w.pc = "run" /\ w.mark = nproc
  BY ZenonT(60), <1>2, <1>3 DEF StopWorkers
<1> HIDE DEF w
<1>11. /\ gate' \in Gates /\ gate'.by = gate.by /\ gate'.id = s /\ gate'.pc = "kill"
       /\ gate'.proc = p
  BY ZenonT(60), <1>1, <1>3, <1>4 DEF StateOK, Gates
<1>12. NativeOK' /\ UNCHANGED <<tree, nproc>> /\ PendingOK' /\ RecoveryOK'
  BY <1>1 DEF native, pending, StateOK, NativeOK, PendingOK, RecoveryOK
<1>13. "kill" \notin LaunchPcs \cup WaitPcs \cup CreatePcs
  BY DEF LaunchPcs, WaitPcs, CreatePcs
<1>14. Ownership' /\ Armed'
  BY ZenonT(60), <1>1, <1>9, <1>11, <1>12, <1>13 DEF IInv, Ownership, LiveTreeOwned, Armed, p
<1>15. stop'[s].pc = "run" /\ \A k \in Workers \ {s} : stop'[k] = stop[k]
  BY SMTT(60), <1>1, <1>2, <1>4, <1>10
<1>16. Starts \subseteq Workers
  BY SMTT(60) DEF Workers
<1>17. Places'
  BY ZenonT(60), <1>1, <1>11, <1>13, <1>15, <1>16 DEF IInv, Places
<1>18. s = Shutdown => closed
  BY ZenonT(60), <1>1, OperationAssumption DEF IInv, Sealed, Places
<1>19. IInv'
  <2>1. /\ UNCHANGED closed /\ plan' \in [Starts -> Plans] /\ w.mark <= nproc
        /\ gate'.pc \notin LaunchPcs /\ w.pc \notin Past
    BY <1>1, <1>2, <1>10, <1>11, <1>13 DEF Past
  <2> HIDE DEF s
  <2> QED
    BY ZenonT(60), <1>1, <1>4, <1>9, <1>10, <1>11, <1>12, <1>14, <1>17, <1>18, <2>1,
       StopStep
<1> QED
  BY ZenonT(60), <1>9, <1>12, <1>19 DEF StepKeeps

(* The native stop and applyStopCleanup keep the invariant: a confirmed stop *)
(* leaves no process.                                                        *)
LEMMA StopCleanupStep ==
  ASSUME IInv, StopCleanup
  PROVE  IInv' /\ StepKeeps
<1>0. PICK ok \in BOOLEAN, closes \in BOOLEAN :
        /\ gate.pc = "kill"
        /\ StopNative(gate.proc, ok)
        /\ rt' = CloseNotify(StopCleanupResult(rt, ok), closes)
        /\ stop' = [stop EXCEPT ![gate.id].pc = "drain",
                                ![gate.id].err = ~ok \/ rt'.notify # 0]
        /\ gate' = NoGate
        /\ UNCHANGED <<closed, plan, recovery, pending>>
  BY ZenonT(60) DEF StopCleanup
<1> DEFINE s == gate.id
           e == (~ok \/ rt'.notify # 0)
           w == [stop[s] EXCEPT !.pc = "drain", !.err = e]
           q == StopCleanupResult(rt, ok)
<1>1. StateOK /\ s \in Workers
  BY StateFacts DEF StateOK, Gates
<1>2. /\ stop \in [Workers -> StopWorkers] /\ stop[s] \in StopWorkers
      /\ stop[s].mark <= nproc /\ plan \in [Starts -> Plans]
  BY <1>1, StopFacts
<1>3. stop' = [stop EXCEPT ![s] = w]
  BY ZenonT(60), <1>0, <1>1, <1>2
<1>4. e \in BOOLEAN /\ (~e => ok)
  OBVIOUS
<1> HIDE DEF e
<1>5. w \in StopWorkers /\ w.pc = "drain" /\ w.mark = stop[s].mark /\ w.err = e
  BY ZenonT(60), <1>2, <1>4 DEF StopWorkers
<1> HIDE DEF w
<1>6. /\ WellFormed(q) /\ q.proc = (IF ok THEN 0 ELSE rt.proc)
      /\ q.stopping = rt.stopping /\ q.restart = rt.restart /\ q.state = rt.state
  BY <1>1, StopCleanupFrame DEF StateOK
<1> HIDE DEF q
<1>7. Same(q, rt')
  BY <1>0, <1>6, CloseNotifyFrame DEF q
<1>8. NativeOK' /\ nproc' = nproc /\ tree' \subseteq tree /\ (ok => gate.proc \notin tree')
  BY <1>0, <1>1, StopNativeFrame DEF StateOK
<1>9. gate.proc = rt.proc /\ \A p \in tree : p = rt.proc
  BY <1>0 DEF IInv, Ownership, LiveTreeOwned, HoldPcs
<1>10. ok => tree' = {}
  BY <1>8, <1>9
<1>11. PendingOK' /\ RecoveryOK'
  BY SMTT(60), <1>0, <1>1, <1>6, <1>7
     DEF pending, StateOK, PendingOK, RecoveryOK, Same, Framed
<1>12. Ownership'
  <2>1. \A p \in tree' : p = rt'.proc
    BY SMTT(60), <1>6, <1>7, <1>8, <1>9, <1>10 DEF Same, Framed
  <2> QED
    BY SMTT(60), <1>0, <2>1, NoGateFacts DEF Ownership, LiveTreeOwned, LaunchPcs
<1>13. Armed'
  BY SMTT(60), <1>0, <1>11, NoGateFacts DEF Armed, RecoveryOK
<1>14. stop'[s].pc = "drain" /\ \A k \in Workers \ {s} : stop'[k] = stop[k]
  BY SMTT(60), <1>1, <1>2, <1>3, <1>5
<1>15. stop[s].pc = "run" /\ Starts \subseteq Workers
  BY SMTT(60), <1>0 DEF IInv, Places, Workers
<1>16. Places'
  BY ZenonT(60), <1>0, <1>14, <1>15, NoGateFacts DEF IInv, Places
<1>17. s = Shutdown => closed
  BY <1>15 DEF IInv, Sealed
<1>18. IInv'
  <2>1. w.mark <= nproc /\ (w.pc \in Past /\ ~w.err => \A p \in tree' : p > w.mark)
    BY SMTT(60), <1>2, <1>4, <1>5, <1>10
  <2>2. gate' \in Gates /\ gate'.pc \notin LaunchPcs
    BY SMTT(60), <1>0, NoGateFacts
  <2>3. w.pc \in Past /\ ~w.err => tree' = {}
    BY SMTT(60), <1>4, <1>5, <1>10
  <2>4. WellFormed(rt') /\ UNCHANGED <<closed, plan>>
    BY SMTT(60), <1>0, <1>7 DEF Same, Framed
  <2> HIDE DEF s
  <2> QED
    BY ZenonT(60), <1>1, <1>2, <1>3, <1>5, <1>8, <1>11, <1>12, <1>13, <1>16, <1>17,
       <2>1, <2>2, <2>3,
       <2>4, StopStep
<1> QED
  BY <1>6, <1>7, <1>8, <1>18 DEF StepKeeps, Same, Framed
-----------------------------------------------------------------------------
(* The theorems.                                                             *)

(* A manager that has just loaded the unit satisfies the invariant.          *)
LEMMA InitInv == Init => IInv
<1> SUFFICES ASSUME Init PROVE IInv
  BY SMTT(60)
<1>1. rt \in Records /\ <<rt.state, rt.sub>> \in Pairs
  BY ZenonT(60) DEF Init, Records, Pairs, States, Substates
<1>2. plan \in [Starts -> Plans]
  BY ZenonT(60) DEF Init, NoPlan, Plans
<1>3. stop \in [Workers -> StopWorkers] /\ \A s \in Workers : stop[s] = NoStop
  BY ZenonT(60) DEF Init, NoStop, StopWorkers
<1>4. TypeOK
  BY ZenonT(60), <1>1, <1>2, <1>3, NoGateFacts DEF Init, TypeOK
<1>5. Shutdown \in Workers /\ Starts \subseteq Workers
  BY DEF Workers, StopIds
<1>6. Places
  BY ZenonT(60), <1>3, <1>5, NoGateFacts DEF Init, Places, NoStop, LaunchPcs
<1>7. Ownership
  BY ZenonT(60), <1>3, <1>5, NoGateFacts DEF Init, Ownership, LiveTreeOwned
<1>8. StopMarks /\ Sealed /\ Armed
  <2>1. /\ gate.pc = "free" /\ gate.by = "none" /\ recovery = "none"
        /\ nproc = 0 /\ stop[Shutdown].pc = "idle"
        /\ \A s \in Workers : stop[s].pc = "idle" /\ stop[s].mark = 0
    BY ZenonT(60), <1>3, <1>5, NoGateFacts DEF Init, NoStop
  <2> QED
    BY <2>1 DEF StopMarks, Sealed, Armed
<1> QED
  BY SMTT(60), <1>4, <1>6, <1>7, <1>8 DEF IInv

(* A stuttering step keeps the invariant.                                    *)
LEMMA StutterStep ==
  ASSUME IInv, UNCHANGED vars
  PROVE  IInv' /\ StepKeeps
<1>1. UNCHANGED <<rt, closed, plan, stop, gate, recovery, watchers, reaps, loop, fired,
                  exits, rearms, tree, main, nproc>>
  BY SMTT(60) DEF vars, pending, native
<1>2. TypeOK'
  BY ZenonT(60), <1>1 DEF IInv, TypeOK
<1>3. Places'
  BY ZenonT(60), <1>1 DEF IInv, Places
<1>4. Ownership'
  BY SMTT(60), <1>1 DEF IInv, Ownership, LiveTreeOwned
<1>5. StopMarks' /\ Sealed' /\ Armed'
  BY ZenonT(60), <1>1 DEF IInv, StopMarks, Sealed, Armed
<1>6. IInv'
  BY SMTT(60), <1>2, <1>3, <1>4, <1>5 DEF IInv
<1> QED
  BY SMTT(60), <1>1, <1>6 DEF StepKeeps

(* Every step keeps the invariant and is a step of the contract or leaves    *)
(* its view of the unit alone.                                               *)
LEMMA NextStep ==
  ASSUME IInv, [Next]_vars
  PROVE  IInv' /\ StepKeeps
<1>1. CASE Launching
  BY SMTT(60), <1>1, LaunchRefusedStep, LaunchLimitedStep, LaunchAcceptedStep,
     EvictStep,
     RecordStep, PrepareStep, OpenStep, CreateStep, AdoptStep, LateStep, RegisterStep,
     OneshotFailedStep, OneshotExitedStep, OneshotFinishedStep, ReadinessFailedStep,
     ReadinessCleanupStep, ActivateStep, PublishStep, AbandonStep DEF Launching
<1>2. CASE Stopping
  BY SMTT(60), <1>2, AcceptStopCleanupStep, StopCleanupStep, StopDeadlineStep,
     StopGateStep,
     StopReadCaptureStep, StopDrainStep, StopCompleteStep DEF Stopping
<1>3. CASE Supervising
  BY SMTT(60), <1>3, WatchGateStep, ProcessExitedStep, WatchdogGateStep,
     WatchdogRestartStep,
     ReapGateStep, WatchCleanupStep, WatchdogFireStep, WatchdogCleanupStep,
     ReapCleanupStep, RecoveryGateStep DEF Supervising
<1>4. CASE Requests
  BY SMTT(60), <1>4, StartAdmitStep, CancelOperationStep, StartRejectedStep,
     StartGateStep,
     StopAdmitStep, SealStep, ShutdownPassStep DEF Requests
<1>5. CASE \E p \in tree : MainExit(p) \/ TreeExit(p)
  BY SMTT(60), <1>5, ExitStep
<1>6. CASE UNCHANGED vars
  BY <1>6, StutterStep
<1> QED
  BY SMTT(60), <1>1, <1>2, <1>3, <1>4, <1>5, <1>6 DEF Next

(* The invariant holds in every reachable state.                             *)
LEMMA Inductive == Spec => []IInv
<1>1. IInv /\ [Next]_vars => IInv'
  BY NextStep
<1> QED
  BY <1>1, InitInv, PTL DEF Spec

(* The types and the lifecycle pairs hold for every configuration, with any  *)
(* number of operations, generations and processes.                          *)
THEOREM TypeCorrect == Spec => []TypeOK
<1>1. IInv => TypeOK
  BY SMTT(60) DEF IInv
<1> QED
  BY <1>1, Inductive, PTL

(* launchUnitOwnedOp, recovery and late adoption never leave two invocations *)
(* of the unit alive.                                                        *)
THEOREM SingleInvocation == Spec => []OneLiveTree
<1>1. IInv => OneLiveTree
  <2> SUFFICES ASSUME IInv, NEW p \in tree, NEW q \in tree PROVE p = q
    BY SMTT(60) DEF OneLiveTree
  <2>1. rt.proc \in Nat /\ NativeOK
    BY ZenonT(60), StateFacts, FieldFrame DEF StateOK
  <2>2. p # 0 /\ q # 0
    BY SMTT(60), <2>1 DEF NativeOK
  <2> QED
    BY SMTT(60), <2>2 DEF IInv, Ownership, LiveTreeOwned, CreatePcs
<1> QED
  BY <1>1, Inductive, PTL

(* No interleaving of launch, stop, watcher and reaper loses a live process: *)
(* the record or the launch that adopts it owns it.                          *)
THEOREM NoOrphans == Spec => []LiveTreeOwned
<1>1. IInv => LiveTreeOwned
  BY SMTT(60) DEF IInv, Ownership
<1> QED
  BY <1>1, Inductive, PTL

(* A stop of stopUnitAfterLock that reports success has outlived every       *)
(* process that existed when it took over the unit.                          *)
THEOREM StopsConfirm == Spec => []StopConfirmed
<1>1. IInv => StopConfirmed
  BY SMTT(60) DEF IInv, StopMarks, StopConfirmed, Workers
<1> QED
  BY <1>1, Inductive, PTL

(* A shutdown pass that succeeds leaves no process, also when a launch was   *)
(* inside CreateProcess when sealShutdownLocked ran.                         *)
THEOREM ShutdownEmpties == Spec => []ShutdownComplete
<1>1. IInv => ShutdownComplete
  BY SMTT(60) DEF IInv, Sealed, ShutdownComplete
<1> QED
  BY <1>1, Inductive, PTL

(* disarmStartLocked, cancelOperationLocked and sealShutdownLocked leave no  *)
(* recovery that could still launch.                                         *)
THEOREM StopsDisarm == Spec => []RecoveryDisarmed
<1>1. IInv => RecoveryDisarmed
  BY ZenonT(60) DEF IInv, Armed, RecoveryDisarmed, TypeOK
<1> QED
  BY <1>1, Inductive, PTL

(* No late publication, readiness, exit or recovery makes a stopped unit     *)
(* active.                                                                   *)
THEOREM StopsPrevail == Spec => NoResurrection
<1>1. IInv /\ [Next]_vars
        => [rt.stopping /\ rt'.stopping /\ rt'.state = "active"
              => rt.state = "active"]_vars
  BY ZenonT(60), NextStep DEF StepKeeps
<1> QED
  BY <1>1, Inductive, PTL DEF Spec, NoResurrection

(* UnitLifecycle implements UnitContract: the initial states map to its      *)
(* initial state and every step to a step of it.                             *)
THEOREM ImplementsContract == Spec => ContractSpec
<1>1. Init => Contract!Init
  BY SMTT(60) DEF Init, Contract!Init
<1>2. IInv /\ [Next]_vars
        => [Contract!Next]_<<tree, rt.state = "active", rt.stopping>>
  <2> SUFFICES ASSUME IInv, [Next]_vars PROVE Contract!Next
    OBVIOUS
  <2>1. IInv' /\ StepKeeps
    BY NextStep
  <2>2. rt.stopping \in BOOLEAN /\ rt'.stopping \in BOOLEAN
    <3>1. IInv => rt.stopping \in BOOLEAN
      BY ZenonT(60) DEF IInv, TypeOK, Records
    <3>2. IInv' => rt'.stopping \in BOOLEAN
      BY ZenonT(60) DEF IInv, TypeOK, Records
    <3> QED
      BY SMTT(60), <2>1, <3>1, <3>2
  <2>3. CASE /\ tree' \subseteq tree /\ rt'.stopping = rt.stopping
             /\ rt'.state = "active" => rt.state = "active" \/ ~rt.stopping
    BY SMTT(60), <2>3 DEF Contract!Next, Contract!Supervise
  <2>4. CASE tree' = tree /\ rt'.stopping /\ (rt'.state = "active" => rt.state = "active")
    BY SMTT(60), <2>4 DEF Contract!Next, Contract!Disarm
  <2>5. CASE /\ tree = {} /\ (\E p \in tree' : tree' = {p})
             /\ rt'.stopping = rt.stopping /\ rt'.state = rt.state
    BY SMTT(60), <2>5 DEF Contract!Next, Contract!Create
  <2>6. CASE tree' = tree /\ ~rt'.stopping /\ rt'.state = rt.state
    <3>1. CASE rt.stopping
      BY SMTT(60), <2>6, <3>1 DEF Contract!Next, Contract!Readmit
    <3>2. CASE ~rt.stopping
      BY <2>2, <2>6, <3>2 DEF Contract!Next, Contract!Supervise
    <3> QED
      BY SMTT(60), <3>1, <3>2
  <2> QED
    BY ZenonT(60), <2>1, <2>3, <2>4, <2>5, <2>6 DEF StepKeeps
<1> QED
  BY <1>1, <1>2, Inductive, PTL DEF Spec, ContractSpec, Contract!Spec, Contract!vars
-----------------------------------------------------------------------------
(* No start is recorded: the number stays, and no launch is decided.         *)
NoLaunch == gate'.pc \in {"evict", "record"} => gate.pc \in {"evict", "record"}
CountKept == rt'.starts = rt.starts /\ NoLaunch

LEMMA GateFacts ==
  ASSUME gate \in Gates
  PROVE  /\ \A err : Return(err) => NoLaunch
         /\ gate' = NoGate \/ gate' = gate \/ gate' = FireCancels => NoLaunch
         /\ \A by, id, gen : TakeGate(by, id, gen) => NoLaunch
<1>1. ASSUME NEW err, Return(err) PROVE NoLaunch
  BY <1>1 DEF Return, NoLaunch, NoGate, Gates
<1>2. ASSUME gate' = NoGate \/ gate' = gate \/ gate' = FireCancels PROVE NoLaunch
  BY <1>2 DEF NoLaunch, NoGate, FireCancels, Gates
<1>3. ASSUME NEW by, NEW id, NEW gen, TakeGate(by, id, gen) PROVE NoLaunch
  BY <1>3 DEF TakeGate, NoLaunch, NoGate
<1> QED
  BY <1>1, <1>2, <1>3

(* maybeRestart and the completion of a start keep the number.               *)
LEMMA MaybeRestartCounts ==
  ASSUME NEW r, "starts" \in DOMAIN r, NEW kind, MaybeRestart(r, kind)
  PROVE  rt'.starts = r.starts
BY Zenon, WholesCount DEF MaybeRestart, Counted

LEMMA CompleteCounts ==
  ASSUME NEW i, NEW r, "starts" \in DOMAIN r, NEW err, CompleteStart(i, r, err)
  PROVE  rt'.starts = r.starts
<1> DEFINE current == CompletionCurrent(r, plan[i])
           c == IF current THEN StartCompletion(r, plan[i], err) ELSE r
<1>1. Counted(r, c)
  BY Zenon, WholesCount, FieldsCount
<1>2. rt' = c \/ rt' = SetCleanup(c, "workload", TRUE)
  BY Zenon DEF CompleteStart
<1> HIDE DEF c
<1>3. Counted(c, SetCleanup(c, "workload", TRUE))
  BY Zenon, <1>1 DEF Counted, SetCleanup
<1> QED
  BY ZenonT(60), <1>1, <1>2, <1>3 DEF Counted

LEMMA CountFacts ==
  ASSUME IInv
  PROVE  /\ gate \in Gates /\ rt.starts \in Nat
         /\ "starts" \in DOMAIN rt /\ Counted(rt, rt)
BY ZenonT(60) DEF IInv, TypeOK, Records, Counted

(* Steps of the launch worker that record nothing.                           *)
LEMMA LaunchCounts ==
  ASSUME IInv, \/ LaunchRefused \/ LaunchLimited \/ PrepareLaunch \/ OpenNotify
               \/ AdoptProcess \/ LateLaunchCleanup \/ RegisterStartWait
  PROVE  CountKept
<1> USE CountFacts DEF CountKept
<1>1. CASE LaunchRefused
  BY <1>1, GateFacts DEF LaunchRefused
<1>2. CASE LaunchLimited
  <2>1. Return(TRUE) /\ (rt' = FailStartLimit(CancelRestart(rt)) \/ rt' = FailStartLimit(rt))
    BY ZenonT(60), <1>2 DEF LaunchLimited
  <2>2. Counted(rt, CancelRestart(rt)) /\ Counted(rt, FailStartLimit(rt))
    BY Zenon, PartsCount, WholesCount
  <2>3. Counted(CancelRestart(rt), FailStartLimit(CancelRestart(rt)))
    BY ZenonT(60), <2>2, WholesCount DEF Counted
  <2> QED
    BY ZenonT(60), <2>1, <2>2, <2>3, GateFacts DEF Counted
<1>3. CASE PrepareLaunch
  <2>1. PICK closes, drains \in BOOLEAN : PrepareLaunch!(closes, drains)
    BY Zenon, <1>3 DEF PrepareLaunch
  <2> DEFINE n == CloseNotify(rt, closes)
  <2>2. Counted(rt, n)
    BY Zenon, WholesCount
  <2>3. /\ rt' = n \/ rt' = Quiesce(n, FALSE) \/ rt' = Invoke(Quiesce(n, TRUE))
        /\ \/ Return(TRUE)
           \/ gate' = [gate EXCEPT !.pc = IF NeedsPipe THEN "open" ELSE "create"]
    BY Zenon, <2>1
  <2> HIDE DEF n
  <2>4. Counted(n, Quiesce(n, FALSE)) /\ Counted(n, Quiesce(n, TRUE))
    BY ZenonT(60), <2>2, WholesCount DEF Counted
  <2>5. Counted(Quiesce(n, TRUE), Invoke(Quiesce(n, TRUE)))
    BY ZenonT(60), <2>4, PartsCount DEF Counted
  <2>6. rt'.starts = rt.starts
    BY ZenonT(60), <2>2, <2>3, <2>4, <2>5 DEF Counted
  <2>7. NoLaunch
    BY ZenonT(60), <2>3, GateFacts DEF NoLaunch, Gates
  <2> QED
    BY <2>6, <2>7
<1>4. CASE OpenNotify
  <2>1. PICK opens, disposes \in BOOLEAN : OpenNotify!(opens, disposes)
    BY Zenon, <1>4 DEF OpenNotify
  <2> DEFINE n == [rt EXCEPT !.notify = gate.gen]
  <2>2. Counted(rt, n)
    BY Zenon, FieldsCount
  <2>3. /\ rt' = n \/ rt' = rt \/ rt' = SetCleanup(n, "notification", TRUE)
        /\ Return(TRUE) \/ gate' = [gate EXCEPT !.pc = "create"]
    BY Zenon, <2>1
  <2> HIDE DEF n
  <2>4. Counted(n, SetCleanup(n, "notification", TRUE))
    BY Zenon, <2>2 DEF Counted, SetCleanup
  <2>5. rt'.starts = rt.starts
    BY ZenonT(60), <2>2, <2>3, <2>4 DEF Counted
  <2>6. NoLaunch
    BY ZenonT(60), <2>3, GateFacts DEF NoLaunch, Gates
  <2> QED
    BY <2>5, <2>6
<1>5. CASE AdoptProcess
  <2>1. PICK alive \in BOOLEAN : AdoptProcess!(alive)
    BY Zenon, <1>5 DEF AdoptProcess
  <2> DEFINE r == [rt EXCEPT !.proc = gate.proc]
             t == [r EXCEPT !.terminated = FALSE]
             next == CASE Type = "notify" -> "ready"
                       [] Type = "oneshot" -> "register"
                       [] Type = "simple" -> "activate"
  <2>2. Counted(rt, r)
    BY Zenon, FieldsCount
  <2>3. /\ \/ rt' = SetCleanup(r, "workload", TRUE) \/ rt' = t
           \/ rt' = Step(t, "start-requested") \/ rt' = Step(t, "start-succeeded")
        /\ gate' = [gate EXCEPT !.pc = "late"] \/ gate' = [gate EXCEPT !.pc = next]
    BY Zenon, <2>1
  <2>4. next \in {"ready", "register", "activate"}
    BY ConfigAssumption
  <2> HIDE DEF r, next
  <2>5. Counted(r, t) /\ Counted(r, SetCleanup(r, "workload", TRUE))
    BY Zenon, <2>2 DEF Counted, SetCleanup
  <2> HIDE DEF t
  <2>6. Counted(t, Step(t, "start-requested")) /\ Counted(t, Step(t, "start-succeeded"))
    BY ZenonT(60), <2>5, PartsCount DEF Counted
  <2>7. rt'.starts = rt.starts
    BY ZenonT(60), <2>2, <2>3, <2>5, <2>6 DEF Counted
  <2>8. NoLaunch
    BY <2>3, <2>4 DEF NoLaunch, Gates
  <2> QED
    BY <2>7, <2>8
<1>6. CASE LateLaunchCleanup
  <2>1. PICK ok, closes \in BOOLEAN : LateLaunchCleanup!(ok, closes)
    BY Zenon, <1>6 DEF LateLaunchCleanup
  <2> DEFINE n == CloseNotify(rt, closes)
  <2>2. Counted(rt, n)
    BY Zenon, WholesCount
  <2>3. (rt' = ReleaseProc(n) \/ rt' = Step(n, "start-failed")) /\ Return(TRUE)
    BY Zenon, <2>1
  <2> HIDE DEF n
  <2>4. Counted(n, ReleaseProc(n)) /\ Counted(n, Step(n, "start-failed"))
    BY ZenonT(60), <2>2, PartsCount DEF Counted
  <2> QED
    BY ZenonT(60), <2>2, <2>3, <2>4, GateFacts DEF Counted
<1>7. CASE RegisterStartWait
  <2>1. /\ rt' = [rt EXCEPT !.startCancel = ~(closed \/ rt.stopping)]
        /\ gate'.pc = "wait"
    BY <1>7 DEF RegisterStartWait, Gates
  <2>2. Counted(rt, [rt EXCEPT !.startCancel = ~(closed \/ rt.stopping)])
    BY Zenon, FieldsCount
  <2> QED
    BY <2>1, <2>2 DEF Counted, NoLaunch
<1> QED
  BY <1>1, <1>2, <1>3, <1>4, <1>5, <1>6, <1>7

LEMMA CreateCounts ==
  ASSUME IInv, CreateProcess
  PROVE  CountKept
<1> USE CountFacts DEF CountKept
<1>1. PICK outcome \in {"ok", "failed", "account", "retained"}, closes \in BOOLEAN :
        CreateProcess!(outcome, closes)
  BY Zenon DEF CreateProcess
<1> DEFINE owned == outcome \in {"ok", "retained"}
           p     == nproc + 1
           b     == IF owned THEN RetainProc(rt, gate.gen, p) ELSE rt
           c     == CloseNotify(b, closes)
           f     == IF closed \/ c.stopping \/ c.state # "activating" THEN c
                    ELSE Step(c, "start-failed")
           k     == [rt EXCEPT !.capture = gate.gen]
<1>2. /\ rt' = k \/ rt' = c \/ MaybeRestart(f, "failure")
      /\ Return(TRUE) \/ gate' = [gate EXCEPT !.pc = "adopt", !.proc = p]
  BY Zenon, <1>1
<1>3. Counted(rt, k)
  BY Zenon, FieldsCount
<1>4. Counted(rt, b)
  BY Zenon, PartsCount
<1> HIDE DEF b, k
<1>5. Counted(b, c)
  BY ZenonT(60), <1>4, WholesCount DEF Counted
<1> HIDE DEF c
<1>6. Counted(c, f)
  BY Zenon, <1>4, <1>5, PartsCount DEF Counted
<1> HIDE DEF f
<1>7. rt'.starts = rt.starts
  BY SMTT(60), <1>2, <1>3, <1>4, <1>5, <1>6, MaybeRestartCounts DEF Counted
<1>8. NoLaunch
  BY ZenonT(60), <1>2, GateFacts DEF NoLaunch, Gates
<1> QED
  BY SMTT(60), <1>7, <1>8

LEMMA WaitCounts ==
  ASSUME IInv, \/ OneshotFailed \/ OneshotExited \/ OneshotFinished \/ ReadinessFailed
               \/ ReadinessCleanup \/ Activate \/ PublishStart \/ AbandonStart
  PROVE  CountKept
<1> USE CountFacts DEF CountKept
<1>1. CASE OneshotFailed
  <2>1. PICK ok \in BOOLEAN : OneshotFailed!(ok)
    BY Zenon, <1>1 DEF OneshotFailed
  <2> DEFINE t == [rt EXCEPT !.startCancel = FALSE, !.terminated = TRUE]
             c == SetCleanup(t, "workload", ~ok)
             r == IF c.stopping THEN c ELSE Step(c, "start-failed")
  <2>2. (MaybeRestart(r, "failure") \/ rt' = r) /\ Return(TRUE)
    BY Zenon, <2>1
  <2>3. Counted(rt, t)
    BY Zenon, PairsCount
  <2> HIDE DEF t
  <2>4. Counted(t, c)
    BY Zenon, <2>3 DEF Counted, SetCleanup
  <2> HIDE DEF c
  <2>5. Counted(c, r)
    BY Zenon, <2>3, <2>4, PartsCount DEF Counted
  <2> HIDE DEF r
  <2> QED
    BY ZenonT(60), <2>2, <2>3, <2>4, <2>5, MaybeRestartCounts, GateFacts
       DEF Counted
<1>2. CASE OneshotExited
  <2>1. PICK kills \in BOOLEAN : OneshotExited!(kills)
    BY Zenon, <1>2 DEF OneshotExited
  <2> DEFINE w == [rt EXCEPT !.startCancel = FALSE]
             k == SetCleanup(w, "workload", TRUE)
  <2>2. /\ rt' = w \/ rt' = k \/ rt' = Step(k, "start-failed")
        /\ Return(TRUE) \/ gate' = [gate EXCEPT !.pc = "finish"]
    BY Zenon, <2>1
  <2>3. Counted(rt, w)
    BY Zenon, FieldsCount
  <2> HIDE DEF w
  <2>4. Counted(w, k)
    BY Zenon, <2>3 DEF Counted, SetCleanup
  <2> HIDE DEF k
  <2>5. Counted(k, Step(k, "start-failed"))
    BY ZenonT(60), <2>4, PartsCount DEF Counted
  <2>6. rt'.starts = rt.starts
    BY SMTT(60), <2>2, <2>3, <2>4, <2>5 DEF Counted
  <2>7. NoLaunch
    BY ZenonT(60), <2>2, GateFacts DEF NoLaunch, Gates
  <2> QED
    BY <2>6, <2>7
<1>3. CASE OneshotFinished
  <2>1. PICK drains, ok, closes \in BOOLEAN : OneshotFinished!(drains, ok, closes)
    BY Zenon, <1>3 DEF OneshotFinished
  <2> DEFINE j == JournalCompletion(rt, rt.capture, rt.gen, drains)
             n == CloseNotify(j, closes)
             c == IF ok THEN ReleaseProc(n) ELSE SetCleanup(n, "workload", TRUE)
             d == PublishStartOutcome(c, IF RemainAfterExit THEN "active" ELSE "inactive")
  <2>2. /\ rt' = Step(c, "start-failed") \/ rt' = c \/ MaybeRestart(d, "success")
        /\ Return(TRUE) \/ Return(FALSE)
    BY Zenon, <2>1
  <2>3. Counted(rt, j)
    BY Zenon, WholesCount
  <2> HIDE DEF j
  <2>4. Counted(j, n)
    BY ZenonT(60), <2>3, WholesCount DEF Counted
  <2> HIDE DEF n
  <2>5. Counted(n, c)
    <3>1. Counted(n, ReleaseProc(n)) /\ Counted(n, SetCleanup(n, "workload", TRUE))
      BY Zenon, <2>4 DEF Counted, ReleaseProc, SetCleanup
    <3> QED
      BY ZenonT(60), <3>1
  <2> HIDE DEF c
  <2>6. Counted(c, d) /\ Counted(c, Step(c, "start-failed"))
    BY Zenon, <2>5, PartsCount DEF Counted
  <2> HIDE DEF d
  <2> QED
    BY ZenonT(60), <2>2, <2>3, <2>4, <2>5, <2>6, MaybeRestartCounts,
       GateFacts DEF Counted
<1>4. CASE ReadinessFailed
  <2> DEFINE t == [rt EXCEPT !.terminated = TRUE]
             r == SetCleanup(t, "workload", TRUE)
  <2>1. (rt' = r \/ rt' = Step(r, "start-failed"))
        /\ gate' = [gate EXCEPT !.pc = "unready", !.flag = rt.stopping]
    BY Zenon, <1>4 DEF ReadinessFailed
  <2>2. Counted(rt, t)
    BY Zenon, FieldsCount
  <2> HIDE DEF t
  <2>3. Counted(t, r)
    BY Zenon, <2>2 DEF Counted, SetCleanup
  <2> HIDE DEF r
  <2>4. Counted(r, Step(r, "start-failed"))
    BY ZenonT(60), <2>3, PartsCount DEF Counted
  <2>5. rt'.starts = rt.starts
    BY SMTT(60), <2>1, <2>2, <2>3, <2>4 DEF Counted
  <2>6. NoLaunch
    BY SMTT(60), <2>1 DEF NoLaunch, Gates
  <2> QED
    BY SMTT(60), <2>5, <2>6
<1>5. CASE ReadinessCleanup
  <2>1. PICK ok, closes \in BOOLEAN : ReadinessCleanup!(ok, closes)
    BY Zenon, <1>5 DEF ReadinessCleanup
  <2> DEFINE n == CloseNotify(rt, closes)
             r == IF ok THEN ReleaseFailed(n) ELSE n
  <2>2. (MaybeRestart(r, "failure") \/ rt' = r) /\ Return(TRUE)
    BY Zenon, <2>1
  <2>3. Counted(rt, n)
    BY Zenon, WholesCount
  <2> HIDE DEF n
  <2>4. Counted(n, r)
    BY Zenon, <2>3, WholesCount DEF Counted
  <2> HIDE DEF r
  <2> QED
    BY ZenonT(60), <2>2, <2>3, <2>4, MaybeRestartCounts, GateFacts DEF Counted
<1>6. CASE Activate
  <2> DEFINE a == Step(rt, "start-succeeded")
  <2>1. /\ \/ rt' = rt \/ rt' = a \/ rt' = [rt EXCEPT !.watchdog = gate.gen]
           \/ rt' = [a EXCEPT !.watchdog = gate.gen]
        /\ \E err : Return(err)
    BY Zenon, <1>6 DEF Activate
  <2>2. Counted(rt, a) /\ Counted(rt, [rt EXCEPT !.watchdog = gate.gen])
    BY Zenon, PartsCount, FieldsCount
  <2> HIDE DEF a
  <2>3. Counted(a, [a EXCEPT !.watchdog = gate.gen])
    BY Zenon, <2>2 DEF Counted
  <2> QED
    BY SMTT(60), <2>1, <2>2, <2>3, GateFacts DEF Counted
<1>7. CASE PublishStart
  BY SMTT(60), <1>7, CompleteCounts, GateFacts DEF PublishStart
<1>8. CASE AbandonStart
  <2>1. CASE CompleteStart(gate.id, rt, TRUE) /\ gate' = NoGate
    BY ZenonT(60), <2>1, CompleteCounts, GateFacts
  <2>2. CASE gate' = [gate EXCEPT !.pc = "stop"] /\ UNCHANGED rt
    BY <2>2 DEF NoLaunch, Gates
  <2> QED
    BY ZenonT(60), <1>8, <2>1, <2>2 DEF AbandonStart
<1> QED
  BY <1>1, <1>2, <1>3, <1>4, <1>5, <1>6, <1>7, <1>8

(* Stops and shutdown record nothing.                                        *)
LEMMA DisarmCounts ==
  ASSUME IInv, NEW j, Disarm(j)
  PROVE  CountKept
<1> DEFINE d == [rt EXCEPT !.stopping = TRUE, !.stopEpoch = @ + 1]
<1>1. rt' = CancelRestart(d) /\ gate' = FireCancels
  BY DEF Disarm
<1>2. Counted(rt, d)
  BY Zenon, CountFacts, PairsCount
<1> HIDE DEF d
<1>3. Counted(d, CancelRestart(d))
  BY ZenonT(60), <1>2, PartsCount DEF Counted
<1> QED
  BY SMTT(60), <1>1, <1>2, <1>3, CountFacts, GateFacts DEF Counted, CountKept

LEMMA StoppingCounts ==
  ASSUME IInv, Stopping
  PROVE  CountKept
<1> USE CountFacts DEF CountKept
<1>1. CASE AcceptStopCleanup
  <2> DEFINE d == [rt EXCEPT !.stopping = TRUE, !.gen = @ + 1, !.watchdog = 0]
             r == CancelRestart(d)
             c == IF r.proc # 0 THEN SetCleanup(r, "workload", TRUE) ELSE r
             t == Step(c, "stop-requested")
  <2>1. /\ rt' = SetCleanup(t, "notification", rt.notify # 0)
        /\ gate' = [gate EXCEPT !.pc = "kill", !.gen = rt.gen + 1, !.proc = rt.proc]
    BY Zenon, <1>1 DEF AcceptStopCleanup
  <2>2. Counted(rt, d)
    BY Zenon, PairsCount
  <2> HIDE DEF d
  <2>3. Counted(d, r)
    BY ZenonT(60), <2>2, PartsCount DEF Counted
  <2> HIDE DEF r
  <2>4. Counted(r, c)
    BY Zenon, <2>3 DEF Counted, SetCleanup
  <2> HIDE DEF c
  <2>5. Counted(c, t)
    BY ZenonT(60), <2>4, PartsCount DEF Counted
  <2> HIDE DEF t
  <2>6. Counted(t, SetCleanup(t, "notification", rt.notify # 0))
    BY Zenon, <2>5 DEF Counted, SetCleanup
  <2>7. rt'.starts = rt.starts
    BY SMTT(60), <2>1, <2>2, <2>3, <2>4, <2>5, <2>6 DEF Counted
  <2>8. NoLaunch
    BY SMTT(60), <2>1 DEF NoLaunch, Gates
  <2> QED
    BY SMTT(60), <2>7, <2>8
<1>2. CASE StopCleanup
  <2>1. PICK ok, closes \in BOOLEAN : StopCleanup!(ok, closes)
    BY Zenon, <1>2 DEF StopCleanup
  <2> DEFINE c == StopCleanupResult(rt, ok)
  <2>2. rt' = CloseNotify(c, closes) /\ gate' = NoGate
    BY Zenon, <2>1
  <2>3. Counted(rt, c)
    BY Zenon, WholesCount
  <2> HIDE DEF c
  <2>4. Counted(c, CloseNotify(c, closes))
    BY ZenonT(60), <2>3, WholesCount DEF Counted
  <2> QED
    BY SMTT(60), <2>2, <2>3, <2>4, GateFacts DEF Counted
<1>3. ASSUME NEW j \in StopIds, StopDeadline(j) \/ StopGate(j)
      PROVE  CountKept
  BY ZenonT(60), <1>3 DEF StopDeadline, StopGate, NoGate, NoLaunch
<1>4. ASSUME NEW s \in Workers, StopReadCapture(s)
      PROVE  CountKept
  BY <1>4 DEF StopReadCapture, NoLaunch
<1>5. ASSUME NEW s \in Workers, StopDrain(s)
      PROVE  CountKept
  <2>1. PICK complete \in BOOLEAN :
          rt' = JournalCompletion(rt, stop[s].capture, stop[s].waitGen, complete)
    BY <1>5 DEF StopDrain
  <2>2. Counted(rt, JournalCompletion(rt, stop[s].capture, stop[s].waitGen, complete))
    BY Zenon, WholesCount
  <2> QED
    BY <1>5, <2>1, <2>2 DEF StopDrain, NoLaunch, Counted
<1>6. ASSUME NEW s \in Workers, StopComplete(s)
      PROVE  CountKept
  <2> DEFINE e == IF stop[s].err THEN "start-failed" ELSE "stop-finished"
             r == IF ~(rt.gen = stop[s].gen /\ rt.proc \in {0, stop[s].proc}) THEN rt
                  ELSE Step(rt, e)
  <2>1. (CompleteStart(s, r, TRUE) \/ rt' = r) /\ gate' = gate
    BY Zenon, <1>6 DEF StopComplete
  <2>2. Counted(rt, r)
    BY Zenon, PartsCount
  <2> HIDE DEF r
  <2> QED
    BY ZenonT(60), <2>1, <2>2, CompleteCounts, GateFacts DEF Counted
<1> QED
  BY SMTT(60), <1>1, <1>2, <1>3, <1>4, <1>5, <1>6 DEF Stopping

(* Watchers, watchdog, reaper and the recovery's wait record nothing.        *)
LEMMA SupervisingCounts ==
  ASSUME IInv, Supervising
  PROVE  CountKept
<1> USE CountFacts DEF CountKept
<1>1. ASSUME NEW p \in watchers, WatchGate(p)
      PROVE  CountKept
  <2> DEFINE t == [rt EXCEPT !.terminated = FALSE, !.watchdog = 0]
  <2>1. \/ UNCHANGED <<rt, gate>>
        \/ /\ rt' = SetCleanup(t, "workload", TRUE)
           /\ gate' = [NoGate EXCEPT !.by = "watch", !.pc = "watch", !.gen = rt.gen,
                         !.proc = p, !.flag = rt.stopping \/ rt.terminated]
    BY Zenon, <1>1 DEF WatchGate
  <2>2. Counted(rt, t)
    BY Zenon, PairsCount
  <2> HIDE DEF t
  <2>3. Counted(t, SetCleanup(t, "workload", TRUE))
    BY Zenon, <2>2 DEF Counted, SetCleanup
  <2>4. rt'.starts = rt.starts
    BY ZenonT(60), <2>1, <2>2, <2>3 DEF Counted
  <2>5. NoLaunch
    BY ZenonT(60), <2>1 DEF NoLaunch, NoGate
  <2> QED
    BY SMTT(60), <2>4, <2>5
<1>2. ASSUME NEW e \in exits, ProcessExited(e)
      PROVE  CountKept
  <2>1. PICK kind \in {"success", "failure"} : ProcessExited(e)!(kind)
    BY Zenon, <1>2 DEF ProcessExited
  <2>2. /\ \/ rt' = rt \/ MaybeRestart(rt, kind) \/ rt' = Step(rt, "main-exited")
        /\ gate' = gate
    BY Zenon, <2>1
  <2>3. Counted(rt, Step(rt, "main-exited"))
    BY Zenon, PartsCount
  <2> QED
    BY ZenonT(60), <2>2, <2>3, MaybeRestartCounts, GateFacts DEF Counted
<1>3. ASSUME NEW g \in fired, WatchdogGate(g)
      PROVE  CountKept
  <2> DEFINE t == [rt EXCEPT !.terminated = TRUE, !.watchdog = 0]
             w == Step(t, "watchdog-failed")
  <2>1. \/ UNCHANGED <<rt, gate>>
        \/ /\ rt' = SetCleanup(w, "workload", rt.proc # 0)
           /\ gate' = [NoGate EXCEPT !.by = "watchdog", !.pc = "watchdog",
                                     !.gen = g, !.proc = rt.proc]
    BY Zenon, <1>3 DEF WatchdogGate
  <2>2. Counted(rt, t)
    BY Zenon, PairsCount
  <2> HIDE DEF t
  <2>3. Counted(t, w)
    BY ZenonT(60), <2>2, PartsCount DEF Counted
  <2> HIDE DEF w
  <2>4. Counted(w, SetCleanup(w, "workload", rt.proc # 0))
    BY Zenon, <2>3 DEF Counted, SetCleanup
  <2>5. rt'.starts = rt.starts
    BY SMTT(60), <2>1, <2>2, <2>3, <2>4 DEF Counted
  <2>6. NoLaunch
    BY ZenonT(60), <2>1 DEF NoLaunch, NoGate
  <2> QED
    BY <2>5, <2>6
<1>4. ASSUME NEW g \in rearms, WatchdogRestart(g)
      PROVE  CountKept
  <2>1. Counted(rt, AcceptRecovery(rt, g))
    BY Zenon, WholesCount
  <2> QED
    BY ZenonT(60), <1>4, <2>1, GateFacts DEF WatchdogRestart, Counted
<1>5. ASSUME NEW e \in reaps, ReapGate(e)
      PROVE  CountKept
  BY SMTT(60), <1>5 DEF ReapGate, NoGate, NoLaunch
<1>6. CASE WatchCleanup
  <2>1. PICK ok, closes \in BOOLEAN : WatchCleanup!(ok, closes)
    BY Zenon, <1>6 DEF WatchCleanup
  <2> DEFINE n == CloseNotify(rt, closes)
             r == IF ok THEN ReleaseProc(n) ELSE n
  <2>2. (rt' = r \/ rt' = Step(r, "start-failed")) /\ gate' = NoGate
    BY Zenon, <2>1
  <2>3. Counted(rt, n)
    BY Zenon, WholesCount
  <2> HIDE DEF n
  <2>4. Counted(n, r)
    BY Zenon, <2>3, PartsCount DEF Counted
  <2> HIDE DEF r
  <2>5. Counted(r, Step(r, "start-failed"))
    BY ZenonT(60), <2>4, PartsCount DEF Counted
  <2> QED
    BY SMTT(60), <2>2, <2>3, <2>4, <2>5, GateFacts DEF Counted
<1>7. CASE WatchdogFire \/ RecoveryGate
  BY ZenonT(60), <1>7, GateFacts DEF WatchdogFire, RecoveryGate
<1>8. CASE WatchdogCleanup
  <2>1. PICK ok, closes \in BOOLEAN : WatchdogCleanup!(ok, closes)
    BY Zenon, <1>8 DEF WatchdogCleanup
  <2> DEFINE n == CloseNotify(rt, closes)
  <2>2. (rt' = ReleaseFailed(n) \/ rt' = n) /\ gate' = NoGate
    BY Zenon, <2>1
  <2>3. Counted(rt, n)
    BY Zenon, WholesCount
  <2> HIDE DEF n
  <2>4. Counted(n, ReleaseFailed(n))
    BY ZenonT(60), <2>3, WholesCount DEF Counted
  <2> QED
    BY ZenonT(60), <2>2, <2>3, <2>4, GateFacts DEF Counted
<1>9. CASE ReapCleanup
  <2>1. (rt' = ReleaseProc(rt) \/ rt' = rt) /\ gate' = NoGate
    BY Zenon, <1>9 DEF ReapCleanup
  <2>2. Counted(rt, ReleaseProc(rt))
    BY Zenon, PartsCount
  <2> QED
    BY ZenonT(60), <2>1, <2>2, GateFacts DEF Counted
<1> QED
  BY SMTT(60), <1>1, <1>2, <1>3, <1>4, <1>5, <1>6, <1>7, <1>8, <1>9
     DEF Supervising

(* Requests record nothing.                                                  *)
LEMMA RequestsCounts ==
  ASSUME IInv, Requests
  PROVE  CountKept
<1> USE CountFacts DEF CountKept
<1>1. ASSUME NEW i \in Starts, StartAdmit(i) \/ StartGate(i)
      PROVE  CountKept
  BY SMTT(60), <1>1, GateFacts DEF StartAdmit, StartGate
<1>2. ASSUME NEW i \in Starts, CancelOperation(i)
      PROVE  CountKept
  <2>1. \/ rt' = CancelMember(rt) /\ gate' = FireCancels
        \/ UNCHANGED <<rt, gate>>
    BY Zenon, <1>2 DEF CancelOperation
  <2>2. Counted(rt, CancelMember(rt))
    BY Zenon, PartsCount
  <2> QED
    BY SMTT(60), <2>1, <2>2, GateFacts DEF Counted
<1>3. ASSUME NEW i \in Starts, StartRejected(i)
      PROVE  CountKept
  <2>1. (CompleteStart(i, rt, TRUE) \/ rt' = rt) /\ gate' = gate
    BY Zenon, <1>3 DEF StartRejected
  <2> QED
    BY ZenonT(60), <2>1, CompleteCounts, GateFacts
<1>4. ASSUME NEW j \in Stops, StopAdmit(j)
      PROVE  CountKept
  BY ZenonT(60), <1>4, DisarmCounts DEF StopAdmit
<1>5. CASE ShutdownPass
  <2>1. Disarm(Shutdown) \/ UNCHANGED <<rt, gate>>
    BY Zenon, <1>5 DEF ShutdownPass
  <2> QED
    BY SMTT(60), <2>1, DisarmCounts, GateFacts
<1>6. CASE Seal
  <2>1. PICK r : /\ r = CancelMember(rt) \/ r = rt
                 /\ \/ rt' = CancelRestart(Suspend(SetCleanup(r, "workload", TRUE)))
                    \/ rt' = CancelRestart(Suspend(r))
                 /\ gate' = FireCancels
    <3> DEFINE cancels == \E i \in Starts :
                            Running(i) /\ ~plan[i].cancelled /\ CancelsMember(i)
    <3>1. CASE cancels
      BY Zenon, <1>6, <3>1 DEF Seal
    <3>2. CASE ~cancels
      BY Zenon, <1>6, <3>2 DEF Seal
    <3> QED
      BY ZenonT(60), <3>1, <3>2
  <2>2. Counted(rt, r)
    BY ZenonT(60), <2>1, PartsCount DEF Counted
  <2> DEFINE c == SetCleanup(r, "workload", TRUE)
  <2>3. Counted(r, c)
    BY Zenon, <2>2 DEF Counted, SetCleanup
  <2>4. rt' = CancelRestart(Suspend(c)) \/ rt' = CancelRestart(Suspend(r))
    BY ZenonT(60), <2>1
  <2> HIDE DEF c
  <2>5. Counted(c, CancelRestart(Suspend(c))) /\ Counted(r, CancelRestart(Suspend(r)))
    BY Zenon, <2>2, <2>3 DEF Counted, CancelRestart, Suspend
  <2> QED
    BY ZenonT(60), <2>1, <2>2, <2>3, <2>4, <2>5, GateFacts DEF Counted
<1> QED
  BY SMTT(60), <1>1, <1>2, <1>3, <1>4, <1>5, <1>6 DEF Requests
-----------------------------------------------------------------------------
(* Between the decision to launch and its record one start is still free.    *)
Budget ==
  Burst > 0 => /\ rt.starts <= Burst
               /\ gate.pc \in {"evict", "record"} => rt.starts < Burst

LEMMA KeptBudget ==
  ASSUME IInv, Budget, CountKept
  PROVE  Budget'
BY ZenonT(60), ConfigAssumption, CountFacts DEF Budget, CountKept, NoLaunch

LEMMA AcceptBudget ==
  ASSUME IInv, Budget, LaunchAccepted
  PROVE  Budget'
<1>1. (gate.by = "start" /\ gate.id \notin Triggered) \/ ~StartLimitHit(rt.starts, Burst)
  <2>1. Verdict = "launch"
    BY DEF LaunchAccepted
  <2> QED
    BY ZenonT(60), <2>1 DEF Verdict
<1>2. Counted(rt, TakeOver(rt))
  BY Zenon, CountFacts, PartsCount
<1>3. \/ rt'.starts = rt.starts /\ ~(gate.by = "start" /\ gate.id \notin Triggered)
      \/ rt'.starts = 0
  <2>1. CASE gate.by = "start"
    <3> DEFINE t == TakeOver(rt)
               r == Readmit(t, gate.id)
    <3>1. rt' = CancelRestart(r)
      BY SMTT(60), <2>1 DEF LaunchAccepted
    <3> HIDE DEF t
    <3>2. "starts" \in DOMAIN r /\ r.starts = IF gate.id \in Triggered THEN t.starts ELSE 0
      BY Zenon, <1>2 DEF Readmit, Counted, t
    <3> HIDE DEF r
    <3>3. Counted(r, CancelRestart(r))
      BY ZenonT(60), <3>2, PartsCount
    <3> QED
      BY ZenonT(60), <1>2, <2>1, <3>1, <3>2, <3>3 DEF Counted, t
  <2>2. CASE gate.by # "start"
    BY SMTT(60), <1>2, <2>2 DEF LaunchAccepted, Counted
  <2> QED
    BY SMTT(60), <2>1, <2>2
<1> QED
  BY SMTT(60), <1>1, <1>3, ConfigAssumption, CountFacts DEF Budget,
     StartLimitHit

LEMMA EvictBudget ==
  ASSUME IInv, Budget, EvictPrevious
  PROVE  Budget'
<1>1. (rt' = ReleaseProc(rt) \/ rt' = rt) /\ gate.pc = "evict"
  BY Zenon DEF EvictPrevious
<1>2. Counted(rt, ReleaseProc(rt))
  BY Zenon, CountFacts, PartsCount
<1>3. rt'.starts = rt.starts
  BY SMTT(60), <1>1, <1>2 DEF Counted
<1> QED
  BY ZenonT(60), <1>1, <1>3, ConfigAssumption, CountFacts DEF Budget

LEMMA RecordBudget ==
  ASSUME IInv, Budget, RecordServiceLaunch
  PROVE  Budget'
<1>1. gate.pc = "record" /\ gate'.pc = "prepare"
  BY SMTT(60), CountFacts DEF RecordServiceLaunch, Gates
<1> DEFINE s == IF Type = "oneshot" THEN Step(rt, "start-requested") ELSE rt
<1>2. Counted(rt, s)
  BY Zenon, CountFacts, PartsCount
<1>3. rt' = rt \/ rt' = [s EXCEPT !.starts = RecordStart(@, Burst)]
  BY Zenon DEF RecordServiceLaunch
<1> HIDE DEF s
<1>4. [s EXCEPT !.starts = RecordStart(@, Burst)].starts = RecordStart(s.starts, Burst)
  BY Zenon, <1>2 DEF Counted
<1>5. rt'.starts = rt.starts \/ rt'.starts = RecordStart(rt.starts, Burst)
  BY SMTT(60), <1>2, <1>3, <1>4 DEF Counted
<1> QED
  BY SMTT(60), <1>1, <1>5, ConfigAssumption, CountFacts DEF Budget, RecordStart

LEMMA BudgetStep ==
  ASSUME IInv, Budget, [Next]_vars
  PROVE  Budget'
<1>1. CASE Launching
  BY SMTT(60), <1>1, AcceptBudget, EvictBudget, RecordBudget, LaunchCounts,
     CreateCounts, WaitCounts,
     KeptBudget DEF Launching
<1>2. CASE Stopping \/ Supervising \/ Requests
  BY SMTT(60), <1>2, StoppingCounts, SupervisingCounts, RequestsCounts,
     KeptBudget
<1>3. CASE (\E p \in tree : MainExit(p) \/ TreeExit(p)) \/ UNCHANGED vars
  <2>1. rt' = rt /\ gate' = gate
    BY ZenonT(60), <1>3 DEF MainExit, TreeExit, vars
  <2> QED
    BY SMTT(60), <2>1, KeptBudget DEF CountKept, NoLaunch
<1> QED
  BY SMTT(60), <1>1, <1>2, <1>3 DEF Next

(* Whatever the order of recoveries, triggered and explicit starts, stops    *)
(* and shutdown, launches stay within StartLimitBurst= (startLimitHit and    *)
(* recordStart are separate sections of m.mu, held together by the gate).    *)
THEOREM BurstsBounded == Spec => []StartBudgetKept
<1>1. Init => Budget
  <2> SUFFICES ASSUME Init PROVE Budget
    OBVIOUS
  <2>1. rt.starts = 0
    BY ZenonT(60) DEF Init
  <2>2. gate = NoGate
    BY ZenonT(60) DEF Init
  <2> QED
    BY <2>1, <2>2, NoGateFacts, ConfigAssumption DEF Budget
<1>2. IInv /\ Budget /\ [Next]_vars => Budget'
  BY BudgetStep
<1>3. Budget => StartBudgetKept
  BY DEF Budget, StartBudgetKept
<1> QED
  BY <1>1, <1>2, <1>3, Inductive, PTL DEF Spec
=============================================================================
