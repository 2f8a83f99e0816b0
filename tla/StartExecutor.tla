--------------------------- MODULE StartExecutor ---------------------------
(***************************************************************************)
(* The parallel executor of a start transaction: ExecuteWithLimit and the  *)
(* executor type of internal/core/execute.go.  One goroutine owns the      *)
(* bookkeeping and loops; every Starter.Start call runs in a goroutine of  *)
(* its own and answers on the channel "finished".                          *)
(*                                                                         *)
(* The jobs are numbered in the sorted order of their names, which is the  *)
(* order the loop scans them in.  The plan (ordering and requirement edges *)
(* among the jobs) is chosen once, in Init: any acyclic ordering and any   *)
(* requirement edges can come out of PlanStart, whose roots may be all the *)
(* jobs (TransactionPlan models the planner).                              *)
(***************************************************************************)
EXTENDS Integers, FiniteSets

CONSTANTS
  N,        \* the number of jobs of the transaction
  Workers   \* the worker limit of ExecuteWithLimit

ASSUME JobsAssumption == N \in Nat \ {0}
ASSUME WorkersAssumption == Workers \in Nat \ {0}

Jobs == 1..N
States == {"inactive", "activating", "active", "failed"}
Results == {"ok", "skipped", "failed"}

VARIABLES
  waits,      \* tx.waitsFor: the jobs that must settle before this one starts
  requires,   \* startRequireNames of each job, restricted to the transaction
  state,      \* run.States
  errs,       \* the jobs that have an entry in run.Errors
  launched,   \* executor.launched
  released,   \* executor.released
  remaining,  \* executor.remaining
  inflight,   \* the launched jobs whose result the loop has not received
  finished,   \* what the channel holds: <<job, result>>
  rejected,   \* how often StartRejected was called for each job
  cancelled,  \* ctx.Err() # nil
  pc,         \* where the executor's goroutine is
  at          \* the next job of the scan

plan == <<waits, requires>>
books == <<state, errs, launched, released, remaining, rejected>>
vars == <<plan, books, inflight, finished, cancelled, pc, at>>

-----------------------------------------------------------------------------
(* validate: the ordering among the jobs has no cycle.                     *)
Acyclic(w) ==
  \A S \in SUBSET Jobs \ {{}} : \E j \in S : w[j] \cap S = {}

Plans == [Jobs -> SUBSET Jobs]

Init ==
  /\ waits \in {w \in Plans : Acyclic(w)}
  /\ requires \in {r \in Plans : \A j \in Jobs : j \notin r[j]}  \* itself: no effect
  /\ state = [j \in Jobs |-> "inactive"]
  /\ errs = {}
  /\ launched = {}
  /\ released = {}
  /\ remaining = [j \in Jobs |-> Cardinality(waits[j])]
  /\ inflight = {}
  /\ finished = {}
  /\ rejected = [j \in Jobs |-> 0]
  /\ cancelled = FALSE
  /\ pc = "check"
  /\ at = 1

-----------------------------------------------------------------------------
(* Mutant: a job whose call is running is passed over.                     *)
QueuedOnly(j) == state[j] = "inactive"

NotYetStarted(j) == state[j] \in {"inactive", "activating"}

RequiresFailed(j) == requires[j] \cap errs # {}

(* Mutant: a failure reaches active requirers too.                         *)
SpreadsToActive(C) ==
  \A j \in C \ errs, k \in Jobs : j \in requires[k] => k \in C

(* Who markFailed reaches from the jobs of S: from a job that had no error *)
(* yet the recursion goes on to the jobs that require it and have not      *)
(* started; a job with an error is set to failed and passes nothing on.    *)
Spreads(C) ==
  \A j \in C \ errs, k \in Jobs :
    j \in requires[k] /\ NotYetStarted(k) => k \in C

Doomed(S) ==
  {j \in Jobs : \A C \in SUBSET Jobs : S \subseteq C /\ Spreads(C) => j \in C}

(* releaseAfter for the jobs of S that are not released yet.               *)
Release(S) ==
  /\ released' = released \cup S
  /\ remaining' =
       [j \in Jobs |->
          LET left == remaining[j] - Cardinality(waits[j] \cap (S \ released))
          IN  IF left < 0 THEN 0 ELSE left]

(* Mutant: a rejected job does not release what waits for it.              *)
FailUnreleased(S, F) ==
  LET lost == Doomed(S) \ (errs \cup launched)
  IN  /\ state' = [j \in Jobs |-> IF j \in Doomed(S) THEN "failed" ELSE state[j]]
      /\ errs' = errs \cup Doomed(S)
      /\ rejected' = [j \in Jobs |-> rejected[j] + (IF j \in lost THEN 1 ELSE 0)]
      /\ Release(F)
      /\ UNCHANGED launched

(* markFailed for the jobs of S, after the jobs of F were released: a      *)
(* failed job that was never launched is rejected and released.            *)
Fail(S, F) ==
  LET lost == Doomed(S) \ (errs \cup launched)
  IN  /\ state' = [j \in Jobs |-> IF j \in Doomed(S) THEN "failed" ELSE state[j]]
      /\ errs' = errs \cup Doomed(S)
      /\ rejected' = [j \in Jobs |-> rejected[j] + (IF j \in lost THEN 1 ELSE 0)]
      /\ Release(F \cup lost)
      /\ UNCHANGED launched

(* onFinish                                                                *)
OnFinish(j, result) ==
  \/ /\ result = "skipped"
     /\ state' = [state EXCEPT ![j] = "inactive"]
     /\ Release({j})
     /\ UNCHANGED <<errs, launched, rejected>>
  \/ /\ \/ result = "failed"
        \/ result = "ok" /\ state[j] # "failed" /\ RequiresFailed(j)
     /\ Fail({j}, {j})
  \/ /\ result = "ok" /\ (state[j] = "failed" \/ ~RequiresFailed(j))
     /\ state' = [state EXCEPT ![j] = IF @ = "failed" THEN @ ELSE "active"]
     /\ Release({j})
     /\ UNCHANGED <<errs, launched, rejected>>

-----------------------------------------------------------------------------
(* What is still queued.                                                   *)
Unstarted == {j \in Jobs : state[j] = "inactive" /\ j \notin launched}

(* The caller's context ends.                                              *)
Cancel ==
  /\ ~cancelled /\ pc # "done"
  /\ cancelled' = TRUE
  /\ UNCHANGED <<plan, books, inflight, finished, pc, at>>

(* The top of the loop: the context is looked at once per round.           *)
Check ==
  /\ pc = "check"
  /\ IF cancelled
       THEN /\ Fail(Unstarted, {})
            /\ pc' = "drain"
       ELSE pc' = "scan" /\ UNCHANGED books
  /\ at' = 1
  /\ UNCHANGED <<plan, inflight, finished, cancelled>>

(* Mutant: a job is launched before what it waits for has settled.         *)
ReadyEarly(j) == j \notin launched /\ state[j] # "failed"

(* tryLaunch of the next job of the scan.                                  *)
Ready(j) == j \notin launched /\ state[j] # "failed" /\ remaining[j] = 0

Launch(j) ==
  /\ launched' = launched \cup {j}
  /\ state' = [state EXCEPT ![j] = "activating"]
  /\ UNCHANGED <<errs, released, remaining, rejected>>

Scan ==
  /\ pc = "scan" /\ at <= N /\ Cardinality(inflight) < Workers
  /\ \/ ~Ready(at) /\ UNCHANGED <<books, inflight>>
     \/ /\ Ready(at)
        /\ IF RequiresFailed(at) THEN Fail({at}, {}) ELSE Launch(at)
        /\ inflight' = IF RequiresFailed(at) THEN inflight ELSE inflight \cup {at}
  /\ at' = at + 1
  /\ UNCHANGED <<plan, finished, cancelled, pc>>

(* Mutant: the loop waits although nothing is in flight.                   *)
ScanWaits ==
  /\ pc = "scan" /\ (at > N \/ Cardinality(inflight) >= Workers)
  /\ pc' = "wait"
  /\ UNCHANGED <<plan, books, inflight, finished, cancelled, at>>

(* The scan is over; with nothing in flight the loop is left.              *)
ScanDone ==
  /\ pc = "scan" /\ (at > N \/ Cardinality(inflight) >= Workers)
  /\ pc' = IF inflight = {} THEN "drain" ELSE "wait"
  /\ UNCHANGED <<plan, books, inflight, finished, cancelled, at>>

(* An adapter call returns and its goroutine sends the result.             *)
Return(j) ==
  /\ j \in inflight /\ \A r \in Results : <<j, r>> \notin finished
  /\ \E r \in Results : finished' = finished \cup {<<j, r>>}
  /\ UNCHANGED <<plan, books, inflight, cancelled, pc, at>>

(* The loop, or the drain behind it, receives a result.                    *)
Receive ==
  /\ pc \in {"wait", "drain"}
  /\ \E j \in inflight, r \in Results :
       /\ <<j, r>> \in finished
       /\ finished' = finished \ {<<j, r>>}
       /\ inflight' = inflight \ {j}
       /\ OnFinish(j, r)
  /\ pc' = IF pc = "wait" THEN "check" ELSE "drain"
  /\ UNCHANGED <<plan, cancelled, at>>

(* The sweep after the loop fails what was never started.                  *)
Finish ==
  /\ pc = "drain" /\ inflight = {}
  /\ Fail(Unstarted, {})
  /\ pc' = "done"
  /\ UNCHANGED <<plan, inflight, finished, cancelled, at>>

Next ==
  \/ Cancel
  \/ Check
  \/ Scan
  \/ ScanDone
  \/ \E j \in Jobs : Return(j)
  \/ Receive
  \/ Finish

Spec == Init /\ [][Next]_vars

(* The executor's goroutine is never blocked for good, and every adapter   *)
(* call returns: the manager's Start adapters end by TimeoutStartSec=, by   *)
(* the caller's context or by the end of the process they wait for.  The   *)
(* end of the context is not owed.                                         *)
Fairness ==
  /\ WF_vars(Check \/ Scan \/ ScanDone \/ Receive \/ Finish)
  /\ \A j \in Jobs : WF_vars(Return(j))

FairSpec == Spec /\ Fairness

-----------------------------------------------------------------------------
(* The variables range over what the executor keeps in them.               *)
TypeOK ==
  /\ waits \in Plans /\ requires \in Plans
  /\ state \in [Jobs -> States]
  /\ errs \subseteq Jobs /\ launched \subseteq Jobs /\ released \subseteq Jobs
  /\ remaining \in [Jobs -> Nat] /\ rejected \in [Jobs -> Nat]
  /\ inflight \subseteq Jobs /\ finished \subseteq Jobs \X Results
  /\ cancelled \in BOOLEAN
  /\ pc \in {"check", "scan", "wait", "drain", "done"}
  /\ at \in 1..(N + 1)

(* A job that requires a failed job has failed too, unless it was active   *)
(* already: no failure is missed, however the calls overlap, and so        *)
(* nothing is started on top of a failed requirement.  (markFailed's       *)
(* recursion against calls that are in flight.)                            *)
FailureSpreads ==
  \A j \in Jobs : RequiresFailed(j) => j \in errs \/ state[j] = "active"

(* The loop is left only when every job was started or failed for a        *)
(* reason: the closing sweep's "was not started" error never happens for a *)
(* plan without ordering cycles.                                           *)
NoneForgotten == pc = "drain" => Unstarted = {}

(* A unit that became active stays active in the outcome and carries no    *)
(* error, whatever fails later ("already-Active requirers are left         *)
(* running").                                                              *)
ActiveKept ==
  [][\A j \in Jobs : state[j] = "active" => state'[j] = "active" /\ j \notin errs']_vars

(* The executor keeps the contract of a transaction: one call or one       *)
(* rejection per job, calls in plan order.                                 *)
Contract == INSTANCE TransactionContract WITH
  order <- waits,
  running <- inflight,
  settled <- launched \ inflight,
  refused <- {j \in Jobs : rejected[j] > 0}

ContractSpec == Contract!CSpec

(* Every transaction ends, with each job called or rejected exactly once.  *)
Terminates ==
  []<>(pc = "done" /\ \A j \in Jobs : rejected[j] = IF j \in launched THEN 0 ELSE 1)

(* A unit whose start was skipped "stays inactive and is not failed"       *)
(* (internal/core/skip.go).                                                *)
SkippedStays ==
  [][\A j \in launched \ inflight : state[j] = "inactive" => state'[j] = "inactive"]_vars
=============================================================================
