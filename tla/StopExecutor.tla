---------------------------- MODULE StopExecutor ----------------------------
(***************************************************************************)
(* The parallel executor of a stop or shutdown transaction:                *)
(* ExecuteStopWithLimit and the stopExecutor type of                       *)
(* internal/core/execute.go.  It is laid out like StartExecutor; it never  *)
(* looks at the context and lets no error keep a member from being         *)
(* stopped.                                                                *)
(***************************************************************************)
EXTENDS Integers, FiniteSets

CONSTANTS
  N,        \* the number of jobs, numbered in the sorted order of their names
  Workers   \* the worker limit of ExecuteStopWithLimit

Jobs == 1..N

VARIABLES
  waits,      \* tx.waitsFor: the jobs that must be stopped before this one
  state,      \* run.States
  errs,       \* the jobs that have an entry in run.Errors
  launched, released, remaining,   \* as in StartExecutor
  inflight,   \* the launched jobs whose result the loop has not received
  finished,   \* what the channel holds: <<job, the call succeeded>>
  pc, at      \* the executor's goroutine and the next job of its scan

books == <<state, errs, released, remaining>>
vars == <<waits, books, launched, inflight, finished, pc, at>>

-----------------------------------------------------------------------------
(* validate: the ordering among the jobs has no cycle.                     *)
Acyclic(w) ==
  \A S \in SUBSET Jobs \ {{}} : \E j \in S : w[j] \cap S = {}

Planned ==
  /\ state = [j \in Jobs |-> "active"]
  /\ errs = {} /\ launched = {} /\ released = {}
  /\ remaining = [j \in Jobs |-> Cardinality(waits[j])]
  /\ inflight = {} /\ finished = {}
  /\ pc = "planned" /\ at = 1

Init == waits \in {w \in [Jobs -> SUBSET Jobs] : Acyclic(w)} /\ Planned

(* The planned transaction is executed; its books are as in Planned.       *)
Execute == pc = "planned" /\ pc' = "scan" /\ UNCHANGED <<waits, books, launched, inflight, finished, at>>

-----------------------------------------------------------------------------
(* Mutant: a stop that failed releases nothing.                            *)
MarkDoneHeld(S, E) ==
  /\ errs' = errs \cup E
  /\ state' = [j \in Jobs |-> IF j \in S THEN "inactive" ELSE state[j]]
  /\ released' = released \cup (S \ E)
  /\ remaining' = [j \in Jobs |-> remaining[j] - Cardinality(waits[j] \cap (S \ E))]

(* markDone for the jobs of S, of which those of E carry an error, and the *)
(* releaseAfter it ends with (the one onFinish begins with is the same).   *)
MarkDone(S, E) ==
  /\ errs' = errs \cup E
  /\ state' = [j \in Jobs |-> IF j \in S THEN "inactive" ELSE state[j]]
  /\ released' = released \cup S
  /\ remaining' =
       [j \in Jobs |->
          LET left == remaining[j] - Cardinality(waits[j] \cap (S \ released))
          IN  IF left < 0 THEN 0 ELSE left]

(* Mutant: a unit is stopped before what must be down first.               *)
ReadyEarly(j) == j \notin launched

Ready(j) == j \notin launched /\ remaining[j] = 0

(* tryLaunch of the next job of the scan.                                  *)
Scan ==
  /\ pc = "scan" /\ at <= N /\ Cardinality(inflight) < Workers
  /\ \/ ~Ready(at) /\ UNCHANGED <<state, launched, inflight>>
     \/ /\ Ready(at)
        /\ launched' = launched \cup {at}
        /\ state' = [state EXCEPT ![at] = "deactivating"]
        /\ inflight' = inflight \cup {at}
  /\ at' = at + 1
  /\ UNCHANGED <<waits, errs, released, remaining, finished, pc>>

(* The scan is over; with nothing in flight the loop is left.              *)
ScanDone ==
  /\ pc = "scan" /\ (at > N \/ Cardinality(inflight) >= Workers)
  /\ pc' = IF inflight = {} THEN "sweep" ELSE "wait"
  /\ UNCHANGED <<waits, books, launched, inflight, finished, at>>

(* An adapter call returns and its goroutine sends the result.             *)
Return(j) ==
  /\ j \in inflight /\ \A ok \in BOOLEAN : <<j, ok>> \notin finished
  /\ \E ok \in BOOLEAN : finished' = finished \cup {<<j, ok>>}
  /\ UNCHANGED <<waits, books, launched, inflight, pc, at>>

(* The loop receives a result (onFinish) and scans again.                  *)
Receive ==
  /\ pc = "wait"
  /\ \E j \in inflight, ok \in BOOLEAN :
       /\ <<j, ok>> \in finished
       /\ finished' = finished \ {<<j, ok>>}
       /\ inflight' = inflight \ {j}
       /\ MarkDone({j}, IF ok THEN {} ELSE {j})
  /\ pc' = "scan" /\ at' = 1
  /\ UNCHANGED <<waits, launched>>

(* The closing sweep records what was never stopped.                       *)
Finish ==
  /\ pc = "sweep"
  /\ MarkDone(Jobs \ launched, Jobs \ launched)
  /\ pc' = "done"
  /\ UNCHANGED <<waits, launched, inflight, finished, at>>

Next ==
  \/ Execute
  \/ Scan
  \/ ScanDone
  \/ \E j \in Jobs : Return(j)
  \/ Receive
  \/ Finish

Spec == Init /\ [][Next]_vars

(* The executor's goroutine is never blocked for good, and every adapter   *)
(* call returns: a stop is bounded by TimeoutStopSec=.                     *)
Fairness ==
  /\ WF_vars(Execute \/ Scan \/ ScanDone \/ Receive \/ Finish)
  /\ \A j \in Jobs : WF_vars(Return(j))

FairSpec == Spec /\ Fairness

-----------------------------------------------------------------------------
(* The loop is left only when every planned member was stopped: the        *)
(* closing sweep's "was not stopped" error never happens for a plan        *)
(* without ordering cycles.                                                *)
NoneLeft == pc \in {"sweep", "done"} => launched = Jobs /\ inflight = {}

(* The stop executor keeps the contract of a transaction and never refuses *)
(* a job: a unit is stopped only after everything that must be down before *)
(* it has been stopped, even where one of those stops failed.              *)
Contract == INSTANCE TransactionContract WITH
  order <- waits,
  running <- inflight,
  settled <- launched \ inflight,
  refused <- {}

StopContractSpec == Contract!CSpec

(* Best-effort cleanup: a transaction that is executed ends with every      *)
(* planned member's stop called and returned, and the members left         *)
(* inactive, whichever of the calls fail.                                  *)
StopsAll ==
  []<>(pc # "planned" => pc = "done" /\ launched = Jobs /\ inflight = {} /\ \A j \in Jobs : state[j] = "inactive")
=============================================================================
