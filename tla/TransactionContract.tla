------------------------ MODULE TransactionContract ------------------------
(***************************************************************************)
(* What the executor of a transaction promises for every job of a plan:    *)
(* its adapter call happens at most once and only after every job it is    *)
(* ordered behind has settled; a job that is refused is refused instead of *)
(* called, once.                                                           *)
(* (internal/core/execute.go: the comments of ExecuteWithLimit and         *)
(* StartRejectionObserver.)                                                *)
(***************************************************************************)
CONSTANT Jobs

VARIABLES
  order,    \* the jobs each job is ordered behind
  running,  \* jobs whose adapter call is accepted and not yet accounted for
  settled,  \* jobs whose call has returned and was accounted for
  refused   \* jobs that were failed without a call

cvars == <<order, running, settled, refused>>

CInit ==
  /\ order \in [Jobs -> SUBSET Jobs]
  /\ running = {} /\ settled = {} /\ refused = {}

Queued == Jobs \ (running \cup settled \cup refused)

Begin(j) ==
  /\ j \in Queued
  /\ order[j] \subseteq settled \cup refused
  /\ running' = running \cup {j}
  /\ UNCHANGED <<order, settled, refused>>

(* Some queued jobs are refused, in one go.                                *)
Refuse ==
  /\ \E S \in SUBSET Queued : refused' = refused \cup S
  /\ UNCHANGED <<order, running, settled>>

(* A call returns; its failure may refuse queued jobs.                     *)
Settle(j) ==
  /\ j \in running
  /\ running' = running \ {j}
  /\ settled' = settled \cup {j}
  /\ \E S \in SUBSET Queued : refused' = refused \cup S
  /\ UNCHANGED order

CNext == Refuse \/ \E j \in Jobs : Begin(j) \/ Settle(j)

CSpec == CInit /\ [][CNext]_cvars
=============================================================================
