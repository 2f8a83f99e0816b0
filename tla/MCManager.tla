----------------------------- MODULE MCManager -----------------------------
(***************************************************************************)
(* Each history is one of the manager's operations, a watched unit with    *)
(* its hub or a notification endpoint with its watchdog, whose constants   *)
(* and variables are the module's own; the others rest where they start.   *)
(* So one run checks them all, and their numbers of states add up.         *)
(***************************************************************************)
EXTENDS NotifyPipe

VARIABLES
  part,   \* the component of this history
  opScene, opBound, opClosed, opRevision, opDir, opLinks, opGraph, opUnits,
  opRecs, opTasks, opCompleted, opFlights, opActive, opBoundStops, opGate,
  opClients, opWatcher, opConfig, opDown, opMissed,
  hubScene, hubLeft, hubRt, hubHubs, hubClosed, hubClosePending, hubGate,
  hubSt, hubSp, hubAtt, hubWaits, hubWorkers, hubCl, hubRevoked

Scenes == INSTANCE ManagerScenarios
Hosts == INSTANCE HostScenarios

NotifyScenes == Hosts!NotifyAll

(* The scenarios are of the kind the theorem of NotifyPipeProofs is about. *)
ASSUME NotifyScenariosSound == ScenariosSound

Op == INSTANCE Operations WITH
  Names <- {1, 2}, HistoryLimit <- 2, Scenarios <- Scenes!OpAll, scene <- opScene,
  bound <- opBound, closed <- opClosed, revision <- opRevision, dir <- opDir,
  links <- opLinks, graph <- opGraph, units <- opUnits, recs <- opRecs,
  tasks <- opTasks, completed <- opCompleted, flights <- opFlights,
  active <- opActive, boundStops <- opBoundStops, gate <- opGate,
  clients <- opClients, watcher <- opWatcher, config <- opConfig,
  down <- opDown, missed <- opMissed
Hub == INSTANCE WatchHub WITH
  Scenarios <- Scenes!Hubs, scene <- hubScene, left <- hubLeft, rt <- hubRt,
  hubs <- hubHubs, closed <- hubClosed, closePending <- hubClosePending,
  gate <- hubGate, st <- hubSt, sp <- hubSp, att <- hubAtt, waits <- hubWaits,
  workers <- hubWorkers, cl <- hubCl, revoked <- hubRevoked

opVars ==
  <<opScene, opBound, opClosed, opRevision, opDir, opLinks, opGraph, opUnits,
    opRecs, opTasks, opCompleted, opFlights, opActive, opBoundStops, opGate,
    opClients, opWatcher, opConfig, opDown, opMissed>>
hubVars ==
  <<hubScene, hubLeft, hubRt, hubHubs, hubClosed, hubClosePending, hubGate,
    hubSt, hubSp, hubAtt, hubWaits, hubWorkers, hubCl, hubRevoked>>
suiteVars == <<part, opVars, hubVars, vars>>

(* What rests while one component steps. *)
notOp == <<part, hubVars, vars>>
notHub == <<part, opVars, vars>>
notNotify == <<part, opVars, hubVars>>

SuiteInit ==
  /\ part \in {"operations", "hub", "notify"}
  /\ (IF part = "operations" THEN TRUE ELSE opScene = Scenes!OpWatched) /\ Op!Init
  /\ (IF part = "hub" THEN TRUE ELSE hubScene = Scenes!LostHub) /\ Hub!Init
  /\ (IF part = "notify" THEN TRUE ELSE scene = Hosts!NotifyHangs) /\ Init

SuiteNext ==
  \/ part = "operations" /\ Op!Next /\ UNCHANGED notOp
  \/ part = "hub" /\ Hub!Next /\ UNCHANGED notHub
  \/ part = "notify" /\ Next /\ UNCHANGED notNotify

SuiteSpec == SuiteInit /\ [][SuiteNext]_suiteVars

-----------------------------------------------------------------------------
(* A component that rests is in a state its own histories start from, so   *)
(* each property is evaluated in the histories of its component only.      *)

(* The books of the operations are exact after every cancellation,         *)
(* replacement, eviction, late answer and reload. No caller of start is    *)
(* answered with the outcome of a start admitted before a stop that the    *)
(* caller comes after (start_coalescing.go). A record's count of operations is *)
(* what really holds it, and a reload drops a record only when nothing     *)
(* runs under it, nothing is to be cleaned up and no operation will come   *)
(* back to it. The history loses no running operation, keeps the terminal  *)
(* ones it names and stays within its limit (finishOperationLocked). The   *)
(* accepted graph has exactly the loaded units with the ownership in       *)
(* force, also when links change while a reload builds its graph.          *)
OperationsBooked ==
  part = "operations" =>
    /\ Op!JoinSeesStops
    /\ Op!RefsBalanced
    /\ Op!IndexConsistent
    /\ Op!RecordsOwned
    /\ Op!GraphCovers

(* A shutdown that reports success leaves no process, nothing to clean up  *)
(* and no operation that could still start one; and a launch that was in   *)
(* flight when its operation was cancelled or timed out has been stopped,  *)
(* or its stop tried, when the operation is over.                          *)
ShutdownProves == part = "operations" => Op!ShutdownProves /\ Op!CancelledCleaned

(* Once the process of a unit is accepted as lost, no unit bound to it     *)
(* stays up unless its stop is on its way (queueBoundStopsLocked), with    *)
(* two exceptions: the loss came between the acceptance of the bound       *)
(* unit's launch and its publication, or the peer is stopped by an         *)
(* operation that had already passed the bound unit when a later start     *)
(* launched that one again.                                                *)
BoundHolds == part = "operations" => Op!BoundHolds

(* No start is launched for a unit after a stop of it was admitted that    *)
(* the start's admission precedes: explicit, by dependency, by restart or  *)
(* by cancellation.                                                        *)
StopPrecedence == Op!StopPrecedence

(* A hub with a watch still open always has an owner that will close it:   *)
(* the unit's record, the start still holding it, the manager's list, or   *)
(* the Close that took it (retainHubDisposal, closePass). A stop that      *)
(* reports success has every watch of the unit closed, even if it only     *)
(* joined an attempt begun by a reload, a failure or an earlier stop whose *)
(* caller gave up. Repeated reloads never pile up cleanup workers for one  *)
(* hub. And once a watch's arm ended, by a stop, a new start, a reload, a  *)
(* loss or shutdown, no change it saw before starts its companion, however *)
(* long the start waited (watchOrigin.validLocked at admission and at the  *)
(* gate).                                                                  *)
HubsSound ==
  /\ [](part = "hub" => Hub!HubsOwned /\ Hub!StopProves /\ Hub!OneReloadWorker)
  /\ Hub!NoLateActivation
=============================================================================
