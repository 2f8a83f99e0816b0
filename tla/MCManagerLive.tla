--------------------------- MODULE MCManagerLive ---------------------------
(***************************************************************************)
(* Liveness of the operations, the watches, the timer engine, the journal, *)
(* the daemon log, the floor commands and the stop executor, whose         *)
(* constants and variables are the module's own and whose safety is        *)
(* checked here too. Each history is one of these; the others rest where   *)
(* they start. So one run checks them all, and their numbers of states add *)
(* up.                                                                     *)
(***************************************************************************)
EXTENDS StopExecutor, Sequences

VARIABLES
  part,   \* the component of this history
  opScene, opBound, opClosed, opRevision, opDir, opLinks, opGraph, opUnits,
  opRecs, opTasks, opCompleted, opFlights, opActive, opBoundStops, opGate,
  opClients, opWatcher, opConfig, opDown, opMissed,
  hubScene, hubLeft, hubRt, hubHubs, hubClosed, hubClosePending, hubGate,
  hubSt, hubSp, hubAtt, hubWaits, hubWorkers, hubCl, hubRevoked,
  existsScene, existsLeft, existsFs, existsInner, existsPending, existsOpen,
  existsEw, existsClosed, existsOpMu, existsCh, existsArm, existsHub,
  existsClose, existsServed, existsOwed, existsBlind,
  nativeScene, nativeLeft, nativeClosed, nativeLoop, nativeIo, nativeHandle,
  nativeCh, nativeRegistered, nativeCb, nativeMu, nativeCloser, nativeOwed,
  nativePanicked,
  timerScene, timerArmed, timerCb, timerPlanner, timerCursor, timerLoader,
  timerIo, timerDisk, timerRunning, timerWall, timerMono, timerStarted,
  timerSignal, timerJumps, timerArms, timerIds, timerFaults,
  captureScene, captureStream, capturePrevious, captureMain, captureOffered,
  captureQueue, captureOrder, captureWork, captureDropped, captureStored,
  captureSynced, captureFile, captureObjects, captureWrites, captureSyncs,
  captureWaiter, captureClosing, captureWriter, captureFaults,
  storeScene, storeDisk, storeDurable, storeObject, storeOp, storeIndex,
  storePrune, storeScan, storeNext, storeAccepted, storeGone, storeRotations,
  storeRemoved, storeFaults, storeCrashes,
  logOffered, logQueue, logDropped, logRecent, logShutdown, logItem,
  logHandle, logSize, logFile, logArchive, logSynced, logEmitted, logFailed,
  logLost, logLoop, logFaults, logRestarts,
  servicingScene, servicingRecord, servicingLock, servicingCmd, servicingMan,
  servicingSvc, servicingDisk, servicingTx, servicingPrior, servicingWarned,
  servicingPromised, servicingTouched, servicingLeft

Scenes == INSTANCE ManagerScenarios

Op == INSTANCE Operations WITH
  Names <- {1, 2}, HistoryLimit <- 2, Scenarios <- Scenes!OpLive, scene <- opScene,
  bound <- opBound, closed <- opClosed, revision <- opRevision, dir <- opDir,
  links <- opLinks, graph <- opGraph, units <- opUnits, recs <- opRecs,
  tasks <- opTasks, completed <- opCompleted, flights <- opFlights,
  active <- opActive, boundStops <- opBoundStops, gate <- opGate,
  clients <- opClients, watcher <- opWatcher, config <- opConfig,
  down <- opDown, missed <- opMissed
Hub == INSTANCE WatchHub WITH
  Scenarios <- Scenes!HubsLive, scene <- hubScene, left <- hubLeft, rt <- hubRt,
  hubs <- hubHubs, closed <- hubClosed, closePending <- hubClosePending,
  gate <- hubGate, st <- hubSt, sp <- hubSp, att <- hubAtt, waits <- hubWaits,
  workers <- hubWorkers, cl <- hubCl, revoked <- hubRevoked
Path == INSTANCE ExistsWatch WITH
  Scenarios <- Scenes!PathsLive, scene <- existsScene, left <- existsLeft,
  fs <- existsFs, inner <- existsInner, pending <- existsPending,
  open <- existsOpen, ew <- existsEw, closed <- existsClosed,
  opMu <- existsOpMu, ch <- existsCh, arm <- existsArm, hub <- existsHub,
  close <- existsClose, served <- existsServed, owed <- existsOwed,
  blind <- existsBlind
Native == INSTANCE NativeWatch WITH
  Closers <- {"p", "q"}, Callbacks <- {1, 2}, Scenarios <- Scenes!Natives,
  scene <- nativeScene, left <- nativeLeft, closed <- nativeClosed,
  loop <- nativeLoop, io <- nativeIo, handle <- nativeHandle, ch <- nativeCh,
  registered <- nativeRegistered, cb <- nativeCb, mu <- nativeMu,
  closer <- nativeCloser, owed <- nativeOwed, panicked <- nativePanicked
Timer == INSTANCE TimerEngine WITH
  N <- 2, Callbacks <- 2, MaxTime <- 3, Scenarios <- Scenes!TimerLive,
  scene <- timerScene, armed <- timerArmed, cb <- timerCb,
  planner <- timerPlanner, cursor <- timerCursor, loader <- timerLoader,
  io <- timerIo, disk <- timerDisk, running <- timerRunning,
  wall <- timerWall, mono <- timerMono, started <- timerStarted,
  signal <- timerSignal, jumps <- timerJumps, arms <- timerArms,
  ids <- timerIds, faults <- timerFaults
Capture == INSTANCE JournalCapture WITH
  Captures <- Scenes!Captures, UnitOf <- Scenes!UnitOf, Sizes <- {1, 2},
  QueueRecords <- 3, InvocationRecords <- 3, QueueBytes <- 4, QueueGroups <- 2,
  InvocationBytes <- 4, SyncSlots <- 1, Scenarios <- Scenes!FlowsLive,
  scene <- captureScene, stream <- captureStream, previous <- capturePrevious,
  main <- captureMain, offered <- captureOffered, queue <- captureQueue,
  order <- captureOrder, work <- captureWork, dropped <- captureDropped,
  stored <- captureStored, synced <- captureSynced, file <- captureFile,
  objects <- captureObjects, writes <- captureWrites, syncs <- captureSyncs,
  waiter <- captureWaiter, closing <- captureClosing, writer <- captureWriter,
  faults <- captureFaults
Store == INSTANCE JournalFile WITH
  Units <- {"u", "v"}, Keep <- 2, MaxSize <- 4, BufferSize <- 4,
  MaxDiskSize <- 10, MaxDiskFiles <- 3, Scenarios <- Scenes!StoresLive, scene <- storeScene,
  disk <- storeDisk, durable <- storeDurable, object <- storeObject,
  op <- storeOp, index <- storeIndex, prune <- storePrune, scan <- storeScan,
  next <- storeNext, accepted <- storeAccepted, gone <- storeGone,
  rotations <- storeRotations, removed <- storeRemoved, faults <- storeFaults,
  crashes <- storeCrashes
Log == INSTANCE DaemonLog WITH
  QueueRecords <- 2, QueueBytes <- 3, FileBytes <- 3, RecentRecords <- 2,
  Size <- <<1, 2, 2, 1>>,
  Faults <- 1, Restarts <- 1, offered <- logOffered, queue <- logQueue,
  dropped <- logDropped, recent <- logRecent, shutdown <- logShutdown,
  item <- logItem, handle <- logHandle, size <- logSize, file <- logFile,
  archive <- logArchive, synced <- logSynced, emitted <- logEmitted,
  failed <- logFailed, lost <- logLost, loop <- logLoop, faults <- logFaults,
  restarts <- logRestarts
Svc == INSTANCE Servicing WITH
  Managers <- 1..4, Scenarios <- Scenes!SvcLive, scene <- servicingScene,
  record <- servicingRecord, lock <- servicingLock, cmd <- servicingCmd,
  man <- servicingMan, svc <- servicingSvc, disk <- servicingDisk,
  tx <- servicingTx, prior <- servicingPrior, warned <- servicingWarned,
  promised <- servicingPromised, touched <- servicingTouched,
  left <- servicingLeft

opVars ==
  <<opScene, opBound, opClosed, opRevision, opDir, opLinks, opGraph, opUnits,
    opRecs, opTasks, opCompleted, opFlights, opActive, opBoundStops, opGate,
    opClients, opWatcher, opConfig, opDown, opMissed>>
hubVars ==
  <<hubScene, hubLeft, hubRt, hubHubs, hubClosed, hubClosePending, hubGate,
    hubSt, hubSp, hubAtt, hubWaits, hubWorkers, hubCl, hubRevoked>>
existsVars ==
  <<existsScene, existsLeft, existsFs, existsInner, existsPending, existsOpen,
    existsEw, existsClosed, existsOpMu, existsCh, existsArm, existsHub,
    existsClose, existsServed, existsOwed, existsBlind>>
nativeVars ==
  <<nativeScene, nativeLeft, nativeClosed, nativeLoop, nativeIo, nativeHandle,
    nativeCh, nativeRegistered, nativeCb, nativeMu, nativeCloser, nativeOwed,
    nativePanicked>>
timerVars ==
  <<timerScene, timerArmed, timerCb, timerPlanner, timerCursor, timerLoader,
    timerIo, timerDisk, timerRunning, timerWall, timerMono, timerStarted,
    timerSignal, timerJumps, timerArms, timerIds, timerFaults>>
captureVars ==
  <<captureScene, captureStream, capturePrevious, captureMain, captureOffered,
    captureQueue, captureOrder, captureWork, captureDropped, captureStored,
    captureSynced, captureFile, captureObjects, captureWrites, captureSyncs,
    captureWaiter, captureClosing, captureWriter, captureFaults>>
storeVars ==
  <<storeScene, storeDisk, storeDurable, storeObject, storeOp, storeIndex,
    storePrune, storeScan, storeNext, storeAccepted, storeGone,
    storeRotations, storeRemoved, storeFaults, storeCrashes>>
logVars ==
  <<logOffered, logQueue, logDropped, logRecent, logShutdown, logItem,
    logHandle, logSize, logFile, logArchive, logSynced, logEmitted, logFailed,
    logLost, logLoop, logFaults, logRestarts>>
servicingVars ==
  <<servicingScene, servicingRecord, servicingLock, servicingCmd,
    servicingMan, servicingSvc, servicingDisk, servicingTx, servicingPrior,
    servicingWarned, servicingPromised, servicingTouched, servicingLeft>>
suiteVars ==
  <<part,
    opVars, hubVars, existsVars, nativeVars, timerVars, captureVars,
    storeVars, logVars, servicingVars, vars>>

(* What rests while one component steps. *)
notOp == <<part, hubVars, existsVars, nativeVars, timerVars, captureVars, storeVars,
    logVars, servicingVars, vars>>
notHub == <<part, opVars, existsVars, nativeVars, timerVars, captureVars, storeVars,
    logVars, servicingVars, vars>>
notExists == <<part, opVars, hubVars, nativeVars, timerVars, captureVars, storeVars, logVars,
    servicingVars, vars>>
notNative == <<part, opVars, hubVars, existsVars, timerVars, captureVars, storeVars, logVars,
    servicingVars, vars>>
notTimer == <<part, opVars, hubVars, existsVars, nativeVars, captureVars, storeVars, logVars,
    servicingVars, vars>>
notCapture == <<part, opVars, hubVars, existsVars, nativeVars, timerVars, storeVars, logVars,
    servicingVars, vars>>
notStore == <<part, opVars, hubVars, existsVars, nativeVars, timerVars, captureVars, logVars,
    servicingVars, vars>>
notLog == <<part, opVars, hubVars, existsVars, nativeVars, timerVars, captureVars,
    storeVars, servicingVars, vars>>
notServicing == <<part, opVars, hubVars, existsVars, nativeVars, timerVars, captureVars,
    storeVars, logVars, vars>>
notStop == <<part, opVars, hubVars, existsVars, nativeVars, timerVars, captureVars,
    storeVars, logVars, servicingVars>>
InStore(A) == part = "store" /\ A /\ UNCHANGED notStore
InStop(A) == part = "stop" /\ A /\ UNCHANGED notStop

SuiteInit ==
  /\ part \in {"operations", "hub", "exists", "native", "timer", "capture",
               "store", "log", "servicing", "stop"}
  /\ (IF part = "operations" THEN TRUE ELSE opScene = Scenes!OpDies) /\ Op!Init
  /\ (IF part = "hub" THEN TRUE ELSE hubScene = Scenes!LostHub) /\ Hub!Init
  /\ (IF part = "exists" THEN TRUE ELSE existsScene = Scenes!ShortPath) /\ Path!Init
  /\ (IF part = "native" THEN TRUE ELSE nativeScene = Scenes!NativeHistory("dir")) /\ Native!Init
  /\ (IF part = "timer" THEN TRUE ELSE timerScene = Scenes!TimerEdited) /\ Timer!Init
  /\ (IF part = "capture" THEN TRUE ELSE captureScene = Scenes!BriefFlow) /\ Capture!Init
  /\ (IF part = "store" THEN TRUE ELSE storeScene = Scenes!FreshStore) /\ Store!Init
  /\ Log!Init
  /\ (IF part = "servicing" THEN TRUE ELSE servicingScene = Scenes!SvcRaise) /\ Svc!Init
  /\ IF part = "stop" THEN Init ELSE waits = [j \in Jobs |-> {}] /\ Planned

SuiteNext ==
  \/ part = "operations" /\ Op!Next /\ UNCHANGED notOp
  \/ part = "hub" /\ Hub!Next /\ UNCHANGED notHub
  \/ part = "exists" /\ Path!Next /\ UNCHANGED notExists
  \/ part = "native" /\ Native!Next /\ UNCHANGED notNative
  \/ part = "timer" /\ Timer!Next /\ UNCHANGED notTimer
  \/ part = "capture" /\ Capture!Next /\ UNCHANGED notCapture
  \/ part = "store" /\ Store!Next /\ UNCHANGED notStore
  \/ part = "log" /\ Log!Next /\ UNCHANGED notLog
  \/ part = "servicing" /\ Svc!Next /\ UNCHANGED notServicing
  \/ part = "stop" /\ Next /\ UNCHANGED notStop

SuiteSpec == SuiteInit /\ [][SuiteNext]_suiteVars

SuiteProgress ==
  \/ part = "operations" /\ Op!Progress /\ UNCHANGED notOp
  \/ part = "hub" /\ Hub!Progress /\ UNCHANGED notHub
  \/ part = "exists" /\ Path!Progress /\ UNCHANGED notExists
  \/ part = "native" /\ Native!Progress /\ UNCHANGED notNative
  \/ part = "timer" /\ Timer!Progress /\ UNCHANGED notTimer
  \/ part = "capture" /\ Capture!Progress /\ UNCHANGED notCapture
  \/ part = "log" /\ Log!Progress /\ UNCHANGED notLog
  \/ part = "servicing" /\ Svc!Progress /\ UNCHANGED notServicing
SuiteFairSpec ==
  /\ SuiteSpec
  /\ WF_suiteVars(SuiteProgress)
  /\ WF_suiteVars(InStore(Store!IndexDisk))
  /\ WF_suiteVars(InStore(\E name \in Store!Names : Store!PruneOne(name)))
  /\ \A u \in {"u", "v"} : WF_suiteVars(InStore(Store!Step(u)))
  /\ WF_suiteVars(InStop(\/ Execute \/ Scan \/ ScanDone
                           \/ Receive \/ Finish))
  /\ \A j \in Jobs : WF_suiteVars(InStop(Return(j)))

-----------------------------------------------------------------------------
(* Every accepted operation ends, whatever fails, is cancelled or dies. A  *)
(* unit whose peer is gone does not stay up: its queued stop is carried    *)
(* out, with the exceptions of BoundHolds. A watch that fired while every  *)
(* start slot was taken starts its unit when one is free. And a stop       *)
(* transaction ends with every planned member's stop called and returned,  *)
(* whichever of the calls fail.                                            *)
OperationsProgress ==
  /\ Op!OperationsEnd
  /\ Op!BoundStopsEnd
  /\ Op!WatchActivates
  /\ StopsAll


(* A timer that is due, loading or being planned does not stay so. Once    *)
(* its streams have ended a capture completes: its records are written or  *)
(* dropped, and the next invocation of the unit can begin. Every journal   *)
(* write and sync ends: no failed rotation, repair or removal leaves a     *)
(* unit's lock taken or its writer in a loop. A daemon log that is asked   *)
(* to close comes to its end; floor commands return and transactions end.  *)
WorkersProgress ==
  /\ Timer!TimersSettle
  /\ Capture!CapturesComplete
  /\ Store!OperationsEnd
  /\ Log!CloseEnds
  /\ Svc!CommandsEnd
=============================================================================
