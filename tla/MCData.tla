------------------------------ MODULE MCData ------------------------------
(***************************************************************************)
(* Each history is one of a unit process, whose constants and variables    *)
(* are the module's own, the timer engine, the calendar search, the        *)
(* journal's capture, the floor record, servicing, the migration tool, an  *)
(* existence watch or a native watch; the others rest where they start. So *)
(* one run checks them all, and their numbers of states add up.            *)
(***************************************************************************)
EXTENDS UnitProcess

VARIABLES
  part,   \* the component of this history
  timerScene, timerArmed, timerCb, timerPlanner, timerCursor, timerLoader,
  timerIo, timerDisk, timerRunning, timerWall, timerMono, timerStarted,
  timerSignal, timerJumps, timerArms, timerIds, timerFaults,
  calendarQuery, calendarAnswer,
  captureScene, captureStream, capturePrevious, captureMain, captureOffered,
  captureQueue, captureOrder, captureWork, captureDropped, captureStored,
  captureSynced, captureFile, captureObjects, captureWrites, captureSyncs,
  captureWaiter, captureClosing, captureWriter, captureFaults,
  floorQuery, floorAnswer,
  servicingScene, servicingRecord, servicingLock, servicingCmd, servicingMan,
  servicingSvc, servicingDisk, servicingTx, servicingPrior, servicingWarned,
  servicingPromised, servicingTouched, servicingLeft,
  migrateScene, migrateFx, migrateFxTorn, migratePilot, migrateDest,
  migrateReal, migrateStarted, migrateBk, migrateCmd, migrateOrigin,
  migrateLeft,
  existsScene, existsLeft, existsFs, existsInner, existsPending, existsOpen,
  existsEw, existsClosed, existsOpMu, existsCh, existsArm, existsHub,
  existsClose, existsServed, existsOwed, existsBlind,
  nativeScene, nativeLeft, nativeClosed, nativeLoop, nativeIo, nativeHandle,
  nativeCh, nativeRegistered, nativeCb, nativeMu, nativeCloser, nativeOwed,
  nativePanicked

Scenes == INSTANCE ManagerScenarios
Inputs == INSTANCE DataInputs
Hosts == INSTANCE HostScenarios

ProcScenes == Hosts!ProcAll

Timer == INSTANCE TimerEngine WITH
  N <- 2, Callbacks <- 2, MaxTime <- 3, Scenarios <- Scenes!TimerAll,
  scene <- timerScene, armed <- timerArmed, cb <- timerCb,
  planner <- timerPlanner, cursor <- timerCursor, loader <- timerLoader,
  io <- timerIo, disk <- timerDisk, running <- timerRunning,
  wall <- timerWall, mono <- timerMono, started <- timerStarted,
  signal <- timerSignal, jumps <- timerJumps, arms <- timerArms,
  ids <- timerIds, faults <- timerFaults
Cal == INSTANCE Calendar WITH
  Slots <- 3, Exprs <- Inputs!CalExprs, Zones <- Inputs!CalZones, Starts <- Inputs!CalStarts,
  query <- calendarQuery, answer <- calendarAnswer
Capture == INSTANCE JournalCapture WITH
  Captures <- Scenes!Captures, UnitOf <- Scenes!UnitOf, Sizes <- {1, 2},
  QueueRecords <- 3, InvocationRecords <- 3, QueueBytes <- 4, QueueGroups <- 2,
  InvocationBytes <- 4, SyncSlots <- 1, Scenarios <- Scenes!Flows,
  scene <- captureScene, stream <- captureStream, previous <- capturePrevious,
  main <- captureMain, offered <- captureOffered, queue <- captureQueue,
  order <- captureOrder, work <- captureWork, dropped <- captureDropped,
  stored <- captureStored, synced <- captureSynced, file <- captureFile,
  objects <- captureObjects, writes <- captureWrites, syncs <- captureSyncs,
  waiter <- captureWaiter, closing <- captureClosing, writer <- captureWriter,
  faults <- captureFaults
Floor_ == INSTANCE Floor WITH
  Texts <- Inputs!FloorTexts, Features <- {"f", "g"}, Files <- Inputs!FloorFiles,
  Levels <- Inputs!FloorLevels, MaxFeatures <- 1, query <- floorQuery,
  answer <- floorAnswer
Svc == INSTANCE Servicing WITH
  Managers <- 1..4, Scenarios <- Scenes!SvcAll, scene <- servicingScene,
  record <- servicingRecord, lock <- servicingLock, cmd <- servicingCmd,
  man <- servicingMan, svc <- servicingSvc, disk <- servicingDisk,
  tx <- servicingTx, prior <- servicingPrior, warned <- servicingWarned,
  promised <- servicingPromised, touched <- servicingTouched,
  left <- servicingLeft
Mig == INSTANCE Migrate WITH
  Users <- {1, 2}, Scenarios <- Inputs!MigrateAll, scene <- migrateScene,
  fx <- migrateFx, fxTorn <- migrateFxTorn, pilot <- migratePilot,
  dest <- migrateDest, real <- migrateReal, started <- migrateStarted,
  bk <- migrateBk, cmd <- migrateCmd, origin <- migrateOrigin,
  left <- migrateLeft
Path == INSTANCE ExistsWatch WITH
  Scenarios <- Scenes!Paths, scene <- existsScene, left <- existsLeft,
  fs <- existsFs, inner <- existsInner, pending <- existsPending,
  open <- existsOpen, ew <- existsEw, closed <- existsClosed,
  opMu <- existsOpMu, ch <- existsCh, arm <- existsArm, hub <- existsHub,
  close <- existsClose, served <- existsServed, owed <- existsOwed,
  blind <- existsBlind
Native == INSTANCE NativeWatch WITH
  Closers <- {"p", "q"}, Callbacks <- {1, 2}, Scenarios <- Scenes!Natives,
  scene <- nativeScene, left <- nativeLeft, closed <- nativeClosed,
  loop <- nativeLoop, io <- nativeIo, handle <- nativeHandle, ch <- nativeCh,
  registered <- nativeRegistered, cb <- nativeCb, mu <- nativeMu,
  closer <- nativeCloser, owed <- nativeOwed, panicked <- nativePanicked

timerVars ==
  <<timerScene, timerArmed, timerCb, timerPlanner, timerCursor, timerLoader,
    timerIo, timerDisk, timerRunning, timerWall, timerMono, timerStarted,
    timerSignal, timerJumps, timerArms, timerIds, timerFaults>>
calendarVars ==
  <<calendarQuery, calendarAnswer>>
captureVars ==
  <<captureScene, captureStream, capturePrevious, captureMain, captureOffered,
    captureQueue, captureOrder, captureWork, captureDropped, captureStored,
    captureSynced, captureFile, captureObjects, captureWrites, captureSyncs,
    captureWaiter, captureClosing, captureWriter, captureFaults>>
floorVars ==
  <<floorQuery, floorAnswer>>
servicingVars ==
  <<servicingScene, servicingRecord, servicingLock, servicingCmd,
    servicingMan, servicingSvc, servicingDisk, servicingTx, servicingPrior,
    servicingWarned, servicingPromised, servicingTouched, servicingLeft>>
migrateVars ==
  <<migrateScene, migrateFx, migrateFxTorn, migratePilot, migrateDest,
    migrateReal, migrateStarted, migrateBk, migrateCmd, migrateOrigin,
    migrateLeft>>
existsVars ==
  <<existsScene, existsLeft, existsFs, existsInner, existsPending, existsOpen,
    existsEw, existsClosed, existsOpMu, existsCh, existsArm, existsHub,
    existsClose, existsServed, existsOwed, existsBlind>>
nativeVars ==
  <<nativeScene, nativeLeft, nativeClosed, nativeLoop, nativeIo, nativeHandle,
    nativeCh, nativeRegistered, nativeCb, nativeMu, nativeCloser, nativeOwed,
    nativePanicked>>
suiteVars ==
  <<part, vars, timerVars, calendarVars, captureVars, floorVars,
    servicingVars, migrateVars, existsVars, nativeVars>>

AQuery == CHOOSE q \in Cal!Queries : TRUE

(* What rests while one component steps. *)
notProc ==
  <<part, timerVars, calendarVars, captureVars, floorVars, servicingVars,
    migrateVars, existsVars, nativeVars>>
notTimer ==
  <<part, vars, calendarVars, captureVars, floorVars, servicingVars,
    migrateVars, existsVars, nativeVars>>
notCalendar ==
  <<part, vars, timerVars, captureVars, floorVars, servicingVars,
    migrateVars, existsVars, nativeVars>>
notCapture ==
  <<part, vars, timerVars, calendarVars, floorVars, servicingVars,
    migrateVars, existsVars, nativeVars>>
notFloor ==
  <<part, vars, timerVars, calendarVars, captureVars, servicingVars,
    migrateVars, existsVars, nativeVars>>
notServicing ==
  <<part, vars, timerVars, calendarVars, captureVars, floorVars,
    migrateVars, existsVars, nativeVars>>
notMigrate ==
  <<part, vars, timerVars, calendarVars, captureVars, floorVars,
    servicingVars, existsVars, nativeVars>>
notExists ==
  <<part, vars, timerVars, calendarVars, captureVars, floorVars,
    servicingVars, migrateVars, nativeVars>>
notNative ==
  <<part, vars, timerVars, calendarVars, captureVars, floorVars,
    servicingVars, migrateVars, existsVars>>

SuiteInit ==
  /\ part \in {"timer", "calendar", "capture", "floor", "servicing", "migrate",
               "process", "exists", "native"}
  /\ (IF part = "process" THEN TRUE ELSE scene = Hosts!ProcAccountExits) /\ Init
  /\ (IF part = "timer" THEN TRUE ELSE timerScene = Scenes!TimerRelative) /\ Timer!Init
  /\ IF part = "calendar" THEN Cal!Init ELSE calendarQuery = AQuery /\ calendarAnswer = 0
  /\ (IF part = "capture" THEN TRUE ELSE captureScene = Scenes!WaitedFlow) /\ Capture!Init
  /\ IF part = "floor" THEN Floor_!Init ELSE floorQuery = [of |-> "none"] /\ floorAnswer = "pending"
  /\ (IF part = "servicing" THEN TRUE ELSE servicingScene = Scenes!SvcRaise) /\ Svc!Init
  /\ (IF part = "migrate" THEN TRUE ELSE migrateScene = Inputs!MigrateNothing) /\ Mig!Init
  /\ (IF part = "exists" THEN TRUE ELSE existsScene = Scenes!ShortPath) /\ Path!Init
  /\ (IF part = "native" THEN TRUE ELSE nativeScene = Scenes!NativeHistory("dir")) /\ Native!Init

SuiteNext ==
  \/ part = "process" /\ Next /\ UNCHANGED notProc
  \/ part = "timer" /\ Timer!Next /\ UNCHANGED notTimer
  \/ part = "calendar" /\ Cal!Ask /\ UNCHANGED notCalendar
  \/ part = "capture" /\ Capture!Next /\ UNCHANGED notCapture
  \/ part = "floor" /\ Floor_!Ask /\ UNCHANGED notFloor
  \/ part = "servicing" /\ Svc!Next /\ UNCHANGED notServicing
  \/ part = "migrate" /\ Mig!Next /\ UNCHANGED notMigrate
  \/ part = "exists" /\ Path!Next /\ UNCHANGED notExists
  \/ part = "native" /\ Native!Next /\ UNCHANGED notNative

SuiteSpec == SuiteInit /\ [][SuiteNext]_suiteVars

-----------------------------------------------------------------------------
(* A component that rests is in a state its own histories start from, so   *)
(* each property is evaluated in the histories of its component only.      *)

(* While the manager runs the activation of a current arm, the intent with *)
(* that identity is on disk ("successful persistence precedes activation   *)
(* dispatch", state_file_windows.go), and no delayed write turns a         *)
(* recorded outcome back into pending. A pending activation is never       *)
(* forgotten silently, one arm never has two callbacks, and the heap holds *)
(* exactly the ready arms with a deadline. A persistent calendar skips no  *)
(* instant that passed before the search, while it ran, or in a clock      *)
(* change, and ClockChanged drops no occurrence that is due.               *)
TimersSound ==
  /\ [](part = "timer" =>
          /\ Timer!IntentDurable /\ Timer!PendingAccounted
          /\ Timer!OneCallbackPerArm /\ Timer!HeapMatchesStatus
          /\ Timer!NoInstantSkipped)
  /\ Timer!OutcomesFinal
  /\ Timer!DueSurvivesClockChange

(* What search returns, for Next and for Previous, is a trigger of the     *)
(* expression strictly beyond the start, and no trigger lies in between;   *)
(* when it returns nothing there is none within eight years. A weekday     *)
(* range from a to b holds the days met when counting from a to b, over    *)
(* the end of the week if need be.                                         *)
CalendarExact == part = "calendar" => Cal!SearchExact /\ Cal!WeekdaysExact

(* The records of an invocation reach the file in the order they were cut  *)
(* off, and those of an earlier main invocation before those of a later    *)
(* one. A record that was cut off is queued, with the writer, in the file  *)
(* or counted as dropped, and in one of them only. A wait that succeeded   *)
(* means that every record is covered by a Sync or counted. The order of   *)
(* the queues holds exactly the invocations with something queued, within  *)
(* the bounds, and only the writer takes the last record of a queue.       *)
CapturesSound ==
  /\ [](part = "capture" =>
          /\ Capture!OrderKept /\ Capture!Accounted
          /\ Capture!WaitMeansDurable /\ Capture!QueuesConsistent)
  /\ Capture!NobodySilenced

(* Precedence of releases is a total order that only equal releases share  *)
(* a place in. "Within reports whether f requires nothing that prev did    *)
(* not, so every build prev admits also meets f". A record is never read   *)
(* as a weaker floor than the requirements it states anywhere. Absence     *)
(* counts as "no floor" only where nobody but the trusted principals could *)
(* have removed or replaced the record at any level.                       *)
FloorSound ==
  part = "floor" =>
    /\ Floor_!ReleaseOrder
    /\ Floor_!WithinSound
    /\ Floor_!NeverWeaker
    /\ Floor_!AbsenceTrusted

(* A raise of the floor that reported success governs: no manager admits   *)
(* work with a build below the record, whichever way starts, the write and *)
(* the two looks at the stopped system fall between one another, and a     *)
(* floor written without a stopped manager asks for nothing new. A         *)
(* transaction that is rolled back leaves the build, the policy and the    *)
(* manager it found; maintenance that succeeds leaves a manager running    *)
(* that ran before. A service of the same name that is not the package's   *)
(* is never touched, unless it took the name after prepare had recorded    *)
(* the package's own.                                                      *)
ServicingSound ==
  /\ [](part = "servicing" => Svc!RaiseGoverns /\ Svc!ForeignUntouched)
  /\ Svc!LowersOnly
  /\ Svc!RollbackRestores
  /\ Svc!MaintenanceRestores

(* As long as anything differs from the pilot's state the backup is        *)
(* complete and holds that state, whatever a killed or failing command     *)
(* leaves, so that `migrate rollback` can always be run. A rollback that   *)
(* reports success leaves the fixture and the trees as before the handoff. *)
(* A file that was in a destination tree is never overwritten or removed.  *)
(* A conflicting service, directory or launcher keeps every command from   *)
(* changing anything. When apply reports success the launchers are off,    *)
(* the service is the product's, and every archived record has a whole     *)
(* copy.                                                                   *)
MigrateSound ==
  part = "migrate" =>
    /\ Mig!MutationBacked
    /\ Mig!RollbackRestores
    /\ Mig!NeverOverwritten
    /\ Mig!ConflictsRefused
    /\ Mig!AppliedComplete

(* Every native watch of an existence watch that is open has an owner that *)
(* a later Close will reach, also one opened while Close was waiting and   *)
(* one whose own close failed. A native watch releases its handle only     *)
(* after the loop that waits on it has left and, for a subscription, with  *)
(* no callback running, and never sends on its channel once that is        *)
(* closed, however closes, failed closes, callbacks and changes            *)
(* interleave.                                                             *)
WatchHandles ==
  /\ part = "exists" => Path!WatchesOwned
  /\ part = "native" => Native!HandlesOutliveUse /\ Native!NoSendAfterClose
=============================================================================
