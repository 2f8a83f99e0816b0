------------------------------ MODULE MCHosts ------------------------------
(***************************************************************************)
(* Each history is one of the control pipe, whose constants and variables  *)
(* are the module's own, the user-manager host, the journal's files or the *)
(* daemon log; the others rest where they start. So one run checks them    *)
(* all, and their numbers of states add up.                                *)
(***************************************************************************)
EXTENDS ControlPipe

VARIABLES
  part,   \* the component of this history
  userScene, userBound, userLogged, userMail, userPolicyFile, userLingerDisk,
  userClosed, userAdmission, userArev, userLinger, userLrev, userSessions,
  userRequests, userObserved, userCursor, userBySID, userGate, userPending,
  userRetained, userAlive, userThread, userResult,
  storeScene, storeDisk, storeDurable, storeObject, storeOp, storeIndex,
  storePrune, storeScan, storeNext, storeAccepted, storeGone, storeRotations,
  storeRemoved, storeFaults, storeCrashes,
  logOffered, logQueue, logDropped, logRecent, logShutdown, logItem,
  logHandle, logSize, logFile, logArchive, logSynced, logEmitted, logFailed,
  logLost, logLoop, logFaults, logRestarts

Scenes == INSTANCE HostScenarios
Histories == INSTANCE ManagerScenarios

ControlScenes == Scenes!ControlAll

(* The scenarios are of the kind the theorems of ControlPipeProofs are     *)
(* about.                                                                  *)
ASSUME ControlScenariosSound == ScenariosSound

User == INSTANCE UserHost WITH
  Sessions <- {1, 2}, Sids <- {"a", "b"}, Scenarios <- Scenes!UserAll,
  scene <- userScene, bound <- userBound, logged <- userLogged,
  mail <- userMail, policyFile <- userPolicyFile,
  lingerDisk <- userLingerDisk, closed <- userClosed,
  admission <- userAdmission, arev <- userArev, linger <- userLinger,
  lrev <- userLrev, sessions <- userSessions, requests <- userRequests,
  observed <- userObserved, cursor <- userCursor, bySID <- userBySID,
  gate <- userGate, pending <- userPending, retained <- userRetained,
  alive <- userAlive, thread <- userThread, result <- userResult
Store == INSTANCE JournalFile WITH
  Units <- {"u", "v"}, Keep <- 2, MaxSize <- 4, BufferSize <- 4,
  MaxDiskSize <- 10, MaxDiskFiles <- 3, Scenarios <- Histories!Stores, scene <- storeScene,
  disk <- storeDisk, durable <- storeDurable, object <- storeObject,
  op <- storeOp, index <- storeIndex, prune <- storePrune, scan <- storeScan,
  next <- storeNext, accepted <- storeAccepted, gone <- storeGone,
  rotations <- storeRotations, removed <- storeRemoved, faults <- storeFaults,
  crashes <- storeCrashes
Log == INSTANCE DaemonLog WITH
  QueueRecords <- 2, QueueBytes <- 3, FileBytes <- 3, RecentRecords <- 2,
  Size <- <<1, 2, 2, 1, 2>>,
  Faults <- 1, Restarts <- 1, offered <- logOffered, queue <- logQueue,
  dropped <- logDropped, recent <- logRecent, shutdown <- logShutdown,
  item <- logItem, handle <- logHandle, size <- logSize, file <- logFile,
  archive <- logArchive, synced <- logSynced, emitted <- logEmitted,
  failed <- logFailed, lost <- logLost, loop <- logLoop, faults <- logFaults,
  restarts <- logRestarts

userVars ==
  <<userScene, userBound, userLogged, userMail, userPolicyFile,
    userLingerDisk, userClosed, userAdmission, userArev, userLinger, userLrev,
    userSessions, userRequests, userObserved, userCursor, userBySID, userGate,
    userPending, userRetained, userAlive, userThread, userResult>>
storeVars ==
  <<storeScene, storeDisk, storeDurable, storeObject, storeOp, storeIndex,
    storePrune, storeScan, storeNext, storeAccepted, storeGone,
    storeRotations, storeRemoved, storeFaults, storeCrashes>>
logVars ==
  <<logOffered, logQueue, logDropped, logRecent, logShutdown, logItem,
    logHandle, logSize, logFile, logArchive, logSynced, logEmitted, logFailed,
    logLost, logLoop, logFaults, logRestarts>>
suiteVars == <<part, vars, userVars, storeVars, logVars>>

(* What rests while one component steps. *)
notControl == <<part, userVars, storeVars, logVars>>
notUser == <<part, vars, storeVars, logVars>>
notStore == <<part, vars, userVars, logVars>>
notLog == <<part, vars, userVars, storeVars>>

SuiteInit ==
  /\ part \in {"control", "user", "store", "log"}
  /\ (IF part = "control" THEN TRUE ELSE scene = Scenes!ControlMalformed) /\ Init
  /\ (IF part = "user" THEN TRUE ELSE userScene = Scenes!UserExits) /\ User!Init
  /\ (IF part = "store" THEN TRUE ELSE storeScene = Histories!FreshStore) /\ Store!Init
  /\ Log!Init

SuiteNext ==
  \/ part = "control" /\ Next /\ UNCHANGED notControl
  \/ part = "user" /\ User!Next /\ UNCHANGED notUser
  \/ part = "store" /\ Store!Next /\ UNCHANGED notStore
  \/ part = "log" /\ Log!Next /\ UNCHANGED notLog

SuiteSpec == SuiteInit /\ [][SuiteNext]_suiteVars

-----------------------------------------------------------------------------
(* A component that rests is in a state its own histories start from, so   *)
(* each property is evaluated in the histories of its component only.      *)

(* Two manager processes of one user never live at once, through failed    *)
(* launches, failed kills, recovery and reconnected sessions, and a live   *)
(* one is its user's instance, so that a stop, a pass or the shutdown can  *)
(* still end it. Status finds no more records than were admitted (linger   *)
(* records, which hand edits can make more, are left out) and shows only   *)
(* failures met under the policy in force. Shutdown returns no error only  *)
(* when no manager, no token and no work that could make one is left.      *)
ManagersSound ==
  part = "user" =>
    /\ User!OneManagerPerUser
    /\ User!ManagersOwned
    /\ User!SnapshotWithinBounds
    /\ User!FailuresCurrent
    /\ User!ShutdownProves

(* A record whose write succeeded is in the buffer, readable on disk,      *)
(* evicted, or lost with the process: short writes, retries of a flush or  *)
(* a rotation and a torn tail do not lose one. The index never counts less *)
(* than a file holds and its buffer will add; retries of a rotation cost   *)
(* one generation at most; what was put aside is synced; a unit's files    *)
(* are removed only while nobody has it open; a page holds only entries    *)
(* written after its cursor's and in their order, unless an archive has an *)
(* older entry with a later stamp. The daemon log keeps its bounds and     *)
(* reports each accepted record to the Windows channel once and in order.  *)
FilesSound ==
  /\ part = "store" =>
       /\ Store!AcceptedReadable
       /\ Store!QuotaKept
       /\ Store!OneGenerationPerRotation
       /\ Store!PutAsideIsDurable
       /\ Store!PruneExcludesOwners
       /\ Store!PagesInOrder
  /\ part = "log" => Log!LogBounded /\ Log!ReportedOnce
=============================================================================
