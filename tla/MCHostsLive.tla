---------------------------- MODULE MCHostsLive ----------------------------
(***************************************************************************)
(* Liveness of a notify unit with a watchdog, of a oneshot that remains    *)
(* active, of the control pipe, the notification pipe, the user-manager    *)
(* host and one unit process. Each history is one of these; the others     *)
(* rest where they start. So one run checks them all, and their numbers of *)
(* states add up.                                                          *)
(***************************************************************************)
EXTENDS Integers, Sequences, FiniteSets

VARIABLES
  part,   \* the component of this history
  ntRt, ntClosed, ntPlan, ntStop, ntGate, ntRecovery, ntWatchers, ntReaps,
  ntLoop, ntFired, ntExits, ntRearms, ntTree, ntMain, ntNproc,
  osRt, osClosed, osPlan, osStop, osGate, osRecovery, osWatchers, osReaps,
  osLoop, osFired, osExits, osRearms, osTree, osMain, osNproc,
  controlScene, controlServe, controlSlots, controlSrv, controlPipe,
  controlClient, controlCall,
  notifyScene, notifyLeft, notifyMain, notifySrv, notifyLis, notifyConn,
  notifyReader, notifySlots, notifyRt, notifyCloser, notifyHeard, notifyDog,
  userScene, userBound, userLogged, userMail, userPolicyFile, userLingerDisk,
  userClosed, userAdmission, userArev, userLinger, userLrev, userSessions,
  userRequests, userObserved, userCursor, userBySID, userGate, userPending,
  userRetained, userAlive, userThread, userResult,
  procScene, procCreate, procStart, procLate, procOpen, procHeld, procPs,
  procInUnit, procInDaemon, procP, procExits, procKilled, procWatch, procCall,
  procStopMu, procJobMu, procWait, procKeeper, procDaemon, procLeft

Scenes == INSTANCE HostScenarios

NotifyUnit == INSTANCE UnitLifecycle WITH
  Type <- "notify", Restart <- "always", RemainAfterExit <- FALSE,
  Watchdog <- TRUE, Burst <- 2, Starts <- {"s1"}, Triggered <- {},
  Stops <- {"x1"}, MayClose <- FALSE, rt <- ntRt, closed <- ntClosed,
  plan <- ntPlan, stop <- ntStop, gate <- ntGate, recovery <- ntRecovery,
  watchers <- ntWatchers, reaps <- ntReaps, loop <- ntLoop, fired <- ntFired,
  exits <- ntExits, rearms <- ntRearms, tree <- ntTree, main <- ntMain,
  nproc <- ntNproc
OneshotUnit == INSTANCE UnitLifecycle WITH
  Type <- "oneshot", Restart <- "always", RemainAfterExit <- TRUE,
  Watchdog <- FALSE, Burst <- 2, Starts <- {"s1"}, Triggered <- {},
  Stops <- {"x1"}, MayClose <- FALSE, rt <- osRt, closed <- osClosed,
  plan <- osPlan, stop <- osStop, gate <- osGate, recovery <- osRecovery,
  watchers <- osWatchers, reaps <- osReaps, loop <- osLoop, fired <- osFired,
  exits <- osExits, rearms <- osRearms, tree <- osTree, main <- osMain,
  nproc <- osNproc
Control == INSTANCE ControlPipe WITH
  Scenarios <- Scenes!ControlLive, scene <- controlScene, serve <- controlServe,
  slots <- controlSlots, srv <- controlSrv, pipe <- controlPipe,
  client <- controlClient, call <- controlCall
Notify == INSTANCE NotifyPipe WITH
  MaxConnections <- 1, PulseBuffer <- 2, Scenarios <- Scenes!NotifyLive,
  scene <- notifyScene, left <- notifyLeft, main <- notifyMain,
  srv <- notifySrv, lis <- notifyLis, conn <- notifyConn,
  reader <- notifyReader, slots <- notifySlots, rt <- notifyRt,
  closer <- notifyCloser, heard <- notifyHeard, dog <- notifyDog
User == INSTANCE UserHost WITH
  Sessions <- {1}, Sids <- {"a"}, Scenarios <- Scenes!UserLive,
  scene <- userScene, bound <- userBound, logged <- userLogged,
  mail <- userMail, policyFile <- userPolicyFile,
  lingerDisk <- userLingerDisk, closed <- userClosed,
  admission <- userAdmission, arev <- userArev, linger <- userLinger,
  lrev <- userLrev, sessions <- userSessions, requests <- userRequests,
  observed <- userObserved, cursor <- userCursor, bySID <- userBySID,
  gate <- userGate, pending <- userPending, retained <- userRetained,
  alive <- userAlive, thread <- userThread, result <- userResult
Proc == INSTANCE UnitProcess WITH
  Stoppers <- {"s", "t"}, Waiters <- {"w"}, Kids <- {"k"},
  Scenarios <- Scenes!ProcLive, scene <- procScene, create <- procCreate,
  start <- procStart, late <- procLate, open <- procOpen, held <- procHeld,
  ps <- procPs, inUnit <- procInUnit, inDaemon <- procInDaemon, p <- procP,
  exits <- procExits, killed <- procKilled, watch <- procWatch,
  call <- procCall, stopMu <- procStopMu, jobMu <- procJobMu,
  wait <- procWait, keeper <- procKeeper, daemon <- procDaemon,
  left <- procLeft

ntVars ==
  <<ntRt, ntClosed, ntPlan, ntStop, ntGate, ntRecovery, ntWatchers, ntReaps,
    ntLoop, ntFired, ntExits, ntRearms, ntTree, ntMain, ntNproc>>
osVars ==
  <<osRt, osClosed, osPlan, osStop, osGate, osRecovery, osWatchers, osReaps,
    osLoop, osFired, osExits, osRearms, osTree, osMain, osNproc>>
controlVars ==
  <<controlScene, controlServe, controlSlots, controlSrv, controlPipe,
    controlClient, controlCall>>
notifyVars ==
  <<notifyScene, notifyLeft, notifyMain, notifySrv, notifyLis, notifyConn,
    notifyReader, notifySlots, notifyRt, notifyCloser, notifyHeard, notifyDog>>
userVars ==
  <<userScene, userBound, userLogged, userMail, userPolicyFile,
    userLingerDisk, userClosed, userAdmission, userArev, userLinger, userLrev,
    userSessions, userRequests, userObserved, userCursor, userBySID, userGate,
    userPending, userRetained, userAlive, userThread, userResult>>
procVars ==
  <<procScene, procCreate, procStart, procLate, procOpen, procHeld, procPs,
    procInUnit, procInDaemon, procP, procExits, procKilled, procWatch,
    procCall, procStopMu, procJobMu, procWait, procKeeper, procDaemon,
    procLeft>>
suiteVars == <<part, ntVars, osVars, controlVars, notifyVars, userVars, procVars>>

(* What rests while one component steps. *)
notNotifyUnit == <<part, osVars, controlVars, notifyVars, userVars, procVars>>
notOneshot == <<part, ntVars, controlVars, notifyVars, userVars, procVars>>
notControl == <<part, ntVars, osVars, notifyVars, userVars, procVars>>
notNotify == <<part, ntVars, osVars, controlVars, userVars, procVars>>
notUser == <<part, ntVars, osVars, controlVars, notifyVars, procVars>>
notProc == <<part, ntVars, osVars, controlVars, notifyVars, userVars>>
InUser(A) == part = "user" /\ A /\ UNCHANGED notUser

SuiteInit ==
  /\ part \in {"notify unit", "oneshot unit", "control", "notify", "user",
               "process"}
  /\ NotifyUnit!Init
  /\ OneshotUnit!Init
  /\ (IF part = "control" THEN TRUE ELSE controlScene = Scenes!ControlQuiet) /\ Control!Init
  /\ (IF part = "notify" THEN TRUE ELSE notifyScene = Scenes!NotifyHangs) /\ Notify!Init
  /\ (IF part = "user" THEN TRUE ELSE userScene = Scenes!UserExits) /\ User!Init
  /\ (IF part = "process" THEN TRUE ELSE procScene = Scenes!ProcAccountRuns) /\ Proc!Init

SuiteNext ==
  \/ part = "notify unit" /\ NotifyUnit!Next /\ UNCHANGED notNotifyUnit
  \/ part = "oneshot unit" /\ OneshotUnit!Next /\ UNCHANGED notOneshot
  \/ part = "control" /\ Control!Next /\ UNCHANGED notControl
  \/ part = "notify" /\ Notify!Next /\ UNCHANGED notNotify
  \/ part = "user" /\ User!Next /\ UNCHANGED notUser
  \/ part = "process" /\ Proc!Next /\ UNCHANGED notProc

SuiteSpec == SuiteInit /\ [][SuiteNext]_suiteVars

SuiteProgress ==
  \/ part = "control" /\ Control!Progress /\ UNCHANGED notControl
  \/ part = "notify" /\ Notify!Progress /\ UNCHANGED notNotify
  \/ part = "process" /\ Proc!Progress /\ UNCHANGED notProc
SuiteFairSpec ==
  /\ SuiteSpec
  /\ WF_suiteVars(SuiteProgress)
  /\ NotifyUnit!Fairness
  /\ OneshotUnit!Fairness
  /\ WF_suiteVars(InUser(User!DelayPasses("a"))) /\ WF_suiteVars(InUser(User!IdlePick("a")))
  /\ WF_suiteVars(InUser(User!ListenLogon)) /\ WF_suiteVars(InUser(User!ListenLogoff))
  /\ \A t \in User!Logons : WF_suiteVars(InUser(User!LogonStep(t)))
  /\ \A t \in User!Logons \cup {"scan", "rpc"} : WF_suiteVars(InUser(User!LaunchStep(t)))
  /\ \A t \in User!Threads \ {"shut"} :
       WF_suiteVars(InUser(\E ok \in BOOLEAN : User!KillEnds(t, ok)))
  /\ \A t \in User!Stoppers \cup {"rec", "rpc", "idle"} :
       WF_suiteVars(InUser(User!StopBegins(t)))
  /\ WF_suiteVars(InUser(User!ReconcileStep)) /\ WF_suiteVars(InUser(User!ScanStep))
  /\ WF_suiteVars(InUser(User!RpcStep)) /\ WF_suiteVars(InUser(User!PolicyStep))
  /\ WF_suiteVars(InUser(User!ShutdownStep))

-----------------------------------------------------------------------------
(* A unit that is stopped does not stay deactivating unless a stop failed, *)
(* whatever overtakes the stop while it drains the journal. A stop that    *)
(* waits for the gate gets it without the help of a deadline, also when    *)
(* the holder waits for a oneshot to exit or for READY=1, and every        *)
(* admitted start ends, with its own cleanup when it was cancelled. Every  *)
(* Stop of a process returns, a limit message is noticed unless the port   *)
(* is closed first, and a unit whose profile keeper ends does not run on   *)
(* when no native call fails.                                              *)
UnitsProgress ==
  /\ [](part = "notify unit" => NotifyUnit!StopPublished)
  /\ NotifyUnit!StopTakesGate
  /\ NotifyUnit!StartTerminates
  /\ OneshotUnit!StopTakesGate
  /\ OneshotUnit!StartTerminates
  /\ Proc!StopEnds
  /\ Proc!LimitNoticed
  /\ Proc!KeeperLoss

(* Every call of the control client returns, though calls share a          *)
(* connection, contexts end and the server stops; when the serving         *)
(* lifetime ends for any reason, Serve returns with its listener and every *)
(* connection closed. What a notify client sent before it hung up is       *)
(* applied unless the endpoint closes first, and every Close of the        *)
(* endpoint returns. When notifications, failures and edits cease, an      *)
(* entitled user has a manager and keeps it, others have none, and every   *)
(* Shutdown returns.                                                       *)
HostsProgress ==
  /\ Control!CallsReturn
  /\ Control!ServingEnds
  /\ Notify!SentHeard
  /\ Notify!CloseEnds
  /\ User!EntitledRun
  /\ User!OthersStop
  /\ User!ShutdownReturns
=============================================================================
