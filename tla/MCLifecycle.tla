---------------------------- MODULE MCLifecycle ----------------------------
(***************************************************************************)
(* The lifecycle of a unit under two configurations. The module's own      *)
(* constants and variables are those of a simple unit that restarts on     *)
(* failure, is started, stopped and shut down; TimedUnit always restarts   *)
(* and has a second start that a timer or a watch asks for. Each history   *)
(* is one of these; the others rest where they start. So one run checks    *)
(* them all, and their numbers of states add up.                           *)
(***************************************************************************)
EXTENDS UnitLifecycle
CONSTANTS s1, t1,   \* start operations; t1 comes from a timer or a watch
          x1        \* stop operation

VARIABLES
  part,   \* the component of this history
  trRt, trClosed, trPlan, trStop, trGate, trRecovery, trWatchers, trReaps,
  trLoop, trFired, trExits, trRearms, trTree, trMain, trNproc

TimedUnit == INSTANCE UnitLifecycle WITH
  Type <- "simple", Restart <- "always", RemainAfterExit <- FALSE,
  Watchdog <- FALSE, Burst <- 1, Starts <- {s1, t1}, Triggered <- {t1},
  Stops <- {}, MayClose <- FALSE, rt <- trRt, closed <- trClosed,
  plan <- trPlan, stop <- trStop, gate <- trGate, recovery <- trRecovery,
  watchers <- trWatchers, reaps <- trReaps, loop <- trLoop, fired <- trFired,
  exits <- trExits, rearms <- trRearms, tree <- trTree, main <- trMain,
  nproc <- trNproc

trVars ==
  <<trRt, trClosed, trPlan, trStop, trGate, trRecovery, trWatchers, trReaps,
    trLoop, trFired, trExits, trRearms, trTree, trMain, trNproc>>
suiteVars == <<part, vars, trVars>>

(* What rests while one component steps. *)
notSimple == <<part, trVars>>
notTriggered == <<part, vars>>

SuiteInit ==
  /\ part \in {"simple", "triggered"}
  /\ Init
  /\ TimedUnit!Init

SuiteNext ==
  \/ part = "simple" /\ Next /\ UNCHANGED notSimple
  \/ part = "triggered" /\ TimedUnit!Next /\ UNCHANGED notTriggered

SuiteSpec == SuiteInit /\ [][SuiteNext]_suiteVars

-----------------------------------------------------------------------------
(* The start limit of the unit with triggered starts: between two explicit *)
(* starts no more launches are recorded than StartLimitBurst= allows (one, *)
(* for the explicit start).                                                *)
TriggeredBudget == TimedUnit!StartBudgetKept
=============================================================================
