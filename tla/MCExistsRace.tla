---------------------------- MODULE MCExistsRace ----------------------------
(***************************************************************************)
(* A target two components below an existing directory; both components    *)
(* are created and nothing is removed, fails or closes.                    *)
(***************************************************************************)
EXTENDS ExistsWatch

Scenes == INSTANCE ManagerScenarios
Gap == Scenes!PathsGap
=============================================================================
