----------------------------- MODULE MCBoundGap -----------------------------
(***************************************************************************)
(* Two units, the second bound to the first and ordered after it; the      *)
(* first one's process ends.                                               *)
(***************************************************************************)
EXTENDS Operations

Scenes == INSTANCE ManagerScenarios
Gap == Scenes!OpGap
=============================================================================
