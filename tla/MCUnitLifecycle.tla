-------------------------- MODULE MCUnitLifecycle --------------------------
(* Instances of UnitLifecycle for TLC.                                       *)
EXTENDS UnitLifecycle

CONSTANTS s1, s2, t1   \* start operations; t1 comes from a timer or a watch
CONSTANTS x1           \* stop operation
============================================================================
