-------------------------- MODULE MC_DreamScheduler --------------------------
(* Small instances of DreamScheduler; the constants are numbers, given in    *)
(* the configurations.                                                       *)
EXTENDS DreamScheduler
=============================================================================
