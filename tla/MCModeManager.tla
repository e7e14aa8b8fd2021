--------------------------- MODULE MCModeManager ---------------------------
(* Instances of ModeManager for TLC.                                       *)
EXTENDS ModeManager, TLC
=============================================================================
