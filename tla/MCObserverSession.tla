------------------------- MODULE MCObserverSession -------------------------
(* Instances of ObserverSession for TLC.                                   *)
EXTENDS ObserverSession
=============================================================================
