------------------------------- MODULE Poller -------------------------------
(***************************************************************************)
(* What the owner of a printer source relies on: one worker that may end   *)
(* by itself and, once told to stop, does end.  PrusaLink implements it;   *)
(* CaptureRun is built on it.                                              *)
(***************************************************************************)
VARIABLES
    alive,   \* is_alive
    told     \* the stop event

poller == <<alive, told>>

Init == alive = FALSE /\ told = FALSE

Start ==
    /\ ~alive
    /\ alive' = TRUE /\ told' = FALSE

RequestStop ==
    /\ told' = TRUE
    /\ UNCHANGED alive

\* An unexpected exception ends the worker as well.
Ends ==
    /\ alive
    /\ alive' = FALSE
    /\ UNCHANGED told

EndsTold == told /\ Ends

Next == Start \/ RequestStop \/ Ends

Spec == Init /\ [][Next]_poller /\ WF_poller(EndsTold)
=============================================================================
