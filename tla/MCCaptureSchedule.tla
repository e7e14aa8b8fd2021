------------------------ MODULE MCCaptureSchedule ------------------------
(* Short captures with every relation between duration and intervals.      *)
EXTENDS CaptureSchedule, TLC
=============================================================================
