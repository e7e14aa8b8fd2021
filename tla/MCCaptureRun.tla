---------------------------- MODULE MCCaptureRun ----------------------------
(* Instances of CaptureRun for TLC.                                        *)
EXTENDS CaptureRun

CONSTANTS a1, a2, x, y

\* Two texts for one identifier, two identifiers for a limit of one, and one
\* identifier in two captures.
MCAnnotations ==
    {[id |-> a1, run |-> 1, text |-> x], [id |-> a1, run |-> 1, text |-> y],
     [id |-> a2, run |-> 1, text |-> x], [id |-> a1, run |-> 2, text |-> x]}

MCConfigs ==
    {[persistent |-> TRUE, source |-> TRUE], [persistent |-> FALSE, source |-> FALSE]}
=============================================================================
