--------------------------- MODULE MCEvidenceLog ---------------------------
(* Instances of EvidenceLog for TLC.                                       *)
EXTENDS EvidenceLogRefinement
=============================================================================
