---------------------------- MODULE MCPrusaLink -----------------------------
EXTENDS PrusaLink

MCOffers == [url : {"none", "good"}, key : {"none", "good"}, interval : 0..5]
=============================================================================
