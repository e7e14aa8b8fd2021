----------------------------- MODULE MCChurnRun -----------------------------
(* Instances of ChurnRun for TLC.                                          *)
EXTENDS ChurnRun, TLC

\* The client count is one of two, or is not shown while the heap is.
MCSamples == {[clients |-> 0, heap |-> FALSE], [clients |-> 1, heap |-> FALSE],
              [clients |-> None, heap |-> TRUE]}
=============================================================================
