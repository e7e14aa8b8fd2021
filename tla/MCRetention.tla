---------------------------- MODULE MCRetention ----------------------------
(* Retention on three sessions and two downloads.                          *)
EXTENDS Retention, TLC

Symmetry == Permutations(Downloads)
=============================================================================
