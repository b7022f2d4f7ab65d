------------------------------ MODULE MCDaemon ------------------------------
(* TLC instance of ChassisDaemon. *)
EXTENDS ChassisDaemon, TLC

Symmetry == Permutations(Motor)
=============================================================================
