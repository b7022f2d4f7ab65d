------------------------------- MODULE MCProxy -------------------------------
(* TLC instance of CanProxy. *)
EXTENDS CanProxy, TLC

\* --max-current lies between the values, so that both clamps act.
MCValue == {-2, 0, 1}

Symmetry == Permutations(Motor)
=============================================================================
