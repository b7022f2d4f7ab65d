------------------------------ MODULE MCBench ------------------------------
(* TLC instance of BenchTool. *)
EXTENDS BenchTool, TLC

Symmetry == Permutations(Motor)
=============================================================================
