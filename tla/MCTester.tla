------------------------------ MODULE MCTester ------------------------------
(* Instances of Tester for TLC. *)
EXTENDS Tester, TLC

Symmetry == Permutations(Callers) \cup Permutations(Stages)
=============================================================================
