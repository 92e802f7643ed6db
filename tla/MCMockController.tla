-------------------------- MODULE MCMockController --------------------------
(* Instances of MockController for TLC: the bounds are given in the .cfg files. *)
EXTENDS MockController
=============================================================================
