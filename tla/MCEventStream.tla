---------------------------- MODULE MCEventStream ----------------------------
(* Instances of EventStream for TLC: the bounds are given in the .cfg file. *)
EXTENDS EventStream
=============================================================================
