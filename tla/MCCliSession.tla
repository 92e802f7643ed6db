---------------------------- MODULE MCCliSession ----------------------------
(* Instances of CliSession for TLC: the bounds are given in the .cfg files. *)
EXTENDS CliSession
=============================================================================
