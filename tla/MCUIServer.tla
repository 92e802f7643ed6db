----------------------------- MODULE MCUIServer -----------------------------
(* Instances of UIServer for TLC: the bounds are given in the .cfg file. *)
EXTENDS UIServer
=============================================================================
