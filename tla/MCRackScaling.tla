---------------------------- MODULE MCRackScaling ----------------------------
(* RackScaling for TLC: the constants are numbers, given by the .cfg files. *)
EXTENDS RackScaling
=============================================================================
