---------------------------- MODULE MCRackRevision ----------------------------
(* RackRevision for TLC: the revisions are model values, given by the .cfg files. *)
EXTENDS RackRevision
=============================================================================
