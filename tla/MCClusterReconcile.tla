------------------------- MODULE MCClusterReconcile -------------------------
(* Instances of ClusterReconcile for TLC.                                  *)
EXTENDS ClusterReconcile

\* Two operations whose order in the rack loop is fixed are enough to have one in flight
\* while another, or a failed pod, stops the pass before it is reached.
MCOpSeq == <<"Upgrading", "ScalingDown">>

MCOneOp == <<"Upgrading">>

=============================================================================
