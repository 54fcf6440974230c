------------------------- MODULE MCClusterDispatch -------------------------
(***************************************************************************)
(* Instances of ClusterDispatch for TLC.                                   *)
(***************************************************************************)
EXTENDS ClusterDispatch

MCEvents == {"cluster_done", "other"}
=============================================================================
