-------------------------- MODULE MCSpatzDispatch --------------------------
(***************************************************************************)
(* Instances of SpatzDispatch for TLC.                                     *)
(***************************************************************************)
EXTENDS SpatzDispatch

MCEvents == {"spatz_done", "other"}
=============================================================================
