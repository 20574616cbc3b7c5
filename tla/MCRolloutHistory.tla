-------------------------- MODULE MCRolloutHistory --------------------------
(* The instances of MCRollout with the history variables. *)
EXTENDS RolloutHistory, MCRollout
=============================================================================
