--------------------------- MODULE MCRolloutBudget ---------------------------
(* The instances of MCRollout with the history of the budget. *)
EXTENDS RolloutBudget, MCRollout
=============================================================================
