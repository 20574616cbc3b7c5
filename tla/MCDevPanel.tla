----------------------------- MODULE MCDevPanel -----------------------------
(* The mapper's device table for TLC. *)
EXTENDS DevPanel
=============================================================================
