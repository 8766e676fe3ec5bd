------------------------------- MODULE MCRun -------------------------------
(* Instances of Run for TLC. *)
EXTENDS Run
=============================================================================
