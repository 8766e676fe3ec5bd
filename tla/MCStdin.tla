------------------------------ MODULE MCStdin ------------------------------
(* Instances of Stdin for TLC. *)
EXTENDS Stdin
=============================================================================
