------------------------------ MODULE MCSetup ------------------------------
(* Instances of Setup for TLC. *)
EXTENDS Setup, TLC

\* Neither users nor servers are told apart.
SetupSymmetry == Permutations(Users) \cup Permutations(Endpoints)
=============================================================================
