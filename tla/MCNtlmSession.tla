--------------------------- MODULE MCNtlmSession ---------------------------
(* Instances of NtlmSession for TLC. *)
EXTENDS NtlmSession, TLC

\* Neither goroutines nor credentials are told apart.
SharerSymmetry == Permutations(Callers) \cup Permutations(Users)
=============================================================================
