------------------------------ MODULE MCStream -------------------------------
(* Instances of Stream for TLC. *)
EXTENDS Stream

Symmetry == Permutations(Rel) \cup Permutations(DefaultIdentity)
=============================================================================
