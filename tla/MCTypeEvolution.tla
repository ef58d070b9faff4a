--------------------------- MODULE MCTypeEvolution ---------------------------
(* Instances of TypeEvolution for TLC. *)
EXTENDS TypeEvolution, TLC

Symmetry == Permutations(Label)
=============================================================================
