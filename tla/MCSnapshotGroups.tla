--------------------------- MODULE MCSnapshotGroups ---------------------------
(* Instances of SnapshotGroups for TLC. *)
EXTENDS SnapshotGroups, TLC

Symmetry == Permutations(Table) \cup Permutations(Fingerprint)
=============================================================================
