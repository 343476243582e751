-------------------------- MODULE MCCanonicalStore --------------------------
(* Instances of CanonicalStore, alone, for TLC.                            *)
EXTENDS CanonicalStore, TLC

Symmetry == Permutations(Ids) \cup Permutations(Namespaces)
=============================================================================
