----------------------------- MODULE MCGateway -----------------------------
(* Instances of CanonicalStore and Gateway for TLC.                        *)
EXTENDS Gateway, TLC

Symmetry == Permutations(Ids) \cup Permutations(Namespaces)
=============================================================================
