--------------------------- MODULE MCPolicyBroker ---------------------------
(* Instances of PolicyBroker for TLC.                                      *)
EXTENDS PolicyBroker, TLC

Symmetry == Permutations(Keys) \cup Permutations(Revisions) \cup Permutations(Secrets)
=============================================================================
