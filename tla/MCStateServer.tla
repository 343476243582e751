---------------------------- MODULE MCStateServer ----------------------------
(* Namespaces, handlers and configurations are interchangeable.            *)
EXTENDS StateServer, TLC

Symmetry == Permutations(Namespaces) \union Permutations(Handlers)
                \union Permutations(Configs)
=============================================================================
