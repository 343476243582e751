--------------------------- MODULE MCGate3DryRun ---------------------------
(* Instances of Gate3DryRun for TLC.                                       *)
EXTENDS Gate3DryRun, TLC

(* A request of the first revision that is consistent and allowed.         *)
Plain == [key |-> CHOOSE k \in Keys : TRUE, event_valid |-> TRUE, state_valid |-> TRUE,
          rev |-> CHOOSE r \in Revisions : TRUE, same_namespace |-> TRUE,
          sequence |-> 1, state_revision |-> 1, risk |-> "normal",
          evidence |-> TRUE, confidence |-> 1, model_named |-> TRUE]

(* One request per way through evaluate(): allowed, denied at two state    *)
(* revisions and under every policy revision, restricted but stale or      *)
(* foreign, elevated without evidence, without confidence.                 *)
OnePerPath ==
  {Plain,
   [Plain EXCEPT !.risk = "restricted", !.same_namespace = FALSE],
   [Plain EXCEPT !.risk = "quarantined", !.sequence = 2],
   [Plain EXCEPT !.risk = "elevated", !.evidence = FALSE],
   [Plain EXCEPT !.risk = "elevated", !.confidence = NoConfidence]}
  \cup {[Plain EXCEPT !.risk = "elevated", !.rev = r, !.sequence = n, !.state_revision = n] :
          r \in Revisions, n \in 1 .. 2}

=============================================================================
