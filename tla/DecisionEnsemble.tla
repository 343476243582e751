-------------------------- MODULE DecisionEnsemble ---------------------------
(***************************************************************************)
(* DecisionEnsemble.update (ensemble.py): how the decisions of the members *)
(* become one.  results maps every member to its result.                   *)
(***************************************************************************)
EXTENDS Naturals, FiniteSets

CONSTANTS
    DenyVotesRequired,     \* EnsemblePolicy.deny_votes_required
    DisagreementAction     \* "abstain" or "majority"

EffectsOf(results) == {results[m].effect : m \in DOMAIN results}

Disagree(results) == Cardinality(EffectsOf(results)) > 1

\* "ensemble members returned different state revisions"
RevisionsDiffer(results) == Cardinality({results[m].revision : m \in DOMAIN results}) > 1

DenyVotes(results) == Cardinality({m \in DOMAIN results : results[m].effect = "DENY"})

\* Mutant of CombinedEffect: the votes are counted before the disagreement.
CombinedEffectVotesFirst(results) ==
    IF "ABSTAIN" \in EffectsOf(results) THEN "ABSTAIN"
    ELSE IF DenyVotes(results) >= DenyVotesRequired THEN "DENY"
    ELSE IF Disagree(results) /\ DisagreementAction = "abstain" THEN "ABSTAIN" ELSE "ALLOW"

CombinedEffect(results) ==
    IF \/ "ABSTAIN" \in EffectsOf(results)
       \/ Disagree(results) /\ DisagreementAction = "abstain"
    THEN "ABSTAIN"
    ELSE IF DenyVotes(results) >= DenyVotesRequired THEN "DENY" ELSE "ALLOW"

Combined(results) ==
    [effect |-> CombinedEffect(results),
     evidence |-> UNION {results[m].evidence : m \in DOMAIN results},
     revision |-> (CHOOSE r \in {results[m].revision : m \in DOMAIN results} : TRUE),
     inferred |-> \E m \in DOMAIN results : results[m].inferred,
     disagreement |-> Disagree(results)]
=============================================================================
