----------------------------- MODULE AsmPipeline -----------------------------
(***************************************************************************)
(* scripts/run_gate3_asm_pipeline.py: a corpus is replayed through an      *)
(* ensemble of ASM-CM engines (AsmCmEngine, DecisionEnsemble); each        *)
(* combined decision becomes a state summary for a Gate 3 dry-run process, *)
(* which audits it and caches its denials.  The run ends with a report     *)
(* only if nothing was refused, raised or left unaudited.                  *)
(*                                                                         *)
(* The corpus is chosen event by event: trajectories of one namespace,     *)
(* numbered from 1 each, as load_independent_corpus accepts them.          *)
(***************************************************************************)
EXTENDS AsmCmEngine, DecisionEnsemble

CONSTANTS
    Members,       \* the ensemble, in the order of its members: 1 .. n
    Parallel,      \* --ensemble-parallel-members
    Namespaces,
    MaxEvents,     \* bound: events of the corpus
    MaxTrajectories \* bound: trajectories of the corpus

VARIABLES
    phase,       \* where main() is
    memory,      \* memory[m][n]: member m's state of namespace n
    trajectory,  \* the trajectory being replayed: [ns, malicious, length, count]
    event,       \* the event in progress
    results,     \* the members' results for it, so far
    combined,    \* the ensemble's decision
    past,        \* past[n]: the events whose update of n was admitted
    audit,       \* records in the Gate 3 process's audit file
    cached,      \* decisions it compiled: [ns, seq, votes]
    handled,     \* events replayed to the end
    confusion    \* terminal_confusion

vars == <<phase, memory, trajectory, event, results, combined, past, audit, cached, handled,
          confusion>>

NoResults == << >>
Leftover == [ns |-> CHOOSE n \in Namespaces : TRUE, seq |-> 0, evidence |-> {}, votes |-> 0]
Ended == {"refused", "raised", "reported"}

Init ==
    /\ phase = "configure"
    /\ memory = [m \in Members |-> [n \in Namespaces |-> AsmInit]]
    /\ trajectory = [ns |-> CHOOSE n \in Namespaces : TRUE, malicious |-> FALSE,
                     length |-> 0, count |-> 0]
    /\ event = [class |-> "other", relation |-> Network] /\ results = NoResults
    /\ combined = [effect |-> "ALLOW"]
    /\ past = [n \in Namespaces |-> << >>]
    /\ audit \in 0..1 /\ cached \in {{}, {Leftover}} /\ handled = 0
    /\ confusion = [tp |-> 0, fp |-> 0, tn |-> 0, fn |-> 0, abstain |-> 0]

replay == <<memory, trajectory, event, results, combined, past>>
outcome == <<audit, cached, handled, confusion>>

-----------------------------------------------------------------------------
(* Arguments, corpus, binary and checkpoints are checked first.            *)

Refuse ==
    /\ phase = "configure" /\ phase' = "refused"
    /\ UNCHANGED <<replay, outcome>>

\* The artifacts of an earlier run go, then the Gate 3 process is started.
Start ==
    /\ phase = "configure" /\ phase' = "between"
    /\ audit' = 0 /\ cached' = {}
    /\ UNCHANGED <<replay, handled, confusion>>

Begin(n, malicious) ==
    /\ phase = "between" /\ trajectory.count < MaxTrajectories /\ handled < MaxEvents
    /\ phase' = "replay"
    /\ trajectory' = [ns |-> n, malicious |-> malicious, length |-> 0,
                      count |-> trajectory.count + 1]
    /\ UNCHANGED <<memory, event, results, combined, past, outcome>>

Feed(e) ==
    /\ phase = "replay" /\ handled < MaxEvents
    /\ phase' = "members"
    /\ event' = e /\ results' = NoResults
    /\ trajectory' = [trajectory EXCEPT !.length = @ + 1]
    /\ LET n == trajectory.ns
           st == memory[CHOOSE m \in Members : TRUE][n]
       IN  past' = IF trajectory.length + 1 = st.last_sequence + 1
                   THEN [past EXCEPT ![n] = Append(@, e)] ELSE past
    /\ UNCHANGED <<memory, combined, outcome>>

-----------------------------------------------------------------------------
(* engine.update(event) of the ensemble.                                   *)

\* Sequentially the members are asked in order, in parallel in any order.
Turn(m) ==
    /\ phase = "members" /\ m \notin DOMAIN results
    /\ ~Parallel => \A k \in Members : k < m => k \in DOMAIN results

With(m, r) == results' = [k \in DOMAIN results \union {m} |-> IF k = m THEN r ELSE results[k]]

\* A result with the confidence Gate 3 will see; only a query has one.
Confident(result, yes) == [k \in DOMAIN result \union {"confident"} |->
                              IF k = "confident" THEN yes ELSE result[k]]

\* Mutant of MemberUpdate: a member without confidence drops its update.
MemberUpdateIfConfident(m, predicted, confident) ==
    LET n == trajectory.ns
        st == memory[m][n]
        next == Advance(st, event, trajectory.length)
    IN  /\ Turn(m)
        /\ trajectory.length = st.last_sequence + 1
        /\ With(m, Confident(Result(next, event, predicted), confident))
        /\ memory' = IF confident THEN [memory EXCEPT ![m][n] = next] ELSE memory
        /\ UNCHANGED <<phase, trajectory, event, combined, past, outcome>>

\* One member: the sequence check, the update, whatever its model predicts.
MemberUpdate(m, predicted, confident) ==
    LET n == trajectory.ns
        st == memory[m][n]
        next == Advance(st, event, trajectory.length)
    IN  /\ Turn(m)
        /\ \/ /\ trajectory.length # st.last_sequence + 1
              /\ With(m, Confident(Gap(st), TRUE))
              /\ UNCHANGED memory
           \/ /\ trajectory.length = st.last_sequence + 1
              /\ With(m, Confident(Result(next, event, predicted), event.class = "query" => confident))
              /\ memory' = [memory EXCEPT ![m][n] = next]
        /\ UNCHANGED <<phase, trajectory, event, combined, past, outcome>>

\* Mutant of MemberRaises: the ensemble asks its members again.
MemberRaisesRetried(m) ==
    /\ Turn(m) /\ results' = NoResults
    /\ UNCHANGED <<phase, memory, trajectory, event, combined, past, outcome>>

\* A member's model raises: its namespace is put back, the run is over.
MemberRaises(m) ==
    /\ Turn(m) /\ phase' = "raised"
    /\ UNCHANGED <<replay, outcome>>

Combine ==
    /\ phase = "members" /\ DOMAIN results = Members
    /\ \/ RevisionsDiffer(results) /\ phase' = "raised" /\ UNCHANGED combined
       \/ ~RevisionsDiffer(results) /\ phase' = "gate3" /\ combined' = Combined(results)
    /\ UNCHANGED <<memory, trajectory, event, results, past, outcome>>

-----------------------------------------------------------------------------
(* asm_decision_to_state and the Gate 3 process.                           *)

RiskBand(effect) ==
    CASE effect = "DENY" -> "elevated" [] effect = "ALLOW" -> "normal" [] OTHER -> "unknown"

\* What Gate 3 answers: a summary of another revision abstains, an elevated
\* one is denied only with confidence.
Gate3Effect(decision, confident, seq) ==
    LET risk == RiskBand(decision.effect)
    IN  IF decision.revision = seq /\ risk = "elevated" /\ confident THEN "DENY"
        ELSE IF decision.revision = seq /\ risk = "normal" THEN "ALLOW" ELSE "ABSTAIN"

Column(malicious, effect) ==
    IF effect = "ABSTAIN" THEN "abstain"
    ELSE IF malicious THEN IF effect = "DENY" THEN "tp" ELSE "fn"
    ELSE IF effect = "DENY" THEN "fp" ELSE "tn"

\* The summary is sent; Gate 3 audits it, caches a denial and answers.  The
\* last event of a trajectory is counted.
Gate3Answers(last) ==
    LET effect == Gate3Effect(combined, \A m \in Members : results[m].confident,
                              trajectory.length)
    IN  /\ phase = "gate3"
        /\ handled + 1 = MaxEvents => last
        /\ audit' = audit + 1 /\ handled' = handled + 1
        /\ cached' = IF effect = "DENY"
                     THEN cached \union {[ns |-> trajectory.ns, seq |-> trajectory.length,
                                          evidence |-> combined.evidence,
                                          votes |-> DenyVotes(results)]}
                     ELSE cached
        /\ confusion' = IF last THEN [confusion EXCEPT ![Column(trajectory.malicious, effect)] = @ + 1]
                                ELSE confusion
        /\ phase' = IF last THEN "between" ELSE "replay"
        /\ UNCHANGED <<replay>>

\* The process ends before it answers, perhaps after it audited.
Gate3Stops ==
    /\ phase = "gate3" /\ phase' = "raised"
    /\ audit' \in {audit, audit + 1}
    /\ UNCHANGED <<replay, cached, handled, confusion>>

-----------------------------------------------------------------------------
\* Mutant of Finish: the records are not counted.
FinishUncounted(written, status) ==
    /\ phase = "between" /\ handled > 0
    /\ phase' = IF status = 0 THEN "reported" ELSE "raised"
    /\ audit' = written
    /\ UNCHANGED <<replay, cached, handled, confusion>>

\* The corpus is exhausted: the process is closed, its status and its files
\* are checked, the report is written.  A process that loses its last
\* records or fails at the end leaves no report.
Finish(written, status) ==
    /\ phase = "between" /\ handled > 0
    /\ phase' = IF status = 0 /\ written = handled THEN "reported" ELSE "raised"
    /\ audit' = written
    /\ UNCHANGED <<replay, cached, handled, confusion>>

Stopped == phase \in Ended /\ UNCHANGED vars

Next ==
    \/ Refuse \/ Start
    \/ \E n \in Namespaces, malicious \in BOOLEAN : Begin(n, malicious)
    \/ \E e \in Events : Feed(e)
    \/ \E m \in Members : \/ \E v \in Predictions, c \in BOOLEAN : MemberUpdate(m, v, c)
                          \/ MemberRaises(m)
    \/ Combine
    \/ \E last \in BOOLEAN : Gate3Answers(last)
    \/ Gate3Stops
    \/ \E written \in {audit, audit - 1}, status \in {0, 1} : Finish(written, status)
    \/ Stopped

\* main() is one process: it takes its next step until it has ended.
Spec == Init /\ [][Next]_vars /\ WF_vars(Next)

-----------------------------------------------------------------------------
TypeOK ==
    /\ phase \in {"configure", "between", "replay", "members", "gate3"} \union Ended
    /\ \A m \in Members, n \in Namespaces :
          /\ memory[m][n].next_value \in Values /\ Len(memory[m][n].pairs) <= MaxPairs
          /\ DOMAIN memory[m][n].evidence \subseteq Relations \X Values
          /\ memory[m][n].revision = memory[m][n].last_sequence
    /\ DOMAIN results \subseteq Members /\ event \in Events
    /\ past \in [Namespaces -> Seq(Events)]
    /\ audit \in Nat /\ handled \in 0..MaxEvents

\* The events of a namespace that bound a pair; those not older than one.
Bindings(n) == {i \in DOMAIN past[n] : past[n][i].class \in {"trigger", "safe"}}
BoundSince(n, id) == {i \in Bindings(n) : i >= id}

\* The evidence table and the ring never drift from what the memory was fed:
\* the pair that is the d-th from the end of the token history names the
\* d-th event from the end that bound one, and names none when that event
\* made the network safe again, however often the values were used before.
PairsNameTheirEvents ==
    \A m \in Members, n \in Namespaces :
        LET st == memory[m][n]
        IN  st.last_sequence = Len(past[n]) =>
                \A i \in DOMAIN st.pairs : \E id \in Bindings(n) :
                    /\ Cardinality(BoundSince(n, id)) = Len(st.pairs) - i + 1
                    /\ Lookup(st.evidence, st.pairs[i]) =
                            IF past[n][id].class = "trigger" THEN id ELSE NoEvidence

\* A denial that reaches Gate 3's cache comes from the members the policy
\* asks for, and each piece of its evidence is an earlier risky event of the
\* same namespace and of the relation that was queried, whatever the models
\* predicted.
CachedDenialIsCausal ==
    phase # "configure" /\ phase # "refused" =>
    \A c \in cached :
        /\ c.votes >= IF DisagreementAction = "abstain" THEN Cardinality(Members)
                      ELSE DenyVotesRequired
        /\ c.evidence # {}
        /\ \A id \in c.evidence :
              /\ id < c.seq
              /\ past[c.ns][id].class = "trigger"
              /\ past[c.ns][c.seq] = [class |-> "query", relation |-> past[c.ns][id].relation]

\* Between events all members hold the same tables for every namespace: only
\* their predictions differ, so the refusal of differing revisions is never
\* met in a run no member has ended.
MembersInStep ==
    phase \in {"between", "replay", "reported"} =>
        \A m, k \in Members : memory[m] = memory[k]

\* A report is written only for a run whose every event was audited, whose
\* every trajectory was counted once, and whose files hold nothing of an
\* earlier run.
ReportIsComplete ==
    phase = "reported" =>
        /\ audit = handled /\ Leftover \notin cached
        /\ confusion.tp + confusion.fp + confusion.tn + confusion.fn + confusion.abstain
              = trajectory.count

\* The run always ends, with a report or with an error.
EventuallyEnds == <>(phase \in Ended)
=============================================================================
