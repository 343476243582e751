---------------------------- MODULE MCObservation ----------------------------
(***************************************************************************)
(* One instance for TLC of each of the three programs that turn what a     *)
(* host did into evidence: the live observer (BpfObserver), the replay     *)
(* through the neural engines and Gate 3 (AsmPipeline) and the chain of    *)
(* review commands (ReviewCorpus).  They exchange finished files only, so  *)
(* a behaviour is a behaviour of one of them: machine says of which.  Two  *)
(* programs that have a variable of the same name share it here; the       *)
(* variables a program does not have keep a value without meaning.         *)
(***************************************************************************)
EXTENDS Naturals, FiniteSets

CONSTANTS
    Tasks, Operations, Addressed, MaxCalls, MaxLost, MaxLives,
    Relations, Network, Capacity, MaxPairs, DenyVotesRequired, DisagreementAction,
    Members, Parallel, ReplayNamespaces, ReplayEvents, MaxTrajectories,
    ReviewNamespaces, Window, WindowLimit, MinTest, ReviewEvents, MaxPosts, MaxFaults,
    MaxCommands

\* Bounds are numbers and something runs.  The history of the neural memory is
\* no longer than the ring of its values (MAX_CAUSAL_TOKEN_HISTORY is two tokens
\* for each of VALUE_CAPACITY); the members are numbered, their policy asks for
\* some of them and acts in one of two ways (ensemble.py).  The namespaces of a
\* review are numbered in the order in which build_candidates sorts them.
ASSUME ObservationConstants ==
    /\ Tasks # {} /\ MaxCalls \in Nat /\ MaxLost \in Nat /\ MaxLives \in Nat \ {0}
    /\ Network \in Relations /\ Capacity \in Nat \ {0} /\ MaxPairs \in 1..Capacity
    /\ Members \subseteq Nat /\ Members # {} /\ IsFiniteSet(Members)
    /\ DenyVotesRequired \in 1..Cardinality(Members)
    /\ DisagreementAction \in {"abstain", "majority"}
    /\ ReplayNamespaces # {} /\ ReplayEvents \in Nat /\ MaxTrajectories \in Nat
    /\ IsFiniteSet(ReviewNamespaces) /\ ReviewNamespaces = 1..Cardinality(ReviewNamespaces)
    /\ Window \in Nat \ {0} /\ WindowLimit \in Nat /\ MinTest \in Nat /\ ReviewEvents \in Nat
    /\ MaxPosts \in Nat /\ MaxFaults \in Nat /\ MaxCommands \in Nat

VARIABLES
    machine, phase,
    life, alive, call, calls, credential, pipe, lost, lost_events, pending, sequences,
    skipped, partial, capture,
    memory, trajectory, event, results, combined, past, audit, cached, handled, confusion,
    captured, candidates, queue, reviews, audited, corpus, frozen, report, builder, server,
    posts, faults, commands, latest, saved, disturbed

Review(l, b, h) == [label |-> l, lab |-> b, high |-> h]

Observer == INSTANCE BpfObserver

Replay == INSTANCE AsmPipeline WITH Namespaces <- ReplayNamespaces, MaxEvents <- ReplayEvents

Corpus == INSTANCE ReviewCorpus WITH
    Namespaces <- ReviewNamespaces, MaxEvents <- ReviewEvents,
    Given <- {Review("benign", FALSE, TRUE), Review("malicious", FALSE, TRUE)}

ofObserver == <<life, alive, call, calls, credential, pipe, lost, lost_events, pending,
                sequences, skipped, partial, capture>>
ofReplay == <<memory, trajectory, event, results, combined, past, audit, cached, handled,
              confusion>>
ofCorpus == <<captured, candidates, queue, reviews, audited, corpus, frozen, report, builder,
              server, posts, faults, commands, latest, saved, disturbed>>
vars == <<machine, phase, ofObserver, ofReplay, ofCorpus>>

NoObserver ==
    /\ life = 0 /\ alive = 0 /\ call = 0 /\ calls = 0 /\ credential = 0 /\ pipe = 0
    /\ lost = 0 /\ lost_events = 0 /\ pending = 0 /\ sequences = 0 /\ skipped = 0
    /\ partial = << >> /\ capture = << >>

NoReplay ==
    /\ memory = 0 /\ trajectory = 0 /\ event = 0 /\ results = 0 /\ combined = 0 /\ past = 0
    /\ audit = 0 /\ cached = 0 /\ handled = 0 /\ confusion = 0

NoCorpus ==
    /\ captured = 0 /\ candidates = 0 /\ queue = 0 /\ reviews = 0 /\ audited = 0
    /\ corpus = 0 /\ frozen = 0 /\ report = 0 /\ builder = 0 /\ server = 0 /\ posts = 0
    /\ faults = 0 /\ commands = 0 /\ latest = 0 /\ saved = 0 /\ disturbed = 0

Init ==
    \/ machine = "observer" /\ Observer!Init /\ NoReplay /\ NoCorpus
    \/ machine = "replay" /\ Replay!Init /\ NoObserver /\ NoCorpus
    \/ machine = "corpus" /\ Corpus!Init /\ NoObserver /\ NoReplay /\ phase = "none"

Observing(A) == machine = "observer" /\ A /\ UNCHANGED <<machine, ofReplay, ofCorpus>>
Replaying(A) == machine = "replay" /\ A /\ UNCHANGED <<machine, ofObserver, ofCorpus>>

Next ==
    \/ Observing(Observer!Next)
    \/ Replaying(Replay!Next)
    \/ /\ machine = "corpus" /\ Corpus!Next
       /\ UNCHANGED <<machine, phase, ofObserver, ofReplay>>

\* The fairness of the two programs that have one; the reviewer owes nothing.
Fairness ==
    /\ WF_vars(Observing(Observer!Stop))
    /\ WF_vars(Observing(\E how \in Observer!Ends : Observer!Finish(how)))
    /\ WF_vars(Replaying(Replay!Next))

Spec == Init /\ [][Next]_vars /\ Fairness
-----------------------------------------------------------------------------
(* The properties of BpfObserver, AsmPipeline and ReviewCorpus, each with  *)
(* the type of the variables of its program.                               *)

\* Every event of a published capture joins the two halves of one system
\* call, none is captured twice, numbers grow, and a trajectory is refused
\* exactly for a number without an event (bpf_to_events.py,
\* run_live_bpf_observer.py, extract_gate4_live_bpf_trajectory.py).
CaptureSound ==
    machine = "observer" =>
        /\ Observer!TypeOK
        /\ Observer!CaptureJoinsOneCall /\ Observer!EventsOnceInOrder
        /\ Observer!ExtractionRefusesOnlyGaps

\* Every remembered pair names the event that bound it, a cached denial has
\* the votes and the evidence it needs, the members hold the same tables
\* between events, and a report covers every event and nothing else
\* (asm_cm_engine.py, ensemble.py, run_gate3_asm_pipeline.py).
ReplaySound ==
    machine = "replay" =>
        /\ Replay!TypeOK
        /\ Replay!PairsNameTheirEvents /\ Replay!CachedDenialIsCausal
        /\ Replay!MembersInStep /\ Replay!ReportIsComplete

\* What is exported was given by the reviewer for exactly these events, and a
\* saved review outlives every queue that is regenerated without a fault
\* (build_review_queue.py, serve_review_ui.py, export_reviewed_corpus.py).
LabelsKept ==
    machine = "corpus" =>
        Corpus!TypeOK /\ Corpus!ExportedAsReviewed /\ Corpus!SavedReviewsKept

\* The audit only ever takes a verdict back, the proxy abstains on reviewed
\* windows only behind an excluded one, and a report is about the corpus that
\* was frozen (audit_reviews_conservatively.py, benchmark_gate2.py,
\* evaluate_gate3_validation.py).
EvaluationSound ==
    machine = "corpus" =>
        /\ Corpus!AuditedIsConservative /\ Corpus!AbstainsOnlyBehindAGap
        /\ Corpus!FrozenIsEvaluated

\* The observer ends and leaves no partial file unless the broker failed; the
\* replay ends with a report or an error.
ObservationEnds ==
    /\ machine = "observer" => Observer!EventuallySettles
    /\ machine = "replay" => Replay!EventuallyEnds
=============================================================================
