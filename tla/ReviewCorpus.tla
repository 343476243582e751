---------------------------- MODULE ReviewCorpus ----------------------------
(***************************************************************************)
(* From captured events to an evaluated corpus: telemetry_pipeline.py,     *)
(* build_trajectory_candidates.py, build_review_queue.py,                  *)
(* serve_review_ui.py, audit_reviews_conservatively.py,                    *)
(* export_reviewed_corpus.py, independent_corpus.py,                       *)
(* validation_protocol.py with its two scripts, and benchmark_gate2.       *)
(* evaluate.                                                               *)
(*                                                                         *)
(* The commands are run one after the other by one operator; the review    *)
(* server runs beside them.  Every command passes its result on in a file, *)
(* so that each may find files of different ages.  A namespace is known by *)
(* how many events of it were captured: event i of it is the number i.     *)
(***************************************************************************)
EXTENDS Naturals, Sequences, FiniteSets

CONSTANTS
    Namespaces,   \* 1 .. n: build_candidates goes through them in order
    Window,       \* --max-events
    WindowLimit,  \* the length at which the audit finds a window ambiguous
    Given,        \* the reviews the reviewer may send
    MinTest,      \* minimum_natural_test
    MaxEvents, MaxPosts, MaxFaults, MaxCommands   \* bounds of the model

VARIABLES
    captured,    \* events per namespace in events.jsonl
    candidates, queue, reviews, audited, corpus, frozen, report,   \* files
    builder,     \* build_review_queue: how far it is and what it has read
    server,      \* serve_review_ui: running or not, its order and its memory
    posts, faults, commands,   \* counters of the model's bounds
    latest,      \* history: per window the last review the reviewer sent
    saved,       \* history: per window the last review answered with "saved"
    disturbed    \* history: a write failed, or a queue was built beside the server

vars == <<captured, candidates, queue, reviews, audited, corpus, frozen, report, builder,
          server, posts, faults, commands, latest, saved, disturbed>>

history == <<latest, saved, disturbed>>

products == <<audited, corpus, frozen, report>>

-----------------------------------------------------------------------------
(* Files and rows.                                                         *)

\* The operator enters one more command while no other one is running.
Command == builder.phase = "idle" /\ commands < MaxCommands /\ commands' = commands + 1

\* A JSON lines file, or none.  A write that is cut short leaves some rows
\* and perhaps part of another one (whole is then FALSE).
NoFile == [there |-> FALSE, whole |-> FALSE, rows |-> << >>]

Whole(rows) == [there |-> TRUE, whole |-> TRUE, rows |-> rows]

CutShort(rows) ==
    {[there |-> TRUE, whole |-> w, rows |-> SubSeq(rows, 1, n)] :
        w \in BOOLEAN, n \in 0..Len(rows)}

\* The outcomes of write_jsonl: everything, or a fault and part of it.
Written(rows) ==
    {<<Whole(rows), faults>>}
        \union (IF faults < MaxFaults THEN CutShort(rows) \X {faults + 1} ELSE {})

\* read_jsonl raises for a missing file and for a line it cannot parse.
Readable(file) == file.there /\ file.whole

Required == [label |-> "REVIEW_REQUIRED", lab |-> FALSE, high |-> TRUE]

Labels == {"benign", "malicious", "inconclusive"}

IdsOf(rows) == {rows[i].id : i \in DOMAIN rows}

RowOf(rows, id) == rows[CHOOSE i \in DOMAIN rows : rows[i].id = id]

IsUnique(rows) == \A i, j \in DOMAIN rows : rows[i].id = rows[j].id => i = j

\* The rows at some places of a file, in its order.
Picked(rows, places) ==
    LET picked[i \in 0..Len(rows)] ==
            IF i = 0 THEN << >>
            ELSE IF i \in places THEN Append(picked[i - 1], rows[i]) ELSE picked[i - 1]
    IN  picked[Len(rows)]

\* The rows of a file that bear a label, and their reviews by the window they
\* are for.  No file of the model has two rows for one window (TypeOK), so that
\* it does not matter which of two the code would keep.
Labelled(rows) == {i \in DOMAIN rows : rows[i].review.label \in Labels}

ReviewsIn(rows) ==
    [id \in {rows[i].id : i \in Labelled(rows)} |->
        rows[CHOOSE i \in Labelled(rows) : rows[i].id = id].review]

-----------------------------------------------------------------------------
(* Candidates.                                                             *)

\* An identity that only says where the window begins.
IdentityByPlace(ns, first, last) == <<ns, first>>

\* The identity of a window is a hash of the namespace and of its events.
Identity(ns, first, last) == <<ns, first, last>>

Candidate(ns, first, last) ==
    [id |-> Identity(ns, first, last), ns |-> ns, first |-> first, last |-> last]

Windows(ns, count) ==
    [w \in 1..((count + Window - 1) \div Window) |->
        Candidate(ns, (w - 1) * Window + 1, IF w * Window > count THEN count ELSE w * Window)]

AllWindows == {w \in Namespaces \X (1..MaxEvents) \X (1..MaxEvents) : w[2] <= w[3]}

\* build_candidates: the namespaces in order, each cut into its windows.
BuiltCandidates ==
    LET upto[ns \in 0..Cardinality(Namespaces)] ==
            IF ns = 0 THEN << >> ELSE upto[ns - 1] \o Windows(ns, captured[ns])
    IN  upto[Cardinality(Namespaces)]

BuildCandidates ==
    /\ Command /\ BuiltCandidates # << >>
    /\ \E w \in Written(BuiltCandidates) : candidates' = w[1] /\ faults' = w[2]
    /\ UNCHANGED <<captured, queue, reviews, products, builder, server, posts, history>>

Capture(ns) ==
    /\ builder.phase = "idle" /\ captured[ns] < MaxEvents
    /\ captured' = [captured EXCEPT ![ns] = @ + 1]
    /\ UNCHANGED <<candidates, queue, reviews, products, builder, server, posts, faults,
                   commands, history>>

-----------------------------------------------------------------------------
(* build_review_queue.                                                     *)

Idle == [phase |-> "idle", existing |-> << >>, at |-> 0, linked |-> FALSE]

\* The labelled rows of the review file; a line that cannot be parsed is
\* skipped.
QueueRead ==
    /\ Command /\ candidates.there
    /\ builder' = [Idle EXCEPT !.phase = "read", !.existing = ReviewsIn(reviews.rows)]
    /\ disturbed' = (disturbed \/ server.up)
    /\ UNCHANGED <<captured, candidates, queue, reviews, products, server, posts, faults,
                   latest, saved>>

\* Both output files are opened for writing, and so emptied.
QueueOpen ==
    /\ builder.phase = "read"
    /\ queue' = Whole(<< >>) /\ reviews' = Whole(<< >>)
    /\ builder' = [builder EXCEPT !.phase = "write", !.at = 1, !.linked = TRUE]
    /\ UNCHANGED <<captured, candidates, products, server, posts, faults, commands,
                   history>>

\* Mutant of QueueRow: only a benign verdict is carried over.
QueueRowBenign(id) ==
    [id |-> id, review |-> IF id \in DOMAIN builder.existing
                              /\ builder.existing[id].label = "benign"
                           THEN builder.existing[id] ELSE Required]

\* One candidate: its summary and the review it had, or the template.  After
\* the server has put its own file in place the row goes to the old one.
QueueRow(id) ==
    [id |-> id, review |-> IF id \in DOMAIN builder.existing
                           THEN builder.existing[id] ELSE Required]

QueueWrite ==
    /\ builder.phase = "write" /\ builder.at <= Len(candidates.rows)
    /\ LET candidate == candidates.rows[builder.at] IN
       /\ queue' = [queue EXCEPT !.rows = Append(@, candidate)]
       /\ reviews' = IF builder.linked
                     THEN [reviews EXCEPT !.rows = Append(@, QueueRow(candidate.id))] ELSE reviews
    /\ builder' = [builder EXCEPT !.at = @ + 1]
    /\ UNCHANGED <<captured, candidates, products, server, posts, faults, commands,
                   history>>

QueueDone ==
    /\ builder.phase = "write" /\ builder.at > Len(candidates.rows)
    /\ candidates.whole
    /\ builder' = Idle
    /\ UNCHANGED <<captured, candidates, queue, reviews, products, server, posts, faults,
                   commands, history>>

\* A candidate that cannot be parsed ends the command; so does a fault, which
\* may cut a row of the review file.
QueueFails ==
    /\ builder.phase # "idle"
    /\ \/ /\ builder.phase = "write" /\ builder.at > Len(candidates.rows) /\ ~candidates.whole
          /\ UNCHANGED <<faults, reviews>>
       \/ /\ faults < MaxFaults /\ faults' = faults + 1
          /\ \E w \in BOOLEAN :
                reviews' = IF builder.linked THEN [reviews EXCEPT !.whole = w] ELSE reviews
    /\ builder' = Idle /\ disturbed' = TRUE
    /\ UNCHANGED <<captured, candidates, queue, products, server, posts, commands, latest,
                   saved>>

-----------------------------------------------------------------------------
(* serve_review_ui.                                                        *)

Down == [up |-> FALSE, order |-> << >>, memory |-> << >>]

\* The server refuses a queue or a review file it cannot parse, and a labelled
\* row for a window that is not in the queue.
ServeStart ==
    /\ ~server.up /\ Readable(queue) /\ (reviews.there => reviews.whole)
    /\ DOMAIN ReviewsIn(reviews.rows) \subseteq IdsOf(queue.rows)
    /\ server' = [up |-> TRUE, order |-> queue.rows, memory |-> ReviewsIn(reviews.rows)]
    /\ disturbed' = (disturbed \/ builder.phase # "idle")
    /\ UNCHANGED <<captured, candidates, queue, reviews, products, builder, posts, faults,
                   commands, latest, saved>>

\* write_reviews: the rows the memory has, in the order of the queue.
MemoryRows(memory) ==
    LET kept == Picked(server.order,
                    {i \in DOMAIN server.order : server.order[i].id \in DOMAIN memory})
    IN  [i \in DOMAIN kept |-> [id |-> kept[i].id, review |-> memory[kept[i].id]]]

WindowOf(candidate) == <<candidate.ns, candidate.first, candidate.last>>

With(f, id, review) == [i \in DOMAIN f \union {id} |-> IF i = id THEN review ELSE f[i]]

\* A review is put into the memory and the memory is written to a new file
\* that replaces the old one; if that fails the memory keeps the review.
Post(item, review) ==
    /\ server.up /\ posts < MaxPosts
    /\ posts' = posts + 1
    /\ server' = [server EXCEPT !.memory = With(@, item.id, review)]
    /\ latest' = With(latest, WindowOf(item), review)
    /\ \/ /\ reviews' = Whole(MemoryRows(server'.memory))
          /\ builder' = [builder EXCEPT !.linked = FALSE]
          /\ saved' = With(saved, WindowOf(item), review)
          /\ UNCHANGED <<faults, disturbed>>
       \/ /\ faults < MaxFaults /\ faults' = faults + 1 /\ disturbed' = TRUE
          /\ UNCHANGED <<reviews, builder, saved>>
    /\ UNCHANGED <<captured, candidates, queue, products, commands>>

ServeStop ==
    /\ server.up /\ server' = Down
    /\ UNCHANGED <<captured, candidates, queue, reviews, products, builder, posts, faults,
                   commands, history>>

-----------------------------------------------------------------------------
(* Audit and export.                                                       *)

\* A limit that is off by one.
AmbiguousLate(candidate, review) ==
    \/ review.label = "malicious" /\ ~review.lab
    \/ ~review.high
    \/ candidate.last - candidate.first + 1 > WindowLimit

\* ambiguity_reasons, by the fields a reviewer and a window have here.
Ambiguous(candidate, review) ==
    \/ review.label = "malicious" /\ ~review.lab
    \/ ~review.high
    \/ candidate.last - candidate.first + 1 >= WindowLimit

Revised(row) ==
    IF Ambiguous(RowOf(candidates.rows, row.id), row.review)
    THEN [row EXCEPT !.review = [@ EXCEPT !.label = "inconclusive", !.high = FALSE]]
    ELSE row

Matches(rows) == IsUnique(rows) /\ IdsOf(rows) = IdsOf(candidates.rows)

\* What a reviewer had last said when the labels were taken (history).
Snapshot == [latest |-> latest, disturbed |-> disturbed]

\* A file of labels, with what the model remembers of their making.
TakenFrom(file, from, said) ==
    [there |-> file.there, whole |-> file.whole, rows |-> file.rows, from |-> from,
     said |-> said]

Audit ==
    /\ Command /\ Readable(candidates) /\ Readable(reviews) /\ Matches(reviews.rows)
    /\ \E w \in Written([i \in DOMAIN reviews.rows |-> Revised(reviews.rows[i])]) :
          audited' = TakenFrom(w[1], "audited", Snapshot) /\ faults' = w[2]
    /\ UNCHANGED <<captured, candidates, queue, reviews, corpus, frozen, report, builder,
                   server, posts, history>>

\* apply_reviews: every candidate has one valid review and every review a
\* candidate; what is inconclusive is left out.
Reviewed(rows) ==
    LET kept == Picked(candidates.rows,
                    {i \in DOMAIN candidates.rows :
                        RowOf(rows, candidates.rows[i].id).review.label
                            \in {"benign", "malicious"}})
    IN  [i \in DOMAIN kept |->
            [candidate |-> kept[i], review |-> RowOf(rows, kept[i].id).review]]

Applicable(rows) ==
    /\ Matches(rows)
    /\ \A i \in DOMAIN rows : rows[i].review.label \in Labels

Export(source, from, said) ==
    /\ Command /\ Readable(candidates) /\ Readable(source) /\ Applicable(source.rows)
    /\ \E w \in Written(Reviewed(source.rows)) :
          corpus' = TakenFrom(w[1], from, said) /\ faults' = w[2]
    /\ UNCHANGED <<captured, candidates, queue, reviews, audited, frozen, report, builder,
                   server, posts, history>>

ExportReviews == Export(reviews, "reviews", Snapshot)

ExportAudited == audited.there /\ Export(audited, "audited", audited.said)

-----------------------------------------------------------------------------
(* Freezing and evaluation.                                                *)

\* load_independent_corpus: it refuses what does not parse and a corpus
\* without trajectories.
Loads(file) == Readable(file) /\ file.rows # << >>

\* freeze_validation_bundle refuses a natural corpus that is too small or
\* holds a malicious trajectory.  The controlled corpus and the checkpoints,
\* which no action here changes, are taken to be acceptable.
Freezable(file) ==
    /\ Loads(file) /\ Len(file.rows) >= MinTest
    /\ \A i \in DOMAIN file.rows : file.rows[i].review.label = "benign"

\* freeze_manifest: the digest of the corpus file, which here is its rows;
\* the counts beside it follow from them.
Manifest(file) == Whole(file.rows)

\* The script never overwrites a bundle.
Freeze ==
    /\ builder.phase = "idle" /\ ~frozen.there /\ Freezable(corpus)
    /\ frozen' = Manifest(corpus)
    /\ UNCHANGED <<captured, candidates, queue, reviews, audited, corpus, report, builder,
                   server, posts, faults, commands, history>>

\* An evaluation that uses the number of the event within its window.
StepTrajectoryDerived(row, acc) ==
    LET c == row.candidate
        gap == 1 # acc.last[c.ns] + 1
    IN  [last |-> [acc.last EXCEPT ![c.ns] = IF gap THEN @ ELSE c.last - c.first + 1],
         abstained |-> IF gap THEN acc.abstained \union {c.id} ELSE acc.abstained]

\* The engine's state across the trajectories of a corpus: the last sequence
\* of each namespace, and whether the last event of each trajectory was a gap.
\* A gap leaves the state alone.
StepTrajectory(row, acc) ==
    LET c == row.candidate
        gap == c.first # acc.last[c.ns] + 1
    IN  [last |-> [acc.last EXCEPT ![c.ns] = IF gap THEN @ ELSE c.last],
         abstained |-> IF gap THEN acc.abstained \union {c.id} ELSE acc.abstained]

Abstained(rows) ==
    LET after[i \in 0..Len(rows)] ==
            IF i = 0 THEN [last |-> [ns \in Namespaces |-> 0], abstained |-> {}]
            ELSE StepTrajectory(rows[i], after[i - 1])
    IN  after[Len(rows)].abstained

\* An evaluation that trusts the bundle.
EvaluateUnchecked ==
    /\ builder.phase = "idle" /\ ~report.there
    /\ frozen.there /\ Loads(corpus)
    /\ report' = [there |-> TRUE, rows |-> corpus.rows, abstained |-> Abstained(corpus.rows)]
    /\ UNCHANGED <<captured, candidates, queue, reviews, audited, corpus, frozen, builder,
                   server, posts, faults, commands, history>>

\* evaluate_gate3_validation: the corpus must still have the digest of the
\* bundle; the report is never overwritten.
Evaluate ==
    /\ builder.phase = "idle" /\ ~report.there
    /\ frozen.there /\ corpus.there /\ corpus.rows = frozen.rows /\ Loads(corpus)
    /\ report' = [there |-> TRUE, rows |-> corpus.rows, abstained |-> Abstained(corpus.rows)]
    /\ UNCHANGED <<captured, candidates, queue, reviews, audited, corpus, frozen, builder,
                   server, posts, faults, commands, history>>

-----------------------------------------------------------------------------
Init ==
    /\ captured = [ns \in Namespaces |-> 0]
    /\ candidates = NoFile /\ queue = NoFile /\ reviews = NoFile /\ audited = NoFile
    /\ corpus = NoFile /\ frozen = NoFile /\ report = NoFile
    /\ builder = Idle /\ server = Down
    /\ posts = 0 /\ faults = 0 /\ commands = 0
    /\ latest = << >> /\ saved = << >> /\ disturbed = FALSE

Next ==
    \/ \E ns \in Namespaces : Capture(ns)
    \/ BuildCandidates
    \/ QueueRead \/ QueueOpen \/ QueueWrite \/ QueueDone \/ QueueFails
    \/ ServeStart \/ ServeStop
    \/ \E i \in DOMAIN server.order, review \in Given : Post(server.order[i], review)
    \/ Audit \/ ExportReviews \/ ExportAudited \/ Freeze \/ Evaluate

Spec == Init /\ [][Next]_vars

-----------------------------------------------------------------------------
(* Properties.                                                             *)

Ids == {Identity(w[1], w[2], w[3]) : w \in AllWindows}

TypeOK ==
    /\ captured \in [Namespaces -> 0..MaxEvents]
    /\ IdsOf(candidates.rows) \subseteq Ids /\ IsUnique(candidates.rows)
    /\ IdsOf(queue.rows) \subseteq Ids /\ IsUnique(reviews.rows)
    /\ DOMAIN server.memory \subseteq IdsOf(server.order)
    /\ builder.phase \in {"idle", "read", "write"} /\ builder.at \in 0..(Len(candidates.rows) + 1)
    /\ posts \in 0..MaxPosts /\ faults \in 0..MaxFaults
    /\ DOMAIN saved \subseteq DOMAIN latest

\* A label reaches the corpus only for the window it was given for, whatever
\* was captured, rebuilt or restarted in between; and unless a write failed
\* or a queue was built beside the server it is the last one given.
ExportedAsReviewed ==
    corpus.there =>
        \A i \in DOMAIN corpus.rows :
            LET row == corpus.rows[i] IN
            /\ WindowOf(row.candidate) \in DOMAIN corpus.said.latest
            /\ ~corpus.said.disturbed =>
                  row.review = corpus.said.latest[WindowOf(row.candidate)]

\* A corpus exported from audited reviews holds no window that reached the
\* limit, no malicious label without a laboratory source and no review of low
\* confidence, also when the candidates were rebuilt after the audit.
AuditedIsConservative ==
    corpus.there /\ corpus.from = "audited" =>
        \A i \in DOMAIN corpus.rows :
            LET row == corpus.rows[i] IN
            /\ row.candidate.last - row.candidate.first + 1 < WindowLimit
            /\ row.review.label = "benign" \/ row.review.lab
            /\ row.review.high

\* The engine abstains on a trajectory exactly when an earlier window of its
\* namespace was left out: window boundaries alone are no gap.
AbstainsOnlyBehindAGap ==
    report.there =>
        LET window == [i \in DOMAIN report.rows |-> report.rows[i].candidate] IN
        \A i \in DOMAIN window :
            window[i].id \in report.abstained <=>
                \E e \in 1..(window[i].first - 1) :
                    \A j \in DOMAIN window :
                        ~(window[j].ns = window[i].ns /\ e \in window[j].first..window[j].last)

\* What was evaluated is what was frozen, whatever was exported in between.
FrozenIsEvaluated == report.there => report.rows = frozen.rows

\* README.md: "Existing valid reviews are preserved when `make
\* build-review-queue` regenerates a queue."  Once a review was answered with
\* "saved", the reviews file holds one for every candidate of that window,
\* unless a write failed or a queue was built beside the server.
SavedReviewsKept ==
    builder.phase = "idle" /\ candidates.there /\ ~disturbed /\ faults = 0 =>
        \A i \in DOMAIN candidates.rows :
            WindowOf(candidates.rows[i]) \in DOMAIN saved =>
                \E j \in Labelled(reviews.rows) : reviews.rows[j].id = candidates.rows[i].id
=============================================================================
