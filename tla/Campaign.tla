------------------------------ MODULE Campaign ------------------------------
(***************************************************************************)
(* The automated campaign: run_gate4_automated_campaign.py, its verifier   *)
(* verify_gate4_automated_campaign.py, the per-domain verdict of           *)
(* evaluate_gate4_formal_campaign.py, and the status file the dashboards   *)
(* show.  A run may be killed at any point and the next run uses the same  *)
(* output directory, so that the files found there may stem from different *)
(* runs.  The verifier is a function of the files: it may be started at    *)
(* any time.                                                               *)
(***************************************************************************)
EXTENDS Naturals, Sequences, SequencesExt, FiniteSets

CONSTANTS
    Workloads,   \* workload groups of the manifest
    MayExit,     \* those with allow_early_exit
    Duration,    \* --duration-seconds, in intervals
    MaxRuns, MaxFaults   \* bounds of the model

VARIABLES
    heartbeats, summary, live,   \* files of the output directory
    pc,          \* where the runner is
    run, mode, failures, interrupted, raising, chain, samples, complete,   \* its memory
    elapsed,     \* intervals since the run started
    wake,        \* when the runner's sleep ends
    alive,       \* workloads that are running, each with the run that started it
    started,     \* workloads this run has started
    faults,
    flawed       \* history: runs in which something went wrong before the verdict

files == <<heartbeats, summary, live>>
memory == <<run, mode, failures, interrupted, raising, chain, samples, complete>>
vars == <<files, pc, memory, elapsed, wake, alive, started, faults, flawed>>

-----------------------------------------------------------------------------
(* Files.                                                                  *)

Missing == [there |-> FALSE, torn |-> FALSE, rows |-> << >>]

\* The digest of a heartbeat stands for its body, the digest before included;
\* the body has the time in it, which here is the run.
Zero == << >>
Digest(r, sample, previous) == <<r, sample, previous>>

Heartbeat(r, sample, previous) ==
    [run |-> r, sample |-> sample, previous |-> previous,
     sha256 |-> Digest(r, sample, previous)]

\* append_sync: the row, or a fault and perhaps part of it.
AppendSync(file, row) == [there |-> TRUE, torn |-> file.torn, rows |-> Append(file.rows, row)]

CutOff(file) == {[file EXCEPT !.there = @ \/ t, !.torn = @ \/ t] : t \in BOOLEAN}

NoSummary == [there |-> FALSE, run |-> 0, formal |-> FALSE, complete |-> FALSE, samples |-> 0,
              head |-> Zero, failures |-> {}, interrupted |-> FALSE]

NoStatus == [there |-> FALSE, running |-> FALSE, run |-> 0, samples |-> 0, head |-> Zero]

-----------------------------------------------------------------------------
(* Verification and verdict.                                               *)

\* Every row follows the one before it.
Chained(rows) ==
    \A i \in DOMAIN rows :
        /\ rows[i].previous = IF i = 1 THEN Zero ELSE rows[i - 1].sha256
        /\ rows[i].sha256 = Digest(rows[i].run, rows[i].sample, rows[i].previous)

HeadOf(rows) == IF rows = << >> THEN Zero ELSE Last(rows).sha256

\* A verifier that does not look at the head.
VerifyCount ==
    /\ summary.there /\ heartbeats.there /\ ~heartbeats.torn
    /\ Chained(heartbeats.rows)
    /\ Len(heartbeats.rows) = summary.samples

\* A missing or unparsable file raises, and so is not valid either.
Verify ==
    /\ summary.there /\ heartbeats.there /\ ~heartbeats.torn
    /\ Chained(heartbeats.rows)
    /\ HeadOf(heartbeats.rows) = summary.head
    /\ Len(heartbeats.rows) = summary.samples

\* The part of the verdict that every domain of the evaluation needs.
Supported == Verify /\ summary.complete /\ summary.formal /\ summary.failures = {}

-----------------------------------------------------------------------------
(* The runner.                                                             *)

\* What validate_manifest lets through: a manifest of the fixed shape in one
\* of two modes.  "formal" also asks for the length, the workloads and the
\* domains of a formal run.
Manifests == {"smoke", "formal"}

\* A run that appends to what it finds.
StartKeeping(m) ==
    /\ pc = "idle" /\ run < MaxRuns
    /\ pc' = "setup" /\ run' = run + 1 /\ mode' = m
    /\ failures' = {} /\ interrupted' = FALSE /\ raising' = FALSE
    /\ chain' = Zero /\ samples' = 0 /\ complete' = FALSE
    /\ elapsed' = 0 /\ wake' = 0 /\ started' = {}
    /\ UNCHANGED <<heartbeats, summary, live, alive, faults, flawed>>

\* A new run forgets the heartbeats of the one before, but its summary and
\* status stay until they are replaced.
Start(m) ==
    /\ pc = "idle" /\ run < MaxRuns
    /\ pc' = "setup" /\ run' = run + 1 /\ mode' = m
    /\ heartbeats' = Missing
    /\ failures' = {} /\ interrupted' = FALSE /\ raising' = FALSE
    /\ chain' = Zero /\ samples' = 0 /\ complete' = FALSE
    /\ elapsed' = 0 /\ wake' = 0 /\ started' = {}
    /\ UNCHANGED <<summary, live, alive, faults, flawed>>

Fault == faults < MaxFaults /\ faults' = faults + 1

Flaw == flawed' = flawed \union {run}

Own(ws) == {run} \X ws

\* A setup command fails or times out: noted in memory only, and raised.
Setup ==
    /\ pc = "setup"
    /\ \/ pc' = "launch" /\ UNCHANGED <<failures, faults, flawed>>
       \/ Fault /\ Flaw /\ pc' = "except" /\ failures' = failures \union {"setup"}
    /\ UNCHANGED <<files, run, mode, interrupted, raising, chain, samples, complete, elapsed,
                   wake, alive, started>>

\* A list of workloads that only grows at the end.
LaunchUnlisted ==
    /\ pc = "launch"
    /\ \/ /\ started # Workloads
          /\ started' = Workloads /\ alive' = alive \union Own(Workloads)
          /\ UNCHANGED <<pc, faults, flawed>>
       \/ started = Workloads /\ pc' = "loop" /\ UNCHANGED <<started, alive, faults, flawed>>
       \/ /\ started # Workloads /\ Fault /\ Flaw /\ pc' = "except"
          /\ \E ws \in SUBSET Workloads : alive' = alive \union Own(ws)
          /\ UNCHANGED started
    /\ UNCHANGED <<files, memory, elapsed, wake>>

\* One workload after the other; a command that cannot be started raises.
Launch ==
    /\ pc = "launch"
    /\ \/ /\ started # Workloads
          /\ \E w \in Workloads \ started :
                started' = started \union {w} /\ alive' = alive \union Own({w})
          /\ UNCHANGED <<pc, faults, flawed>>
       \/ started = Workloads /\ pc' = "loop" /\ UNCHANGED <<started, alive, faults, flawed>>
       \/ started # Workloads /\ Fault /\ Flaw /\ pc' = "except" /\ UNCHANGED <<started, alive>>
    /\ UNCHANGED <<files, memory, elapsed, wake>>

\* A loop that only a signal ends.
LoopForever ==
    /\ pc = "loop"
    /\ pc' = IF ~interrupted THEN "poll" ELSE "teardown"
    /\ UNCHANGED <<files, memory, elapsed, wake, alive, started, faults, flawed>>

\* A loop that waits for the workloads to end.
LoopAwaiting ==
    /\ pc = "loop"
    /\ pc' = IF elapsed < Duration /\ ~interrupted THEN "poll"
             ELSE IF alive \intersect Own(started) = {} THEN "teardown" ELSE "loop"
    /\ UNCHANGED <<files, memory, elapsed, wake, alive, started, faults, flawed>>

Loop ==
    /\ pc = "loop"
    /\ pc' = IF elapsed < Duration /\ ~interrupted THEN "poll" ELSE "teardown"
    /\ UNCHANGED <<files, memory, elapsed, wake, alive, started, faults, flawed>>

\* Every workload is polled and measured.  One that is gone is a failure
\* unless it may exit; one that goes between the two is a failed measurement
\* whether it may exit or not.
Poll ==
    /\ pc = "poll"
    /\ \E racing \in SUBSET {w \in started : <<run, w>> \in alive} :
          LET gone == {w \in started \ MayExit : <<run, w>> \notin alive}
              rows == {"exit" : w \in gone} \union {"metric" : w \in racing}
          IN  /\ racing # {} => faults < MaxFaults
              /\ faults' = IF racing = {} THEN faults ELSE faults + 1
              /\ alive' = alive \ Own(racing)
              /\ failures' = failures \union rows
              /\ flawed' = IF rows = {} THEN flawed ELSE flawed \union {run}
    /\ pc' = "probe"
    /\ UNCHANGED <<heartbeats, summary, live, run, mode, interrupted, raising, chain, samples,
                   complete, elapsed, wake, started>>

\* The probes, and a row for one that fails.
Probe ==
    /\ pc = "probe" /\ pc' = "append"
    /\ \/ UNCHANGED <<failures, faults, flawed>>
       \/ Fault /\ Flaw /\ failures' = failures \union {"probe"}
    /\ UNCHANGED <<heartbeats, summary, live, run, mode, interrupted, raising, chain, samples,
                   complete, elapsed, wake, alive, started>>

\* The row of a failure cannot be written to failures.jsonl.
RecordFails ==
    /\ pc \in {"poll", "probe"} /\ Fault /\ Flaw
    /\ failures' = failures \union {pc} /\ pc' = "except"
    /\ UNCHANGED <<files, run, mode, interrupted, raising, chain, samples, complete, elapsed,
                   wake, alive, started>>

\* A heartbeat whose failure is not noticed.
AppendHeartbeatUnnoticed ==
    /\ pc = "append" /\ pc' = "live"
    /\ chain' = Digest(run, samples + 1, chain) /\ samples' = samples + 1
    /\ \/ /\ heartbeats' = AppendSync(heartbeats, Heartbeat(run, samples + 1, chain))
          /\ UNCHANGED <<faults, flawed>>
       \/ Fault /\ Flaw /\ heartbeats' \in CutOff(heartbeats)
    /\ UNCHANGED <<summary, live, run, mode, failures, interrupted, raising, complete,
                   elapsed, wake, alive, started>>

\* The heartbeat is appended and synced; the chain moves on before it is.
AppendHeartbeat ==
    /\ pc = "append"
    /\ chain' = Digest(run, samples + 1, chain)
    /\ \/ /\ heartbeats' = AppendSync(heartbeats, Heartbeat(run, samples + 1, chain))
          /\ samples' = samples + 1 /\ pc' = "live"
          /\ UNCHANGED <<faults, flawed>>
       \/ /\ Fault /\ Flaw /\ heartbeats' \in CutOff(heartbeats)
          /\ pc' = "except" /\ UNCHANGED samples
    /\ UNCHANGED <<summary, live, run, mode, failures, interrupted, raising, complete,
                   elapsed, wake, alive, started>>

\* The status file is replaced in one step; then the runner sleeps.
WriteLive ==
    /\ pc = "live"
    /\ \/ /\ live' = [there |-> TRUE, running |-> TRUE, run |-> run, samples |-> samples,
                      head |-> chain]
          /\ pc' = "sleep" /\ wake' = elapsed + 1
          /\ UNCHANGED <<faults, flawed>>
       \/ Fault /\ Flaw /\ pc' = "except" /\ UNCHANGED <<live, wake>>
    /\ UNCHANGED <<heartbeats, summary, memory, elapsed, alive, started>>

Wake ==
    /\ pc = "sleep" /\ (elapsed >= wake \/ elapsed >= Duration)
    /\ pc' = "loop"
    /\ UNCHANGED <<files, memory, elapsed, wake, alive, started, faults, flawed>>

\* The handler records the exception; if that fails too, the exception goes
\* on past the teardown.
Except ==
    /\ pc = "except" /\ pc' = "teardown"
    /\ failures' = failures \union {"runner"}
    /\ \/ UNCHANGED <<raising, faults>>
       \/ Fault /\ raising' = TRUE
    /\ UNCHANGED <<heartbeats, summary, live, run, mode, interrupted, chain, samples, complete,
                   elapsed, wake, alive, started, flawed>>

\* terminate() of every workload in the list: SIGTERM, then SIGKILL, and it
\* is waited for.
Terminated == alive \ Own(started)

\* The workloads are terminated, the teardown commands run.
Teardown ==
    /\ pc = "teardown"
    /\ alive' = Terminated
    /\ pc' = IF raising THEN "idle" ELSE "artifacts"
    /\ \/ UNCHANGED <<failures, faults, flawed>>
       \/ Fault /\ Flaw /\ failures' = failures \union {"teardown"}
    /\ UNCHANGED <<heartbeats, summary, live, run, mode, interrupted, raising, chain, samples,
                   complete, elapsed, wake, started>>

\* A failed teardown whose row cannot be written ends the process.
TeardownRaises ==
    /\ pc = "teardown" /\ Fault /\ Flaw
    /\ alive' = Terminated
    /\ pc' = "idle"
    /\ UNCHANGED <<heartbeats, summary, live, memory, elapsed, wake, started>>

\* A missing artifact is a failure; then complete is decided.
Judge ==
    /\ pc = "artifacts" /\ pc' = "summary"
    /\ \/ UNCHANGED <<failures, faults, flawed>>
       \/ Fault /\ Flaw /\ failures' = failures \union {"artifact"}
    /\ complete' = (~interrupted /\ elapsed >= Duration /\ failures' = {})
    /\ UNCHANGED <<files, run, mode, interrupted, raising, chain, samples, elapsed, wake, alive,
                   started>>

\* The summary is replaced in one step, after it the status; either may fail.
WriteSummary ==
    /\ pc = "summary"
    /\ \/ /\ summary' = [there |-> TRUE, run |-> run, formal |-> mode = "formal",
                         complete |-> complete, samples |-> samples, head |-> chain,
                         failures |-> failures, interrupted |-> interrupted]
          /\ pc' = "status" /\ UNCHANGED faults
       \/ Fault /\ pc' = "idle" /\ UNCHANGED summary
    /\ UNCHANGED <<heartbeats, live, memory, elapsed, wake, alive, started, flawed>>

WriteStatus ==
    /\ pc = "status" /\ pc' = "idle"
    /\ \/ /\ live' = [there |-> TRUE, running |-> FALSE, run |-> run, samples |-> samples,
                      head |-> chain]
          /\ UNCHANGED faults
       \/ Fault /\ UNCHANGED live
    /\ UNCHANGED <<heartbeats, summary, memory, elapsed, wake, alive, started, flawed>>

Runner ==
    \/ Setup \/ Launch \/ Loop \/ Poll \/ Probe \/ RecordFails \/ AppendHeartbeat \/ WriteLive \/ Wake
    \/ Except \/ Teardown \/ TeardownRaises \/ Judge \/ WriteSummary \/ WriteStatus

-----------------------------------------------------------------------------
(* The world around it.                                                    *)

Tick ==
    /\ pc # "idle" /\ elapsed < Duration
    /\ elapsed' = elapsed + 1
    /\ UNCHANGED <<files, pc, memory, wake, alive, started, faults, flawed>>

\* SIGINT or SIGTERM: the handler only sets a flag.
Signal ==
    /\ pc # "idle" /\ ~interrupted /\ Fault
    /\ interrupted' = TRUE
    /\ flawed' = IF pc \in {"summary", "status"} THEN flawed ELSE flawed \union {run}
    /\ UNCHANGED <<files, pc, run, mode, failures, raising, chain, samples, complete, elapsed,
                   wake, alive, started>>

\* The runner is killed; the workloads, in sessions of their own, are not.  An
\* append that was under way may be cut off.
Kill ==
    /\ pc # "idle" /\ Fault /\ pc' = "idle"
    /\ heartbeats' \in IF pc = "append" THEN CutOff(heartbeats) ELSE {heartbeats}
    /\ flawed' = IF pc = "status" THEN flawed ELSE flawed \union {run}
    /\ UNCHANGED <<summary, live, memory, elapsed, wake, alive, started>>

WorkloadExits ==
    /\ \E w \in alive : alive' = alive \ {w}
    /\ UNCHANGED <<files, pc, memory, elapsed, wake, started, faults, flawed>>

Init ==
    /\ heartbeats = Missing /\ summary = NoSummary /\ live = NoStatus
    /\ pc = "idle" /\ run = 0 /\ mode = "smoke" /\ failures = {}
    /\ interrupted = FALSE /\ raising = FALSE /\ chain = Zero /\ samples = 0 /\ complete = FALSE
    /\ elapsed = 0 /\ wake = 0 /\ alive = {} /\ started = {} /\ faults = 0 /\ flawed = {}

Next ==
    \/ \E m \in Manifests : Start(m)
    \/ Runner
    \/ Tick \/ Signal \/ Kill \/ WorkloadExits

\* The runner goes on: every command it waits for has a timeout, and a
\* workload that does not end is killed.  Time goes on.
Fairness == WF_vars(Runner) /\ WF_vars(Tick)

Spec == Init /\ [][Next]_vars /\ Fairness

-----------------------------------------------------------------------------
(* Properties.                                                             *)

TypeOK ==
    /\ run \in 0..MaxRuns /\ samples \in 0..Duration /\ elapsed \in 0..Duration
    /\ mode \in {"smoke", "formal"} /\ faults \in 0..MaxFaults
    /\ alive \subseteq (1..MaxRuns) \X Workloads /\ started \subseteq Workloads
    /\ Len(heartbeats.rows) <= Duration
    /\ {interrupted, raising, complete} \subseteq BOOLEAN

\* A supported verdict stands for one run, formal and from its start to its
\* verdict without a failure or an interruption, and the heartbeats that are
\* there are all of that run's, although a later run may have been killed
\* anywhere between removing them and writing a summary.
SupportedIsEarned ==
    Supported =>
        /\ summary.run \notin flawed
        /\ \A i \in DOMAIN heartbeats.rows :
              heartbeats.rows[i].run = summary.run /\ heartbeats.rows[i].sample = i

\* Whatever was killed or failed before, the heartbeats on disk are one chain.
HeartbeatsChained == Chained(heartbeats.rows)

\* The status the dashboard shows of the present run never runs ahead of the
\* heartbeats that are on disk.
StatusBehindHeartbeats ==
    live.there /\ live.running /\ live.run = run =>
        /\ live.samples <= Len(heartbeats.rows)
        /\ live.samples > 0 => live.head = heartbeats.rows[live.samples].sha256

LeavesNone ==
    pc # "idle" /\ pc' = "idle" /\ ~Kill => alive' \intersect Own(Workloads) = {}

\* A runner that ends by itself leaves none of its workloads behind.
NoWorkloadLeft == [][LeavesNone]_vars

\* Every run comes to its end, whatever fails.
RunEnds == pc # "idle" ~> pc = "idle"
=============================================================================
