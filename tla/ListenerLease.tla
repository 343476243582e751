---------------------------- MODULE ListenerLease ----------------------------
(***************************************************************************)
(* The laboratories in which a guardian keeps the seccomp listener while   *)
(* the broker that answers its notifications dies and is replaced:         *)
(*   "after"     run_gate4_listener_guardian.py: it dies after an answer;  *)
(*   "inflight"  run_gate4_inflight_crash.py: it dies with a notification  *)
(*               received, leased to the guardian and not answered;        *)
(*   "prelease"  run_gate4_prelease_teardown.py: it dies before the lease. *)
(*                                                                         *)
(* A notification that one process has received is never delivered again   *)
(* as long as somebody holds the listener, and the workload holds a copy   *)
(* of it for life: only an answer, a signal or the end of the workload     *)
(* ends the call.                                                          *)
(***************************************************************************)
EXTENDS Naturals, Sequences, SequencesExt, FiniteSets, FiniteSetsExt

CONSTANTS
    Targets,    \* threads of the protected process, one connect each
    Outsider,   \* the probe process the policy does not cover
    CrashAt,    \* the answer (or receipt) at which generation 1 dies
    MaxFaults   \* bound: interrupted calls and unreadable /proc entries

VARIABLES
    mode,       \* which laboratory runs
    call,       \* call[c]: what the kernel knows of c's connect
    broker,     \* the broker process
    reports,    \* its messages to the guardian, not yet read
    guardian,   \* the variables of run_proof()
    faults

vars == <<mode, call, broker, reports, guardian, faults>>

Callers == Targets \union {Outsider}
Nobody == "nobody"
Finished == {"denied", "allowed", "interrupted", "killed"}

\* filtered_workload(): every connect has returned, so the status is sent and
\* the process exits.
WorkloadExited == \A c \in Callers : call[c] \in Finished

Broker(generation) == [pc |-> "wait", gen |-> generation, cur |-> Nobody, effect |-> "ALLOW",
                       received |-> 0, processed |-> 0, exit |-> 0]

Init ==
    /\ mode \in {"after", "inflight", "prelease"}
    /\ call = [c \in Callers |-> "idle"]
    /\ broker = Broker(1) /\ reports = << >>
    /\ guardian = [phase |-> "loop", status |-> FALSE, leases |-> {}, crash |-> Nobody,
                   recovery |-> "none", denied |-> 0, allowed |-> 0, invalid |-> 0]
    /\ faults = 0

Tell(report) == reports' = Append(reports, report)

-----------------------------------------------------------------------------
(* The workload.                                                           *)

Connect(c) ==
    /\ call[c] = "idle"
    /\ call' = [call EXCEPT ![c] = "queued"]
    /\ UNCHANGED <<mode, broker, reports, guardian, faults>>

\* A signal ends the call; its notification is no longer valid.
Interrupt(c) ==
    /\ call[c] \in {"queued", "received"} /\ faults < MaxFaults
    /\ faults' = faults + 1
    /\ call' = [call EXCEPT ![c] = "interrupted"]
    /\ UNCHANGED <<mode, broker, reports, guardian>>

-----------------------------------------------------------------------------
(* broker_main(): one notification at a time.                              *)

Valid == call[broker.cur] = "received"

\* NOTIF_RECV: any queued notification.
Receive(c) ==
    /\ broker.pc = "wait" /\ call[c] = "queued"
    /\ call' = [call EXCEPT ![c] = "received"]
    /\ broker' = [broker EXCEPT !.pc = "classify", !.cur = c, !.received = @ + 1]
    /\ UNCHANGED <<mode, reports, guardian, faults>>

\* The notification is checked and the thread mapped to its process; a
\* mapping that fails counts as the target.  Generation 1 of "prelease"
\* dies here.
Classify(resolved) ==
    LET target == broker.cur \in Targets \/ ~resolved
        dies == mode = "prelease" /\ broker.gen = 1 /\ broker.received >= CrashAt
    IN  /\ broker.pc = "classify"
        /\ ~resolved => Valid /\ faults < MaxFaults
        /\ faults' = IF resolved THEN faults ELSE faults + 1
        /\ \/ /\ ~Valid /\ Tell([type |-> "invalid"])
              /\ broker' = [broker EXCEPT !.pc = "wait"]
           \/ /\ Valid /\ UNCHANGED reports
              /\ broker' = [broker EXCEPT !.effect = IF target THEN "DENY" ELSE "ALLOW",
                                          !.pc = IF dies THEN "dead" ELSE "lease",
                                          !.exit = IF dies THEN 72 ELSE @]
        /\ UNCHANGED <<mode, call, guardian>>

\* The lease is published; generation 1 of "inflight" then dies.
Lease ==
    LET lease == [type |-> "lease", id |-> broker.cur]
        dies == mode = "inflight" /\ broker.gen = 1 /\ broker.received >= CrashAt
    IN  /\ broker.pc = "lease"
        /\ reports' = reports \o (IF mode = "after" THEN << >> ELSE <<lease>>)
                              \o (IF dies THEN <<[type |-> "crash-before-send", id |-> broker.cur]>>
                                          ELSE << >>)
        /\ broker' = [broker EXCEPT !.pc = IF dies THEN "dead" ELSE "recheck",
                                    !.exit = IF dies THEN 71 ELSE @]
        /\ UNCHANGED <<mode, call, guardian, faults>>

Recheck ==
    /\ broker.pc = "recheck"
    /\ \/ Valid /\ UNCHANGED reports /\ broker' = [broker EXCEPT !.pc = "send"]
       \/ ~Valid /\ Tell([type |-> "invalid"]) /\ broker' = [broker EXCEPT !.pc = "wait"]
    /\ UNCHANGED <<mode, call, guardian, faults>>

Answer(c, effect) == call' = [call EXCEPT ![c] = IF effect = "DENY" THEN "denied" ELSE "allowed"]

\* NOTIF_SEND: raises, and ends the broker, when the call has gone meanwhile.
Send ==
    /\ broker.pc = "send"
    /\ \/ Valid /\ Answer(broker.cur, broker.effect) /\ broker' = [broker EXCEPT !.pc = "tell"]
       \/ ~Valid /\ UNCHANGED call /\ broker' = [broker EXCEPT !.pc = "dead", !.exit = 125]
    /\ UNCHANGED <<mode, reports, guardian, faults>>

\* The decision is reported after the answer; generation 1 of "after" dies.
Decision ==
    LET dies == mode = "after" /\ broker.gen = 1 /\ broker.processed + 1 >= CrashAt
    IN  /\ broker.pc = "tell"
        /\ reports' = reports \o <<[type |-> "decision", effect |-> broker.effect]>>
                              \o (IF dies THEN <<[type |-> "crash", id |-> broker.cur]>> ELSE << >>)
        /\ broker' = [broker EXCEPT !.pc = IF dies THEN "dead" ELSE "wait",
                                    !.processed = @ + 1, !.exit = IF dies THEN 70 ELSE @]
        /\ UNCHANGED <<mode, call, guardian, faults>>

-----------------------------------------------------------------------------
(* run_proof(): the guardian's loop.                                       *)

Looping == guardian.phase = "loop"

\* The answers counted so far, the one given to a lease included.
Denied == guardian.denied + (IF guardian.recovery = "DENY" THEN 1 ELSE 0)
Allowed == guardian.allowed + (IF guardian.recovery = "ALLOW" THEN 1 ELSE 0)

Complete == mode # "prelease" /\ guardian.status
            /\ Denied = Cardinality(Targets) /\ Allowed >= 1

\* Mutant of Read: the call of the dead broker is counted before its answer.
ReadCountingCrash(g, report) ==
    CASE report.type = "lease" -> [g EXCEPT !.leases = @ \union {report.id}]
      [] report.type = "decision" ->
            [g EXCEPT !.leases = {},
                      !.denied = @ + (IF report.effect = "DENY" THEN 1 ELSE 0),
                      !.allowed = @ + (IF report.effect = "ALLOW" THEN 1 ELSE 0)]
      [] report.type = "invalid" -> [g EXCEPT !.invalid = @ + 1]
      [] OTHER -> [g EXCEPT !.crash = report.id, !.denied = @ + 1]

\* What one report changes in the guardian's variables.
Read(g, report) ==
    CASE report.type = "lease" -> [g EXCEPT !.leases = @ \union {report.id}]
      [] report.type = "decision" ->
            [g EXCEPT !.leases = {},
                      !.denied = @ + (IF report.effect = "DENY" THEN 1 ELSE 0),
                      !.allowed = @ + (IF report.effect = "ALLOW" THEN 1 ELSE 0)]
      [] report.type = "invalid" -> [g EXCEPT !.invalid = @ + 1]
      [] OTHER -> [g EXCEPT !.crash = report.id]

StatusReady == mode # "prelease" /\ WorkloadExited /\ ~guardian.status
\* The status has been read and the workload's end of the channel is closed.
StatusClosed == mode # "prelease" /\ WorkloadExited /\ guardian.status
BrokerReady == reports # << >>
BrokerClosed == reports = << >> /\ broker.pc = "dead"

\* The workload's group is signalled, at last with SIGKILL: a call that has
\* not returned never does.
Terminated == [c \in Callers |-> IF call[c] \in Finished THEN call[c] ELSE "killed"]

\* The finally block.  The broker is killed and the listener closed; two of
\* the scripts kill the workload's group, the third only waits for it.
End(outcome) ==
    /\ broker' = [broker EXCEPT !.pc = "dead"]
    /\ \/ /\ mode # "prelease"
          /\ guardian' = [guardian EXCEPT !.phase = outcome]
          /\ call' = Terminated
       \/ /\ mode = "prelease"
          /\ guardian' = [guardian EXCEPT !.phase = IF WorkloadExited THEN outcome ELSE "hangs"]
          /\ UNCHANGED call
    /\ UNCHANGED <<mode, reports, faults>>

\* One turn: the status is read if it is there, then one report.
Turn ==
    /\ Looping /\ ~Complete /\ ~StatusClosed /\ (StatusReady \/ BrokerReady) /\ ~BrokerClosed
    /\ LET g == [guardian EXCEPT !.status = @ \/ StatusReady]
       IN  guardian' = IF BrokerReady THEN Read(g, Head(reports)) ELSE g
    /\ reports' = IF BrokerReady THEN Tail(reports) ELSE reports
    /\ UNCHANGED <<mode, call, broker, faults>>

\* recv() on the workload's channel returns nothing: "workload exited
\* without status".
StatusLost == Looping /\ ~Complete /\ StatusClosed /\ End("without status")

\* Mutant of Timeout: the guardian waits without a limit.
NoTimeout == FALSE /\ UNCHANGED vars

\* Nothing is ready for two seconds.
Timeout ==
    /\ Looping /\ mode # "prelease" /\ ~Complete
    /\ ~StatusReady /\ ~StatusClosed /\ ~BrokerReady /\ ~BrokerClosed
    /\ End("failed")

ExpectedExit == CASE mode = "after" -> 70 [] mode = "inflight" -> 71 [] OTHER -> 72

\* Mutant of RespondToLease: a process that is not the target is let go, one
\* that cannot be determined included.
RespondToLeaseOpen(c, resolved) ==
    IF call[c] # "received" THEN "INVALID"
    ELSE IF resolved /\ c \in Targets THEN "DENY" ELSE "ALLOW"

\* respond_to_lease(): what the guardian tells the call of a dead broker.
RespondToLease(c, resolved) ==
    IF call[c] # "received" THEN "INVALID"
    ELSE IF ~resolved THEN "UNRESOLVED" ELSE IF c \in Targets THEN "DENY" ELSE "ALLOW"

\* Mutant of Replace: the answer for the dead broker is recorded, not sent.
ReplaceUnanswered(resolved) ==
    /\ Looping /\ ~Complete /\ ~StatusClosed /\ BrokerClosed
    /\ broker.exit = ExpectedExit /\ (mode = "prelease" \/ broker.gen = 1)
    /\ broker' = Broker(broker.gen + 1)
    /\ guardian' = [guardian EXCEPT !.status = @ \/ StatusReady, !.leases = {},
                        !.recovery = IF mode = "inflight"
                                     THEN RespondToLease(guardian.crash, resolved) ELSE @]
    /\ UNCHANGED <<mode, call, reports, faults>>

\* The broker is gone: its lease is answered and generation 2 started.  The
\* status is read in the same turn.
Replace(resolved) ==
    LET effect == RespondToLease(guardian.crash, resolved)
    IN  /\ Looping /\ ~Complete /\ ~StatusClosed /\ BrokerClosed
        /\ broker.exit = ExpectedExit /\ (mode = "prelease" \/ broker.gen = 1)
        /\ mode = "inflight" => guardian.crash \in guardian.leases
        /\ ~resolved => mode = "inflight" /\ faults < MaxFaults
        /\ faults' = IF resolved THEN faults ELSE faults + 1
        /\ broker' = Broker(broker.gen + 1)
        /\ guardian' = [guardian EXCEPT !.status = @ \/ StatusReady, !.leases = {},
                                        !.recovery = IF mode = "inflight" THEN effect ELSE @]
        /\ IF mode = "inflight" /\ effect \in {"DENY", "ALLOW"}
           THEN Answer(guardian.crash, effect) ELSE UNCHANGED call
        /\ UNCHANGED <<mode, reports>>

\* "unexpected broker exit".
UnexpectedExit ==
    /\ Looping /\ ~Complete /\ ~StatusClosed /\ BrokerClosed
    /\ \/ broker.exit # ExpectedExit
       \/ mode # "prelease" /\ broker.gen # 1
       \/ mode = "inflight" /\ guardian.crash \notin guardian.leases
    /\ End("failed")

\* terminate_group() once the deadline after the crash has passed: SIGTERM,
\* then SIGKILL; nothing of the protected group is left.
Deadline ==
    /\ Looping /\ mode = "prelease" /\ broker.gen = 2
    /\ broker' = [broker EXCEPT !.pc = "dead"]
    /\ guardian' = [guardian EXCEPT !.phase = "torn"]
    /\ call' = Terminated
    /\ UNCHANGED <<mode, reports, faults>>

\* The criteria of the report.
Criteria ==
    /\ broker.gen = 2 /\ guardian.crash # Nobody /\ guardian.invalid = 0
    /\ mode = "inflight" => guardian.recovery = "DENY"
    /\ \A c \in Targets : call[c] = "denied"
    /\ call[Outsider] = "allowed"

Finish == Looping /\ Complete /\ End(IF Criteria THEN "passed" ELSE "failed")

-----------------------------------------------------------------------------
Ended == ~Looping /\ UNCHANGED vars

Progress ==
    \/ \E c \in Callers : Connect(c) \/ Receive(c)
    \/ Classify(TRUE) \/ Lease \/ Recheck \/ Send \/ Decision
    \/ Turn \/ StatusLost \/ Timeout \/ Replace(TRUE) \/ UnexpectedExit \/ Deadline \/ Finish

Next == \/ Progress
        \/ Classify(FALSE) \/ Replace(FALSE)
        \/ \E c \in Callers : Interrupt(c)
        \/ Ended

Spec == Init /\ [][Next]_vars /\ WF_vars(Progress)

-----------------------------------------------------------------------------
TypeOK ==
    /\ mode \in {"after", "inflight", "prelease"}
    /\ call \in [Callers -> Finished \union {"idle", "queued", "received"}]
    /\ broker.pc \in {"wait", "classify", "lease", "recheck", "send", "tell", "dead"}
    /\ broker.cur \in Callers \union {Nobody} /\ broker.gen \in 1..2
    /\ guardian.phase \in {"loop", "passed", "failed", "without status", "torn", "hangs"}
    /\ guardian.leases \subseteq Callers /\ faults \in 0..MaxFaults

\* Whichever broker dies, wherever it dies, and whatever cannot be read: no
\* connect of the protected process is continued, by a broker or by the
\* guardian answering for a dead one.
TargetNeverAllowed == \A c \in Targets : call[c] # "allowed"

\* A replacement starts with nothing left behind: a notification that the
\* dead broker had received is answered before generation 2 receives one,
\* unless its process could not be determined or the lease was never made.
NoOrphan ==
    Looping /\ mode # "prelease" /\ broker.gen = 2 /\ guardian.recovery # "UNRESOLVED" =>
        \A c \in Callers : call[c] = "received" => c = broker.cur /\ broker.pc # "wait"

\* The guardian never counts more denials than the kernel has delivered,
\* although a crashed broker's answer and the guardian's own are counted
\* apart and the reports arrive late.
CountsAreReal ==
    /\ Denied <= Cardinality({c \in Callers : call[c] = "denied"})
    /\ Allowed <= Cardinality({c \in Callers : call[c] = "allowed"})

\* The laboratory ends.  "prelease" waits for a workload it has not killed
\* when the broker ends in an unexpected way, and loops for ever when too
\* few calls reach the broker: both need an interrupted call.
EventuallyEnds ==
    <>(guardian.phase \notin {"loop", "hangs"} \/ (mode = "prelease" /\ faults > 0))
=============================================================================
