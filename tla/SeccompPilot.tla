----------------------------- MODULE SeccompPilot -----------------------------
(***************************************************************************)
(* One supervise() of run_egress_seccomp_pilot.py.  A helper installs the  *)
(* filter on itself, hands the listener to the supervisor, forks curl (the *)
(* target) and holds it at a pipe.  After GO it probes an outside address  *)
(* itself, to show that it is out of scope, and only then releases the     *)
(* target.  The supervisor answers the connects of both.                   *)
(*                                                                         *)
(* The helper keeps a copy of the listener for life: when the supervisor   *)
(* is gone a connect of either blocks until a signal ends it.              *)
(***************************************************************************)
EXTENDS Naturals, Sequences, EnforcementScope

CONSTANTS
    MaxConnects,  \* bound: connects of the target
    MaxFaults     \* bound: failures of the helper, interrupted calls, unreadable or
                  \* changed /proc entries, and a kill of the supervisor

VARIABLES
    url,         \* where the target is sent
    helper,      \* filtered_curl()
    target,      \* the forked process
    call,        \* call[p]: what the kernel knows of p's connect
    channel,     \* the helper's messages, not yet read
    supervisor,  \* supervise(): its place, GO, the pin, the notification in hand
    decisions,   \* its list
    kernel,      \* history: what the kernel did with the connects
    faults

vars == <<url, helper, target, call, channel, supervisor, decisions, kernel, faults>>

Processes == {"helper", "curl"}
Blocked(p) == call[p] \in {"queued", "received"}
Connected == call["curl"] = "allowed" /\ target.to = url
Gone == supervisor.pc \in {"gone", "ended", "killed"}
Curl == ArtifactIdentity("curl", "sum")
Nothing == [denied |-> 0, probed |-> 0]

Init ==
    /\ url \in {"loopback", "external"}
    /\ helper = [pc |-> "install", probe |-> FALSE]
    /\ target = [state |-> "none", tries |-> 0, to |-> url, code |-> 0]
    /\ call = [p \in Processes |-> "none"]
    /\ channel = << >>
    /\ supervisor = [pc |-> "listener", go |-> FALSE, pinned |-> Unpinned, note |-> "none",
                     policy |-> "ALLOW", effect |-> "ALLOW", blind |-> FALSE, result |-> "none"]
    /\ decisions = Nothing /\ kernel = Nothing /\ faults = 0

Fault == faults < MaxFaults /\ faults' = faults + 1

-----------------------------------------------------------------------------
(* filtered_curl() and the target.                                         *)

\* Nobody reads when the supervisor is gone.
Say(message) == channel' = IF Gone THEN << >> ELSE Append(channel, message)

\* The pipe closes with the helper: a target that is still held reads the end
\* of file and exits.
HelperExits == helper' = [helper EXCEPT !.pc = "done"]
Dropped == [target EXCEPT !.state = IF @ = "held" THEN "exited" ELSE @, !.code = 126]

\* Anything raises: the error is reported and the helper exits.
HelperFails ==
    /\ helper.pc \in {"install", "fork"} /\ Fault
    /\ HelperExits /\ Say([type |-> "error"])
    /\ UNCHANGED <<url, target, call, supervisor, decisions, kernel>>

Install ==
    /\ helper.pc = "install"
    /\ helper' = [helper EXCEPT !.pc = "fork"] /\ Say([type |-> "ready"])
    /\ UNCHANGED <<url, target, call, supervisor, decisions, kernel, faults>>

Fork ==
    /\ helper.pc = "fork"
    /\ helper' = [helper EXCEPT !.pc = "await"]
    /\ target' = [target EXCEPT !.state = "held"] /\ Say([type |-> "target"])
    /\ UNCHANGED <<url, call, supervisor, decisions, kernel, faults>>

\* GO, and the probe's connect begins.
Probe ==
    /\ helper.pc = "await" /\ supervisor.go
    /\ helper' = [helper EXCEPT !.pc = "probe"]
    /\ call' = [call EXCEPT !["helper"] = "queued"]
    /\ UNCHANGED <<url, target, channel, supervisor, decisions, kernel, faults>>

\* The channel closed instead: the target is killed.
NoGo ==
    /\ helper.pc = "await" /\ ~supervisor.go /\ Gone
    /\ HelperExits /\ target' = [target EXCEPT !.state = "killed", !.code = 126]
    /\ UNCHANGED <<url, call, channel, supervisor, decisions, kernel, faults>>

\* Mutant of ReleaseTarget: the target is released before the probe returned.
ReleaseAtOnce ==
    /\ helper.pc = "probe" /\ target.state = "held"
    /\ helper' = [helper EXCEPT !.pc = "probe", !.probe = call["helper"] = "allowed"]
    /\ target' = [target EXCEPT !.state = "running"]
    /\ UNCHANGED <<url, call, channel, supervisor, decisions, kernel, faults>>

\* The probe got through, so the target is released.
ReleaseTarget ==
    /\ helper.pc = "probe" /\ call["helper"] = "allowed"
    /\ helper' = [helper EXCEPT !.pc = "wait", !.probe = TRUE]
    /\ target' = [target EXCEPT !.state = "running"]
    /\ UNCHANGED <<url, call, channel, supervisor, decisions, kernel, faults>>

\* The probe failed: connect() raises, and the target is never released.
ProbeFails ==
    /\ helper.pc = "probe" /\ call["helper"] \in {"denied", "interrupted"}
    /\ HelperExits /\ Say([type |-> "error"]) /\ target' = Dropped
    /\ UNCHANGED <<url, call, supervisor, decisions, kernel, faults>>

\* An outside name is looked up over a local socket first; curl goes on with
\* its other addresses until it is connected to one.
Connect ==
    /\ target.state = "running" /\ ~Blocked("curl") /\ ~Connected
    /\ target.tries < MaxConnects
    /\ \E to \in {url} \union (IF url = "external" THEN {"unix"} ELSE {}) :
          target' = [target EXCEPT !.tries = @ + 1, !.to = to]
    /\ call' = [call EXCEPT !["curl"] = "queued"]
    /\ UNCHANGED <<url, helper, channel, supervisor, decisions, kernel, faults>>

\* curl ends when it has fetched its page or does not get on (--max-time); only
\* a fetched page is a success.
Exit ==
    /\ target.state = "running" /\ ~Blocked("curl")
    /\ \E code \in (IF Connected THEN {0, 7} ELSE {7}) :
          target' = [target EXCEPT !.state = "exited", !.code = code]
    /\ UNCHANGED <<url, helper, call, channel, supervisor, decisions, kernel, faults>>

\* The target's status is reported, and the helper exits with it.
Report ==
    /\ helper.pc = "wait" /\ target.state \in {"exited", "killed"}
    /\ HelperExits /\ Say([type |-> "status", code |-> target.code, probe |-> helper.probe])
    /\ UNCHANGED <<url, target, call, supervisor, decisions, kernel, faults>>

\* A signal ends a blocked connect: its notification is no longer valid.
Interrupt(p) ==
    /\ Blocked(p) /\ Fault
    /\ call' = [call EXCEPT ![p] = "interrupted"]
    /\ UNCHANGED <<url, helper, target, channel, supervisor, decisions, kernel>>

-----------------------------------------------------------------------------
(* supervise().                                                            *)

\* Before the loop an exception ends the supervisor and nothing else: the
\* channel closes with it.
Raises == supervisor' = [supervisor EXCEPT !.pc = "gone"] /\ channel' = << >>

\* receive_listener().
ReceiveListener ==
    /\ supervisor.pc = "listener" /\ channel # << >>
    /\ \/ /\ Head(channel).type = "ready"
          /\ supervisor' = [supervisor EXCEPT !.pc = "target"] /\ channel' = Tail(channel)
       \/ Head(channel).type # "ready" /\ Raises
    /\ UNCHANGED <<url, helper, target, call, decisions, kernel, faults>>

\* The target's number arrives: the scope is made for it and GO given.
Go ==
    /\ supervisor.pc = "target" /\ channel # << >>
    /\ \/ /\ Head(channel).type = "target"
          /\ supervisor' = [supervisor EXCEPT !.pc = "loop", !.go = TRUE]
          /\ channel' = Tail(channel)
       \/ Head(channel).type # "target" /\ Raises
    /\ UNCHANGED <<url, helper, target, call, decisions, kernel, faults>>

\* NOTIF_RECV, when there is nothing on the channel.
Receive(p) ==
    /\ supervisor.pc = "loop" /\ channel = << >> /\ call[p] = "queued"
    /\ call' = [call EXCEPT ![p] = "received"]
    /\ supervisor' = [supervisor EXCEPT !.pc = "judge", !.note = p]
    /\ UNCHANGED <<url, helper, target, channel, decisions, kernel, faults>>

\* What is found of the caller: a good entry, a changed executable, no address,
\* or no status.  A caller without a status is not taken for the target.
Verdict(p, seen, late) ==
    LET scoped == p = "curl" /\ seen # "no status"
        found == IF seen = "changed" THEN ArtifactIdentity("other", "other") ELSE Curl
        identity == ProcessIdentity("target", 1, found, supervisor.pinned = Unpinned)
        bound == BindOrVerify("target", Curl, supervisor.pinned, identity)
        policy == IF seen = "no address" THEN "ABSTAIN"
                  ELSE Evaluate(p = "curl" /\ seen # "changed", target.to)
        failed == seen = "no address" \/ (scoped /\ ~bound.ok) \/ late
    IN  [policy |-> policy, effect |-> EnforcementEffect(policy, scoped, failed),
         pinned |-> IF scoped /\ seen # "no address" THEN bound.pinned ELSE supervisor.pinned]

\* Mutant of Judge: a changed executable is only not pinned.
JudgeOpen(seen, late) ==
    LET p == supervisor.note
        verdict == Verdict(p, seen, late)
    IN  /\ supervisor.pc = "judge" /\ call[p] = "received"
        /\ IF seen # "good" \/ late THEN Fault ELSE UNCHANGED faults
        /\ supervisor' = [supervisor EXCEPT
              !.pc = "send", !.pinned = verdict.pinned, !.policy = verdict.policy,
              !.effect = IF seen = "changed" THEN verdict.policy ELSE verdict.effect,
              !.blind = @ \/ (p = "curl" /\ seen = "no status")]
        /\ UNCHANGED <<url, helper, target, call, channel, decisions, kernel>>

\* A notification that is still valid is judged.
Judge(seen, late) ==
    LET p == supervisor.note
        verdict == Verdict(p, seen, late)
    IN  /\ supervisor.pc = "judge" /\ call[p] = "received"
        /\ IF seen # "good" \/ late THEN Fault ELSE UNCHANGED faults
        /\ supervisor' = [supervisor EXCEPT
              !.pc = "send", !.pinned = verdict.pinned, !.policy = verdict.policy,
              !.effect = verdict.effect,
              !.blind = @ \/ (p = "curl" /\ seen = "no status")]
        /\ UNCHANGED <<url, helper, target, call, channel, decisions, kernel>>

\* One that is not is counted and dropped, before or after it was judged.
Drop ==
    /\ supervisor.pc \in {"judge", "send"} /\ call[supervisor.note] # "received"
    /\ supervisor' = [supervisor EXCEPT !.pc = "loop"]
    /\ UNCHANGED <<url, helper, target, call, channel, decisions, kernel, faults>>

Counted(tally, p, effect) ==
    CASE effect = "DENY" -> [tally EXCEPT !.denied = @ + 1]
      [] p = "helper" /\ effect = "ALLOW" -> [tally EXCEPT !.probed = @ + 1]
      [] OTHER -> tally

\* What the list shows of an answer: the policy's effect unless it was a denial.
Listed == IF supervisor.effect = "DENY" THEN "DENY" ELSE supervisor.policy

Answered(p) ==
    /\ call' = [call EXCEPT ![p] = IF supervisor.effect = "DENY" THEN "denied" ELSE "allowed"]
    /\ kernel' = Counted(kernel, p, supervisor.effect)

\* Mutant of Send: the decision is listed whether the kernel took it or not.
SendUnchecked ==
    LET p == supervisor.note
    IN  /\ supervisor.pc = "send"
        /\ IF call[p] = "received" THEN Answered(p) ELSE UNCHANGED <<call, kernel>>
        /\ decisions' = Counted(decisions, p, Listed)
        /\ supervisor' = [supervisor EXCEPT !.pc = "loop"]
        /\ UNCHANGED <<url, helper, target, channel, faults>>

\* A notification that is still valid is answered, and the decision listed.
Send ==
    LET p == supervisor.note
    IN  /\ supervisor.pc = "send" /\ call[p] = "received"
        /\ Answered(p) /\ decisions' = Counted(decisions, p, Listed)
        /\ supervisor' = [supervisor EXCEPT !.pc = "loop"]
        /\ UNCHANGED <<url, helper, target, channel, faults>>

\* The call ends between the check and the answer: the ioctl raises.
SendRaises ==
    /\ supervisor.pc = "send" /\ call[supervisor.note] = "interrupted"
    /\ supervisor' = [supervisor EXCEPT !.pc = "finally"]
    /\ UNCHANGED <<url, helper, target, call, channel, decisions, kernel, faults>>

\* main(): what one of the two results must show.
Accepted(code, probed) ==
    /\ probed /\ decisions.probed > 0
    /\ IF url = "loopback" THEN code = 0 /\ decisions.denied = 0
                           ELSE code # 0 /\ decisions.denied > 0

\* The helper's report comes first; an error in it raises.
Status ==
    LET report == Head(channel)
    IN  /\ supervisor.pc = "loop" /\ channel # << >> /\ helper.pc = "done"
        /\ supervisor' = [supervisor EXCEPT
              !.pc = "finally",
              !.result = IF report.type = "status"
                         THEN IF Accepted(report.code, report.probe) THEN "proven" ELSE "refused"
                         ELSE @]
        /\ channel' = Tail(channel)
        /\ UNCHANGED <<url, helper, target, call, decisions, kernel, faults>>

\* Mutant of Finally: the group is left alone.
FinallyAlone ==
    /\ supervisor.pc = "finally"
    /\ supervisor' = [supervisor EXCEPT !.pc = "ended"] /\ channel' = << >>
    /\ UNCHANGED <<url, helper, target, call, decisions, kernel, faults>>

\* The finally block: listener and channel are closed and the helper's group,
\* the target with it, is killed.
Finally ==
    /\ supervisor.pc = "finally"
    /\ supervisor' = [supervisor EXCEPT !.pc = "ended"] /\ channel' = << >>
    /\ helper' = [helper EXCEPT !.pc = "done"]
    /\ target' = [target EXCEPT !.state = IF @ \in {"held", "running"} THEN "killed" ELSE @]
    /\ call' = [p \in Processes |-> IF Blocked(p) THEN "interrupted" ELSE call[p]]
    /\ UNCHANGED <<url, decisions, kernel, faults>>

\* The supervisor is killed.
Kill ==
    /\ ~Gone /\ Fault
    /\ supervisor' = [supervisor EXCEPT !.pc = "killed"] /\ channel' = << >>
    /\ UNCHANGED <<url, helper, target, call, decisions, kernel>>

-----------------------------------------------------------------------------
HelperStep == Install \/ Fork \/ Probe \/ NoGo \/ ReleaseTarget \/ ProbeFails \/ Report
TargetStep == Connect \/ Exit
Supervise ==
    \/ ReceiveListener \/ Go \/ Status \/ Drop \/ Send \/ Finally
    \/ \E p \in Processes : Receive(p)
    \/ Judge("good", FALSE)
Finished == Gone /\ helper.pc = "done" /\ target.state \in {"none", "exited", "killed"}

Next ==
    \/ HelperStep \/ TargetStep \/ Supervise \/ HelperFails \/ SendRaises \/ Kill
    \/ \E p \in Processes : Interrupt(p)
    \/ \E seen \in {"good", "changed", "no address", "no status"}, late \in BOOLEAN : Judge(seen, late)

\* The three processes go on.  The target goes on connecting or gives up.
Fairness == WF_vars(HelperStep) /\ WF_vars(TargetStep) /\ WF_vars(Supervise)

Spec == Init /\ [][Next]_vars /\ Fairness

-----------------------------------------------------------------------------
TypeOK ==
    /\ helper.pc \in {"install", "fork", "await", "probe", "wait", "done"}
    /\ target.state \in {"none", "held", "running", "exited", "killed"}
    /\ call \in [Processes -> {"none", "queued", "received", "denied", "allowed", "interrupted"}]
    /\ supervisor.pc \in {"listener", "target", "loop", "judge", "send", "finally", "gone", "ended", "killed"}
    /\ Len(channel) <= 2 /\ faults \in 0..MaxFaults

\* The target runs only once somebody who answers its connects has given GO
\* and the helper's own connect to the outside has shown that others are not
\* restricted.
HeldUntilGuarded ==
    target.tries > 0 \/ target.state = "running" => supervisor.go /\ call["helper"] = "allowed"

\* An outside connect of the target is let through only if the kernel had no
\* status of its thread; a connect of the helper is never denied.
OnlyTargetDenied ==
    /\ url = "external" /\ Connected => supervisor.blind
    /\ call["helper"] # "denied"

\* The denials listed are the kernel's, and a result main() accepts for the
\* outside page means that the target was stopped there; a call of a target
\* without a status aside, which is let through and listed as the policy's DENY.
ResultIsReal ==
    \/ supervisor.blind
    \/ /\ decisions.denied = kernel.denied /\ decisions.probed <= kernel.probed
       /\ supervisor.result = "proven" /\ url = "external" => kernel.denied > 0 /\ target.code # 0

\* Unless the supervisor is killed, every process ends: one that waits for an
\* answer, for GO or at the pipe is not left behind.
EventuallyFinished == <>(Finished \/ supervisor.pc = "killed")
=============================================================================
