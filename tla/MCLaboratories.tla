--------------------------- MODULE MCLaboratories ---------------------------
(***************************************************************************)
(* One instance for TLC of each laboratory of Gate 4: the pilot that holds *)
(* its target until it is guarded (SeccompPilot), the broker that is       *)
(* replaced under a retained listener (ListenerLease), the egress broker   *)
(* with its pool and its recovering worker (EgressBroker) and the campaign *)
(* runner that watches such workloads (Campaign).  They are separate       *)
(* programs: a behaviour is one of machine.  Two programs that have a      *)
(* variable of the same name share it here; the variables a program does   *)
(* not have keep a value without meaning.                                  *)
(***************************************************************************)
EXTENDS Naturals, FiniteSets

CONSTANTS
    LeaseTargets, Outsider, CrashAt, LeaseFaults,
    BrokerTargets, PoolSize, QueueCapacity, BrokerFaults,
    MaxConnects, PilotFaults,
    Workloads, MayExit, Duration, MaxRuns, RunnerFaults

\* The durations and the bounds of the models are numbers, a process has
\* finitely many threads, and none of them is the name for no caller.
ASSUME LaboratoryConstants ==
    /\ Duration \in Nat /\ MaxRuns \in Nat /\ RunnerFaults \in Nat
    /\ MaxConnects \in Nat /\ PilotFaults \in Nat
    /\ QueueCapacity \in Nat /\ BrokerFaults \in Nat /\ LeaseFaults \in Nat
    /\ IsFiniteSet(LeaseTargets)
    /\ "nobody" \notin LeaseTargets \union BrokerTargets \union {Outsider}

VARIABLES
    machine, call, faults, mode,
    broker, reports, guardian,
    url, helper, target, channel, supervisor, decisions, kernel,
    scenario, destination, pending, job, worker, listener, phase,
    heartbeats, summary, live, pc, run, failures, interrupted, raising, chain, samples,
    complete, elapsed, wake, alive, started, flawed

Lease == INSTANCE ListenerLease WITH Targets <- LeaseTargets, MaxFaults <- LeaseFaults

Egress == INSTANCE EgressBroker WITH Targets <- BrokerTargets, MaxFaults <- BrokerFaults

Pilot == INSTANCE SeccompPilot WITH MaxFaults <- PilotFaults

Runner == INSTANCE Campaign WITH MaxFaults <- RunnerFaults

ofLease == <<broker, reports, guardian>>
ofEgress == <<scenario, destination, pending, job, worker, listener, phase>>
ofRunner == <<heartbeats, summary, live, pc, run, failures, interrupted, raising, chain,
              samples, complete, elapsed, wake, alive, started, flawed>>
ofPilot == <<url, helper, target, channel, supervisor, decisions, kernel>>
vars == <<machine, call, faults, mode, ofLease, ofEgress, ofPilot, ofRunner>>

NoLease == broker = 0 /\ reports = 0 /\ guardian = [phase |-> "none"]

NoEgress ==
    /\ scenario = 0 /\ destination = 0 /\ pending = 0 /\ job = 0 /\ worker = 0
    /\ listener = 0 /\ phase = "none"

NoPilot ==
    /\ url = "none" /\ helper = [pc |-> "none"] /\ target = [state |-> "none"]
    /\ channel = 0 /\ supervisor = [pc |-> "none"] /\ decisions = 0 /\ kernel = 0

NoRunner ==
    /\ heartbeats = 0 /\ summary = 0 /\ live = 0 /\ pc = "none" /\ run = 0 /\ failures = 0
    /\ interrupted = 0 /\ raising = 0 /\ chain = 0 /\ samples = 0 /\ complete = 0
    /\ elapsed = 0 /\ wake = 0 /\ alive = 0 /\ started = 0 /\ flawed = 0

Init ==
    \/ machine = "lease" /\ Lease!Init /\ NoEgress /\ NoPilot /\ NoRunner
    \/ machine = "egress" /\ Egress!Init /\ NoLease /\ NoPilot /\ NoRunner /\ mode = "none"
    \/ machine = "pilot" /\ Pilot!Init /\ NoLease /\ NoEgress /\ NoRunner /\ mode = "none"
    \/ machine = "campaign" /\ Runner!Init /\ NoLease /\ NoEgress /\ NoPilot /\ call = 0

Leasing(A) == machine = "lease" /\ A /\ UNCHANGED <<machine, ofEgress, ofPilot, ofRunner>>
Guarding(A) == machine = "egress" /\ A /\ UNCHANGED <<machine, mode, ofLease, ofPilot, ofRunner>>
Piloting(A) == machine = "pilot" /\ A /\ UNCHANGED <<machine, mode, ofLease, ofEgress, ofRunner>>
Running(A) == machine = "campaign" /\ A /\ UNCHANGED <<machine, call, ofLease, ofEgress, ofPilot>>

Next ==
    \/ Leasing(Lease!Next) \/ Guarding(Egress!Next)
    \/ Piloting(Pilot!Next) \/ Running(Runner!Next)

\* The fairness of each program, as its module states it.
Fairness ==
    /\ WF_vars(Leasing(Lease!Progress))
    /\ \A c \in BrokerTargets \union {Outsider} :
          WF_vars(Guarding(Egress!Connect(c))) /\ WF_vars(Guarding(Egress!Pool(c)))
    /\ WF_vars(Guarding(Egress!Serve)) /\ WF_vars(Guarding(Egress!Loop))
    /\ WF_vars(Piloting(Pilot!HelperStep)) /\ WF_vars(Piloting(Pilot!TargetStep))
    /\ WF_vars(Piloting(Pilot!Supervise))
    /\ WF_vars(Running(Runner!Runner)) /\ WF_vars(Running(Runner!Tick))

Spec == Init /\ [][Next]_vars /\ Fairness
-----------------------------------------------------------------------------
(* The properties of the four modules, each with the type of the          *)
(* variables of its program.                                               *)

\* No connect of the protected process is continued, whichever broker dies
\* wherever; a replacement finds nothing the dead one had received; and no
\* denial is counted that the kernel has not delivered
\* (run_gate4_listener_guardian.py, _inflight_crash.py, _prelease_teardown.py).
LeaseSound ==
    machine = "lease" =>
        Lease!TypeOK /\ Lease!TargetNeverAllowed /\ Lease!NoOrphan /\ Lease!CountsAreReal

\* An outside connect of the target is never continued, with a full queue, a
\* late answer or a dead worker; a received call keeps its future until it is
\* answered; no subprocess runs once the worker is closed
\* (benchmark_gate4_egress_broker.py, recovery_supervisor.py).
EgressSound ==
    machine = "egress" =>
        Egress!TypeOK /\ Egress!TargetFailsClosed /\ Egress!NoneForgotten /\ Egress!ClosedForGood

\* The pilot's target runs only under guard, its outside connects are denied,
\* and what main() accepts for the report is what the kernel did
\* (run_egress_seccomp_pilot.py).
PilotSound ==
    machine = "pilot" =>
        /\ Pilot!TypeOK
        /\ Pilot!HeldUntilGuarded /\ Pilot!OnlyTargetDenied /\ Pilot!ResultIsReal

\* A supported verdict stands for one formal run without a flaw, the
\* heartbeats on disk are one chain, and the status never runs ahead of them
\* (run_ and verify_gate4_automated_campaign.py, evaluate_gate4_formal_campaign.py).
CampaignSound ==
    machine = "campaign" =>
        /\ Runner!TypeOK
        /\ Runner!SupportedIsEarned /\ Runner!HeartbeatsChained /\ Runner!StatusBehindHeartbeats

\* The lease laboratory ends, a prelease run with an interrupted call aside;
\* every connect of the egress broker ends and its scenario is torn down;
\* the pilot's three processes end unless its supervisor is killed;
\* every run of the campaign comes to its end and leaves no workload behind
\* (run_proof, run_scenario, RecoveringPolicyWorker and the runner's main).
LaboratoriesEnd ==
    /\ machine = "lease" => Lease!EventuallyEnds
    /\ machine = "egress" => Egress!EveryConnectEnds
    /\ machine = "pilot" => Pilot!EventuallyFinished
    /\ machine = "campaign" /\ pc # "idle" ~> pc = "idle"
    /\ [][machine = "campaign" => Runner!LeavesNone]_vars
=============================================================================
