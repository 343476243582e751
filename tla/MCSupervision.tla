--------------------------- MODULE MCSupervision ---------------------------
(***************************************************************************)
(* Instances for TLC of the policy broker with fairness (PolicyBroker), of *)
(* the supervisor that starts it (BrokerSupervisor), and of the two        *)
(* primitives a guardian's launcher is supervised with: the budget of its  *)
(* restarts (RestartBudget) and the hand-off of its listener               *)
(* (HandoffAuthenticator).  The supervisor knows of a broker only that it  *)
(* runs and whether its socket exists, so they are checked apart: a        *)
(* behaviour is one of machine, and the variables of the others keep a     *)
(* value without meaning.                                                  *)
(***************************************************************************)
EXTENDS Integers, FiniteSets

CONSTANTS
  Garbage, NoTail, Torn, NoSecret, NoFile, Keys, Revisions, Secrets, TTL, SubsPerSecond,
  MaxSecond, MaxDecisions, MaxUpsets,
  MaxRestarts, MaxFaults,
  Maximum, Window, MaxClock, MaxAttempts,
  Peers, Nonces, Lifetimes, MaxMessages

ASSUME SupervisionConstants ==
  /\ MaxRestarts \in Nat /\ MaxFaults \in Nat
  /\ Maximum \in Nat \ {0} /\ Window \in Nat \ {0}

VARIABLES
  machine,
  now, pc, secret, cache, active, rotated, loading, compact, stamp, cur, out, decisions, slip,
  voided, upsets,
  supervisor, process, signalled, socket, faults,
  clock, attempts, group, admitted,
  sent, used, accepted, replayed

Broker == INSTANCE PolicyBroker
Keeper == INSTANCE BrokerSupervisor
Budget == INSTANCE RestartBudget
Handoff == INSTANCE HandoffAuthenticator

ofBroker == <<now, pc, secret, cache, active, rotated, loading, compact, stamp, cur, out,
              decisions, slip, voided, upsets>>
ofKeeper == <<supervisor, process, signalled, socket, faults>>
ofBudget == <<attempts, group, admitted>>
ofHandoff == <<sent, used, accepted, replayed>>
vars == <<machine, ofBroker, ofKeeper, clock, ofBudget, ofHandoff>>

NoBroker ==
  /\ now = 0 /\ pc = "none" /\ secret = 0 /\ cache = 0 /\ active = 0 /\ rotated = 0
  /\ loading = 0 /\ compact = 0 /\ stamp = 0 /\ cur = 0 /\ out = 0 /\ decisions = 0
  /\ slip = 0 /\ voided = 0 /\ upsets = 0

NoKeeper == supervisor = [pc |-> "none"] /\ process = 0 /\ signalled = 0 /\ socket = 0 /\ faults = 0
NoBudget == attempts = 0 /\ group = "none" /\ admitted = 0
NoHandoff == sent = 0 /\ used = 0 /\ accepted = 0 /\ replayed = 0

Init ==
  \/ machine = "broker" /\ Broker!Init /\ NoKeeper /\ NoBudget /\ NoHandoff /\ clock = 0
  \/ machine = "supervisor" /\ Keeper!Init /\ NoBroker /\ NoBudget /\ NoHandoff /\ clock = 0
  \/ machine = "budget" /\ Budget!Init /\ NoBroker /\ NoKeeper /\ NoHandoff
  \/ machine = "handoff" /\ Handoff!Init /\ NoBroker /\ NoKeeper /\ NoBudget

Serving(A) == machine = "broker" /\ A /\ UNCHANGED <<machine, clock, ofKeeper, ofBudget, ofHandoff>>
Keeping(A) == machine = "supervisor" /\ A /\ UNCHANGED <<machine, clock, ofBroker, ofBudget, ofHandoff>>
Spending(A) == machine = "budget" /\ A /\ UNCHANGED <<machine, ofBroker, ofKeeper, ofHandoff>>
Handing(A) == machine = "handoff" /\ A /\ UNCHANGED <<machine, ofBroker, ofKeeper, ofBudget>>

\* The supervisor ends for good.
Ended == Keeping(supervisor.pc = "ended" /\ Keeper!Running = {} /\ UNCHANGED ofKeeper)

Next == \/ Serving(Broker!Next) \/ Keeping(Keeper!Next) \/ Ended
        \/ Spending(Budget!Next) \/ Handing(Handoff!Next)

\* The fairness of each program, as its module states it.
Fairness ==
  /\ WF_vars(Serving(Broker!BrokerStep))
  /\ WF_vars(Keeping(Keeper!Supervise))
  /\ \A g \in Keeper!Generations : WF_vars(Keeping(Keeper!Terminate(g)))

Spec == Init /\ [][Next]_vars /\ Fairness
-----------------------------------------------------------------------------
\* Whatever the broker is doing, it comes back to accept or is down
\* (agb-policy-broker.rs, main and serve).
Responsive == machine = "broker" /\ pc # "serve" ~> pc \in {"serve", "down"}

\* Two policy brokers never run side by side, and only a broker that has
\* bound the socket itself is announced as healthy (supervise_policy_broker.py).
SupervisorSound ==
  machine = "supervisor" => Keeper!TypeOK /\ Keeper!OneBroker /\ Keeper!HealthyIsBound

\* A healthy broker serves from some time on, or supervisor and broker end.
SupervisorSettles == machine = "supervisor" => Keeper!Settles

\* No window of time sees more restarts than the budget's maximum, and the
\* group is torn down only when the last window used the budget up
\* (guardian_resilience.py, RestartBudget).
BudgetExact ==
  /\ [](machine = "budget" => Budget!NoWindowOverrun)
  /\ [][machine = "budget" /\ group = "running" /\ group' = "torn" =>
          Cardinality(Budget!Within(clock - Window, clock)) = Maximum]_vars

\* A hand-off is accepted at most once and only as it was signed, and refused
\* as a replay only after that (guardian_resilience.py).
OncePerHandoff == machine = "handoff" => Handoff!OncePerHandoff
=============================================================================
