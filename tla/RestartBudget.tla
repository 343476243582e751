---------------------------- MODULE RestartBudget ----------------------------
(***************************************************************************)
(* RestartBudget of guardian_resilience.py with its user, the restart      *)
(* proof of run_gate4_control_plane_resilience.py: each worker that exits  *)
(* asks the budget for another one, and a refusal ends the protected group.*)
(***************************************************************************)
EXTENDS Integers, FiniteSets

CONSTANTS
    Maximum,      \* restarts admitted within a window, at least 1
    Window,       \* window_seconds, positive
    MaxClock,     \* bound: the clock stops here
    MaxAttempts   \* bound: worker exits

VARIABLES
    clock,
    attempts,     \* self._attempts: the restarts it remembers
    group,        \* the protected group: "running" or "torn"
    admitted      \* history: every restart that was admitted

vars == <<clock, attempts, group, admitted>>

\* The next restart: two of one instant are two entries of the list.
Restart == [number |-> Cardinality(admitted) + 1, at |-> clock]

Init == clock = 0 /\ attempts = {} /\ group = "running" /\ admitted = {}

\* Mutant of Recent: the budget is for life.
RecentAll(now) == attempts

\* Mutant of Recent: a window that starts over when it is used up.
RecentOrNone(now) ==
    IF \E attempt \in attempts : attempt.at <= now - Window THEN {} ELSE attempts

\* The attempts that are later than the cutoff.
Recent(now) == {attempt \in attempts : attempt.at > now - Window}

\* A worker exits and consume() is asked.
Consume ==
    /\ group = "running" /\ Cardinality(admitted) < MaxAttempts
    /\ \/ /\ Cardinality(Recent(clock)) >= Maximum
          /\ attempts' = Recent(clock) /\ group' = "torn"
          /\ UNCHANGED admitted
       \/ /\ Cardinality(Recent(clock)) < Maximum
          /\ attempts' = Recent(clock) \union {Restart}
          /\ admitted' = admitted \union {Restart}
          /\ UNCHANGED group
    /\ UNCHANGED clock

Tick == clock < MaxClock /\ clock' = clock + 1 /\ UNCHANGED <<attempts, group, admitted>>

Ended == (group = "torn" \/ Cardinality(admitted) = MaxAttempts) /\ UNCHANGED vars

Next == Consume \/ Tick \/ Ended

Spec == Init /\ [][Next]_vars

-----------------------------------------------------------------------------
Within(from, to) == {restart \in admitted : from < restart.at /\ restart.at <= to}

\* No window, wherever it begins, sees more restarts than the maximum: the
\* attempts that are forgotten one by one never make room too early.
NoWindowOverrun ==
    \A to \in 0..clock : Cardinality(Within(to - Window, to)) <= Maximum

\* The group is torn down only when the restarts of the last window really
\* used up the budget.
TornOnlyExhausted ==
    [][group = "running" /\ group' = "torn" =>
          Cardinality(Within(clock - Window, clock)) = Maximum]_vars
=============================================================================
