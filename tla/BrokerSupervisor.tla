-------------------------- MODULE BrokerSupervisor --------------------------
(***************************************************************************)
(* scripts/supervise_policy_broker.py: the policy broker is started, is    *)
(* healthy once its socket exists, and is started again when it ends,      *)
(* within a budget.  The socket is a name in a directory: a broker that    *)
(* dies leaves it behind, and the next one takes it over.                  *)
(***************************************************************************)
EXTENDS Naturals, FiniteSets

CONSTANTS
    MaxRestarts,  \* --max-restarts
    MaxFaults     \* bound: signals to the supervisor, failures of its calls

VARIABLES
    supervisor,   \* [pc, restarts, gen]; gen numbers the present process
    process,      \* process[g]: the g-th broker process
    signalled,    \* the processes SIGTERM was sent to
    socket,       \* the process whose socket the path names, or NoSocket
    faults

vars == <<supervisor, process, signalled, socket, faults>>

Generations == 1..(MaxRestarts + 1)
NoSocket == 0
Running == {g \in Generations : process[g] \in {"starting", "serving"}}
Exited(g) == process[g] \in {"returned", "failed"}

Init ==
    /\ supervisor = [pc |-> "loop", restarts |-> 0, gen |-> 0]
    /\ process = [g \in Generations |-> "none"]
    /\ signalled = {} /\ socket = NoSocket /\ faults = 0

Fault == faults < MaxFaults /\ faults' = faults + 1
Goto(pc) == supervisor' = [supervisor EXCEPT !.pc = pc]
RestartLater == supervisor' = [supervisor EXCEPT !.pc = "loop", !.restarts = @ + 1]
Present == supervisor.gen

-----------------------------------------------------------------------------
(* main().                                                                 *)

\* Mutant of Loop: the socket of the process before is left to the next one.
LoopKeepingSocket ==
    /\ supervisor.pc = "loop"
    /\ Goto(IF supervisor.restarts <= MaxRestarts THEN "popen" ELSE "finally")
    /\ UNCHANGED <<process, signalled, socket, faults>>

\* Mutant of Loop: the budget is not checked.
LoopUnbounded ==
    /\ supervisor.pc = "loop"
    /\ Goto("popen") /\ socket' = NoSocket
    /\ UNCHANGED <<process, signalled, faults>>

\* The budget is checked and the old socket removed.
Loop ==
    /\ supervisor.pc = "loop"
    /\ \/ supervisor.restarts <= MaxRestarts /\ Goto("popen") /\ socket' = NoSocket
       \/ supervisor.restarts > MaxRestarts /\ Goto("finally") /\ UNCHANGED socket
    /\ UNCHANGED <<process, signalled, faults>>

Popen ==
    /\ supervisor.pc = "popen"
    /\ \/ /\ supervisor' = [supervisor EXCEPT !.pc = "poll", !.gen = @ + 1]
          /\ process' = [process EXCEPT ![Present + 1] = "starting"]
          /\ UNCHANGED faults
       \/ Fault /\ Goto("finally") /\ UNCHANGED process
    /\ UNCHANGED <<signalled, socket>>

\* Mutant of Poll: there is no last poll.
PollForever ==
    /\ supervisor.pc = "poll"
    /\ \/ socket # NoSocket /\ Goto("wait")
       \/ socket = NoSocket /\ Exited(Present) /\ Goto("unhealthy")
    /\ UNCHANGED <<process, signalled, socket, faults>>

\* Fifty polls at most: the socket exists, or the process has ended, or it
\* does neither in time.
Poll ==
    /\ supervisor.pc = "poll"
    /\ Goto(IF socket # NoSocket THEN "wait" ELSE "unhealthy")
    /\ UNCHANGED <<process, signalled, socket, faults>>

\* Mutant of Unhealthy: the process is not waited for.
UnhealthyUnreaped ==
    /\ supervisor.pc = "unhealthy"
    /\ signalled' = IF Exited(Present) THEN signalled ELSE signalled \union {Present}
    /\ RestartLater
    /\ UNCHANGED <<process, socket, faults>>

Unhealthy ==
    /\ supervisor.pc = "unhealthy"
    /\ \/ Exited(Present) /\ RestartLater /\ UNCHANGED signalled
       \/ /\ ~Exited(Present) /\ Goto("reap")
          /\ signalled' = signalled \union {Present}
    /\ UNCHANGED <<process, socket, faults>>

\* wait(timeout=2): a process that takes longer makes it raise.
Reap ==
    /\ supervisor.pc = "reap"
    /\ \/ Exited(Present) /\ RestartLater /\ UNCHANGED faults
       \/ ~Exited(Present) /\ Fault /\ Goto("finally")
    /\ UNCHANGED <<process, signalled, socket>>

\* Announced as healthy, the process is waited for without a limit.
Wait ==
    /\ supervisor.pc = "wait"
    /\ \/ process[Present] = "returned" /\ Goto("finally")
       \/ process[Present] = "failed" /\ RestartLater
    /\ UNCHANGED <<process, signalled, socket, faults>>

\* stop(), the signal handler: the present process is told to end.  While
\* Popen is under way that is the one before; after it the loop goes on.
StopPresent ==
    signalled' = IF Present \in Running THEN signalled \union {Present} ELSE signalled

Signal ==
    /\ supervisor.pc # "ended" /\ Fault
    /\ StopPresent
    /\ UNCHANGED <<supervisor, process, socket>>

\* The finally block.
Finally ==
    /\ supervisor.pc = "finally" /\ Goto("ended")
    /\ StopPresent /\ socket' = NoSocket
    /\ UNCHANGED <<process, faults>>

Supervise == Loop \/ Popen \/ Poll \/ Unhealthy \/ Reap \/ Wait \/ Finally

-----------------------------------------------------------------------------
(* agb-policy-broker.                                                      *)

\* The path is removed if it is there and bound.
Bind(g) ==
    /\ process[g] = "starting"
    /\ process' = [process EXCEPT ![g] = "serving"] /\ socket' = g
    /\ UNCHANGED <<supervisor, signalled, faults>>

\* It ends by itself, with success or not; the socket stays.
Exit(g) ==
    /\ g \in Running
    /\ \E how \in {"returned", "failed"} : process' = [process EXCEPT ![g] = how]
    /\ UNCHANGED <<supervisor, signalled, socket, faults>>

Terminate(g) ==
    /\ g \in Running \intersect signalled
    /\ process' = [process EXCEPT ![g] = "failed"]
    /\ UNCHANGED <<supervisor, signalled, socket, faults>>

Next == \/ Supervise \/ Signal
        \/ \E g \in Generations : Bind(g) \/ Exit(g) \/ Terminate(g)

\* The supervisor goes on, and a process obeys SIGTERM in the end.  Whether
\* and when a broker binds its socket or ends by itself is open.
Fairness == WF_vars(Supervise) /\ \A g \in Generations : WF_vars(Terminate(g))

Spec == Init /\ [][Next]_vars /\ Fairness

-----------------------------------------------------------------------------
TypeOK ==
    /\ supervisor.pc \in {"loop", "popen", "poll", "unhealthy", "reap", "wait", "finally", "ended"}
    /\ supervisor.restarts \in 0..(MaxRestarts + 1) /\ Present \in 0..(MaxRestarts + 1)
    /\ process \in [Generations -> {"none", "starting", "serving", "returned", "failed"}]
    /\ signalled \subseteq Generations /\ socket \in Generations \union {NoSocket}
    /\ faults \in 0..MaxFaults

\* Two brokers never run side by side, so that no two append to one audit
\* and one cache file or take each other's socket.
OneBroker == Cardinality(Running) <= 1

\* "healthy" is announced only for a process that has bound the socket
\* itself: the name a dead broker left behind does not count.
HealthyIsBound ==
    supervisor.pc = "wait" => socket = Present /\ process[Present] # "starting"

\* The supervisor comes to rest: a healthy broker serves from some time on,
\* or the supervisor has ended and no broker is left running.
Settles ==
    \/ <>[](supervisor.pc = "wait" /\ process[Present] = "serving")
    \/ <>[](supervisor.pc = "ended" /\ Running = {})
=============================================================================
