----------------------------- MODULE EgressBroker -----------------------------
(***************************************************************************)
(* The concurrent seccomp broker of benchmark_gate4_egress_broker.py with  *)
(* the policy worker of recovery_supervisor.py: one loop receives the      *)
(* notifications and answers them, a thread pool evaluates them, and a     *)
(* subprocess that may crash or be slow decides.  The pool's threads take  *)
(* turns at that subprocess under a lock; when it fails it is stopped and  *)
(* started again with a new channel.                                       *)
(***************************************************************************)
EXTENDS Naturals, SequencesExt, FiniteSets, EnforcementScope

CONSTANTS
    Targets,        \* threads of the protected process, one connect each
    Outsider,       \* the probe process
    PoolSize,       \* broker_workers
    QueueCapacity,  \* notifications evaluated or waiting at the same time
    MaxFaults       \* bound: interrupted calls, unreadable entries, changed
                    \* executables, crashes and delays of the worker

VARIABLES
    scenario,       \* what run_scenario() injects
    destination,    \* destination[c]: where c connects to
    call,           \* call[c]: what the kernel knows of c's connect
    pending,        \* the futures, in the order they were submitted
    job,            \* job[c]: the pool's work on c
    worker,         \* RecoveringPolicyWorker and its subprocess
    listener,       \* whether the broker still holds the listener
    phase,          \* of run_scenario()
    faults

vars == <<scenario, destination, call, pending, job, worker, listener, phase, faults>>

Callers == Targets \union {Outsider}
Nobody == "nobody"
Finished == {"denied", "allowed", "interrupted", "killed"}
Exited == \A c \in Callers : call[c] \in Finished

NoJob == [state |-> "none"]
Result(target, failed, effect) ==
    [state |-> "done", target |-> target, failed |-> failed, effect |-> effect]

\* _start(): a new process on a new pair of sockets.
Started(generation) == [gen |-> generation, up |-> TRUE, request |-> Nobody,
                        response |-> Nobody, lock |-> Nobody]

Init ==
    /\ scenario \in {"normal", "adapter-failure", "worker-crash", "listener-loss"}
    /\ destination \in [Callers -> {"external", "loopback"}] /\ destination[Outsider] = "external"
    /\ call = [c \in Callers |-> "idle"]
    /\ pending = << >> /\ job = [c \in Callers |-> NoJob]
    /\ worker = Started(1)
    /\ listener = TRUE /\ phase = "loop" /\ faults = 0

Fault == faults < MaxFaults /\ faults' = faults + 1

-----------------------------------------------------------------------------
(* The workload.                                                           *)

Connect(c) ==
    /\ phase = "loop" /\ call[c] = "idle"
    /\ call' = [call EXCEPT ![c] = "queued"]
    /\ UNCHANGED <<scenario, destination, pending, job, worker, listener, phase, faults>>

Interrupt(c) ==
    /\ phase = "loop" /\ call[c] \in {"queued", "received"} /\ Fault
    /\ call' = [call EXCEPT ![c] = "interrupted"]
    /\ UNCHANGED <<scenario, destination, pending, job, worker, listener, phase>>

-----------------------------------------------------------------------------
(* The loop of run_scenario().                                             *)

\* respond(): nothing is sent for a notification that is not valid any more.
Respond(c, effect) ==
    call' = [call EXCEPT ![c] = IF @ # "received" THEN @
                                ELSE IF effect = "DENY" THEN "denied" ELSE "allowed"]

\* A notification is received: the listener is dropped, or the call is
\* answered at once because the queue is full, or it is submitted.  A thread
\* that cannot be mapped to its process counts as the target.
Receive(c, resolved) ==
    LET target == c \in Targets \/ ~resolved
    IN  /\ phase = "loop" /\ listener /\ call[c] = "queued"
        /\ IF resolved THEN UNCHANGED faults ELSE Fault
        /\ \/ /\ scenario = "listener-loss"
              /\ listener' = FALSE
              /\ call' = [call EXCEPT ![c] = "received"]
              /\ UNCHANGED <<pending, job>>
           \/ /\ scenario # "listener-loss" /\ Len(pending) >= QueueCapacity
              /\ call' = [call EXCEPT ![c] =
                    IF EnforcementEffect("ALLOW", target, TRUE) = "DENY" THEN "denied" ELSE "allowed"]
              /\ UNCHANGED <<listener, pending, job>>
           \/ /\ scenario # "listener-loss" /\ Len(pending) < QueueCapacity
              /\ call' = [call EXCEPT ![c] = "received"]
              /\ pending' = Append(pending, c)
              /\ job' = [job EXCEPT ![c] = [state |-> "queued"]]
              /\ UNCHANGED listener
        /\ UNCHANGED <<scenario, destination, worker, phase>>

\* Mutant of Collect: the list of futures is emptied.
CollectOnce(c, late) ==
    LET r == job[c]
    IN  /\ phase = "loop" /\ r.state = "done"
        /\ Respond(c, EnforcementEffect(r.effect, r.target, r.failed \/ late))
        /\ pending' = << >> /\ job' = [job EXCEPT ![c] = NoJob]
        /\ UNCHANGED <<scenario, destination, worker, listener, phase, faults>>

\* A future is done: the answer is due, late or not.
Collect(c, late) ==
    LET r == job[c]
    IN  /\ phase = "loop" /\ r.state = "done"
        /\ Respond(c, EnforcementEffect(r.effect, r.target, r.failed \/ late))
        /\ \E i \in DOMAIN pending : pending[i] = c /\ pending' = RemoveAt(pending, i)
        /\ job' = [job EXCEPT ![c] = NoJob]
        /\ UNCHANGED <<scenario, destination, worker, listener, phase, faults>>

\* The call ends between respond()'s check and its answer: the ioctl raises
\* and the loop is left; the finally block kills the group.
SendRaises(c) ==
    /\ phase = "loop" /\ job[c].state = "done" /\ call[c] = "interrupted"
    /\ call' = [d \in Callers |-> IF call[d] \in Finished THEN call[d] ELSE "killed"]
    /\ phase' = "ending"
    /\ UNCHANGED <<scenario, destination, pending, job, worker, listener, faults>>

\* Two seconds after the listener was lost the group is killed.
Watchdog ==
    /\ phase = "loop" /\ ~listener
    /\ call' = [c \in Callers |-> IF call[c] \in Finished THEN call[c] ELSE "killed"]
    /\ phase' = "ending"
    /\ UNCHANGED <<scenario, destination, pending, job, worker, listener, faults>>

\* The workload's status is read.
Status ==
    /\ phase = "loop" /\ Exited /\ phase' = "ending"
    /\ UNCHANGED <<scenario, destination, call, pending, job, worker, listener, faults>>

\* _stop(): the channel is closed with all that is in it, the subprocess is
\* joined or killed.
Stopped == [worker EXCEPT !.up = FALSE, !.request = Nobody, !.response = Nobody]

\* The finally block: waiting jobs are cancelled, running ones go on;
\* close() needs the lock.
Close ==
    /\ phase = "ending" /\ worker.lock = Nobody
    /\ phase' = "closed"
    /\ worker' = Stopped
    /\ listener' = FALSE
    /\ job' = [c \in Callers |-> IF job[c].state = "queued" THEN NoJob ELSE job[c]]
    /\ UNCHANGED <<scenario, destination, call, pending, faults>>

-----------------------------------------------------------------------------
(* evaluate_notification() in a thread of the pool.                        *)

Running == {c \in Callers : job[c].state \in {"running", "deciding"}}

\* The first waiting job is taken by a free thread.
Begin(c) ==
    /\ job[c].state = "queued" /\ Cardinality(Running) < PoolSize
    /\ \A i, j \in DOMAIN pending :
          pending[j] = c /\ i < j => job[pending[i]].state # "queued"
    /\ job' = [job EXCEPT ![c] = [state |-> "running"]]
    /\ UNCHANGED <<scenario, destination, call, pending, worker, listener, phase, faults>>

\* The interpreter's file, and the identity the scope was bound to before GO.
Executable == ArtifactIdentity("python", "sum")
Pinned == BindOrVerify("target", Executable, Unpinned,
                       ProcessIdentity("target", 1, Executable, TRUE)).pinned

\* The address is read and the policy asked.  `seen' is what happens to be
\* found: a good entry, a changed executable, or nothing that can be read.
Judge(c, seen) ==
    LET target == c \in Targets
        failed == scenario = "adapter-failure"
        found == IF seen = "changed" THEN ArtifactIdentity("other", "other") ELSE Executable
        identity == ProcessIdentity("target", 1, found, FALSE)
        verified == BindOrVerify("target", Executable, Pinned, identity).ok
        effect == IF failed THEN "ABSTAIN" ELSE Evaluate(seen # "changed", destination[c])
        bad == failed \/ (target /\ ~verified)
    IN  /\ job[c].state = "running"
        /\ IF seen = "good" THEN UNCHANGED faults ELSE Fault
        /\ job' = [job EXCEPT ![c] =
              IF seen = "unreadable" THEN Result(TRUE, TRUE, "ABSTAIN")
              ELSE IF scenario = "worker-crash" /\ target
              THEN [state |-> "deciding", asked |-> effect, failed |-> bad]
              ELSE Result(target, bad, IF scenario = "worker-crash" THEN "ALLOW" ELSE effect)]
        /\ UNCHANGED <<scenario, destination, call, pending, worker, listener, phase>>

-----------------------------------------------------------------------------
(* RecoveringPolicyWorker.decide() and its subprocess.                     *)

\* Mutant of Ask: a worker that is not there is started.
AskRestarting(c) ==
    /\ job[c].state = "deciding" /\ worker.lock = Nobody
    /\ worker' = [(IF worker.up THEN worker ELSE Started(worker.gen + 1))
                     EXCEPT !.lock = c, !.request = job[c].asked]
    /\ UNCHANGED <<scenario, destination, call, pending, job, listener, phase, faults>>

\* The lock is taken and the request sent.  After close() there is no
\* channel: the assertion ends the evaluation and starts nothing.
Ask(c) ==
    /\ job[c].state = "deciding" /\ worker.lock = Nobody
    /\ \/ /\ phase # "closed" /\ UNCHANGED job
          /\ worker' = [worker EXCEPT !.lock = c, !.request = job[c].asked]
       \/ /\ phase = "closed" /\ UNCHANGED worker
          /\ job' = [job EXCEPT ![c] = Result(TRUE, TRUE, "ABSTAIN")]
    /\ UNCHANGED <<scenario, destination, call, pending, listener, phase, faults>>

\* The subprocess reads the request and sends its effect back.  The first
\* request of the scenario asks it to exit.
Serve ==
    /\ worker.up /\ worker.gen > 1 /\ worker.request # Nobody
    /\ worker' = [worker EXCEPT !.request = Nobody, !.response = worker.request]
    /\ UNCHANGED <<scenario, destination, call, pending, job, listener, phase, faults>>

\* It exits instead.
Crash ==
    /\ worker.up /\ worker.request # Nobody
    /\ IF worker.gen = 1 THEN UNCHANGED faults ELSE Fault
    /\ worker' = [worker EXCEPT !.up = FALSE, !.request = Nobody]
    /\ UNCHANGED <<scenario, destination, call, pending, job, listener, phase>>

\* The answer arrives in time.
Take(c) ==
    /\ worker.lock = c /\ worker.response # Nobody
    /\ job' = [job EXCEPT ![c] = Result(TRUE, @.failed, worker.response)]
    /\ worker' = [worker EXCEPT !.response = Nobody, !.lock = Nobody]
    /\ UNCHANGED <<scenario, destination, call, pending, listener, phase, faults>>

\* Mutant of Recover: the new worker is given the old channel.
RecoverOnChannel(c) ==
    /\ worker.lock = c /\ worker.response = Nobody
    /\ IF worker.up /\ worker.gen > 1 THEN Fault ELSE UNCHANGED faults
    /\ worker' = [Started(worker.gen + 1) EXCEPT !.request = worker.request]
    /\ job' = [job EXCEPT ![c] = Result(TRUE, @.failed, "DENY")]
    /\ UNCHANGED <<scenario, destination, call, pending, listener, phase>>

\* Mutant of Recover: the lock is not released.
RecoverLocked(c) ==
    /\ worker.lock = c /\ worker.response = Nobody
    /\ IF worker.up /\ worker.gen > 1 THEN Fault ELSE UNCHANGED faults
    /\ worker' = [Started(worker.gen + 1) EXCEPT !.lock = c]
    /\ job' = [job EXCEPT ![c] = Result(TRUE, FALSE, "DENY")]
    /\ UNCHANGED <<scenario, destination, call, pending, listener, phase>>

\* The channel is closed, or nothing arrives within the deadline: the worker
\* is stopped, a new one started, and the caller told to fail closed.
Recover(c) ==
    /\ worker.lock = c /\ worker.response = Nobody
    /\ IF worker.up /\ worker.gen > 1 THEN Fault ELSE UNCHANGED faults
    /\ worker' = Started(Stopped.gen + 1)
    /\ job' = [job EXCEPT ![c] = Result(TRUE, @.failed, EnforcementEffect("ABSTAIN", TRUE, TRUE))]
    /\ UNCHANGED <<scenario, destination, call, pending, listener, phase>>

-----------------------------------------------------------------------------
Idle == phase = "closed" /\ Running = {} /\ UNCHANGED vars

Pool(c) == \/ Begin(c) \/ Judge(c, "good") \/ Ask(c) \/ Take(c)
           \/ (worker.gen = 1 \/ ~worker.up) /\ Recover(c)

Loop == \/ \E c \in Callers : Receive(c, TRUE) \/ Collect(c, FALSE)
        \/ Watchdog \/ Status \/ Close

Next ==
    \/ \E c \in Callers :
          \/ Connect(c) \/ Interrupt(c)
          \/ \E resolved \in BOOLEAN : Receive(c, resolved)
          \/ (\E late \in BOOLEAN : Collect(c, late)) \/ SendRaises(c)
          \/ Begin(c) \/ (\E seen \in {"good", "changed", "unreadable"} : Judge(c, seen))
          \/ Ask(c) \/ Take(c) \/ Recover(c)
    \/ Serve \/ Crash
    \/ Watchdog \/ Status \/ Close \/ Idle

\* Every thread and process goes on; faults need not happen.
Spec ==
    /\ Init /\ [][Next]_vars
    /\ \A c \in Callers : WF_vars(Connect(c)) /\ WF_vars(Pool(c))
    /\ WF_vars(Serve) /\ WF_vars(Loop)

-----------------------------------------------------------------------------
TypeOK ==
    /\ call \in [Callers -> Finished \union {"idle", "queued", "received"}]
    /\ \A c \in Callers : job[c].state \in {"none", "queued", "running", "deciding", "done"}
    /\ worker.lock \in Callers \union {Nobody} /\ worker.gen \in 1..(MaxFaults + 2)
    /\ Len(pending) <= QueueCapacity
    /\ phase \in {"loop", "ending", "closed"} /\ faults \in 0..MaxFaults

\* A connect of the target to the outside is never continued: not when the
\* queue is full, the answer late, the adapter broken, the worker dead, nor
\* when the worker's answer to an earlier, timed-out request comes in while
\* the next one waits.
TargetFailsClosed ==
    \A c \in Targets : call[c] = "allowed" => destination[c] = "loopback"

\* A call that was received is answered, ended by a signal, or still has a
\* future the loop will collect: none is forgotten while the loop runs.
NoneForgotten ==
    phase = "loop" /\ listener =>
        \A c \in Callers : call[c] = "received" =>
            job[c] # NoJob /\ \E i \in DOMAIN pending : pending[i] = c

\* No subprocess is left running once the worker has been closed, although
\* evaluations may still be under way.
ClosedForGood == phase = "closed" => ~worker.up /\ worker.lock = Nobody

\* Every connect ends and the scenario is torn down, whatever the worker
\* does: nobody waits for ever for a lock, a thread or an answer.
EveryConnectEnds == <>(phase = "closed" /\ Exited)
=============================================================================
