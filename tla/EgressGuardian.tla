--------------------------- MODULE EgressGuardian ---------------------------
(***************************************************************************)
(* One protected launch: the guardian service (deploy/agb-egress-guardian) *)
(* and the launcher (deploy/agb-egress-launch) with the processes it       *)
(* creates.                                                                *)
(*                                                                         *)
(* The launcher forks a child that installs the seccomp filter and forks   *)
(* the target, which waits for a byte of the child.  The launcher hands    *)
(* the listener and one end of an adapter channel to the guardian, tells   *)
(* the child to go on, and then answers the guardian's requests for the    *)
(* sockaddr of a connect until the child reports the target's exit or the  *)
(* channel closes.  In the guardian a thread receives the notifications of *)
(* the launch, decides, records and answers them one at a time.  It shares *)
(* the runtime policy with the threads of other launches, of which the     *)
(* model keeps their calls of decide().                                    *)
(*                                                                         *)
(* The caller of a notification is the target or a descendant it forked,   *)
(* which has inherited the filter.  The child keeps a copy of the listener *)
(* open, so a notification nobody receives stays blocked.                  *)
(***************************************************************************)
EXTENDS RuntimePolicy

CONSTANTS
  Guard,         \* the supervising thread of this launch
  Own,           \* the namespace of the target
  CrashAfter,    \* --inject-worker-crash-after, 0 for none
  CrashAll,      \* --inject-restart-exhaustion
  MaxCalls,      \* bound: connects that are made
  MaxFaults      \* bound: failures of files, processes and reads

ASSUME GuardianConstants ==
  /\ Guard \in Threads /\ Own \in Namespaces
  /\ CrashAfter \in Nat /\ CrashAll \in BOOLEAN
  /\ MaxCalls \in Nat /\ MaxFaults \in Nat

Callers == {"target", "descendant"}
Destinations == {"local", "external"}

VARIABLES
  service,     \* the guardian process: up or down
  sup,         \* where the supervising thread is
  generation, processed,  \* of the serving loop
  note,        \* the notification in hand
  deny, reason,           \* of the notification in hand
  launcher,    \* where the launcher is
  reply,       \* what the guardian has answered to the hand-off
  child,       \* the launcher's child: held, waiting, reported or gone
  target,      \* the target: held, running or gone
  call,        \* the connect each caller is blocked in
  calls,       \* connects made so far; the last notification id
  \* history
  audit,       \* the records that were fsynced, by notification
  answered,    \* the answers that were sent, by notification
  faults       \* failures so far

serving == <<sup, generation, processed, note, deny, reason>>
launch == <<launcher, reply, child, target>>
history == <<audit, answered>>
vars == <<disk, policy, service, serving, launch, call, calls, history, faults>>

NoCall == [id |-> 0, dest |-> "local", since |-> 0, at |-> 0, received |-> FALSE]
NoNote == [id |-> 0, who |-> "target"]

Fault == faults < MaxFaults /\ faults' = faults + 1

Init ==
  /\ PolicyInit
  /\ service = "down"
  /\ sup = "none" /\ generation = 0 /\ processed = 0
  /\ note = NoNote /\ deny = TRUE /\ reason = "none"
  /\ launcher = "connect" /\ reply = "none" /\ child = "held" /\ target = "held"
  /\ call = [c \in Callers |-> NoCall] /\ calls = 0
  /\ audit = {} /\ answered = {} /\ faults = 0
-----------------------------------------------------------------------------
(* The environment: the clock, the writer of the snapshot, the service     *)
(* manager, and the threads of other launches.                             *)

Environment ==
  /\ Tick \/ Install
  /\ UNCHANGED <<service, serving, launch, call, calls, history, faults>>

StartService ==
  /\ service = "down"
  /\ \/ FirstLoad /\ service' = "up"
     \/ LoadRefused /\ UNCHANGED service
  /\ UNCHANGED <<serving, launch, call, calls, history, faults>>

NoThreadLeft ==
  /\ sup' = IF sup = "none" THEN "none" ELSE "ended"
  /\ generation' = 0 /\ processed' = 0
  /\ note' = NoNote /\ deny' = TRUE /\ reason' = "none"

(* The service is stopped or killed, or registration() raises.             *)
StopService ==
  /\ service = "up" /\ Fault
  /\ service' = "down" /\ Forget /\ NoThreadLeft
  /\ UNCHANGED <<disk, launch, call, calls, history>>

OtherDecide(t) ==
  /\ service = "up" /\ t # Guard
  /\ Enter(t) \/ Within(t) \/ Copy(t)
  /\ UNCHANGED <<service, serving, launch, call, calls, history, faults>>
-----------------------------------------------------------------------------
(* The launcher up to the hand-off.                                        *)

ConnectControl ==
  /\ launcher = "connect" /\ service = "up"
  /\ launcher' = "register"
  /\ UNCHANGED <<disk, policy, service, serving, reply, child, target, call, calls, history, faults>>

(* connect_control() gives up after two seconds.                           *)
ConnectTimeout ==
  /\ launcher = "connect" /\ service = "down"
  /\ launcher' = "died"
  /\ UNCHANGED <<disk, policy, service, serving, reply, child, target, call, calls, history, faults>>

(* registration(): the hand-off is accepted and the thread started.        *)
Register ==
  /\ service = "up" /\ launcher = "register" /\ reply = "none"
  /\ reply' = "ready"
  /\ sup' = "recv" /\ generation' = 1
  /\ UNCHANGED <<disk, policy, service, processed, note, deny, reason, launcher, child, target,
                 call, calls, history, faults>>

(* authenticate() or the identity check rejects it, for instance because   *)
(* it has expired; the descriptors are closed.                             *)
Reject ==
  /\ service = "up" /\ launcher = "register" /\ reply = "none" /\ Fault
  /\ reply' = "rejected"
  /\ UNCHANGED <<disk, policy, service, serving, launcher, child, target, call, calls, history>>

LauncherGo ==
  /\ launcher = "register" /\ reply = "ready"
  /\ launcher' = "watch"
  /\ UNCHANGED <<disk, policy, service, serving, reply, child, target, call, calls, history, faults>>

(* control.recv() returns anything but READY: RuntimeError.                *)
LauncherRefused ==
  /\ launcher = "register"
  /\ reply = "rejected" \/ (reply = "none" /\ service = "down")
  /\ launcher' = "died"
  /\ UNCHANGED <<disk, policy, service, serving, reply, child, target, call, calls, history, faults>>

(* child.recv(16) returns: GO, or nothing because the launcher is gone.    *)
ChildGo ==
  /\ child = "held" /\ launcher \in {"watch", "died"}
  /\ child' = "waiting" /\ target' = "running"
  /\ UNCHANGED <<disk, policy, service, serving, launcher, reply, call, calls, history, faults>>
-----------------------------------------------------------------------------
(* The protected processes.                                                *)

Connect(c, dest) ==
  /\ calls < MaxCalls /\ call[c] = NoCall
  /\ target = "running" \/ (c = "descendant" /\ target = "exited")
  /\ calls' = calls + 1
  /\ call' = [call EXCEPT ![c] = [id |-> calls', dest |-> dest, since |-> Current,
                                  at |-> now, received |-> FALSE]]
  /\ UNCHANGED <<disk, policy, service, serving, launch, history, faults>>

(* A signal ends the system call, or the calling thread is gone.           *)
Interrupt(c) ==
  /\ call[c] # NoCall /\ Fault
  /\ call' = [call EXCEPT ![c] = NoCall]
  /\ UNCHANGED <<disk, policy, service, serving, launch, calls, history>>

TargetExit ==
  /\ target = "running" /\ call["target"] = NoCall
  /\ target' = "exited"
  /\ UNCHANGED <<disk, policy, service, serving, launcher, reply, child, call, calls, history, faults>>

ChildReport ==
  /\ child = "waiting" /\ target = "exited"
  /\ child' = "reported"
  /\ UNCHANGED <<disk, policy, service, serving, launcher, reply, target, call, calls, history, faults>>
-----------------------------------------------------------------------------
(* The watching launcher.                                                  *)

AdapterClosed == sup = "ended"

(* The adapter channel is closed: the process group is killed.             *)
Teardown ==
  /\ launcher = "watch" /\ AdapterClosed
  /\ launcher' = "done" /\ child' = "gone" /\ target' = "killed"
  /\ call' = [c \in Callers |-> NoCall]
  /\ UNCHANGED <<disk, policy, service, serving, reply, calls, history, faults>>

Finish ==
  /\ launcher = "watch" /\ child = "reported" /\ ~AdapterClosed
  /\ launcher' = "done" /\ child' = "gone"
  /\ UNCHANGED <<disk, policy, service, serving, reply, target, call, calls, history, faults>>

(* Five seconds without a request or a result: TimeoutError.               *)
Stall ==
  /\ launcher = "watch" /\ ~AdapterClosed /\ child # "reported" /\ sup # "adapter"
  /\ launcher' = "died"
  /\ UNCHANGED <<disk, policy, service, serving, reply, child, target, call, calls, history, faults>>
-----------------------------------------------------------------------------
(* serve(): one notification at a time.                                    *)

Receive(c) ==
  /\ sup = "recv" /\ call[c] # NoCall /\ ~call[c].received
  /\ call' = [call EXCEPT ![c].received = TRUE]
  /\ note' = [id |-> call[c].id, who |-> c]
  /\ sup' = "identify"
  /\ UNCHANGED <<disk, policy, service, generation, processed, deny, reason, launch, calls, history, faults>>

(* The decision is made; the record comes next.                            *)
Decided(d, why) == sup' = "audit" /\ deny' = d /\ reason' = why

Keep == UNCHANGED <<disk, service, generation, processed, note, launch, call, calls, history>>

(* tgid(tid) == target                                                     *)
Identify ==
  /\ sup = "identify"
  /\ IF note.who = "target" THEN sup' = "adapter" /\ UNCHANGED <<deny, reason>>
     ELSE Decided(FALSE, "out_of_scope")
  /\ Keep /\ UNCHANGED <<policy, faults>>

(* /proc/<tid>/status cannot be read: deny = scope, which is still False.  *)
IdentifyFails ==
  /\ sup = "identify" /\ Fault
  /\ Decided(FALSE, "adapter_failure")
  /\ Keep /\ UNCHANGED policy

(* The sockaddr of the caller, as long as its system call blocks.          *)
Pending == call[note.who].id = note.id

AdapterReply ==
  /\ sup = "adapter" /\ launcher = "watch" /\ Pending
  /\ UNCHANGED <<service, generation, processed, note, launch, call, calls, history, faults>>
  /\ \/ /\ call[note.who].dest = "local"
        /\ Decided(FALSE, "loopback") /\ UNCHANGED <<disk, policy>>
     \/ /\ call[note.who].dest = "external"
        /\ sup' = "decide" /\ Enter(Guard) /\ UNCHANGED <<deny, reason>>

(* The launcher is gone or cannot read the memory: deny = scope.           *)
AdapterFails ==
  /\ sup = "adapter"
  /\ \/ (launcher # "watch" \/ ~Pending) /\ UNCHANGED faults
     \/ Fault
  /\ Decided(TRUE, "adapter_failure")
  /\ Keep /\ UNCHANGED policy

Reload ==
  /\ sup = "decide" /\ Within(Guard)
  /\ UNCHANGED <<service, serving, launch, call, calls, history, faults>>

(* Mutant of Decide: a DENY of any namespace counts.                       *)
DecideAnyNamespace ==
  /\ sup = "decide" /\ Copy(Guard)
  /\ Decided(\E ns \in Namespaces : Denies(loaded, ns, clock[Guard]), "policy")
  /\ UNCHANGED <<service, generation, processed, note, launch, call, calls, history, faults>>

(* Mutant of Decide: an entry ends a second before it expires.             *)
DecideEarlyExpiry ==
  /\ sup = "decide" /\ Copy(Guard)
  /\ Decided(Denies(loaded, Own, clock[Guard] + 1), "policy")
  /\ UNCHANGED <<service, generation, processed, note, launch, call, calls, history, faults>>

(* policy.decide() returns.                                                *)
Decide ==
  /\ sup = "decide" /\ Copy(Guard)
  /\ Decided(Denies(loaded, Own, clock[Guard]), "policy")
  /\ UNCHANGED <<service, generation, processed, note, launch, call, calls, history, faults>>

(* Mutant of Audit: the answer is sent before the record is durable.       *)
AuditLater ==
  /\ sup = "audit" /\ sup' = "valid"
  /\ UNCHANGED <<disk, policy, service, generation, processed, note, deny, reason, launch,
                 call, calls, history, faults>>

(* The record is written and fsynced.                                      *)
Audit ==
  /\ sup = "audit" /\ sup' = "valid"
  /\ audit' = audit \cup {[id |-> note.id, deny |-> deny]}
  /\ UNCHANGED <<disk, policy, service, generation, processed, note, deny, reason, launch,
                 call, calls, answered, faults>>

(* answer(): an invalid notification is skipped.                           *)
Valid ==
  /\ sup = "valid"
  /\ sup' = IF Pending THEN "send" ELSE "next"
  /\ UNCHANGED <<disk, policy, service, generation, processed, note, deny, reason, launch,
                 call, calls, history, faults>>

Send ==
  /\ sup = "send" /\ Pending
  /\ call' = [call EXCEPT ![note.who] = NoCall]
  /\ answered' = answered \cup {[id |-> note.id, deny |-> deny]}
  /\ sup' = "next"
  /\ UNCHANGED <<disk, policy, service, generation, processed, note, deny, reason, launch,
                 calls, audit, faults>>

(* The exception leaves serve() and supervise(): everything is closed.     *)
Collapse == NoThreadLeft /\ UNCHANGED <<disk, policy, service, launch, call, calls, history>>

Crashes == /\ CrashAfter # 0 /\ processed + 1 >= CrashAfter
           /\ generation = 1 \/ CrashAll

(* RECV or the write of a record fails.                                    *)
ServeFails ==
  /\ sup \in {"recv", "audit"} \/ (sup = "next" /\ Crashes)
  /\ Fault /\ Collapse

(* Mutant of SendFails: the answer is tried again.                         *)
SendRetried == sup = "send" /\ ~Pending /\ UNCHANGED vars

(* The notification dies between the two ioctls.                           *)
SendFails == sup = "send" /\ ~Pending /\ Collapse /\ UNCHANGED faults

Again(g, p) ==
  /\ sup' = "recv" /\ generation' = g /\ processed' = p
  /\ note' = NoNote /\ deny' = TRUE /\ reason' = "none"

(* Mutant of NextNote: one restart too many.                               *)
NextNoteOneMore ==
  /\ sup = "next"
  /\ \/ Crashes /\ generation <= 3 /\ Again(generation + 1, 0)
     \/ Crashes /\ generation > 3 /\ NoThreadLeft
     \/ ~Crashes /\ Again(generation, IF CrashAfter = 0 THEN 0 ELSE processed + 1)
  /\ UNCHANGED <<disk, policy, service, launch, call, calls, history, faults>>

(* The end of the loop body, and supervise() when the worker crashes: the  *)
(* third crash uses up the restarts.                                       *)
NextNote ==
  /\ sup = "next"
  /\ \/ Crashes /\ generation <= 2 /\ Again(generation + 1, 0)
     \/ Crashes /\ generation > 2 /\ NoThreadLeft
     \/ ~Crashes /\ Again(generation, IF CrashAfter = 0 THEN 0 ELSE processed + 1)
  /\ UNCHANGED <<disk, policy, service, launch, call, calls, history, faults>>
-----------------------------------------------------------------------------
ServeStep ==
  \/ \E c \in Callers : Receive(c)
  \/ Identify \/ IdentifyFails \/ AdapterReply \/ AdapterFails
  \/ Reload \/ Decide \/ Audit \/ ServeFails
  \/ Valid \/ Send \/ SendFails \/ NextNote

LauncherStep ==
  \/ ConnectControl \/ ConnectTimeout \/ LauncherGo \/ LauncherRefused
  \/ ChildGo \/ ChildReport \/ Teardown \/ Finish \/ Stall

Next ==
  \/ Environment \/ StartService \/ StopService
  \/ \E t \in Threads : OtherDecide(t)
  \/ Register \/ Reject
  \/ ServeStep \/ LauncherStep
  \/ \E c \in Callers : Interrupt(c) \/ \E dest \in Destinations : Connect(c, dest)
  \/ TargetExit

Spec == Init /\ [][Next]_vars

(* The guardian's threads and the launcher run their own code; the target, *)
(* the other processes, timeouts and failures owe nothing.                 *)
Serving ==
  \/ \E c \in Callers : Receive(c)
  \/ Identify \/ AdapterReply \/ AdapterFails \/ Reload \/ Decide \/ Audit
  \/ Valid \/ Send \/ SendFails \/ NextNote

FairSpec ==
  /\ Spec
  /\ WF_vars(Serving)
  /\ WF_vars(Teardown)
-----------------------------------------------------------------------------
(* The type of every variable.                                             *)
TypeOK ==
  /\ PolicyTypeOK
  /\ service \in {"up", "down"}
  /\ sup \in {"none", "recv", "identify", "adapter", "decide", "audit", "valid", "send",
              "next", "ended"}
  /\ generation \in 0 .. 3 /\ processed \in Nat
  /\ note \in [id : 0 .. calls, who : Callers]
  /\ deny \in BOOLEAN
  /\ reason \in {"none", "out_of_scope", "loopback", "policy", "adapter_failure"}
  /\ launcher \in {"connect", "register", "watch", "done", "died"}
  /\ reply \in {"none", "ready", "rejected"}
  /\ child \in {"held", "waiting", "reported", "gone"}
  /\ target \in {"held", "running", "exited", "killed"}
  /\ call \in [Callers -> [id : 0 .. calls, dest : Destinations, since : 0 .. Len(files),
                           at : Nat, received : BOOLEAN]]
  /\ calls \in Nat
  /\ audit \in SUBSET [id : 1 .. calls, deny : BOOLEAN]
  /\ answered \in SUBSET [id : 1 .. calls, deny : BOOLEAN]
  /\ faults \in Nat

(* docs/report/107: "Guardian or adapter failure ... never converts an     *)
(* active matched denial into silent allow."  A connect of the target to   *)
(* the outside is not continued when a DENY of its namespace was on the    *)
(* path since before the connect and is still live, however reloads of     *)
(* several threads and replacements of the file interleave.  That the      *)
(* target could be identified is assumed: IdentifyFails continues the call.*)
DenyEnforced ==
  [][LET c == call["target"] IN
     /\ Send /\ note.who = "target" /\ c.dest = "external"
     /\ reason # "adapter_failure"
     /\ Settled(c.since)
     /\ \A i \in c.since .. Len(files) : Denies(i, Own, now)
     => deny]_vars

(* docs/report/107: "An authenticated empty snapshot or expiry removes the *)
(* restriction", and a DENY of another namespace never is one.             *)
RestrictionEnds ==
  [][LET c == call["target"] IN
     /\ Send /\ note.who = "target" /\ reason # "adapter_failure"
     /\ Settled(c.since)
     /\ \A i \in c.since .. Len(files) : ~Denies(i, Own, c.at)
     => ~deny]_vars

(* docs/report/105: "The audit record is appended, flushed, and fsynced    *)
(* before the seccomp response."  Whatever answer a process has received   *)
(* is on record, also when the service died right after it.                *)
AnsweredAudited == answered \subseteq audit

(* The launcher waits for the guardian, the guardian for the adapter and   *)
(* the caller for the answer: while the launcher watches, every connect is *)
(* answered, given up or ended with the process group, also when worker    *)
(* restarts are used up, the service dies or a notification vanishes.      *)
ConnectsEnd ==
  \A c \in Callers : (call[c] # NoCall /\ launcher = "watch")
                        ~> (call[c] = NoCall \/ launcher # "watch")

(* docs/report/107: "readiness timeout fails the launch before the         *)
(* protected child is released."                                           *)
ReleasedOnlyGuarded == target # "held" => reply = "ready"
=============================================================================
