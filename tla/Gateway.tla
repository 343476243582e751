------------------------------ MODULE Gateway ------------------------------
(***************************************************************************)
(* The event gateway (src/bin/agb-gateway.rs): one process reads events    *)
(* from stdin, appends each to the canonical store, updates the trajectory *)
(* state of its namespace (src/state.rs, FakeStateEngine) and prints the   *)
(* audit decision (src/policy.rs, AuditPolicy).  Any error ends the        *)
(* process; the next one opens the same store with a fresh engine.         *)
(***************************************************************************)
EXTENDS CanonicalStore

CONSTANT NoEvent   \* no event identifier recorded

ASSUME GatewayMarkers == NoEvent \notin Ids \cup Events

VARIABLES
  engine,    \* FakeStateEngine.namespaces
  cur,       \* the event that is stored and not yet evaluated, or NoEvent
  outputs,   \* history: what the processes printed, in order
  born       \* history: outputs printed before the running process started

vars == <<store, engine, cur, outputs, born>>

(* NamespaceState::default(); saw_exec and saw_network_after_exec hold     *)
(* exactly when the event identifier beside them is recorded.              *)
FreshState == [revision |-> 0, exec |-> NoEvent, network |-> NoEvent]
FreshEngine == [ns \in Namespaces |-> FreshState]
-----------------------------------------------------------------------------
(* Mutant of Advance: a connection counts without an earlier exec.         *)
AdvanceAnyConnect(state, ev) ==
  [revision |-> state.revision + 1,
   exec     |-> IF ev.op = "exec" THEN ev.id ELSE state.exec,
   network  |-> IF ev.op = "connect" THEN ev.id ELSE state.network]

(* FakeStateEngine::update on the state of the event's namespace.          *)
Advance(state, ev) ==
  [revision |-> state.revision + 1,
   exec     |-> IF ev.op = "exec" THEN ev.id ELSE state.exec,
   network  |-> IF ev.op = "connect" /\ state.exec # NoEvent THEN ev.id ELSE state.network]

(* risk_band of the summary; the audit decision is DENY exactly when it is *)
(* elevated.  "credential" is a file.open with the credential label.       *)
Elevated(state, ev) == ev.op = "credential" /\ state.network # NoEvent

(* Mutant of Evidence: what is not recorded is listed too.                 *)
EvidenceUnfiltered(state, ev) == <<state.exec, state.network, ev.id>>

(* evidence_ids: what is recorded, then the event itself unless listed.    *)
Listed(id) == IF id = NoEvent THEN <<>> ELSE <<id>>

Evidence(state, ev) ==
  Listed(state.exec) \o Listed(state.network) \o
    (IF ev.id \in {state.exec, state.network} THEN <<>> ELSE <<ev.id>>)

Output(state, ev) ==
  [event |-> ev, revision |-> state.revision,
   effect |-> IF Elevated(state, ev) THEN "DENY" ELSE "ALLOW",
   evidence |-> Evidence(state, ev)]
-----------------------------------------------------------------------------
Init ==
  /\ StoreInit
  /\ engine = FreshEngine /\ cur = NoEvent /\ outputs = <<>> /\ born = 0

Start ==
  /\ Open
  /\ born' = Len(outputs)
  /\ UNCHANGED <<engine, cur, outputs>>

StartRefused == OpenRefused /\ UNCHANGED <<engine, cur, outputs, born>>

(* store.append(&event)                                                    *)
Store(ev) ==
  /\ cur = NoEvent
  /\ AppendEvent(ev)
  /\ cur' = ev
  /\ UNCHANGED <<engine, outputs, born>>

(* The engine update, the decision and the printed line.                   *)
Evaluate ==
  /\ cur # NoEvent
  /\ LET state == Advance(engine[cur.ns], cur) IN
     /\ engine' = [engine EXCEPT ![cur.ns] = state]
     /\ outputs' = Append(outputs, Output(state, cur))
  /\ cur' = NoEvent
  /\ UNCHANGED <<store, born>>

(* The process and everything it kept in memory are gone.                  *)
Gone == Close /\ engine' = FreshEngine /\ cur' = NoEvent /\ UNCHANGED <<outputs, born>>

(* Mutant of StoreFails: the gateway reads on after a failed append.       *)
StoreFailsReadsOn(ev) ==
  /\ cur = NoEvent /\ AppendFails(ev)
  /\ UNCHANGED <<engine, cur, outputs, born>>

(* store.append(&event) fails: run() returns the error.                    *)
StoreFails(ev) ==
  /\ cur = NoEvent
  /\ WriteFails(ev)
  /\ Gone
  /\ UNCHANGED accepted

(* The process ends at any other point: end of input, a line that is too   *)
(* long, not an event or not valid, an event append() rejects, a failed    *)
(* print, or a kill.  A stored event may then never be evaluated.          *)
Exit == Gone /\ UNCHANGED <<file, accepted, faults>>

Next ==
  \/ Start \/ StartRefused \/ Evaluate \/ Exit
  \/ \E ev \in Events : Store(ev) \/ StoreFails(ev)

Spec == Init /\ [][Next]_vars
-----------------------------------------------------------------------------
States == [revision : Nat, exec : Ids \cup {NoEvent}, network : Ids \cup {NoEvent}]

(* The type of every variable.                                             *)
TypeOK ==
  /\ StoreTypeOK
  /\ engine \in [Namespaces -> States]
  /\ cur \in Events \cup {NoEvent}
  /\ outputs \in Seq([event : Events, revision : Nat, effect : {"ALLOW", "DENY"},
                      evidence : Seq(Ids)])
  /\ born \in 0 .. Len(outputs)

(* No event is evaluated twice or out of order, over all processes: an     *)
(* event whose append failed half-way is either indexed by the next        *)
(* process, which then rejects the producer's retry, or was never stored.  *)
EvaluatedInOrder ==
  \A i, j \in DOMAIN outputs : i < j => InOrder(outputs[i].event, outputs[j].event)

(* The reference for the engine: ev completes exec, connect, credential in *)
(* this order within its namespace, over the events of a sequence.         *)
CompletesChain(events, ev) ==
  /\ ev.op = "credential"
  /\ \E i, j \in DOMAIN events :
       /\ i < j /\ events[i].ns = ev.ns /\ events[j].ns = ev.ns
       /\ events[i].op = "exec" /\ events[j].op = "connect"

Printed(first, end) == [i \in 1 .. end - first |-> outputs[first + i].event]

(* A decision is DENY exactly when the namespace's own events that this    *)
(* process evaluated contain the chain, interleaved with other namespaces. *)
DenyIffChain ==
  \A n \in born + 1 .. Len(outputs) :
    outputs[n].effect = "DENY" <=> CompletesChain(Printed(born, n - 1), outputs[n].event)

(* The inductive invariant behind the properties above.                    *)

(* Nothing in the file can come again while the store is open.             *)
FileCovered ==
  opened => \A i \in DOMAIN LinesOf(file) :
              LinesOf(file)[i] # Garbage => Covers(LinesOf(file)[i])

(* What is evaluated was accepted before, and the event in hand comes      *)
(* after everything evaluated.                                             *)
Accepted(ev) == \E a \in DOMAIN accepted : accepted[a] = ev

OutputsAccepted == \A n \in DOMAIN outputs : Accepted(outputs[n].event)

InHandSound ==
  cur # NoEvent =>
    /\ opened /\ Accepted(cur)
    /\ \A n \in DOMAIN outputs : InOrder(outputs[n].event, cur)

(* The engine of the running process remembers what it was shown.          *)
ShownExec(ns, end) ==
  \E i \in born + 1 .. end : outputs[i].event.ns = ns /\ outputs[i].event.op = "exec"

ShownChain(ns, end) ==
  \E i, j \in born + 1 .. end :
    /\ i < j /\ outputs[i].event.ns = ns /\ outputs[j].event.ns = ns
    /\ outputs[i].event.op = "exec" /\ outputs[j].event.op = "connect"

EngineSound ==
  IF opened THEN \A ns \in Namespaces :
                   /\ engine[ns].exec # NoEvent <=> ShownExec(ns, Len(outputs))
                   /\ engine[ns].network # NoEvent <=> ShownChain(ns, Len(outputs))
  ELSE engine = FreshEngine

GatewayInv ==
  /\ TypeOK /\ StoreInv
  /\ NoReplayInFile /\ FileCovered
  /\ EvaluatedInOrder /\ OutputsAccepted /\ InHandSound
  /\ EngineSound /\ DenyIffChain
=============================================================================
