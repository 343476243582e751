--------------------------- MODULE CanonicalStore ---------------------------
(***************************************************************************)
(* The append-only event store (src/store.rs): a JSON-lines file and the   *)
(* in-memory replay index that open() rebuilds from it.                    *)
(*                                                                         *)
(* StoreSpec is a caller that keeps the store open after a failed append   *)
(* and may retry, as docs/persistence.md invites it to; Gateway.tla        *)
(* composes the same operations with the gateway, which exits instead.     *)
(* Events are valid (SecurityEvent::validate): a positive sequence, a      *)
(* namespace, an identifier and an operation.                              *)
(***************************************************************************)
EXTENDS Integers, Sequences, FiniteSets, JsonLines

CONSTANTS
  Ids,           \* event_id values
  Namespaces,    \* namespace_id values
  Operations,    \* what an event observes
  MaxSequence,   \* bound: largest sequence a producer sends
  MaxLines,      \* bound: lines in the file
  MaxFaults      \* bound: failed appends

ASSUME StoreConstants ==
  /\ MaxSequence \in Nat /\ MaxLines \in Nat /\ MaxFaults \in Nat

Events == [id : Ids, ns : Namespaces, seq : 1 .. MaxSequence, op : Operations]

ASSUME StoreMarkers ==
  /\ Garbage \notin Events
  /\ NoTail \notin Events \cup {Torn}
  /\ Torn \notin Events

VARIABLES
  file,      \* the canonical file
  opened,    \* a process holds a CanonicalStore
  seen,      \* CanonicalStore.seen_ids
  last,      \* CanonicalStore.last_sequence, 0 for a namespace without one
  accepted,  \* history: the events append() returned Ok for, in order
  faults     \* failed appends so far

store == <<file, opened, seen, last, accepted, faults>>

Fault == faults < MaxFaults /\ faults' = faults + 1
-----------------------------------------------------------------------------
(* index() would reject line i after the lines before it.                  *)
Replayed(lines, i) ==
  \E j \in 1 .. i - 1 : \/ lines[j].id = lines[i].id
                        \/ lines[j].ns = lines[i].ns /\ lines[i].seq <= lines[j].seq

Opens(lines) == /\ \A i \in DOMAIN lines : lines[i] # Garbage
                /\ \A i \in DOMAIN lines : ~Replayed(lines, i)

LastSequence(lines, ns) ==
  LET seqs == {lines[i].seq : i \in {j \in DOMAIN lines : lines[j].ns = ns}}
  IN  IF seqs = {} THEN 0 ELSE CHOOSE m \in seqs : \A n \in seqs : n <= m

Open ==
  /\ ~opened
  /\ Opens(LinesOf(file))
  /\ opened' = TRUE
  /\ seen' = {LinesOf(file)[i].id : i \in DOMAIN LinesOf(file)}
  /\ last' = [ns \in Namespaces |-> LastSequence(LinesOf(file), ns)]
  /\ UNCHANGED <<file, accepted, faults>>

(* open() returns an error and the process ends.                           *)
OpenRefused ==
  /\ ~opened
  /\ ~Opens(LinesOf(file))
  /\ UNCHANGED store

(* Mutant of CheckIndex: identifiers are not compared.                     *)
CheckSequenceOnly(ev) == ev.seq > last[ev.ns]

CheckIndex(ev) == ev.id \notin seen /\ ev.seq > last[ev.ns]

(* Mutant of AppendEvent: the event is acknowledged before it is written.  *)
AppendEventUnwritten(ev) ==
  /\ opened /\ CheckIndex(ev)
  /\ seen' = seen \cup {ev.id}
  /\ last' = [last EXCEPT ![ev.ns] = ev.seq]
  /\ accepted' = Append(accepted, ev)
  /\ UNCHANGED <<file, opened, faults>>

AppendEvent(ev) ==
  /\ opened /\ CheckIndex(ev)
  /\ Len(file.lines) < MaxLines
  /\ file' = AppendWhole(file, ev)
  /\ seen' = seen \cup {ev.id}
  /\ last' = [last EXCEPT ![ev.ns] = ev.seq]
  /\ accepted' = Append(accepted, ev)
  /\ UNCHANGED <<opened, faults>>

(* What a failed append may leave in the file; the index is not touched.   *)
WriteFails(ev) ==
  /\ opened /\ CheckIndex(ev)
  /\ Len(file.lines) < MaxLines
  /\ Fault
  /\ file' \in AppendFailures(file, ev)

(* append() returns an error and the caller keeps the store.               *)
AppendFails(ev) == WriteFails(ev) /\ UNCHANGED <<opened, seen, last, accepted>>

(* The process that holds the store ends, in whatever way.                 *)
Close ==
  /\ opened /\ opened' = FALSE
  /\ seen' = {} /\ last' = [ns \in Namespaces |-> 0]

End == Close /\ UNCHANGED <<file, accepted, faults>>

StoreInit ==
  /\ file = EmptyFile
  /\ opened = FALSE /\ seen = {} /\ last = [ns \in Namespaces |-> 0]
  /\ accepted = <<>> /\ faults = 0

StoreNext ==
  \/ Open \/ OpenRefused \/ End
  \/ \E ev \in Events : AppendEvent(ev) \/ AppendFails(ev)

StoreSpec == StoreInit /\ [][StoreNext]_store
-----------------------------------------------------------------------------
Lines == Events \cup {Garbage}
Files == [lines : Seq(Lines), tail : Events \cup {NoTail, Torn}]

(* The type of every variable of the store.                                *)
StoreTypeOK ==
  /\ file \in Files
  /\ opened \in BOOLEAN
  /\ seen \in SUBSET Ids
  /\ last \in [Namespaces -> 0 .. MaxSequence]
  /\ accepted \in Seq(Events)
  /\ faults \in Nat

(* Two events that index() can take in this order.                         *)
InOrder(a, b) == a.id # b.id /\ (a.ns = b.ns => a.seq < b.seq)

(* docs/contracts.md: event_id is globally unique for the store and        *)
(* sequence strictly increases per namespace_id.  This holds of the events *)
(* append() accepted over all processes that opened the store, whatever    *)
(* failed in between.                                                      *)
AcceptedInOrder ==
  \A i, j \in DOMAIN accepted : i < j => InOrder(accepted[i], accepted[j])

(* No accepted event is lost behind the back of open(): a file that opens  *)
(* holds every one of them.                                                *)
AcceptedKept ==
  Opens(LinesOf(file)) =>
    \A a \in DOMAIN accepted : \E i \in DOMAIN file.lines : file.lines[i] = accepted[a]

(* The inductive invariant behind the two properties above.                *)

Damaged == \E i \in DOMAIN file.lines : file.lines[i] = Garbage

KeptUnlessDamaged ==
  \/ Damaged
  \/ \A a \in DOMAIN accepted : \E i \in DOMAIN file.lines : file.lines[i] = accepted[a]

(* The index of the open store covers ev: check_index() rejects a second.  *)
Covers(ev) == ev.id \in seen /\ ev.seq <= last[ev.ns]

Indexed == opened => \A a \in DOMAIN accepted : Covers(accepted[a])

StoreInv == StoreTypeOK /\ KeptUnlessDamaged /\ Indexed /\ AcceptedInOrder

(* docs/persistence.md: "A failed append may therefore be retried in the   *)
(* same process without being mistaken for a replay."  No file is refused  *)
(* by open() as a replay.                                                  *)
NoReplayInFile ==
  LET lines == LinesOf(file) IN
  \A i, j \in DOMAIN lines :
    i < j /\ lines[i] # Garbage /\ lines[j] # Garbage => InOrder(lines[i], lines[j])

=============================================================================
