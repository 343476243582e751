----------------------------- MODULE BpfObserver -----------------------------
(***************************************************************************)
(* The live observer (run_live_bpf_observer.py) and the normalizer it uses *)
(* (bpf_to_events.py).  bpftrace prints one line when a traced system call *)
(* is entered and one when it returns; the normalizer joins the two, reads *)
(* /proc for the identity of the process, numbers the event within its     *)
(* namespace and appends it to a partial file.  When the observer stops,   *)
(* the partial file becomes the capture or is thrown away; a trajectory is *)
(* later cut out of it (extract_gate4_live_bpf_trajectory.py).             *)
(*                                                                         *)
(* The kernel may drop a line.  It then counts the loss and bpftrace       *)
(* reports it on the other stream, so the observer can learn of it long    *)
(* after it has joined the wrong halves.  A process may end inside a call, *)
(* and its number may be given to another one.                             *)
(***************************************************************************)
EXTENDS Naturals, Sequences, FiniteSets

CONSTANTS
    Tasks,       \* thread numbers; a process has one thread
    Operations,  \* the traced calls that have an entry and an exit line
    Addressed,   \* those that print the socket address on a line of its own
    MaxCalls,    \* bound: calls entered
    MaxLost,     \* bound: lines the kernel drops
    MaxLives     \* bound: processes that use a number, one after the other

VARIABLES
    life,       \* life[t]: which process has the number t; alive[t]: it runs
    alive,
    call,       \* call[t]: the call t is in
    calls,      \* calls entered so far: their ids are 1 .. calls
    credential, \* the calls that open a path labelled credential
    pipe,       \* lines on bpftrace's standard output
    lost,       \* lines dropped by the kernel
    lost_events,\* losses the observer has read about
    pending,    \* CorrelatingNormalizer.pending
    sequences,  \* sequences[n]: the last number given to namespace n
    skipped,    \* namespaces a number was taken from without an event
    partial,    \* the partial file
    capture,    \* the published file
    phase       \* what the observer is doing

vars == <<life, alive, call, calls, credential, pipe, lost, lost_events, pending, sequences,
          skipped, partial, capture, phase>>

kernel == <<life, alive, call, calls, credential>>
normalizer == <<pending, sequences, skipped, partial>>

NoCall == [id |-> 0]
NoFile == << >>
Namespaces == Tasks \X (1..MaxLives)

Init ==
    /\ life = [t \in Tasks |-> 1] /\ alive = [t \in Tasks |-> TRUE]
    /\ call = [t \in Tasks |-> NoCall] /\ calls = 0 /\ credential = {}
    /\ pipe = << >> /\ lost = 0 /\ lost_events = 0
    /\ pending = << >> /\ sequences = [n \in Namespaces |-> 0] /\ skipped = {}
    /\ partial = NoFile /\ capture = NoFile
    /\ phase = "running"

-----------------------------------------------------------------------------
(* The kernel and bpftrace.                                                *)

\* A line reaches the pipe or is dropped and counted.
Emit(line) ==
    \/ pipe' = Append(pipe, line) /\ UNCHANGED lost
    \/ lost < MaxLost /\ lost' = lost + 1 /\ UNCHANGED pipe

\* `text' is what normalize() makes of the line's fields: good, or malformed
\* in a way it meets only after it has taken a number.
Enter(t, op) ==
    /\ phase = "running" /\ alive[t] /\ call[t] = NoCall /\ calls < MaxCalls
    /\ calls' = calls + 1
    /\ call' = [call EXCEPT ![t] = [id |-> calls + 1, op |-> op, told |-> op \notin Addressed]]
    /\ credential' \in {credential} \union
                       (IF op \in Addressed THEN {} ELSE {credential \union {calls + 1}})
    /\ \E text \in {"good", "late"} :
          Emit([half |-> "enter", tid |-> t, op |-> op, id |-> calls + 1,
                address |-> 0, text |-> text])
    /\ UNCHANGED <<life, alive, lost_events, normalizer, capture, phase>>

\* connect and bind print their socket address on a second line.
Address(t) ==
    /\ phase = "running" /\ call[t] # NoCall /\ ~call[t].told
    /\ call' = [call EXCEPT ![t].told = TRUE]
    /\ Emit([half |-> "sockaddr", tid |-> t, op |-> call[t].op, id |-> call[t].id])
    /\ UNCHANGED <<life, alive, calls, credential, lost_events, normalizer, capture, phase>>

\* exec and socket print one line that needs no partner.
Whole(t) ==
    /\ phase = "running" /\ alive[t] /\ call[t] = NoCall /\ calls < MaxCalls
    /\ calls' = calls + 1
    /\ Emit([half |-> "whole", tid |-> t, id |-> calls + 1, address |-> 0, text |-> "good"])
    /\ UNCHANGED <<life, alive, call, credential, lost_events, normalizer, capture, phase>>

Exit(t) ==
    /\ phase = "running" /\ call[t] # NoCall /\ call[t].told
    /\ call' = [call EXCEPT ![t] = NoCall]
    /\ Emit([half |-> "exit", tid |-> t, op |-> call[t].op, id |-> call[t].id])
    /\ UNCHANGED <<life, alive, calls, credential, lost_events, normalizer, capture, phase>>

\* The process ends, inside a call or not; its number is used again.
Die(t) ==
    /\ phase = "running" /\ alive[t]
    /\ alive' = [alive EXCEPT ![t] = FALSE] /\ call' = [call EXCEPT ![t] = NoCall]
    /\ UNCHANGED <<life, calls, credential, pipe, lost, lost_events, normalizer, capture, phase>>

Reuse(t) ==
    /\ phase = "running" /\ ~alive[t] /\ life[t] < MaxLives
    /\ alive' = [alive EXCEPT ![t] = TRUE] /\ life' = [life EXCEPT ![t] = @ + 1]
    /\ UNCHANGED <<call, calls, credential, pipe, lost, lost_events, normalizer, capture, phase>>

-----------------------------------------------------------------------------
(* The normalizer.                                                         *)

Key(line) == <<line.tid, line.op>>

\* Mutant of Normalize: the number is not recorded, the next event gets it too.
NormalizeUnrecorded(entry, exit) ==
    LET t == exit.tid
        n == <<t, life[t]>>
    IN  /\ UNCHANGED <<sequences, skipped>>
        /\ IF ~alive[t] \/ entry.text = "late"
           THEN UNCHANGED partial
           ELSE partial' = Append(partial,
                    [ns |-> n, seq |-> sequences[n] + 1, entered |-> entry.id,
                     returned |-> exit.id, address |-> entry.address,
                     credential |-> entry.id \in credential])

\* normalize(): /proc is read when the line is handled, so a process that
\* has ended raises before a number is taken, and one that has been replaced
\* lends its identity.
Normalize(entry, exit) ==
    LET t == exit.tid
        n == <<t, life[t]>>
        number == sequences[n] + 1
    IN  IF ~alive[t]
        THEN UNCHANGED <<sequences, skipped, partial>>
        ELSE /\ sequences' = [sequences EXCEPT ![n] = number]
             /\ IF entry.text = "late"
                THEN skipped' = skipped \union {n} /\ UNCHANGED partial
                ELSE /\ partial' = Append(partial,
                            [ns |-> n, seq |-> number, entered |-> entry.id,
                             returned |-> exit.id, address |-> entry.address,
                             credential |-> entry.id \in credential])
                     /\ UNCHANGED skipped

Hold(line) == pending' = [k \in DOMAIN pending \union {Key(line)} |->
                            IF k = Key(line) THEN line ELSE pending[k]]

Drop(key) == pending' = [k \in DOMAIN pending \ {key} |-> pending[k]]

\* CorrelatingNormalizer.normalize: an entry waits for its exit, an address
\* is added to the entry that waits, an exit or an address without an entry
\* is dropped.
ReadLine ==
    LET line == Head(pipe)
    IN  /\ phase = "running" /\ pipe # << >>
        /\ pipe' = Tail(pipe)
        /\ \/ /\ line.half = "enter" /\ Hold(line)
              /\ UNCHANGED <<sequences, skipped, partial>>
           \/ /\ line.half = "sockaddr" /\ Key(line) \in DOMAIN pending
              /\ Hold([pending[Key(line)] EXCEPT !.address = line.id])
              /\ UNCHANGED <<sequences, skipped, partial>>
           \/ /\ line.half = "exit" /\ Key(line) \in DOMAIN pending
              /\ Drop(Key(line))
              /\ Normalize(pending[Key(line)], line)
           \/ /\ line.half \in {"sockaddr", "exit"} /\ Key(line) \notin DOMAIN pending
              /\ UNCHANGED normalizer
           \/ /\ line.half = "whole" /\ UNCHANGED pending
              /\ Normalize(line, line)
        /\ UNCHANGED <<kernel, lost, lost_events, capture, phase>>

\* A line of the other stream reports the losses so far.
ReadLoss ==
    /\ phase = "running" /\ lost_events < lost
    /\ lost_events' = lost
    /\ UNCHANGED <<kernel, pipe, lost, normalizer, capture, phase>>

-----------------------------------------------------------------------------
(* The end of main().                                                      *)

\* The deadline, an interrupt or the end of bpftrace ends the loop: what is
\* still in the pipe is not read.
Stop ==
    /\ phase = "running" /\ phase' = "stopping"
    /\ UNCHANGED <<kernel, pipe, lost, lost_events, normalizer, capture>>

\* The broker the observer asks for a decision cannot be reached: the
\* exception leaves main() with the partial file in place.
BrokerFails ==
    /\ phase = "running" /\ partial # NoFile /\ phase' = "aborted"
    /\ UNCHANGED <<kernel, pipe, lost, lost_events, normalizer, capture>>

\* Mutant of Finish: only the losses that were read in the loop count.
FinishUndrained(how) ==
    /\ phase = "stopping" /\ phase' = how
    /\ capture' = IF how # "failed" /\ partial # NoFile /\ lost_events = 0
                  THEN partial ELSE capture
    /\ partial' = NoFile
    /\ UNCHANGED <<kernel, pipe, lost, lost_events, pending, sequences, skipped>>

\* Mutant of Finish: a run that lost events leaves its partial file.
FinishKeeping(how) ==
    LET reported == IF how = "killed" THEN lost_events ELSE lost
        good == how # "failed" /\ partial # NoFile /\ reported = 0
    IN  /\ phase = "stopping" /\ phase' = how
        /\ lost_events' = reported
        /\ capture' = IF good THEN partial ELSE capture
        /\ partial' = IF good THEN NoFile ELSE partial
        /\ UNCHANGED <<kernel, pipe, lost, pending, sequences, skipped>>

\* bpftrace ends on its interrupt ("done"), ends by itself with an error
\* ("failed"), or ignores the interrupt for five seconds and is killed, so
\* that the losses it has not reported yet stay unknown.  The rest of its
\* messages is read and the file is published or removed.
Finish(how) ==
    LET reported == IF how = "killed" THEN lost_events ELSE lost
    IN  /\ phase = "stopping" /\ phase' = how
        /\ lost_events' = reported
        /\ capture' = IF how # "failed" /\ partial # NoFile /\ reported = 0
                      THEN partial ELSE capture
        /\ partial' = NoFile
        /\ UNCHANGED <<kernel, pipe, lost, pending, sequences, skipped>>

Ends == {"done", "failed", "killed"}

Stopped == phase \in Ends \union {"aborted"} /\ UNCHANGED vars

Next ==
    \/ \E t \in Tasks : \/ \E op \in Operations : Enter(t, op)
                        \/ Address(t) \/ Whole(t) \/ Exit(t) \/ Die(t) \/ Reuse(t)
    \/ ReadLine \/ ReadLoss
    \/ Stop \/ BrokerFails \/ (\E how \in Ends : Finish(how))
    \/ Stopped

\* The deadline passes and the observer goes on.
Spec == Init /\ [][Next]_vars /\ WF_vars(Stop) /\ WF_vars(\E how \in Ends : Finish(how))

-----------------------------------------------------------------------------
(* extract(): the events of one namespace up to its first credential.      *)

\* Mutant of OfNamespace: a process is told by its number alone.
OfNumber(e, n) == e.ns[1] = n[1]

OfNamespace(e, n) == e.ns = n

Terminal(e, n) == OfNamespace(e, n) /\ e.credential

\* The places in the capture of the events that are selected.
Extract(n) == {i \in DOMAIN capture : /\ OfNamespace(capture[i], n)
                                      /\ \A j \in 1..(i - 1) : ~Terminal(capture[j], n)}

\* The selection ends with a credential and is numbered 1, 2, ...
Extractable(n) ==
    /\ \E i \in Extract(n) : capture[i].credential
    /\ \A i \in Extract(n) : capture[i].seq = Cardinality({j \in Extract(n) : j <= i})

-----------------------------------------------------------------------------
TypeOK ==
    /\ \A t \in Tasks : life[t] \in 1..MaxLives /\ call[t].id \in 0..MaxCalls
    /\ DOMAIN pending \subseteq Tasks \X Operations
    /\ lost_events \in 0..lost
    /\ \A i \in DOMAIN partial : partial[i].ns \in Namespaces /\ partial[i].seq \in 1..MaxCalls
    /\ phase \in {"running", "stopping", "aborted"} \union Ends

\* In a published capture every event joins the two halves of one system
\* call: a capture in which lost lines let the normalizer join the halves of
\* two calls is thrown away, although the loss is reported on another stream
\* and after the fact (README.md, "any kernel-reported lost event count
\* invalidates the capture").  Only a bpftrace that had to be killed can
\* leave a loss unreported.
CaptureJoinsOneCall ==
    phase # "killed" => \A i \in DOMAIN capture :
        /\ capture[i].entered = capture[i].returned
        /\ capture[i].address \in {0, capture[i].returned}

\* No call appears twice, and the numbers of a namespace only grow in file
\* order, whether lines were lost, processes ended or numbers were reused.
EventsOnceInOrder ==
    \A i, j \in DOMAIN partial :
        i < j => /\ partial[i].returned # partial[j].returned
                 /\ partial[i].ns = partial[j].ns => partial[i].seq < partial[j].seq

\* A namespace with a credential event yields a trajectory exactly when no
\* number was burned before it: the gap check refuses nothing else.
ExtractionRefusesOnlyGaps ==
    \A n \in Namespaces :
        /\ Extractable(n) /\ phase # "killed" =>
              \A i \in Extract(n) : capture[i].entered = capture[i].returned
        /\ /\ \E i \in DOMAIN capture : capture[i].ns = n /\ capture[i].credential
           /\ n \notin skipped
           => Extractable(n)

\* The observer ends, and unless the broker failed no partial file remains.
EventuallySettles == <>(phase = "aborted" \/ (phase \in Ends /\ partial = NoFile))
=============================================================================
