--------------------------- MODULE BaselineEngines ---------------------------
(***************************************************************************)
(* The update rules of the Python state engines (benchmark_engines.py and  *)
(* engine.py), as functions on the state of one namespace.                 *)
(*                                                                         *)
(* An event is abstracted to the kind the rules tell apart: its operation  *)
(* together with the one label a rule looks for.  An event id is the       *)
(* event's position in the history of its namespace; 0 stands for None.    *)
(***************************************************************************)
EXTENDS Naturals, Sequences

\* "connect" carries no trusted-network label, "trusted" does; "reset" is an
\* identity.change labelled trusted-reset; "credential" is a file.open
\* labelled credential; "other" is any event no rule mentions.
Kinds == {"exec", "connect", "trusted", "reset", "credential", "other"}

NoEvent == 0

-----------------------------------------------------------------------------
(* D: the stateful proxy.  B, the sequence rule, has the same body without *)
(* revision and last_sequence.                                             *)

ProxyInit == [revision |-> 0, last_sequence |-> 0, saw_exec |-> FALSE, network |-> NoEvent]

\* Mutant of IsGap: only a replay is refused.
IsReplay(st, sequence) == sequence <= st.last_sequence

\* The sequence check of update(): anything but the next number is a gap.
IsGap(st, sequence) == sequence # st.last_sequence + 1

\* Mutant of ProxyAdmit: the next number is stored instead of the last.
ProxyAdmitNext(st, sequence) ==
    [st EXCEPT !.last_sequence = sequence + 1, !.revision = @ + 1]

\* The first half of update(): the number and the revision are taken.
ProxyAdmit(st, sequence) ==
    [st EXCEPT !.last_sequence = sequence, !.revision = @ + 1]

\* The second half: the effect of the event on the network evidence.
ProxyRule(st, kind, id) ==
    [st EXCEPT
        !.saw_exec = @ \/ kind = "exec",
        !.network = CASE kind \in {"exec", "reset"} -> NoEvent
                      [] kind = "connect" /\ st.saw_exec -> id
                      [] OTHER -> @]

ProxyDenies(st, kind) == kind = "credential" /\ st.network # NoEvent

\* B: the sequence rule on a whole history, one event at a time.
SequenceInit == [saw_exec |-> FALSE, network |-> NoEvent]

\* Mutant of SequenceRule: a new program keeps the old one's evidence.
SequenceRuleKeeping(st, kind, id) ==
    LET seen == [st EXCEPT !.saw_exec = @ \/ kind = "exec",
                           !.network = IF kind = "reset" THEN NoEvent ELSE @]
    IN  [seen EXCEPT !.network = IF kind = "connect" /\ seen.saw_exec THEN id ELSE @]

SequenceRule(st, kind, id) ==
    LET seen == [st EXCEPT !.saw_exec = @ \/ kind = "exec",
                           !.network = IF kind \in {"exec", "reset"} THEN NoEvent ELSE @]
    IN  [seen EXCEPT !.network = IF kind = "connect" /\ seen.saw_exec THEN id ELSE @]

-----------------------------------------------------------------------------
(* A: the event alone.  C: the last `window' events.  Fake: the Gate 0     *)
(* engine, which never forgets a connect.                                  *)

EventLocalDenies(kind) == kind = "credential"

WindowAppend(recent, kind, id, window) ==
    LET kept == Append(IF kind = "reset" THEN << >> ELSE recent, [kind |-> kind, id |-> id])
    IN  SubSeq(kept, IF Len(kept) > window THEN Len(kept) - window + 1 ELSE 1, Len(kept))

WindowDenies(recent, kind) ==
    kind = "credential" /\ \E i \in DOMAIN recent : recent[i].kind = "connect"

FakeInit == [revision |-> 0, saw_exec |-> FALSE, saw_network |-> FALSE]

FakeRule(st, kind) ==
    [revision |-> st.revision + 1,
     saw_exec |-> st.saw_exec \/ kind = "exec",
     saw_network |-> \/ st.saw_network
                     \/ kind \in {"connect", "trusted"} /\ st.saw_exec]

FakeElevated(st, kind) == kind = "credential" /\ st.saw_network

-----------------------------------------------------------------------------
(* A history is the sequence of kinds of one namespace, in order.          *)

AfterSequence(history) ==
    LET after[i \in 0..Len(history)] ==
            IF i = 0 THEN SequenceInit ELSE SequenceRule(after[i - 1], history[i], i)
    IN  after[Len(history)]

AfterWindow(history, window) ==
    LET after[i \in 0..Len(history)] ==
            IF i = 0 THEN << >> ELSE WindowAppend(after[i - 1], history[i], i, window)
    IN  after[Len(history)]

AfterFake(history) ==
    LET after[i \in 0..Len(history)] ==
            IF i = 0 THEN FakeInit ELSE FakeRule(after[i - 1], history[i])
    IN  after[Len(history)]

\* What the rules are for, said without state: the n-th event opens a
\* credential, an untrusted connect j came before it, the program had been
\* executed before j, and nothing cleared the evidence between j and n.
Chained(history, n) ==
    /\ history[n] = "credential"
    /\ \E j \in 1..(n - 1) :
          /\ history[j] = "connect"
          /\ \E i \in 1..(j - 1) : history[i] = "exec"
          /\ \A k \in (j + 1)..(n - 1) : history[k] \notin {"exec", "reset"}
=============================================================================
