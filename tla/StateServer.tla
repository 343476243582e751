----------------------------- MODULE StateServer -----------------------------
(***************************************************************************)
(* The Python state-engine server (server.py) in front of one of its two   *)
(* persistent engines: the stateful proxy with its JSON snapshot           *)
(* (persistent_engine.py) or the ASM-CM engine with a snapshot and a       *)
(* separate digest file (asm_cm_engine.py).  The server runs one thread    *)
(* per connection and takes no lock, so a handler is a sequence of steps   *)
(* between which the other handlers run.                                   *)
(*                                                                         *)
(* A step ends where CPython may switch threads or where the outside world *)
(* can see a difference: the copy taken for the rollback, the sequence     *)
(* check with the new number, the rule, the snapshot document, the rename, *)
(* and what follows the rename.                                            *)
(***************************************************************************)
EXTENDS BaselineEngines

CONSTANTS
    Namespaces,    \* namespace ids
    Handlers,      \* connections served at the same time
    SentKinds,     \* the kinds of event the clients send
    Configs,       \* configuration (or checkpoint) fingerprints
    MaxEvents,     \* bound: events of one namespace
    MaxSends,      \* bound: requests, repetitions included
    MaxFaults,     \* bound: failing checkpoints, crashes, damaged files
    Window         \* events the sliding-window baseline remembers

ASSUME ServerAssumption ==
    /\ Namespaces # {} /\ Handlers # {} /\ Configs # {} /\ SentKinds \subseteq Kinds
    /\ MaxEvents \in Nat /\ MaxSends \in Nat /\ MaxFaults \in Nat /\ Window \in Nat \ {0}

VARIABLES
    engine,     \* --engine: "stateful-proxy" or "asm-cm"
    up,         \* the configuration the server runs with, or Down
    states,     \* self.states: namespace -> state, for the namespaces seen
    handler,    \* what each connection's thread is doing
    file,       \* the snapshot the path names
    digest,     \* asm-cm: the snapshot the digest file describes
    stable,     \* the snapshot a power failure leaves behind
    history,    \* the clients: the kinds of the events of each namespace
    answers,    \* every decision that was sent: [ns, seq, effect]
    sends, faults

vars == <<engine, up, states, handler, file, digest, stable, history, answers, sends, faults>>

disk == <<file, digest, stable>>

Down == "down"
Missing == [tag |-> "missing"]
Damaged == [tag |-> "damaged"]
Snapshot(config, contents) == [tag |-> "snapshot", config |-> config, states |-> contents]

Idle == [pc |-> "idle"]
Empty == << >>                       \* no namespace seen: a function on {}

StateOf(contents, n) == IF n \in DOMAIN contents THEN contents[n] ELSE ProxyInit

Put(contents, n, st) ==
    [m \in DOMAIN contents \union {n} |-> IF m = n THEN st ELSE contents[m]]

\* The object the handler works on: the shared one, or the one it was left
\* with when another handler replaced the dictionary.
Object(h) == IF "own" \in DOMAIN handler[h] THEN handler[h].own
             ELSE StateOf(states, handler[h].ns)

Goto(h, pc) == handler' = [handler EXCEPT ![h] = [@ EXCEPT !.pc = pc]]

\* A namespace's client waits for its answer before it sends again.
Busy(n) == \E h \in Handlers : handler[h] # Idle /\ handler[h].ns = n

Init ==
    /\ engine \in {"stateful-proxy", "asm-cm"}
    /\ up \in Configs
    /\ states = Empty
    /\ handler = [h \in Handlers |-> Idle]
    /\ file = Missing /\ digest = Missing /\ stable = Missing
    /\ history = [n \in Namespaces |-> << >>]
    /\ answers = {} /\ sends = 0 /\ faults = 0

-----------------------------------------------------------------------------
(* handle(): one request on one connection.                                *)

Send(h, n, s) ==
    handler' = [handler EXCEPT ![h] = [pc |-> "copy", ns |-> n, seq |-> s]]

\* A client sends its next event, or one it sent before: after an ABSTAIN or
\* a lost answer it may do either.
Request(h, n) ==
    /\ up # Down /\ handler[h] = Idle /\ ~Busy(n) /\ sends < MaxSends
    /\ sends' = sends + 1
    /\ \/ /\ \E kind \in SentKinds : history' = [history EXCEPT ![n] = Append(@, kind)]
          /\ Len(history[n]) < MaxEvents
          /\ Send(h, n, Len(history[n]) + 1)
       \/ \E s \in 1..Len(history[n]) : Send(h, n, s) /\ UNCHANGED history
    /\ UNCHANGED <<engine, up, states, disk, answers, faults>>

\* PersistentStatefulProxy.update copies every namespace before the rule
\* runs.  AsmCmEngine.update copies one namespace, after the sequence check:
\* Admit does it.
Copy(h) ==
    /\ handler[h].pc = "copy"
    /\ handler' = [handler EXCEPT ![h] =
            [pc |-> "admit", ns |-> @.ns, seq |-> @.seq, previous |-> states]]
    /\ UNCHANGED <<engine, up, states, disk, history, answers, sends, faults>>

\* setdefault, the sequence check, the new number and revision.
Admit(h) ==
    LET n == handler[h].ns
        s == handler[h].seq
        st == StateOf(states, n)
    IN  /\ handler[h].pc = "admit"
        /\ \/ /\ IsGap(st, s)              \* ABSTAIN, SEQUENCE_GAP
              /\ states' = Put(states, n, st)
              /\ handler' = [handler EXCEPT ![h] = Idle]
           \/ /\ ~IsGap(st, s)
              /\ states' = Put(states, n, ProxyAdmit(st, s))
              /\ handler' = [handler EXCEPT ![h] =
                    [pc |-> "rule", ns |-> n, seq |-> s,
                     previous |-> IF engine = "asm-cm" THEN Put(states, n, st) ELSE @.previous]]
        /\ UNCHANGED <<engine, up, disk, history, answers, sends, faults>>

\* The rest of update(): the rule and the decision.  What ASM-CM predicts is
\* up to its model; the proxy's rule is deterministic.
Rule(h) ==
    LET n == handler[h].ns
        s == handler[h].seq
        kind == history[n][s]
        st == ProxyRule(Object(h), kind, s)
        denies == IF engine = "asm-cm" THEN {FALSE, kind = "credential"}
                                       ELSE {ProxyDenies(st, kind)}
    IN  /\ handler[h].pc = "rule"
        /\ states' = IF "own" \in DOMAIN handler[h] THEN states ELSE Put(states, n, st)
        /\ \E deny \in denies :
              handler' = [handler EXCEPT ![h] =
                    [pc |-> "document", ns |-> n, seq |-> s, previous |-> @.previous,
                     effect |-> IF deny THEN "DENY" ELSE "ALLOW"]]
        /\ UNCHANGED <<engine, up, disk, history, answers, sends, faults>>

-----------------------------------------------------------------------------
(* checkpoint() and checkpoint_state().                                    *)

\* The document is built from self.states and written to a temporary file.
Document(h) ==
    /\ handler[h].pc = "document"
    /\ handler' = [handler EXCEPT ![h] =
            [pc |-> "replace", ns |-> @.ns, seq |-> @.seq, previous |-> @.previous,
             effect |-> @.effect, document |-> Snapshot(up, states)]]
    /\ UNCHANGED <<engine, up, states, disk, history, answers, sends, faults>>

\* os.replace puts the complete temporary file in the snapshot's place.
Replace(h) ==
    /\ handler[h].pc = "replace"
    /\ file' = handler[h].document
    /\ Goto(h, "settle")
    /\ UNCHANGED <<engine, up, states, digest, stable, history, answers, sends, faults>>

\* Mutant of Settle: the directory is not synced.
SettleUnsynced(h) ==
    /\ handler[h].pc = "settle" /\ Goto(h, "reply")
    /\ digest' = IF engine = "asm-cm" THEN handler[h].document ELSE digest
    /\ UNCHANGED <<engine, up, states, file, stable, history, answers, sends, faults>>

\* Mutant of Settle: the digest is left to the next checkpoint.
SettleUndigested(h) ==
    /\ handler[h].pc = "settle" /\ Goto(h, "reply")
    /\ stable' = IF engine = "stateful-proxy" THEN file ELSE stable
    /\ UNCHANGED <<engine, up, states, file, digest, history, answers, sends, faults>>

\* The directory is synced (proxy) or the digest is written (asm-cm).
Settle(h) ==
    /\ handler[h].pc = "settle"
    /\ \/ engine = "stateful-proxy" /\ stable' = file /\ UNCHANGED digest
       \/ engine = "asm-cm" /\ digest' = handler[h].document /\ UNCHANGED stable
    /\ Goto(h, "reply")
    /\ UNCHANGED <<engine, up, states, file, history, answers, sends, faults>>

\* The decision is written to the connection.
Reply(h) ==
    /\ handler[h].pc = "reply"
    /\ answers' = answers \union
            {[ns |-> handler[h].ns, seq |-> handler[h].seq, effect |-> handler[h].effect]}
    /\ handler' = [handler EXCEPT ![h] = Idle]
    /\ UNCHANGED <<engine, up, states, disk, history, sends, faults>>

\* Any step of the checkpoint raises: the copy is put back and the client is
\* told ABSTAIN, STATE_ENGINE_ERROR.  The proxy replaces the whole
\* dictionary, so a handler between Admit and Rule keeps an object no
\* dictionary holds; ASM-CM puts back the one namespace.
CheckpointFails(h) ==
    /\ handler[h].pc \in {"document", "replace", "settle"} /\ faults < MaxFaults
    /\ faults' = faults + 1
    /\ \/ /\ engine = "stateful-proxy"
          /\ states' = handler[h].previous
          /\ handler' = [g \in Handlers |->
                IF g = h THEN Idle
                ELSE IF handler[g].pc = "rule" /\ "own" \notin DOMAIN handler[g]
                THEN [pc |-> "rule", ns |-> handler[g].ns, seq |-> handler[g].seq,
                      previous |-> handler[g].previous, own |-> Object(g)]
                ELSE handler[g]]
       \/ /\ engine = "asm-cm"
          /\ states' = Put(states, handler[h].ns, handler[h].previous[handler[h].ns])
          /\ handler' = [handler EXCEPT ![h] = Idle]
    /\ UNCHANGED <<engine, up, disk, history, answers, sends>>

-----------------------------------------------------------------------------
(* The process and its files.                                              *)

Stop ==
    /\ up # Down /\ faults < MaxFaults
    /\ faults' = faults + 1 /\ up' = Down
    /\ states' = Empty
    /\ handler' = [h \in Handlers |-> Idle]
    /\ UNCHANGED <<engine, history, answers, sends>>

\* The process ends; the files stay as they are.
Kill == Stop /\ UNCHANGED disk

\* The machine stops: a rename whose directory was not synced may be undone.
PowerLoss ==
    /\ engine = "stateful-proxy"
    /\ Stop
    /\ file' \in {file, stable} /\ stable' = file' /\ UNCHANGED digest

\* Something outside the server damages the snapshot of a stopped server.
Damage ==
    /\ up = Down /\ file # Missing /\ faults < MaxFaults
    /\ faults' = faults + 1
    /\ file' = Damaged
    /\ UNCHANGED <<engine, up, states, handler, digest, stable, history, answers, sends>>

\* The refusals of _restore(): checksum, fingerprint, and for asm-cm a
\* digest file that describes another snapshot.
Restorable(config) ==
    \/ file = Missing
    \/ /\ file.tag = "snapshot" /\ file.config = config
       /\ engine = "asm-cm" => digest = file

\* What _restore() puts into self.states; without a file it is not called.
Restored == IF file = Missing THEN Empty ELSE file.states

\* Mutant of Start: a snapshot that is refused starts an empty engine.
StartEmpty(config) ==
    /\ up = Down /\ up' = config
    /\ states' = IF Restorable(config) THEN Restored ELSE Empty
    /\ UNCHANGED <<engine, handler, disk, history, answers, sends, faults>>

\* main(): the engine is built before the server listens, so a refused
\* snapshot ends the process and nothing changes.
Start(config) ==
    /\ up = Down /\ Restorable(config)
    /\ up' = config
    /\ states' = Restored
    /\ UNCHANGED <<engine, handler, disk, history, answers, sends, faults>>

Serve(h) == \/ \E n \in Namespaces : Request(h, n)
            \/ Copy(h) \/ Admit(h) \/ Rule(h)
            \/ Document(h) \/ Replace(h) \/ Settle(h) \/ Reply(h) \/ CheckpointFails(h)

Next == \/ \E h \in Handlers : Serve(h)
        \/ \E config \in Configs : Start(config)
        \/ Kill \/ PowerLoss \/ Damage

Spec == Init /\ [][Next]_vars

-----------------------------------------------------------------------------
TypeOK ==
    /\ engine \in {"stateful-proxy", "asm-cm"} /\ up \in Configs \union {Down}
    /\ DOMAIN states \subseteq Namespaces
    /\ \A n \in DOMAIN states :
          {states[n].last_sequence, states[n].network} \subseteq 0..Len(history[n])
    /\ \A h \in Handlers : handler[h] = Idle \/ handler[h].ns \in Namespaces
    /\ {file.tag, digest.tag, stable.tag} \subseteq {"missing", "damaged", "snapshot"}
    /\ history \in [Namespaces -> Seq(Kinds)]
    /\ \A a \in answers : a.effect \in {"ALLOW", "DENY"} /\ a.seq \in 1..Len(history[a.ns])
    /\ sends \in 0..MaxSends /\ faults \in 0..MaxFaults

\* Every decision the stateful proxy hands out is the decision of the whole
\* history of its namespace: no crash, failed checkpoint or restart makes it
\* forget a connect and allow (persistent_engine.py, "fail-closed").
DecisionFaithful ==
    engine = "stateful-proxy" =>
        \A a \in answers : (a.effect = "DENY") <=> Chained(history[a.ns], a.seq)

\* A running server's state covers every event it ever answered, however
\* often it was killed and restored in between; a snapshot that cannot be
\* trusted stops it instead of starting it from nothing.
ServesWhatItAnswered ==
    up # Down => \A a \in answers : StateOf(states, a.ns).last_sequence >= a.seq

\* The copy on stable storage never lags behind an answer of the proxy.
AnsweredIsStable ==
    engine = "stateful-proxy" /\ file # Damaged /\ stable # Damaged =>
        \A a \in answers :
            /\ stable.tag = "snapshot"
            /\ StateOf(stable.states, a.ns).last_sequence >= a.seq

\* What was answered is there: in the memory of a running server and, for the
\* proxy, on stable storage.
AnsweredKept == TypeOK /\ ServesWhatItAnswered /\ AnsweredIsStable

\* The baselines the proxy is compared with (benchmark_gate2.py) relate to
\* it on every history as their rules say: the sequence rule decides exactly
\* alike; whatever it denies the Gate 0 engine calls elevated and the
\* event-local rule denies; and the window denies it too unless the connect
\* has left the window.
BaselineOrder ==
    \A n \in Namespaces :
        \A k \in DOMAIN history[n] :
            LET past == SubSeq(history[n], 1, k)
                chained == Chained(history[n], k)
                st == AfterSequence(past)
            IN  /\ ProxyDenies(st, past[k]) <=> chained
                /\ chained => /\ FakeElevated(AfterFake(past), past[k])
                              /\ EventLocalDenies(past[k])
                              /\ \/ WindowDenies(AfterWindow(past, Window), past[k])
                                 \/ st.network + Window <= k

-----------------------------------------------------------------------------
\* The settled snapshot: on stable storage, or described by its digest.
Settled == IF engine = "asm-cm" THEN digest ELSE stable

DurableCount == [n \in Namespaces |->
    IF Settled.tag = "snapshot" THEN StateOf(Settled.states, n).last_sequence ELSE 0]

AnsweredNumbers == [n \in Namespaces |-> {a.seq : a \in {b \in answers : b.ns = n}}]

Log == INSTANCE DurableLog WITH durable <- DurableCount, answered <- AnsweredNumbers

\* Both engines implement the durable log: an event is answered only after
\* the settled snapshot contains it, and no later checkpoint, rollback,
\* crash or restart takes an answered event out again.
ImplementsDurableLog == Log!LogSpec
=============================================================================
