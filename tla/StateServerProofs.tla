-------------------------- MODULE StateServerProofs --------------------------
(***************************************************************************)
(* Proofs about the state-engine server with one connection at a time: the *)
(* proxy's decisions are those of the whole history, what was answered is  *)
(* kept, and the server implements DurableLog.  They hold for any          *)
(* namespaces, configurations, kinds of event and bounds, and any number   *)
(* of failed checkpoints, kills, power losses and damaged files.  With two *)
(* connections they do not hold (OneHandler).  What the baselines decide   *)
(* about a history is compared at the end, for any connections.            *)
(***************************************************************************)
EXTENDS StateServer, SequenceTheorems, WellFoundedInduction, TLAPS

\* One connection at a time.
OneHandler == \A g, h \in Handlers : g = h

-----------------------------------------------------------------------------
(* The state of one namespace.                                             *)

ProxyState == [revision : Nat, last_sequence : Nat, saw_exec : BOOLEAN, network : Nat]

\* Event j is an untrusted connect of an executed program, not yet cleared
\* after event k.
Evident(past, j, k) ==
    /\ past[j] = "connect"
    /\ \E i \in 1..(j - 1) : past[i] = "exec"
    /\ \A m \in (j + 1)..k : past[m] \notin {"exec", "reset"}

\* What st has seen is what the first k events show.
Sees(past, k, st) ==
    /\ st \in ProxyState /\ st.network <= st.last_sequence
    /\ st.saw_exec <=> \E i \in 1..k : past[i] = "exec"
    /\ st.network # NoEvent <=> \E j \in 1..k : Evident(past, j, k)

\* The state after some number of the events.
Good(past, st) == Sees(past, st.last_sequence, st) /\ st.last_sequence <= Len(past)

\* The state between Admit and Rule: the number is taken, the rule is not.
Half(past, st, s) == Sees(past, s - 1, st) /\ st.last_sequence = s

LEMMA StateFields ==
    ASSUME NEW st \in ProxyState
    PROVE  /\ st.revision \in Nat /\ st.last_sequence \in Nat
           /\ st.saw_exec \in BOOLEAN /\ st.network \in Nat
BY DEF ProxyState

\* The rule brings a state up to the event it is given.
LEMMA RuleSees ==
    ASSUME NEW past, NEW st, NEW s \in Nat \ {0}, Half(past, st, s), past[s] \in Kinds
    PROVE  /\ Sees(past, s, ProxyRule(st, past[s], s))
           /\ ProxyRule(st, past[s], s).last_sequence = s
<1> DEFINE kind == past[s]
           after == ProxyRule(st, kind, s)
<1>1. /\ st \in ProxyState /\ st.last_sequence = s /\ st.network <= s
      /\ st.saw_exec <=> \E i \in 1..(s - 1) : past[i] = "exec"
      /\ st.network # NoEvent <=> \E j \in 1..(s - 1) : Evident(past, j, s - 1)
    BY DEF Half, Sees
<1>2. /\ after.revision = st.revision /\ after.last_sequence = s
      /\ after.saw_exec <=> st.saw_exec \/ kind = "exec"
      /\ after.saw_exec \in BOOLEAN
      /\ kind \in {"exec", "reset"} => after.network = NoEvent
      /\ kind = "connect" /\ st.saw_exec => after.network = s
      /\ kind \notin {"exec", "reset"} /\ ~(kind = "connect" /\ st.saw_exec) =>
            after.network = st.network
      /\ after = [revision |-> after.revision, last_sequence |-> after.last_sequence,
                  saw_exec |-> after.saw_exec, network |-> after.network]
    <2> DEFINE w == st.saw_exec \/ kind = "exec"
               e == CASE kind \in {"exec", "reset"} -> NoEvent
                      [] kind = "connect" /\ st.saw_exec -> s
                      [] OTHER -> st.network
    <2>1. after = [st EXCEPT !.saw_exec = w, !.network = e]
        BY DEF ProxyRule
    <2>2. w \in BOOLEAN
        BY <1>1 DEF ProxyState
    <2>3. /\ kind \in {"exec", "reset"} => e = NoEvent
          /\ kind = "connect" /\ st.saw_exec => e = s
          /\ kind \notin {"exec", "reset"} /\ ~(kind = "connect" /\ st.saw_exec) => e = st.network
        OBVIOUS
    <2> HIDE DEF e, w
    <2>4. /\ after.revision = st.revision /\ after.last_sequence = st.last_sequence
          /\ after.saw_exec = w /\ after.network = e
          /\ after = [revision |-> st.revision, last_sequence |-> st.last_sequence,
                      saw_exec |-> w, network |-> e]
        BY <1>1, <2>1 DEF ProxyState
    <2> QED
        BY <1>1, <2>2, <2>3, <2>4 DEF w
<1> HIDE DEF after
<1>3. after \in ProxyState /\ after.network <= s
    <2>1. after.network \in Nat /\ after.network <= s
        BY <1>1, <1>2, StateFields DEF NoEvent
    <2>2. after.revision \in Nat /\ after.last_sequence \in Nat
        BY <1>1, <1>2, StateFields
    <2> QED
        BY <1>2, <2>1, <2>2, Zenon DEF ProxyState
<1>4. after.saw_exec <=> \E i \in 1..s : past[i] = "exec"
    BY <1>1, <1>2
<1>5. after.network # NoEvent <=> \E j \in 1..s : Evident(past, j, s)
    <2>1. CASE kind \in {"exec", "reset"}
        <3>1. ASSUME NEW j \in 1..s, Evident(past, j, s)
              PROVE  FALSE
            BY <2>1, <3>1 DEF Evident
        <3> QED
            BY <1>2, <2>1, <3>1
    <2>2. CASE kind = "connect" /\ st.saw_exec
        <3>1. Evident(past, s, s)
            BY <1>1, <2>2 DEF Evident
        <3> QED
            BY <1>2, <2>2, <3>1 DEF NoEvent
    <2>3. CASE kind \notin {"exec", "reset"} /\ ~(kind = "connect" /\ st.saw_exec)
        <3>1. ~Evident(past, s, s)
            BY <1>1, <2>3 DEF Evident
        <3>2. \A j \in 1..(s - 1) : Evident(past, j, s) <=> Evident(past, j, s - 1)
            BY <2>3 DEF Evident
        <3> QED
            BY <1>1, <1>2, <2>3, <3>1, <3>2
    <2> QED
        BY <2>1, <2>2, <2>3
<1> QED
    BY <1>2, <1>3, <1>4, <1>5 DEF Sees, after

\* Of a credential access the rule denies exactly the chained one.
LEMMA RuleDenies ==
    ASSUME NEW past, NEW st, NEW s \in Nat \ {0}, Half(past, st, s)
    PROVE  ProxyDenies(ProxyRule(st, past[s], s), past[s]) <=> Chained(past, s)
<1>1. st \in ProxyState
    BY DEF Half, Sees
<1>2. past[s] = "credential" => ProxyRule(st, past[s], s).network = st.network
    BY <1>1 DEF ProxyRule, ProxyState
<1>3. st.network # NoEvent <=> \E j \in 1..(s - 1) : Evident(past, j, s - 1)
    BY DEF Half, Sees
<1> QED
    BY <1>2, <1>3 DEF ProxyDenies, Chained, Evident

\* The next event begins half-way.
LEMMA AdmitHalf ==
    ASSUME NEW past, NEW st, NEW s \in Nat, Good(past, st), ~IsGap(st, s)
    PROVE  Half(past, ProxyAdmit(st, s), s) /\ s = st.last_sequence + 1
<1>1. st \in ProxyState /\ s = st.last_sequence + 1 /\ st.network <= st.last_sequence
    BY DEF Good, Sees, IsGap
<1> DEFINE after == ProxyAdmit(st, s)
<1>2. /\ after = [revision |-> st.revision + 1, last_sequence |-> s,
                  saw_exec |-> st.saw_exec, network |-> st.network]
      /\ after.revision = st.revision + 1 /\ after.last_sequence = s
      /\ after.saw_exec = st.saw_exec /\ after.network = st.network
    <2> DEFINE r == st.revision + 1
    <2>1. after = [st EXCEPT !.last_sequence = s, !.revision = r]
        BY DEF ProxyAdmit
    <2> HIDE DEF r
    <2>2. /\ after.revision = r /\ after.last_sequence = s
          /\ after.saw_exec = st.saw_exec /\ after.network = st.network
          /\ after = [revision |-> r, last_sequence |-> s,
                      saw_exec |-> st.saw_exec, network |-> st.network]
        BY <1>1, <2>1 DEF ProxyState
    <2> QED
        BY <2>2 DEF r
<1>3. after \in ProxyState
    <2>1. st.revision + 1 \in Nat
        BY <1>1, StateFields
    <2> QED
        BY <1>1, <1>2, <2>1, StateFields, Zenon DEF ProxyState
<1> HIDE DEF after
<1>4. s - 1 = st.last_sequence /\ after.network <= after.last_sequence
    BY <1>1, <1>2, StateFields
<1>5. Sees(past, s - 1, after)
    BY <1>2, <1>3, <1>4 DEF Good, Sees
<1> QED
    BY <1>1, <1>2, <1>5 DEF Half, after

\* A namespace that was not seen has a good state.
LEMMA InitGood ==
    ASSUME NEW past, Len(past) \in Nat
    PROVE  Good(past, ProxyInit) /\ ProxyInit.last_sequence = 0
<1>1. ProxyInit \in ProxyState /\ ProxyInit.last_sequence = 0 /\ ProxyInit.network = NoEvent
      /\ ~ProxyInit.saw_exec
    BY DEF ProxyInit, ProxyState, NoEvent
<1> QED
    BY <1>1 DEF Good, Sees, NoEvent

\* A longer history shows the same of its beginning.
LEMMA MoreHistory ==
    ASSUME NEW past, NEW more, NEW st, Good(past, st), Len(past) \in Nat, Len(more) \in Nat,
           Len(past) <= Len(more), \A i \in 1..Len(past) : more[i] = past[i]
    PROVE  Good(more, st)
<1>1. st \in ProxyState /\ st.last_sequence \in Nat /\ st.last_sequence <= Len(past)
    BY DEF Good, Sees, ProxyState
<1>2. \A i \in 1..st.last_sequence : more[i] = past[i]
    BY <1>1
<1>3. \A j \in 1..st.last_sequence :
          Evident(more, j, st.last_sequence) <=> Evident(past, j, st.last_sequence)
    BY <1>1, <1>2 DEF Evident
<1> QED
    BY <1>1, <1>2, <1>3 DEF Good, Sees

LEMMA MoreChained ==
    ASSUME NEW past, NEW more, Len(past) \in Nat, NEW n \in 1..Len(past),
           \A i \in 1..Len(past) : more[i] = past[i]
    PROVE  Chained(more, n) <=> Chained(past, n)
BY DEF Chained

-----------------------------------------------------------------------------
(* The states of all namespaces: in memory, in a copy, in a file.          *)

SoundIn(past, contents) ==
    /\ DOMAIN contents \subseteq Namespaces
    /\ \A n \in DOMAIN contents : Good(past[n], contents[n])

\* Every answered event is in the contents.
Covers(told, contents) == \A a \in told : StateOf(contents, a.ns).last_sequence >= a.seq

InFile(f) == IF f.tag = "snapshot" THEN f.states ELSE Empty

IsFile(past, f) == f = Missing \/ f = Damaged \/ (f.tag = "snapshot" /\ SoundIn(past, f.states))

Histories == [Namespaces -> Seq(Kinds)]

LEMMA HistoryLengths ==
    ASSUME NEW past \in Histories, NEW n \in Namespaces
    PROVE  /\ past[n] \in Seq(Kinds) /\ Len(past[n]) \in Nat
           /\ \A i \in 1..Len(past[n]) : past[n][i] \in Kinds
<1>1. past[n] \in Seq(Kinds)
    BY DEF Histories
<1> QED
    BY <1>1

LEMMA StateOfGood ==
    ASSUME NEW past \in Histories, NEW contents, SoundIn(past, contents), NEW n \in Namespaces
    PROVE  /\ Good(past[n], StateOf(contents, n))
           /\ StateOf(contents, n).last_sequence \in Nat
<1>1. Good(past[n], StateOf(contents, n))
    BY HistoryLengths, InitGood DEF SoundIn, StateOf
<1> QED
    BY <1>1, StateFields DEF Good, Sees

LEMMA EmptySound == \A past : SoundIn(past, Empty) /\ \A n : StateOf(Empty, n) = ProxyInit
BY DEF SoundIn, Empty, StateOf

\* Put changes one namespace.
LEMMA PutStates ==
    ASSUME NEW contents, NEW n, NEW st
    PROVE  /\ DOMAIN Put(contents, n, st) = DOMAIN contents \union {n}
           /\ Put(contents, n, st)[n] = st /\ StateOf(Put(contents, n, st), n) = st
           /\ \A m \in DOMAIN contents : m # n => Put(contents, n, st)[m] = contents[m]
           /\ \A m : m # n => StateOf(Put(contents, n, st), m) = StateOf(contents, m)
BY DEF Put, StateOf

LEMMA PutSound ==
    ASSUME NEW past, NEW contents, SoundIn(past, contents), NEW n \in Namespaces, NEW st,
           Good(past[n], st)
    PROVE  SoundIn(past, Put(contents, n, st))
<1> DEFINE after == Put(contents, n, st)
<1>1. /\ DOMAIN after = DOMAIN contents \union {n} /\ after[n] = st
      /\ \A m \in DOMAIN contents : m # n => after[m] = contents[m]
    BY DEF Put
<1> HIDE DEF after
<1>2. SoundIn(past, after)
    BY <1>1 DEF SoundIn
<1> QED
    BY <1>2 DEF after

\* A history that grows makes nothing unsound.
LEMMA Grows ==
    ASSUME history \in Histories, NEW n \in Namespaces, NEW kind \in Kinds,
           history' = [history EXCEPT ![n] = Append(@, kind)]
    PROVE  /\ history' \in Histories
           /\ \A m \in Namespaces : /\ Len(history[m]) <= Len(history'[m])
                                    /\ \A i \in 1..Len(history[m]) : history'[m][i] = history[m][i]
           /\ Len(history'[n]) = Len(history[n]) + 1
<1>1. history[n] \in Seq(Kinds) /\ history'[n] = Append(history[n], kind)
    BY HistoryLengths DEF Histories
<1>2. /\ Append(history[n], kind) \in Seq(Kinds)
      /\ Len(Append(history[n], kind)) = Len(history[n]) + 1
      /\ Len(history[n]) \in Nat
      /\ \A i \in 1..Len(history[n]) : Append(history[n], kind)[i] = history[n][i]
    BY <1>1
<1>3. \A m \in Namespaces : m # n => history'[m] = history[m]
    BY DEF Histories
<1>4. history' \in Histories
    BY <1>1, <1>2 DEF Histories
<1>5. \A m \in Namespaces : Len(history[m]) \in Nat
    BY HistoryLengths
<1> QED
    BY <1>1, <1>2, <1>3, <1>4, <1>5

\* What is sound stays so.
Longer(past, more) ==
    \A m \in Namespaces : /\ Len(past[m]) <= Len(more[m])
                          /\ \A i \in 1..Len(past[m]) : more[m][i] = past[m][i]

LEMMA SoundLonger ==
    ASSUME NEW past \in Histories, NEW more \in Histories, Longer(past, more),
           NEW contents, SoundIn(past, contents)
    PROVE  SoundIn(more, contents)
<1> SUFFICES ASSUME NEW n \in DOMAIN contents
             PROVE  Good(more[n], contents[n])
    BY DEF SoundIn
<1>1. n \in Namespaces /\ Good(past[n], contents[n])
    BY DEF SoundIn
<1>2. Len(past[n]) \in Nat /\ Len(more[n]) \in Nat
    BY <1>1, HistoryLengths
<1>3. Len(past[n]) <= Len(more[n]) /\ \A i \in 1..Len(past[n]) : more[n][i] = past[n][i]
    BY <1>1 DEF Longer
<1> QED
    BY <1>1, <1>2, <1>3, MoreHistory

-----------------------------------------------------------------------------
(* The invariant.                                                          *)

Working == {"copy", "admit", "rule", "document", "replace", "settle", "reply"}
Decided == {"document", "replace", "settle", "reply"}
Written == {"replace", "settle", "reply"}

\* What a decision says, and what it was told for.
Faithful(past, effect, n, s) ==
    /\ effect \in {"ALLOW", "DENY"}
    /\ engine = "stateful-proxy" => (effect = "DENY" <=> Chained(past[n], s))

AnswersSound ==
    \A a \in answers : /\ a.ns \in Namespaces /\ a.seq \in 1..Len(history[a.ns])
                       /\ Faithful(history, a.effect, a.ns, a.seq)

\* Only the namespace whose rule is still to run is half-way.
MemorySound ==
    /\ DOMAIN states \subseteq Namespaces
    /\ \A n \in DOMAIN states :
          (\A h \in Handlers : handler[h].pc = "rule" => handler[h].ns # n) =>
              Good(history[n], states[n])
    /\ up # Down => Covers(answers, states)

\* What the handler holds: a copy to go back to, a decision, a document that
\* contains its event.
HandlerSound(h) ==
    LET w == handler[h]
    IN  \/ w = Idle
        \/ /\ w.pc \in Working /\ w.ns \in Namespaces /\ w.seq \in 1..Len(history[w.ns])
           /\ "own" \notin DOMAIN w /\ up # Down
           /\ w.pc # "copy" => SoundIn(history, w.previous) /\ Covers(answers, w.previous)
           /\ w.pc \notin {"copy", "admit"} =>
                 /\ w.ns \in DOMAIN states /\ states[w.ns].last_sequence = w.seq
                 /\ engine = "asm-cm" => w.ns \in DOMAIN w.previous
           /\ w.pc = "rule" => Half(history[w.ns], states[w.ns], w.seq)
           /\ w.pc \in Decided => Faithful(history, w.effect, w.ns, w.seq)
           /\ w.pc \in Written =>
                 /\ DOMAIN w = {"pc", "ns", "seq", "previous", "effect", "document"}
                 /\ w.document.tag = "snapshot" /\ SoundIn(history, w.document.states)
                 /\ Covers(answers, w.document.states)
                 /\ StateOf(w.document.states, w.ns).last_sequence >= w.seq
           /\ w.pc \in {"settle", "reply"} => file = w.document
           /\ w.pc = "reply" => Settled = w.document

\* A file that can be read has what was answered, and so has the settled one.
DiskSound ==
    /\ \A f \in {file, digest, stable} : IsFile(history, f)
    /\ digest # Damaged /\ stable # Damaged
    /\ file = Damaged => up = Down
    /\ file # Damaged => Covers(answers, InFile(file))
    /\ Covers(answers, InFile(Settled))

Typed ==
    /\ engine \in {"stateful-proxy", "asm-cm"} /\ up \in Configs \union {Down}
    /\ history \in Histories /\ DOMAIN handler = Handlers
    /\ sends \in 0..MaxSends /\ faults \in 0..MaxFaults

ServerInv ==
    /\ Typed /\ AnswersSound /\ MemorySound /\ DiskSound
    /\ \A h \in Handlers : HandlerSound(h)

LEMMA ServerInit == Init => ServerInv
<1> SUFFICES ASSUME Init
             PROVE  ServerInv
    OBVIOUS
<1>1. Typed
    BY ServerAssumption DEF Init, Typed, Histories
<1>2. AnswersSound /\ \A h \in Handlers : HandlerSound(h)
    BY DEF Init, AnswersSound, HandlerSound
<1>3. MemorySound
    BY DEF Init, MemorySound, Empty, Covers
<1>4. DiskSound
    BY DEF Init, DiskSound, IsFile, Missing, Damaged, Covers, Settled, InFile
<1> QED
    BY <1>1, <1>2, <1>3, <1>4 DEF ServerInv

\* The only handler, when it is idle: all the memory is good.
LEMMA IdleMemory ==
    ASSUME OneHandler, ServerInv, NEW h \in Handlers, handler[h].pc # "rule"
    PROVE  SoundIn(history, states)
BY DEF OneHandler, ServerInv, MemorySound, SoundIn

LEMMA RequestPreserves ==
    ASSUME OneHandler, ServerInv, NEW h \in Handlers, NEW n \in Namespaces, Request(h, n)
    PROVE  ServerInv'
<1> USE DEF ServerInv
<1>1. /\ UNCHANGED <<engine, up, states, disk, answers, faults>>
      /\ handler[h] = Idle /\ up # Down /\ sends' = sends + 1 /\ sends < MaxSends
    BY DEF Request
<1>2. PICK s : /\ Send(h, n, s) /\ s \in 1..Len(history'[n])
               /\ history' \in Histories /\ Longer(history, history')
    <2>1. ASSUME NEW kind \in SentKinds, history' = [history EXCEPT ![n] = Append(@, kind)],
                 Send(h, n, Len(history[n]) + 1)
          PROVE  \E s : /\ Send(h, n, s) /\ s \in 1..Len(history'[n])
                        /\ history' \in Histories /\ Longer(history, history')
        <3>1. kind \in Kinds /\ history \in Histories
            BY ServerAssumption DEF Typed
        <3>2. /\ history' \in Histories /\ Longer(history, history')
              /\ Len(history'[n]) = Len(history[n]) + 1
            BY <2>1, <3>1, Grows DEF Longer
        <3>3. Len(history[n]) + 1 \in 1..Len(history'[n])
            BY <3>1, <3>2, HistoryLengths
        <3> QED
            BY <2>1, <3>2, <3>3
    <2>2. ASSUME NEW s \in 1..Len(history[n]), Send(h, n, s), UNCHANGED history
          PROVE  /\ s \in 1..Len(history'[n])
                 /\ history' \in Histories /\ Longer(history, history')
        BY <2>2, HistoryLengths DEF Typed, Longer
    <2> QED
        BY <2>1, <2>2 DEF Request
<1>3. /\ handler'[h] = [pc |-> "copy", ns |-> n, seq |-> s]
      /\ DOMAIN handler' = Handlers
    BY <1>2 DEF Send, Typed
<1>4. Typed'
    BY <1>1, <1>2, <1>3, ServerAssumption DEF Typed
<1>5. \A contents : SoundIn(history, contents) => SoundIn(history', contents)
    BY <1>2, SoundLonger DEF Typed
<1>6. AnswersSound'
    <2> SUFFICES ASSUME NEW a \in answers
                 PROVE  /\ a.ns \in Namespaces /\ a.seq \in 1..Len(history'[a.ns])
                        /\ Faithful(history, a.effect, a.ns, a.seq)'
        BY <1>1 DEF AnswersSound
    <2>1. /\ a.ns \in Namespaces /\ a.seq \in 1..Len(history[a.ns])
          /\ Faithful(history, a.effect, a.ns, a.seq)
        BY DEF AnswersSound
    <2>2. /\ Len(history[a.ns]) \in Nat /\ Len(history'[a.ns]) \in Nat
          /\ Len(history[a.ns]) <= Len(history'[a.ns])
          /\ \A i \in 1..Len(history[a.ns]) : history'[a.ns][i] = history[a.ns][i]
        BY <1>2, <2>1, HistoryLengths DEF Longer, Typed
    <2>3. Chained(history'[a.ns], a.seq) <=> Chained(history[a.ns], a.seq)
        BY <2>1, <2>2, MoreChained
    <2> QED
        BY <1>1, <2>1, <2>2, <2>3 DEF Faithful
<1>7. MemorySound'
    <2>1. SoundIn(history', states)
        BY <1>1, <1>5, IdleMemory DEF Idle
    <2> QED
        BY <1>1, <2>1 DEF MemorySound, SoundIn
<1>8. DiskSound'
    BY <1>1, <1>5 DEF DiskSound, IsFile, disk, Settled
<1>9. \A g \in Handlers : HandlerSound(g)'
    BY <1>1, <1>2, <1>3 DEF OneHandler, HandlerSound, Working, Decided, Written
<1> QED
    BY <1>4, <1>6, <1>7, <1>8, <1>9

LEMMA CopyPreserves ==
    ASSUME OneHandler, ServerInv, NEW h \in Handlers, Copy(h)
    PROVE  ServerInv'
<1> USE DEF ServerInv
<1>1. /\ UNCHANGED <<engine, up, states, disk, history, answers, sends, faults>>
      /\ handler[h].pc = "copy" /\ DOMAIN handler' = Handlers
      /\ handler'[h] = [pc |-> "admit", ns |-> handler[h].ns, seq |-> handler[h].seq,
                        previous |-> states]
    BY DEF Copy, Typed
<1>2. SoundIn(history, states)
    BY <1>1, IdleMemory
<1>3. HandlerSound(h)'
    BY <1>1, <1>2 DEF HandlerSound, MemorySound, Idle, Working, Decided, Written
<1>4. MemorySound'
    BY <1>1, <1>2 DEF MemorySound, SoundIn
<1>5. Typed' /\ AnswersSound' /\ DiskSound'
    BY <1>1 DEF Typed, AnswersSound, Faithful, DiskSound, disk, IsFile, Settled
<1> QED
    BY <1>3, <1>4, <1>5 DEF OneHandler

\* What a step of the only handler needs to say of a handler.
LEMMA TheHandler ==
    ASSUME OneHandler, ServerInv, NEW h \in Handlers, handler[h].pc \in Working
    PROVE  /\ handler[h] # Idle /\ up # Down /\ handler[h].ns \in Namespaces
           /\ handler[h].seq \in 1..Len(history[handler[h].ns])
           /\ history[handler[h].ns] \in Seq(Kinds)
           /\ handler[h].seq \in Nat \ {0}
           /\ history[handler[h].ns][handler[h].seq] \in Kinds
           /\ "own" \notin DOMAIN handler[h]
           /\ Covers(answers, states)
<1>1. handler[h] # Idle
    BY DEF Idle, Working
<1>2. /\ up # Down /\ handler[h].ns \in Namespaces
      /\ handler[h].seq \in 1..Len(history[handler[h].ns])
      /\ "own" \notin DOMAIN handler[h]
    BY <1>1 DEF ServerInv, HandlerSound
<1>3. history \in Histories /\ Covers(answers, states)
    BY <1>2 DEF ServerInv, Typed, MemorySound
<1> QED
    BY <1>1, <1>2, <1>3, HistoryLengths

\* Only the number grows when an event is admitted.
LEMMA PutCovers ==
    ASSUME NEW told, NEW contents, Covers(told, contents), NEW n, NEW st,
           st.last_sequence \in Nat, StateOf(contents, n).last_sequence \in Nat,
           StateOf(contents, n).last_sequence <= st.last_sequence,
           \A a \in told : a.seq \in Nat
    PROVE  Covers(told, Put(contents, n, st))
<1> DEFINE after == Put(contents, n, st)
<1>1. /\ StateOf(after, n) = st
      /\ \A m : m # n => StateOf(after, m) = StateOf(contents, m)
    BY DEF Put, StateOf
<1> HIDE DEF after
<1>2. Covers(told, after)
    <2> SUFFICES ASSUME NEW a \in told
                 PROVE  StateOf(after, a.ns).last_sequence >= a.seq
        BY DEF Covers
    <2>1. StateOf(contents, a.ns).last_sequence >= a.seq /\ a.seq \in Nat
        BY DEF Covers
    <2>2. CASE a.ns = n
        BY <1>1, <2>1, <2>2
    <2>3. CASE a.ns # n
        BY <1>1, <2>1, <2>3
    <2> QED
        BY <2>2, <2>3
<1> QED
    BY <1>2 DEF after

LEMMA AnswerNumbers == ServerInv => \A a \in answers : a.seq \in Nat
BY HistoryLengths DEF ServerInv, AnswersSound, Typed

LEMMA AdmitPreserves ==
    ASSUME OneHandler, ServerInv, NEW h \in Handlers, Admit(h)
    PROVE  ServerInv'
<1> USE DEF ServerInv
<1> DEFINE n == handler[h].ns
           s == handler[h].seq
           st == StateOf(states, n)
           now == ProxyAdmit(st, s)
<1>1. /\ UNCHANGED <<engine, up, disk, history, answers, sends, faults>>
      /\ handler[h].pc = "admit" /\ handler[h] # Idle /\ DOMAIN handler' = Handlers
    BY DEF Admit, Idle, Typed
<1>2. /\ up # Down /\ n \in Namespaces /\ s \in Nat \ {0} /\ s \in 1..Len(history[n])
      /\ Covers(answers, states)
    BY <1>1, TheHandler DEF Working
<1>3. SoundIn(history, states) /\ history \in Histories
    BY <1>1, IdleMemory DEF Typed
<1>4. Good(history[n], st) /\ st.last_sequence \in Nat
    BY <1>2, <1>3, StateOfGood
<1>5. SoundIn(history, Put(states, n, st)) /\ Covers(answers, Put(states, n, st))
    BY <1>2, <1>3, <1>4, PutSound, PutCovers, AnswerNumbers
<1>6. Typed' /\ AnswersSound' /\ DiskSound'
    BY <1>1 DEF Typed, AnswersSound, Faithful, DiskSound, disk, IsFile, Settled
<1>7. CASE IsGap(st, s) /\ states' = Put(states, n, st) /\ handler'[h] = Idle
    <2>1. MemorySound'
        BY <1>1, <1>5, <1>7 DEF MemorySound, SoundIn
    <2> QED
        BY <1>6, <1>7, <2>1 DEF OneHandler, HandlerSound
<1>8. CASE /\ ~IsGap(st, s) /\ states' = Put(states, n, now)
           /\ handler'[h] = [pc |-> "rule", ns |-> n, seq |-> s,
                    previous |-> IF engine = "asm-cm" THEN Put(states, n, st)
                                 ELSE handler[h].previous]
    <2>1. Half(history[n], now, s) /\ s = st.last_sequence + 1 /\ now.last_sequence = s
        <3>1. Half(history[n], now, s) /\ s = st.last_sequence + 1
            BY <1>2, <1>4, <1>8, AdmitHalf
        <3> QED
            BY <3>1 DEF Half
    <2>2. Covers(answers, states')
        BY <1>2, <1>4, <1>8, <2>1, PutCovers, AnswerNumbers
    <2>3. /\ DOMAIN states' = DOMAIN states \union {n} /\ states'[n] = now
          /\ \A m \in DOMAIN states : m # n => states'[m] = states[m]
        BY <1>8 DEF Put
    <2>4. /\ SoundIn(history, handler[h].previous) /\ Covers(answers, handler[h].previous)
          /\ "own" \notin DOMAIN handler[h]
        BY <1>1 DEF HandlerSound
    <2> DEFINE kept == IF engine = "asm-cm" THEN Put(states, n, st) ELSE handler[h].previous
    <2>5. /\ SoundIn(history, kept) /\ Covers(answers, kept)
          /\ engine = "asm-cm" => n \in DOMAIN kept
        BY <1>5, <2>4 DEF Put
    <2> HIDE DEF kept
    <2>6. /\ handler'[h].pc = "rule" /\ handler'[h].ns = n /\ handler'[h].seq = s
          /\ handler'[h].previous = kept
          /\ "own" \notin DOMAIN handler'[h]
        BY <1>8, <2>4 DEF kept
    <2>7. MemorySound'
        BY <1>1, <1>2, <1>3, <2>2, <2>3, <2>6 DEF MemorySound, SoundIn
    <2>8. HandlerSound(h)'
        BY <1>1, <1>2, <2>1, <2>3, <2>5, <2>6
        DEF HandlerSound, Working, Decided, Written
    <2> QED
        BY <1>6, <2>7, <2>8 DEF OneHandler
<1> QED
    BY <1>7, <1>8 DEF Admit, Typed

LEMMA RulePreserves ==
    ASSUME OneHandler, ServerInv, NEW h \in Handlers, Rule(h)
    PROVE  ServerInv'
<1> USE DEF ServerInv
<1> DEFINE n == handler[h].ns
           s == handler[h].seq
           kind == history[n][s]
           st == states[n]
           after == ProxyRule(st, kind, s)
<1>1. /\ UNCHANGED <<engine, up, disk, history, answers, sends, faults>>
      /\ handler[h].pc = "rule" /\ DOMAIN handler' = Handlers
    BY DEF Rule, Typed
<1>2. /\ handler[h] # Idle /\ up # Down /\ n \in Namespaces /\ s \in 1..Len(history[n])
      /\ s \in Nat \ {0} /\ kind \in Kinds /\ "own" \notin DOMAIN handler[h]
      /\ Covers(answers, states)
    BY <1>1, TheHandler DEF Working
<1>3. /\ n \in DOMAIN states /\ Half(history[n], st, s) /\ st.last_sequence = s
      /\ SoundIn(history, handler[h].previous) /\ Covers(answers, handler[h].previous)
      /\ engine = "asm-cm" => n \in DOMAIN handler[h].previous
    BY <1>1, <1>2 DEF HandlerSound
<1>4. /\ Sees(history[n], s, after) /\ after.last_sequence = s
      /\ ProxyDenies(after, kind) <=> Chained(history[n], s)
    BY <1>2, <1>3, RuleSees, RuleDenies
<1>5. Good(history[n], after)
    <2>1. Len(history[n]) \in Nat /\ s <= Len(history[n])
        BY <1>2, HistoryLengths DEF Typed
    <2> QED
        BY <1>4, <2>1 DEF Good
<1>6. Object(h) = st
    BY <1>2, <1>3 DEF Object, StateOf
<1>7. PICK deny \in (IF engine = "asm-cm" THEN {FALSE, kind = "credential"}
                     ELSE {ProxyDenies(after, kind)}) :
          handler' = [handler EXCEPT ![h] =
              [pc |-> "document", ns |-> n, seq |-> s, previous |-> @.previous,
               effect |-> IF deny THEN "DENY" ELSE "ALLOW"]]
    BY <1>6 DEF Rule
<1>8. states' = Put(states, n, after)
    BY <1>2, <1>6 DEF Rule
<1> HIDE DEF after
<1>9. /\ DOMAIN states' = DOMAIN states /\ states'[n] = after
      /\ \A m \in DOMAIN states : m # n => states'[m] = states[m]
    BY <1>3, <1>8 DEF Put
<1>10. Covers(answers, states')
    <2>1. StateOf(states, n) = st
        BY <1>3 DEF StateOf
    <2> QED
        BY <1>2, <1>3, <1>4, <1>8, <2>1, PutCovers, AnswerNumbers
<1>11. MemorySound'
    BY <1>1, <1>2, <1>5, <1>9, <1>10 DEF MemorySound, OneHandler
<1>12. /\ handler'[h].pc = "document" /\ handler'[h].ns = n /\ handler'[h].seq = s
       /\ handler'[h].previous = handler[h].previous
       /\ handler'[h].effect = IF deny THEN "DENY" ELSE "ALLOW"
       /\ "own" \notin DOMAIN handler'[h]
    BY <1>7 DEF Typed
<1>13. Faithful(history, handler'[h].effect, n, s)
    <2>1. engine = "stateful-proxy" => (deny <=> ProxyDenies(after, kind))
        BY <1>7
    <2> QED
        BY <1>4, <1>12, <2>1 DEF Faithful
<1>14. HandlerSound(h)'
    BY <1>1, <1>2, <1>3, <1>4, <1>9, <1>12, <1>13
    DEF HandlerSound, Faithful, Working, Decided, Written
<1>15. Typed' /\ AnswersSound' /\ DiskSound'
    BY <1>1 DEF Typed, AnswersSound, Faithful, DiskSound, disk, IsFile, Settled
<1> QED
    BY <1>11, <1>14, <1>15 DEF OneHandler

LEMMA DocumentPreserves ==
    ASSUME OneHandler, ServerInv, NEW h \in Handlers, Document(h)
    PROVE  ServerInv'
<1> USE DEF ServerInv
<1>1. /\ UNCHANGED <<engine, up, states, disk, history, answers, sends, faults>>
      /\ handler[h].pc = "document" /\ DOMAIN handler' = Handlers
      /\ handler'[h] = [pc |-> "replace", ns |-> handler[h].ns, seq |-> handler[h].seq,
                        previous |-> handler[h].previous, effect |-> handler[h].effect,
                        document |-> Snapshot(up, states)]
    BY DEF Document, Typed
<1>2. SoundIn(history, states)
    BY <1>1, IdleMemory
<1>3. handler[h] # Idle /\ Covers(answers, states) /\ handler[h].seq \in Nat
    BY <1>1, TheHandler DEF Working
<1>4. /\ Snapshot(up, states).tag = "snapshot" /\ Snapshot(up, states).states = states
      /\ StateOf(states, handler[h].ns).last_sequence = handler[h].seq
    BY <1>1, <1>3 DEF Snapshot, HandlerSound, StateOf
<1>5. Faithful(history, handler[h].effect, handler[h].ns, handler[h].seq)'
    BY <1>1, <1>3 DEF HandlerSound, Faithful, Decided
<1>6. HandlerSound(h)'
    BY <1>1, <1>2, <1>3, <1>4, <1>5 DEF HandlerSound, Working, Decided, Written
<1>7. MemorySound'
    BY <1>1, <1>2 DEF MemorySound, SoundIn
<1>8. Typed' /\ AnswersSound' /\ DiskSound'
    BY <1>1 DEF Typed, AnswersSound, Faithful, DiskSound, disk, IsFile, Settled
<1> QED
    BY <1>6, <1>7, <1>8 DEF OneHandler

\* The handler that has written its document.
LEMMA WrittenHandler ==
    ASSUME OneHandler, ServerInv, NEW h \in Handlers, handler[h].pc \in Written
    PROVE  /\ handler[h] # Idle /\ up # Down /\ SoundIn(history, states)
           /\ DOMAIN handler[h] = {"pc", "ns", "seq", "previous", "effect", "document"}
           /\ handler[h].document.tag = "snapshot"
           /\ InFile(handler[h].document) = handler[h].document.states
           /\ IsFile(history, handler[h].document)
           /\ handler[h].document # Missing /\ handler[h].document # Damaged
           /\ SoundIn(history, handler[h].document.states)
           /\ Covers(answers, handler[h].document.states)
           /\ StateOf(handler[h].document.states, handler[h].ns).last_sequence >= handler[h].seq
<1>1. handler[h].pc # "rule" /\ handler[h].pc \in Working
    BY DEF Written, Working
<1>2. handler[h] # Idle /\ up # Down
    BY <1>1, TheHandler
<1>3. HandlerSound(h)
    BY DEF ServerInv
<1> QED
    BY <1>1, <1>2, <1>3, IdleMemory DEF HandlerSound, InFile, IsFile, Missing, Damaged

LEMMA ReplacePreserves ==
    ASSUME OneHandler, ServerInv, NEW h \in Handlers, Replace(h)
    PROVE  ServerInv'
<1> USE DEF ServerInv
<1>1. /\ UNCHANGED <<engine, up, states, digest, stable, history, answers, sends, faults>>
      /\ handler[h].pc = "replace" /\ DOMAIN handler' = Handlers
      /\ file' = handler[h].document
      /\ handler'[h] = [handler[h] EXCEPT !.pc = "settle"]
    BY DEF Replace, Goto, Typed
<1> DEFINE w == handler[h]
<1>2. /\ w # Idle /\ up # Down /\ SoundIn(history, states)
      /\ DOMAIN w = {"pc", "ns", "seq", "previous", "effect", "document"}
      /\ w.document.tag = "snapshot" /\ InFile(w.document) = w.document.states
      /\ IsFile(history, w.document) /\ w.document # Missing /\ w.document # Damaged
      /\ Covers(answers, w.document.states)
    BY <1>1, WrittenHandler DEF Written
<1>3. /\ handler'[h].pc = "settle" /\ handler'[h].ns = w.ns /\ handler'[h].seq = w.seq
      /\ handler'[h].previous = w.previous /\ handler'[h].effect = w.effect
      /\ handler'[h].document = w.document /\ DOMAIN handler'[h] = DOMAIN w
    BY <1>1, <1>2
<1>4. Settled' = Settled
    BY <1>1 DEF Settled
<1>5. HandlerSound(h)'
    BY <1>1, <1>2, <1>3 DEF HandlerSound, Faithful, Working, Decided, Written
<1>6. DiskSound'
    BY <1>1, <1>2, <1>4 DEF DiskSound, IsFile
<1>7. MemorySound'
    BY <1>1, <1>2 DEF MemorySound, SoundIn
<1>8. Typed' /\ AnswersSound'
    BY <1>1 DEF Typed, AnswersSound, Faithful
<1> QED
    BY <1>5, <1>6, <1>7, <1>8 DEF OneHandler

LEMMA SettlePreserves ==
    ASSUME OneHandler, ServerInv, NEW h \in Handlers, Settle(h)
    PROVE  ServerInv'
<1> USE DEF ServerInv
<1> DEFINE w == handler[h]
<1>1. /\ UNCHANGED <<engine, up, states, file, history, answers, sends, faults>>
      /\ w.pc = "settle" /\ DOMAIN handler' = Handlers
      /\ handler'[h] = [w EXCEPT !.pc = "reply"]
    BY DEF Settle, Goto, Typed
<1>2. /\ w # Idle /\ up # Down /\ SoundIn(history, states)
      /\ DOMAIN w = {"pc", "ns", "seq", "previous", "effect", "document"}
      /\ w.document.tag = "snapshot" /\ InFile(w.document) = w.document.states
      /\ IsFile(history, w.document) /\ w.document # Missing /\ w.document # Damaged
      /\ Covers(answers, w.document.states)
    BY <1>1, WrittenHandler DEF Written
<1>3. /\ handler'[h].pc = "reply" /\ handler'[h].ns = w.ns /\ handler'[h].seq = w.seq
      /\ handler'[h].previous = w.previous /\ handler'[h].effect = w.effect
      /\ handler'[h].document = w.document /\ DOMAIN handler'[h] = DOMAIN w
    BY <1>1, <1>2
<1>4. file = w.document
    BY <1>1, <1>2 DEF HandlerSound
<1>5. /\ Settled' = w.document
      /\ digest' \in {digest, w.document} /\ stable' \in {stable, w.document}
    BY <1>1, <1>4 DEF Settle, Settled, Typed
<1>6. HandlerSound(h)'
    BY <1>1, <1>2, <1>3, <1>4, <1>5 DEF HandlerSound, Faithful, Working, Decided, Written
<1>7. DiskSound'
    BY <1>1, <1>2, <1>5 DEF DiskSound, IsFile
<1>8. MemorySound'
    BY <1>1, <1>2 DEF MemorySound, SoundIn
<1>9. Typed' /\ AnswersSound'
    BY <1>1 DEF Typed, AnswersSound, Faithful
<1> QED
    BY <1>6, <1>7, <1>8, <1>9 DEF OneHandler

\* An answer is covered by the memory, the file and the settled snapshot.
LEMMA ReplyPreserves ==
    ASSUME OneHandler, ServerInv, NEW h \in Handlers, Reply(h)
    PROVE  ServerInv'
<1> USE DEF ServerInv
<1> DEFINE w == handler[h]
           told == [ns |-> w.ns, seq |-> w.seq, effect |-> w.effect]
<1>1. /\ UNCHANGED <<engine, up, states, disk, history, sends, faults>>
      /\ w.pc = "reply" /\ DOMAIN handler' = Handlers /\ handler'[h] = Idle
      /\ answers' = answers \union {told}
    BY DEF Reply, Typed
<1>2. /\ w # Idle /\ up # Down /\ SoundIn(history, states)
      /\ InFile(w.document) = w.document.states
      /\ Covers(answers, w.document.states)
      /\ StateOf(w.document.states, w.ns).last_sequence >= w.seq
    BY <1>1, WrittenHandler DEF Written
<1>3. /\ w.ns \in Namespaces /\ w.seq \in 1..Len(history[w.ns]) /\ w.seq \in Nat
      /\ Faithful(history, w.effect, w.ns, w.seq)
      /\ w.ns \in DOMAIN states /\ states[w.ns].last_sequence = w.seq
      /\ file = w.document /\ Settled = w.document
      /\ Covers(answers, states)
    BY <1>1, <1>2, TheHandler DEF HandlerSound, Working, Decided
<1>4. told.ns = w.ns /\ told.seq = w.seq /\ told.effect = w.effect
    OBVIOUS
<1> HIDE DEF told
<1>5. AnswersSound'
    BY <1>1, <1>3, <1>4 DEF AnswersSound, Faithful
<1>6. Covers(answers', states) /\ Covers(answers', w.document.states)
    BY <1>1, <1>2, <1>3, <1>4 DEF Covers, StateOf
<1>7. Settled' = Settled
    BY <1>1 DEF Settled, disk
<1>8. DiskSound'
    BY <1>1, <1>2, <1>3, <1>6, <1>7 DEF DiskSound, IsFile, disk
<1>9. MemorySound'
    BY <1>1, <1>2, <1>6 DEF MemorySound, SoundIn
<1>10. HandlerSound(h)' /\ Typed'
    BY <1>1 DEF HandlerSound, Typed
<1> QED
    BY <1>5, <1>8, <1>9, <1>10 DEF OneHandler

\* The copy that is put back has everything that was answered.
LEMMA CheckpointFailsPreserves ==
    ASSUME OneHandler, ServerInv, NEW h \in Handlers, CheckpointFails(h)
    PROVE  ServerInv'
<1> USE DEF ServerInv
<1> DEFINE w == handler[h]
<1>1. /\ UNCHANGED <<engine, up, disk, history, answers, sends>>
      /\ w.pc \in {"document", "replace", "settle"} /\ DOMAIN handler' = Handlers
      /\ handler'[h] = Idle /\ faults' = faults + 1 /\ faults < MaxFaults
    BY DEF CheckpointFails, Typed
<1>2. w # Idle /\ up # Down /\ w.ns \in Namespaces /\ SoundIn(history, states)
      /\ Covers(answers, states)
    BY <1>1, TheHandler, IdleMemory DEF Working
<1>3. /\ SoundIn(history, w.previous) /\ Covers(answers, w.previous)
      /\ engine = "asm-cm" => w.ns \in DOMAIN w.previous
    BY <1>1, <1>2 DEF HandlerSound
<1>4. SoundIn(history, states') /\ Covers(answers, states')
    <2>1. CASE engine = "stateful-proxy"
        BY <1>3, <2>1 DEF CheckpointFails
    <2>2. CASE engine = "asm-cm"
        <3> DEFINE st == w.previous[w.ns]
        <3>1. states' = Put(states, w.ns, st)
            BY <2>2 DEF CheckpointFails
        <3>2. Good(history[w.ns], st) /\ st = StateOf(w.previous, w.ns)
            BY <1>3, <2>2 DEF SoundIn, StateOf
        <3>3. SoundIn(history, states')
            BY <1>2, <3>1, <3>2, PutSound
        <3>4. \A m : StateOf(states', m) \in {StateOf(states, m), StateOf(w.previous, m)}
            BY <3>1, <3>2 DEF Put, StateOf
        <3> QED
            BY <1>2, <1>3, <3>3, <3>4 DEF Covers
    <2> QED
        BY <2>1, <2>2 DEF Typed
<1>5. MemorySound'
    BY <1>1, <1>4 DEF MemorySound, SoundIn
<1>6. HandlerSound(h)'
    BY <1>1 DEF HandlerSound
<1>7. Typed' /\ AnswersSound' /\ DiskSound'
    BY <1>1, ServerAssumption
    DEF Typed, AnswersSound, Faithful, DiskSound, disk, IsFile, Settled
<1> QED
    BY <1>5, <1>6, <1>7 DEF OneHandler

\* The process ends, and the files are one or the other.
LEMMA StopPreserves ==
    ASSUME ServerInv, Stop, file' \in {file, stable}, stable' \in {stable, file'},
           digest' = digest, engine = "asm-cm" => UNCHANGED disk
    PROVE  ServerInv'
<1> USE DEF ServerInv
<1>1. /\ up # Down /\ up' = Down /\ states' = Empty /\ DOMAIN handler' = Handlers
      /\ \A h \in Handlers : handler'[h] = Idle
      /\ UNCHANGED <<engine, history, answers, sends>>
      /\ faults' = faults + 1 /\ faults < MaxFaults
    BY DEF Stop, Typed
<1>2. Typed' /\ AnswersSound'
    BY <1>1, ServerAssumption DEF Typed, AnswersSound, Faithful
<1>3. MemorySound' /\ \A h \in Handlers : HandlerSound(h)'
    BY <1>1 DEF MemorySound, Empty, HandlerSound
<1>4. file # Damaged /\ stable # Damaged
    BY <1>1 DEF DiskSound
<1>5. /\ Covers(answers, InFile(file)) /\ Covers(answers, InFile(Settled))
      /\ engine = "stateful-proxy" => Covers(answers, InFile(stable))
    BY <1>4 DEF DiskSound, Settled, Typed
<1>6. /\ \A f \in {file, digest, stable}' : IsFile(history, f)
      /\ digest' # Damaged /\ stable' # Damaged /\ file' # Damaged
    BY <1>4 DEF DiskSound
<1>7. Covers(answers, InFile(file')) /\ Covers(answers, InFile(Settled'))
    <2>1. CASE engine = "stateful-proxy"
        BY <1>1, <1>5, <2>1 DEF Settled
    <2>2. CASE engine = "asm-cm"
        BY <1>1, <1>5, <2>2 DEF Settled, disk
    <2> QED
        BY <2>1, <2>2 DEF Typed
<1>8. DiskSound'
    BY <1>1, <1>6, <1>7 DEF DiskSound, IsFile
<1> QED
    BY <1>2, <1>3, <1>8

LEMMA DamagePreserves ==
    ASSUME ServerInv, Damage
    PROVE  ServerInv'
<1> USE DEF ServerInv
<1>1. /\ UNCHANGED <<engine, up, states, handler, digest, stable, history, answers, sends>>
      /\ up = Down /\ file' = Damaged /\ faults' = faults + 1 /\ faults < MaxFaults
    BY DEF Damage
<1>2. \A h \in Handlers : handler[h] = Idle
    BY <1>1 DEF HandlerSound
<1>3. MemorySound' /\ \A h \in Handlers : HandlerSound(h)'
    BY <1>1, <1>2 DEF MemorySound, HandlerSound
<1>4. Typed' /\ AnswersSound'
    BY <1>1, ServerAssumption DEF Typed, AnswersSound, Faithful
<1>5. Settled' = Settled
    BY <1>1 DEF Settled
<1>6. DiskSound'
    BY <1>1, <1>5 DEF DiskSound, IsFile
<1> QED
    BY <1>3, <1>4, <1>6

LEMMA StartPreserves ==
    ASSUME ServerInv, NEW config \in Configs, Start(config)
    PROVE  ServerInv'
<1> USE DEF ServerInv
<1>1. /\ UNCHANGED <<engine, handler, disk, history, answers, sends, faults>>
      /\ up = Down /\ up' = config /\ states' = Restored
      /\ file = Missing \/ file.tag = "snapshot"
    BY DEF Start, Restorable
<1>2. \A h \in Handlers : handler[h] = Idle
    BY <1>1 DEF HandlerSound
<1>3. file # Damaged /\ Restored = InFile(file)
    BY <1>1 DEF Damaged, Missing, Restored, InFile
<1>4. SoundIn(history, Restored) /\ Covers(answers, Restored)
    BY <1>1, <1>3, EmptySound DEF DiskSound, IsFile, InFile, Missing
<1>5. MemorySound'
    BY <1>1, <1>4 DEF MemorySound, SoundIn
<1>6. \A h \in Handlers : HandlerSound(h)'
    BY <1>1, <1>2 DEF HandlerSound
<1>7. Typed' /\ AnswersSound' /\ DiskSound'
    BY <1>1, <1>3 DEF Typed, AnswersSound, Faithful, DiskSound, disk, IsFile, Settled
<1> QED
    BY <1>5, <1>6, <1>7

LEMMA ServerInductive ==
    ASSUME OneHandler
    PROVE  ServerInv /\ [Next]_vars => ServerInv'
<1> SUFFICES ASSUME ServerInv, [Next]_vars
             PROVE  ServerInv'
    OBVIOUS
<1>1. ASSUME NEW h \in Handlers, Serve(h)
      PROVE  ServerInv'
    BY <1>1, RequestPreserves, CopyPreserves, AdmitPreserves, RulePreserves, DocumentPreserves,
       ReplacePreserves, SettlePreserves, ReplyPreserves, CheckpointFailsPreserves DEF Serve
<1>2. ASSUME NEW config \in Configs, Start(config)
      PROVE  ServerInv'
    BY <1>2, StartPreserves
<1>3. CASE Kill
    BY <1>3, StopPreserves DEF Kill, disk
<1>4. CASE PowerLoss
    BY <1>4, StopPreserves DEF PowerLoss
<1>5. CASE Damage
    BY <1>5, DamagePreserves
<1>6. CASE UNCHANGED vars
    BY <1>6 DEF vars, disk, ServerInv, Typed, AnswersSound, Faithful, MemorySound, DiskSound,
                IsFile, Settled, HandlerSound
<1> QED
    BY <1>1, <1>2, <1>3, <1>4, <1>5, <1>6 DEF Next

-----------------------------------------------------------------------------

\* With one connection, every reachable state satisfies the invariant.
THEOREM ServerSound == OneHandler /\ Spec => []ServerInv
<1> SUFFICES ASSUME OneHandler
             PROVE  Spec => []ServerInv
    OBVIOUS
<1> QED
    BY ServerInit, ServerInductive, PTL DEF Spec

\* Every decision the stateful proxy hands out over one connection is that of
\* the whole history of its namespace, whatever fails, is killed, loses power
\* or is damaged (persistent_engine.py).
THEOREM ServerDecisionFaithful == OneHandler /\ Spec => []DecisionFaithful
<1>1. ServerInv => DecisionFaithful
    BY DEF ServerInv, AnswersSound, Faithful, DecisionFaithful
<1> QED
    BY <1>1, ServerSound, PTL

LEMMA InvTypeOK == ServerInv => TypeOK
<1> SUFFICES ASSUME ServerInv
             PROVE  TypeOK
    OBVIOUS
<1> USE DEF ServerInv
<1>1. ASSUME NEW n \in DOMAIN states
      PROVE  {states[n].last_sequence, states[n].network} \subseteq 0..Len(history[n])
    <2>1. n \in Namespaces /\ Len(history[n]) \in Nat
        BY HistoryLengths DEF MemorySound, Typed
    <2>2. /\ states[n] \in ProxyState /\ states[n].network <= states[n].last_sequence
          /\ states[n].last_sequence <= Len(history[n])
        <3>1. CASE \A h \in Handlers : handler[h].pc = "rule" => handler[h].ns # n
            BY <3>1 DEF MemorySound, Good, Sees
        <3>2. CASE \E h \in Handlers : handler[h].pc = "rule" /\ handler[h].ns = n
            <4>1. PICK h \in Handlers : handler[h].pc = "rule" /\ handler[h].ns = n
                BY <3>2
            <4>2. /\ Half(history[n], states[n], handler[h].seq)
                  /\ handler[h].seq \in 1..Len(history[n])
                BY <4>1 DEF HandlerSound, Idle
            <4> QED
                BY <2>1, <4>2 DEF Half, Sees
        <3> QED
            BY <3>1, <3>2
    <2> QED
        BY <2>1, <2>2, StateFields
<1>2. \A f \in {file, digest, stable} : f.tag \in {"missing", "damaged", "snapshot"}
    BY DEF DiskSound, IsFile, Missing, Damaged
<1>3. \A h \in Handlers : handler[h] = Idle \/ handler[h].ns \in Namespaces
    BY DEF HandlerSound
<1> QED
    BY <1>1, <1>2, <1>3 DEF TypeOK, Typed, Histories, MemorySound, AnswersSound, Faithful

\* What was answered over one connection is in the memory of a running server
\* and, for the proxy, on stable storage.
THEOREM ServerAnsweredKept == OneHandler /\ Spec => []AnsweredKept
<1>1. ServerInv => ServesWhatItAnswered
    BY DEF ServerInv, MemorySound, Covers, ServesWhatItAnswered
<1>2. ServerInv => AnsweredIsStable
    <2> SUFFICES ASSUME ServerInv, engine = "stateful-proxy", NEW a \in answers
                 PROVE  /\ stable.tag = "snapshot"
                        /\ StateOf(stable.states, a.ns).last_sequence >= a.seq
        BY DEF AnsweredIsStable
    <2>1. StateOf(InFile(stable), a.ns).last_sequence >= a.seq
        BY DEF ServerInv, DiskSound, Settled, Covers
    <2>2. a.seq >= 1 /\ a.seq \in Nat
        BY HistoryLengths DEF ServerInv, AnswersSound, Typed
    <2>3. InFile(stable) # Empty
        BY <2>1, <2>2, EmptySound DEF ProxyInit
    <2> QED
        BY <2>1, <2>3 DEF InFile
<1>3. ServerInv => AnsweredKept
    BY <1>1, <1>2, InvTypeOK DEF AnsweredKept
<1> QED
    BY <1>3, ServerSound, PTL

-----------------------------------------------------------------------------
(* The refinement of DurableLog.                                           *)

\* What the settled snapshot counts covers the answers.
LogCovers ==
    /\ DurableCount \in [Namespaces -> Nat]
    /\ \A n \in Namespaces : \A s \in AnsweredNumbers[n] : s <= DurableCount[n]

LEMMA DurableCovers == ServerInv => LogCovers
<1> SUFFICES ASSUME ServerInv
             PROVE  LogCovers
    OBVIOUS
<1> USE DEF ServerInv
<1>1. Covers(answers, InFile(Settled)) /\ IsFile(history, Settled) /\ history \in Histories
    BY DEF DiskSound, Settled, Typed
<1>2. SoundIn(history, InFile(Settled))
    BY <1>1, EmptySound DEF IsFile, InFile, Missing, Damaged
<1>3. ASSUME NEW n \in Namespaces
      PROVE  /\ DurableCount[n] = StateOf(InFile(Settled), n).last_sequence
             /\ DurableCount[n] \in Nat
    <2>1. StateOf(InFile(Settled), n).last_sequence \in Nat
        BY <1>1, <1>2, StateOfGood
    <2>2. StateOf(Empty, n).last_sequence = 0
        BY EmptySound DEF ProxyInit
    <2> QED
        BY <2>1, <2>2 DEF DurableCount, InFile
<1>4. ASSUME NEW n \in Namespaces, NEW s \in AnsweredNumbers[n]
      PROVE  s <= DurableCount[n]
    <2>1. PICK a \in answers : a.ns = n /\ a.seq = s
        BY DEF AnsweredNumbers
    <2>2. StateOf(InFile(Settled), n).last_sequence >= s /\ s \in Nat
        BY <1>1, <2>1, AnswerNumbers DEF Covers
    <2> QED
        BY <1>3, <2>2
<1> QED
    BY <1>3, <1>4 DEF DurableCount, LogCovers

\* A step that answers nothing stores, or changes nothing of the log.
LEMMA StoreStep ==
    ASSUME LogCovers', UNCHANGED answers
    PROVE  [Log!LogNext]_(Log!logVars)
<1>1. AnsweredNumbers' = AnsweredNumbers
    BY DEF AnsweredNumbers
<1>2. /\ DurableCount' \in [Namespaces -> Nat]
      /\ \A n \in Namespaces : \A s \in AnsweredNumbers[n] : s <= DurableCount'[n]
    BY <1>1 DEF LogCovers
<1> QED
    BY <1>1, <1>2 DEF Log!LogNext, Log!Store

\* Reply answers an event that the settled snapshot contains.
LEMMA AnswerStep ==
    ASSUME OneHandler, ServerInv, NEW h \in Handlers, Reply(h)
    PROVE  Log!LogNext
<1> DEFINE w == handler[h]
           told == [ns |-> w.ns, seq |-> w.seq, effect |-> w.effect]
<1>1. /\ w.pc = "reply" /\ UNCHANGED <<engine, disk>> /\ answers' = answers \union {told}
    BY DEF Reply
<1>2. /\ w.ns \in Namespaces /\ w.seq \in 1..Len(history[w.ns]) /\ w.seq \in Nat \ {0}
      /\ InFile(w.document) = w.document.states /\ w.document.tag = "snapshot"
      /\ StateOf(w.document.states, w.ns).last_sequence >= w.seq
    BY <1>1, WrittenHandler, TheHandler DEF Written, Working
<1>3. Settled = w.document
    BY <1>1, WrittenHandler DEF ServerInv, HandlerSound, Written
<1>4. w.seq \in 1..DurableCount[w.ns]
    <2>1. DurableCount[w.ns] = StateOf(w.document.states, w.ns).last_sequence
        BY <1>2, <1>3 DEF DurableCount
    <2>2. DurableCount[w.ns] \in Nat
        BY <1>2, DurableCovers DEF LogCovers
    <2> QED
        BY <1>2, <2>1, <2>2
<1>5. DurableCount' = DurableCount
    BY <1>1 DEF DurableCount, Settled, disk
<1>6. told.ns = w.ns /\ told.seq = w.seq
    OBVIOUS
<1> HIDE DEF told
<1>7. AnsweredNumbers' = [AnsweredNumbers EXCEPT ![w.ns] = @ \union {w.seq}]
    <2>1. \A n \in Namespaces : AnsweredNumbers'[n] =
              (IF n = w.ns THEN AnsweredNumbers[n] \union {w.seq} ELSE AnsweredNumbers[n])
        BY <1>1, <1>6 DEF AnsweredNumbers
    <2>2. /\ AnsweredNumbers' = [n \in Namespaces |-> AnsweredNumbers'[n]]
          /\ DOMAIN AnsweredNumbers = Namespaces
        BY DEF AnsweredNumbers
    <2> QED
        BY <2>1, <2>2
<1> QED
    BY <1>2, <1>4, <1>5, <1>7 DEF Log!LogNext, Log!Answer

LEMMA LogSteps ==
    ASSUME OneHandler, ServerInv, LogCovers', [Next]_vars
    PROVE  [Log!LogNext]_(Log!logVars)
<1>1. CASE UNCHANGED answers
    BY <1>1, StoreStep
<1>2. ASSUME NEW h \in Handlers, Reply(h)
      PROVE  Log!LogNext
    BY <1>2, AnswerStep
<1>3. (\E h \in Handlers : Reply(h)) \/ UNCHANGED answers
    BY DEF Next, vars, Serve, Request, Copy, Admit, Rule, Document, Replace, Settle,
           CheckpointFails, Start, Kill, PowerLoss, Stop, Damage
<1> QED
    BY <1>1, <1>2, <1>3

LEMMA LogStart == Init => Log!LogInit
BY DEF Init, Log!LogInit, DurableCount, AnsweredNumbers, Settled, Missing

\* Over one connection both engines implement the durable log: an event is
\* answered only once the settled snapshot contains it, and nothing that
\* happens later takes an answered event out again.
THEOREM ServerImplementsLog == OneHandler /\ Spec => ImplementsDurableLog
<1> SUFFICES ASSUME OneHandler
             PROVE  Spec => ImplementsDurableLog
    OBVIOUS
<1>1. ServerInv /\ LogCovers' /\ [Next]_vars => [Log!LogNext]_(Log!logVars)
    BY LogSteps
<1>2. Spec => []ServerInv
    BY ServerSound
<1> QED
    BY <1>1, <1>2, LogStart, DurableCovers, PTL DEF Spec, ImplementsDurableLog, Log!LogSpec

-----------------------------------------------------------------------------
(* The baselines, on whole histories.                                      *)

\* A set of numbers that is not empty has a least element.
LEMMA LeastExists ==
    ASSUME NEW T \in SUBSET Nat, T # {}
    PROVE  \E m \in T : \A k \in T : m <= k
<1> DEFINE R == OpToRel(<, Nat)
<1>1. IsWellFoundedOn(R, Nat)
    BY NatLessThanWellFounded
<1>2. \E x \in T : \A y \in T : ~ (<<y, x>> \in R)
    <2> HIDE DEF R
    <2> QED
        BY <1>1, WFMin
<1>3. PICK x \in T : \A y \in T : ~ (<<y, x>> \in R)
    BY <1>2
<1>4. \A y \in T : ~ (y < x)
    BY <1>3 DEF OpToRel
<1> QED
    BY <1>4

\* What holds of 0 and passes on from each number to the next one.
LEMMA Climb ==
    ASSUME NEW n \in Nat, NEW T, 0 \in T, \A i \in 1..n : i - 1 \in T => i \in T
    PROVE  \A i \in 0..n : i \in T
<1> DEFINE bad == {i \in 0..n : i \notin T}
<1>1. CASE bad = {}
    BY <1>1
<1>2. CASE bad # {}
    <2>0. bad \in SUBSET Nat
        OBVIOUS
    <2>1. PICK m \in bad : \A k \in bad : m <= k
        <3> HIDE DEF bad
        <3> QED
            BY <1>2, <2>0, LeastExists
    <2>2. m \in 1..n /\ m - 1 \in 0..n
        BY <2>1
    <2>3. m - 1 \in T
        BY <2>1, <2>2
    <2> QED
        BY <2>1, <2>2, <2>3
<1> QED
    BY <1>1, <1>2

\* The runs of the three rules, as the fixed points their definitions choose.
SequenceRun(past, n, after) ==
    after = [i \in 0..n |->
                IF i = 0 THEN SequenceInit ELSE SequenceRule(after[i - 1], past[i], i)]

WindowRun(past, n, after) ==
    after = [i \in 0..n |->
                IF i = 0 THEN << >> ELSE WindowAppend(after[i - 1], past[i], i, Window)]

FakeRun(past, n, after) ==
    after = [i \in 0..n |-> IF i = 0 THEN FakeInit ELSE FakeRule(after[i - 1], past[i])]

\* A run of each exists for a history of any length.
LEMMA SequenceRuns ==
    ASSUME NEW past, NEW n \in Nat
    PROVE  \E after : SequenceRun(past, n, after)
<1> DEFINE T == {k \in 0..n : \E after : SequenceRun(past, k, after)}
<1>1. 0 \in T
    <2> DEFINE f == [i \in 0..0 |-> SequenceInit]
    <2>1. SequenceRun(past, 0, f)
        BY DEF SequenceRun
    <2> QED
        BY <2>1
<1>2. ASSUME NEW k \in 1..n, k - 1 \in T
      PROVE  k \in T
    <2>1. PICK f : SequenceRun(past, k - 1, f)
        BY <1>2
    <2> DEFINE g == [i \in 0..k |->
                        IF i = 0 THEN SequenceInit ELSE SequenceRule(f[i - 1], past[i], i)]
    <2>2. \A i \in 0..(k - 1) : g[i] = f[i]
        BY <2>1 DEF SequenceRun
    <2>3. \A i \in 1..k : g[i - 1] = f[i - 1]
        <3> HIDE DEF g
        <3> QED
            BY <2>2
    <2>4. ASSUME NEW i \in 0..k
          PROVE  g[i] = IF i = 0 THEN SequenceInit ELSE SequenceRule(g[i - 1], past[i], i)
        <3>1. g[i] = IF i = 0 THEN SequenceInit ELSE SequenceRule(f[i - 1], past[i], i)
            OBVIOUS
        <3>2. i = 0 \/ g[i - 1] = f[i - 1]
            <4> HIDE DEF g
            <4> QED
                BY <2>3
        <3> HIDE DEF g
        <3> QED
            BY <3>1, <3>2
    <2>5. g = [i \in 0..k |-> g[i]]
        OBVIOUS
    <2>6. SequenceRun(past, k, g)
        <3> HIDE DEF g
        <3> QED
            BY <2>4, <2>5 DEF SequenceRun
    <2> HIDE DEF g
    <2> QED
        BY <2>6
<1> HIDE DEF T
<1>3. n \in T
    BY <1>1, <1>2, Climb
<1> QED
    BY <1>3 DEF T

\* The same for the sliding window.
LEMMA WindowRuns ==
    ASSUME NEW past, NEW n \in Nat
    PROVE  \E after : WindowRun(past, n, after)
<1> DEFINE T == {k \in 0..n : \E after : WindowRun(past, k, after)}
<1>1. 0 \in T
    <2> DEFINE f == [i \in 0..0 |-> << >>]
    <2>1. WindowRun(past, 0, f)
        BY DEF WindowRun
    <2> QED
        BY <2>1
<1>2. ASSUME NEW k \in 1..n, k - 1 \in T
      PROVE  k \in T
    <2>1. PICK f : WindowRun(past, k - 1, f)
        BY <1>2
    <2> DEFINE g == [i \in 0..k |->
                        IF i = 0 THEN << >> ELSE WindowAppend(f[i - 1], past[i], i, Window)]
    <2>2. \A i \in 0..(k - 1) : g[i] = f[i]
        BY <2>1 DEF WindowRun
    <2>3. \A i \in 1..k : g[i - 1] = f[i - 1]
        <3> HIDE DEF g
        <3> QED
            BY <2>2
    <2>4. ASSUME NEW i \in 0..k
          PROVE  g[i] = IF i = 0 THEN << >> ELSE WindowAppend(g[i - 1], past[i], i, Window)
        <3>1. g[i] = IF i = 0 THEN << >> ELSE WindowAppend(f[i - 1], past[i], i, Window)
            OBVIOUS
        <3>2. i = 0 \/ g[i - 1] = f[i - 1]
            <4> HIDE DEF g
            <4> QED
                BY <2>3
        <3> HIDE DEF g
        <3> QED
            BY <3>1, <3>2
    <2>5. g = [i \in 0..k |-> g[i]]
        OBVIOUS
    <2>6. WindowRun(past, k, g)
        <3> HIDE DEF g
        <3> QED
            BY <2>4, <2>5 DEF WindowRun
    <2> HIDE DEF g
    <2> QED
        BY <2>6
<1> HIDE DEF T
<1>3. n \in T
    BY <1>1, <1>2, Climb
<1> QED
    BY <1>3 DEF T

\* The same for the Gate 0 engine.
LEMMA FakeRuns ==
    ASSUME NEW past, NEW n \in Nat
    PROVE  \E after : FakeRun(past, n, after)
<1> DEFINE T == {k \in 0..n : \E after : FakeRun(past, k, after)}
<1>1. 0 \in T
    <2> DEFINE f == [i \in 0..0 |-> FakeInit]
    <2>1. FakeRun(past, 0, f)
        BY DEF FakeRun
    <2> QED
        BY <2>1
<1>2. ASSUME NEW k \in 1..n, k - 1 \in T
      PROVE  k \in T
    <2>1. PICK f : FakeRun(past, k - 1, f)
        BY <1>2
    <2> DEFINE g == [i \in 0..k |-> IF i = 0 THEN FakeInit ELSE FakeRule(f[i - 1], past[i])]
    <2>2. \A i \in 0..(k - 1) : g[i] = f[i]
        BY <2>1 DEF FakeRun
    <2>3. \A i \in 1..k : g[i - 1] = f[i - 1]
        <3> HIDE DEF g
        <3> QED
            BY <2>2
    <2>4. ASSUME NEW i \in 0..k
          PROVE  g[i] = IF i = 0 THEN FakeInit ELSE FakeRule(g[i - 1], past[i])
        <3>1. g[i] = IF i = 0 THEN FakeInit ELSE FakeRule(f[i - 1], past[i])
            OBVIOUS
        <3>2. i = 0 \/ g[i - 1] = f[i - 1]
            <4> HIDE DEF g
            <4> QED
                BY <2>3
        <3> HIDE DEF g
        <3> QED
            BY <3>1, <3>2
    <2>5. g = [i \in 0..k |-> g[i]]
        OBVIOUS
    <2>6. FakeRun(past, k, g)
        <3> HIDE DEF g
        <3> QED
            BY <2>4, <2>5 DEF FakeRun
    <2> HIDE DEF g
    <2> QED
        BY <2>6
<1> HIDE DEF T
<1>3. n \in T
    BY <1>1, <1>2, Climb
<1> QED
    BY <1>3 DEF T

\* The state after a history is the last one of a run.
LEMMA LastOfRuns ==
    ASSUME NEW past \in Seq(Kinds)
    PROVE  /\ \E after : SequenceRun(past, Len(past), after)
                           /\ AfterSequence(past) = after[Len(past)]
           /\ \E after : WindowRun(past, Len(past), after)
                           /\ AfterWindow(past, Window) = after[Len(past)]
           /\ \E after : FakeRun(past, Len(past), after)
                           /\ AfterFake(past) = after[Len(past)]
<1>0. Len(past) \in Nat
    OBVIOUS
<1>1. \E after : SequenceRun(past, Len(past), after) /\ AfterSequence(past) = after[Len(past)]
    <2> DEFINE f == CHOOSE after : after = [i \in 0..Len(past) |->
                        IF i = 0 THEN SequenceInit ELSE SequenceRule(after[i - 1], past[i], i)]
    <2>1. AfterSequence(past) = f[Len(past)]
        BY DEF AfterSequence
    <2>2. SequenceRun(past, Len(past), f)
        BY <1>0, SequenceRuns DEF SequenceRun
    <2> HIDE DEF f
    <2> QED
        BY <2>1, <2>2
<1>2. \E after : WindowRun(past, Len(past), after)
                   /\ AfterWindow(past, Window) = after[Len(past)]
    <2> DEFINE f == CHOOSE after : after = [i \in 0..Len(past) |->
                        IF i = 0 THEN << >> ELSE WindowAppend(after[i - 1], past[i], i, Window)]
    <2>1. AfterWindow(past, Window) = f[Len(past)]
        BY DEF AfterWindow
    <2>2. WindowRun(past, Len(past), f)
        BY <1>0, WindowRuns DEF WindowRun
    <2> HIDE DEF f
    <2> QED
        BY <2>1, <2>2
<1>3. \E after : FakeRun(past, Len(past), after) /\ AfterFake(past) = after[Len(past)]
    <2> DEFINE f == CHOOSE after : after = [i \in 0..Len(past) |->
                        IF i = 0 THEN FakeInit ELSE FakeRule(after[i - 1], past[i])]
    <2>1. AfterFake(past) = f[Len(past)]
        BY DEF AfterFake
    <2>2. FakeRun(past, Len(past), f)
        BY <1>0, FakeRuns DEF FakeRun
    <2> HIDE DEF f
    <2> QED
        BY <2>1, <2>2
<1> QED
    BY <1>1, <1>2, <1>3

\* A state of the sequence rule, and the proxy's state with the same fields.
SequenceState == [saw_exec : BOOLEAN, network : Nat]

AsProxy(st, k) ==
    [revision |-> 0, last_sequence |-> k, saw_exec |-> st.saw_exec, network |-> st.network]

\* The evidence is an untrusted connect, with no reset since.
Latest(past, k, e) ==
    e # NoEvent => /\ e \in 1..k /\ past[e] = "connect"
                   /\ \A m \in (e + 1)..k : past[m] # "reset"

\* The sequence rule does to its two fields what the proxy's rule does.
LEMMA SequenceAsProxy ==
    ASSUME NEW st \in SequenceState, NEW kind \in Kinds, NEW s \in Nat
    PROVE  /\ SequenceRule(st, kind, s) \in SequenceState
           /\ AsProxy(SequenceRule(st, kind, s), s) = ProxyRule(AsProxy(st, s), kind, s)
           /\ SequenceRule(st, kind, s).network \in
                 IF kind \in {"exec", "reset"} THEN {NoEvent}
                 ELSE IF kind = "connect" THEN {s, st.network} ELSE {st.network}
<1> DEFINE saw == st.saw_exec \/ kind = "exec"
           kept == IF kind \in {"exec", "reset"} THEN NoEvent ELSE st.network
           e == IF kind = "connect" /\ saw THEN s ELSE kept
           new == [saw_exec |-> saw, network |-> e]
<1>1. SequenceRule(st, kind, s) = new
    <2> DEFINE seen == [st EXCEPT !.saw_exec = saw, !.network = kept]
    <2>1. seen = [saw_exec |-> saw, network |-> kept]
        <3> HIDE DEF saw, kept
        <3> SUFFICES ASSUME NEW r, r = seen PROVE r = [saw_exec |-> saw, network |-> kept]
            OBVIOUS
        <3> QED
            BY DEF SequenceState
    <2>2. SequenceRule(st, kind, s) = [seen EXCEPT !.network = IF kind = "connect" /\ seen.saw_exec
                                                               THEN s ELSE seen.network]
        BY DEF SequenceRule
    <2> HIDE DEF seen, saw, kept
    <2> QED
        BY <2>1, <2>2
<1>2. ProxyRule(AsProxy(st, s), kind, s) =
          [revision |-> 0, last_sequence |-> s, saw_exec |-> saw, network |-> e]
    <2> DEFINE px == AsProxy(st, s)
               f == CASE kind \in {"exec", "reset"} -> NoEvent
                      [] kind = "connect" /\ px.saw_exec -> s
                      [] OTHER -> px.network
    <2>1. ProxyRule(px, kind, s) = [px EXCEPT !.saw_exec = px.saw_exec \/ kind = "exec",
                                             !.network = f]
        BY DEF ProxyRule
    <2>2. px.saw_exec = st.saw_exec /\ px.network = st.network
        BY DEF AsProxy
    <2>3. f = e
        BY <2>2
    <2> HIDE DEF f, e
    <2> QED
        BY <2>1, <2>2, <2>3 DEF AsProxy
<1>3. saw \in BOOLEAN /\ e \in Nat /\ kept \in Nat
    BY DEF SequenceState, NoEvent
<1>4. new \in SequenceState
    BY <1>3 DEF SequenceState
<1> QED
    BY <1>1, <1>2, <1>4 DEF AsProxy

\* After k events the sequence rule has seen what they show.
LEMMA SequenceSees ==
    ASSUME NEW past \in Seq(Kinds), NEW f, SequenceRun(past, Len(past), f), NEW k \in 0..Len(past)
    PROVE  /\ f[k] \in SequenceState /\ Sees(past, k, AsProxy(f[k], k))
           /\ Latest(past, k, f[k].network)
<1> DEFINE n == Len(past)
           T == {i \in 0..n : /\ f[i] \in SequenceState /\ Sees(past, i, AsProxy(f[i], i))
                              /\ Latest(past, i, f[i].network)}
<1>0. n \in Nat /\ \A i \in 1..n : past[i] \in Kinds
    OBVIOUS
<1>1. 0 \in T
    <2>1. f[0] = SequenceInit
        BY <1>0 DEF SequenceRun
    <2>2. SequenceInit \in SequenceState
        BY DEF SequenceInit, SequenceState, NoEvent
    <2>3. Sees(past, 0, AsProxy(SequenceInit, 0))
        BY DEF Sees, AsProxy, ProxyState, SequenceInit, NoEvent
    <2>4. Latest(past, 0, SequenceInit.network)
        BY DEF Latest, SequenceInit
    <2> QED
        BY <1>0, <2>1, <2>2, <2>3, <2>4
<1>2. ASSUME NEW i \in 1..n, i - 1 \in T
      PROVE  i \in T
    <2> DEFINE st == f[i - 1]
    <2>1. /\ f[i] = SequenceRule(st, past[i], i) /\ past[i] \in Kinds /\ i \in Nat \ {0}
          /\ i - 1 \in Nat
        BY <1>0 DEF SequenceRun
    <2>2. /\ st \in SequenceState /\ Sees(past, i - 1, AsProxy(st, i - 1))
          /\ Latest(past, i - 1, st.network)
        BY <1>2
    <2>3. Half(past, AsProxy(st, i), i)
        BY <2>1, <2>2 DEF Half, Sees, AsProxy, ProxyState
    <2>4. /\ f[i] \in SequenceState
          /\ AsProxy(f[i], i) = ProxyRule(AsProxy(st, i), past[i], i)
          /\ f[i].network \in IF past[i] \in {"exec", "reset"} THEN {NoEvent}
                              ELSE IF past[i] = "connect" THEN {i, st.network} ELSE {st.network}
        <3>1. i \in Nat
            OBVIOUS
        <3> HIDE DEF st
        <3>2. /\ SequenceRule(st, past[i], i) \in SequenceState
              /\ AsProxy(SequenceRule(st, past[i], i), i) = ProxyRule(AsProxy(st, i), past[i], i)
              /\ SequenceRule(st, past[i], i).network \in
                     IF past[i] \in {"exec", "reset"} THEN {NoEvent}
                     ELSE IF past[i] = "connect" THEN {i, st.network} ELSE {st.network}
            BY <2>1, <2>2, <3>1, SequenceAsProxy
        <3> QED
            BY <2>1, <3>2
    <2>5. Sees(past, i, AsProxy(f[i], i))
        BY <2>1, <2>3, <2>4, RuleSees
    <2>6. Latest(past, i, f[i].network)
        BY <2>1, <2>2, <2>4 DEF Latest
    <2> QED
        BY <2>4, <2>5, <2>6
<1> HIDE DEF T
<1>3. k \in T
    BY <1>0, <1>1, <1>2, Climb
<1> QED
    BY <1>3 DEF T

\* The sequence rule denies the last event of a history exactly when that is
\* a chained credential access.
LEMMA SequenceDecides ==
    ASSUME NEW past \in Seq(Kinds), Len(past) # 0
    PROVE  /\ ProxyDenies(AfterSequence(past), past[Len(past)]) <=> Chained(past, Len(past))
           /\ Latest(past, Len(past), AfterSequence(past).network)
<1> DEFINE k == Len(past)
<1>1. PICK f : SequenceRun(past, k, f) /\ AfterSequence(past) = f[k]
    BY LastOfRuns
<1>2. k \in 1..k /\ k - 1 \in 0..k /\ k \in Nat \ {0} /\ past[k] \in Kinds
    OBVIOUS
<1> DEFINE st == f[k - 1]
<1>3. st \in SequenceState /\ Sees(past, k - 1, AsProxy(st, k - 1))
    BY <1>1, <1>2, SequenceSees
<1>4. f[k] = SequenceRule(st, past[k], k)
    BY <1>1, <1>2 DEF SequenceRun
<1>5. Half(past, AsProxy(st, k), k)
    BY <1>2, <1>3 DEF Half, Sees, AsProxy, ProxyState
<1>6. ProxyDenies(ProxyRule(AsProxy(st, k), past[k], k), past[k]) <=> Chained(past, k)
    BY <1>2, <1>5, RuleDenies
<1>7. AsProxy(f[k], k) = ProxyRule(AsProxy(st, k), past[k], k)
    <2> HIDE DEF st, k
    <2>1. k \in Nat
        BY <1>2
    <2> QED
        BY <1>2, <1>3, <1>4, <2>1, SequenceAsProxy
<1>8. ProxyDenies(AsProxy(f[k], k), past[k]) <=> ProxyDenies(f[k], past[k])
    BY DEF ProxyDenies, AsProxy
<1>9. Latest(past, k, f[k].network)
    BY <1>1, <1>2, SequenceSees
<1> QED
    BY <1>1, <1>6, <1>7, <1>8, <1>9

\* The Gate 0 engine forgets neither an execution nor a later connect.
LEMMA FakeRemembers ==
    ASSUME NEW past \in Seq(Kinds), NEW f, FakeRun(past, Len(past), f), NEW k \in 0..Len(past)
    PROVE  /\ (\E i \in 1..k : past[i] = "exec") => f[k].saw_exec
           /\ (\E j \in 1..k : past[j] = "connect" /\ \E i \in 1..(j - 1) : past[i] = "exec") =>
                 f[k].saw_network
<1> DEFINE n == Len(past)
           Ran(i) == \E e \in 1..i : past[e] = "exec"
           Reached(i) == \E j \in 1..i : past[j] = "connect" /\ Ran(j - 1)
           T == {i \in 0..n : (Ran(i) => f[i].saw_exec) /\ (Reached(i) => f[i].saw_network)}
<1>0. n \in Nat
    OBVIOUS
<1>1. 0 \in T
    BY <1>0
<1>2. ASSUME NEW i \in 1..n, i - 1 \in T
      PROVE  i \in T
    <2>1. f[i] = FakeRule(f[i - 1], past[i])
        BY <1>0 DEF FakeRun
    <2>2. /\ f[i].saw_exec <=> (f[i - 1].saw_exec \/ past[i] = "exec")
          /\ f[i].saw_network <=>
                (f[i - 1].saw_network \/ (past[i] \in {"connect", "trusted"} /\ f[i - 1].saw_exec))
        <3> DEFINE a == f[i - 1].saw_exec \/ past[i] = "exec"
                   b == \/ f[i - 1].saw_network
                        \/ past[i] \in {"connect", "trusted"} /\ f[i - 1].saw_exec
        <3>1. FakeRule(f[i - 1], past[i]) =
                  [revision |-> f[i - 1].revision + 1, saw_exec |-> a, saw_network |-> b]
            BY DEF FakeRule
        <3>2. f[i].saw_exec = a /\ f[i].saw_network = b
            <4> HIDE DEF a, b
            <4> QED
                BY <2>1, <3>1
        <3> QED
            BY <3>2
    <2>3. Ran(i) => Ran(i - 1) \/ past[i] = "exec"
        OBVIOUS
    <2>4. Reached(i) => Reached(i - 1) \/ (past[i] = "connect" /\ Ran(i - 1))
        <3> HIDE DEF Ran
        <3> QED
            OBVIOUS
    <2>5. (Ran(i - 1) => f[i - 1].saw_exec) /\ (Reached(i - 1) => f[i - 1].saw_network)
        BY <1>2
    <2> HIDE DEF Ran, Reached
    <2> QED
        BY <2>2, <2>3, <2>4, <2>5
<1> HIDE DEF T
<1>3. k \in T
    BY <1>0, <1>1, <1>2, Climb
<1> QED
    BY <1>3 DEF T

\* A window, and the last event of it with the number j.
WindowRow == [kind : Kinds, id : Nat]
WindowRows == Seq(WindowRow)

Shows(recent, d, kind, id) ==
    d < Len(recent) /\ recent[Len(recent) - d] = [kind |-> kind, id |-> id]

\* A new event is the last one of the window; those before it move one place
\* away from the end, unless it is a reset or they leave the window.
LEMMA WindowMoves ==
    ASSUME NEW recent \in WindowRows, NEW kind \in Kinds, NEW id \in Nat
    PROVE  /\ WindowAppend(recent, kind, id, Window) \in WindowRows
           /\ Shows(WindowAppend(recent, kind, id, Window), 0, kind, id)
           /\ \A d \in Nat : \A k, i :
                 kind # "reset" /\ Shows(recent, d, k, i) /\ d + 1 < Window =>
                 Shows(WindowAppend(recent, kind, id, Window), d + 1, k, i)
<1> DEFINE new == [kind |-> kind, id |-> id]
           before == IF kind = "reset" THEN << >> ELSE recent
           kept == Append(before, new)
           first == IF Len(kept) > Window THEN Len(kept) - Window + 1 ELSE 1
           after == SubSeq(kept, first, Len(kept))
<1>1. before \in WindowRows /\ new \in WindowRow /\ Window \in Nat \ {0}
    BY ServerAssumption DEF WindowRows, WindowRow
<1> HIDE DEF before, new
<1>2. /\ kept \in WindowRows /\ Len(kept) = Len(before) + 1 /\ Len(before) \in Nat
      /\ kept[Len(kept)] = new
      /\ \A i \in 1..Len(before) : kept[i] = before[i]
    BY <1>1 DEF WindowRows
<1> HIDE DEF kept
<1>3. first \in 1..Len(kept) /\ Len(kept) \in Nat
    BY <1>1, <1>2
<1> HIDE DEF first
<1>4. /\ after \in WindowRows /\ Len(after) = Len(kept) - first + 1
      /\ \A i \in 1..Len(after) : after[i] = kept[first + i - 1]
    <2>1. first \in Int /\ Len(kept) \in Int /\ first <= Len(kept)
        BY <1>3
    <2>2. \A i \in first..Len(kept) : kept[i] \in WindowRow
        <3>1. \A i \in 1..Len(kept) : kept[i] \in WindowRow
            BY <1>2 DEF WindowRows
        <3> QED
            BY <1>3, <3>1
    <2>3. /\ after \in Seq(WindowRow)
          /\ Len(after) = IF first <= Len(kept) THEN Len(kept) - first + 1 ELSE 0
          /\ \A i \in 1..(Len(kept) - first + 1) : after[i] = kept[first + i - 1]
        BY <2>1, <2>2, SubSeqProperties
    <2> QED
        BY <2>1, <2>3 DEF WindowRows
<1>5. WindowAppend(recent, kind, id, Window) = after
    BY DEF WindowAppend, after, first, kept, before, new
<1> HIDE DEF after
<1>6. Len(after) = IF Len(kept) > Window THEN Window ELSE Len(kept)
    BY <1>1, <1>3, <1>4 DEF first
<1>7. ASSUME NEW d \in Nat, d < Len(after)
      PROVE  after[Len(after) - d] = kept[Len(kept) - d]
    <2>1. /\ Len(after) - d \in 1..Len(after)
          /\ first + (Len(after) - d) - 1 = Len(kept) - d
        <3>1. Len(after) = Len(kept) - first + 1 /\ Len(after) \in Nat /\ first \in Nat
            BY <1>3, <1>4
        <3> QED
            BY <1>3, <1>7, <3>1
    <2> QED
        BY <1>4, <2>1
<1>8. Shows(after, 0, kind, id)
    <2>1. 0 < Len(after)
        BY <1>1, <1>2, <1>6
    <2>2. after[Len(after) - 0] = kept[Len(kept) - 0]
        BY <1>7, <2>1
    <2> QED
        BY <1>2, <1>3, <1>4, <2>1, <2>2 DEF Shows, new
<1>9. ASSUME NEW d \in Nat, NEW k, NEW i, kind # "reset", Shows(recent, d, k, i), d + 1 < Window
      PROVE  Shows(after, d + 1, k, i)
    <2>1. before = recent /\ d < Len(before) /\ before[Len(before) - d] = [kind |-> k, id |-> i]
        BY <1>9 DEF before, Shows
    <2>2. d + 1 < Len(after) /\ d + 1 \in Nat
        BY <1>1, <1>2, <1>6, <1>9, <2>1
    <2>3. after[Len(after) - (d + 1)] = kept[Len(kept) - (d + 1)]
        BY <1>7, <2>2
    <2>4. Len(kept) - (d + 1) = Len(before) - d /\ Len(before) - d \in 1..Len(before)
        BY <1>2, <2>1
    <2> QED
        BY <1>2, <2>1, <2>2, <2>3, <2>4 DEF Shows
<1> QED
    BY <1>4, <1>5, <1>8, <1>9

\* The window shows each of its events, if none since was a reset.
LEMMA WindowShows ==
    ASSUME NEW past \in Seq(Kinds), NEW f, WindowRun(past, Len(past), f), NEW k \in 0..Len(past)
    PROVE  /\ f[k] \in WindowRows
           /\ \A j \in 1..k : k - j < Window /\ (\A m \in (j + 1)..k : past[m] # "reset") =>
                 Shows(f[k], k - j, past[j], j)
<1> DEFINE n == Len(past)
           Intact(j, i) == \A m \in (j + 1)..i : past[m] # "reset"
           Seen(i) == \A j \in 1..i : i - j < Window /\ Intact(j, i) =>
                         Shows(f[i], i - j, past[j], j)
           T == {i \in 0..n : f[i] \in WindowRows /\ Seen(i)}
<1>0. n \in Nat /\ Window \in Nat
    BY ServerAssumption
<1>1. 0 \in T
    <2>1. f[0] = << >>
        BY <1>0 DEF WindowRun
    <2>2. << >> \in WindowRows
        BY DEF WindowRows
    <2>3. Seen(0)
        OBVIOUS
    <2> HIDE DEF Seen
    <2> QED
        BY <1>0, <2>1, <2>2, <2>3
<1>2. ASSUME NEW i \in 1..n, i - 1 \in T
      PROVE  i \in T
    <2> DEFINE w == f[i - 1]
    <2>1. f[i] = WindowAppend(w, past[i], i, Window) /\ past[i] \in Kinds /\ i \in Nat
        BY <1>0 DEF WindowRun
    <2>2. w \in WindowRows /\ Seen(i - 1)
        BY <1>2
    <2> HIDE DEF w
    <2>3. /\ f[i] \in WindowRows /\ Shows(f[i], 0, past[i], i)
          /\ \A d \in Nat : \A kind, id :
                past[i] # "reset" /\ Shows(w, d, kind, id) /\ d + 1 < Window =>
                Shows(f[i], d + 1, kind, id)
        BY <2>1, <2>2, WindowMoves
    <2>4. ASSUME NEW j \in 1..i, i - j < Window, Intact(j, i)
          PROVE  Shows(f[i], i - j, past[j], j)
        <3>1. CASE j = i
            BY <2>3, <3>1
        <3>2. CASE j # i
            <4> DEFINE d == i - 1 - j
            <4>1. j \in 1..(i - 1) /\ d \in Nat /\ d < Window /\ d + 1 = i - j
                BY <1>0, <2>4, <3>2
            <4>2. past[i] # "reset" /\ Intact(j, i - 1)
                BY <2>4, <3>2
            <4>3. Shows(w, d, past[j], j)
                BY <2>2, <4>1, <4>2 DEF w
            <4> HIDE DEF d
            <4> QED
                BY <2>3, <2>4, <4>1, <4>2, <4>3
        <3> QED
            BY <3>1, <3>2
    <2> QED
        BY <2>3, <2>4
<1> HIDE DEF T
<1>3. k \in T
    BY <1>0, <1>1, <1>2, Climb
<1> QED
    BY <1>3 DEF T

\* How the baselines decide about the last event of a history.
LEMMA BaselinesRelate ==
    ASSUME NEW past \in Seq(Kinds), Len(past) # 0
    PROVE  LET k == Len(past)
               st == AfterSequence(past)
               chained == Chained(past, k)
           IN  /\ ProxyDenies(st, past[k]) <=> chained
               /\ chained => /\ FakeElevated(AfterFake(past), past[k])
                             /\ EventLocalDenies(past[k])
                             /\ \/ WindowDenies(AfterWindow(past, Window), past[k])
                                \/ st.network + Window <= k
<1> DEFINE k == Len(past)
           st == AfterSequence(past)
<1>0. k \in 1..k /\ k \in Nat /\ k \in 0..k /\ Window \in Nat
    BY ServerAssumption
<1>1. (ProxyDenies(st, past[k]) <=> Chained(past, k)) /\ Latest(past, k, st.network)
    BY SequenceDecides
<1> HIDE DEF st
<1>2. ASSUME Chained(past, k)
      PROVE  FakeElevated(AfterFake(past), past[k]) /\ EventLocalDenies(past[k])
    <2>1. PICK f : FakeRun(past, k, f) /\ AfterFake(past) = f[k]
        BY LastOfRuns
    <2>2. \E j \in 1..k : past[j] = "connect" /\ \E i \in 1..(j - 1) : past[i] = "exec"
        BY <1>0, <1>2 DEF Chained
    <2>3. f[k].saw_network
        BY <1>0, <2>1, <2>2, FakeRemembers
    <2> QED
        BY <1>2, <2>1, <2>3 DEF FakeElevated, EventLocalDenies, Chained
<1>3. ASSUME Chained(past, k), ~(st.network + Window <= k)
      PROVE  WindowDenies(AfterWindow(past, Window), past[k])
    <2> DEFINE e == st.network
    <2>1. PICK f : WindowRun(past, k, f) /\ AfterWindow(past, Window) = f[k]
        BY LastOfRuns
    <2>2. /\ e \in 1..k /\ past[e] = "connect" /\ \A m \in (e + 1)..k : past[m] # "reset"
        BY <1>1, <1>3 DEF Latest, ProxyDenies
    <2>3. k - e < Window
        BY <1>0, <1>3, <2>2
    <2>4. f[k] \in WindowRows /\ Shows(f[k], k - e, past[e], e)
        BY <1>0, <2>1, <2>2, <2>3, WindowShows
    <2>5. Len(f[k]) - (k - e) \in DOMAIN f[k] /\ f[k][Len(f[k]) - (k - e)].kind = "connect"
        BY <1>0, <2>2, <2>4 DEF Shows, WindowRows
    <2>6. past[k] = "credential"
        BY <1>3 DEF Chained
    <2> QED
        BY <2>1, <2>5, <2>6 DEF WindowDenies
<1> QED
    BY <1>1, <1>2, <1>3 DEF st

\* The histories are sequences of kinds.
HistoryTyped == history \in Histories

\* They are empty at first.
LEMMA HistoryInit == Init => HistoryTyped
BY DEF Init, HistoryTyped, Histories

\* Every step keeps them so.
LEMMA HistoryStep == HistoryTyped /\ [Next]_vars => HistoryTyped'
<1> SUFFICES ASSUME history \in [Namespaces -> Seq(Kinds)], [Next]_vars
             PROVE  history' \in [Namespaces -> Seq(Kinds)]
    BY DEF HistoryTyped, Histories
<1>1. CASE \E h \in Handlers, n \in Namespaces : Request(h, n)
    <2>1. PICK n \in Namespaces :
             \/ history' = history
             \/ \E kind \in SentKinds : history' = [history EXCEPT ![n] = Append(@, kind)]
        BY <1>1 DEF Request
    <2>2. ASSUME NEW kind \in SentKinds, history' = [history EXCEPT ![n] = Append(@, kind)]
          PROVE  history' \in [Namespaces -> Seq(Kinds)]
        <3>1. Append(history[n], kind) \in Seq(Kinds)
            BY ServerAssumption
        <3> QED
            BY <2>2, <3>1
    <2> QED
        BY <2>1, <2>2
<1>2. CASE history' = history
    BY <1>2
<1>3. (\E h \in Handlers, n \in Namespaces : Request(h, n)) \/ history' = history
    BY DEF Next, vars, Serve, Copy, Admit, Rule, Document, Replace, Settle, Reply,
           CheckpointFails, Start, Kill, PowerLoss, Stop, Damage
<1> QED
    BY <1>1, <1>2, <1>3

\* On every history, of any length and with any size of the window: the
\* sequence rule denies exactly the chained credential accesses, and each of
\* them the Gate 0 engine calls elevated, the event-local rule denies, and
\* the window denies too unless the connect has left it (benchmark_engines.py,
\* engine.py).
THEOREM ServerBaselineOrder == Spec => []BaselineOrder
<1>1. HistoryTyped => BaselineOrder
    <2> SUFFICES ASSUME history \in [Namespaces -> Seq(Kinds)],
                        NEW n \in Namespaces, NEW k \in DOMAIN history[n]
                 PROVE  LET past == SubSeq(history[n], 1, k)
                            chained == Chained(history[n], k)
                            st == AfterSequence(past)
                        IN  /\ ProxyDenies(st, past[k]) <=> chained
                            /\ chained => /\ FakeElevated(AfterFake(past), past[k])
                                          /\ EventLocalDenies(past[k])
                                          /\ \/ WindowDenies(AfterWindow(past, Window), past[k])
                                             \/ st.network + Window <= k
        BY DEF BaselineOrder, HistoryTyped, Histories
    <2> DEFINE past == SubSeq(history[n], 1, k)
    <2>1. /\ past \in Seq(Kinds) /\ Len(past) = k /\ k # 0 /\ k \in Nat
          /\ \A i \in 1..k : past[i] = history[n][i]
        OBVIOUS
    <2> HIDE DEF past
    <2>2. Chained(past, k) <=> Chained(history[n], k)
        <3>1. Len(past) \in Nat /\ k \in 1..Len(past)
            BY <2>1
        <3> QED
            BY <2>1, <3>1, MoreChained
    <2>3. /\ ProxyDenies(AfterSequence(past), past[k]) <=> Chained(past, k)
          /\ Chained(past, k) =>
                /\ FakeElevated(AfterFake(past), past[k]) /\ EventLocalDenies(past[k])
                /\ \/ WindowDenies(AfterWindow(past, Window), past[k])
                   \/ AfterSequence(past).network + Window <= k
        BY <2>1, BaselinesRelate
    <2> QED
        BY <2>2, <2>3 DEF past
<1>2. Spec => []BaselineOrder
    BY <1>1, HistoryInit, HistoryStep, PTL DEF Spec
<1> QED
    BY <1>2
=============================================================================
