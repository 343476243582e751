--------------------------- MODULE GatewayProofs ---------------------------
(***************************************************************************)
(* Proofs about CanonicalStore and about Gateway, which extends it, for    *)
(* every value of their constants.  The store: what append() accepted is   *)
(* in order and stays in every file that opens, from the inductive         *)
(* invariant StoreInv.  The gateway: no replay gets into the canonical     *)
(* file, no event is evaluated twice or out of order, and a decision       *)
(* denies exactly the completed chain, from GatewayInv.                    *)
(***************************************************************************)
EXTENDS Gateway, SequenceTheorems, WellFoundedInduction, TLAPS

-----------------------------------------------------------------------------
(* The store, one lemma for each operation.                                *)

(* A bounded set of numbers that is not empty has a largest element.       *)
LEMMA MaximumExists ==
  ASSUME NEW n \in Nat, NEW T \in SUBSET (0 .. n), T # {}
  PROVE  \E m \in T : \A k \in T : k <= m
  <1> DEFINE D == {n - k : k \in T}
             R == OpToRel(<, Nat)
  <1>1. \A k \in T : n - k \in D
    OBVIOUS
  <1>2. D \subseteq Nat /\ D # {}
    <2> HIDE DEF R
    <2>1. PICK k \in T : TRUE
      OBVIOUS
    <2> QED BY <2>1
  <1>3. IsWellFoundedOn(R, Nat)
    BY NatLessThanWellFounded
  <1>4. \E x \in D : \A y \in D : ~ (<<y, x>> \in R)
    <2> HIDE DEF R, D
    <2> QED BY <1>2, <1>3, WFMin
  <1>5. PICK x \in D : \A y \in D : ~ (<<y, x>> \in R)
    BY <1>4
  <1>6. \A y \in D : ~ (y < x)
    BY <1>2, <1>5 DEF OpToRel
  <1>7. x \in Nat /\ \E m \in T : x = n - m
    BY <1>2
  <1> HIDE DEF R, D
  <1>8. PICK m \in T : x = n - m
    BY <1>7
  <1>9. \A k \in T : k <= m
    BY <1>1, <1>6, <1>7, <1>8
  <1> QED BY <1>9

(* LastSequence is an upper bound of the namespace's sequences.            *)
LEMMA LastSequenceBound ==
  ASSUME NEW lines \in Seq(Events), NEW ns \in Namespaces
  PROVE  /\ LastSequence(lines, ns) \in 0 .. MaxSequence
         /\ \A i \in DOMAIN lines : lines[i].ns = ns => lines[i].seq <= LastSequence(lines, ns)
  <1> DEFINE seqs == {lines[i].seq : i \in {j \in DOMAIN lines : lines[j].ns = ns}}
  <1>1. \A i \in DOMAIN lines : lines[i] \in Events
    OBVIOUS
  <1>2. seqs \subseteq 0 .. MaxSequence
    BY <1>1, StoreConstants DEF Events
  <1>3. \A i \in DOMAIN lines : lines[i].ns = ns => lines[i].seq \in seqs
    OBVIOUS
  <1>4. LastSequence(lines, ns) =
          IF seqs = {} THEN 0 ELSE CHOOSE m \in seqs : \A n \in seqs : n <= m
    BY DEF LastSequence
  <1> HIDE DEF seqs
  <1>5. CASE seqs = {}
    BY <1>3, <1>4, <1>5, StoreConstants
  <1>6. CASE seqs # {}
    <2>1. \E m \in seqs : \A n \in seqs : n <= m
      BY <1>2, <1>6, MaximumExists, StoreConstants
    <2>2. LastSequence(lines, ns) \in seqs /\ \A n \in seqs : n <= LastSequence(lines, ns)
      BY <1>4, <1>6, <2>1
    <2> QED BY <1>2, <1>3, <2>2
  <1> QED BY <1>5, <1>6

(* Every outcome of an append leaves a file that holds the lines it held.  *)
LEMMA AppendOutcomes ==
  ASSUME NEW f \in Files, NEW ev \in Events, NEW g \in AppendFailures(f, ev)
  PROVE  /\ g \in Files
         /\ \A i \in DOMAIN f.lines : i \in DOMAIN g.lines /\ g.lines[i] = f.lines[i]
  <1>1. f.lines \in Seq(Lines) /\ f.tail \in Events \cup {NoTail, Torn}
    BY DEF Files
  <1>2. Append(f.lines, ev) \in Seq(Lines) /\ Append(f.lines, Garbage) \in Seq(Lines)
    BY <1>1 DEF Lines
  <1> QED BY <1>1, <1>2, AppendProperties
      DEF AppendFailures, AppendWhole, AppendTorn, AppendUnterminated, Files, Lines

(* A complete append puts the event on a line of its own, or joins it to   *)
(* the tail of an earlier failed one.                                      *)
LEMMA AppendWholeHolds ==
  ASSUME NEW f \in Files, NEW ev \in Events
  PROVE  LET g == AppendWhole(f, ev) IN
         /\ g \in AppendFailures(f, ev)
         /\ Len(f.lines) + 1 \in DOMAIN g.lines
         /\ g.lines[Len(f.lines) + 1] \in {ev, Garbage}
  <1>1. f.lines \in Seq(Lines)
    BY DEF Files
  <1> QED BY <1>1, AppendProperties DEF AppendFailures, AppendWhole, Lines

(* What a reader yields of a file.                                         *)
LEMMA LinesOfFile ==
  ASSUME NEW f \in Files
  PROVE  /\ LinesOf(f) \in Seq(Lines)
         /\ \A i \in DOMAIN f.lines : i \in DOMAIN LinesOf(f) /\ LinesOf(f)[i] = f.lines[i]
  <1>1. f.lines \in Seq(Lines) /\ f.tail \in Events \cup {NoTail, Torn}
    BY DEF Files
  <1>2. f.tail # NoTail => (IF f.tail = Torn THEN Garbage ELSE f.tail) \in Lines
    BY <1>1 DEF Lines
  <1> QED BY <1>1, <1>2, AppendProperties DEF LinesOf
-----------------------------------------------------------------------------
LEMMA StoreInvInit == StoreInit => StoreInv
  <1> SUFFICES ASSUME StoreInit PROVE StoreInv
    OBVIOUS
  <1>1. accepted = <<>> /\ DOMAIN accepted = {} /\ accepted \in Seq(Events)
    BY DEF StoreInit
  <1>2. file \in Files
    BY DEF StoreInit, EmptyFile, Files
  <1>3. last \in [Namespaces -> 0 .. MaxSequence]
    BY StoreConstants DEF StoreInit
  <1>4. StoreTypeOK
    BY <1>1, <1>2, <1>3 DEF StoreTypeOK, StoreInit
  <1> QED BY <1>1, <1>4 DEF StoreInv, KeptUnlessDamaged, Indexed, AcceptedInOrder

(* A file that opens has nothing but events.                               *)
LEMMA OpenedEvents ==
  ASSUME NEW lines \in Seq(Lines), Opens(lines)
  PROVE  lines \in Seq(Events)
  <1>1. \A i \in 1 .. Len(lines) : lines[i] \in Events
    BY DEF Opens, Lines
  <1>2. lines = [i \in 1 .. Len(lines) |-> lines[i]] /\ Len(lines) \in Nat
    OBVIOUS
  <1> QED BY <1>1, <1>2, IsASeq

(* A damaged file does not open.                                           *)
LEMMA DamagedRefused ==
  ASSUME StoreTypeOK, Opens(LinesOf(file))
  PROVE  ~Damaged
  BY LinesOfFile DEF StoreTypeOK, Opens, Damaged

(* open() rebuilds an index that covers every line of the file, and so     *)
(* every accepted event.                                                   *)
LEMMA OpenKeeps == StoreInv /\ Open =>
  StoreInv' /\ \A i \in DOMAIN LinesOf(file) : Covers(LinesOf(file)[i])'
  <1> SUFFICES ASSUME StoreInv, Open
               PROVE  StoreInv' /\ \A i \in DOMAIN LinesOf(file) : Covers(LinesOf(file)[i])'
    OBVIOUS
  <1> DEFINE lines == LinesOf(file)
  <1>1. file \in Files /\ lines \in Seq(Lines) /\ lines \in Seq(Events)
    BY LinesOfFile, OpenedEvents DEF StoreInv, StoreTypeOK, Open
  <1>2. \A i \in DOMAIN lines : lines[i].id \in Ids /\ lines[i].ns \in Namespaces
    <2> HIDE DEF lines
    <2>1. \A i \in DOMAIN lines : lines[i] \in Events
      BY <1>1
    <2> QED BY <2>1 DEF Events
  <1>3. UNCHANGED <<file, accepted, faults>> /\ opened' = TRUE
    BY DEF Open
  <1>4. seen' = {lines[i].id : i \in DOMAIN lines}
    BY DEF Open
  <1>5. last' = [ns \in Namespaces |-> LastSequence(lines, ns)]
    BY DEF Open
  <1>6. \A ns \in Namespaces :
          /\ last'[ns] \in 0 .. MaxSequence
          /\ \A i \in DOMAIN lines : lines[i].ns = ns => lines[i].seq <= last'[ns]
    <2> TAKE ns \in Namespaces
    <2>1. last'[ns] = LastSequence(lines, ns)
      BY <1>5
    <2> HIDE DEF lines
    <2> QED BY <1>1, <2>1, LastSequenceBound
  <1>7. \A i \in DOMAIN lines : Covers(lines[i])'
    <2> TAKE i \in DOMAIN lines
    <2>1. lines'[i] = lines[i]
      BY <1>3 DEF LinesOf
    <2> HIDE DEF lines
    <2> QED BY <1>2, <1>4, <1>6, <2>1 DEF Covers
  <1>8. StoreTypeOK'
    <2>1. last' \in [Namespaces -> 0 .. MaxSequence]
      BY <1>5, <1>6
    <2>2. seen' \in SUBSET Ids
      BY <1>2, <1>4
    <2> QED BY <1>3, <2>1, <2>2 DEF StoreInv, StoreTypeOK
  <1>9. Indexed'
    <2>1. ~Damaged
      BY DamagedRefused DEF StoreInv, Open
    <2>2. \A a \in DOMAIN accepted : \E i \in DOMAIN lines : lines[i] = accepted[a]
      BY <1>1, <2>1, LinesOfFile DEF StoreInv, KeptUnlessDamaged
    <2> HIDE DEF lines
    <2> QED BY <1>3, <1>4, <1>6, <1>2, <2>2 DEF Indexed, Covers
  <1> QED BY <1>3, <1>7, <1>8, <1>9 DEF StoreInv, KeptUnlessDamaged, Damaged, AcceptedInOrder

(* append() takes an event that comes after every accepted one.            *)
LEMMA AppendKeeps ==
  ASSUME NEW ev \in Events, StoreInv, AppendEvent(ev)
  PROVE  StoreInv'
  <1>1. /\ file' = AppendWhole(file, ev) /\ seen' = seen \cup {ev.id}
        /\ last' = [last EXCEPT ![ev.ns] = ev.seq]
        /\ accepted' = Append(accepted, ev) /\ UNCHANGED <<opened, faults>>
        /\ opened /\ CheckIndex(ev)
    BY DEF AppendEvent
  <1>2. /\ ev.id \in Ids /\ ev.ns \in Namespaces /\ ev.seq \in 1 .. MaxSequence
        /\ file \in Files /\ accepted \in Seq(Events)
        /\ last \in [Namespaces -> 0 .. MaxSequence]
    BY DEF Events, StoreInv, StoreTypeOK
  <1>3. /\ file' \in AppendFailures(file, ev) /\ file' \in Files
        /\ Len(file.lines) + 1 \in DOMAIN file'.lines
        /\ file'.lines[Len(file.lines) + 1] \in {ev, Garbage}
        /\ \A i \in DOMAIN file.lines : i \in DOMAIN file'.lines /\ file'.lines[i] = file.lines[i]
    BY <1>1, <1>2, AppendWholeHolds, AppendOutcomes
  <1>4. StoreTypeOK'
    BY <1>1, <1>2, <1>3 DEF StoreInv, StoreTypeOK
  <1>5. /\ DOMAIN accepted' = 1 .. Len(accepted) + 1 /\ DOMAIN accepted = 1 .. Len(accepted)
        /\ accepted'[Len(accepted) + 1] = ev
        /\ \A a \in DOMAIN accepted : accepted'[a] = accepted[a] /\ accepted[a] \in Events
    BY <1>1, <1>2, AppendProperties
  <1>6. KeptUnlessDamaged'
    BY <1>3, <1>5 DEF StoreInv, KeptUnlessDamaged, Damaged
  <1>7. \A a \in DOMAIN accepted : InOrder(accepted[a], ev) /\ Covers(accepted[a])
    BY <1>1, <1>2, <1>5 DEF StoreInv, Indexed, Covers, InOrder, CheckIndex, Events
  <1>8. Indexed'
    <2>1. \A ns \in Namespaces : last'[ns] = IF ns = ev.ns THEN ev.seq ELSE last[ns]
      BY <1>1, <1>2
    <2>2. \A a \in DOMAIN accepted : accepted'[a].id \in seen' /\ accepted'[a].seq <= last'[accepted'[a].ns]
      BY <1>1, <1>2, <1>5, <1>7, <2>1 DEF InOrder, Covers, Events
    <2>3. ev.id \in seen' /\ ev.seq <= last'[ev.ns]
      BY <1>1, <1>2, <2>1
    <2> QED BY <1>5, <2>2, <2>3 DEF Indexed, Covers
  <1>9. AcceptedInOrder'
    BY <1>5, <1>7 DEF StoreInv, AcceptedInOrder, InOrder
  <1> QED BY <1>4, <1>6, <1>8, <1>9 DEF StoreInv

(* A failed append disturbs nothing that was accepted.                     *)
LEMMA FailedWriteKeeps ==
  ASSUME NEW ev \in Events, StoreInv, WriteFails(ev), accepted' = accepted
  PROVE  file' \in Files /\ faults' \in Nat /\ KeptUnlessDamaged' /\ AcceptedInOrder'
  <1>1. file \in Files /\ file' \in AppendFailures(file, ev) /\ faults' = faults + 1
    BY DEF WriteFails, Fault, StoreInv, StoreTypeOK
  <1>2. /\ file' \in Files
        /\ \A i \in DOMAIN file.lines : i \in DOMAIN file'.lines /\ file'.lines[i] = file.lines[i]
    BY <1>1, AppendOutcomes
  <1> QED BY <1>1, <1>2
      DEF StoreInv, StoreTypeOK, KeptUnlessDamaged, Damaged, AcceptedInOrder

(* The index dies with its process.                                        *)
LEMMA CloseKeeps == StoreInv /\ Close =>
  Indexed' /\ opened' \in BOOLEAN /\ seen' \in SUBSET Ids
    /\ last' \in [Namespaces -> 0 .. MaxSequence]
  <1> SUFFICES ASSUME Close PROVE Indexed' /\ opened' \in BOOLEAN /\ seen' \in SUBSET Ids
                                    /\ last' \in [Namespaces -> 0 .. MaxSequence]
    OBVIOUS
  <1>1. opened' = FALSE /\ seen' = {} /\ last' = [ns \in Namespaces |-> 0]
    BY DEF Close
  <1>2. last' \in [Namespaces -> 0 .. MaxSequence]
    BY <1>1, StoreConstants
  <1>3. Indexed'
    BY <1>1 DEF Indexed
  <1> QED BY <1>1, <1>2, <1>3

LEMMA StoreStep == StoreInv /\ [StoreNext]_store => StoreInv'
  <1> SUFFICES ASSUME StoreInv, [StoreNext]_store PROVE StoreInv'
    OBVIOUS
  <1>1. CASE Open
    BY <1>1, OpenKeeps
  <1>2. CASE End
    BY <1>2, CloseKeeps
    DEF End, StoreInv, StoreTypeOK, KeptUnlessDamaged, Damaged, AcceptedInOrder
  <1>3. ASSUME NEW ev \in Events, AppendEvent(ev) PROVE StoreInv'
    BY <1>3, AppendKeeps
  <1>4. ASSUME NEW ev \in Events, AppendFails(ev) PROVE StoreInv'
    BY <1>4, FailedWriteKeeps DEF AppendFails, StoreInv, StoreTypeOK, Indexed, Covers
  <1>5. CASE UNCHANGED store
    BY <1>5 DEF store, StoreInv, StoreTypeOK, KeptUnlessDamaged, Damaged, Indexed, Covers,
                AcceptedInOrder
  <1> QED BY <1>1, <1>2, <1>3, <1>4, <1>5 DEF StoreNext, OpenRefused

(* The type of the store and its inductive invariant.                      *)
THEOREM StoreSound == StoreSpec => []StoreInv
  BY StoreInvInit, StoreStep, PTL DEF StoreSpec

(* store.rs check_index() and index(): over all processes and all failed   *)
(* appends, what append() accepted has distinct identifiers and increasing *)
(* sequences per namespace.                                                *)
THEOREM StoreAcceptedInOrder == StoreSpec => []AcceptedInOrder
  <1>1. StoreInv => AcceptedInOrder
    BY DEF StoreInv
  <1> QED BY StoreSound, <1>1, PTL

(* store.rs append() and open(): a file that opens holds every accepted    *)
(* event.                                                                  *)
THEOREM StoreAcceptedKept == StoreSpec => []AcceptedKept
  <1>1. StoreInv => AcceptedKept
    BY DamagedRefused DEF StoreInv, KeptUnlessDamaged, AcceptedKept
  <1> QED BY StoreSound, <1>1, PTL

-----------------------------------------------------------------------------
(* The gateway.                                                            *)

(* The engine's next state and the printed record are typed.               *)
LEMMA EvaluationType ==
  ASSUME NEW state \in States, NEW ev \in Events
  PROVE  /\ Advance(state, ev) \in States
         /\ Output(state, ev) \in [event : Events, revision : Nat, effect : {"ALLOW", "DENY"},
                                   evidence : Seq(Ids)]
  <1>1. ev.id \in Ids
    BY DEF Events
  <1>2. Advance(state, ev) \in States
    BY <1>1 DEF Advance, States
  <1>3. \A id \in Ids \cup {NoEvent} : Listed(id) \in Seq(Ids)
    BY DEF Listed
  <1>4. Listed(state.exec) \in Seq(Ids) /\ Listed(state.network) \in Seq(Ids)
    BY <1>3 DEF States
  <1>5. Evidence(state, ev) \in Seq(Ids)
    BY <1>1, <1>4 DEF Evidence
  <1> QED BY <1>2, <1>5 DEF Output, States

LEMMA GatewayInit == Init => GatewayInv
  <1> SUFFICES ASSUME Init PROVE GatewayInv
    OBVIOUS
  <1>1. StoreInv
    BY StoreInvInit DEF Init
  <1>2. outputs = <<>> /\ DOMAIN outputs = {} /\ Len(outputs) = 0 /\ born = 0
    BY DEF Init
  <1>3. LinesOf(file) = <<>> /\ DOMAIN LinesOf(file) = {} /\ opened = FALSE
    BY DEF Init, StoreInit, EmptyFile, LinesOf
  <1>4. engine \in [Namespaces -> States]
    BY DEF Init, FreshEngine, FreshState, States
  <1>5. TypeOK
    BY <1>1, <1>2, <1>4 DEF TypeOK, StoreInv, Init
  <1> QED BY <1>1, <1>2, <1>3, <1>5
      DEF GatewayInv, NoReplayInFile, FileCovered, EvaluatedInOrder, OutputsAccepted,
          InHandSound, EngineSound, DenyIffChain, Init

(* What a reader sees after an append, complete or not: what was there, or *)
(* the event at the end, or damage.                                        *)
LEMMA AppendSeen ==
  ASSUME NEW f \in Files, NEW ev \in Events, NEW g \in AppendFailures(f, ev)
  PROVE  \A i \in DOMAIN LinesOf(g) :
           \/ LinesOf(g)[i] = Garbage
           \/ i \in DOMAIN LinesOf(f) /\ LinesOf(g)[i] = LinesOf(f)[i]
           \/ i = Len(f.lines) + 1 /\ f.tail = NoTail /\ LinesOf(g)[i] = ev
  <1>1. f.lines \in Seq(Lines) /\ f.tail \in Events \cup {NoTail, Torn}
    BY DEF Files
  <1>2. NoTail \notin Events /\ NoTail # Torn /\ Torn \notin Events
    BY StoreMarkers
  <1>3. \A x : /\ DOMAIN Append(f.lines, x) = 1 .. Len(f.lines) + 1
               /\ Append(f.lines, x)[Len(f.lines) + 1] = x
               /\ \A i \in 1 .. Len(f.lines) : Append(f.lines, x)[i] = f.lines[i]
    BY <1>1
  <1>4. Len(f.lines) \in Nat /\ DOMAIN f.lines = 1 .. Len(f.lines)
    BY <1>1
  <1>5. CASE g = f
    BY <1>5
  <1>6. CASE g = AppendTorn(f)
    BY <1>2, <1>3, <1>4, <1>6 DEF AppendTorn, LinesOf
  <1>7. CASE g = AppendUnterminated(f, ev)
    BY <1>1, <1>2, <1>3, <1>4, <1>7 DEF AppendUnterminated, LinesOf
  <1>8. CASE g = AppendWhole(f, ev)
    BY <1>1, <1>2, <1>3, <1>4, <1>8 DEF AppendWhole, LinesOf
  <1> QED BY <1>5, <1>6, <1>7, <1>8 DEF AppendFailures

(* A checked event does not repeat what the file holds, whatever becomes   *)
(* of its append.                                                          *)
LEMMA NoReplayKept ==
  ASSUME GatewayInv, NEW ev \in Events, opened, CheckIndex(ev),
         file' \in AppendFailures(file, ev)
  PROVE  NoReplayInFile'
  <1>1. file \in Files
    BY DEF GatewayInv, StoreInv, StoreTypeOK
  <1> DEFINE old == LinesOf(file)
             new == LinesOf(file')
  <1>2. LinesOf(file)' = new
    BY DEF LinesOf
  <1>3. \A i \in DOMAIN new :
           \/ new[i] = Garbage
           \/ i \in DOMAIN old /\ new[i] = old[i]
           \/ i = Len(file.lines) + 1 /\ file.tail = NoTail /\ new[i] = ev
    BY <1>1, AppendSeen
  <1>4. old \in Seq(Lines) /\ (file.tail = NoTail => DOMAIN old = 1 .. Len(file.lines))
    BY <1>1, LinesOfFile DEF LinesOf, Files
  <1>5. \A i \in DOMAIN old : old[i] # Garbage => Covers(old[i]) /\ old[i] \in Events
    BY <1>4 DEF GatewayInv, FileCovered, Lines
  <1>6. \A i, j \in DOMAIN old :
           i < j /\ old[i] # Garbage /\ old[j] # Garbage => InOrder(old[i], old[j])
    BY DEF GatewayInv, NoReplayInFile
  <1>7. \A i \in DOMAIN old : old[i] # Garbage => InOrder(old[i], ev)
    BY <1>5 DEF Covers, CheckIndex, InOrder, Events, GatewayInv, StoreInv, StoreTypeOK
  <1>8. Garbage # ev /\ file' \in Files
    BY <1>1, StoreMarkers, AppendOutcomes
  <1>9. new \in Seq(Lines)
    BY <1>8, LinesOfFile
  <1> HIDE DEF old, new
  <1>10. \A i, j \in DOMAIN new :
           i < j /\ new[i] # Garbage /\ new[j] # Garbage => InOrder(new[i], new[j])
    <2> TAKE i, j \in DOMAIN new
    <2> HAVE i < j /\ new[i] # Garbage /\ new[j] # Garbage
    <2>1. i \in Nat /\ j \in Nat /\ Len(file.lines) \in Nat
      BY <1>1, <1>9 DEF Files
    <2>2. CASE i \in DOMAIN old /\ new[i] = old[i] /\ j \in DOMAIN old /\ new[j] = old[j]
      BY <1>6, <2>2
    <2>3. CASE i \in DOMAIN old /\ new[i] = old[i] /\ new[j] = ev
      BY <1>7, <2>3
    <2>4. CASE i = Len(file.lines) + 1 /\ file.tail = NoTail
      BY <1>3, <1>4, <2>1, <2>4
    <2> QED BY <1>3, <2>2, <2>3, <2>4
  <1> QED BY <1>2, <1>10 DEF NoReplayInFile
-----------------------------------------------------------------------------
(* Start: the index covers the file, the engine has been shown nothing.    *)
LEMMA StartKeeps == GatewayInv /\ Start => GatewayInv'
  <1> SUFFICES ASSUME GatewayInv, Start PROVE GatewayInv'
    OBVIOUS
  <1>1. /\ Open /\ ~opened /\ opened' = TRUE /\ born' = Len(outputs)
        /\ UNCHANGED <<file, accepted, engine, cur, outputs>>
    BY DEF Start, Open
  <1>2. StoreInv'
    BY <1>1, OpenKeeps DEF GatewayInv
  <1>3. TypeOK'
    <2>1. born' \in 0 .. Len(outputs)
      BY <1>1 DEF GatewayInv, TypeOK
    <2> QED BY <1>1, <1>2, <2>1 DEF GatewayInv, TypeOK, StoreInv
  <1>4. NoReplayInFile'
    BY <1>1 DEF GatewayInv, NoReplayInFile, LinesOf
  <1>5. FileCovered'
    BY <1>1, OpenKeeps DEF FileCovered, GatewayInv, LinesOf
  <1>6. EvaluatedInOrder' /\ OutputsAccepted'
    BY <1>1 DEF GatewayInv, EvaluatedInOrder, OutputsAccepted, Accepted
  <1>7. cur' = NoEvent
    BY <1>1 DEF GatewayInv, InHandSound
  <1>8. EngineSound'
    <2>1. Len(outputs) \in Nat /\ (born + 1 .. Len(outputs))' = {}
      BY <1>1 DEF GatewayInv, TypeOK
    <2>2. \A ns \in Namespaces : engine'[ns].exec = NoEvent /\ engine'[ns].network = NoEvent
      BY <1>1 DEF GatewayInv, EngineSound, FreshEngine, FreshState
    <2> QED BY <1>1, <2>1, <2>2 DEF EngineSound, ShownExec, ShownChain
  <1>9. DenyIffChain'
    <2>1. Len(outputs) \in Nat /\ (born + 1 .. Len(outputs))' = {}
      BY <1>1 DEF GatewayInv, TypeOK
    <2> QED BY <2>1 DEF DenyIffChain
  <1> QED BY <1>2, <1>3, <1>4, <1>5, <1>6, <1>7, <1>8, <1>9 DEF GatewayInv, InHandSound

(* Store: the new event comes after everything accepted.                   *)
LEMMA StoreKeeps ==
  ASSUME GatewayInv, NEW ev \in Events, Store(ev)
  PROVE  GatewayInv'
  <1>1. /\ AppendEvent(ev) /\ opened /\ opened' = opened /\ cur' = ev
        /\ accepted' = Append(accepted, ev)
        /\ CheckIndex(ev) /\ file' = AppendWhole(file, ev)
        /\ seen' = seen \cup {ev.id} /\ last' = [last EXCEPT ![ev.ns] = ev.seq]
        /\ UNCHANGED <<engine, outputs, born>>
    BY DEF Store, AppendEvent
  <1>2. StoreInv'
    BY <1>1, AppendKeeps DEF GatewayInv
  <1>3. TypeOK'
    BY <1>1, <1>2 DEF GatewayInv, TypeOK, StoreInv
  <1>4. file \in Files /\ file' \in AppendFailures(file, ev)
    BY <1>1, AppendWholeHolds DEF GatewayInv, StoreInv, StoreTypeOK
  <1>5. NoReplayInFile'
    BY <1>1, <1>4, NoReplayKept
  <1>6. ASSUME NEW e \in Events, Covers(e) PROVE Covers(e)' /\ InOrder(e, ev)
    BY <1>1, <1>6 DEF Covers, InOrder, CheckIndex, Events, GatewayInv, StoreInv, StoreTypeOK
  <1>7. Covers(ev)'
    BY <1>1 DEF Covers, Events, GatewayInv, StoreInv, StoreTypeOK
  <1>8. FileCovered'
    <2> DEFINE old == LinesOf(file)
               new == LinesOf(file')
    <2>1. LinesOf(file)' = new
      BY DEF LinesOf
    <2>2. old \in Seq(Lines) /\ \A i \in DOMAIN old : old[i] # Garbage => Covers(old[i])
      BY <1>1, <1>4, LinesOfFile DEF GatewayInv, FileCovered
    <2>3. \A i \in DOMAIN old : old[i] # Garbage => old[i] \in Events
      BY <2>2 DEF Lines
    <2>4. \A i \in DOMAIN new :
            \/ new[i] = Garbage
            \/ i \in DOMAIN old /\ new[i] = old[i]
            \/ new[i] = ev
      BY <1>4, AppendSeen
    <2> HIDE DEF old, new
    <2>5. \A i \in DOMAIN new : new[i] # Garbage => new[i].id \in seen' /\ new[i].seq <= last'[new[i].ns]
      BY <1>6, <1>7, <2>2, <2>3, <2>4 DEF Covers
    <2> QED BY <2>1, <2>5 DEF FileCovered, Covers
  <1>9. /\ accepted \in Seq(Events) /\ accepted' \in Seq(Events)
        /\ DOMAIN accepted' = 1 .. Len(accepted) + 1 /\ DOMAIN accepted = 1 .. Len(accepted)
        /\ accepted'[Len(accepted) + 1] = ev
        /\ \A a \in DOMAIN accepted : accepted'[a] = accepted[a]
    BY <1>1, AppendProperties DEF GatewayInv, StoreInv, StoreTypeOK
  <1>10. EvaluatedInOrder'
    BY <1>1 DEF GatewayInv, EvaluatedInOrder
  <1>11. OutputsAccepted'
    BY <1>1, <1>9 DEF GatewayInv, OutputsAccepted, Accepted
  <1>12. InHandSound'
    <2>1. \A n \in DOMAIN outputs : InOrder(outputs[n].event, ev)
      <3> TAKE n \in DOMAIN outputs
      <3>1. PICK a \in DOMAIN accepted : accepted[a] = outputs[n].event
        BY DEF GatewayInv, OutputsAccepted, Accepted
      <3>2. accepted[a] \in Events /\ Covers(accepted[a])
        BY <1>1, <1>9 DEF GatewayInv, StoreInv, Indexed
      <3> QED BY <1>6, <3>1, <3>2
    <2>2. Accepted(ev)'
      BY <1>9 DEF Accepted, GatewayInv, StoreInv, StoreTypeOK
    <2> QED BY <1>1, <2>1, <2>2 DEF InHandSound
  <1>13. EngineSound' /\ DenyIffChain'
    BY <1>1 DEF GatewayInv, EngineSound, ShownExec, ShownChain, FreshEngine, DenyIffChain,
                Printed, CompletesChain
  <1> QED BY <1>2, <1>3, <1>5, <1>8, <1>10, <1>11, <1>12, <1>13 DEF GatewayInv

(* StoreFails and Exit: the process is gone, what it printed stays.        *)
LEMMA GoneKeeps ==
  ASSUME GatewayInv, Gone, StoreTypeOK', accepted' = accepted, KeptUnlessDamaged',
         AcceptedInOrder', NoReplayInFile'
  PROVE  GatewayInv'
  <1>1. opened' = FALSE /\ engine' = FreshEngine /\ cur' = NoEvent /\ UNCHANGED <<outputs, born>>
    BY DEF Gone, Close
  <1>2. StoreInv' /\ FileCovered'
    BY <1>1 DEF StoreInv, Indexed, FileCovered
  <1>3. TypeOK'
    <2>1. engine' \in [Namespaces -> States]
      BY <1>1 DEF FreshEngine, FreshState, States
    <2> QED BY <1>1, <2>1 DEF GatewayInv, TypeOK
  <1>4. EvaluatedInOrder' /\ OutputsAccepted' /\ InHandSound'
    BY <1>1 DEF GatewayInv, EvaluatedInOrder, OutputsAccepted, Accepted, InHandSound
  <1>5. EngineSound' /\ DenyIffChain'
    BY <1>1 DEF GatewayInv, EngineSound, FreshEngine, DenyIffChain, Printed, CompletesChain
  <1> QED BY <1>2, <1>3, <1>4, <1>5 DEF GatewayInv

LEMMA StoreFailsKeeps ==
  ASSUME GatewayInv, NEW ev \in Events, StoreFails(ev)
  PROVE  GatewayInv'
  <1>1. WriteFails(ev) /\ Gone /\ Close /\ accepted' = accepted /\ StoreInv
    BY DEF StoreFails, Gone, GatewayInv
  <1>2. file' \in Files /\ faults' \in Nat /\ KeptUnlessDamaged' /\ AcceptedInOrder'
    BY <1>1, FailedWriteKeeps
  <1>3. StoreTypeOK'
    BY <1>1, <1>2, CloseKeeps DEF StoreInv, StoreTypeOK
  <1>4. NoReplayInFile'
    BY <1>1, NoReplayKept DEF WriteFails
  <1> QED BY <1>1, <1>2, <1>3, <1>4, GoneKeeps

LEMMA ExitKeeps == GatewayInv /\ Exit => GatewayInv'
  <1> SUFFICES ASSUME GatewayInv, Exit PROVE GatewayInv'
    OBVIOUS
  <1>1. Gone /\ Close /\ UNCHANGED <<file, accepted, faults>> /\ StoreInv
    BY DEF Exit, Gone, GatewayInv
  <1>2. StoreTypeOK'
    BY <1>1, CloseKeeps DEF StoreInv, StoreTypeOK
  <1>3. KeptUnlessDamaged' /\ AcceptedInOrder' /\ NoReplayInFile'
    BY <1>1 DEF GatewayInv, StoreInv, KeptUnlessDamaged, Damaged, AcceptedInOrder,
                NoReplayInFile, LinesOf
  <1> QED BY <1>1, <1>2, <1>3, GoneKeeps
-----------------------------------------------------------------------------
(* The reference of DenyIffChain, in terms of positions in outputs.        *)
LEMMA ChainShown ==
  ASSUME NEW n \in Nat, born \in Nat, born <= n, NEW ev
  PROVE  CompletesChain(Printed(born, n), ev)
           <=> ev.op = "credential" /\ ShownChain(ev.ns, n)
  <1> DEFINE shown == Printed(born, n)
  <1>1. DOMAIN shown = 1 .. n - born /\ \A i \in 1 .. n - born : shown[i] = outputs[born + i].event
    BY DEF Printed
  <1>2. ASSUME CompletesChain(shown, ev) PROVE ShownChain(ev.ns, n)
    <2> HIDE DEF shown
    <2>1. PICK i, j \in DOMAIN shown :
            /\ i < j /\ shown[i].ns = ev.ns /\ shown[j].ns = ev.ns
            /\ shown[i].op = "exec" /\ shown[j].op = "connect"
      BY <1>2 DEF CompletesChain
    <2>2. /\ born + i \in born + 1 .. n /\ born + j \in born + 1 .. n /\ born + i < born + j
          /\ shown[i] = outputs[born + i].event /\ shown[j] = outputs[born + j].event
      BY <1>1, <2>1
    <2> QED BY <2>1, <2>2 DEF ShownChain
  <1>3. ASSUME ev.op = "credential", ShownChain(ev.ns, n) PROVE CompletesChain(shown, ev)
    <2> HIDE DEF shown
    <2>1. PICK i, j \in born + 1 .. n :
            /\ i < j /\ outputs[i].event.ns = ev.ns /\ outputs[j].event.ns = ev.ns
            /\ outputs[i].event.op = "exec" /\ outputs[j].event.op = "connect"
      BY <1>3 DEF ShownChain
    <2>2. /\ i - born \in DOMAIN shown /\ j - born \in DOMAIN shown /\ i - born < j - born
          /\ shown[i - born] = outputs[i].event /\ shown[j - born] = outputs[j].event
      BY <1>1, <2>1
    <2> QED BY <1>3, <2>1, <2>2 DEF CompletesChain
  <1> QED BY <1>2, <1>3 DEF CompletesChain

(* Evaluate: the engine is shown one event more and prints its decision.   *)
LEMMA EvaluateKeeps == GatewayInv /\ Evaluate => GatewayInv'
  <1> SUFFICES ASSUME GatewayInv, Evaluate PROVE GatewayInv'
    OBVIOUS
  <1> DEFINE old == engine[cur.ns]
             state == Advance(old, cur)
             output == Output(state, cur)
             N == Len(outputs)
  <1>1. /\ cur # NoEvent /\ opened /\ opened' = opened
        /\ engine' = [engine EXCEPT ![cur.ns] = state]
        /\ outputs' = Append(outputs, output) /\ cur' = NoEvent /\ born' = born
        /\ UNCHANGED <<file, seen, last, accepted, faults>>
    BY DEF Evaluate, store, GatewayInv, InHandSound
  <1>2. /\ cur \in Events /\ cur.ns \in Namespaces /\ cur.id # NoEvent
        /\ old \in States /\ N \in Nat /\ born \in Nat /\ born <= N
    BY <1>1, GatewayMarkers DEF GatewayInv, TypeOK, Events
  <1>3. /\ state \in States
        /\ output \in [event : Events, revision : Nat, effect : {"ALLOW", "DENY"},
                       evidence : Seq(Ids)]
    BY <1>2, EvaluationType
  <1>4. output.event = cur
    BY DEF Output
  <1>5. output.effect = "DENY" <=> cur.op = "credential" /\ state.network # NoEvent
    BY DEF Output, Elevated
  <1>6. /\ state.exec # NoEvent <=> old.exec # NoEvent \/ cur.op = "exec"
        /\ state.network # NoEvent
             <=> old.network # NoEvent \/ (cur.op = "connect" /\ old.exec # NoEvent)
    BY <1>2 DEF Advance
  <1> HIDE DEF state, output
  <1>7. /\ Len(outputs') = N + 1 /\ DOMAIN outputs' = 1 .. N + 1 /\ DOMAIN outputs = 1 .. N
        /\ outputs'[N + 1] = output
        /\ \A n \in 1 .. N : outputs'[n] = outputs[n]
        /\ outputs' \in Seq([event : Events, revision : Nat, effect : {"ALLOW", "DENY"},
                             evidence : Seq(Ids)])
    BY <1>1, <1>3, AppendProperties DEF GatewayInv, TypeOK
  <1>8. StoreInv'
    BY <1>1 DEF GatewayInv, StoreInv, StoreTypeOK, KeptUnlessDamaged, Damaged, Indexed, Covers,
                AcceptedInOrder
  <1>9. TypeOK'
    <2>1. engine' \in [Namespaces -> States] /\ born' \in 0 .. Len(outputs')
      BY <1>1, <1>2, <1>3, <1>7 DEF GatewayInv, TypeOK
    <2> QED BY <1>1, <1>7, <1>8, <2>1 DEF TypeOK, StoreInv
  <1>10. NoReplayInFile' /\ FileCovered'
    BY <1>1 DEF GatewayInv, NoReplayInFile, FileCovered, LinesOf, Covers
  <1>11. EvaluatedInOrder'
    <2>1. \A n \in 1 .. N : InOrder(outputs[n].event, cur)
      BY <1>1, <1>7 DEF GatewayInv, InHandSound
    <2>2. \A i, j \in 1 .. N : i < j => InOrder(outputs[i].event, outputs[j].event)
      BY <1>7 DEF GatewayInv, EvaluatedInOrder
    <2>3. ASSUME NEW i \in 1 .. N + 1, NEW j \in 1 .. N + 1, i < j
          PROVE  InOrder(outputs'[i].event, outputs'[j].event)
      <3>1. i \in 1 .. N /\ outputs'[i] = outputs[i]
        <4>1. N \in Nat
          BY <1>2
        <4>2. i \in 1 .. N
          BY <2>3, <4>1
        <4> QED BY <1>7, <4>2
      <3>2. CASE j = N + 1
        BY <1>4, <1>7, <2>1, <3>1, <3>2
      <3>3. CASE j \in 1 .. N
        BY <1>7, <2>2, <2>3, <3>1, <3>3
      <3> QED BY <1>2, <3>2, <3>3
    <2> QED BY <1>7, <2>3 DEF EvaluatedInOrder
  <1>12. OutputsAccepted' /\ InHandSound'
    BY <1>1, <1>2, <1>4, <1>7 DEF GatewayInv, OutputsAccepted, InHandSound, Accepted
  <1>13. \A ns \in Namespaces :
           /\ ShownExec(ns, Len(outputs))'
                <=> ShownExec(ns, N) \/ (ns = cur.ns /\ cur.op = "exec")
           /\ ShownChain(ns, Len(outputs))'
                <=> ShownChain(ns, N) \/ (ns = cur.ns /\ cur.op = "connect" /\ ShownExec(ns, N))
    <2> TAKE ns \in Namespaces
    <2>1. \A n \in born + 1 .. N : n \in 1 .. N /\ outputs'[n] = outputs[n] /\ n \in born + 1 .. N + 1
      BY <1>2, <1>7
    <2>2. N + 1 \in born + 1 .. N + 1 /\ outputs'[N + 1].event = cur
      BY <1>2, <1>4, <1>7
    <2>3. \A n \in born + 1 .. N + 1 : n = N + 1 \/ n \in born + 1 .. N
      BY <1>2
    <2>4. ShownExec(ns, Len(outputs))'
            <=> \E i \in born + 1 .. N + 1 : outputs'[i].event.ns = ns /\ outputs'[i].event.op = "exec"
      BY <1>1, <1>7 DEF ShownExec
    <2>5. ShownChain(ns, Len(outputs))'
            <=> \E i, j \in born + 1 .. N + 1 :
                  /\ i < j /\ outputs'[i].event.ns = ns /\ outputs'[j].event.ns = ns
                  /\ outputs'[i].event.op = "exec" /\ outputs'[j].event.op = "connect"
      BY <1>1, <1>7 DEF ShownChain
    <2>6. ShownExec(ns, Len(outputs))' <=> ShownExec(ns, N) \/ (ns = cur.ns /\ cur.op = "exec")
      BY <2>1, <2>2, <2>3, <2>4 DEF ShownExec
    <2>7. ASSUME ShownChain(ns, Len(outputs))'
          PROVE  ShownChain(ns, N) \/ (ns = cur.ns /\ cur.op = "connect" /\ ShownExec(ns, N))
      <3>1. PICK i, j \in born + 1 .. N + 1 :
                  /\ i < j /\ outputs'[i].event.ns = ns /\ outputs'[j].event.ns = ns
                  /\ outputs'[i].event.op = "exec" /\ outputs'[j].event.op = "connect"
        BY <2>5, <2>7
      <3>2. i \in born + 1 .. N
        BY <1>2, <3>1
      <3>3. CASE j = N + 1
        BY <2>1, <2>2, <3>1, <3>2, <3>3 DEF ShownExec
      <3>4. CASE j \in born + 1 .. N
        BY <2>1, <3>1, <3>2, <3>4 DEF ShownChain
      <3> QED BY <2>3, <3>3, <3>4
    <2>8. ASSUME ShownChain(ns, N) PROVE ShownChain(ns, Len(outputs))'
      BY <2>1, <2>5, <2>8 DEF ShownChain
    <2>9. ASSUME ns = cur.ns, cur.op = "connect", ShownExec(ns, N)
          PROVE  ShownChain(ns, Len(outputs))'
      <3>1. PICK i \in born + 1 .. N : outputs[i].event.ns = ns /\ outputs[i].event.op = "exec"
        BY <2>9 DEF ShownExec
      <3>2. i < N + 1
        BY <1>2
      <3> QED BY <2>1, <2>2, <2>5, <2>9, <3>1, <3>2
    <2> QED BY <2>6, <2>7, <2>8, <2>9
  <1>14. \A ns \in Namespaces :
           /\ engine[ns].exec # NoEvent <=> ShownExec(ns, N)
           /\ engine[ns].network # NoEvent <=> ShownChain(ns, N)
    BY <1>1 DEF GatewayInv, EngineSound
  <1>15. EngineSound'
    <2>1. ASSUME NEW ns \in Namespaces
          PROVE  /\ engine'[ns].exec # NoEvent <=> ShownExec(ns, Len(outputs))'
                 /\ engine'[ns].network # NoEvent <=> ShownChain(ns, Len(outputs))'
      <3>1. engine'[ns] = IF ns = cur.ns THEN state ELSE engine[ns]
        BY <1>1, <1>2 DEF GatewayInv, TypeOK
      <3>2. CASE ns = cur.ns
        BY <1>6, <1>13, <1>14, <3>1, <3>2
      <3>3. CASE ns # cur.ns
        BY <1>13, <1>14, <3>1, <3>3
      <3> QED BY <3>2, <3>3
    <2> QED BY <1>1, <2>1 DEF EngineSound
  <1>16. DenyIffChain'
    <2>1. ASSUME NEW n \in born + 1 .. N + 1
          PROVE  outputs'[n].effect = "DENY"
                   <=> CompletesChain(Printed(born, n - 1)', outputs'[n].event)
      <3>1. \A i \in 1 .. n - 1 - born : outputs'[born + i] = outputs[born + i]
        <4> HIDE DEF N
        <4>1. \A i \in 1 .. n - 1 - born : born + i \in 1 .. N
          BY <1>2
        <4> QED BY <1>7, <4>1
      <3>2. Printed(born, n - 1)' = Printed(born, n - 1)
        BY <1>1, <3>1 DEF Printed
      <3>3. CASE n \in born + 1 .. N
        BY <1>2, <1>7, <3>2, <3>3 DEF GatewayInv, DenyIffChain
      <3>4. CASE n = N + 1
        <4>1. CompletesChain(Printed(born, N), cur) <=> cur.op = "credential" /\ ShownChain(cur.ns, N)
          BY <1>2, ChainShown
        <4>2. outputs'[n] = output /\ outputs'[n].event = cur /\ n - 1 = N
          BY <1>2, <1>4, <1>7, <3>4
        <4>3. output.effect = "DENY" <=> cur.op = "credential" /\ ShownChain(cur.ns, N)
          BY <1>2, <1>5, <1>6, <1>14
        <4> QED BY <3>2, <4>1, <4>2, <4>3
      <3> QED BY <1>2, <3>3, <3>4
    <2> HIDE DEF N
    <2>2. (born + 1 .. Len(outputs))' = born + 1 .. N + 1
      BY <1>1, <1>7
    <2> QED BY <2>1, <2>2 DEF DenyIffChain
  <1> QED BY <1>8, <1>9, <1>10, <1>11, <1>12, <1>15, <1>16 DEF GatewayInv

LEMMA GatewayStep == GatewayInv /\ [Next]_vars => GatewayInv'
  <1> SUFFICES ASSUME GatewayInv, [Next]_vars PROVE GatewayInv'
    OBVIOUS
  <1>1. CASE Start
    BY <1>1, StartKeeps
  <1>2. CASE Evaluate
    BY <1>2, EvaluateKeeps
  <1>3. CASE Exit
    BY <1>3, ExitKeeps
  <1>4. ASSUME NEW ev \in Events, Store(ev) PROVE GatewayInv'
    BY <1>4, StoreKeeps
  <1>5. ASSUME NEW ev \in Events, StoreFails(ev) PROVE GatewayInv'
    BY <1>5, StoreFailsKeeps
  <1>6. CASE UNCHANGED vars
    <2>1. UNCHANGED <<file, opened, seen, last, accepted, faults, engine, cur, outputs, born>>
      BY <1>6 DEF vars, store
    <2>2. TypeOK' /\ StoreInv'
      BY <2>1 DEF GatewayInv, TypeOK, StoreInv, StoreTypeOK, KeptUnlessDamaged, Damaged, Indexed,
                  Covers, AcceptedInOrder
    <2>3. NoReplayInFile' /\ FileCovered' /\ EvaluatedInOrder' /\ OutputsAccepted' /\ InHandSound'
      BY <2>1 DEF GatewayInv, NoReplayInFile, FileCovered, LinesOf, Covers, EvaluatedInOrder,
                  OutputsAccepted, Accepted, InHandSound
    <2>4. EngineSound' /\ DenyIffChain'
      BY <2>1 DEF GatewayInv, EngineSound, ShownExec, ShownChain, FreshEngine, DenyIffChain,
                  Printed, CompletesChain
    <2> QED BY <2>2, <2>3, <2>4 DEF GatewayInv
  <1>7. StartRefused => UNCHANGED vars
    BY DEF StartRefused, OpenRefused, vars
  <1> QED BY <1>1, <1>2, <1>3, <1>4, <1>5, <1>6, <1>7 DEF Next
-----------------------------------------------------------------------------
(* Every reachable state satisfies the inductive invariant, TypeOK         *)
(* included.                                                               *)
THEOREM GatewaySound == Spec => []GatewayInv
  BY GatewayInit, GatewayStep, PTL DEF Spec

(* Over all processes, crashes and failed appends, the gateway's file, the *)
(* engine's state and what was printed keep their types.                   *)
THEOREM GatewayTypeOK == Spec => []TypeOK
  <1>1. GatewayInv => TypeOK
    BY DEF GatewayInv
  <1> QED BY GatewaySound, <1>1, PTL

(* agb-gateway.rs run() ends at the first failed append: so no file it     *)
(* leaves is refused by open() as a replay.                                *)
THEOREM GatewayNoReplay == Spec => []NoReplayInFile
  <1>1. GatewayInv => NoReplayInFile
    BY DEF GatewayInv
  <1> QED BY GatewaySound, <1>1, PTL

(* agb-gateway.rs run(): over all processes, no event is evaluated twice   *)
(* or out of order.                                                        *)
THEOREM GatewayEvaluatedInOrder == Spec => []EvaluatedInOrder
  <1>1. GatewayInv => EvaluatedInOrder
    BY DEF GatewayInv
  <1> QED BY GatewaySound, <1>1, PTL

(* state.rs update() with AuditPolicy: DENY exactly when the process was   *)
(* shown exec, connect, credential in this order in one namespace.         *)
THEOREM GatewayDenyIffChain == Spec => []DenyIffChain
  <1>1. GatewayInv => DenyIffChain
    BY DEF GatewayInv
  <1> QED BY GatewaySound, <1>1, PTL
=============================================================================
