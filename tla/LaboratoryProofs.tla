-------------------------- MODULE LaboratoryProofs --------------------------
(***************************************************************************)
(* The four laboratories of Gate 4, proved for every number of threads,    *)
(* workloads, intervals and faults.  For each program an inductive         *)
(* invariant relates the states of its processes, what is on its way       *)
(* between them and what has been written down; the properties of          *)
(* MCLaboratories follow from it.  A last part puts the four together.     *)
(***************************************************************************)
EXTENDS MCLaboratories, FiniteSetTheorems, SequenceTheorems, TLAPS

-----------------------------------------------------------------------------

(***************************************************************************)
(* The campaign.                                                           *)
(***************************************************************************)

(* Where a run is before its first exception or the end of its loop.       *)
Underway == {"setup", "launch", "loop", "poll", "probe", "append", "live", "sleep"}

CampaignStates ==
  Underway \cup {"idle", "except", "teardown", "artifacts", "summary", "status"}

(* The records of the files, without a type for the digests.               *)
FilesSound ==
  /\ heartbeats = [there |-> heartbeats.there, torn |-> heartbeats.torn, rows |-> heartbeats.rows]
  /\ heartbeats.there \in BOOLEAN /\ heartbeats.torn \in BOOLEAN
  /\ \E S : heartbeats.rows \in Seq(S)

(* Every row on disk is of the present run and follows the one before it.  *)
RowsSound ==
  \A i \in 1 .. Len(heartbeats.rows) :
    heartbeats.rows[i] =
      Runner!Heartbeat(run, i, IF i = 1 THEN Runner!Zero ELSE heartbeats.rows[i - 1].sha256)

(* The runner's memory is that of its file until an append fails.          *)
MemorySound ==
  /\ samples = Len(heartbeats.rows)
  /\ pc \in Underway \/ (pc \in {"teardown", "artifacts", "summary"} /\ failures = {}) =>
       chain = Runner!HeadOf(heartbeats.rows)

(* No more heartbeats than intervals.                                      *)
Paced ==
  /\ pc \in {"setup", "launch"} => samples = 0
  /\ pc = "loop" => samples <= elapsed
  /\ pc \in {"poll", "probe", "append"} => samples <= elapsed /\ samples < Duration
  /\ pc = "live" => samples <= elapsed + 1
  /\ pc = "sleep" => samples <= wake
  /\ wake \in Nat

(* A flaw of the present run is known to it, until its summary is written. *)
FlawsKnown ==
  /\ flawed \subseteq 1 .. run
  /\ run \in flawed => pc \in {"idle", "except", "status"} \/ failures # {} \/ interrupted
  /\ pc = "summary" /\ complete => failures = {} /\ run \notin flawed
  /\ pc = "idle" \/ run >= 1

(* A summary without failures was earned, and its head names its run.      *)
SummaryHonest ==
  /\ summary.there =>
       /\ summary.run \in 1 .. run
       /\ summary.run = run => pc \in {"status", "idle"}
  /\ summary.there /\ summary.complete /\ summary.failures = {} =>
       /\ summary.run \notin flawed
       /\ summary.samples > 0 => summary.head[1] = summary.run

StatusSound ==
  /\ live.there => live.run \in 1 .. run /\ live.samples \in Nat
  /\ Runner!StatusBehindHeartbeats

(* What a run has started is in its list until it is ended.                *)
WorkloadsListed ==
  /\ pc # "idle" => alive \cap Runner!Own(Workloads) \subseteq Runner!Own(started)
  /\ pc \in {"artifacts", "summary", "status"} => alive \cap Runner!Own(Workloads) = {}
  /\ \A w \in alive : w[1] \in 1 .. run

CampaignInv ==
  /\ Runner!TypeOK /\ pc \in CampaignStates
  /\ FilesSound /\ RowsSound /\ MemorySound /\ Paced /\ FlawsKnown /\ SummaryHonest
  /\ StatusSound /\ WorkloadsListed
(* The state between two steps: the parts as facts.                        *)
CampaignBounds == Duration \in Nat /\ MaxRuns \in Nat /\ RunnerFaults \in Nat

(* An append that is cut off leaves the rows as they are.                  *)
LEMMA CutOffKeeps ==
  ASSUME FilesSound, NEW f \in Runner!CutOff(heartbeats)
  PROVE  /\ f.rows = heartbeats.rows
         /\ f = [there |-> f.there, torn |-> f.torn, rows |-> f.rows]
         /\ f.there \in BOOLEAN /\ f.torn \in BOOLEAN
<1>1. PICK t \in BOOLEAN :
        f = [heartbeats EXCEPT !.there = heartbeats.there \/ t, !.torn = heartbeats.torn \/ t]
  BY DEF Runner!CutOff
<1>2. f = [there |-> heartbeats.there \/ t, torn |-> heartbeats.torn \/ t,
           rows |-> heartbeats.rows]
  BY <1>1 DEF FilesSound
<1> QED BY <1>2 DEF FilesSound

(* One that succeeds adds its row at the end.                              *)
LEMMA AppendSyncAdds ==
  ASSUME FilesSound, NEW row, NEW f, f = Runner!AppendSync(heartbeats, row)
  PROVE  /\ Len(f.rows) = Len(heartbeats.rows) + 1
         /\ f.rows[Len(f.rows)] = row
         /\ \A i \in 1 .. Len(heartbeats.rows) : f.rows[i] = heartbeats.rows[i]
         /\ f = [there |-> f.there, torn |-> f.torn, rows |-> f.rows]
         /\ f.there \in BOOLEAN /\ f.torn \in BOOLEAN
         /\ \E S : f.rows \in Seq(S)
<1> DEFINE rows == heartbeats.rows
<1>1. PICK S : rows \in Seq(S)
  BY DEF FilesSound
<1>2. rows \in Seq(S \cup {row})
  BY <1>1
<1>3. f.rows = Append(rows, row)
  BY DEF Runner!AppendSync
<1>4. Append(rows, row) \in Seq(S \cup {row})
  BY <1>2
<1> QED BY <1>2, <1>3, <1>4 DEF FilesSound, Runner!AppendSync

(* What a step does to the heartbeats, and what follows for the run.       *)
LEMMA RowsStep ==
  ASSUME CampaignInv, Runner!Next, CampaignBounds
  PROVE  /\ FilesSound' /\ RowsSound'
         /\ \/ /\ heartbeats'.rows = heartbeats.rows /\ run' = run /\ samples' = samples
            \/ /\ \E m \in Runner!Manifests : Runner!Start(m)
               /\ heartbeats'.rows = << >>
            \/ /\ Runner!AppendHeartbeat /\ run' = run
               /\ pc' = "live" /\ samples' = samples + 1
               /\ Len(heartbeats'.rows) = Len(heartbeats.rows) + 1
               /\ \A i \in 1 .. Len(heartbeats.rows) : heartbeats'.rows[i] = heartbeats.rows[i]
               /\ heartbeats'.rows[Len(heartbeats'.rows)].sha256 = chain'
<1> USE DEF CampaignInv
<1>1. ASSUME NEW m \in Runner!Manifests, Runner!Start(m)
      PROVE  FilesSound' /\ RowsSound' /\ heartbeats'.rows = << >>
  <2>1. heartbeats' = [there |-> FALSE, torn |-> FALSE, rows |-> << >>]
    BY <1>1 DEF Runner!Start, Runner!Missing
  <2>2. << >> \in Seq({})
    OBVIOUS
  <2> QED BY <2>1, <2>2 DEF FilesSound, RowsSound
<1>2. ASSUME heartbeats'.rows = heartbeats.rows, run' = run,
             heartbeats' = heartbeats \/ heartbeats' \in Runner!CutOff(heartbeats)
      PROVE  FilesSound' /\ RowsSound'
  <2>1. FilesSound'
    BY <1>2, CutOffKeeps DEF FilesSound
  <2>2. RowsSound'
    BY <1>2 DEF RowsSound, Runner!Heartbeat, Runner!Digest
  <2> QED BY <2>1, <2>2
<1>3. ASSUME Runner!AppendHeartbeat
      PROVE  /\ FilesSound' /\ RowsSound' /\ run' = run
             /\ \/ heartbeats'.rows = heartbeats.rows /\ samples' = samples
                \/ /\ pc' = "live" /\ samples' = samples + 1
                   /\ Len(heartbeats'.rows) = Len(heartbeats.rows) + 1
                   /\ \A i \in 1 .. Len(heartbeats.rows) : heartbeats'.rows[i] = heartbeats.rows[i]
                   /\ heartbeats'.rows[Len(heartbeats'.rows)].sha256 = chain'
  <2> DEFINE row == Runner!Heartbeat(run, samples + 1, chain)
             rows == heartbeats.rows
  <2>1. run' = run
    BY <1>3 DEF Runner!AppendHeartbeat
  <2>2. CASE heartbeats' \in Runner!CutOff(heartbeats) /\ samples' = samples
    BY <1>2, <2>1, <2>2, CutOffKeeps
  <2>3. CASE heartbeats' = Runner!AppendSync(heartbeats, row) /\ pc' = "live"
               /\ samples' = samples + 1
    <3>1. /\ Len(heartbeats'.rows) = Len(rows) + 1
          /\ heartbeats'.rows[Len(heartbeats'.rows)] = row
          /\ \A i \in 1 .. Len(rows) : heartbeats'.rows[i] = rows[i]
          /\ FilesSound'
      BY <2>3, AppendSyncAdds DEF FilesSound
    <3>2. Len(rows) \in Nat /\ samples = Len(rows)
      BY DEF FilesSound, MemorySound
    <3>3. chain = IF Len(rows) = 0 THEN Runner!Zero ELSE rows[Len(rows)].sha256
      <4>1. chain = Runner!HeadOf(rows)
        BY <1>3 DEF Runner!AppendHeartbeat, MemorySound, Underway
      <4>2. PICK S : rows \in Seq(S)
        BY DEF FilesSound
      <4>3. rows = << >> <=> Len(rows) = 0
        BY <4>2
      <4> QED BY <4>1, <4>3 DEF Runner!HeadOf, Runner!Last
    <3>4. RowsSound'
      <4> SUFFICES ASSUME NEW i \in 1 .. Len(rows) + 1
                   PROVE  heartbeats'.rows[i] =
                            Runner!Heartbeat(run, i,
                              IF i = 1 THEN Runner!Zero ELSE heartbeats'.rows[i - 1].sha256)
        BY <2>1, <3>1 DEF RowsSound, Runner!Heartbeat, Runner!Digest
      <4>1. CASE i = Len(rows) + 1
        <5>1. heartbeats'.rows[i] = Runner!Heartbeat(run, i, chain)
          BY <3>1, <3>2, <4>1
        <5>2. chain = IF i = 1 THEN Runner!Zero ELSE heartbeats'.rows[i - 1].sha256
          BY <3>1, <3>2, <3>3, <4>1
        <5> QED BY <5>1, <5>2
      <4>2. CASE i # Len(rows) + 1
        <5>1. i \in 1 .. Len(rows) /\ (i # 1 => i - 1 \in 1 .. Len(rows))
          BY <3>2, <4>2
        <5> QED BY <3>1, <5>1 DEF RowsSound
      <4> QED BY <4>1, <4>2
    <3>5. row.sha256 = chain'
      BY <1>3 DEF Runner!AppendHeartbeat, Runner!Heartbeat
    <3> QED BY <2>1, <2>3, <3>1, <3>4, <3>5
  <2> QED BY <1>3, <2>2, <2>3 DEF Runner!AppendHeartbeat
<1>4. CASE Runner!Kill
  <2>1. run' = run /\ samples' = samples
    BY <1>4 DEF Runner!Kill, Runner!memory
  <2>2. heartbeats' = heartbeats \/ heartbeats' \in Runner!CutOff(heartbeats)
    BY <1>4 DEF Runner!Kill
  <2>3. heartbeats'.rows = heartbeats.rows
    BY <2>2, CutOffKeeps
  <2> QED BY <1>2, <2>1, <2>2, <2>3
<1>5. ASSUME UNCHANGED <<heartbeats, run, samples>>
      PROVE  FilesSound' /\ RowsSound' /\ heartbeats'.rows = heartbeats.rows /\ run' = run
               /\ samples' = samples
  BY <1>2, <1>5
<1>6. \/ \E m \in Runner!Manifests : Runner!Start(m)
      \/ Runner!AppendHeartbeat \/ Runner!Kill \/ UNCHANGED <<heartbeats, run, samples>>
  BY DEF Runner!Next, Runner!Runner, Runner!Setup, Runner!Launch, Runner!Loop, Runner!Poll,
     Runner!Probe, Runner!RecordFails, Runner!WriteLive, Runner!Wake, Runner!Except,
     Runner!Teardown, Runner!TeardownRaises, Runner!Judge, Runner!WriteSummary,
     Runner!WriteStatus, Runner!Tick, Runner!Signal, Runner!WorkloadExits, Runner!files,
     Runner!memory
<1> QED BY <1>1, <1>3, <1>4, <1>5, <1>6

(* The types of the runner's variables under every step.                   *)
LEMMA CampaignType ==
  ASSUME CampaignInv, Runner!Next, CampaignBounds
  PROVE  Runner!TypeOK' /\ pc' \in CampaignStates
<1> USE DEF CampaignBounds
<1>1. ASSUME NEW m \in Runner!Manifests, Runner!Start(m)
      PROVE  Runner!TypeOK' /\ pc' \in CampaignStates
  <2>1. heartbeats'.rows = << >>
    BY <1>1 DEF Runner!Start, Runner!Missing
  <2>2. {interrupted', raising', complete'} \subseteq BOOLEAN
    BY <1>1 DEF Runner!Start
  <2> QED BY <1>1, <2>1, <2>2 DEF Runner!Start, CampaignInv, Runner!TypeOK, Runner!Manifests,
     CampaignStates, Underway
<1>2. CASE Runner!Setup
  BY <1>2 DEF Runner!Setup, CampaignInv, Runner!TypeOK, CampaignStates, Underway, Runner!Fault,
     Runner!files
<1>3. CASE Runner!Launch
  BY <1>3 DEF Runner!Launch, CampaignInv, Runner!TypeOK, CampaignStates, Underway, Runner!Fault,
     Runner!files, Runner!memory, Runner!Own, FlawsKnown
<1>4. CASE Runner!Loop
  BY <1>4 DEF Runner!Loop, CampaignInv, Runner!TypeOK, CampaignStates, Underway, Runner!Fault,
     Runner!files, Runner!memory
<1>5. CASE Runner!Poll
  BY <1>5 DEF Runner!Poll, CampaignInv, Runner!TypeOK, CampaignStates, Underway, Runner!Fault
<1>6. CASE Runner!Probe
  BY <1>6 DEF Runner!Probe, CampaignInv, Runner!TypeOK, CampaignStates, Underway, Runner!Fault
<1>7. CASE Runner!RecordFails
  BY <1>7 DEF Runner!RecordFails, CampaignInv, Runner!TypeOK, CampaignStates, Underway,
     Runner!Fault, Runner!files
<1>8. CASE Runner!AppendHeartbeat
  <2>1. Len(heartbeats'.rows) <= Duration
    BY <1>8, RowsStep DEF CampaignInv, Runner!TypeOK, MemorySound, Paced, Runner!Start,
       Runner!AppendHeartbeat
  <2> QED BY <1>8, <2>1 DEF Runner!AppendHeartbeat, CampaignInv, Runner!TypeOK, CampaignStates,
     Underway, Runner!Fault, MemorySound, Paced
<1>9. CASE Runner!WriteLive
  BY <1>9 DEF Runner!WriteLive, CampaignInv, Runner!TypeOK, CampaignStates, Underway,
     Runner!Fault, Runner!memory
<1>10. CASE Runner!Wake
  BY <1>10 DEF Runner!Wake, CampaignInv, Runner!TypeOK, CampaignStates, Underway, Runner!Fault,
     Runner!files, Runner!memory
<1>11. CASE Runner!Except
  <2>1. {interrupted', raising', complete'} \subseteq BOOLEAN
    BY <1>11 DEF Runner!Except, CampaignInv, Runner!TypeOK
  <2>2. faults' \in 0 .. RunnerFaults
    BY <1>11 DEF Runner!Except, CampaignInv, Runner!TypeOK, Runner!Fault
  <2> QED BY <1>11, <2>1, <2>2 DEF Runner!Except, CampaignInv, Runner!TypeOK, CampaignStates
<1>12. CASE Runner!Teardown
  BY <1>12 DEF Runner!Teardown, CampaignInv, Runner!TypeOK, CampaignStates, Underway,
     Runner!Fault, Runner!Terminated
<1>13. CASE Runner!TeardownRaises
  BY <1>13 DEF Runner!TeardownRaises, CampaignInv, Runner!TypeOK, CampaignStates, Underway,
     Runner!Fault, Runner!Terminated, Runner!memory
<1>14. CASE Runner!Judge
  BY <1>14 DEF Runner!Judge, CampaignInv, Runner!TypeOK, CampaignStates, Underway, Runner!Fault,
     Runner!files
<1>15. CASE Runner!WriteSummary
  BY <1>15 DEF Runner!WriteSummary, CampaignInv, Runner!TypeOK, CampaignStates, Underway,
     Runner!Fault, Runner!memory
<1>16. CASE Runner!WriteStatus
  BY <1>16 DEF Runner!WriteStatus, CampaignInv, Runner!TypeOK, CampaignStates, Underway,
     Runner!Fault, Runner!memory
<1>17. CASE Runner!Tick
  BY <1>17 DEF Runner!Tick, CampaignInv, Runner!TypeOK, CampaignStates, Underway, Runner!Fault,
     Runner!files, Runner!memory
<1>18. CASE Runner!Signal
  BY <1>18 DEF Runner!Signal, CampaignInv, Runner!TypeOK, CampaignStates, Underway, Runner!Fault,
     Runner!files
<1>19. CASE Runner!Kill
  <2>1. heartbeats' = heartbeats \/ heartbeats' \in Runner!CutOff(heartbeats)
    BY <1>19 DEF Runner!Kill
  <2>2. heartbeats'.rows = heartbeats.rows
    BY <2>1, CutOffKeeps DEF CampaignInv
  <2> QED BY <1>19, <2>2 DEF Runner!Kill, CampaignInv, Runner!TypeOK, CampaignStates, Underway,
     Runner!Fault, Runner!memory
<1>20. CASE Runner!WorkloadExits
  BY <1>20 DEF Runner!WorkloadExits, CampaignInv, Runner!TypeOK, CampaignStates, Underway,
     Runner!Fault, Runner!files, Runner!memory
<1> QED BY <1>1, <1>2, <1>3, <1>4, <1>5, <1>6, <1>7, <1>8, <1>9, <1>10, <1>11, <1>12, <1>13,
           <1>14, <1>15, <1>16, <1>17, <1>18, <1>19, <1>20 DEF Runner!Next, Runner!Runner


(* The steps of a run that leave its files alone.                          *)
LEMMA MemoryStep ==
  ASSUME CampaignInv, Runner!Next, CampaignBounds
  PROVE  MemorySound'
<1> USE DEF CampaignInv
<1> DEFINE Known == \/ pc \in Underway
                    \/ pc \in {"teardown", "artifacts", "summary"} /\ failures = {}
<1>1. ASSUME NEW m \in Runner!Manifests, Runner!Start(m), heartbeats'.rows = << >>
      PROVE  MemorySound'
  BY <1>1 DEF Runner!Start, MemorySound, Runner!HeadOf
<1>2. ASSUME pc' = "live", samples' = samples + 1,
             Len(heartbeats'.rows) = Len(heartbeats.rows) + 1,
             heartbeats'.rows[Len(heartbeats'.rows)].sha256 = chain'
      PROVE  MemorySound'
  <2>1. heartbeats'.rows # << >>
    BY <1>2 DEF FilesSound
  <2> QED BY <1>2, <2>1 DEF MemorySound, Runner!HeadOf, Runner!Last
<1>3. ASSUME heartbeats'.rows = heartbeats.rows, samples' = samples,
             ~\E m \in Runner!Manifests : Runner!Start(m)
      PROVE  MemorySound'
  <2>1. samples' = Len(heartbeats'.rows)
    BY <1>3 DEF MemorySound
  <2>2. CASE Runner!AppendHeartbeat
    <3>1. pc' = "except"
      BY <1>3, <2>2 DEF Runner!AppendHeartbeat, Runner!TypeOK
    <3> QED BY <2>1, <3>1 DEF MemorySound, Underway
  <2>3. CASE ~Runner!AppendHeartbeat
    <3>1. chain' = chain
      BY <1>3, <2>3 DEF Runner!Next, Runner!Runner, Runner!Setup, Runner!Launch, Runner!Loop,
         Runner!Poll, Runner!Probe, Runner!RecordFails, Runner!WriteLive, Runner!Wake,
         Runner!Except, Runner!Teardown, Runner!TeardownRaises, Runner!Judge,
         Runner!WriteSummary, Runner!WriteStatus, Runner!Tick, Runner!Signal, Runner!Kill,
         Runner!WorkloadExits, Runner!memory
    <3>2. Known' => Known
      <4>1. ASSUME Runner!Runner PROVE Known' => Known
        BY <2>3, <4>1 DEF Runner!Runner, Runner!Setup, Runner!Launch, Runner!Loop,
           Runner!Poll, Runner!Probe, Runner!RecordFails, Runner!WriteLive, Runner!Wake,
           Runner!Except, Runner!Teardown, Runner!TeardownRaises, Runner!Judge,
           Runner!WriteSummary, Runner!WriteStatus, Runner!memory, Underway
      <4>2. ASSUME Runner!Tick \/ Runner!Signal \/ Runner!Kill \/ Runner!WorkloadExits
            PROVE  Known' => Known
        BY <4>2 DEF Runner!Tick, Runner!Signal, Runner!Kill, Runner!WorkloadExits,
           Runner!memory, Underway
      <4> QED BY <1>3, <4>1, <4>2 DEF Runner!Next
    <3> QED BY <1>3, <2>1, <3>1, <3>2 DEF MemorySound, Runner!HeadOf
  <2> QED BY <2>2, <2>3
<1>4. heartbeats'.rows = heartbeats.rows /\ run' = run /\ samples' = samples
        => ~\E m \in Runner!Manifests : Runner!Start(m)
  BY DEF Runner!Start, Runner!TypeOK
<1> QED BY <1>1, <1>2, <1>3, <1>4, RowsStep

(* A row is appended at most once in an interval.                          *)
LEMMA PacedStep ==
  ASSUME CampaignInv, Runner!Next, CampaignBounds
  PROVE  Paced'
<1> USE DEF CampaignInv, CampaignBounds
<1>1. ASSUME NEW m \in Runner!Manifests, Runner!Start(m) PROVE Paced'
  BY <1>1 DEF Runner!Start, Paced
<1>2. ASSUME Runner!Runner PROVE Paced'
  BY <1>2 DEF Runner!Runner, Runner!Setup, Runner!Launch, Runner!Loop,
     Runner!Poll, Runner!Probe, Runner!RecordFails, Runner!AppendHeartbeat, Runner!WriteLive,
     Runner!Wake, Runner!Except, Runner!Teardown, Runner!TeardownRaises, Runner!Judge,
     Runner!WriteSummary, Runner!WriteStatus, Runner!memory, Paced, Runner!TypeOK
<1>3. ASSUME Runner!Tick \/ Runner!Signal \/ Runner!Kill \/ Runner!WorkloadExits
      PROVE  Paced'
  BY <1>3 DEF Runner!Tick, Runner!Signal, Runner!Kill, Runner!WorkloadExits, Runner!memory,
     Paced, Runner!TypeOK
<1> QED BY <1>1, <1>2, <1>3 DEF Runner!Next

(* Flaws are only added, and only to the present run.                      *)
LEMMA FlawsOnlyOfRun ==
  ASSUME Runner!Next
  PROVE  flawed' \subseteq flawed \cup {run}
BY DEF Runner!Next, Runner!Start, Runner!Runner, Runner!Setup, Runner!Launch, Runner!Loop,
   Runner!Poll, Runner!Probe, Runner!RecordFails, Runner!AppendHeartbeat, Runner!WriteLive,
   Runner!Wake, Runner!Except, Runner!Teardown, Runner!TeardownRaises, Runner!Judge,
   Runner!WriteSummary, Runner!WriteStatus, Runner!Tick, Runner!Signal, Runner!Kill,
   Runner!WorkloadExits, Runner!Flaw

(* A flaw noticed in a run is in what the run will report.                 *)
LEMMA FlawsStep ==
  ASSUME CampaignInv, Runner!Next, CampaignBounds
  PROVE  FlawsKnown'
<1> USE DEF CampaignInv, CampaignBounds
<1> DEFINE Rest ==
      /\ run \in flawed => pc \in {"idle", "except", "status"} \/ failures # {} \/ interrupted
      /\ pc = "summary" /\ complete => failures = {} /\ run \notin flawed
      /\ pc = "idle" \/ run >= 1
<1>1. ASSUME NEW m \in Runner!Manifests, Runner!Start(m) PROVE Rest'
  BY <1>1 DEF Runner!Start, FlawsKnown, Runner!TypeOK
<1>2. ASSUME Runner!Runner PROVE Rest'
  <2>1. CASE Runner!Setup
    BY <2>1 DEF Runner!Setup, FlawsKnown, Runner!TypeOK, Runner!Flaw
  <2>2. CASE Runner!Launch
    BY <2>2 DEF Runner!Launch, FlawsKnown, Runner!TypeOK, Runner!Flaw, Runner!memory
  <2>3. CASE Runner!Loop \/ Runner!Wake
    BY <2>3 DEF Runner!Loop, Runner!Wake, FlawsKnown, Runner!TypeOK, Runner!memory
  <2>4. CASE Runner!Poll
    BY <2>4 DEF Runner!Poll, FlawsKnown, Runner!TypeOK
  <2>5. CASE Runner!Probe \/ Runner!RecordFails
    BY <2>5 DEF Runner!Probe, Runner!RecordFails, FlawsKnown, Runner!TypeOK, Runner!Flaw
  <2>6. CASE Runner!AppendHeartbeat
    BY <2>6 DEF Runner!AppendHeartbeat, FlawsKnown, Runner!TypeOK, Runner!Flaw
  <2>7. CASE Runner!WriteLive
    BY <2>7 DEF Runner!WriteLive, FlawsKnown, Runner!TypeOK, Runner!Flaw, Runner!memory
  <2>8. CASE Runner!Except
    BY <2>8 DEF Runner!Except, FlawsKnown, Runner!TypeOK
  <2>9. CASE Runner!Teardown
    BY <2>9 DEF Runner!Teardown, FlawsKnown, Runner!TypeOK, Runner!Flaw
  <2>10. CASE Runner!TeardownRaises
    BY <2>10 DEF Runner!TeardownRaises, FlawsKnown, Runner!TypeOK, Runner!Flaw, Runner!memory
  <2>11. CASE Runner!Judge
    BY <2>11 DEF Runner!Judge, FlawsKnown, Runner!TypeOK, Runner!Flaw
  <2>12. CASE Runner!WriteSummary \/ Runner!WriteStatus
    BY <2>12 DEF Runner!WriteSummary, Runner!WriteStatus, FlawsKnown, Runner!TypeOK,
       Runner!memory
  <2> QED BY <1>2, <2>1, <2>2, <2>3, <2>4, <2>5, <2>6, <2>7, <2>8, <2>9, <2>10, <2>11, <2>12
          DEF Runner!Runner
<1>3. ASSUME Runner!Tick \/ Runner!Signal \/ Runner!Kill \/ Runner!WorkloadExits
      PROVE  Rest'
  BY <1>3 DEF Runner!Tick, Runner!Signal, Runner!Kill, Runner!WorkloadExits, Runner!memory,
     FlawsKnown, Runner!TypeOK
<1>4. flawed' \subseteq 1 .. run'
  <2>1. pc = "idle" => flawed' = flawed
    BY DEF Runner!Next, Runner!Start, Runner!Runner, Runner!Setup, Runner!Launch, Runner!Loop,
       Runner!Poll, Runner!Probe, Runner!RecordFails, Runner!AppendHeartbeat, Runner!WriteLive,
       Runner!Wake, Runner!Except, Runner!Teardown, Runner!TeardownRaises, Runner!Judge,
       Runner!WriteSummary, Runner!WriteStatus, Runner!Tick, Runner!Signal, Runner!Kill,
       Runner!WorkloadExits, Runner!memory, FlawsKnown, Runner!TypeOK
  <2>2. run' = run \/ run' = run + 1
    BY RowsStep DEF Runner!Start
  <2>3. flawed' \subseteq 1 .. run
    <3>1. pc # "idle" => run \in 1 .. run
      BY DEF FlawsKnown, Runner!TypeOK
    <3> QED BY <2>1, <3>1, FlawsOnlyOfRun DEF FlawsKnown
  <2> QED BY <2>2, <2>3 DEF Runner!TypeOK
<1>5. Rest'
  BY <1>1, <1>2, <1>3 DEF Runner!Next
<1> QED BY <1>4, <1>5 DEF FlawsKnown


(* The fields of a row on disk.                                            *)
LEMMA RowAt ==
  ASSUME RowsSound, NEW i \in 1 .. Len(heartbeats.rows)
  PROVE  LET row == heartbeats.rows[i] IN
         /\ row.run = run /\ row.sample = i
         /\ row.previous = IF i = 1 THEN Runner!Zero ELSE heartbeats.rows[i - 1].sha256
         /\ row.sha256 = Runner!Digest(run, i, row.previous)
<1> DEFINE previous == IF i = 1 THEN Runner!Zero ELSE heartbeats.rows[i - 1].sha256
<1>1. heartbeats.rows[i] = Runner!Heartbeat(run, i, previous)
  BY DEF RowsSound
<1> HIDE DEF previous
<1>2. heartbeats.rows[i] = [run |-> run, sample |-> i, previous |-> previous,
                            sha256 |-> Runner!Digest(run, i, previous)]
  BY <1>1 DEF Runner!Heartbeat
<1> QED BY <1>2 DEF previous

(* A summary is written once, at the end, from what is in memory.          *)
LEMMA SummaryStep ==
  ASSUME CampaignInv, Runner!Next, CampaignBounds
  PROVE  SummaryHonest'
<1> USE DEF CampaignInv, CampaignBounds
<1>1. run' = run \/ run' = run + 1
  BY RowsStep DEF Runner!Start
<1>2. CASE UNCHANGED summary
  <2>1. pc \in {"status", "idle"} => flawed' = flawed
    BY DEF Runner!Next, Runner!Start, Runner!Runner, Runner!Setup, Runner!Launch,
       Runner!Loop, Runner!Poll, Runner!Probe, Runner!RecordFails, Runner!AppendHeartbeat,
       Runner!WriteLive, Runner!Wake, Runner!Except, Runner!Teardown, Runner!TeardownRaises,
       Runner!Judge, Runner!WriteSummary, Runner!WriteStatus, Runner!Tick, Runner!Signal,
       Runner!Kill, Runner!WorkloadExits
  <2>2. ASSUME summary.there, summary.complete, summary.failures = {}
        PROVE  summary.run \notin flawed'
    BY <2>1, <2>2, FlawsOnlyOfRun DEF SummaryHonest
  <2>3. pc \in {"status", "idle"} => pc' \in {"status", "idle"} \/ run' = run + 1
    BY DEF Runner!Next, Runner!Start, Runner!Runner, Runner!Setup, Runner!Launch,
       Runner!Loop, Runner!Poll, Runner!Probe, Runner!RecordFails, Runner!AppendHeartbeat,
       Runner!WriteLive, Runner!Wake, Runner!Except, Runner!Teardown, Runner!TeardownRaises,
       Runner!Judge, Runner!WriteSummary, Runner!WriteStatus, Runner!Tick, Runner!Signal,
       Runner!Kill, Runner!WorkloadExits
  <2>4. ASSUME summary.there
        PROVE  /\ summary.run \in 1 .. run'
               /\ summary.run = run' => pc' \in {"status", "idle"}
    BY <1>1, <2>3, <2>4 DEF SummaryHonest, Runner!TypeOK
  <2> QED BY <1>2, <2>2, <2>4 DEF SummaryHonest
<1>3. CASE summary' # summary
  <2>1. /\ pc = "summary" /\ pc' = "status" /\ UNCHANGED <<flawed, Runner!memory>>
        /\ summary' = [there |-> TRUE, run |-> run, formal |-> mode = "formal",
                       complete |-> complete, samples |-> samples, head |-> chain,
                       failures |-> failures, interrupted |-> interrupted]
    BY <1>3 DEF Runner!Next, Runner!Start, Runner!Runner, Runner!Setup, Runner!Launch,
       Runner!Loop, Runner!Poll, Runner!Probe, Runner!RecordFails, Runner!AppendHeartbeat,
       Runner!WriteLive, Runner!Wake, Runner!Except, Runner!Teardown, Runner!TeardownRaises,
       Runner!Judge, Runner!WriteSummary, Runner!WriteStatus, Runner!Tick, Runner!Signal,
       Runner!Kill, Runner!WorkloadExits, Runner!files
  <2>2. ASSUME failures = {}, complete
        PROVE  run \notin flawed /\ run \in 1 .. run /\ (samples > 0 => chain[1] = run)
    <3>1. run \notin flawed /\ run \in 1 .. run
      BY <2>1, <2>2 DEF FlawsKnown, Runner!TypeOK
    <3>2. ASSUME samples > 0 PROVE chain[1] = run
      <4>1. chain = Runner!HeadOf(heartbeats.rows) /\ samples = Len(heartbeats.rows)
        BY <2>1, <2>2 DEF MemorySound
      <4>2. chain = heartbeats.rows[samples].sha256
        BY <3>2, <4>1 DEF Runner!HeadOf, Runner!Last
      <4>3. samples \in 1 .. Len(heartbeats.rows)
        BY <3>2, <4>1 DEF Runner!TypeOK
      <4> QED BY <4>2, <4>3, RowAt DEF Runner!Digest
    <3> QED BY <3>1, <3>2
  <2>3. run \in 1 .. run
    BY <2>1 DEF FlawsKnown, Runner!TypeOK
  <2> QED BY <2>1, <2>2, <2>3 DEF SummaryHonest, Runner!memory
<1> QED BY <1>2, <1>3

(* The status file follows the heartbeats it counts.                       *)
LEMMA StatusStep ==
  ASSUME CampaignInv, Runner!Next, CampaignBounds
  PROVE  StatusSound'
<1> USE DEF CampaignInv, CampaignBounds
<1>1. run' = run \/ run' = run + 1
  BY RowsStep DEF Runner!Start
<1>2. CASE UNCHANGED live
  <2>1. live.there => live.run \in 1 .. run'
    BY <1>1 DEF StatusSound, Runner!TypeOK
  <2>2. ASSUME live.there, live.running, live.run = run'
        PROVE  /\ live.samples <= Len(heartbeats'.rows)
               /\ live.samples > 0 => live.head = heartbeats'.rows[live.samples].sha256
    <3>1. run' = run
      BY <1>1, <2>2 DEF StatusSound, Runner!TypeOK
    <3>2. /\ live.samples <= Len(heartbeats.rows)
          /\ live.samples > 0 => live.head = heartbeats.rows[live.samples].sha256
      BY <2>2, <3>1 DEF StatusSound, Runner!StatusBehindHeartbeats
    <3>3. ~\E m \in Runner!Manifests : Runner!Start(m)
      BY <3>1 DEF Runner!Start, Runner!TypeOK
    <3>4. CASE heartbeats'.rows = heartbeats.rows
      BY <3>2, <3>4
    <3>5. CASE /\ Len(heartbeats'.rows) = Len(heartbeats.rows) + 1
               /\ \A i \in 1 .. Len(heartbeats.rows) : heartbeats'.rows[i] = heartbeats.rows[i]
      BY <3>2, <3>5, <2>2 DEF StatusSound, MemorySound, Runner!TypeOK
    <3> QED BY <3>3, <3>4, <3>5, RowsStep
  <2> QED BY <1>2, <2>1, <2>2 DEF StatusSound, Runner!StatusBehindHeartbeats
<1>3. CASE live' # live
  <2>1. /\ UNCHANGED <<heartbeats, run>> /\ pc \in {"live", "status"}
        /\ live' = [there |-> TRUE, running |-> pc = "live", run |-> run, samples |-> samples,
                    head |-> chain]
    BY <1>3 DEF Runner!Next, Runner!Start, Runner!Runner, Runner!Setup, Runner!Launch,
       Runner!Loop, Runner!Poll, Runner!Probe, Runner!RecordFails, Runner!AppendHeartbeat,
       Runner!WriteLive, Runner!Wake, Runner!Except, Runner!Teardown, Runner!TeardownRaises,
       Runner!Judge, Runner!WriteSummary, Runner!WriteStatus, Runner!Tick, Runner!Signal,
       Runner!Kill, Runner!WorkloadExits, Runner!files, Runner!memory
  <2>2. run \in 1 .. run'
    BY <2>1 DEF FlawsKnown, Runner!TypeOK
  <2>3. ASSUME pc = "live"
        PROVE  /\ samples <= Len(heartbeats.rows)
               /\ samples > 0 => chain = heartbeats.rows[samples].sha256
    <3>1. chain = Runner!HeadOf(heartbeats.rows) /\ samples = Len(heartbeats.rows)
      BY <2>3 DEF MemorySound, Underway
    <3> QED BY <3>1 DEF Runner!HeadOf, Runner!Last, Runner!TypeOK
  <2>4. /\ live'.there /\ live'.run = run /\ live'.samples = samples /\ live'.head = chain
        /\ live'.running => pc = "live"
    BY <2>1
  <2>5. samples \in Nat
    BY DEF Runner!TypeOK
  <2>6. heartbeats' = heartbeats /\ run' = run
    BY <2>1
  <2>7. Runner!StatusBehindHeartbeats'
    BY <2>3, <2>4, <2>6 DEF Runner!StatusBehindHeartbeats
  <2> QED BY <2>2, <2>4, <2>5, <2>6, <2>7 DEF StatusSound
<1> QED BY <1>2, <1>3

(* A workload is listed when it starts, and ended before its run.          *)
LEMMA WorkloadsStep ==
  ASSUME CampaignInv, Runner!Next, CampaignBounds
  PROVE  /\ WorkloadsListed'
         /\ Runner!LeavesNone
<1> USE DEF CampaignInv, CampaignBounds
<1>1. ASSUME NEW m \in Runner!Manifests, Runner!Start(m)
      PROVE  WorkloadsListed' /\ Runner!LeavesNone
  BY <1>1 DEF Runner!Start, WorkloadsListed, Runner!Own, Runner!TypeOK, Runner!LeavesNone
<1>2. CASE Runner!Launch
  BY <1>2 DEF Runner!Launch, WorkloadsListed, Runner!Own, Runner!TypeOK, Runner!LeavesNone,
     Runner!memory, FlawsKnown
<1>3. CASE Runner!Poll
  BY <1>3 DEF Runner!Poll, WorkloadsListed, Runner!Own, Runner!LeavesNone
<1>4. CASE Runner!Teardown \/ Runner!TeardownRaises
  BY <1>4 DEF Runner!Teardown, Runner!TeardownRaises, Runner!Terminated, WorkloadsListed,
     Runner!Own, Runner!LeavesNone, Runner!memory
<1>5. CASE Runner!WorkloadExits
  BY <1>5 DEF Runner!WorkloadExits, WorkloadsListed, Runner!Own, Runner!LeavesNone,
     Runner!memory
<1>6. CASE Runner!Setup \/ Runner!Loop \/ Runner!Probe \/ Runner!RecordFails
             \/ Runner!AppendHeartbeat \/ Runner!WriteLive \/ Runner!Wake \/ Runner!Except
             \/ Runner!Judge \/ Runner!WriteSummary \/ Runner!WriteStatus
  <2>1. UNCHANGED <<run, alive, started>>
    BY <1>6 DEF Runner!Setup, Runner!Loop, Runner!Probe, Runner!RecordFails,
       Runner!AppendHeartbeat, Runner!WriteLive, Runner!Wake, Runner!Except, Runner!Judge,
       Runner!WriteSummary, Runner!WriteStatus, Runner!memory
  <2>2. /\ pc # "idle"
        /\ pc' \in {"artifacts", "summary", "status", "idle"}
             => pc \in {"artifacts", "summary", "status"}
    BY <1>6 DEF Runner!Setup, Runner!Loop, Runner!Probe, Runner!RecordFails,
       Runner!AppendHeartbeat, Runner!WriteLive, Runner!Wake, Runner!Except, Runner!Judge,
       Runner!WriteSummary, Runner!WriteStatus
  <2> QED BY <2>1, <2>2 DEF WorkloadsListed, Runner!Own, Runner!LeavesNone
<1>7. CASE Runner!Tick \/ Runner!Signal
  BY <1>7 DEF Runner!Tick, Runner!Signal, WorkloadsListed, Runner!Own, Runner!LeavesNone,
     Runner!memory
<1>8. CASE Runner!Kill
  BY <1>8 DEF Runner!Kill, WorkloadsListed, Runner!LeavesNone, Runner!memory
<1> QED BY <1>1, <1>2, <1>3, <1>4, <1>5, <1>6, <1>7, <1>8 DEF Runner!Next, Runner!Runner

(* No run has begun: there is no file and no workload.                     *)
LEMMA CampaignInit == Runner!Init /\ CampaignBounds => CampaignInv
<1> SUFFICES ASSUME Runner!Init, CampaignBounds PROVE CampaignInv
  OBVIOUS
<1> USE DEF Runner!Init, Runner!Missing, Runner!NoSummary, Runner!NoStatus, CampaignBounds
<1>1. Runner!TypeOK /\ pc \in CampaignStates
  <2>1. Len(heartbeats.rows) <= Duration
    OBVIOUS
  <2>2. {interrupted, raising, complete} \subseteq BOOLEAN
    OBVIOUS
  <2> QED BY <2>1, <2>2 DEF Runner!TypeOK, CampaignStates
<1>2. FilesSound
  <2>1. << >> \in Seq({})
    OBVIOUS
  <2> QED BY <2>1 DEF FilesSound
<1>3. RowsSound /\ MemorySound
  BY DEF RowsSound, MemorySound, Underway
<1>4. Paced /\ FlawsKnown /\ SummaryHonest
  BY DEF Paced, FlawsKnown, SummaryHonest
<1>5. StatusSound /\ WorkloadsListed
  BY DEF StatusSound, WorkloadsListed, Runner!StatusBehindHeartbeats
<1> QED BY <1>1, <1>2, <1>3, <1>4, <1>5 DEF CampaignInv

(* One step of the campaign.                                               *)
LEMMA CampaignStep ==
  ASSUME CampaignInv, Runner!Next, CampaignBounds
  PROVE  CampaignInv' /\ Runner!LeavesNone
BY CampaignType, RowsStep, MemoryStep, PacedStep, FlawsStep, SummaryStep, StatusStep,
   WorkloadsStep DEF CampaignInv

(* What the inductive invariant says of the files and the verdict.         *)
LEMMA CampaignHolds ==
  ASSUME CampaignInv
  PROVE  /\ Runner!TypeOK
         /\ Runner!SupportedIsEarned /\ Runner!HeartbeatsChained
         /\ Runner!StatusBehindHeartbeats
<1> USE DEF CampaignInv
<1>1. DOMAIN heartbeats.rows = 1 .. Len(heartbeats.rows)
  BY DEF FilesSound
<1>2. Runner!HeartbeatsChained
  BY <1>1, RowAt DEF Runner!HeartbeatsChained, Runner!Chained
<1>3. ASSUME Runner!Supported
      PROVE  /\ summary.run \notin flawed
             /\ \A i \in DOMAIN heartbeats.rows :
                  heartbeats.rows[i].run = summary.run /\ heartbeats.rows[i].sample = i
  <2>1. /\ summary.run \notin flawed
        /\ summary.samples > 0 => summary.head[1] = summary.run
        /\ Runner!HeadOf(heartbeats.rows) = summary.head
        /\ Len(heartbeats.rows) = summary.samples
    BY <1>3 DEF Runner!Supported, Runner!Verify, SummaryHonest
  <2>2. ASSUME NEW i \in DOMAIN heartbeats.rows
        PROVE  heartbeats.rows[i].run = run /\ heartbeats.rows[i].sample = i
    BY <1>1, RowAt
  <2>3. ASSUME NEW i \in DOMAIN heartbeats.rows PROVE summary.run = run
    <3>1. Len(heartbeats.rows) \in Nat /\ Len(heartbeats.rows) > 0
      BY <1>1 DEF FilesSound
    <3>2. heartbeats.rows[Len(heartbeats.rows)].sha256 = summary.head
      BY <2>1, <3>1 DEF Runner!HeadOf, Runner!Last
    <3>3. heartbeats.rows[Len(heartbeats.rows)].sha256[1] = run
      BY <3>1, RowAt DEF Runner!Digest
    <3> QED BY <2>1, <3>1, <3>2, <3>3
  <2> QED BY <2>1, <2>2, <2>3
<1> QED BY <1>2, <1>3 DEF Runner!SupportedIsEarned, StatusSound

-----------------------------------------------------------------------------
(***************************************************************************)
(* The pilot.                                                              *)
(***************************************************************************)

Effects == {"ALLOW", "ABSTAIN", "DENY"}
Pinned == Pilot!ProcessIdentity("target", 1, Pilot!Curl, TRUE)

PilotTypes ==
  /\ url \in {"loopback", "external"}
  /\ helper \in [pc : {"install", "fork", "await", "probe", "wait", "done"}, probe : BOOLEAN]
  /\ target \in [state : {"none", "held", "running", "exited", "killed"}, tries : Nat,
                 to : {url, "unix"}, code : Nat]
  /\ supervisor \in [pc : {"listener", "target", "loop", "judge", "send", "finally", "gone",
                           "ended", "killed"},
                     go : BOOLEAN, pinned : {Pilot!Unpinned, Pinned},
                     note : {"helper", "curl", "none"}, policy : Effects, effect : Effects,
                     blind : BOOLEAN, result : {"none", "proven", "refused"}]
  /\ decisions \in [denied : Nat, probed : Nat] /\ kernel \in [denied : Nat, probed : Nat]

Ready == [type |-> "ready"]
Forked == [type |-> "target"]
Failed == [type |-> "error"]
Reported == [type |-> "status", code |-> target.code, probe |-> helper.probe]

(* What the helper has said and the supervisor has not read yet.           *)
ChannelSound ==
  IF Pilot!Gone THEN channel = << >>
  ELSE CASE supervisor.pc = "listener" ->
              \/ helper.pc = "install" /\ channel = << >>
              \/ helper.pc = "fork" /\ channel = <<Ready>>
              \/ helper.pc = "await" /\ channel = <<Ready, Forked>>
              \/ helper.pc = "done" /\ channel \in {<<Failed>>, <<Ready, Failed>>}
         [] supervisor.pc = "target" ->
              \/ helper.pc = "fork" /\ channel = << >>
              \/ helper.pc = "await" /\ channel = <<Forked>>
              \/ helper.pc = "done" /\ channel = <<Failed>>
         [] supervisor.pc \in {"loop", "judge", "send"} ->
              \/ helper.pc \in {"await", "probe", "wait"} /\ channel = << >>
              \/ helper.pc = "done" /\ channel \in {<<Failed>>, <<Reported>>}
         [] OTHER ->
              \/ helper.pc \in {"await", "probe", "wait", "done"} /\ channel = << >>
              \/ helper.pc = "done" /\ channel \in {<<Failed>>, <<Reported>>}

(* GO is given when the loop begins, and the helper waits for it.          *)
GoSound ==
  /\ supervisor.pc \in {"loop", "judge", "send", "finally", "ended"} => supervisor.go
  /\ supervisor.pc \in {"listener", "target", "gone"} => ~supervisor.go
  /\ helper.pc \in {"probe", "wait"} => supervisor.go
  /\ supervisor.pc \in {"judge", "send"} => supervisor.note \in Pilot!Processes

(* The target is held until the probe has got through.                     *)
HeldSound ==
  /\ helper.pc \in {"install", "fork"} => target.state = "none" /\ target.tries = 0
  /\ helper.pc \in {"await", "probe"} => target.state = "held" /\ target.tries = 0
  /\ helper.pc \in {"install", "fork", "await"} => call["helper"] = "none"
  /\ target.state = "running" => helper.pc = "wait"
  /\ helper.pc = "wait" \/ target.tries > 0 => supervisor.go /\ call["helper"] = "allowed"
  /\ target.state = "held" => helper.pc \in {"await", "probe"}

(* What is about to be answered, while its call still waits.               *)
VerdictHolds ==
  supervisor.pc = "send" =>
    /\ supervisor.note = "helper" =>
         supervisor.effect = "ALLOW" /\ supervisor.policy \in {"ALLOW", "ABSTAIN"}
    /\ supervisor.note = "curl" /\ ~supervisor.blind =>
         /\ supervisor.effect # "DENY" => supervisor.effect = "ALLOW" /\ supervisor.policy = "ALLOW"
         /\ call["curl"] = "received" /\ target.to = "external" => supervisor.effect = "DENY"

(* What main() accepts stays as it was reported.                           *)
ResultSound ==
  /\ supervisor.pc \notin {"finally", "ended", "killed"} => supervisor.result = "none"
  /\ supervisor.result = "proven" =>
       /\ helper.pc = "done"
       /\ url = "external" => decisions.denied > 0 /\ target.code # 0
  /\ ~supervisor.blind =>
       decisions.denied = kernel.denied /\ decisions.probed <= kernel.probed

PilotInv ==
  /\ Pilot!TypeOK /\ PilotTypes
  /\ ChannelSound /\ GoSound /\ HeldSound /\ VerdictHolds /\ Pilot!OnlyTargetDenied
  /\ ResultSound


(* What may be found of a caller.                                          *)
VerdictSound(p, seen, verdict) ==
  /\ verdict.pinned \in {Pilot!Unpinned, Pinned}
  /\ verdict.policy \in Effects /\ verdict.effect \in Effects
  /\ p = "helper" => verdict.effect = "ALLOW" /\ verdict.policy \in {"ALLOW", "ABSTAIN"}
  /\ p = "curl" /\ seen # "no status" =>
       /\ verdict.effect # "DENY" => verdict.effect = "ALLOW" /\ verdict.policy = "ALLOW"
       /\ target.to = "external" => verdict.effect = "DENY"

(* A verdict: the pin stays that of curl, and the target fails closed.     *)
LEMMA VerdictType ==
  ASSUME supervisor.pinned \in {Pilot!Unpinned, Pinned},
         target.to \in {"loopback", "external", "unix"}
  PROVE  \A p \in Pilot!Processes, late \in BOOLEAN,
            seen \in {"good", "changed", "no address", "no status"} :
           VerdictSound(p, seen, Pilot!Verdict(p, seen, late))
<1> TAKE p \in Pilot!Processes, late \in BOOLEAN,
         seen \in {"good", "changed", "no address", "no status"}
<1> DEFINE scoped == p = "curl" /\ seen # "no status"
           found == IF seen = "changed" THEN Pilot!ArtifactIdentity("other", "other")
                    ELSE Pilot!Curl
           identity == Pilot!ProcessIdentity("target", 1, found, supervisor.pinned = Pilot!Unpinned)
           bound == Pilot!BindOrVerify("target", Pilot!Curl, supervisor.pinned, identity)
           policy == IF seen = "no address" THEN "ABSTAIN"
                     ELSE Pilot!Evaluate(p = "curl" /\ seen # "changed", target.to)
           failed == seen = "no address" \/ (scoped /\ ~bound.ok) \/ late
<1>1. Pilot!Verdict(p, seen, late) =
        [policy |-> policy, effect |-> Pilot!EnforcementEffect(policy, scoped, failed),
         pinned |-> IF scoped /\ seen # "no address" THEN bound.pinned ELSE supervisor.pinned]
  BY DEF Pilot!Verdict
<1>a. /\ identity.pid = "target" /\ identity.start = 1
      /\ identity.artifact = IF supervisor.pinned = Pilot!Unpinned THEN found
                             ELSE [found EXCEPT !.hash = Pilot!NoHash]
      /\ identity.artifact.file = found.file
      /\ identity = [pid |-> "target", start |-> 1, artifact |-> identity.artifact]
  BY DEF Pilot!ProcessIdentity, Pilot!ArtifactIdentity, Pilot!Curl
<1>b. Pinned = [pid |-> "target", start |-> 1, artifact |-> Pilot!Curl]
  BY DEF Pinned, Pilot!ProcessIdentity, Pilot!ArtifactIdentity, Pilot!Curl
<1>c. /\ Pilot!Curl.file = "curl"
      /\ seen = "changed" => found.file = "other" /\ found # Pilot!Curl
  BY DEF Pilot!ArtifactIdentity, Pilot!Curl
<1>2. bound.pinned \in {Pilot!Unpinned, Pinned}
  <2> HIDE DEF found, identity
  <2> QED BY <1>a, <1>b DEF Pilot!BindOrVerify
<1>3. seen = "changed" => ~bound.ok
  <2> HIDE DEF found, identity
  <2>1. CASE supervisor.pinned = Pilot!Unpinned
    BY <1>a, <1>c, <2>1 DEF Pilot!BindOrVerify
  <2>2. CASE supervisor.pinned # Pilot!Unpinned
    <3>1. supervisor.pinned.artifact.file = "curl"
      <4>1. supervisor.pinned = Pinned
        BY <2>2
      <4>2. Pinned.artifact = Pilot!Curl
        BY <1>b
      <4> QED BY <1>c, <4>1, <4>2
    <3> QED BY <1>a, <1>c, <2>2, <3>1 DEF Pilot!BindOrVerify
  <2> QED BY <2>1, <2>2
<1>4. policy \in Effects /\ (p = "helper" => policy \in {"ALLOW", "ABSTAIN"})
  BY DEF Effects, Pilot!Evaluate
<1>5. seen \notin {"changed", "no address"} /\ p = "curl" /\ target.to = "external" =>
        policy = "DENY"
  BY DEF Pilot!Evaluate
<1> HIDE DEF policy, failed, scoped, bound
<1>6. Pilot!EnforcementEffect(policy, scoped, failed) \in Effects
  BY <1>4 DEF Pilot!EnforcementEffect, Effects
<1>7. p = "helper" => Pilot!EnforcementEffect(policy, scoped, failed) = "ALLOW"
  BY DEF Pilot!EnforcementEffect, scoped
<1>8. ASSUME scoped
      PROVE  LET effect == Pilot!EnforcementEffect(policy, scoped, failed) IN
             /\ effect # "DENY" => effect = "ALLOW" /\ policy = "ALLOW"
             /\ target.to = "external" => effect = "DENY"
  BY <1>3, <1>4, <1>5, <1>8 DEF Pilot!EnforcementEffect, Effects, failed, scoped, Pilot!Processes
<1> DEFINE effect == Pilot!EnforcementEffect(policy, scoped, failed)
           pinned == IF scoped /\ seen # "no address" THEN bound.pinned ELSE supervisor.pinned
           verdict == Pilot!Verdict(p, seen, late)
<1>9. verdict.pinned = pinned /\ verdict.policy = policy /\ verdict.effect = effect
  <2>1. verdict = [policy |-> policy, effect |-> effect, pinned |-> pinned]
    BY <1>1
  <2> HIDE DEF effect, pinned, verdict, found, identity
  <2> QED BY <2>1
<1> HIDE DEF found, identity
<1>10. verdict.pinned \in {Pilot!Unpinned, Pinned}
  BY <1>2, <1>9
<1>11. (p = "curl" /\ seen # "no status") = scoped
  BY DEF scoped
<1> QED BY <1>4, <1>6, <1>7, <1>8, <1>9, <1>10, <1>11 DEF VerdictSound


PilotBounds == MaxConnects \in Nat /\ PilotFaults \in Nat

(* Each variable of the pilot keeps its type.                              *)
LEMMA PilotType ==
  ASSUME PilotInv, Pilot!Next, PilotBounds
  PROVE  PilotTypes'
<1> USE DEF PilotInv, PilotBounds, PilotTypes
<1>1. CASE Pilot!HelperFails
  BY <1>1 DEF Pilot!HelperFails, Pilot!Fault, Pilot!HelperExits, Pilot!Say, Pilot!Gone
<1>2. CASE Pilot!Install
  BY <1>2 DEF Pilot!Install, Pilot!Say, Pilot!Gone
<1>3. CASE Pilot!Fork
  BY <1>3 DEF Pilot!Fork, Pilot!Say, Pilot!Gone
<1>4. CASE Pilot!Probe
  BY <1>4 DEF Pilot!Probe
<1>5. CASE Pilot!NoGo
  <2>1. helper' = [helper EXCEPT !.pc = "done"] /\ UNCHANGED <<url, supervisor, decisions, kernel>>
    BY <1>5 DEF Pilot!NoGo, Pilot!HelperExits
  <2>2. target' = [state |-> "killed", tries |-> target.tries, to |-> target.to, code |-> 126]
    BY <1>5 DEF Pilot!NoGo
  <2> QED BY <2>1, <2>2
<1>6. CASE Pilot!ReleaseTarget
  <2>1. /\ helper' = [pc |-> "wait", probe |-> TRUE]
        /\ target' = [target EXCEPT !.state = "running"]
        /\ UNCHANGED <<url, supervisor, decisions, kernel>>
    BY <1>6 DEF Pilot!ReleaseTarget
  <2> QED BY <2>1
<1>7. CASE Pilot!ProbeFails
  <2>1. Pilot!Dropped \in [state : {"none", "held", "running", "exited", "killed"}, tries : Nat,
                           to : {url, "unix"}, code : Nat]
    <3> DEFINE state == IF target.state = "held" THEN "exited" ELSE target.state
    <3>1. Pilot!Dropped = [target EXCEPT !.state = state, !.code = 126]
      BY DEF Pilot!Dropped
    <3>2. state \in {"none", "held", "running", "exited", "killed"}
      OBVIOUS
    <3> HIDE DEF state
    <3> QED BY <3>1, <3>2
  <2> QED BY <1>7, <2>1 DEF Pilot!ProbeFails, Pilot!HelperExits, Pilot!Say, Pilot!Gone
<1>8. CASE Pilot!Connect
  <2>1. PICK to \in {url, "unix"} :
          target' = [target EXCEPT !.tries = target.tries + 1, !.to = to]
    BY <1>8 DEF Pilot!Connect
  <2>2. target' = [state |-> target.state, tries |-> target.tries + 1, to |-> to,
                   code |-> target.code]
    BY <2>1
  <2>3. UNCHANGED <<url, helper, supervisor, decisions, kernel>>
    BY <1>8 DEF Pilot!Connect
  <2> QED BY <2>2, <2>3
<1>9. CASE Pilot!Exit
  <2>1. PICK code \in {0, 7} : target' = [target EXCEPT !.state = "exited", !.code = code]
    BY <1>9 DEF Pilot!Exit
  <2>2. target' = [state |-> "exited", tries |-> target.tries, to |-> target.to, code |-> code]
    BY <2>1
  <2>3. UNCHANGED <<url, helper, supervisor, decisions, kernel>>
    BY <1>9 DEF Pilot!Exit
  <2> QED BY <2>2, <2>3
<1>10. CASE Pilot!Report
  BY <1>10 DEF Pilot!Report, Pilot!HelperExits, Pilot!Say, Pilot!Gone
<1>11. CASE Pilot!ReceiveListener
  BY <1>11 DEF Pilot!ReceiveListener, Pilot!Raises
<1>12. CASE Pilot!Go
  <2>1. /\ \/ supervisor' = [supervisor EXCEPT !.pc = "loop", !.go = TRUE]
           \/ supervisor' = [supervisor EXCEPT !.pc = "gone"]
        /\ UNCHANGED <<url, helper, target, decisions, kernel>>
    BY <1>12 DEF Pilot!Go, Pilot!Raises
  <2>2. CASE supervisor' = [supervisor EXCEPT !.pc = "gone"]
    BY <2>1, <2>2
  <2>3. CASE supervisor' = [supervisor EXCEPT !.pc = "loop", !.go = TRUE]
    <3> DEFINE yes == TRUE
    <3>1. yes \in BOOLEAN /\ supervisor' = [supervisor EXCEPT !.pc = "loop", !.go = yes]
      BY <2>3
    <3> HIDE DEF yes
    <3>2. supervisor' \in [pc : {"listener", "target", "loop", "judge", "send", "finally", "gone",
                                "ended", "killed"},
                          go : BOOLEAN, pinned : {Pilot!Unpinned, Pinned},
                          note : {"helper", "curl", "none"}, policy : Effects, effect : Effects,
                          blind : BOOLEAN, result : {"none", "proven", "refused"}]
      BY <3>1
    <3> QED BY <2>1, <3>2
  <2> QED BY <2>1, <2>2, <2>3
<1>13. CASE Pilot!Status
  BY <1>13 DEF Pilot!Status
<1>14. CASE Pilot!Drop
  BY <1>14 DEF Pilot!Drop
<1>15. CASE Pilot!Send
  BY <1>15 DEF Pilot!Send, Pilot!Answered, Pilot!Counted, Pilot!Listed
<1>16. CASE Pilot!Finally
  BY <1>16 DEF Pilot!Finally, Pilot!Blocked, Pilot!Processes
<1>17. CASE Pilot!SendRaises
  BY <1>17 DEF Pilot!SendRaises
<1>18. CASE Pilot!Kill
  BY <1>18 DEF Pilot!Kill, Pilot!Fault, Pilot!Gone
<1>19. ASSUME NEW p \in Pilot!Processes, Pilot!Interrupt(p) PROVE PilotTypes'
  BY <1>19 DEF Pilot!Interrupt, Pilot!Blocked, Pilot!Fault
<1>20. ASSUME NEW p \in Pilot!Processes, Pilot!Receive(p) PROVE PilotTypes'
  BY <1>20 DEF Pilot!Receive, Pilot!Processes
<1>21. ASSUME NEW seen \in {"good", "changed", "no address", "no status"}, NEW late \in BOOLEAN,
              Pilot!Judge(seen, late)
       PROVE  PilotTypes'
  <2> DEFINE verdict == Pilot!Verdict(supervisor.note, seen, late)
             blind == supervisor.blind \/ (supervisor.note = "curl" /\ seen = "no status")
  <2>1. /\ supervisor' = [supervisor EXCEPT !.pc = "send", !.pinned = verdict.pinned,
                            !.policy = verdict.policy, !.effect = verdict.effect, !.blind = blind]
        /\ UNCHANGED <<url, helper, target, decisions, kernel>>
        /\ supervisor.note \in Pilot!Processes
    BY <1>21 DEF Pilot!Judge, GoSound
  <2>2. VerdictSound(supervisor.note, seen, verdict)
    <3>1. supervisor.pinned \in {Pilot!Unpinned, Pinned}
      OBVIOUS
    <3>2. target.to \in {"loopback", "external", "unix"}
      OBVIOUS
    <3>3. \A p \in Pilot!Processes, l \in BOOLEAN,
             s \in {"good", "changed", "no address", "no status"} :
            VerdictSound(p, s, Pilot!Verdict(p, s, l))
      BY <3>1, <3>2, VerdictType
    <3>4. supervisor.note \in Pilot!Processes
      BY <2>1
    <3> HIDE DEF PilotInv, PilotTypes
    <3> QED BY <3>3, <3>4, Zenon
  <2>3. blind \in BOOLEAN
    OBVIOUS
  <2> HIDE DEF verdict, blind
  <2> QED BY <2>1, <2>2, <2>3 DEF VerdictSound
<1> HIDE DEF PilotInv, PilotBounds, PilotTypes
<1> QED BY <1>1, <1>2, <1>3, <1>4, <1>5, <1>6, <1>7, <1>8, <1>9, <1>10, <1>11, <1>12, <1>13,
           <1>14, <1>15, <1>16, <1>17, <1>18, <1>19, <1>20, <1>21
        DEF Pilot!Next, Pilot!HelperStep, Pilot!TargetStep, Pilot!Supervise


(* Sequences of at most two messages.                                      *)
LEMMA AppendFirst == \A a : Append(<< >>, a) = <<a>>
OBVIOUS

(* A channel of two messages.                                              *)
LEMMA AppendSecond == \A a, b : Append(<<a>>, b) = <<a, b>>
<1> TAKE a, b
<1>1. Append(<<a>>, b) \in Seq({a, b}) /\ <<a, b>> \in Seq({a, b})
  OBVIOUS
<1>2. Len(Append(<<a>>, b)) = 2 /\ Append(<<a>>, b)[1] = a /\ Append(<<a>>, b)[2] = b
  OBVIOUS
<1>3. \A i \in 1 .. 2 : Append(<<a>>, b)[i] = <<a, b>>[i]
  BY <1>2
<1> QED BY <1>1, <1>2, <1>3, SeqEqual

(* The only message of a channel is taken.                                 *)
LEMMA TakeOnly == \A a : <<a>> # << >> /\ Head(<<a>>) = a /\ Tail(<<a>>) = << >>
<1> TAKE a
<1>1. <<a>> \in Seq({a}) /\ <<a>> # << >>
  OBVIOUS
<1>2. Tail(<<a>>) \in Seq({a}) /\ Len(Tail(<<a>>)) = 0
  BY <1>1, HeadTailProperties
<1> QED BY <1>1, <1>2, EmptySeq

(* The first of two messages is taken.                                     *)
LEMMA TakeFirst == \A a, b : <<a, b>> # << >> /\ Head(<<a, b>>) = a /\ Tail(<<a, b>>) = <<b>>
OBVIOUS

(* The messages as they are sent and read.                                 *)
LEMMA Messages ==
  /\ Ready = [type |-> "ready"] /\ Forked = [type |-> "target"] /\ Failed = [type |-> "error"]
  /\ Ready.type = "ready" /\ Forked.type = "target" /\ Failed.type = "error"
BY DEF Ready, Forked, Failed

(* What the helper sends after "ready".                                    *)
LEMMA Sent ==
  /\ Append(<<Ready>>, Failed) = <<Ready, Failed>>
  /\ Append(<<Ready>>, Forked) = <<Ready, Forked>>
<1>1. Append(<<Ready>>, Failed) = <<Ready, Failed>>
  BY AppendSecond
<1>2. Append(<<Ready>>, Forked) = <<Ready, Forked>>
  BY AppendSecond
<1> QED BY <1>1, <1>2

(* What the supervisor reads first is "ready".                             *)
LEMMA Read ==
  /\ Head(<<Ready, Forked>>) = Ready /\ Tail(<<Ready, Forked>>) = <<Forked>>
  /\ Head(<<Ready, Failed>>) = Ready /\ Tail(<<Ready, Failed>>) = <<Failed>>
<1>1. Head(<<Ready, Forked>>) = Ready /\ Tail(<<Ready, Forked>>) = <<Forked>>
  BY TakeFirst
<1>2. Head(<<Ready, Failed>>) = Ready /\ Tail(<<Ready, Failed>>) = <<Failed>>
  BY TakeFirst
<1> QED BY <1>1, <1>2

(* GO is given once, when the loop begins.                                 *)
LEMMA GoStep ==
  ASSUME PilotInv, Pilot!Next, PilotBounds
  PROVE  GoSound'
<1> USE DEF PilotInv, PilotTypes, GoSound
<1>1. CASE Pilot!HelperFails
  BY <1>1 DEF Pilot!HelperFails, Pilot!Fault, Pilot!HelperExits, Pilot!Say, Pilot!Gone
<1>2. CASE Pilot!Install
  BY <1>2 DEF Pilot!Install, Pilot!Say, Pilot!Gone
<1>3. CASE Pilot!Fork
  BY <1>3 DEF Pilot!Fork, Pilot!Say, Pilot!Gone
<1>4. CASE Pilot!Probe
  BY <1>4 DEF Pilot!Probe, Pilot!Gone
<1>5. CASE Pilot!NoGo
  BY <1>5 DEF Pilot!NoGo, Pilot!HelperExits, Pilot!Gone
<1>6. CASE Pilot!ReleaseTarget
  BY <1>6 DEF Pilot!ReleaseTarget, Pilot!Gone
<1>7. CASE Pilot!ProbeFails
  BY <1>7 DEF Pilot!ProbeFails, Pilot!HelperExits, Pilot!Say, Pilot!Gone, Pilot!Dropped
<1>8. CASE Pilot!Connect
  BY <1>8 DEF Pilot!Connect, Pilot!Blocked, Pilot!Connected, Pilot!Gone
<1>9. CASE Pilot!Exit
  BY <1>9 DEF Pilot!Exit, Pilot!Blocked, Pilot!Connected, Pilot!Gone
<1>10. CASE Pilot!Report
  BY <1>10 DEF Pilot!Report, Pilot!HelperExits, Pilot!Say, Pilot!Gone
<1>11. CASE Pilot!ReceiveListener
  BY <1>11 DEF Pilot!ReceiveListener, Pilot!Raises, Pilot!Gone
<1>12. CASE Pilot!Go
  BY <1>12 DEF Pilot!Go, Pilot!Raises, Pilot!Gone
<1>13. CASE Pilot!Status
  BY <1>13 DEF Pilot!Status, Pilot!Gone
<1>14. CASE Pilot!Drop
  BY <1>14 DEF Pilot!Drop, Pilot!Gone
<1>15. CASE Pilot!Send
  BY <1>15 DEF Pilot!Send, Pilot!Gone
<1>16. CASE Pilot!Finally
  BY <1>16 DEF Pilot!Finally, Pilot!Blocked, Pilot!Processes, Pilot!Gone
<1>17. CASE Pilot!SendRaises
  BY <1>17 DEF Pilot!SendRaises, Pilot!Gone
<1>18. CASE Pilot!Kill
  BY <1>18 DEF Pilot!Kill, Pilot!Fault, Pilot!Gone
<1>19. ASSUME NEW p \in Pilot!Processes, Pilot!Interrupt(p) PROVE GoSound'
  BY <1>19 DEF Pilot!Interrupt, Pilot!Blocked, Pilot!Fault, Pilot!Gone
<1>20. ASSUME NEW p \in Pilot!Processes, Pilot!Receive(p) PROVE GoSound'
  BY <1>20 DEF Pilot!Receive, Pilot!Processes, Pilot!Gone
<1>21. ASSUME NEW seen \in {"good", "changed", "no address", "no status"}, NEW late \in BOOLEAN,
              Pilot!Judge(seen, late)
       PROVE  GoSound'
  BY <1>21 DEF Pilot!Judge, Pilot!Gone
<1> HIDE DEF PilotInv, PilotTypes, GoSound
<1> QED BY <1>1, <1>2, <1>3, <1>4, <1>5, <1>6, <1>7, <1>8, <1>9, <1>10, <1>11, <1>12, <1>13,
           <1>14, <1>15, <1>16, <1>17, <1>18, <1>19, <1>20, <1>21
        DEF Pilot!Next, Pilot!HelperStep, Pilot!TargetStep, Pilot!Supervise

(* The target is held until the probe has got through.                     *)
LEMMA HeldStep ==
  ASSUME PilotInv, Pilot!Next, PilotBounds
  PROVE  HeldSound'
<1> USE DEF PilotInv, PilotTypes, HeldSound, GoSound, Pilot!TypeOK
<1>1. CASE Pilot!HelperFails
  BY <1>1 DEF Pilot!HelperFails, Pilot!Fault, Pilot!HelperExits, Pilot!Say, Pilot!Gone,
     Pilot!Processes
<1>2. CASE Pilot!Install
  BY <1>2 DEF Pilot!Install, Pilot!Say, Pilot!Gone, Pilot!Processes
<1>3. CASE Pilot!Fork
  BY <1>3 DEF Pilot!Fork, Pilot!Say, Pilot!Gone, Pilot!Processes
<1>4. CASE Pilot!Probe
  BY <1>4 DEF Pilot!Probe, Pilot!Gone, Pilot!Processes
<1>5. CASE Pilot!NoGo
  BY <1>5 DEF Pilot!NoGo, Pilot!HelperExits, Pilot!Gone, Pilot!Processes
<1>6. CASE Pilot!ReleaseTarget
  BY <1>6 DEF Pilot!ReleaseTarget, Pilot!Gone, Pilot!Processes
<1>7. CASE Pilot!ProbeFails
  BY <1>7 DEF Pilot!ProbeFails, Pilot!HelperExits, Pilot!Say, Pilot!Gone, Pilot!Dropped,
     Pilot!Processes
<1>8. CASE Pilot!Connect
  BY <1>8 DEF Pilot!Connect, Pilot!Blocked, Pilot!Connected, Pilot!Gone, Pilot!Processes
<1>9. CASE Pilot!Exit
  BY <1>9 DEF Pilot!Exit, Pilot!Blocked, Pilot!Connected, Pilot!Gone, Pilot!Processes
<1>10. CASE Pilot!Report
  BY <1>10 DEF Pilot!Report, Pilot!HelperExits, Pilot!Say, Pilot!Gone, Pilot!Processes
<1>11. CASE Pilot!ReceiveListener
  BY <1>11 DEF Pilot!ReceiveListener, Pilot!Raises, Pilot!Gone, Pilot!Processes
<1>12. CASE Pilot!Go
  BY <1>12 DEF Pilot!Go, Pilot!Raises, Pilot!Gone, Pilot!Processes
<1>13. CASE Pilot!Status
  BY <1>13 DEF Pilot!Status, Pilot!Gone, Pilot!Processes
<1>14. CASE Pilot!Drop
  BY <1>14 DEF Pilot!Drop, Pilot!Gone, Pilot!Processes
<1>15. CASE Pilot!Send
  BY <1>15 DEF Pilot!Send, Pilot!Gone, Pilot!Answered, Pilot!Processes
<1>16. CASE Pilot!Finally
  BY <1>16 DEF Pilot!Finally, Pilot!Blocked, Pilot!Processes, Pilot!Gone, Pilot!Processes
<1>17. CASE Pilot!SendRaises
  BY <1>17 DEF Pilot!SendRaises, Pilot!Gone, Pilot!Processes
<1>18. CASE Pilot!Kill
  BY <1>18 DEF Pilot!Kill, Pilot!Fault, Pilot!Gone, Pilot!Processes
<1>19. ASSUME NEW p \in Pilot!Processes, Pilot!Interrupt(p) PROVE HeldSound'
  BY <1>19 DEF Pilot!Interrupt, Pilot!Blocked, Pilot!Fault, Pilot!Gone, Pilot!Processes
<1>20. ASSUME NEW p \in Pilot!Processes, Pilot!Receive(p) PROVE HeldSound'
  BY <1>20 DEF Pilot!Receive, Pilot!Processes, Pilot!Gone, Pilot!Processes
<1>21. ASSUME NEW seen \in {"good", "changed", "no address", "no status"}, NEW late \in BOOLEAN,
              Pilot!Judge(seen, late)
       PROVE  HeldSound'
  BY <1>21 DEF Pilot!Judge, Pilot!Gone, Pilot!Processes
<1> HIDE DEF PilotInv, PilotTypes, HeldSound, GoSound, Pilot!TypeOK
<1> QED BY <1>1, <1>2, <1>3, <1>4, <1>5, <1>6, <1>7, <1>8, <1>9, <1>10, <1>11, <1>12, <1>13,
           <1>14, <1>15, <1>16, <1>17, <1>18, <1>19, <1>20, <1>21
        DEF Pilot!Next, Pilot!HelperStep, Pilot!TargetStep, Pilot!Supervise


(* Every message is read in the order it was sent, and at the place of the *)
(* supervisor that expects it.                                             *)
LEMMA ChannelStep ==
  ASSUME PilotInv, Pilot!Next, PilotBounds
  PROVE  ChannelSound'
<1> USE DEF PilotInv, PilotTypes, ChannelSound, GoSound, HeldSound, Pilot!Gone
<1>0. ChannelSound /\ GoSound
  OBVIOUS
<1>1. CASE Pilot!HelperFails
  <2>1. Append(<< >>, Failed) = <<Failed>>
    BY AppendFirst, Zenon
  <2>2. /\ helper.pc \in {"install", "fork"} /\ helper'.pc = "done" /\ UNCHANGED supervisor
        /\ channel' = IF Pilot!Gone THEN << >> ELSE Append(channel, Failed)
    BY Messages, <1>1 DEF Pilot!HelperFails, Pilot!HelperExits, Pilot!Say
  <2> HIDE DEF PilotInv, PilotTypes, HeldSound
  <2> QED BY Sent, <1>0, <2>1, <2>2
<1>2. CASE Pilot!Install
  <2>1. Append(<< >>, Ready) = <<Ready>>
    BY AppendFirst, Zenon
  <2>2. /\ helper.pc = "install" /\ helper'.pc = "fork" /\ UNCHANGED supervisor
        /\ channel' = IF Pilot!Gone THEN << >> ELSE Append(channel, Ready)
    BY Messages, <1>2 DEF Pilot!Install, Pilot!Say
  <2> HIDE DEF PilotInv, PilotTypes, HeldSound
  <2> QED BY <1>0, <2>1, <2>2
<1>3. CASE Pilot!Fork
  <2>1. Append(<< >>, Forked) = <<Forked>>
    BY AppendFirst, Zenon
  <2>2. /\ helper.pc = "fork" /\ helper'.pc = "await" /\ UNCHANGED supervisor
        /\ channel' = IF Pilot!Gone THEN << >> ELSE Append(channel, Forked)
    BY Messages, <1>3 DEF Pilot!Fork, Pilot!Say
  <2> HIDE DEF PilotInv, PilotTypes, HeldSound
  <2> QED BY Sent, <1>0, <2>1, <2>2
<1>4. CASE Pilot!ProbeFails
  <2>1. Append(<< >>, Failed) = <<Failed>>
    BY AppendFirst, Zenon
  <2>2. /\ helper.pc = "probe" /\ helper'.pc = "done" /\ UNCHANGED supervisor
        /\ channel' = IF Pilot!Gone THEN << >> ELSE Append(channel, Failed)
    BY Messages, <1>4 DEF Pilot!ProbeFails, Pilot!HelperExits, Pilot!Say
  <2> HIDE DEF PilotInv, PilotTypes, HeldSound
  <2> QED BY <1>0, <2>1, <2>2
<1>5. CASE Pilot!Report
  <2>1. helper'.probe = helper.probe /\ target' = target /\ helper'.pc = "done"
    BY <1>5 DEF Pilot!Report, Pilot!HelperExits
  <2>2. Reported' = Reported /\ Append(<< >>, Reported) = <<Reported>>
    BY <2>1, AppendFirst DEF Reported
  <2>3. channel' = IF Pilot!Gone THEN << >> ELSE Append(channel, Reported)
    BY <1>5 DEF Pilot!Report, Pilot!Say, Reported
  <2> QED BY <1>5, <2>1, <2>2, <2>3 DEF Pilot!Report
<1>6. CASE Pilot!Probe \/ Pilot!NoGo \/ Pilot!ReleaseTarget
  BY <1>6 DEF Reported, Pilot!Probe, Pilot!NoGo, Pilot!ReleaseTarget, Pilot!HelperExits
<1>7. CASE Pilot!Connect \/ Pilot!Exit
  BY <1>7 DEF Reported, Pilot!Connect, Pilot!Exit
<1>8. CASE Pilot!ReceiveListener
  <2>1. /\ <<Ready>> # << >> /\ Head(<<Ready>>) = Ready /\ Tail(<<Ready>>) = << >>
        /\ <<Failed>> # << >> /\ Head(<<Failed>>) = Failed
    BY TakeOnly, Zenon
  <2>2. CASE Head(channel) = Failed
    BY <1>8, <2>2, Messages DEF Pilot!ReceiveListener, Pilot!Raises
  <2>3. CASE Head(channel) = Ready
    <3>1. supervisor'.pc = "target" /\ channel' = Tail(channel) /\ UNCHANGED helper
      BY <1>8, <2>3, Messages DEF Pilot!ReceiveListener
    <3>2. /\ \/ helper.pc = "fork" /\ channel = <<Ready>>
             \/ helper.pc = "await" /\ channel = <<Ready, Forked>>
             \/ helper.pc = "done" /\ channel = <<Ready, Failed>>
      <4> HIDE DEF PilotInv, PilotTypes, HeldSound, GoSound
      <4>1. Failed # Ready /\ supervisor.pc = "listener" /\ channel # << >>
        BY <1>8, Messages DEF Pilot!ReceiveListener
      <4> QED BY <1>0, <2>1, <2>3, <4>1
    <3> HIDE DEF PilotInv, PilotTypes, HeldSound, GoSound
    <3> QED BY <2>1, <3>1, <3>2, Read
  <2> QED BY <1>8, <2>1, <2>2, <2>3, Read DEF Pilot!ReceiveListener
<1>9. CASE Pilot!Go
  <2>1. /\ Head(<<Forked>>) = Forked /\ Tail(<<Forked>>) = << >>
        /\ Head(<<Failed>>) = Failed
    BY TakeOnly, Zenon
  <2>2. CASE Head(channel) = Failed
    BY <1>9, <2>2, Messages DEF Pilot!Go, Pilot!Raises
  <2>3. CASE Head(channel) = Forked
    <3>1. supervisor'.pc = "loop" /\ channel' = Tail(channel) /\ UNCHANGED helper
      BY <1>9, <2>3, Messages DEF Pilot!Go
    <3>2. channel = <<Forked>> /\ helper.pc = "await"
      BY <1>9, <2>1, <2>3, Messages DEF Pilot!Go
    <3> QED BY <2>1, <3>1, <3>2
  <2> QED BY <1>9, <2>1, <2>2, <2>3 DEF Pilot!Go
<1>10. CASE Pilot!Status
  <2>1. Tail(<<Reported>>) = << >> /\ Tail(<<Failed>>) = << >>
    BY TakeOnly, Zenon
  <2>2. channel \in {<<Reported>>, <<Failed>>} /\ channel' = Tail(channel) /\ helper.pc = "done"
          /\ supervisor'.pc = "finally" /\ helper' = helper
    BY <1>10 DEF Pilot!Status
  <2> QED BY <2>1, <2>2
<1>11. CASE Pilot!Drop \/ Pilot!Send \/ Pilot!SendRaises
  BY <1>11 DEF Reported, Pilot!Drop, Pilot!Send, Pilot!SendRaises
<1>12. CASE Pilot!Finally \/ Pilot!Kill
  BY <1>12 DEF Reported, Pilot!Finally, Pilot!Kill
<1>13. ASSUME NEW p \in Pilot!Processes, Pilot!Interrupt(p) \/ Pilot!Receive(p)
       PROVE  ChannelSound'
  <2>1. UNCHANGED <<helper, target, channel>>
    BY <1>13 DEF Pilot!Interrupt, Pilot!Receive
  <2>2. \/ UNCHANGED supervisor
        \/ supervisor.pc = "loop" /\ supervisor'.pc = "judge"
    BY <1>13 DEF Pilot!Interrupt, Pilot!Receive
  <2>3. Reported' = Reported
    BY <2>1 DEF Reported
  <2> HIDE DEF PilotInv, PilotTypes, HeldSound, GoSound
  <2>4. CASE UNCHANGED supervisor
    BY <1>0, <2>1, <2>3, <2>4
  <2>5. CASE supervisor.pc = "loop" /\ supervisor'.pc = "judge"
    BY <1>0, <2>1, <2>3, <2>5
  <2> QED BY <2>2, <2>4, <2>5
<1>14. ASSUME NEW seen, NEW late, Pilot!Judge(seen, late)
       PROVE  ChannelSound'
  BY <1>14 DEF Reported, Pilot!Judge
<1> HIDE DEF PilotInv, PilotTypes, ChannelSound, GoSound, HeldSound, Pilot!Gone
<1> QED BY <1>1, <1>2, <1>3, <1>4, <1>5, <1>6, <1>7, <1>8, <1>9, <1>10, <1>11, <1>12, <1>13, <1>14
        DEF Pilot!Next, Pilot!HelperStep, Pilot!TargetStep, Pilot!Supervise

(* The type invariant the module states.                                   *)
LEMMA PilotTypeOKStep ==
  ASSUME PilotInv, Pilot!Next, PilotBounds, PilotTypes', ChannelSound'
  PROVE  Pilot!TypeOK'
<1>1. Len(channel') <= 2
  <2>1. /\ Len(<<Ready, Forked>>') <= 2 /\ Len(<<Ready, Failed>>') <= 2 /\ Len(<<Ready>>') <= 2
        /\ Len(<<Forked>>') <= 2 /\ Len(<<Failed>>') <= 2 /\ Len(<<Reported>>') <= 2
        /\ Len(<< >>) <= 2
    OBVIOUS
  <2> QED BY <2>1 DEF ChannelSound
<1>2. faults' \in 0 .. PilotFaults
  <2>1. faults' = faults \/ Pilot!Fault
    BY DEF Pilot!Next, Pilot!HelperStep, Pilot!TargetStep,
     Pilot!Supervise, Pilot!HelperFails, Pilot!Install, Pilot!Fork, Pilot!Probe, Pilot!NoGo,
     Pilot!ReleaseTarget, Pilot!ProbeFails, Pilot!Connect, Pilot!Exit, Pilot!Report,
     Pilot!ReceiveListener, Pilot!Go, Pilot!Status, Pilot!Drop, Pilot!Send, Pilot!Finally,
     Pilot!SendRaises, Pilot!Kill, Pilot!Interrupt, Pilot!Receive, Pilot!Judge
  <2> QED BY <2>1 DEF PilotInv, PilotBounds, Pilot!TypeOK, Pilot!Fault
<1>3. call' \in [Pilot!Processes ->
                   {"none", "queued", "received", "denied", "allowed", "interrupted"}]
  <2>1. CASE Pilot!Finally
    BY <2>1 DEF PilotInv, Pilot!TypeOK, Pilot!Finally
  <2>2. CASE ~Pilot!Finally
    BY <2>2 DEF PilotInv, Pilot!TypeOK, Pilot!Next, Pilot!HelperStep, Pilot!TargetStep,
     Pilot!Supervise, Pilot!HelperFails, Pilot!Install, Pilot!Fork, Pilot!Probe, Pilot!NoGo,
     Pilot!ReleaseTarget, Pilot!ProbeFails, Pilot!Connect, Pilot!Exit, Pilot!Report,
     Pilot!ReceiveListener, Pilot!Go, Pilot!Status, Pilot!Drop, Pilot!Send, Pilot!Answered,
     Pilot!SendRaises, Pilot!Kill, Pilot!Interrupt, Pilot!Receive, Pilot!Judge
  <2> QED BY <2>1, <2>2
<1> QED BY <1>1, <1>2, <1>3 DEF Pilot!TypeOK, PilotTypes

(* Between the verdict and the answer nothing makes it wrong.              *)
LEMMA VerdictStep ==
  ASSUME PilotInv, Pilot!Next, PilotBounds
  PROVE  VerdictHolds'
<1> USE DEF PilotInv, PilotTypes, VerdictHolds
<1>1. ASSUME NEW seen \in {"good", "changed", "no address", "no status"}, NEW late \in BOOLEAN,
             Pilot!Judge(seen, late)
      PROVE  VerdictHolds'
  <2> DEFINE verdict == Pilot!Verdict(supervisor.note, seen, late)
             blind == supervisor.blind \/ (supervisor.note = "curl" /\ seen = "no status")
  <2>1. /\ supervisor' = [supervisor EXCEPT !.pc = "send", !.pinned = verdict.pinned,
                            !.policy = verdict.policy, !.effect = verdict.effect, !.blind = blind]
        /\ UNCHANGED <<target, call>>
        /\ supervisor.note \in Pilot!Processes
    BY <1>1 DEF Pilot!Judge, GoSound
  <2>2. VerdictSound(supervisor.note, seen, verdict)
    <3>1. supervisor.pinned \in {Pilot!Unpinned, Pinned}
      OBVIOUS
    <3>2. target.to \in {"loopback", "external", "unix"}
      OBVIOUS
    <3>3. \A p \in Pilot!Processes, l \in BOOLEAN,
             s \in {"good", "changed", "no address", "no status"} :
            VerdictSound(p, s, Pilot!Verdict(p, s, l))
      BY <3>1, <3>2, VerdictType
    <3>4. supervisor.note \in Pilot!Processes
      BY <2>1
    <3> HIDE DEF PilotInv, PilotTypes
    <3> QED BY <3>3, <3>4, Zenon
  <2>3. ~blind => seen # "no status" \/ supervisor.note # "curl"
    OBVIOUS
  <2> HIDE DEF verdict, blind
  <2> QED BY <2>1, <2>2, <2>3 DEF VerdictSound
<1>2. CASE Pilot!Connect
  BY <1>2 DEF Pilot!Connect, Pilot!Blocked, Pilot!Processes, Pilot!TypeOK
<1>3. CASE Pilot!Finally
  BY <1>3 DEF Pilot!Finally
<1>4. ASSUME NEW p \in Pilot!Processes, Pilot!Interrupt(p) \/ Pilot!Receive(p)
      PROVE  VerdictHolds'
  <2>1. \/ supervisor'.pc = "judge"
        \/ /\ UNCHANGED <<supervisor, target>>
           /\ call' = [call EXCEPT ![p] = "interrupted"]
    BY <1>4 DEF Pilot!Interrupt, Pilot!Receive
  <2> QED BY <2>1 DEF Pilot!TypeOK, Pilot!Processes
<1>5. CASE Pilot!HelperStep \/ Pilot!HelperFails
  <2>1. UNCHANGED supervisor
    BY <1>5 DEF Pilot!HelperStep, Pilot!HelperFails, Pilot!Install, Pilot!Fork, Pilot!Probe,
       Pilot!NoGo, Pilot!ReleaseTarget, Pilot!ProbeFails, Pilot!Report
  <2>2. target'.to = target.to
    BY <1>5 DEF Pilot!HelperStep, Pilot!HelperFails, Pilot!Install, Pilot!Fork, Pilot!Probe,
       Pilot!NoGo, Pilot!ReleaseTarget, Pilot!ProbeFails, Pilot!Report, Pilot!Dropped
  <2>3. call'["curl"] = call["curl"]
    BY <1>5 DEF Pilot!HelperStep, Pilot!HelperFails, Pilot!Install, Pilot!Fork, Pilot!Probe,
       Pilot!NoGo, Pilot!ReleaseTarget, Pilot!ProbeFails, Pilot!Report, Pilot!TypeOK,
       Pilot!Processes
  <2>4. VerdictHolds
    OBVIOUS
  <2> HIDE DEF PilotInv, PilotTypes
  <2> QED BY <2>1, <2>2, <2>3, <2>4
<1>6. CASE Pilot!Exit
  BY <1>6 DEF Pilot!Exit
<1>7. CASE \/ Pilot!ReceiveListener \/ Pilot!Go \/ Pilot!Status \/ Pilot!Drop \/ Pilot!Send
           \/ Pilot!SendRaises \/ Pilot!Kill
  <2>1. supervisor'.pc # "send"
    BY <1>7 DEF Pilot!ReceiveListener, Pilot!Go, Pilot!Raises, Pilot!Status, Pilot!Drop,
       Pilot!Send, Pilot!SendRaises, Pilot!Kill
  <2> QED BY ONLY <2>1 DEF VerdictHolds
<1> HIDE DEF PilotInv, PilotTypes, VerdictHolds
<1> QED BY <1>1, <1>2, <1>3, <1>4, <1>5, <1>6, <1>7
        DEF Pilot!Next, Pilot!TargetStep, Pilot!Supervise


(* Only the target's outside connects are denied.                          *)
LEMMA DeniedStep ==
  ASSUME PilotInv, Pilot!Next, PilotBounds
  PROVE  Pilot!OnlyTargetDenied'
<1> USE DEF PilotInv, PilotTypes, Pilot!OnlyTargetDenied, Pilot!Connected
<1>1. CASE Pilot!Send
  <2>1. supervisor.note \in {"helper", "curl"}
    BY <1>1 DEF Pilot!Send, GoSound, Pilot!Processes
  <2>2. /\ supervisor'.blind = supervisor.blind /\ UNCHANGED <<url, target>>
        /\ call' = [call EXCEPT ![supervisor.note] =
                      IF supervisor.effect = "DENY" THEN "denied" ELSE "allowed"]
        /\ call[supervisor.note] = "received" /\ supervisor.pc = "send"
    BY <1>1 DEF Pilot!Send, Pilot!Answered
  <2>3. CASE supervisor.note = "helper"
    BY <2>2, <2>3 DEF VerdictHolds, Pilot!TypeOK, Pilot!Processes
  <2>4. CASE supervisor.note = "curl"
    BY <2>2, <2>4 DEF VerdictHolds, Pilot!TypeOK, Pilot!Processes
  <2> QED BY <2>1, <2>3, <2>4
<1>2. CASE Pilot!Connect
  BY <1>2 DEF Pilot!Connect, Pilot!Blocked, Pilot!Processes, Pilot!TypeOK
<1>3. CASE Pilot!Finally
  BY <1>3 DEF Pilot!Finally, Pilot!Blocked, Pilot!Processes
<1>4. ASSUME NEW p \in Pilot!Processes, Pilot!Interrupt(p) \/ Pilot!Receive(p)
      PROVE  Pilot!OnlyTargetDenied'
  BY <1>4 DEF Pilot!Interrupt, Pilot!Receive, Pilot!TypeOK, Pilot!Processes
<1>5. CASE Pilot!HelperStep \/ Pilot!HelperFails
  <2>1. /\ UNCHANGED <<url, supervisor>> /\ target'.to = target.to
        /\ call' = call \/ call' = [call EXCEPT !["helper"] = "queued"]
    BY <1>5 DEF Pilot!HelperStep, Pilot!HelperFails, Pilot!Install, Pilot!Fork, Pilot!Probe,
       Pilot!NoGo, Pilot!ReleaseTarget, Pilot!ProbeFails, Pilot!Report, Pilot!Dropped
  <2> QED BY <2>1 DEF Pilot!TypeOK, Pilot!Processes
<1>6. CASE Pilot!Exit
  BY <1>6 DEF Pilot!Exit
<1>7. CASE \/ Pilot!ReceiveListener \/ Pilot!Go \/ Pilot!Status \/ Pilot!Drop
           \/ Pilot!SendRaises \/ Pilot!Kill
  BY <1>7 DEF Pilot!ReceiveListener, Pilot!Go, Pilot!Raises, Pilot!Status, Pilot!Drop,
     Pilot!SendRaises, Pilot!Kill
<1>8. ASSUME NEW seen, NEW late, Pilot!Judge(seen, late)
      PROVE  Pilot!OnlyTargetDenied'
  <2> DEFINE blind == supervisor.blind \/ (supervisor.note = "curl" /\ seen = "no status")
  <2>1. /\ UNCHANGED <<url, target, call>>
        /\ \E v : supervisor' = [supervisor EXCEPT !.pc = "send", !.pinned = v.pinned,
                                   !.policy = v.policy, !.effect = v.effect, !.blind = blind]
    BY <1>8 DEF Pilot!Judge
  <2>2. supervisor.blind => supervisor'.blind
    BY <2>1
  <2> QED BY <2>1, <2>2
<1> HIDE DEF PilotInv, PilotTypes, Pilot!OnlyTargetDenied, Pilot!Connected
<1> QED BY <1>1, <1>2, <1>3, <1>4, <1>5, <1>6, <1>7, <1>8
        DEF Pilot!Next, Pilot!TargetStep, Pilot!Supervise

(* The list and the kernel count the same, while nobody was overlooked.    *)
LEMMA CountedAlike ==
  ASSUME PilotInv, Pilot!Send
  PROVE  /\ decisions' \in [denied : Nat, probed : Nat]
         /\ decisions'.denied >= decisions.denied
         /\ ~supervisor.blind =>
              decisions'.denied = kernel'.denied /\ decisions'.probed <= kernel'.probed
<1> USE DEF PilotInv, PilotTypes
<1>1. /\ decisions' = Pilot!Counted(decisions, supervisor.note, Pilot!Listed)
      /\ kernel' = Pilot!Counted(kernel, supervisor.note, supervisor.effect)
      /\ supervisor.pc = "send" /\ supervisor.note \in {"helper", "curl"}
  BY DEF Pilot!Send, Pilot!Answered, GoSound, Pilot!Processes
<1>2. decisions' \in [denied : Nat, probed : Nat] /\ decisions'.denied >= decisions.denied
  BY <1>1 DEF Pilot!Counted
<1>3. ASSUME ~supervisor.blind
      PROVE  decisions'.denied = kernel'.denied /\ decisions'.probed <= kernel'.probed
  <2>1. decisions.denied = kernel.denied /\ decisions.probed <= kernel.probed
    BY <1>3 DEF ResultSound
  <2>2. CASE supervisor.effect = "DENY"
    BY <1>1, <2>1, <2>2 DEF Pilot!Counted, Pilot!Listed
  <2>3. CASE supervisor.effect # "DENY"
    <3>1. /\ supervisor.effect = "ALLOW" /\ Pilot!Listed = supervisor.policy
          /\ supervisor.policy \in {"ALLOW", "ABSTAIN"}
          /\ supervisor.note = "curl" => supervisor.policy = "ALLOW"
      BY <1>1, <1>3, <2>3 DEF VerdictHolds, Pilot!Listed
    <3> QED BY <1>1, <2>1, <3>1 DEF Pilot!Counted
  <2> QED BY <2>2, <2>3
<1> QED BY <1>2, <1>3

(* What main() accepted stays true.                                        *)
LEMMA ResultStep ==
  ASSUME PilotInv, Pilot!Next, PilotBounds
  PROVE  ResultSound'
<1> USE DEF PilotInv, PilotTypes, ResultSound
<1>1. CASE Pilot!Send
  <2>1. /\ supervisor' = [supervisor EXCEPT !.pc = "loop"] /\ UNCHANGED <<url, helper, target>>
        /\ supervisor.pc = "send"
    BY <1>1 DEF Pilot!Send
  <2> QED BY <1>1, <2>1, CountedAlike
<1>2. CASE Pilot!Status
  <2>1. /\ supervisor.pc = "loop" /\ helper.pc = "done"
        /\ UNCHANGED <<url, helper, target, decisions, kernel>>
        /\ supervisor'.blind = supervisor.blind /\ supervisor'.pc = "finally"
        /\ supervisor'.result =
             IF Head(channel).type = "status"
             THEN IF Pilot!Accepted(Head(channel).code, Head(channel).probe)
                  THEN "proven" ELSE "refused"
             ELSE supervisor.result
    BY <1>2 DEF Pilot!Status
  <2>2. channel \in {<<Failed>>, <<Reported>>}
    <3>1. channel # << >> /\ ChannelSound
      BY <1>2 DEF Pilot!Status
    <3> HIDE DEF PilotInv, PilotTypes, ResultSound
    <3> QED BY <2>1, <3>1 DEF ChannelSound, Pilot!Gone
  <2>3. Head(channel) \in {Failed, Reported}
    BY ONLY <2>2, TakeOnly, Zenon
  <2>4. supervisor.result = "none"
    BY <2>1
  <2>5. CASE Head(channel) = Failed
    BY <2>1, <2>4, <2>5, Messages
  <2>6. CASE Head(channel) = Reported
    <3>1. Reported.code = target.code
      BY DEF Reported
    <3> QED BY <2>1, <2>4, <2>6, <3>1 DEF Pilot!Accepted
  <2> QED BY <2>3, <2>5, <2>6
<1>3. CASE Pilot!HelperStep \/ Pilot!HelperFails
  <2>1. UNCHANGED <<url, supervisor, decisions, kernel>> /\ helper.pc # "done"
    BY <1>3 DEF Pilot!HelperStep, Pilot!HelperFails, Pilot!Install, Pilot!Fork, Pilot!Probe,
       Pilot!NoGo, Pilot!ReleaseTarget, Pilot!ProbeFails, Pilot!Report
  <2> QED BY <2>1
<1>4. CASE Pilot!TargetStep
  <2>1. /\ UNCHANGED <<url, helper, supervisor, decisions, kernel>>
        /\ target.state = "running"
    BY <1>4 DEF Pilot!TargetStep, Pilot!Connect, Pilot!Exit
  <2> QED BY <2>1 DEF HeldSound
<1>5. CASE Pilot!Finally
  BY <1>5 DEF Pilot!Finally
<1>6. CASE \/ Pilot!ReceiveListener \/ Pilot!Go \/ Pilot!Drop \/ Pilot!SendRaises \/ Pilot!Kill
  <2>1. UNCHANGED <<url, helper, target, decisions, kernel>>
    BY <1>6 DEF Pilot!ReceiveListener, Pilot!Go, Pilot!Drop, Pilot!SendRaises, Pilot!Kill
  <2>2. supervisor'.result = supervisor.result /\ supervisor'.blind = supervisor.blind
    BY <1>6 DEF Pilot!ReceiveListener, Pilot!Go, Pilot!Raises, Pilot!Drop, Pilot!SendRaises,
       Pilot!Kill
  <2>3. supervisor'.pc \notin {"finally", "ended", "killed"} =>
          supervisor.pc \notin {"finally", "ended", "killed"}
    BY <1>6 DEF Pilot!ReceiveListener, Pilot!Go, Pilot!Drop, Pilot!SendRaises, Pilot!Kill,
       Pilot!Gone
  <2>4. ResultSound
    OBVIOUS
  <2> HIDE DEF PilotInv, PilotTypes
  <2> QED BY <2>1, <2>2, <2>3, <2>4
<1>7. ASSUME NEW p \in Pilot!Processes, Pilot!Interrupt(p) \/ Pilot!Receive(p)
      PROVE  ResultSound'
  BY <1>7 DEF Pilot!Interrupt, Pilot!Receive
<1>8. ASSUME NEW seen, NEW late, Pilot!Judge(seen, late)
      PROVE  ResultSound'
  <2> DEFINE blind == supervisor.blind \/ (supervisor.note = "curl" /\ seen = "no status")
  <2>1. /\ UNCHANGED <<url, helper, target, decisions, kernel>> /\ supervisor.pc = "judge"
        /\ \E v : supervisor' = [supervisor EXCEPT !.pc = "send", !.pinned = v.pinned,
                                   !.policy = v.policy, !.effect = v.effect, !.blind = blind]
    BY <1>8 DEF Pilot!Judge
  <2>2. /\ supervisor.blind => supervisor'.blind
        /\ supervisor'.result = "none" /\ supervisor'.pc = "send"
    BY <2>1
  <2> QED BY <2>1, <2>2
<1> HIDE DEF PilotInv, PilotTypes, ResultSound
<1> QED BY <1>1, <1>2, <1>3, <1>4, <1>5, <1>6, <1>7, <1>8 DEF Pilot!Next, Pilot!Supervise

(* Nothing has been sent, forked or connected.                             *)
LEMMA PilotInit == Pilot!Init /\ PilotBounds => PilotInv
<1> SUFFICES ASSUME Pilot!Init, PilotBounds PROVE PilotInv
  OBVIOUS
<1> USE DEF Pilot!Init, PilotBounds
<1>1. PilotTypes
  BY DEF PilotTypes, Effects, Pilot!Nothing
<1>2. Pilot!TypeOK
  <2>1. Len(channel) <= 2
    OBVIOUS
  <2> QED BY <2>1 DEF Pilot!TypeOK
<1>3. ChannelSound /\ GoSound /\ HeldSound
  BY DEF ChannelSound, GoSound, HeldSound, Pilot!Gone, Pilot!Processes
<1>4. VerdictHolds /\ Pilot!OnlyTargetDenied /\ ResultSound
  BY DEF VerdictHolds, Pilot!OnlyTargetDenied, ResultSound, Pilot!Connected, Pilot!Processes,
     Pilot!Nothing
<1> QED BY <1>1, <1>2, <1>3, <1>4 DEF PilotInv

(* One step of the pilot.                                                  *)
LEMMA PilotStep ==
  ASSUME PilotInv, Pilot!Next, PilotBounds
  PROVE  PilotInv'
BY PilotType, PilotTypeOKStep, ChannelStep, GoStep, HeldStep, VerdictStep, DeniedStep,
   ResultStep DEF PilotInv

(* What the inductive invariant says of the target and the report.         *)
LEMMA PilotHolds ==
  ASSUME PilotInv
  PROVE  /\ Pilot!TypeOK
         /\ Pilot!HeldUntilGuarded /\ Pilot!OnlyTargetDenied /\ Pilot!ResultIsReal
BY DEF PilotInv, PilotTypes, HeldSound, GoSound, ResultSound, Pilot!HeldUntilGuarded,
   Pilot!ResultIsReal

-----------------------------------------------------------------------------
(***************************************************************************)
(* The egress broker.                                                      *)
(***************************************************************************)

Jobs ==
  {[state |-> "none"], [state |-> "queued"], [state |-> "running"]}
    \cup [state : {"deciding"}, asked : Effects, failed : BOOLEAN]
    \cup [state : {"done"}, target : BOOLEAN, failed : BOOLEAN, effect : Effects]

EgressTypes ==
  /\ scenario \in {"normal", "adapter-failure", "worker-crash", "listener-loss"}
  /\ destination \in [Egress!Callers -> {"external", "loopback"}]
  /\ pending \in Seq(Egress!Callers) /\ job \in [Egress!Callers -> Jobs]
  /\ worker \in [gen : Nat, up : BOOLEAN, request : Effects \cup {Egress!Nobody},
                 response : Effects \cup {Egress!Nobody},
                 lock : Egress!Callers \cup {Egress!Nobody}]
  /\ listener \in BOOLEAN

(* While the loop runs the futures are those of the jobs there are, each   *)
(* once, and a received call has one.                                      *)
FuturesSound ==
  /\ phase = "loop" =>
       /\ \A i, j \in DOMAIN pending : pending[i] = pending[j] => i = j
       /\ \A i \in DOMAIN pending : job[pending[i]] # Egress!NoJob
       /\ \A c \in Egress!Callers :
            job[c] # Egress!NoJob => \E i \in DOMAIN pending : pending[i] = c
  /\ \A c \in Egress!Callers :
       /\ call[c] \in {"idle", "queued"} => job[c] = Egress!NoJob
       /\ phase = "loop" /\ listener /\ call[c] = "received" => job[c] # Egress!NoJob

(* The subprocess is asked by the holder of the lock only, and what is in  *)
(* its channel is that one's.                                              *)
WorkerSound ==
  /\ \A c \in Egress!Callers : worker.lock = c =>
       /\ job[c].state = "deciding"
       /\ worker.request \in {Egress!Nobody, job[c].asked}
       /\ worker.response \in {Egress!Nobody, job[c].asked}
  /\ worker.lock = Egress!Nobody =>
       worker.request = Egress!Nobody /\ worker.response = Egress!Nobody
  /\ worker.response # Egress!Nobody => worker.request = Egress!Nobody
  /\ Egress!ClosedForGood

(* Every new subprocess after the second was paid for by a fault.          *)
StartsCounted ==
  /\ worker.gen >= 1
  /\ worker.gen > 1 => worker.gen <= faults + 2
  /\ worker.gen > 1 /\ ~worker.up /\ phase # "closed" => worker.gen <= faults + 1

(* What the pool finds out about an outside connect of the target.         *)
FailsClosed(j) ==
  /\ j.state = "deciding" => j.failed \/ j.asked # "ALLOW"
  /\ j.state = "done" => j.target /\ (j.failed \/ j.effect # "ALLOW")

JobsFailClosed ==
  \A c \in BrokerTargets : destination[c] = "external" => FailsClosed(job[c])

EgressInv ==
  /\ Egress!TypeOK /\ EgressTypes
  /\ FuturesSound /\ WorkerSound /\ StartsCounted /\ JobsFailClosed
  /\ Egress!TargetFailsClosed


EgressBounds ==
  /\ QueueCapacity \in Nat /\ BrokerFaults \in Nat
  /\ "nobody" \notin BrokerTargets \cup {Outsider}

(* The name for no caller is not a caller.                                 *)
LEMMA NobodyCalls == EgressBounds => Egress!Nobody \notin Egress!Callers
BY DEF EgressBounds, Egress!Nobody, Egress!Callers

(* A sequence without one of its elements.                                 *)
LEMMA RemoveAtKeeps ==
  ASSUME NEW S, NEW s \in Seq(S), NEW i \in DOMAIN s
  PROVE  /\ Egress!RemoveAt(s, i) \in Seq(S) /\ Len(Egress!RemoveAt(s, i)) = Len(s) - 1
         /\ \A j \in 1 .. Len(s) - 1 :
              Egress!RemoveAt(s, i)[j] = IF j < i THEN s[j] ELSE s[j + 1]
<1>1. /\ SubSeq(s, 1, i - 1) \in Seq(S) /\ Len(SubSeq(s, 1, i - 1)) = i - 1
      /\ \A j \in 1 .. i - 1 : SubSeq(s, 1, i - 1)[j] = s[j]
  BY SubSeqProperties
<1>2. /\ SubSeq(s, i + 1, Len(s)) \in Seq(S) /\ Len(SubSeq(s, i + 1, Len(s))) = Len(s) - i
      /\ \A j \in 1 .. Len(s) - i : SubSeq(s, i + 1, Len(s))[j] = s[i + j]
  <2>1. CASE i = Len(s)
    BY <2>1, SubSeqProperties
  <2>2. CASE i < Len(s)
    BY <2>2, SubSeqProperties
  <2> QED BY <2>1, <2>2
<1> DEFINE l == SubSeq(s, 1, i - 1)
           r == SubSeq(s, i + 1, Len(s))
<1>3. Egress!RemoveAt(s, i) = l \o r
  BY DEF Egress!RemoveAt
<1> HIDE DEF l, r
<1>4. /\ l \in Seq(S) /\ Len(l) = i - 1 /\ \A j \in 1 .. i - 1 : l[j] = s[j]
      /\ r \in Seq(S) /\ Len(r) = Len(s) - i /\ \A j \in 1 .. Len(s) - i : r[j] = s[i + j]
  BY <1>1, <1>2 DEF l, r
<1>5. l \o r \in Seq(S) /\ Len(l \o r) = Len(s) - 1
  BY <1>4, ConcatProperties
<1>6. ASSUME NEW j \in 1 .. Len(s) - 1
      PROVE  (l \o r)[j] = IF j < i THEN s[j] ELSE s[j + 1]
  <2>1. (l \o r)[j] = IF j <= Len(l) THEN l[j] ELSE r[j - Len(l)]
    <3>1. j \in 1 .. Len(l) + Len(r)
      BY <1>4
    <3> QED BY <1>4, <3>1, ConcatProperties
  <2>2. CASE j < i
    BY <1>4, <2>1, <2>2
  <2>3. CASE ~(j < i)
    <3>1. j - (i - 1) \in 1 .. Len(s) - i /\ i + (j - (i - 1)) = j + 1
      BY <2>3
    <3>2. r[j - (i - 1)] = s[i + (j - (i - 1))]
      BY <1>4, <3>1
    <3>3. (l \o r)[j] = r[j - (i - 1)]
      BY <1>4, <2>1, <2>3
    <3>5. (l \o r)[j] = s[j + 1]
      BY <3>1, <3>2, <3>3
    <3> QED BY <2>3, <3>5
  <2> QED BY <2>2, <2>3
<1> QED BY <1>3, <1>5, <1>6

(* The record of a finished evaluation.                                    *)
LEMMA ResultRecord ==
  ASSUME NEW t \in BOOLEAN, NEW f \in BOOLEAN, NEW e \in Effects
  PROVE  /\ Egress!Result(t, f, e) \in Jobs
         /\ Egress!Result(t, f, e).state = "done"
         /\ (t /\ (f \/ e # "ALLOW")) => FailsClosed(Egress!Result(t, f, e))
<1>1. Egress!Result(t, f, e) = [state |-> "done", target |-> t, failed |-> f, effect |-> e]
  BY DEF Egress!Result
<1>2. Egress!Result(t, f, e) \in
        [state : {"done"}, target : BOOLEAN, failed : BOOLEAN, effect : Effects]
  BY <1>1
<1> QED BY <1>1, <1>2 DEF Jobs, FailsClosed

(* An executable that is not the pinned one is found out.                  *)
LEMMA ChangedRefused ==
  Egress!BindOrVerify("target", Egress!Executable, Egress!Pinned,
     Egress!ProcessIdentity("target", 1, Egress!ArtifactIdentity("other", "other"), FALSE)).ok
        = FALSE
<1> DEFINE identity ==
             Egress!ProcessIdentity("target", 1, Egress!ArtifactIdentity("other", "other"), FALSE)
           first == Egress!ProcessIdentity("target", 1, Egress!Executable, TRUE)
<1>1. identity.pid = "target" /\ identity.artifact.file = "other"
  BY DEF Egress!ProcessIdentity, Egress!ArtifactIdentity
<1>2. /\ first = [pid |-> "target", start |-> 1, artifact |-> Egress!Executable]
      /\ first.pid = "target" /\ first.artifact = Egress!Executable
      /\ Egress!Executable.file = "python"
  BY DEF Egress!ProcessIdentity, Egress!ArtifactIdentity, Egress!Executable
<1>3. Egress!Pinned = first
  <2>1. Egress!Pinned =
          Egress!BindOrVerify("target", Egress!Executable, Egress!Unpinned, first).pinned
    BY DEF Egress!Pinned
  <2> HIDE DEF first
  <2> QED BY <1>2, <2>1 DEF Egress!BindOrVerify
<1>4. Egress!Pinned # Egress!Unpinned
  <2>1. Egress!Unpinned.pid = "unpinned"
    BY DEF Egress!Unpinned
  <2> HIDE DEF first
  <2> QED BY <1>2, <1>3, <2>1
<1> HIDE DEF identity, first
<1>5. Egress!BindOrVerify("target", Egress!Executable, Egress!Pinned, identity).ok = FALSE
  BY <1>1, <1>2, <1>3, <1>4 DEF Egress!BindOrVerify
<1> QED BY <1>5 DEF identity

(* What an evaluation comes to.                                            *)
LEMMA Judged ==
  ASSUME EgressTypes, NEW c \in Egress!Callers, NEW seen \in {"good", "changed", "unreadable"},
         Egress!Judge(c, seen)
  PROVE  /\ job[c].state = "running"
         /\ \E j \in Jobs : /\ job' = [job EXCEPT ![c] = j] /\ j.state \in {"deciding", "done"}
                            /\ c \in BrokerTargets /\ destination[c] = "external" => FailsClosed(j)
         /\ UNCHANGED <<scenario, destination, call, pending, worker, listener, phase>>
         /\ faults' = faults \/ Egress!Fault
<1> DEFINE t == c \in BrokerTargets
           failed == scenario = "adapter-failure"
           found == IF seen = "changed" THEN Egress!ArtifactIdentity("other", "other")
                    ELSE Egress!Executable
           identity == Egress!ProcessIdentity("target", 1, found, FALSE)
           verified == Egress!BindOrVerify("target", Egress!Executable, Egress!Pinned, identity).ok
           effect == IF failed THEN "ABSTAIN" ELSE Egress!Evaluate(seen # "changed", destination[c])
           bad == failed \/ (t /\ ~verified)
           asked == [state |-> "deciding", asked |-> effect, failed |-> bad]
           crash == scenario = "worker-crash"
           j == IF seen = "unreadable" THEN Egress!Result(TRUE, TRUE, "ABSTAIN")
                ELSE IF crash /\ t THEN asked
                ELSE Egress!Result(t, bad, IF crash THEN "ALLOW" ELSE effect)
<1>1. /\ job[c].state = "running" /\ job' = [job EXCEPT ![c] = j]
      /\ UNCHANGED <<scenario, destination, call, pending, worker, listener, phase>>
      /\ faults' = faults \/ Egress!Fault
  BY DEF Egress!Judge
<1>2. effect \in Effects /\ {t, failed, bad} \subseteq BOOLEAN
  BY DEF Egress!Evaluate, Effects
<1>3. seen = "changed" /\ t => bad
  BY ChangedRefused
<1>4. seen = "good" /\ destination[c] = "external" => effect # "ALLOW"
  BY DEF Egress!Evaluate
<1> HIDE DEF effect, bad, t, crash
<1>5. asked \in Jobs /\ asked.state = "deciding" /\ (bad \/ effect # "ALLOW" => FailsClosed(asked))
  <2>1. asked \in [state : {"deciding"}, asked : Effects, failed : BOOLEAN]
    BY <1>2
  <2> QED BY <2>1 DEF Jobs, FailsClosed
<1> HIDE DEF asked
<1>6. "ABSTAIN" \in Effects /\ "ALLOW" \in Effects
  BY DEF Effects
<1>7. CASE seen = "unreadable"
  BY <1>1, <1>6, <1>7, ResultRecord
<1>8. CASE seen # "unreadable" /\ crash /\ t
  BY <1>1, <1>3, <1>4, <1>5, <1>8 DEF t
<1>9. CASE seen # "unreadable" /\ ~(crash /\ t)
  <2> DEFINE e == IF crash THEN "ALLOW" ELSE effect
  <2>1. e \in Effects /\ (t => e = effect)
    BY <1>2, <1>6, <1>9
  <2>2. j = Egress!Result(t, bad, e)
    BY <1>9
  <2> HIDE DEF e
  <2>3. /\ Egress!Result(t, bad, e) \in Jobs /\ Egress!Result(t, bad, e).state = "done"
        /\ (t /\ (bad \/ e # "ALLOW")) => FailsClosed(Egress!Result(t, bad, e))
    BY <1>2, <2>1, ResultRecord
  <2>4. t /\ destination[c] = "external" => FailsClosed(j)
    BY <1>3, <1>4, <1>9, <2>1, <2>2, <2>3
  <2> HIDE DEF j
  <2> QED BY <1>1, <2>2, <2>3, <2>4 DEF t
<1> QED BY <1>7, <1>8, <1>9


(* Each variable of the broker keeps its type.                             *)
LEMMA EgressType ==
  ASSUME EgressInv, Egress!Next, EgressBounds
  PROVE  EgressTypes'
<1> USE DEF EgressInv, EgressBounds, EgressTypes
<1>1. ASSUME NEW c \in Egress!Callers, Egress!Connect(c)
       PROVE  EgressTypes'
  BY <1>1 DEF Egress!Connect
<1>2. ASSUME NEW c \in Egress!Callers, Egress!Interrupt(c)
       PROVE  EgressTypes'
  BY <1>2 DEF Egress!Interrupt, Egress!Fault
<1>3. ASSUME NEW c \in Egress!Callers, NEW resolved \in BOOLEAN, Egress!Receive(c, resolved)
       PROVE  EgressTypes'
  <2>1. job' = job \/ job' = [job EXCEPT ![c] = [state |-> "queued"]]
    BY <1>3 DEF Egress!Receive
  <2>2. [state |-> "queued"] \in Jobs
    BY DEF Jobs
  <2>a. pending' = pending \/ pending' = Append(pending, c)
    BY <1>3 DEF Egress!Receive
  <2>3. pending' \in Seq(Egress!Callers)
    BY <2>a, AppendProperties
  <2>4. UNCHANGED <<scenario, destination, worker>> /\ listener' \in BOOLEAN
    BY <1>3 DEF Egress!Receive
  <2> QED BY <2>1, <2>2, <2>3, <2>4
<1>4. ASSUME NEW c \in Egress!Callers, NEW late \in BOOLEAN, Egress!Collect(c, late)
       PROVE  EgressTypes'
  <2>1. Egress!NoJob \in Jobs
    BY DEF Jobs, Egress!NoJob
  <2>2. PICK i \in DOMAIN pending : pending' = Egress!RemoveAt(pending, i)
    BY <1>4 DEF Egress!Collect
  <2>3. pending' \in Seq(Egress!Callers)
    BY <2>2, RemoveAtKeeps
  <2>4. UNCHANGED <<scenario, destination, worker,
     listener>> /\ job' = [job EXCEPT ![c] = Egress!NoJob]
    BY <1>4 DEF Egress!Collect
  <2> QED BY <2>1, <2>3, <2>4
<1>5. ASSUME NEW c \in Egress!Callers, Egress!SendRaises(c)
       PROVE  EgressTypes'
  BY <1>5 DEF Egress!SendRaises
<1>6. ASSUME NEW c \in Egress!Callers, Egress!Begin(c)
       PROVE  EgressTypes'
  <2>1. [state |-> "running"] \in Jobs
    BY DEF Jobs
  <2> QED BY <1>6, <2>1 DEF Egress!Begin
<1>7. ASSUME NEW c \in Egress!Callers, NEW seen \in {"good", "changed", "unreadable"},
              Egress!Judge(c, seen)
       PROVE  EgressTypes'
  <2>1. PICK j \in Jobs : job' = [job EXCEPT ![c] = j]
    BY <1>7, Judged
  <2>2. UNCHANGED <<scenario, destination, pending, worker, listener>>
    BY <1>7, Judged
  <2> QED BY <2>1, <2>2
<1>8. ASSUME NEW c \in Egress!Callers, Egress!Ask(c)
       PROVE  EgressTypes'
  <2>1. job[c] \in Jobs /\ job[c].state = "deciding"
    BY <1>8 DEF Egress!Ask
  <2>2. job[c].asked \in Effects
    BY <2>1 DEF Jobs
  <2>3. Egress!Result(TRUE, TRUE, "ABSTAIN") \in Jobs
    BY ResultRecord DEF Effects
  <2>4. /\ worker' = worker \/ worker' = [worker EXCEPT !.lock = c, !.request = job[c].asked]
        /\ job' = job \/ job' = [job EXCEPT ![c] = Egress!Result(TRUE, TRUE, "ABSTAIN")]
        /\ UNCHANGED <<scenario, destination, pending, listener>>
    BY <1>8 DEF Egress!Ask
  <2> DEFINE r == Egress!Result(TRUE, TRUE, "ABSTAIN")
  <2> HIDE DEF r
  <2>5. job' \in [Egress!Callers -> Jobs]
    <3>1. r \in Jobs /\ (job' = job \/ job' = [job EXCEPT ![c] = r])
      BY <2>3, <2>4 DEF r
    <3> QED BY <3>1
  <2>6. worker' \in [gen : Nat, up : BOOLEAN, request : Effects \cup {Egress!Nobody},
                    response : Effects \cup {Egress!Nobody},
                    lock : Egress!Callers \cup {Egress!Nobody}]
    <3> DEFINE asked == job[c].asked
    <3>1. asked \in Effects /\ (worker' = worker \/ worker' = [worker EXCEPT !.lock = c,
       !.request = asked])
      BY <2>2, <2>4
    <3> HIDE DEF asked
    <3>2. CASE worker' = worker
      BY <3>2
    <3>3. CASE worker' = [worker EXCEPT !.lock = c, !.request = asked]
      <4>1. worker' = [gen |-> worker.gen, up |-> worker.up, request |-> asked,
                       response |-> worker.response, lock |-> c]
        BY <3>3
      <4> QED BY <3>1, <4>1
    <3> QED BY <3>1, <3>2, <3>3
  <2> QED BY <2>4, <2>5, <2>6
<1>9. ASSUME NEW c \in Egress!Callers, Egress!Take(c)
       PROVE  EgressTypes'
  <2>1. job[c] \in Jobs /\ job[c].state = "deciding"
    BY <1>9 DEF Egress!Take, WorkerSound
  <2>2. job[c].failed \in BOOLEAN
    BY <2>1 DEF Jobs
  <2>3. /\ worker.response \in Effects
        /\ worker' = [worker EXCEPT !.response = Egress!Nobody, !.lock = Egress!Nobody]
        /\ job' = [job EXCEPT ![c] = Egress!Result(TRUE, job[c].failed, worker.response)]
        /\ UNCHANGED <<scenario, destination, pending, listener>>
    BY <1>9 DEF Egress!Take
  <2>4. Egress!Result(TRUE, job[c].failed, worker.response) \in Jobs
    BY <2>2, <2>3, ResultRecord
  <2> QED BY <2>3, <2>4
<1>10. ASSUME NEW c \in Egress!Callers, Egress!Recover(c)
       PROVE  EgressTypes'
  <2>1. job[c] \in Jobs /\ job[c].state = "deciding"
    BY <1>10 DEF Egress!Recover, WorkerSound
  <2>2. job[c].failed \in BOOLEAN
    BY <2>1 DEF Jobs
  <2>3. Egress!EnforcementEffect("ABSTAIN", TRUE, TRUE) \in Effects
    BY DEF Egress!EnforcementEffect, Effects
  <2>4. /\ worker' = Egress!Started(Egress!Stopped.gen + 1)
        /\ job' = [job EXCEPT ![c] = Egress!Result(TRUE, job[c].failed,
                                        Egress!EnforcementEffect("ABSTAIN", TRUE, TRUE))]
        /\ UNCHANGED <<scenario, destination, pending, listener>>
    BY <1>10 DEF Egress!Recover
  <2>5. Egress!Stopped.gen = worker.gen
    BY DEF Egress!Stopped
  <2>6. worker' = [gen |-> worker.gen + 1, up |-> TRUE, request |-> Egress!Nobody,
                   response |-> Egress!Nobody, lock |-> Egress!Nobody]
    BY <2>4, <2>5 DEF Egress!Started
  <2>7. Egress!Result(TRUE, job[c].failed, Egress!EnforcementEffect("ABSTAIN", TRUE,
     TRUE)) \in Jobs
    BY <2>2, <2>3, ResultRecord
  <2> DEFINE r == Egress!Result(TRUE, job[c].failed, Egress!EnforcementEffect("ABSTAIN", TRUE,
     TRUE))
  <2>8. job' = [job EXCEPT ![c] = r] /\ r \in Jobs
    BY <2>4, <2>7
  <2> HIDE DEF r
  <2>9. job' \in [Egress!Callers -> Jobs]
    BY <2>8
  <2>10. worker' \in [gen : Nat, up : BOOLEAN, request : Effects \cup {Egress!Nobody},
                    response : Effects \cup {Egress!Nobody},
                    lock : Egress!Callers \cup {Egress!Nobody}]
    BY <2>6
  <2> QED BY <2>4, <2>9, <2>10
<1>11. CASE Egress!Serve
  BY <1>11 DEF Egress!Serve
<1>12. CASE Egress!Crash
  BY <1>12 DEF Egress!Crash, Egress!Fault
<1>13. CASE Egress!Watchdog
  BY <1>13 DEF Egress!Watchdog
<1>14. CASE Egress!Status
  BY <1>14 DEF Egress!Status
<1>15. CASE Egress!Close
  <2>1. worker' = Egress!Stopped /\ listener' = FALSE
        /\ UNCHANGED <<scenario, destination, pending>>
    BY <1>15 DEF Egress!Close
  <2>2. job' \in [Egress!Callers -> Jobs]
    BY <1>15 DEF Egress!Close, Egress!NoJob, Jobs
  <2>3. Egress!Stopped \in [gen : Nat, up : BOOLEAN, request : Effects \cup {Egress!Nobody},
                 response : Effects \cup {Egress!Nobody},
                 lock : Egress!Callers \cup {Egress!Nobody}]
    BY DEF Egress!Stopped
  <2> QED BY <2>1, <2>2, <2>3
<1>16. CASE Egress!Idle
  BY <1>16 DEF Egress!Idle, Egress!vars
<1> QED BY <1>1, <1>2, <1>3, <1>4, <1>5, <1>6, <1>7, <1>8, <1>9, <1>10, <1>11, <1>12, <1>13,
   <1>14, <1>15, <1>16 DEF Egress!Next

(* What the type invariant says of the calls and of the bounds.            *)
EgressCalls ==
  /\ call \in [Egress!Callers -> Egress!Finished \cup {"idle", "queued", "received"}]
  /\ phase \in {"loop", "ending", "closed"} /\ faults \in 0 .. BrokerFaults
  /\ Len(pending) <= QueueCapacity

(* What the kernel knows of the connects keeps its type.                   *)
LEMMA CallsStep ==
  ASSUME EgressInv, Egress!Next, EgressBounds
  PROVE  EgressCalls'
<1> USE DEF EgressInv, EgressBounds, EgressTypes, EgressCalls, Egress!TypeOK, Egress!Finished
<1>1. ASSUME NEW c \in Egress!Callers, Egress!Connect(c)
       PROVE  EgressCalls'
  BY <1>1 DEF Egress!Connect
<1>2. ASSUME NEW c \in Egress!Callers, Egress!Interrupt(c)
       PROVE  EgressCalls'
  BY <1>2 DEF Egress!Interrupt, Egress!Fault
<1>3. ASSUME NEW c \in Egress!Callers, NEW resolved \in BOOLEAN, Egress!Receive(c, resolved)
       PROVE  EgressCalls'
  <2>1. \/ pending' = pending
        \/ Len(pending) < QueueCapacity /\ pending' = Append(pending, c)
    BY <1>3 DEF Egress!Receive
  <2>2. Len(pending') <= QueueCapacity
    BY <2>1, AppendProperties
  <2>3. PICK a \in {"denied", "allowed", "received"} : call' = [call EXCEPT ![c] = a]
    BY <1>3 DEF Egress!Receive
  <2>4. phase' = phase /\ (faults' = faults \/ Egress!Fault)
    BY <1>3 DEF Egress!Receive
  <2> QED BY <2>2, <2>3, <2>4 DEF Egress!Fault
<1>4. ASSUME NEW c \in Egress!Callers, NEW late \in BOOLEAN, Egress!Collect(c, late)
       PROVE  EgressCalls'
  <2>1. PICK i \in DOMAIN pending : pending' = Egress!RemoveAt(pending, i)
    BY <1>4 DEF Egress!Collect
  <2>2. Len(pending') = Len(pending) - 1
    BY <2>1, RemoveAtKeeps
  <2>3. PICK a \in Egress!Finished \cup {"idle", "queued", "received"} :
          call' = [call EXCEPT ![c] = a]
    <3>1. call[c] \in Egress!Finished \cup {"idle", "queued", "received"}
      OBVIOUS
    <3> QED BY <1>4, <3>1 DEF Egress!Collect, Egress!Respond
  <2>4. UNCHANGED <<phase, faults>>
    BY <1>4 DEF Egress!Collect
  <2> QED BY <2>2, <2>3, <2>4
<1>5. ASSUME NEW c \in Egress!Callers, Egress!SendRaises(c)
       PROVE  EgressCalls'
  BY <1>5 DEF Egress!SendRaises
<1>6. ASSUME NEW c \in Egress!Callers, Egress!Begin(c)
       PROVE  EgressCalls'
  BY <1>6 DEF Egress!Begin
<1>7. ASSUME NEW c \in Egress!Callers, NEW seen \in {"good", "changed", "unreadable"},
              Egress!Judge(c, seen)
       PROVE  EgressCalls'
  <2>1. UNCHANGED <<call, phase, pending>> /\ (faults' = faults \/ Egress!Fault)
    BY <1>7, Judged
  <2> QED BY <2>1 DEF Egress!Fault
<1>8. ASSUME NEW c \in Egress!Callers, Egress!Ask(c)
       PROVE  EgressCalls'
  <2>1. UNCHANGED <<call, phase, pending, faults>>
    BY <1>8 DEF Egress!Ask
  <2> QED BY <2>1
<1>9. ASSUME NEW c \in Egress!Callers, Egress!Take(c)
       PROVE  EgressCalls'
  <2>1. UNCHANGED <<call, phase, pending, faults>>
    BY <1>9 DEF Egress!Take
  <2> QED BY <2>1
<1>10. ASSUME NEW c \in Egress!Callers, Egress!Recover(c)
       PROVE  EgressCalls'
  <2>1. UNCHANGED <<call, phase, pending>> /\ (faults' = faults \/ Egress!Fault)
    BY <1>10 DEF Egress!Recover
  <2> QED BY <2>1 DEF Egress!Fault
<1>11. CASE Egress!Serve
  BY <1>11 DEF Egress!Serve
<1>12. CASE Egress!Crash
  BY <1>12 DEF Egress!Crash, Egress!Fault
<1>13. CASE Egress!Watchdog
  BY <1>13 DEF Egress!Watchdog
<1>14. CASE Egress!Status
  BY <1>14 DEF Egress!Status
<1>15. CASE Egress!Close
  BY <1>15 DEF Egress!Close, Egress!Stopped
<1>16. CASE Egress!Idle
  BY <1>16 DEF Egress!Idle, Egress!vars
<1> QED BY <1>1, <1>2, <1>3, <1>4, <1>5, <1>6, <1>7, <1>8, <1>9, <1>10, <1>11, <1>12, <1>13,
   <1>14, <1>15, <1>16 DEF Egress!Next

(* A new subprocess is started for the second generation, or for a fault.  *)
LEMMA StartsStep ==
  ASSUME EgressInv, Egress!Next, EgressBounds
  PROVE  StartsCounted'
<1> USE DEF EgressInv, EgressBounds, EgressTypes, StartsCounted, Egress!TypeOK
<1>1. ASSUME NEW c \in Egress!Callers, Egress!Connect(c)
       PROVE  StartsCounted'
  BY <1>1 DEF Egress!Connect
<1>2. ASSUME NEW c \in Egress!Callers, Egress!Interrupt(c)
       PROVE  StartsCounted'
  BY <1>2 DEF Egress!Interrupt, Egress!Fault
<1>3. ASSUME NEW c \in Egress!Callers, NEW resolved \in BOOLEAN, Egress!Receive(c, resolved)
       PROVE  StartsCounted'
  <2>1. UNCHANGED <<worker, phase>> /\ (faults' = faults \/ faults' = faults + 1)
    BY <1>3 DEF Egress!Receive, Egress!Fault
  <2> QED BY <2>1
<1>4. ASSUME NEW c \in Egress!Callers, NEW late \in BOOLEAN, Egress!Collect(c, late)
       PROVE  StartsCounted'
  BY <1>4 DEF Egress!Collect, Egress!Respond
<1>5. ASSUME NEW c \in Egress!Callers, Egress!SendRaises(c)
       PROVE  StartsCounted'
  BY <1>5 DEF Egress!SendRaises
<1>6. ASSUME NEW c \in Egress!Callers, Egress!Begin(c)
       PROVE  StartsCounted'
  BY <1>6 DEF Egress!Begin
<1>7. ASSUME NEW c \in Egress!Callers, NEW seen \in {"good", "changed", "unreadable"},
              Egress!Judge(c, seen)
       PROVE  StartsCounted'
  <2>1. UNCHANGED <<worker, phase>> /\ (faults' = faults \/ faults' = faults + 1)
    BY <1>7, Judged DEF Egress!Fault
  <2> QED BY <2>1
<1>8. ASSUME NEW c \in Egress!Callers, Egress!Ask(c)
       PROVE  StartsCounted'
  <2>1. UNCHANGED <<phase, faults>> /\ worker'.gen = worker.gen /\ worker'.up = worker.up
    BY <1>8 DEF Egress!Ask
  <2> QED BY <2>1
<1>9. ASSUME NEW c \in Egress!Callers, Egress!Take(c)
       PROVE  StartsCounted'
  <2>1. UNCHANGED <<phase, faults>> /\ worker'.gen = worker.gen /\ worker'.up = worker.up
    BY <1>9 DEF Egress!Take
  <2> QED BY <2>1
<1>10. ASSUME NEW c \in Egress!Callers, Egress!Recover(c)
       PROVE  StartsCounted'
  <2>1. Egress!Stopped.gen = worker.gen
    BY DEF Egress!Stopped
  <2>2. /\ worker' = [gen |-> worker.gen + 1, up |-> TRUE, request |-> Egress!Nobody,
                      response |-> Egress!Nobody, lock |-> Egress!Nobody]
        /\ worker.lock = c /\ phase' = phase
        /\ IF worker.up /\ worker.gen > 1 THEN faults' = faults + 1 ELSE faults' = faults
    BY <1>10, <2>1 DEF Egress!Recover, Egress!Started, Egress!Fault
  <2>3. phase # "closed"
    BY <2>2, NobodyCalls DEF WorkerSound, Egress!ClosedForGood
  <2>4. worker'.gen = worker.gen + 1 /\ worker'.up = TRUE
    BY <2>2
  <2>5. worker.gen + 1 <= faults' + 2
    <3>1. CASE worker.gen = 1
      BY <2>2, <3>1
    <3>2. CASE worker.gen > 1 /\ worker.up
      BY <2>2, <3>2
    <3>3. CASE worker.gen > 1 /\ ~worker.up
      BY <2>2, <2>3, <3>3
    <3> QED BY <3>1, <3>2, <3>3
  <2> QED BY <2>4, <2>5
<1>11. CASE Egress!Serve
  BY <1>11 DEF Egress!Serve
<1>12. CASE Egress!Crash
  BY <1>12 DEF Egress!Crash, Egress!Fault
<1>13. CASE Egress!Watchdog
  BY <1>13 DEF Egress!Watchdog
<1>14. CASE Egress!Status
  BY <1>14 DEF Egress!Status
<1>15. CASE Egress!Close
  BY <1>15 DEF Egress!Close, Egress!Stopped
<1>16. CASE Egress!Idle
  BY <1>16 DEF Egress!Idle, Egress!vars
<1> QED BY <1>1, <1>2, <1>3, <1>4, <1>5, <1>6, <1>7, <1>8, <1>9, <1>10, <1>11, <1>12, <1>13,
   <1>14, <1>15, <1>16 DEF Egress!Next

(* The type invariant the module states.                                   *)
LEMMA EgressTypeOKStep ==
  ASSUME EgressInv, Egress!Next, EgressBounds
  PROVE  Egress!TypeOK'
<1>1. EgressTypes' /\ EgressCalls' /\ StartsCounted'
  BY EgressType, CallsStep, StartsStep
<1>2. \A c \in Egress!Callers : job'[c].state \in {"none", "queued", "running", "deciding", "done"}
  BY <1>1 DEF EgressTypes, Jobs
<1>3. worker'.gen \in 1 .. BrokerFaults + 2
  <2>1. worker'.gen \in Nat
    BY <1>1 DEF EgressTypes
  <2> QED BY <1>1, <2>1 DEF StartsCounted, EgressCalls, EgressBounds
<1> QED BY <1>1, <1>2, <1>3 DEF EgressTypes, EgressCalls, Egress!TypeOK


(* The channel belongs to the holder of the lock, and goes with it.        *)
LEMMA WorkerStep ==
  ASSUME EgressInv, Egress!Next, EgressBounds
  PROVE  WorkerSound'
<1> USE DEF EgressInv, EgressBounds, EgressTypes, WorkerSound, Egress!ClosedForGood
<1>1. ASSUME NEW c \in Egress!Callers, Egress!Connect(c)
       PROVE  WorkerSound'
  BY <1>1 DEF Egress!Connect
<1>2. ASSUME NEW c \in Egress!Callers, Egress!Interrupt(c)
       PROVE  WorkerSound'
  BY <1>2 DEF Egress!Interrupt, Egress!Fault
<1>3. ASSUME NEW c \in Egress!Callers, NEW resolved \in BOOLEAN, Egress!Receive(c, resolved)
       PROVE  WorkerSound'
  <2>1. UNCHANGED <<worker,
     phase>> /\ (job' = job \/ job' = [job EXCEPT ![c] = [state |-> "queued"]])
    BY <1>3 DEF Egress!Receive
  <2>2. job[c] = Egress!NoJob \/ job' = job
    BY <1>3 DEF FuturesSound, Egress!Receive
  <2>3. job[c].state = "none" \/ job' = job
    BY <2>2 DEF Egress!NoJob
  <2> QED BY <2>1, <2>3
<1>4. ASSUME NEW c \in Egress!Callers, NEW late \in BOOLEAN, Egress!Collect(c, late)
       PROVE  WorkerSound'
  <2>1. /\ UNCHANGED <<worker, phase>> /\ job' = [job EXCEPT ![c] = Egress!NoJob]
        /\ job[c].state = "done"
    BY <1>4 DEF Egress!Collect
  <2> QED BY <2>1
<1>5. ASSUME NEW c \in Egress!Callers, Egress!SendRaises(c)
       PROVE  WorkerSound'
  BY <1>5 DEF Egress!SendRaises
<1>6. ASSUME NEW c \in Egress!Callers, Egress!Begin(c)
       PROVE  WorkerSound'
  <2>1. /\ UNCHANGED <<worker, phase>> /\ job' = [job EXCEPT ![c] = [state |-> "running"]]
        /\ job[c].state = "queued"
    BY <1>6 DEF Egress!Begin
  <2> QED BY <2>1
<1>7. ASSUME NEW c \in Egress!Callers, NEW seen \in {"good", "changed", "unreadable"},
              Egress!Judge(c, seen)
       PROVE  WorkerSound'
  <2>1. /\ UNCHANGED <<worker, phase>> /\ job[c].state = "running"
        /\ \E j : job' = [job EXCEPT ![c] = j]
    BY <1>7, Judged
  <2> QED BY <2>1
<1>8. ASSUME NEW c \in Egress!Callers, Egress!Ask(c)
       PROVE  WorkerSound'
  <2>0. worker.lock = Egress!Nobody /\ job[c].state = "deciding"
    BY <1>8 DEF Egress!Ask
  <2>1. CASE /\ phase # "closed" /\ UNCHANGED <<job, phase>>
             /\ worker' = [worker EXCEPT !.lock = c, !.request = job[c].asked]
    <3>1. /\ worker'.lock = c /\ worker'.request = job[c].asked
          /\ worker'.response = Egress!Nobody
      BY <2>0, <2>1
    <3> QED BY <2>0, <2>1, <3>1, NobodyCalls
  <2>2. CASE /\ UNCHANGED <<worker, phase>> /\ \E j : job' = [job EXCEPT ![c] = j]
    BY <2>0, <2>2, NobodyCalls
  <2> QED BY <1>8, <2>1, <2>2 DEF Egress!Ask
<1>9. ASSUME NEW c \in Egress!Callers, Egress!Take(c)
       PROVE  WorkerSound'
  <2>1. /\ worker.lock = c /\ UNCHANGED phase
        /\ worker' = [worker EXCEPT !.response = Egress!Nobody, !.lock = Egress!Nobody]
        /\ worker.response # Egress!Nobody
    BY <1>9 DEF Egress!Take
  <2>2. /\ worker'.lock = Egress!Nobody /\ worker'.response = Egress!Nobody
        /\ worker'.request = worker.request /\ worker'.up = worker.up
    BY <2>1
  <2>3. phase # "closed"
    BY <2>1, NobodyCalls
  <2> QED BY <2>1, <2>2, <2>3, NobodyCalls
<1>10. ASSUME NEW c \in Egress!Callers, Egress!Recover(c)
       PROVE  WorkerSound'
  <2>1. /\ worker'.lock = Egress!Nobody /\ worker'.request = Egress!Nobody
        /\ worker'.response = Egress!Nobody /\ worker.lock = c /\ phase' = phase
    BY <1>10 DEF Egress!Recover, Egress!Started
  <2>2. phase # "closed"
    BY <2>1, NobodyCalls
  <2> QED BY <2>1, <2>2, NobodyCalls
<1>11. CASE Egress!Serve
  <2>1. /\ worker'.lock = worker.lock /\ worker'.request = Egress!Nobody
        /\ worker'.response = worker.request /\ worker.request # Egress!Nobody /\ worker.up
        /\ UNCHANGED <<job, phase>>
    BY <1>11 DEF Egress!Serve
  <2> QED BY <2>1
<1>12. CASE Egress!Crash
  <2>1. /\ worker'.lock = worker.lock /\ worker'.request = Egress!Nobody
        /\ worker'.response = worker.response /\ worker'.up = FALSE
        /\ UNCHANGED <<job, phase>>
    BY <1>12 DEF Egress!Crash
  <2> QED BY <2>1
<1>13. CASE Egress!Watchdog
  BY <1>13 DEF Egress!Watchdog
<1>14. CASE Egress!Status
  BY <1>14 DEF Egress!Status
<1>15. CASE Egress!Close
  <2>1. /\ worker'.lock = worker.lock /\ worker'.request = Egress!Nobody
        /\ worker'.response = Egress!Nobody /\ worker'.up = FALSE /\ worker.lock = Egress!Nobody
    BY <1>15 DEF Egress!Close, Egress!Stopped
  <2> QED BY <2>1, NobodyCalls
<1>16. CASE Egress!Idle
  BY <1>16 DEF Egress!Idle, Egress!vars
<1> QED BY <1>1, <1>2, <1>3, <1>4, <1>5, <1>6, <1>7, <1>8, <1>9, <1>10, <1>11, <1>12, <1>13,
   <1>14, <1>15, <1>16 DEF Egress!Next

(* An evaluation of an outside connect of the target never allows it.      *)
LEMMA FailsClosedStep ==
  ASSUME EgressInv, Egress!Next, EgressBounds
  PROVE  JobsFailClosed'
<1> USE DEF EgressInv, EgressBounds, EgressTypes, JobsFailClosed, FailsClosed, Egress!Callers
<1>1. ASSUME NEW c \in Egress!Callers, Egress!Connect(c)
       PROVE  JobsFailClosed'
  BY <1>1 DEF Egress!Connect
<1>2. ASSUME NEW c \in Egress!Callers, Egress!Interrupt(c)
       PROVE  JobsFailClosed'
  BY <1>2 DEF Egress!Interrupt, Egress!Fault
<1>3. ASSUME NEW c \in Egress!Callers, NEW resolved \in BOOLEAN, Egress!Receive(c, resolved)
       PROVE  JobsFailClosed'
  <2>1. UNCHANGED destination /\ (job' = job \/ job' = [job EXCEPT ![c] = [state |-> "queued"]])
    BY <1>3 DEF Egress!Receive
  <2> QED BY <2>1
<1>4. ASSUME NEW c \in Egress!Callers, NEW late \in BOOLEAN, Egress!Collect(c, late)
       PROVE  JobsFailClosed'
  <2>1. UNCHANGED destination /\ job' = [job EXCEPT ![c] = Egress!NoJob]
        /\ Egress!NoJob.state = "none"
    BY <1>4 DEF Egress!Collect, Egress!NoJob
  <2> QED BY <2>1
<1>5. ASSUME NEW c \in Egress!Callers, Egress!SendRaises(c)
       PROVE  JobsFailClosed'
  BY <1>5 DEF Egress!SendRaises
<1>6. ASSUME NEW c \in Egress!Callers, Egress!Begin(c)
       PROVE  JobsFailClosed'
  <2>1. UNCHANGED destination /\ job' = [job EXCEPT ![c] = [state |-> "running"]]
    BY <1>6 DEF Egress!Begin
  <2> QED BY <2>1
<1>7. ASSUME NEW c \in Egress!Callers, NEW seen \in {"good", "changed", "unreadable"},
              Egress!Judge(c, seen)
       PROVE  JobsFailClosed'
  <2>1. PICK j : /\ job' = [job EXCEPT ![c] = j]
                 /\ c \in BrokerTargets /\ destination[c] = "external" => FailsClosed(j)
    BY <1>7, Judged
  <2>2. UNCHANGED destination
    BY <1>7, Judged
  <2> QED BY <2>1, <2>2
<1>8. ASSUME NEW c \in Egress!Callers, Egress!Ask(c)
       PROVE  JobsFailClosed'
  <2>1. Egress!Result(TRUE, TRUE, "ABSTAIN") \in Jobs /\ FailsClosed(Egress!Result(TRUE, TRUE,
     "ABSTAIN"))
    BY ResultRecord DEF Effects
  <2> DEFINE r == Egress!Result(TRUE, TRUE, "ABSTAIN")
  <2>2. UNCHANGED destination /\ (job' = job \/ job' = [job EXCEPT ![c] = r]) /\ FailsClosed(r)
    BY <1>8, <2>1 DEF Egress!Ask
  <2> HIDE DEF r
  <2> QED BY <2>2
<1>9. ASSUME NEW c \in Egress!Callers, Egress!Take(c)
       PROVE  JobsFailClosed'
  <2>1. /\ job[c] \in Jobs /\ job[c].state = "deciding" /\ worker.response = job[c].asked
        /\ worker.response \in Effects /\ UNCHANGED destination
    BY <1>9 DEF Egress!Take, WorkerSound
  <2>2. job[c].failed \in BOOLEAN
    BY <2>1 DEF Jobs
  <2> DEFINE r == Egress!Result(TRUE, job[c].failed, worker.response)
  <2>3. job' = [job EXCEPT ![c] = r]
    BY <1>9 DEF Egress!Take
  <2>4. job[c].failed \/ job[c].asked # "ALLOW" => FailsClosed(r)
    <3> DEFINE f == job[c].failed
               e == worker.response
    <3>1. /\ f \in BOOLEAN /\ e \in Effects /\ r = Egress!Result(TRUE, f, e)
          /\ e = job[c].asked
      BY <2>1, <2>2
    <3> HIDE DEF f, e, r
    <3>2. f \/ e # "ALLOW" => FailsClosed(r)
      BY ONLY <3>1, ResultRecord
    <3> QED BY <3>1, <3>2 DEF f
  <2> HIDE DEF r
  <2> QED BY <2>1, <2>3, <2>4
<1>10. ASSUME NEW c \in Egress!Callers, Egress!Recover(c)
       PROVE  JobsFailClosed'
  <2>1. /\ job[c] \in Jobs /\ job[c].state = "deciding" /\ UNCHANGED destination
    BY <1>10 DEF Egress!Recover, WorkerSound
  <2>2. job[c].failed \in BOOLEAN
    BY <2>1 DEF Jobs
  <2>3. Egress!EnforcementEffect("ABSTAIN", TRUE, TRUE) = "DENY" /\ "DENY" \in Effects
    BY DEF Egress!EnforcementEffect, Effects
  <2> DEFINE r == Egress!Result(TRUE, job[c].failed, "DENY")
  <2>4. job' = [job EXCEPT ![c] = r]
    BY <1>10, <2>3 DEF Egress!Recover
  <2>5. FailsClosed(r)
    <3> DEFINE f == job[c].failed
    <3>1. f \in BOOLEAN /\ "DENY" \in Effects /\ r = Egress!Result(TRUE, f, "DENY")
      BY <2>2, <2>3
    <3> HIDE DEF f, r
    <3> QED BY ONLY <3>1, ResultRecord
  <2> HIDE DEF r
  <2> QED BY <2>1, <2>4, <2>5
<1>11. CASE Egress!Serve
  BY <1>11 DEF Egress!Serve
<1>12. CASE Egress!Crash
  BY <1>12 DEF Egress!Crash, Egress!Fault
<1>13. CASE Egress!Watchdog
  BY <1>13 DEF Egress!Watchdog
<1>14. CASE Egress!Status
  BY <1>14 DEF Egress!Status
<1>15. CASE Egress!Close
  <2>1. /\ UNCHANGED destination /\ Egress!NoJob.state = "none"
        /\ job' = [d \in Egress!Callers |->
                     IF job[d].state = "queued" THEN Egress!NoJob ELSE job[d]]
    BY <1>15 DEF Egress!Close, Egress!NoJob
  <2> QED BY <2>1
<1>16. CASE Egress!Idle
  BY <1>16 DEF Egress!Idle, Egress!vars
<1> QED BY <1>1, <1>2, <1>3, <1>4, <1>5, <1>6, <1>7, <1>8, <1>9, <1>10, <1>11, <1>12, <1>13,
   <1>14, <1>15, <1>16 DEF Egress!Next

(* An outside connect of the target is never answered by a continuation.   *)
LEMMA TargetStep ==
  ASSUME EgressInv, Egress!Next, EgressBounds
  PROVE  Egress!TargetFailsClosed'
<1> USE DEF EgressInv, EgressBounds, EgressTypes, Egress!TargetFailsClosed, Egress!Callers,
   EgressCalls, Egress!TypeOK, Egress!Finished
<1>1. ASSUME NEW c \in Egress!Callers, Egress!Connect(c)
       PROVE  Egress!TargetFailsClosed'
  BY <1>1 DEF Egress!Connect
<1>2. ASSUME NEW c \in Egress!Callers, Egress!Interrupt(c)
       PROVE  Egress!TargetFailsClosed'
  BY <1>2 DEF Egress!Interrupt, Egress!Fault
<1>3. ASSUME NEW c \in Egress!Callers, NEW resolved \in BOOLEAN, Egress!Receive(c, resolved)
       PROVE  Egress!TargetFailsClosed'
  <2>1. /\ UNCHANGED destination
        /\ \/ call' = [call EXCEPT ![c] = "received"]
           \/ call' = [call EXCEPT ![c] =
                IF Egress!EnforcementEffect("ALLOW", c \in BrokerTargets \/ ~resolved,
                   TRUE) = "DENY"
                THEN "denied" ELSE "allowed"]
    BY <1>3 DEF Egress!Receive
  <2>2. c \in BrokerTargets =>
          Egress!EnforcementEffect("ALLOW", c \in BrokerTargets \/ ~resolved, TRUE) = "DENY"
    BY DEF Egress!EnforcementEffect
  <2> QED BY <2>1, <2>2
<1>4. ASSUME NEW c \in Egress!Callers, NEW late \in BOOLEAN, Egress!Collect(c, late)
       PROVE  Egress!TargetFailsClosed'
  <2> DEFINE effect == Egress!EnforcementEffect(job[c].effect, job[c].target,
     job[c].failed \/ late)
  <2>1. /\ UNCHANGED destination /\ job[c].state = "done" /\ job[c] \in Jobs
        /\ call' = [call EXCEPT ![c] = IF call[c] # "received" THEN call[c]
                                       ELSE IF effect = "DENY" THEN "denied" ELSE "allowed"]
    BY <1>4 DEF Egress!Collect, Egress!Respond
  <2>2. c \in BrokerTargets /\ destination[c] = "external" => effect = "DENY"
    <3>1. job[c].effect \in Effects
      BY <2>1 DEF Jobs
    <3> QED BY <2>1, <3>1 DEF JobsFailClosed, FailsClosed, Effects, Egress!EnforcementEffect
  <2> HIDE DEF effect
  <2> QED BY <2>1, <2>2
<1>5. ASSUME NEW c \in Egress!Callers, Egress!SendRaises(c)
       PROVE  Egress!TargetFailsClosed'
  BY <1>5 DEF Egress!SendRaises
<1>6. ASSUME NEW c \in Egress!Callers, Egress!Begin(c)
       PROVE  Egress!TargetFailsClosed'
  BY <1>6 DEF Egress!Begin
<1>7. ASSUME NEW c \in Egress!Callers, NEW seen \in {"good", "changed", "unreadable"},
              Egress!Judge(c, seen)
       PROVE  Egress!TargetFailsClosed'
  <2>1. UNCHANGED <<destination, call>>
    BY <1>7, Judged
  <2> QED BY <2>1
<1>8. ASSUME NEW c \in Egress!Callers, Egress!Ask(c)
       PROVE  Egress!TargetFailsClosed'
  BY <1>8 DEF Egress!Ask
<1>9. ASSUME NEW c \in Egress!Callers, Egress!Take(c)
       PROVE  Egress!TargetFailsClosed'
  BY <1>9 DEF Egress!Take
<1>10. ASSUME NEW c \in Egress!Callers, Egress!Recover(c)
       PROVE  Egress!TargetFailsClosed'
  BY <1>10 DEF Egress!Recover, Egress!Fault, Egress!Started, Egress!Stopped
<1>11. CASE Egress!Serve
  BY <1>11 DEF Egress!Serve
<1>12. CASE Egress!Crash
  BY <1>12 DEF Egress!Crash, Egress!Fault
<1>13. CASE Egress!Watchdog
  BY <1>13 DEF Egress!Watchdog
<1>14. CASE Egress!Status
  BY <1>14 DEF Egress!Status
<1>15. CASE Egress!Close
  BY <1>15 DEF Egress!Close, Egress!Stopped
<1>16. CASE Egress!Idle
  BY <1>16 DEF Egress!Idle, Egress!vars
<1> HIDE DEF Egress!Callers
<1> QED BY <1>1, <1>2, <1>3, <1>4, <1>5, <1>6, <1>7, <1>8, <1>9, <1>10, <1>11, <1>12, <1>13,
   <1>14, <1>15, <1>16 DEF Egress!Next

(* The pool is idle and nothing is queued.                                 *)
LEMMA EgressInit ==
  ASSUME Egress!Init, EgressBounds
  PROVE  EgressInv
<1> USE DEF Egress!Init, EgressBounds
<1>1. worker = [gen |-> 1, up |-> TRUE, request |-> Egress!Nobody, response |-> Egress!Nobody,
                lock |-> Egress!Nobody]
  BY DEF Egress!Started
<1>2. Egress!NoJob \in Jobs /\ Egress!NoJob.state = "none"
  BY DEF Jobs, Egress!NoJob
<1>3. EgressTypes
  <2>1. worker \in [gen : Nat, up : BOOLEAN, request : Effects \cup {Egress!Nobody},
                   response : Effects \cup {Egress!Nobody},
                   lock : Egress!Callers \cup {Egress!Nobody}]
    <3> HIDE DEF Egress!Init
    <3> QED BY <1>1
  <2>2. job \in [Egress!Callers -> Jobs] /\ pending \in Seq(Egress!Callers)
    BY <1>2
  <2> QED BY <2>1, <2>2 DEF EgressTypes
<1>4. Egress!TypeOK
  BY <1>1, <1>2 DEF Egress!TypeOK
<1>5. FuturesSound
  BY DEF FuturesSound
<1>6. WorkerSound /\ StartsCounted
  BY <1>1, NobodyCalls DEF WorkerSound, StartsCounted, Egress!ClosedForGood
<1>7. JobsFailClosed /\ Egress!TargetFailsClosed
  BY <1>2 DEF JobsFailClosed, FailsClosed, Egress!TargetFailsClosed, Egress!Callers
<1> QED BY <1>3, <1>4, <1>5, <1>6, <1>7 DEF EgressInv


(* Two evaluations that differ in more than whether there are any.         *)
LEMMA SameJobs ==
  ASSUME EgressInv, UNCHANGED <<call, pending>>,
         phase' = "loop" => phase = "loop" /\ listener' = listener,
         \A c \in Egress!Callers : job'[c] = Egress!NoJob <=> job[c] = Egress!NoJob
  PROVE  FuturesSound'
<1>1. \A i \in DOMAIN pending : pending[i] \in Egress!Callers
  BY DEF EgressInv, EgressTypes
<1> QED BY <1>1 DEF EgressInv, FuturesSound

(* A job in any state is a job.                                            *)
LEMMA SomeJob ==
  ASSUME NEW j, j.state # "none"
  PROVE  j # Egress!NoJob
BY DEF Egress!NoJob

(* The futures are those of the jobs there are.                            *)
LEMMA FuturesStep ==
  ASSUME EgressInv, Egress!Next, EgressBounds
  PROVE  FuturesSound'
<1> USE DEF EgressInv, EgressBounds, EgressTypes, EgressCalls, Egress!TypeOK, FuturesSound,
   Egress!Finished
<1>1. ASSUME NEW c \in Egress!Callers, Egress!Connect(c)
       PROVE  FuturesSound'
  BY <1>1 DEF Egress!Connect
<1>2. ASSUME NEW c \in Egress!Callers, Egress!Interrupt(c)
       PROVE  FuturesSound'
  BY <1>2 DEF Egress!Interrupt, Egress!Fault
<1>3. ASSUME NEW c \in Egress!Callers, NEW resolved \in BOOLEAN, Egress!Receive(c, resolved)
       PROVE  FuturesSound'
  <2>1. call[c] = "queued" /\ phase = "loop" /\ listener /\ UNCHANGED phase
    BY <1>3 DEF Egress!Receive
  <2>2. job[c] = Egress!NoJob
    BY <2>1
  <2>3. CASE ~listener' /\ UNCHANGED <<pending, job>> /\ call' = [call EXCEPT ![c] = "received"]
    BY <2>1, <2>2, <2>3
  <2>4. CASE /\ UNCHANGED <<pending, job, listener>>
             /\ \E a \in {"denied", "allowed"} : call' = [call EXCEPT ![c] = a]
    BY <2>1, <2>2, <2>4
  <2>5. CASE /\ call' = [call EXCEPT ![c] = "received"] /\ UNCHANGED listener
             /\ pending' = Append(pending, c) /\ job' = [job EXCEPT ![c] = [state |-> "queued"]]
    <3>1. [state |-> "queued"] # Egress!NoJob
      BY SomeJob
    <3>2. \A i \in DOMAIN pending : pending[i] # c
      BY <2>1, <2>2
    <3>3. /\ DOMAIN pending' = 1 .. Len(pending) + 1 /\ pending'[Len(pending) + 1] = c
          /\ \A i \in DOMAIN pending : pending'[i] = pending[i]
      BY <2>5, AppendProperties
    <3>4. \A i \in DOMAIN pending' : i \in DOMAIN pending \/ i = Len(pending) + 1
      BY <3>3
    <3>5. \A i, j \in DOMAIN pending' : pending'[i] = pending'[j] => i = j
      BY <3>2, <3>3, <3>4, <2>1
    <3>6. \A i \in DOMAIN pending' : job'[pending'[i]] # Egress!NoJob
      <4> TAKE i \in DOMAIN pending'
      <4>1. CASE i \in DOMAIN pending
        BY <2>1, <2>5, <3>2, <3>3, <4>1
      <4>2. CASE i = Len(pending) + 1
        BY <2>5, <3>1, <3>3, <4>2
      <4> QED BY <3>4, <4>1, <4>2
    <3>7. ASSUME NEW d \in Egress!Callers, job'[d] # Egress!NoJob
          PROVE  \E i \in DOMAIN pending' : pending'[i] = d
      <4>1. CASE d = c
        BY <3>3, <4>1
      <4>2. CASE d # c
        <5>1. PICK i \in DOMAIN pending : pending[i] = d
          BY <2>1, <2>5, <3>7, <4>2
        <5> QED BY <3>3, <5>1
      <4> QED BY <4>1, <4>2
    <3>8. \A d \in Egress!Callers :
            /\ call'[d] \in {"idle", "queued"} => job'[d] = Egress!NoJob
            /\ call'[d] = "received" => job'[d] # Egress!NoJob
      BY <2>1, <2>5, <3>1
    <3> QED BY <3>5, <3>6, <3>7, <3>8
  <2> QED BY <1>3, <2>3, <2>4, <2>5 DEF Egress!Receive
<1>4. ASSUME NEW c \in Egress!Callers, NEW late \in BOOLEAN, Egress!Collect(c, late)
       PROVE  FuturesSound'
  <2>1. PICK i \in DOMAIN pending : pending[i] = c /\ pending' = Egress!RemoveAt(pending, i)
    BY <1>4 DEF Egress!Collect
  <2>2. /\ phase = "loop" /\ UNCHANGED <<phase, listener>> /\ job[c].state = "done"
        /\ job' = [job EXCEPT ![c] = Egress!NoJob]
        /\ call' = [call EXCEPT ![c] = call'[c]]
        /\ call[c] = "received" => call'[c] \in {"denied", "allowed"}
        /\ call[c] # "received" => call'[c] = call[c]
    BY <1>4 DEF Egress!Collect, Egress!Respond
  <2>3. job[c] # Egress!NoJob
    BY <2>2, SomeJob
  <2>4. /\ DOMAIN pending' = 1 .. Len(pending) - 1
        /\ \A j \in 1 .. Len(pending) - 1 :
              pending'[j] = IF j < i THEN pending[j] ELSE pending[j + 1]
    <3> DEFINE rest == Egress!RemoveAt(pending, i)
    <3>1. pending \in Seq(Egress!Callers) /\ i \in DOMAIN pending
      BY <2>1
    <3>2. /\ rest \in Seq(Egress!Callers) /\ Len(rest) = Len(pending) - 1
          /\ \A j \in 1 .. Len(pending) - 1 :
                rest[j] = IF j < i THEN pending[j] ELSE pending[j + 1]
      BY ONLY <3>1, RemoveAtKeeps
    <3> HIDE DEF rest
    <3>3. DOMAIN rest = 1 .. Len(pending) - 1
      BY ONLY <3>2
    <3> QED BY <2>1, <3>2, <3>3 DEF rest
  <2>5. \A j \in DOMAIN pending : j # i => pending[j] # c
    BY <2>1, <2>2
  <2>6. \A j \in DOMAIN pending' :
          \E k \in DOMAIN pending :
             k # i /\ k = (IF j < i THEN j ELSE j + 1) /\ pending'[j] = pending[k]
    BY <2>4
  <2>7. \A j, k \in DOMAIN pending' : pending'[j] = pending'[k] => j = k
    BY <2>2, <2>4, <2>6
  <2>8. \A j \in DOMAIN pending' : job'[pending'[j]] # Egress!NoJob
    BY <2>2, <2>5, <2>6
  <2>9. ASSUME NEW d \in Egress!Callers, job'[d] # Egress!NoJob
        PROVE  \E j \in DOMAIN pending' : pending'[j] = d
    <3>1. d # c /\ job[d] # Egress!NoJob
      BY <2>2, <2>9
    <3>2. PICK k \in DOMAIN pending : pending[k] = d
      BY <2>2, <3>1
    <3>3. k # i
      BY <2>1, <3>1, <3>2
    <3>4. CASE k < i
      <4>1. k \in DOMAIN pending' /\ k < i
        BY <2>4, <3>4
      <4> QED BY <2>4, <3>2, <4>1
    <3>5. CASE ~(k < i)
      <4>1. k - 1 \in DOMAIN pending' /\ ~(k - 1 < i) /\ k - 1 + 1 = k
        BY <2>4, <3>2, <3>3, <3>5
      <4> QED BY <2>4, <3>2, <4>1
    <3> QED BY <3>4, <3>5
  <2>10. ASSUME NEW d \in Egress!Callers
         PROVE  /\ call'[d] \in {"idle", "queued"} => job'[d] = Egress!NoJob
                /\ listener /\ call'[d] = "received" => job'[d] # Egress!NoJob
    BY <2>2, <2>3
  <2> QED BY <2>2, <2>7, <2>8, <2>9, <2>10
<1>5. ASSUME NEW c \in Egress!Callers, Egress!SendRaises(c)
       PROVE  FuturesSound'
  BY <1>5 DEF Egress!SendRaises
<1>6. ASSUME NEW c \in Egress!Callers, Egress!Begin(c)
       PROVE  FuturesSound'
  <2>1. /\ UNCHANGED <<call, pending, listener, phase>> /\ job[c].state = "queued"
        /\ \E j : job' = [job EXCEPT ![c] = j] /\ j # Egress!NoJob
    BY <1>6, SomeJob DEF Egress!Begin
  <2> QED BY <2>1, SameJobs, SomeJob
<1>7. ASSUME NEW c \in Egress!Callers, NEW seen \in {"good", "changed", "unreadable"},
              Egress!Judge(c, seen)
       PROVE  FuturesSound'
  <2>1. /\ UNCHANGED <<call, pending, listener, phase>> /\ job[c].state = "running"
        /\ \E j : job' = [job EXCEPT ![c] = j] /\ j # Egress!NoJob
    BY <1>7, Judged, SomeJob
  <2> QED BY <2>1, SameJobs, SomeJob
<1>8. ASSUME NEW c \in Egress!Callers, Egress!Ask(c)
       PROVE  FuturesSound'
  <2>1. CASE UNCHANGED job
    BY <1>8, <2>1, SameJobs DEF Egress!Ask
  <2>2. CASE /\ UNCHANGED <<call, pending, listener, phase>> /\ job[c].state = "deciding"
             /\ \E j : job' = [job EXCEPT ![c] = j] /\ j # Egress!NoJob
    BY <2>2, SameJobs, SomeJob
  <2> DEFINE r == Egress!Result(TRUE, TRUE, "ABSTAIN")
  <2>3. /\ job[c].state = "deciding" /\ UNCHANGED <<call, pending, listener, phase>>
        /\ job' = job \/ job' = [job EXCEPT ![c] = r]
    BY <1>8 DEF Egress!Ask
  <2>4. r # Egress!NoJob
    <3>1. r.state = "done"
      BY DEF Egress!Result
    <3> HIDE DEF r
    <3> QED BY <3>1, SomeJob
  <2> HIDE DEF r
  <2> QED BY <2>1, <2>2, <2>3, <2>4
<1>9. ASSUME NEW c \in Egress!Callers, Egress!Take(c)
       PROVE  FuturesSound'
  <2>1. job[c].state = "deciding"
    BY <1>9 DEF Egress!Take, WorkerSound
  <2> DEFINE r == Egress!Result(TRUE, job[c].failed, worker.response)
  <2>2. UNCHANGED <<call, pending, listener, phase>> /\ job' = [job EXCEPT ![c] = r]
    BY <1>9 DEF Egress!Take
  <2>3. r # Egress!NoJob
    <3>1. r.state = "done"
      BY DEF Egress!Result
    <3> HIDE DEF r
    <3> QED BY <3>1, SomeJob
  <2> HIDE DEF r
  <2> QED BY <2>1, <2>2, <2>3, SameJobs, SomeJob
<1>10. ASSUME NEW c \in Egress!Callers, Egress!Recover(c)
       PROVE  FuturesSound'
  <2>1. job[c].state = "deciding"
    BY <1>10 DEF Egress!Recover, WorkerSound
  <2> DEFINE r == Egress!Result(TRUE, job[c].failed, Egress!EnforcementEffect("ABSTAIN", TRUE,
     TRUE))
  <2>2. UNCHANGED <<call, pending, listener, phase>> /\ job' = [job EXCEPT ![c] = r]
    BY <1>10 DEF Egress!Recover
  <2>3. r # Egress!NoJob
    <3>1. r.state = "done"
      BY DEF Egress!Result
    <3> HIDE DEF r
    <3> QED BY <3>1, SomeJob
  <2> HIDE DEF r
  <2> QED BY <2>1, <2>2, <2>3, SameJobs, SomeJob
<1>11. CASE Egress!Serve
  BY <1>11 DEF Egress!Serve
<1>12. CASE Egress!Crash
  BY <1>12 DEF Egress!Crash, Egress!Fault
<1>13. CASE Egress!Watchdog
  BY <1>13 DEF Egress!Watchdog
<1>14. CASE Egress!Status
  BY <1>14 DEF Egress!Status
<1>15. CASE Egress!Close
  BY <1>15 DEF Egress!Close, Egress!Stopped
<1>16. CASE Egress!Idle
  BY <1>16 DEF Egress!Idle, Egress!vars
<1> QED BY <1>1, <1>2, <1>3, <1>4, <1>5, <1>6, <1>7, <1>8, <1>9, <1>10, <1>11, <1>12, <1>13,
   <1>14, <1>15, <1>16 DEF Egress!Next

(* One step of the broker.                                                 *)
LEMMA EgressStep ==
  ASSUME EgressInv, Egress!Next, EgressBounds
  PROVE  EgressInv'
BY EgressType, EgressTypeOKStep, FuturesStep, WorkerStep, StartsStep, FailsClosedStep,
   TargetStep DEF EgressInv

(* What the inductive invariant says of calls, futures and worker.         *)
LEMMA EgressHolds ==
  ASSUME EgressInv
  PROVE  Egress!TypeOK /\ Egress!TargetFailsClosed /\ Egress!NoneForgotten /\ Egress!ClosedForGood
BY DEF EgressInv, FuturesSound, WorkerSound, Egress!NoneForgotten


-----------------------------------------------------------------------------
(***************************************************************************)
(* The broker under a retained listener.                                   *)
(***************************************************************************)

Reports ==
  [type : {"lease", "crash-before-send", "crash"}, id : Lease!Callers]
    \cup [type : {"decision"}, effect : {"ALLOW", "DENY"}] \cup {[type |-> "invalid"]}

LeaseTypes ==
  /\ broker \in [pc : {"wait", "classify", "lease", "recheck", "send", "tell", "dead"},
                 gen : {1, 2}, cur : Lease!Callers \cup {Lease!Nobody},
                 effect : {"ALLOW", "DENY"}, received : Nat, processed : Nat,
                 exit : {0, 70, 71, 72, 125}]
  /\ reports \in Seq(Reports)
  /\ guardian \in [phase : {"loop", "passed", "failed", "without status", "torn", "hangs"},
                   status : BOOLEAN, leases : SUBSET Lease!Callers,
                   crash : Lease!Callers \cup {Lease!Nobody},
                   recovery : {"none", "INVALID", "UNRESOLVED", "DENY", "ALLOW"},
                   denied : Nat, allowed : Nat, invalid : Nat]

(* The broker works on one caller, the target's is to be denied, and it    *)
(* dies on purpose in its first generation only.                           *)
BrokerSound ==
  /\ broker.pc \notin {"wait", "dead"} => broker.cur \in Lease!Callers
  /\ broker.pc \in {"lease", "recheck", "send"} /\ broker.cur \in LeaseTargets =>
       broker.effect = "DENY"
  /\ broker.exit # 0 => broker.pc = "dead"
  /\ broker.exit \in {70, 71, 72} => broker.gen = 1
  /\ broker.exit = 70 => mode = "after"
  /\ broker.exit = 71 => mode = "inflight"
  /\ broker.gen = 1 => guardian.recovery = "none"

(* A notification that was received and is not answered is the broker's,   *)
(* or that of the one that died with it.                                   *)
OneReceived ==
  Lease!Looping /\ (broker.gen = 1 \/ (mode # "prelease" /\ guardian.recovery # "UNRESOLVED")) =>
    \A c \in Lease!Callers : call[c] = "received" =>
      /\ c = broker.cur /\ broker.pc \notin {"wait", "tell"}
      /\ broker.pc = "dead" => broker.exit \in {71, 72}

(* What the guardian hears of a crash is the dead broker's last caller.    *)
CrashSound ==
  broker.gen = 1 =>
    /\ guardian.crash # Lease!Nobody =>
         broker.exit \in {70, 71} /\ guardian.crash = broker.cur
    /\ \A i \in DOMAIN reports : reports[i].type \in {"crash", "crash-before-send"} =>
         broker.exit \in {70, 71} /\ reports[i].id = broker.cur

(* The answers of one kind: those the kernel has delivered, those on their *)
(* way to the guardian, the one still to be reported, those it has counted.*)
Delivered(outcome) == {c \in Lease!Callers : call[c] = outcome}
OnTheWay(s, effect) == {i \in DOMAIN s : s[i].type = "decision" /\ s[i].effect = effect}
Untold(effect) == IF broker.pc = "tell" /\ broker.effect = effect THEN 1 ELSE 0
Counted(effect) == IF effect = "DENY" THEN Lease!Denied ELSE Lease!Allowed
Outcome(effect) == IF effect = "DENY" THEN "denied" ELSE "allowed"

Accounted ==
  \A effect \in {"DENY", "ALLOW"} :
    Counted(effect) + Untold(effect) + Cardinality(OnTheWay(reports, effect))
      <= Cardinality(Delivered(Outcome(effect)))

LeaseInv ==
  /\ Lease!TypeOK /\ LeaseTypes
  /\ BrokerSound /\ OneReceived /\ CrashSound /\ Accounted
  /\ Lease!TargetNeverAllowed


LeaseBounds ==
  /\ IsFiniteSet(LeaseTargets) /\ LeaseFaults \in Nat
  /\ "nobody" \notin LeaseTargets \cup {Outsider}

Guardians ==
  [phase : {"loop", "passed", "failed", "without status", "torn", "hangs"},
   status : BOOLEAN, leases : SUBSET Lease!Callers, crash : Lease!Callers \cup {Lease!Nobody},
   recovery : {"none", "INVALID", "UNRESOLVED", "DENY", "ALLOW"},
   denied : Nat, allowed : Nat, invalid : Nat]

Brokers ==
  [pc : {"wait", "classify", "lease", "recheck", "send", "tell", "dead"},
   gen : {1, 2}, cur : Lease!Callers \cup {Lease!Nobody}, effect : {"ALLOW", "DENY"},
   received : Nat, processed : Nat, exit : {0, 70, 71, 72, 125}]

(* The instance's Cardinality is the one the lemmas on finite sets speak of. *)
LEMMA LeaseCardinality == \A S : Lease!Cardinality(S) = Cardinality(S)
BY DEF Lease!Cardinality, Lease!IsFiniteSet, Cardinality, IsFiniteSet

IsDecision(r, effect) == r.type = "decision" /\ r.effect = effect
One(b) == IF b THEN 1 ELSE 0

(* The reports are finitely many.                                          *)
LEMMA WayFinite ==
  ASSUME NEW S, NEW s \in Seq(S), NEW effect
  PROVE  /\ IsFiniteSet(OnTheWay(s, effect)) /\ Cardinality(OnTheWay(s, effect)) \in Nat
<1>1. IsFiniteSet(1 .. Len(s))
  BY FS_Interval
<1>2. OnTheWay(s, effect) \in SUBSET (1 .. Len(s))
  BY DEF OnTheWay
<1>3. IsFiniteSet(OnTheWay(s, effect))
  BY <1>1, <1>2, FS_Subset
<1> QED BY <1>3, FS_CardinalityType

(* One more report.                                                        *)
LEMMA WayAppend ==
  ASSUME NEW s \in Seq(Reports), NEW r \in Reports, NEW effect
  PROVE  Cardinality(OnTheWay(Append(s, r), effect)) =
           Cardinality(OnTheWay(s, effect)) + One(IsDecision(r, effect))
<1> DEFINE n == Len(s) + 1
<1>1. /\ DOMAIN Append(s, r) = 1 .. n /\ Append(s, r)[n] = r
      /\ \A i \in 1 .. Len(s) : Append(s, r)[i] = s[i]
  BY AppendProperties
<1>2. n \notin OnTheWay(s, effect)
  BY DEF OnTheWay
<1>3. CASE IsDecision(r, effect)
  <2>1. OnTheWay(Append(s, r), effect) = OnTheWay(s, effect) \cup {n}
    BY <1>1, <1>3 DEF OnTheWay, IsDecision
  <2>2. Cardinality(OnTheWay(s, effect) \cup {n}) = Cardinality(OnTheWay(s, effect)) + 1
    <3> HIDE DEF n
    <3> QED BY <1>2, WayFinite, FS_AddElement
  <2> QED BY <1>3, <2>1, <2>2 DEF One
<1>4. CASE ~IsDecision(r, effect)
  <2>1. OnTheWay(Append(s, r), effect) = OnTheWay(s, effect)
    BY <1>1, <1>4 DEF OnTheWay, IsDecision
  <2> QED BY <1>4, <2>1, WayFinite DEF One
<1> QED BY <1>3, <1>4

(* One report less.                                                        *)
LEMMA WayTail ==
  ASSUME NEW s \in Seq(Reports), s # << >>, NEW effect
  PROVE  Cardinality(OnTheWay(s, effect)) =
           Cardinality(OnTheWay(Tail(s), effect)) + One(IsDecision(Head(s), effect))
<1> DEFINE A == OnTheWay(Tail(s), effect)
           B == OnTheWay(s, effect) \ {1}
           f == [i \in A |-> i + 1]
<1>1. /\ Tail(s) \in Seq(Reports) /\ Len(Tail(s)) = Len(s) - 1 /\ Len(s) \in Nat /\ Len(s) > 0
      /\ \A i \in 1 .. Len(s) - 1 : Tail(s)[i] = s[i + 1]
  BY HeadTailProperties, EmptySeq
<1>2. A = {i \in 1 .. Len(s) - 1 : IsDecision(s[i + 1], effect)}
  BY <1>1 DEF OnTheWay, IsDecision
<1>3. B = {i \in 2 .. Len(s) : IsDecision(s[i], effect)}
  BY <1>1 DEF OnTheWay, IsDecision
<1>4. f \in Bijection(A, B)
  <2> HIDE DEF A, B
  <2>1. f \in [A -> B]
    <3>1. \A i \in A : i + 1 \in B
      BY <1>2, <1>3
    <3> QED BY <3>1
  <2>2. \A i, j \in A : f[i] = f[j] => i = j
    BY <1>2
  <2>3. \A j \in B : \E i \in A : f[i] = j
    <3> TAKE j \in B
    <3>1. j - 1 \in A /\ f[j - 1] = j
      BY <1>2, <1>3
    <3> QED BY <3>1
  <2> HIDE DEF f
  <2> QED BY <2>1, <2>2, <2>3 DEF Bijection, Injection, Surjection, IsInjective
<1>5. IsFiniteSet(A)
  BY <1>1, WayFinite
<1>6. Cardinality(B) = Cardinality(A) /\ IsFiniteSet(B)
  <2>1. ExistsBijection(A, B)
    BY <1>4 DEF ExistsBijection
  <2> HIDE DEF A, B, f
  <2> QED BY <1>5, <2>1, FS_Bijection
<1>7. 1 \in OnTheWay(s, effect) <=> IsDecision(Head(s), effect)
  BY <1>1 DEF OnTheWay, IsDecision
<1>8. /\ IsFiniteSet(OnTheWay(s, effect)) /\ Cardinality(OnTheWay(s, effect)) \in Nat
      /\ Cardinality(B) = IF 1 \in OnTheWay(s, effect) THEN Cardinality(OnTheWay(s, effect)) - 1
                          ELSE Cardinality(OnTheWay(s, effect))
  BY WayFinite, FS_RemoveElement
<1> HIDE DEF A, B
<1>9. Cardinality(A) \in Nat
  BY <1>5, FS_CardinalityType
<1>10. Cardinality(OnTheWay(s, effect)) = Cardinality(A) + One(IsDecision(Head(s), effect))
  BY <1>6, <1>7, <1>8, <1>9 DEF One
<1> QED BY <1>10 DEF A

(* Without reports nothing is on its way.                                  *)
LEMMA WayNone ==
  ASSUME NEW s, NEW effect, s = << >>
  PROVE  Cardinality(OnTheWay(s, effect)) = 0
<1>1. OnTheWay(s, effect) = {}
  BY DEF OnTheWay
<1> QED BY <1>1, FS_EmptySet

(* The answers the kernel has delivered are never taken back.              *)
LEMMA DeliveredGrow ==
  ASSUME LeaseBounds, NEW outcome,
         \A c \in Lease!Callers : call[c] = outcome => call'[c] = outcome
  PROVE  /\ Cardinality(Delivered(outcome)) \in Nat /\ Cardinality(Delivered(outcome)') \in Nat
         /\ Cardinality(Delivered(outcome)) <= Cardinality(Delivered(outcome)')
         /\ (\E c \in Lease!Callers : call[c] # outcome /\ call'[c] = outcome) =>
              Cardinality(Delivered(outcome)) + 1 <= Cardinality(Delivered(outcome)')
<1> DEFINE D == Delivered(outcome)
           E == Delivered(outcome)'
<1>1. IsFiniteSet(Lease!Callers)
  <2>1. Lease!Callers = LeaseTargets \cup {Outsider}
    BY DEF Lease!Callers
  <2> QED BY <2>1, FS_AddElement DEF LeaseBounds
<1>2. /\ D \subseteq Lease!Callers /\ E \subseteq Lease!Callers /\ D \subseteq E
      /\ \A c \in Lease!Callers : call[c] # outcome /\ call'[c] = outcome => c \notin D /\ c \in E
  BY DEF Delivered
<1> HIDE DEF D, E
<1>3. IsFiniteSet(D) /\ IsFiniteSet(E) /\ Cardinality(D) \in Nat /\ Cardinality(E) \in Nat
  <2>1. IsFiniteSet(D) /\ IsFiniteSet(E)
    BY <1>1, <1>2, FS_Subset
  <2> QED BY <2>1, FS_CardinalityType
<1>4. Cardinality(D) <= Cardinality(E)
  BY <1>2, <1>3, FS_Subset
<1>5. ASSUME NEW c \in Lease!Callers, call[c] # outcome, call'[c] = outcome
      PROVE  Cardinality(D) + 1 <= Cardinality(E)
  <2>1. Cardinality(D \cup {c}) = Cardinality(D) + 1
    BY <1>2, <1>3, <1>5, FS_AddElement
  <2>2. D \cup {c} \in SUBSET E
    BY <1>2, <1>5
  <2>3. Cardinality(D \cup {c}) <= Cardinality(E)
    BY <1>3, <2>2, FS_Subset
  <2> QED BY <2>1, <2>3
<1> QED BY <1>3, <1>4, <1>5 DEF D, E


(* The five ways in which the laboratory is over.                          *)
Over ==
  \/ Lease!StatusLost \/ Lease!Timeout \/ Lease!UnexpectedExit \/ Lease!Deadline \/ Lease!Finish

(* However it ends, the broker is gone and its reports stay unread.        *)
LEMMA OverStep ==
  ASSUME Over
  PROVE  /\ Lease!Looping /\ broker' = [broker EXCEPT !.pc = "dead"]
         /\ \E phase_ \in {"passed", "failed", "without status", "torn", "hangs"} :
              guardian' = [guardian EXCEPT !.phase = phase_]
         /\ call' = Lease!Terminated \/ call' = call
         /\ UNCHANGED <<mode, reports, faults>>
<1>1. ASSUME NEW outcome \in {"passed", "failed", "without status"}, Lease!End(outcome)
      PROVE  /\ broker' = [broker EXCEPT !.pc = "dead"]
             /\ \E phase_ \in {"passed", "failed", "without status", "torn", "hangs"} :
                  guardian' = [guardian EXCEPT !.phase = phase_]
             /\ call' = Lease!Terminated \/ call' = call
             /\ UNCHANGED <<mode, reports, faults>>
  BY <1>1 DEF Lease!End
<1>2. CASE Lease!Deadline
  BY <1>2 DEF Lease!Deadline
<1>3. CASE ~Lease!Deadline
  <2>1. \E outcome \in {"passed", "failed", "without status"} : Lease!End(outcome)
    BY <1>3 DEF Over, Lease!StatusLost, Lease!Timeout, Lease!UnexpectedExit, Lease!Finish
  <2>2. Lease!Looping
    BY <1>3 DEF Over, Lease!StatusLost, Lease!Timeout, Lease!UnexpectedExit, Lease!Finish
  <2> QED BY <1>1, <2>1, <2>2
<1> QED BY <1>2, <1>3

(* What a report may be.                                                   *)
LEMMA ReportKinds ==
  ASSUME NEW r \in Reports
  PROVE  /\ r.type \in {"lease", "decision", "invalid", "crash", "crash-before-send"}
         /\ r.type \in {"lease", "crash", "crash-before-send"} => r.id \in Lease!Callers
         /\ r.type = "decision" => r.effect \in {"ALLOW", "DENY"}
<1>1. CASE r \in [type : {"lease", "crash-before-send", "crash"}, id : Lease!Callers]
  BY <1>1
<1>2. CASE r \in [type : {"decision"}, effect : {"ALLOW", "DENY"}]
  BY <1>2
<1>3. CASE r = [type |-> "invalid"]
  <2>1. r.type = "invalid"
    BY <1>3
  <2> QED BY <2>1
<1> QED BY <1>1, <1>2, <1>3 DEF Reports

(* What a report does to the guardian.                                     *)
LEMMA ReadReport ==
  ASSUME NEW g \in Guardians, NEW r \in Reports
  PROVE  /\ Lease!Read(g, r) \in Guardians
         /\ Lease!Read(g, r).phase = g.phase /\ Lease!Read(g, r).recovery = g.recovery
         /\ Lease!Read(g, r).crash =
              IF r.type \in {"crash", "crash-before-send"} THEN r.id ELSE g.crash
         /\ Lease!Read(g, r).denied = g.denied + One(IsDecision(r, "DENY"))
         /\ Lease!Read(g, r).allowed = g.allowed + One(IsDecision(r, "ALLOW"))
<1> DEFINE h == Lease!Read(g, r)
<1>1. CASE r.type = "lease"
  <2> DEFINE leases == g.leases \cup {r.id}
  <2>1. h = [g EXCEPT !.leases = leases]
    BY <1>1 DEF Lease!Read
  <2>2. leases \in SUBSET Lease!Callers
    BY <1>1, ReportKinds DEF Guardians
  <2> HIDE DEF h, leases
  <2>3. /\ h \in Guardians /\ h.phase = g.phase /\ h.recovery = g.recovery /\ h.crash = g.crash
        /\ h.denied = g.denied /\ h.allowed = g.allowed
    BY <2>1, <2>2 DEF Guardians
  <2>4. g.denied \in Nat /\ g.allowed \in Nat
    BY DEF Guardians
  <2> QED BY <1>1, <2>3, <2>4 DEF One, IsDecision, h
<1>2. CASE r.type = "decision"
  <2> DEFINE denied == g.denied + (IF r.effect = "DENY" THEN 1 ELSE 0)
             allowed == g.allowed + (IF r.effect = "ALLOW" THEN 1 ELSE 0)
  <2>1. h = [g EXCEPT !.leases = {}, !.denied = denied, !.allowed = allowed]
    BY <1>2 DEF Lease!Read
  <2>2. g.denied \in Nat /\ g.allowed \in Nat
    BY DEF Guardians
  <2>3. /\ denied \in Nat /\ allowed \in Nat
        /\ denied = g.denied + One(IsDecision(r, "DENY"))
        /\ allowed = g.allowed + One(IsDecision(r, "ALLOW"))
    BY <1>2, <2>2 DEF One, IsDecision
  <2> HIDE DEF h, denied, allowed
  <2>4. /\ h \in Guardians /\ h.phase = g.phase /\ h.recovery = g.recovery /\ h.crash = g.crash
        /\ h.denied = denied /\ h.allowed = allowed
    BY <2>1, <2>3 DEF Guardians
  <2> QED BY <1>2, <2>3, <2>4 DEF h
<1>3. CASE r.type = "invalid"
  <2> DEFINE invalid == g.invalid + 1
  <2>1. h = [g EXCEPT !.invalid = invalid]
    BY <1>3 DEF Lease!Read
  <2>2. invalid \in Nat /\ g.denied \in Nat /\ g.allowed \in Nat
    <3>1. g.invalid \in Nat /\ g.denied \in Nat /\ g.allowed \in Nat
      BY DEF Guardians
    <3> QED BY <3>1
  <2> HIDE DEF h, invalid
  <2>3. /\ h \in Guardians /\ h.phase = g.phase /\ h.recovery = g.recovery /\ h.crash = g.crash
        /\ h.denied = g.denied /\ h.allowed = g.allowed
    BY <2>1, <2>2 DEF Guardians
  <2> QED BY <1>3, <2>2, <2>3 DEF One, IsDecision, h
<1>4. CASE r.type \in {"crash", "crash-before-send"}
  <2>1. h = [g EXCEPT !.crash = r.id]
    BY <1>4 DEF Lease!Read
  <2>2. r.id \in Lease!Callers
    BY <1>4, ReportKinds
  <2> HIDE DEF h
  <2>3. /\ h \in Guardians /\ h.phase = g.phase /\ h.recovery = g.recovery /\ h.crash = r.id
        /\ h.denied = g.denied /\ h.allowed = g.allowed
    BY <2>1, <2>2 DEF Guardians
  <2>4. g.denied \in Nat /\ g.allowed \in Nat
    BY DEF Guardians
  <2> QED BY <1>4, <2>3, <2>4 DEF One, IsDecision, h
<1> QED BY <1>1, <1>2, <1>3, <1>4, ReportKinds

(* A turn of the guardian's loop.                                          *)
LEMMA TurnStep ==
  ASSUME LeaseInv, Lease!Turn
  PROVE  /\ UNCHANGED <<mode, call, broker, faults>>
         /\ guardian' \in Guardians
         /\ guardian'.phase = guardian.phase /\ guardian'.recovery = guardian.recovery
         /\ \/ /\ UNCHANGED reports /\ guardian'.crash = guardian.crash
               /\ guardian'.denied = guardian.denied /\ guardian'.allowed = guardian.allowed
            \/ /\ reports # << >> /\ reports' = Tail(reports)
               /\ guardian'.crash = IF Head(reports).type \in {"crash", "crash-before-send"}
                                    THEN Head(reports).id ELSE guardian.crash
               /\ guardian'.denied = guardian.denied + One(IsDecision(Head(reports), "DENY"))
               /\ guardian'.allowed = guardian.allowed + One(IsDecision(Head(reports), "ALLOW"))
<1> DEFINE g == [guardian EXCEPT !.status = guardian.status \/ Lease!StatusReady]
<1>1. /\ UNCHANGED <<mode, call, broker, faults>>
      /\ guardian' = IF reports # << >> THEN Lease!Read(g, Head(reports)) ELSE g
      /\ reports' = IF reports # << >> THEN Tail(reports) ELSE reports
  BY DEF Lease!Turn, Lease!BrokerReady
<1>2. guardian \in Guardians /\ reports \in Seq(Reports)
  BY DEF LeaseInv, LeaseTypes, Guardians
<1>3. /\ g \in Guardians /\ g.phase = guardian.phase /\ g.recovery = guardian.recovery
      /\ g.crash = guardian.crash /\ g.denied = guardian.denied /\ g.allowed = guardian.allowed
  <2> DEFINE status == guardian.status \/ Lease!StatusReady
  <2>1. status \in BOOLEAN
    BY <1>2 DEF Guardians
  <2> HIDE DEF status
  <2> QED BY <1>2, <2>1 DEF Guardians
<1> HIDE DEF g
<1>4. CASE reports = << >>
  BY <1>1, <1>3, <1>4
<1>5. CASE reports # << >>
  <2>1. Head(reports) \in Reports
    BY <1>2, <1>5, HeadTailProperties
  <2> QED BY <1>1, <1>3, <1>5, <2>1, ReadReport
<1> QED BY <1>4, <1>5

(* A replacement starts from nothing, and only the first broker is         *)
(* replaced.                                                               *)
LEMMA ReplaceStep ==
  ASSUME LeaseInv, LeaseBounds, NEW resolved \in BOOLEAN, Lease!Replace(resolved)
  PROVE  /\ Lease!Looping /\ UNCHANGED <<mode, reports>> /\ reports = << >>
         /\ broker.gen = 1 /\ broker.pc = "dead" /\ guardian.recovery = "none"
         /\ mode = "after" => broker.exit = 70
         /\ broker' = [pc |-> "wait", gen |-> 2, cur |-> Lease!Nobody, effect |-> "ALLOW",
                       received |-> 0, processed |-> 0, exit |-> 0]
         /\ faults' = faults \/ (faults < LeaseFaults /\ faults' = faults + 1)
         /\ \E status \in BOOLEAN, recovery \in {"none", "INVALID", "UNRESOLVED", "DENY", "ALLOW"} :
              /\ guardian' = [guardian EXCEPT !.status = status, !.leases = {},
                                              !.recovery = recovery]
              /\ \/ mode # "inflight" /\ recovery = "none" /\ call' = call
                 \/ /\ mode = "inflight"
                    /\ guardian.crash = broker.cur /\ broker.cur \in Lease!Callers
                    /\ \/ recovery = "INVALID" /\ call[broker.cur] # "received" /\ call' = call
                       \/ recovery = "UNRESOLVED" /\ call' = call
                       \/ /\ recovery = "DENY" /\ call[broker.cur] = "received"
                          /\ call' = [call EXCEPT ![broker.cur] = "denied"]
                       \/ /\ recovery = "ALLOW" /\ call[broker.cur] = "received"
                          /\ broker.cur \notin LeaseTargets
                          /\ call' = [call EXCEPT ![broker.cur] = "allowed"]
<1> DEFINE effect == Lease!RespondToLease(guardian.crash, resolved)
           status == guardian.status \/ Lease!StatusReady
           recovery == IF mode = "inflight" THEN effect ELSE guardian.recovery
<1>1. /\ Lease!Looping /\ UNCHANGED <<mode, reports>> /\ reports = << >> /\ broker.pc = "dead"
      /\ broker.exit = Lease!ExpectedExit /\ (mode = "prelease" \/ broker.gen = 1)
      /\ mode = "inflight" => guardian.crash \in guardian.leases
      /\ faults' = faults \/ (faults < LeaseFaults /\ faults' = faults + 1)
      /\ broker' = Lease!Broker(broker.gen + 1)
      /\ guardian' = [guardian EXCEPT !.status = status, !.leases = {}, !.recovery = recovery]
      /\ IF mode = "inflight" /\ effect \in {"DENY", "ALLOW"}
         THEN call' = [call EXCEPT ![guardian.crash] =
                         IF effect = "DENY" THEN "denied" ELSE "allowed"]
         ELSE UNCHANGED call
  BY DEF Lease!Replace, Lease!BrokerClosed, Lease!Answer
<1>2. /\ mode \in {"after", "inflight", "prelease"}
      /\ mode = "after" => broker.exit = 70
      /\ broker.exit \in {70, 71, 72}
  BY <1>1 DEF LeaseInv, Lease!TypeOK, Lease!ExpectedExit
<1>3. broker.gen = 1 /\ guardian.recovery = "none"
  BY <1>2 DEF LeaseInv, BrokerSound
<1>4. broker' = [pc |-> "wait", gen |-> 2, cur |-> Lease!Nobody, effect |-> "ALLOW",
                 received |-> 0, processed |-> 0, exit |-> 0]
  BY <1>1, <1>3 DEF Lease!Broker
<1>5. mode = "inflight" => guardian.crash = broker.cur /\ broker.cur \in Lease!Callers
  <2>1. guardian.leases \subseteq Lease!Callers
    BY DEF LeaseInv, Lease!TypeOK
  <2>2. Lease!Nobody \notin Lease!Callers
    BY DEF LeaseBounds, Lease!Nobody, Lease!Callers
  <2> QED BY <1>1, <1>3, <2>1, <2>2 DEF LeaseInv, CrashSound
<1>6. status \in BOOLEAN
  BY DEF LeaseInv, LeaseTypes
<1>7. /\ effect \in {"INVALID", "UNRESOLVED", "DENY", "ALLOW"}
      /\ effect = "INVALID" <=> call[guardian.crash] # "received"
      /\ effect = "ALLOW" => guardian.crash \notin LeaseTargets
  BY DEF Lease!RespondToLease
<1> HIDE DEF effect, status
<1>8. CASE mode # "inflight"
  <2>1. recovery = "none"
    BY <1>3, <1>8
  <2> HIDE DEF recovery
  <2> QED BY <1>1, <1>2, <1>3, <1>4, <1>6, <1>8, <2>1
<1>9. CASE mode = "inflight"
  <2>1. recovery = effect
    BY <1>9
  <2> HIDE DEF recovery
  <2> QED BY <1>1, <1>2, <1>3, <1>4, <1>5, <1>6, <1>7, <1>9, <2>1
<1> QED BY <1>8, <1>9


(* The broker keeps its type.                                              *)
LEMMA BrokerType ==
  ASSUME LeaseInv, Lease!Next, LeaseBounds
  PROVE  broker' \in Brokers
<1> USE DEF LeaseInv, LeaseTypes
<1>0. broker \in Brokers
  BY DEF Brokers
<1> HIDE DEF LeaseInv, LeaseTypes
<1>1. ASSUME NEW c \in Lease!Callers, Lease!Connect(c)
      PROVE  broker' \in Brokers
  <2>1. broker' = broker
    BY <1>1 DEF Lease!Connect
  <2> QED BY <1>0, <2>1
<1>2. ASSUME NEW c \in Lease!Callers, Lease!Interrupt(c)
      PROVE  broker' \in Brokers
  <2>1. broker' = broker
    BY <1>2 DEF Lease!Interrupt
  <2> QED BY <1>0, <2>1
<1>3. ASSUME NEW c \in Lease!Callers, Lease!Receive(c)
      PROVE  broker' \in Brokers
  <2>1. broker' = [broker EXCEPT !.pc = "classify", !.cur = c, !.received = broker.received + 1]
    BY <1>3 DEF Lease!Receive
  <2>2. broker.received + 1 \in Nat
    BY <1>0 DEF Brokers
  <2> DEFINE received == broker.received + 1
  <2> HIDE DEF received
  <2>3. broker' = [broker EXCEPT !.pc = "classify", !.cur = c, !.received = received]
    BY <2>1 DEF received
  <2>4. received \in Nat
    BY <2>2 DEF received
  <2> QED BY <1>0, <2>3, <2>4 DEF Brokers
<1>4. ASSUME NEW resolved \in BOOLEAN, Lease!Classify(resolved)
      PROVE  broker' \in Brokers
  <2>1. CASE broker' = [broker EXCEPT !.pc = "wait"]
    <3>1. \A p \in {"wait", "classify", "lease", "recheck", "send", "tell", "dead"} :
            [broker EXCEPT !.pc = p] \in Brokers
      BY <1>0 DEF Brokers
    <3> QED BY <2>1, <3>1
  <2>2. CASE \E effect \in {"DENY", "ALLOW"}, p \in {"lease", "dead"}, exit \in {72,
     broker.exit} :
               broker' = [broker EXCEPT !.effect = effect, !.pc = p, !.exit = exit]
    <3>1. PICK effect \in {"DENY", "ALLOW"}, p \in {"lease", "dead"}, exit \in {72,
       broker.exit} :
            broker' = [broker EXCEPT !.effect = effect, !.pc = p, !.exit = exit]
      BY <2>2
    <3>2. exit \in {0, 70, 71, 72, 125}
      BY <1>0 DEF Brokers
    <3> QED BY <1>0, <3>1, <3>2 DEF Brokers
  <2> DEFINE target_ == broker.cur \in LeaseTargets \/ ~resolved
             dies == mode = "prelease" /\ broker.gen = 1 /\ broker.received >= CrashAt
             effect == IF target_ THEN "DENY" ELSE "ALLOW"
             p == IF dies THEN "dead" ELSE "lease"
             exit == IF dies THEN 72 ELSE broker.exit
  <2>3. \/ broker' = [broker EXCEPT !.pc = "wait"]
        \/ broker' = [broker EXCEPT !.effect = effect, !.pc = p, !.exit = exit]
    BY <1>4 DEF Lease!Classify
  <2>4. effect \in {"DENY", "ALLOW"} /\ p \in {"lease", "dead"} /\ exit \in {72, broker.exit}
    OBVIOUS
  <2> HIDE DEF effect, p, exit
  <2> QED BY <2>1, <2>2, <2>3, <2>4
<1>5. CASE Lease!Lease
  <2> DEFINE dies == mode = "inflight" /\ broker.gen = 1 /\ broker.received >= CrashAt
             p == IF dies THEN "dead" ELSE "recheck"
             exit == IF dies THEN 71 ELSE broker.exit
  <2>1. broker' = [broker EXCEPT !.pc = p, !.exit = exit]
    BY <1>5 DEF Lease!Lease
  <2>2. p \in {"dead", "recheck"} /\ exit \in {71, broker.exit}
    OBVIOUS
  <2> HIDE DEF p, exit
  <2> QED BY <1>0, <2>1, <2>2 DEF Brokers
<1>6. CASE Lease!Recheck
  <2>1. broker' = [broker EXCEPT !.pc = "send"] \/ broker' = [broker EXCEPT !.pc = "wait"]
    BY <1>6 DEF Lease!Recheck
  <2> QED BY <1>0, <2>1 DEF Brokers
<1>7. CASE Lease!Send
  <2>1. \/ broker' = [broker EXCEPT !.pc = "tell"]
        \/ broker' = [broker EXCEPT !.pc = "dead", !.exit = 125]
    BY <1>7 DEF Lease!Send
  <2>2. CASE broker' = [broker EXCEPT !.pc = "tell"]
    BY <1>0, <2>2 DEF Brokers
  <2>3. CASE broker' = [broker EXCEPT !.pc = "dead", !.exit = 125]
    BY <1>0, <2>3 DEF Brokers
  <2> QED BY <2>1, <2>2, <2>3
<1>8. CASE Lease!Decision
  <2> DEFINE dies == mode = "after" /\ broker.gen = 1 /\ broker.processed + 1 >= CrashAt
             p == IF dies THEN "dead" ELSE "wait"
             exit == IF dies THEN 70 ELSE broker.exit
             processed == broker.processed + 1
  <2>1. broker' = [broker EXCEPT !.pc = p, !.processed = processed, !.exit = exit]
    BY <1>8 DEF Lease!Decision
  <2>2. p \in {"dead", "wait"} /\ exit \in {70, broker.exit} /\ processed \in Nat
    BY <1>0 DEF Brokers
  <2> HIDE DEF p, exit, processed
  <2> QED BY <1>0, <2>1, <2>2 DEF Brokers
<1>9. CASE Lease!Turn
  <2>1. broker' = broker
    BY <1>9, TurnStep
  <2> QED BY <1>0, <2>1
<1>10. ASSUME NEW resolved \in BOOLEAN, Lease!Replace(resolved)
      PROVE  broker' \in Brokers
  <2>1. broker' = [pc |-> "wait", gen |-> 2, cur |-> Lease!Nobody, effect |-> "ALLOW",
                   received |-> 0, processed |-> 0, exit |-> 0]
    BY <1>10, ReplaceStep
  <2> QED BY <2>1 DEF Brokers
<1>11. CASE Over
  <2>1. broker' = [broker EXCEPT !.pc = "dead"]
    BY <1>11, OverStep
  <2> QED BY <1>0, <2>1 DEF Brokers
<1>12. CASE Lease!Ended
  <2>1. broker' = broker
    BY <1>12 DEF Lease!Ended, Lease!vars
  <2> QED BY <1>0, <2>1
<1> QED BY <1>1, <1>2, <1>3, <1>4, <1>5, <1>6, <1>7, <1>8, <1>9, <1>10, <1>11,
   <1>12 DEF Lease!Next, Lease!Progress, Over


(* The reports a broker can make.                                          *)
LEMMA ReportsKnown ==
  /\ \A c \in Lease!Callers, type \in {"lease", "crash-before-send", "crash"} :
       [type |-> type, id |-> c] \in Reports
  /\ \A effect \in {"ALLOW", "DENY"} : [type |-> "decision", effect |-> effect] \in Reports
  /\ [type |-> "invalid"] \in Reports
<1>1. ASSUME NEW c \in Lease!Callers, NEW type \in {"lease", "crash-before-send", "crash"}
      PROVE  [type |-> type, id |-> c] \in Reports
  <2>1. [type |-> type, id |-> c]
          \in [type : {"lease", "crash-before-send", "crash"}, id : Lease!Callers]
    BY <1>1
  <2> QED BY <2>1 DEF Reports
<1>2. ASSUME NEW effect \in {"ALLOW", "DENY"}
      PROVE  [type |-> "decision", effect |-> effect] \in Reports
  <2>1. [type |-> "decision", effect |-> effect]
          \in [type : {"decision"}, effect : {"ALLOW", "DENY"}]
    BY <1>2
  <2> QED BY <2>1 DEF Reports
<1>3. [type |-> "invalid"] \in Reports
  BY DEF Reports
<1> QED BY <1>1, <1>2, <1>3

(* What a broker tells the guardian before its answer, and after it.       *)
LEMMA LeaseTells ==
  ASSUME LeaseInv, Lease!Lease
  PROVE  /\ broker.cur \in Lease!Callers /\ broker.pc = "lease"
         /\ LET dies == mode = "inflight" /\ broker.gen = 1 /\ broker.received >= CrashAt
                lease == [type |-> "lease", id |-> broker.cur]
                crash == [type |-> "crash-before-send", id |-> broker.cur]
            IN  /\ broker' = [broker EXCEPT !.pc = IF dies THEN "dead" ELSE "recheck",
                                            !.exit = IF dies THEN 71 ELSE broker.exit]
                /\ reports' = IF dies THEN Append(Append(reports, lease), crash)
                              ELSE IF mode = "after" THEN reports ELSE Append(reports, lease)
         /\ UNCHANGED <<mode, call, guardian, faults>>
<1> DEFINE dies == mode = "inflight" /\ broker.gen = 1 /\ broker.received >= CrashAt
           lease == [type |-> "lease", id |-> broker.cur]
           crash == [type |-> "crash-before-send", id |-> broker.cur]
<1>1. /\ broker.cur \in Lease!Callers /\ broker.pc = "lease" /\ reports \in Seq(Reports)
  BY DEF LeaseInv, BrokerSound, LeaseTypes, Lease!Lease
<1>2. lease \in Reports /\ crash \in Reports
  BY <1>1, ReportsKnown
<1>3. /\ reports' = reports \o (IF mode = "after" THEN << >> ELSE <<lease>>)
                            \o (IF dies THEN <<crash>> ELSE << >>)
      /\ broker' = [broker EXCEPT !.pc = IF dies THEN "dead" ELSE "recheck",
                                  !.exit = IF dies THEN 71 ELSE broker.exit]
      /\ UNCHANGED <<mode, call, guardian, faults>>
  BY DEF Lease!Lease
<1> HIDE DEF lease, crash
<1>4. /\ Append(reports, lease) \in Seq(Reports)
      /\ reports \o <<lease>> = Append(reports, lease)
      /\ reports \o << >> = reports
      /\ Append(reports, lease) \o <<crash>> = Append(Append(reports, lease), crash)
      /\ Append(reports, lease) \o << >> = Append(reports, lease)
  BY <1>1, <1>2, AppendProperties, AppendIsConcat, ConcatEmptySeq
<1>5. reports' = IF dies THEN Append(Append(reports, lease), crash)
                 ELSE IF mode = "after" THEN reports ELSE Append(reports, lease)
  BY <1>3, <1>4
<1> QED BY <1>1, <1>3, <1>5 DEF lease, crash

(* What is reported with a decision.                                       *)
LEMMA DecisionTells ==
  ASSUME LeaseInv, Lease!Decision
  PROVE  /\ broker.cur \in Lease!Callers /\ broker.pc = "tell"
         /\ LET dies == mode = "after" /\ broker.gen = 1 /\ broker.processed + 1 >= CrashAt
                decision == [type |-> "decision", effect |-> broker.effect]
                crash == [type |-> "crash", id |-> broker.cur]
            IN  /\ broker' = [broker EXCEPT !.pc = IF dies THEN "dead" ELSE "wait",
                                            !.processed = broker.processed + 1,
                                            !.exit = IF dies THEN 70 ELSE broker.exit]
                /\ reports' = IF dies THEN Append(Append(reports, decision), crash)
                              ELSE Append(reports, decision)
         /\ UNCHANGED <<mode, call, guardian, faults>>
<1> DEFINE dies == mode = "after" /\ broker.gen = 1 /\ broker.processed + 1 >= CrashAt
           decision == [type |-> "decision", effect |-> broker.effect]
           crash == [type |-> "crash", id |-> broker.cur]
<1>1. /\ broker.cur \in Lease!Callers /\ broker.pc = "tell" /\ reports \in Seq(Reports)
      /\ broker.effect \in {"ALLOW", "DENY"}
  BY DEF LeaseInv, BrokerSound, LeaseTypes, Lease!Decision
<1>2. decision \in Reports /\ crash \in Reports
  BY <1>1, ReportsKnown
<1>3. /\ reports' = reports \o <<decision>> \o (IF dies THEN <<crash>> ELSE << >>)
      /\ broker' = [broker EXCEPT !.pc = IF dies THEN "dead" ELSE "wait",
                                  !.processed = broker.processed + 1,
                                  !.exit = IF dies THEN 70 ELSE broker.exit]
      /\ UNCHANGED <<mode, call, guardian, faults>>
  BY DEF Lease!Decision
<1> HIDE DEF decision, crash
<1>4. /\ Append(reports, decision) \in Seq(Reports)
      /\ reports \o <<decision>> = Append(reports, decision)
      /\ Append(reports, decision) \o <<crash>> = Append(Append(reports, decision), crash)
      /\ Append(reports, decision) \o << >> = Append(reports, decision)
  BY <1>1, <1>2, AppendProperties, AppendIsConcat, ConcatEmptySeq
<1>5. reports' = IF dies THEN Append(Append(reports, decision), crash)
                 ELSE Append(reports, decision)
  BY <1>3, <1>4
<1> QED BY <1>1, <1>3, <1>5 DEF decision, crash

(* The reports keep their type.                                            *)
LEMMA ReportsType ==
  ASSUME LeaseInv, Lease!Next, LeaseBounds
  PROVE  reports' \in Seq(Reports)
<1> USE DEF LeaseInv, LeaseTypes
<1>0. reports \in Seq(Reports) /\ broker.effect \in {"ALLOW", "DENY"}
  OBVIOUS
<1> HIDE DEF LeaseInv, LeaseTypes
<1>1. ASSUME NEW c \in Lease!Callers, Lease!Connect(c)
      PROVE  reports' \in Seq(Reports)
  <2>1. reports' = reports
    BY <1>1 DEF Lease!Connect
  <2> QED BY <1>0, <2>1
<1>2. ASSUME NEW c \in Lease!Callers, Lease!Interrupt(c)
      PROVE  reports' \in Seq(Reports)
  <2>1. reports' = reports
    BY <1>2 DEF Lease!Interrupt
  <2> QED BY <1>0, <2>1
<1>3. ASSUME NEW c \in Lease!Callers, Lease!Receive(c)
      PROVE  reports' \in Seq(Reports)
  <2>1. reports' = reports
    BY <1>3 DEF Lease!Receive
  <2> QED BY <1>0, <2>1
<1>4. ASSUME NEW resolved \in BOOLEAN, Lease!Classify(resolved)
      PROVE  reports' \in Seq(Reports)
  <2>1. reports' = reports \/ reports' = Append(reports, [type |-> "invalid"])
    BY <1>4 DEF Lease!Classify, Lease!Tell
  <2>2. [type |-> "invalid"] \in Reports
    BY ReportsKnown
  <2> QED BY <1>0, <2>1, <2>2, AppendProperties
<1>5. CASE Lease!Lease
  <2> DEFINE lease == [type |-> "lease", id |-> broker.cur]
             crash == [type |-> "crash-before-send", id |-> broker.cur]
  <2>1. lease \in Reports /\ crash \in Reports
    BY <1>5, LeaseTells, ReportsKnown
  <2>2. \/ reports' = reports \/ reports' = Append(reports, lease)
        \/ reports' = Append(Append(reports, lease), crash)
    BY <1>5, LeaseTells
  <2> HIDE DEF lease, crash
  <2> QED BY <1>0, <2>1, <2>2, AppendProperties
<1>6. CASE Lease!Recheck
  <2>1. reports' = reports \/ reports' = Append(reports, [type |-> "invalid"])
    BY <1>6 DEF Lease!Recheck, Lease!Tell
  <2>2. [type |-> "invalid"] \in Reports
    BY ReportsKnown
  <2> QED BY <1>0, <2>1, <2>2, AppendProperties
<1>7. CASE Lease!Send
  <2>1. reports' = reports
    BY <1>7 DEF Lease!Send
  <2> QED BY <1>0, <2>1
<1>8. CASE Lease!Decision
  <2> DEFINE decision == [type |-> "decision", effect |-> broker.effect]
             crash == [type |-> "crash", id |-> broker.cur]
  <2>1. decision \in Reports /\ crash \in Reports
    BY <1>0, <1>8, DecisionTells, ReportsKnown
  <2>2. \/ reports' = Append(reports, decision)
        \/ reports' = Append(Append(reports, decision), crash)
    BY <1>8, DecisionTells
  <2> HIDE DEF decision, crash
  <2> QED BY <1>0, <2>1, <2>2, AppendProperties
<1>9. CASE Lease!Turn
  <2>1. reports' = reports \/ (reports # << >> /\ reports' = Tail(reports))
    BY <1>9, TurnStep
  <2> QED BY <1>0, <2>1, HeadTailProperties
<1>10. ASSUME NEW resolved \in BOOLEAN, Lease!Replace(resolved)
      PROVE  reports' \in Seq(Reports)
  <2>1. reports' = reports
    BY <1>10, ReplaceStep
  <2> QED BY <1>0, <2>1
<1>11. CASE Over
  <2>1. reports' = reports
    BY <1>11, OverStep
  <2> QED BY <1>0, <2>1
<1>12. CASE Lease!Ended
  <2>1. reports' = reports
    BY <1>12 DEF Lease!Ended, Lease!vars
  <2> QED BY <1>0, <2>1
<1> QED BY <1>1, <1>2, <1>3, <1>4, <1>5, <1>6, <1>7, <1>8, <1>9, <1>10, <1>11,
   <1>12 DEF Lease!Next, Lease!Progress, Over

(* The guardian keeps its type.                                            *)
LEMMA GuardianType ==
  ASSUME LeaseInv, Lease!Next, LeaseBounds
  PROVE  guardian' \in Guardians
<1> USE DEF LeaseInv, LeaseTypes
<1>0. guardian \in Guardians
  BY DEF Guardians
<1> HIDE DEF LeaseInv, LeaseTypes
<1>1. ASSUME NEW c \in Lease!Callers, Lease!Connect(c)
      PROVE  guardian' \in Guardians
  <2>1. guardian' = guardian
    BY <1>1 DEF Lease!Connect
  <2> QED BY <1>0, <2>1
<1>2. ASSUME NEW c \in Lease!Callers, Lease!Interrupt(c)
      PROVE  guardian' \in Guardians
  <2>1. guardian' = guardian
    BY <1>2 DEF Lease!Interrupt
  <2> QED BY <1>0, <2>1
<1>3. ASSUME NEW c \in Lease!Callers, Lease!Receive(c)
      PROVE  guardian' \in Guardians
  <2>1. guardian' = guardian
    BY <1>3 DEF Lease!Receive
  <2> QED BY <1>0, <2>1
<1>4. ASSUME NEW resolved \in BOOLEAN, Lease!Classify(resolved)
      PROVE  guardian' \in Guardians
  <2>1. guardian' = guardian
    BY <1>4 DEF Lease!Classify
  <2> QED BY <1>0, <2>1
<1>5. CASE Lease!Lease
  <2>1. guardian' = guardian
    BY <1>5 DEF Lease!Lease
  <2> QED BY <1>0, <2>1
<1>6. CASE Lease!Recheck
  <2>1. guardian' = guardian
    BY <1>6 DEF Lease!Recheck
  <2> QED BY <1>0, <2>1
<1>7. CASE Lease!Send
  <2>1. guardian' = guardian
    BY <1>7 DEF Lease!Send
  <2> QED BY <1>0, <2>1
<1>8. CASE Lease!Decision
  <2>1. guardian' = guardian
    BY <1>8 DEF Lease!Decision
  <2> QED BY <1>0, <2>1
<1>9. CASE Lease!Turn
  BY <1>9, TurnStep
<1>10. ASSUME NEW resolved \in BOOLEAN, Lease!Replace(resolved)
      PROVE  guardian' \in Guardians
  <2>1. PICK status \in BOOLEAN, recovery \in {"none", "INVALID", "UNRESOLVED", "DENY",
     "ALLOW"} :
          guardian' = [guardian EXCEPT !.status = status, !.leases = {}, !.recovery = recovery]
    BY <1>10, ReplaceStep
  <2> QED BY <1>0, <2>1 DEF Guardians
<1>11. CASE Over
  <2>1. PICK p \in {"passed", "failed", "without status", "torn", "hangs"} :
          guardian' = [guardian EXCEPT !.phase = p]
    BY <1>11, OverStep
  <2> QED BY <1>0, <2>1 DEF Guardians
<1>12. CASE Lease!Ended
  <2>1. guardian' = guardian
    BY <1>12 DEF Lease!Ended, Lease!vars
  <2> QED BY <1>0, <2>1
<1> QED BY <1>1, <1>2, <1>3, <1>4, <1>5, <1>6, <1>7, <1>8, <1>9, <1>10, <1>11,
   <1>12 DEF Lease!Next, Lease!Progress, Over

(* What a step does to the calls and the bound on faults.                  *)
LeaseMoves ==
  /\ mode' = mode
  /\ call' \in [Lease!Callers -> Lease!Finished \cup {"idle", "queued", "received"}]
  /\ faults' = faults \/ (faults < LeaseFaults /\ faults' = faults + 1)

(* Which connects a step moves, and how.                                   *)
LEMMA LeaseMovesStep ==
  ASSUME LeaseInv, Lease!Next, LeaseBounds
  PROVE  LeaseMoves
<1> USE DEF Lease!Finished, LeaseMoves
<1>d. call \in [Lease!Callers -> Lease!Finished \cup {"idle", "queued", "received"}]
  BY DEF LeaseInv, Lease!TypeOK
<1>1. ASSUME NEW c \in Lease!Callers, Lease!Connect(c)
      PROVE  LeaseMoves
  <2>1. /\ mode' = mode /\ (faults' = faults \/ (faults < LeaseFaults /\ faults' = faults + 1))
        /\ \E a \in {"queued", "received", "interrupted"} : call' = [call EXCEPT ![c] = a]
    BY <1>1 DEF Lease!Connect
  <2> QED BY <1>d, <2>1
<1>2. ASSUME NEW c \in Lease!Callers, Lease!Interrupt(c)
      PROVE  LeaseMoves
  <2>1. /\ mode' = mode /\ (faults' = faults \/ (faults < LeaseFaults /\ faults' = faults + 1))
        /\ \E a \in {"queued", "received", "interrupted"} : call' = [call EXCEPT ![c] = a]
    BY <1>2 DEF Lease!Interrupt
  <2> QED BY <1>d, <2>1
<1>3. ASSUME NEW c \in Lease!Callers, Lease!Receive(c)
      PROVE  LeaseMoves
  <2>1. /\ mode' = mode /\ (faults' = faults \/ (faults < LeaseFaults /\ faults' = faults + 1))
        /\ \E a \in {"queued", "received", "interrupted"} : call' = [call EXCEPT ![c] = a]
    BY <1>3 DEF Lease!Receive
  <2> QED BY <1>d, <2>1
<1>4. ASSUME NEW resolved \in BOOLEAN, Lease!Classify(resolved)
      PROVE  LeaseMoves
  <2>1. /\ mode' = mode /\ (faults' = faults \/ (faults < LeaseFaults /\ faults' = faults + 1))
        /\ call' = call
    BY <1>4 DEF Lease!Classify
  <2> QED BY <1>d, <2>1
<1>5. CASE Lease!Lease
  <2>1. /\ mode' = mode /\ (faults' = faults \/ (faults < LeaseFaults /\ faults' = faults + 1))
        /\ call' = call
    BY <1>5 DEF Lease!Lease
  <2> QED BY <1>d, <2>1
<1>6. CASE Lease!Recheck
  <2>1. /\ mode' = mode /\ (faults' = faults \/ (faults < LeaseFaults /\ faults' = faults + 1))
        /\ call' = call
    BY <1>6 DEF Lease!Recheck
  <2> QED BY <1>d, <2>1
<1>7. CASE Lease!Send
  <2>1. /\ UNCHANGED <<mode, faults>>
        /\ \/ call' = call
           \/ \E a \in {"denied", "allowed"} : call' = [call EXCEPT ![broker.cur] = a]
    BY <1>7 DEF Lease!Send, Lease!Answer
  <2> QED BY <1>d, <2>1
<1>8. CASE Lease!Decision
  <2>1. /\ mode' = mode /\ (faults' = faults \/ (faults < LeaseFaults /\ faults' = faults + 1))
        /\ call' = call
    BY <1>8 DEF Lease!Decision
  <2> QED BY <1>d, <2>1
<1>9. CASE Lease!Turn
  <2>1. /\ mode' = mode /\ (faults' = faults \/ (faults < LeaseFaults /\ faults' = faults + 1))
        /\ call' = call
    BY <1>9, TurnStep
  <2> QED BY <1>d, <2>1
<1>10. ASSUME NEW resolved \in BOOLEAN, Lease!Replace(resolved)
      PROVE  LeaseMoves
  <2>1. /\ mode' = mode /\ (faults' = faults \/ (faults < LeaseFaults /\ faults' = faults + 1))
        /\ \/ call' = call
           \/ \E a \in {"denied", "allowed"} : call' = [call EXCEPT ![broker.cur] = a]
    BY <1>10, ReplaceStep
  <2> QED BY <1>d, <2>1
<1>11. CASE Over
  <2>1. UNCHANGED <<mode, faults>> /\ (call' = Lease!Terminated \/ call' = call)
    BY <1>11, OverStep
  <2> QED BY <1>d, <2>1 DEF Lease!Terminated
<1>12. CASE Lease!Ended
  <2>1. /\ mode' = mode /\ (faults' = faults \/ (faults < LeaseFaults /\ faults' = faults + 1))
        /\ call' = call
    BY <1>12 DEF Lease!Ended, Lease!vars
  <2> QED BY <1>d, <2>1
<1> QED BY <1>1, <1>2, <1>3, <1>4, <1>5, <1>6, <1>7, <1>8, <1>9, <1>10, <1>11,
   <1>12 DEF Lease!Next, Lease!Progress, Over

(* The type invariant the module states.                                   *)
LEMMA LeaseTypeOKStep ==
  ASSUME LeaseInv, Lease!Next, LeaseBounds
  PROVE  Lease!TypeOK'
<1>1. broker' \in Brokers /\ guardian' \in Guardians /\ LeaseMoves
  BY BrokerType, GuardianType, LeaseMovesStep
<1>2. /\ broker'.pc \in {"wait", "classify", "lease", "recheck", "send", "tell", "dead"}
      /\ broker'.cur \in Lease!Callers \cup {Lease!Nobody} /\ broker'.gen \in 1 .. 2
  <2>1. /\ broker'.pc \in {"wait", "classify", "lease", "recheck", "send", "tell", "dead"}
        /\ broker'.cur \in Lease!Callers \cup {Lease!Nobody} /\ broker'.gen \in {1, 2}
    BY <1>1 DEF Brokers
  <2> QED BY <2>1
<1>3. /\ guardian'.phase \in {"loop", "passed", "failed", "without status", "torn", "hangs"}
      /\ guardian'.leases \in SUBSET Lease!Callers
  BY <1>1 DEF Guardians
<1>4. mode' \in {"after", "inflight", "prelease"}
  BY <1>1 DEF LeaseInv, Lease!TypeOK, LeaseMoves
<1>5. faults' \in 0 .. LeaseFaults
  <2>1. LeaseFaults \in Nat /\ faults \in 0 .. LeaseFaults
    BY DEF LeaseInv, LeaseBounds, Lease!TypeOK
  <2>2. faults' = faults \/ (faults < LeaseFaults /\ faults' = faults + 1)
    BY <1>1 DEF LeaseMoves
  <2> QED BY <2>1, <2>2
<1>6. call' \in [Lease!Callers -> Lease!Finished \cup {"idle", "queued", "received"}]
  BY <1>1 DEF LeaseMoves
<1> QED BY <1>2, <1>3, <1>4, <1>5, <1>6 DEF Lease!TypeOK

(* The records keep their fields.                                          *)
LEMMA LeaseTypesStep ==
  ASSUME LeaseInv, Lease!Next, LeaseBounds
  PROVE  LeaseTypes'
BY BrokerType, GuardianType, ReportsType DEF Brokers, Guardians, LeaseTypes


(* The steps of the broker, field by field.                                *)
LEMMA ClassifyFields ==
  ASSUME LeaseInv, NEW resolved \in BOOLEAN, Lease!Classify(resolved)
  PROVE  /\ broker.pc = "classify" /\ broker'.cur = broker.cur /\ broker'.gen = broker.gen
         /\ UNCHANGED <<mode, call, guardian>>
         /\ \/ /\ call[broker.cur] # "received" /\ broker'.pc = "wait"
               /\ broker'.exit = broker.exit
               /\ reports' = Append(reports, [type |-> "invalid"])
            \/ /\ call[broker.cur] = "received" /\ reports' = reports
               /\ broker.cur \in LeaseTargets => broker'.effect = "DENY"
               /\ \/ broker'.pc = "lease" /\ broker'.exit = broker.exit
                  \/ /\ broker'.pc = "dead" /\ broker'.exit = 72
                     /\ mode = "prelease" /\ broker.gen = 1
<1> DEFINE dies == mode = "prelease" /\ broker.gen = 1 /\ broker.received >= CrashAt
           effect == IF broker.cur \in LeaseTargets \/ ~resolved THEN "DENY" ELSE "ALLOW"
           p == IF dies THEN "dead" ELSE "lease"
           exit == IF dies THEN 72 ELSE broker.exit
<1>0. broker \in Brokers
  BY DEF LeaseInv, LeaseTypes, Brokers
<1>1. /\ broker.pc = "classify" /\ UNCHANGED <<mode, call, guardian>>
      /\ \/ /\ call[broker.cur] # "received" /\ broker' = [broker EXCEPT !.pc = "wait"]
            /\ reports' = Append(reports, [type |-> "invalid"])
         \/ /\ call[broker.cur] = "received" /\ reports' = reports
            /\ broker' = [broker EXCEPT !.effect = effect, !.pc = p, !.exit = exit]
  BY DEF Lease!Classify, Lease!Valid, Lease!Tell
<1>2. CASE broker' = [broker EXCEPT !.pc = "wait"] /\ call[broker.cur] # "received"
  <2>1. /\ broker'.pc = "wait" /\ broker'.cur = broker.cur /\ broker'.gen = broker.gen
        /\ broker'.exit = broker.exit
    BY <1>0, <1>2 DEF Brokers
  <2> QED BY <1>1, <1>2, <2>1
<1>3. CASE broker' = [broker EXCEPT !.effect = effect, !.pc = p, !.exit = exit]
           /\ call[broker.cur] = "received"
  <2> HIDE DEF effect, p, exit
  <2>1. /\ broker'.pc = p /\ broker'.cur = broker.cur /\ broker'.gen = broker.gen
        /\ broker'.exit = exit /\ broker'.effect = effect
    BY <1>0, <1>3 DEF Brokers
  <2> QED BY <1>1, <1>3, <2>1 DEF effect, p, exit
<1> QED BY <1>1, <1>2, <1>3

(* The lease is published, and the broker may die right after.             *)
LEMMA LeaseFields ==
  ASSUME LeaseInv, Lease!Lease
  PROVE  /\ broker.pc = "lease" /\ broker'.cur = broker.cur /\ broker'.gen = broker.gen
         /\ broker'.effect = broker.effect /\ UNCHANGED <<mode, call, guardian>>
         /\ \/ /\ broker'.pc = "recheck" /\ broker'.exit = broker.exit
               /\ \/ reports' = reports
                  \/ reports' = Append(reports, [type |-> "lease", id |-> broker.cur])
            \/ /\ broker'.pc = "dead" /\ broker'.exit = 71 /\ mode = "inflight" /\ broker.gen = 1
               /\ reports' = Append(Append(reports, [type |-> "lease", id |-> broker.cur]),
                                    [type |-> "crash-before-send", id |-> broker.cur])
<1> DEFINE dies == mode = "inflight" /\ broker.gen = 1 /\ broker.received >= CrashAt
           p == IF dies THEN "dead" ELSE "recheck"
           exit == IF dies THEN 71 ELSE broker.exit
<1>0. broker \in Brokers
  BY DEF LeaseInv, LeaseTypes, Brokers
<1>1. /\ broker.pc = "lease" /\ UNCHANGED <<mode, call, guardian>>
      /\ broker' = [broker EXCEPT !.pc = p, !.exit = exit]
      /\ dies => reports' = Append(Append(reports, [type |-> "lease", id |-> broker.cur]),
                                   [type |-> "crash-before-send", id |-> broker.cur])
      /\ ~dies => \/ reports' = reports
                  \/ reports' = Append(reports, [type |-> "lease", id |-> broker.cur])
  BY LeaseTells
<1>2. /\ broker'.pc = p /\ broker'.exit = exit /\ broker'.cur = broker.cur
      /\ broker'.gen = broker.gen /\ broker'.effect = broker.effect
  <2> HIDE DEF p, exit
  <2> QED BY <1>0, <1>1 DEF Brokers
<1> QED BY <1>1, <1>2

(* The notification is still valid, or is given up.                        *)
LEMMA RecheckFields ==
  ASSUME LeaseInv, Lease!Recheck
  PROVE  /\ broker.pc = "recheck" /\ broker'.cur = broker.cur /\ broker'.gen = broker.gen
         /\ broker'.effect = broker.effect /\ broker'.exit = broker.exit
         /\ UNCHANGED <<mode, call, guardian>>
         /\ \/ call[broker.cur] = "received" /\ broker'.pc = "send" /\ reports' = reports
            \/ /\ call[broker.cur] # "received" /\ broker'.pc = "wait"
               /\ reports' = Append(reports, [type |-> "invalid"])
<1>0. broker \in Brokers
  BY DEF LeaseInv, LeaseTypes, Brokers
<1>1. /\ broker.pc = "recheck" /\ UNCHANGED <<mode, call, guardian>>
      /\ \/ /\ call[broker.cur] = "received" /\ broker' = [broker EXCEPT !.pc = "send"]
            /\ reports' = reports
         \/ /\ call[broker.cur] # "received" /\ broker' = [broker EXCEPT !.pc = "wait"]
            /\ reports' = Append(reports, [type |-> "invalid"])
  BY DEF Lease!Recheck, Lease!Valid, Lease!Tell
<1>2. ASSUME NEW p, broker' = [broker EXCEPT !.pc = p]
      PROVE  /\ broker'.pc = p /\ broker'.cur = broker.cur /\ broker'.gen = broker.gen
             /\ broker'.effect = broker.effect /\ broker'.exit = broker.exit
  BY <1>0, <1>2 DEF Brokers
<1> QED BY <1>1, <1>2

(* The call is answered, or it has gone.                                   *)
LEMMA SendFields ==
  ASSUME LeaseInv, Lease!Send
  PROVE  /\ broker.pc = "send" /\ broker'.cur = broker.cur /\ broker'.gen = broker.gen
         /\ broker'.effect = broker.effect /\ UNCHANGED <<mode, reports, guardian>>
         /\ \/ /\ call[broker.cur] = "received" /\ broker'.pc = "tell"
               /\ broker'.exit = broker.exit
               /\ call' = [call EXCEPT ![broker.cur] = Outcome(broker.effect)]
            \/ /\ call[broker.cur] # "received" /\ broker'.pc = "dead" /\ broker'.exit = 125
               /\ call' = call
<1>0. broker \in Brokers
  BY DEF LeaseInv, LeaseTypes, Brokers
<1>1. /\ broker.pc = "send" /\ UNCHANGED <<mode, reports, guardian>>
      /\ \/ /\ call[broker.cur] = "received" /\ broker' = [broker EXCEPT !.pc = "tell"]
            /\ call' = [call EXCEPT ![broker.cur] = Outcome(broker.effect)]
         \/ /\ call[broker.cur] # "received" /\ call' = call
            /\ broker' = [broker EXCEPT !.pc = "dead", !.exit = 125]
  BY DEF Lease!Send, Lease!Valid, Lease!Answer, Outcome
<1>2. CASE broker' = [broker EXCEPT !.pc = "tell"] /\ call[broker.cur] = "received"
  <2>1. /\ broker'.pc = "tell" /\ broker'.cur = broker.cur /\ broker'.gen = broker.gen
        /\ broker'.effect = broker.effect /\ broker'.exit = broker.exit
    BY <1>0, <1>2 DEF Brokers
  <2> QED BY <1>1, <1>2, <2>1
<1>3. CASE broker' = [broker EXCEPT !.pc = "dead", !.exit = 125] /\ call[broker.cur] # "received"
  <2>1. /\ broker'.pc = "dead" /\ broker'.cur = broker.cur /\ broker'.gen = broker.gen
        /\ broker'.effect = broker.effect /\ broker'.exit = 125
    BY <1>0, <1>3 DEF Brokers
  <2> QED BY <1>1, <1>3, <2>1
<1> QED BY <1>1, <1>2, <1>3

(* The answer is reported, and the broker may die right after.             *)
LEMMA DecisionFields ==
  ASSUME LeaseInv, Lease!Decision
  PROVE  /\ broker.pc = "tell" /\ broker'.cur = broker.cur /\ broker'.gen = broker.gen
         /\ broker'.effect = broker.effect /\ UNCHANGED <<mode, call, guardian>>
         /\ \/ /\ broker'.pc = "wait" /\ broker'.exit = broker.exit
               /\ reports' = Append(reports, [type |-> "decision", effect |-> broker.effect])
            \/ /\ broker'.pc = "dead" /\ broker'.exit = 70 /\ mode = "after" /\ broker.gen = 1
               /\ reports' = Append(Append(reports, [type |-> "decision",
                                                    effect |-> broker.effect]),
                                    [type |-> "crash", id |-> broker.cur])
<1> DEFINE dies == mode = "after" /\ broker.gen = 1 /\ broker.processed + 1 >= CrashAt
           p == IF dies THEN "dead" ELSE "wait"
           exit == IF dies THEN 70 ELSE broker.exit
           processed == broker.processed + 1
<1>0. broker \in Brokers
  BY DEF LeaseInv, LeaseTypes, Brokers
<1>1. /\ broker.pc = "tell" /\ UNCHANGED <<mode, call, guardian>>
      /\ broker' = [broker EXCEPT !.pc = p, !.processed = processed, !.exit = exit]
      /\ reports' = IF dies
                    THEN Append(Append(reports, [type |-> "decision", effect |-> broker.effect]),
                                [type |-> "crash", id |-> broker.cur])
                    ELSE Append(reports, [type |-> "decision", effect |-> broker.effect])
  BY DecisionTells
<1>2. /\ broker'.pc = p /\ broker'.exit = exit /\ broker'.cur = broker.cur
      /\ broker'.gen = broker.gen /\ broker'.effect = broker.effect
  <2> HIDE DEF p, exit, processed
  <2> QED BY <1>0, <1>1 DEF Brokers
<1> QED BY <1>1, <1>2

(* The broker takes a queued notification.                                 *)
LEMMA ReceiveFields ==
  ASSUME LeaseInv, NEW c \in Lease!Callers, Lease!Receive(c)
  PROVE  /\ broker.pc = "wait" /\ broker'.pc = "classify" /\ broker'.cur = c
         /\ broker'.gen = broker.gen /\ broker'.exit = broker.exit
         /\ broker'.effect = broker.effect /\ call[c] = "queued"
         /\ call' = [call EXCEPT ![c] = "received"] /\ UNCHANGED <<mode, reports, guardian>>
<1> DEFINE received == broker.received + 1
<1>0. broker \in Brokers
  BY DEF LeaseInv, LeaseTypes, Brokers
<1>1. /\ broker' = [broker EXCEPT !.pc = "classify", !.cur = c, !.received = received]
      /\ broker.pc = "wait" /\ call[c] = "queued" /\ call' = [call EXCEPT ![c] = "received"]
      /\ UNCHANGED <<mode, reports, guardian>>
  BY DEF Lease!Receive
<1> HIDE DEF received
<1> QED BY <1>0, <1>1 DEF Brokers

(* A replacement and the end, field by field.                              *)
LEMMA ReplaceFields ==
  ASSUME LeaseInv, LeaseBounds, NEW resolved \in BOOLEAN, Lease!Replace(resolved)
  PROVE  /\ UNCHANGED <<mode, reports>> /\ broker.gen = 1 /\ broker.pc = "dead"
         /\ mode = "after" => broker.exit = 70
         /\ guardian.phase = "loop" /\ guardian.recovery = "none"
         /\ broker'.pc = "wait" /\ broker'.gen = 2 /\ broker'.exit = 0
         /\ broker'.cur = Lease!Nobody /\ broker'.effect = "ALLOW"
         /\ guardian'.phase = guardian.phase /\ guardian'.crash = guardian.crash
         /\ guardian'.denied = guardian.denied /\ guardian'.allowed = guardian.allowed
         /\ \/ mode # "inflight" /\ guardian'.recovery = "none" /\ call' = call
            \/ /\ mode = "inflight" /\ broker.cur \in Lease!Callers
               /\ \/ guardian'.recovery = "INVALID" /\ call[broker.cur] # "received" /\ call' = call
                  \/ guardian'.recovery = "UNRESOLVED" /\ call' = call
                  \/ /\ guardian'.recovery \in {"DENY", "ALLOW"} /\ call[broker.cur] = "received"
                     /\ broker.cur \in LeaseTargets => guardian'.recovery = "DENY"
                     /\ call' = [call EXCEPT ![broker.cur] = Outcome(guardian'.recovery)]
<1>0. guardian \in Guardians
  BY DEF LeaseInv, LeaseTypes, Guardians
<1>1. broker' = [pc |-> "wait", gen |-> 2, cur |-> Lease!Nobody, effect |-> "ALLOW",
                 received |-> 0, processed |-> 0, exit |-> 0]
  BY ReplaceStep
<1>2. PICK status \in BOOLEAN, recovery \in {"none", "INVALID", "UNRESOLVED", "DENY", "ALLOW"} :
        /\ guardian' = [guardian EXCEPT !.status = status, !.leases = {}, !.recovery = recovery]
        /\ \/ mode # "inflight" /\ recovery = "none" /\ call' = call
           \/ /\ mode = "inflight"
              /\ guardian.crash = broker.cur /\ broker.cur \in Lease!Callers
              /\ \/ recovery = "INVALID" /\ call[broker.cur] # "received" /\ call' = call
                 \/ recovery = "UNRESOLVED" /\ call' = call
                 \/ /\ recovery = "DENY" /\ call[broker.cur] = "received"
                    /\ call' = [call EXCEPT ![broker.cur] = "denied"]
                 \/ /\ recovery = "ALLOW" /\ call[broker.cur] = "received"
                    /\ broker.cur \notin LeaseTargets
                    /\ call' = [call EXCEPT ![broker.cur] = "allowed"]
  BY ReplaceStep
<1>3. /\ guardian'.phase = guardian.phase /\ guardian'.crash = guardian.crash
      /\ guardian'.denied = guardian.denied /\ guardian'.allowed = guardian.allowed
      /\ guardian'.recovery = recovery
  BY <1>0, <1>2 DEF Guardians
<1>4. Outcome("DENY") = "denied" /\ Outcome("ALLOW") = "allowed"
  BY DEF Outcome
<1>5. /\ UNCHANGED <<mode, reports>> /\ broker.gen = 1 /\ broker.pc = "dead"
      /\ mode = "after" => broker.exit = 70
      /\ guardian.phase = "loop" /\ guardian.recovery = "none"
  BY ReplaceStep DEF Lease!Looping
<1> QED BY <1>1, <1>2, <1>3, <1>4, <1>5

(* The end takes nothing back of what was counted.                         *)
LEMMA OverFields ==
  ASSUME LeaseInv, Over
  PROVE  /\ broker'.pc = "dead" /\ broker'.gen = broker.gen /\ broker'.exit = broker.exit
         /\ broker'.cur = broker.cur /\ broker'.effect = broker.effect
         /\ guardian'.phase # "loop" /\ guardian'.crash = guardian.crash
         /\ guardian'.recovery = guardian.recovery
         /\ guardian'.denied = guardian.denied /\ guardian'.allowed = guardian.allowed
         /\ UNCHANGED <<mode, reports>> /\ (call' = Lease!Terminated \/ call' = call)
<1>0. guardian \in Guardians /\ broker \in Brokers
  BY DEF LeaseInv, LeaseTypes, Guardians, Brokers
<1>1. broker' = [broker EXCEPT !.pc = "dead"]
  BY OverStep
<1>2. PICK p \in {"passed", "failed", "without status", "torn", "hangs"} :
        guardian' = [guardian EXCEPT !.phase = p]
  BY OverStep
<1>3. /\ guardian'.phase = p /\ guardian'.crash = guardian.crash
      /\ guardian'.recovery = guardian.recovery
      /\ guardian'.denied = guardian.denied /\ guardian'.allowed = guardian.allowed
  BY <1>0, <1>2 DEF Guardians
<1>4. /\ broker'.pc = "dead" /\ broker'.gen = broker.gen /\ broker'.exit = broker.exit
      /\ broker'.cur = broker.cur /\ broker'.effect = broker.effect
  BY <1>0, <1>1 DEF Brokers
<1>5. UNCHANGED <<mode, reports>> /\ (call' = Lease!Terminated \/ call' = call)
  BY OverStep
<1> QED BY <1>2, <1>3, <1>4, <1>5


(* The broker works on one caller, and dies on purpose only once.          *)
LEMMA BrokerSoundStep ==
  ASSUME LeaseInv, Lease!Next, LeaseBounds
  PROVE  BrokerSound'
<1> USE DEF BrokerSound
<1>0. /\ broker.gen \in {1, 2} /\ broker.exit \in {0, 70, 71, 72, 125}
      /\ call \in [Lease!Callers -> Lease!Finished \cup {"idle", "queued", "received"}]
      /\ LeaseTargets \subseteq Lease!Callers
  BY DEF LeaseInv, LeaseTypes, Lease!TypeOK, Lease!Callers
<1>a. BrokerSound
  BY DEF LeaseInv
<1>1. ASSUME NEW c \in Lease!Callers, Lease!Connect(c)
      PROVE  BrokerSound'
  BY <1>0, <1>a, <1>1 DEF Lease!Connect
<1>2. ASSUME NEW c \in Lease!Callers, Lease!Interrupt(c)
      PROVE  BrokerSound'
  BY <1>0, <1>a, <1>2 DEF Lease!Interrupt
<1>3. ASSUME NEW c \in Lease!Callers, Lease!Receive(c)
      PROVE  BrokerSound'
  BY <1>0, <1>a, <1>3, ReceiveFields
<1>4. ASSUME NEW resolved \in BOOLEAN, Lease!Classify(resolved)
      PROVE  BrokerSound'
  BY <1>0, <1>a, <1>4, ClassifyFields
<1>5. CASE Lease!Lease
  BY <1>0, <1>a, <1>5, LeaseFields
<1>6. CASE Lease!Recheck
  BY <1>0, <1>a, <1>6, RecheckFields
<1>7. CASE Lease!Send
  BY <1>0, <1>a, <1>7, SendFields
<1>8. CASE Lease!Decision
  BY <1>0, <1>a, <1>8, DecisionFields
<1>9. CASE Lease!Turn
  BY <1>0, <1>a, <1>9, TurnStep
<1>10. ASSUME NEW resolved \in BOOLEAN, Lease!Replace(resolved)
      PROVE  BrokerSound'
  BY <1>0, <1>a, <1>10, ReplaceFields
<1>11. CASE Over
  BY <1>0, <1>a, <1>11, OverFields
<1>12. CASE Lease!Ended
  BY <1>0, <1>a, <1>12 DEF Lease!Ended, Lease!vars
<1> QED BY <1>1, <1>2, <1>3, <1>4, <1>5, <1>6, <1>7, <1>8, <1>9, <1>10, <1>11,
   <1>12 DEF Lease!Next, Lease!Progress, Over

(* At most one received notification is still to be answered.              *)
LEMMA OneReceivedStep ==
  ASSUME LeaseInv, Lease!Next, LeaseBounds
  PROVE  OneReceived'
<1> USE DEF OneReceived, Lease!Looping
<1>0. /\ broker.gen \in {1, 2} /\ broker.exit \in {0, 70, 71, 72, 125}
      /\ call \in [Lease!Callers -> Lease!Finished \cup {"idle", "queued", "received"}]
      /\ LeaseTargets \subseteq Lease!Callers
  BY DEF LeaseInv, LeaseTypes, Lease!TypeOK, Lease!Callers
<1>a. OneReceived /\ BrokerSound
  BY DEF LeaseInv
<1>b. \A effect : Outcome(effect) \in {"denied", "allowed"}
  BY DEF Outcome
<1>1. ASSUME NEW c \in Lease!Callers, Lease!Connect(c)
      PROVE  OneReceived'
  <2>1. UNCHANGED <<mode, broker, reports, guardian>>
    BY <1>0, <1>a, <1>b, <1>1 DEF Lease!Connect
  <2>2. \E a \in {"queued", "interrupted"} : call' = [call EXCEPT ![c] = a]
    BY <1>0, <1>a, <1>b, <1>1 DEF Lease!Connect
  <2> QED BY <1>0, <1>a, <2>1, <2>2
<1>2. ASSUME NEW c \in Lease!Callers, Lease!Interrupt(c)
      PROVE  OneReceived'
  <2>1. UNCHANGED <<mode, broker, reports, guardian>>
    BY <1>0, <1>a, <1>b, <1>2 DEF Lease!Interrupt
  <2>2. \E a \in {"queued", "interrupted"} : call' = [call EXCEPT ![c] = a]
    BY <1>0, <1>a, <1>b, <1>2 DEF Lease!Interrupt
  <2> QED BY <1>0, <1>a, <2>1, <2>2
<1>3. ASSUME NEW c \in Lease!Callers, Lease!Receive(c)
      PROVE  OneReceived'
  BY <1>0, <1>a, <1>b, <1>3, ReceiveFields
<1>4. ASSUME NEW resolved \in BOOLEAN, Lease!Classify(resolved)
      PROVE  OneReceived'
  <2>1. broker.cur \in Lease!Callers
    BY <1>a, <1>4, ClassifyFields DEF BrokerSound
  <2> QED BY <1>0, <1>a, <1>b, <1>4, <2>1, ClassifyFields
<1>5. CASE Lease!Lease
  BY <1>0, <1>a, <1>b, <1>5, LeaseFields
<1>6. CASE Lease!Recheck
  BY <1>0, <1>a, <1>b, <1>6, RecheckFields
<1>7. CASE Lease!Send
  <2>1. broker.cur \in Lease!Callers
    BY <1>a, <1>7, SendFields DEF BrokerSound
  <2> QED BY <1>0, <1>a, <1>b, <1>7, <2>1, SendFields
<1>8. CASE Lease!Decision
  BY <1>0, <1>a, <1>b, <1>8, DecisionFields
<1>9. CASE Lease!Turn
  BY <1>0, <1>a, <1>b, <1>9, TurnStep
<1>10. ASSUME NEW resolved \in BOOLEAN, Lease!Replace(resolved)
      PROVE  OneReceived'
  <2>1. mode \in {"after", "inflight", "prelease"}
    BY DEF LeaseInv, Lease!TypeOK
  <2>2. /\ broker.gen = 1 /\ broker.pc = "dead" /\ UNCHANGED mode
        /\ mode = "after" => broker.exit = 70
    BY <1>0, <1>a, <1>b, <1>10, ReplaceFields
  <2>3. \A c \in Lease!Callers : call[c] = "received" => c = broker.cur /\ broker.exit \in {71,
     72}
    BY <1>a, <2>2, <1>10, ReplaceFields
  <2>4. broker'.gen = 2 /\ mode' = mode
    BY <2>2, <1>10, ReplaceFields
  <2>5. mode = "prelease" \/ guardian'.recovery = "UNRESOLVED" => OneReceived'
    BY <2>4
  <2>6. CASE mode = "after"
    <3>1. call' = call
      BY <2>6, <1>10, ReplaceFields
    <3>2. \A c \in Lease!Callers : call[c] # "received"
      BY <2>2, <2>3, <2>6
    <3> QED BY <3>1, <3>2
  <2>7. CASE mode = "inflight" /\ guardian'.recovery # "UNRESOLVED"
    <3>1. \/ call[broker.cur] # "received" /\ call' = call
          \/ /\ broker.cur \in Lease!Callers
             /\ call' = [call EXCEPT ![broker.cur] = Outcome(guardian'.recovery)]
      BY <2>7, <1>10, ReplaceFields
    <3>2. \A c \in Lease!Callers : call'[c] # "received"
      BY <1>0, <1>b, <2>3, <3>1
    <3> QED BY <3>2
  <2> QED BY <2>1, <2>5, <2>6, <2>7
<1>11. CASE Over
  BY <1>0, <1>a, <1>b, <1>11, OverFields
<1>12. CASE Lease!Ended
  BY <1>0, <1>a, <1>b, <1>12 DEF Lease!Ended, Lease!vars
<1> QED BY <1>1, <1>2, <1>3, <1>4, <1>5, <1>6, <1>7, <1>8, <1>9, <1>10, <1>11,
   <1>12 DEF Lease!Next, Lease!Progress, Over

(* No connect of the target is continued.                                  *)
LEMMA TargetNeverAllowedStep ==
  ASSUME LeaseInv, Lease!Next, LeaseBounds
  PROVE  Lease!TargetNeverAllowed'
<1> USE DEF Lease!TargetNeverAllowed
<1>0. /\ broker.gen \in {1, 2} /\ broker.exit \in {0, 70, 71, 72, 125}
      /\ call \in [Lease!Callers -> Lease!Finished \cup {"idle", "queued", "received"}]
      /\ LeaseTargets \subseteq Lease!Callers
  BY DEF LeaseInv, LeaseTypes, Lease!TypeOK, Lease!Callers
<1>a. Lease!TargetNeverAllowed /\ BrokerSound
  BY DEF LeaseInv
<1>b. Outcome("DENY") = "denied"
  BY DEF Outcome
<1>1. ASSUME NEW c \in Lease!Callers, Lease!Connect(c)
      PROVE  Lease!TargetNeverAllowed'
  <2>1. UNCHANGED <<mode, broker, reports, guardian>>
    BY <1>0, <1>a, <1>b, <1>1 DEF Lease!Connect
  <2>2. \E a \in {"queued", "interrupted"} : call' = [call EXCEPT ![c] = a]
    BY <1>0, <1>a, <1>b, <1>1 DEF Lease!Connect
  <2> QED BY <1>0, <1>a, <2>1, <2>2
<1>2. ASSUME NEW c \in Lease!Callers, Lease!Interrupt(c)
      PROVE  Lease!TargetNeverAllowed'
  <2>1. UNCHANGED <<mode, broker, reports, guardian>>
    BY <1>0, <1>a, <1>b, <1>2 DEF Lease!Interrupt
  <2>2. \E a \in {"queued", "interrupted"} : call' = [call EXCEPT ![c] = a]
    BY <1>0, <1>a, <1>b, <1>2 DEF Lease!Interrupt
  <2> QED BY <1>0, <1>a, <2>1, <2>2
<1>3. ASSUME NEW c \in Lease!Callers, Lease!Receive(c)
      PROVE  Lease!TargetNeverAllowed'
  BY <1>0, <1>a, <1>b, <1>3, ReceiveFields
<1>4. ASSUME NEW resolved \in BOOLEAN, Lease!Classify(resolved)
      PROVE  Lease!TargetNeverAllowed'
  BY <1>0, <1>a, <1>b, <1>4, ClassifyFields
<1>5. CASE Lease!Lease
  BY <1>0, <1>a, <1>b, <1>5, LeaseFields
<1>6. CASE Lease!Recheck
  BY <1>0, <1>a, <1>b, <1>6, RecheckFields
<1>7. CASE Lease!Send
  <2>1. broker.cur \in LeaseTargets => broker.effect = "DENY"
    BY <1>a, <1>7, SendFields DEF BrokerSound
  <2> QED BY <1>0, <1>a, <1>b, <1>7, <2>1, SendFields
<1>8. CASE Lease!Decision
  BY <1>0, <1>a, <1>b, <1>8, DecisionFields
<1>9. CASE Lease!Turn
  BY <1>0, <1>a, <1>b, <1>9, TurnStep
<1>10. ASSUME NEW resolved \in BOOLEAN, Lease!Replace(resolved)
      PROVE  Lease!TargetNeverAllowed'
  BY <1>0, <1>a, <1>b, <1>10, ReplaceFields
<1>11. CASE Over
  <2>1. call' = call \/ call' = Lease!Terminated
    BY <1>0, <1>a, <1>b, <1>11, OverFields
  <2> QED BY <1>0, <1>a, <2>1 DEF Lease!Terminated
<1>12. CASE Lease!Ended
  BY <1>0, <1>a, <1>b, <1>12 DEF Lease!Ended, Lease!vars
<1> QED BY <1>1, <1>2, <1>3, <1>4, <1>5, <1>6, <1>7, <1>8, <1>9, <1>10, <1>11,
   <1>12 DEF Lease!Next, Lease!Progress, Over


(* What may have been added to the reports.                                *)
LEMMA AppendOnly ==
  ASSUME NEW s \in Seq(Reports), NEW r \in Reports
  PROVE  /\ Append(s, r) \in Seq(Reports)
         /\ \A i \in DOMAIN Append(s, r) :
              (i \in DOMAIN s /\ Append(s, r)[i] = s[i]) \/ Append(s, r)[i] = r
<1>1. /\ Append(s, r) \in Seq(Reports) /\ Len(Append(s, r)) = Len(s) + 1
      /\ \A i \in 1 .. Len(s) : Append(s, r)[i] = s[i]
      /\ Append(s, r)[Len(s) + 1] = r
  BY AppendProperties
<1>2. \A i \in 1 .. Len(s) + 1 : i \in 1 .. Len(s) \/ i = Len(s) + 1
  OBVIOUS
<1> QED BY <1>1, <1>2

(* Reading a report shifts the others.                                     *)
LEMMA TailOnly ==
  ASSUME NEW s \in Seq(Reports), s # << >>
  PROVE  /\ \A i \in DOMAIN Tail(s) : i + 1 \in DOMAIN s /\ Tail(s)[i] = s[i + 1]
         /\ 1 \in DOMAIN s /\ Head(s) = s[1]
BY HeadTailProperties, EmptySeq

(* No report is of a crash, but those of the broker that is dead.          *)
CrashesOf(s, id) ==
  \A i \in DOMAIN s : s[i].type \in {"crash", "crash-before-send"} => s[i].id = id
Crashless(s) == \A i \in DOMAIN s : s[i].type \notin {"crash", "crash-before-send"}

(* A report of another kind is of no crash, and one crash has one id.      *)
LEMMA CrashAppended ==
  ASSUME NEW s \in Seq(Reports), NEW r \in Reports, Crashless(s)
  PROVE  /\ r.type \notin {"crash", "crash-before-send"} => Crashless(Append(s, r))
         /\ \A id : r.id = id => CrashesOf(Append(s, r), id)
BY AppendOnly DEF Crashless, CrashesOf

(* CrashSound in the terms of the two operators above.                     *)
LEMMA CrashFacts ==
  CrashSound <=>
    (broker.gen = 1 =>
       /\ guardian.crash # Lease!Nobody =>
            broker.exit \in {70, 71} /\ guardian.crash = broker.cur
       /\ Crashless(reports) \/ (broker.exit \in {70, 71} /\ CrashesOf(reports, broker.cur)))
BY DEF CrashSound, Crashless, CrashesOf

(* What is reported of a crash is true.                                    *)
LEMMA CrashSoundStep ==
  ASSUME LeaseInv, Lease!Next, LeaseBounds
  PROVE  CrashSound'
<1> USE DEF Lease!Looping
<1>0. /\ broker.gen \in {1, 2} /\ broker.exit \in {0, 70, 71, 72, 125}
      /\ call \in [Lease!Callers -> Lease!Finished \cup {"idle", "queued", "received"}]
      /\ LeaseTargets \subseteq Lease!Callers
  BY DEF LeaseInv, LeaseTypes, Lease!TypeOK, Lease!Callers
<1>a. /\ BrokerSound /\ reports \in Seq(Reports) /\ broker.effect \in {"ALLOW", "DENY"}
      /\ CrashSound
  BY DEF LeaseInv, LeaseTypes
<1>c. CrashSound
  BY DEF LeaseInv
<1>1. ASSUME NEW c \in Lease!Callers, Lease!Connect(c)
      PROVE  CrashSound'
  <2>1. UNCHANGED <<broker, reports, guardian>>
    BY <1>1 DEF Lease!Connect
  <2> QED BY <1>a, <2>1 DEF CrashSound
<1>2. ASSUME NEW c \in Lease!Callers, Lease!Interrupt(c)
      PROVE  CrashSound'
  <2>1. UNCHANGED <<broker, reports, guardian>>
    BY <1>2 DEF Lease!Interrupt
  <2> QED BY <1>a, <2>1 DEF CrashSound
<1>3. ASSUME NEW c \in Lease!Callers, Lease!Receive(c)
      PROVE  CrashSound'
  <2>1. broker.exit = 0 /\ broker'.exit = 0 /\ broker'.gen = broker.gen /\ UNCHANGED <<reports,
     guardian>>
    BY <1>a, <1>3, ReceiveFields DEF BrokerSound
  <2> QED BY <1>c, <2>1 DEF CrashSound
<1>4. ASSUME NEW resolved \in BOOLEAN, Lease!Classify(resolved)
      PROVE  CrashSound'
  <2>1. CASE reports' = reports
    <3>1. /\ broker.exit = 0 /\ broker'.cur = broker.cur /\ broker'.gen = broker.gen
          /\ guardian' = guardian
      BY <1>a, <1>4, ClassifyFields DEF BrokerSound
    <3> QED BY <1>c, <2>1, <3>1 DEF CrashSound
  <2>2. CASE reports' = Append(reports, [type |-> "invalid"])
    <3> DEFINE r == [type |-> "invalid"]
    <3>1. r \in Reports /\ r.type = "invalid"
      BY ReportsKnown
    <3>2. reports' = Append(reports, r)
      BY <2>2
    <3> HIDE DEF r
    <3>3. Crashless(reports) => Crashless(reports')
      BY <1>a, <3>1, <3>2, CrashAppended
    <3>4. /\ broker.exit = 0 /\ broker'.cur = broker.cur /\ broker'.gen = broker.gen
          /\ guardian' = guardian
      BY <1>a, <1>4, ClassifyFields DEF BrokerSound
    <3>5. broker.gen = 1 => guardian.crash = Lease!Nobody /\ Crashless(reports)
      BY <1>c, <3>4, CrashFacts
    <3>6. broker'.gen = 1 => guardian'.crash = Lease!Nobody /\ Crashless(reports')
      BY <3>3, <3>4, <3>5
    <3> QED BY <3>6 DEF CrashSound, Crashless
  <2> QED BY <1>4, <2>1, <2>2, ClassifyFields
<1>5. CASE Lease!Lease
  <2>1. CASE reports' = reports
    <3>1. /\ broker.exit = 0 /\ broker'.cur = broker.cur /\ broker'.gen = broker.gen
          /\ guardian' = guardian
      BY <1>a, <1>5, LeaseFields DEF BrokerSound
    <3> QED BY <1>c, <2>1, <3>1 DEF CrashSound
  <2>2. CASE reports' = Append(reports, [type |-> "lease", id |-> broker.cur])
    <3> DEFINE r == [type |-> "lease", id |-> broker.cur]
    <3>1. r \in Reports /\ r.type = "lease"
      BY <1>a, <1>5, LeaseFields, ReportsKnown DEF BrokerSound
    <3>2. reports' = Append(reports, r)
      BY <2>2
    <3> HIDE DEF r
    <3>3. Crashless(reports) => Crashless(reports')
      BY <1>a, <3>1, <3>2, CrashAppended
    <3>4. /\ broker.exit = 0 /\ broker'.cur = broker.cur /\ broker'.gen = broker.gen
          /\ guardian' = guardian
      BY <1>a, <1>5, LeaseFields DEF BrokerSound
    <3>5. broker.gen = 1 => guardian.crash = Lease!Nobody /\ Crashless(reports)
      BY <1>c, <3>4, CrashFacts
    <3>6. broker'.gen = 1 => guardian'.crash = Lease!Nobody /\ Crashless(reports')
      BY <3>3, <3>4, <3>5
    <3> QED BY <3>6 DEF CrashSound, Crashless
  <2>3. CASE /\ broker'.pc = "dead" /\ broker'.exit = 71 /\ broker.gen = 1
             /\ reports' = Append(Append(reports, [type |-> "lease", id |-> broker.cur]),
                [type |-> "crash-before-send", id |-> broker.cur])
    <3> DEFINE r == [type |-> "lease", id |-> broker.cur]
               q == [type |-> "crash-before-send", id |-> broker.cur]
    <3>1. r \in Reports /\ r.type = "lease" /\ q \in Reports /\ q.id = broker.cur
      BY <1>a, <1>5, LeaseFields, ReportsKnown DEF BrokerSound
    <3>2. reports' = Append(Append(reports, r), q)
      BY <2>3
    <3> HIDE DEF r, q
    <3>3. /\ broker.exit = 0 /\ broker'.cur = broker.cur /\ broker'.gen = broker.gen
          /\ guardian' = guardian
      BY <1>a, <1>5, LeaseFields DEF BrokerSound
    <3>4. guardian.crash = Lease!Nobody /\ Crashless(reports)
      BY <1>c, <2>3, <3>3, CrashFacts
    <3>5. Append(reports, r) \in Seq(Reports) /\ Crashless(Append(reports, r))
      BY <1>a, <3>1, <3>4, CrashAppended, AppendOnly
    <3>6. CrashesOf(reports', broker'.cur)
      BY <3>1, <3>2, <3>3, <3>5, CrashAppended
    <3>7. broker'.exit \in {70, 71} /\ guardian'.crash = Lease!Nobody
      BY <2>3, <3>3, <3>4
    <3> QED BY <3>6, <3>7 DEF CrashSound, CrashesOf
  <2> QED BY <1>a, <1>5, <2>1, <2>2, <2>3, LeaseFields
<1>6. CASE Lease!Recheck
  <2>1. CASE reports' = reports
    BY <1>a, <1>c, <1>6, <2>1, RecheckFields DEF CrashSound
  <2>2. CASE reports' = Append(reports, [type |-> "invalid"])
    <3> DEFINE r == [type |-> "invalid"]
    <3>1. r \in Reports /\ r.type = "invalid"
      BY ReportsKnown
    <3>2. reports' = Append(reports, r)
      BY <2>2
    <3> HIDE DEF r
    <3>3. Crashless(reports) => Crashless(reports')
      BY <1>a, <3>1, <3>2, CrashAppended
    <3>4. /\ broker.exit = 0 /\ broker'.cur = broker.cur /\ broker'.gen = broker.gen
          /\ guardian' = guardian
      BY <1>a, <1>6, RecheckFields DEF BrokerSound
    <3>5. broker.gen = 1 => guardian.crash = Lease!Nobody /\ Crashless(reports)
      BY <1>c, <3>4, CrashFacts
    <3>6. broker'.gen = 1 => guardian'.crash = Lease!Nobody /\ Crashless(reports')
      BY <3>3, <3>4, <3>5
    <3> QED BY <3>6 DEF CrashSound, Crashless
  <2> QED BY <1>6, <2>1, <2>2, RecheckFields
<1>7. CASE Lease!Send
  <2>1. /\ broker.exit = 0 /\ broker'.gen = broker.gen /\ UNCHANGED <<reports, guardian>>
        /\ broker'.cur = broker.cur
    BY <1>a, <1>7, SendFields DEF BrokerSound
  <2> QED BY <1>c, <2>1 DEF CrashSound
<1>8. CASE Lease!Decision
  <2>1. CASE reports' = reports
    BY <1>a, <1>c, <1>8, <2>1, DecisionFields DEF CrashSound
  <2>2. CASE reports' = Append(reports, [type |-> "decision", effect |-> broker.effect])
    <3> DEFINE r == [type |-> "decision", effect |-> broker.effect]
    <3>1. r \in Reports /\ r.type = "decision"
      BY <1>a, <1>8, DecisionFields, ReportsKnown DEF BrokerSound
    <3>2. reports' = Append(reports, r)
      BY <2>2
    <3> HIDE DEF r
    <3>3. Crashless(reports) => Crashless(reports')
      BY <1>a, <3>1, <3>2, CrashAppended
    <3>4. /\ broker.exit = 0 /\ broker'.cur = broker.cur /\ broker'.gen = broker.gen
          /\ guardian' = guardian
      BY <1>a, <1>8, DecisionFields DEF BrokerSound
    <3>5. broker.gen = 1 => guardian.crash = Lease!Nobody /\ Crashless(reports)
      BY <1>c, <3>4, CrashFacts
    <3>6. broker'.gen = 1 => guardian'.crash = Lease!Nobody /\ Crashless(reports')
      BY <3>3, <3>4, <3>5
    <3> QED BY <3>6 DEF CrashSound, Crashless
  <2>3. CASE /\ broker'.pc = "dead" /\ broker'.exit = 70 /\ broker.gen = 1
             /\ reports' = Append(Append(reports, [type |-> "decision",
                effect |-> broker.effect]), [type |-> "crash", id |-> broker.cur])
    <3> DEFINE r == [type |-> "decision", effect |-> broker.effect]
               q == [type |-> "crash", id |-> broker.cur]
    <3>1. r \in Reports /\ r.type = "decision" /\ q \in Reports /\ q.id = broker.cur
      BY <1>a, <1>8, DecisionFields, ReportsKnown DEF BrokerSound
    <3>2. reports' = Append(Append(reports, r), q)
      BY <2>3
    <3> HIDE DEF r, q
    <3>3. /\ broker.exit = 0 /\ broker'.cur = broker.cur /\ broker'.gen = broker.gen
          /\ guardian' = guardian
      BY <1>a, <1>8, DecisionFields DEF BrokerSound
    <3>4. guardian.crash = Lease!Nobody /\ Crashless(reports)
      BY <1>c, <2>3, <3>3, CrashFacts
    <3>5. Append(reports, r) \in Seq(Reports) /\ Crashless(Append(reports, r))
      BY <1>a, <3>1, <3>4, CrashAppended, AppendOnly
    <3>6. CrashesOf(reports', broker'.cur)
      BY <3>1, <3>2, <3>3, <3>5, CrashAppended
    <3>7. broker'.exit \in {70, 71} /\ guardian'.crash = Lease!Nobody
      BY <2>3, <3>3, <3>4
    <3> QED BY <3>6, <3>7 DEF CrashSound, CrashesOf
  <2> QED BY <1>a, <1>8, <2>1, <2>2, <2>3, DecisionFields
<1>9. CASE Lease!Turn
  <2>1. /\ broker' = broker
        /\ \/ reports' = reports /\ guardian'.crash = guardian.crash
           \/ /\ reports # << >> /\ reports' = Tail(reports)
              /\ guardian'.crash = IF Head(reports).type \in {"crash", "crash-before-send"}
                                   THEN Head(reports).id ELSE guardian.crash
    BY <1>9, TurnStep
  <2>2. CASE reports = << >> \/ reports' = reports
    BY <1>c, <2>1, <2>2 DEF CrashSound
  <2>3. CASE reports # << >> /\ reports' = Tail(reports)
    <3>1. /\ \A i \in DOMAIN reports' : i + 1 \in DOMAIN reports /\ reports'[i] = reports[i + 1]
          /\ 1 \in DOMAIN reports /\ Head(reports) = reports[1]
      BY <1>a, <2>3, TailOnly
    <3> QED BY <1>c, <2>1, <2>3, <3>1 DEF CrashSound
  <2> QED BY <2>1, <2>2, <2>3
<1>10. ASSUME NEW resolved \in BOOLEAN, Lease!Replace(resolved)
      PROVE  CrashSound'
  <2>1. broker'.gen = 2
    BY <1>10, ReplaceFields
  <2> QED BY <2>1 DEF CrashSound
<1>11. CASE Over
  <2>1. /\ broker'.gen = broker.gen /\ broker'.exit = broker.exit /\ broker'.cur = broker.cur
        /\ reports' = reports /\ guardian'.crash = guardian.crash
    BY <1>11, OverFields
  <2> QED BY <1>c, <2>1 DEF CrashSound
<1>12. CASE Lease!Ended
  <2>1. UNCHANGED <<broker, reports, guardian>>
    BY <1>12 DEF Lease!Ended, Lease!vars
  <2> QED BY <1>a, <2>1 DEF CrashSound
<1> QED BY <1>1, <1>2, <1>3, <1>4, <1>5, <1>6, <1>7, <1>8, <1>9, <1>10, <1>11,
   <1>12 DEF Lease!Next, Lease!Progress, Over


(* What the guardian counts of one kind of answer.                         *)
LEMMA CountedIs ==
  ASSUME NEW effect \in {"DENY", "ALLOW"}
  PROVE  /\ Counted(effect) = (IF effect = "DENY" THEN guardian.denied ELSE guardian.allowed)
                                + One(guardian.recovery = effect)
         /\ Counted(effect)' = (IF effect = "DENY" THEN guardian'.denied ELSE guardian'.allowed)
                                + One(guardian'.recovery = effect)
         /\ Untold(effect) = One(broker.pc = "tell" /\ broker.effect = effect)
         /\ Untold(effect)' = One(broker'.pc = "tell" /\ broker'.effect = effect)
BY DEF Counted, Lease!Denied, Lease!Allowed, Untold, One

(* A connect that was answered stays answered.                             *)
LEMMA AnsweredStays ==
  ASSUME LeaseInv, Lease!Next, LeaseBounds, NEW effect \in {"DENY", "ALLOW"},
         NEW a \in Lease!Callers, call[a] = Outcome(effect)
  PROVE  call'[a] = Outcome(effect)
<1>0. /\ Outcome(effect) \in Lease!Finished
      /\ Outcome(effect) \notin {"idle", "queued", "received"}
      /\ call \in [Lease!Callers -> Lease!Finished \cup {"idle", "queued", "received"}]
  BY DEF Outcome, Lease!Finished, LeaseInv, Lease!TypeOK
<1>1. ASSUME NEW c, NEW new, call' = [call EXCEPT ![c] = new],
             call[c] \in {"idle", "queued", "received"}
      PROVE  call'[a] = Outcome(effect)
  BY <1>0, <1>1
<1>2. ASSUME call' = call
      PROVE  call'[a] = Outcome(effect)
  BY <1>2
<1>3. CASE \E c \in Lease!Callers : Lease!Connect(c) \/ Lease!Interrupt(c) \/ Lease!Receive(c)
  BY <1>1, <1>3 DEF Lease!Connect, Lease!Interrupt, Lease!Receive
<1>4. CASE \E resolved \in BOOLEAN : Lease!Classify(resolved)
  BY <1>2, <1>4, ClassifyFields
<1>5. CASE Lease!Lease \/ Lease!Recheck \/ Lease!Decision
  BY <1>2, <1>5, LeaseFields, RecheckFields, DecisionFields
<1>6. CASE Lease!Send
  BY <1>1, <1>2, <1>6, SendFields
<1>7. CASE Lease!Turn
  BY <1>2, <1>7, TurnStep
<1>8. ASSUME NEW resolved \in BOOLEAN, Lease!Replace(resolved)
      PROVE  call'[a] = Outcome(effect)
  BY <1>1, <1>2, <1>8, ReplaceFields
<1>9. CASE Over
  BY <1>0, <1>2, <1>9, OverFields DEF Lease!Terminated
<1>10. CASE Lease!Ended
  BY <1>2, <1>10 DEF Lease!Ended, Lease!vars
<1> QED BY <1>3, <1>4, <1>5, <1>6, <1>7, <1>8, <1>9, <1>10 DEF Lease!Next, Lease!Progress, Over

(* Nothing is counted that the kernel has not delivered.                   *)
LEMMA AccountedStep ==
  ASSUME LeaseInv, Lease!Next, LeaseBounds
  PROVE  Accounted'
<1> SUFFICES ASSUME NEW effect \in {"DENY", "ALLOW"}
             PROVE  Counted(effect)' + Untold(effect)' + Cardinality(OnTheWay(reports', effect))
                      <= Cardinality(Delivered(Outcome(effect)))'
  BY DEF Accounted, Delivered, OnTheWay, Counted, Untold, Outcome
<1> DEFINE W == Cardinality(OnTheWay(reports, effect))
           X == Cardinality(OnTheWay(reports', effect))
           D == Cardinality(Delivered(Outcome(effect)))
           E == Cardinality(Delivered(Outcome(effect)))'
           K == IF effect = "DENY" THEN guardian.denied ELSE guardian.allowed
           L == IF effect = "DENY" THEN guardian'.denied ELSE guardian'.allowed
           R == One(guardian.recovery = effect)
           S == One(guardian'.recovery = effect)
           U == One(broker.pc = "tell" /\ broker.effect = effect)
           V == One(broker'.pc = "tell" /\ broker'.effect = effect)
<1>1. /\ guardian.denied \in Nat /\ guardian.allowed \in Nat /\ reports \in Seq(Reports)
      /\ broker.effect \in {"ALLOW", "DENY"} /\ BrokerSound
      /\ call \in [Lease!Callers -> Lease!Finished \cup {"idle", "queued", "received"}]
  BY DEF LeaseInv, LeaseTypes, Lease!TypeOK
<1>2. K \in Nat /\ R \in {0, 1} /\ S \in {0, 1} /\ U \in {0, 1} /\ V \in {0, 1} /\ W \in Nat
  BY <1>1, WayFinite DEF One
<1>3. K + R + U + W <= D
  BY CountedIs DEF LeaseInv, Accounted
<1>4. /\ D \in Nat /\ E \in Nat /\ D <= E
      /\ (\E c \in Lease!Callers : call[c] # Outcome(effect) /\ call'[c] = Outcome(effect))
           => D + 1 <= E
  BY AnsweredStays, DeliveredGrow DEF Outcome
<1>5. \A r \in Reports :
        Cardinality(OnTheWay(Append(reports, r), effect)) = W + One(IsDecision(r, effect))
  BY <1>1, WayAppend
<1>6. \A r, q \in Reports :
        Cardinality(OnTheWay(Append(Append(reports, r), q), effect)) =
          W + One(IsDecision(r, effect)) + One(IsDecision(q, effect))
  <2> TAKE r, q \in Reports
  <2>1. Append(reports, r) \in Seq(Reports)
    BY <1>1, AppendOnly
  <2>2. Cardinality(OnTheWay(Append(Append(reports, r), q), effect)) =
          Cardinality(OnTheWay(Append(reports, r), effect)) + One(IsDecision(q, effect))
    BY <2>1, WayAppend
  <2> QED BY <1>5, <2>2
<1>7. Counted(effect)' = L + S /\ Untold(effect)' = V
  BY CountedIs
<1> DEFINE Goal == L + S + V + X <= E
<1>8. SUFFICES Goal
  BY <1>7
<1>9. ASSUME guardian' = guardian \/ (L = K /\ S = R), X + V <= W + U, X \in Nat
      PROVE  Goal
  BY <1>2, <1>3, <1>4, <1>9
<1>10. ASSUME NEW c \in Lease!Callers, Lease!Connect(c) \/ Lease!Interrupt(c)
       PROVE  Goal
  <2>1. UNCHANGED <<broker, reports, guardian>>
    BY <1>10 DEF Lease!Connect, Lease!Interrupt
  <2> QED BY <1>2, <1>9, <2>1
<1>11. ASSUME NEW c \in Lease!Callers, Lease!Receive(c)
       PROVE  Goal
  <2>1. V = 0 /\ UNCHANGED <<reports, guardian>>
    BY <1>11, ReceiveFields DEF One
  <2> QED BY <1>2, <1>9, <2>1
<1>12. ASSUME NEW resolved \in BOOLEAN, Lease!Classify(resolved)
       PROVE  Goal
  <2>1. /\ V = 0 /\ UNCHANGED guardian
        /\ reports' = reports \/ reports' = Append(reports, [type |-> "invalid"])
    BY <1>12, ClassifyFields DEF One
  <2>2. X = W
    <3> DEFINE r == [type |-> "invalid"]
    <3>1. r \in Reports /\ r.type = "invalid"
      BY ReportsKnown
    <3>2. reports' = reports \/ reports' = Append(reports, r)
      BY <2>1
    <3> HIDE DEF r
    <3>3. One(IsDecision(r, effect)) = 0
      BY <3>1 DEF One, IsDecision
    <3>4. Cardinality(OnTheWay(Append(reports, r), effect)) = W
      BY <1>2, <1>5, <3>1, <3>3
    <3> QED BY <3>2, <3>4
  <2> QED BY <1>2, <1>9, <2>1, <2>2
<1>13. CASE Lease!Lease
  <2> DEFINE r == [type |-> "lease", id |-> broker.cur]
             q == [type |-> "crash-before-send", id |-> broker.cur]
  <2>1. /\ V = 0 /\ UNCHANGED guardian
        /\ \/ reports' = reports \/ reports' = Append(reports, r)
           \/ reports' = Append(Append(reports, r), q)
    BY <1>13, LeaseFields DEF One
  <2>2. r \in Reports /\ q \in Reports /\ r.type = "lease" /\ q.type = "crash-before-send"
    BY <1>1, <1>13, LeaseFields, ReportsKnown DEF BrokerSound
  <2>3. X = W
    <3> HIDE DEF r, q
    <3>1. One(IsDecision(r, effect)) = 0 /\ One(IsDecision(q, effect)) = 0
      BY <2>2 DEF One, IsDecision
    <3>2. /\ Cardinality(OnTheWay(Append(reports, r), effect)) = W
          /\ Cardinality(OnTheWay(Append(Append(reports, r), q), effect)) = W
      BY <1>2, <1>5, <1>6, <2>2, <3>1
    <3> QED BY <2>1, <3>2
  <2> QED BY <1>2, <1>9, <2>1, <2>3
<1>14. CASE Lease!Recheck
  <2>1. /\ V = 0 /\ UNCHANGED guardian
        /\ reports' = reports \/ reports' = Append(reports, [type |-> "invalid"])
    BY <1>14, RecheckFields DEF One
  <2>2. X = W
    <3> DEFINE r == [type |-> "invalid"]
    <3>1. r \in Reports /\ r.type = "invalid"
      BY ReportsKnown
    <3>2. reports' = reports \/ reports' = Append(reports, r)
      BY <2>1
    <3> HIDE DEF r
    <3>3. One(IsDecision(r, effect)) = 0
      BY <3>1 DEF One, IsDecision
    <3>4. Cardinality(OnTheWay(Append(reports, r), effect)) = W
      BY <1>2, <1>5, <3>1, <3>3
    <3> QED BY <3>2, <3>4
  <2> QED BY <1>2, <1>9, <2>1, <2>2
<1>15. CASE Lease!Send
  <2>1. /\ U = 0 /\ UNCHANGED <<reports, guardian>> /\ broker'.effect = broker.effect
        /\ broker.cur \in Lease!Callers
    BY <1>1, <1>15, SendFields DEF One, BrokerSound
  <2>2. CASE broker'.pc = "tell" /\ broker.effect = effect
    <3>1. call[broker.cur] = "received"
          /\ call' = [call EXCEPT ![broker.cur] = Outcome(effect)]
      BY <1>15, <2>2, SendFields
    <3>2. call[broker.cur] # Outcome(effect) /\ call'[broker.cur] = Outcome(effect)
      BY <1>1, <2>1, <3>1 DEF Outcome
    <3>3. D + 1 <= E
      BY <1>4, <2>1, <3>2
    <3> QED BY <1>2, <1>3, <1>4, <2>1, <3>3
  <2>3. CASE ~(broker'.pc = "tell" /\ broker.effect = effect)
    <3>1. V = 0
      BY <2>1, <2>3 DEF One
    <3> QED BY <1>2, <1>9, <2>1, <3>1
  <2> QED BY <2>2, <2>3
<1>16. CASE Lease!Decision
  <2> DEFINE r == [type |-> "decision", effect |-> broker.effect]
             q == [type |-> "crash", id |-> broker.cur]
  <2>1. /\ V = 0 /\ UNCHANGED guardian /\ U = One(broker.effect = effect)
        /\ reports' = Append(reports, r) \/ reports' = Append(Append(reports, r), q)
    BY <1>16, DecisionFields DEF One
  <2>2. /\ r \in Reports /\ q \in Reports /\ r.type = "decision" /\ r.effect = broker.effect
        /\ q.type = "crash"
    BY <1>1, <1>16, DecisionFields, ReportsKnown DEF BrokerSound
  <2>3. X = W + U
    <3> HIDE DEF r, q
    <3>1. One(IsDecision(r, effect)) = U /\ One(IsDecision(q, effect)) = 0
      BY <2>1, <2>2 DEF One, IsDecision
    <3>2. /\ Cardinality(OnTheWay(Append(reports, r), effect)) = W + U
          /\ Cardinality(OnTheWay(Append(Append(reports, r), q), effect)) = W + U
      BY <1>2, <1>5, <1>6, <2>2, <3>1
    <3> QED BY <2>1, <3>2
  <2> QED BY <1>2, <1>9, <2>1, <2>3
<1>17. CASE Lease!Turn
  <2>1. /\ broker' = broker /\ guardian'.recovery = guardian.recovery
        /\ \/ /\ reports' = reports
              /\ guardian'.denied = guardian.denied /\ guardian'.allowed = guardian.allowed
           \/ /\ reports # << >> /\ reports' = Tail(reports)
              /\ guardian'.denied = guardian.denied + One(IsDecision(Head(reports), "DENY"))
              /\ guardian'.allowed = guardian.allowed + One(IsDecision(Head(reports), "ALLOW"))
    BY <1>17, TurnStep
  <2>2. CASE reports # << >> /\ reports' = Tail(reports)
             /\ L = K + One(IsDecision(Head(reports), effect))
    <3> DEFINE n == One(IsDecision(Head(reports), effect))
    <3>1. n \in {0, 1} /\ W = X + n
      BY <1>1, <2>2, WayTail DEF One
    <3>2. X \in Nat
      <4>1. Tail(reports) \in Seq(Reports)
        BY <1>1, <2>2, HeadTailProperties
      <4> QED BY <2>2, <4>1, WayFinite
    <3>3. S = R /\ V = U /\ L = K + n
      BY <2>1, <2>2
    <3> HIDE DEF n, L, K, S, R, V, U, X, W, D, E
    <3>4. L + S + V + X <= E
      BY <1>2, <1>3, <1>4, <3>1, <3>2, <3>3
    <3> QED BY <3>4
  <2>3. CASE reports' = reports /\ L = K
    BY <1>2, <1>9, <2>1, <2>3
  <2> QED BY <2>1, <2>2, <2>3
<1>18. ASSUME NEW resolved \in BOOLEAN, Lease!Replace(resolved)
       PROVE  Goal
  <2>1. V = 0 /\ reports' = reports /\ L = K /\ guardian.recovery = "none" /\ R = 0
    BY <1>18, ReplaceFields DEF One
  <2>2. CASE guardian'.recovery = effect
    <3>1. /\ broker.cur \in Lease!Callers /\ call[broker.cur] = "received"
          /\ call' = [call EXCEPT ![broker.cur] = Outcome(effect)]
      BY <1>18, <2>2, ReplaceFields
    <3>2. call[broker.cur] # Outcome(effect) /\ call'[broker.cur] = Outcome(effect)
      BY <1>1, <3>1 DEF Outcome
    <3>3. D + 1 <= E
      BY <1>4, <3>1, <3>2
    <3> QED BY <1>2, <1>3, <1>4, <2>1, <3>3
  <2>3. CASE guardian'.recovery # effect
    <3>1. S = 0
      BY <2>3 DEF One
    <3> QED BY <1>2, <1>9, <2>1, <3>1
  <2> QED BY <2>2, <2>3
<1>19. CASE Over
  <2>1. V = 0 /\ L = K /\ S = R /\ reports' = reports
    BY <1>19, OverFields DEF One
  <2> QED BY <1>2, <1>9, <2>1
<1>20. CASE Lease!Ended
  <2>1. UNCHANGED <<broker, reports, guardian>>
    BY <1>20 DEF Lease!Ended, Lease!vars
  <2> QED BY <1>2, <1>9, <2>1
<1> HIDE DEF Goal
<1> QED BY <1>10, <1>11, <1>12, <1>13, <1>14, <1>15, <1>16, <1>17, <1>18, <1>19, <1>20
        DEF Lease!Next, Lease!Progress, Over


(* No connect has been made, nothing was reported or counted.              *)
LEMMA LeaseInit == Lease!Init /\ LeaseBounds => LeaseInv
<1> SUFFICES ASSUME Lease!Init, LeaseBounds PROVE LeaseInv
  OBVIOUS
<1> USE DEF Lease!Init, LeaseBounds, Lease!Broker
<1>1. Lease!TypeOK /\ LeaseTypes
  <2>1. reports \in Seq(Reports)
    OBVIOUS
  <2> QED BY <2>1 DEF Lease!TypeOK, LeaseTypes
<1>2. BrokerSound /\ OneReceived /\ CrashSound
  BY DEF BrokerSound, OneReceived, CrashSound
<1>3. Accounted
  <2> SUFFICES ASSUME NEW effect \in {"DENY", "ALLOW"}
               PROVE  Counted(effect) + Untold(effect) + Cardinality(OnTheWay(reports, effect))
                        <= Cardinality(Delivered(Outcome(effect)))
    BY DEF Accounted
  <2>1. Counted(effect) = 0 /\ Untold(effect) = 0
    BY DEF Counted, Lease!Denied, Lease!Allowed, Untold
  <2>2. Cardinality(OnTheWay(reports, effect)) = 0
    BY WayNone
  <2>3. Delivered(Outcome(effect)) = {}
    BY DEF Delivered, Outcome
  <2> QED BY <2>1, <2>2, <2>3, FS_EmptySet
<1>4. Lease!TargetNeverAllowed
  BY DEF Lease!TargetNeverAllowed, Lease!Callers
<1> QED BY <1>1, <1>2, <1>3, <1>4 DEF LeaseInv

(* One step of the laboratory.                                             *)
LEMMA LeaseStep ==
  ASSUME LeaseInv, Lease!Next, LeaseBounds
  PROVE  LeaseInv'
BY LeaseTypeOKStep, LeaseTypesStep, BrokerSoundStep, OneReceivedStep, CrashSoundStep,
   AccountedStep, TargetNeverAllowedStep DEF LeaseInv

(* What the inductive invariant says of the answers.                       *)
LEMMA LeaseHolds ==
  ASSUME LeaseInv, LeaseBounds
  PROVE  /\ Lease!TypeOK /\ Lease!TargetNeverAllowed
         /\ Lease!NoOrphan /\ Lease!CountsAreReal
<1>1. Lease!TypeOK /\ Lease!TargetNeverAllowed
  BY DEF LeaseInv
<1>2. Lease!NoOrphan
  BY DEF LeaseInv, OneReceived, Lease!NoOrphan
<1>3. ASSUME NEW effect \in {"DENY", "ALLOW"}
      PROVE  Counted(effect) <= Cardinality(Delivered(Outcome(effect)))
  <2>1. /\ guardian.denied \in Nat /\ guardian.allowed \in Nat /\ reports \in Seq(Reports)
    BY DEF LeaseInv, LeaseTypes
  <2>2. Counted(effect) \in Nat /\ Untold(effect) \in Nat
    BY <2>1 DEF Counted, Lease!Denied, Lease!Allowed, Untold
  <2>3. Cardinality(OnTheWay(reports, effect)) \in Nat
    BY <2>1, WayFinite
  <2>4. Cardinality(Delivered(Outcome(effect))) \in Nat
    <3>1. IsFiniteSet(Lease!Callers)
      <4>1. Lease!Callers = LeaseTargets \cup {Outsider}
        BY DEF Lease!Callers
      <4> QED BY <4>1, FS_AddElement DEF LeaseBounds
    <3>2. Delivered(Outcome(effect)) \in SUBSET Lease!Callers
      BY DEF Delivered
    <3> QED BY <3>1, <3>2, FS_Subset, FS_CardinalityType
  <2>5. Counted(effect) + Untold(effect) + Cardinality(OnTheWay(reports, effect))
          <= Cardinality(Delivered(Outcome(effect)))
    BY DEF LeaseInv, Accounted
  <2> QED BY <2>2, <2>3, <2>4, <2>5
<1>4. Lease!CountsAreReal
  <2>1. /\ Lease!Denied <= Cardinality(Delivered("denied"))
        /\ Lease!Allowed <= Cardinality(Delivered("allowed"))
    BY <1>3 DEF Counted, Outcome
  <2> QED BY <2>1, LeaseCardinality DEF Lease!CountsAreReal, Delivered
<1> QED BY <1>1, <1>2, <1>4


-----------------------------------------------------------------------------
(***************************************************************************)
(* The four laboratories.  Each has its variables to itself: the steps of  *)
(* another leave them alone.                                               *)
(***************************************************************************)

LaboratoriesInv ==
  /\ machine = "campaign" => CampaignInv
  /\ machine = "pilot" => PilotInv
  /\ machine = "egress" => EgressInv
  /\ machine = "lease" => LeaseInv

(* The assumption on the constants gives each laboratory its own.          *)
LEMMA BoundsGiven == CampaignBounds /\ PilotBounds /\ EgressBounds /\ LeaseBounds
BY LaboratoryConstants DEF CampaignBounds, PilotBounds, EgressBounds, LeaseBounds

(* Each laboratory begins in its invariant.                                *)
LEMMA LaboratoriesInit == Init => LaboratoriesInv
BY BoundsGiven, CampaignInit, PilotInit, EgressInit, LeaseInit DEF Init, LaboratoriesInv

(* A step of one laboratory keeps its invariant.                           *)
LEMMA LaboratoriesStep ==
  ASSUME LaboratoriesInv, Next
  PROVE  /\ LaboratoriesInv'
         /\ machine = "campaign" => Runner!LeavesNone
<1>1. CASE Leasing(Lease!Next)
  <2>1. machine = "lease" /\ machine' = machine /\ Lease!Next
    BY <1>1 DEF Leasing
  <2> QED BY <2>1, BoundsGiven, LeaseStep DEF LaboratoriesInv
<1>2. CASE Guarding(Egress!Next)
  <2>1. machine = "egress" /\ machine' = machine /\ Egress!Next
    BY <1>2 DEF Guarding
  <2> QED BY <2>1, BoundsGiven, EgressStep DEF LaboratoriesInv
<1>3. CASE Piloting(Pilot!Next)
  <2>1. machine = "pilot" /\ machine' = machine /\ Pilot!Next
    BY <1>3 DEF Piloting
  <2> QED BY <2>1, BoundsGiven, PilotStep DEF LaboratoriesInv
<1>4. CASE Running(Runner!Next)
  <2>1. machine = "campaign" /\ machine' = machine /\ Runner!Next
    BY <1>4 DEF Running
  <2> QED BY <2>1, BoundsGiven, CampaignStep DEF LaboratoriesInv
<1> QED BY <1>1, <1>2, <1>3, <1>4 DEF Next

(* A step that changes nothing keeps what is said of it.                   *)
LEMMA CampaignStutters == CampaignInv /\ UNCHANGED vars => CampaignInv'
<1> SUFFICES ASSUME CampaignInv, UNCHANGED vars PROVE CampaignInv'
  OBVIOUS
<1>0. UNCHANGED <<heartbeats, summary, live, pc, run, failures, interrupted, raising,
                  chain, samples, complete, elapsed, wake, alive, started, flawed, faults,
                  mode>>
  BY DEF vars, ofRunner
<1>1. Runner!TypeOK' /\ (pc \in CampaignStates)'
  BY <1>0 DEF CampaignInv, Runner!TypeOK, CampaignStates, Underway
<1>2. FilesSound'
  BY <1>0 DEF CampaignInv, FilesSound
<1>3. RowsSound'
  BY <1>0 DEF CampaignInv, RowsSound
<1>4. MemorySound' /\ Paced'
  BY <1>0 DEF CampaignInv, MemorySound, Paced, Underway
<1>5. FlawsKnown' /\ SummaryHonest'
  BY <1>0 DEF CampaignInv, FlawsKnown, SummaryHonest
<1>6. StatusSound'
  BY <1>0 DEF CampaignInv, StatusSound, Runner!StatusBehindHeartbeats
<1>7. WorkloadsListed'
  BY <1>0 DEF CampaignInv, WorkloadsListed, Runner!Own
<1> QED BY <1>1, <1>2, <1>3, <1>4, <1>5, <1>6, <1>7 DEF CampaignInv

(* The same for the pilot.                                                 *)
LEMMA PilotStutters == PilotInv /\ UNCHANGED vars => PilotInv'
<1> SUFFICES ASSUME PilotInv, UNCHANGED vars PROVE PilotInv'
  OBVIOUS
<1>0. UNCHANGED <<url, helper, target, channel, supervisor, decisions, kernel, call,
                  faults>>
  BY DEF vars, ofPilot
<1>1. Pilot!TypeOK' /\ PilotTypes'
  BY <1>0 DEF PilotInv, Pilot!TypeOK, PilotTypes
<1>2. ChannelSound'
  BY <1>0 DEF PilotInv, ChannelSound, Pilot!Gone, Reported
<1>3. GoSound' /\ HeldSound' /\ VerdictHolds'
  BY <1>0 DEF PilotInv, GoSound, HeldSound, VerdictHolds
<1>4. Pilot!OnlyTargetDenied'
  BY <1>0 DEF PilotInv, Pilot!OnlyTargetDenied, Pilot!Connected
<1>5. ResultSound'
  BY <1>0 DEF PilotInv, ResultSound
<1> QED BY <1>1, <1>2, <1>3, <1>4, <1>5 DEF PilotInv

(* The same for the egress broker.                                         *)
LEMMA EgressStutters == EgressInv /\ UNCHANGED vars => EgressInv'
<1> SUFFICES ASSUME EgressInv, UNCHANGED vars PROVE EgressInv'
  OBVIOUS
<1>0. UNCHANGED <<scenario, destination, pending, job, worker, listener, phase, call,
                  faults>>
  BY DEF vars, ofEgress
<1>1. Egress!TypeOK' /\ EgressTypes'
  BY <1>0 DEF EgressInv, Egress!TypeOK, EgressTypes
<1>2. FuturesSound'
  BY <1>0 DEF EgressInv, FuturesSound
<1>3. WorkerSound' /\ StartsCounted'
  BY <1>0 DEF EgressInv, WorkerSound, Egress!ClosedForGood, StartsCounted
<1>4. JobsFailClosed' /\ Egress!TargetFailsClosed'
  BY <1>0 DEF EgressInv, JobsFailClosed, Egress!TargetFailsClosed
<1> QED BY <1>1, <1>2, <1>3, <1>4 DEF EgressInv

(* The same for the leases.                                                *)
LEMMA LeaseStutters == LeaseInv /\ UNCHANGED vars => LeaseInv'
<1> SUFFICES ASSUME LeaseInv, UNCHANGED vars PROVE LeaseInv'
  OBVIOUS
<1>0. UNCHANGED <<broker, reports, guardian, call, faults, mode>>
  BY DEF vars, ofLease
<1>1. Lease!TypeOK' /\ LeaseTypes'
  <2>1. Lease!TypeOK'
    BY <1>0 DEF LeaseInv, Lease!TypeOK
  <2>2. LeaseTypes'
    <3>1. broker \in Brokers /\ guardian \in Guardians /\ reports \in Seq(Reports)
      BY DEF LeaseInv, LeaseTypes, Brokers, Guardians
    <3>2. broker' \in Brokers /\ guardian' \in Guardians /\ reports' \in Seq(Reports)
      BY <1>0, <3>1
    <3> QED BY <3>2 DEF LeaseTypes, Brokers, Guardians
  <2> QED BY <2>1, <2>2
<1>2. BrokerSound'
  BY <1>0 DEF LeaseInv, BrokerSound
<1>3. OneReceived'
  BY <1>0 DEF LeaseInv, OneReceived, Lease!Looping
<1>4. CrashSound'
  BY <1>0 DEF LeaseInv, CrashSound
<1>5. Accounted'
  BY <1>0 DEF LeaseInv, Accounted, Counted, Lease!Denied, Lease!Allowed, Untold, Delivered
<1>6. Lease!TargetNeverAllowed'
  BY <1>0 DEF LeaseInv, Lease!TargetNeverAllowed
<1> QED BY <1>1, <1>2, <1>3, <1>4, <1>5, <1>6 DEF LeaseInv

(* A step of the whole, or none, keeps the four invariants.                *)
LEMMA LaboratoriesInductive ==
  LaboratoriesInv /\ [Next]_vars =>
    LaboratoriesInv' /\ [machine = "campaign" => Runner!LeavesNone]_vars
<1>1. LaboratoriesInv /\ UNCHANGED vars => LaboratoriesInv'
  <2>1. UNCHANGED vars => machine' = machine
    BY DEF vars
  <2> QED BY <2>1, CampaignStutters, PilotStutters, EgressStutters, LeaseStutters
          DEF LaboratoriesInv
<1> QED BY <1>1, LaboratoriesStep

(* The laboratories keep their invariants.                                 *)
THEOREM LaboratoriesHold == Spec => []LaboratoriesInv
<1>1. LaboratoriesInv /\ [Next]_vars => LaboratoriesInv'
  BY LaboratoriesInductive
<1> QED BY <1>1, LaboratoriesInit, PTL DEF Spec

(* No connect of the protected process is continued, whichever broker dies *)
(* wherever; a replacement finds nothing the dead one had received; and no *)
(* answer is counted that the kernel has not delivered                     *)
(* (run_gate4_listener_guardian.py, _inflight_crash, _prelease_teardown).  *)
THEOREM LeaseIsSound == Spec => []LeaseSound
<1>1. LaboratoriesInv => LeaseSound
  BY BoundsGiven, LeaseHolds DEF LaboratoriesInv, LeaseSound
<1> QED BY <1>1, LaboratoriesHold, PTL

(* An outside connect of the target is never continued, with a full queue, *)
(* a late answer or a dead worker; a received call keeps its future until  *)
(* it is answered; no subprocess runs once the worker is closed            *)
(* (benchmark_gate4_egress_broker.py, recovery_supervisor.py).             *)
THEOREM EgressIsSound == Spec => []EgressSound
<1>1. LaboratoriesInv => EgressSound
  BY EgressHolds DEF LaboratoriesInv, EgressSound
<1> QED BY <1>1, LaboratoriesHold, PTL

(* The pilot's target runs only under guard, its outside connects are      *)
(* denied, and what main() accepts for the report is what the kernel did   *)
(* (run_egress_seccomp_pilot.py).                                          *)
THEOREM PilotIsSound == Spec => []PilotSound
<1>1. LaboratoriesInv => PilotSound
  BY PilotHolds DEF LaboratoriesInv, PilotSound
<1> QED BY <1>1, LaboratoriesHold, PTL

(* A supported verdict stands for one formal run without a flaw, the       *)
(* heartbeats on disk are one chain, and the status never runs ahead of    *)
(* them (run_ and verify_gate4_automated_campaign.py,                      *)
(* evaluate_gate4_formal_campaign.py).                                     *)
THEOREM CampaignIsSound == Spec => []CampaignSound
<1>1. LaboratoriesInv => CampaignSound
  BY CampaignHolds DEF LaboratoriesInv, CampaignSound
<1> QED BY <1>1, LaboratoriesHold, PTL

(* However a run of the campaign ends, it leaves none of its workloads     *)
(* alive (main's finally block): the safety part of LaboratoriesEnd.       *)
THEOREM CampaignLeavesNone == Spec => [][machine = "campaign" => Runner!LeavesNone]_vars
<1>1. LaboratoriesInv /\ [Next]_vars => [machine = "campaign" => Runner!LeavesNone]_vars
  BY LaboratoriesInductive
<1> QED BY <1>1, LaboratoriesHold, PTL DEF Spec
=============================================================================
