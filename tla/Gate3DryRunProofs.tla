-------------------------- MODULE Gate3DryRunProofs --------------------------
(***************************************************************************)
(* Proofs about Gate3DryRun, for every value of its constants: the group   *)
(* commit, what is cached, what a printed DENY leaves behind and what a    *)
(* lookup may answer, from the inductive invariant Gate3Inv.               *)
(***************************************************************************)
EXTENDS Gate3DryRun, SequenceTheorems, TLAPS

(* A cache or a snapshot still holds what a decision needs until it        *)
(* expires.                                                                *)
Holds(entries, d) ==
  \/ now >= d.at + TTL
  \/ d.key \in DOMAIN entries /\ entries[d.key].expires >= d.at + TTL

HeldIn(s, d) ==
  \/ now >= d.at + TTL
  \/ /\ s # NoSnapshot
     /\ d.key \in DOMAIN s.entries /\ s.entries[d.key].expires >= d.at + TTL

Justifies(req, d) ==
  /\ req.event_valid /\ req.state_valid /\ req.same_namespace
  /\ req.rev = d.rev /\ req.sequence = d.sr

Deciding == pc \in {"audit", "save", "save_sync", "respond"}

(* The decision in hand: it is at least as young as all that were printed, *)
(* and what it has passed of memory, snapshot and directory holds it.      *)
InHand ==
  /\ Deciding => /\ dec \in Decisions /\ dec.at <= now
                 /\ \A d \in answered : d.at <= dec.at
  /\ pc = "audit" => /\ asked \in Inputs /\ out = dec.effect
                     /\ dec.effect = "DENY" => Justifies(asked, dec)
  /\ pc \in {"save", "save_sync"} => out = "DENY"
  /\ Deciding /\ pc # "audit" /\ out = "DENY" => Holds(cache, dec)
  /\ pc \in {"save_sync", "respond"} /\ out = "DENY" => HeldIn(snapshot, dec)
  /\ pc = "respond" /\ out = "DENY" => HeldIn(synced_snapshot, dec)

(* What was audited durably was justified, and not in the future.          *)
SyncedSound ==
  \A s \in synced : s.decision.at <= now /\ Justifies(s.request, s.decision)

AnsweredSound ==
  \A d \in answered :
    /\ d.at <= now
    /\ HeldIn(snapshot, d) /\ HeldIn(synced_snapshot, d)
    /\ pc # "down" => Holds(cache, d)

(* Whoever was answered from an unsynced record is counted as pending.     *)
Grouped == at_risk <= pending /\ at_risk < GroupSize

(* A process with nothing pending has synced every line it wrote.          *)
LogSynced ==
  pc # "down" /\ pending = 0 => \A i \in base + 1 .. Len(audit.lines) : i <= durable

Gate3Inv ==
  /\ TypeOK /\ InHand /\ SyncedSound /\ AnsweredSound /\ CachedDenyAudited
  /\ Grouped /\ LogSynced
-----------------------------------------------------------------------------
(* Operators.                                                              *)

(* Only a consistent request is denied.                                    *)
LEMMA DenialConsistent ==
  ASSUME NEW req, NEW rev, Effect(req, rev) = "DENY"
  PROVE  Consistent(req, rev)
  BY DEF Effect

(* evaluate() returns a decision about the request, made now.              *)
LEMMA DecisionIsOne ==
  ASSUME NEW req \in Inputs, NEW rev \in Revisions, now \in Nat
  PROVE  /\ Decision(req, rev) \in Decisions /\ Decision(req, rev).at = now
         /\ Decision(req, rev).effect = "DENY" => Justifies(req, Decision(req, rev))
  <1>1. req \in Requests
    BY Gate3Constants
  <1>2. Effect(req, rev) \in Effects
    BY DEF Effect, Effects
  <1>3. Decision(req, rev) \in Decisions /\ Decision(req, rev).at = now
    BY <1>1, <1>2 DEF Decision, Decisions, Requests
  <1>4. ASSUME Decision(req, rev).effect = "DENY"
        PROVE  Justifies(req, Decision(req, rev))
    <2>1. Effect(req, rev) = "DENY"
      BY <1>4 DEF Decision
    <2>2. Consistent(req, rev)
      BY <2>1, DenialConsistent
    <2> QED BY <2>2 DEF Consistent, Justifies, Decision
  <1> QED BY <1>3, <1>4

(* put() replaces one entry.                                               *)
LEMMA PutIsCache ==
  ASSUME NEW c, IsCache(c), NEW k \in Keys, NEW e \in Entries
  PROVE  /\ IsCache(Put(c, k, e))
         /\ DOMAIN Put(c, k, e) = DOMAIN c \cup {k}
         /\ Put(c, k, e)[k] = e
         /\ \A x \in DOMAIN c \ {k} : Put(c, k, e)[x] = c[x]
  <1>1. PICK keys \in SUBSET Keys : c \in [keys -> Entries]
    BY DEF IsCache
  <1>2. Put(c, k, e) \in [keys \cup {k} -> Entries]
    BY <1>1 DEF Put
  <1>3. keys \cup {k} \in SUBSET Keys
    OBVIOUS
  <1> QED BY <1>1, <1>2, <1>3 DEF IsCache, Put

(* Dropping entries leaves a cache with the others as they were.           *)
LEMMA PartIsCache ==
  ASSUME NEW c, IsCache(c), NEW ks, ks \subseteq DOMAIN c
  PROVE  IsCache([k \in ks |-> c[k]])
  <1>1. PICK keys \in SUBSET Keys : c \in [keys -> Entries]
    BY DEF IsCache
  <1>2. [k \in ks |-> c[k]] \in [ks -> Entries] /\ ks \in SUBSET Keys
    BY <1>1
  <1> QED BY <1>2 DEF IsCache

(* The entries of a cache, and those of a snapshot.                        *)
LEMMA EntriesOf ==
  ASSUME NEW c, IsCache(c)
  PROVE  DOMAIN c \subseteq Keys /\ \A k \in DOMAIN c : c[k] \in Entries
  BY DEF IsCache

LEMMA SnapshotEntries ==
  ASSUME NEW s, IsSnapshot(s), s # NoSnapshot
  PROVE  IsCache(s.entries) /\ s.rev \in Revisions /\ s.secret \in Secrets
  BY DEF IsSnapshot, IsCache, Snapshots

(* A snapshot of a cache is one, and it is not the absent one.             *)
LEMMA CacheSnapshot ==
  ASSUME NEW c, IsCache(c), NEW p \in Profiles,
         NEW s, s = [rev |-> p.rev, secret |-> p.secret, entries |-> c]
  PROVE  IsSnapshot(s) /\ s # NoSnapshot /\ s.entries = c
  <1>1. PICK keys \in SUBSET Keys : c \in [keys -> Entries]
    BY DEF IsCache
  <1>2. s \in Snapshots(keys)
    BY <1>1 DEF Snapshots, Profiles
  <1> QED BY <1>2, Gate3Markers DEF IsSnapshot

(* compile() and the decision an entry stands for.                         *)
LEMMA CompiledEntry ==
  ASSUME NEW d \in Decisions
  PROVE  /\ Compiled(d) \in Entries /\ Compiled(d).expires = d.at + TTL
         /\ d.effect = "DENY" => Source(d.key, Compiled(d)) = d
  <1>1. d = [key |-> d.key, rev |-> d.rev, sr |-> d.sr, at |-> d.at, effect |-> d.effect]
    BY DEF Decisions
  <1>2. d.at + TTL - TTL = d.at /\ d.at + TTL \in Nat /\ d.sr \in Nat /\ d.rev \in Revisions
    BY Gate3Constants DEF Decisions
  <1>3. Compiled(d) \in Entries /\ Compiled(d).expires = d.at + TTL
    BY <1>2 DEF Compiled, Entries
  <1>4. Source(d.key, Compiled(d)) =
          [key |-> d.key, rev |-> d.rev, sr |-> d.sr, at |-> d.at, effect |-> "DENY"]
    <2>1. Compiled(d).rev = d.rev /\ Compiled(d).sr = d.sr
      BY DEF Compiled
    <2>2. Compiled(d).expires - TTL = d.at
      BY <1>3, Gate3Constants DEF Decisions
    <2> QED BY <2>1, <2>2, Zenon DEF Source
  <1> QED BY <1>1, <1>3, <1>4

(* put() of a compiled decision.                                           *)
LEMMA PutCompiled ==
  ASSUME NEW c, IsCache(c), NEW d \in Decisions
  PROVE  /\ IsCache(Put(c, d.key, Compiled(d)))
         /\ DOMAIN Put(c, d.key, Compiled(d)) = DOMAIN c \cup {d.key}
         /\ Put(c, d.key, Compiled(d))[d.key] = Compiled(d)
         /\ \A x \in DOMAIN c \ {d.key} : Put(c, d.key, Compiled(d))[x] = c[x]
  <1>1. d.key \in Keys
    BY DEF Decisions
  <1>2. Compiled(d) \in Entries
    BY CompiledEntry
  <1> QED BY <1>1, <1>2, PutIsCache

(* Every outcome of an append is a log; a failed one completes no line     *)
(* unless it writes all of it.                                             *)
LEMMA WholeLog ==
  ASSUME NEW f \in Logs, NEW d \in Decisions
  PROVE  AppendWhole(f, d) \in Logs /\ Len(AppendWhole(f, d).lines) = Len(f.lines) + 1
  BY AppendProperties DEF Logs, AppendWhole

LEMMA FailedLog ==
  ASSUME NEW f \in Logs, NEW d \in Decisions,
         NEW g \in AppendFailures(f, d) \ {AppendWhole(f, d)}
  PROVE  g \in Logs /\ g.lines = f.lines
  BY DEF Logs, AppendFailures, AppendTorn, AppendUnterminated
-----------------------------------------------------------------------------
(* Types.                                                                  *)

LEMMA TypeInit == Init => TypeOK
  <1> SUFFICES ASSUME Init PROVE TypeOK
    OBVIOUS
  <1>1. EmptyCache \in [{} -> Entries] /\ {} \in SUBSET Keys
    BY DEF EmptyCache
  <1>2. IsCache(cache) /\ IsSnapshot(snapshot) /\ IsSnapshot(synced_snapshot)
    BY <1>1 DEF Init, IsCache, IsSnapshot
  <1>3. audit \in Logs /\ durable \in 0 .. Len(audit.lines)
    BY DEF Init, EmptyFile, Logs
  <1> QED BY <1>2, <1>3 DEF Init, TypeOK, Effects

LEMMA TypeStart == ASSUME TypeOK, NEW p \in Profiles, Start(p) PROVE TypeOK'
  <1>1. IsCache(cache')
    <2>1. CASE snapshot = NoSnapshot
      <3>1. EmptyCache \in [{} -> Entries] /\ {} \in SUBSET Keys
        BY DEF EmptyCache
      <3>2. IsCache(EmptyCache)
        BY <3>1 DEF IsCache
      <3> QED BY <2>1, <3>2 DEF Start
    <2>2. CASE snapshot # NoSnapshot
      <3>1. IsCache(snapshot.entries)
        BY <2>2, SnapshotEntries DEF TypeOK
      <3>2. \A ks : ks \subseteq DOMAIN snapshot.entries =>
                     IsCache([k \in ks |-> snapshot.entries[k]])
        BY <3>1, PartIsCache
      <3>3. IsCache(Unexpired(snapshot.entries))
        BY <3>2 DEF Unexpired
      <3> QED BY <2>2, <3>3 DEF Start
    <2> QED BY <2>1, <2>2
  <1>2. Len(audit.lines) \in Nat
    BY DEF TypeOK, Logs
  <1> QED BY <1>1, <1>2 DEF TypeOK, Start, snapshots

LEMMA TypeRequest == ASSUME TypeOK, NEW req \in Inputs, Request(req) PROVE TypeOK'
  <1>1. profile.rev \in Revisions
    BY DEF TypeOK, Profiles
  <1>2. dec' \in Decisions
    BY <1>1, DecisionIsOne DEF TypeOK, Request
  <1>3. dec'.effect \in Effects
    BY <1>2 DEF Decisions
  <1> QED BY <1>2, <1>3 DEF TypeOK, Request, snapshots, log, history

LEMMA TypeAudit == ASSUME TypeOK, InHand, Audit PROVE TypeOK'
  <1>1. dec \in Decisions /\ asked \in Inputs /\ audit \in Logs
    BY DEF InHand, Deciding, Audit, TypeOK
  <1>2. audit' \in Logs /\ Len(audit'.lines) = Len(audit.lines) + 1 /\ Len(audit.lines) \in Nat
    BY <1>1, WholeLog DEF Audit, Logs
  <1>3. durable' \in 0 .. Len(audit'.lines) /\ pending' \in Nat /\ at_risk' \in Nat
    BY <1>2 DEF Audit, TypeOK
  <1>4. IsCache(cache')
    <2>1. IsCache(cache)
      BY DEF TypeOK
    <2>2. IsCache(Put(cache, dec.key, Compiled(dec)))
      BY <1>1, <2>1, PutCompiled
    <2> QED BY <2>1, <2>2 DEF Audit
  <1>5. synced' \in SUBSET [decision : Decisions, request : Inputs]
    BY <1>1 DEF Audit, TypeOK
  <1> QED BY <1>2, <1>3, <1>4, <1>5 DEF TypeOK, Audit, snapshots

LEMMA TypeAuditFails ==
  ASSUME TypeOK, InHand, AuditWriteFails \/ AuditSyncFails PROVE TypeOK'
  <1>1. dec \in Decisions /\ audit \in Logs
    BY DEF InHand, Deciding, AuditWriteFails, AuditSyncFails, TypeOK
  <1>2. CASE AuditWriteFails
    <2>1. audit' \in Logs /\ audit'.lines = audit.lines
      BY <1>1, <1>2, FailedLog DEF AuditWriteFails
    <2> QED BY <1>2, <2>1 DEF TypeOK, AuditWriteFails, snapshots, history, Effects, Fault
  <1>3. CASE AuditSyncFails
    <2>1. audit' \in Logs /\ Len(audit'.lines) = Len(audit.lines) + 1 /\ Len(audit.lines) \in Nat
      BY <1>1, <1>3, WholeLog DEF AuditSyncFails, Logs
    <2>2. durable' \in 0 .. Len(audit'.lines)
      BY <1>3, <2>1 DEF AuditSyncFails, TypeOK
    <2> QED BY <1>3, <2>1, <2>2 DEF TypeOK, AuditSyncFails, snapshots, history, Effects, Fault
  <1> QED BY <1>2, <1>3

LEMMA TypeSave == ASSUME TypeOK, SaveRename \/ SaveSync PROVE TypeOK'
  <1>1. CASE SaveRename
    <2>1. IsSnapshot(snapshot')
      BY <1>1, CacheSnapshot DEF SaveRename, TypeOK
    <2> QED BY <1>1, <2>1 DEF TypeOK, SaveRename, log, history
  <1>2. CASE SaveSync
    BY <1>2 DEF TypeOK, SaveSync, log, history
  <1> QED BY <1>1, <1>2

LEMMA TypeRespond == ASSUME TypeOK, InHand, Respond PROVE TypeOK'
  <1>1. dec \in Decisions
    BY DEF InHand, Deciding, Respond
  <1> QED BY <1>1 DEF TypeOK, Respond, snapshots, log, Effects

LEMMA TypeDown == ASSUME TypeOK, Down PROVE
  /\ pc' \in {"down", "ready", "audit", "save", "save_sync", "respond"}
  /\ IsCache(cache') /\ pending' \in Nat /\ at_risk' \in Nat
  /\ dec' \in Decisions \cup {NoDecision} /\ out' \in Effects /\ asked' \in Inputs \cup {NoRequest}
  <1>1. EmptyCache \in [{} -> Entries] /\ {} \in SUBSET Keys
    BY DEF EmptyCache
  <1> QED BY <1>1 DEF Down, IsCache, Effects

LEMMA TypeGone == ASSUME TypeOK, Shutdown \/ SaveFails \/ Crash PROVE TypeOK'
  <1>1. Down
    BY DEF Shutdown, SaveFails, Crash
  <1>2. Len(audit.lines) \in Nat
    BY DEF TypeOK, Logs
  <1>3. durable' \in 0 .. Len(audit.lines)
    BY <1>2 DEF TypeOK, Shutdown, SaveFails, Crash
  <1> QED BY <1>1, <1>3, TypeDown DEF TypeOK, Shutdown, SaveFails, Crash, snapshots, Fault

(* What a power loss leaves of a log is a log.                             *)
LEMMA SurvivorsAreLogs ==
  ASSUME audit \in Logs, durable \in 0 .. Len(audit.lines)
  PROVE  Survivors \subseteq Logs
  <1> DEFINE all == LinesOf(audit)
             cut(n) == IF n = Len(all) THEN {NoTail}
                       ELSE {NoTail, Torn, IF all[n + 1] = Garbage THEN Torn ELSE all[n + 1]}
  <1>1. audit.lines \in Seq(Decisions \cup {Garbage}) /\ audit.tail \in Decisions \cup {NoTail, Torn}
    BY DEF Logs
  <1>2. all \in Seq(Decisions \cup {Garbage})
    BY <1>1, AppendProperties DEF LinesOf
  <1>3. Len(audit.lines) <= Len(all)
    BY <1>1, AppendProperties DEF LinesOf
  <1> HIDE DEF all
  <1>4. ASSUME NEW n \in durable .. Len(audit.lines), NEW t \in cut(n)
        PROVE  [lines |-> SubSeq(audit.lines, 1, n), tail |-> t] \in Logs
    <2>1. n \in Nat /\ n <= Len(audit.lines) /\ n <= Len(all) /\ Len(all) \in Nat
      BY <1>1, <1>2, <1>3
    <2>2. SubSeq(audit.lines, 1, n) \in Seq(Decisions \cup {Garbage})
      BY <1>1, <2>1, SubSeqProperties
    <2>3. n # Len(all) => all[n + 1] \in Decisions \cup {Garbage}
      BY <1>2, <2>1
    <2>4. t \in Decisions \cup {NoTail, Torn}
      BY <1>4, <2>3
    <2> QED BY <2>2, <2>4 DEF Logs
  <1>5. Survivors = {audit} \cup UNION {{[lines |-> SubSeq(audit.lines, 1, n), tail |-> t] : t \in cut(n)} :
                                       n \in durable .. Len(audit.lines)}
    BY DEF Survivors, all
  <1> HIDE DEF cut
  <1> QED BY <1>4, <1>5

LEMMA TypePowerLoss == ASSUME TypeOK, PowerLoss PROVE TypeOK'
  <1>1. Down
    BY DEF PowerLoss
  <1>2. audit' \in Logs
    BY SurvivorsAreLogs DEF TypeOK, PowerLoss
  <1>3. Len(audit'.lines) \in Nat
    BY <1>2 DEF Logs
  <1>4. durable' \in 0 .. Len(audit'.lines)
    BY <1>3 DEF PowerLoss
  <1>5. IsSnapshot(snapshot') /\ IsSnapshot(synced_snapshot')
    BY DEF PowerLoss, TypeOK
  <1> QED BY <1>1, <1>2, <1>4, <1>5, TypeDown DEF TypeOK, PowerLoss, Fault

LEMMA TypeLookup == ASSUME TypeOK, NEW k \in Keys, LookupRemoves(k) PROVE TypeOK'
  <1>1. IsCache(cache')
    BY PartIsCache DEF TypeOK, LookupRemoves
  <1> QED BY <1>1 DEF TypeOK, LookupRemoves, snapshots, log, history

LEMMA TypeStep == TypeOK /\ InHand /\ [Next]_vars => TypeOK'
  <1> SUFFICES ASSUME TypeOK, InHand, [Next]_vars PROVE TypeOK'
    OBVIOUS
  <1>1. CASE Tick
    BY <1>1 DEF Tick, TypeOK, snapshots, log, history
  <1>2. CASE Audit
    BY <1>2, TypeAudit
  <1>3. CASE AuditWriteFails \/ AuditSyncFails
    BY <1>3, TypeAuditFails
  <1>4. CASE SaveRename \/ SaveSync
    BY <1>4, TypeSave
  <1>5. CASE Respond
    BY <1>5, TypeRespond
  <1>6. CASE Shutdown \/ SaveFails \/ Crash
    BY <1>6, TypeGone
  <1>7. CASE PowerLoss
    BY <1>7, TypePowerLoss
  <1>8. ASSUME NEW p \in Profiles, Start(p) PROVE TypeOK'
    BY <1>8, TypeStart
  <1>9. ASSUME NEW req \in Inputs, Request(req) PROVE TypeOK'
    BY <1>9, TypeRequest
  <1>10. ASSUME NEW k \in Keys, LookupRemoves(k) PROVE TypeOK'
    BY <1>10, TypeLookup
  <1>11. CASE UNCHANGED vars
    BY <1>11 DEF vars, TypeOK
  <1> QED BY <1>1, <1>2, <1>3, <1>4, <1>5, <1>6, <1>7, <1>8, <1>9, <1>10, <1>11
          DEF Next, StartRefused
-----------------------------------------------------------------------------
(* The audit log.                                                          *)

(* The group commit counts every decision that was answered from a record  *)
(* no sync covers: MustSync comes before the group is full.                *)
LEMMA GroupStep == TypeOK /\ Grouped /\ [Next]_vars => Grouped'
  <1> SUFFICES ASSUME TypeOK, Grouped, [Next]_vars PROVE Grouped'
    OBVIOUS
  <1> USE Gate3Constants
  <1>0. at_risk \in Nat /\ pending \in Nat
    BY DEF TypeOK
  <1>1. CASE Audit
    <2>1. CASE MustSync
      BY <1>1, <2>1 DEF Audit, Grouped
    <2>2. CASE ~MustSync
      BY <1>0, <1>1, <2>2 DEF Audit, Grouped, MustSync
    <2> QED BY <2>1, <2>2
  <1>2. CASE AuditWriteFails \/ AuditSyncFails
    BY <1>0, <1>2 DEF AuditWriteFails, AuditSyncFails, Grouped, history
  <1>3. CASE Tick \/ SaveRename \/ SaveSync \/ Respond
    BY <1>3 DEF Tick, SaveRename, SaveSync, Respond, Grouped, history, log
  <1>4. CASE Shutdown \/ SaveFails \/ Crash \/ PowerLoss
    BY <1>4 DEF Shutdown, SaveFails, Crash, PowerLoss, Down, Grouped
  <1>5. ASSUME NEW p \in Profiles, Start(p) PROVE Grouped'
    BY <1>5 DEF Start, Grouped
  <1>6. ASSUME NEW req \in Inputs, Request(req) PROVE Grouped'
    BY <1>6 DEF Request, Grouped, log, history
  <1>7. ASSUME NEW k \in Keys, LookupRemoves(k) PROVE Grouped'
    BY <1>7 DEF LookupRemoves, Grouped, log, history
  <1>8. CASE UNCHANGED vars
    BY <1>8 DEF vars, Grouped
  <1> QED BY <1>1, <1>2, <1>3, <1>4, <1>5, <1>6, <1>7, <1>8 DEF Next, StartRefused

(* A record is pending until a sync covers it, and a failed write          *)
(* completes no line.                                                      *)
LEMMA LogStep == TypeOK /\ InHand /\ LogSynced /\ [Next]_vars => LogSynced'
  <1> SUFFICES ASSUME TypeOK, InHand, LogSynced, [Next]_vars PROVE LogSynced'
    OBVIOUS
  <1>0. pending \in Nat /\ audit \in Logs /\ Len(audit.lines) \in Nat
    BY DEF TypeOK, Logs
  <1>1. CASE Audit
    <2>1. dec \in Decisions
      BY <1>1 DEF InHand, Deciding, Audit
    <2>2. Len(audit'.lines) \in Nat
      BY <1>0, <1>1, <2>1, WholeLog DEF Audit
    <2> QED BY <1>0, <1>1, <2>2 DEF Audit, LogSynced, TypeOK
  <1>2. CASE AuditWriteFails
    <2>1. dec \in Decisions
      BY <1>2 DEF InHand, Deciding, AuditWriteFails
    <2>2. audit'.lines = audit.lines
      BY <1>0, <1>2, <2>1, FailedLog DEF AuditWriteFails
    <2> QED BY <1>2, <2>2 DEF AuditWriteFails, LogSynced, history
  <1>3. CASE AuditSyncFails
    BY <1>0, <1>3 DEF AuditSyncFails, LogSynced
  <1>4. CASE Tick \/ SaveRename \/ SaveSync \/ Respond
    BY <1>4 DEF Tick, SaveRename, SaveSync, Respond, LogSynced, history, log
  <1>5. CASE Shutdown \/ SaveFails \/ Crash \/ PowerLoss
    BY <1>5 DEF Shutdown, SaveFails, Crash, PowerLoss, Down, LogSynced
  <1>6. ASSUME NEW p \in Profiles, Start(p) PROVE LogSynced'
    BY <1>0, <1>6 DEF Start, LogSynced
  <1>7. ASSUME NEW req \in Inputs, Request(req) PROVE LogSynced'
    BY <1>7 DEF Request, LogSynced, log, history
  <1>8. ASSUME NEW k \in Keys, LookupRemoves(k) PROVE LogSynced'
    BY <1>8 DEF LookupRemoves, LogSynced, log, history
  <1>9. CASE UNCHANGED vars
    BY <1>9 DEF vars, LogSynced
  <1> QED BY <1>1, <1>2, <1>3, <1>4, <1>5, <1>6, <1>7, <1>8, <1>9 DEF Next, StartRefused
-----------------------------------------------------------------------------
(* What is cached was audited.                                             *)

(* Only Audit adds to synced, and nothing takes away from it.              *)
LEMMA SyncedStep ==
  TypeOK /\ InHand /\ SyncedSound /\ [Next]_vars => SyncedSound' /\ synced \subseteq synced'
  <1> SUFFICES ASSUME TypeOK, InHand, SyncedSound, [Next]_vars
               PROVE  SyncedSound' /\ synced \subseteq synced'
    OBVIOUS
  <1>0. now \in Nat /\ synced \in SUBSET [decision : Decisions, request : Inputs]
    BY DEF TypeOK
  <1>1. CASE Audit
    <2>1. dec.at <= now /\ (dec.effect = "DENY" => Justifies(asked, dec))
      BY <1>1 DEF InHand, Deciding, Audit
    <2> QED BY <1>1, <2>1 DEF Audit, SyncedSound
  <1>2. CASE Tick
    <2>1. now' = now + 1 /\ synced' = synced
      BY <1>2 DEF Tick, history
    <2>2. \A s \in synced : s.decision.at \in Nat
      BY <1>0 DEF Decisions
    <2> QED BY <1>0, <2>1, <2>2 DEF SyncedSound
  <1>3. CASE ~Audit /\ ~Tick
    <2>1. synced' = synced /\ now' = now
      BY <1>3 DEF Next, vars, AuditWriteFails, AuditSyncFails, SaveRename, SaveSync, SaveFails,
                  Respond, Shutdown, Crash, PowerLoss, Start, StartRefused, Request,
                  LookupRemoves, history
    <2> QED BY <2>1 DEF SyncedSound
  <1> QED BY <1>1, <1>2, <1>3

(* AuditedBy of a given set of audited decisions.                          *)
AuditedIn(entries, decisions) ==
  \A k \in DOMAIN entries : \E s \in decisions : s.decision = Source(k, entries[k])

LEMMA AuditedByIn == ASSUME NEW c PROVE AuditedBy(c) <=> AuditedIn(c, synced)
  BY DEF AuditedBy, AuditedIn

LEMMA CachedStep ==
  TypeOK /\ InHand /\ SyncedSound /\ CachedDenyAudited /\ [Next]_vars => CachedDenyAudited'
  <1> SUFFICES ASSUME TypeOK, InHand, SyncedSound, CachedDenyAudited, [Next]_vars
               PROVE  CachedDenyAudited'
    OBVIOUS
  <1> DEFINE InSnapshot(s, decisions) == s # NoSnapshot => AuditedIn(s.entries, decisions)
  <1>0. synced \subseteq synced'
    BY SyncedStep
  <1>1. /\ AuditedIn(cache, synced')
        /\ InSnapshot(snapshot, synced') /\ InSnapshot(synced_snapshot, synced')
    BY <1>0 DEF CachedDenyAudited, AuditedBy, AuditedIn
  <1> SUFFICES /\ AuditedIn(cache', synced')
               /\ InSnapshot(snapshot', synced') /\ InSnapshot(synced_snapshot', synced')
    BY DEF CachedDenyAudited, AuditedBy, AuditedIn
  <1>2. \A ks : ks \subseteq DOMAIN cache => AuditedIn([k \in ks |-> cache[k]], synced')
    BY <1>1 DEF AuditedIn
  <1>3. AuditedIn(EmptyCache, synced')
    BY DEF AuditedIn, EmptyCache
  <1>4. CASE Audit
    <2>1. snapshot' = snapshot /\ synced_snapshot' = synced_snapshot
      BY <1>4 DEF Audit, snapshots
    <2>2. CASE dec.effect = "DENY"
      <3>1. dec \in Decisions /\ IsCache(cache)
        BY <1>4 DEF InHand, Deciding, Audit, TypeOK
      <3>2. dec.key \in Keys /\ Compiled(dec) \in Entries /\ Source(dec.key, Compiled(dec)) = dec
        BY <2>2, <3>1, CompiledEntry DEF Decisions
      <3>3. cache' = Put(cache, dec.key, Compiled(dec))
        BY <1>4, <2>2 DEF Audit
      <3>4. /\ DOMAIN cache' = DOMAIN cache \cup {dec.key} /\ cache'[dec.key] = Compiled(dec)
            /\ \A x \in DOMAIN cache \ {dec.key} : cache'[x] = cache[x]
        <4>1. /\ DOMAIN Put(cache, dec.key, Compiled(dec)) = DOMAIN cache \cup {dec.key}
              /\ Put(cache, dec.key, Compiled(dec))[dec.key] = Compiled(dec)
              /\ \A x \in DOMAIN cache \ {dec.key} :
                   Put(cache, dec.key, Compiled(dec))[x] = cache[x]
          BY <3>1, PutCompiled
        <4> QED BY <3>3, <4>1
      <3>5. [decision |-> dec, request |-> asked] \in synced'
        BY <1>4, <2>2 DEF Audit
      <3>6. \E s \in synced' : s.decision = dec
        BY <3>5
      <3>7. ASSUME NEW k \in DOMAIN cache'
            PROVE  \E s \in synced' : s.decision = Source(k, cache'[k])
        <4>1. CASE k = dec.key
          BY <3>2, <3>4, <3>6, <4>1
        <4>2. CASE k # dec.key
          BY <1>1, <3>4, <4>2 DEF AuditedIn
        <4> QED BY <4>1, <4>2
      <3> QED BY <1>1, <2>1, <3>7 DEF AuditedIn
    <2>3. CASE dec.effect # "DENY"
      BY <1>1, <1>4, <2>1, <2>3 DEF Audit
    <2> QED BY <2>2, <2>3
  <1>5. ASSUME NEW p \in Profiles, Start(p)
        PROVE  AuditedIn(cache', synced') /\ UNCHANGED snapshots
    <2>1. UNCHANGED snapshots
      BY <1>5 DEF Start
    <2>2. snapshot # NoSnapshot => AuditedIn(Unexpired(snapshot.entries), synced')
      BY <1>1 DEF AuditedIn, Unexpired
    <2> QED BY <1>3, <1>5, <2>1, <2>2 DEF Start
  <1>6. CASE SaveRename
    <2>1. IsSnapshot(snapshot') /\ snapshot' # NoSnapshot /\ snapshot'.entries = cache
      BY <1>6, CacheSnapshot DEF SaveRename, TypeOK
    <2> QED BY <1>1, <1>6, <2>1 DEF SaveRename
  <1>7. CASE SaveSync
    BY <1>1, <1>7 DEF SaveSync
  <1>8. CASE Shutdown \/ SaveFails \/ Crash \/ PowerLoss
    <2>1. cache' = EmptyCache
      BY <1>8 DEF Shutdown, SaveFails, Crash, PowerLoss, Down
    <2>2. /\ snapshot' \in {snapshot, synced_snapshot}
          /\ synced_snapshot' \in {snapshot, synced_snapshot}
      BY <1>8 DEF Shutdown, SaveFails, Crash, PowerLoss, snapshots
    <2> QED BY <1>1, <1>3, <2>1, <2>2
  <1>9. ASSUME NEW k \in Keys, LookupRemoves(k)
        PROVE  AuditedIn(cache', synced') /\ UNCHANGED snapshots
    BY <1>2, <1>9 DEF LookupRemoves
  <1>10. CASE \/ Tick \/ AuditWriteFails \/ AuditSyncFails \/ Respond
              \/ (\E req \in Inputs : Request(req)) \/ UNCHANGED vars
    <2>1. cache' = cache /\ snapshot' = snapshot /\ synced_snapshot' = synced_snapshot
      BY <1>10 DEF Tick, AuditWriteFails, AuditSyncFails, Respond, Request, vars, snapshots
    <2> QED BY <1>1, <2>1
  <1> HIDE DEF InSnapshot
  <1>11. CASE UNCHANGED snapshots /\ AuditedIn(cache', synced')
    BY <1>1, <1>11 DEF snapshots
  <1> QED BY <1>4, <1>5, <1>6, <1>7, <1>8, <1>9, <1>10, <1>11 DEF Next, StartRefused, vars
-----------------------------------------------------------------------------
(* What was printed stays.                                                 *)

LEMMA InHandStep == TypeOK /\ InHand /\ AnsweredSound /\ [Next]_vars => InHand'
  <1> SUFFICES ASSUME TypeOK, InHand, AnsweredSound, [Next]_vars PROVE InHand'
    OBVIOUS
  <1> USE Gate3Constants
  <1>0. now \in Nat /\ \A d \in Decisions : d.at \in Nat
    BY DEF TypeOK, Decisions
  <1>1. CASE Tick
    <2>1. /\ now' = now + 1 /\ pc' = pc /\ dec' = dec /\ out' = out /\ asked' = asked
          /\ cache' = cache /\ answered' = answered
          /\ snapshot' = snapshot /\ synced_snapshot' = synced_snapshot
      BY <1>1 DEF Tick, snapshots, history
    <2>2. Deciding => dec \in Decisions /\ dec.at <= now'
      BY <1>0, <2>1 DEF InHand
    <2>3. Deciding => (Holds(cache, dec) => Holds(cache, dec)')
      BY <1>0, <2>1, <2>2 DEF Holds
    <2>4. Deciding => (HeldIn(snapshot, dec) => HeldIn(snapshot, dec)')
      BY <1>0, <2>1, <2>2 DEF HeldIn
    <2>5. Deciding => (HeldIn(synced_snapshot, dec) => HeldIn(synced_snapshot, dec)')
      BY <1>0, <2>1, <2>2 DEF HeldIn
    <2>6. Justifies(asked, dec)' <=> Justifies(asked, dec)
      BY <2>1 DEF Justifies
    <2> QED BY <2>1, <2>2, <2>3, <2>4, <2>5, <2>6 DEF InHand, Deciding
  <1>2. ASSUME NEW req \in Inputs, Request(req) PROVE InHand'
    <2>1. profile.rev \in Revisions
      BY DEF TypeOK, Profiles
    <2>2. /\ dec' = Decision(req, profile.rev) /\ out' = dec'.effect /\ asked' = req
          /\ pc' = "audit" /\ now' = now /\ answered' = answered
      BY <1>2 DEF Request, history
    <2>3. dec' \in Decisions /\ dec'.at = now /\ (dec'.effect = "DENY" => Justifies(req, dec'))
      BY <1>0, <2>1, <2>2, DecisionIsOne
    <2>4. Justifies(req, dec') => Justifies(asked, dec)'
      BY <2>2 DEF Justifies
    <2> QED BY <1>0, <2>2, <2>3, <2>4 DEF InHand, Deciding, AnsweredSound
  <1>3. CASE Audit
    <2>1. dec \in Decisions /\ dec.at <= now /\ out = dec.effect /\ IsCache(cache)
      BY <1>3 DEF InHand, Deciding, Audit, TypeOK
    <2>2. dec' = dec /\ out' = out /\ now' = now /\ answered' = answered
      BY <1>3 DEF Audit
    <2>3. CASE dec.effect = "DENY"
      <3>1. dec.key \in Keys /\ Compiled(dec) \in Entries /\ Compiled(dec).expires = dec.at + TTL
        BY <2>1, CompiledEntry DEF Decisions
      <3>2. cache' = Put(cache, dec.key, Compiled(dec)) /\ pc' = "save"
        BY <1>3, <2>3 DEF Audit
      <3>3. dec.key \in DOMAIN cache' /\ cache'[dec.key] = Compiled(dec)
        <4>1. /\ DOMAIN Put(cache, dec.key, Compiled(dec)) = DOMAIN cache \cup {dec.key}
              /\ Put(cache, dec.key, Compiled(dec))[dec.key] = Compiled(dec)
              /\ \A x \in DOMAIN cache \ {dec.key} :
                   Put(cache, dec.key, Compiled(dec))[x] = cache[x]
          BY <2>1, PutCompiled
        <4> QED BY <3>2, <4>1
      <3>4. Holds(cache, dec)'
        BY <1>0, <2>1, <2>2, <3>1, <3>3 DEF Holds
      <3> QED BY <1>3, <2>1, <2>2, <2>3, <3>2, <3>4 DEF InHand, Deciding, Audit
    <2>4. CASE dec.effect # "DENY"
      BY <1>3, <2>1, <2>2, <2>4 DEF InHand, Deciding, Audit
    <2> QED BY <2>3, <2>4
  <1>4. CASE AuditWriteFails \/ AuditSyncFails
    BY <1>4 DEF InHand, Deciding, AuditWriteFails, AuditSyncFails, history
  <1>5. CASE SaveRename
    <2>1. snapshot' # NoSnapshot /\ snapshot'.entries = cache
      BY <1>5, CacheSnapshot DEF SaveRename, TypeOK
    <2>2. /\ pc = "save" /\ pc' = "save_sync" /\ now' = now /\ dec' = dec /\ out' = out
          /\ cache' = cache /\ answered' = answered
      BY <1>5 DEF SaveRename, history
    <2>3. Holds(cache, dec) => Holds(cache, dec)' /\ HeldIn(snapshot, dec)'
      BY <2>1, <2>2 DEF Holds, HeldIn
    <2> QED BY <2>2, <2>3 DEF InHand, Deciding
  <1>6. CASE SaveSync
    <2>1. /\ pc = "save_sync" /\ pc' = "respond" /\ now' = now /\ dec' = dec /\ out' = out
          /\ cache' = cache /\ answered' = answered
          /\ snapshot' = snapshot /\ synced_snapshot' = snapshot
      BY <1>6 DEF SaveSync, history
    <2>2. /\ Holds(cache, dec) => Holds(cache, dec)'
          /\ HeldIn(snapshot, dec) => HeldIn(snapshot, dec)' /\ HeldIn(synced_snapshot, dec)'
      BY <2>1 DEF Holds, HeldIn
    <2> QED BY <2>1, <2>2 DEF InHand, Deciding
  <1>7. CASE \/ Respond \/ Shutdown \/ SaveFails \/ Crash \/ PowerLoss
             \/ (\E p \in Profiles : Start(p)) \/ (\E k \in Keys : LookupRemoves(k))
    <2>1. pc' \in {"ready", "down"}
      BY <1>7 DEF Respond, Shutdown, SaveFails, Crash, PowerLoss, Down, Start, LookupRemoves
    <2> QED BY <2>1 DEF InHand, Deciding
  <1>8. CASE UNCHANGED vars
    BY <1>8 DEF vars, InHand, Deciding, Holds, HeldIn, Justifies
  <1> QED BY <1>1, <1>2, <1>3, <1>4, <1>5, <1>6, <1>7, <1>8 DEF Next, StartRefused

(* An entry that is dropped because it expired holds nothing any more.     *)
LEMMA DroppedEntry ==
  ASSUME NEW c, IsCache(c), NEW d \in Decisions, now \in Nat, Holds(c, d),
         NEW ks, ks \subseteq DOMAIN c, \A k \in DOMAIN c \ ks : c[k].expires <= now
  PROVE  Holds([k \in ks |-> c[k]], d)
  <1>1. \A k \in DOMAIN c : c[k].expires \in Nat
    BY EntriesOf DEF Entries
  <1>2. d.at + TTL \in Nat
    BY Gate3Constants DEF Decisions
  <1>3. CASE now >= d.at + TTL
    BY <1>3 DEF Holds
  <1>4. CASE ~(now >= d.at + TTL)
    <2>1. d.key \in DOMAIN c /\ c[d.key].expires >= d.at + TTL
      BY <1>4 DEF Holds
    <2>2. ~(c[d.key].expires <= now)
      BY <1>1, <1>2, <1>4, <2>1
    <2>3. d.key \in ks
      BY <2>1, <2>2
    <2> QED BY <2>1, <2>3 DEF Holds
  <1> QED BY <1>3, <1>4

LEMMA AnsweredStep == TypeOK /\ InHand /\ AnsweredSound /\ [Next]_vars => AnsweredSound'
  <1> SUFFICES ASSUME TypeOK, InHand, AnsweredSound, [Next]_vars PROVE AnsweredSound'
    OBVIOUS
  <1> USE Gate3Constants
  <1>0. now \in Nat /\ answered \subseteq Decisions /\ \A d \in Decisions : d.at \in Nat
    BY DEF TypeOK, Decisions
  <1>1. CASE Tick
    <2>1. /\ now' = now + 1 /\ pc' = pc /\ cache' = cache /\ answered' = answered
          /\ snapshot' = snapshot /\ synced_snapshot' = synced_snapshot
      BY <1>1 DEF Tick, snapshots, history
    <2> QED BY <1>0, <2>1 DEF AnsweredSound, Holds, HeldIn
  <1>2. CASE Audit
    <2>1. /\ now' = now /\ answered' = answered /\ snapshot' = snapshot
          /\ synced_snapshot' = synced_snapshot /\ pc # "down"
      BY <1>2 DEF Audit, snapshots
    <2>2. dec \in Decisions /\ IsCache(cache) /\ \A d \in answered : d.at <= dec.at
      BY <1>2 DEF InHand, Deciding, Audit, TypeOK
    <2>3. CASE dec.effect = "DENY"
      <3>1. dec.key \in Keys /\ Compiled(dec) \in Entries /\ Compiled(dec).expires = dec.at + TTL
        BY <2>2, CompiledEntry DEF Decisions
      <3>2. cache' = Put(cache, dec.key, Compiled(dec))
        BY <1>2, <2>3 DEF Audit
      <3>3. /\ DOMAIN Put(cache, dec.key, Compiled(dec)) = DOMAIN cache \cup {dec.key}
            /\ Put(cache, dec.key, Compiled(dec))[dec.key] = Compiled(dec)
            /\ \A x \in DOMAIN cache \ {dec.key} :
                 Put(cache, dec.key, Compiled(dec))[x] = cache[x]
        BY <2>2, PutCompiled
      <3>4. ASSUME NEW d \in answered PROVE Holds(cache, d)'
        <4>1. Holds(cache, d) /\ d.at \in Nat /\ dec.at \in Nat /\ d.at <= dec.at
          BY <1>0, <2>1, <2>2 DEF AnsweredSound
        <4>2. CASE d.key = dec.key
          <5>1. d.key \in DOMAIN cache' /\ cache'[d.key].expires = dec.at + TTL
            BY <3>1, <3>2, <3>3, <4>2
          <5> QED BY <4>1, <5>1 DEF Holds
        <4>3. CASE d.key # dec.key
          <5>1. d.key \in DOMAIN cache => d.key \in DOMAIN cache' /\ cache'[d.key] = cache[d.key]
            BY <3>2, <3>3, <4>3
          <5> QED BY <2>1, <4>1, <5>1 DEF Holds
        <4> QED BY <4>2, <4>3
      <3> QED BY <2>1, <3>4 DEF AnsweredSound, HeldIn
    <2>4. CASE dec.effect # "DENY"
      <3>1. cache' = cache
        BY <1>2, <2>4 DEF Audit
      <3> QED BY <2>1, <3>1 DEF AnsweredSound, Holds, HeldIn
    <2> QED BY <2>3, <2>4
  <1>3. ASSUME NEW p \in Profiles, Start(p) PROVE AnsweredSound'
    <2>1. /\ now' = now /\ answered' = answered
          /\ snapshot' = snapshot /\ synced_snapshot' = synced_snapshot
      BY <1>3 DEF Start, snapshots
    <2>2. ASSUME NEW d \in answered PROVE Holds(cache, d)'
      <3>0. d \in Decisions /\ HeldIn(snapshot, d)
        BY <1>0 DEF AnsweredSound
      <3>1. CASE snapshot = NoSnapshot
        BY <2>1, <3>0, <3>1 DEF HeldIn, Holds
      <3>2. CASE snapshot # NoSnapshot
        <4> DEFINE c == snapshot.entries
                   ks == {x \in DOMAIN c : c[x].expires > now}
        <4>1. IsCache(c)
          BY <3>2, SnapshotEntries DEF TypeOK
        <4>2. Holds(c, d)
          BY <3>0, <3>2 DEF HeldIn, Holds
        <4>3. \A k \in DOMAIN c : c[k].expires \in Nat
          BY <4>1, EntriesOf DEF Entries
        <4>4. ks \subseteq DOMAIN c /\ \A k \in DOMAIN c \ ks : c[k].expires <= now
          BY <1>0, <4>3
        <4>5. cache' = [k \in ks |-> c[k]]
          BY <1>3, <3>2 DEF Start, Unexpired
        <4> HIDE DEF c, ks
        <4>6. Holds([k \in ks |-> c[k]], d)
          BY <1>0, <3>0, <4>1, <4>2, <4>4, DroppedEntry
        <4> QED BY <2>1, <4>5, <4>6 DEF Holds
      <3> QED BY <3>1, <3>2
    <2> QED BY <2>1, <2>2 DEF AnsweredSound, HeldIn
  <1>4. CASE SaveRename
    <2>1. snapshot' # NoSnapshot /\ snapshot'.entries = cache
      BY <1>4, CacheSnapshot DEF SaveRename, TypeOK
    <2>2. /\ pc # "down" /\ now' = now /\ cache' = cache /\ answered' = answered
          /\ synced_snapshot' = synced_snapshot
      BY <1>4 DEF SaveRename, history
    <2> QED BY <2>1, <2>2 DEF AnsweredSound, Holds, HeldIn
  <1>5. CASE SaveSync
    <2>1. /\ pc # "down" /\ now' = now /\ cache' = cache /\ answered' = answered
          /\ snapshot' = snapshot /\ synced_snapshot' = snapshot
      BY <1>5 DEF SaveSync, history
    <2> QED BY <2>1 DEF AnsweredSound, Holds, HeldIn
  <1>6. CASE Respond
    <2>1. /\ pc # "down" /\ now' = now /\ cache' = cache
          /\ snapshot' = snapshot /\ synced_snapshot' = synced_snapshot
      BY <1>6 DEF Respond, snapshots
    <2>2. \A d \in answered' : d \in answered \/ (d = dec /\ out = "DENY")
      BY <1>6 DEF Respond
    <2>3. /\ dec.at <= now
          /\ out = "DENY" => Holds(cache, dec) /\ HeldIn(snapshot, dec) /\ HeldIn(synced_snapshot, dec)
      BY <1>6 DEF InHand, Deciding, Respond
    <2>4. ASSUME NEW d \in answered'
          PROVE  /\ d.at <= now /\ Holds(cache, d)
                 /\ HeldIn(snapshot, d) /\ HeldIn(synced_snapshot, d)
      BY <2>1, <2>2, <2>3 DEF AnsweredSound
    <2> QED BY <2>1, <2>4 DEF AnsweredSound, Holds, HeldIn
  <1>7. ASSUME NEW k \in Keys, LookupRemoves(k) PROVE AnsweredSound'
    <2>1. /\ pc # "down" /\ now' = now /\ answered' = answered
          /\ snapshot' = snapshot /\ synced_snapshot' = synced_snapshot
      BY <1>7 DEF LookupRemoves, snapshots, history
    <2> DEFINE ks == DOMAIN cache \ {k}
    <2>2. cache' = [x \in ks |-> cache[x]] /\ IsCache(cache)
      BY <1>7 DEF LookupRemoves, TypeOK
    <2>3. ks \subseteq DOMAIN cache /\ \A x \in DOMAIN cache \ ks : cache[x].expires <= now
      BY <1>7 DEF LookupRemoves
    <2>4. ASSUME NEW d \in answered PROVE Holds(cache, d)'
      <3>1. d \in Decisions /\ Holds(cache, d)
        BY <1>0, <2>1 DEF AnsweredSound
      <3> HIDE DEF ks
      <3>2. Holds([x \in ks |-> cache[x]], d)
        BY <1>0, <2>2, <2>3, <3>1, DroppedEntry
      <3> QED BY <2>1, <2>2, <3>2 DEF Holds
    <2> QED BY <2>1, <2>4 DEF AnsweredSound, HeldIn
  <1>8. CASE Shutdown \/ SaveFails \/ Crash \/ PowerLoss
    <2>1. pc' = "down" /\ now' = now /\ answered' = answered
      BY <1>8 DEF Shutdown, SaveFails, Crash, PowerLoss, Down
    <2>2. /\ snapshot' \in {snapshot, synced_snapshot}
          /\ synced_snapshot' \in {snapshot, synced_snapshot}
      BY <1>8 DEF Shutdown, SaveFails, Crash, PowerLoss, snapshots
    <2> QED BY <2>1, <2>2 DEF AnsweredSound, HeldIn
  <1>9. CASE \/ AuditWriteFails \/ AuditSyncFails
             \/ (\E req \in Inputs : Request(req)) \/ UNCHANGED vars
    <2>1. /\ now' = now /\ cache' = cache /\ answered' = answered
          /\ snapshot' = snapshot /\ synced_snapshot' = synced_snapshot
          /\ pc' # "down" => pc # "down"
      BY <1>9 DEF AuditWriteFails, AuditSyncFails, Request, vars, snapshots, history
    <2> QED BY <2>1 DEF AnsweredSound, Holds, HeldIn
  <1> QED BY <1>1, <1>2, <1>3, <1>4, <1>5, <1>6, <1>7, <1>8, <1>9 DEF Next, StartRefused
-----------------------------------------------------------------------------
(* The inductive invariant and what follows from it.                       *)

LEMMA Gate3InvInit == Init => Gate3Inv
  <1> SUFFICES ASSUME Init PROVE Gate3Inv
    OBVIOUS
  <1>1. TypeOK
    BY TypeInit
  <1>2. InHand /\ SyncedSound /\ AnsweredSound
    BY DEF Init, InHand, Deciding, SyncedSound, AnsweredSound
  <1>3. CachedDenyAudited
    BY DEF Init, CachedDenyAudited, AuditedBy, EmptyCache
  <1>4. Grouped /\ LogSynced
    BY Gate3Constants DEF Init, Grouped, LogSynced
  <1> QED BY <1>1, <1>2, <1>3, <1>4 DEF Gate3Inv

LEMMA Gate3Inductive == Gate3Inv /\ [Next]_vars => Gate3Inv'
  BY TypeStep, InHandStep, SyncedStep, AnsweredStep, CachedStep, GroupStep, LogStep DEF Gate3Inv

(* In every behaviour the decision in hand, the printed and the audited    *)
(* decisions, the cache, both snapshots and the audit log of the dry run   *)
(* agree as Gate3Inv says, through kills, power losses and failed writes.  *)
THEOREM Gate3Sound == Spec => []Gate3Inv
  BY Gate3InvInit, Gate3Inductive, PTL DEF Spec

LEMMA OnRecord == Gate3Inv => DenyOnRecord
  BY DEF Gate3Inv, DenyOnRecord, AnsweredSound, AnsweredDenySurvives, HeldIn

(* main() of agb-policy-dry-run and CompiledDecisionCache: whatever memory *)
(* or a snapshot holds was audited durably before, and a DENY that was     *)
(* printed is in the snapshot a power loss leaves until it expires.        *)
THEOREM Gate3DenyOnRecord == Spec => []DenyOnRecord
  BY Gate3Sound, OnRecord, PTL

LEMMA Bounded == Gate3Inv => GroupBound
  BY DEF Gate3Inv, Grouped, GroupBound

(* Gate3AuditLog::append: fewer than AGB_GATE3_AUDIT_GROUP_SIZE decisions  *)
(* were ever answered from records that a power loss can take away.        *)
THEOREM Gate3GroupBound == Spec => []GroupBound
  BY Gate3Sound, Bounded, PTL

(* An entry that lookup hits stands for an audited decision of its time.   *)
LEMMA HitsAreFresh == Gate3Inv => LookupFresh
  <1> SUFFICES ASSUME Gate3Inv, NEW k \in Keys, NEW rev \in Revisions, NEW minimum \in 1 .. 2,
                      pc = "ready", LookupHits(k, rev, minimum)
               PROVE  \E s \in synced :
                        LET d == s.decision  req == s.request IN
                        /\ d.key = k /\ d.rev = rev /\ d.sr >= minimum
                        /\ d.at <= now /\ now < d.at + TTL
                        /\ req.event_valid /\ req.state_valid /\ req.same_namespace
                        /\ req.rev = rev /\ req.sequence = d.sr
    BY DEF LookupFresh
  <1>1. /\ k \in DOMAIN cache /\ cache[k].expires > now
        /\ cache[k].rev = rev /\ cache[k].sr >= minimum
    BY DEF LookupHits
  <1>2. PICK s \in synced : s.decision = Source(k, cache[k])
    BY <1>1 DEF Gate3Inv, CachedDenyAudited, AuditedBy
  <1>3. /\ s.decision.key = k /\ s.decision.rev = rev /\ s.decision.sr >= minimum
        /\ s.decision.at = cache[k].expires - TTL
    BY <1>1, <1>2 DEF Source
  <1>4. cache[k].expires \in Nat /\ now \in Nat
    BY <1>1, EntriesOf DEF Gate3Inv, TypeOK, Entries
  <1>5. now < s.decision.at + TTL
    BY <1>1, <1>3, <1>4, Gate3Constants
  <1>6. s.decision.at <= now /\ Justifies(s.request, s.decision)
    BY DEF Gate3Inv, SyncedSound
  <1> QED BY <1>3, <1>5, <1>6 DEF Justifies

(* CompiledDecisionCache::lookup answers DENY only for a decision under    *)
(* the same revision, less than the time to live ago, for a state as       *)
(* recent as asked for and from a consistent request.                      *)
THEOREM Gate3LookupFresh == Spec => []LookupFresh
  BY Gate3Sound, HitsAreFresh, PTL

LEMMA ShutdownStep ==
  Gate3Inv /\ [Next]_vars => [Shutdown => \A i \in base + 1 .. Len(audit.lines) : i <= durable']_vars
  <1> SUFFICES ASSUME Gate3Inv, Shutdown
               PROVE  \A i \in base + 1 .. Len(audit.lines) : i <= durable'
    OBVIOUS
  <1>1. CASE pending = 0
    BY <1>1 DEF Gate3Inv, LogSynced, Shutdown
  <1>2. CASE pending # 0
    BY <1>2 DEF Shutdown
  <1> QED BY <1>1, <1>2

(* Gate3AuditLog::sync at the end of the input: every line the process     *)
(* wrote is synced, whatever failed before.                                *)
THEOREM Gate3CleanShutdown == Spec => CleanShutdownSyncs
  BY Gate3Sound, ShutdownStep, PTL DEF Spec, CleanShutdownSyncs
=============================================================================
