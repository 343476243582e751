---------------------------- MODULE Gate3DryRun ----------------------------
(***************************************************************************)
(* The Gate 3 policy engine (src/policy.rs) as the dry-run process drives  *)
(* it (src/bin/agb-policy-dry-run.rs): a request is evaluated, its         *)
(* decision goes to the audit log, a DENY is compiled into the cache and   *)
(* the whole cache is saved as an authenticated snapshot, then the         *)
(* response is printed.                                                    *)
(*                                                                         *)
(* The process can be killed between any two steps, and the machine can    *)
(* lose power: audit lines that no sync_data covered and a rename that no  *)
(* directory sync covered may then be undone.  The clock is whole seconds, *)
(* as the code uses it.                                                    *)
(***************************************************************************)
EXTENDS Integers, Sequences, FiniteSets, JsonLines

CONSTANTS
  Keys,           \* cache keys: namespace, operation, resource digest
  Revisions,      \* policy revisions
  Secrets,        \* values of AGB_GATE3_CACHE_KEY
  NoSnapshot,     \* the snapshot path does not exist
  NoConfidence,   \* SecurityStateSummary.confidence is null
  MinConfidence,  \* Gate3Profile.minimum_confidence
  TTL,            \* Gate3Profile.ttl_seconds
  GroupSize,      \* AGB_GATE3_AUDIT_GROUP_SIZE
  Inputs,         \* the requests the environment may send
  MaxNow,         \* bound: the clock stops here
  MaxRecords,     \* bound: lines in the audit log
  MaxFaults       \* bound: crashes, power losses and failed writes

Risks == {"unknown", "normal", "monitor", "elevated", "restricted", "quarantined"}
Effects == {"ALLOW", "DENY", "ABSTAIN"}

(* What evaluate() looks at: whether event and state pass their contracts, *)
(* the revision the event names, whether the state is of the event's       *)
(* namespace, the event's sequence, and the state summary.                 *)
Requests == [key : Keys, event_valid : BOOLEAN, state_valid : BOOLEAN,
             rev : Revisions, same_namespace : BOOLEAN,
             sequence : Nat, state_revision : Nat, risk : Risks,
             evidence : BOOLEAN, confidence : Nat \cup {NoConfidence},
             model_named : BOOLEAN]

ASSUME Gate3Constants ==
  /\ TTL \in Nat \ {0} /\ GroupSize \in Nat \ {0} /\ MinConfidence \in Nat
  /\ MaxNow \in Nat /\ MaxRecords \in Nat /\ MaxFaults \in Nat
  /\ NoConfidence \notin Nat
  /\ Inputs \subseteq Requests

Profiles == [rev : Revisions, secret : Secrets]

Entries == [rev : Revisions, sr : Nat, expires : Nat]
Snapshots(keys) == [rev : Revisions, secret : Secrets, entries : [keys -> Entries]]

ASSUME Gate3Markers == \A keys \in SUBSET Keys : NoSnapshot \notin Snapshots(keys)

VARIABLES
  now,        \* SystemTime in seconds
  pc,         \* where the process is
  profile,    \* profile and key of the running process
  cache,      \* CompiledDecisionCache.entries
  snapshot,   \* the snapshot the path names
  synced_snapshot, \* the snapshot the path names after a power loss
  audit,      \* the audit file
  durable,    \* leading lines of the audit file that a sync covers
  pending,    \* Gate3AuditLog.pending_unsynced
  dec,        \* the decision of the request being served
  out,        \* the effect that will be printed
  \* history
  asked,      \* the request that dec decides, until its audit is done
  base,       \* lines in the audit file when this process opened it
  at_risk,    \* decisions of this process answered from unsynced records
  synced,     \* DENY decisions whose record a successful sync_data covered,
              \* each with its request
  answered,   \* DENY decisions that were printed
  faults      \* crashes, power losses and failed writes so far

vars == <<now, pc, profile, cache, snapshot, synced_snapshot, audit, durable, pending,
          dec, out, asked, base, at_risk, synced, answered, faults>>
snapshots == <<snapshot, synced_snapshot>>
log == <<audit, durable, pending>>
history == <<base, at_risk, synced, answered>>

NoDecision == [key |-> "none"]
NoRequest == [key |-> "none"]
EmptyCache == [k \in {} |-> 0]
Fault == faults < MaxFaults /\ faults' = faults + 1
-----------------------------------------------------------------------------
(* Gate3Policy::evaluate.  The profile was validated at startup.           *)

Consistent(req, rev) ==
  /\ req.event_valid /\ req.state_valid
  /\ req.rev = rev
  /\ req.same_namespace
  /\ req.state_revision = req.sequence

Convincing(req) ==
  /\ req.evidence
  /\ req.confidence # NoConfidence /\ req.confidence >= MinConfidence
  /\ req.model_named

Effect(req, rev) ==
  CASE ~Consistent(req, rev)                     -> "ABSTAIN"
    [] OTHER ->
       CASE req.risk \in {"restricted", "quarantined"} -> "DENY"
         [] req.risk = "elevated"                      -> IF Convincing(req) THEN "DENY"
                                                          ELSE "ABSTAIN"
         [] req.risk \in {"normal", "monitor"}         -> "ALLOW"
         [] OTHER                                      -> "ABSTAIN"

(* The decision record, with the second the request was read.              *)
Decision(req, rev) ==
  [key |-> req.key, rev |-> rev, sr |-> req.state_revision, at |-> now,
   effect |-> Effect(req, rev)]

(* Mutant of Compiled: the time to live is subtracted.                     *)
CompiledBackdated(d) == [rev |-> d.rev, sr |-> d.sr, expires |-> d.at - TTL]

(* Gate3Policy::compile and CompiledDecisionCache::put.                    *)
Compiled(d) == [rev |-> d.rev, sr |-> d.sr, expires |-> d.at + TTL]

Put(entries, k, entry) ==
  [x \in DOMAIN entries \cup {k} |-> IF x = k THEN entry ELSE entries[x]]

(* The DENY decision an entry was compiled from.                           *)
Source(k, entry) ==
  [key |-> k, rev |-> entry.rev, sr |-> entry.sr, at |-> entry.expires - TTL,
   effect |-> "DENY"]
-----------------------------------------------------------------------------
Init ==
  /\ now = 0 /\ pc = "down"
  /\ profile \in Profiles /\ cache = EmptyCache
  /\ snapshot = NoSnapshot /\ synced_snapshot = NoSnapshot
  /\ audit = EmptyFile /\ durable = 0 /\ pending = 0
  /\ dec = NoDecision /\ out = "ABSTAIN" /\ asked = NoRequest
  /\ base = 0 /\ at_risk = 0 /\ synced = {} /\ answered = {} /\ faults = 0

Tick ==
  /\ now < MaxNow /\ now' = now + 1
  /\ UNCHANGED <<pc, profile, cache, snapshots, log, dec, out, history, asked, faults>>

(* load_authenticated: revision and authentication reject the snapshot as  *)
(* a whole, expired entries are dropped.                                   *)
Loads(p) == snapshot # NoSnapshot => snapshot.rev = p.rev /\ snapshot.secret = p.secret

Unexpired(entries) ==
  [k \in {x \in DOMAIN entries : entries[x].expires > now} |-> entries[k]]

Start(p) ==
  /\ pc = "down" /\ Loads(p)
  /\ profile' = p
  /\ cache' = IF snapshot = NoSnapshot THEN EmptyCache ELSE Unexpired(snapshot.entries)
  /\ pending' = 0 /\ base' = Len(audit.lines) /\ at_risk' = 0
  /\ pc' = "ready"
  /\ UNCHANGED <<now, snapshots, audit, durable, dec, out, synced, answered, asked, faults>>

StartRefused(p) == pc = "down" /\ ~Loads(p) /\ UNCHANGED vars

(* The request is read and evaluated.                                      *)
Request(req) ==
  /\ pc = "ready" /\ Len(audit.lines) < MaxRecords
  /\ dec' = Decision(req, profile.rev)
  /\ out' = dec'.effect /\ asked' = req
  /\ pc' = "audit"
  /\ UNCHANGED <<now, profile, cache, snapshots, log, history, faults>>

(* Mutant of MustSync: one record more than the group size.                *)
MustSyncLate == dec.effect = "DENY" \/ pending + 1 > GroupSize

MustSync == dec.effect = "DENY" \/ pending + 1 >= GroupSize

(* Gate3AuditLog::append succeeds; a DENY is compiled and put.             *)
Audit ==
  /\ pc = "audit" /\ asked' = NoRequest
  /\ audit' = AppendWhole(audit, dec)
  /\ IF MustSync
     THEN durable' = Len(audit'.lines) /\ pending' = 0 /\ at_risk' = 0
     ELSE durable' = durable /\ pending' = pending + 1 /\ at_risk' = at_risk + 1
  /\ IF dec.effect = "DENY"
     THEN /\ synced' = synced \cup {[decision |-> dec, request |-> asked]}
          /\ cache' = Put(cache, dec.key, Compiled(dec))
          /\ pc' = "save"
     ELSE UNCHANGED <<synced, cache>> /\ pc' = "respond"
  /\ UNCHANGED <<now, profile, snapshots, dec, out, base, answered, faults>>

(* Writing the record or its newline fails.                                *)
AuditWriteFails ==
  /\ pc = "audit" /\ asked' = NoRequest /\ Fault
  /\ audit' \in AppendFailures(audit, dec) \ {AppendWhole(audit, dec)}
  /\ out' = "ABSTAIN" /\ pc' = "respond"
  /\ UNCHANGED <<now, profile, cache, snapshots, durable, pending, dec, history>>

(* Mutant of AuditSyncFails: the decision is compiled all the same.        *)
AuditSyncFailsUnnoticed ==
  /\ pc = "audit" /\ asked' = NoRequest /\ MustSync /\ Fault
  /\ audit' = AppendWhole(audit, dec) /\ pending' = pending + 1
  /\ cache' = IF dec.effect = "DENY" THEN Put(cache, dec.key, Compiled(dec)) ELSE cache
  /\ pc' = IF dec.effect = "DENY" THEN "save" ELSE "respond"
  /\ UNCHANGED <<now, profile, snapshots, durable, dec, out, history>>

(* The record is written and counted, flush or sync_data fails.            *)
AuditSyncFails ==
  /\ pc = "audit" /\ asked' = NoRequest /\ MustSync /\ Fault
  /\ audit' = AppendWhole(audit, dec) /\ pending' = pending + 1
  /\ out' = "ABSTAIN" /\ pc' = "respond"
  /\ UNCHANGED <<now, profile, cache, snapshots, durable, dec, history>>

(* atomic_write_json: the temporary file is complete and takes the path,   *)
(* then the directory is synced.                                           *)
SaveRename ==
  /\ pc = "save"
  /\ snapshot' = [rev |-> profile.rev, secret |-> profile.secret, entries |-> cache]
  /\ pc' = "save_sync"
  /\ UNCHANGED <<now, profile, cache, synced_snapshot, log, dec, out, history, asked, faults>>

SaveSync ==
  /\ pc = "save_sync"
  /\ synced_snapshot' = snapshot
  /\ pc' = "respond"
  /\ UNCHANGED <<now, profile, cache, snapshot, log, dec, out, history, asked, faults>>

Respond ==
  /\ pc = "respond"
  /\ answered' = IF out = "DENY" THEN answered \cup {dec} ELSE answered
  /\ dec' = NoDecision /\ out' = "ABSTAIN" /\ pc' = "ready"
  /\ UNCHANGED <<now, profile, cache, snapshots, log, base, at_risk, synced, asked, faults>>

(* Mutant of LookupHits: an entry still counts in the second it expires.   *)
LookupHitsLate(k, rev, minimum) ==
  /\ k \in DOMAIN cache
  /\ cache[k].expires >= now
  /\ cache[k].rev = rev
  /\ cache[k].sr >= minimum

(* CompiledDecisionCache::lookup would answer DENY.                        *)
LookupHits(k, rev, minimum) ==
  /\ k \in DOMAIN cache
  /\ cache[k].expires > now
  /\ cache[k].rev = rev
  /\ cache[k].sr >= minimum

(* The one effect of lookup on the cache: an expired entry is removed.     *)
LookupRemoves(k) ==
  /\ pc = "ready"
  /\ k \in DOMAIN cache /\ cache[k].expires <= now
  /\ cache' = [x \in DOMAIN cache \ {k} |-> cache[x]]
  /\ UNCHANGED <<now, pc, profile, snapshots, log, dec, out, history, asked, faults>>

(* The process is gone and the memory with it.                             *)
Down ==
  /\ pc' = "down" /\ cache' = EmptyCache /\ pending' = 0 /\ at_risk' = 0
  /\ dec' = NoDecision /\ out' = "ABSTAIN" /\ asked' = NoRequest

(* Mutant of Shutdown: the log is closed without a sync.                   *)
ShutdownUnsynced ==
  /\ pc = "ready"
  /\ Down
  /\ UNCHANGED <<now, profile, snapshots, audit, durable, base, synced, answered, faults>>

(* End of input: audit.sync() and a clean exit.                            *)
Shutdown ==
  /\ pc = "ready"
  /\ durable' = IF pending = 0 THEN durable ELSE Len(audit.lines)
  /\ Down
  /\ UNCHANGED <<now, profile, snapshots, audit, base, synced, answered, faults>>

(* Mutant of SaveFails: the error of save_authenticated is ignored.        *)
SaveFailsIgnored ==
  /\ pc = "save" /\ Fault /\ pc' = "respond"
  /\ UNCHANGED <<now, profile, cache, snapshots, log, dec, out, history, asked>>

(* save_authenticated fails and main() returns the error unanswered.       *)
SaveFails ==
  /\ pc = "save" /\ Fault /\ Down
  /\ UNCHANGED <<now, profile, snapshots, audit, durable, base, synced, answered>>

(* The process is killed, or main() returns another error.                 *)
Crash ==
  /\ pc # "down" /\ Fault /\ Down
  /\ UNCHANGED <<now, profile, snapshots, audit, durable, base, synced, answered>>

(* The audit files a power loss may leave: any prefix that keeps what a    *)
(* sync covered.                                                           *)
Survivors ==
  LET all == LinesOf(audit)
      cut(n) == IF n = Len(all) THEN {NoTail}
                ELSE {NoTail, Torn, IF all[n + 1] = Garbage THEN Torn ELSE all[n + 1]}
  IN  {audit} \cup UNION {{[lines |-> SubSeq(audit.lines, 1, n), tail |-> t] : t \in cut(n)} :
                          n \in durable .. Len(audit.lines)}

PowerLoss ==
  /\ Fault /\ Down
  /\ audit' \in Survivors /\ durable' = Len(audit'.lines)
  /\ snapshot' \in {snapshot, synced_snapshot} /\ synced_snapshot' = snapshot'
  /\ UNCHANGED <<now, profile, base, synced, answered>>

Next ==
  \/ Tick \/ Audit \/ AuditWriteFails \/ AuditSyncFails
  \/ SaveRename \/ SaveSync \/ SaveFails \/ Respond
  \/ Shutdown \/ Crash \/ PowerLoss
  \/ \E p \in Profiles : Start(p) \/ StartRefused(p)
  \/ \E req \in Inputs : Request(req)
  \/ \E k \in Keys : LookupRemoves(k)

Spec == Init /\ [][Next]_vars
-----------------------------------------------------------------------------
Decisions == [key : Keys, rev : Revisions, sr : Nat, at : Nat, effect : Effects]
IsCache(c) == \E keys \in SUBSET Keys : c \in [keys -> Entries]
IsSnapshot(s) == s = NoSnapshot \/ \E keys \in SUBSET Keys : s \in Snapshots(keys)
Logs == [lines : Seq(Decisions \cup {Garbage}), tail : Decisions \cup {NoTail, Torn}]

(* The type of every variable.                                             *)
TypeOK ==
  /\ now \in Nat
  /\ pc \in {"down", "ready", "audit", "save", "save_sync", "respond"}
  /\ profile \in Profiles
  /\ IsCache(cache) /\ IsSnapshot(snapshot) /\ IsSnapshot(synced_snapshot)
  /\ audit \in Logs
  /\ durable \in 0 .. Len(audit.lines)
  /\ pending \in Nat /\ at_risk \in Nat /\ base \in Nat /\ faults \in Nat
  /\ dec \in Decisions \cup {NoDecision} /\ out \in Effects
  /\ asked \in Inputs \cup {NoRequest}
  /\ synced \in SUBSET [decision : Decisions, request : Inputs] /\ answered \in SUBSET Decisions

(* docs/gate3-policy-engine.md: the audit is appended and sync_data        *)
(* completes before a result becomes cacheable.  Whatever memory or a      *)
(* snapshot holds, after any kill or power loss, was audited durably.      *)
AuditedBy(entries) ==
  \A k \in DOMAIN entries : \E s \in synced : s.decision = Source(k, entries[k])

CachedDenyAudited ==
  /\ AuditedBy(cache)
  /\ \A s \in {snapshot, synced_snapshot} \ {NoSnapshot} : AuditedBy(s.entries)

(* A lookup answers DENY only for a decision that was made under the same  *)
(* policy revision, less than TTL seconds ago, for a state at least as     *)
(* recent as asked for, and from a valid request whose state was the one   *)
(* after its event in its own namespace (docs/gate3-policy-engine.md), over *)
(* any number of restarts.                                                 *)
LookupFresh ==
  \A k \in Keys, rev \in Revisions, minimum \in 1 .. 2 :
    pc = "ready" /\ LookupHits(k, rev, minimum) =>
      \E s \in synced :
        LET d == s.decision  req == s.request IN
        /\ d.key = k /\ d.rev = rev /\ d.sr >= minimum
        /\ d.at <= now /\ now < d.at + TTL
        /\ req.event_valid /\ req.state_valid /\ req.same_namespace
        /\ req.rev = rev /\ req.sequence = d.sr

(* A DENY that was printed is in the snapshot the next process will load,  *)
(* until it expires, even if power is lost.                                *)
AnsweredDenySurvives ==
  \A d \in answered :
    \/ now >= d.at + TTL
    \/ /\ synced_snapshot # NoSnapshot
       /\ d.key \in DOMAIN synced_snapshot.entries
       /\ synced_snapshot.entries[d.key].expires >= d.at + TTL

(* The variables keep their types, and a DENY is on record before it has   *)
(* any effect, and stays there.                                            *)
DenyOnRecord == TypeOK /\ CachedDenyAudited /\ AnsweredDenySurvives

(* Fewer than GroupSize decisions of a process were ever answered from     *)
(* audit records that a power loss can take away.                          *)
GroupBound == at_risk < GroupSize

(* docs/gate3-policy-engine.md: "all remaining records are synchronized on *)
(* clean shutdown", whatever failed before.                                *)
CleanShutdownSyncs ==
  [][Shutdown => \A i \in base + 1 .. Len(audit.lines) : i <= durable']_vars
=============================================================================
