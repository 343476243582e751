---------------------------- MODULE PolicyBroker ----------------------------
(***************************************************************************)
(* The policy broker daemon (src/bin/agb-policy-broker.rs) with the files  *)
(* it shares with the administration tools (agb-admin-server.rs and        *)
(* agb-cachectl.rs).                                                       *)
(*                                                                         *)
(* The broker answers the enforcement adapter.  A decision of the gateway  *)
(* is cached for TTL seconds in memory (Broker.cache, an Instant deadline) *)
(* and, when AGB_CACHE_KEY is set, in a JSON-lines file (an epoch deadline *)
(* in whole seconds) that the next process loads and compacts.  Requests   *)
(* are served one at a time, but the process can die and the clock can     *)
(* advance between any two steps of a request or of the startup, and the   *)
(* administration tools rename the cache file under it.                    *)
(*                                                                         *)
(* Time is one clock for SystemTime and Instant, in seconds of             *)
(* SubsPerSecond ticks: only whole seconds are ever added to an Instant, so *)
(* deadlines keep the tick of the moment they were set.                    *)
(***************************************************************************)
EXTENDS Integers, Sequences, JsonLines

CONSTANTS
  Keys,            \* "<namespace_id>|<resource>" cache keys
  Revisions,       \* policy revisions the gateway sends
  Secrets,         \* values of AGB_CACHE_KEY
  NoSecret,        \* AGB_CACHE_KEY unset or empty
  NoFile,          \* a path that does not exist
  TTL,             \* Broker.ttl in seconds
  SubsPerSecond,   \* resolution of the clock
  MaxSecond,       \* bound: the clock stops here
  MaxDecisions,    \* bound: gateway decisions taken up by the broker
  MaxUpsets        \* bound: crashes, failed writes and operator actions

Effects == {"ALLOW", "DENY"}

ASSUME BrokerConstants ==
  /\ TTL \in Nat \ {0}
  /\ SubsPerSecond \in Nat \ {0}
  /\ MaxSecond \in Nat
  /\ MaxDecisions \in Nat
  /\ MaxUpsets \in Nat
  /\ NoSecret \notin Secrets

Instants == [sec : Nat, sub : 0 .. SubsPerSecond - 1]

(* Cached and PersistedCache; src is a history field: the decision that    *)
(* the entry was made from.                                                *)
Cached == [rev : Revisions, effect : Effects, expires : Instants, src : Nat]
PersistedCache == [key : Keys, rev : Revisions, effect : Effects,
                   expires_epoch : Nat, mac : Secrets, src : Nat]

ASSUME FileMarkers ==
  /\ Garbage \notin PersistedCache
  /\ NoTail \notin PersistedCache \cup {Torn}
  /\ Torn \notin PersistedCache
  /\ NoFile \notin [lines : Seq(PersistedCache \cup {Garbage}),
                    tail : PersistedCache \cup {NoTail, Torn}]

VARIABLES
  now,        \* the clock
  pc,         \* where the broker process is
  secret,     \* AGB_CACHE_KEY of the running process
  cache,      \* Broker.cache: partial function from Keys to Cached
  active,     \* the cache file, or NoFile
  rotated,    \* <cache file>.rotated, or NoFile
  loading,    \* lines of the opened cache file not yet read
  compact,    \* lines written to <cache file>.compact
  stamp,      \* the last as_secs() the running function read
  cur,        \* index in decisions of the request being served, 0 for none
  out,        \* the response handed to record()
  \* history
  decisions,  \* the gateway decisions taken up, with their time
  slip,       \* seconds that began between a clock reading and its use
  voided,     \* a rotation by the broker made decisions 1..voided void
  upsets      \* crashes, failed writes and operator actions so far

vars == <<now, pc, secret, cache, active, rotated, loading, compact, stamp, cur,
          out, decisions, slip, voided, upsets>>

files == <<active, rotated>>
startup == <<loading, compact>>
history == <<decisions, slip, voided>>
-----------------------------------------------------------------------------
(* Clocks and responses.                                                   *)

Before(a, b) == \/ a.sec < b.sec
                \/ a.sec = b.sec /\ a.sub < b.sub

After(t, seconds) == [sec |-> t.sec + seconds, sub |-> t.sub]

(* saturating_duration_since(..).as_secs()                                 *)
WholeSecondsUntil(t, deadline) ==
  IF ~Before(t, deadline) THEN 0
  ELSE deadline.sec - t.sec - (IF deadline.sub < t.sub THEN 1 ELSE 0)

Response(kind, effect) == [kind |-> kind, effect |-> effect]

(* Broker::fallback: the fail-closed denial.                               *)
Fallback == Response("fallback", "DENY")

NoResponse == Response("none", "DENY")

EmptyCache == [k \in {} |-> 0]

Insert(map, k, entry) ==
  [x \in DOMAIN map \cup {k} |-> IF x = k THEN entry ELSE map[x]]

(* Crashes, failed writes and operator actions, up to the bound.           *)
Upset == upsets < MaxUpsets /\ upsets' = upsets + 1

Contents(file) == IF file = NoFile THEN EmptyFile ELSE file

(* Mutant of IsHit: the policy revision is not compared.                   *)
IsHitAnyRevision(k, r) == k \in DOMAIN cache /\ Before(now, cache[k].expires)

(* Broker.cache holds a live entry for the revision the request names.     *)
IsHit(k, r) == /\ k \in DOMAIN cache
               /\ Before(now, cache[k].expires)
               /\ cache[k].rev = r
-----------------------------------------------------------------------------
Init ==
  /\ now = [sec |-> 0, sub |-> 0]
  /\ pc = "down"
  /\ secret = NoSecret
  /\ cache = EmptyCache
  /\ active = NoFile /\ rotated = NoFile
  /\ loading = <<>> /\ compact = <<>>
  /\ stamp = 0
  /\ cur = 0
  /\ out = NoResponse
  /\ decisions = <<>> /\ slip = 0
  /\ voided = 0 /\ upsets = 0

(* The clock advances.  A second that begins while the running function    *)
(* still uses an older reading counts as slip.                             *)
Tick ==
  /\ now.sec < MaxSecond
  /\ IF now.sub + 1 < SubsPerSecond
     THEN now' = [sec |-> now.sec, sub |-> now.sub + 1] /\ slip' = slip
     ELSE /\ now' = [sec |-> now.sec + 1, sub |-> 0]
          /\ slip' = IF pc \in {"load", "persist", "insert"} THEN slip + 1 ELSE slip
  /\ UNCHANGED <<pc, secret, cache, files, startup, stamp, cur, out, decisions, voided, upsets>>
-----------------------------------------------------------------------------
(* decide(): a decision request.  The requested effect is only looked at   *)
(* when the cache has no live entry.                                       *)

Hit(k, r) ==
  /\ pc = "serve" /\ IsHit(k, r)
  /\ out' = Response("hit", cache[k].effect)
  /\ pc' = "record"
  /\ UNCHANGED <<now, secret, cache, files, startup, stamp, cur, decisions, slip, voided, upsets>>

(* Mutant of Miss: a process without a key persists all the same.          *)
MissUnkeyed(k, r, e) ==
  /\ pc = "serve" /\ ~IsHit(k, r)
  /\ Len(decisions) < MaxDecisions
  /\ decisions' = Append(decisions,
                         [key |-> k, rev |-> r, effect |-> e, at |-> now, slip |-> slip])
  /\ cur' = Len(decisions) + 1
  /\ stamp' = now.sec
  /\ pc' = "persist"
  /\ UNCHANGED <<now, secret, cache, files, startup, out, slip, voided, upsets>>

Miss(k, r, e) ==
  /\ pc = "serve" /\ ~IsHit(k, r)
  /\ Len(decisions) < MaxDecisions
  /\ decisions' = Append(decisions,
                         [key |-> k, rev |-> r, effect |-> e, at |-> now, slip |-> slip])
  /\ cur' = Len(decisions) + 1
  /\ stamp' = now.sec
  /\ pc' = IF secret = NoSecret THEN "insert" ELSE "persist"
  /\ UNCHANGED <<now, secret, cache, files, startup, out,
                 slip, voided, upsets>>

(* persist_line(cache_path): the line of the decision in cur.              *)
CacheLine == [key |-> decisions[cur].key, rev |-> decisions[cur].rev,
              effect |-> decisions[cur].effect, expires_epoch |-> stamp + TTL,
              mac |-> secret, src |-> cur]

Persist ==
  /\ pc = "persist"
  /\ active' = AppendWhole(Contents(active), CacheLine)
  /\ pc' = "insert"
  /\ UNCHANGED <<now, secret, cache, rotated, startup, stamp, cur, out, history, upsets>>

PersistFails ==
  /\ pc = "persist"
  /\ Upset
  /\ active' \in AppendFailures(Contents(active), CacheLine) \cup {active}
  /\ out' = Fallback
  /\ pc' = "record"
  /\ UNCHANGED <<now, secret, cache, rotated, startup, stamp, cur, history>>

InsertDecision ==
  /\ pc = "insert"
  /\ LET d == decisions[cur] IN
     /\ cache' = Insert(cache, d.key, [rev |-> d.rev, effect |-> d.effect,
                                       expires |-> After(now, TTL), src |-> cur])
     /\ out' = Response("gateway", d.effect)
  /\ pc' = "record"
  /\ UNCHANGED <<now, secret, files, startup, stamp, cur, history, upsets>>

(* decide(): the requests that touch no decision: health, admin list (both  *)
(* ALLOW, not applied) and everything rejected (the fail-closed denial).   *)
Inquiry ==
  /\ pc = "serve"
  /\ out' \in {Response("inquiry", "ALLOW"), Fallback}
  /\ pc' = "record"
  /\ UNCHANGED <<now, secret, cache, files, startup, stamp, cur, history, upsets>>

(* Mutant of Rotate: the file is renamed and memory is kept.               *)
RotateFileOnly ==
  /\ pc = "serve"
  /\ Upset
  /\ active # NoFile
  /\ rotated' = active /\ active' = NoFile
  /\ out' = Response("rotate", "ALLOW")
  /\ voided' = Len(decisions)
  /\ pc' = "record"
  /\ UNCHANGED <<now, secret, cache, startup, stamp, cur, decisions, slip>>

(* decide(): admin rotate.  The rename may fail; memory is cleared anyway. *)
Rotate ==
  /\ pc = "serve"
  /\ Upset
  /\ \/ /\ active # NoFile
        /\ rotated' = active /\ active' = NoFile
        /\ out' = Response("rotate", "ALLOW")
     \/ /\ active = NoFile
        /\ UNCHANGED files
        /\ out' = Response("rotate", "ALLOW")
     \/ /\ active # NoFile
        /\ UNCHANGED files
        /\ out' = Fallback
  /\ cache' = EmptyCache
  /\ voided' = IF out'.kind = "rotate" THEN Len(decisions) ELSE voided
  /\ pc' = "record"
  /\ UNCHANGED <<now, secret, startup, stamp, cur,
                 decisions, slip>>

(* decide() returns and its locals are gone.                               *)
Return == pc' = "serve" /\ stamp' = 0 /\ cur' = 0 /\ out' = NoResponse

(* record(): the response is appended to the audit file, then sent.  *)
Record ==
  /\ pc = "record"
  /\ Return
  /\ UNCHANGED <<now, secret, cache, files, startup, decisions, slip, voided, upsets>>

RecordFails ==
  /\ pc = "record"
  /\ Upset
  /\ Return
  /\ UNCHANGED <<now, secret, cache, files, startup, decisions, slip, voided>>
-----------------------------------------------------------------------------
(* main(): startup.  The process dies on any error, which Crash covers.    *)

Start ==
  /\ pc = "down"
  /\ secret' \in Secrets \cup {NoSecret}
  /\ pc' = "open"
  /\ \E rotate \in BOOLEAN :   \* AGB_CACHE_ROTATE=1
       /\ IF rotate /\ active # NoFile
          THEN rotated' = active /\ active' = NoFile
          ELSE UNCHANGED files
       /\ IF rotate THEN Upset /\ voided' = Len(decisions)
          ELSE UNCHANGED <<voided, upsets>>
  /\ UNCHANGED <<now, cache, startup, stamp, cur, out,
                 decisions, slip>>

OpenCache ==
  /\ pc = "open"
  /\ loading' = IF active = NoFile THEN <<>> ELSE LinesOf(active)
  /\ stamp' = now.sec
  /\ pc' = "load"
  /\ UNCHANGED <<now, secret, cache, files, compact, cur, out, history, upsets>>

(* A line is accepted when it parses, carries the MAC of this process's    *)
(* key and has not expired; a later line for the same key replaces it.  A  *)
(* damaged line is skipped, or ends the loading if it is not UTF-8 either. *)
Accepted(line) == /\ line # Garbage
                  /\ line.mac = secret
                  /\ line.expires_epoch > stamp

(* Mutant of LoadLine: a loaded entry gets a new time to live.             *)
LoadLineRenewing ==
  /\ pc = "load" /\ loading # <<>>
  /\ LET line == Head(loading) IN
       cache' = IF Accepted(line)
                THEN Insert(cache, line.key,
                       [rev |-> line.rev, effect |-> line.effect, src |-> line.src,
                        expires |-> After(now, TTL)])
                ELSE cache
  /\ loading' = Tail(loading)
  /\ UNCHANGED <<now, pc, secret, files, compact, stamp, cur, out, history, upsets>>

(* Mutant of LoadLine: a line that is not accepted is read again.          *)
LoadLineInsisting ==
  /\ pc = "load" /\ loading # <<>>
  /\ Accepted(Head(loading))
  /\ LET line == Head(loading) IN
       cache' = Insert(cache, line.key,
                       [rev |-> line.rev, effect |-> line.effect, src |-> line.src,
                        expires |-> After(now, line.expires_epoch - stamp)])
  /\ loading' = Tail(loading)
  /\ UNCHANGED <<now, pc, secret, files, compact, stamp, cur, out, history, upsets>>

LoadLine ==
  /\ pc = "load" /\ loading # <<>>
  /\ LET line == Head(loading) IN
       cache' = IF Accepted(line)
                THEN Insert(cache, line.key,
                       [rev |-> line.rev, effect |-> line.effect, src |-> line.src,
                        expires |-> After(now, line.expires_epoch - stamp)])
                ELSE cache
  /\ loading' \in IF Head(loading) = Garbage THEN {Tail(loading), <<>>} ELSE {Tail(loading)}
  /\ UNCHANGED <<now, pc, secret, files, compact, stamp, cur, out, history, upsets>>

LoadDone ==
  /\ pc = "load" /\ loading = <<>>
  /\ pc' = IF DOMAIN cache = {} THEN "serve" ELSE "compact"
  /\ stamp' = IF DOMAIN cache = {} THEN 0 ELSE now.sec
  /\ compact' = <<>>
  /\ UNCHANGED <<now, secret, cache, files, loading, cur, out, history, upsets>>

Compacted == {compact[i].key : i \in DOMAIN compact}

(* Mutant of CompactEntry: the remaining time is rounded up.               *)
CompactEntryRoundingUp(k) ==
  /\ pc = "compact" /\ k \in DOMAIN cache \ Compacted
  /\ compact' = Append(compact,
       [key |-> k, rev |-> cache[k].rev, effect |-> cache[k].effect,
        expires_epoch |-> stamp + WholeSecondsUntil(now, cache[k].expires) + 1,
        mac |-> secret, src |-> cache[k].src])
  /\ UNCHANGED <<now, pc, secret, cache, files, loading, stamp, cur, out, history, upsets>>

(* The remaining time is rounded down to whole seconds once more.          *)
CompactEntry(k) ==
  /\ pc = "compact" /\ k \in DOMAIN cache \ Compacted
  /\ compact' = Append(compact,
       [key |-> k, rev |-> cache[k].rev, effect |-> cache[k].effect,
        expires_epoch |-> stamp + WholeSecondsUntil(now, cache[k].expires),
        mac |-> secret, src |-> cache[k].src])
  /\ UNCHANGED <<now, pc, secret, cache, files, loading, stamp, cur, out, history, upsets>>

CompactDone ==
  /\ pc = "compact" /\ DOMAIN cache = Compacted
  /\ active' = [lines |-> compact, tail |-> NoTail]
  /\ compact' = <<>> /\ stamp' = 0
  /\ pc' = "serve"
  /\ UNCHANGED <<now, secret, cache, rotated, loading, cur, out, history, upsets>>

(* The process is killed or leaves main() with an error.                   *)
Crash ==
  /\ pc # "down"
  /\ Upset
  /\ pc' = "down"
  /\ secret' = NoSecret
  /\ cache' = EmptyCache
  /\ loading' = <<>> /\ compact' = <<>>
  /\ stamp' = 0 /\ cur' = 0
  /\ out' = NoResponse
  /\ UNCHANGED <<now, files, history>>
-----------------------------------------------------------------------------
(* agb-admin-server "rotate" and agb-cachectl "rotate": the file only.     *)
AdminRotate ==
  /\ active # NoFile
  /\ Upset
  /\ rotated' = active /\ active' = NoFile
  /\ UNCHANGED <<now, pc, secret, cache, startup, stamp, cur, out, history>>

(* agb-cachectl "rollback": refuses to replace an active file.             *)
AdminRollback ==
  /\ active = NoFile /\ rotated # NoFile
  /\ Upset
  /\ active' = rotated /\ rotated' = NoFile
  /\ voided' = 0
  /\ UNCHANGED <<now, pc, secret, cache, startup, stamp, cur, out, decisions, slip>>
-----------------------------------------------------------------------------
BrokerStep ==
  \/ Persist \/ PersistFails \/ InsertDecision
  \/ Record \/ RecordFails
  \/ OpenCache \/ LoadLine \/ LoadDone
  \/ \E k \in Keys : CompactEntry(k)
  \/ CompactDone

Request ==
  \/ \E k \in Keys, r \in Revisions : Hit(k, r)
  \/ \E k \in Keys, r \in Revisions, e \in Effects : Miss(k, r, e)
  \/ Inquiry
  \/ Rotate

Next == \/ Tick \/ BrokerStep \/ Request \/ Start \/ Crash
        \/ AdminRotate \/ AdminRollback

Spec == Init /\ [][Next]_vars

(* The daemon runs its own code to the end; clients, operators, the clock  *)
(* and crashes owe nothing.                                                *)
FairSpec == Spec /\ WF_vars(BrokerStep)
-----------------------------------------------------------------------------
Lines == PersistedCache \cup {Garbage}
Files == [lines : Seq(Lines), tail : PersistedCache \cup {NoTail, Torn}]
Responses == [kind : {"none", "fallback", "hit", "gateway", "inquiry", "rotate"},
              effect : Effects]

Decisions == [key : Keys, rev : Revisions, effect : Effects, at : Instants, slip : Nat]

(* The type of every variable.                                             *)
TypeOK ==
  /\ now \in Instants
  /\ pc \in {"down", "open", "load", "compact", "serve", "persist", "insert", "record"}
  /\ secret \in Secrets \cup {NoSecret}
  /\ DOMAIN cache \in SUBSET Keys
  /\ cache \in [DOMAIN cache -> Cached]
  /\ active \in Files \cup {NoFile}
  /\ rotated \in Files \cup {NoFile}
  /\ loading \in Seq(Lines)
  /\ compact \in Seq(PersistedCache)
  /\ stamp \in Nat /\ cur \in Nat
  /\ out \in Responses
  /\ decisions \in Seq(Decisions)
  /\ slip \in Nat
  /\ voided \in Nat /\ upsets \in Nat

(* A cache hit returns what the gateway decided for exactly this namespace, *)
(* resource and policy revision (decide, the versioned cache), through any *)
(* number of restarts, torn writes, compactions and rotations.             *)
HitMatchesDecision ==
  [][\A k \in Keys, r \in Revisions :
       Hit(k, r) => LET d == decisions[cache[k].src] IN
                    d.key = k /\ d.rev = r /\ d.effect = out'.effect]_vars

(* A cache hit is never served TTL + 1 seconds or more after the gateway   *)
(* decided, over any number of restarts: loading and compacting round the  *)
(* deadline but do not push it out.  Only the seconds that pass between a  *)
(* clock reading and its use (slip) come on top.                           *)
HitWithinTTL ==
  [][\A k \in Keys, r \in Revisions :
       Hit(k, r) => LET d == decisions[cache[k].src] IN
                    now.sec <= d.at.sec + TTL + (slip - d.slip)]_vars

(* After a rotation that the broker reported as done, or that it made at   *)
(* startup, no earlier decision is in its cache, unless an operator rolls  *)
(* the file back.                                                          *)
RotationVoidsCache == \A k \in DOMAIN cache : cache[k].src > voided

(* The inductive invariant behind the three properties above.              *)

(* They take the decisions ds, the slip sl and the second t they are about *)
(* as parameters, so that two moments can be compared.                     *)

(* Second sec is at most the deadline of decision d, and slip since then.  *)
InTime(sec, d, sl) == sec <= d.at.sec + TTL + (sl - d.slip)

(* e, a cache entry or line for key k, is what decision e.src says.        *)
FromDecision(e, k, ds, sl) ==
  /\ e.src \in DOMAIN ds
  /\ ds[e.src].key = k
  /\ ds[e.src].rev = e.rev
  /\ ds[e.src].effect = e.effect
  /\ ds[e.src].slip <= sl

CacheSound(c, ds, sl) ==
  \A k \in DOMAIN c : /\ FromDecision(c[k], k, ds, sl)
                      /\ InTime(c[k].expires.sec, ds[c[k].src], sl)

(* A line has expired for every later reader or its deadline is in time.   *)
LineSound(line, ds, sl, t) ==
  line \in PersistedCache =>
    /\ FromDecision(line, line.key, ds, sl)
    /\ line.expires_epoch <= t \/ InTime(line.expires_epoch, ds[line.src], sl)

LinesSound(lines, ds, sl, t) ==
  \A i \in DOMAIN lines : LineSound(lines[i], ds, sl, t)

FileSound(file, ds, sl, t) ==
  file # NoFile => /\ LinesSound(file.lines, ds, sl, t)
                   /\ LineSound(file.tail, ds, sl, t)

(* A line the loader will accept: the seconds since it read the clock are  *)
(* already slip.                                                           *)
LoadSound ==
  pc = "load" =>
    \A i \in DOMAIN loading :
      loading[i] \in PersistedCache /\ loading[i].expires_epoch > stamp =>
        InTime(loading[i].expires_epoch + (now.sec - stamp),
               decisions[loading[i].src], slip)

(* The decision in flight, between the clock reading and the insertion.    *)
PendingSound ==
  pc \in {"persist", "insert"} =>
    /\ cur \in DOMAIN decisions
    /\ stamp = decisions[cur].at.sec
    /\ now.sec <= stamp + (slip - decisions[cur].slip)
    /\ decisions[cur].slip <= slip
    /\ pc = "persist" => secret \in Secrets

PhaseSound ==
  /\ pc \in {"load", "compact", "persist", "insert"} => stamp <= now.sec
  /\ pc # "load" => loading = <<>>
  /\ pc # "compact" => compact = <<>>
  /\ pc \in {"down", "open"} => DOMAIN cache = {}
  /\ secret = NoSecret /\ pc \in {"load", "compact"} => DOMAIN cache = {}

(* Nothing void is left where the running broker can find it.              *)
LinesUnvoided(lines, v) ==
  \A i \in DOMAIN lines : lines[i] \in PersistedCache => lines[i].src > v

FileUnvoided(file, v) ==
  file # NoFile => /\ LinesUnvoided(file.lines, v)
                   /\ file.tail \in PersistedCache => file.tail.src > v

RotationSound ==
  /\ voided <= Len(decisions)
  /\ RotationVoidsCache
  /\ LinesUnvoided(loading, voided)
  /\ LinesUnvoided(compact, voided)
  /\ FileUnvoided(active, voided)
  /\ pc \in {"persist", "insert"} => cur > voided

(* Every entry in memory, in a file, or on its way from one to the other   *)
(* stems from a gateway decision, respects its deadline and has not been   *)
(* voided by a rotation.                                                   *)
Sound ==
  /\ CacheSound(cache, decisions, slip)
  /\ FileSound(active, decisions, slip, now.sec)
  /\ FileSound(rotated, decisions, slip, now.sec)
  /\ LinesSound(loading, decisions, slip, now.sec)
  /\ LinesSound(compact, decisions, slip, now.sec)
  /\ LoadSound /\ PendingSound /\ PhaseSound /\ RotationSound

(* A request that was taken up is answered and a startup comes to serve,   *)
(* unless the process dies.                                                *)
Responsive == (pc # "serve") ~> (pc \in {"serve", "down"})
=============================================================================
