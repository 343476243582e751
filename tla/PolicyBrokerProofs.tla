------------------------- MODULE PolicyBrokerProofs -------------------------
(***************************************************************************)
(* Proofs about PolicyBroker, for every value of its constants: the type   *)
(* invariant and the deadline, provenance and rotation properties, from    *)
(* one inductive invariant (TypeOK /\ Sound).                              *)
(***************************************************************************)
EXTENDS PolicyBroker, SequenceTheorems, TLAPS

(* Inserting a typed entry keeps a cache typed (HashMap::insert).          *)
LEMMA InsertType ==
  ASSUME NEW map, DOMAIN map \in SUBSET Keys, map \in [DOMAIN map -> Cached],
         NEW k \in Keys, NEW entry \in Cached
  PROVE  /\ DOMAIN Insert(map, k, entry) = DOMAIN map \cup {k}
         /\ DOMAIN Insert(map, k, entry) \in SUBSET Keys
         /\ Insert(map, k, entry) \in [DOMAIN Insert(map, k, entry) -> Cached]
         /\ Insert(map, k, entry)[k] = entry
         /\ \A x \in DOMAIN map \ {k} : Insert(map, k, entry)[x] = map[x]
  BY DEF Insert

(* A deadline some seconds ahead is an Instant again.                      *)
LEMMA AfterType ==
  ASSUME NEW t \in Instants, NEW n \in Nat
  PROVE  /\ After(t, n) \in Instants
         /\ After(t, n).sec = t.sec + n
  BY DEF After, Instants

(* The rounded remaining time is a natural number, and adding it to an     *)
(* earlier clock reading never passes the deadline.                        *)
LEMMA WholeSeconds ==
  ASSUME NEW t \in Instants, NEW deadline \in Instants
  PROVE  LET w == WholeSecondsUntil(t, deadline) IN
           /\ w \in Nat
           /\ w = 0 \/ t.sec + w <= deadline.sec
  BY DEF WholeSecondsUntil, Before, Instants

(* Every outcome of an append leaves a file.                               *)
LEMMA AppendType ==
  ASSUME NEW file \in Files, NEW rec \in PersistedCache
  PROVE  /\ AppendWhole(file, rec) \in Files
         /\ AppendTorn(file) \in Files
         /\ AppendUnterminated(file, rec) \in Files
  BY DEF AppendWhole, AppendTorn, AppendUnterminated, Files, Lines

LEMMA ContentsType ==
  ASSUME NEW file \in Files \cup {NoFile}
  PROVE  Contents(file) \in Files
  BY DEF Contents, EmptyFile, Files, Lines

LEMMA LinesOfType ==
  ASSUME NEW file \in Files
  PROVE  LinesOf(file) \in Seq(Lines)
  BY DEF LinesOf, Files, Lines

(* The lines the loader has still to read.                                *)
LEMMA LoadedHead ==
  ASSUME NEW s \in Seq(Lines), s # <<>>
  PROVE  /\ Head(s) = s[1] /\ 1 \in DOMAIN s /\ s[1] \in Lines
         /\ Tail(s) \in Seq(Lines)
         /\ \A i \in DOMAIN Tail(s) : i + 1 \in DOMAIN s /\ Tail(s)[i] = s[i + 1]
  <1>1. Len(s) \in Nat /\ Len(s) # 0 /\ DOMAIN s = 1 .. Len(s)
    BY EmptySeq
  <1> QED BY <1>1, HeadTailProperties
-----------------------------------------------------------------------------
(* What TypeOK needs to be inductive: a decision in flight exists, and only *)
(* a process with a key writes lines.                                      *)
Typed == TypeOK /\ PendingSound /\ PhaseSound

LEMMA TypeInit == Init => TypeOK
  BY BrokerConstants
  DEF Init, TypeOK, Instants, EmptyCache, Responses, NoResponse, Response, Effects

LEMMA CacheLineType ==
  ASSUME Typed, pc = "persist"
  PROVE  CacheLine \in PersistedCache
  <1>1. decisions[cur] \in Decisions /\ secret \in Secrets
    BY DEF Typed, TypeOK, PendingSound
  <1>2. stamp + TTL \in Nat /\ cur \in Nat
    BY BrokerConstants DEF Typed, TypeOK
  <1> QED BY <1>1, <1>2 DEF CacheLine, PersistedCache, Decisions

LEMMA TypeStep == Typed /\ [Next]_vars => TypeOK'
  <1> SUFFICES ASSUME Typed, [Next]_vars PROVE TypeOK'
    OBVIOUS
  <1> USE DEF Typed, files, startup, history
  <1>1. CASE Tick
    <2>1. /\ now.sec \in Nat /\ now.sub \in 0 .. SubsPerSecond - 1
          /\ slip \in Nat /\ SubsPerSecond \in Nat \ {0}
      BY BrokerConstants DEF TypeOK, Instants
    <2>2. \/ now' = [sec |-> now.sec, sub |-> now.sub + 1] /\ now.sub + 1 < SubsPerSecond
          \/ now' = [sec |-> now.sec + 1, sub |-> 0]
      BY <1>1 DEF Tick
    <2>3. now' \in Instants
      BY <2>1, <2>2 DEF Instants
    <2>4. slip' = slip \/ slip' = slip + 1
      BY <1>1 DEF Tick
    <2>5. slip' \in Nat
      BY <2>1, <2>4
    <2> QED BY <1>1, <2>3, <2>5 DEF TypeOK, Tick
  <1>2. ASSUME NEW k \in Keys, NEW r \in Revisions, Hit(k, r) PROVE TypeOK'
    BY <1>2 DEF TypeOK, Hit, IsHit, Responses, Response, Cached
  <1>3. ASSUME NEW k \in Keys, NEW r \in Revisions, NEW e \in Effects, Miss(k, r, e)
        PROVE  TypeOK'
    BY <1>3 DEF TypeOK, Miss, Decisions, Instants
  <1>4. CASE Inquiry
    BY <1>4 DEF TypeOK, Inquiry, Responses, Response, Fallback, Effects
  <1>5. CASE Rotate
    BY <1>5 DEF TypeOK, Rotate, Responses, Response, Fallback, Effects, EmptyCache, Upset
  <1>6. CASE Persist
    BY <1>6, CacheLineType, ContentsType, AppendType DEF TypeOK, Persist
  <1>7. CASE PersistFails
    <2>1. CacheLine \in PersistedCache /\ Contents(active) \in Files
      BY <1>7, CacheLineType, ContentsType DEF PersistFails, TypeOK
    <2>2. active' \in Files \cup {NoFile}
      BY <1>7, <2>1, AppendType DEF PersistFails, AppendFailures, TypeOK
    <2>3. out' \in Responses /\ upsets' \in Nat
      BY <1>7 DEF PersistFails, Responses, Response, Fallback, Effects, Upset, TypeOK
    <2> QED BY <1>7, <2>2, <2>3 DEF TypeOK, PersistFails
  <1>8. CASE InsertDecision
    <2> DEFINE d == decisions[cur]
               e == [rev |-> d.rev, effect |-> d.effect,
                     expires |-> After(now, TTL), src |-> cur]
    <2>1. d \in Decisions /\ cur \in Nat
      BY <1>8 DEF TypeOK, InsertDecision, PendingSound
    <2>2. e \in Cached /\ d.key \in Keys
      BY <2>1, AfterType, BrokerConstants DEF Cached, Decisions, TypeOK
    <2>3. cache' = Insert(cache, d.key, e) /\ out' = Response("gateway", d.effect)
      BY <1>8 DEF InsertDecision
    <2> HIDE DEF e, d
    <2>4. DOMAIN cache' \in SUBSET Keys /\ cache' \in [DOMAIN cache' -> Cached]
      BY <2>2, <2>3, InsertType DEF TypeOK
    <2>5. out' \in Responses
      BY <2>1, <2>3 DEF Responses, Response, Decisions
    <2> QED BY <1>8, <2>4, <2>5 DEF TypeOK, InsertDecision
  <1>9. CASE Record
    BY <1>9 DEF TypeOK, Record, Return, NoResponse, Responses, Response, Effects
  <1>10. CASE RecordFails
    BY <1>10 DEF TypeOK, RecordFails, Return, NoResponse, Responses, Response, Effects, Upset
  <1>11. CASE Start
    BY <1>11 DEF TypeOK, Start, Upset
  <1>12. CASE OpenCache
    BY <1>12, LinesOfType DEF TypeOK, OpenCache, Instants
  <1>13. CASE LoadLine
    <2> DEFINE line == Head(loading)
               e == [rev |-> line.rev, effect |-> line.effect, src |-> line.src,
                     expires |-> After(now, line.expires_epoch - stamp)]
    <2>1. line \in Lines /\ loading' \in Seq(Lines)
      <3>1. loading \in Seq(Lines) /\ loading # <<>> /\ loading' \in {Tail(loading), <<>>}
        BY <1>13 DEF LoadLine, TypeOK
      <3> QED BY <3>1, LoadedHead, EmptySeq
    <2>2. CASE Accepted(line)
      <3>1. line \in PersistedCache /\ line.expires_epoch - stamp \in Nat
        <4> HIDE DEF line
        <4>1. line \in PersistedCache /\ line.expires_epoch > stamp
          BY <2>1, <2>2 DEF Accepted, Lines
        <4>2. line.expires_epoch \in Nat
          BY <4>1 DEF PersistedCache
        <4>3. stamp \in Nat
          BY DEF TypeOK
        <4> QED BY <4>1, <4>2, <4>3
      <3>2. e \in Cached /\ line.key \in Keys
        BY <3>1, AfterType DEF Cached, PersistedCache, TypeOK
      <3>3. cache' = Insert(cache, line.key, e)
        BY <1>13, <2>2 DEF LoadLine
      <3> HIDE DEF e, line
      <3>4. DOMAIN cache' \in SUBSET Keys /\ cache' \in [DOMAIN cache' -> Cached]
        BY <3>2, <3>3, InsertType DEF TypeOK
      <3> QED BY <1>13, <2>1, <3>4 DEF TypeOK, LoadLine
    <2>3. CASE ~Accepted(line)
      BY <1>13, <2>1, <2>3 DEF TypeOK, LoadLine
    <2> QED BY <2>2, <2>3
  <1>14. CASE LoadDone
    BY <1>14 DEF TypeOK, LoadDone, Instants
  <1>15. ASSUME NEW k \in Keys, CompactEntry(k) PROVE TypeOK'
    <2>1. cache[k] \in Cached /\ secret \in Secrets
      BY <1>15 DEF CompactEntry, TypeOK, PhaseSound
    <2>2. stamp + WholeSecondsUntil(now, cache[k].expires) \in Nat
      <3>1. cache[k].expires \in Instants
        BY <2>1 DEF Cached
      <3>2. now \in Instants /\ stamp \in Nat
        BY DEF TypeOK
      <3>3. WholeSecondsUntil(now, cache[k].expires) \in Nat
        BY <3>1, <3>2, WholeSeconds
      <3> QED BY <3>2, <3>3
    <2>3. [key |-> k, rev |-> cache[k].rev, effect |-> cache[k].effect,
           expires_epoch |-> stamp + WholeSecondsUntil(now, cache[k].expires),
           mac |-> secret, src |-> cache[k].src] \in PersistedCache
      BY <2>1, <2>2 DEF PersistedCache, Cached
    <2> QED BY <1>15, <2>3 DEF TypeOK, CompactEntry
  <1>16. CASE CompactDone
    BY <1>16 DEF TypeOK, CompactDone, Files, Lines
  <1>17. CASE Crash
    BY <1>17 DEF TypeOK, Crash, EmptyCache, NoResponse, Responses, Response, Effects, Upset
  <1>18. CASE AdminRotate
    BY <1>18 DEF TypeOK, AdminRotate, Upset
  <1>19. CASE AdminRollback
    BY <1>19 DEF TypeOK, AdminRollback, Upset
  <1>20. CASE UNCHANGED vars
    BY <1>20 DEF TypeOK, vars
  <1> QED
    BY <1>1, <1>2, <1>3, <1>4, <1>5, <1>6, <1>7, <1>8, <1>9, <1>10, <1>11, <1>12,
       <1>13, <1>14, <1>15, <1>16, <1>17, <1>18, <1>19, <1>20
    DEF Next, BrokerStep, Request
-----------------------------------------------------------------------------
(* Soundness of an entry survives more decisions, more slip, more time.    *)
Grows(ds, sl, t, ds2, sl2, t2) ==
  /\ \A i \in DOMAIN ds : i \in DOMAIN ds2 /\ ds2[i] = ds[i]
  /\ sl <= sl2 /\ t <= t2

LEMMA SoundGrows ==
  ASSUME NEW ds \in Seq(Decisions), NEW ds2 \in Seq(Decisions),
         NEW sl \in Nat, NEW sl2 \in Nat, NEW t \in Nat, NEW t2 \in Nat,
         Grows(ds, sl, t, ds2, sl2, t2)
  PROVE  /\ \A line : LineSound(line, ds, sl, t) => LineSound(line, ds2, sl2, t2)
         /\ \A lines : LinesSound(lines, ds, sl, t) => LinesSound(lines, ds2, sl2, t2)
         /\ \A file : FileSound(file, ds, sl, t) => FileSound(file, ds2, sl2, t2)
         /\ \A c : c \in [DOMAIN c -> Cached] /\ CacheSound(c, ds, sl)
                      => CacheSound(c, ds2, sl2)
  <1>1. ASSUME NEW d \in Decisions, NEW sec \in Nat, InTime(sec, d, sl)
        PROVE  InTime(sec, d, sl2)
    BY <1>1, BrokerConstants DEF Grows, InTime, Decisions, Instants
  <1>2. ASSUME NEW e, NEW k, FromDecision(e, k, ds, sl)
        PROVE  /\ FromDecision(e, k, ds2, sl2)
               /\ ds[e.src] \in Decisions /\ ds2[e.src] = ds[e.src]
    <2>1. e.src \in DOMAIN ds /\ ds[e.src].slip <= sl
      BY <1>2 DEF FromDecision
    <2>2. e.src \in DOMAIN ds2 /\ ds2[e.src] = ds[e.src]
      BY <2>1 DEF Grows
    <2>3. ds[e.src] \in Decisions
      BY <2>1
    <2>4. ds[e.src].slip <= sl2
      BY <2>1, <2>3 DEF Grows, Decisions
    <2> QED BY <1>2, <2>2, <2>3, <2>4 DEF FromDecision
  <1>3. ASSUME NEW line, LineSound(line, ds, sl, t)
        PROVE  LineSound(line, ds2, sl2, t2)
    <2> SUFFICES ASSUME line \in PersistedCache
                 PROVE  /\ FromDecision(line, line.key, ds2, sl2)
                        /\ \/ line.expires_epoch <= t2
                           \/ InTime(line.expires_epoch, ds2[line.src], sl2)
      BY DEF LineSound
    <2>1. line.expires_epoch \in Nat
      BY DEF PersistedCache
    <2>2. FromDecision(line, line.key, ds, sl)
      BY <1>3 DEF LineSound
    <2>3. CASE line.expires_epoch <= t
      BY <1>2, <2>1, <2>2, <2>3 DEF Grows
    <2>4. CASE InTime(line.expires_epoch, ds[line.src], sl)
      BY <1>1, <1>2, <2>1, <2>2, <2>4
    <2> QED BY <1>3, <2>3, <2>4 DEF LineSound
  <1>4. ASSUME NEW lines, LinesSound(lines, ds, sl, t)
        PROVE  LinesSound(lines, ds2, sl2, t2)
    BY <1>3, <1>4 DEF LinesSound
  <1>5. ASSUME NEW file, FileSound(file, ds, sl, t)
        PROVE  FileSound(file, ds2, sl2, t2)
    BY <1>3, <1>4, <1>5 DEF FileSound
  <1>6. ASSUME NEW c, c \in [DOMAIN c -> Cached], CacheSound(c, ds, sl)
        PROVE  CacheSound(c, ds2, sl2)
    <2> SUFFICES ASSUME NEW k \in DOMAIN c
                 PROVE  /\ FromDecision(c[k], k, ds2, sl2)
                        /\ InTime(c[k].expires.sec, ds2[c[k].src], sl2)
      BY DEF CacheSound
    <2>1. FromDecision(c[k], k, ds, sl) /\ InTime(c[k].expires.sec, ds[c[k].src], sl)
      BY <1>6 DEF CacheSound
    <2>2. c[k].expires.sec \in Nat
      BY <1>6 DEF Cached, Instants
    <2> QED BY <1>1, <1>2, <2>1, <2>2
  <1> QED BY <1>3, <1>4, <1>5, <1>6

(* No step forgets a decision or turns a clock back.                       *)
LEMMA StepGrows ==
  TypeOK /\ [Next]_vars => Grows(decisions, slip, now.sec, decisions', slip', now.sec')
  <1> SUFFICES ASSUME TypeOK, [Next]_vars
               PROVE  Grows(decisions, slip, now.sec, decisions', slip', now.sec')
    OBVIOUS
  <1> USE DEF TypeOK, Grows, Instants
  <1>1. CASE Tick
    BY <1>1 DEF Tick
  <1>2. ASSUME NEW k \in Keys, NEW r \in Revisions, NEW e \in Effects, Miss(k, r, e)
        PROVE  Grows(decisions, slip, now.sec, decisions', slip', now.sec')
    BY <1>2 DEF Miss
  <1>3. CASE decisions' = decisions /\ slip' = slip /\ now' = now
    BY <1>3
  <1> QED
    BY <1>1, <1>2, <1>3
    DEF Next, BrokerStep, Request, Hit, Inquiry, Rotate, Persist, PersistFails,
        InsertDecision, Record, RecordFails, Start, OpenCache, LoadLine, LoadDone,
        CompactEntry, CompactDone, Crash, AdminRotate, AdminRollback, vars, history
-----------------------------------------------------------------------------
(* A failed or successful append of a sound line leaves a sound file.      *)
LEMMA AppendSound ==
  ASSUME NEW file \in Files, NEW rec \in PersistedCache, NEW ds, NEW sl, NEW t,
         FileSound(file, ds, sl, t), LineSound(rec, ds, sl, t)
  PROVE  \A f \in AppendFailures(file, rec) : FileSound(f, ds, sl, t)
  <1>1. LineSound(Garbage, ds, sl, t) /\ LineSound(Torn, ds, sl, t)
        /\ LineSound(NoTail, ds, sl, t)
    BY FileMarkers DEF LineSound
  <1>2. file # NoFile
    BY FileMarkers DEF Files, Lines
  <1>3. LinesSound(file.lines, ds, sl, t) /\ file.lines \in Seq(Lines)
    BY <1>2 DEF FileSound, Files
  <1>4. ASSUME NEW x \in {rec, Garbage}
        PROVE  LinesSound(Append(file.lines, x), ds, sl, t)
    BY <1>1, <1>3 DEF LinesSound, Lines
  <1>5. FileSound(AppendWhole(file, rec), ds, sl, t)
    BY <1>1, <1>4 DEF FileSound, AppendWhole
  <1>6. FileSound(AppendTorn(file), ds, sl, t)
    BY <1>1, <1>3 DEF FileSound, AppendTorn
  <1>7. FileSound(AppendUnterminated(file, rec), ds, sl, t)
    BY <1>1, <1>3 DEF FileSound, AppendUnterminated
  <1> QED BY <1>5, <1>6, <1>7 DEF AppendFailures

LEMMA AppendUnvoided ==
  ASSUME NEW file \in Files, NEW rec \in PersistedCache, NEW v \in Nat,
         FileUnvoided(file, v), rec.src > v
  PROVE  \A f \in AppendFailures(file, rec) : FileUnvoided(f, v)
  <1>2. file # NoFile
    BY FileMarkers DEF Files, Lines
  <1>3. LinesUnvoided(file.lines, v) /\ file.lines \in Seq(Lines)
    BY <1>2 DEF FileUnvoided, Files
  <1>4. ASSUME NEW x \in {rec, Garbage}
        PROVE  LinesUnvoided(Append(file.lines, x), v)
    BY <1>3, FileMarkers DEF LinesUnvoided, Lines
  <1>5. FileUnvoided(AppendWhole(file, rec), v)
    BY <1>4, FileMarkers DEF FileUnvoided, AppendWhole
  <1>6. FileUnvoided(AppendTorn(file), v)
    BY <1>3, FileMarkers DEF FileUnvoided, AppendTorn
  <1>7. FileUnvoided(AppendUnterminated(file, rec), v)
    BY <1>3, FileMarkers DEF FileUnvoided, AppendUnterminated
  <1> QED BY <1>5, <1>6, <1>7 DEF AppendFailures

(* Opening a sound file yields sound lines.                                *)
LEMMA LinesOfSound ==
  ASSUME NEW file \in Files, NEW ds, NEW sl, NEW t, NEW v \in Nat,
         FileSound(file, ds, sl, t), FileUnvoided(file, v)
  PROVE  LinesSound(LinesOf(file), ds, sl, t) /\ LinesUnvoided(LinesOf(file), v)
  <1>1. file # NoFile /\ file.lines \in Seq(Lines)
        /\ file.tail \in PersistedCache \cup {NoTail, Torn}
    BY FileMarkers DEF Files, Lines
  <1>2. LinesSound(file.lines, ds, sl, t) /\ LineSound(file.tail, ds, sl, t)
        /\ LinesUnvoided(file.lines, v)
        /\ (file.tail \in PersistedCache => file.tail.src > v)
    BY <1>1 DEF FileSound, FileUnvoided
  <1>3. LineSound(Garbage, ds, sl, t)
    BY FileMarkers DEF LineSound
  <1>4. CASE file.tail = NoTail
    BY <1>2, <1>4 DEF LinesOf
  <1>5. CASE file.tail # NoTail
    <2> DEFINE x == IF file.tail = Torn THEN Garbage ELSE file.tail
    <2>1. /\ x \in Lines /\ LineSound(x, ds, sl, t)
          /\ (x \in PersistedCache => x.src > v)
      BY <1>1, <1>2, <1>3, <1>5, FileMarkers DEF Lines
    <2>2. LinesOf(file) = Append(file.lines, x)
      BY <1>5 DEF LinesOf
    <2> HIDE DEF x
    <2>3. LinesSound(Append(file.lines, x), ds, sl, t)
      BY <1>1, <1>2, <2>1 DEF LinesSound
    <2>4. LinesUnvoided(Append(file.lines, x), v)
      BY <1>1, <1>2, <2>1 DEF LinesUnvoided
    <2> QED BY <2>2, <2>3, <2>4
  <1> QED BY <1>4, <1>5

(* The line of the decision in flight is sound.                            *)
LEMMA CacheLineSound ==
  ASSUME TypeOK, Sound, pc = "persist"
  PROVE  /\ CacheLine \in PersistedCache
         /\ LineSound(CacheLine, decisions, slip, now.sec)
         /\ CacheLine.src > voided
  <1>1. CacheLine \in PersistedCache
    BY CacheLineType DEF Typed, Sound
  <1>2. cur \in DOMAIN decisions /\ stamp = decisions[cur].at.sec
        /\ decisions[cur].slip <= slip /\ cur > voided
    BY DEF Sound, PendingSound, RotationSound
  <1>3. decisions[cur] \in Decisions
    BY <1>2 DEF TypeOK
  <1>35. /\ decisions[cur].at.sec \in Nat /\ decisions[cur].slip \in Nat
         /\ slip \in Nat /\ TTL \in Nat
    <2>1. decisions[cur].at \in Instants /\ decisions[cur].slip \in Nat
      BY <1>3 DEF Decisions
    <2>2. decisions[cur].at.sec \in Nat
      BY <2>1 DEF Instants
    <2> QED BY <2>1, <2>2, BrokerConstants DEF TypeOK
  <1>4. InTime(stamp + TTL, decisions[cur], slip)
    BY <1>2, <1>35 DEF InTime
  <1>5. FromDecision(CacheLine, CacheLine.key, decisions, slip)
    BY <1>2 DEF FromDecision, CacheLine
  <1>6. CacheLine.expires_epoch = stamp + TTL /\ CacheLine.src = cur
    BY DEF CacheLine
  <1> HIDE DEF CacheLine
  <1>7. LineSound(CacheLine, decisions, slip, now.sec)
    BY <1>4, <1>5, <1>6 DEF LineSound
  <1> QED BY <1>1, <1>2, <1>6, <1>7
-----------------------------------------------------------------------------
(* One lemma per conjunct of Sound, one step per action that disturbs it.  *)

(* What is left alone stays sound.                                         *)
LEMMA Carried ==
  ASSUME TypeOK, TypeOK', Sound, [Next]_vars
  PROVE  /\ CacheSound(cache, decisions', slip')
         /\ FileSound(active, decisions', slip', now.sec')
         /\ FileSound(rotated, decisions', slip', now.sec')
         /\ LinesSound(loading, decisions', slip', now.sec')
         /\ LinesSound(compact, decisions', slip', now.sec')
  <1>1. Grows(decisions, slip, now.sec, decisions', slip', now.sec')
    BY StepGrows
  <1>2. /\ decisions \in Seq(Decisions) /\ decisions' \in Seq(Decisions)
        /\ slip \in Nat /\ slip' \in Nat /\ now.sec \in Nat /\ now.sec' \in Nat
        /\ cache \in [DOMAIN cache -> Cached]
    BY DEF TypeOK, Instants
  <1> QED BY <1>1, <1>2, SoundGrows DEF Sound

(* Inserting a sound entry keeps the cache sound.                          *)
LEMMA InsertSound ==
  ASSUME NEW c, c \in [DOMAIN c -> Cached], NEW k \in Keys, NEW e \in Cached,
         NEW ds, NEW sl, CacheSound(c, ds, sl),
         FromDecision(e, k, ds, sl), InTime(e.expires.sec, ds[e.src], sl)
  PROVE  CacheSound(Insert(c, k, e), ds, sl)
  <1> DEFINE c2 == Insert(c, k, e)
  <1>1. /\ DOMAIN c2 = DOMAIN c \cup {k} /\ c2[k] = e
        /\ \A x \in DOMAIN c \ {k} : c2[x] = c[x]
    BY DEF Insert
  <1> HIDE DEF c2
  <1>2. CacheSound(c2, ds, sl)
    BY <1>1 DEF CacheSound
  <1> QED BY <1>2 DEF c2

LEMMA CacheStep ==
  ASSUME TypeOK, TypeOK', Sound, [Next]_vars
  PROVE  CacheSound(cache', decisions', slip')
  <1> USE DEF files, startup, history
  <1>1. CASE InsertDecision
    <2>1. /\ cur \in DOMAIN decisions /\ stamp = decisions[cur].at.sec
          /\ now.sec <= stamp + (slip - decisions[cur].slip) /\ decisions[cur].slip <= slip
      BY <1>1 DEF InsertDecision, Sound, PendingSound
    <2>2. PICK d \in Decisions : d = decisions[cur]
      BY <2>1 DEF TypeOK
    <2>3. PICK e : e = [rev |-> d.rev, effect |-> d.effect,
                        expires |-> After(now, TTL), src |-> cur]
      OBVIOUS
    <2>4. cache' = Insert(cache, d.key, e) /\ decisions' = decisions /\ slip' = slip
      BY <1>1, <2>2, <2>3 DEF InsertDecision
    <2>5. e \in Cached /\ d.key \in Keys /\ e.expires.sec = now.sec + TTL
      <3>1. now \in Instants /\ cur \in Nat /\ TTL \in Nat
        BY BrokerConstants DEF TypeOK
      <3>2. After(now, TTL) \in Instants /\ After(now, TTL).sec = now.sec + TTL
        BY <3>1, AfterType
      <3> QED BY <2>3, <3>1, <3>2 DEF Cached, Decisions
    <2>6. InTime(e.expires.sec, d, slip)
      <3>1. now.sec \in Nat /\ slip \in Nat /\ TTL \in Nat /\ d.at.sec \in Nat /\ d.slip \in Nat
        BY BrokerConstants DEF TypeOK, Decisions, Instants
      <3>2. now.sec <= d.at.sec + (slip - d.slip)
        BY <2>1, <2>2
      <3> QED BY <2>5, <3>1, <3>2 DEF InTime
    <2>7. e.src = cur /\ FromDecision(e, d.key, decisions, slip)
      BY <2>1, <2>2, <2>3 DEF FromDecision
    <2>8. InTime(e.expires.sec, decisions[e.src], slip)
      BY <2>2, <2>6, <2>7
    <2>9. cache \in [DOMAIN cache -> Cached] /\ CacheSound(cache, decisions, slip)
      BY DEF TypeOK, Sound
    <2> QED BY <2>4, <2>5, <2>7, <2>8, <2>9, InsertSound
  <1>2. CASE LoadLine
    <2>1. pc = "load" /\ loading \in Seq(Lines) /\ loading # <<>>
          /\ decisions' = decisions /\ slip' = slip
      BY <1>2 DEF LoadLine, TypeOK
    <2>2. PICK line \in Lines : line = Head(loading) /\ line = loading[1] /\ 1 \in DOMAIN loading
      BY <2>1, LoadedHead
    <2>3. CASE Accepted(line)
      <3>1. line \in PersistedCache /\ line.expires_epoch > stamp
        BY <2>2, <2>3 DEF Accepted, Lines
      <3>2. line.expires_epoch - stamp \in Nat /\ line.expires_epoch \in Nat /\ stamp \in Nat
        <4>1. line.expires_epoch \in Nat
          BY <3>1 DEF PersistedCache
        <4>2. stamp \in Nat
          BY DEF TypeOK
        <4> QED BY <3>1, <4>1, <4>2
      <3>3. PICK e : e = [rev |-> line.rev, effect |-> line.effect, src |-> line.src,
                          expires |-> After(now, line.expires_epoch - stamp)]
        OBVIOUS
      <3>4. cache' = Insert(cache, line.key, e)
        BY <1>2, <2>2, <2>3, <3>3 DEF LoadLine
      <3>5. now \in Instants
        BY DEF TypeOK
      <3>6. /\ After(now, line.expires_epoch - stamp) \in Instants
            /\ After(now, line.expires_epoch - stamp).sec = now.sec + (line.expires_epoch - stamp)
        BY <3>2, <3>5, AfterType
      <3>7. e \in Cached /\ line.key \in Keys
            /\ e.expires.sec = now.sec + (line.expires_epoch - stamp) /\ e.src = line.src
        BY <3>1, <3>3, <3>6 DEF Cached, PersistedCache
      <3>8. InTime(line.expires_epoch + (now.sec - stamp), decisions[line.src], slip)
        BY <2>1, <2>2, <3>1 DEF Sound, LoadSound
      <3>9. now.sec + (line.expires_epoch - stamp) = line.expires_epoch + (now.sec - stamp)
        BY <3>2, <3>5 DEF Instants
      <3>10. InTime(e.expires.sec, decisions[e.src], slip)
        BY <3>7, <3>8, <3>9
      <3>11. FromDecision(line, line.key, decisions, slip)
        BY <2>1, <2>2, <3>1 DEF Sound, LinesSound, LineSound
      <3>12. FromDecision(e, line.key, decisions, slip)
        BY <3>3, <3>11 DEF FromDecision
      <3>13. cache \in [DOMAIN cache -> Cached] /\ CacheSound(cache, decisions, slip)
        BY DEF TypeOK, Sound
      <3> QED BY <2>1, <3>4, <3>7, <3>10, <3>12, <3>13, InsertSound
    <2>4. CASE ~Accepted(line)
      BY <1>2, <2>2, <2>4, Carried DEF LoadLine
    <2> QED BY <2>3, <2>4
  <1>3. CASE cache' = EmptyCache
    BY <1>3 DEF CacheSound, EmptyCache
  <1>4. CASE cache' = cache
    BY <1>4, Carried
  <1> QED
    BY <1>1, <1>2, <1>3, <1>4
    DEF Next, BrokerStep, Request, Tick, Hit, Miss, Inquiry, Rotate, Persist,
        PersistFails, Record, RecordFails, Start, OpenCache, LoadDone, CompactEntry,
        CompactDone, Crash, AdminRotate, AdminRollback, vars

(* Files: lines reach them whole (Persist, CompactDone), damaged           *)
(* (PersistFails) or by a rename.                                          *)
LEMMA FilesStep ==
  ASSUME TypeOK, TypeOK', Sound, [Next]_vars
  PROVE  /\ FileSound(active', decisions', slip', now.sec')
         /\ FileSound(rotated', decisions', slip', now.sec')
  <1> USE DEF files, startup, history
  <1>0. /\ FileSound(NoFile, decisions', slip', now.sec')
        /\ FileSound(active, decisions', slip', now.sec')
        /\ FileSound(rotated, decisions', slip', now.sec')
    BY Carried DEF FileSound
  <1>1. CASE Persist \/ PersistFails
    <2>1. pc = "persist" /\ decisions' = decisions /\ slip' = slip /\ now' = now
          /\ rotated' = rotated
      BY <1>1 DEF Persist, PersistFails
    <2>2. active \in Files \cup {NoFile}
      BY DEF TypeOK
    <2>3. Contents(active) \in Files
      BY <2>2, ContentsType
    <2>4. FileSound(Contents(active), decisions, slip, now.sec)
      <3>1. FileSound(EmptyFile, decisions, slip, now.sec)
        BY FileMarkers DEF FileSound, EmptyFile, LinesSound, LineSound
      <3> QED BY <3>1 DEF Contents, Sound
    <2>5. /\ CacheLine \in PersistedCache
          /\ LineSound(CacheLine, decisions, slip, now.sec)
      BY <2>1, CacheLineSound
    <2>6. \A f \in AppendFailures(Contents(active), CacheLine) :
             FileSound(f, decisions, slip, now.sec)
      BY <2>3, <2>4, <2>5, AppendSound
    <2>7. active' \in AppendFailures(Contents(active), CacheLine) \cup {active}
      BY <1>1 DEF Persist, PersistFails, AppendFailures
    <2> QED BY <1>0, <2>1, <2>6, <2>7
  <1>2. CASE CompactDone
    <2>1. LinesSound(compact, decisions', slip', now.sec')
      BY Carried
    <2>2. LineSound(NoTail, decisions', slip', now.sec')
      BY FileMarkers DEF LineSound
    <2>3. active' = [lines |-> compact, tail |-> NoTail] /\ rotated' = rotated
      BY <1>2 DEF CompactDone
    <2> QED BY <1>0, <2>1, <2>2, <2>3 DEF FileSound
  <1>3. CASE active' \in {active, rotated, NoFile} /\ rotated' \in {active, rotated, NoFile}
    BY <1>0, <1>3
  <1> QED
    BY <1>1, <1>2, <1>3
    DEF Next, BrokerStep, Request, Tick, Hit, Miss, Inquiry, Rotate,
        InsertDecision, LoadLine, Record, RecordFails, Start, OpenCache, LoadDone,
        CompactEntry, Crash, AdminRotate, AdminRollback, vars

(* An earlier moment is in time too.                                       *)
LEMMA InTimeEarlier ==
  ASSUME NEW d \in Decisions, NEW sl \in Nat, NEW a \in Nat, NEW b \in Nat,
         a <= b, InTime(b, d, sl)
  PROVE  InTime(a, d, sl)
  <1>1. d.at.sec \in Nat /\ d.slip \in Nat /\ TTL \in Nat
    BY BrokerConstants DEF Decisions, Instants
  <1> QED BY <1>1 DEF InTime

(* A line of the compacted file never outlives the entry it is made from.  *)
LEMMA CompactLineSound ==
  ASSUME TypeOK, Sound, NEW k \in Keys, CompactEntry(k),
         NEW line, line = [key |-> k, rev |-> cache[k].rev, effect |-> cache[k].effect,
                expires_epoch |-> stamp + WholeSecondsUntil(now, cache[k].expires),
                mac |-> secret, src |-> cache[k].src]
  PROVE  LineSound(line, decisions, slip, now.sec) /\ line.src = cache[k].src
  <1>1. k \in DOMAIN cache /\ stamp <= now.sec /\ stamp \in Nat /\ now \in Instants
    BY DEF CompactEntry, Sound, PhaseSound, TypeOK
  <1>2. cache[k] \in Cached /\ cache[k].expires \in Instants
    BY <1>1 DEF TypeOK, Cached
  <1>3. /\ FromDecision(cache[k], k, decisions, slip)
        /\ InTime(cache[k].expires.sec, decisions[cache[k].src], slip)
    BY <1>1 DEF Sound, CacheSound
  <1>4. FromDecision(line, line.key, decisions, slip)
    BY <1>3 DEF FromDecision
  <1>5. decisions[cache[k].src] \in Decisions
    BY <1>3 DEF FromDecision, TypeOK
  <1>6. PICK w \in Nat : /\ w = WholeSecondsUntil(now, cache[k].expires)
                         /\ w = 0 \/ now.sec + w <= cache[k].expires.sec
    BY <1>1, <1>2, WholeSeconds
  <1>7. line.expires_epoch = stamp + w /\ line.src = cache[k].src
    BY <1>6
  <1>8. stamp + w <= now.sec \/ stamp + w <= cache[k].expires.sec
    BY <1>1, <1>2, <1>6 DEF Instants
  <1>9. CASE stamp + w <= now.sec
    BY <1>4, <1>7, <1>9 DEF LineSound
  <1>10. CASE stamp + w <= cache[k].expires.sec
    <2>1. InTime(stamp + w, decisions[cache[k].src], slip)
      <3>1. stamp + w \in Nat /\ cache[k].expires.sec \in Nat /\ slip \in Nat
        BY <1>1, <1>2, <1>6 DEF Instants, TypeOK
      <3> QED BY <1>3, <1>5, <1>10, <3>1, InTimeEarlier
    <2> QED BY <1>4, <1>7, <2>1 DEF LineSound
  <1> QED BY <1>7, <1>8, <1>9, <1>10

LEMMA LinesStep ==
  ASSUME TypeOK, TypeOK', Sound, [Next]_vars
  PROVE  /\ LinesSound(loading', decisions', slip', now.sec')
         /\ LinesSound(compact', decisions', slip', now.sec')
  <1> USE DEF files, startup, history
  <1>0. /\ LinesSound(<<>>, decisions', slip', now.sec')
        /\ LinesSound(loading, decisions', slip', now.sec')
        /\ LinesSound(compact, decisions', slip', now.sec')
    BY Carried DEF LinesSound
  <1>1. CASE OpenCache
    <2>1. /\ active \in Files \cup {NoFile} /\ voided \in Nat
          /\ FileSound(active, decisions, slip, now.sec) /\ FileUnvoided(active, voided)
      BY DEF TypeOK, Sound, RotationSound
    <2>2. decisions' = decisions /\ slip' = slip /\ now' = now /\ compact' = compact
          /\ loading' = IF active = NoFile THEN <<>> ELSE LinesOf(active)
      BY <1>1 DEF OpenCache
    <2>3. active # NoFile => LinesSound(LinesOf(active), decisions, slip, now.sec)
      BY <2>1, LinesOfSound
    <2> QED BY <1>0, <2>2, <2>3
  <1>2. CASE LoadLine
    <2>1. loading \in Seq(Lines) /\ loading # <<>> /\ loading' \in {Tail(loading), <<>>}
          /\ compact' = compact
      BY <1>2 DEF LoadLine, TypeOK
    <2>2. LinesSound(Tail(loading), decisions', slip', now.sec')
      BY <1>0, <2>1, LoadedHead DEF LinesSound
    <2> QED BY <1>0, <2>1, <2>2
  <1>3. ASSUME NEW k \in Keys, CompactEntry(k)
        PROVE  /\ LinesSound(loading', decisions', slip', now.sec')
               /\ LinesSound(compact', decisions', slip', now.sec')
    <2>1. PICK line : line =
               [key |-> k, rev |-> cache[k].rev, effect |-> cache[k].effect,
                expires_epoch |-> stamp + WholeSecondsUntil(now, cache[k].expires),
                mac |-> secret, src |-> cache[k].src]
      OBVIOUS
    <2>2. LineSound(line, decisions, slip, now.sec)
      BY <1>3, <2>1, CompactLineSound
    <2>3. compact' = Append(compact, line) /\ loading' = loading
          /\ decisions' = decisions /\ slip' = slip /\ now' = now
      BY <1>3, <2>1 DEF CompactEntry
    <2>4. compact \in Seq(PersistedCache)
      BY DEF TypeOK
    <2>5. LinesSound(Append(compact, line), decisions, slip, now.sec)
      BY <1>0, <2>2, <2>3, <2>4 DEF LinesSound
    <2> QED BY <1>0, <2>3, <2>5
  <1>4. CASE loading' \in {loading, <<>>} /\ compact' \in {compact, <<>>}
    BY <1>0, <1>4
  <1> QED
    BY <1>1, <1>2, <1>3, <1>4
    DEF Next, BrokerStep, Request, Tick, Hit, Miss, Inquiry, Rotate, Persist,
        PersistFails, InsertDecision, Record, RecordFails, Start, LoadDone,
        CompactDone, Crash, AdminRotate, AdminRollback, vars

(* The loader: a second that begins under it is slip.                      *)
LEMMA LoadStep ==
  ASSUME TypeOK, TypeOK', Sound, [Next]_vars
  PROVE  LoadSound'
  <1> USE DEF files, startup, history
  <1>1. CASE OpenCache
    <2> SUFFICES ASSUME NEW i \in DOMAIN loading', loading'[i] \in PersistedCache,
                        loading'[i].expires_epoch > now.sec
                 PROVE  InTime(loading'[i].expires_epoch + (now.sec - now.sec),
                               decisions[loading'[i].src], slip)
      BY <1>1 DEF OpenCache, LoadSound
    <2>1. PICK line \in PersistedCache : line = loading'[i]
      OBVIOUS
    <2>2. LineSound(line, decisions, slip, now.sec)
      <3>1. LinesSound(loading', decisions', slip', now.sec')
        BY LinesStep
      <3>2. decisions' = decisions /\ slip' = slip /\ now' = now
        BY <1>1 DEF OpenCache
      <3> QED BY <2>1, <3>1, <3>2 DEF LinesSound
    <2>3. line.expires_epoch \in Nat /\ now.sec \in Nat
      BY DEF PersistedCache, TypeOK, Instants
    <2>4. InTime(line.expires_epoch, decisions[line.src], slip)
      BY <2>1, <2>2, <2>3 DEF LineSound
    <2>5. line.expires_epoch + (now.sec - now.sec) = line.expires_epoch
      BY <2>3
    <2> QED BY <2>1, <2>4, <2>5
  <1>2. CASE LoadLine
    <2>1. /\ loading \in Seq(Lines) /\ loading # <<>> /\ loading' \in {Tail(loading), <<>>}
          /\ pc = "load" /\ UNCHANGED <<pc, now, stamp, decisions, slip>>
      BY <1>2 DEF LoadLine, TypeOK
    <2>2. \A i \in DOMAIN Tail(loading) :
            i + 1 \in DOMAIN loading /\ Tail(loading)[i] = loading[i + 1]
      BY <2>1, LoadedHead
    <2>3. \A i \in DOMAIN loading' :
            i + 1 \in DOMAIN loading /\ loading'[i] = loading[i + 1]
      BY <2>1, <2>2
    <2>4. LoadSound
      BY DEF Sound
    <2> QED BY <2>1, <2>3, <2>4 DEF LoadSound
  <1>3. CASE Tick
    <2> SUFFICES ASSUME pc = "load", NEW i \in DOMAIN loading, loading[i] \in PersistedCache,
                        loading[i].expires_epoch > stamp
                 PROVE  InTime(loading[i].expires_epoch + (now'.sec - stamp),
                               decisions[loading[i].src], slip')
      BY <1>3 DEF Tick, LoadSound
    <2>1. PICK line \in PersistedCache : line = loading[i]
      OBVIOUS
    <2>2. PICK d \in Decisions : d = decisions[line.src]
      <3>1. LineSound(line, decisions, slip, now.sec)
        BY <2>1 DEF Sound, LinesSound
      <3>2. line.src \in DOMAIN decisions
        BY <3>1 DEF LineSound, FromDecision
      <3>3. decisions \in Seq(Decisions)
        BY DEF TypeOK
      <3> QED BY <3>2, <3>3
    <2>3. InTime(line.expires_epoch + (now.sec - stamp), d, slip)
      BY <2>1, <2>2 DEF Sound, LoadSound
    <2>4. /\ line.expires_epoch \in Nat /\ now.sec \in Nat /\ stamp \in Nat /\ slip \in Nat
          /\ d.at.sec \in Nat /\ d.slip \in Nat /\ TTL \in Nat
      BY BrokerConstants DEF PersistedCache, TypeOK, Instants, Decisions
    <2>5. \/ now'.sec = now.sec /\ slip' = slip
          \/ now'.sec = now.sec + 1 /\ slip' = slip + 1
      BY <1>3 DEF Tick
    <2>6. InTime(line.expires_epoch + (now'.sec - stamp), d, slip')
      BY <2>3, <2>4, <2>5 DEF InTime
    <2> QED BY <2>1, <2>2, <2>6
  <1>4. CASE pc' # "load"
    BY <1>4 DEF LoadSound
  <1>5. CASE UNCHANGED <<pc, now, stamp, loading, decisions, slip>>
    BY <1>5 DEF LoadSound, Sound
  <1> QED
    BY <1>1, <1>2, <1>3, <1>4, <1>5
    DEF Next, BrokerStep, Request, Hit, Miss, Inquiry, Rotate, Persist, PersistFails,
        InsertDecision, Record, RecordFails, Return, Start, LoadDone, CompactEntry,
        CompactDone, Crash, AdminRotate, AdminRollback, vars

(* The request in flight.                                                  *)
LEMMA PendingStep ==
  ASSUME TypeOK, PendingSound, [Next]_vars
  PROVE  PendingSound'
  <1> USE DEF files, startup, history
  <1>1. CASE Tick
    <2> SUFFICES ASSUME pc \in {"persist", "insert"} PROVE PendingSound'
      BY <1>1 DEF Tick, PendingSound
    <2>1. PICK d \in Decisions : d = decisions[cur]
      BY DEF PendingSound, TypeOK
    <2>2. /\ now.sec \in Nat /\ stamp \in Nat /\ slip \in Nat /\ d.slip \in Nat
      BY DEF TypeOK, Instants, Decisions
    <2>3. \/ now'.sec = now.sec /\ slip' = slip
          \/ now'.sec = now.sec + 1 /\ slip' = slip + 1
      BY <1>1 DEF Tick
    <2>4. now'.sec <= stamp + (slip' - d.slip) /\ d.slip <= slip'
      BY <2>1, <2>2, <2>3 DEF PendingSound
    <2> QED BY <1>1, <2>1, <2>4 DEF Tick, PendingSound
  <1>2. ASSUME NEW k \in Keys, NEW r \in Revisions, NEW e \in Effects, Miss(k, r, e)
        PROVE  PendingSound'
    <2>1. /\ decisions \in Seq(Decisions) /\ now.sec \in Nat /\ slip \in Nat
          /\ secret \in Secrets \cup {NoSecret}
      BY DEF TypeOK, Instants
    <2>2. PICK d : d = [key |-> k, rev |-> r, effect |-> e, at |-> now, slip |-> slip]
      OBVIOUS
    <2>3. /\ decisions' = Append(decisions, d) /\ cur' = Len(decisions) + 1
          /\ stamp' = now.sec /\ slip' = slip /\ now' = now /\ secret' = secret
          /\ pc' = IF secret = NoSecret THEN "insert" ELSE "persist"
      BY <1>2, <2>2 DEF Miss
    <2>4. cur' \in DOMAIN decisions' /\ decisions'[cur'] = d
      BY <2>1, <2>3
    <2>5. d.at.sec = now.sec /\ d.slip = slip
      BY <2>2
    <2>6. now.sec <= now.sec + (slip - slip) /\ slip <= slip
      BY <2>1
    <2> QED BY <2>1, <2>3, <2>4, <2>5, <2>6 DEF PendingSound
  <1>3. CASE Persist
    BY <1>3 DEF Persist, PendingSound
  <1>4. CASE pc' \notin {"persist", "insert"}
    BY <1>4 DEF PendingSound
  <1>5. CASE UNCHANGED <<pc, now, stamp, cur, decisions, slip, secret>>
    BY <1>5 DEF PendingSound
  <1> QED
    BY <1>1, <1>2, <1>3, <1>4, <1>5
    DEF Next, BrokerStep, Request, Hit, Inquiry, Rotate, PersistFails,
        InsertDecision, Record, RecordFails, Return, Start, OpenCache, LoadLine, LoadDone,
        CompactEntry, CompactDone, Crash, AdminRotate, AdminRollback, vars

(* What each phase of the process may rely on.                             *)
LEMMA PhaseStep ==
  ASSUME TypeOK, PhaseSound, [Next]_vars
  PROVE  PhaseSound'
  <1> USE DEF files, startup, history
  <1>0. now.sec \in Nat /\ stamp \in Nat /\ now.sec <= now.sec
    BY DEF TypeOK, Instants
  <1>1. CASE Tick
    <2>1. now'.sec = now.sec \/ now'.sec = now.sec + 1
      BY <1>1 DEF Tick
    <2> QED BY <1>0, <1>1, <2>1 DEF Tick, PhaseSound
  <1>2. CASE LoadLine
    <2>1. /\ pc = "load" /\ UNCHANGED <<pc, now, stamp, compact, secret>>
          /\ cache' # cache => Accepted(Head(loading)) /\ Head(loading).mac = secret
      BY <1>2 DEF LoadLine, Accepted
    <2>2. loading \in Seq(Lines) /\ loading # <<>>
      BY <1>2 DEF LoadLine, TypeOK
    <2>3. Head(loading) \in Lines
      BY <2>2, LoadedHead
    <2>4. secret = NoSecret => cache' = cache
      BY <2>1, <2>3, BrokerConstants DEF Accepted, Lines, PersistedCache
    <2> QED BY <2>1, <2>4 DEF PhaseSound
  <1>3. CASE OpenCache \/ LoadDone \/ CompactDone
    BY <1>0, <1>3 DEF OpenCache, LoadDone, CompactDone, PhaseSound
  <1>4. ASSUME NEW k \in Keys, CompactEntry(k) PROVE PhaseSound'
    BY <1>0, <1>4 DEF CompactEntry, PhaseSound
  <1>5. ASSUME NEW k \in Keys, NEW r \in Revisions, NEW e \in Effects, Miss(k, r, e)
        PROVE  PhaseSound'
    BY <1>0, <1>5 DEF Miss, PhaseSound
  <1>6. CASE Crash \/ Start
    BY <1>6 DEF Crash, Start, PhaseSound, EmptyCache
  <1>7. CASE Persist \/ PersistFails \/ InsertDecision \/ Record \/ RecordFails
    BY <1>7 DEF Persist, PersistFails, InsertDecision, Record, RecordFails, Return, PhaseSound
  <1>8. CASE Inquiry \/ Rotate \/ \E k \in Keys, r \in Revisions : Hit(k, r)
    BY <1>8 DEF Inquiry, Rotate, Hit, PhaseSound
  <1>9. CASE AdminRotate \/ AdminRollback \/ UNCHANGED vars
    BY <1>9 DEF AdminRotate, AdminRollback, vars, PhaseSound
  <1> QED
    BY <1>1, <1>2, <1>3, <1>4, <1>5, <1>6, <1>7, <1>8, <1>9
    DEF Next, BrokerStep, Request

(* Rotation: what is voided cannot come back from memory or from the file. *)
LEMMA RotationStep ==
  ASSUME TypeOK, TypeOK', Sound, [Next]_vars
  PROVE  RotationSound'
  <1> USE DEF files, startup, history
  <1>0. /\ voided \in Nat /\ decisions \in Seq(Decisions) /\ Len(decisions) \in Nat
        /\ RotationSound
    BY DEF TypeOK, Sound
  <1>1. CASE Persist \/ PersistFails
    <2>1. /\ pc = "persist" /\ pc' \in {"insert", "record"}
          /\ UNCHANGED <<decisions, voided, cache, loading, compact, cur>>
      BY <1>1 DEF Persist, PersistFails
    <2>2. Contents(active) \in Files
      BY ContentsType DEF TypeOK
    <2>3. FileUnvoided(Contents(active), voided)
      <3>1. FileUnvoided(EmptyFile, voided)
        BY FileMarkers DEF FileUnvoided, EmptyFile, LinesUnvoided
      <3> QED BY <1>0, <3>1 DEF Contents, RotationSound
    <2>4. CacheLine \in PersistedCache /\ CacheLine.src > voided
      BY <2>1, CacheLineSound
    <2>5. \A f \in AppendFailures(Contents(active), CacheLine) : FileUnvoided(f, voided)
      BY <1>0, <2>2, <2>3, <2>4, AppendUnvoided
    <2>6. active' \in AppendFailures(Contents(active), CacheLine) \cup {active}
      BY <1>1 DEF Persist, PersistFails, AppendFailures
    <2>7. FileUnvoided(active', voided)
      BY <1>0, <2>5, <2>6 DEF RotationSound
    <2> QED BY <1>0, <2>1, <2>7 DEF RotationSound, RotationVoidsCache
  <1>2. CASE InsertDecision
    <2>1. /\ pc' = "record" /\ UNCHANGED <<decisions, voided, active, loading, compact>>
          /\ cur > voided
      BY <1>0, <1>2 DEF InsertDecision, RotationSound
    <2>2. \A x \in DOMAIN cache' : \/ cache'[x].src = cur
                                   \/ x \in DOMAIN cache /\ cache'[x] = cache[x]
      <3>1. PICK k, e : cache' = Insert(cache, k, e) /\ e.src = cur
        BY <1>2 DEF InsertDecision
      <3>2. /\ DOMAIN cache' = DOMAIN cache \cup {k}
            /\ \A x \in DOMAIN cache \cup {k} : cache'[x] = IF x = k THEN e ELSE cache[x]
        BY <3>1 DEF Insert
      <3> QED BY <3>1, <3>2
    <2> QED BY <1>0, <2>1, <2>2 DEF RotationSound, RotationVoidsCache
  <1>3. CASE LoadLine
    <2>1. /\ loading \in Seq(Lines) /\ loading # <<>> /\ loading' \in {Tail(loading), <<>>} /\ pc = "load"
          /\ UNCHANGED <<pc, decisions, voided, active, compact>>
      BY <1>3 DEF LoadLine, TypeOK
    <2>2. LinesUnvoided(Tail(loading), voided) /\ LinesUnvoided(<<>>, voided)
      BY <1>0, <2>1, LoadedHead DEF RotationSound, LinesUnvoided
    <2>3. PICK line \in Lines : line = Head(loading) /\ line = loading[1] /\ 1 \in DOMAIN loading
      BY <2>1, LoadedHead
    <2>4. Accepted(line) => line.src > voided
      BY <1>0, <2>3 DEF RotationSound, LinesUnvoided, Accepted, Lines
    <2>5. \A x \in DOMAIN cache' : \/ Accepted(line) /\ cache'[x].src = line.src
                                   \/ x \in DOMAIN cache /\ cache'[x] = cache[x]
      BY <1>3, <2>3 DEF LoadLine, Insert
    <2> QED BY <1>0, <2>1, <2>2, <2>4, <2>5 DEF RotationSound, RotationVoidsCache
  <1>4. CASE OpenCache
    <2>1. active \in Files \cup {NoFile} /\ FileUnvoided(active, voided)
          /\ FileSound(active, decisions, slip, now.sec)
      BY <1>0 DEF TypeOK, Sound, RotationSound
    <2>2. active # NoFile => LinesUnvoided(LinesOf(active), voided)
      BY <1>0, <2>1, LinesOfSound
    <2>3. LinesUnvoided(loading', voided)
      BY <1>4, <2>2 DEF OpenCache, LinesUnvoided
    <2> QED BY <1>0, <1>4, <2>3 DEF OpenCache, RotationSound, RotationVoidsCache
  <1>5. ASSUME NEW k \in Keys, CompactEntry(k) PROVE RotationSound'
    <2>1. PICK line : line =
               [key |-> k, rev |-> cache[k].rev, effect |-> cache[k].effect,
                expires_epoch |-> stamp + WholeSecondsUntil(now, cache[k].expires),
                mac |-> secret, src |-> cache[k].src]
      OBVIOUS
    <2>2. /\ compact' = Append(compact, line) /\ pc = "compact" /\ k \in DOMAIN cache
          /\ UNCHANGED <<pc, decisions, voided, cache, active, loading>>
      BY <1>5, <2>1 DEF CompactEntry
    <2>3. line.src > voided /\ compact \in Seq(PersistedCache)
      BY <1>0, <2>1, <2>2 DEF RotationSound, RotationVoidsCache, TypeOK
    <2>4. LinesUnvoided(Append(compact, line), voided)
      BY <1>0, <2>3 DEF RotationSound, LinesUnvoided
    <2> QED BY <1>0, <2>2, <2>4 DEF RotationSound, RotationVoidsCache
  <1>6. CASE CompactDone
    <2>1. FileUnvoided(active', voided) /\ LinesUnvoided(compact', voided)
      BY <1>0, <1>6, FileMarkers DEF CompactDone, RotationSound, FileUnvoided, LinesUnvoided
    <2> QED BY <1>0, <1>6, <2>1 DEF CompactDone, RotationSound, RotationVoidsCache
  <1>7. CASE Rotate
    <2>1. loading = <<>> /\ compact = <<>>
      BY <1>7 DEF Rotate, Sound, PhaseSound
    <2>2. /\ cache' = EmptyCache /\ pc' = "record"
          /\ UNCHANGED <<decisions, loading, compact>>
          /\ \/ voided' = Len(decisions) /\ active' = NoFile
             \/ voided' = voided /\ active' = active
      BY <1>7 DEF Rotate, Response, Fallback
    <2>3. FileUnvoided(active', voided') /\ voided' <= Len(decisions)
      BY <1>0, <2>2 DEF RotationSound, FileUnvoided
    <2> QED BY <2>1, <2>2, <2>3 DEF RotationSound, RotationVoidsCache, LinesUnvoided, EmptyCache
  <1>8. CASE Start
    <2>1. loading = <<>> /\ compact = <<>> /\ DOMAIN cache = {}
      BY <1>8 DEF Start, Sound, PhaseSound
    <2>2. /\ pc' = "open" /\ UNCHANGED <<decisions, loading, compact, cache>>
          /\ \/ voided' = Len(decisions) /\ active' = NoFile
             \/ voided' = voided /\ active' = active
      BY <1>8 DEF Start
    <2>3. FileUnvoided(active', voided') /\ voided' <= Len(decisions)
      BY <1>0, <2>2 DEF RotationSound, FileUnvoided
    <2> QED BY <2>1, <2>2, <2>3 DEF RotationSound, RotationVoidsCache, LinesUnvoided
  <1>9. CASE AdminRollback
    <2>1. /\ voided' = 0 /\ active' = rotated
          /\ UNCHANGED <<pc, decisions, cache, loading, compact, cur>>
      BY <1>9 DEF AdminRollback
    <2>2. \A j \in DOMAIN decisions : j > 0
      BY <1>0
    <2>3. ASSUME NEW line \in PersistedCache, LineSound(line, decisions, slip, now.sec)
          PROVE  line.src > 0
      BY <2>2, <2>3 DEF LineSound, FromDecision
    <2>4. FileUnvoided(rotated, 0)
      BY <2>3 DEF Sound, FileSound, FileUnvoided, LinesSound, LinesUnvoided
    <2>5. LinesUnvoided(loading, 0) /\ LinesUnvoided(compact, 0)
      BY <2>3 DEF Sound, LinesSound, LinesUnvoided
    <2>6. \A x \in DOMAIN cache : cache[x].src > 0
      BY <2>2 DEF Sound, CacheSound, FromDecision
    <2>7. pc \in {"persist", "insert"} => cur > 0
      BY <2>2 DEF Sound, PendingSound
    <2> QED BY <1>0, <2>1, <2>4, <2>5, <2>6, <2>7 DEF RotationSound, RotationVoidsCache
  <1>10. CASE Crash
    BY <1>0, <1>10 DEF Crash, RotationSound, RotationVoidsCache, LinesUnvoided, EmptyCache
  <1>11. ASSUME NEW k \in Keys, NEW r \in Revisions, NEW e \in Effects, Miss(k, r, e)
         PROVE  RotationSound'
    <2>1. Len(decisions') = Len(decisions) + 1 /\ cur' = Len(decisions) + 1
      BY <1>0, <1>11 DEF Miss
    <2> QED BY <1>0, <1>11, <2>1 DEF Miss, RotationSound, RotationVoidsCache
  <1>12. CASE /\ UNCHANGED <<decisions, voided, cache, loading>>
              /\ compact' \in {compact, <<>>} /\ active' \in {active, NoFile}
              /\ pc' \in {"persist", "insert"} => UNCHANGED <<pc, cur>>
    BY <1>0, <1>12 DEF RotationSound, RotationVoidsCache, LinesUnvoided, FileUnvoided
  <1> QED
    BY <1>1, <1>2, <1>3, <1>4, <1>5, <1>6, <1>7, <1>8, <1>9, <1>10, <1>11, <1>12
    DEF Next, BrokerStep, Request, Tick, Hit, Inquiry, Record, RecordFails, Return,
        LoadDone, AdminRotate, vars
-----------------------------------------------------------------------------
LEMMA SoundInit == Init => Sound
  BY DEF Init, Sound, CacheSound, EmptyCache, FileSound, LinesSound, LoadSound,
         PendingSound, PhaseSound, RotationSound, RotationVoidsCache,
         LinesUnvoided, FileUnvoided

LEMMA SoundStep == TypeOK /\ Sound /\ [Next]_vars => TypeOK' /\ Sound'
  <1> SUFFICES ASSUME TypeOK, Sound, [Next]_vars PROVE TypeOK' /\ Sound'
    OBVIOUS
  <1>1. TypeOK'
    BY TypeStep DEF Typed, Sound
  <1>2. PendingSound' /\ PhaseSound'
    BY PendingStep, PhaseStep DEF Sound
  <1> QED
    BY <1>1, <1>2, CacheStep, FilesStep, LinesStep, LoadStep, RotationStep DEF Sound

(* Every reachable state of the broker is typed, and every entry in memory *)
(* or in a file is sound: it stems from a gateway decision, respects its   *)
(* deadline and is not void.                                               *)
THEOREM BrokerSound == Spec => [](TypeOK /\ Sound)
  <1>1. Init => TypeOK /\ Sound
    BY TypeInit, SoundInit
  <1> QED BY <1>1, SoundStep, PTL DEF Spec

(* Type correctness.                                                       *)
THEOREM BrokerType == Spec => []TypeOK
  BY BrokerSound, PTL

(* A rotation that the broker did voids every earlier decision for good,   *)
(* across crashes and restarts.                                            *)
THEOREM BrokerRotation == Spec => []RotationVoidsCache
  <1>1. Sound => RotationVoidsCache
    BY DEF Sound, RotationSound
  <1> QED BY <1>1, BrokerSound, PTL

(* A hit answers with the gateway's decision for that key and revision.    *)
THEOREM BrokerHitMatches == Spec => HitMatchesDecision
  <1> DEFINE Matches ==
        \A k \in Keys, r \in Revisions :
          Hit(k, r) => LET d == decisions[cache[k].src] IN
                       d.key = k /\ d.rev = r /\ d.effect = out'.effect
  <1>1. TypeOK /\ Sound /\ [Next]_vars => [Matches]_vars
    BY DEF Hit, IsHit, Sound, CacheSound, FromDecision, Response
  <1>2. Spec => [][Matches]_vars
    BY <1>1, BrokerSound, PTL DEF Spec
  <1> QED BY <1>2 DEF HitMatchesDecision

(* A hit is served within the time to live, slip aside, for every TTL,     *)
(* clock resolution and number of restarts.                                *)
THEOREM BrokerHitWithinTTL == Spec => HitWithinTTL
  <1> DEFINE Fresh ==
        \A k \in Keys, r \in Revisions :
          Hit(k, r) => LET d == decisions[cache[k].src] IN
                       now.sec <= d.at.sec + TTL + (slip - d.slip)
  <1>1. TypeOK /\ Sound /\ [Next]_vars => [Fresh]_vars
    <2> SUFFICES ASSUME TypeOK, Sound, NEW k \in Keys, NEW r \in Revisions, Hit(k, r)
                 PROVE  InTime(now.sec, decisions[cache[k].src], slip)
      BY DEF InTime
    <2>1. k \in DOMAIN cache /\ Before(now, cache[k].expires)
      BY DEF Hit, IsHit
    <2>2. /\ cache[k].expires \in Instants /\ now \in Instants /\ slip \in Nat
      BY <2>1 DEF TypeOK, Cached
    <2>3. now.sec <= cache[k].expires.sec /\ now.sec \in Nat /\ cache[k].expires.sec \in Nat
      BY <2>1, <2>2 DEF Before, Instants
    <2>4. /\ InTime(cache[k].expires.sec, decisions[cache[k].src], slip)
          /\ decisions[cache[k].src] \in Decisions
      BY <2>1 DEF Sound, CacheSound, FromDecision, TypeOK
    <2> QED BY <2>2, <2>3, <2>4, InTimeEarlier
  <1>2. Spec => [][Fresh]_vars
    BY <1>1, BrokerSound, PTL DEF Spec
  <1> QED BY <1>2 DEF HitWithinTTL
=============================================================================
