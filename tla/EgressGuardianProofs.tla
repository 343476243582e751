------------------------ MODULE EgressGuardianProofs ------------------------
(***************************************************************************)
(* Proofs about the runtime policy and about a protected launch, for any   *)
(* number of threads, namespaces, files, connects and faults.              *)
(*                                                                         *)
(* First the policy by itself.  A reload never puts an older snapshot in   *)
(* the place of a newer one, and decide() never uses one that is older     *)
(* than the file that was there when it was called.  The argument is the   *)
(* reload lock: between stat() and the swap a thread holds it, so nobody   *)
(* else changes what is loaded; what the thread read was on the path after *)
(* all that was loaded before.  The fingerprint may be that of an earlier  *)
(* file than the loaded one, never of a later.                             *)
(*                                                                         *)
(* Then the guardian.  It implements the runtime policy: each of its steps *)
(* is a step of RuntimePolicy or leaves the policy alone, so what is shown *)
(* of reloads holds under the guardian's threads.  On top of it, the       *)
(* verdict in hand is justified by the files since the connect, as long as *)
(* the notification is still that of the blocked call.                     *)
(***************************************************************************)
EXTENDS EgressGuardian, TLAPS

(* A thread that reloads holds the lock, and only it.                      *)
LockHeld ==
  \A t \in Threads : (at[t] \in {"read", "swap"}) <=> (reload_lock = t)

(* Before the first load there is nothing; from then on the snapshot is    *)
(* authentic and at least as new as the fingerprint.                       *)
LoadedSound ==
  /\ loaded = 0 => \A t \in Threads : at[t] = "idle"
  /\ loaded # 0 => files[loaded].good /\ fingerprint \in 1 .. loaded

(* What a thread carries through a reload.                                 *)
ReloadSound ==
  \A t \in Threads :
    /\ at[t] = "read" => seen[t] >= 1
    /\ at[t] = "swap" => /\ files[got[t]].good
                         /\ seen[t] \in 1 .. got[t]
                         /\ got[t] >= loaded /\ got[t] >= entered[t]

(* A thread that is through its reload has a fresh snapshot.               *)
FreshSound ==
  \A t \in Threads :
    /\ at[t] # "idle" => entered[t] >= 1
    /\ at[t] \in {"clock", "copy"} /\ Settled(entered[t]) => loaded >= entered[t]

PolicyInv == PolicyTypeOK /\ LockHeld /\ LoadedSound /\ ReloadSound /\ FreshSound
-----------------------------------------------------------------------------
(* A new file leaves the earlier ones as they are.                         *)
LEMMA InstallExtends ==
  ASSUME PolicyTypeOK, Install
  PROVE  /\ files' \in Seq(Files)
         /\ Len(files') = Len(files) + 1
         /\ \A i \in 1 .. Len(files) : files'[i] = files[i]
<1>1. \A ns \in Namespaces : [ns |-> ns, expires |-> now + TTL] \in Entries
  BY PolicyConstants DEF PolicyTypeOK, Entries
<1>2. \A step \in MtimeSteps : files[Current].mtime + step \in Nat
  <2>1. files[Current] \in Files
    BY DEF PolicyTypeOK, Current
  <2>2. files[Current].mtime \in Nat
    BY <2>1 DEF Files
  <2> QED BY <2>2, PolicyConstants
<1>3. \E f \in Files : files' = Append(files, f)
  <2>1. PICK step \in MtimeSteps :
          LET mtime == files[Current].mtime + step IN
          \/ files' = Append(files, File(mtime, TRUE, {}, 0))
          \/ \E ns \in Namespaces :
               files' = Append(files, File(mtime, TRUE, {[ns |-> ns, expires |-> now + TTL]}, 1))
          \/ files' = Append(files, File(mtime, FALSE, {}, 2))
    BY DEF Install
  <2>2. \A mtime \in Nat : /\ File(mtime, TRUE, {}, 0) \in Files
                           /\ File(mtime, FALSE, {}, 2) \in Files
    BY DEF File, Files
  <2>3. \A mtime \in Nat, ns \in Namespaces :
          File(mtime, TRUE, {[ns |-> ns, expires |-> now + TTL]}, 1) \in Files
    BY <1>1 DEF File, Files
  <2> QED BY <2>1, <2>2, <2>3, <1>2
<1> QED BY <1>3 DEF PolicyTypeOK

(* What is settled after a new file was settled before.                    *)
LEMMA InstallSettled ==
  ASSUME PolicyTypeOK, Install, NEW first \in Nat \ {0}, Settled(first)'
  PROVE  Settled(first)
<1> USE InstallExtends
<1>1. ASSUME NEW i \in first .. Len(files) PROVE files[i].good
  <2>1. i \in first .. Len(files') /\ i \in 1 .. Len(files)
    BY DEF PolicyTypeOK
  <2>2. files'[i].good
    BY <2>1 DEF Settled
  <2> QED BY <2>1, <2>2
<1>2. ASSUME NEW i \in first .. Len(files), NEW j \in 1 .. i - 1
      PROVE  ~SameFingerprint(i, j)
  <2>1. i \in first .. Len(files') /\ i \in 1 .. Len(files) /\ j \in 1 .. Len(files)
    BY DEF PolicyTypeOK
  <2>2. ~SameFingerprint(i, j)'
    BY <2>1 DEF Settled
  <2> QED BY <2>1, <2>2 DEF SameFingerprint
<1> QED BY <1>1, <1>2 DEF Settled

LEMMA PolicyInitInv == PolicyInit => PolicyInv
<1> SUFFICES ASSUME PolicyInit PROVE PolicyInv OBVIOUS
<1>1. File(0, TRUE, {}, 0) \in Files
  BY DEF File, Files
<1>2. \A f \in Files : <<f>> \in Seq(Files) /\ Len(<<f>>) = 1
  OBVIOUS
<1>3. files \in Seq(Files) /\ Len(files) = 1
  BY <1>1, <1>2 DEF PolicyInit
<1>4. /\ now = 0 /\ loaded = 0 /\ fingerprint = 0 /\ reload_lock = NoThread
      /\ at = [t \in Threads |-> "idle"]
      /\ seen = [t \in Threads |-> 0] /\ got = [t \in Threads |-> 0]
      /\ clock = [t \in Threads |-> 0] /\ entered = [t \in Threads |-> 0]
  BY DEF PolicyInit
<1>5. PolicyTypeOK
  BY <1>3, <1>4 DEF PolicyTypeOK
<1> QED BY <1>4, <1>5, PolicyConstants
        DEF PolicyInv, LockHeld, LoadedSound, ReloadSound, FreshSound
-----------------------------------------------------------------------------
(* Steps of the environment.                                               *)

LEMMA TickInv ==
  ASSUME PolicyInv, Tick
  PROVE  PolicyInv'
<1> USE DEF PolicyInv, Tick, policy, thread
<1>1. PolicyTypeOK'
  BY DEF PolicyTypeOK
<1>2. \A first : Settled(first)' <=> Settled(first)
  BY DEF Settled, SameFingerprint
<1> QED BY <1>1, <1>2 DEF LockHeld, LoadedSound, ReloadSound, FreshSound

LEMMA InstallInv ==
  ASSUME PolicyInv, Install
  PROVE  PolicyInv'
<1> USE DEF PolicyInv
<1>1. UNCHANGED <<now, loaded, fingerprint, reload_lock, at, seen, got, clock, entered>>
  BY DEF Install, policy, thread
<1>2. PolicyTypeOK'
  <2>1. files' \in Seq(Files) /\ Len(files') = Len(files) + 1
    BY InstallExtends
  <2>2. Len(files') > 0 /\ 0 .. Len(files) \subseteq 0 .. Len(files')
    BY <2>1 DEF PolicyTypeOK
  <2>3. loaded \in 0 .. Len(files') /\ fingerprint \in 0 .. Len(files')
    BY <2>2 DEF PolicyTypeOK
  <2>4. /\ seen \in [Threads -> 0 .. Len(files')] /\ got \in [Threads -> 0 .. Len(files')]
        /\ entered \in [Threads -> 0 .. Len(files')]
    BY <2>2 DEF PolicyTypeOK
  <2> QED BY <1>1, <2>1, <2>2, <2>3, <2>4 DEF PolicyTypeOK
<1>3. LockHeld'
  BY <1>1 DEF LockHeld
<1>4. LoadedSound'
  BY <1>1, InstallExtends DEF LoadedSound, PolicyTypeOK
<1>5. ReloadSound'
  <2>1. \A t \in Threads : at[t] = "swap" => got[t] \in 1 .. Len(files)
    BY DEF ReloadSound, PolicyTypeOK
  <2> QED BY <1>1, <2>1, InstallExtends DEF ReloadSound
<1>6. FreshSound'
  BY <1>1, InstallSettled DEF FreshSound, PolicyTypeOK
<1> QED BY <1>2, <1>3, <1>4, <1>5, <1>6

LEMMA LoadInv ==
  ASSUME PolicyInv, Load
  PROVE  PolicyInv'
<1> USE DEF PolicyInv
<1>1. CASE FirstLoad
  <2>1. /\ UNCHANGED <<now, files, reload_lock, at, seen, got, clock, entered>>
        /\ files[Len(files)].good /\ loaded' = Len(files) /\ fingerprint' \in 1 .. Len(files)
        /\ \A t \in Threads : at[t] = "idle"
    BY <1>1 DEF FirstLoad, Load, disk, thread, Current, LoadedSound
  <2>2. PolicyTypeOK'
    BY <2>1 DEF PolicyTypeOK
  <2> QED BY <2>1, <2>2 DEF LockHeld, LoadedSound, ReloadSound, FreshSound, PolicyTypeOK
<1>2. CASE LoadRefused
  <2>1. UNCHANGED <<now, files, loaded, fingerprint, reload_lock, at, seen, got, clock, entered>>
    BY <1>2 DEF LoadRefused, policy_vars, policy, disk, thread
  <2> QED BY <2>1 DEF PolicyTypeOK, LockHeld, LoadedSound, ReloadSound, FreshSound, Settled,
                      SameFingerprint
<1> QED BY <1>1, <1>2 DEF Load

LEMMA EndInv ==
  ASSUME PolicyInv, End
  PROVE  PolicyInv'
<1> USE PolicyConstants DEF PolicyInv, End, Forget, disk
<1>1. PolicyTypeOK'
  BY DEF PolicyTypeOK
<1> QED BY <1>1 DEF LockHeld, LoadedSound, ReloadSound, FreshSound
-----------------------------------------------------------------------------
(* Steps of a thread.  Only Swap changes what is loaded.                   *)

LEMMA ThreadTypeOK ==
  ASSUME PolicyInv, NEW t \in Threads, Step(t)
  PROVE  PolicyTypeOK'
<1> USE PolicyConstants DEF PolicyInv, PolicyTypeOK, disk, Current, Release, TakeLock
<1>0. {0, Len(files)} \subseteq 0 .. Len(files)
  OBVIOUS
<1>1. CASE Enter(t) BY <1>1 DEF Enter
<1>2. CASE Stat(t)
  <2>1. /\ reload_lock' \in Threads \cup {NoThread}
        /\ at' \in [Threads -> {"idle", "lock", "read", "swap", "clock", "copy"}]
        /\ UNCHANGED <<now, files, loaded, fingerprint, got, clock, entered>>
    BY <1>2 DEF Stat
  <2>2. seen' = seen \/ seen' = [seen EXCEPT ![t] = Len(files)]
    BY <1>2 DEF Stat
  <2>3. seen' \in [Threads -> 0 .. Len(files)]
    BY <2>2, <1>0
  <2> QED BY <2>1, <2>3
<1>3. CASE Read(t)
  <2>1. /\ reload_lock' \in Threads \cup {NoThread}
        /\ at' \in [Threads -> {"idle", "lock", "read", "swap", "clock", "copy"}]
        /\ UNCHANGED <<now, files, loaded, fingerprint, clock, entered>>
    BY <1>3 DEF Read
  <2>2. /\ seen' = seen \/ seen' = [seen EXCEPT ![t] = 0]
        /\ got' = got \/ got' = [got EXCEPT ![t] = Len(files)]
    BY <1>3 DEF Read
  <2>3. seen' \in [Threads -> 0 .. Len(files)]
    BY <2>2, <1>0
  <2>4. got' \in [Threads -> 0 .. Len(files)]
    BY <2>2, <1>0
  <2> QED BY <2>1, <2>3, <2>4
<1>4. CASE Swap(t)
  <2>1. /\ reload_lock' \in {reload_lock, NoThread}
        /\ at' = [at EXCEPT ![t] = "clock"]
        /\ seen' = [seen EXCEPT ![t] = 0] /\ got' = [got EXCEPT ![t] = 0]
        /\ loaded' = got[t] /\ fingerprint' = seen[t]
        /\ UNCHANGED <<now, files, clock, entered>>
    BY <1>4 DEF Swap
  <2> QED BY <2>1
<1>5. CASE Clock(t) BY <1>5 DEF Clock
<1>6. CASE Copy(t) BY <1>6 DEF Copy
<1> QED BY <1>1, <1>2, <1>3, <1>4, <1>5, <1>6 DEF Step, Within

LEMMA EnterInv ==
  ASSUME PolicyInv, NEW t \in Threads, loaded # 0, Enter(t)
  PROVE  PolicyInv'
<1> USE DEF PolicyInv
<1>1. PolicyTypeOK'
  BY ThreadTypeOK DEF Step
<1>2. /\ UNCHANGED <<now, files, loaded, fingerprint, reload_lock, seen, got, clock>>
      /\ at[t] = "idle" /\ at' = [at EXCEPT ![t] = "lock"]
      /\ entered' = [entered EXCEPT ![t] = Len(files)]
  BY DEF Enter, disk, Current
<1>3. \A first : Settled(first)' <=> Settled(first)
  BY <1>2 DEF Settled, SameFingerprint
<1> USE DEF PolicyTypeOK
<1>4. LockHeld' BY <1>2 DEF LockHeld
<1>5. LoadedSound' BY <1>2 DEF LoadedSound
<1>6. ReloadSound' BY <1>2 DEF ReloadSound
<1>7. FreshSound' BY <1>2, <1>3 DEF FreshSound
<1> QED BY <1>1, <1>4, <1>5, <1>6, <1>7

LEMMA StatInv ==
  ASSUME PolicyInv, NEW t \in Threads, loaded # 0, Stat(t)
  PROVE  PolicyInv'
<1> USE DEF PolicyInv
<1>1. PolicyTypeOK'
  BY ThreadTypeOK DEF Step, Within
<1>2. /\ UNCHANGED <<now, files, loaded, fingerprint, got, clock, entered>>
      /\ at[t] = "lock"
  BY DEF Stat, disk
<1>3. \A first : Settled(first)' <=> Settled(first)
  BY <1>2 DEF Settled, SameFingerprint
<1>4. CASE SameFingerprint(Len(files), fingerprint)
  <2>1. at' = [at EXCEPT ![t] = "clock"] /\ UNCHANGED <<reload_lock, seen>>
    BY <1>4 DEF Stat, Current
  <2>2. ASSUME Settled(entered[t]) PROVE loaded >= entered[t]
    <3>1. Len(files) \in entered[t] .. Len(files) /\ entered[t] \in Nat /\ Len(files) \in Nat
      BY DEF PolicyTypeOK
    <3>2. \A j \in 1 .. Len(files) - 1 : ~SameFingerprint(Len(files), j)
      BY <2>2, <3>1 DEF Settled
    <3>3. fingerprint \in 1 .. loaded /\ loaded \in 1 .. Len(files)
      BY DEF LoadedSound, PolicyTypeOK
    <3> QED BY <3>1, <3>2, <3>3, <1>4
  <2> USE DEF PolicyTypeOK
  <2>3. LockHeld' BY <1>2, <2>1 DEF LockHeld
  <2>4. LoadedSound' BY <1>2, <2>1 DEF LoadedSound
  <2>5. ReloadSound' BY <1>2, <2>1 DEF ReloadSound
  <2>6. FreshSound' BY <1>2, <1>3, <2>1, <2>2 DEF FreshSound
  <2> QED BY <1>1, <2>3, <2>4, <2>5, <2>6
<1>5. CASE ~SameFingerprint(Len(files), fingerprint)
  <2>1. /\ at' = [at EXCEPT ![t] = "read"] /\ seen' = [seen EXCEPT ![t] = Len(files)]
        /\ reload_lock = NoThread /\ reload_lock' = t
    BY <1>5 DEF Stat, Current, TakeLock
  <2> USE DEF PolicyTypeOK
  <2>2. LockHeld' BY <1>2, <2>1, PolicyConstants DEF LockHeld
  <2>3. LoadedSound' BY <1>2, <2>1 DEF LoadedSound
  <2>4. ReloadSound' BY <1>2, <2>1 DEF ReloadSound
  <2>5. FreshSound' BY <1>2, <1>3, <2>1 DEF FreshSound
  <2> QED BY <1>1, <2>2, <2>3, <2>4, <2>5
<1> QED BY <1>4, <1>5

LEMMA ReadInv ==
  ASSUME PolicyInv, NEW t \in Threads, loaded # 0, Read(t)
  PROVE  PolicyInv'
<1> USE DEF PolicyInv
<1>1. PolicyTypeOK'
  BY ThreadTypeOK DEF Step, Within
<1>2. /\ UNCHANGED <<now, files, loaded, fingerprint, clock, entered>>
      /\ at[t] = "read" /\ reload_lock = t
  BY DEF Read, disk, LockHeld
<1>3. \A first : Settled(first)' <=> Settled(first)
  BY <1>2 DEF Settled, SameFingerprint
<1>4. CASE files[Len(files)].good
  <2>1. /\ at' = [at EXCEPT ![t] = "swap"] /\ got' = [got EXCEPT ![t] = Len(files)]
        /\ UNCHANGED <<reload_lock, seen>>
    BY <1>4 DEF Read, Current
  <2> USE DEF PolicyTypeOK
  <2>2. LockHeld' BY <1>2, <2>1 DEF LockHeld
  <2>3. LoadedSound' BY <1>2, <2>1 DEF LoadedSound
  <2>4. ReloadSound' BY <1>2, <1>4, <2>1 DEF ReloadSound
  <2>5. FreshSound' BY <1>2, <1>3, <2>1 DEF FreshSound
  <2> QED BY <1>1, <2>2, <2>3, <2>4, <2>5
<1>5. CASE ~files[Len(files)].good
  <2>1. /\ at' = [at EXCEPT ![t] = "clock"] /\ seen' = [seen EXCEPT ![t] = 0]
        /\ reload_lock' = NoThread /\ UNCHANGED got
    BY <1>2, <1>5 DEF Read, Current, Release
  <2>2. ~Settled(entered[t])
    BY <1>5 DEF Settled, PolicyTypeOK
  <2> USE DEF PolicyTypeOK
  <2>3. LockHeld' BY <1>2, <2>1, PolicyConstants DEF LockHeld
  <2>4. LoadedSound' BY <1>2, <2>1 DEF LoadedSound
  <2>5. ReloadSound' BY <1>2, <2>1 DEF ReloadSound
  <2>6. FreshSound' BY <1>2, <1>3, <2>1, <2>2 DEF FreshSound
  <2> QED BY <1>1, <2>3, <2>4, <2>5, <2>6
<1> QED BY <1>4, <1>5

LEMMA SwapInv ==
  ASSUME PolicyInv, NEW t \in Threads, loaded # 0, Swap(t)
  PROVE  PolicyInv' /\ loaded' >= loaded
<1> USE DEF PolicyInv
<1>1. PolicyTypeOK'
  BY ThreadTypeOK DEF Step, Within
<1>2. /\ UNCHANGED <<now, files, clock, entered>>
      /\ loaded' = got[t] /\ fingerprint' = seen[t]
      /\ at[t] = "swap" /\ reload_lock = t
      /\ at' = [at EXCEPT ![t] = "clock"] /\ reload_lock' = NoThread
      /\ seen' = [seen EXCEPT ![t] = 0] /\ got' = [got EXCEPT ![t] = 0]
  BY DEF Swap, disk, LockHeld, Release
<1>3. /\ files[got[t]].good /\ seen[t] \in 1 .. got[t]
      /\ got[t] >= loaded /\ got[t] >= entered[t]
  BY <1>2 DEF ReloadSound
<1>4. \A first : Settled(first)' <=> Settled(first)
  BY <1>2 DEF Settled, SameFingerprint
<1>5. \A u \in Threads \ {t} : at[u] \notin {"read", "swap"}
  BY <1>2 DEF LockHeld
<1> USE DEF PolicyTypeOK
<1>6. LockHeld' BY <1>2, <1>5, PolicyConstants DEF LockHeld
<1>7. LoadedSound' BY <1>2, <1>3 DEF LoadedSound
<1>8. ReloadSound' BY <1>2, <1>5 DEF ReloadSound
<1>9. FreshSound' BY <1>2, <1>3, <1>4 DEF FreshSound
<1> QED BY <1>1, <1>2, <1>3, <1>6, <1>7, <1>8, <1>9

LEMMA ClockCopyInv ==
  ASSUME PolicyInv, NEW t \in Threads, loaded # 0, Clock(t) \/ Copy(t)
  PROVE  PolicyInv'
<1> USE DEF PolicyInv
<1>1. PolicyTypeOK'
  BY ThreadTypeOK DEF Step, Within
<1>2. /\ UNCHANGED <<now, files, loaded, fingerprint, reload_lock, seen, got>>
      /\ \/ /\ at[t] = "clock" /\ at' = [at EXCEPT ![t] = "copy"] /\ UNCHANGED entered
         \/ /\ at[t] = "copy" /\ at' = [at EXCEPT ![t] = "idle"]
            /\ entered' = [entered EXCEPT ![t] = 0]
  BY DEF Clock, Copy, disk
<1>3. \A first : Settled(first)' <=> Settled(first)
  BY <1>2 DEF Settled, SameFingerprint
<1> USE DEF PolicyTypeOK
<1>4. LockHeld' BY <1>2 DEF LockHeld
<1>5. LoadedSound' BY <1>2 DEF LoadedSound
<1>6. ReloadSound' BY <1>2 DEF ReloadSound
<1>7. FreshSound' BY <1>2, <1>3 DEF FreshSound
<1> QED BY <1>1, <1>4, <1>5, <1>6, <1>7
-----------------------------------------------------------------------------
LEMMA PolicyStep == PolicyInv /\ [PolicyNext]_policy_vars => PolicyInv'
<1> SUFFICES ASSUME PolicyInv, [PolicyNext]_policy_vars PROVE PolicyInv' OBVIOUS
<1>1. CASE UNCHANGED policy_vars
  <2>1. UNCHANGED <<now, files, loaded, fingerprint, reload_lock, at, seen, got, clock, entered>>
    BY <1>1 DEF policy_vars, policy, disk, thread
  <2> QED BY <2>1 DEF PolicyInv, PolicyTypeOK, LockHeld, LoadedSound, ReloadSound, FreshSound,
                      Settled, SameFingerprint
<1>2. ASSUME NEW t \in Threads, Step(t) PROVE PolicyInv'
  BY <1>2, EnterInv, StatInv, ReadInv, SwapInv, ClockCopyInv DEF Step, Within
<1> QED BY <1>1, <1>2, TickInv, InstallInv, LoadInv, EndInv DEF PolicyNext

(* Every reachable state of Gate3RuntimePolicy is well typed, only the     *)
(* holder of the reload lock is inside a reload, and PolicyInv's other     *)
(* parts hold.                                                             *)
THEOREM PolicySound == PolicySpec => []PolicyInv
<1> QED BY PolicyInitInv, PolicyStep, PTL DEF PolicySpec

(* The snapshot decide() copies is authentic and not older than the file   *)
(* that was there when decide() was called, for any number of threads and  *)
(* replacements.                                                           *)
THEOREM PolicyDecideFresh == PolicySpec => []DecideFresh
<1>1. PolicyInv => DecideFresh
  BY DEF PolicyInv, DecideFresh, FreshSound, LoadedSound
<1> QED BY <1>1, PolicySound, PTL

(* No interleaving of reloads puts an older snapshot in the place of a     *)
(* newer one.                                                              *)
THEOREM PolicyLoadedForward == PolicySpec => LoadedForward
<1>1. ASSUME PolicyInv, [PolicyNext]_policy_vars
      PROVE  [loaded # 0 /\ loaded' # 0 => loaded' >= loaded]_policy_vars
  <2> SUFFICES ASSUME loaded # 0, loaded' # 0 PROVE loaded' >= loaded OBVIOUS
  <2>1. ASSUME UNCHANGED loaded PROVE loaded' >= loaded
    BY <1>1, <2>1 DEF PolicyInv, PolicyTypeOK
  <2>2. ASSUME NEW t \in Threads, Step(t) PROVE loaded' >= loaded
    <3>1. CASE Swap(t) BY <1>1, <3>1, SwapInv
    <3>2. CASE ~Swap(t)
      BY <2>1, <2>2, <3>2 DEF Step, Within, Enter, Stat, Read, Clock, Copy
    <3> QED BY <3>1, <3>2
  <2>3. Tick \/ Install \/ UNCHANGED policy_vars => UNCHANGED loaded
    BY DEF Tick, Install, policy_vars, policy
  <2>4. ~Load /\ ~End
    BY DEF Load, End, Forget
  <2> QED BY <1>1, <2>1, <2>2, <2>3, <2>4 DEF PolicyNext
<1> QED BY <1>1, PolicySound, PTL DEF PolicySpec, LoadedForward
-----------------------------------------------------------------------------
(* The protected launch.                                                   *)

(* The policy is loaded while the service is up, and only then does a      *)
(* thread supervise.                                                       *)
UpLoaded ==
  /\ service = "up" <=> loaded # 0
  /\ sup \notin {"none", "ended"} => service = "up"

(* The verdict that will be sent is on record.                             *)
VerdictAudited ==
  /\ AnsweredAudited
  /\ sup \in {"valid", "send"} => [id |-> note.id, deny |-> deny] \in audit

Handling == sup \notin {"none", "ended", "recv"}

(* A blocked call has a number of its own and began at a file and a second *)
(* that have been; the notification in hand has the number of a call.      *)
CallSound ==
  /\ \A c \in Callers : call[c] # NoCall =>
       call[c].id >= 1 /\ call[c].since >= 1 /\ call[c].at <= now
  /\ Handling => note.id >= 1

(* While a call that is still blocked is decided: its caller and its       *)
(* destination, and decide() was called and read the clock after it began. *)
DecideSound ==
  /\ sup \in {"adapter", "decide"} => note.who = "target"
  /\ sup = "decide" /\ Pending =>
       /\ call["target"].dest = "external"
       /\ at[Guard] # "idle"
       /\ entered[Guard] >= call["target"].since
       /\ at[Guard] = "copy" => clock[Guard] >= call["target"].at

(* A verdict on the call c is what the files since its beginning demand.   *)
Enforced(c, d) ==
  /\ c.dest = "external" /\ Settled(c.since)
  /\ \A i \in c.since .. Len(files) : Denies(i, Own, now)
  => d

Ended(c, d) ==
  /\ Settled(c.since)
  /\ \A i \in c.since .. Len(files) : ~Denies(i, Own, c.at)
  => ~d

VerdictSound ==
  /\ sup \in {"audit", "valid", "send"} /\ note.who = "target" /\ Pending
  /\ reason # "adapter_failure"
  => Enforced(call["target"], deny) /\ Ended(call["target"], deny)

GuardianInv ==
  /\ PolicyInv /\ TypeOK
  /\ UpLoaded /\ VerdictAudited /\ CallSound /\ DecideSound /\ VerdictSound
-----------------------------------------------------------------------------
(* Actions by what they leave alone.                                       *)

(* Steps of the launcher and its children that change only where they are. *)
LaunchMoves ==
  \/ ConnectControl \/ ConnectTimeout \/ LauncherGo \/ LauncherRefused
  \/ ChildGo \/ ChildReport \/ Finish \/ Stall \/ TargetExit \/ Reject

(* Steps of a supervising thread that do not touch the policy.             *)
ServeMoves ==
  \/ Register \/ \E c \in Callers : Receive(c)
  \/ Identify \/ IdentifyFails \/ AdapterFails \/ Audit \/ ServeFails
  \/ Valid \/ Send \/ SendFails \/ NextNote

(* Steps that end or begin a call.                                         *)
CallMoves ==
  \/ Teardown
  \/ \E c \in Callers : Interrupt(c) \/ \E dest \in Destinations : Connect(c, dest)

(* Steps in which decide() is called, runs or returns.                     *)
LoopbackReply ==
  /\ sup = "adapter" /\ launcher = "watch" /\ Pending
  /\ UNCHANGED <<service, generation, processed, note, launch, call, calls, history, faults>>
  /\ Decided(FALSE, "loopback") /\ call[note.who].dest = "local" /\ UNCHANGED <<disk, policy>>

ExternalReply ==
  /\ sup = "adapter" /\ launcher = "watch" /\ Pending
  /\ UNCHANGED <<service, generation, processed, note, launch, call, calls, history, faults>>
  /\ sup' = "decide" /\ Enter(Guard) /\ call[note.who].dest = "external"
  /\ UNCHANGED <<deny, reason>>

LEMMA NextCases ==
  Next => \/ Environment \/ StartService \/ StopService
          \/ \E t \in Threads : OtherDecide(t)
          \/ LaunchMoves \/ ServeMoves \/ CallMoves
          \/ LoopbackReply \/ ExternalReply \/ Reload \/ Decide
<1>1. AdapterReply => LoopbackReply \/ ExternalReply
  BY DEF AdapterReply, LoopbackReply, ExternalReply
<1> QED BY <1>1 DEF Next, ServeStep, LauncherStep, LaunchMoves, ServeMoves, CallMoves

LEMMA LaunchMovesFrame ==
  LaunchMoves => UNCHANGED <<disk, policy, service, serving, call, calls, history>>
BY DEF LaunchMoves, ConnectControl, ConnectTimeout, LauncherGo, LauncherRefused, ChildGo,
       ChildReport, Finish, Stall, TargetExit, Reject

LEMMA ServeMovesFrame ==
  ServeMoves => UNCHANGED <<disk, policy, service>>
BY DEF ServeMoves, Register, Receive, Identify, IdentifyFails, AdapterFails, Audit, ServeFails,
       Valid, Send, SendFails, NextNote, Keep, Collapse

LEMMA CallMovesFrame ==
  CallMoves => UNCHANGED <<disk, policy, service, serving, history>>
BY DEF CallMoves, Teardown, Interrupt, Connect

(* Each step of the guardian is a step of the runtime policy, or leaves    *)
(* it alone.                                                               *)
LEMMA PolicyOfStep ==
  ASSUME UpLoaded, [Next]_vars
  PROVE  [PolicyNext]_policy_vars
<1> USE DEF UpLoaded, policy_vars
<1>1. CASE UNCHANGED vars \/ LaunchMoves \/ ServeMoves \/ CallMoves \/ LoopbackReply
  BY <1>1, LaunchMovesFrame, ServeMovesFrame, CallMovesFrame DEF vars, LoopbackReply
<1>2. CASE Environment
  BY <1>2 DEF Environment, PolicyNext
<1>3. CASE StartService
  BY <1>3 DEF StartService, PolicyNext, Load
<1>4. CASE StopService
  BY <1>4 DEF StopService, PolicyNext, End
<1>5. ASSUME NEW t \in Threads, OtherDecide(t) PROVE PolicyNext
  BY <1>5 DEF OtherDecide, PolicyNext, Step
<1>6. CASE ExternalReply \/ Reload \/ Decide
  <2>1. Step(Guard)
    BY <1>6 DEF ExternalReply, Reload, Decide, Step
  <2> QED BY <2>1, GuardianConstants DEF PolicyNext
<1> QED BY NextCases, <1>1, <1>2, <1>3, <1>4, <1>5, <1>6

(* While the service is up a policy is loaded.                             *)
LEMMA UpLoadedStep ==
  ASSUME PolicyInv, UpLoaded, [Next]_vars
  PROVE  UpLoaded'
<1> USE DEF UpLoaded
<1>1. CASE UNCHANGED vars
  BY <1>1 DEF vars, policy, serving
<1>2. CASE LaunchMoves \/ CallMoves
  BY <1>2, LaunchMovesFrame, CallMovesFrame DEF policy, serving
<1>3. CASE ServeMoves
  <2>1. UNCHANGED <<loaded, service>>
    BY <1>3, ServeMovesFrame DEF policy
  <2>2. sup = "none" => sup' \in {"none", "recv"} /\ service = "up"
    BY <1>3 DEF ServeMoves, Register, Receive, Identify, IdentifyFails, AdapterFails, Audit,
                ServeFails, Valid, Send, SendFails, NextNote
  <2>3. sup # "ended" \/ service = "up"
    BY <1>3 DEF ServeMoves, Register, Receive, Identify, IdentifyFails, AdapterFails, Audit,
                ServeFails, Valid, Send, SendFails, NextNote
  <2> QED BY <2>1, <2>2, <2>3
<1>4. CASE Environment
  BY <1>4 DEF Environment, Tick, Install, policy, serving
<1>5. CASE StartService
  BY <1>5 DEF StartService, FirstLoad, LoadRefused, policy_vars, policy, serving, PolicyInv,
              PolicyTypeOK, Current
<1>6. CASE StopService
  BY <1>6 DEF StopService, Forget, NoThreadLeft
<1>7. ASSUME NEW t \in Threads, loaded # 0, Enter(t) \/ Within(t) \/ Copy(t) PROVE loaded' # 0
  <2>1. CASE Swap(t)
    BY <2>1, <1>7, SwapInv DEF PolicyInv, PolicyTypeOK
  <2> QED BY <2>1, <1>7 DEF Within, Enter, Stat, Read, Clock, Copy
<1>8. ASSUME NEW t \in Threads, OtherDecide(t) PROVE UpLoaded'
  BY <1>7, <1>8 DEF OtherDecide, serving
<1>9. CASE LoopbackReply
  BY <1>9 DEF LoopbackReply, policy
<1>10. CASE ExternalReply \/ Reload \/ Decide
  BY <1>7, <1>10, GuardianConstants DEF ExternalReply, Reload, Decide, Decided, serving
<1> QED BY NextCases, <1>1, <1>2, <1>3, <1>4, <1>5, <1>6, <1>8, <1>9, <1>10
-----------------------------------------------------------------------------
(* Types.                                                                  *)

LEMMA FilesGrow ==
  ASSUME PolicyInv, UpLoaded, [Next]_vars
  PROVE  /\ Len(files) \in Nat /\ Len(files') \in Nat
         /\ UNCHANGED disk \/ Environment
         /\ Len(files) <= Len(files')
<1>1. UNCHANGED disk \/ Environment
  <2>1. CASE UNCHANGED vars \/ LaunchMoves \/ ServeMoves \/ CallMoves
    BY <2>1, LaunchMovesFrame, ServeMovesFrame, CallMovesFrame DEF vars
  <2>2. CASE StartService \/ StopService
    BY <2>2 DEF StartService, StopService, FirstLoad, LoadRefused, policy_vars
  <2>3. \A t \in Threads : Enter(t) \/ Within(t) \/ Copy(t) => UNCHANGED disk
    BY DEF Within, Enter, Stat, Read, Swap, Clock, Copy
  <2>4. CASE LoopbackReply \/ ExternalReply \/ Reload \/ Decide
    BY <2>3, <2>4, GuardianConstants DEF LoopbackReply, ExternalReply, Reload, Decide
  <2>5. (\E t \in Threads : OtherDecide(t)) => UNCHANGED disk
    BY <2>3 DEF OtherDecide
  <2> QED BY <2>1, <2>2, <2>4, <2>5, NextCases
<1>2. Environment => Len(files') = Len(files) \/ Len(files') = Len(files) + 1
  BY InstallExtends DEF Environment, Tick, PolicyInv
<1> QED BY <1>1, <1>2 DEF disk, PolicyInv, PolicyTypeOK

(* The types of what the policy does not know.                             *)
ServeTypeOK ==
  /\ service \in {"up", "down"}
  /\ sup \in {"none", "recv", "identify", "adapter", "decide", "audit", "valid", "send",
              "next", "ended"}
  /\ generation \in 0 .. 3 /\ processed \in Nat
  /\ note \in [id : 0 .. calls, who : Callers]
  /\ deny \in BOOLEAN
  /\ reason \in {"none", "out_of_scope", "loopback", "policy", "adapter_failure"}

LaunchTypeOK ==
  /\ launcher \in {"connect", "register", "watch", "done", "died"}
  /\ reply \in {"none", "ready", "rejected"}
  /\ child \in {"held", "waiting", "reported", "gone"}
  /\ target \in {"held", "running", "exited", "killed"}
  /\ faults \in Nat

CallTypeOK ==
  /\ call \in [Callers -> [id : 0 .. calls, dest : Destinations, since : 0 .. Len(files),
                           at : Nat, received : BOOLEAN]]
  /\ calls \in Nat

HistoryTypeOK ==
  /\ audit \in SUBSET [id : 1 .. calls, deny : BOOLEAN]
  /\ answered \in SUBSET [id : 1 .. calls, deny : BOOLEAN]

LEMMA TypeParts ==
  TypeOK <=> PolicyTypeOK /\ ServeTypeOK /\ LaunchTypeOK /\ CallTypeOK /\ HistoryTypeOK
BY DEF TypeOK, ServeTypeOK, LaunchTypeOK, CallTypeOK, HistoryTypeOK

LEMMA LaunchTypeStep ==
  ASSUME LaunchTypeOK, [Next]_vars
  PROVE  LaunchTypeOK'
<1> USE DEF LaunchTypeOK
<1>1. CASE UNCHANGED vars
  BY <1>1 DEF vars, launch
<1>2. CASE LaunchMoves
  BY <1>2 DEF LaunchMoves, ConnectControl, ConnectTimeout, LauncherGo, LauncherRefused, ChildGo,
       ChildReport, Finish, Stall, TargetExit, Reject, Fault
<1>3. CASE ServeMoves
  <2>1. CASE Register
    BY <2>1 DEF Register
  <2>2. CASE IdentifyFails \/ AdapterFails \/ ServeFails \/ SendFails
    <3>1. UNCHANGED launch /\ (UNCHANGED faults \/ Fault)
      BY <2>2 DEF IdentifyFails, AdapterFails, ServeFails, SendFails, Keep, Collapse
    <3> QED BY <3>1 DEF launch, Fault
  <2>3. CASE \/ \E c \in Callers : Receive(c)
             \/ Identify \/ Audit \/ Valid \/ Send \/ NextNote
    BY <2>3 DEF Receive, Identify, Audit, Valid, Send, NextNote, Keep, launch
  <2> QED BY <1>3, <2>1, <2>2, <2>3 DEF ServeMoves
<1>4. CASE CallMoves
  BY <1>4 DEF CallMoves, Teardown, Interrupt, Connect, Fault, launch
<1>5. CASE Environment \/ StartService \/ StopService \/ \E t \in Threads : OtherDecide(t)
  BY <1>5 DEF Environment, StartService, StopService, OtherDecide, Fault, launch
<1>6. CASE LoopbackReply \/ ExternalReply \/ Reload \/ Decide
  BY <1>6 DEF LoopbackReply, ExternalReply, Reload, Decide, launch
<1> QED BY NextCases, <1>1, <1>2, <1>3, <1>4, <1>5, <1>6
LEMMA CallTypeStep ==
  ASSUME PolicyInv, UpLoaded, TypeOK, [Next]_vars
  PROVE  CallTypeOK' /\ calls' >= calls
<1> USE TypeParts DEF CallTypeOK
<1>1. /\ Len(files) \in Nat /\ Len(files') \in Nat /\ Len(files) <= Len(files')
      /\ now \in Nat
  BY FilesGrow DEF PolicyInv, PolicyTypeOK
<1>2. 0 .. Len(files) \subseteq 0 .. Len(files')
  BY <1>1
<1>3. ASSUME UNCHANGED <<call, calls>> PROVE CallTypeOK' /\ calls' >= calls
  BY <1>2, <1>3
<1>4. NoCall \in [id : 0 .. calls, dest : Destinations, since : 0 .. Len(files),
                  at : Nat, received : BOOLEAN]
  BY <1>1 DEF NoCall, Destinations
<1>5. ASSUME NEW c \in Callers,
             UNCHANGED <<calls, files>>,
             call' = [call EXCEPT ![c] = NoCall] \/ call' = [call EXCEPT ![c].received = TRUE]
      PROVE  CallTypeOK' /\ calls' >= calls
  <2>1. UNCHANGED calls /\ 0 .. Len(files) = 0 .. Len(files')
    BY <1>5
  <2>2. CASE call' = [call EXCEPT ![c] = NoCall]
    BY <1>4, <2>1, <2>2
  <2>3. CASE call' = [call EXCEPT ![c].received = TRUE]
    <3>1. [call[c] EXCEPT !.received = TRUE]
            \in [id : 0 .. calls, dest : Destinations, since : 0 .. Len(files),
                 at : Nat, received : BOOLEAN]
      OBVIOUS
    <3> QED BY <2>1, <2>3, <3>1
  <2> QED BY <1>5, <2>2, <2>3
<1>6. CASE CallMoves
  <2>1. CASE Teardown
    BY <2>1, <1>4 DEF Teardown, disk
  <2>2. ASSUME NEW c \in Callers, Interrupt(c) PROVE CallTypeOK' /\ calls' >= calls
    BY <1>5, <2>2 DEF Interrupt, disk
  <2>3. ASSUME NEW c \in Callers, NEW dest \in Destinations, Connect(c, dest)
        PROVE  CallTypeOK' /\ calls' >= calls
    <3>1. calls' = calls + 1 /\ UNCHANGED <<files, now>> /\ calls \in Nat
      BY <2>3 DEF Connect, disk
    <3>2. 0 .. calls \subseteq 0 .. calls'
      BY <3>1
    <3>3. call' = [call EXCEPT ![c] = [id |-> calls', dest |-> dest, since |-> Len(files),
                                       at |-> now, received |-> FALSE]]
      BY <2>3 DEF Connect, Current
    <3>4. [id |-> calls', dest |-> dest, since |-> Len(files), at |-> now, received |-> FALSE]
            \in [id : 0 .. calls', dest : Destinations, since : 0 .. Len(files),
                 at : Nat, received : BOOLEAN]
      BY <1>1, <3>1
    <3>5. call \in [Callers -> [id : 0 .. calls', dest : Destinations, since : 0 .. Len(files),
                                at : Nat, received : BOOLEAN]]
      BY <3>2
    <3> QED BY <3>1, <3>3, <3>4, <3>5
  <2> QED BY <1>6, <2>1, <2>2, <2>3 DEF CallMoves
<1>7. CASE ServeMoves
  <2>1. UNCHANGED files
    BY <1>7, ServeMovesFrame DEF disk
  <2>2. ASSUME NEW c \in Callers, Receive(c) PROVE CallTypeOK' /\ calls' >= calls
    BY <1>5, <2>1, <2>2 DEF Receive
  <2>3. CASE Send
    <3>1. note.who \in Callers
      BY DEF ServeTypeOK
    <3> QED BY <1>5, <2>1, <2>3, <3>1 DEF Send
  <2>4. CASE \/ Register \/ Identify \/ IdentifyFails \/ AdapterFails \/ Audit \/ ServeFails
             \/ Valid \/ SendFails \/ NextNote
    BY <1>3, <2>4 DEF Register, Identify, IdentifyFails, AdapterFails, Audit, ServeFails, Valid,
                      SendFails, NextNote, Keep, Collapse
  <2> QED BY <1>7, <2>2, <2>3, <2>4 DEF ServeMoves
<1>8. CASE \/ UNCHANGED vars \/ LaunchMoves \/ Environment \/ StartService \/ StopService
           \/ (\E t \in Threads : OtherDecide(t)) \/ LoopbackReply \/ ExternalReply
           \/ Reload \/ Decide
  BY <1>3, <1>8, LaunchMovesFrame DEF vars, Environment, StartService, StopService, OtherDecide,
     LoopbackReply, ExternalReply, Reload, Decide
<1> QED BY NextCases, <1>6, <1>7, <1>8

LEMMA ServeTypeStep ==
  ASSUME PolicyInv, UpLoaded, TypeOK, [Next]_vars
  PROVE  ServeTypeOK'
<1> USE TypeParts DEF ServeTypeOK
<1>1. 0 .. calls \subseteq 0 .. calls'
  BY CallTypeStep DEF CallTypeOK
<1>2. NoNote \in [id : 0 .. calls, who : Callers]
  BY DEF NoNote, Callers, CallTypeOK
<1>3. ASSUME NoThreadLeft, UNCHANGED calls, service' \in {"up", "down"} PROVE ServeTypeOK'
  BY <1>2, <1>3 DEF NoThreadLeft
<1>4. ASSUME UNCHANGED serving, service' \in {"up", "down"} PROVE ServeTypeOK'
  BY <1>1, <1>4 DEF serving
<1>5. ASSUME NEW d \in BOOLEAN,
             NEW why \in {"out_of_scope", "loopback", "policy", "adapter_failure"},
             Decided(d, why), UNCHANGED <<service, generation, processed, note, calls>>
      PROVE  ServeTypeOK'
  BY <1>5 DEF Decided
<1>6. CASE ServeMoves
  <2>1. CASE Register
    BY <2>1 DEF Register
  <2>2. ASSUME NEW c \in Callers, Receive(c) PROVE ServeTypeOK'
    <3>1. call[c].id \in 0 .. calls
      BY DEF CallTypeOK
    <3> QED BY <2>2, <3>1 DEF Receive
  <2>3. CASE Identify
    BY <1>5, <2>3 DEF Identify, Keep
  <2>4. CASE IdentifyFails \/ AdapterFails
    BY <1>5, <2>4 DEF IdentifyFails, AdapterFails, Keep
  <2>5. CASE Audit \/ Valid \/ Send
    BY <2>5 DEF Audit, Valid, Send
  <2>6. CASE ServeFails \/ SendFails
    BY <1>3, <2>6 DEF ServeFails, SendFails, Collapse
  <2>7. CASE NextNote
    <3>1. ASSUME NEW g \in 0 .. 3, NEW p \in Nat, Again(g, p), UNCHANGED <<service, calls>>
          PROVE  ServeTypeOK'
      BY <1>2, <3>1 DEF Again
    <3>2. UNCHANGED <<service, calls>>
      BY <2>7 DEF NextNote
    <3>3. CASE Crashes /\ generation <= 2 /\ Again(generation + 1, 0)
      BY <3>1, <3>2, <3>3
    <3>4. CASE Again(generation, IF CrashAfter = 0 THEN 0 ELSE processed + 1)
      BY <3>1, <3>2, <3>4
    <3> QED BY <1>3, <2>7, <3>2, <3>3, <3>4 DEF NextNote
  <2> QED BY <1>6, <2>1, <2>2, <2>3, <2>4, <2>5, <2>6, <2>7 DEF ServeMoves
<1>7. CASE StopService
  BY <1>3, <1>7 DEF StopService
<1>8. CASE LoopbackReply
  BY <1>5, <1>8 DEF LoopbackReply
<1>9. CASE ExternalReply
  BY <1>9 DEF ExternalReply
<1>10. CASE Decide
  <2>1. Denies(loaded, Own, clock[Guard]) \in BOOLEAN
    BY DEF Denies
  <2> QED BY <1>5, <1>10, <2>1 DEF Decide
<1>11. CASE \/ UNCHANGED vars \/ LaunchMoves \/ CallMoves \/ Environment \/ StartService
            \/ (\E t \in Threads : OtherDecide(t)) \/ Reload
  BY <1>4, <1>11, LaunchMovesFrame, CallMovesFrame
     DEF vars, Environment, StartService, OtherDecide, Reload
<1> QED BY NextCases, <1>6, <1>7, <1>8, <1>9, <1>10, <1>11
LEMMA HistoryTypeStep ==
  ASSUME PolicyInv, UpLoaded, TypeOK, CallSound, [Next]_vars
  PROVE  HistoryTypeOK'
<1> USE TypeParts DEF HistoryTypeOK
<1>1. calls \in Nat /\ calls' \in Nat /\ 1 .. calls \subseteq 1 .. calls'
  BY CallTypeStep DEF CallTypeOK
<1>2. ASSUME UNCHANGED history PROVE HistoryTypeOK'
  BY <1>1, <1>2 DEF history
<1>3. ASSUME sup \in {"audit", "send"} PROVE [id |-> note.id, deny |-> deny] \in [id : 1 .. calls, deny : BOOLEAN]
  BY <1>1, <1>3 DEF CallSound, Handling, ServeTypeOK
<1>4. CASE Audit
  BY <1>3, <1>4 DEF Audit
<1>5. CASE Send
  BY <1>3, <1>5 DEF Send
<1>6. CASE ServeMoves /\ ~Audit /\ ~Send
  BY <1>2, <1>6 DEF ServeMoves, Register, Receive, Identify, IdentifyFails, AdapterFails,
                    ServeFails, Valid, SendFails, NextNote, Keep, Collapse
<1>7. CASE \/ UNCHANGED vars \/ LaunchMoves \/ CallMoves \/ Environment \/ StartService
           \/ StopService \/ (\E t \in Threads : OtherDecide(t)) \/ LoopbackReply \/ ExternalReply
           \/ Reload \/ Decide
  BY <1>2, <1>7, LaunchMovesFrame, CallMovesFrame DEF vars, Environment, StartService, StopService,
     OtherDecide, LoopbackReply, ExternalReply, Reload, Decide
<1> QED BY NextCases, <1>4, <1>5, <1>6, <1>7
-----------------------------------------------------------------------------
(* What was answered is on record: the verdict is fixed from Audit on.     *)
LEMMA VerdictAuditedStep ==
  ASSUME VerdictAudited, [Next]_vars
  PROVE  VerdictAudited'
<1> USE DEF VerdictAudited, AnsweredAudited
<1>1. ASSUME UNCHANGED history, sup' \notin {"valid", "send"} PROVE VerdictAudited'
  BY <1>1 DEF history
<1>2. ASSUME UNCHANGED <<history, serving>> PROVE VerdictAudited'
  BY <1>2 DEF history, serving
<1>3. CASE Audit
  BY <1>3 DEF Audit
<1>4. CASE Valid
  BY <1>4 DEF Valid, history
<1>5. CASE Send
  BY <1>5 DEF Send
<1>6. CASE Register \/ (\E c \in Callers : Receive(c)) \/ Identify \/ IdentifyFails \/ AdapterFails
  BY <1>1, <1>6 DEF Register, Receive, Identify, IdentifyFails, AdapterFails, Keep, Decided
<1>7. CASE ServeFails \/ SendFails
  BY <1>1, <1>7 DEF ServeFails, SendFails, Collapse, NoThreadLeft
<1>8. CASE NextNote
  BY <1>1, <1>8 DEF NextNote, Again, NoThreadLeft
<1>9. CASE LoopbackReply \/ ExternalReply \/ Decide
  BY <1>1, <1>9 DEF LoopbackReply, ExternalReply, Decide, Decided
<1>10. CASE StopService
  BY <1>1, <1>10 DEF StopService, NoThreadLeft
<1>11. CASE \/ UNCHANGED vars \/ LaunchMoves \/ CallMoves \/ Environment \/ StartService
            \/ (\E t \in Threads : OtherDecide(t)) \/ Reload
  BY <1>2, <1>11, LaunchMovesFrame, CallMovesFrame
     DEF vars, Environment, StartService, OtherDecide, Reload
<1> QED BY NextCases, <1>3, <1>4, <1>5, <1>6, <1>7, <1>8, <1>9, <1>10, <1>11 DEF ServeMoves

LEMMA CallSoundStep ==
  ASSUME PolicyInv, UpLoaded, TypeOK, CallSound, [Next]_vars
  PROVE  CallSound'
<1> USE TypeParts DEF CallSound
<1>1. now \in Nat /\ now' \in Nat /\ now <= now'
  <2>1. now \in Nat
    BY DEF PolicyInv, PolicyTypeOK
  <2>2. now' = now \/ now' = now + 1
    BY FilesGrow DEF Environment, Tick, Install, disk
  <2> QED BY <2>1, <2>2
<1>2. \A c \in Callers : call[c].at \in Nat
  BY DEF CallTypeOK
<1>3. ASSUME UNCHANGED call, Handling' => Handling, note' = note \/ ~Handling' PROVE CallSound'
  BY <1>1, <1>2, <1>3
<1>4. ASSUME UNCHANGED <<call, serving>> PROVE CallSound'
  BY <1>3, <1>4 DEF Handling, serving
<1>5. CASE CallMoves
  <2>1. UNCHANGED <<now, files, sup, note>>
    BY <1>5, CallMovesFrame DEF disk, serving
  <2>2. Handling' => note'.id >= 1
    BY <2>1 DEF Handling
  <2>3. CASE Teardown
    BY <2>2, <2>3 DEF Teardown
  <2>4. ASSUME NEW c \in Callers, Interrupt(c) PROVE CallSound'
    BY <2>1, <2>2, <2>4 DEF Interrupt, CallTypeOK
  <2>5. ASSUME NEW c \in Callers, NEW dest \in Destinations, Connect(c, dest) PROVE CallSound'
    <3>1. call' = [call EXCEPT ![c] = [id |-> calls + 1, dest |-> dest, since |-> Len(files),
                                       at |-> now, received |-> FALSE]]
      BY <2>5 DEF Connect, Current
    <3>2. calls \in Nat /\ Len(files) >= 1
      BY DEF CallTypeOK, PolicyInv, PolicyTypeOK
    <3>3. call'[c].id >= 1 /\ call'[c].since >= 1 /\ call'[c].at <= now
      BY <1>1, <3>1, <3>2 DEF CallTypeOK
    <3>4. \A b \in Callers \ {c} : call'[b] = call[b]
      BY <3>1 DEF CallTypeOK
    <3> QED BY <2>1, <2>2, <3>3, <3>4
  <2> QED BY <1>5, <2>3, <2>4, <2>5 DEF CallMoves
<1>6. CASE ServeMoves
  <2>1. UNCHANGED now
    BY <1>6, ServeMovesFrame DEF disk
  <2>2. ASSUME NEW c \in Callers, Receive(c) PROVE CallSound'
    <3>1. /\ call[c] # NoCall /\ note' = [id |-> call[c].id, who |-> c]
          /\ call' = [call EXCEPT ![c] = [call[c] EXCEPT !.received = TRUE]]
      BY <2>2 DEF Receive
    <3>2. note'.id >= 1
      BY <3>1
    <3>3. \A b \in Callers : /\ call'[b].id = call[b].id /\ call'[b].since = call[b].since
                             /\ call'[b].at = call[b].at
      BY <3>1 DEF CallTypeOK
    <3>4. \A b \in Callers : call'[b] # NoCall => call[b] # NoCall
      BY <3>1 DEF CallTypeOK
    <3> QED BY <2>1, <3>2, <3>3, <3>4
  <2>3. CASE Send
    <3>1. note.who \in Callers /\ call' = [call EXCEPT ![note.who] = NoCall] /\ UNCHANGED note
      BY <2>3 DEF Send, ServeTypeOK
    <3>2. \A b \in Callers : call'[b] # NoCall => call'[b] = call[b]
      BY <3>1 DEF CallTypeOK
    <3>3. note.id >= 1
      BY <2>3 DEF Send, Handling
    <3> QED BY <2>1, <3>1, <3>2, <3>3
  <2>4. CASE Register \/ Identify \/ IdentifyFails \/ AdapterFails \/ Audit \/ Valid
    BY <1>3, <2>4 DEF Register, Identify, IdentifyFails, AdapterFails, Audit, Valid, Keep, Decided,
                      Handling
  <2>5. CASE ServeFails \/ SendFails
    BY <1>3, <2>5 DEF ServeFails, SendFails, Collapse, NoThreadLeft, Handling
  <2>6. CASE NextNote
    BY <1>3, <2>6 DEF NextNote, Again, NoThreadLeft, Handling
  <2> QED BY <1>6, <2>2, <2>3, <2>4, <2>5, <2>6 DEF ServeMoves
<1>7. CASE LoopbackReply \/ ExternalReply \/ Decide
  BY <1>3, <1>7 DEF LoopbackReply, ExternalReply, Decide, Decided, Handling
<1>8. CASE StopService
  BY <1>3, <1>8 DEF StopService, NoThreadLeft, Handling
<1>9. CASE \/ UNCHANGED vars \/ LaunchMoves \/ Environment \/ StartService
           \/ (\E t \in Threads : OtherDecide(t)) \/ Reload
  BY <1>4, <1>9, LaunchMovesFrame DEF vars, Environment, StartService, OtherDecide, Reload
<1> QED BY NextCases, <1>5, <1>6, <1>7, <1>8, <1>9
-----------------------------------------------------------------------------
(* The call that is being decided.                                         *)

(* A call that begins has a number no notification in hand has; so the     *)
(* pending call stays the same one until it is gone.                       *)
LEMMA PendingKept ==
  ASSUME TypeOK, CallSound, Handling, CallMoves, Pending'
  PROVE  Pending /\ call'[note.who] = call[note.who]
<1> USE TypeParts
<1>1. note.who \in Callers /\ note.id \in 1 .. calls /\ calls \in Nat /\ note' = note
  BY CallMovesFrame DEF ServeTypeOK, CallTypeOK, CallSound, serving
<1>2. call'[note.who].id = note.id
  BY <1>1 DEF Pending
<1>3. CASE Teardown
  BY <1>1, <1>2, <1>3 DEF Teardown, NoCall
<1>4. ASSUME NEW c \in Callers, Interrupt(c) PROVE Pending /\ call'[note.who] = call[note.who]
  BY <1>1, <1>2, <1>4 DEF Interrupt, NoCall, Pending, CallTypeOK
<1>5. ASSUME NEW c \in Callers, NEW dest \in Destinations, Connect(c, dest)
      PROVE  Pending /\ call'[note.who] = call[note.who]
  BY <1>1, <1>2, <1>5 DEF Connect, Pending, CallTypeOK
<1> QED BY <1>3, <1>4, <1>5 DEF CallMoves

LEMMA DecideSoundStep ==
  ASSUME PolicyInv, UpLoaded, TypeOK, CallSound, DecideSound, [Next]_vars
  PROVE  DecideSound'
<1> USE TypeParts, GuardianConstants
<1>1. ASSUME sup' \notin {"adapter", "decide"} PROVE DecideSound'
  BY <1>1 DEF DecideSound
<1>2. ASSUME UNCHANGED <<serving, at[Guard], entered[Guard], clock[Guard]>>,
             UNCHANGED call \/ CallMoves
      PROVE  DecideSound'
  <2>1. UNCHANGED <<sup, note>>
    BY <1>2 DEF serving
  <2>2. sup \in {"adapter", "decide"} => note.who = "target"
    BY DEF DecideSound
  <2>3. CASE sup = "decide" /\ Pending'
    <3>1. Handling
      BY <2>3 DEF Handling
    <3>2. Pending /\ call'["target"] = call["target"]
      BY <1>2, <2>1, <2>2, <2>3, <3>1, PendingKept DEF Pending
    <3> QED BY <1>2, <2>1, <2>2, <3>2 DEF DecideSound
  <2> QED BY <2>1, <2>2, <2>3 DEF DecideSound
<1>3. ASSUME UNCHANGED <<serving, policy>>, UNCHANGED call \/ CallMoves PROVE DecideSound'
  BY <1>2, <1>3 DEF policy, thread
<1>4. CASE UNCHANGED vars \/ LaunchMoves \/ CallMoves \/ Environment
  BY <1>3, <1>4, LaunchMovesFrame, CallMovesFrame DEF vars, Environment, Tick, Install
<1>5. CASE StartService
  <2>1. UNCHANGED <<serving, call, thread>>
    BY <1>5 DEF StartService, FirstLoad, LoadRefused, policy_vars, policy
  <2> QED BY <1>2, <2>1 DEF thread
<1>6. CASE StopService
  BY <1>1, <1>6 DEF StopService, NoThreadLeft
<1>7. ASSUME NEW t \in Threads, OtherDecide(t) PROVE DecideSound'
  <2>1. UNCHANGED <<serving, call>> /\ t # Guard /\ (Enter(t) \/ Within(t) \/ Copy(t))
    BY <1>7 DEF OtherDecide
  <2>2. UNCHANGED <<at[Guard], entered[Guard], clock[Guard]>>
    BY <2>1 DEF Within, Enter, Stat, Read, Swap, Clock, Copy, Release, PolicyInv, PolicyTypeOK
  <2> QED BY <1>2, <2>1, <2>2
<1>8. CASE ServeMoves
  <2>1. CASE Identify
    <3>1. CASE note.who = "target"
      BY <2>1, <3>1 DEF Identify, Keep, DecideSound
    <3>2. CASE note.who # "target"
      BY <1>1, <2>1, <3>2 DEF Identify, Decided
    <3> QED BY <3>1, <3>2
  <2>2. CASE Register \/ (\E c \in Callers : Receive(c)) \/ IdentifyFails \/ AdapterFails
    BY <1>1, <2>2 DEF Register, Receive, IdentifyFails, AdapterFails, Decided
  <2>3. CASE Audit \/ Valid \/ Send
    BY <1>1, <2>3 DEF Audit, Valid, Send
  <2>4. CASE ServeFails \/ SendFails \/ NextNote
    BY <1>1, <2>4 DEF ServeFails, SendFails, Collapse, NextNote, Again, NoThreadLeft
  <2> QED BY <1>8, <2>1, <2>2, <2>3, <2>4 DEF ServeMoves
<1>9. CASE LoopbackReply \/ Decide
  BY <1>1, <1>9 DEF LoopbackReply, Decide, Decided
<1>10. CASE ExternalReply
  <2>1. /\ note.who = "target" /\ UNCHANGED <<note, call>> /\ call["target"].dest = "external"
        /\ Enter(Guard)
    BY <1>10 DEF ExternalReply, DecideSound
  <2>2. at'[Guard] = "lock" /\ entered'[Guard] = Len(files)
    BY <2>1 DEF Enter, Current, PolicyInv, PolicyTypeOK
  <2>3. call["target"].since \in 0 .. Len(files)
    BY DEF CallTypeOK, Callers
  <2> QED BY <2>1, <2>2, <2>3, FilesGrow DEF DecideSound
<1>11. CASE Reload
  <2>1. sup = "decide" /\ UNCHANGED <<serving, call>> /\ Within(Guard)
    BY <1>11 DEF Reload
  <2>2. at'[Guard] # "idle" /\ entered'[Guard] = entered[Guard]
    BY <2>1 DEF Within, Stat, Read, Swap, Clock, Release, PolicyInv, PolicyTypeOK
  <2>3. at'[Guard] = "copy" => clock'[Guard] = now
    BY <2>1 DEF Within, Stat, Read, Swap, Clock, Release, PolicyInv, PolicyTypeOK
  <2>4. UNCHANGED <<sup, note>>
    BY <2>1 DEF serving
  <2>5. note.who = "target"
    BY <2>1 DEF DecideSound
  <2>6. Pending' => Pending /\ call["target"].id = note.id
    BY <2>1, <2>4, <2>5 DEF Pending
  <2>7. Pending => call["target"].at <= now /\ now \in Nat /\ call["target"].at \in Nat
    <3>1. note.id >= 1
      BY <2>1 DEF CallSound, Handling
    <3>2. Pending => call["target"] # NoCall
      BY <2>5, <3>1 DEF Pending, NoCall
    <3> QED BY <3>2 DEF CallSound, Callers, CallTypeOK, PolicyInv, PolicyTypeOK
  <2> QED BY <2>1, <2>2, <2>3, <2>4, <2>5, <2>6, <2>7 DEF DecideSound
<1> QED BY NextCases, <1>4, <1>5, <1>6, <1>7, <1>8, <1>9, <1>10, <1>11
(* A second more, or another file, demands no more of a verdict.           *)
LEMMA VerdictKept ==
  ASSUME PolicyInv, Environment, NEW c, NEW d, c.since \in Nat \ {0},
         Enforced(c, d), Ended(c, d)
  PROVE  Enforced(c, d)' /\ Ended(c, d)'
<1>1. CASE Tick
  <2>1. UNCHANGED files /\ now' = now + 1 /\ now \in Nat
    BY <1>1 DEF Tick, PolicyInv, PolicyTypeOK
  <2>2. Settled(c.since)' <=> Settled(c.since)
    BY <2>1 DEF Settled, SameFingerprint
  <2>4. ASSUME NEW i \in c.since .. Len(files), Denies(i, Own, now)' PROVE Denies(i, Own, now)
    <3>1. i \in 1 .. Len(files)
      BY DEF PolicyInv, PolicyTypeOK
    <3>2. files[i] \in Files
      BY <3>1 DEF PolicyInv, PolicyTypeOK
    <3>3. \A e \in files[i].entries : e.expires \in Nat
      BY <3>2 DEF Files, Entries
    <3> QED BY <2>1, <2>4, <3>3 DEF Denies
  <2>5. \A i : Denies(i, Own, c.at)' <=> Denies(i, Own, c.at)
    BY <2>1 DEF Denies
  <2>6. Enforced(c, d)'
    BY <2>1, <2>2, <2>4 DEF Enforced
  <2>7. Ended(c, d)'
    BY <2>1, <2>2, <2>5 DEF Ended
  <2> QED BY <2>6, <2>7
<1>2. CASE Install
  <2>1. /\ Len(files') = Len(files) + 1 /\ Len(files) \in Nat
        /\ \A i \in 1 .. Len(files) : files'[i] = files[i]
    <3>1. PolicyTypeOK
      BY DEF PolicyInv
    <3>2. Len(files) \in Nat
      BY <3>1 DEF PolicyTypeOK
    <3> QED BY <1>2, <3>1, <3>2, InstallExtends
  <2>2. Settled(c.since)' => Settled(c.since)
    BY <1>2, InstallSettled DEF PolicyInv
  <2>3. UNCHANGED now
    BY <1>2 DEF Install
  <2>4. \A i \in c.since .. Len(files) : i \in c.since .. Len(files') /\ i \in 1 .. Len(files)
    BY <2>1
  <2>5. \A i \in c.since .. Len(files) : /\ Denies(i, Own, now)' <=> Denies(i, Own, now)
                                         /\ Denies(i, Own, c.at)' <=> Denies(i, Own, c.at)
    BY <2>1, <2>3, <2>4 DEF Denies
  <2>6. Enforced(c, d)'
    BY <2>2, <2>4, <2>5 DEF Enforced
  <2>7. Ended(c, d)'
    BY <2>2, <2>4, <2>5 DEF Ended
  <2> QED BY <2>6, <2>7
<1> QED BY <1>1, <1>2 DEF Environment

(* decide() returns: its snapshot is at least as new as the call, and its  *)
(* clock was read between the call's beginning and now.                    *)
LEMMA DecideVerdict ==
  ASSUME PolicyInv, TypeOK, UpLoaded, CallSound, DecideSound, Decide, Pending
  PROVE  LET d == Denies(loaded, Own, clock[Guard])
         IN  Enforced(call["target"], d) /\ Ended(call["target"], d)
<1> DEFINE c == call["target"]
           d == Denies(loaded, Own, clock[Guard])
<1> USE GuardianConstants
<1>1. at[Guard] = "copy" /\ sup = "decide"
  BY DEF Decide, Copy
<1>2. entered[Guard] >= c.since /\ clock[Guard] >= c.at
  BY <1>1 DEF DecideSound
<1>3. /\ c.since \in 0 .. Len(files) /\ c.at \in Nat
  BY TypeParts DEF CallTypeOK, Callers
<1>4. note.who = "target" /\ note.id >= 1
  BY <1>1 DEF DecideSound, CallSound, Handling
<1>5. c # NoCall
  BY <1>4 DEF Pending, NoCall
<1>6. c.since >= 1
  BY <1>5 DEF CallSound, Callers
<1>7. /\ clock[Guard] \in 0 .. now /\ now \in Nat /\ loaded \in 0 .. Len(files)
      /\ Len(files) \in Nat /\ entered[Guard] \in 0 .. Len(files)
  BY DEF PolicyInv, PolicyTypeOK
<1>8. ASSUME Settled(c.since) PROVE loaded \in c.since .. Len(files)
  <2>1. Settled(entered[Guard])
    BY <1>2, <1>3, <1>6, <1>7, <1>8 DEF Settled
  <2>2. loaded >= entered[Guard]
    BY <1>1, <2>1 DEF PolicyInv, FreshSound
  <2> QED BY <1>2, <1>3, <1>7, <2>2
<1>9. loaded # 0 => files[loaded] \in Files
  BY <1>7 DEF PolicyInv, PolicyTypeOK
<1>10. loaded # 0
  BY <1>1 DEF UpLoaded
<1>11. \A e \in files[loaded].entries : e.expires \in Nat
  BY <1>9, <1>10 DEF Files, Entries
<1>12. Denies(loaded, Own, now) => d
  BY <1>7, <1>11 DEF Denies
<1>13. d => Denies(loaded, Own, c.at)
  BY <1>2, <1>3, <1>7, <1>11 DEF Denies
<1>14. Enforced(c, d)
  BY <1>8, <1>12 DEF Enforced
<1>15. Ended(c, d)
  BY <1>8, <1>13 DEF Ended
<1> QED BY <1>14, <1>15

LEMMA VerdictSoundStep ==
  ASSUME GuardianInv, [Next]_vars
  PROVE  VerdictSound'
<1> USE TypeParts DEF GuardianInv
<1>1. ASSUME sup' \notin {"audit", "valid", "send"} PROVE VerdictSound'
  BY <1>1 DEF VerdictSound
<1>2. ASSUME reason' = "adapter_failure" PROVE VerdictSound'
  BY <1>2 DEF VerdictSound
<1>3. ASSUME UNCHANGED disk PROVE \A c, d : /\ Enforced(c, d)' <=> Enforced(c, d)
                                            /\ Ended(c, d)' <=> Ended(c, d)
  BY <1>3 DEF Enforced, Ended, Settled, SameFingerprint, Denies, disk
<1>4. ASSUME UNCHANGED <<disk, serving>>, UNCHANGED call \/ CallMoves PROVE VerdictSound'
  <2> SUFFICES ASSUME sup \in {"audit", "valid", "send"}, note.who = "target", Pending',
                      reason # "adapter_failure"
               PROVE  Enforced(call'["target"], deny) /\ Ended(call'["target"], deny)
    BY <1>3, <1>4 DEF VerdictSound, serving
  <2>1. Handling /\ UNCHANGED note
    BY <1>4 DEF Handling, serving
  <2>2. Pending /\ call'["target"] = call["target"]
    BY <1>4, <2>1, PendingKept DEF Pending
  <2> QED BY <2>2 DEF VerdictSound
<1>5. CASE UNCHANGED vars \/ LaunchMoves \/ CallMoves
  BY <1>4, <1>5, LaunchMovesFrame, CallMovesFrame DEF vars
<1>6. CASE Environment
  <2>1. UNCHANGED <<sup, note, deny, reason, call>>
    BY <1>6 DEF Environment, serving
  <2> SUFFICES ASSUME sup \in {"audit", "valid", "send"}, note.who = "target", Pending,
                      reason # "adapter_failure"
               PROVE  Enforced(call["target"], deny)' /\ Ended(call["target"], deny)'
    BY <2>1 DEF VerdictSound, Pending
  <2>2. Enforced(call["target"], deny) /\ Ended(call["target"], deny)
    BY DEF VerdictSound
  <2>3. call["target"] # NoCall
    BY DEF CallSound, Handling, Pending, NoCall
  <2>4. call["target"].since \in Nat \ {0}
    BY <2>3, FilesGrow DEF CallSound, CallTypeOK, Callers
  <2>5. \A c, d : c = call["target"] /\ d = deny => Enforced(c, d)' /\ Ended(c, d)'
    BY <1>6, <2>2, <2>4, VerdictKept
  <2> QED BY <2>1, <2>5
<1>7. CASE StartService \/ \E t \in Threads : OtherDecide(t)
  <2>1. \A t \in Threads : Enter(t) \/ Within(t) \/ Copy(t) => UNCHANGED disk
    BY DEF Within, Enter, Stat, Read, Swap, Clock, Copy
  <2>2. UNCHANGED <<disk, serving, call>>
    BY <1>7, <2>1 DEF StartService, OtherDecide, FirstLoad, LoadRefused, policy_vars
  <2> QED BY <1>4, <2>2
<1>8. CASE StopService \/ ExternalReply \/ Reload
  BY <1>1, <1>8 DEF StopService, NoThreadLeft, ExternalReply, Reload, serving
<1>9. CASE LoopbackReply
  <2>1. ~deny' /\ UNCHANGED <<note, call>> /\ call[note.who].dest = "local"
    BY <1>9 DEF LoopbackReply, Decided
  <2> QED BY <2>1 DEF VerdictSound, Enforced, Ended
<1>10. CASE Decide
  <2>1. /\ UNCHANGED <<disk, note, call>> /\ deny' = Denies(loaded, Own, clock[Guard])
        /\ note.who = "target"
    BY <1>10 DEF Decide, Decided, Copy, DecideSound
  <2>2. Pending' => Enforced(call["target"], deny') /\ Ended(call["target"], deny')
    BY <1>10, <2>1, DecideVerdict DEF Pending
  <2> QED BY <1>3, <2>1, <2>2 DEF VerdictSound
<1>11. CASE ServeMoves
  <2>1. UNCHANGED disk
    BY <1>11, ServeMovesFrame
  <2>2. CASE Audit \/ Valid
    <3>1. UNCHANGED <<note, call, deny, reason>> /\ sup \in {"audit", "valid"}
      BY <2>2 DEF Audit, Valid
    <3> QED BY <1>3, <2>1, <3>1 DEF VerdictSound, Pending
  <2>3. CASE Identify
    BY <1>1, <2>3 DEF Identify, Decided, Keep, VerdictSound
  <2>4. CASE IdentifyFails \/ AdapterFails
    BY <1>2, <2>4 DEF IdentifyFails, AdapterFails, Decided
  <2>5. CASE Register \/ (\E c \in Callers : Receive(c)) \/ Send
    BY <1>1, <2>5 DEF Register, Receive, Send
  <2>6. CASE ServeFails \/ SendFails \/ NextNote
    BY <1>1, <2>6 DEF ServeFails, SendFails, Collapse, NextNote, Again, NoThreadLeft
  <2> QED BY <1>11, <2>2, <2>3, <2>4, <2>5, <2>6 DEF ServeMoves
<1> QED BY NextCases, <1>5, <1>6, <1>7, <1>8, <1>9, <1>10, <1>11
-----------------------------------------------------------------------------
LEMMA GuardianInitInv == Init => GuardianInv
<1> SUFFICES ASSUME Init PROVE GuardianInv OBVIOUS
<1>1. PolicyInv
  BY PolicyInitInv DEF Init
<1>2. /\ service = "down" /\ sup = "none" /\ generation = 0 /\ processed = 0
      /\ note = NoNote /\ deny = TRUE /\ reason = "none"
      /\ launcher = "connect" /\ reply = "none" /\ child = "held" /\ target = "held"
      /\ call = [c \in Callers |-> NoCall] /\ calls = 0
      /\ audit = {} /\ answered = {} /\ faults = 0
  BY DEF Init
<1>3. loaded = 0
  BY DEF Init, PolicyInit
<1>4. ServeTypeOK /\ LaunchTypeOK /\ HistoryTypeOK
  BY <1>2 DEF ServeTypeOK, LaunchTypeOK, HistoryTypeOK, NoNote, Callers
<1>5. CallTypeOK
  BY <1>1, <1>2 DEF CallTypeOK, NoCall, Destinations, PolicyInv, PolicyTypeOK
<1>6. TypeOK
  BY <1>1, <1>4, <1>5, TypeParts DEF PolicyInv
<1> QED BY <1>1, <1>2, <1>3, <1>6
        DEF GuardianInv, UpLoaded, VerdictAudited, AnsweredAudited, CallSound, Handling,
            DecideSound, VerdictSound

LEMMA GuardianStep == GuardianInv /\ [Next]_vars => GuardianInv'
<1> SUFFICES ASSUME GuardianInv, [Next]_vars PROVE GuardianInv' OBVIOUS
<1>1. PolicyInv'
  BY PolicyOfStep, PolicyStep DEF GuardianInv
<1>2. TypeOK'
  <2>1. LaunchTypeOK'
    BY LaunchTypeStep, TypeParts DEF GuardianInv
  <2>2. CallTypeOK' /\ ServeTypeOK' /\ HistoryTypeOK'
    BY CallTypeStep, ServeTypeStep, HistoryTypeStep DEF GuardianInv
  <2>3. PolicyTypeOK'
    BY <1>1 DEF PolicyInv
  <2> QED BY <2>1, <2>2, <2>3
          DEF TypeOK, ServeTypeOK, LaunchTypeOK, CallTypeOK, HistoryTypeOK
<1> QED BY <1>1, <1>2, UpLoadedStep, VerdictAuditedStep, CallSoundStep, DecideSoundStep,
           VerdictSoundStep DEF GuardianInv

(* Every reachable state of a protected launch is well typed and its       *)
(* verdict in hand is on record and justified.                             *)
THEOREM GuardianSound == Spec => []GuardianInv
<1> QED BY GuardianInitInv, GuardianStep, PTL DEF Spec

(* Whatever a launch, its threads and its faults do, every variable of the *)
(* launcher, the callers, the guardian and the policy keeps its type.      *)
THEOREM GuardianTypeOK == Spec => []TypeOK
<1>1. GuardianInv => TypeOK
  BY DEF GuardianInv
<1> QED BY <1>1, GuardianSound, PTL

(* A launch implements the runtime policy, so what is proved of the policy *)
(* holds for the guardian with all its threads.                            *)
THEOREM GuardianImplementsPolicy == Spec => PolicySpec
<1>1. Init => PolicyInit
  BY DEF Init
<1>2. GuardianInv /\ [Next]_vars => [PolicyNext]_policy_vars
  BY PolicyOfStep DEF GuardianInv
<1> QED BY <1>1, <1>2, GuardianSound, PTL DEF Spec, PolicySpec

(* decide() in the guardian's threads uses a snapshot that is authentic    *)
(* and not older than the file that was there when it was called.          *)
THEOREM GuardianDecideFresh == Spec => []DecideFresh
<1> QED BY GuardianImplementsPolicy, PolicyDecideFresh, PTL

(* Whatever answer a process received is in the audit file.                *)
THEOREM GuardianAnsweredAudited == Spec => []AnsweredAudited
<1>1. GuardianInv => AnsweredAudited
  BY DEF GuardianInv, VerdictAudited
<1> QED BY <1>1, GuardianSound, PTL

LEMMA SendVerdict ==
  ASSUME GuardianInv, Send, note.who = "target", reason # "adapter_failure"
  PROVE  Enforced(call["target"], deny) /\ Ended(call["target"], deny)
BY DEF Send, GuardianInv, VerdictSound

(* A connect of the target is not continued against a DENY that was on the *)
(* path since before it and is still live.                                 *)
THEOREM GuardianDenyEnforced == Spec => DenyEnforced
<1>1. ASSUME GuardianInv
      PROVE  LET c == call["target"] IN
             /\ Send /\ note.who = "target" /\ c.dest = "external"
             /\ reason # "adapter_failure"
             /\ Settled(c.since)
             /\ \A i \in c.since .. Len(files) : Denies(i, Own, now)
             => deny
  BY <1>1, SendVerdict DEF Enforced
<1> QED BY <1>1, GuardianSound, PTL DEF DenyEnforced

(* A connect of the target is not denied when no file since before it      *)
(* denies its namespace.                                                   *)
THEOREM GuardianRestrictionEnds == Spec => RestrictionEnds
<1>1. ASSUME GuardianInv
      PROVE  LET c == call["target"] IN
             /\ Send /\ note.who = "target" /\ reason # "adapter_failure"
             /\ Settled(c.since)
             /\ \A i \in c.since .. Len(files) : ~Denies(i, Own, c.at)
             => ~deny
  BY <1>1, SendVerdict DEF Ended
<1> QED BY <1>1, GuardianSound, PTL DEF RestrictionEnds
=============================================================================
