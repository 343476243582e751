--------------------------- MODULE RuntimePolicy ---------------------------
(***************************************************************************)
(* The guardian's view of the Gate 3 cache (deploy/agb_gate3_runtime.py):  *)
(* decide() first reloads the snapshot when the file's fingerprint (mtime  *)
(* and size) has changed, then looks for a live DENY of a namespace.  One  *)
(* Gate3RuntimePolicy is shared by all supervising threads; the file is    *)
(* replaced by rename (write_gate4_gate3_cache.py, src/policy.rs) at any   *)
(* time.                                                                   *)
(*                                                                         *)
(* Of a snapshot the model keeps whether it authenticates under the key    *)
(* and revision (a file that is missing, damaged or foreign does not) and  *)
(* which namespace is denied until when.  Which of several live entries    *)
(* decide() reports is wording.                                            *)
(***************************************************************************)
EXTENDS Integers, Sequences

CONSTANTS
  Threads,       \* supervising threads
  NoThread,      \* nobody holds the reload lock
  Namespaces,    \* process namespaces
  MtimeSteps,    \* by how much the mtime of the next file may differ
  TTL,           \* lifetime of a DENY, in seconds
  MaxNow,        \* bound: the clock stops here
  MaxInstalls    \* bound: files that take the path

ASSUME PolicyConstants ==
  /\ NoThread \notin Threads
  /\ MtimeSteps \subseteq Nat
  /\ TTL \in Nat \ {0} /\ MaxNow \in Nat /\ MaxInstalls \in Nat \ {0}

VARIABLES
  now,           \* time.time() in seconds
  files,         \* history: every file that took the path; the last is there
  loaded,        \* _entries, as the index of its file; 0 for None
  fingerprint,   \* _fingerprint, as the index of a file that has it
  reload_lock,   \* the thread that holds _reload_lock
  at,            \* where each thread is in decide()
  seen,          \* fingerprint: the file stat() was called on
  got,           \* entries: the file that was read
  clock,         \* now: the second that was read
  entered        \* history: the file that was there when decide() was called

disk == <<now, files>>
thread == <<at, seen, got, clock, entered>>
policy == <<loaded, fingerprint, reload_lock, thread>>
policy_vars == <<disk, policy>>

Entries == [ns : Namespaces, expires : Nat]

Current == Len(files)

SameFingerprint(i, j) ==
  files[i].mtime = files[j].mtime /\ files[i].size = files[j].size

(* decide(): the snapshot holds a live DENY of the namespace.              *)
Denies(i, ns, second) ==
  \E e \in files[i].entries : e.ns = ns /\ e.expires > second
-----------------------------------------------------------------------------
File(mtime, good, entries, size) ==
  [mtime |-> mtime, good |-> good, entries |-> entries, size |-> size]

PolicyInit ==
  /\ now = 0
  /\ files = <<File(0, TRUE, {}, 0)>>
  /\ loaded = 0 /\ fingerprint = 0 /\ reload_lock = NoThread
  /\ at = [t \in Threads |-> "idle"]
  /\ seen = [t \in Threads |-> 0] /\ got = [t \in Threads |-> 0]
  /\ clock = [t \in Threads |-> 0] /\ entered = [t \in Threads |-> 0]

Tick ==
  /\ now < MaxNow /\ now' = now + 1
  /\ UNCHANGED <<files, policy>>

(* A file takes the path.  Two files that are written within one step of   *)
(* the file system's clock have the same mtime.                            *)
Install ==
  /\ Len(files) < MaxInstalls
  /\ \E step \in MtimeSteps :
       LET mtime == files[Current].mtime + step IN
       \/ files' = Append(files, File(mtime, TRUE, {}, 0))
       \/ \E ns \in Namespaces :
            files' = Append(files, File(mtime, TRUE, {[ns |-> ns, expires |-> now + TTL]}, 1))
       \/ files' = Append(files, File(mtime, FALSE, {}, 2))
  /\ UNCHANGED <<now, policy>>
-----------------------------------------------------------------------------
(* reload(required=True) in main(), before any thread exists; the file may *)
(* be replaced between its stat() and its reading.                         *)
FirstLoad ==
  /\ files[Current].good
  /\ loaded' = Current
  /\ fingerprint' \in 1 .. Current
  /\ UNCHANGED <<disk, reload_lock, thread>>

(* main() returns 78; the service manager may try again.                   *)
LoadRefused == ~files[Current].good /\ UNCHANGED policy_vars

Enter(t) ==
  /\ at[t] = "idle"
  /\ at' = [at EXCEPT ![t] = "lock"]
  /\ entered' = [entered EXCEPT ![t] = Current]
  /\ UNCHANGED <<disk, loaded, fingerprint, reload_lock, seen, got, clock>>

(* Mutant of TakeLock: reload() without the reload lock.                   *)
TakeNoLock(t) == UNCHANGED reload_lock

TakeLock(t) == reload_lock = NoThread /\ reload_lock' = t

(* stat(): an unchanged fingerprint ends the reload.                       *)
Stat(t) ==
  /\ at[t] = "lock"
  /\ IF SameFingerprint(Current, fingerprint)
     THEN /\ reload_lock = NoThread
          /\ at' = [at EXCEPT ![t] = "clock"]
          /\ UNCHANGED <<reload_lock, seen>>
     ELSE /\ TakeLock(t)
          /\ at' = [at EXCEPT ![t] = "read"]
          /\ seen' = [seen EXCEPT ![t] = Current]
  /\ UNCHANGED <<disk, loaded, fingerprint, got, clock, entered>>

Release(t) ==
  /\ reload_lock' = IF reload_lock = t THEN NoThread ELSE reload_lock
  /\ at' = [at EXCEPT ![t] = "clock"]

(* The file is read and authenticated; a bad one leaves everything as it   *)
(* was.                                                                    *)
Read(t) ==
  /\ at[t] = "read"
  /\ IF files[Current].good
     THEN /\ got' = [got EXCEPT ![t] = Current]
          /\ at' = [at EXCEPT ![t] = "swap"]
          /\ UNCHANGED <<reload_lock, seen>>
     ELSE /\ Release(t)
          /\ seen' = [seen EXCEPT ![t] = 0]
          /\ UNCHANGED got
  /\ UNCHANGED <<disk, loaded, fingerprint, clock, entered>>

(* Mutant of Swap: the fingerprint is taken after the file was read.       *)
SwapLateFingerprint(t) ==
  /\ at[t] = "swap"
  /\ loaded' = got[t] /\ fingerprint' = Current
  /\ Release(t)
  /\ seen' = [seen EXCEPT ![t] = 0] /\ got' = [got EXCEPT ![t] = 0]
  /\ UNCHANGED <<disk, clock, entered>>

Swap(t) ==
  /\ at[t] = "swap"
  /\ loaded' = got[t] /\ fingerprint' = seen[t]
  /\ Release(t)
  /\ seen' = [seen EXCEPT ![t] = 0] /\ got' = [got EXCEPT ![t] = 0]
  /\ UNCHANGED <<disk, clock, entered>>

Clock(t) ==
  /\ at[t] = "clock"
  /\ clock' = [clock EXCEPT ![t] = now]
  /\ at' = [at EXCEPT ![t] = "copy"]
  /\ UNCHANGED <<disk, loaded, fingerprint, reload_lock, seen, got, entered>>

(* The entries are copied under _lock; the rest of decide() is local.      *)
Copy(t) ==
  /\ at[t] = "copy"
  /\ at' = [at EXCEPT ![t] = "idle"] /\ clock' = [clock EXCEPT ![t] = 0]
  /\ entered' = [entered EXCEPT ![t] = 0]
  /\ UNCHANGED <<disk, loaded, fingerprint, reload_lock, seen, got>>

Within(t) == Stat(t) \/ Read(t) \/ Swap(t) \/ Clock(t)

(* The process is gone, with its threads and what it had loaded.           *)
Forget ==
  /\ loaded' = 0 /\ fingerprint' = 0 /\ reload_lock' = NoThread
  /\ at' = [t \in Threads |-> "idle"]
  /\ seen' = [t \in Threads |-> 0] /\ got' = [t \in Threads |-> 0]
  /\ clock' = [t \in Threads |-> 0] /\ entered' = [t \in Threads |-> 0]

(* The policy by itself: the process starts, its threads decide, and it    *)
(* ends.                                                                   *)
Load == loaded = 0 /\ (FirstLoad \/ LoadRefused)

End == loaded # 0 /\ Forget /\ UNCHANGED disk

Step(t) == loaded # 0 /\ (Enter(t) \/ Within(t) \/ Copy(t))

PolicyNext == Tick \/ Install \/ Load \/ End \/ \E t \in Threads : Step(t)

PolicySpec == PolicyInit /\ [][PolicyNext]_policy_vars
-----------------------------------------------------------------------------
Files == [mtime : Nat, good : BOOLEAN, entries : SUBSET Entries, size : Nat]

(* The type of every variable of the policy.                               *)
PolicyTypeOK ==
  /\ now \in Nat
  /\ files \in Seq(Files) /\ Len(files) > 0
  /\ loaded \in 0 .. Len(files) /\ fingerprint \in 0 .. Len(files)
  /\ reload_lock \in Threads \cup {NoThread}
  /\ at \in [Threads -> {"idle", "lock", "read", "swap", "clock", "copy"}]
  /\ seen \in [Threads -> 0 .. Len(files)]
  /\ got \in [Threads -> 0 .. Len(files)]
  /\ clock \in [Threads -> 0 .. now]
  /\ entered \in [Threads -> 0 .. Len(files)]

(* A thread that reloads never puts an older snapshot in the place of a    *)
(* newer one that another thread has loaded.                               *)
LoadedForward == [][loaded # 0 /\ loaded' # 0 => loaded' >= loaded]_policy_vars

(* Since file first the file on the path has been authentic and told apart *)
(* from every earlier one by its fingerprint.                              *)
Settled(first) ==
  \A i \in first .. Len(files) :
    /\ files[i].good
    /\ \A j \in 1 .. i - 1 : ~SameFingerprint(i, j)

(* ROADMAP.md: "each external connect consults the current authenticated   *)
(* Gate 3 cache."  The snapshot that decide() is about to copy is          *)
(* authentic, and not older than the file that was there when decide() was *)
(* called, however the reloads of several threads and the replacements of  *)
(* the file interleave.                                                    *)
DecideFresh ==
  \A t \in Threads : at[t] = "copy" =>
    /\ files[loaded].good
    /\ Settled(entered[t]) => loaded >= entered[t]
=============================================================================
