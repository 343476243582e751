-------------------------- MODULE SupervisionProofs --------------------------
(***************************************************************************)
(* Proofs about what keeps the broker and the guardian running: the        *)
(* supervisor never runs two brokers and announces only one that has bound *)
(* the socket itself; the restart budget is neither overrun nor called     *)
(* exhausted early; a hand-off is accepted at most once and only as it was *)
(* signed.  They hold for any budget, window, sets of peers, nonces and    *)
(* lifetimes and any number of signals and failures.                       *)
(*                                                                         *)
(* Each program is argued about alone, with the definitions of its         *)
(* instance; the last section puts the invariants together for             *)
(* MCSupervision, whose behaviours are those of one program each.          *)
(***************************************************************************)
EXTENDS MCSupervision, Sequences, FiniteSetTheorems, TLAPS

\* A module that is instantiated counts as this one does.
LEMMA CountsAlike ==
    \A S : Keeper!Cardinality(S) = Cardinality(S) /\ Budget!Cardinality(S) = Cardinality(S)
    BY DEF Keeper!Cardinality, Keeper!IsFiniteSet, Budget!Cardinality, Budget!IsFiniteSet,
           Cardinality, IsFiniteSet

-----------------------------------------------------------------------------
(* The supervisor.                                                         *)

Places == {"loop", "popen", "poll", "unhealthy", "reap", "wait", "finally", "ended"}
Statuses == {"none", "starting", "serving", "returned", "failed"}

\* supervisor is a record, which TypeOK leaves out.
Typed ==
    /\ supervisor \in [pc : Places, restarts : 0..(MaxRestarts + 1), gen : 0..(MaxRestarts + 1)]
    /\ process \in [Keeper!Generations -> Statuses]
    /\ signalled \subseteq Keeper!Generations
    /\ socket \in Keeper!Generations \union {Keeper!NoSocket}
    /\ faults \in 0..MaxFaults

\* Every restart has used up one process.
Counted ==
    /\ supervisor.pc \in {"loop", "popen"} => Keeper!Present = supervisor.restarts
    /\ supervisor.pc = "popen" => supervisor.restarts <= MaxRestarts
    /\ supervisor.pc \in {"poll", "unhealthy", "reap", "wait"} =>
          Keeper!Present = supervisor.restarts + 1

\* Only the present process may run; before the next one starts it has ended.
OnlyPresentRuns ==
    /\ \A g \in Keeper!Generations : g < Keeper!Present => Keeper!Exited(g)
    /\ \A g \in Keeper!Generations : g > Keeper!Present => process[g] = "none"
    /\ supervisor.pc \in {"loop", "popen"} =>
          \A g \in Keeper!Generations : g <= Keeper!Present => Keeper!Exited(g)

\* The path names a process that has bound it; a new process starts without.
SocketSound ==
    /\ \A g \in Keeper!Generations : socket = g => process[g] \notin {"none", "starting"}
    /\ supervisor.pc = "popen" => socket = Keeper!NoSocket
    /\ supervisor.pc \in {"poll", "wait"} => socket \in {Keeper!NoSocket, Keeper!Present}
    /\ supervisor.pc = "wait" => socket = Keeper!Present

KeeperInv == Typed /\ Counted /\ OnlyPresentRuns /\ SocketSound

LEMMA KeeperInit == Keeper!Init => KeeperInv
BY SupervisionConstants
DEF Keeper!Init, KeeperInv, Typed, Counted, OnlyPresentRuns, SocketSound, Places,
       Statuses, Keeper!Generations, Keeper!NoSocket, Keeper!Present, Keeper!Exited

\* What a restart makes of the supervisor's record.
LEMMA RestartFacts ==
    ASSUME Typed, Counted, supervisor.pc \in {"unhealthy", "reap", "wait"}, Keeper!RestartLater
    PROVE  /\ supervisor' \in [pc : Places, restarts : 0..(MaxRestarts + 1),
                                gen : 0..(MaxRestarts + 1)]
           /\ supervisor'.pc = "loop" /\ supervisor'.gen = Keeper!Present
           /\ supervisor'.restarts = supervisor.restarts + 1
           /\ supervisor'.restarts = Keeper!Present /\ Keeper!Present \in Keeper!Generations
<1> USE SupervisionConstants
<1>1. supervisor.restarts \in 0..(MaxRestarts + 1) /\ Keeper!Present \in 0..(MaxRestarts + 1)
    BY DEF Typed, Keeper!Present
<1>2. Keeper!Present = supervisor.restarts + 1
    BY DEF Counted
<1>3. supervisor' = [pc |-> "loop", restarts |-> supervisor.restarts + 1, gen |-> Keeper!Present]
    BY DEF Typed, Keeper!RestartLater, Keeper!Present
<1>4. supervisor.restarts + 1 \in 0..(MaxRestarts + 1) /\ Keeper!Present \in Keeper!Generations
    BY <1>1, <1>2 DEF Keeper!Generations
<1> QED
    BY <1>1, <1>2, <1>3, <1>4 DEF Places

\* A restart follows the end of the present process.
LEMMA RestartPreserves ==
    ASSUME KeeperInv, supervisor.pc \in {"unhealthy", "reap", "wait"},
           Keeper!RestartLater, Keeper!Exited(Keeper!Present),
           UNCHANGED <<process, signalled, socket, faults>>
    PROVE  KeeperInv'
<1> USE SupervisionConstants
<1>1. Typed /\ Counted /\ OnlyPresentRuns /\ SocketSound
    BY DEF KeeperInv
<1>2. /\ supervisor' \in [pc : Places, restarts : 0..(MaxRestarts + 1),
                           gen : 0..(MaxRestarts + 1)]
      /\ supervisor'.pc = "loop" /\ supervisor'.gen = Keeper!Present
      /\ supervisor'.restarts = Keeper!Present /\ Keeper!Present \in Keeper!Generations
    BY <1>1, RestartFacts
<1>3. Typed' /\ Counted'
    BY <1>1, <1>2 DEF Typed, Counted, Keeper!Present, Keeper!Generations
<1>4. OnlyPresentRuns'
    BY <1>1, <1>2 DEF OnlyPresentRuns, Keeper!Present, Keeper!Generations, Keeper!Exited
<1>5. SocketSound'
    BY <1>1, <1>2 DEF SocketSound, Keeper!Present, Keeper!Generations
<1> QED
    BY <1>3, <1>4, <1>5 DEF KeeperInv

\* stop() signals a process that is there.
LEMMA StopTyped ==
    ASSUME Typed, Keeper!StopPresent
    PROVE  signalled' \subseteq Keeper!Generations
<1>1. Keeper!Running \subseteq Keeper!Generations
    BY DEF Keeper!Running
<1> QED
    BY <1>1 DEF Typed, Keeper!StopPresent

\* The supervisor's own steps.
LEMMA SupervisePreserves ==
    ASSUME KeeperInv, Keeper!Supervise
    PROVE  KeeperInv'
<1> USE SupervisionConstants
<1> USE DEF Keeper!Generations, Keeper!NoSocket, Keeper!Present, Places, Statuses,
        Keeper!Fault, Keeper!Goto
<1>1. CASE Keeper!Loop
    BY <1>1 DEF Keeper!Loop, KeeperInv, Typed, Counted, OnlyPresentRuns, SocketSound,
                Keeper!Exited
<1>2. CASE Keeper!Popen
    <2>1. CASE Keeper!Goto("finally") /\ Keeper!Fault /\ UNCHANGED <<process, signalled, socket>>
        BY <1>2, <2>1 DEF Keeper!Popen, KeeperInv, Typed, Counted, OnlyPresentRuns,
                          SocketSound, Keeper!Exited
    <2>2. CASE ~(Keeper!Goto("finally") /\ Keeper!Fault /\ UNCHANGED <<process, signalled, socket>>)
        <3>1. /\ supervisor' = [supervisor EXCEPT !.pc = "poll", !.gen = @ + 1]
              /\ process' = [process EXCEPT ![Keeper!Present + 1] = "starting"]
              /\ UNCHANGED <<faults, signalled, socket>>
            BY <1>2, <2>2 DEF Keeper!Popen
        <3>2. supervisor' = [pc |-> "poll", restarts |-> supervisor.restarts,
                               gen |-> Keeper!Present + 1]
            BY <3>1 DEF KeeperInv, Typed
        <3>3. Keeper!Present + 1 \in Keeper!Generations /\ Keeper!Present \in Nat
              /\ supervisor.restarts = Keeper!Present
              /\ supervisor.restarts \in 0..(MaxRestarts + 1)
            BY <1>2 DEF Keeper!Popen, KeeperInv, Typed, Counted
        <3>4. Typed'
            BY <3>1, <3>2, <3>3 DEF KeeperInv, Typed
        <3>5. Counted'
            BY <3>2, <3>3 DEF Counted
        <3>6. OnlyPresentRuns'
            BY <1>2, <3>1, <3>2, <3>3 DEF Keeper!Popen, KeeperInv, Typed, OnlyPresentRuns,
                                          Keeper!Exited
        <3>7. SocketSound'
            BY <1>2, <3>1, <3>2, <3>3 DEF Keeper!Popen, KeeperInv, Typed, SocketSound,
                                          OnlyPresentRuns, Keeper!Exited
        <3> QED
            BY <3>4, <3>5, <3>6, <3>7 DEF KeeperInv
    <2> QED
        BY <2>1, <2>2
<1>3. CASE Keeper!Poll
    BY <1>3 DEF Keeper!Poll, KeeperInv, Typed, Counted, OnlyPresentRuns, SocketSound,
                Keeper!Exited
<1>4. CASE Keeper!Unhealthy
    <2>1. CASE Keeper!Exited(Keeper!Present)
        BY <1>4, <2>1, RestartPreserves DEF Keeper!Unhealthy
    <2>2. CASE ~Keeper!Exited(Keeper!Present)
        BY <1>4, <2>2 DEF Keeper!Unhealthy, KeeperInv, Typed, Counted, OnlyPresentRuns,
                          SocketSound, Keeper!Exited
    <2> QED
        BY <2>1, <2>2
<1>5. CASE Keeper!Reap
    <2>1. CASE Keeper!Exited(Keeper!Present)
        BY <1>5, <2>1, RestartPreserves DEF Keeper!Reap
    <2>2. CASE ~Keeper!Exited(Keeper!Present)
        BY <1>5, <2>2 DEF Keeper!Reap, KeeperInv, Typed, Counted, OnlyPresentRuns,
                          SocketSound, Keeper!Exited
    <2> QED
        BY <2>1, <2>2
<1>6. CASE Keeper!Wait
    <2>1. CASE process[Keeper!Present] = "failed"
        BY <1>6, <2>1, RestartPreserves DEF Keeper!Wait, Keeper!Exited
    <2>2. CASE process[Keeper!Present] # "failed"
        BY <1>6, <2>2 DEF Keeper!Wait, KeeperInv, Typed, Counted, OnlyPresentRuns,
                          SocketSound, Keeper!Exited
    <2> QED
        BY <2>1, <2>2
<1>7. CASE Keeper!Finally
    <2>1. signalled' \subseteq Keeper!Generations
        BY <1>7, StopTyped DEF Keeper!Finally, KeeperInv
    <2> QED
        BY <1>7, <2>1 DEF Keeper!Finally, KeeperInv, Typed, Counted, OnlyPresentRuns,
                          SocketSound, Keeper!Exited
<1> QED
    BY <1>1, <1>2, <1>3, <1>4, <1>5, <1>6, <1>7 DEF Keeper!Supervise

\* Signals and the steps of the brokers.
LEMMA OthersPreserve ==
    ASSUME KeeperInv,
           \/ Keeper!Signal
           \/ \E g \in Keeper!Generations : Keeper!Bind(g) \/ Keeper!Exit(g) \/ Keeper!Terminate(g)
    PROVE  KeeperInv'
<1> USE SupervisionConstants
<1> USE DEF Keeper!Generations, Keeper!NoSocket, Keeper!Present, Places, Statuses
<1>1. CASE Keeper!Signal
    <2>1. signalled' \subseteq Keeper!Generations
        BY <1>1, StopTyped DEF Keeper!Signal, KeeperInv
    <2> QED
        BY <1>1, <2>1 DEF Keeper!Signal, Keeper!Fault, KeeperInv, Typed, Counted,
                          OnlyPresentRuns, SocketSound, Keeper!Exited
<1>2. ASSUME NEW g \in Keeper!Generations, Keeper!Bind(g)
      PROVE  KeeperInv'
    <2>1. g = Keeper!Present /\ supervisor.pc \notin {"loop", "popen", "wait"}
        BY <1>2 DEF Keeper!Bind, KeeperInv, Typed, OnlyPresentRuns, SocketSound, Keeper!Exited
    <2> QED
        BY <1>2, <2>1 DEF Keeper!Bind, KeeperInv, Typed, Counted, OnlyPresentRuns,
                          SocketSound, Keeper!Exited
<1>3. ASSUME NEW g \in Keeper!Generations, Keeper!Exit(g)
      PROVE  KeeperInv'
    BY <1>3 DEF Keeper!Exit, Keeper!Running, KeeperInv, Typed, Counted, OnlyPresentRuns,
                SocketSound,
                Keeper!Exited
<1>4. ASSUME NEW g \in Keeper!Generations, Keeper!Terminate(g)
      PROVE  KeeperInv'
    BY <1>4 DEF Keeper!Terminate, Keeper!Running, KeeperInv, Typed, Counted, OnlyPresentRuns,
                SocketSound, Keeper!Exited
<1> QED
    BY <1>1, <1>2, <1>3, <1>4

LEMMA KeeperInductive == KeeperInv /\ [Keeper!Next]_(Keeper!vars) => KeeperInv'
<1> SUFFICES ASSUME KeeperInv, [Keeper!Next]_(Keeper!vars)
             PROVE  KeeperInv'
    OBVIOUS
<1>1. CASE UNCHANGED Keeper!vars
    BY <1>1 DEF Keeper!vars, KeeperInv, Typed, Counted, OnlyPresentRuns, SocketSound,
                Keeper!Present, Keeper!Exited
<1>2. CASE Keeper!Next
    BY <1>2, SupervisePreserves, OthersPreserve DEF Keeper!Next
<1> QED
    BY <1>1, <1>2

LEMMA InvOneBroker == KeeperInv => Keeper!OneBroker
<1> SUFFICES ASSUME KeeperInv
             PROVE  Cardinality(Keeper!Running) <= 1
    BY CountsAlike DEF Keeper!OneBroker
<1>1. Keeper!Running \subseteq {Keeper!Present}
    BY SupervisionConstants DEF KeeperInv, Typed, OnlyPresentRuns, Keeper!Running, Keeper!Exited,
           Keeper!Present, Keeper!Generations
<1>2. IsFiniteSet({Keeper!Present}) /\ Cardinality({Keeper!Present}) = 1
    BY FS_Singleton
<1>3. Cardinality(Keeper!Running) <= Cardinality({Keeper!Present})
    BY <1>1, <1>2, FS_Subset
<1>4. Cardinality(Keeper!Running) \in Nat
    BY <1>1, <1>2, FS_Subset, FS_CardinalityType
<1> QED
    BY <1>2, <1>3, <1>4

-----------------------------------------------------------------------------
(* The restart budget.                                                     *)

\* Restarts are numbered, so that no two are the same.
Numbered ==
    /\ clock \in Nat /\ IsFiniteSet(admitted)
    /\ admitted \subseteq [number : Nat, at : Nat]
    /\ \A restart \in admitted : restart.at <= clock /\ restart.number <= Cardinality(admitted)

\* What the budget has forgotten is out of the window for good.
Remembered ==
    /\ attempts \subseteq admitted
    /\ \A restart \in admitted \ attempts : restart.at <= clock - Window

BudgetInv == Numbered /\ Remembered /\ Budget!NoWindowOverrun

\* The attempts that count are the restarts of the window that ends now.
LEMMA RecentIsWindow ==
    ASSUME Numbered, Remembered
    PROVE  Budget!Recent(clock) = Budget!Within(clock - Window, clock)
<1>1. \A restart \in admitted : restart.at \in Nat /\ restart.at <= clock
    BY DEF Numbered
<1> QED
    BY <1>1, SupervisionConstants DEF Numbered, Remembered, Budget!Recent, Budget!Within

\* The restarts of a window are finitely many.
LEMMA WindowFinite ==
    ASSUME Numbered, NEW from, NEW to
    PROVE  /\ IsFiniteSet(Budget!Within(from, to))
           /\ Cardinality(Budget!Within(from, to)) \in Nat
<1>1. Budget!Within(from, to) \subseteq admitted
    BY DEF Budget!Within
<1> QED
    BY <1>1, FS_Subset, FS_CardinalityType DEF Numbered

LEMMA BudgetInit == Budget!Init => BudgetInv
<1> SUFFICES ASSUME Budget!Init
             PROVE  BudgetInv
    OBVIOUS
<1>1. \A from, to : Budget!Within(from, to) = {}
    BY DEF Budget!Init, Budget!Within
<1>2. IsFiniteSet({}) /\ Cardinality({}) = 0
    BY FS_EmptySet
<1> QED
    BY CountsAlike, <1>1, <1>2, SupervisionConstants
    DEF Budget!Init, BudgetInv, Numbered, Remembered, Budget!NoWindowOverrun

\* An admitted restart is new, and only the window that ends now sees it.
LEMMA AdmitPreserves ==
    ASSUME BudgetInv, Budget!Consume, Cardinality(Budget!Recent(clock)) < Maximum
    PROVE  BudgetInv'
<1> DEFINE restart == Budget!Restart
<1>1. /\ attempts' = Budget!Recent(clock) \union {restart}
      /\ admitted' = admitted \union {restart} /\ clock' = clock
    <2>1. Cardinality(Budget!Recent(clock)) \in Nat
        BY RecentIsWindow, WindowFinite DEF BudgetInv
    <2> QED
        BY CountsAlike, <2>1, SupervisionConstants DEF Budget!Consume
<1>2. /\ clock \in Nat /\ IsFiniteSet(admitted) /\ Cardinality(admitted) \in Nat
      /\ \A other \in admitted : other.number <= Cardinality(admitted)
    BY FS_CardinalityType DEF BudgetInv, Numbered
<1>3. /\ restart = [number |-> Cardinality(admitted) + 1, at |-> clock]
      /\ restart \in [number : Nat, at : Nat] /\ restart.at = clock
      /\ restart.number = Cardinality(admitted) + 1
    BY CountsAlike, <1>2 DEF Budget!Restart
<1> HIDE DEF restart
<1>4. restart \notin admitted
    BY <1>2, <1>3 DEF BudgetInv, Numbered
<1>5. IsFiniteSet(admitted') /\ Cardinality(admitted') = Cardinality(admitted) + 1
    BY <1>1, <1>2, <1>4, FS_AddElement
<1>6. Numbered'
    BY <1>1, <1>2, <1>3, <1>5 DEF BudgetInv, Numbered
<1>7. Remembered'
    <2>1. Budget!Recent(clock) \subseteq attempts
        BY DEF Budget!Recent
    <2>2. ASSUME NEW other \in admitted, other \notin Budget!Recent(clock)
          PROVE  other.at <= clock - Window
        BY <1>2, <2>2, SupervisionConstants DEF BudgetInv, Numbered, Remembered, Budget!Recent
    <2> QED
        BY <1>1, <2>1, <2>2 DEF BudgetInv, Remembered
<1>8. ASSUME NEW to \in 0..clock
      PROVE  Cardinality(Budget!Within(to - Window, to)') <= Maximum
    <2> DEFINE before == Budget!Within(to - Window, to)
    <2>1. CASE to = clock
        <3>1. Budget!Within(to - Window, to)' = before \union {restart}
            BY <1>1, <1>2, <1>3, <2>1, SupervisionConstants DEF Budget!Within
        <3>2. before = Budget!Recent(clock) /\ restart \notin before
            BY <1>4, <2>1, RecentIsWindow DEF BudgetInv, Budget!Within
        <3>3. IsFiniteSet(before) /\ Cardinality(before) \in Nat
            BY WindowFinite DEF BudgetInv
        <3> HIDE DEF before
        <3>4. Cardinality(before \union {restart}) = Cardinality(before) + 1
            BY <3>2, <3>3, FS_AddElement
        <3> QED
            BY <3>1, <3>2, <3>3, <3>4, SupervisionConstants
    <2>2. CASE to # clock
        <3>1. Budget!Within(to - Window, to)' = before
            BY <1>1, <1>2, <1>3, <2>2 DEF Budget!Within
        <3> QED
            BY CountsAlike, <3>1 DEF BudgetInv, Budget!NoWindowOverrun
    <2> QED
        BY <2>1, <2>2
<1> QED
    BY CountsAlike, <1>1, <1>6, <1>7, <1>8 DEF BudgetInv, Budget!NoWindowOverrun

\* A second more: the window that ends then holds restarts of the one before.
LEMMA TickPreserves ==
    ASSUME BudgetInv, Budget!Tick
    PROVE  BudgetInv'
<1>1. /\ clock' = clock + 1 /\ clock \in Nat
      /\ attempts' = attempts /\ admitted' = admitted
      /\ \A restart \in admitted : restart.at \in Nat /\ restart.at <= clock
    BY DEF BudgetInv, Numbered, Budget!Tick
<1>2. Numbered' /\ Remembered'
    BY <1>1, SupervisionConstants DEF BudgetInv, Numbered, Remembered
<1>3. \A from, to : Budget!Within(from, to)' = Budget!Within(from, to)
    BY <1>1 DEF Budget!Within
<1>4. Cardinality(Budget!Within(clock + 1 - Window, clock + 1)) <= Maximum
    <2> DEFINE last == Budget!Within(clock - Window, clock)
               next == Budget!Within(clock + 1 - Window, clock + 1)
    <2>1. next \subseteq last
        BY <1>1, SupervisionConstants DEF Budget!Within
    <2>2. IsFiniteSet(last) /\ Cardinality(last) \in Nat /\ Cardinality(next) \in Nat
        BY WindowFinite DEF BudgetInv
    <2>3. Cardinality(last) <= Maximum
        BY CountsAlike, <1>1 DEF BudgetInv, Budget!NoWindowOverrun
    <2> HIDE DEF last, next
    <2>4. Cardinality(next) <= Cardinality(last)
        BY <2>1, <2>2, FS_Subset
    <2> QED
        BY <2>2, <2>3, <2>4, SupervisionConstants DEF next
<1>5. ASSUME NEW to \in 0..clock'
      PROVE  Cardinality(Budget!Within(to - Window, to)) <= Maximum
    <2>1. CASE to = clock + 1
        <3>1. Budget!Within(to - Window, to) = Budget!Within(clock + 1 - Window, clock + 1)
            BY <1>1, <2>1, SupervisionConstants DEF Budget!Within
        <3> QED
            BY <3>1, <1>4
    <2>2. CASE to # clock + 1
        <3>1. to \in 0..clock
            BY <1>1, <2>2
        <3> QED
            BY <3>1, CountsAlike DEF BudgetInv, Budget!NoWindowOverrun
    <2> QED
        BY <2>1, <2>2
<1> QED
    BY CountsAlike, <1>2, <1>3, <1>5 DEF BudgetInv, Budget!NoWindowOverrun

LEMMA BudgetInductive == BudgetInv /\ [Budget!Next]_(Budget!vars) => BudgetInv'
<1> SUFFICES ASSUME BudgetInv, [Budget!Next]_(Budget!vars)
             PROVE  BudgetInv'
    OBVIOUS
<1>1. CASE Budget!Consume
    <2>1. CASE Cardinality(Budget!Recent(clock)) < Maximum
        BY <1>1, <2>1, AdmitPreserves
    <2>2. CASE ~(Cardinality(Budget!Recent(clock)) < Maximum)
        <3>1. attempts' = Budget!Recent(clock) /\ admitted' = admitted /\ clock' = clock
            BY <1>1, <2>2, CountsAlike DEF Budget!Consume
        <3>2. \A restart \in admitted : restart.at \in Nat
            BY DEF BudgetInv, Numbered
        <3>3. Remembered'
            BY <3>1, <3>2, SupervisionConstants DEF BudgetInv, Numbered, Remembered, Budget!Recent
        <3> QED
            BY CountsAlike, <3>1, <3>3
            DEF BudgetInv, Numbered, Budget!NoWindowOverrun, Budget!Within
    <2> QED
        BY <2>1, <2>2
<1>2. CASE Budget!Tick
    BY <1>2, TickPreserves
<1>3. CASE UNCHANGED Budget!vars
    BY CountsAlike, <1>3
    DEF Budget!vars, BudgetInv, Numbered, Remembered, Budget!NoWindowOverrun, Budget!Within
<1> QED
    BY <1>1, <1>2, <1>3 DEF Budget!Next, Budget!Ended

\* The group is given up only at the moment the window is full.
LEMMA TornWhenFull ==
    ASSUME BudgetInv, [Budget!Next]_(Budget!vars), group = "running", group' = "torn"
    PROVE  Cardinality(Budget!Within(clock - Window, clock)) = Maximum
<1> DEFINE n == Cardinality(Budget!Within(clock - Window, clock))
<1>1. Budget!Consume
    BY DEF Budget!Next, Budget!Tick, Budget!Ended, Budget!vars
<1>2. Cardinality(Budget!Recent(clock)) >= Maximum
    BY CountsAlike, <1>1 DEF Budget!Consume
<1>3. n >= Maximum /\ n \in Nat
    BY <1>2, RecentIsWindow, WindowFinite DEF BudgetInv
<1>4. n <= Maximum
    BY CountsAlike DEF BudgetInv, Numbered, Budget!NoWindowOverrun
<1> QED
    BY <1>3, <1>4, SupervisionConstants

-----------------------------------------------------------------------------
(* The hand-off.                                                           *)

\* The payloads of the messages that were sent.
Payloads == {message.payload : message \in sent}

\* The used nonces are those of the accepted payloads, one for each.
Accepted ==
    /\ accepted \in Seq(Payloads)
    /\ \A i \in DOMAIN accepted : Handoff!Sign(accepted[i]) \in sent
    /\ \A i \in DOMAIN accepted : accepted[i].nonce \in used
    /\ \A nonce \in used : \E i \in DOMAIN accepted : accepted[i].nonce = nonce
    /\ \A i, j \in DOMAIN accepted : accepted[i].nonce = accepted[j].nonce => i = j

\* A message has a payload and a signature and nothing else.
Messages == \A message \in sent : message = [payload |-> message.payload, hmac |-> message.hmac]

HandoffInv == Accepted /\ Messages /\ replayed \subseteq used

\* More messages do not disturb what was accepted.
LEMMA SentGrows ==
    ASSUME Accepted, sent \subseteq sent', UNCHANGED <<used, accepted>>
    PROVE  Accepted'
<1>1. Payloads \subseteq Payloads'
    BY DEF Payloads
<1>2. accepted' \in Seq(Payloads')
    <2>1. accepted \in Seq(Payloads)
        BY DEF Accepted
    <2>2. Len(accepted) \in Nat /\ DOMAIN accepted = 1..Len(accepted)
          /\ \A i \in 1..Len(accepted) : accepted[i] \in Payloads
        BY <2>1
    <2>3. accepted = [i \in 1..Len(accepted) |-> accepted[i]]
        BY <2>1
    <2> QED
        BY <1>1, <2>1, <2>2, <2>3
<1>3. \A i \in DOMAIN accepted' : Handoff!Sign(accepted'[i]) \in sent'
    BY DEF Accepted, Handoff!Sign
<1> QED
    BY <1>2, <1>3 DEF Accepted, Handoff!Sign

\* A message that is authenticated adds its payload.
LEMMA AuthenticatedAdds ==
    ASSUME HandoffInv, NEW message \in sent, NEW peer,
           Handoff!Verify(message, peer) = "HANDOFF_AUTHENTICATED",
           used' = used \union {message.payload.nonce},
           accepted' = Append(accepted, message.payload),
           UNCHANGED <<sent, replayed>>
    PROVE  HandoffInv'
<1> DEFINE p == message.payload
           n == Len(accepted)
<1>1. p.nonce \notin used /\ message.hmac = p
    BY DEF Handoff!Verify
<1>2. Handoff!Sign(p) \in sent
    <2>1. message = [payload |-> p, hmac |-> message.hmac]
        BY DEF HandoffInv, Messages
    <2> QED
        BY <1>1, <2>1 DEF Handoff!Sign
<1>3. accepted \in Seq(Payloads) /\ p \in Payloads /\ Payloads' = Payloads
    BY DEF HandoffInv, Accepted, Payloads
<1>4. /\ accepted' \in Seq(Payloads) /\ Len(accepted') = n + 1 /\ n \in Nat
      /\ DOMAIN accepted = 1..n /\ DOMAIN accepted' = 1..(n + 1)
      /\ accepted'[n + 1] = p /\ \A i \in 1..n : accepted'[i] = accepted[i]
    BY <1>3
<1>5. \A i \in 1..n : accepted[i].nonce \in used
    BY <1>4 DEF HandoffInv, Accepted
<1>6. \A i \in DOMAIN accepted' : Handoff!Sign(accepted'[i]) \in sent'
    <2>1. TAKE i \in 1..(n + 1)
    <2>2. CASE i = n + 1
        BY <1>2, <1>4, <2>2
    <2>3. CASE i \in 1..n
        BY <1>4, <2>3 DEF HandoffInv, Accepted
    <2> QED
        BY <1>4, <2>2, <2>3
<1>7. \A i \in DOMAIN accepted' : accepted'[i].nonce \in used'
    BY <1>4, <1>5
<1>8. \A nonce \in used' : \E i \in DOMAIN accepted' : accepted'[i].nonce = nonce
    <2>1. TAKE nonce \in used'
    <2>2. CASE nonce = p.nonce
        BY <1>4, <2>2
    <2>3. CASE nonce \in used
        BY <1>4, <2>3 DEF HandoffInv, Accepted
    <2> QED
        BY <2>1, <2>2, <2>3
<1>9. \A i, j \in DOMAIN accepted' : accepted'[i].nonce = accepted'[j].nonce => i = j
    <2>1. \A i, j \in 1..n : accepted'[i].nonce = accepted'[j].nonce => i = j
        BY <1>4 DEF HandoffInv, Accepted
    <2>2. \A i \in 1..n : accepted'[i].nonce # accepted'[n + 1].nonce
        BY <1>1, <1>4, <1>5
    <2> QED
        BY <1>4, <2>1, <2>2
<1>10. Accepted'
    BY <1>3, <1>4, <1>6, <1>7, <1>8, <1>9 DEF Accepted
<1> QED
    BY <1>10 DEF HandoffInv, Messages

\* HandoffInv is an invariant.
LEMMA HandoffInductive == HandoffInv /\ [Handoff!Next]_(Handoff!vars) => HandoffInv'
<1> SUFFICES ASSUME HandoffInv, [Handoff!Next]_(Handoff!vars)
             PROVE  HandoffInv'
    OBVIOUS
<1>1. ASSUME NEW pid \in Peers, NEW nonce \in Nonces, NEW lifetime \in Lifetimes,
             Handoff!Send(pid, nonce, lifetime)
      PROVE  HandoffInv'
    <2>1. Accepted'
        BY <1>1, SentGrows DEF HandoffInv, Handoff!Send
    <2>2. Messages'
        BY <1>1 DEF HandoffInv, Handoff!Send, Messages, Handoff!Sign
    <2> QED
        BY <1>1, <2>1, <2>2 DEF HandoffInv, Handoff!Send
<1>2. CASE Handoff!SendAltered
    <2>1. PICK message \in sent, change \in {"revision", "expiry"} :
              sent' = sent \union
                  {IF change = "revision" THEN [message EXCEPT !.payload.revision = "stale"]
                   ELSE [message EXCEPT !.payload.expires = @ + 1]}
        BY <1>2 DEF Handoff!SendAltered
    <2>2. Accepted'
        BY <1>2, <2>1, SentGrows DEF HandoffInv, Handoff!SendAltered
    <2>3. message = [payload |-> message.payload, hmac |-> message.hmac]
        BY DEF HandoffInv, Messages
    <2>4. Messages'
        BY <2>1, <2>3 DEF HandoffInv, Messages
    <2> QED
        BY <1>2, <2>2, <2>4 DEF HandoffInv, Handoff!SendAltered
<1>3. ASSUME NEW message \in sent, NEW peer \in Peers, Handoff!Receive(message, peer)
      PROVE  HandoffInv'
    <2>1. CASE Handoff!Verify(message, peer) = "HANDOFF_AUTHENTICATED"
        BY <1>3, <2>1, AuthenticatedAdds DEF Handoff!Receive
    <2>2. CASE Handoff!Verify(message, peer) = "HANDOFF_REPLAY"
        <3>1. message.payload.nonce \in used
            BY <2>2 DEF Handoff!Verify
        <3>2. Accepted' /\ Messages'
            BY <1>3, <2>2, SentGrows DEF Handoff!Receive, HandoffInv, Messages
        <3> QED
            BY <1>3, <2>2, <3>1, <3>2 DEF Handoff!Receive, HandoffInv
    <2>3. CASE Handoff!Verify(message, peer) \notin {"HANDOFF_AUTHENTICATED", "HANDOFF_REPLAY"}
        BY <1>3, <2>3, SentGrows DEF Handoff!Receive, HandoffInv, Messages
    <2> QED
        BY <2>1, <2>2, <2>3
<1>4. CASE Handoff!Tick
    BY <1>4, SentGrows DEF Handoff!Tick, HandoffInv, Messages
<1>5. CASE UNCHANGED Handoff!vars
    BY <1>5, SentGrows DEF Handoff!vars, HandoffInv, Messages
<1> QED
    BY <1>1, <1>2, <1>3, <1>4, <1>5 DEF Handoff!Next

LEMMA HandoffInit == Handoff!Init => HandoffInv
BY DEF Handoff!Init, HandoffInv, Accepted, Messages, Payloads

-----------------------------------------------------------------------------
(* A behaviour of MCSupervision is one of a program.                       *)

SupervisionInv ==
    /\ machine = "supervisor" => KeeperInv
    /\ machine = "budget" => BudgetInv
    /\ machine = "handoff" => HandoffInv

LEMMA SupervisionInit == Init => SupervisionInv
BY KeeperInit, BudgetInit, HandoffInit DEF Init, SupervisionInv

\* A step of the whole is a step of the program or leaves it alone.
LEMMA KeeperSteps ==
    ASSUME machine = "supervisor", [Next]_vars
    PROVE  machine' = machine /\ [Keeper!Next]_(Keeper!vars)
BY DEF Next, vars, Serving, Keeping, Spending, Handing, Ended, ofKeeper, Keeper!vars

LEMMA BudgetSteps ==
    ASSUME machine = "budget", [Next]_vars
    PROVE  machine' = machine /\ [Budget!Next]_(Budget!vars)
BY DEF Next, vars, Serving, Keeping, Spending, Handing, Ended, ofBudget, Budget!vars

LEMMA HandoffSteps ==
    ASSUME machine = "handoff", [Next]_vars
    PROVE  machine' = machine /\ [Handoff!Next]_(Handoff!vars)
BY DEF Next, vars, Serving, Keeping, Spending, Handing, Ended, ofHandoff, Handoff!vars

LEMMA MachineKept == [Next]_vars => machine' = machine
BY DEF Next, vars, Serving, Keeping, Spending, Handing, Ended

LEMMA SupervisionInductive == SupervisionInv /\ [Next]_vars => SupervisionInv'
<1> SUFFICES ASSUME SupervisionInv, [Next]_vars
             PROVE  SupervisionInv'
    OBVIOUS
<1>1. machine' = machine
    BY MachineKept
<1>2. machine = "supervisor" => KeeperInv'
    BY KeeperSteps, KeeperInductive DEF SupervisionInv
<1>3. machine = "budget" => BudgetInv'
    BY BudgetSteps, BudgetInductive DEF SupervisionInv
<1>4. machine = "handoff" => HandoffInv'
    BY HandoffSteps, HandoffInductive DEF SupervisionInv
<1> QED
    BY <1>1, <1>2, <1>3, <1>4 DEF SupervisionInv

\* The programs of supervision keep their invariants.
THEOREM SupervisionHolds == Spec => []SupervisionInv
BY SupervisionInit, SupervisionInductive, PTL DEF Spec

\* Two policy brokers never run side by side, whatever hangs, fails or is
\* signalled, and only one that has bound the socket itself is announced as
\* healthy (supervise_policy_broker.py, main).
THEOREM SupervisorIsSound == Spec => []SupervisorSound
<1>1. KeeperInv => Keeper!TypeOK
    BY DEF KeeperInv, Typed, Keeper!TypeOK, Places, Statuses, Keeper!Present
<1>2. KeeperInv => Keeper!HealthyIsBound
    BY SupervisionConstants DEF KeeperInv, Typed, Counted, OnlyPresentRuns, SocketSound,
       Keeper!HealthyIsBound, Keeper!Present, Keeper!Generations, Keeper!NoSocket
<1>3. SupervisionInv => SupervisorSound
    BY <1>1, <1>2, InvOneBroker DEF SupervisionInv, SupervisorSound
<1> QED
    BY <1>3, SupervisionHolds, PTL

\* No window of time, wherever it begins, sees more restarts than the
\* maximum, and the protected group is torn down only when the restarts of
\* the last window used the budget up (RestartBudget.consume).
THEOREM BudgetIsExact == Spec => BudgetExact
<1>1. SupervisionInv => (machine = "budget" => Budget!NoWindowOverrun)
    BY DEF SupervisionInv, BudgetInv
<1>2. SupervisionInv /\ [Next]_vars =>
          [machine = "budget" /\ group = "running" /\ group' = "torn" =>
              Cardinality(Budget!Within(clock - Window, clock)) = Maximum]_vars
    BY BudgetSteps, TornWhenFull DEF SupervisionInv
<1> QED
    BY <1>1, <1>2, SupervisionHolds, PTL DEF Spec, BudgetExact

\* Each hand-off is accepted at most once and only as it was signed, and
\* refused as a replay only after that (HandoffAuthenticator.verify).
THEOREM HandoffOnce == Spec => []OncePerHandoff
<1>1. HandoffInv => Handoff!OncePerHandoff
    BY DEF HandoffInv, Accepted, Handoff!OncePerHandoff
<1>2. SupervisionInv => OncePerHandoff
    BY <1>1 DEF SupervisionInv, OncePerHandoff
<1> QED
    BY <1>2, SupervisionHolds, PTL
=============================================================================
