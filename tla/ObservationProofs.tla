-------------------------- MODULE ObservationProofs --------------------------
(***************************************************************************)
(* Proofs about the three programs of MCObservation: the live observer     *)
(* (BpfObserver), the replay through the neural engines and Gate 3         *)
(* (AsmPipeline) and the review commands (ReviewCorpus), for any tasks,    *)
(* operations, members, relations, namespaces, sizes of the ring and of    *)
(* the windows, and bounds.  A published capture joins the halves of one   *)
(* call in every event; every remembered pair names the event that bound   *)
(* it, so that a cached denial has causes; a label stays with the window   *)
(* it was given for and a saved one is kept.  The inductive invariants are *)
(* ObserverInv, ReplayInv and ReviewInv; the first two have one lemma per  *)
(* part, the last one has one per command.                                 *)
(***************************************************************************)
EXTENDS MCObservation, FiniteSetTheorems, SequenceTheorems, WellFoundedInduction, TLAPS

(***************************************************************************)
(* The live observer.                                                      *)
(***************************************************************************)

(* The numbers of the calls.                                               *)
Ids == 1 .. MaxCalls

(* The lines bpftrace prints, by their kind.                               *)
EntryLines ==
  [half : {"enter"}, tid : Tasks, op : Operations, id : Ids, address : 0 .. MaxCalls,
   text : {"good", "late"}]
PartLines == [half : {"sockaddr", "exit"}, tid : Tasks, op : Operations, id : Ids]
WholeLines == [half : {"whole"}, tid : Tasks, id : Ids, address : {0}, text : {"good"}]
Lines == EntryLines \cup PartLines \cup WholeLines

(* The events the normalizer writes.                                       *)
Rows ==
  [ns : Observer!Namespaces, seq : Ids, entered : Ids, returned : Ids,
   address : 0 .. MaxCalls, credential : BOOLEAN]

(* The type of every variable of the observer.                             *)
ObserverTypes ==
  /\ life \in [Tasks -> 1 .. MaxLives] /\ alive \in [Tasks -> BOOLEAN]
  /\ call \in [Tasks -> {Observer!NoCall} \cup [id : Ids, op : Operations, told : BOOLEAN]]
  /\ calls \in 0 .. MaxCalls /\ credential \subseteq Ids
  /\ pipe \in Seq(Lines) /\ lost \in Nat /\ lost_events \in 0 .. lost
  /\ \A k \in DOMAIN pending :
        k \in Tasks \X Operations /\ pending[k] \in EntryLines /\ Observer!Key(pending[k]) = k
  /\ sequences \in [Observer!Namespaces -> Nat] /\ skipped \subseteq Observer!Namespaces
  /\ partial \in Seq(Rows) /\ capture \in Seq(Rows)
  /\ phase \in {"running", "stopping", "aborted"} \cup Observer!Ends

(* The task is inside a system call.                                       *)
InCall(t) == call[t] # Observer!NoCall

(* A line that ends its call, and one that begins it.                      *)
Returning(line) == line.half \in {"exit", "whole"}
Entering(line) == line.half \in {"enter", "whole"}

(* Every call was made by one task, whose lines and events have its id.    *)
OwnedBy(owner) ==
  /\ \A i \in DOMAIN pipe : pipe[i].id <= calls /\ owner[pipe[i].id] = pipe[i].tid
  /\ \A t \in Tasks : InCall(t) => call[t].id <= calls /\ owner[call[t].id] = t
  /\ \A i \in DOMAIN partial :
        partial[i].returned <= calls /\ owner[partial[i].returned] = partial[i].ns[1]

(* There is such an owner of every call.                                   *)
Owned == \E owner \in [Ids -> Tasks] : OwnedBy(owner)

(* The lines of a task are in the order of its calls.                      *)
PipeInOrder ==
  /\ \A i, j \in DOMAIN pipe :
        i < j /\ pipe[i].tid = pipe[j].tid =>
          /\ pipe[i].id <= pipe[j].id
          /\ Returning(pipe[i]) \/ Entering(pipe[j]) => pipe[i].id < pipe[j].id
  /\ \A i \in DOMAIN pipe :
        InCall(pipe[i].tid) =>
          /\ pipe[i].id <= call[pipe[i].tid].id
          /\ Returning(pipe[i]) => pipe[i].id < call[pipe[i].tid].id

(* Number k was used up for a task before a call with the id c returns.    *)
Later(t, k) ==
  /\ \A i \in DOMAIN pipe : pipe[i].tid = t /\ Returning(pipe[i]) => k < pipe[i].id
  /\ InCall(t) => k < call[t].id

(* A namespace has no more numbers than its task made calls.               *)
NumbersBehind == \A n \in Observer!Namespaces : sequences[n] <= calls /\ Later(n[1], sequences[n])

(* A row is older than the calls of its task that have not returned, and its *)
(* number was used up.                                                     *)
RowsBehind ==
  \A i \in DOMAIN partial :
     /\ Later(partial[i].ns[1], partial[i].returned)
     /\ partial[i].seq <= sequences[partial[i].ns]

(* An entry that waits is older than the entries still in the pipe.        *)
PendingOld ==
  \A k \in DOMAIN pending :
     /\ pending[k].id <= calls
     /\ \A i \in DOMAIN pipe :
           pipe[i].tid = k[1] /\ pipe[i].half = "enter" => pending[k].id < pipe[i].id

(* The entry of a call waits, or is in the pipe before the place i.        *)
EntryOf(t, op, id, i) ==
  \/ \E j \in DOMAIN pipe :
        j < i /\ pipe[j].half = "enter" /\ pipe[j].tid = t /\ pipe[j].op = op /\ pipe[j].id = id
  \/ <<t, op>> \in DOMAIN pending /\ pending[<<t, op>>].id = id

(* A row has both halves of one call.                                      *)
Joined(row) == row.entered = row.returned /\ row.address \in {0, row.returned}

(* As long as no line was lost, every half has its other half.             *)
HalvesMeet ==
  lost = 0 =>
    /\ \A i \in DOMAIN pipe :
          pipe[i].half \in {"sockaddr", "exit"} =>
            EntryOf(pipe[i].tid, pipe[i].op, pipe[i].id, i)
    /\ \A t \in Tasks : InCall(t) => EntryOf(t, call[t].op, call[t].id, Len(pipe) + 1)
    /\ \A i \in DOMAIN pipe : pipe[i].half = "enter" => pipe[i].address = 0
    /\ \A k \in DOMAIN pending : pending[k].address \in {0, pending[k].id}
    /\ \A i \in DOMAIN partial : Joined(partial[i])

(* A capture is published at the end; it is joined unless the end was a kill. *)
CaptureJoined ==
  /\ capture # << >> => phase \in Observer!Ends
  /\ phase # "killed" => \A i \in DOMAIN capture : Joined(capture[i])

(* The rows of a namespace up to a place.                                  *)
OfBefore(file, n, i) == {j \in 1 .. i : file[j].ns = n}

(* Where no number was burned the events of a namespace are counted.       *)
Numbered(file) ==
  \A i \in DOMAIN file :
     file[i].ns \notin skipped => file[i].seq = Cardinality(OfBefore(file, file[i].ns, i))

(* The same for both files, and for the counter of the normalizer.         *)
Counted ==
  /\ Numbered(partial) /\ Numbered(capture)
  /\ phase \notin Observer!Ends =>
       \A n \in Observer!Namespaces \ skipped :
          sequences[n] = Cardinality(OfBefore(partial, n, Len(partial)))

(* The inductive invariant of the observer.                                *)
ObserverInv ==
  /\ ObserverTypes /\ Owned /\ PipeInOrder /\ NumbersBehind /\ RowsBehind /\ PendingOld
  /\ HalvesMeet /\ CaptureJoined /\ Counted /\ Observer!EventsOnceInOrder

(* What the bounds have to be.                                             *)
ObserverBounds ==
  MaxCalls \in Nat /\ MaxLost \in Nat /\ MaxLives \in Nat \ {0} /\ Tasks # {}

(* A set of numbers that is not empty has a least element.                 *)
LEMMA LeastExists ==
  ASSUME NEW T \in SUBSET Nat, T # {}
  PROVE  \E m \in T : \A k \in T : m <= k
<1> DEFINE R == OpToRel(<, Nat)
<1>1. IsWellFoundedOn(R, Nat)
  BY NatLessThanWellFounded
<1>2. \E x \in T : \A y \in T : ~ (<<y, x>> \in R)
  <2> HIDE DEF R
  <2> QED BY <1>1, WFMin
<1>3. PICK x \in T : \A y \in T : ~ (<<y, x>> \in R)
  BY <1>2
<1>4. \A y \in T : ~ (y < x)
  BY <1>3 DEF OpToRel
<1> QED BY <1>4

(* The elements of a sequence that got one more at its end.                *)
LEMMA Appended ==
  ASSUME NEW S, NEW s \in Seq(S), NEW e \in S, NEW r, r = Append(s, e)
  PROVE  /\ r \in Seq(S) /\ Len(r) = Len(s) + 1 /\ DOMAIN r = 1 .. Len(s) + 1
         /\ \A i \in DOMAIN s : r[i] = s[i]
         /\ r[Len(s) + 1] = e /\ DOMAIN s = 1 .. Len(s) /\ Len(s) \in Nat
OBVIOUS

(* The elements of a sequence that lost its first one.                     *)
LEMMA Shifted ==
  ASSUME NEW S, NEW s \in Seq(S), s # << >>, NEW r, r = Tail(s)
  PROVE  /\ r \in Seq(S) /\ Len(r) = Len(s) - 1 /\ DOMAIN r = 1 .. Len(s) - 1
         /\ \A i \in 1 .. Len(s) - 1 : r[i] = s[i + 1]
         /\ Head(s) = s[1] /\ DOMAIN s = 1 .. Len(s) /\ Len(s) \in Nat \ {0}
         /\ Head(s) \in S
<1>1. Len(s) # 0
  OBVIOUS
<1> QED BY <1>1

(* A line reached the pipe or was dropped and counted.                     *)
Emitted(line) ==
  \/ pipe' = Append(pipe, line) /\ lost' = lost
  \/ pipe' = pipe /\ lost' = lost + 1

(* A task enters a call, and the line of its entry may be lost.            *)
Begins(t, line) ==
  /\ line \in EntryLines \cup WholeLines /\ line.tid = t /\ line.id = calls + 1
  /\ line.address = 0 /\ ~InCall(t) /\ calls < MaxCalls /\ calls' = calls + 1
  /\ \/ line.half = "whole" /\ call' = call
     \/ /\ line.half = "enter"
        /\ \E told \in BOOLEAN :
              call' = [call EXCEPT ![t] = [id |-> calls + 1, op |-> line.op, told |-> told]]
  /\ Emitted(line)

(* A task goes on with its call, or returns from it.                       *)
Continues(t, line) ==
  /\ InCall(t) /\ line \in PartLines /\ line.tid = t
  /\ line.id = call[t].id /\ line.op = call[t].op
  /\ calls' = calls
  /\ \/ line.half = "sockaddr" /\ call' = [call EXCEPT ![t].told = TRUE]
     \/ line.half = "exit" /\ call' = [call EXCEPT ![t] = Observer!NoCall]
  /\ Emitted(line)

(* A step that prints nothing; the call of at most one task ends.          *)
Quiet ==
  /\ UNCHANGED <<calls, pipe, lost>>
  /\ call' = call \/ \E t \in Tasks : call' = [call EXCEPT ![t] = Observer!NoCall]

(* The normalizer does nothing.                                            *)
NormalizerRests == UNCHANGED <<pending, sequences, skipped, partial, capture, phase>>

(* The end of the observer, or a step towards it.                          *)
Ending ==
  /\ UNCHANGED <<call, calls, pipe, lost, pending, sequences, skipped>>
  /\ phase' # "running"
  /\ \/ /\ UNCHANGED <<partial, capture>>
        /\ phase = "running" /\ phase' \in {"stopping", "aborted"}
     \/ \E how \in Observer!Ends : Observer!Finish(how)

(* What a step does with the calls, the pipe and the files.                *)
LEMMA Moves ==
  ASSUME ObserverTypes, Observer!Next, ObserverBounds
  PROVE  \/ \E t \in Tasks, line \in Lines : Begins(t, line) /\ NormalizerRests
         \/ \E t \in Tasks, line \in Lines : Continues(t, line) /\ NormalizerRests
         \/ Quiet /\ NormalizerRests
         \/ Observer!ReadLine
         \/ Ending
<1> USE DEF ObserverTypes, ObserverBounds, NormalizerRests, Observer!normalizer, InCall
<1>1. ASSUME NEW t \in Tasks, NEW op \in Operations, Observer!Enter(t, op)
      PROVE  (\E line \in Lines : Begins(t, line)) /\ NormalizerRests
  <2>1. PICK text \in {"good", "late"} :
           Observer!Emit([half |-> "enter", tid |-> t, op |-> op, id |-> calls + 1,
                          address |-> 0, text |-> text])
    BY <1>1 DEF Observer!Enter
  <2> DEFINE line == [half |-> "enter", tid |-> t, op |-> op, id |-> calls + 1,
                      address |-> 0, text |-> text]
  <2>2. line \in EntryLines
    BY <1>1 DEF EntryLines, Ids, Observer!Enter
  <2>3. Emitted(line)
    BY <2>1 DEF Observer!Emit, Emitted
  <2>4. Begins(t, line)
    <3>1. \E told \in BOOLEAN :
             call' = [call EXCEPT ![t] = [id |-> calls + 1, op |-> line.op, told |-> told]]
      BY <1>1 DEF Observer!Enter
    <3> QED BY <1>1, <2>2, <2>3, <3>1 DEF Begins, Observer!Enter
  <2> QED BY <1>1, <2>2, <2>4 DEF Lines, Observer!Enter
<1>2. ASSUME NEW t \in Tasks, Observer!Whole(t)
      PROVE  (\E line \in Lines : Begins(t, line)) /\ NormalizerRests
  <2> DEFINE line == [half |-> "whole", tid |-> t, id |-> calls + 1, address |-> 0,
                      text |-> "good"]
  <2>1. line \in WholeLines
    BY <1>2 DEF WholeLines, Ids, Observer!Whole
  <2>2. Begins(t, line)
    BY <1>2, <2>1 DEF Begins, Observer!Whole, Observer!Emit, Emitted
  <2> QED BY <1>2, <2>1, <2>2 DEF Lines, Observer!Whole
<1>3. ASSUME NEW t \in Tasks, Observer!Address(t)
      PROVE  (\E line \in Lines : Continues(t, line)) /\ NormalizerRests
  <2> DEFINE line == [half |-> "sockaddr", tid |-> t, op |-> call[t].op, id |-> call[t].id]
  <2>1. line \in PartLines
    BY <1>3 DEF PartLines, Ids, Observer!Address
  <2>2. Continues(t, line)
    BY <1>3, <2>1 DEF Continues, Observer!Address, Observer!Emit, Emitted
  <2> QED BY <1>3, <2>1, <2>2 DEF Lines, Observer!Address
<1>4. ASSUME NEW t \in Tasks, Observer!Exit(t)
      PROVE  (\E line \in Lines : Continues(t, line)) /\ NormalizerRests
  <2> DEFINE line == [half |-> "exit", tid |-> t, op |-> call[t].op, id |-> call[t].id]
  <2>1. line \in PartLines
    BY <1>4 DEF PartLines, Ids, Observer!Exit
  <2>2. Continues(t, line)
    BY <1>4, <2>1 DEF Continues, Observer!Exit, Observer!Emit, Emitted
  <2> QED BY <1>4, <2>1, <2>2 DEF Lines, Observer!Exit
<1>5. ASSUME NEW t \in Tasks, Observer!Die(t) \/ Observer!Reuse(t)
      PROVE  Quiet /\ NormalizerRests
  BY <1>5 DEF Observer!Die, Observer!Reuse, Quiet
<1>6. CASE Observer!ReadLoss \/ Observer!Stopped
  BY <1>6 DEF Observer!ReadLoss, Observer!Stopped, Observer!kernel, Observer!vars, Quiet
<1>7. CASE Observer!Stop \/ Observer!BrokerFails
  BY <1>7 DEF Observer!Stop, Observer!BrokerFails, Observer!kernel, Ending
<1>8. ASSUME NEW how \in Observer!Ends, Observer!Finish(how)
      PROVE  Ending
  BY <1>8 DEF Observer!Finish, Observer!kernel, Ending, Observer!Ends
<1> QED BY <1>1, <1>2, <1>3, <1>4, <1>5, <1>6, <1>7, <1>8 DEF Observer!Next

(* The calls that are in progress after a step were before, or began.      *)
LEMMA CallsStep ==
  ASSUME ObserverTypes, ObserverBounds
  PROVE  /\ \A t \in Tasks, line \in Lines : Begins(t, line) =>
              \A u \in Tasks : InCall(u)' =>
                 \/ /\ u = t /\ line.half = "enter" /\ line \in EntryLines
                    /\ call'[u].id = calls + 1 /\ call'[u].op = line.op
                 \/ /\ u # t /\ InCall(u) /\ call'[u].id = call[u].id /\ call'[u].op = call[u].op
         /\ \A t \in Tasks, line \in Lines : Continues(t, line) =>
              \A u \in Tasks : InCall(u)' =>
                 /\ InCall(u) /\ call'[u].id = call[u].id /\ call'[u].op = call[u].op
                 /\ u = t => line.half = "sockaddr"
         /\ Quiet => \A u \in Tasks : InCall(u)' =>
                 InCall(u) /\ call'[u].id = call[u].id /\ call'[u].op = call[u].op
<1> USE DEF ObserverTypes, ObserverBounds, InCall
<1>1. ASSUME NEW t \in Tasks, NEW line \in Lines, Begins(t, line), NEW u \in Tasks, InCall(u)'
      PROVE  \/ /\ u = t /\ line.half = "enter" /\ line \in EntryLines
                /\ call'[u].id = calls + 1 /\ call'[u].op = line.op
             \/ /\ u # t /\ InCall(u) /\ call'[u].id = call[u].id /\ call'[u].op = call[u].op
  BY <1>1 DEF Begins, EntryLines, WholeLines
<1>2. ASSUME NEW t \in Tasks, NEW line \in Lines, Continues(t, line), NEW u \in Tasks, InCall(u)'
      PROVE  /\ InCall(u) /\ call'[u].id = call[u].id /\ call'[u].op = call[u].op
             /\ u = t => line.half = "sockaddr"
  <2>1. CASE line.half = "exit"
    BY <1>2, <2>1 DEF Continues
  <2>2. CASE line.half = "sockaddr"
    <3>1. call' = [call EXCEPT ![t].told = TRUE]
      BY <1>2, <2>2 DEF Continues
    <3>2. call[t].id = call'[t].id /\ call[t].op = call'[t].op
      BY <1>2, <3>1 DEF Continues
    <3> QED BY <1>2, <2>2, <3>1, <3>2 DEF Continues
  <2> QED BY <1>2, <2>1, <2>2 DEF Continues
<1>3. ASSUME Quiet, NEW u \in Tasks, InCall(u)'
      PROVE  InCall(u) /\ call'[u].id = call[u].id /\ call'[u].op = call[u].op
  BY <1>3 DEF Quiet
<1> QED BY <1>1, <1>2, <1>3

(* The row normalize() makes of an entry and its exit.                     *)
RowOf(entry, exit) ==
  LET n == <<exit.tid, life[exit.tid]>>
  IN  [ns |-> n, seq |-> sequences[n] + 1, entered |-> entry.id, returned |-> exit.id,
       address |-> entry.address, credential |-> entry.id \in credential]

(* It takes no number, burns one, or writes its row.                       *)
Normalizes(entry, exit) ==
  LET n == <<exit.tid, life[exit.tid]>>
  IN  \/ UNCHANGED <<sequences, skipped, partial>>
      \/ /\ sequences' = [sequences EXCEPT ![n] = sequences[n] + 1]
         /\ \/ skipped' = skipped \cup {n} /\ partial' = partial
            \/ skipped' = skipped /\ partial' = Append(partial, RowOf(entry, exit))

(* The entry that waits for a line.                                        *)
Waiting(line) == pending[Observer!Key(line)]

(* What a line does, by its kind.                                          *)
Holds(line) ==
  /\ line \in EntryLines /\ Observer!Hold(line) /\ UNCHANGED <<sequences, skipped, partial>>
Addresses(line) ==
  /\ line \in PartLines /\ line.half = "sockaddr" /\ Observer!Key(line) \in DOMAIN pending
  /\ Observer!Hold([Waiting(line) EXCEPT !.address = line.id])
  /\ UNCHANGED <<sequences, skipped, partial>>
Returns(line) ==
  /\ line \in PartLines /\ line.half = "exit" /\ Observer!Key(line) \in DOMAIN pending
  /\ Observer!Drop(Observer!Key(line)) /\ Normalizes(Waiting(line), line)
Ignores(line) ==
  /\ line \in PartLines /\ Observer!Key(line) \notin DOMAIN pending
  /\ UNCHANGED <<pending, sequences, skipped, partial>>
Completes(line) == line \in WholeLines /\ Normalizes(line, line) /\ UNCHANGED pending

(* The normalizer takes the next line of the pipe.                         *)
Reads(line) ==
  /\ pipe # << >> /\ line = pipe[1] /\ pipe' = Tail(pipe)
  /\ UNCHANGED <<life, alive, call, calls, credential, lost, lost_events, capture, phase>>
  /\ phase = "running"

(* A line that is read is handled in one of the five ways.                 *)
LEMMA ReadStep ==
  ASSUME ObserverTypes, Observer!ReadLine
  PROVE  \E line \in Lines :
            /\ Reads(line)
            /\ \/ Holds(line) \/ Addresses(line) \/ Returns(line) \/ Ignores(line)
               \/ Completes(line)
<1> DEFINE line == Head(pipe)
<1>1. pipe # << >> /\ line = pipe[1] /\ line \in Lines
  <2>1. pipe # << >> /\ pipe \in Seq(Lines)
    BY DEF Observer!ReadLine, ObserverTypes
  <2> QED BY <2>1, Shifted
<1>2. Reads(line)
  BY <1>1 DEF Observer!ReadLine, Reads, Observer!kernel
<1>3. ASSUME NEW entry, NEW exit, Observer!Normalize(entry, exit)
      PROVE  Normalizes(entry, exit)
  BY <1>3 DEF Observer!Normalize, Normalizes, RowOf
<1>4. /\ line \in EntryLines <=> line.half = "enter"
      /\ line \in WholeLines <=> line.half = "whole"
      /\ line \in PartLines <=> line.half \in {"sockaddr", "exit"}
  BY <1>1 DEF Lines, EntryLines, WholeLines, PartLines
<1> HIDE DEF line
<1>5. \/ /\ line.half = "enter" /\ Observer!Hold(line)
         /\ UNCHANGED <<sequences, skipped, partial>>
      \/ /\ line.half = "sockaddr" /\ Observer!Key(line) \in DOMAIN pending
         /\ Observer!Hold([Waiting(line) EXCEPT !.address = line.id])
         /\ UNCHANGED <<sequences, skipped, partial>>
      \/ /\ line.half = "exit" /\ Observer!Key(line) \in DOMAIN pending
         /\ Observer!Drop(Observer!Key(line))
         /\ Observer!Normalize(Waiting(line), line)
      \/ /\ line.half \in {"sockaddr", "exit"} /\ Observer!Key(line) \notin DOMAIN pending
         /\ UNCHANGED Observer!normalizer
      \/ line.half = "whole" /\ UNCHANGED pending /\ Observer!Normalize(line, line)
  BY DEF Observer!ReadLine, line, Waiting
<1> QED BY <1>1, <1>2, <1>3, <1>4, <1>5 DEF Holds, Addresses, Returns, Ignores, Completes,
        Observer!normalizer

(* Processes, credentials, losses and the phase keep their types.          *)
LEMMA HostTypesStep ==
  ASSUME ObserverTypes, Observer!Next, ObserverBounds
  PROVE  /\ life' \in [Tasks -> 1 .. MaxLives] /\ alive' \in [Tasks -> BOOLEAN]
         /\ credential' \subseteq Ids /\ lost' \in Nat /\ lost_events' \in 0 .. lost'
         /\ phase' \in {"running", "stopping", "aborted"} \cup Observer!Ends
<1> USE DEF ObserverTypes, ObserverBounds
<1> DEFINE Goal == /\ life' \in [Tasks -> 1 .. MaxLives] /\ alive' \in [Tasks -> BOOLEAN]
                   /\ credential' \subseteq Ids /\ lost' \in Nat /\ lost_events' \in 0 .. lost'
                   /\ phase' \in {"running", "stopping", "aborted"} \cup Observer!Ends
<1>1. ASSUME NEW t \in Tasks, NEW op \in Operations, Observer!Enter(t, op)
      PROVE  Goal
  <2>1. calls + 1 \in Ids
    BY <1>1 DEF Observer!Enter, Ids
  <2>2. credential' \subseteq Ids
    BY <1>1, <2>1 DEF Observer!Enter
  <2>3. lost' = lost \/ lost' = lost + 1
    BY <1>1 DEF Observer!Enter, Observer!Emit
  <2> QED BY <1>1, <2>2, <2>3 DEF Observer!Enter
<1>2. ASSUME NEW t \in Tasks, Observer!Address(t) \/ Observer!Whole(t) \/ Observer!Exit(t)
      PROVE  Goal
  BY <1>2 DEF Observer!Address, Observer!Whole, Observer!Exit, Observer!Emit
<1>3. ASSUME NEW t \in Tasks, Observer!Die(t) \/ Observer!Reuse(t)
      PROVE  Goal
  <2>1. UNCHANGED <<credential, lost, lost_events, phase>>
    BY <1>3 DEF Observer!Die, Observer!Reuse
  <2>2. alive' \in [Tasks -> BOOLEAN]
    BY <1>3 DEF Observer!Die, Observer!Reuse
  <2>3. life' \in [Tasks -> 1 .. MaxLives]
    BY <1>3 DEF Observer!Die, Observer!Reuse
  <2> QED BY <2>1, <2>2, <2>3
<1>4. CASE Observer!ReadLine \/ Observer!ReadLoss \/ Observer!Stop \/ Observer!BrokerFails
             \/ Observer!Stopped
  BY <1>4 DEF Observer!ReadLine, Observer!ReadLoss, Observer!Stop, Observer!BrokerFails,
     Observer!Stopped, Observer!kernel, Observer!vars
<1>5. ASSUME NEW how \in Observer!Ends, Observer!Finish(how)
      PROVE  Goal
  BY <1>5 DEF Observer!Finish, Observer!kernel
<1> QED BY <1>1, <1>2, <1>3, <1>4, <1>5 DEF Observer!Next

(* The kernel's calls and the pipe keep their types.                       *)
LEMMA PipeTypesStep ==
  ASSUME ObserverTypes, Observer!Next, ObserverBounds
  PROVE  /\ call' \in [Tasks -> {Observer!NoCall} \cup [id : Ids, op : Operations, told : BOOLEAN]]
         /\ calls' \in 0 .. MaxCalls /\ pipe' \in Seq(Lines)
<1> USE DEF ObserverTypes, ObserverBounds
<1> DEFINE Calls == [Tasks -> {Observer!NoCall} \cup [id : Ids, op : Operations, told : BOOLEAN]]
<1>1. ASSUME NEW line \in Lines, Emitted(line)
      PROVE  pipe' \in Seq(Lines)
  <2>1. pipe \in Seq(Lines)
    OBVIOUS
  <2>2. pipe' = Append(pipe, line) \/ pipe' = pipe
    BY <1>1 DEF Emitted
  <2> HIDE DEF ObserverTypes
  <2> QED BY <2>1, <2>2, Appended
<1>2. ASSUME NEW t \in Tasks, NEW line \in Lines, Begins(t, line)
      PROVE  call' \in Calls /\ calls' \in 0 .. MaxCalls /\ pipe' \in Seq(Lines)
  <2>1. CASE line.half = "enter"
    <3>1. line.op \in Operations /\ calls + 1 \in Ids
      BY <1>2, <2>1 DEF Begins, EntryLines, WholeLines, Ids
    <3>2. PICK told \in BOOLEAN :
            call' = [call EXCEPT ![t] = [id |-> calls + 1, op |-> line.op, told |-> told]]
      BY <1>2, <2>1 DEF Begins
    <3>3. call' \in Calls
      BY <3>1, <3>2
    <3> QED BY <1>1, <1>2, <3>3 DEF Begins
  <2>2. CASE line.half = "whole"
    BY <1>1, <1>2, <2>2 DEF Begins
  <2> QED BY <1>2, <2>1, <2>2 DEF Begins
<1>3. ASSUME NEW t \in Tasks, NEW line \in Lines, Continues(t, line)
      PROVE  call' \in Calls /\ calls' \in 0 .. MaxCalls /\ pipe' \in Seq(Lines)
  <2>1. CASE line.half = "sockaddr"
    <3>1. call[t] \in [id : Ids, op : Operations, told : BOOLEAN]
      BY <1>3 DEF Continues, InCall
    <3>2. call' = [call EXCEPT ![t].told = TRUE]
      BY <1>3, <2>1 DEF Continues
    <3> QED BY <1>1, <1>3, <3>1, <3>2 DEF Continues
  <2>2. CASE line.half = "exit"
    BY <1>1, <1>3, <2>2 DEF Continues
  <2> QED BY <1>3, <2>1, <2>2 DEF Continues
<1>4. CASE Quiet
  BY <1>4 DEF Quiet
<1>5. CASE Observer!ReadLine
  BY <1>5, ReadStep, Shifted DEF Reads
<1>6. CASE Ending
  BY <1>6 DEF Ending
<1> QED BY <1>2, <1>3, <1>4, <1>5, <1>6, Moves

(* The row that is written has the type of a row.                          *)
LEMMA RowTyped ==
  ASSUME ObserverTypes, ObserverBounds, NumbersBehind, NEW line \in Lines, Reads(line),
         NEW entry \in EntryLines \cup WholeLines, line.half \in {"exit", "whole"}
  PROVE  RowOf(entry, line) \in Rows
<1>1. line = pipe[1] /\ 1 \in DOMAIN pipe
  BY Shifted DEF Reads, ObserverTypes
<1>2. line.tid \in Tasks /\ line.id \in Ids
  BY DEF Lines, EntryLines, PartLines, WholeLines
<1>3. <<line.tid, life[line.tid]>> \in Observer!Namespaces
  BY <1>2 DEF ObserverTypes, Observer!Namespaces
<1>4. sequences[<<line.tid, life[line.tid]>>] < line.id
  BY <1>1, <1>3 DEF NumbersBehind, Later, Returning
<1>5. sequences[<<line.tid, life[line.tid]>>] + 1 \in Ids
  BY <1>2, <1>3, <1>4 DEF ObserverTypes, ObserverBounds, Ids
<1>6. entry.id \in Ids /\ entry.address \in 0 .. MaxCalls
  BY DEF EntryLines, WholeLines, Ids, ObserverBounds
<1> QED BY <1>2, <1>3, <1>5, <1>6 DEF RowOf, Rows

(* The types of what the normalizer keeps.                                 *)
LEMMA NormalizerTypesStep ==
  ASSUME ObserverTypes, Observer!Next, ObserverBounds, NumbersBehind
  PROVE  /\ \A k \in DOMAIN pending' :
              /\ k \in Tasks \X Operations /\ pending'[k] \in EntryLines
              /\ Observer!Key(pending'[k]) = k
         /\ sequences' \in [Observer!Namespaces -> Nat] /\ skipped' \subseteq Observer!Namespaces
         /\ partial' \in Seq(Rows) /\ capture' \in Seq(Rows)
<1> USE DEF ObserverTypes, ObserverBounds
<1> DEFINE Entries ==
             \A k \in DOMAIN pending' :
                /\ k \in Tasks \X Operations /\ pending'[k] \in EntryLines
                /\ Observer!Key(pending'[k]) = k
           Files == /\ sequences' \in [Observer!Namespaces -> Nat]
                    /\ skipped' \subseteq Observer!Namespaces
                    /\ partial' \in Seq(Rows)
<1>1. ASSUME NEW line \in EntryLines, Observer!Hold(line)
      PROVE  Entries
  <2>1. Observer!Key(line) \in Tasks \X Operations
    BY DEF EntryLines, Observer!Key
  <2> QED BY <1>1, <2>1 DEF Observer!Hold
<1>2. ASSUME NEW line \in Lines, Reads(line), NEW entry \in EntryLines \cup WholeLines,
             line.half \in {"exit", "whole"}, Normalizes(entry, line)
      PROVE  Files
  <2>1. RowOf(entry, line) \in Rows
    BY <1>2, RowTyped
  <2>2. <<line.tid, life[line.tid]>> \in Observer!Namespaces
    BY <1>2 DEF Observer!Namespaces, Lines, EntryLines, PartLines, WholeLines
  <2>3. sequences' \in [Observer!Namespaces -> Nat]
    <3> DEFINE n == <<line.tid, life[line.tid]>>
    <3>1. sequences' = sequences \/ sequences' = [sequences EXCEPT ![n] = sequences[n] + 1]
      BY <1>2 DEF Normalizes
    <3>2. sequences \in [Observer!Namespaces -> Nat] /\ n \in Observer!Namespaces
      BY <2>2
    <3> HIDE DEF n, ObserverTypes
    <3> QED BY <3>1, <3>2
  <2>4. skipped' \subseteq Observer!Namespaces
    BY <1>2, <2>2 DEF Normalizes
  <2>5. partial' \in Seq(Rows)
    <3>1. partial \in Seq(Rows)
      OBVIOUS
    <3>2. partial' = partial \/ partial' = Append(partial, RowOf(entry, line))
      BY <1>2 DEF Normalizes
    <3> HIDE DEF ObserverTypes
    <3> QED BY <2>1, <3>1, <3>2, Appended
  <2> QED BY <2>3, <2>4, <2>5
<1>3. ASSUME NEW line \in Lines, Reads(line), Holds(line)
      PROVE  Entries /\ Files
  BY <1>1, <1>3 DEF Holds
<1>4. ASSUME NEW line \in Lines, Reads(line), Addresses(line)
      PROVE  Entries /\ Files
  <2> DEFINE held == [Waiting(line) EXCEPT !.address = line.id]
  <2>1. Waiting(line) \in EntryLines /\ line.id \in Ids
    BY <1>4 DEF Addresses, Waiting, PartLines
  <2>2. held \in EntryLines
    <3>1. PICK waiting \in EntryLines : waiting = Waiting(line)
      BY <2>1
    <3>2. line.id \in 0 .. MaxCalls
      BY <2>1 DEF Ids
    <3> HIDE DEF ObserverTypes
    <3>3. [waiting EXCEPT !.address = line.id] \in EntryLines
      BY <3>2 DEF EntryLines
    <3> QED BY <3>1, <3>3
  <2> QED BY <1>1, <1>4, <2>2 DEF Addresses
<1>5. ASSUME NEW line \in Lines, Reads(line), Returns(line)
      PROVE  Entries /\ Files
  <2>1. Waiting(line) \in EntryLines /\ line.half = "exit"
    BY <1>5 DEF Returns, Waiting
  <2>2. Files
    BY <1>2, <1>5, <2>1 DEF Returns
  <2>3. Entries
    BY <1>5 DEF Returns, Observer!Drop
  <2> QED BY <2>2, <2>3
<1>6. ASSUME NEW line \in Lines, Reads(line), Ignores(line)
      PROVE  Entries /\ Files
  BY <1>6 DEF Ignores
<1>7. ASSUME NEW line \in Lines, Reads(line), Completes(line)
      PROVE  Entries /\ Files
  <2>1. line \in WholeLines /\ line.half = "whole"
    BY <1>7 DEF Completes, WholeLines
  <2> QED BY <1>2, <1>7, <2>1 DEF Completes
<1>8. CASE Observer!ReadLine
  <2>1. PICK line \in Lines :
            /\ Reads(line)
            /\ \/ Holds(line) \/ Addresses(line) \/ Returns(line) \/ Ignores(line)
               \/ Completes(line)
    BY <1>8, ReadStep
  <2> QED BY <1>3, <1>4, <1>5, <1>6, <1>7, <2>1 DEF Reads
<1>9. CASE NormalizerRests
  BY <1>9 DEF NormalizerRests
<1>10. CASE Ending
  <2>1. << >> \in Seq(Rows)
    OBVIOUS
  <2>2. partial' \in {partial, << >>} /\ capture' \in {partial, capture}
    BY <1>10 DEF Ending, Observer!Finish, Observer!NoFile
  <2> QED BY <1>10, <2>1, <2>2 DEF Ending
<1> QED BY <1>8, <1>9, <1>10, Moves

(* The types of all its variables under every step.                        *)
LEMMA ObserverTypesStep ==
  ASSUME ObserverTypes, NumbersBehind, Observer!Next, ObserverBounds
  PROVE  ObserverTypes'
BY HostTypesStep, PipeTypesStep, NormalizerTypesStep DEF ObserverTypes, Observer!Key,
   Observer!Namespaces, Observer!Ends, Observer!NoCall, EntryLines, Rows, Lines, Ids, PartLines,
   WholeLines

(* The pipe after a step that printed a line: it is at the end or lost.    *)
LEMMA PipeGrows ==
  ASSUME ObserverTypes, NEW line \in Lines, Emitted(line)
  PROVE  /\ \A i \in DOMAIN pipe' :
               \/ i \in DOMAIN pipe /\ pipe'[i] = pipe[i]
               \/ i = Len(pipe) + 1 /\ pipe'[i] = line
         /\ \/ /\ lost' = lost /\ Len(pipe') = Len(pipe) + 1 /\ pipe'[Len(pipe) + 1] = line
               /\ DOMAIN pipe' = 1 .. Len(pipe) + 1
               /\ \A i \in DOMAIN pipe : pipe'[i] = pipe[i]
            \/ lost' = lost + 1 /\ pipe' = pipe
<1>1. pipe \in Seq(Lines) /\ DOMAIN pipe = 1 .. Len(pipe) /\ Len(pipe) \in Nat
  <2>1. pipe \in Seq(Lines)
    BY DEF ObserverTypes
  <2> QED BY <2>1
<1>2. CASE pipe' = Append(pipe, line) /\ lost' = lost
  <2>1. /\ Len(pipe') = Len(pipe) + 1 /\ DOMAIN pipe' = 1 .. Len(pipe) + 1
        /\ \A i \in DOMAIN pipe : pipe'[i] = pipe[i]
        /\ pipe'[Len(pipe) + 1] = line
    BY <1>1, <1>2, Appended
  <2> QED BY <1>1, <1>2, <2>1
<1>3. CASE pipe' = pipe /\ lost' = lost + 1
  BY <1>3
<1> QED BY <1>2, <1>3 DEF Emitted

(* The pipe after its first line was read.                                 *)
LEMMA PipeShrinks ==
  ASSUME ObserverTypes, NEW line \in Lines, Reads(line)
  PROVE  /\ 1 \in DOMAIN pipe /\ pipe[1] = line /\ DOMAIN pipe = 1 .. Len(pipe)
         /\ Len(pipe) \in Nat /\ Len(pipe') = Len(pipe) - 1
         /\ DOMAIN pipe' = 1 .. Len(pipe) - 1
         /\ \A i \in DOMAIN pipe' : i + 1 \in DOMAIN pipe /\ pipe'[i] = pipe[i + 1]
<1>1. pipe \in Seq(Lines)
  BY DEF ObserverTypes
<1>2. /\ Len(pipe') = Len(pipe) - 1 /\ DOMAIN pipe' = 1 .. Len(pipe) - 1
      /\ \A i \in 1 .. Len(pipe) - 1 : pipe'[i] = pipe[i + 1]
      /\ Len(pipe) \in Nat \ {0} /\ DOMAIN pipe = 1 .. Len(pipe)
  BY <1>1, Shifted DEF Reads
<1> QED BY <1>2 DEF Reads

(* The pipe after a step: a line more at the end, or one fewer in front.   *)
LEMMA PipeStep ==
  ASSUME ObserverTypes
  PROVE  /\ DOMAIN pipe = 1 .. Len(pipe) /\ Len(pipe) \in Nat
         /\ \A i \in DOMAIN pipe : pipe[i] \in Lines
         /\ \A line \in Lines : Emitted(line) =>
              /\ \A i \in DOMAIN pipe' :
                    \/ i \in DOMAIN pipe /\ pipe'[i] = pipe[i]
                    \/ i = Len(pipe) + 1 /\ pipe'[i] = line
              /\ \/ /\ lost' = lost /\ Len(pipe') = Len(pipe) + 1 /\ pipe'[Len(pipe) + 1] = line
                    /\ DOMAIN pipe' = 1 .. Len(pipe) + 1
                    /\ \A i \in DOMAIN pipe : pipe'[i] = pipe[i]
                 \/ lost' = lost + 1 /\ pipe' = pipe
         /\ \A line \in Lines : Reads(line) =>
              /\ 1 \in DOMAIN pipe /\ pipe[1] = line
              /\ Len(pipe') = Len(pipe) - 1 /\ DOMAIN pipe' = 1 .. Len(pipe) - 1
              /\ \A i \in DOMAIN pipe' : i + 1 \in DOMAIN pipe /\ pipe'[i] = pipe[i + 1]
<1>1. pipe \in Seq(Lines)
  BY DEF ObserverTypes
<1>2. DOMAIN pipe = 1 .. Len(pipe) /\ Len(pipe) \in Nat /\ \A i \in DOMAIN pipe : pipe[i] \in Lines
  BY <1>1
<1>3. ASSUME NEW line \in Lines, Emitted(line)
      PROVE  /\ \A i \in DOMAIN pipe' :
                   \/ i \in DOMAIN pipe /\ pipe'[i] = pipe[i]
                   \/ i = Len(pipe) + 1 /\ pipe'[i] = line
             /\ \/ /\ lost' = lost /\ Len(pipe') = Len(pipe) + 1 /\ pipe'[Len(pipe) + 1] = line
                   /\ DOMAIN pipe' = 1 .. Len(pipe) + 1
                   /\ \A i \in DOMAIN pipe : pipe'[i] = pipe[i]
                \/ lost' = lost + 1 /\ pipe' = pipe
  BY <1>3, PipeGrows
<1>4. ASSUME NEW line \in Lines, Reads(line)
      PROVE  /\ 1 \in DOMAIN pipe /\ pipe[1] = line
             /\ Len(pipe') = Len(pipe) - 1 /\ DOMAIN pipe' = 1 .. Len(pipe) - 1
             /\ \A i \in DOMAIN pipe' : i + 1 \in DOMAIN pipe /\ pipe'[i] = pipe[i + 1]
  BY <1>4, PipeShrinks
<1> QED BY <1>2, <1>3, <1>4

(* The partial file after a line was read: a row more at its end, or none. *)
LEMMA PartialStep ==
  ASSUME ObserverTypes, ObserverBounds, NumbersBehind, NEW line \in Lines, Reads(line),
         NEW entry \in EntryLines \cup WholeLines, Normalizes(entry, line),
         line.half \in {"exit", "whole"}
  PROVE  /\ DOMAIN partial = 1 .. Len(partial) /\ Len(partial) \in Nat
         /\ \/ partial' = partial
            \/ /\ partial' = Append(partial, RowOf(entry, line))
               /\ Len(partial') = Len(partial) + 1 /\ DOMAIN partial' = 1 .. Len(partial) + 1
               /\ partial'[Len(partial) + 1] = RowOf(entry, line)
               /\ \A i \in DOMAIN partial : partial'[i] = partial[i]
         /\ \A i \in DOMAIN partial' :
               \/ i \in DOMAIN partial /\ partial'[i] = partial[i]
               \/ i = Len(partial) + 1 /\ partial'[i] = RowOf(entry, line)
<1>1. RowOf(entry, line) \in Rows
  BY RowTyped
<1>2. partial \in Seq(Rows)
  BY DEF ObserverTypes
<1>3. partial' = partial \/ partial' = Append(partial, RowOf(entry, line))
  BY DEF Normalizes
<1> QED BY <1>1, <1>2, <1>3, Appended

(* Every call keeps its task.                                              *)
LEMMA OwnedStep ==
  ASSUME ObserverInv, Observer!Next, ObserverBounds
  PROVE  Owned'
<1> USE DEF ObserverInv, ObserverBounds
<1>1. PICK owner \in [Ids -> Tasks] : OwnedBy(owner)
  BY DEF Owned
<1>2. calls \in Nat /\ \A i \in DOMAIN partial : partial[i].returned \in Ids
  <2>1. partial \in Seq(Rows) /\ calls \in Nat
    BY DEF ObserverTypes
  <2>2. \A i \in DOMAIN partial : partial[i] \in Rows
    BY <2>1
  <2> QED BY <2>1, <2>2 DEF Rows
<1>3. ASSUME NEW t \in Tasks, NEW line \in Lines, Begins(t, line), NormalizerRests
      PROVE  Owned'
  <2> DEFINE new == [owner EXCEPT ![calls + 1] = t]
  <2>1. new \in [Ids -> Tasks] /\ new[calls + 1] = t /\ calls' = calls + 1
    BY <1>2, <1>3 DEF Begins, Ids
  <2>2. \A c \in Ids : c <= calls => new[c] = owner[c]
    BY <1>2 DEF Ids
  <2>3. \A i \in DOMAIN pipe' : pipe'[i].id <= calls' /\ new[pipe'[i].id] = pipe'[i].tid
    <3> SUFFICES ASSUME NEW i \in DOMAIN pipe'
                 PROVE  pipe'[i].id <= calls' /\ new[pipe'[i].id] = pipe'[i].tid
      OBVIOUS
    <3>1. CASE i \in DOMAIN pipe /\ pipe'[i] = pipe[i]
      <4>1. pipe[i].id \in Ids /\ pipe[i].id <= calls /\ owner[pipe[i].id] = pipe[i].tid
        BY <1>1, <3>1, PipeStep DEF OwnedBy, Lines, EntryLines, PartLines, WholeLines
      <4> QED BY <1>2, <2>1, <2>2, <3>1, <4>1 DEF Ids
    <3>2. CASE pipe'[i] = line
      BY <1>2, <1>3, <2>1, <3>2 DEF Begins
    <3> QED BY <1>3, <3>1, <3>2, PipeStep DEF Begins
  <2>4. \A u \in Tasks : InCall(u)' => call'[u].id <= calls' /\ new[call'[u].id] = u
    <3> SUFFICES ASSUME NEW u \in Tasks, InCall(u)'
                 PROVE  call'[u].id <= calls' /\ new[call'[u].id] = u
      OBVIOUS
    <3>1. CASE u = t /\ call'[u].id = calls + 1
      BY <1>2, <2>1, <3>1
    <3>2. CASE InCall(u) /\ call'[u].id = call[u].id
      <4>1. call[u].id \in Ids /\ call[u].id <= calls /\ owner[call[u].id] = u
        BY <1>1, <3>2 DEF OwnedBy, ObserverTypes, InCall
      <4> QED BY <1>2, <2>1, <2>2, <3>2, <4>1 DEF Ids
    <3> QED BY <1>3, <3>1, <3>2, CallsStep
  <2>5. \A i \in DOMAIN partial' :
          partial'[i].returned <= calls' /\ new[partial'[i].returned] = partial'[i].ns[1]
    BY <1>1, <1>2, <1>3, <2>1, <2>2 DEF OwnedBy, NormalizerRests, Ids
  <2> HIDE DEF new
  <2> QED BY <2>1, <2>3, <2>4, <2>5 DEF Owned, OwnedBy, Ids, InCall
<1>4. ASSUME NEW t \in Tasks, NEW line \in Lines, Continues(t, line), NormalizerRests
      PROVE  Owned'
  <2>1. calls' = calls
    BY <1>4 DEF Continues
  <2>2. \A i \in DOMAIN pipe' : pipe'[i].id <= calls /\ owner[pipe'[i].id] = pipe'[i].tid
    <3>1. line.id <= calls /\ owner[line.id] = line.tid
      BY <1>1, <1>4 DEF OwnedBy, Continues
    <3>2. \A i \in DOMAIN pipe' : pipe'[i] = line \/ (i \in DOMAIN pipe /\ pipe'[i] = pipe[i])
      BY <1>4, PipeStep DEF Continues
    <3> QED BY <1>1, <3>1, <3>2 DEF OwnedBy
  <2>3. \A u \in Tasks : InCall(u)' => call'[u].id <= calls /\ owner[call'[u].id] = u
    BY <1>1, <1>4, CallsStep DEF OwnedBy
  <2>4. partial' = partial
    BY <1>4 DEF NormalizerRests
  <2> QED BY <1>1, <2>1, <2>2, <2>3, <2>4 DEF Owned, OwnedBy, Ids, InCall
<1>5. CASE Quiet /\ NormalizerRests
  <2>1. \A u \in Tasks : InCall(u)' => call'[u].id <= calls /\ owner[call'[u].id] = u
    BY <1>1, <1>5, CallsStep DEF OwnedBy
  <2>2. UNCHANGED <<pipe, calls, partial>>
    BY <1>5 DEF Quiet, NormalizerRests
  <2> QED BY <1>1, <2>1, <2>2 DEF Owned, OwnedBy, Ids, InCall
<1>6. ASSUME NEW line \in Lines, Reads(line), NEW entry \in EntryLines \cup WholeLines,
             line.half \in {"exit", "whole"}, Normalizes(entry, line)
      PROVE  \A i \in DOMAIN partial' :
               partial'[i].returned <= calls /\ owner[partial'[i].returned] = partial'[i].ns[1]
  <2>1. line.id <= calls /\ owner[line.id] = line.tid
    <3>1. ObserverTypes
      OBVIOUS
    <3> HIDE DEF ObserverInv
    <3>2. 1 \in DOMAIN pipe /\ pipe[1] = line
      BY <1>6, <3>1, PipeStep
    <3> QED BY <1>1, <3>2 DEF OwnedBy
  <2>2. RowOf(entry, line).returned = line.id /\ RowOf(entry, line).ns[1] = line.tid
    BY DEF RowOf
  <2> QED BY <1>1, <1>6, <2>1, <2>2, PartialStep DEF OwnedBy
<1>7. CASE Observer!ReadLine
  <2>1. PICK line \in Lines :
            /\ Reads(line)
            /\ \/ Holds(line) \/ Addresses(line) \/ Returns(line) \/ Ignores(line)
               \/ Completes(line)
    BY <1>7, ReadStep
  <2>2. UNCHANGED <<call, calls>>
    BY <2>1 DEF Reads
  <2>3. \A i \in DOMAIN pipe' : pipe'[i].id <= calls /\ owner[pipe'[i].id] = pipe'[i].tid
    <3>1. \A i \in DOMAIN pipe' : i + 1 \in DOMAIN pipe /\ pipe'[i] = pipe[i + 1]
      BY <2>1, PipeStep
    <3> QED BY <1>1, <3>1 DEF OwnedBy
  <2>4. \A i \in DOMAIN partial' :
           partial'[i].returned <= calls /\ owner[partial'[i].returned] = partial'[i].ns[1]
    <3>1. CASE Holds(line) \/ Addresses(line) \/ Ignores(line)
      BY <1>1, <3>1 DEF OwnedBy, Holds, Addresses, Ignores
    <3>2. CASE Returns(line)
      <4>1. Waiting(line) \in EntryLines
        BY <3>2 DEF Returns, Waiting, ObserverTypes
      <4> QED BY <1>6, <2>1, <3>2, <4>1 DEF Returns
    <3>3. CASE Completes(line)
      BY <1>6, <2>1, <3>3 DEF Completes, WholeLines
    <3> QED BY <2>1, <3>1, <3>2, <3>3
  <2> QED BY <1>1, <2>2, <2>3, <2>4 DEF Owned, OwnedBy, Ids, InCall
<1>8. CASE Ending
  <2>1. partial' \in {partial, << >>} /\ UNCHANGED <<call, calls, pipe>>
    BY <1>8 DEF Ending, Observer!Finish, Observer!NoFile
  <2> QED BY <1>1, <2>1 DEF Owned, OwnedBy, Ids, InCall
<1> QED BY <1>3, <1>4, <1>5, <1>7, <1>8, Moves

(* The ids of the lines and calls there are.                               *)
LEMMA IdsKnown ==
  ASSUME ObserverTypes, Owned
  PROVE  /\ calls \in Nat
         /\ \A i \in DOMAIN pipe : pipe[i].id \in Nat /\ pipe[i].id <= calls
         /\ \A t \in Tasks : InCall(t) => call[t].id \in Nat /\ call[t].id <= calls
         /\ \A i \in DOMAIN pipe : pipe[i].tid \in Tasks /\ pipe[i].id \in Ids
<1>1. PICK owner \in [Ids -> Tasks] : OwnedBy(owner)
  BY DEF Owned
<1>2. \A i \in DOMAIN pipe : pipe[i] \in Lines
  BY PipeStep
<1>3. \A line \in Lines : line.id \in Ids /\ line.tid \in Tasks
  BY DEF Lines, EntryLines, PartLines, WholeLines
<1>4. calls \in Nat /\ \A t \in Tasks : InCall(t) => call[t].id \in Ids
  BY DEF ObserverTypes, InCall
<1> QED BY <1>1, <1>2, <1>3, <1>4 DEF OwnedBy, Ids

(* The lines of a task stay in the order of its calls.                     *)
LEMMA PipeInOrderStep ==
  ASSUME ObserverInv, Observer!Next, ObserverBounds
  PROVE  PipeInOrder'
<1> USE DEF ObserverInv
<1>1. /\ calls \in Nat
      /\ \A i \in DOMAIN pipe : pipe[i].id \in Nat /\ pipe[i].id <= calls /\ pipe[i].tid \in Tasks
      /\ \A t \in Tasks : InCall(t) => call[t].id \in Nat /\ call[t].id <= calls
  BY IdsKnown
<1>2. DOMAIN pipe = 1 .. Len(pipe) /\ Len(pipe) \in Nat
  BY PipeStep
<1> DEFINE Ordered(a, b) ==
             a.tid = b.tid => /\ a.id <= b.id
                              /\ Returning(a) \/ Entering(b) => a.id < b.id
           Before(a) ==
             call'[a.tid] # Observer!NoCall =>
               /\ a.id <= call'[a.tid].id
               /\ Returning(a) => a.id < call'[a.tid].id
<1>3. ASSUME NEW line \in Lines, Emitted(line),
             \A i \in DOMAIN pipe : Ordered(pipe[i], line) /\ Before(pipe[i]),
             Before(line)
      PROVE  PipeInOrder'
  <2>1. \A i \in DOMAIN pipe' :
           \/ i \in DOMAIN pipe /\ pipe'[i] = pipe[i]
           \/ i = Len(pipe) + 1 /\ pipe'[i] = line
    BY <1>3, PipeStep
  <2>2. ASSUME NEW i \in DOMAIN pipe', NEW j \in DOMAIN pipe', i < j
        PROVE  Ordered(pipe'[i], pipe'[j])
    <3>1. CASE j \in DOMAIN pipe /\ pipe'[j] = pipe[j]
      <4>1. i \in DOMAIN pipe /\ pipe'[i] = pipe[i]
        BY <1>2, <2>1, <2>2, <3>1
      <4> QED BY <2>2, <3>1, <4>1 DEF PipeInOrder
    <3>2. CASE j = Len(pipe) + 1 /\ pipe'[j] = line
      <4>1. i \in DOMAIN pipe /\ pipe'[i] = pipe[i]
        BY <1>2, <2>1, <2>2, <3>2
      <4> QED BY <1>3, <3>2, <4>1
    <3> QED BY <2>1, <3>1, <3>2
  <2>3. ASSUME NEW i \in DOMAIN pipe'
        PROVE  Before(pipe'[i])
    BY <1>3, <2>1
  <2> HIDE DEF Ordered, Before
  <2>4. \A i, j \in DOMAIN pipe' : i < j => Ordered(pipe'[i], pipe'[j])
    BY <2>2
  <2>5. \A i \in DOMAIN pipe' : Before(pipe'[i])
    BY <2>3
  <2>6. \A i, j \in DOMAIN pipe' :
           i < j /\ pipe'[i].tid = pipe'[j].tid =>
             /\ pipe'[i].id <= pipe'[j].id
             /\ pipe'[i].half \in {"exit", "whole"} \/ pipe'[j].half \in {"enter", "whole"} =>
                  pipe'[i].id < pipe'[j].id
    BY <2>4 DEF Ordered, Returning, Entering
  <2>7. \A i \in DOMAIN pipe' :
           call'[pipe'[i].tid] # Observer!NoCall =>
             /\ pipe'[i].id <= call'[pipe'[i].tid].id
             /\ pipe'[i].half \in {"exit", "whole"} => pipe'[i].id < call'[pipe'[i].tid].id
    BY <2>5 DEF Before, Returning
  <2> QED BY ONLY <2>6, <2>7 DEF PipeInOrder, Returning, Entering, InCall, Observer!NoCall
<1>4. ASSUME NEW t \in Tasks, NEW line \in Lines, Begins(t, line)
      PROVE  PipeInOrder'
  <2>1. Emitted(line) /\ line.id = calls + 1 /\ line.tid = t
    BY <1>4 DEF Begins
  <2>2. ASSUME NEW i \in DOMAIN pipe
        PROVE  Ordered(pipe[i], line) /\ Before(pipe[i])
    <3>1. Ordered(pipe[i], line)
      BY <1>1, <2>1
    <3>2. ASSUME call'[pipe[i].tid] # Observer!NoCall
          PROVE  /\ pipe[i].id <= call'[pipe[i].tid].id
                 /\ Returning(pipe[i]) => pipe[i].id < call'[pipe[i].tid].id
      <4>1. CASE call'[pipe[i].tid].id = calls + 1
        BY <1>1, <4>1
      <4>2. CASE InCall(pipe[i].tid) /\ call'[pipe[i].tid].id = call[pipe[i].tid].id
        BY <4>2 DEF PipeInOrder
      <4> QED BY <1>1, <1>4, <3>2, <4>1, <4>2, CallsStep DEF InCall
    <3> QED BY <3>1, <3>2
  <2>3. Before(line)
    <3> SUFFICES ASSUME call'[t] # Observer!NoCall
                 PROVE  line.id <= call'[t].id /\ (Returning(line) => line.id < call'[t].id)
      BY <2>1
    <3>1. call'[t].id = calls + 1 /\ line.half = "enter"
      BY <1>4, CallsStep DEF InCall
    <3> QED BY <1>1, <2>1, <3>1 DEF Returning
  <2> HIDE DEF Ordered, Before
  <2> QED BY <1>3, <2>1, <2>2, <2>3
<1>5. ASSUME NEW t \in Tasks, NEW line \in Lines, Continues(t, line)
      PROVE  PipeInOrder'
  <2>1. /\ Emitted(line) /\ line.id = call[t].id /\ line.tid = t /\ InCall(t)
        /\ line.half \in {"sockaddr", "exit"}
    BY <1>5 DEF Continues
  <2>2. ASSUME NEW i \in DOMAIN pipe
        PROVE  Ordered(pipe[i], line) /\ Before(pipe[i])
    <3>1. Ordered(pipe[i], line)
      BY <2>1 DEF PipeInOrder, Entering
    <3>2. Before(pipe[i])
      <4> DEFINE u == pipe[i].tid
      <4>1. u \in Tasks
        BY <1>1
      <4>2. call'[u] # Observer!NoCall => InCall(u) /\ call'[u].id = call[u].id
        BY <1>5, <4>1, CallsStep DEF InCall
      <4> QED BY <4>2 DEF PipeInOrder
    <3> QED BY <3>1, <3>2
  <2>3. Before(line)
    <3> SUFFICES ASSUME call'[t] # Observer!NoCall
                 PROVE  line.id <= call'[t].id /\ (Returning(line) => line.id < call'[t].id)
      BY <2>1
    <3>1. call'[t].id = call[t].id /\ line.half = "sockaddr"
      BY <1>5, CallsStep DEF InCall
    <3> QED BY <1>1, <2>1, <3>1 DEF Returning
  <2> HIDE DEF Ordered, Before
  <2> QED BY <1>3, <2>1, <2>2, <2>3
<1>6. CASE Quiet
  <2>1. pipe' = pipe
    BY <1>6 DEF Quiet
  <2>2. \A i \in DOMAIN pipe : Before(pipe[i])
    <3> SUFFICES ASSUME NEW i \in DOMAIN pipe
                 PROVE  Before(pipe[i])
      OBVIOUS
    <3> DEFINE u == pipe[i].tid
    <3>1. u \in Tasks
      BY <1>1
    <3>2. call'[u] # Observer!NoCall => InCall(u) /\ call'[u].id = call[u].id
      BY <1>6, <3>1, CallsStep DEF InCall
    <3> QED BY <3>2 DEF PipeInOrder
  <2>3. PipeInOrder
    OBVIOUS
  <2> HIDE DEF ObserverInv, Ordered
  <2> QED BY <2>1, <2>2, <2>3 DEF Before, PipeInOrder, Returning, Entering, InCall,
          Observer!NoCall
<1>7. CASE Observer!ReadLine
  <2>1. PICK line \in Lines : Reads(line)
    BY <1>7, ReadStep
  <2>2. call' = call
    BY <2>1 DEF Reads
  <2>3. \A i \in DOMAIN pipe' : i + 1 \in DOMAIN pipe /\ pipe'[i] = pipe[i + 1] /\ i \in Nat
    <3>1. \A i \in DOMAIN pipe' : i + 1 \in DOMAIN pipe /\ pipe'[i] = pipe[i + 1]
      BY <2>1, PipeStep
    <3>2. DOMAIN pipe' = 1 .. Len(pipe) - 1
      BY <2>1, PipeStep
    <3> QED BY <1>2, <3>1, <3>2
  <2> QED BY <2>2, <2>3 DEF PipeInOrder, Returning, Entering, InCall
<1>8. CASE Ending
  BY <1>8 DEF Ending, PipeInOrder, Returning, Entering, InCall
<1> QED BY <1>4, <1>5, <1>6, <1>7, <1>8, Moves

(* What Later says of the state after the step.                            *)
LaterNext(t, k) ==
  /\ \A i \in DOMAIN pipe' : pipe'[i].tid = t /\ Returning(pipe'[i]) => k < pipe'[i].id
  /\ call'[t] # Observer!NoCall => k < call'[t].id

(* What comes later for a task keeps coming later.                         *)
LEMMA LaterStep ==
  ASSUME ObserverInv, Observer!Next, ObserverBounds, NEW t \in Tasks, NEW k \in Nat,
         Later(t, k), k <= calls
  PROVE  LaterNext(t, k) /\ k <= calls'
<1> USE DEF ObserverInv
<1>1. calls \in Nat /\ DOMAIN pipe = 1 .. Len(pipe) /\ Len(pipe) \in Nat
  BY IdsKnown, PipeStep
<1>2. ASSUME NEW line \in Lines, Emitted(line), line.tid = t /\ Returning(line) => k < line.id,
             InCall(t)' => k < call'[t].id
      PROVE  LaterNext(t, k)
  BY <1>2, PipeStep DEF Later, LaterNext, InCall, Observer!NoCall
<1>3. ASSUME NEW u \in Tasks, NEW line \in Lines, Begins(u, line)
      PROVE  LaterNext(t, k) /\ k <= calls'
  <2>1. calls' = calls + 1 /\ Emitted(line) /\ line.id = calls + 1
    BY <1>3 DEF Begins
  <2>2. InCall(t)' => k < call'[t].id
    BY <1>1, <1>3, CallsStep DEF Later
  <2> QED BY <1>1, <1>2, <2>1, <2>2
<1>4. ASSUME NEW u \in Tasks, NEW line \in Lines, Continues(u, line)
      PROVE  LaterNext(t, k) /\ k <= calls'
  <2>1. calls' = calls /\ Emitted(line) /\ InCall(u) /\ line.id = call[u].id /\ line.tid = u
    BY <1>4 DEF Continues
  <2>2. InCall(t)' => k < call'[t].id
    BY <1>4, CallsStep DEF Later
  <2>3. line.tid = t => k < line.id
    BY <2>1 DEF Later
  <2> QED BY <1>2, <2>1, <2>2, <2>3
<1>5. CASE Quiet
  BY <1>5, CallsStep DEF Quiet, Later, LaterNext, InCall
<1>6. CASE Observer!ReadLine
  <2>1. PICK line \in Lines : Reads(line)
    BY <1>6, ReadStep
  <2>2. call' = call /\ calls' = calls
    BY <2>1 DEF Reads
  <2>3. \A i \in DOMAIN pipe' : i + 1 \in DOMAIN pipe /\ pipe'[i] = pipe[i + 1]
    BY <2>1, PipeStep
  <2> QED BY <2>2, <2>3 DEF Later, LaterNext, InCall, Observer!NoCall
<1>7. CASE Ending
  BY <1>7 DEF Ending, Later, LaterNext, InCall
<1> QED BY <1>3, <1>4, <1>5, <1>6, <1>7, Moves

(* What a line that ends its call leaves behind comes earlier.             *)
LEMMA ReturnedLater ==
  ASSUME ObserverInv, NEW line \in Lines, Reads(line), line.half \in {"exit", "whole"}
  PROVE  LaterNext(line.tid, line.id) /\ line.id <= calls
<1> USE DEF ObserverInv
<1>1. /\ 1 \in DOMAIN pipe /\ line = pipe[1] /\ Returning(line) /\ call' = call
      /\ \A i \in DOMAIN pipe' : i + 1 \in DOMAIN pipe /\ pipe'[i] = pipe[i + 1] /\ 1 < i + 1
  <2>1. 1 \in DOMAIN pipe /\ line = pipe[1] /\ Returning(line) /\ call' = call
    BY PipeStep DEF Reads, Returning
  <2>2. DOMAIN pipe' = 1 .. Len(pipe) - 1 /\ Len(pipe) \in Nat
    BY PipeStep
  <2>3. \A i \in DOMAIN pipe' : i + 1 \in DOMAIN pipe /\ pipe'[i] = pipe[i + 1]
    BY PipeStep
  <2> QED BY <2>1, <2>2, <2>3
<1>2. \A i \in DOMAIN pipe' : pipe'[i].tid = line.tid => line.id < pipe'[i].id
  BY <1>1 DEF PipeInOrder
<1>3. InCall(line.tid) => line.id < call[line.tid].id
  BY <1>1 DEF PipeInOrder
<1>4. line.id <= calls
  BY <1>1, IdsKnown
<1> QED BY <1>1, <1>2, <1>3, <1>4 DEF Later, LaterNext, InCall, Observer!NoCall

(* The line with which a number is taken or a row is written.              *)
Takes(line, entry) ==
  /\ Reads(line) /\ line.half \in {"exit", "whole"} /\ Normalizes(entry, line)
  /\ \/ Returns(line) /\ entry = Waiting(line)
     \/ Completes(line) /\ entry = line

(* Numbers and rows change only with such a line; the rows also at the end. *)
LEMMA NumbersStep ==
  ASSUME ObserverTypes, Observer!Next, ObserverBounds
  PROVE  \/ /\ UNCHANGED <<sequences, skipped>>
            /\ partial' = partial \/ (partial' = << >> /\ phase' \in Observer!Ends)
         \/ \E line \in Lines, entry \in EntryLines \cup WholeLines : Takes(line, entry)
<1>1. CASE NormalizerRests
  BY <1>1 DEF NormalizerRests
<1>2. CASE Ending
  <2>1. partial' = partial \/ (partial' = << >> /\ phase' \in Observer!Ends)
    BY <1>2 DEF Ending, Observer!Finish, Observer!NoFile
  <2> QED BY <1>2, <2>1 DEF Ending
<1>3. CASE Observer!ReadLine
  <2>1. PICK line \in Lines :
            /\ Reads(line)
            /\ \/ Holds(line) \/ Addresses(line) \/ Returns(line) \/ Ignores(line)
               \/ Completes(line)
    BY <1>3, ReadStep
  <2>2. CASE Holds(line) \/ Addresses(line) \/ Ignores(line)
    BY <2>2 DEF Holds, Addresses, Ignores
  <2>3. CASE Returns(line)
    <3>1. Waiting(line) \in EntryLines
      BY <2>3 DEF Returns, Waiting, ObserverTypes
    <3>2. line.half = "exit" /\ Normalizes(Waiting(line), line)
      BY <2>3 DEF Returns
    <3>3. Takes(line, Waiting(line))
      BY <2>1, <2>3, <3>2 DEF Takes
    <3> QED BY <3>1, <3>3
  <2>4. CASE Completes(line)
    <3>1. line \in WholeLines /\ line.half = "whole"
      BY <2>4 DEF Completes, WholeLines
    <3>2. Takes(line, line)
      BY <2>1, <2>4, <3>1 DEF Takes, Completes
    <3> QED BY <3>1, <3>2
  <2> QED BY <2>1, <2>2, <2>3, <2>4
<1> QED BY <1>1, <1>2, <1>3, Moves

(* What taking a number means for the numbers.                             *)
LEMMA NumberTaken ==
  ASSUME ObserverInv, ObserverBounds, NEW line \in Lines, NEW entry, Takes(line, entry)
  PROVE  /\ <<line.tid, life[line.tid]>> \in Observer!Namespaces
         /\ sequences[<<line.tid, life[line.tid]>>] + 1 <= line.id
         /\ \A n \in Observer!Namespaces :
               \/ sequences'[n] = sequences[n]
               \/ n = <<line.tid, life[line.tid]>> /\ sequences'[n] = sequences[n] + 1
<1> DEFINE n == <<line.tid, life[line.tid]>>
<1>1. line.tid \in Tasks /\ line.id \in Nat
  BY DEF Lines, EntryLines, PartLines, WholeLines, Ids
<1>2. n \in Observer!Namespaces
  BY <1>1 DEF ObserverInv, ObserverTypes, Observer!Namespaces
<1>3. 1 \in DOMAIN pipe /\ pipe[1] = line /\ Returning(line)
  BY PipeStep DEF Takes, ObserverInv, Returning
<1>4. sequences[n] < line.id
  BY <1>2, <1>3 DEF ObserverInv, NumbersBehind, Later
<1>5. sequences \in [Observer!Namespaces -> Nat]
  BY DEF ObserverInv, ObserverTypes
<1>6. sequences' = sequences \/ sequences' = [sequences EXCEPT ![n] = sequences[n] + 1]
  BY DEF Takes, Normalizes
<1> HIDE DEF n
<1>7. sequences[n] + 1 <= line.id
  BY <1>1, <1>2, <1>4, <1>5
<1> QED BY <1>2, <1>5, <1>6, <1>7 DEF n

(* No namespace gets ahead of the calls of its task.                       *)
LEMMA NumbersBehindStep ==
  ASSUME ObserverInv, Observer!Next, ObserverBounds
  PROVE  NumbersBehind'
<1>1. /\ sequences \in [Observer!Namespaces -> Nat] /\ calls \in Nat
      /\ \A n \in Observer!Namespaces : n[1] \in Tasks
  BY DEF ObserverInv, ObserverTypes, Observer!Namespaces
<1> SUFFICES ASSUME NEW n \in Observer!Namespaces
             PROVE  sequences'[n] <= calls' /\ LaterNext(n[1], sequences'[n])
  BY DEF NumbersBehind, Observer!Namespaces, Later, LaterNext, Returning, InCall, Observer!NoCall
<1>2. CASE sequences'[n] = sequences[n]
  <2>1. LaterNext(n[1], sequences[n]) /\ sequences[n] <= calls'
    BY <1>1, LaterStep DEF ObserverInv, NumbersBehind
  <2> QED BY <1>2, <2>1
<1>3. ASSUME NEW line \in Lines, NEW entry \in EntryLines \cup WholeLines, Takes(line, entry),
             n = <<line.tid, life[line.tid]>>, sequences'[n] = sequences[n] + 1
      PROVE  sequences'[n] <= calls' /\ LaterNext(n[1], sequences'[n])
  <2>1. sequences'[n] <= line.id /\ sequences'[n] \in Nat
    BY <1>1, <1>3, NumberTaken
  <2>2. LaterNext(line.tid, line.id) /\ line.id <= calls
    BY <1>3, ReturnedLater DEF Takes
  <2>3. calls' = calls /\ n[1] = line.tid
    BY <1>3 DEF Takes, Reads
  <2>4. line.id \in Nat
    BY DEF Lines, EntryLines, PartLines, WholeLines, Ids
  <2>5. \A i \in DOMAIN pipe' : pipe'[i].id \in Nat
    <3>1. PipeInOrder' /\ \A i \in DOMAIN pipe' : i + 1 \in DOMAIN pipe /\ pipe'[i] = pipe[i + 1]
      BY <1>3, PipeStep, PipeInOrderStep DEF Takes, ObserverInv
    <3> QED BY <3>1, IdsKnown DEF ObserverInv
  <2>6. call' = call /\ \A t \in Tasks : InCall(t) => call[t].id \in Nat
    BY <1>3, IdsKnown DEF Takes, Reads, ObserverInv
  <2> QED BY <1>1, <2>1, <2>2, <2>3, <2>4, <2>5, <2>6 DEF LaterNext, InCall
<1>4. CASE UNCHANGED sequences
  BY <1>2, <1>4
<1>5. ASSUME NEW line \in Lines, NEW entry \in EntryLines \cup WholeLines, Takes(line, entry)
      PROVE  sequences'[n] <= calls' /\ LaterNext(n[1], sequences'[n])
  BY <1>2, <1>3, <1>5, NumberTaken
<1> QED BY <1>4, <1>5, NumbersStep DEF ObserverInv

(* No row gets ahead of the calls of its task.                             *)
LEMMA RowsBehindStep ==
  ASSUME ObserverInv, Observer!Next, ObserverBounds
  PROVE  RowsBehind'
<1>1. /\ sequences \in [Observer!Namespaces -> Nat] /\ calls \in Nat
      /\ \A n \in Observer!Namespaces : n[1] \in Tasks
      /\ \A i \in DOMAIN partial :
            /\ partial[i].ns \in Observer!Namespaces /\ partial[i].returned \in Nat
            /\ partial[i].seq \in Nat
  <2>1. partial \in Seq(Rows)
    BY DEF ObserverInv, ObserverTypes
  <2>2. \A i \in DOMAIN partial : partial[i] \in Rows
    BY <2>1
  <2>3. sequences \in [Observer!Namespaces -> Nat] /\ calls \in Nat
    BY DEF ObserverInv, ObserverTypes
  <2>4. \A n \in Observer!Namespaces : n[1] \in Tasks
    BY DEF Observer!Namespaces
  <2> QED BY <2>2, <2>3, <2>4 DEF Rows, Ids
<1>2. \A i \in DOMAIN partial : partial[i].returned <= calls
  BY DEF ObserverInv, Owned, OwnedBy
<1>3. ASSUME NEW i \in DOMAIN partial
      PROVE  /\ LaterNext(partial[i].ns[1], partial[i].returned)
             /\ partial[i].seq <= sequences'[partial[i].ns]
  <2>1. partial[i].seq <= sequences[partial[i].ns] /\ partial[i].ns \in Observer!Namespaces
    BY <1>1 DEF ObserverInv, RowsBehind
  <2>2. sequences'[partial[i].ns] \in {sequences[partial[i].ns], sequences[partial[i].ns] + 1}
    BY <2>1, NumbersStep, NumberTaken DEF ObserverInv
  <2>3. partial[i].seq <= sequences'[partial[i].ns]
    BY <1>1, <2>1, <2>2
  <2>4. Later(partial[i].ns[1], partial[i].returned)
    BY DEF ObserverInv, RowsBehind
  <2> QED BY <1>1, <1>2, <2>3, <2>4, LaterStep
<1>4. ASSUME NEW line \in Lines, NEW entry \in EntryLines \cup WholeLines, Takes(line, entry),
             sequences' = [sequences EXCEPT ![RowOf(entry, line).ns] = RowOf(entry, line).seq]
      PROVE  LET row == RowOf(entry, line)
             IN  LaterNext(row.ns[1], row.returned) /\ row.seq <= sequences'[row.ns]
  <2> DEFINE n == <<line.tid, life[line.tid]>>
  <2>1. LaterNext(line.tid, line.id) /\ n \in Observer!Namespaces
    BY <1>4, ReturnedLater, NumberTaken DEF Takes
  <2>2. sequences'[n] = sequences[n] + 1
    BY <1>1, <1>4, <2>1 DEF RowOf
  <2>3. sequences[n] + 1 <= sequences'[n]
    BY <1>1, <2>1, <2>2
  <2> QED BY <2>1, <2>3 DEF RowOf
<1>5. \A i \in DOMAIN partial' :
         /\ LaterNext(partial'[i].ns[1], partial'[i].returned)
         /\ partial'[i].seq <= sequences'[partial'[i].ns]
  <2>1. CASE partial' = partial \/ partial' = << >>
    BY <1>3, <2>1
  <2>2. ASSUME NEW line \in Lines, NEW entry \in EntryLines \cup WholeLines, Takes(line, entry),
               partial' # partial
        PROVE  \A i \in DOMAIN partial' :
                  /\ LaterNext(partial'[i].ns[1], partial'[i].returned)
                  /\ partial'[i].seq <= sequences'[partial'[i].ns]
    <3>1. sequences' = [sequences EXCEPT ![RowOf(entry, line).ns] = RowOf(entry, line).seq]
      BY <2>2 DEF Takes, Normalizes, RowOf
    <3>2. \A i \in DOMAIN partial' :
             \/ i \in DOMAIN partial /\ partial'[i] = partial[i]
             \/ partial'[i] = RowOf(entry, line)
      BY <2>2, PartialStep DEF Takes, ObserverInv
    <3> QED BY <1>3, <1>4, <2>2, <3>1, <3>2
  <2> QED BY <2>1, <2>2, NumbersStep DEF ObserverInv
<1> QED BY <1>5 DEF RowsBehind, Later, LaterNext, Returning, InCall, Observer!NoCall

(* The next row has a call and a number that no row has.                   *)
LEMMA OnceStep ==
  ASSUME ObserverInv, Observer!Next, ObserverBounds
  PROVE  Observer!EventsOnceInOrder'
<1>1. ASSUME NEW line \in Lines, NEW entry \in EntryLines \cup WholeLines, Takes(line, entry),
             NEW i \in DOMAIN partial
      PROVE  /\ partial[i].returned # line.id
             /\ partial[i].ns = RowOf(entry, line).ns => partial[i].seq < RowOf(entry, line).seq
  <2>1. 1 \in DOMAIN pipe /\ pipe[1] = line /\ Returning(line)
    BY <1>1, PipeStep DEF Takes, ObserverInv, Returning
  <2>2. partial[i].returned # line.id
    <3>1. PICK owner \in [Ids -> Tasks] : OwnedBy(owner)
      BY DEF ObserverInv, Owned
    <3>2. owner[partial[i].returned] = partial[i].ns[1] /\ owner[line.id] = line.tid
      BY <2>1, <3>1 DEF OwnedBy
    <3>3. CASE partial[i].ns[1] = line.tid
      <4>1. partial[i].returned < line.id
        BY <2>1, <3>3 DEF ObserverInv, RowsBehind, Later
      <4>2. partial[i].returned \in Nat /\ line.id \in Nat
        <5>1. partial \in Seq(Rows)
          BY DEF ObserverInv, ObserverTypes
        <5>2. partial[i] \in Rows
          BY <5>1
        <5> QED BY <5>2 DEF Rows, Ids, Lines, EntryLines, PartLines, WholeLines
      <4> QED BY <4>1, <4>2
    <3> QED BY <3>2, <3>3
  <2>3. ASSUME partial[i].ns = RowOf(entry, line).ns
        PROVE  partial[i].seq < RowOf(entry, line).seq
    <3>1. partial[i].seq <= sequences[partial[i].ns]
      BY DEF ObserverInv, RowsBehind
    <3>2. RowOf(entry, line).seq = sequences[partial[i].ns] + 1
      BY <2>3 DEF RowOf
    <3>3. partial[i].seq \in Nat /\ sequences[partial[i].ns] \in Nat
      <4>1. partial \in Seq(Rows) /\ sequences \in [Observer!Namespaces -> Nat]
        BY DEF ObserverInv, ObserverTypes
      <4>2. partial[i] \in Rows
        BY <4>1
      <4> QED BY <4>1, <4>2 DEF Rows, Ids
    <3> QED BY <3>1, <3>2, <3>3
  <2> QED BY <2>2, <2>3
<1>2. ASSUME NEW line \in Lines, NEW entry \in EntryLines \cup WholeLines, Takes(line, entry)
      PROVE  Observer!EventsOnceInOrder'
  <2>1. /\ DOMAIN partial = 1 .. Len(partial) /\ Len(partial) \in Nat
        /\ \A i \in DOMAIN partial' :
               \/ i \in DOMAIN partial /\ partial'[i] = partial[i]
               \/ i = Len(partial) + 1 /\ partial'[i] = RowOf(entry, line)
    BY <1>2, PartialStep DEF Takes, ObserverInv
  <2>2. RowOf(entry, line).returned = line.id
    BY DEF RowOf
  <2>3. ASSUME NEW i \in DOMAIN partial', NEW j \in DOMAIN partial', i < j
        PROVE  /\ partial'[i].returned # partial'[j].returned
               /\ partial'[i].ns = partial'[j].ns => partial'[i].seq < partial'[j].seq
    <3>1. i \in DOMAIN partial /\ partial'[i] = partial[i]
      BY <2>1, <2>3
    <3>2. CASE j \in DOMAIN partial /\ partial'[j] = partial[j]
      BY <2>3, <3>1, <3>2 DEF ObserverInv, Observer!EventsOnceInOrder
    <3>3. CASE partial'[j] = RowOf(entry, line)
      BY <1>1, <1>2, <2>2, <3>1, <3>3
    <3> QED BY <2>1, <3>2, <3>3
  <2> QED BY <2>3 DEF Observer!EventsOnceInOrder
<1>3. CASE partial' = partial \/ partial' = << >>
  BY <1>3 DEF ObserverInv, Observer!EventsOnceInOrder
<1> QED BY <1>2, <1>3, NumbersStep DEF ObserverInv

(* An entry that waits stays older than those in the pipe.                 *)
LEMMA PendingOldStep ==
  ASSUME ObserverInv, Observer!Next, ObserverBounds
  PROVE  PendingOld'
<1> DEFINE Old(k, id) ==
             /\ id <= calls'
             /\ \A i \in DOMAIN pipe' :
                   pipe'[i].tid = k[1] /\ pipe'[i].half = "enter" => id < pipe'[i].id
<1>1. /\ calls \in Nat
      /\ \A i \in DOMAIN pipe : pipe[i].id \in Nat /\ pipe[i].id <= calls
  BY IdsKnown DEF ObserverInv
<1>2. \A k \in DOMAIN pending : pending[k].id \in Nat /\ pending[k].id <= calls
  BY DEF ObserverInv, ObserverTypes, PendingOld, EntryLines, Ids
<1>3. ASSUME NEW k \in DOMAIN pending
      PROVE  Old(k, pending[k].id)
  <2>1. ASSUME NEW t \in Tasks, NEW line \in Lines, Begins(t, line)
        PROVE  Old(k, pending[k].id)
    <3>1. calls' = calls + 1 /\ Emitted(line) /\ line.id = calls + 1
      BY <2>1 DEF Begins
    <3>2. \A i \in DOMAIN pipe' : pipe'[i] = line \/ (i \in DOMAIN pipe /\ pipe'[i] = pipe[i])
      BY <3>1, PipeStep DEF ObserverInv
    <3> QED BY <1>1, <1>2, <3>1, <3>2 DEF ObserverInv, PendingOld
  <2>2. ASSUME NEW t \in Tasks, NEW line \in Lines, Continues(t, line)
        PROVE  Old(k, pending[k].id)
    <3>1. calls' = calls /\ Emitted(line) /\ line.half # "enter"
      BY <2>2 DEF Continues
    <3>2. \A i \in DOMAIN pipe' : pipe'[i] = line \/ (i \in DOMAIN pipe /\ pipe'[i] = pipe[i])
      BY <3>1, PipeStep DEF ObserverInv
    <3> QED BY <3>1, <3>2 DEF ObserverInv, PendingOld
  <2>3. CASE Quiet \/ Ending
    BY <2>3 DEF Quiet, Ending, ObserverInv, PendingOld
  <2>4. CASE Observer!ReadLine
    <3>1. PICK line \in Lines : Reads(line)
      BY <2>4, ReadStep DEF ObserverInv
    <3>2. calls' = calls /\ \A i \in DOMAIN pipe' : i + 1 \in DOMAIN pipe /\ pipe'[i] = pipe[i + 1]
      BY <3>1, PipeStep DEF Reads, ObserverInv
    <3> QED BY <3>2 DEF ObserverInv, PendingOld
  <2> QED BY <2>1, <2>2, <2>3, <2>4, Moves DEF ObserverInv
<1>4. ASSUME NEW line \in Lines, Reads(line), Holds(line)
      PROVE  Old(Observer!Key(line), line.id)
  <2>1. /\ 1 \in DOMAIN pipe /\ pipe[1] = line /\ calls' = calls
        /\ \A i \in DOMAIN pipe' : i + 1 \in DOMAIN pipe /\ pipe'[i] = pipe[i + 1] /\ 1 < i + 1
    <3>1. DOMAIN pipe' = 1 .. Len(pipe) - 1 /\ Len(pipe) \in Nat
      BY <1>4, PipeStep DEF ObserverInv
    <3>2. /\ 1 \in DOMAIN pipe /\ pipe[1] = line
          /\ \A i \in DOMAIN pipe' : i + 1 \in DOMAIN pipe /\ pipe'[i] = pipe[i + 1]
      BY <1>4, PipeStep DEF ObserverInv
    <3>3. calls' = calls
      BY <1>4 DEF Reads
    <3> QED BY <3>1, <3>2, <3>3
  <2>2. Observer!Key(line)[1] = line.tid
    BY DEF Observer!Key
  <2>3. line.id <= calls
    BY <1>1, <2>1
  <2>4. ASSUME NEW i \in DOMAIN pipe', pipe'[i].tid = line.tid, pipe'[i].half = "enter"
        PROVE  line.id < pipe'[i].id
    BY <2>1, <2>4 DEF ObserverInv, PipeInOrder, Entering
  <2> QED BY <2>1, <2>2, <2>3, <2>4
<1>5. \A k \in DOMAIN pending' : Old(k, pending'[k].id)
  <2> HIDE DEF Old
  <2>1. CASE pending' = pending
    BY <1>3, <2>1
  <2>2. CASE Observer!ReadLine
    <3>1. PICK line \in Lines :
              /\ Reads(line)
              /\ \/ Holds(line) \/ Addresses(line) \/ Returns(line) \/ Ignores(line)
                 \/ Completes(line)
      BY <2>2, ReadStep DEF ObserverInv
    <3>2. CASE Holds(line)
      <4>1. pending' = [k \in DOMAIN pending \union {Observer!Key(line)} |->
                          IF k = Observer!Key(line) THEN line ELSE pending[k]]
        BY <3>2 DEF Holds, Observer!Hold
      <4> QED BY <1>3, <1>4, <3>1, <3>2, <4>1
    <3>3. CASE Addresses(line)
      <4> DEFINE held == [Waiting(line) EXCEPT !.address = line.id]
      <4>1. Waiting(line) \in EntryLines /\ Waiting(line) = pending[Observer!Key(line)]
            /\ Observer!Key(line) \in DOMAIN pending
        BY <3>3 DEF Addresses, Waiting, ObserverInv, ObserverTypes
      <4>2. PICK waiting \in EntryLines : waiting = Waiting(line)
        BY <4>1
      <4>3. [waiting EXCEPT !.address = line.id].id = waiting.id
        BY DEF EntryLines
      <4>4. Observer!Key(held) = Observer!Key(line)
        <5>1. [waiting EXCEPT !.address = line.id].tid = waiting.tid
              /\ [waiting EXCEPT !.address = line.id].op = waiting.op
          BY DEF EntryLines
        <5>2. Observer!Key(waiting) = Observer!Key(line)
          BY <4>1, <4>2 DEF ObserverInv, ObserverTypes
        <5> QED BY <4>2, <5>1, <5>2 DEF Observer!Key
      <4>5. pending' = [k \in DOMAIN pending \union {Observer!Key(held)} |->
                          IF k = Observer!Key(held) THEN held ELSE pending[k]]
        BY <3>3 DEF Addresses, Observer!Hold
      <4>6. held.id = pending[Observer!Key(line)].id
        BY <4>1, <4>2, <4>3
      <4> HIDE DEF held
      <4> QED BY <1>3, <4>1, <4>4, <4>5, <4>6
    <3>4. CASE Returns(line)
      BY <1>3, <3>4 DEF Returns, Observer!Drop
    <3>5. CASE Ignores(line) \/ Completes(line)
      BY <2>1, <3>5 DEF Ignores, Completes
    <3> QED BY <3>1, <3>2, <3>3, <3>4, <3>5
  <2> QED BY <2>1, <2>2, Moves DEF ObserverInv, NormalizerRests, Ending
<1> QED BY <1>5 DEF PendingOld

(* What EntryOf says of the state after the step.                          *)
EntryNext(t, op, id, i) ==
  \/ \E j \in DOMAIN pipe' :
        /\ j < i /\ pipe'[j].half = "enter" /\ pipe'[j].tid = t
        /\ pipe'[j].op = op /\ pipe'[j].id = id
  \/ <<t, op>> \in DOMAIN pending' /\ pending'[<<t, op>>].id = id

(* An entry is not forgotten while its call is in progress.                *)
LEMMA EntryKept ==
  ASSUME ObserverInv, ObserverBounds, NEW line \in Lines, Reads(line), lost = 0,
         Holds(line) \/ Addresses(line) \/ Returns(line) \/ Ignores(line) \/ Completes(line),
         NEW t \in Tasks, NEW op, NEW id \in Nat, NEW i \in Nat, EntryOf(t, op, id, i + 1),
         line.tid = t => line.id <= id /\ (Returning(line) => line.id < id)
  PROVE  EntryNext(t, op, id, i)
<1>1. /\ 1 \in DOMAIN pipe /\ pipe[1] = line /\ DOMAIN pipe = 1 .. Len(pipe) /\ Len(pipe) \in Nat
      /\ DOMAIN pipe' = 1 .. Len(pipe) - 1
      /\ \A j \in DOMAIN pipe' : j + 1 \in DOMAIN pipe /\ pipe'[j] = pipe[j + 1]
  BY PipeStep DEF ObserverInv
<1>2. ASSUME NEW j \in DOMAIN pipe, j < i + 1, pipe[j].half = "enter", pipe[j].tid = t,
             pipe[j].op = op, pipe[j].id = id
      PROVE  EntryNext(t, op, id, i)
  <2>1. CASE j = 1
    <3>1. line.half = "enter" /\ Observer!Key(line) = <<t, op>> /\ line.id = id
      BY <1>1, <1>2, <2>1 DEF Observer!Key
    <3>2. Holds(line)
      BY <3>1 DEF Addresses, Returns, Ignores, Completes, PartLines, WholeLines
    <3>3. pending' = [k \in DOMAIN pending \union {<<t, op>>} |->
                        IF k = <<t, op>> THEN line ELSE pending[k]]
      BY <3>1, <3>2 DEF Holds, Observer!Hold
    <3>4. <<t, op>> \in DOMAIN pending' /\ pending'[<<t, op>>] = line
      BY <3>3
    <3> QED BY <3>1, <3>4 DEF EntryNext
  <2>2. CASE j # 1
    <3>1. j - 1 \in DOMAIN pipe' /\ pipe'[j - 1] = pipe[j] /\ j - 1 < i
      <4>1. j \in 1 .. Len(pipe)
        BY <1>1
      <4>2. j - 1 \in DOMAIN pipe' /\ (j - 1) + 1 = j
        BY <1>1, <2>2, <4>1
      <4> QED BY <1>1, <1>2, <4>1, <4>2
    <3> QED BY <1>2, <3>1 DEF EntryNext
  <2> QED BY <2>1, <2>2
<1>3. ASSUME <<t, op>> \in DOMAIN pending, pending[<<t, op>>].id = id
      PROVE  EntryNext(t, op, id, i)
  <2> DEFINE key == <<t, op>>
  <2>1. CASE Holds(line)
    <3>1. line.half = "enter" /\ line.id \in Nat
      BY <2>1 DEF Holds, EntryLines, Ids
    <3>2. Observer!Key(line) # key
      <4> SUFFICES ASSUME Observer!Key(line) = key
                   PROVE  FALSE
        OBVIOUS
      <4>1. line.tid = t
        BY DEF Observer!Key
      <4>2. pending[key].id < line.id
        BY <1>1, <1>3, <3>1, <4>1 DEF ObserverInv, PendingOld
      <4> QED BY <1>3, <3>1, <4>1, <4>2
    <3>3. key \in DOMAIN pending' /\ pending'[key] = pending[key]
      BY <1>3, <2>1, <3>2 DEF Holds, Observer!Hold
    <3> QED BY <1>3, <3>3 DEF EntryNext
  <2>2. CASE Addresses(line)
    <3>1. PICK waiting \in EntryLines :
              /\ waiting = Waiting(line) /\ waiting = pending[Observer!Key(line)]
              /\ Observer!Key(waiting) = Observer!Key(line)
      BY <2>2 DEF Addresses, Waiting, ObserverInv, ObserverTypes
    <3> DEFINE held == [waiting EXCEPT !.address = line.id]
    <3>2. held.id = waiting.id /\ Observer!Key(held) = Observer!Key(waiting)
      BY DEF EntryLines, Observer!Key
    <3>3. pending' = [k \in DOMAIN pending \union {Observer!Key(held)} |->
                        IF k = Observer!Key(held) THEN held ELSE pending[k]]
      BY <2>2, <3>1 DEF Addresses, Observer!Hold
    <3> HIDE DEF held
    <3>4. key \in DOMAIN pending' /\ pending'[key].id = pending[key].id
      BY <1>3, <3>1, <3>2, <3>3
    <3> QED BY <1>3, <3>4 DEF EntryNext
  <2>3. CASE Returns(line)
    <3>1. line.half = "exit" /\ line.id \in Nat
      BY <2>3 DEF Returns, PartLines, Ids
    <3>2. EntryOf(line.tid, line.op, line.id, 1)
      BY <1>1, <3>1 DEF ObserverInv, HalvesMeet
    <3>3. pending[Observer!Key(line)].id = line.id
      BY <1>1, <3>2 DEF EntryOf, Observer!Key
    <3>4. Observer!Key(line) # key
      <4> SUFFICES ASSUME Observer!Key(line) = key
                   PROVE  FALSE
        OBVIOUS
      <4>1. line.tid = t
        BY DEF Observer!Key
      <4> QED BY <1>3, <3>1, <3>3, <4>1 DEF Returning
    <3>5. key \in DOMAIN pending' /\ pending'[key] = pending[key]
      BY <1>3, <2>3, <3>4 DEF Returns, Observer!Drop
    <3> QED BY <1>3, <3>5 DEF EntryNext
  <2>4. CASE Ignores(line) \/ Completes(line)
    BY <1>3, <2>4 DEF Ignores, Completes, EntryNext
  <2> QED BY <2>1, <2>2, <2>3, <2>4
<1> QED BY <1>2, <1>3 DEF EntryOf

(* Without a loss what is written joins the halves of one call.            *)
LEMMA RowJoined ==
  ASSUME ObserverInv, NEW line \in Lines, NEW entry, Takes(line, entry), lost = 0
  PROVE  Joined(RowOf(entry, line))
<1>1. 1 \in DOMAIN pipe /\ pipe[1] = line /\ DOMAIN pipe = 1 .. Len(pipe) /\ Len(pipe) \in Nat
  BY PipeStep DEF ObserverInv, Takes
<1>2. CASE Completes(line) /\ entry = line
  BY <1>2 DEF Completes, WholeLines, Joined, RowOf
<1>3. CASE Returns(line) /\ entry = Waiting(line)
  <2>1. line.half = "exit" /\ Observer!Key(line) \in DOMAIN pending
    BY <1>3 DEF Returns
  <2>2. EntryOf(line.tid, line.op, line.id, 1)
    BY <1>1, <2>1 DEF ObserverInv, HalvesMeet
  <2>3. entry.id = line.id
    BY <1>1, <1>3, <2>2 DEF EntryOf, Observer!Key, Waiting
  <2>4. entry.address \in {0, entry.id}
    BY <1>3, <2>1 DEF ObserverInv, HalvesMeet, Waiting
  <2> QED BY <2>3, <2>4 DEF Joined, RowOf
<1> QED BY <1>2, <1>3 DEF Takes

(* The other half of every half, while the pipe grows.                     *)
LEMMA HalvesEmitted ==
  ASSUME ObserverInv, lost' = 0, lost = 0, UNCHANGED pending, NEW line \in Lines, Emitted(line),
         line.half \in {"sockaddr", "exit"} => EntryOf(line.tid, line.op, line.id, Len(pipe) + 1)
  PROVE  /\ \A i \in DOMAIN pipe' :
               pipe'[i].half \in {"sockaddr", "exit"} =>
                 EntryNext(pipe'[i].tid, pipe'[i].op, pipe'[i].id, i)
         /\ \A t, op, id : EntryOf(t, op, id, Len(pipe) + 1) =>
               EntryNext(t, op, id, Len(pipe') + 1)
         /\ \A t, op, id : line.half = "enter" /\ line.tid = t /\ line.op = op
               /\ line.id = id => EntryNext(t, op, id, Len(pipe') + 1)
<1>1. /\ DOMAIN pipe = 1 .. Len(pipe) /\ Len(pipe) \in Nat
      /\ Len(pipe') = Len(pipe) + 1 /\ DOMAIN pipe' = 1 .. Len(pipe) + 1
      /\ \A i \in DOMAIN pipe : pipe'[i] = pipe[i]
      /\ pipe'[Len(pipe) + 1] = line
  <2>1. /\ Len(pipe') = Len(pipe) + 1 /\ DOMAIN pipe' = 1 .. Len(pipe) + 1
        /\ \A i \in DOMAIN pipe : pipe'[i] = pipe[i]
        /\ pipe'[Len(pipe) + 1] = line
    <3>1. lost' # lost + 1
      OBVIOUS
    <3> QED BY <3>1, PipeStep DEF ObserverInv
  <2> QED BY <2>1, PipeStep DEF ObserverInv
<1>2. ASSUME NEW t, NEW op, NEW id, NEW i \in 1 .. Len(pipe) + 1, NEW k \in Nat, i <= k,
             EntryOf(t, op, id, i)
      PROVE  EntryNext(t, op, id, k)
  <2>1. ASSUME NEW j \in DOMAIN pipe, j < i, pipe[j].half = "enter", pipe[j].tid = t,
               pipe[j].op = op, pipe[j].id = id
        PROVE  EntryNext(t, op, id, k)
    <3>1. j \in DOMAIN pipe' /\ pipe'[j] = pipe[j] /\ j < k
      BY <1>1, <1>2, <2>1
    <3> QED BY <2>1, <3>1 DEF EntryNext
  <2> QED BY <1>2, <2>1 DEF EntryOf, EntryNext
<1>3. ASSUME NEW i \in DOMAIN pipe', pipe'[i].half \in {"sockaddr", "exit"}
      PROVE  EntryNext(pipe'[i].tid, pipe'[i].op, pipe'[i].id, i)
  <2>1. i \in 1 .. Len(pipe) + 1 /\ i \in Nat /\ i <= i
    BY <1>1
  <2>2. CASE i \in DOMAIN pipe
    <3>1. pipe'[i] = pipe[i] /\ EntryOf(pipe[i].tid, pipe[i].op, pipe[i].id, i)
      BY <1>1, <1>3, <2>2 DEF ObserverInv, HalvesMeet
    <3>2. EntryNext(pipe[i].tid, pipe[i].op, pipe[i].id, i)
      BY <1>2, <2>1, <3>1
    <3> QED BY <3>1, <3>2
  <2>3. CASE i = Len(pipe) + 1
    <3>1. EntryNext(line.tid, line.op, line.id, i)
      BY <1>1, <1>2, <1>3, <2>1, <2>3
    <3> QED BY <1>1, <2>3, <3>1
  <2> QED BY <1>1, <2>1, <2>2, <2>3
<1>4. \A t, op, id : EntryOf(t, op, id, Len(pipe) + 1) =>
         EntryNext(t, op, id, Len(pipe') + 1)
  BY <1>1, <1>2
<1>5. ASSUME line.half = "enter"
      PROVE  EntryNext(line.tid, line.op, line.id, Len(pipe') + 1)
  BY <1>1, <1>5 DEF EntryNext
<1> QED BY <1>3, <1>4, <1>5

(* The halves still meet.                                                  *)
LEMMA HalvesMeetStep ==
  ASSUME ObserverInv, Observer!Next, ObserverBounds
  PROVE  HalvesMeet'
<1> DEFINE Lines1 == \A i \in DOMAIN pipe' :
                        pipe'[i].half \in {"sockaddr", "exit"} =>
                          EntryNext(pipe'[i].tid, pipe'[i].op, pipe'[i].id, i)
           Calls1 == \A t \in Tasks : call'[t] # Observer!NoCall =>
                        EntryNext(t, call'[t].op, call'[t].id, Len(pipe') + 1)
           Fresh1 == \A i \in DOMAIN pipe' : pipe'[i].half = "enter" => pipe'[i].address = 0
           Held1 == \A k \in DOMAIN pending' : pending'[k].address \in {0, pending'[k].id}
           Rows1 == \A i \in DOMAIN partial' : Joined(partial'[i])
<1> SUFFICES ASSUME lost' = 0
             PROVE  Lines1 /\ Calls1 /\ Fresh1 /\ Held1 /\ Rows1
  BY DEF HalvesMeet, EntryOf, EntryNext, InCall, Observer!NoCall, Joined
<1>1. lost \in Nat /\ ObserverTypes
  BY DEF ObserverInv, ObserverTypes
<1>2. ASSUME lost = 0
      PROVE  /\ \A k \in DOMAIN pending : pending[k].address \in {0, pending[k].id}
             /\ \A i \in DOMAIN pipe : pipe[i].half = "enter" => pipe[i].address = 0
             /\ \A i \in DOMAIN partial : Joined(partial[i])
             /\ \A t \in Tasks : InCall(t) => EntryOf(t, call[t].op, call[t].id, Len(pipe) + 1)
             /\ \A i \in DOMAIN pipe :
                   pipe[i].half \in {"sockaddr", "exit"} =>
                     EntryOf(pipe[i].tid, pipe[i].op, pipe[i].id, i)
  BY <1>2 DEF ObserverInv, HalvesMeet
<1>3. ASSUME NEW t \in Tasks, NEW line \in Lines, Begins(t, line), NormalizerRests
      PROVE  Lines1 /\ Calls1 /\ Fresh1 /\ Held1 /\ Rows1
  <2>1. /\ Emitted(line) /\ line.half \notin {"sockaddr", "exit"} /\ line.address = 0
        /\ line.tid = t /\ line.id = calls + 1
    BY <1>3 DEF Begins, EntryLines, WholeLines
  <2>2. lost = 0 /\ UNCHANGED pending /\ UNCHANGED partial
    BY <1>1, <1>3, <2>1 DEF NormalizerRests, Emitted
  <2>3. Lines1
    BY <2>1, <2>2, HalvesEmitted
  <2>4. Calls1
    <3> SUFFICES ASSUME NEW u \in Tasks, call'[u] # Observer!NoCall
                 PROVE  EntryNext(u, call'[u].op, call'[u].id, Len(pipe') + 1)
      OBVIOUS
    <3>1. CASE InCall(u) /\ call'[u].id = call[u].id /\ call'[u].op = call[u].op
      BY <1>2, <2>1, <2>2, <3>1, HalvesEmitted
    <3>2. CASE /\ u = t /\ line.half = "enter"
               /\ call'[u].id = calls + 1 /\ call'[u].op = line.op
      BY <2>1, <2>2, <3>2, HalvesEmitted
    <3> QED BY <1>3, <3>1, <3>2, CallsStep DEF ObserverInv, InCall
  <2>5. Fresh1
    <3>1. \A i \in DOMAIN pipe' : pipe'[i] = line \/ (i \in DOMAIN pipe /\ pipe'[i] = pipe[i])
      BY <1>1, <2>1, PipeGrows
    <3> QED BY <1>2, <2>1, <2>2, <3>1
  <2> QED BY <1>2, <2>2, <2>3, <2>4, <2>5
<1>4. ASSUME NEW t \in Tasks, NEW line \in Lines, Continues(t, line), NormalizerRests
      PROVE  Lines1 /\ Calls1 /\ Fresh1 /\ Held1 /\ Rows1
  <2>1. /\ Emitted(line) /\ line.half # "enter" /\ InCall(t)
        /\ line.tid = t /\ line.id = call[t].id /\ line.op = call[t].op
    BY <1>4 DEF Continues
  <2>2. lost = 0 /\ UNCHANGED pending /\ UNCHANGED partial
    BY <1>1, <1>4, <2>1 DEF NormalizerRests, Emitted
  <2>3. EntryOf(line.tid, line.op, line.id, Len(pipe) + 1)
    BY <1>2, <2>1, <2>2
  <2>4. Lines1
    BY <2>1, <2>2, <2>3, HalvesEmitted
  <2>5. Calls1
    <3> SUFFICES ASSUME NEW u \in Tasks, call'[u] # Observer!NoCall
                 PROVE  EntryNext(u, call'[u].op, call'[u].id, Len(pipe') + 1)
      OBVIOUS
    <3>1. InCall(u) /\ call'[u].id = call[u].id /\ call'[u].op = call[u].op
      BY <1>4, CallsStep DEF ObserverInv, InCall
    <3> QED BY <1>2, <2>1, <2>2, <2>3, <3>1, HalvesEmitted
  <2>6. Fresh1
    <3>1. \A i \in DOMAIN pipe' : pipe'[i] = line \/ (i \in DOMAIN pipe /\ pipe'[i] = pipe[i])
      BY <1>1, <2>1, PipeGrows
    <3> QED BY <1>2, <2>1, <2>2, <3>1
  <2> QED BY <1>2, <2>2, <2>4, <2>5, <2>6
<1>5. ASSUME UNCHANGED <<pipe, lost, pending>>, partial' = partial \/ partial' = << >>,
             \A u \in Tasks : call'[u] # Observer!NoCall =>
                InCall(u) /\ call'[u].id = call[u].id /\ call'[u].op = call[u].op
      PROVE  Lines1 /\ Calls1 /\ Fresh1 /\ Held1 /\ Rows1
  BY <1>2, <1>5 DEF EntryOf, EntryNext
<1>6. CASE Quiet /\ NormalizerRests
  <2>1. \A u \in Tasks : call'[u] # Observer!NoCall =>
                InCall(u) /\ call'[u].id = call[u].id /\ call'[u].op = call[u].op
    BY <1>6, CallsStep DEF ObserverInv, InCall
  <2> QED BY <1>5, <1>6, <2>1 DEF Quiet, NormalizerRests
<1>7. CASE Ending
  <2>1. partial' = partial \/ partial' = << >>
    BY <1>7 DEF Ending, Observer!Finish, Observer!NoFile
  <2>2. UNCHANGED <<call, pipe, lost, pending>>
    BY <1>7 DEF Ending, Observer!Finish, Observer!kernel
  <2> QED BY <1>5, <2>1, <2>2 DEF InCall
<1>8. CASE Observer!ReadLine
  <2>1. PICK line \in Lines :
            /\ Reads(line)
            /\ \/ Holds(line) \/ Addresses(line) \/ Returns(line) \/ Ignores(line)
               \/ Completes(line)
    BY <1>8, ReadStep DEF ObserverInv
  <2>2. lost = 0 /\ call' = call
    BY <2>1 DEF Reads
  <2>3. /\ 1 \in DOMAIN pipe /\ pipe[1] = line /\ DOMAIN pipe = 1 .. Len(pipe)
        /\ Len(pipe) \in Nat /\ Len(pipe') = Len(pipe) - 1 /\ DOMAIN pipe' = 1 .. Len(pipe) - 1
        /\ \A i \in DOMAIN pipe' : i + 1 \in DOMAIN pipe /\ pipe'[i] = pipe[i + 1]
    BY <1>1, <2>1, PipeShrinks
  <2>4. Lines1
    <3> SUFFICES ASSUME NEW i \in DOMAIN pipe', pipe'[i].half \in {"sockaddr", "exit"}
                 PROVE  EntryNext(pipe'[i].tid, pipe'[i].op, pipe'[i].id, i)
      OBVIOUS
    <3>1. i \in Nat /\ i + 1 \in DOMAIN pipe /\ pipe'[i] = pipe[i + 1] /\ 1 < i + 1
      BY <2>3
    <3>2. EntryOf(pipe[i + 1].tid, pipe[i + 1].op, pipe[i + 1].id, i + 1)
      BY <1>2, <2>2, <3>1
    <3>3. pipe[i + 1].tid \in Tasks /\ pipe[i + 1].id \in Nat
      BY <3>1, IdsKnown DEF ObserverInv
    <3>4. line.tid = pipe[i + 1].tid =>
             line.id <= pipe[i + 1].id /\ (Returning(line) => line.id < pipe[i + 1].id)
      BY <2>3, <3>1 DEF ObserverInv, PipeInOrder
    <3>5. EntryNext(pipe[i + 1].tid, pipe[i + 1].op, pipe[i + 1].id, i)
      BY <2>1, <2>2, <3>1, <3>2, <3>3, <3>4, EntryKept
    <3> QED BY <3>1, <3>5
  <2>5. Calls1
    <3> SUFFICES ASSUME NEW t \in Tasks, InCall(t)
                 PROVE  EntryNext(t, call[t].op, call[t].id, Len(pipe') + 1)
      BY <2>2 DEF InCall
    <3>1. EntryOf(t, call[t].op, call[t].id, Len(pipe) + 1)
      BY <1>2, <2>2
    <3>2. call[t].id \in Nat /\ Len(pipe) = Len(pipe') + 1 /\ Len(pipe) \in Nat
      BY <2>3, IdsKnown DEF ObserverInv
    <3>3. line.tid = t => line.id <= call[t].id /\ (Returning(line) => line.id < call[t].id)
      BY <2>3 DEF ObserverInv, PipeInOrder
    <3> QED BY <2>1, <2>2, <3>1, <3>2, <3>3, EntryKept
  <2>6. Fresh1
    BY <1>2, <2>2, <2>3
  <2>7. Held1
    <3>1. CASE Holds(line)
      <4>1. line.address = 0
        BY <1>2, <2>2, <2>3, <3>1 DEF Holds, EntryLines
      <4> QED BY <1>2, <2>2, <3>1, <4>1 DEF Holds, Observer!Hold
    <3>2. CASE Addresses(line)
      <4>1. PICK waiting \in EntryLines :
                /\ waiting = Waiting(line) /\ waiting = pending[Observer!Key(line)]
        BY <3>2 DEF Addresses, Waiting, ObserverInv, ObserverTypes
      <4>2. line.half = "sockaddr"
        BY <3>2 DEF Addresses
      <4>3. EntryOf(line.tid, line.op, line.id, 1)
        BY <1>2, <2>2, <2>3, <4>2
      <4>4. waiting.id = line.id
        BY <2>3, <4>1, <4>3 DEF EntryOf, Observer!Key
      <4> DEFINE held == [waiting EXCEPT !.address = line.id]
      <4>5. held.id = waiting.id /\ held.address = line.id
        BY DEF EntryLines
      <4>6. pending' = [k \in DOMAIN pending \union {Observer!Key(held)} |->
                          IF k = Observer!Key(held) THEN held ELSE pending[k]]
        BY <3>2, <4>1 DEF Addresses, Observer!Hold
      <4> HIDE DEF held
      <4> QED BY <1>2, <2>2, <4>4, <4>5, <4>6
    <3>3. CASE Returns(line)
      BY <1>2, <2>2, <3>3 DEF Returns, Observer!Drop
    <3>4. CASE Ignores(line) \/ Completes(line)
      BY <1>2, <2>2, <3>4 DEF Ignores, Completes
    <3> QED BY <2>1, <3>1, <3>2, <3>3, <3>4
  <2>8. Rows1
    <3>1. CASE partial' = partial \/ partial' = << >>
      BY <1>2, <2>2, <3>1
    <3>2. ASSUME NEW l \in Lines, NEW entry \in EntryLines \cup WholeLines, Takes(l, entry)
          PROVE  Rows1
      <4>1. \A i \in DOMAIN partial' :
               \/ i \in DOMAIN partial /\ partial'[i] = partial[i]
               \/ partial'[i] = RowOf(entry, l)
        BY <3>2, PartialStep DEF Takes, ObserverInv
      <4> QED BY <1>2, <2>2, <3>2, <4>1, RowJoined
    <3> QED BY <3>1, <3>2, NumbersStep DEF ObserverInv
  <2> QED BY <2>4, <2>5, <2>6, <2>7, <2>8
<1> HIDE DEF Lines1, Calls1, Fresh1, Held1, Rows1
<1> QED BY <1>3, <1>4, <1>6, <1>7, <1>8, Moves DEF ObserverInv

(* What is published is joined.                                            *)
LEMMA CaptureJoinedStep ==
  ASSUME ObserverInv, Observer!Next, ObserverBounds
  PROVE  CaptureJoined'
<1>1. CASE UNCHANGED <<capture, phase>>
  BY <1>1 DEF ObserverInv, CaptureJoined, Observer!Ends, Joined
<1>2. CASE capture' = capture /\ phase = "running"
  BY <1>2 DEF ObserverInv, CaptureJoined, Observer!Ends, Joined
<1>3. ASSUME NEW how \in Observer!Ends, Observer!Finish(how)
      PROVE  CaptureJoined'
  <2>1. phase' \in Observer!Ends /\ phase' = how /\ capture = << >>
    BY <1>3 DEF Observer!Finish, ObserverInv, CaptureJoined, Observer!Ends
  <2>2. capture' = << >> \/ (capture' = partial /\ (how # "killed" => lost = 0))
    BY <1>3, <2>1 DEF Observer!Finish
  <2>3. how # "killed" => \A i \in DOMAIN capture' : Joined(capture'[i])
    BY <2>2 DEF ObserverInv, HalvesMeet
  <2> QED BY <2>1, <2>3 DEF CaptureJoined, Joined, Observer!Ends
<1>4. CASE Ending
  BY <1>2, <1>3, <1>4 DEF Ending
<1>5. CASE Observer!ReadLine
  BY <1>1, <1>5, ReadStep DEF Reads, ObserverInv
<1>6. CASE NormalizerRests
  BY <1>1, <1>6 DEF NormalizerRests
<1> QED BY <1>4, <1>5, <1>6, Moves DEF ObserverInv

(* The places of the events of a namespace, counted.                       *)
LEMMA PlacesCounted ==
  ASSUME NEW file, NEW n, NEW m \in Nat
  PROVE  /\ IsFiniteSet(OfBefore(file, n, m)) /\ Cardinality(OfBefore(file, n, m)) \in Nat
         /\ file[m + 1].ns = n =>
              Cardinality(OfBefore(file, n, m + 1)) = Cardinality(OfBefore(file, n, m)) + 1
         /\ file[m + 1].ns # n => OfBefore(file, n, m + 1) = OfBefore(file, n, m)
         /\ \A longer : (\A i \in 1 .. m : longer[i] = file[i]) =>
              OfBefore(longer, n, m) = OfBefore(file, n, m)
<1>1. IsFiniteSet(OfBefore(file, n, m)) /\ Cardinality(OfBefore(file, n, m)) \in Nat
  <2>1. IsFiniteSet(1 .. m)
    BY FS_Interval
  <2>2. OfBefore(file, n, m) \subseteq 1 .. m
    BY DEF OfBefore
  <2> QED BY <2>1, <2>2, FS_Subset, FS_CardinalityType
<1>2. ASSUME file[m + 1].ns = n
      PROVE  Cardinality(OfBefore(file, n, m + 1)) = Cardinality(OfBefore(file, n, m)) + 1
  <2>1. OfBefore(file, n, m + 1) = OfBefore(file, n, m) \cup {m + 1}
    BY <1>2 DEF OfBefore
  <2>2. m + 1 \notin OfBefore(file, n, m)
    BY DEF OfBefore
  <2> QED BY <1>1, <2>1, <2>2, FS_AddElement
<1>3. ASSUME file[m + 1].ns # n
      PROVE  OfBefore(file, n, m + 1) = OfBefore(file, n, m)
  BY <1>3 DEF OfBefore
<1>4. ASSUME NEW longer, \A i \in 1 .. m : longer[i] = file[i]
      PROVE  OfBefore(longer, n, m) = OfBefore(file, n, m)
  BY <1>4 DEF OfBefore
<1> QED BY <1>1, <1>2, <1>3, <1>4

(* The numbers in the partial file, and the last one of each namespace,    *)
(* after an event has taken one.                                           *)
LEMMA CountedTaking ==
  ASSUME ObserverInv, ObserverBounds, NEW line \in Lines, NEW entry \in EntryLines \cup WholeLines,
         Takes(line, entry)
  PROVE  /\ \A i \in DOMAIN partial' :
              partial'[i].ns \notin skipped' =>
                partial'[i].seq = Cardinality(OfBefore(partial', partial'[i].ns, i))
         /\ \A n \in Observer!Namespaces \ skipped' :
              sequences'[n] = Cardinality(OfBefore(partial', n, Len(partial')))
<1> DEFINE ns == <<line.tid, life[line.tid]>>
           row == RowOf(entry, line)
<1>1. /\ ns \in Observer!Namespaces /\ sequences \in [Observer!Namespaces -> Nat]
      /\ row.ns = ns /\ row.seq = sequences[ns] + 1
  BY NumberTaken DEF ObserverInv, ObserverTypes, RowOf
<1>2. /\ \A n \in Observer!Namespaces \ skipped :
            sequences[n] = Cardinality(OfBefore(partial, n, Len(partial)))
      /\ \A i \in DOMAIN partial :
            partial[i].ns \notin skipped =>
              partial[i].seq = Cardinality(OfBefore(partial, partial[i].ns, i))
  <2>1. phase \notin Observer!Ends
    BY DEF Takes, Reads, Observer!Ends
  <2> QED BY <2>1 DEF ObserverInv, Counted, Numbered
<1>3. DOMAIN partial = 1 .. Len(partial) /\ Len(partial) \in Nat
  BY PartialStep DEF Takes, ObserverInv
<1>4. CASE UNCHANGED <<sequences, skipped, partial>>
  BY <1>2, <1>4
<1>5. CASE /\ sequences' = [sequences EXCEPT ![ns] = sequences[ns] + 1]
           /\ skipped' = skipped \cup {ns} /\ partial' = partial
  BY <1>1, <1>2, <1>5
<1>6. CASE /\ sequences' = [sequences EXCEPT ![ns] = sequences[ns] + 1]
           /\ skipped' = skipped /\ partial' = Append(partial, row)
  <2>1. /\ Len(partial') = Len(partial) + 1 /\ DOMAIN partial' = 1 .. Len(partial) + 1
        /\ partial'[Len(partial) + 1] = row
        /\ \A i \in DOMAIN partial : partial'[i] = partial[i]
    <3>1. partial \in Seq(Rows) /\ row \in Rows
      BY RowTyped DEF ObserverInv, ObserverTypes, Takes
    <3> QED BY <1>6, <3>1, Appended
  <2> HIDE DEF ns, row
  <2>2. \A n : \A i \in 0 .. Len(partial) : OfBefore(partial', n, i) = OfBefore(partial, n, i)
    <3> SUFFICES ASSUME NEW n, NEW i \in 0 .. Len(partial)
                 PROVE  OfBefore(partial', n, i) = OfBefore(partial, n, i)
      OBVIOUS
    <3>1. i \in Nat /\ \A j \in 1 .. i : partial'[j] = partial[j]
      BY <1>3, <2>1
    <3> QED BY <3>1, PlacesCounted
  <2>3. ASSUME ns \notin skipped
        PROVE  Cardinality(OfBefore(partial', ns, Len(partial) + 1)) = sequences[ns] + 1
    <3>1. Cardinality(OfBefore(partial', ns, Len(partial))) = sequences[ns]
      BY <1>1, <1>2, <1>3, <2>2, <2>3
    <3> QED BY <1>1, <1>3, <2>1, <3>1, PlacesCounted
  <2>4. ASSUME NEW i \in DOMAIN partial', partial'[i].ns \notin skipped
        PROVE  partial'[i].seq = Cardinality(OfBefore(partial', partial'[i].ns, i))
    <3>1. CASE i = Len(partial) + 1
      BY <1>1, <2>1, <2>3, <2>4, <3>1
    <3>2. CASE i \in DOMAIN partial
      <4>1. partial'[i] = partial[i] /\ i \in 0 .. Len(partial)
        BY <1>3, <2>1, <3>2
      <4> QED BY <1>2, <2>2, <2>4, <3>2, <4>1
    <3> QED BY <1>3, <2>1, <3>1, <3>2
  <2>5. ASSUME NEW n \in Observer!Namespaces \ skipped
        PROVE  sequences'[n] = Cardinality(OfBefore(partial', n, Len(partial) + 1))
    <3>1. CASE n = ns
      BY <1>1, <1>6, <2>3, <2>5, <3>1
    <3>2. CASE n # ns
      <4>1. OfBefore(partial', n, Len(partial) + 1) = OfBefore(partial', n, Len(partial))
        BY <1>1, <1>3, <2>1, <3>2, PlacesCounted
      <4>2. sequences'[n] = sequences[n]
        BY <1>1, <1>6, <3>2
      <4> QED BY <1>2, <1>3, <2>2, <4>1, <4>2
    <3> QED BY <3>1, <3>2
  <2> QED BY <1>6, <2>1, <2>4, <2>5
<1> QED BY <1>4, <1>5, <1>6 DEF Takes, Normalizes

(* Where no number was burned the numbers count the events.                *)
LEMMA CountedStep ==
  ASSUME ObserverInv, Observer!Next, ObserverBounds
  PROVE  Counted'
<1>1. ASSUME UNCHANGED <<sequences, skipped>>,
             partial' = partial \/ (partial' = << >> /\ phase' \in Observer!Ends)
      PROVE  /\ \A i \in DOMAIN partial' :
                   partial'[i].ns \notin skipped' =>
                     partial'[i].seq = Cardinality(OfBefore(partial', partial'[i].ns, i))
             /\ phase' \notin Observer!Ends /\ phase \notin Observer!Ends =>
                  \A n \in Observer!Namespaces \ skipped' :
                     sequences'[n] = Cardinality(OfBefore(partial', n, Len(partial')))
  BY <1>1 DEF ObserverInv, Counted, Numbered
<1>2. phase \in Observer!Ends => phase' \in Observer!Ends
  <2>1. CASE NormalizerRests
    BY <2>1 DEF NormalizerRests
  <2>2. CASE Ending
    BY <2>2 DEF Ending, Observer!Finish, Observer!Ends
  <2>3. CASE Observer!ReadLine
    BY <2>3 DEF Observer!ReadLine, Observer!Ends
  <2> QED BY <2>1, <2>2, <2>3, Moves DEF ObserverInv
<1>3. \A i \in DOMAIN capture' :
         capture'[i].ns \notin skipped' =>
           capture'[i].seq = Cardinality(OfBefore(capture', capture'[i].ns, i))
  <2>1. CASE capture' = capture
    <3>1. skipped \subseteq skipped'
      BY NumbersStep DEF ObserverInv, Takes, Normalizes
    <3> QED BY <2>1, <3>1 DEF ObserverInv, Counted, Numbered
  <2>2. ASSUME NEW how \in Observer!Ends, Observer!Finish(how)
        PROVE  (capture' = capture \/ capture' = partial) /\ skipped' = skipped
    BY <2>2 DEF Observer!Finish
  <2>3. CASE capture' = partial /\ skipped' = skipped
    BY <2>3 DEF ObserverInv, Counted, Numbered
  <2>4. capture' = capture \/ (capture' = partial /\ skipped' = skipped)
    <3>1. CASE NormalizerRests
      BY <3>1 DEF NormalizerRests
    <3>2. CASE Ending
      BY <2>2, <3>2 DEF Ending
    <3>3. CASE Observer!ReadLine
      BY <3>3 DEF Observer!ReadLine
    <3> QED BY <3>1, <3>2, <3>3, Moves DEF ObserverInv
  <2> QED BY <2>1, <2>3, <2>4
<1>4. /\ \A i \in DOMAIN partial' :
            partial'[i].ns \notin skipped' =>
              partial'[i].seq = Cardinality(OfBefore(partial', partial'[i].ns, i))
      /\ phase' \notin Observer!Ends =>
           \A n \in Observer!Namespaces \ skipped' :
              sequences'[n] = Cardinality(OfBefore(partial', n, Len(partial')))
  BY <1>1, <1>2, CountedTaking, NumbersStep DEF ObserverInv
<1> QED BY <1>3, <1>4 DEF Counted, Numbered, Observer!Namespaces, Observer!Ends, OfBefore

(* The initial state of the observer.                                      *)
LEMMA ObserverInit ==
  ASSUME Observer!Init, ObserverBounds
  PROVE  ObserverInv
<1> USE DEF Observer!Init
<1>1. ObserverTypes
  <2>1. MaxLives \in Nat \ {0} /\ MaxCalls \in Nat
    BY DEF ObserverBounds
  <2>2. << >> \in Seq(Lines) /\ << >> \in Seq(Rows) /\ DOMAIN pending = {}
    OBVIOUS
  <2>3. life \in [Tasks -> 1 .. MaxLives] /\ alive \in [Tasks -> BOOLEAN]
    BY <2>1
  <2>4. call \in [Tasks -> {Observer!NoCall} \cup [id : Ids, op : Operations, told : BOOLEAN]]
    OBVIOUS
  <2>5. sequences \in [Observer!Namespaces -> Nat] /\ skipped \subseteq Observer!Namespaces
    OBVIOUS
  <2>6. /\ calls \in 0 .. MaxCalls /\ credential \subseteq Ids
        /\ lost \in Nat /\ lost_events \in 0 .. lost
    BY <2>1
  <2> QED BY <2>2, <2>3, <2>4, <2>5, <2>6 DEF ObserverTypes, Observer!NoFile
<1>2. /\ DOMAIN pipe = {} /\ DOMAIN pending = {} /\ DOMAIN partial = {} /\ DOMAIN capture = {}
      /\ Len(partial) = 0 /\ Len(pipe) = 0 /\ capture = << >>
      /\ \A t \in Tasks : ~InCall(t)
  BY DEF InCall, Observer!NoFile
<1>3. Owned
  <2>1. PICK t \in Tasks : TRUE
    BY DEF ObserverBounds
  <2> DEFINE owner == [c \in Ids |-> t]
  <2>2. owner \in [Ids -> Tasks] /\ OwnedBy(owner)
    BY <1>2 DEF OwnedBy
  <2> QED BY <2>2 DEF Owned
<1>4. PipeInOrder /\ RowsBehind /\ PendingOld
  BY <1>2 DEF PipeInOrder, RowsBehind, PendingOld
<1>5. NumbersBehind
  <2>1. \A n \in Observer!Namespaces : sequences[n] = 0 /\ n[1] \in Tasks
    BY DEF Observer!Namespaces
  <2>2. calls = 0
    OBVIOUS
  <2> QED BY <1>2, <2>1, <2>2 DEF NumbersBehind, Later
<1>6. HalvesMeet /\ CaptureJoined
  BY <1>2 DEF HalvesMeet, CaptureJoined
<1>7. Counted
  <2>1. \A n : OfBefore(partial, n, 0) = {}
    BY DEF OfBefore
  <2>2. Cardinality({}) = 0
    BY FS_EmptySet
  <2>3. \A n \in Observer!Namespaces : sequences[n] = 0
    OBVIOUS
  <2> QED BY <1>2, <2>1, <2>2, <2>3 DEF Counted, Numbered
<1>8. Observer!EventsOnceInOrder
  BY <1>2 DEF Observer!EventsOnceInOrder
<1> QED BY <1>1, <1>3, <1>4, <1>5, <1>6, <1>7, <1>8 DEF ObserverInv

(* Every step of the observer keeps its invariant.                         *)
LEMMA ObserverStep ==
  ASSUME ObserverInv, Observer!Next, ObserverBounds
  PROVE  ObserverInv'
<1>1. ObserverTypes'
  BY ObserverTypesStep DEF ObserverInv
<1>2. Owned'
  BY OwnedStep
<1>3. PipeInOrder'
  BY PipeInOrderStep
<1>4. NumbersBehind' /\ RowsBehind'
  BY NumbersBehindStep, RowsBehindStep
<1>5. PendingOld'
  BY PendingOldStep
<1>6. HalvesMeet' /\ CaptureJoined'
  BY HalvesMeetStep, CaptureJoinedStep
<1>7. Counted' /\ Observer!EventsOnceInOrder'
  BY CountedStep, OnceStep
<1> QED BY <1>1, <1>2, <1>3, <1>4, <1>5, <1>6, <1>7 DEF ObserverInv

(* The count of the instance is the count of the standard module.          *)
LEMMA SameCount ==
  ASSUME NEW S
  PROVE  Observer!Cardinality(S) = Cardinality(S)
BY DEF Observer!Cardinality, Cardinality

(* The gap check refuses a namespace with a credential for nothing but a   *)
(* number without an event.                                                *)
LEMMA ExtractionRefuses ==
  ASSUME ObserverInv, ObserverBounds
  PROVE  Observer!ExtractionRefusesOnlyGaps
<1>1. DOMAIN capture = 1 .. Len(capture) /\ Len(capture) \in Nat
  <2>1. capture \in Seq(Rows)
    BY DEF ObserverInv, ObserverTypes
  <2> QED BY <2>1
<1>2. ASSUME NEW n, phase # "killed", NEW i \in Observer!Extract(n)
      PROVE  capture[i].entered = capture[i].returned
  BY <1>2 DEF Observer!Extract, ObserverInv, CaptureJoined, Joined
<1>3. ASSUME NEW n, NEW k \in DOMAIN capture, capture[k].ns = n, capture[k].credential,
             n \notin skipped
      PROVE  Observer!Extractable(n)
  <2> DEFINE Last == {i \in DOMAIN capture : Observer!Terminal(capture[i], n)}
  <2>1. Last \in SUBSET Nat /\ k \in Last
    BY <1>1, <1>3 DEF Observer!Terminal, Observer!OfNamespace
  <2>2. PICK m \in Last : \A i \in Last : m <= i
    <3> HIDE DEF Last
    <3> QED BY <2>1, LeastExists
  <2>3. m \in Observer!Extract(n) /\ capture[m].credential
    <3>1. m \in DOMAIN capture /\ capture[m].ns = n /\ capture[m].credential
      BY <2>2 DEF Observer!Terminal, Observer!OfNamespace
    <3>2. \A j \in 1 .. (m - 1) : ~Observer!Terminal(capture[j], n)
      BY <1>1, <2>2, <3>1
    <3> QED BY <3>1, <3>2 DEF Observer!Extract, Observer!OfNamespace
  <2>4. ASSUME NEW i \in Observer!Extract(n)
        PROVE  capture[i].seq = Cardinality({j \in Observer!Extract(n) : j <= i})
    <3>1. /\ i \in DOMAIN capture /\ capture[i].ns = n
          /\ \A j \in 1 .. (i - 1) : ~Observer!Terminal(capture[j], n)
      BY <2>4 DEF Observer!Extract, Observer!OfNamespace
    <3>2. {j \in Observer!Extract(n) : j <= i} = OfBefore(capture, n, i)
      BY <1>1, <3>1 DEF Observer!Extract, Observer!OfNamespace, OfBefore
    <3>3. capture[i].seq = Cardinality(OfBefore(capture, n, i))
      BY <1>3, <3>1 DEF ObserverInv, Counted, Numbered
    <3> QED BY <3>2, <3>3
  <2>5. \E i \in Observer!Extract(n) : capture[i].credential
    BY <2>3
  <2>6. \A i \in Observer!Extract(n) :
           capture[i].seq = Cardinality({j \in Observer!Extract(n) : j <= i})
    BY <2>4
  <2>7. \A i \in Observer!Extract(n) :
           capture[i].seq = Observer!Cardinality({j \in Observer!Extract(n) : j <= i})
    BY <2>6, SameCount
  <2> QED BY ONLY <2>5, <2>7 DEF Observer!Extractable
<1> QED BY <1>2, <1>3 DEF Observer!ExtractionRefusesOnlyGaps

(* The invariant of the observer implies what is required of a capture.    *)
LEMMA ObserverHolds ==
  ASSUME ObserverInv, ObserverBounds
  PROVE  /\ Observer!TypeOK /\ Observer!CaptureJoinsOneCall
         /\ Observer!EventsOnceInOrder /\ Observer!ExtractionRefusesOnlyGaps
<1>1. Observer!TypeOK
  <2>1. \A i \in DOMAIN partial : partial[i] \in Rows
    <3>1. partial \in Seq(Rows)
      BY DEF ObserverInv, ObserverTypes
    <3> QED BY <3>1
  <2>2. \A i \in DOMAIN partial :
           partial[i].ns \in Observer!Namespaces /\ partial[i].seq \in 1 .. MaxCalls
    BY <2>1 DEF Rows, Ids
  <2>3. \A t \in Tasks : life[t] \in 1 .. MaxLives /\ call[t].id \in 0 .. MaxCalls
    BY DEF ObserverInv, ObserverTypes, Ids, Observer!NoCall, ObserverBounds
  <2> QED BY <2>2, <2>3 DEF ObserverInv, ObserverTypes, Observer!TypeOK
<1>2. Observer!CaptureJoinsOneCall
  BY DEF ObserverInv, CaptureJoined, Joined, Observer!CaptureJoinsOneCall
<1> QED BY <1>1, <1>2, ExtractionRefuses DEF ObserverInv

(***************************************************************************)
(* The replay.                                                             *)
(***************************************************************************)

(* What the bounds and the ensemble's policy have to be.                   *)
ReplayBounds ==
  /\ Network \in Relations /\ Capacity \in Nat \ {0} /\ MaxPairs \in 1 .. Capacity
  /\ Members \subseteq Nat /\ Members # {} /\ IsFiniteSet(Members)
  /\ DenyVotesRequired \in 1 .. Cardinality(Members)
  /\ DisagreementAction \in {"abstain", "majority"}
  /\ ReplayNamespaces # {} /\ ReplayEvents \in Nat /\ MaxTrajectories \in Nat

(* Evidence tables and the states of a member for one namespace.           *)
Pairs == Relations \X Replay!Values
Tables == UNION {[D -> Nat \ {0}] : D \in SUBSET Pairs}

States ==
  [revision : Nat, last_sequence : Nat, next_value : Replay!Values, evidence : Tables,
   pairs : Seq(Pairs)]

(* The columns of the confusion table.                                     *)
Outcomes == {"tp", "fp", "tn", "fn", "abstain"}

(* The type of every variable of the replay.                               *)
ReplayTypes ==
  /\ phase \in {"configure", "between", "replay", "members", "gate3"} \cup Replay!Ended
  /\ memory \in [Members -> [ReplayNamespaces -> States]]
  /\ trajectory \in [ns : ReplayNamespaces, malicious : BOOLEAN, length : Nat, count : Nat]
  /\ event \in Replay!Events /\ DOMAIN results \subseteq Members
  /\ past \in [ReplayNamespaces -> Seq(Replay!Events)]
  /\ audit \in Nat /\ handled \in 0 .. ReplayEvents
  /\ confusion \in [Outcomes -> Nat]

(* The value d places before the next one in the ring.                     *)
Back(next, d) == IF next >= d THEN next - d ELSE next + Capacity - d

(* The first k events of a history that bound a pair, those since one.     *)
Bound(history, k) == {i \in 1 .. k : history[i].class \in {"trigger", "safe"}}
Since(history, k, id) == {i \in Bound(history, k) : i >= id}

(* The d-th pair from the end names the d-th event that bound one.         *)
Names(st, history, i, id) ==
  /\ id \in Bound(history, st.last_sequence)
  /\ Cardinality(Since(history, st.last_sequence, id)) = Len(st.pairs) - i + 1
  /\ Replay!Lookup(st.evidence, st.pairs[i]) =
        IF history[id].class = "trigger" THEN id ELSE Replay!NoEvidence

(* A state remembers the events it was fed, the first ones of a history.   *)
Remembers(st, history) ==
  /\ st.revision = st.last_sequence /\ st.last_sequence <= Len(history)
  /\ Len(st.pairs) <= MaxPairs
  /\ \A p \in DOMAIN st.evidence :
        /\ st.evidence[p] \in 1 .. st.last_sequence
        /\ history[st.evidence[p]] = [class |-> "trigger", relation |-> p[1]]
  /\ \A i \in DOMAIN st.pairs :
        /\ st.pairs[i][2] = Back(st.next_value, Len(st.pairs) - i + 1)
        /\ \E id \in Nat : Names(st, history, i, id)

(* So does every member in every namespace.                                *)
Remembered == \A m \in Members, n \in ReplayNamespaces : Remembers(memory[m][n], past[n])

(* All members hold one state of a namespace, which was fed all its events.*)
InStep(held, fed, n) ==
  \A m \in Members :
     /\ \A k \in Members : held[m][n] = held[k][n]
     /\ held[m][n].last_sequence = Len(fed[n])

(* A member's answer to the last event of a history, if it was admitted.   *)
Causal(result, history, k) ==
  /\ result.revision = k /\ result.effect \in {"ALLOW", "DENY"}
  /\ result.effect = "DENY" => result.evidence # {}
  /\ \A id \in result.evidence :
        /\ id \in 1 .. k /\ id < k /\ history[id].class = "trigger"
        /\ history[k] = [class |-> "query", relation |-> history[id].relation]

(* The answers rs so far to an event that is out of order.                 *)
Refused(held, fed, t, rs) ==
  /\ InStep(held, fed, t.ns)
  /\ \A m \in Members : held[m][t.ns].last_sequence + 1 # t.length
  /\ \A m \in DOMAIN rs :
        /\ rs[m].effect = "ABSTAIN" /\ rs[m].evidence = {}
        /\ rs[m].revision = held[m][t.ns].revision

(* The answers so far to the next event e: the members that have answered  *)
(* are one event ahead of the others.                                      *)
Admitted(held, fed, t, e, rs) ==
  /\ Len(fed[t.ns]) = t.length /\ fed[t.ns][t.length] = e
  /\ \E before \in States :
        /\ before.last_sequence + 1 = t.length /\ Remembers(before, fed[t.ns])
        /\ \A m \in Members :
              held[m][t.ns] = IF m \in DOMAIN rs THEN Replay!Advance(before, e, t.length)
                              ELSE before
  /\ \A m \in DOMAIN rs : Causal(rs[m], fed[t.ns], t.length)

(* The members are in step between events, and answer one event together.  *)
Together ==
  /\ phase \in {"configure", "between", "replay", "reported"} =>
        \A n \in ReplayNamespaces : InStep(memory, past, n)
  /\ phase \in {"members", "gate3"} =>
        /\ \A n \in ReplayNamespaces : n # trajectory.ns => InStep(memory, past, n)
        /\ \/ Refused(memory, past, trajectory, results)
           \/ Admitted(memory, past, trajectory, event, results)
  /\ phase = "gate3" => DOMAIN results = Members /\ combined = Replay!Combined(results)

(* A denial in the cache: its votes, its evidence and the query it answers.*)
Denied(c, fed) ==
  /\ c.ns \in ReplayNamespaces /\ c.seq \in 1 .. Len(fed[c.ns])
  /\ c.votes >= IF DisagreementAction = "abstain" THEN Cardinality(Members)
                ELSE DenyVotesRequired
  /\ c.evidence # {}
  /\ \A id \in c.evidence :
        /\ id \in 1 .. c.seq /\ id < c.seq /\ fed[c.ns][id].class = "trigger"
        /\ fed[c.ns][c.seq] = [class |-> "query", relation |-> fed[c.ns][id].relation]

(* Every denial in the cache is backed, once an earlier cache is removed.  *)
Denials == phase \notin {"configure", "refused"} => \A c \in cached : Denied(c, past)

(* The trajectories in the confusion table.                                *)
Counts == confusion.tp + confusion.fp + confusion.tn + confusion.fn + confusion.abstain

(* Events are audited and trajectories counted once each.                  *)
Tallied ==
  /\ phase \in {"configure", "between", "reported"} => Counts = trajectory.count
  /\ phase \in {"replay", "members", "gate3"} => Counts + 1 = trajectory.count
  /\ phase \in {"between", "replay", "members", "gate3", "reported"} => audit = handled
  /\ phase = "configure" => handled = 0
  /\ phase \in {"members", "gate3"} => handled < ReplayEvents

(* The inductive invariant of the replay.                                  *)
ReplayInv == ReplayTypes /\ Remembered /\ Together /\ Denials /\ Tallied

(* Evidence tables, and what adding and removing an entry makes of one.    *)
LEMMA TableFacts ==
  ASSUME NEW t \in Tables
  PROVE  /\ DOMAIN t \subseteq Pairs /\ \A p \in DOMAIN t : t[p] \in Nat \ {0}
         /\ \A pair \in Pairs, id \in Nat \ {0} : Replay!WithEvidence(t, pair, id) \in Tables
         /\ \A pair \in Pairs : Replay!WithoutEvidence(t, pair) \in Tables
<1>1. PICK D \in SUBSET Pairs : t \in [D -> Nat \ {0}]
  BY DEF Tables
<1>2. ASSUME NEW pair \in Pairs, NEW id \in Nat \ {0}
      PROVE  Replay!WithEvidence(t, pair, id) \in Tables
  <2>1. D \cup {pair} \in SUBSET Pairs
    BY <1>2
  <2>2. Replay!WithEvidence(t, pair, id) \in [D \cup {pair} -> Nat \ {0}]
    BY <1>1, <1>2 DEF Replay!WithEvidence
  <2> QED BY <2>1, <2>2 DEF Tables
<1>3. ASSUME NEW pair \in Pairs
      PROVE  Replay!WithoutEvidence(t, pair) \in Tables
  <2>1. D \ {pair} \in SUBSET Pairs
    OBVIOUS
  <2>2. Replay!WithoutEvidence(t, pair) \in [D \ {pair} -> Nat \ {0}]
    BY <1>1 DEF Replay!WithoutEvidence
  <2> QED BY <2>1, <2>2 DEF Tables
<1>4. DOMAIN t = D /\ \A p \in D : t[p] \in Nat \ {0}
  BY <1>1
<1> QED BY <1>2, <1>3, <1>4

(* The token history r after a pair was added to s: the newest pairs.      *)
Pushed(s, pair, r) ==
  /\ r \in Seq(Pairs) /\ DOMAIN r = 1 .. Len(r) /\ Len(r) \in 1 .. MaxPairs
  /\ r[Len(r)] = pair
  /\ \A i \in 1 .. Len(r) - 1 :
        Len(s) - Len(r) + i + 1 \in DOMAIN s /\ r[i] = s[Len(s) - Len(r) + i + 1]

(* Remembering a pair pushes it.                                           *)
LEMMA RememberFacts ==
  ASSUME ReplayBounds, NEW s \in Seq(Pairs), NEW pair \in Pairs, Len(s) <= MaxPairs,
         NEW r, r = Replay!Remember(s, pair)
  PROVE  Pushed(s, pair, r)
<1>1. MaxPairs \in Nat \ {0}
  BY DEF ReplayBounds
<1> DEFINE all == Append(s, pair)
<1>2. /\ all \in Seq(Pairs) /\ Len(all) = Len(s) + 1 /\ DOMAIN all = 1 .. Len(s) + 1
      /\ \A i \in DOMAIN s : all[i] = s[i]
      /\ all[Len(s) + 1] = pair /\ DOMAIN s = 1 .. Len(s) /\ Len(s) \in Nat
  BY Appended
<1> HIDE DEF all
<1>3. Len(s) \in Nat /\ Len(all) = Len(s) + 1
  BY <1>2
<1>4. ASSUME ~ (Len(all) > MaxPairs)
      PROVE  Pushed(s, pair, r)
  <2>1. r = all
    BY <1>4 DEF Replay!Remember, all
  <2>2. Len(r) = Len(s) + 1 /\ Len(r) \in 1 .. MaxPairs
    BY ONLY <1>1, <1>3, <1>4, <2>1
  <2>3. ASSUME NEW i \in 1 .. Len(r) - 1
        PROVE  Len(s) - Len(r) + i + 1 \in DOMAIN s /\ r[i] = s[Len(s) - Len(r) + i + 1]
    <3>1. i \in 1 .. Len(s) /\ Len(s) - Len(r) + i + 1 = i
      BY ONLY <1>3, <2>2, <2>3
    <3> QED BY <1>2, <2>1, <3>1
  <2>4. \A i \in 1 .. Len(r) - 1 :
           Len(s) - Len(r) + i + 1 \in DOMAIN s /\ r[i] = s[Len(s) - Len(r) + i + 1]
    BY <2>3
  <2>5. r \in Seq(Pairs) /\ DOMAIN r = 1 .. Len(r) /\ r[Len(r)] = pair
    BY <1>2, <2>1
  <2> QED BY <2>2, <2>4, <2>5 DEF Pushed
<1>5. ASSUME Len(all) > MaxPairs
      PROVE  Pushed(s, pair, r)
  <2>1. r = Tail(all)
    BY <1>5 DEF Replay!Remember, all
  <2>2. /\ r \in Seq(Pairs) /\ Len(r) = Len(s) /\ DOMAIN r = 1 .. Len(s)
        /\ \A i \in 1 .. Len(s) : r[i] = all[i + 1]
    <3>1. all # << >>
      BY DEF all
    <3> QED BY <1>2, <2>1, <3>1, Shifted
  <2>3. Len(s) = MaxPairs /\ Len(r) \in 1 .. MaxPairs
    <3>1. Len(r) = Len(s)
      BY <2>2
    <3> QED BY ONLY <1>1, <1>3, <1>5, <3>1, Len(s) <= MaxPairs
  <2>4. ASSUME NEW i \in 1 .. Len(r) - 1
        PROVE  Len(s) - Len(r) + i + 1 \in DOMAIN s /\ r[i] = s[Len(s) - Len(r) + i + 1]
    <3>1. Len(r) = Len(s)
      BY <2>2
    <3>2. i \in 1 .. Len(s) /\ i + 1 \in 1 .. Len(s) /\ Len(s) - Len(r) + i + 1 = i + 1
      BY ONLY <1>3, <2>4, <3>1
    <3> QED BY <1>2, <2>2, <3>2
  <2>5. r[Len(r)] = pair
    <3>1. Len(s) \in 1 .. Len(s)
      BY ONLY <1>1, <2>3
    <3> QED BY <1>2, <2>2, <3>1
  <2>6. \A i \in 1 .. Len(r) - 1 :
           Len(s) - Len(r) + i + 1 \in DOMAIN s /\ r[i] = s[Len(s) - Len(r) + i + 1]
    BY <2>4
  <2>7. r \in Seq(Pairs) /\ DOMAIN r = 1 .. Len(r)
    BY <2>2
  <2> QED BY <2>3, <2>5, <2>6, <2>7 DEF Pushed
<1> QED BY <1>4, <1>5

(* The next value of the ring, and the values that are behind it.          *)
LEMMA NextInRing ==
  ASSUME Capacity \in Nat \ {0}, NEW v \in 0 .. (Capacity - 1)
  PROVE  (v + 1) % Capacity = IF v + 1 = Capacity THEN 0 ELSE v + 1
<1>1. CASE v + 1 = Capacity
  BY <1>1
<1>2. CASE v + 1 < Capacity
  BY <1>2
<1> QED BY <1>1, <1>2

(* Stepping back in the ring from the next value undoes a step forward.    *)
LEMMA RingSteps ==
  ASSUME Capacity \in Nat \ {0}, NEW v \in 0 .. (Capacity - 1), NEW next,
         next = IF v + 1 = Capacity THEN 0 ELSE v + 1
  PROVE  /\ Back(next, 1) = v
         /\ \A d \in 1 .. (Capacity - 1) : Back(v, d) # v /\ Back(next, d + 1) = Back(v, d)
BY DEF Back

(* How the events that bound a pair are counted when one more is known.    *)
LEMMA BoundNext ==
  ASSUME NEW h, NEW k \in Nat
  PROVE  /\ \A id : IsFiniteSet(Since(h, k, id))
         /\ h[k + 1].class \notin {"trigger", "safe"} =>
              Bound(h, k + 1) = Bound(h, k) /\ \A id : Since(h, k + 1, id) = Since(h, k, id)
         /\ h[k + 1].class \in {"trigger", "safe"} =>
              /\ k + 1 \in Bound(h, k + 1) /\ Bound(h, k) \subseteq Bound(h, k + 1)
              /\ Cardinality(Since(h, k + 1, k + 1)) = 1
              /\ \A id \in Bound(h, k) :
                    Cardinality(Since(h, k + 1, id)) = Cardinality(Since(h, k, id)) + 1
<1>1. ASSUME NEW id
      PROVE  IsFiniteSet(Since(h, k, id))
  <2>1. IsFiniteSet(1 .. k) /\ Since(h, k, id) \subseteq 1 .. k
    BY FS_Interval DEF Since, Bound
  <2> QED BY <2>1, FS_Subset
<1>2. ASSUME h[k + 1].class \notin {"trigger", "safe"}
      PROVE  Bound(h, k + 1) = Bound(h, k) /\ \A id : Since(h, k + 1, id) = Since(h, k, id)
  <2>1. Bound(h, k + 1) = Bound(h, k)
    BY <1>2 DEF Bound
  <2> QED BY <2>1 DEF Since
<1>3. ASSUME h[k + 1].class \in {"trigger", "safe"}
      PROVE  /\ k + 1 \in Bound(h, k + 1) /\ Bound(h, k) \subseteq Bound(h, k + 1)
             /\ Cardinality(Since(h, k + 1, k + 1)) = 1
             /\ \A id \in Bound(h, k) :
                   Cardinality(Since(h, k + 1, id)) = Cardinality(Since(h, k, id)) + 1
  <2>1. Bound(h, k + 1) = Bound(h, k) \cup {k + 1}
    BY <1>3 DEF Bound
  <2>2. \A i \in Bound(h, k) : i \in 1 .. k
    BY DEF Bound
  <2>3. Since(h, k + 1, k + 1) = {k + 1}
    BY <2>1, <2>2 DEF Since
  <2>4. Cardinality(Since(h, k + 1, k + 1)) = 1
    BY <2>3, FS_Singleton
  <2>5. ASSUME NEW id \in Bound(h, k)
        PROVE  Cardinality(Since(h, k + 1, id)) = Cardinality(Since(h, k, id)) + 1
    <3>1. Since(h, k + 1, id) = Since(h, k, id) \cup {k + 1}
      BY <2>1, <2>2, <2>5 DEF Since
    <3>2. k + 1 \notin Since(h, k, id)
      BY <2>2 DEF Since
    <3> QED BY <1>1, <3>1, <3>2, FS_AddElement
  <2> QED BY <2>1, <2>4, <2>5
<1> QED BY <1>1, <1>2, <1>3

(* A state with the next revision and a new sequence number.               *)
LEMMA Stamped ==
  ASSUME NEW st \in States, NEW id \in Nat, NEW m,
         m = [st EXCEPT !.last_sequence = id, !.revision = @ + 1]
  PROVE  m = [revision |-> st.revision + 1, last_sequence |-> id,
              next_value |-> st.next_value, evidence |-> st.evidence, pairs |-> st.pairs]
BY DEF States

(* What an event does with the state of a member.                          *)
LEMMA AdvanceFields ==
  ASSUME ReplayBounds, NEW st \in States, NEW e \in Replay!Events, NEW id \in Nat \ {0},
         Len(st.pairs) <= MaxPairs, NEW next, next = Replay!Advance(st, e, id)
  PROVE  LET pair == <<e.relation, st.next_value>>
         IN  /\ next \in States /\ pair \in Pairs
             /\ next.last_sequence = id /\ next.revision = st.revision + 1
             /\ e.class \in {"trigger", "safe", "query", "other"}
             /\ e.class \in {"query", "other"} =>
                  /\ next.evidence = st.evidence /\ next.pairs = st.pairs
                  /\ next.next_value = st.next_value
             /\ e.class \in {"trigger", "safe"} =>
                  /\ next.pairs = Replay!Remember(st.pairs, pair)
                  /\ next.next_value =
                        IF st.next_value + 1 = Capacity THEN 0 ELSE st.next_value + 1
             /\ e.class = "trigger" =>
                  /\ next.evidence = Replay!WithEvidence(st.evidence, pair, id)
                  /\ e = [class |-> "trigger", relation |-> pair[1]]
             /\ e.class = "safe" => next.evidence = Replay!WithoutEvidence(st.evidence, pair)
<1> DEFINE pair == <<e.relation, st.next_value>>
           moved == [st EXCEPT !.last_sequence = id, !.revision = @ + 1]
           successor == (st.next_value + 1) % Capacity
           history == Replay!Remember(st.pairs, pair)
           found == Replay!WithEvidence(st.evidence, pair, id)
           cleared == Replay!WithoutEvidence(st.evidence, pair)
<1>1. /\ st.next_value \in 0 .. (Capacity - 1) /\ st.pairs \in Seq(Pairs)
      /\ st.evidence \in Tables /\ st.revision \in Nat
  BY DEF States, Replay!Values
<1>2. /\ e.relation \in Relations /\ e.class \in {"trigger", "safe", "query", "other"}
      /\ e.class \in {"safe", "other"} => e.relation = Network
      /\ e.class = "trigger" => e = [class |-> "trigger", relation |-> e.relation]
  BY DEF Replay!Events, ReplayBounds
<1>3. pair \in Pairs /\ pair[1] = e.relation
  BY <1>1, <1>2 DEF Pairs, Replay!Values
<1>4. /\ successor = IF st.next_value + 1 = Capacity THEN 0 ELSE st.next_value + 1
      /\ successor \in Replay!Values
  <2>1. Capacity \in Nat \ {0}
    BY DEF ReplayBounds
  <2>2. successor = IF st.next_value + 1 = Capacity THEN 0 ELSE st.next_value + 1
    BY <1>1, <2>1, NextInRing
  <2> HIDE DEF successor
  <2>3. successor \in Replay!Values
    BY ONLY <1>1, <2>1, <2>2 DEF Replay!Values
  <2> QED BY <2>2, <2>3
<1>5. history \in Seq(Pairs) /\ found \in Tables /\ cleared \in Tables
  BY <1>1, <1>3, RememberFacts, TableFacts DEF Pushed
<1>6. /\ moved \in States /\ moved.last_sequence = id /\ moved.revision = st.revision + 1
      /\ moved.evidence = st.evidence /\ moved.pairs = st.pairs
      /\ moved.next_value = st.next_value
  <2>1. moved = [revision |-> st.revision + 1, last_sequence |-> id,
                 next_value |-> st.next_value, evidence |-> st.evidence, pairs |-> st.pairs]
    BY Stamped
  <2>2. st.revision + 1 \in Nat /\ id \in Nat /\ st.next_value \in Replay!Values
    BY <1>1 DEF Replay!Values
  <2> HIDE DEF moved
  <2> QED BY <1>1, <2>1, <2>2 DEF States
<1> HIDE DEF history, found, cleared, successor, moved
<1>7. CASE e.class \in {"query", "other"}
  <2>1. next = moved
    BY <1>7 DEF Replay!Advance, moved
  <2> QED BY <1>2, <1>3, <1>6, <1>7, <2>1
<1>8. CASE e.class = "trigger"
  <2>1. next = [moved EXCEPT !.next_value = successor, !.pairs = history, !.evidence = found]
    <3>1. Replay!Bind(moved, e.relation) =
             [moved EXCEPT !.next_value = successor, !.pairs = history]
      BY <1>6 DEF Replay!Bind, successor, history
    <3>2. next = [Replay!Bind(moved, e.relation) EXCEPT
                     !.evidence = Replay!WithEvidence(@, pair, id)]
      BY <1>8 DEF Replay!Advance, moved
    <3>3. [moved EXCEPT !.next_value = successor, !.pairs = history].evidence = st.evidence
      BY <1>6 DEF States
    <3> DEFINE b == Replay!Bind(moved, e.relation)
    <3>4. b.evidence = st.evidence
      BY <3>1, <3>3
    <3>5. next = [b EXCEPT !.evidence = found]
      BY <3>2, <3>4 DEF found
    <3> QED BY <1>6, <3>1, <3>5 DEF States
  <2>2. /\ next \in States /\ next.last_sequence = id /\ next.revision = st.revision + 1
        /\ next.evidence = found /\ next.pairs = history /\ next.next_value = successor
    BY <1>4, <1>5, <1>6, <2>1 DEF States
  <2> QED BY <1>2, <1>3, <1>4, <1>8, <2>2 DEF history, found
<1>9. CASE e.class = "safe"
  <2>1. next = [moved EXCEPT !.next_value = successor, !.pairs = history, !.evidence = cleared]
    <3>1. Replay!Bind(moved, Network) =
             [moved EXCEPT !.next_value = successor, !.pairs = history]
      BY <1>2, <1>6, <1>9 DEF Replay!Bind, successor, history
    <3>2. next = [Replay!Bind(moved, Network) EXCEPT
                     !.evidence = Replay!WithoutEvidence(@, pair)]
      BY <1>9 DEF Replay!Advance, moved
    <3>3. [moved EXCEPT !.next_value = successor, !.pairs = history].evidence = st.evidence
      BY <1>6 DEF States
    <3> DEFINE b == Replay!Bind(moved, Network)
    <3>4. b.evidence = st.evidence
      BY <3>1, <3>3
    <3>5. next = [b EXCEPT !.evidence = cleared]
      BY <3>2, <3>4 DEF cleared
    <3> QED BY <1>6, <3>1, <3>5 DEF States
  <2>2. /\ next \in States /\ next.last_sequence = id /\ next.revision = st.revision + 1
        /\ next.evidence = cleared /\ next.pairs = history /\ next.next_value = successor
    BY <1>4, <1>5, <1>6, <2>1 DEF States
  <2> QED BY <1>2, <1>3, <1>4, <1>9, <2>2 DEF history, cleared
<1> QED BY <1>2, <1>7, <1>8, <1>9

(* A state that remembers what it was fed still does after one more event. *)
LEMMA AdvanceRemembers ==
  ASSUME ReplayBounds, NEW st \in States, NEW h \in Seq(Replay!Events), Remembers(st, h),
         NEW k \in Nat, k = st.last_sequence + 1, k <= Len(h), NEW next,
         next = Replay!Advance(st, h[k], k)
  PROVE  next \in States /\ next.last_sequence = k /\ Remembers(next, h)
<1> DEFINE e == h[k]
           pair == <<e.relation, st.next_value>>
           last == st.last_sequence
           size == Len(st.pairs)
<1>1. /\ last \in Nat /\ last + 1 = k /\ Len(h) \in Nat /\ e \in Replay!Events /\ k \in Nat \ {0}
      /\ st.evidence \in Tables /\ st.pairs \in Seq(Pairs) /\ st.revision \in Nat
      /\ st.next_value \in 0 .. (Capacity - 1)
  <2>1. st.last_sequence \in Nat
    BY DEF States
  <2>2. Len(h) \in Nat /\ k \in 1 .. Len(h)
    BY <2>1
  <2>3. e \in Replay!Events
    BY <2>2
  <2> QED BY <2>1, <2>2, <2>3 DEF States, Replay!Values
<1>2. /\ size \in Nat /\ DOMAIN st.pairs = 1 .. size
      /\ \A i \in DOMAIN st.pairs : st.pairs[i] \in Pairs
  BY <1>1
<1>3. /\ st.revision = last /\ size <= MaxPairs
      /\ \A p \in DOMAIN st.evidence :
            st.evidence[p] \in 1 .. last
            /\ h[st.evidence[p]] = [class |-> "trigger", relation |-> p[1]]
      /\ \A i \in DOMAIN st.pairs :
            /\ st.pairs[i][2] = Back(st.next_value, size - i + 1)
            /\ \E id \in Nat : Names(st, h, i, id)
  BY DEF Remembers
<1>4. /\ next \in States /\ pair \in Pairs /\ next.last_sequence = k /\ next.revision = k
      /\ e.class \in {"trigger", "safe", "query", "other"}
      /\ e.class \in {"query", "other"} =>
            /\ next.evidence = st.evidence /\ next.pairs = st.pairs
            /\ next.next_value = st.next_value
      /\ e.class \in {"trigger", "safe"} =>
            /\ next.pairs = Replay!Remember(st.pairs, pair)
            /\ next.next_value = IF st.next_value + 1 = Capacity THEN 0 ELSE st.next_value + 1
      /\ e.class = "trigger" =>
            /\ next.evidence = Replay!WithEvidence(st.evidence, pair, k)
            /\ e = [class |-> "trigger", relation |-> pair[1]]
      /\ e.class = "safe" => next.evidence = Replay!WithoutEvidence(st.evidence, pair)
  BY <1>1, <1>3, AdvanceFields
<1> HIDE DEF e, pair, last, size
<1>5. CASE e.class \in {"query", "other"}
  <2>1. Bound(h, k) = Bound(h, last) /\ \A id : Since(h, k, id) = Since(h, last, id)
    <3>1. last \in Nat /\ last + 1 = k /\ h[last + 1].class \notin {"trigger", "safe"}
      BY <1>1, <1>5 DEF e
    <3>2. Bound(h, last + 1) = Bound(h, last) /\ \A id : Since(h, last + 1, id) = Since(h, last, id)
      BY ONLY <3>1, BoundNext
    <3> QED BY <3>1, <3>2
  <2>0. /\ next.evidence = st.evidence /\ next.pairs = st.pairs
        /\ next.next_value = st.next_value /\ next.last_sequence = k
    BY <1>4, <1>5
  <2>2. \A i \in DOMAIN next.pairs :
           /\ next.pairs[i][2] = Back(next.next_value, Len(next.pairs) - i + 1)
           /\ \E id \in Nat : Names(next, h, i, id)
    <3> SUFFICES ASSUME NEW i \in DOMAIN st.pairs
                 PROVE  /\ st.pairs[i][2] = Back(st.next_value, size - i + 1)
                        /\ \E id \in Nat : Names(next, h, i, id)
      BY <2>0 DEF size
    <3>1. PICK id \in Nat : Names(st, h, i, id)
      BY <1>3
    <3>2. Names(next, h, i, id)
      BY <2>0, <2>1, <3>1 DEF Names, last
    <3> QED BY <1>3, <3>2
  <2>3. \A p \in DOMAIN next.evidence :
           next.evidence[p] \in 1 .. k
           /\ h[next.evidence[p]] = [class |-> "trigger", relation |-> p[1]]
    <3>1. 1 .. last \subseteq 1 .. k
      BY <1>1
    <3> QED BY <1>3, <2>0, <3>1
  <2> QED BY <1>1, <1>3, <1>4, <2>0, <2>2, <2>3 DEF Remembers, size
<1>6. CASE e.class \in {"trigger", "safe"}
  <2>1. /\ next.pairs \in Seq(Pairs) /\ DOMAIN next.pairs = 1 .. Len(next.pairs)
        /\ Len(next.pairs) \in 1 .. MaxPairs /\ next.pairs[Len(next.pairs)] = pair
        /\ \A i \in 1 .. Len(next.pairs) - 1 :
              LET o == size - Len(next.pairs) + i + 1
              IN  o \in DOMAIN st.pairs /\ next.pairs[i] = st.pairs[o]
    <3>1. /\ next.pairs = Replay!Remember(st.pairs, pair) /\ pair \in Pairs
          /\ st.pairs \in Seq(Pairs) /\ Len(st.pairs) <= MaxPairs
      BY <1>1, <1>3, <1>4, <1>6 DEF size
    <3>2. Pushed(st.pairs, pair, next.pairs)
      BY <3>1, RememberFacts
    <3> QED BY <3>2 DEF Pushed, size
  <2>2. /\ k \in Bound(h, k) /\ Bound(h, last) \subseteq Bound(h, k)
        /\ Cardinality(Since(h, k, k)) = 1
        /\ \A id \in Bound(h, last) :
              Cardinality(Since(h, k, id)) = Cardinality(Since(h, last, id)) + 1
    BY <1>1, <1>6, BoundNext DEF e
  <2>3. /\ Capacity \in Nat \ {0} /\ MaxPairs \in 1 .. Capacity
        /\ Len(next.pairs) \in Nat
    BY <2>1 DEF ReplayBounds
  <2>4. /\ Back(next.next_value, 1) = st.next_value
        /\ \A d \in 1 .. (Capacity - 1) :
              /\ Back(st.next_value, d) # st.next_value
              /\ Back(next.next_value, d + 1) = Back(st.next_value, d)
    <3>1. /\ st.next_value \in 0 .. (Capacity - 1) /\ Capacity \in Nat \ {0}
          /\ next.next_value = IF st.next_value + 1 = Capacity THEN 0 ELSE st.next_value + 1
      BY <1>1, <1>4, <1>6, <2>3
    <3> QED BY ONLY <3>1, RingSteps
  <2>5. /\ \A p \in Pairs : p # pair =>
              Replay!Lookup(next.evidence, p) = Replay!Lookup(st.evidence, p)
        /\ Replay!Lookup(next.evidence, pair) =
              IF e.class = "trigger" THEN k ELSE Replay!NoEvidence
        /\ \A p \in DOMAIN next.evidence :
              next.evidence[p] \in 1 .. k
              /\ h[next.evidence[p]] = [class |-> "trigger", relation |-> p[1]]
    <3>1. CASE e.class = "trigger"
      <4>1. next.evidence = [p \in DOMAIN st.evidence \cup {pair} |->
                                IF p = pair THEN k ELSE st.evidence[p]]
        BY <1>4, <3>1 DEF Replay!WithEvidence
      <4>2. h[k] = [class |-> "trigger", relation |-> pair[1]]
        BY <1>4, <3>1 DEF e
      <4> QED BY <1>1, <1>3, <3>1, <4>1, <4>2 DEF Replay!Lookup
    <3>2. CASE e.class = "safe"
      <4>1. next.evidence = [p \in DOMAIN st.evidence \ {pair} |-> st.evidence[p]]
        BY <1>4, <3>2 DEF Replay!WithoutEvidence
      <4> QED BY <1>1, <1>3, <3>2, <4>1 DEF Replay!Lookup
    <3> QED BY <1>6, <3>1, <3>2
  <2>6. ASSUME NEW i \in DOMAIN next.pairs
        PROVE  /\ next.pairs[i][2] = Back(next.next_value, Len(next.pairs) - i + 1)
               /\ \E id \in Nat : Names(next, h, i, id)
    <3>1. CASE i = Len(next.pairs)
      <4>1. Len(next.pairs) - i + 1 = 1
        BY <2>3, <3>1
      <4>2. next.pairs[i][2] = Back(next.next_value, 1)
        BY <2>1, <2>4, <3>1 DEF pair
      <4>3. Names(next, h, i, k)
        BY <1>4, <2>1, <2>2, <2>5, <3>1, <4>1 DEF Names, e
      <4> QED BY <4>1, <4>2, <4>3
    <3>2. CASE i # Len(next.pairs)
      <4>1. i \in 1 .. Len(next.pairs) - 1 /\ i \in Nat
        BY <2>1, <2>3, <3>2
      <4> DEFINE o == size - Len(next.pairs) + i + 1
                 d == size - o + 1
      <4>2. o \in DOMAIN st.pairs /\ next.pairs[i] = st.pairs[o]
        BY <2>1, <4>1
      <4>3. d \in 1 .. (Capacity - 1) /\ Len(next.pairs) - i + 1 = d + 1
        <5> DEFINE L == Len(next.pairs)
        <5>1. size \in Nat /\ Capacity \in Nat /\ L \in 1 .. Capacity /\ i \in 1 .. L - 1
          <6>1. L \in 1 .. MaxPairs
            BY <2>1
          <6> QED BY ONLY <1>2, <2>3, <4>1, <6>1
        <5>2. d = size - (size - L + i + 1) + 1
          OBVIOUS
        <5> HIDE DEF L, d
        <5>3. d \in 1 .. (Capacity - 1) /\ L - i + 1 = d + 1
          BY ONLY <5>1, <5>2
        <5> QED BY <5>3 DEF L
      <4> HIDE DEF o
      <4>4. st.pairs[o][2] = Back(st.next_value, d) /\ \E id \in Nat : Names(st, h, o, id)
        BY <1>3, <4>2
      <4> HIDE DEF d
      <4>5. next.pairs[i][2] = Back(next.next_value, Len(next.pairs) - i + 1)
        BY <2>4, <4>2, <4>3, <4>4
      <4>6. PICK id \in Nat : Names(st, h, o, id)
        BY <4>4
      <4>7. /\ id \in Bound(h, last) /\ Cardinality(Since(h, last, id)) = d
            /\ Replay!Lookup(st.evidence, st.pairs[o]) =
                  IF h[id].class = "trigger" THEN id ELSE Replay!NoEvidence
        BY <4>6 DEF Names, last, size, d
      <4>8. st.pairs[o] \in Pairs /\ st.pairs[o] # pair
        <5>1. st.pairs[o][2] # st.next_value /\ pair[2] = st.next_value
          BY <2>4, <4>3, <4>4 DEF pair
        <5> QED BY <1>2, <4>2, <5>1
      <4>9. Names(next, h, i, id)
        BY <1>4, <2>2, <2>5, <4>2, <4>3, <4>7, <4>8 DEF Names
      <4> QED BY <4>5, <4>9
    <3> QED BY <3>1, <3>2
  <2>7. Len(next.pairs) <= MaxPairs
    BY <2>1, <2>3
  <2> QED BY <1>1, <1>4, <2>5, <2>6, <2>7 DEF Remembers
<1> QED BY <1>4, <1>5, <1>6

(* What a state remembers does not depend on the events after it.          *)
LEMMA RemembersLonger ==
  ASSUME NEW st \in States, NEW h, NEW longer, Remembers(st, h), Len(h) \in Nat,
         Len(longer) \in Nat, Len(h) <= Len(longer), \A i \in 1 .. Len(h) : longer[i] = h[i]
  PROVE  Remembers(st, longer)
<1>1. st.last_sequence \in Nat /\ st.last_sequence <= Len(h)
  BY DEF States, Remembers
<1>2. \A i \in 1 .. st.last_sequence : longer[i] = h[i]
  BY <1>1
<1>3. Bound(longer, st.last_sequence) = Bound(h, st.last_sequence)
  BY <1>2 DEF Bound
<1>4. ASSUME NEW i, NEW id, Names(st, h, i, id)
      PROVE  Names(st, longer, i, id)
  <2>1. longer[id] = h[id]
    BY <1>2, <1>4 DEF Names, Bound
  <2> QED BY <1>3, <1>4, <2>1 DEF Names, Since
<1>5. \A p \in DOMAIN st.evidence :
         /\ st.evidence[p] \in 1 .. st.last_sequence
         /\ longer[st.evidence[p]] = [class |-> "trigger", relation |-> p[1]]
  <2> SUFFICES ASSUME NEW p \in DOMAIN st.evidence
               PROVE  /\ st.evidence[p] \in 1 .. st.last_sequence
                      /\ longer[st.evidence[p]] = [class |-> "trigger", relation |-> p[1]]
    OBVIOUS
  <2>1. /\ st.evidence[p] \in 1 .. st.last_sequence
        /\ h[st.evidence[p]] = [class |-> "trigger", relation |-> p[1]]
    BY DEF Remembers
  <2> QED BY <1>2, <2>1
<1> QED BY <1>1, <1>4, <1>5 DEF Remembers

(* The standard count is the one the replay uses.                          *)
LEMMA SameReplayCount ==
  ASSUME NEW S
  PROVE  Replay!Cardinality(S) = Cardinality(S)
BY DEF Replay!Cardinality, Cardinality

(* What a member answers to the event it was last fed.                     *)
LEMMA CausalAnswer ==
  ASSUME ReplayBounds, NEW h \in Seq(Replay!Events), NEW st \in States, Remembers(st, h),
         NEW k \in 1 .. Len(h), st.last_sequence = k, NEW v, NEW yes,
         NEW r, r = Replay!Confident(Replay!Result(st, h[k], v), yes)
  PROVE  Causal(r, h, k) /\ r.confident = yes
<1> DEFINE e == h[k]
           result == Replay!Result(st, e, v)
           selected == Replay!Selected(st, e, v)
<1>1. e \in Replay!Events /\ k \in Nat
  OBVIOUS
<1>2. e.class = "query" => e = [class |-> "query", relation |-> e.relation]
  BY <1>1 DEF Replay!Events
<1>3. selected # Replay!NoEvidence =>
         /\ e.class = "query" /\ selected \in 1 .. k /\ selected < k
         /\ h[selected].class = "trigger"
         /\ e = [class |-> "query", relation |-> h[selected].relation]
  <2> SUFFICES ASSUME selected # Replay!NoEvidence
               PROVE  /\ e.class = "query" /\ selected \in 1 .. k /\ selected < k
                      /\ h[selected].class = "trigger"
                      /\ e = [class |-> "query", relation |-> h[selected].relation]
    OBVIOUS
  <2> DEFINE p == <<e.relation, v>>
  <2>1. e.class = "query" /\ selected = Replay!Lookup(st.evidence, p)
    BY DEF Replay!Selected
  <2>2. p \in DOMAIN st.evidence /\ selected = st.evidence[p]
    BY <2>1 DEF Replay!Lookup
  <2>3. selected \in 1 .. k /\ h[selected] = [class |-> "trigger", relation |-> e.relation]
    BY <2>2 DEF Remembers
  <2> HIDE DEF selected
  <2>4. h[selected].class = "trigger" /\ h[selected].relation = e.relation
    BY <2>3
  <2>5. selected # k
    BY <2>1, <2>4
  <2> QED BY <1>1, <1>2, <2>1, <2>3, <2>4, <2>5
<1>4. /\ result.effect = (IF selected # Replay!NoEvidence THEN "DENY" ELSE "ALLOW")
      /\ result.evidence = {selected} \ {Replay!NoEvidence} /\ result.revision = st.revision
      /\ DOMAIN result = {"effect", "evidence", "revision", "inferred"}
  BY DEF Replay!Result
<1> HIDE DEF e, result, selected
<1>5. /\ r.effect = result.effect /\ r.evidence = result.evidence
      /\ r.revision = result.revision /\ r.confident = yes
  BY <1>4 DEF Replay!Confident, result, e
<1>6. r.revision = k
  BY <1>4, <1>5 DEF Remembers
<1> QED BY <1>3, <1>4, <1>5, <1>6 DEF Causal, e

(* An event is fed: it is added to the history if it is the next one.      *)
Feeds(e) ==
  /\ phase = "replay" /\ phase' = "members" /\ handled < ReplayEvents
  /\ event' = e /\ results' = << >> /\ e \in Replay!Events
  /\ trajectory' = [trajectory EXCEPT !.length = @ + 1]
  /\ UNCHANGED <<memory, combined, audit, cached, handled, confusion>>
  /\ \E m \in Members :
        past' = IF trajectory.length = memory[m][trajectory.ns].last_sequence
                THEN [past EXCEPT ![trajectory.ns] = Append(@, e)] ELSE past

(* Feed feeds an event to the namespace of the trajectory.                 *)
LEMMA FeedStep ==
  ASSUME ReplayTypes, ReplayBounds, NEW e \in Replay!Events, Replay!Feed(e)
  PROVE  Feeds(e)
<1> DEFINE m == CHOOSE m \in Members : TRUE
           st == memory[m][trajectory.ns]
<1>1. m \in Members
  BY DEF ReplayBounds
<1> HIDE DEF m
<1>2. st.last_sequence \in Nat /\ trajectory.length \in Nat
  BY <1>1 DEF ReplayTypes, States
<1>3. past' = IF trajectory.length + 1 = st.last_sequence + 1
              THEN [past EXCEPT ![trajectory.ns] = Append(@, e)] ELSE past
  BY DEF Replay!Feed, m
<1> HIDE DEF st
<1>4. past' = IF trajectory.length = st.last_sequence
              THEN [past EXCEPT ![trajectory.ns] = Append(@, e)] ELSE past
  BY <1>2, <1>3
<1>5. /\ phase = "replay" /\ phase' = "members" /\ handled < ReplayEvents
      /\ event' = e /\ results' = << >>
      /\ trajectory' = [trajectory EXCEPT !.length = @ + 1]
      /\ UNCHANGED <<memory, combined, audit, cached, handled, confusion>>
  BY DEF Replay!Feed, Replay!NoResults, Replay!outcome
<1> QED BY <1>1, <1>4, <1>5 DEF Feeds, st

(* The histories after an event was fed.                                   *)
LEMMA HistoryStep ==
  ASSUME ReplayTypes, NEW e \in Replay!Events, Feeds(e)
  PROVE  /\ past' \in [ReplayNamespaces -> Seq(Replay!Events)]
         /\ \A n \in ReplayNamespaces :
               /\ n # trajectory.ns => past'[n] = past[n]
               /\ Len(past[n]) \in Nat /\ Len(past'[n]) \in Nat /\ Len(past[n]) <= Len(past'[n])
               /\ \A i \in 1 .. Len(past[n]) : past'[n][i] = past[n][i]
         /\ \/ past' = past
            \/ LET n == trajectory.ns
               IN  Len(past'[n]) = Len(past[n]) + 1 /\ past'[n][Len(past[n]) + 1] = e
<1> DEFINE n == trajectory.ns
           h == past[n]
<1>1. n \in ReplayNamespaces /\ past \in [ReplayNamespaces -> Seq(Replay!Events)]
  BY DEF ReplayTypes
<1>2. \A k \in ReplayNamespaces : past[k] \in Seq(Replay!Events) /\ Len(past[k]) \in Nat
  BY <1>1
<1>3. h \in Seq(Replay!Events)
  BY <1>1, <1>2
<1>4. past' = past \/ past' = [past EXCEPT ![n] = Append(h, e)]
  BY DEF Feeds
<1>5. CASE past' = past
  BY <1>1, <1>2, <1>5
<1>6. CASE past' = [past EXCEPT ![n] = Append(h, e)]
  <2> DEFINE r == Append(h, e)
  <2>1. /\ r \in Seq(Replay!Events) /\ Len(r) = Len(h) + 1
        /\ \A i \in 1 .. Len(h) : r[i] = h[i]
        /\ r[Len(h) + 1] = e /\ Len(h) \in Nat
    BY <1>3, Appended
  <2> HIDE DEF r, h
  <2>2. past' = [past EXCEPT ![n] = r]
    BY <1>6 DEF r
  <2> HIDE DEF n
  <2>3. /\ past' \in [ReplayNamespaces -> Seq(Replay!Events)] /\ past'[n] = r
        /\ \A k \in ReplayNamespaces : k # n => past'[k] = past[k]
    BY <1>1, <2>1, <2>2
  <2>4. Len(past[n]) = Len(h) /\ \A i : past[n][i] = h[i]
    BY DEF h
  <2>5. \A k \in ReplayNamespaces :
           /\ k # n => past'[k] = past[k]
           /\ Len(past[k]) \in Nat /\ Len(past'[k]) \in Nat /\ Len(past[k]) <= Len(past'[k])
           /\ \A i \in 1 .. Len(past[k]) : past'[k][i] = past[k][i]
    <3> SUFFICES ASSUME NEW k \in ReplayNamespaces
                 PROVE  /\ k # n => past'[k] = past[k]
                        /\ Len(past[k]) \in Nat /\ Len(past'[k]) \in Nat
                        /\ Len(past[k]) <= Len(past'[k])
                        /\ \A i \in 1 .. Len(past[k]) : past'[k][i] = past[k][i]
      OBVIOUS
    <3>1. CASE k = n
      BY <2>1, <2>3, <2>4, <3>1
    <3>2. CASE k # n
      BY <1>2, <2>3, <3>2
    <3> QED BY <3>1, <3>2
  <2> QED BY <2>1, <2>3, <2>4, <2>5 DEF n
<1> QED BY <1>4, <1>5, <1>6

(* A member answers: out of order, or one event ahead.                     *)
Answers(m) ==
  LET n == trajectory.ns
      st == memory[m][n]
      next == Replay!Advance(st, event, trajectory.length)
  IN  /\ phase = "members" /\ m \notin DOMAIN results
      /\ UNCHANGED <<phase, trajectory, event, combined, past, audit, cached, handled, confusion>>
      /\ \E v, yes :
           \/ /\ trajectory.length # st.last_sequence + 1 /\ UNCHANGED memory
              /\ Replay!With(m, Replay!Confident(Replay!Gap(st), yes))
           \/ /\ trajectory.length = st.last_sequence + 1
              /\ memory' = [memory EXCEPT ![m][n] = next]
              /\ Replay!With(m, Replay!Confident(Replay!Result(next, event, v), yes))

(* What a step of the replay does, by the variables it writes.             *)
LEMMA ReplayMoves ==
  ASSUME ReplayTypes, Replay!Next, ReplayBounds
  PROVE  \/ Replay!Refuse \/ Replay!Start
         \/ \E n \in ReplayNamespaces, malicious \in BOOLEAN : Replay!Begin(n, malicious)
         \/ \E e \in Replay!Events : Feeds(e)
         \/ \E m \in Members : Answers(m)
         \/ \E m \in Members : Replay!MemberRaises(m)
         \/ Replay!Combine
         \/ \E last \in BOOLEAN : Replay!Gate3Answers(last)
         \/ Replay!Gate3Stops
         \/ \E written \in {audit, audit - 1}, status \in {0, 1} : Replay!Finish(written, status)
         \/ Replay!Stopped
<1>1. ASSUME NEW m \in Members, NEW v \in Replay!Predictions, NEW c \in BOOLEAN,
             Replay!MemberUpdate(m, v, c)
      PROVE  Answers(m)
  BY <1>1 DEF Replay!MemberUpdate, Replay!Turn, Replay!outcome, Answers
<1> QED BY <1>1, FeedStep DEF Replay!Next

(* A member's tables after it has answered.                                *)
LEMMA AnswerStep ==
  ASSUME ReplayTypes, Remembered, Together, ReplayBounds, NEW m \in Members, Answers(m)
  PROVE  /\ memory' \in [Members -> [ReplayNamespaces -> States]]
         /\ \A k \in Members, n \in ReplayNamespaces :
               \/ memory'[k][n] = memory[k][n]
               \/ /\ k = m /\ n = trajectory.ns
                  /\ memory'[k][n] = Replay!Advance(memory[k][n], event, trajectory.length)
                  /\ Remembers(memory'[k][n], past[n])
                  /\ trajectory.length \in 1 .. Len(past[n])
                  /\ memory'[k][n].last_sequence = trajectory.length
<1> DEFINE n == trajectory.ns
           st == memory[m][n]
           next == Replay!Advance(st, event, trajectory.length)
<1>1. /\ n \in ReplayNamespaces /\ st \in States /\ trajectory.length \in Nat
      /\ past[n] \in Seq(Replay!Events) /\ Remembers(st, past[n])
      /\ memory \in [Members -> [ReplayNamespaces -> States]]
  BY DEF ReplayTypes, Remembered
<1>2. CASE memory' = memory
  BY <1>1, <1>2
<1>3. ASSUME memory' # memory
      PROVE  /\ trajectory.length = st.last_sequence + 1
             /\ memory' = [memory EXCEPT ![m][n] = next]
  BY <1>3 DEF Answers
<1>4. ASSUME memory' # memory
      PROVE  /\ next \in States /\ next.last_sequence = trajectory.length
             /\ Remembers(next, past[n]) /\ trajectory.length \in 1 .. Len(past[n])
  <2>1. Admitted(memory, past, trajectory, event, results)
    <3>1. phase = "members"
      BY DEF Answers
    <3>2. ~Refused(memory, past, trajectory, results)
      BY <1>3, <1>4 DEF Refused
    <3> QED BY <3>1, <3>2 DEF Together
  <2>2. Len(past[n]) = trajectory.length /\ past[n][trajectory.length] = event
    BY <2>1 DEF Admitted
  <2>3. st.last_sequence \in Nat
    BY <1>1 DEF States
  <2> HIDE DEF st, n
  <2>4. trajectory.length \in 1 .. Len(past[n])
    BY <1>1, <1>3, <1>4, <2>2, <2>3
  <2> QED BY <1>1, <1>3, <1>4, <2>2, <2>3, <2>4, AdvanceRemembers
<1>5. CASE memory' # memory
  <2> HIDE DEF next, st
  <2>1. memory' = [memory EXCEPT ![m] = [memory[m] EXCEPT ![n] = next]]
    BY <1>3, <1>5
  <2>2. memory'[m][n] = next
    BY <1>1, <2>1
  <2>3. \A k \in Members, j \in ReplayNamespaces :
           memory'[k][j] = memory[k][j] \/ (k = m /\ j = n)
    BY <1>1, <2>1
  <2>4. memory' \in [Members -> [ReplayNamespaces -> States]]
    BY <1>1, <1>4, <1>5, <2>1
  <2> QED BY <1>4, <1>5, <2>2, <2>3, <2>4 DEF next, st
<1> QED BY <1>2, <1>5

(* The confusion table after an answer: one column is one higher, for the  *)
(* last event of a trajectory, or none is.                                 *)
LEMMA Counting ==
  ASSUME confusion \in [Outcomes -> Nat], NEW last \in BOOLEAN, Replay!Gate3Answers(last)
  PROVE  /\ confusion' \in [Outcomes -> Nat]
         /\ phase' = IF last THEN "between" ELSE "replay"
         /\ last => \E c \in Outcomes : confusion' = [confusion EXCEPT ![c] = confusion[c] + 1]
         /\ ~last => confusion' = confusion
<1> DEFINE effect == Replay!Gate3Effect(combined, \A m \in Members : results[m].confident,
                                        trajectory.length)
           c == Replay!Column(trajectory.malicious, effect)
<1>1. c \in Outcomes
  BY DEF Replay!Column, Outcomes
<1>2. confusion' = IF last THEN [confusion EXCEPT ![c] = confusion[c] + 1] ELSE confusion
  BY DEF Replay!Gate3Answers
<1> HIDE DEF c, effect
<1>3. confusion[c] + 1 \in Nat
  BY <1>1
<1>4. phase' = IF last THEN "between" ELSE "replay"
  BY DEF Replay!Gate3Answers
<1> QED BY <1>1, <1>2, <1>3, <1>4

(* The types of the variables of the replay.                               *)
LEMMA ReplayTypesStep ==
  ASSUME ReplayInv, Replay!Next, ReplayBounds
  PROVE  ReplayTypes'
<1> USE DEF ReplayTypes, Replay!Ended
<1>0. ReplayTypes /\ Remembered /\ Together /\ Tallied
  BY DEF ReplayInv
<1>1. CASE Replay!Refuse
  BY <1>0, <1>1 DEF Replay!Refuse, Replay!replay, Replay!outcome
<1>2. CASE Replay!Start
  BY <1>0, <1>2 DEF Replay!Start, Replay!replay
<1>3. ASSUME NEW n \in ReplayNamespaces, NEW malicious \in BOOLEAN, Replay!Begin(n, malicious)
      PROVE  ReplayTypes'
  BY <1>0, <1>3 DEF Replay!Begin, Replay!outcome
<1>4. ASSUME NEW e \in Replay!Events, Feeds(e)
      PROVE  ReplayTypes'
  <2>1. past' \in [ReplayNamespaces -> Seq(Replay!Events)]
    BY <1>0, <1>4, HistoryStep
  <2>2. trajectory' \in [ns : ReplayNamespaces, malicious : BOOLEAN, length : Nat, count : Nat]
    <3>1. trajectory' = [trajectory EXCEPT !.length = trajectory.length + 1]
      BY <1>4 DEF Feeds
    <3>2. trajectory.length + 1 \in Nat
      BY <1>0
    <3> QED BY <1>0, <3>1, <3>2
  <2> QED BY <1>0, <1>4, <2>1, <2>2 DEF Feeds
<1>5. ASSUME NEW m \in Members, Answers(m)
      PROVE  ReplayTypes'
  <2>1. memory' \in [Members -> [ReplayNamespaces -> States]]
    BY <1>0, <1>5, AnswerStep
  <2>2. DOMAIN results' \subseteq Members
    <3>1. PICK r : Replay!With(m, r)
      BY <1>5 DEF Answers
    <3>2. DOMAIN results' = DOMAIN results \cup {m}
      BY <3>1 DEF Replay!With
    <3> QED BY <1>0, <3>2
  <2> QED BY <1>0, <1>5, <2>1, <2>2 DEF Answers
<1>6. ASSUME NEW m \in Members, Replay!MemberRaises(m)
      PROVE  ReplayTypes'
  BY <1>0, <1>6 DEF Replay!MemberRaises, Replay!replay, Replay!outcome
<1>7. CASE Replay!Combine
  BY <1>0, <1>7 DEF Replay!Combine, Replay!outcome
<1>8. ASSUME NEW last \in BOOLEAN, Replay!Gate3Answers(last)
      PROVE  ReplayTypes'
  <2>1. handled < ReplayEvents
    BY <1>0, <1>8 DEF Replay!Gate3Answers, Tallied
  <2>2. audit' \in Nat /\ handled' \in 0 .. ReplayEvents
    BY <1>0, <1>8, <2>1 DEF Replay!Gate3Answers, ReplayBounds
  <2>3. confusion' \in [Outcomes -> Nat]
    BY <1>0, <1>8, Counting
  <2>4. phase' \in {"between", "replay"} /\ UNCHANGED <<memory, trajectory, event, results, past>>
    BY <1>8 DEF Replay!Gate3Answers, Replay!replay
  <2> QED BY <1>0, <2>2, <2>3, <2>4
<1>9. CASE Replay!Gate3Stops
  BY <1>0, <1>9 DEF Replay!Gate3Stops, Replay!replay
<1>10. ASSUME NEW written \in {audit, audit - 1}, NEW status \in {0, 1},
              Replay!Finish(written, status)
       PROVE  ReplayTypes'
  <2>1. audit = handled /\ handled > 0
    BY <1>0, <1>10 DEF Replay!Finish, Tallied
  <2>2. audit' \in Nat
    BY <1>0, <1>10, <2>1 DEF Replay!Finish
  <2> QED BY <1>0, <1>10, <2>2 DEF Replay!Finish, Replay!replay
<1>11. CASE Replay!Stopped
  BY <1>0, <1>11 DEF Replay!Stopped, Replay!vars
<1> QED BY <1>0, <1>1, <1>2, <1>3, <1>4, <1>5, <1>6, <1>7, <1>8, <1>9, <1>10, <1>11, ReplayMoves

(* Every state remembers what it was fed.                                  *)
LEMMA RememberedStep ==
  ASSUME ReplayInv, Replay!Next, ReplayBounds
  PROVE  Remembered'
<1>0. ReplayTypes /\ Remembered /\ Together
  BY DEF ReplayInv
<1>1. CASE UNCHANGED <<memory, past>>
  BY <1>0, <1>1 DEF Remembered
<1>2. ASSUME NEW e \in Replay!Events, Feeds(e)
      PROVE  Remembered'
  <2>1. memory' = memory
    BY <1>2 DEF Feeds
  <2> SUFFICES ASSUME NEW m \in Members, NEW n \in ReplayNamespaces
               PROVE  Remembers(memory[m][n], past'[n])
    BY <2>1 DEF Remembered
  <2>2. Remembers(memory[m][n], past[n]) /\ memory[m][n] \in States
    BY <1>0 DEF Remembered, ReplayTypes
  <2> QED BY <1>0, <1>2, <2>2, HistoryStep, RemembersLonger
<1>3. ASSUME NEW m \in Members, Answers(m)
      PROVE  Remembered'
  <2>1. past' = past
    BY <1>3 DEF Answers
  <2> QED BY <1>0, <1>3, <2>1, AnswerStep DEF Remembered
<1>4. UNCHANGED <<memory, past>> \/ (\E e \in Replay!Events : Feeds(e))
         \/ (\E m \in Members : Answers(m))
  BY <1>0, ReplayMoves DEF Replay!Refuse, Replay!Start, Replay!Begin, Replay!MemberRaises,
       Replay!Combine, Replay!Gate3Answers, Replay!Gate3Stops, Replay!Finish, Replay!Stopped,
       Replay!vars, Replay!replay
<1> QED BY <1>1, <1>2, <1>3, <1>4

(* The members hold the same tables, or some are one event ahead.          *)
LEMMA TogetherFed ==
  ASSUME ReplayInv, ReplayBounds, NEW e \in Replay!Events, Feeds(e)
  PROVE  Together'
<1> DEFINE n == trajectory.ns
<1>1. /\ ReplayTypes /\ n \in ReplayNamespaces /\ trajectory.length \in Nat
      /\ \A m \in Members, k \in ReplayNamespaces :
            memory[m][k] \in States /\ Remembers(memory[m][k], past[k])
  BY DEF ReplayInv, ReplayTypes, Remembered
<1>2. \A k \in ReplayNamespaces : InStep(memory, past, k)
  BY DEF ReplayInv, Together, Feeds
<1>3. /\ trajectory'.ns = n /\ trajectory'.length = trajectory.length + 1 /\ memory' = memory
      /\ event' = e /\ DOMAIN results' = {} /\ phase' = "members"
  BY DEF Feeds, ReplayInv, ReplayTypes
<1>4. \A k \in ReplayNamespaces : k # n => InStep(memory, past', k)
  BY <1>1, <1>2, HistoryStep DEF InStep
<1>5. PICK m \in Members :
          past' = IF trajectory.length = memory[m][n].last_sequence
                  THEN [past EXCEPT ![n] = Append(@, e)] ELSE past
  BY DEF Feeds
<1> DEFINE st == memory[m][n]
<1>6. /\ st \in States /\ Remembers(st, past[n]) /\ st.last_sequence = Len(past[n])
      /\ \A k \in Members : memory[k][n] = st
      /\ Len(past[n]) \in Nat
  BY <1>1, <1>2 DEF InStep, ReplayTypes
<1> HIDE DEF n, st
<1>7. CASE trajectory.length = st.last_sequence
  <2>1. Len(past'[n]) = Len(past[n]) + 1 /\ past'[n][Len(past[n]) + 1] = e
    <3>1. past' = [past EXCEPT ![n] = Append(past[n], e)] /\ past[n] \in Seq(Replay!Events)
          /\ past \in [ReplayNamespaces -> Seq(Replay!Events)]
      BY <1>1, <1>5, <1>7 DEF st, ReplayTypes
    <3>2. past'[n] = Append(past[n], e)
      BY <1>1, <3>1
    <3> QED BY <3>1, <3>2, Appended
  <2>2. Remembers(st, past'[n])
    BY <1>1, <1>6, HistoryStep, RemembersLonger
  <2>3. /\ trajectory'.length = Len(past'[n]) /\ past'[n][trajectory'.length] = e
        /\ st.last_sequence + 1 = trajectory'.length
    BY <1>3, <1>6, <1>7, <2>1
  <2>4. Admitted(memory, past', trajectory', e, results')
    BY <1>3, <1>6, <2>2, <2>3 DEF Admitted
  <2> QED BY <1>3, <1>4, <2>4 DEF Together
<1>8. CASE trajectory.length # st.last_sequence
  <2>1. past' = past
    BY <1>5, <1>8 DEF st
  <2>2. \A k \in Members : memory[k][n].last_sequence + 1 # trajectory'.length
    <3>1. st.last_sequence \in Nat
      BY <1>6 DEF States
    <3> QED BY <1>1, <1>3, <1>6, <1>8, <3>1
  <2>3. Refused(memory, past, trajectory', results')
    BY <1>1, <1>2, <1>3, <2>2 DEF Refused
  <2> QED BY <1>3, <1>4, <2>1, <2>3 DEF Together
<1> QED BY <1>7, <1>8

(* The answer of one member keeps the members together.                    *)
LEMMA TogetherAnswered ==
  ASSUME ReplayInv, ReplayBounds, NEW m \in Members, Answers(m)
  PROVE  Together'
<1> DEFINE n == trajectory.ns
           st == memory[m][n]
           next == Replay!Advance(st, event, trajectory.length)
<1>1. /\ ReplayTypes /\ Remembered /\ Together /\ n \in ReplayNamespaces /\ st \in States
      /\ Remembers(st, past[n]) /\ past[n] \in Seq(Replay!Events)
  BY DEF ReplayInv, ReplayTypes, Remembered
<1>2. /\ phase = "members" /\ m \notin DOMAIN results
      /\ UNCHANGED <<phase, trajectory, event, combined, past>>
  BY DEF Answers
<1>3. \A k \in ReplayNamespaces : k # n => InStep(memory', past, k)
  <2>1. \A j \in Members, k \in ReplayNamespaces : k # n => memory'[j][k] = memory[j][k]
    BY <1>1, AnswerStep
  <2> QED BY <1>1, <1>2, <2>1 DEF Together, InStep
<1>4. ASSUME NEW yes, trajectory.length # st.last_sequence + 1, UNCHANGED memory,
             Replay!With(m, Replay!Confident(Replay!Gap(st), yes))
      PROVE  Together'
  <2> DEFINE r == Replay!Confident(Replay!Gap(st), yes)
  <2>1. Refused(memory, past, trajectory, results)
    <3>1. st.last_sequence \in Nat
      BY <1>1 DEF States
    <3>2. ~Admitted(memory, past, trajectory, event, results)
      BY <1>2, <1>4, <3>1 DEF Admitted
    <3> QED BY <1>1, <1>2, <3>2 DEF Together
  <2>2. r.effect = "ABSTAIN" /\ r.evidence = {} /\ r.revision = st.revision
    BY DEF Replay!Confident, Replay!Gap
  <2> HIDE DEF r
  <2>3. /\ DOMAIN results' = DOMAIN results \cup {m} /\ results'[m] = r
        /\ \A k \in DOMAIN results : results'[k] = results[k]
    BY <1>2, <1>4 DEF Replay!With, r
  <2>4. \A k \in DOMAIN results' :
           /\ results'[k].effect = "ABSTAIN" /\ results'[k].evidence = {}
           /\ results'[k].revision = memory[k][n].revision
    BY <1>2, <2>1, <2>2, <2>3 DEF Refused
  <2>5. Refused(memory, past, trajectory, results')
    BY <2>1, <2>4 DEF Refused
  <2> QED BY <1>2, <1>3, <1>4, <2>5 DEF Together
<1>5. ASSUME NEW v, NEW yes, trajectory.length = st.last_sequence + 1,
             memory' = [memory EXCEPT ![m][n] = next],
             Replay!With(m, Replay!Confident(Replay!Result(next, event, v), yes))
      PROVE  Together'
  <2> DEFINE r == Replay!Confident(Replay!Result(next, event, v), yes)
  <2>1. Admitted(memory, past, trajectory, event, results)
    <3>1. ~Refused(memory, past, trajectory, results)
      BY <1>5 DEF Refused
    <3> QED BY <1>1, <1>2, <3>1 DEF Together
  <2>2. PICK before \in States :
            /\ before.last_sequence + 1 = trajectory.length /\ Remembers(before, past[n])
            /\ \A k \in Members :
                  memory[k][n] = IF k \in DOMAIN results
                                 THEN Replay!Advance(before, event, trajectory.length)
                                 ELSE before
    BY <2>1 DEF Admitted
  <2>3. st = before
    BY <1>2, <2>2
  <2>4. memory'[m][n] = next /\ \A k \in Members : k # m => memory'[k][n] = memory[k][n]
    <3>1. memory \in [Members -> [ReplayNamespaces -> States]]
      BY <1>1 DEF ReplayTypes
    <3> HIDE DEF next
    <3> QED BY <1>1, <1>5, <3>1
  <2>5. Causal(r, past[n], trajectory.length)
    <3>1. /\ Len(past[n]) = trajectory.length /\ past[n][trajectory.length] = event
          /\ trajectory.length \in Nat
      BY <1>1, <2>1 DEF Admitted, ReplayTypes
    <3>2. trajectory.length \in 1 .. Len(past[n])
      <4>1. st.last_sequence \in Nat
        BY <1>1 DEF States
      <4> QED BY <1>5, <3>1, <4>1
    <3>3. next \in States /\ next.last_sequence = trajectory.length /\ Remembers(next, past[n])
      BY <1>1, <1>5, <3>1, <3>2, AdvanceRemembers
    <3> HIDE DEF next, n
    <3> DEFINE h == past[n]
               k == trajectory.length
    <3>4. /\ h \in Seq(Replay!Events) /\ k \in 1 .. Len(h)
          /\ next \in States /\ next.last_sequence = k /\ Remembers(next, h)
      BY <1>1, <3>2, <3>3
    <3>5. r = Replay!Confident(Replay!Result(next, h[k], v), yes)
      BY <3>1
    <3> HIDE DEF r, h, k
    <3>6. Causal(r, h, k)
      BY <3>4, <3>5, CausalAnswer
    <3> QED BY <3>6 DEF h, k
  <2>6. /\ DOMAIN results' = DOMAIN results \cup {m} /\ results'[m] = r
        /\ \A k \in DOMAIN results : results'[k] = results[k]
    BY <1>2, <1>5 DEF Replay!With
  <2> HIDE DEF r, next
  <2>7. \A k \in Members :
           memory'[k][n] = IF k \in DOMAIN results'
                           THEN Replay!Advance(before, event, trajectory.length) ELSE before
    BY <1>2, <2>2, <2>3, <2>4, <2>6 DEF next
  <2>8. \A k \in DOMAIN results' : Causal(results'[k], past[n], trajectory.length)
    BY <2>1, <2>5, <2>6 DEF Admitted
  <2>9. Admitted(memory', past, trajectory, event, results')
    BY <2>1, <2>2, <2>7, <2>8 DEF Admitted
  <2> QED BY <1>2, <1>3, <2>9 DEF Together
<1> QED BY <1>4, <1>5 DEF Answers

(* After all members have answered they are in step again.                 *)
LEMMA TogetherAgain ==
  ASSUME ReplayInv, ReplayBounds, phase = "gate3"
  PROVE  \A n \in ReplayNamespaces : InStep(memory, past, n)
<1> DEFINE n == trajectory.ns
<1>1. /\ n \in ReplayNamespaces /\ DOMAIN results = Members
      /\ past[n] \in Seq(Replay!Events) /\ trajectory.length \in Nat
  BY DEF ReplayInv, ReplayTypes, Together
<1>2. CASE Refused(memory, past, trajectory, results)
  BY <1>2 DEF ReplayInv, Together, Refused
<1>3. CASE Admitted(memory, past, trajectory, event, results)
  <2>1. PICK before \in States :
            /\ before.last_sequence + 1 = trajectory.length /\ Remembers(before, past[n])
            /\ \A k \in Members :
                  memory[k][n] = IF k \in DOMAIN results
                                 THEN Replay!Advance(before, event, trajectory.length)
                                 ELSE before
    BY <1>3 DEF Admitted
  <2>2. Len(past[n]) = trajectory.length /\ past[n][trajectory.length] = event
    BY <1>3 DEF Admitted
  <2> DEFINE next == Replay!Advance(before, event, trajectory.length)
  <2>3. next.last_sequence = trajectory.length
    BY <1>1, <2>1, <2>2, AdvanceRemembers
  <2> HIDE DEF next
  <2>4. \A k \in Members : memory[k][n] = next
    BY <1>1, <2>1 DEF next
  <2>5. InStep(memory, past, n)
    BY <2>2, <2>3, <2>4 DEF InStep
  <2> QED BY <2>5 DEF ReplayInv, Together
<1> QED BY <1>2, <1>3 DEF ReplayInv, Together

(* Every step keeps the members together.                                  *)
LEMMA TogetherStep ==
  ASSUME ReplayInv, Replay!Next, ReplayBounds
  PROVE  Together'
<1>0. ReplayTypes /\ Together
  BY DEF ReplayInv
<1>1. CASE /\ UNCHANGED <<memory, past>> /\ phase \in {"configure", "between", "gate3"}
           /\ phase' \in {"between", "replay", "reported"}
  <2>1. \A n \in ReplayNamespaces : InStep(memory, past, n)
    BY <1>1, TogetherAgain DEF ReplayInv, Together
  <2> QED BY <1>1, <2>1 DEF Together
<1>2. CASE phase' \in {"refused", "raised"}
  BY <1>2 DEF Together
<1>3. CASE Replay!Combine
  <2>1. CASE phase' = "gate3"
    BY <1>3, <2>1 DEF Replay!Combine, ReplayInv, Together
  <2> QED BY <1>2, <1>3, <2>1 DEF Replay!Combine
<1>4. CASE Replay!Stopped
  BY <1>0, <1>4 DEF Replay!Stopped, Replay!vars, Together
<1>5. CASE Replay!Refuse \/ Replay!Gate3Stops \/ \E m \in Members : Replay!MemberRaises(m)
  BY <1>2, <1>5 DEF Replay!Refuse, Replay!Gate3Stops, Replay!MemberRaises
<1>6. CASE Replay!Start \/ \E n \in ReplayNamespaces, malicious \in BOOLEAN :
                              Replay!Begin(n, malicious)
  BY <1>1, <1>6 DEF Replay!Start, Replay!Begin, Replay!replay
<1>7. CASE \E last \in BOOLEAN : Replay!Gate3Answers(last)
  BY <1>1, <1>7 DEF Replay!Gate3Answers, Replay!replay
<1>8. CASE \E written \in {audit, audit - 1}, status \in {0, 1} : Replay!Finish(written, status)
  BY <1>1, <1>2, <1>8 DEF Replay!Finish, Replay!replay
<1> QED BY <1>0, <1>3, <1>4, <1>5, <1>6, <1>7, <1>8, TogetherFed, TogetherAnswered, ReplayMoves

(* When the ensemble denies no member abstained, enough of them denied,    *)
(* and all of them did if a disagreement makes the ensemble abstain.       *)
LEMMA CombinedDenies ==
  ASSUME ReplayBounds, NEW rs, DOMAIN rs = Members, Replay!CombinedEffect(rs) = "DENY"
  PROVE  /\ \A m \in Members : rs[m].effect # "ABSTAIN"
         /\ \E m \in Members : rs[m].effect = "DENY"
         /\ Replay!DenyVotes(rs) >= IF DisagreementAction = "abstain" THEN Cardinality(Members)
                                    ELSE DenyVotesRequired
<1> DEFINE Denying == {m \in Members : rs[m].effect = "DENY"}
           Effects == {rs[m].effect : m \in Members}
<1>1. /\ "ABSTAIN" \notin Effects /\ Replay!DenyVotes(rs) = Cardinality(Denying)
      /\ Cardinality(Denying) >= DenyVotesRequired
      /\ ~ (Cardinality(Effects) > 1 /\ DisagreementAction = "abstain")
  BY SameReplayCount DEF Replay!CombinedEffect, Replay!EffectsOf, Replay!DenyVotes,
       Replay!Disagree
<1>2. /\ IsFiniteSet(Members) /\ DenyVotesRequired \in Nat \ {0}
  <2>1. Cardinality(Members) \in Nat
    BY FS_CardinalityType DEF ReplayBounds
  <2> QED BY <2>1 DEF ReplayBounds
<1>3. PICK m \in Members : rs[m].effect = "DENY"
  <2>1. Denying # {}
    <3>1. Cardinality({}) = 0
      BY FS_EmptySet
    <3> HIDE DEF Denying
    <3> QED BY <1>1, <1>2, <3>1
  <2> QED BY <2>1
<1>4. CASE DisagreementAction = "abstain"
  <2>1. IsFiniteSet(Effects) /\ Cardinality(Effects) \in Nat
    <3> DEFINE f == [k \in Members |-> rs[k].effect]
    <3>1. f \in [Members -> Effects] /\ \A t \in Effects : \E k \in Members : f[k] = t
      OBVIOUS
    <3>2. f \in Surjection(Members, Effects)
      <4> HIDE DEF f, Effects
      <4> QED BY <3>1 DEF Surjection
    <3> HIDE DEF f, Effects
    <3> QED BY <1>2, <3>2, FS_Surjection, FS_CardinalityType
  <2>2. ASSUME NEW k \in Members, rs[k].effect # "DENY"
        PROVE  FALSE
    <3> DEFINE two == {rs[k].effect, "DENY"}
    <3>1. two \subseteq Effects
      BY <1>3
    <3>2. Cardinality(two) = 2
      <4>1. IsFiniteSet({"DENY"}) /\ Cardinality({"DENY"}) = 1
        BY FS_Singleton
      <4>2. two = {"DENY"} \cup {rs[k].effect} /\ rs[k].effect \notin {"DENY"}
        BY <2>2
      <4>3. Cardinality({"DENY"} \cup {rs[k].effect}) = Cardinality({"DENY"}) + 1
        BY <4>1, <4>2, FS_AddElement
      <4> QED BY <4>1, <4>2, <4>3
    <3> HIDE DEF two, Effects
    <3>3. Cardinality(two) <= Cardinality(Effects)
      BY <2>1, <3>1, FS_Subset
    <3> QED BY <1>1, <1>4, <2>1, <3>2, <3>3
  <2>3. Denying = Members
    BY <2>2
  <2>4. Cardinality(Members) \in Nat
    BY <1>2, FS_CardinalityType
  <2> QED BY <1>1, <1>3, <1>4, <2>3, <2>4
<1> QED BY <1>1, <1>3, <1>4

(* A denial Gate 3 caches is backed by the members and by earlier events.  *)
LEMMA CachedAnswer ==
  ASSUME ReplayInv, ReplayBounds, NEW last \in BOOLEAN, Replay!Gate3Answers(last)
  PROVE  \A c \in cached' : Denied(c, past)
<1> DEFINE effect == Replay!Gate3Effect(combined, \A m \in Members : results[m].confident,
                                        trajectory.length)
           new == [ns |-> trajectory.ns, seq |-> trajectory.length,
                   evidence |-> combined.evidence, votes |-> Replay!DenyVotes(results)]
<1>1. /\ DOMAIN results = Members /\ combined = Replay!Combined(results)
      /\ trajectory.ns \in ReplayNamespaces /\ trajectory.length \in Nat
      /\ \A c \in cached : Denied(c, past)
      /\ \/ Refused(memory, past, trajectory, results)
         \/ Admitted(memory, past, trajectory, event, results)
  BY DEF ReplayInv, ReplayTypes, Together, Denials, Replay!Gate3Answers
<1>2. cached' = IF effect = "DENY" THEN cached \cup {new} ELSE cached
  BY DEF Replay!Gate3Answers
<1>3. ASSUME effect = "DENY"
      PROVE  Denied(new, past)
  <2>1. combined.effect = "DENY"
    BY <1>3 DEF Replay!Gate3Effect, Replay!RiskBand
  <2>2. /\ combined.effect = Replay!CombinedEffect(results)
        /\ combined.evidence = UNION {results[m].evidence : m \in Members}
    BY <1>1 DEF Replay!Combined
  <2>3. /\ \A m \in Members : results[m].effect # "ABSTAIN"
        /\ \E m \in Members : results[m].effect = "DENY"
        /\ new.votes >= IF DisagreementAction = "abstain" THEN Cardinality(Members)
                        ELSE DenyVotesRequired
    BY <1>1, <2>1, <2>2, CombinedDenies
  <2>4. Admitted(memory, past, trajectory, event, results)
    BY <1>1, <2>3 DEF Refused
  <2>5. /\ Len(past[trajectory.ns]) = trajectory.length
        /\ \A m \in Members : Causal(results[m], past[trajectory.ns], trajectory.length)
    BY <1>1, <2>4 DEF Admitted
  <2>6. /\ new.evidence # {}
        /\ \A id \in new.evidence : \E m \in Members : id \in results[m].evidence
    <3>1. \E m \in Members : results[m].evidence # {}
      BY <2>3, <2>5 DEF Causal
    <3> QED BY <2>2, <3>1
  <2>7. new.seq \in 1 .. Len(past[new.ns]) /\ new.ns \in ReplayNamespaces
    <3>1. PICK id \in new.evidence : id \in 1 .. trajectory.length
      BY <2>5, <2>6 DEF Causal
    <3> QED BY <1>1, <2>5, <3>1
  <2>8. \A id \in new.evidence :
           /\ id \in 1 .. new.seq /\ id < new.seq /\ past[new.ns][id].class = "trigger"
           /\ past[new.ns][new.seq] = [class |-> "query", relation |-> past[new.ns][id].relation]
    BY <2>5, <2>6 DEF Causal
  <2> HIDE DEF new
  <2> QED BY <2>3, <2>6, <2>7, <2>8 DEF Denied
<1> HIDE DEF effect, new
<1> QED BY <1>1, <1>2, <1>3

(* Every cached denial stays backed by what its namespace was fed.         *)
LEMMA DenialsStep ==
  ASSUME ReplayInv, Replay!Next, ReplayBounds
  PROVE  Denials'
<1>0. ReplayTypes /\ Denials
  BY DEF ReplayInv
<1>1. CASE UNCHANGED <<cached, past>> /\ phase \notin {"configure", "refused"}
  BY <1>0, <1>1 DEF Denials
<1>2. CASE Replay!Refuse \/ Replay!Start
  BY <1>2 DEF Replay!Refuse, Replay!Start, Denials
<1>3. ASSUME NEW e \in Replay!Events, Feeds(e)
      PROVE  Denials'
  <2>1. cached' = cached /\ phase \notin {"configure", "refused"}
    BY <1>3 DEF Feeds
  <2>2. ASSUME NEW c \in cached
        PROVE  Denied(c, past')
    <3>1. Denied(c, past)
      BY <1>0, <2>1 DEF Denials
    <3>2. c.ns \in ReplayNamespaces /\ c.seq \in 1 .. Len(past[c.ns])
      BY <3>1 DEF Denied
    <3>3. /\ Len(past[c.ns]) \in Nat /\ Len(past'[c.ns]) \in Nat
          /\ Len(past[c.ns]) <= Len(past'[c.ns])
          /\ \A i \in 1 .. Len(past[c.ns]) : past'[c.ns][i] = past[c.ns][i]
      BY <1>0, <1>3, <3>2, HistoryStep
    <3>4. c.seq \in 1 .. Len(past'[c.ns]) /\ past'[c.ns][c.seq] = past[c.ns][c.seq]
      BY <3>2, <3>3
    <3>5. ASSUME NEW id \in c.evidence
          PROVE  past'[c.ns][id] = past[c.ns][id]
      <4>1. id \in 1 .. c.seq
        BY <3>1 DEF Denied
      <4>2. id \in 1 .. Len(past[c.ns])
        BY <3>2, <3>3, <4>1
      <4> QED BY <3>3, <4>2
    <3> QED BY <3>1, <3>4, <3>5 DEF Denied
  <2> QED BY <2>1, <2>2 DEF Denials
<1>4. ASSUME NEW last \in BOOLEAN, Replay!Gate3Answers(last)
      PROVE  Denials'
  <2>1. past' = past
    BY <1>4 DEF Replay!Gate3Answers, Replay!replay
  <2> QED BY <1>4, <2>1, CachedAnswer DEF Denials
<1>5. CASE Replay!Stopped
  BY <1>0, <1>5 DEF Replay!Stopped, Replay!vars, Denials
<1>6. CASE \E m \in Members : Answers(m)
  BY <1>1, <1>6 DEF Answers
<1>7. CASE \/ \E n \in ReplayNamespaces, malicious \in BOOLEAN : Replay!Begin(n, malicious)
           \/ \E m \in Members : Replay!MemberRaises(m)
           \/ Replay!Combine \/ Replay!Gate3Stops
           \/ \E written \in {audit, audit - 1}, status \in {0, 1} :
                 Replay!Finish(written, status)
  BY <1>1, <1>7 DEF Replay!Begin, Replay!MemberRaises, Replay!Combine, Replay!Gate3Stops,
       Replay!Finish, Replay!replay, Replay!outcome, Replay!Turn
<1> QED BY <1>0, <1>2, <1>3, <1>4, <1>5, <1>6, <1>7, ReplayMoves

(* One column of the confusion table is one higher: so is the sum.         *)
LEMMA OneMore ==
  ASSUME NEW t \in [Outcomes -> Nat], NEW c \in Outcomes, NEW next,
         next = [t EXCEPT ![c] = t[c] + 1]
  PROVE  next.tp + next.fp + next.tn + next.fn + next.abstain
            = t.tp + t.fp + t.tn + t.fn + t.abstain + 1
<1>1. /\ t.tp \in Nat /\ t.fp \in Nat /\ t.tn \in Nat /\ t.fn \in Nat /\ t.abstain \in Nat
  BY DEF Outcomes
<1>2. /\ next.tp = IF c = "tp" THEN t.tp + 1 ELSE t.tp
      /\ next.fp = IF c = "fp" THEN t.fp + 1 ELSE t.fp
      /\ next.tn = IF c = "tn" THEN t.tn + 1 ELSE t.tn
      /\ next.fn = IF c = "fn" THEN t.fn + 1 ELSE t.fn
      /\ next.abstain = IF c = "abstain" THEN t.abstain + 1 ELSE t.abstain
  BY DEF Outcomes
<1> QED BY <1>1, <1>2 DEF Outcomes

(* The records audited and the trajectories counted.                       *)
LEMMA TalliedStep ==
  ASSUME ReplayInv, Replay!Next, ReplayBounds
  PROVE  Tallied'
<1>0. /\ ReplayTypes /\ Tallied /\ confusion \in [Outcomes -> Nat] /\ audit \in Nat
      /\ handled \in 0 .. ReplayEvents /\ trajectory.count \in Nat /\ Counts \in Nat
  BY DEF ReplayInv, ReplayTypes, Counts, Outcomes
<1>1. CASE Replay!Refuse \/ \E m \in Members : Replay!MemberRaises(m)
  BY <1>1 DEF Replay!Refuse, Replay!MemberRaises, Tallied
<1>2. CASE Replay!Start
  BY <1>0, <1>2 DEF Replay!Start, Replay!replay, Tallied, Counts
<1>3. ASSUME NEW n \in ReplayNamespaces, NEW malicious \in BOOLEAN, Replay!Begin(n, malicious)
      PROVE  Tallied'
  <2>1. trajectory'.count = trajectory.count + 1 /\ phase = "between" /\ phase' = "replay"
    BY <1>3 DEF Replay!Begin
  <2> QED BY <1>0, <1>3, <2>1 DEF Replay!Begin, Replay!outcome, Tallied, Counts
<1>4. ASSUME NEW e \in Replay!Events, Feeds(e)
      PROVE  Tallied'
  <2>1. trajectory'.count = trajectory.count
    BY <1>0, <1>4 DEF Feeds, ReplayTypes
  <2> QED BY <1>0, <1>4, <2>1 DEF Feeds, Tallied, Counts
<1>5. ASSUME NEW m \in Members, Answers(m)
      PROVE  Tallied'
  BY <1>0, <1>5 DEF Answers, Tallied, Counts
<1>6. CASE Replay!Combine
  BY <1>0, <1>6 DEF Replay!Combine, Replay!outcome, Tallied, Counts
<1>7. ASSUME NEW last \in BOOLEAN, Replay!Gate3Answers(last)
      PROVE  Tallied'
  <2>1. /\ phase = "gate3" /\ trajectory' = trajectory
        /\ audit' = audit + 1 /\ handled' = handled + 1
    BY <1>7 DEF Replay!Gate3Answers, Replay!replay
  <2>2. /\ phase' = (IF last THEN "between" ELSE "replay")
        /\ last => Counts' = Counts + 1
        /\ ~last => Counts' = Counts
    BY <1>0, <1>7, Counting, OneMore DEF Counts
  <2>3. CASE last
    BY <1>0, <2>1, <2>2, <2>3 DEF Tallied
  <2>4. CASE ~last
    BY <1>0, <2>1, <2>2, <2>4 DEF Tallied
  <2> QED BY <2>3, <2>4
<1>8. CASE Replay!Gate3Stops
  BY <1>8 DEF Replay!Gate3Stops, Tallied
<1>9. ASSUME NEW written \in {audit, audit - 1}, NEW status \in {0, 1},
             Replay!Finish(written, status)
      PROVE  Tallied'
  BY <1>0, <1>9 DEF Replay!Finish, Replay!replay, Tallied, Counts
<1>10. CASE Replay!Stopped
  BY <1>0, <1>10 DEF Replay!Stopped, Replay!vars, Tallied, Counts
<1> QED BY <1>0, <1>1, <1>2, <1>3, <1>4, <1>5, <1>6, <1>7, <1>8, <1>9, <1>10, ReplayMoves

(* The first state of a replay.                                            *)
LEMMA ReplayInit ==
  ASSUME Replay!Init, ReplayBounds
  PROVE  ReplayInv
<1>1. /\ Replay!AsmInit \in States
      /\ \A n \in ReplayNamespaces : Remembers(Replay!AsmInit, <<>>)
  <2>1. 0 \in Replay!Values /\ << >> \in Seq(Pairs) /\ MaxPairs \in Nat
    BY DEF Replay!Values, ReplayBounds
  <2>2. << >> \in Tables
    <3>1. << >> \in [{} -> Nat \ {0}]
      OBVIOUS
    <3>2. {} \in SUBSET Pairs
      OBVIOUS
    <3> QED BY <3>1, <3>2 DEF Tables
  <2>3. Replay!AsmInit \in States
    BY <2>1, <2>2 DEF Replay!AsmInit, States
  <2>4. DOMAIN << >> = {} /\ Len(<< >>) = 0
    OBVIOUS
  <2>5. Remembers(Replay!AsmInit, <<>>)
    BY <2>1, <2>4 DEF Replay!AsmInit, Remembers
  <2> QED BY <2>3, <2>5
<1>2. (CHOOSE n \in ReplayNamespaces : TRUE) \in ReplayNamespaces
  BY DEF ReplayBounds
<1>3. /\ phase = "configure"
      /\ memory = [m \in Members |-> [n \in ReplayNamespaces |-> Replay!AsmInit]]
      /\ trajectory = [ns |-> CHOOSE n \in ReplayNamespaces : TRUE, malicious |-> FALSE,
                       length |-> 0, count |-> 0]
      /\ event = [class |-> "other", relation |-> Network] /\ results = << >>
      /\ past = [n \in ReplayNamespaces |-> << >>] /\ audit \in Nat /\ handled = 0
      /\ confusion = [tp |-> 0, fp |-> 0, tn |-> 0, fn |-> 0, abstain |-> 0]
  BY DEF Replay!Init, Replay!NoResults
<1>4. ReplayTypes
  <2>1. memory \in [Members -> [ReplayNamespaces -> States]]
    BY <1>1, <1>3
  <2>2. trajectory \in [ns : ReplayNamespaces, malicious : BOOLEAN, length : Nat, count : Nat]
    BY <1>2, <1>3
  <2>3. event \in Replay!Events
    BY <1>3 DEF Replay!Events
  <2>4. past \in [ReplayNamespaces -> Seq(Replay!Events)]
    BY <1>3
  <2>5. confusion \in [Outcomes -> Nat]
    BY <1>3 DEF Outcomes
  <2>6. handled \in 0 .. ReplayEvents
    BY <1>3 DEF ReplayBounds
  <2> QED BY <1>3, <2>1, <2>2, <2>3, <2>4, <2>5, <2>6 DEF ReplayTypes
<1>5. Remembered
  BY <1>1, <1>3 DEF Remembered
<1>6. Together
  BY <1>3 DEF Together, InStep, Replay!AsmInit
<1>7. Denials
  BY <1>3 DEF Denials
<1>8. Tallied
  BY <1>3 DEF Tallied, Counts
<1> QED BY <1>4, <1>5, <1>6, <1>7, <1>8 DEF ReplayInv

(* Every step of a replay keeps the invariant.                             *)
LEMMA ReplayStep ==
  ASSUME ReplayInv, Replay!Next, ReplayBounds
  PROVE  ReplayInv'
<1> QED BY ReplayTypesStep, RememberedStep, TogetherStep, DenialsStep, TalliedStep DEF ReplayInv

(* The invariant implies what the run checks of a replay.                  *)
LEMMA ReplayHolds ==
  ASSUME ReplayInv, ReplayBounds
  PROVE  /\ Replay!TypeOK /\ Replay!PairsNameTheirEvents /\ Replay!CachedDenialIsCausal
         /\ Replay!MembersInStep /\ Replay!ReportIsComplete
<1>0. ReplayTypes /\ Remembered /\ Together /\ Denials /\ Tallied
  BY DEF ReplayInv
<1>1. Replay!TypeOK
  <2>1. ASSUME NEW m \in Members, NEW n \in ReplayNamespaces
        PROVE  /\ memory[m][n].next_value \in Replay!Values
               /\ Len(memory[m][n].pairs) <= MaxPairs
               /\ DOMAIN memory[m][n].evidence \subseteq Relations \X Replay!Values
               /\ memory[m][n].revision = memory[m][n].last_sequence
    <3>1. memory[m][n] \in States /\ Remembers(memory[m][n], past[n])
      BY <1>0 DEF ReplayTypes, Remembered
    <3>2. DOMAIN memory[m][n].evidence \subseteq Pairs
      BY <3>1 DEF States, Tables
    <3> QED BY <3>1, <3>2 DEF States, Remembers, Pairs
  <2> QED BY <1>0, <2>1 DEF Replay!TypeOK, ReplayTypes
<1>2. Replay!PairsNameTheirEvents
  <2>1. ASSUME NEW m \in Members, NEW n \in ReplayNamespaces,
               memory[m][n].last_sequence = Len(past[n]), NEW i \in DOMAIN memory[m][n].pairs
        PROVE  \E id \in Replay!Bindings(n) :
                  /\ Replay!Cardinality(Replay!BoundSince(n, id)) = Len(memory[m][n].pairs) - i + 1
                  /\ Replay!Lookup(memory[m][n].evidence, memory[m][n].pairs[i]) =
                        IF past[n][id].class = "trigger" THEN id ELSE Replay!NoEvidence
    <3>1. PICK id \in Nat : Names(memory[m][n], past[n], i, id)
      BY <1>0, <2>1 DEF Remembered, Remembers
    <3>2. DOMAIN past[n] = 1 .. Len(past[n])
      BY <1>0 DEF ReplayTypes
    <3>3. /\ Replay!Bindings(n) = Bound(past[n], Len(past[n]))
          /\ Replay!BoundSince(n, id) = Since(past[n], Len(past[n]), id)
      BY <3>2 DEF Replay!Bindings, Replay!BoundSince, Bound, Since
    <3> QED BY <2>1, <3>1, <3>3, SameReplayCount DEF Names
  <2> QED BY <2>1 DEF Replay!PairsNameTheirEvents
<1>3. Replay!CachedDenialIsCausal
  BY <1>0, SameReplayCount DEF Denials, Denied, Replay!CachedDenialIsCausal
<1>4. Replay!MembersInStep
  <2>1. ASSUME phase \in {"between", "replay", "reported"}, NEW m \in Members, NEW k \in Members
        PROVE  memory[m] = memory[k]
    <3>1. memory[m] \in [ReplayNamespaces -> States] /\ memory[k] \in [ReplayNamespaces -> States]
      BY <1>0 DEF ReplayTypes
    <3>2. \A n \in ReplayNamespaces : memory[m][n] = memory[k][n]
      BY <1>0, <2>1 DEF Together, InStep
    <3> QED BY <3>1, <3>2
  <2> QED BY <2>1 DEF Replay!MembersInStep
<1>5. Replay!ReportIsComplete
  <2>1. ASSUME phase = "reported"
        PROVE  Replay!Leftover \notin cached
    <3>1. Replay!Leftover.evidence = {}
      BY DEF Replay!Leftover
    <3> QED BY <1>0, <2>1, <3>1 DEF Denials, Denied
  <2> QED BY <1>0, <2>1 DEF Replay!ReportIsComplete, Tallied, Counts
<1> QED BY <1>1, <1>2, <1>3, <1>4, <1>5

(***************************************************************************)
(* The review commands (ReviewCorpus): rows of files.                      *)
(***************************************************************************)

(* The constants of the review commands.                                   *)
ReviewBounds ==
  /\ IsFiniteSet(ReviewNamespaces) /\ ReviewNamespaces = 1..Cardinality(ReviewNamespaces)
  /\ Window \in Nat \ {0} /\ WindowLimit \in Nat /\ ReviewEvents \in Nat
  /\ MaxPosts \in Nat /\ MaxFaults \in Nat /\ MaxCommands \in Nat

(* Multiples of a number grow by it.                                       *)
LEMMA Multiples ==
  ASSUME NEW width \in Nat \ {0}, NEW k \in Nat, NEW l \in Nat, k < l
  PROVE  /\ k * width \in Nat /\ l * width \in Nat
         /\ (k + 1) * width = k * width + width /\ (l - 1) * width = l * width - width
         /\ k * width <= (l - 1) * width
<1>1. k * width \in Nat /\ l * width \in Nat
  OBVIOUS
<1>2. (k + 1) * width = k * width + width /\ (l - 1) * width = l * width - width
  OBVIOUS
<1>3. (l - 1) * width = k * width + (l - 1 - k) * width
  OBVIOUS
<1>4. l - 1 - k \in Nat
  OBVIOUS
<1>5. (l - 1 - k) * width \in Nat
  BY <1>4
<1> QED BY <1>1, <1>2, <1>3, <1>5

(* The windows of a namespace are those that begin before its end.         *)
LEMMA WindowPlaces ==
  ASSUME ReviewBounds, NEW count \in Nat
  PROVE  /\ (count + Window - 1) \div Window \in Nat
         /\ \A k \in Nat \ {0} :
              k \in 1..((count + Window - 1) \div Window) <=> (k - 1) * Window < count
<1> DEFINE q == (count + Window - 1) \div Window
<1>0. Window \in Nat \ {0}
  BY DEF ReviewBounds
<1>1. q \in Nat /\ q * Window <= count + Window - 1 /\ count + Window - 1 < q * Window + Window
  BY <1>0
<1> HIDE DEF q
<1>2. ASSUME NEW k \in Nat \ {0}
      PROVE  k \in 1..q <=> (k - 1) * Window < count
  <2>1. CASE k <= q
    <3>1. CASE k = q
      <4>1. (q - 1) * Window = q * Window - Window
        BY <1>0, <1>1
      <4>2. q * Window \in Nat
        BY <1>0, <1>1
      <4> QED BY <1>0, <1>1, <3>1, <4>1, <4>2
    <3>2. CASE k < q
      <4>1. k * Window \in Nat /\ q * Window \in Nat /\ (q - 1) * Window = q * Window - Window
            /\ k * Window <= (q - 1) * Window
        BY <1>0, <1>1, <3>2, Multiples
      <4>2. (k - 1) * Window = k * Window - Window
        BY <1>0
      <4>3. (k - 1) * Window < count
        <5> HIDE DEF q
        <5> QED BY <1>0, <1>1, <4>1, <4>2
      <4> QED BY <2>1, <4>3
    <3> QED BY <1>1, <2>1, <3>1, <3>2
  <2>2. CASE ~ (k <= q)
    <3>1. q < k
      BY <1>1, <2>2
    <3>2. q * Window \in Nat /\ q * Window <= (k - 1) * Window
      BY <1>0, <1>1, <3>1, Multiples
    <3>3. (k - 1) * Window \in Nat
      BY <1>0
    <3>4. ~ ((k - 1) * Window < count)
      BY <1>0, <1>1, <3>2, <3>3
    <3> QED BY <1>1, <3>1, <3>4
  <2> QED BY <2>1, <2>2
<1> QED BY <1>1, <1>2 DEF q

(* What holds of 0 and passes on from each number to the next one.         *)
LEMMA Climb ==
  ASSUME NEW n \in Nat, NEW T, 0 \in T, \A i \in 1..n : i - 1 \in T => i \in T
  PROVE  \A i \in 0..n : i \in T
<1> DEFINE bad == {i \in 0..n : i \notin T}
<1>1. CASE bad = {}
  BY <1>1
<1>2. CASE bad # {}
  <2>0. bad \in SUBSET Nat
    OBVIOUS
  <2>1. PICK m \in bad : \A k \in bad : m <= k
    <3> HIDE DEF bad
    <3> QED BY <1>2, <2>0, LeastExists
  <2>2. m \in 1..n /\ m - 1 \in 0..n
    BY <2>1
  <2>3. m - 1 \in T
    BY <2>1, <2>2
  <2> QED BY <2>1, <2>2, <2>3
<1> QED BY <1>1, <1>2

(* The run of a step from a first value: one value for each number to n.   *)
RunOf(n, first, step, after) ==
  after = [i \in 0..n |-> IF i = 0 THEN first ELSE step[<<i, after[i - 1]>>]]

(* Every step on a set has a run of any length, and it stays in the set.   *)
LEMMA RunExists ==
  ASSUME NEW n \in Nat, NEW D, NEW first \in D, NEW step \in [(1..n) \X D -> D]
  PROVE  \E after \in [0..n -> D] : RunOf(n, first, step, after)
<1> DEFINE T == {k \in 0..n : \E after \in [0..k -> D] : RunOf(k, first, step, after)}
<1>1. 0 \in T
  <2> DEFINE f == [i \in 0..0 |-> first]
  <2>1. f \in [0..0 -> D] /\ RunOf(0, first, step, f)
    BY DEF RunOf
  <2> QED BY <2>1
<1>2. ASSUME NEW k \in 1..n, k - 1 \in T
      PROVE  k \in T
  <2>1. PICK f \in [0..(k - 1) -> D] : RunOf(k - 1, first, step, f)
    BY <1>2
  <2> DEFINE g == [i \in 0..k |-> IF i = 0 THEN first ELSE step[<<i, f[i - 1]>>]]
  <2>2. \A i \in 0..(k - 1) : g[i] = f[i]
    BY <2>1 DEF RunOf
  <2>3. \A i \in 1..k : g[i - 1] = f[i - 1]
    <3> HIDE DEF g
    <3> QED BY <2>2
  <2>4. \A i \in 1..k : <<i, f[i - 1]>> \in (1..n) \X D
    BY <2>1
  <2>5. g \in [0..k -> D]
    BY <2>4
  <2>6. ASSUME NEW i \in 0..k
        PROVE  g[i] = IF i = 0 THEN first ELSE step[<<i, g[i - 1]>>]
    <3>1. g[i] = IF i = 0 THEN first ELSE step[<<i, f[i - 1]>>]
      OBVIOUS
    <3>2. i = 0 \/ g[i - 1] = f[i - 1]
      <4> HIDE DEF g
      <4> QED BY <2>3
    <3> HIDE DEF g
    <3> QED BY <3>1, <3>2
  <2>7. RunOf(k, first, step, g)
    <3> HIDE DEF g
    <3> QED BY <2>5, <2>6 DEF RunOf
  <2> HIDE DEF g
  <2> QED BY <2>5, <2>7
<1> HIDE DEF T
<1>3. n \in T
  BY <1>1, <1>2, Climb
<1> QED BY <1>3 DEF T

(* The rows at some places keep their order, and none of them is lost.     *)
InOrder(rows, places, kept, from) ==
  /\ from \in [DOMAIN kept -> places]
  /\ \A i \in DOMAIN kept : kept[i] = rows[from[i]]
  /\ \A i, j \in DOMAIN kept : i < j => from[i] < from[j]
  /\ \A p \in places : \E i \in DOMAIN kept : from[i] = p

(* The rows at some places, each once and in the order of the file.        *)
LEMMA PickedRows ==
  ASSUME NEW S, NEW rows \in Seq(S), NEW places \in SUBSET DOMAIN rows
  PROVE  /\ Corpus!Picked(rows, places) \in Seq(S)
         /\ \E from : InOrder(rows, places, Corpus!Picked(rows, places), from)
<1> DEFINE n == Len(rows)
           step == [p \in (1..n) \X Seq(S) |->
                      IF p[1] \in places THEN Append(p[2], rows[p[1]]) ELSE p[2]]
           picked == CHOOSE picked : picked = [i \in 0..Len(rows) |->
                       IF i = 0 THEN << >>
                       ELSE IF i \in places THEN Append(picked[i - 1], rows[i])
                            ELSE picked[i - 1]]
<1>0. n \in Nat /\ DOMAIN rows = 1..n /\ << >> \in Seq(S)
  OBVIOUS
<1>1. Corpus!Picked(rows, places) = picked[n]
  BY DEF Corpus!Picked
<1>2. step \in [(1..n) \X Seq(S) -> Seq(S)]
  OBVIOUS
<1>3. PICK f \in [0..n -> Seq(S)] : RunOf(n, << >>, step, f)
  <2> HIDE DEF step, n
  <2> QED BY <1>0, <1>2, RunExists
<1>4. f = [i \in 0..n |-> IF i = 0 THEN << >>
                          ELSE IF i \in places THEN Append(f[i - 1], rows[i]) ELSE f[i - 1]]
  <2>1. ASSUME NEW i \in 1..n
        PROVE  f[i] = IF i \in places THEN Append(f[i - 1], rows[i]) ELSE f[i - 1]
    <3>1. f[i - 1] \in Seq(S)
      <4> HIDE DEF step, n
      <4>1. i - 1 \in 0..n
        BY <1>0
      <4> QED BY <1>3, <4>1
    <3>2. step[<<i, f[i - 1]>>]
            = IF i \in places THEN Append(f[i - 1], rows[i]) ELSE f[i - 1]
      BY <3>1
    <3>3. f[i] = step[<<i, f[i - 1]>>]
      <4> HIDE DEF step
      <4> QED BY <1>3 DEF RunOf
    <3> QED BY <3>2, <3>3
  <2>2. f[0] = << >>
    <3> HIDE DEF step
    <3> QED BY <1>0, <1>3 DEF RunOf
  <2> DEFINE Longer(i) == IF i \in places THEN Append(f[i - 1], rows[i]) ELSE f[i - 1]
  <2>3. ASSUME NEW i \in 1..n
        PROVE  f[i] = Longer(i)
    BY <2>1
  <2> HIDE DEF step, n, Longer
  <2>4. f = [i \in 0..n |-> IF i = 0 THEN << >> ELSE Longer(i)]
    <3>1. ASSUME NEW i \in 0..n
          PROVE  f[i] = IF i = 0 THEN << >> ELSE Longer(i)
      <4>1. i = 0 \/ i \in 1..n
        BY <1>0
      <4> QED BY <2>2, <2>3, <4>1
    <3> QED BY <1>3, <3>1
  <2> QED BY <2>4 DEF Longer
<1>5. picked = [i \in 0..n |-> IF i = 0 THEN << >>
                               ELSE IF i \in places THEN Append(picked[i - 1], rows[i])
                                    ELSE picked[i - 1]]
  BY <1>4
<1> HIDE DEF picked, step, n
<1>6. \A i \in 1..n : picked[i] = IF i \in places THEN Append(picked[i - 1], rows[i])
                                   ELSE picked[i - 1]
  <2>1. \A i \in 0..n : picked[i] = IF i = 0 THEN << >>
                                     ELSE IF i \in places THEN Append(picked[i - 1], rows[i])
                                          ELSE picked[i - 1]
    BY <1>5, Zenon
  <2>2. \A i \in 1..n : i \in 0..n /\ i # 0
    BY <1>0
  <2> QED BY <2>1, <2>2, Zenon
<1> DEFINE T == {k \in 0..n : /\ picked[k] \in Seq(S)
                              /\ \E from : InOrder(rows, places \intersect (1..k),
                                                   picked[k], from)}
<1>7. 0 \in T
  <2>1. picked[0] = << >>
    BY <1>0, <1>5
  <2>2. places \intersect (1..0) = {}
    OBVIOUS
  <2> DEFINE none == [i \in {} |-> 0]
  <2>3. InOrder(rows, {}, << >>, none)
    BY DEF InOrder
  <2> HIDE DEF none
  <2>4. InOrder(rows, places \intersect (1..0), picked[0], none)
    BY <2>1, <2>2, <2>3
  <2>5. 0 \in 0..n /\ picked[0] \in Seq(S)
    BY <1>0, <2>1
  <2> QED BY <2>4, <2>5
<1>8. ASSUME NEW k \in 1..n, k - 1 \in T
      PROVE  k \in T
  <2> DEFINE old == picked[k - 1]
  <2>0. old \in Seq(S) /\ Len(old) \in Nat /\ DOMAIN old = 1..Len(old)
    BY <1>8
  <2>1. PICK from : InOrder(rows, places \intersect (1..(k - 1)), old, from)
    BY <1>8
  <2>2. picked[k] = IF k \in places THEN Append(old, rows[k]) ELSE old
    BY <1>6
  <2>3. CASE k \in places
    <3> DEFINE new == Append(old, rows[k])
               to == [i \in 1..(Len(old) + 1) |-> IF i = Len(old) + 1 THEN k ELSE from[i]]
    <3>1. /\ new \in Seq(S) /\ Len(new) = Len(old) + 1 /\ DOMAIN new = 1..(Len(old) + 1)
          /\ new[Len(old) + 1] = rows[k] /\ \A i \in DOMAIN old : new[i] = old[i]
      BY <1>0, <2>0
    <3>2. picked[k] = new
      BY <2>2, <2>3
    <3>3. \A i \in DOMAIN old : to[i] = from[i] /\ from[i] \in places /\ from[i] \in 1..(k - 1)
                                /\ old[i] = rows[from[i]]
      BY <2>0, <2>1 DEF InOrder
    <3>4. to[Len(old) + 1] = k
      BY <2>0
    <3>5. to \in [DOMAIN new -> places \intersect (1..k)]
      <4>1. ASSUME NEW i \in 1..(Len(old) + 1)
            PROVE  (IF i = Len(old) + 1 THEN k ELSE from[i]) \in places \intersect (1..k)
        <5>1. i = Len(old) + 1 \/ i \in DOMAIN old
          BY <2>0
        <5>2. 1..(k - 1) \subseteq 1..k /\ k \in 1..k
          OBVIOUS
        <5> HIDE DEF old
        <5> QED BY <2>3, <3>3, <5>1, <5>2
      <4> QED BY <3>1, <4>1
    <3> HIDE DEF new, to, old
    <3>6. \A i \in DOMAIN new : new[i] = rows[to[i]]
      BY <2>0, <3>1, <3>3, <3>4
    <3>7. \A i, j \in DOMAIN new : i < j => to[i] < to[j]
      <4> SUFFICES ASSUME NEW i \in DOMAIN new, NEW j \in DOMAIN new, i < j
                   PROVE  to[i] < to[j]
        OBVIOUS
      <4>1. i \in DOMAIN old
        BY <2>0, <3>1
      <4>2. CASE j \in DOMAIN old
        <5>1. from[i] < from[j]
          BY <2>1, <4>1, <4>2 DEF InOrder
        <5> QED BY <3>3, <4>1, <4>2, <5>1
      <4>3. CASE j = Len(old) + 1
        BY <3>3, <3>4, <4>1, <4>3
      <4> QED BY <2>0, <3>1, <4>2, <4>3
    <3>8. ASSUME NEW p \in places \intersect (1..k)
          PROVE  \E i \in DOMAIN new : to[i] = p
      <4>1. CASE p = k
        BY <2>0, <3>1, <3>4, <4>1
      <4>2. CASE p # k
        <5>1. p \in places \intersect (1..(k - 1))
          BY <4>2
        <5>2. PICK i \in DOMAIN old : from[i] = p
          BY <2>1, <5>1 DEF InOrder
        <5>3. i \in DOMAIN new
          BY <2>0, <3>1
        <5> QED BY <3>3, <5>2, <5>3
      <4> QED BY <4>1, <4>2
    <3>9. InOrder(rows, places \intersect (1..k), new, to)
      BY <3>5, <3>6, <3>7, <3>8 DEF InOrder
    <3> QED BY <3>1, <3>2, <3>9
  <2>4. CASE k \notin places
    <3>1. places \intersect (1..k) = places \intersect (1..(k - 1))
      BY <2>4
    <3>2. picked[k] = old
      BY <2>2, <2>4
    <3>3. InOrder(rows, places \intersect (1..k), old, from)
      BY <2>1, <3>1
    <3> HIDE DEF old
    <3>4. picked[k] \in Seq(S) /\ InOrder(rows, places \intersect (1..k), picked[k], from)
      BY <2>0, <3>2, <3>3
    <3> QED BY <3>4
  <2> QED BY <2>3, <2>4
<1>9. \A k \in 1..n : k - 1 \in T => k \in T
  <2> HIDE DEF T
  <2> QED BY <1>8
<1> HIDE DEF T
<1>10. n \in T
  <2>1. \A k \in 0..n : k \in T
    BY <1>0, <1>7, <1>9, Climb
  <2> QED BY <1>0, <2>1
<1>11. places \intersect (1..n) = places
  BY <1>0
<1> QED BY <1>1, <1>10, <1>11 DEF T

(* A candidate is a window of one namespace, and known by its place.       *)
Item == {c \in [id : Corpus!AllWindows, ns : ReviewNamespaces, first : 1..ReviewEvents,
                last : 1..ReviewEvents] :
            c.id = <<c.ns, c.first, c.last>> /\ c.first <= c.last}

(* Windows of one namespace in a file follow each other.                   *)
Sorted(rows) ==
  \A i, j \in DOMAIN rows : i < j /\ rows[i].ns = rows[j].ns => rows[i].last < rows[j].first

(* All events of the windows were captured.                                *)
Within(rows, count) == \A i \in DOMAIN rows : rows[i].last <= count[rows[i].ns]

(* The window is one that a build would make now.                          *)
Live(w, count) ==
  \E k \in DOMAIN Corpus!Windows(w[1], count[w[1]]) :
    Corpus!Windows(w[1], count[w[1]])[k].id = w

(* What the fields of a candidate are.                                     *)
LEMMA ItemFields ==
  ASSUME ReviewBounds, NEW c \in Item
  PROVE  /\ c.id \in Corpus!AllWindows /\ c.id = <<c.ns, c.first, c.last>>
         /\ c.ns \in ReviewNamespaces /\ c.first \in Nat /\ c.last \in Nat
         /\ c.first >= 1 /\ c.last <= ReviewEvents /\ c.first <= c.last
         /\ Corpus!WindowOf(c) = c.id
BY DEF ReviewBounds, Item, Corpus!WindowOf

(* What the identity of a window consists of.                              *)
LEMMA WindowFields ==
  ASSUME ReviewBounds, NEW w \in Corpus!AllWindows
  PROVE  w[1] \in ReviewNamespaces /\ w[2] \in Nat /\ w[3] \in Nat /\ w[3] <= ReviewEvents
BY DEF ReviewBounds, Corpus!AllWindows

(* The identities are the windows themselves.                              *)
LEMMA IdsAreWindows ==
  Corpus!Ids = Corpus!AllWindows
<1>1. \A w \in Corpus!AllWindows : w = <<w[1], w[2], w[3]>>
  BY DEF Corpus!AllWindows
<1> QED BY <1>1 DEF Corpus!Ids, Corpus!Identity

(* A candidate that is made for a window has these fields.                 *)
LEMMA CandidateMade ==
  ASSUME ReviewBounds, NEW ns \in ReviewNamespaces, NEW first \in 1..ReviewEvents,
         NEW last \in 1..ReviewEvents, first <= last
  PROVE  /\ Corpus!Candidate(ns, first, last) \in Item
         /\ Corpus!Candidate(ns, first, last).id = <<ns, first, last>>
         /\ Corpus!Candidate(ns, first, last).ns = ns
         /\ Corpus!Candidate(ns, first, last).first = first
         /\ Corpus!Candidate(ns, first, last).last = last
<1>1. <<ns, first, last>> \in Corpus!AllWindows
  BY DEF Corpus!AllWindows
<1> QED BY <1>1 DEF Corpus!Candidate, Corpus!Identity, Item

(* Rows that follow each other have different identities.                  *)
LEMMA SortedUnique ==
  ASSUME ReviewBounds, NEW rows \in Seq(Item), Sorted(rows)
  PROVE  \A i, j \in DOMAIN rows : rows[i].id = rows[j].id => i = j
<1> SUFFICES ASSUME NEW i \in DOMAIN rows, NEW j \in DOMAIN rows, rows[i].id = rows[j].id, i < j
             PROVE  FALSE
  <2>1. DOMAIN rows = 1..Len(rows) /\ Len(rows) \in Nat
    OBVIOUS
  <2> QED BY <2>1
<1>1. rows[i] \in Item /\ rows[j] \in Item
  OBVIOUS
<1>2. rows[i].ns = rows[j].ns /\ rows[i].first = rows[j].first
  BY <1>1, ItemFields
<1> QED BY <1>1, <1>2, ItemFields DEF Sorted

(* Window k of a namespace with so many events.                            *)
IsWindow(ns, count, k, c) ==
  /\ k \in Nat \ {0} /\ c.ns = ns /\ c.first = (k - 1) * Window + 1
  /\ c.last = (IF k * Window > count THEN count ELSE k * Window)
  /\ c.last <= count /\ c.id = <<ns, c.first, c.last>>

(* The windows of one namespace.                                           *)
LEMMA WindowsMade ==
  ASSUME ReviewBounds, NEW ns \in ReviewNamespaces, NEW count \in 0..ReviewEvents
  PROVE  /\ Corpus!Windows(ns, count) \in Seq(Item)
         /\ Sorted(Corpus!Windows(ns, count))
         /\ \A k \in Nat \ {0} :
              k \in DOMAIN Corpus!Windows(ns, count) <=> (k - 1) * Window < count
         /\ \A k \in DOMAIN Corpus!Windows(ns, count) :
              IsWindow(ns, count, k, Corpus!Windows(ns, count)[k])
<1> DEFINE q == (count + Window - 1) \div Window
           rows == Corpus!Windows(ns, count)
           First(k) == (k - 1) * Window + 1
           Last(k) == IF k * Window > count THEN count ELSE k * Window
<1>0. Window \in Nat \ {0} /\ ReviewEvents \in Nat /\ count \in Nat
  BY DEF ReviewBounds
<1>1. q \in Nat /\ \A k \in Nat \ {0} : k \in 1..q <=> (k - 1) * Window < count
  BY <1>0, WindowPlaces
<1>2. rows = [k \in 1..q |-> Corpus!Candidate(ns, First(k), Last(k))]
  BY DEF Corpus!Windows
<1> HIDE DEF q, rows
<1>3. ASSUME NEW k \in 1..q
      PROVE  /\ k * Window \in Nat /\ (k - 1) * Window \in Nat /\ (k - 1) * Window < count
             /\ (k - 1) * Window = k * Window - Window
  <2>1. k \in Nat \ {0} /\ k - 1 \in Nat
    BY <1>1
  <2>2. (k - 1) * Window < count
    BY <1>1, <2>1
  <2>3. (k - 1) * Window = k * Window - Window /\ k * Window \in Nat
    BY <1>0, <2>1
  <2>4. (k - 1) * Window \in Nat
    BY <1>0, <2>1
  <2> QED BY <2>2, <2>3, <2>4
<1>4. ASSUME NEW k \in 1..q
      PROVE  /\ First(k) \in 1..ReviewEvents /\ Last(k) \in 1..ReviewEvents
             /\ First(k) <= Last(k) /\ Last(k) <= count
  BY <1>0, <1>3
<1>5. ASSUME NEW k \in 1..q
      PROVE  /\ rows[k] \in Item /\ rows[k].ns = ns /\ rows[k].first = First(k)
             /\ rows[k].last = Last(k) /\ rows[k].id = <<ns, First(k), Last(k)>>
  <2>1. rows[k] = Corpus!Candidate(ns, First(k), Last(k))
    BY <1>2
  <2>2. First(k) \in 1..ReviewEvents /\ Last(k) \in 1..ReviewEvents /\ First(k) <= Last(k)
    BY <1>4
  <2> HIDE DEF First, Last
  <2> QED BY <2>1, <2>2, CandidateMade
<1>6. rows \in Seq(Item) /\ DOMAIN rows = 1..q
  BY <1>1, <1>2, <1>5
<1>7. Sorted(rows)
  <2> SUFFICES ASSUME NEW i \in 1..q, NEW j \in 1..q, i < j
               PROVE  Last(i) < First(j)
    <3> HIDE DEF First, Last
    <3> QED BY <1>5, <1>6 DEF Sorted
  <2>1. i * Window <= (j - 1) * Window
    <3>1. i \in Nat /\ j \in Nat
      BY <1>1
    <3> QED BY <1>0, <3>1, Multiples
  <2>2. Last(i) <= i * Window
    BY <1>0, <1>3
  <2>3. i * Window \in Nat /\ (j - 1) * Window \in Nat /\ Last(i) \in Nat
    BY <1>0, <1>3
  <2> QED BY <2>1, <2>2, <2>3
<1>8. \A k \in Nat \ {0} : k \in DOMAIN rows <=> (k - 1) * Window < count
  BY <1>1, <1>6
<1>9. ASSUME NEW k \in DOMAIN rows
      PROVE  IsWindow(ns, count, k, rows[k])
  <2>1. k \in 1..q /\ k \in Nat \ {0}
    BY <1>1, <1>6
  <2> QED BY <1>4, <1>5, <2>1 DEF IsWindow
<1> QED BY <1>6, <1>7, <1>8, <1>9 DEF rows

(* A window that is live with one more event was live before, if its own   *)
(* events were there.                                                      *)
LEMMA LiveBefore ==
  ASSUME ReviewBounds, NEW count \in [ReviewNamespaces -> 0..ReviewEvents],
         NEW ns \in ReviewNamespaces, count[ns] < ReviewEvents,
         NEW w \in Corpus!AllWindows, w[3] <= count[w[1]],
         Live(w, [count EXCEPT ![ns] = @ + 1])
  PROVE  Live(w, count)
<1> DEFINE next == [count EXCEPT ![ns] = @ + 1]
<1>0. Window \in Nat \ {0} /\ ReviewEvents \in Nat /\ w[1] \in ReviewNamespaces /\ w[3] \in Nat
  BY WindowFields DEF ReviewBounds
<1>1. CASE w[1] # ns
  <2>1. next[w[1]] = count[w[1]]
    BY <1>0, <1>1
  <2> QED BY <2>1 DEF Live
<1>2. CASE w[1] = ns
  <2> DEFINE old == Corpus!Windows(ns, count[ns])
             new == Corpus!Windows(ns, count[ns] + 1)
  <2>0. count[ns] \in 0..ReviewEvents /\ count[ns] + 1 \in 0..ReviewEvents
    BY <1>0
  <2>1. next[ns] = count[ns] + 1
    BY <1>0
  <2>2. PICK k \in DOMAIN new : new[k].id = w
    <3> HIDE DEF next
    <3> QED BY <1>2, <2>1 DEF Live, next
  <2>3. IsWindow(ns, count[ns] + 1, k, new[k])
    BY <2>0, WindowsMade
  <2>4. /\ k \in Nat \ {0} /\ new[k].first = (k - 1) * Window + 1
         /\ new[k].last = (IF k * Window > count[ns] + 1 THEN count[ns] + 1 ELSE k * Window)
         /\ new[k].id = <<ns, new[k].first, new[k].last>>
    <3> HIDE DEF new
    <3> QED BY <2>3 DEF IsWindow
  <2>5. k * Window \in Nat /\ (k - 1) * Window \in Nat /\ (k - 1) * Window = k * Window - Window
    <3>1. k - 1 \in Nat
      BY <2>4
    <3> QED BY <1>0, <2>4, <3>1
  <2> HIDE DEF old, new
  <2>6. w[3] = new[k].last /\ w[2] = new[k].first
    BY <2>2, <2>4
  <2>7. k * Window <= count[ns] /\ w[3] = k * Window
    BY <1>0, <1>2, <2>0, <2>4, <2>5, <2>6
  <2>8. (k - 1) * Window < count[ns]
    BY <1>0, <2>0, <2>5, <2>7
  <2>9. k \in DOMAIN old
    BY <2>0, <2>4, <2>8, WindowsMade DEF old
  <2>10. IsWindow(ns, count[ns], k, old[k])
    BY <2>0, <2>9, WindowsMade DEF old
  <2>11. old[k].id = <<ns, (k - 1) * Window + 1, k * Window>>
    <3>1. /\ old[k].first = (k - 1) * Window + 1
          /\ old[k].last = (IF k * Window > count[ns] THEN count[ns] ELSE k * Window)
          /\ old[k].id = <<ns, old[k].first, old[k].last>>
      BY <2>9, <2>10 DEF IsWindow
    <3> QED BY <2>0, <2>5, <2>7, <3>1
  <2>12. w = <<ns, (k - 1) * Window + 1, k * Window>>
    BY <2>2, <2>4, <2>6, <2>7
  <2> QED BY <1>2, <2>9, <2>11, <2>12 DEF Live, old
<1> QED BY <1>1, <1>2

(* The cardinality that the review commands take is that of the library.   *)
LEMMA SameReviewCount ==
  ASSUME ReviewBounds
  PROVE  Corpus!Cardinality(ReviewNamespaces) = Cardinality(ReviewNamespaces)
BY DEF Corpus!Cardinality, Cardinality

(* The candidates of the namespaces up to k, when count was captured.      *)
BuiltUpTo(k, count, rows) ==
  /\ rows \in Seq(Item) /\ Sorted(rows) /\ Within(rows, count)
  /\ \A i \in DOMAIN rows : rows[i].ns <= k /\ Live(rows[i].id, count)
  /\ \A w \in Corpus!AllWindows :
       w[1] <= k /\ Live(w, count) => \E i \in DOMAIN rows : rows[i].id = w

(* One more namespace.                                                     *)
LEMMA BuiltNext ==
  ASSUME ReviewBounds, NEW count \in [ReviewNamespaces -> 0..ReviewEvents],
         NEW k \in ReviewNamespaces, NEW rows, BuiltUpTo(k - 1, count, rows)
  PROVE  BuiltUpTo(k, count, rows \o Corpus!Windows(k, count[k]))
<1> DEFINE more == Corpus!Windows(k, count[k])
           all == rows \o more
<1>0. k \in Nat \ {0} /\ count[k] \in 0..ReviewEvents /\ ReviewNamespaces \subseteq Nat
  <2>1. Cardinality(ReviewNamespaces) \in Nat
    BY FS_CardinalityType DEF ReviewBounds
  <2> QED BY <2>1 DEF ReviewBounds
<1>1. more \in Seq(Item) /\ Sorted(more)
  BY <1>0, WindowsMade
<1>2. \A i \in DOMAIN more : IsWindow(k, count[k], i, more[i])
  BY <1>0, WindowsMade
<1>3. \A i \in DOMAIN more : /\ more[i].ns = k /\ more[i].last <= count[k]
                             /\ more[i].id[1] = k
  BY <1>2 DEF IsWindow
<1> HIDE DEF more, all
<1>4. rows \in Seq(Item)
  BY DEF BuiltUpTo
<1>5. /\ all \in Seq(Item) /\ DOMAIN all = 1..(Len(rows) + Len(more))
      /\ Len(rows) \in Nat /\ Len(more) \in Nat
      /\ DOMAIN rows = 1..Len(rows) /\ DOMAIN more = 1..Len(more)
      /\ \A i \in DOMAIN all : IF i <= Len(rows) THEN i \in DOMAIN rows /\ all[i] = rows[i]
                               ELSE /\ i - Len(rows) \in DOMAIN more
                                    /\ all[i] = more[i - Len(rows)]
  BY <1>1, <1>4, ConcatProperties DEF all
<1>6. Sorted(all)
  <2> SUFFICES ASSUME NEW i \in DOMAIN all, NEW j \in DOMAIN all, i < j, all[i].ns = all[j].ns
               PROVE  all[i].last < all[j].first
    BY DEF Sorted
  <2>1. CASE j <= Len(rows)
    BY <1>5, <2>1 DEF BuiltUpTo, Sorted
  <2>2. CASE i <= Len(rows) /\ ~ (j <= Len(rows))
    <3>1. i \in DOMAIN rows /\ all[i] = rows[i] /\ all[j].ns = k
      BY <1>3, <1>5, <2>2
    <3>2. rows[i].ns <= k - 1 /\ rows[i].ns \in Nat
      <4>1. rows[i] \in Item
        BY <1>4, <3>1
      <4>2. rows[i].ns \in Nat
        BY <1>0, <4>1, ItemFields
      <4> QED BY <3>1, <4>2 DEF BuiltUpTo
    <3> QED BY <1>0, <3>1, <3>2
  <2>3. CASE ~ (i <= Len(rows))
    <3> DEFINE a == i - Len(rows)
               b == j - Len(rows)
    <3>1. a \in DOMAIN more /\ b \in DOMAIN more /\ a < b /\ all[i] = more[a] /\ all[j] = more[b]
      BY <1>5, <2>3
    <3> QED BY <1>1, <3>1 DEF Sorted
  <2> QED BY <1>5, <2>1, <2>2, <2>3
<1>7. Within(all, count)
  <2> SUFFICES ASSUME NEW i \in DOMAIN all
               PROVE  all[i].last <= count[all[i].ns]
    BY DEF Within
  <2>1. CASE i <= Len(rows)
    BY <1>5, <2>1 DEF BuiltUpTo, Within
  <2>2. CASE ~ (i <= Len(rows))
    BY <1>3, <1>5, <2>2
  <2> QED BY <2>1, <2>2
<1>8. ASSUME NEW i \in DOMAIN all
      PROVE  all[i].ns <= k /\ Live(all[i].id, count)
  <2>1. CASE i <= Len(rows)
    <3>1. rows[i] \in Item /\ all[i] = rows[i] /\ rows[i].ns <= k - 1 /\ Live(rows[i].id, count)
      BY <1>4, <1>5, <2>1 DEF BuiltUpTo
    <3>2. rows[i].ns \in Nat
      BY <1>0, <3>1, ItemFields
    <3> QED BY <1>0, <3>1, <3>2
  <2>2. CASE ~ (i <= Len(rows))
    <3> DEFINE a == i - Len(rows)
    <3>1. a \in DOMAIN more /\ all[i] = more[a]
      BY <1>5, <2>2
    <3>2. more[a].id[1] = k
      BY <1>3, <3>1
    <3>3. Live(more[a].id, count)
      BY <3>1, <3>2 DEF Live, more
    <3> QED BY <1>0, <1>3, <3>1, <3>3
  <2> QED BY <2>1, <2>2
<1>9. ASSUME NEW w \in Corpus!AllWindows, w[1] <= k, Live(w, count)
      PROVE  \E i \in DOMAIN all : all[i].id = w
  <2>0. w[1] \in Nat
    BY <1>0, WindowFields
  <2>1. CASE w[1] = k
    <3>1. PICK a \in DOMAIN more : more[a].id = w
      BY <1>9, <2>1 DEF Live, more
    <3> DEFINE i == Len(rows) + a
    <3>2. i \in DOMAIN all /\ ~ (i <= Len(rows)) /\ i - Len(rows) = a
      BY <1>5
    <3>3. all[i] = more[a]
      <4> HIDE DEF i
      <4> QED BY <1>5, <3>2
    <3> QED BY <3>1, <3>2, <3>3
  <2>2. CASE w[1] # k
    <3>1. w[1] <= k - 1
      BY <1>0, <1>9, <2>0, <2>2
    <3>2. PICK i \in DOMAIN rows : rows[i].id = w
      BY <1>9, <3>1 DEF BuiltUpTo
    <3>3. i \in DOMAIN all /\ i <= Len(rows)
      BY <1>5
    <3>4. all[i] = rows[i]
      BY <1>5, <3>3
    <3> QED BY <3>2, <3>3, <3>4
  <2> QED BY <2>1, <2>2
<1>10. BuiltUpTo(k, count, all)
  BY <1>5, <1>6, <1>7, <1>8, <1>9 DEF BuiltUpTo
<1> QED BY <1>10 DEF all, more

(* What a build makes: every live window and nothing else, in order.       *)
LEMMA Built ==
  ASSUME ReviewBounds, captured \in [ReviewNamespaces -> 0..ReviewEvents]
  PROVE  /\ Corpus!BuiltCandidates \in Seq(Item) /\ Sorted(Corpus!BuiltCandidates)
         /\ Within(Corpus!BuiltCandidates, captured)
         /\ \A i \in DOMAIN Corpus!BuiltCandidates :
              Live(Corpus!BuiltCandidates[i].id, captured)
         /\ \A w \in Corpus!AllWindows : Live(w, captured) =>
              \E i \in DOMAIN Corpus!BuiltCandidates : Corpus!BuiltCandidates[i].id = w
<1> DEFINE n == Corpus!Cardinality(ReviewNamespaces)
           step == [p \in (1..n) \X Seq(Item) |->
                      p[2] \o Corpus!Windows(p[1], captured[p[1]])]
           upto == CHOOSE upto : upto = [ns \in 0..Corpus!Cardinality(ReviewNamespaces) |->
                     IF ns = 0 THEN << >>
                     ELSE upto[ns - 1] \o Corpus!Windows(ns, captured[ns])]
<1>0. n \in Nat /\ ReviewNamespaces = 1..n /\ << >> \in Seq(Item)
  BY SameReviewCount, FS_CardinalityType DEF ReviewBounds
<1>1. Corpus!BuiltCandidates = upto[n]
  BY DEF Corpus!BuiltCandidates
<1> HIDE DEF n
<1>2. \A ns \in 1..n : Corpus!Windows(ns, captured[ns]) \in Seq(Item)
  BY <1>0, WindowsMade
<1>3. step \in [(1..n) \X Seq(Item) -> Seq(Item)]
  BY <1>2, ConcatProperties
<1>4. PICK f \in [0..n -> Seq(Item)] : RunOf(n, << >>, step, f)
  <2> HIDE DEF step
  <2> QED BY <1>0, <1>3, RunExists
<1>5. f = [ns \in 0..n |-> IF ns = 0 THEN << >>
                           ELSE f[ns - 1] \o Corpus!Windows(ns, captured[ns])]
  <2>1. ASSUME NEW i \in 1..n
        PROVE  f[i] = f[i - 1] \o Corpus!Windows(i, captured[i])
    <3>1. f[i - 1] \in Seq(Item)
      BY <1>0, <1>4
    <3>2. step[<<i, f[i - 1]>>] = f[i - 1] \o Corpus!Windows(i, captured[i])
      BY <3>1
    <3>3. f[i] = step[<<i, f[i - 1]>>]
      <4> HIDE DEF step
      <4> QED BY <1>0, <1>4 DEF RunOf
    <3> QED BY <3>2, <3>3
  <2>2. f[0] = << >>
    <3> HIDE DEF step
    <3> QED BY <1>0, <1>4 DEF RunOf
  <2> HIDE DEF step
  <2>3. ASSUME NEW i \in 0..n
        PROVE  f[i] = IF i = 0 THEN << >>
                      ELSE f[i - 1] \o Corpus!Windows(i, captured[i])
    <3>1. i = 0 \/ i \in 1..n
      BY <1>0
    <3> QED BY <2>1, <2>2, <3>1
  <2> QED BY <1>4, <2>3
<1>6. upto = [ns \in 0..n |-> IF ns = 0 THEN << >>
                              ELSE upto[ns - 1] \o Corpus!Windows(ns, captured[ns])]
  BY <1>5 DEF n
<1> HIDE DEF upto, step
<1>7. \A i \in 0..n : upto[i] = IF i = 0 THEN << >>
                                ELSE upto[i - 1] \o Corpus!Windows(i, captured[i])
  BY <1>6, Zenon
<1> DEFINE T == {k \in 0..n : BuiltUpTo(k, captured, upto[k])}
<1>8. 0 \in T
  <2>1. upto[0] = << >>
    BY <1>0, <1>7
  <2>2. \A w \in Corpus!AllWindows : ~ (w[1] <= 0)
    BY <1>0, WindowFields
  <2>3. BuiltUpTo(0, captured, << >>)
    BY <1>0, <2>2 DEF BuiltUpTo, Sorted, Within
  <2> QED BY <1>0, <2>1, <2>3
<1>9. ASSUME NEW k \in 1..n, k - 1 \in T
      PROVE  k \in T
  <2>1. BuiltUpTo(k - 1, captured, upto[k - 1])
    BY <1>9
  <2>2. upto[k] = upto[k - 1] \o Corpus!Windows(k, captured[k])
    <3>1. k \in 0..n /\ k # 0
      BY <1>0
    <3> HIDE DEF T
    <3> QED BY <1>7, <3>1
  <2>3. BuiltUpTo(k, captured, upto[k])
    BY <1>0, <2>1, <2>2, BuiltNext
  <2> QED BY <2>3
<1>10. \A k \in 0..n : k \in T
  <2> HIDE DEF T
  <2> QED BY <1>0, <1>8, <1>9, Climb
<1>11. BuiltUpTo(n, captured, upto[n])
  BY <1>0, <1>10
<1>12. \A w \in Corpus!AllWindows : w[1] <= n
  BY <1>0, WindowFields
<1> HIDE DEF T
<1> QED BY <1>1, <1>11, <1>12 DEF BuiltUpTo

(***************************************************************************)
(* Abstaining behind a gap.                                                *)
(***************************************************************************)

(* Event e lies in window j of the namespace.                              *)
CoversAt(window, j, ns, e) == window[j].ns = ns /\ e \in window[j].first .. window[j].last

(* An event before window i lies in no window of its namespace.            *)
BehindAGap(window, i) ==
  \E e \in 1 .. (window[i].first - 1) :
    \A j \in DOMAIN window : ~ CoversAt(window, j, window[i].ns, e)

(* The states of the engine across the trajectories of a corpus.           *)
Across == [last : [ReviewNamespaces -> Nat], abstained : SUBSET Corpus!AllWindows]

(* The events of a namespace up to its last sequence were seen, and the    *)
(* next one was not.                                                       *)
SeenUpTo(window, k, last) ==
  \A ns \in ReviewNamespaces :
    /\ last[ns] # 0 => \E j \in 1..k : window[j].ns = ns /\ window[j].last = last[ns]
    /\ \A e \in 1..last[ns] : \E j \in 1..k : CoversAt(window, j, ns, e)
    /\ \A j \in 1..k : ~ CoversAt(window, j, ns, last[ns] + 1)

(* After k windows exactly those behind a gap were abstained on.           *)
AbstainedTo(window, k, st) ==
  /\ st \in Across
  /\ SeenUpTo(window, k, st.last)
  /\ \A w \in st.abstained : \E j \in 1..k : window[j].id = w
  /\ \A i \in 1..k : window[i].id \in st.abstained <=> BehindAGap(window, i)

(* What a step of the engine does.                                         *)
LEMMA TrajectoryFields ==
  ASSUME ReviewBounds, NEW row, NEW c \in Item, row.candidate = c, NEW st \in Across,
         NEW next, next = Corpus!StepTrajectory(row, st)
  PROVE  /\ next \in Across
         /\ c.first # st.last[c.ns] + 1 =>
              next.last = st.last /\ next.abstained = st.abstained \union {c.id}
         /\ c.first = st.last[c.ns] + 1 =>
              next.last = [st.last EXCEPT ![c.ns] = c.last] /\ next.abstained = st.abstained
<1> DEFINE gap == c.first # st.last[c.ns] + 1
           last == [st.last EXCEPT ![c.ns] = IF gap THEN @ ELSE c.last]
           abstained == IF gap THEN st.abstained \union {c.id} ELSE st.abstained
<1>1. next = [last |-> last, abstained |-> abstained]
  BY DEF Corpus!StepTrajectory
<1>2. c.ns \in ReviewNamespaces /\ c.last \in Nat /\ c.id \in Corpus!AllWindows
  BY ItemFields
<1>3. st.last \in [ReviewNamespaces -> Nat] /\ st.abstained \in SUBSET Corpus!AllWindows
  BY DEF Across
<1>4. last \in [ReviewNamespaces -> Nat] /\ abstained \in SUBSET Corpus!AllWindows
  BY <1>2, <1>3
<1>5. gap => last = st.last
  BY <1>3
<1>6. ~gap => last = [st.last EXCEPT ![c.ns] = c.last]
  OBVIOUS
<1>7. [last |-> last, abstained |-> abstained] \in Across
  <2> HIDE DEF last, abstained
  <2> QED BY <1>4 DEF Across
<1> QED BY <1>1, <1>5, <1>6, <1>7

(* One more trajectory.                                                    *)
LEMMA AbstainedNext ==
  ASSUME ReviewBounds, NEW window \in Seq(Item), Sorted(window), NEW k \in 1..Len(window),
         NEW row, row.candidate = window[k], NEW st, AbstainedTo(window, k - 1, st)
  PROVE  AbstainedTo(window, k, Corpus!StepTrajectory(row, st))
<1> DEFINE c == window[k]
           seen == st.last[c.ns]
           next == Corpus!StepTrajectory(row, st)
<1>0. /\ k \in Nat \ {0} /\ k \in DOMAIN window /\ DOMAIN window = 1..Len(window)
      /\ Len(window) \in Nat /\ ReviewNamespaces \subseteq Nat
      /\ \A j \in DOMAIN window : window[j] \in Item
  <2>1. Cardinality(ReviewNamespaces) \in Nat
    BY FS_CardinalityType DEF ReviewBounds
  <2> QED BY <2>1 DEF ReviewBounds
<1>1. /\ c \in Item /\ c.ns \in ReviewNamespaces /\ c.first \in Nat /\ c.last \in Nat
      /\ c.first >= 1 /\ c.first <= c.last
  BY <1>0, ItemFields
<1>2. st \in Across /\ st.last \in [ReviewNamespaces -> Nat] /\ seen \in Nat
  BY <1>1 DEF AbstainedTo, Across
<1>3. \A j \in DOMAIN window : /\ window[j].first \in Nat /\ window[j].last \in Nat
                               /\ window[j].ns \in ReviewNamespaces
                               /\ window[j].first <= window[j].last
  BY <1>0, ItemFields
<1>4. \A i, j \in DOMAIN window :
         i < j /\ window[i].ns = window[j].ns => window[i].last < window[j].first
  BY DEF Sorted
<1>5. \A j \in 1..(k - 1) : j \in DOMAIN window /\ j < k /\ window[j].id # c.id
  BY <1>0, SortedUnique
<1>6. SeenUpTo(window, k - 1, st.last)
  BY DEF AbstainedTo
<1>7. seen < c.first
  <2>1. CASE seen = 0
    BY <1>1, <2>1
  <2>2. CASE seen # 0
    <3>1. PICK j \in 1..(k - 1) : window[j].ns = c.ns /\ window[j].last = seen
      BY <1>1, <1>6, <2>2 DEF SeenUpTo
    <3> QED BY <1>0, <1>4, <1>5, <3>1
  <2> QED BY <2>1, <2>2
<1>8. /\ next \in Across
      /\ c.first # seen + 1 =>
           next.last = st.last /\ next.abstained = st.abstained \union {c.id}
      /\ c.first = seen + 1 => /\ next.last = [st.last EXCEPT ![c.ns] = c.last]
                               /\ next.abstained = st.abstained
  BY <1>1, <1>2, TrajectoryFields
<1> HIDE DEF next
<1>9. \A i \in 1..k : i = k \/ i \in 1..(k - 1)
  BY <1>0
<1>10. SeenUpTo(window, k, next.last)
  <2> SUFFICES ASSUME NEW ns \in ReviewNamespaces
               PROVE  /\ next.last[ns] # 0 =>
                           \E j \in 1..k : window[j].ns = ns /\ window[j].last = next.last[ns]
                      /\ \A e \in 1..next.last[ns] : \E j \in 1..k : CoversAt(window, j, ns, e)
                      /\ \A j \in 1..k : ~ CoversAt(window, j, ns, next.last[ns] + 1)
    BY DEF SeenUpTo
  <2>0. /\ st.last[ns] \in Nat
        /\ st.last[ns] # 0 =>
             \E j \in 1..(k - 1) : window[j].ns = ns /\ window[j].last = st.last[ns]
        /\ \A e \in 1..st.last[ns] : \E j \in 1..(k - 1) : CoversAt(window, j, ns, e)
        /\ \A j \in 1..(k - 1) : ~ CoversAt(window, j, ns, st.last[ns] + 1)
    BY <1>2, <1>6 DEF SeenUpTo
  <2>1. 1..(k - 1) \subseteq 1..k /\ k \in 1..k
    BY <1>0
  <2>2. CASE ns # c.ns
    <3>1. next.last[ns] = st.last[ns]
      BY <1>2, <1>8, <2>2
    <3>2. ~ CoversAt(window, k, ns, st.last[ns] + 1)
      BY <2>2 DEF CoversAt
    <3> QED BY <1>9, <2>0, <2>1, <3>1, <3>2
  <2>3. CASE ns = c.ns /\ c.first # seen + 1
    <3>1. next.last[ns] = st.last[ns]
      BY <1>8, <2>3
    <3>2. ~ CoversAt(window, k, ns, st.last[ns] + 1)
      BY <1>1, <1>2, <1>7, <2>3 DEF CoversAt
    <3> QED BY <1>9, <2>0, <2>1, <3>1, <3>2
  <2>4. CASE ns = c.ns /\ c.first = seen + 1
    <3>1. next.last[ns] = c.last
      BY <1>2, <1>8, <2>4
    <3>2. ASSUME NEW e \in 1..c.last
          PROVE  \E j \in 1..k : CoversAt(window, j, ns, e)
      <4>1. CASE e <= seen
        <5>1. e \in 1..st.last[ns]
          BY <1>2, <2>4, <4>1
        <5> QED BY <2>0, <2>1, <5>1
      <4>2. CASE ~ (e <= seen)
        <5>1. CoversAt(window, k, ns, e)
          BY <1>1, <1>2, <2>4, <4>2 DEF CoversAt
        <5> QED BY <2>1, <5>1
      <4> QED BY <4>1, <4>2
    <3>3. ASSUME NEW j \in 1..k
          PROVE  ~ CoversAt(window, j, ns, c.last + 1)
      <4>1. CASE j = k
        BY <1>1, <4>1 DEF CoversAt
      <4>2. CASE j \in 1..(k - 1)
        <5>1. window[j].ns = c.ns => window[j].last < c.first
          BY <1>0, <1>4, <1>5, <4>2
        <5>2. window[j].last \in Nat
          BY <1>3, <1>5, <4>2
        <5> QED BY <1>1, <2>4, <5>1, <5>2 DEF CoversAt
      <4> QED BY <1>9, <4>1, <4>2
    <3> QED BY <2>1, <2>4, <3>1, <3>2, <3>3
  <2> QED BY <2>2, <2>3, <2>4
<1>11. \A w \in next.abstained : \E j \in 1..k : window[j].id = w
  <2>1. \A w \in st.abstained : \E j \in 1..(k - 1) : window[j].id = w
    BY DEF AbstainedTo
  <2>2. 1..(k - 1) \subseteq 1..k /\ k \in 1..k
    BY <1>0
  <2>3. next.abstained \subseteq st.abstained \union {c.id}
    BY <1>8
  <2> QED BY <2>1, <2>2, <2>3
<1>12. c.id \in next.abstained <=> BehindAGap(window, k)
  <2>1. CASE c.first # seen + 1
    <3>1. seen + 1 \in 1..(c.first - 1)
      BY <1>1, <1>2, <1>7, <2>1
    <3>2. ASSUME NEW j \in DOMAIN window
          PROVE  ~ CoversAt(window, j, c.ns, seen + 1)
      <4>1. CASE j \in 1..(k - 1)
        BY <1>1, <1>6, <4>1 DEF SeenUpTo
      <4>2. CASE j = k
        BY <1>1, <1>2, <1>7, <2>1, <4>2 DEF CoversAt
      <4>3. CASE k < j
        <5>1. window[j].ns = c.ns => c.last < window[j].first
          BY <1>0, <1>4, <4>3
        <5>2. window[j].first \in Nat
          BY <1>3
        <5>3. window[j].ns = c.ns => seen + 1 < window[j].first
          BY <1>1, <1>2, <1>7, <5>1, <5>2
        <5>4. seen + 1 \in Nat
          BY <1>2
        <5> HIDE DEF seen, c
        <5> QED BY <5>2, <5>3, <5>4 DEF CoversAt
      <4> QED BY <1>0, <4>1, <4>2, <4>3
    <3> QED BY <1>8, <2>1, <3>1, <3>2 DEF BehindAGap
  <2>2. CASE c.first = seen + 1
    <3>1. c.id \notin next.abstained
      <4>1. \A w \in st.abstained : \E j \in 1..(k - 1) : window[j].id = w
        BY DEF AbstainedTo
      <4> QED BY <1>5, <1>8, <2>2, <4>1
    <3>2. ASSUME NEW e \in 1..(c.first - 1)
          PROVE  \E j \in DOMAIN window : CoversAt(window, j, c.ns, e)
      <4>1. e \in 1..st.last[c.ns]
        BY <1>1, <1>2, <2>2
      <4>2. PICK j \in 1..(k - 1) : CoversAt(window, j, c.ns, e)
        BY <1>1, <1>6, <4>1 DEF SeenUpTo
      <4> QED BY <1>5, <4>2
    <3> QED BY <3>1, <3>2 DEF BehindAGap
  <2> QED BY <2>1, <2>2
<1>13. \A i \in 1..(k - 1) : window[i].id \in next.abstained <=> BehindAGap(window, i)
  <2>1. \A i \in 1..(k - 1) : window[i].id \in st.abstained <=> BehindAGap(window, i)
    BY DEF AbstainedTo
  <2>2. \A i \in 1..(k - 1) : window[i].id \in next.abstained <=> window[i].id \in st.abstained
    BY <1>5, <1>8
  <2> QED BY <2>1, <2>2
<1>14. \A i \in 1..k : window[i].id \in next.abstained <=> BehindAGap(window, i)
  BY <1>9, <1>12, <1>13
<1> QED BY <1>8, <1>10, <1>11, <1>14 DEF AbstainedTo, next

(* The engine abstains exactly on the windows of a corpus behind a gap.    *)
LEMMA AbstainsBehindGaps ==
  ASSUME ReviewBounds, NEW X, NEW rows \in Seq([candidate : Item, review : X]),
         NEW window, window = [i \in DOMAIN rows |-> rows[i].candidate], Sorted(window)
  PROVE  \A i \in DOMAIN window :
           window[i].id \in Corpus!Abstained(rows) <=> BehindAGap(window, i)
<1> DEFINE n == Len(rows)
           first == [last |-> [ns \in ReviewNamespaces |-> 0], abstained |-> {}]
           step == [p \in (1..n) \X Across |-> Corpus!StepTrajectory(rows[p[1]], p[2])]
           after == CHOOSE after : after = [i \in 0..Len(rows) |->
                      IF i = 0 THEN [last |-> [ns \in ReviewNamespaces |-> 0], abstained |-> {}]
                      ELSE Corpus!StepTrajectory(rows[i], after[i - 1])]
<1>0. /\ n \in Nat /\ DOMAIN rows = 1..n
      /\ \A i \in 1..n : rows[i].candidate \in Item /\ window[i] = rows[i].candidate
      /\ window \in Seq(Item) /\ Len(window) = n /\ DOMAIN window = 1..n
  <2>1. n \in Nat /\ DOMAIN rows = 1..n
    OBVIOUS
  <2>2. \A i \in 1..n : rows[i] \in [candidate : Item, review : X]
    <3> DEFINE R == [candidate : Item, review : X]
    <3>1. rows \in Seq(R)
      OBVIOUS
    <3> HIDE DEF R
    <3>2. \A i \in 1..n : rows[i] \in R
      BY <3>1, ElementOfSeq
    <3> QED BY <3>2 DEF R
  <2>3. \A i \in 1..n : rows[i].candidate \in Item
    BY <2>2
  <2> HIDE DEF n
  <2>4. window = [i \in 1..n |-> rows[i].candidate]
    BY <2>1
  <2>5. window \in Seq(Item) /\ Len(window) = n /\ DOMAIN window = 1..n
    BY <2>1, <2>3, <2>4
  <2> QED BY <2>1, <2>3, <2>4, <2>5
<1>1. Corpus!Abstained(rows) = after[n].abstained
  BY DEF Corpus!Abstained
<1> HIDE DEF n
<1>2. first \in Across
  BY DEF Across
<1>3. step \in [(1..n) \X Across -> Across]
  <2>1. \A i \in 1..n, st \in Across : Corpus!StepTrajectory(rows[i], st) \in Across
    BY <1>0, TrajectoryFields
  <2> QED BY <2>1
<1> HIDE DEF first, step
<1>4. PICK f \in [0..n -> Across] : RunOf(n, first, step, f)
  BY <1>0, <1>2, <1>3, RunExists
<1>5. f = [i \in 0..n |-> IF i = 0 THEN first ELSE Corpus!StepTrajectory(rows[i], f[i - 1])]
  <2>1. ASSUME NEW i \in 1..n
        PROVE  f[i] = Corpus!StepTrajectory(rows[i], f[i - 1])
    <3>1. f[i - 1] \in Across
      BY <1>0, <1>4
    <3>2. step[<<i, f[i - 1]>>] = Corpus!StepTrajectory(rows[i], f[i - 1])
      BY <3>1 DEF step
    <3>3. f[i] = step[<<i, f[i - 1]>>]
      BY <1>0, <1>4 DEF RunOf
    <3> QED BY <3>2, <3>3
  <2>2. f[0] = first
    BY <1>0, <1>4 DEF RunOf
  <2>3. ASSUME NEW i \in 0..n
        PROVE  f[i] = IF i = 0 THEN first ELSE Corpus!StepTrajectory(rows[i], f[i - 1])
    <3>1. i = 0 \/ i \in 1..n
      BY <1>0
    <3> QED BY <2>1, <2>2, <3>1
  <2> QED BY <1>4, <2>3
<1>6. after = [i \in 0..n |->
                 IF i = 0 THEN first ELSE Corpus!StepTrajectory(rows[i], after[i - 1])]
  BY <1>5 DEF n, first
<1> HIDE DEF after
<1>7. \A i \in 0..n : after[i] = IF i = 0 THEN first
                                 ELSE Corpus!StepTrajectory(rows[i], after[i - 1])
  BY <1>6, Zenon
<1> DEFINE T == {k \in 0..n : AbstainedTo(window, k, after[k])}
<1>8. 0 \in T
  <2>1. after[0] = first
    BY <1>0, <1>7
  <2>2. first.last = [ns \in ReviewNamespaces |-> 0] /\ first.abstained = {}
    BY DEF first
  <2>3. AbstainedTo(window, 0, first)
    BY <1>2, <2>2 DEF AbstainedTo, SeenUpTo
  <2> QED BY <1>0, <2>1, <2>3
<1>9. ASSUME NEW k \in 1..n, k - 1 \in T
      PROVE  k \in T
  <2>1. AbstainedTo(window, k - 1, after[k - 1])
    BY <1>9
  <2>2. after[k] = Corpus!StepTrajectory(rows[k], after[k - 1])
    <3>1. k \in 0..n /\ k # 0
      BY <1>0
    <3> HIDE DEF T
    <3> QED BY <1>7, <3>1
  <2>3. AbstainedTo(window, k, after[k])
    <3>1. k \in 1..Len(window) /\ rows[k].candidate = window[k]
      BY <1>0
    <3> HIDE DEF T
    <3> QED BY <1>0, <2>1, <2>2, <3>1, AbstainedNext
  <2> QED BY <2>3
<1>10. \A k \in 0..n : k \in T
  <2> HIDE DEF T
  <2> QED BY <1>0, <1>8, <1>9, Climb
<1>11. AbstainedTo(window, n, after[n])
  BY <1>0, <1>10
<1> HIDE DEF T
<1> QED BY <1>0, <1>1, <1>11 DEF AbstainedTo

(***************************************************************************)
(* Reviews and the files that hold them.                                   *)
(***************************************************************************)

(* A review with a label, and any review of a file.                        *)
Verdict == [label : Corpus!Labels, lab : BOOLEAN, high : BOOLEAN]
AnyReview == [label : Corpus!Labels \union {"REVIEW_REQUIRED"}, lab : BOOLEAN, high : BOOLEAN]
ReviewRow == [id : Corpus!AllWindows, review : AnyReview]

(* Reviews by the window they are for.                                     *)
Verdicts == UNION {[D -> Verdict] : D \in SUBSET Corpus!AllWindows}

(* A file of such rows.                                                    *)
FileOf(S) == [there : BOOLEAN, whole : BOOLEAN, rows : Seq(S)]

(* What reviews by window are, also when there are none.                   *)
LEMMA VerdictsMade ==
  /\ \A D \in SUBSET Corpus!AllWindows : \A f \in [D -> Verdict] : f \in Verdicts /\ DOMAIN f = D
  /\ \A f \in Verdicts : /\ DOMAIN f \subseteq Corpus!AllWindows
                         /\ f \in [DOMAIN f -> Verdict]
                         /\ \A w \in DOMAIN f : f[w] \in Verdict
  /\ << >> \in Verdicts /\ DOMAIN << >> = {}
<1>1. \A D \in SUBSET Corpus!AllWindows : \A f \in [D -> Verdict] : f \in Verdicts /\ DOMAIN f = D
  BY DEF Verdicts
<1>2. ASSUME NEW f \in Verdicts
      PROVE  /\ DOMAIN f \subseteq Corpus!AllWindows /\ f \in [DOMAIN f -> Verdict]
             /\ \A w \in DOMAIN f : f[w] \in Verdict
  <2>1. PICK D \in SUBSET Corpus!AllWindows : f \in [D -> Verdict]
    BY DEF Verdicts
  <2> QED BY <2>1
<1>3. DOMAIN << >> = {}
  OBVIOUS
<1>4. << >> \in [{} -> Verdict]
  BY <1>3
<1>5. << >> \in Verdicts
  BY <1>1, <1>4
<1> QED BY <1>1, <1>2, <1>3, <1>5

(* A verdict is a review with a label, and the template is none.           *)
LEMMA ReviewKinds ==
  /\ \A r \in Verdict : r \in AnyReview /\ r.label \in Corpus!Labels
  /\ \A r \in AnyReview : r.label \in Corpus!Labels => r \in Verdict
  /\ Corpus!Required \in AnyReview /\ Corpus!Required.label \notin Corpus!Labels
BY DEF Verdict, AnyReview, Corpus!Required, Corpus!Labels

(* One more review.                                                        *)
LEMMA WithOne ==
  ASSUME NEW f \in Verdicts, NEW w \in Corpus!AllWindows, NEW r \in Verdict
  PROVE  /\ Corpus!With(f, w, r) \in Verdicts
         /\ DOMAIN Corpus!With(f, w, r) = DOMAIN f \union {w}
         /\ Corpus!With(f, w, r)[w] = r
         /\ \A v \in DOMAIN f : v # w => Corpus!With(f, w, r)[v] = f[v]
<1> DEFINE D == DOMAIN f \union {w}
           g == [i \in D |-> IF i = w THEN r ELSE f[i]]
<1>1. D \in SUBSET Corpus!AllWindows
  BY VerdictsMade
<1>2. g \in [D -> Verdict]
  BY VerdictsMade
<1>3. g \in Verdicts
  <2> HIDE DEF D, g
  <2> QED BY <1>1, <1>2, VerdictsMade
<1> QED BY <1>3 DEF Corpus!With

(* The reviews of a file.                                                  *)
LEMMA ReviewsRead ==
  ASSUME NEW rows \in Seq(ReviewRow)
  PROVE  /\ Corpus!ReviewsIn(rows) \in Verdicts
         /\ \A i \in Corpus!Labelled(rows) : rows[i].id \in DOMAIN Corpus!ReviewsIn(rows)
         /\ \A w \in DOMAIN Corpus!ReviewsIn(rows) : \E i \in Corpus!Labelled(rows) :
              rows[i].id = w /\ Corpus!ReviewsIn(rows)[w] = rows[i].review
<1> DEFINE L == Corpus!Labelled(rows)
           D == {rows[i].id : i \in L}
           f == [w \in D |-> rows[CHOOSE i \in L : rows[i].id = w].review]
<1>1. ASSUME NEW i \in L
      PROVE  rows[i].id \in Corpus!AllWindows /\ rows[i].review \in Verdict
  <2>1. i \in DOMAIN rows /\ rows[i].review.label \in Corpus!Labels
    BY DEF Corpus!Labelled
  <2>2. rows[i] \in ReviewRow
    BY <2>1
  <2>3. rows[i].id \in Corpus!AllWindows /\ rows[i].review \in AnyReview
    BY <2>2 DEF ReviewRow
  <2> QED BY <2>1, <2>3, ReviewKinds
<1> HIDE DEF L
<1>2. ASSUME NEW w \in D
      PROVE  \E i \in L : rows[i].id = w /\ f[w] = rows[i].review
  <2> DEFINE i == CHOOSE i \in L : rows[i].id = w
  <2>1. i \in L /\ rows[i].id = w
    OBVIOUS
  <2>2. f[w] = rows[i].review
    OBVIOUS
  <2> HIDE DEF i, f
  <2> QED BY <2>1, <2>2
<1>3. D \in SUBSET Corpus!AllWindows
  BY <1>1
<1>4. f \in [D -> Verdict]
  <2>1. \A w \in D : f[w] \in Verdict
    <3> HIDE DEF f, D
    <3> QED BY <1>1, <1>2
  <2> QED BY <2>1
<1>5. Corpus!ReviewsIn(rows) = f
  BY DEF Corpus!ReviewsIn, L
<1>6. f \in Verdicts /\ DOMAIN f = D
  <2> HIDE DEF f, D
  <2> QED BY <1>3, <1>4, VerdictsMade
<1>7. \A i \in L : rows[i].id \in D
  OBVIOUS
<1> HIDE DEF f, D
<1> QED BY <1>2, <1>5, <1>6, <1>7 DEF L

(* A row found by its identity.                                            *)
LEMMA RowFound ==
  ASSUME NEW rows, NEW w \in Corpus!IdsOf(rows)
  PROVE  \E i \in DOMAIN rows : Corpus!RowOf(rows, w) = rows[i] /\ rows[i].id = w
<1> DEFINE i == CHOOSE i \in DOMAIN rows : rows[i].id = w
<1>1. i \in DOMAIN rows /\ rows[i].id = w
  BY DEF Corpus!IdsOf
<1>2. Corpus!RowOf(rows, w) = rows[i]
  BY DEF Corpus!RowOf
<1> HIDE DEF i
<1> QED BY <1>1, <1>2

(* A file holds the first rows of what was written, or without a fault     *)
(* all of them.                                                            *)
LEMMA Writing ==
  ASSUME ReviewBounds, NEW S, NEW rows \in Seq(S), faults \in 0..MaxFaults,
         NEW w \in Corpus!Written(rows)
  PROVE  /\ w[1] \in FileOf(S) /\ w[1].there
         /\ Len(w[1].rows) \in 0..Len(rows)
         /\ \A i \in 1..Len(w[1].rows) : w[1].rows[i] = rows[i]
         /\ w[2] \in 0..MaxFaults /\ faults <= w[2]
         /\ w[2] = 0 => faults = 0 /\ w[1].rows = rows
<1>0. faults \in Nat /\ MaxFaults \in Nat
  BY DEF ReviewBounds
<1>1. CASE w = <<Corpus!Whole(rows), faults>>
  <2>1. w[1] = [there |-> TRUE, whole |-> TRUE, rows |-> rows] /\ w[2] = faults
    BY <1>1 DEF Corpus!Whole
  <2>2. w[1] \in FileOf(S) /\ w[1].there /\ w[1].rows = rows
    BY <2>1 DEF FileOf
  <2>3. Len(rows) \in 0..Len(rows)
    OBVIOUS
  <2> QED BY <1>0, <2>1, <2>2, <2>3
<1>2. CASE faults < MaxFaults /\ w \in Corpus!CutShort(rows) \X {faults + 1}
  <2>1. w[1] \in Corpus!CutShort(rows) /\ w[2] = faults + 1
    BY <1>2
  <2> DEFINE F(whole, n) == [there |-> TRUE, whole |-> whole, rows |-> SubSeq(rows, 1, n)]
  <2>2. w[1] \in {F(whole, n) : whole \in BOOLEAN, n \in 0..Len(rows)}
    BY <2>1 DEF Corpus!CutShort
  <2> HIDE DEF F
  <2>3. PICK whole \in BOOLEAN, n \in 0..Len(rows) : w[1] = F(whole, n)
    BY <2>2
  <2>4. \A i \in 1..n : rows[i] \in S
    OBVIOUS
  <2>5. /\ SubSeq(rows, 1, n) \in Seq(S) /\ Len(SubSeq(rows, 1, n)) = n
        /\ \A i \in 1..n : SubSeq(rows, 1, n)[i] = rows[i]
    BY <2>4, SubSeqProperties
  <2>6. w[1] \in FileOf(S) /\ w[1].there /\ w[1].rows = SubSeq(rows, 1, n)
    BY <2>3, <2>5 DEF FileOf, F
  <2>7. w[2] \in 0..MaxFaults /\ faults <= w[2] /\ w[2] # 0
    BY <1>0, <1>2, <2>1
  <2> QED BY <2>5, <2>6, <2>7
<1> QED BY <1>1, <1>2 DEF Corpus!Written

(* The file of the server holds what its memory holds of its queue.        *)
LEMMA MemoryKept ==
  ASSUME ReviewBounds, server.order \in Seq(Item), Sorted(server.order), NEW mem \in Verdicts
  PROVE  /\ Corpus!MemoryRows(mem) \in Seq(ReviewRow)
         /\ Corpus!IsUnique(Corpus!MemoryRows(mem))
         /\ \A i \in DOMAIN Corpus!MemoryRows(mem) :
              /\ Corpus!MemoryRows(mem)[i].id \in DOMAIN mem
              /\ Corpus!MemoryRows(mem)[i].review = mem[Corpus!MemoryRows(mem)[i].id]
         /\ \A w \in DOMAIN mem \intersect Corpus!IdsOf(server.order) :
              \E i \in Corpus!Labelled(Corpus!MemoryRows(mem)) :
                Corpus!MemoryRows(mem)[i].id = w
<1> DEFINE order == server.order
           places == {i \in DOMAIN order : order[i].id \in DOMAIN mem}
           kept == Corpus!Picked(order, places)
           rows == [i \in DOMAIN kept |-> [id |-> kept[i].id, review |-> mem[kept[i].id]]]
<1>1. Corpus!MemoryRows(mem) = rows
  BY DEF Corpus!MemoryRows
<1>2. places \in SUBSET DOMAIN order
  OBVIOUS
<1>3. kept \in Seq(Item) /\ \E from : InOrder(order, places, kept, from)
  <2> HIDE DEF places, order
  <2> QED BY <1>2, PickedRows DEF order
<1>4. PICK from : InOrder(order, places, kept, from)
  BY <1>3
<1>5. ASSUME NEW i \in DOMAIN kept
      PROVE  /\ from[i] \in DOMAIN order /\ kept[i] = order[from[i]]
             /\ kept[i].id \in DOMAIN mem /\ kept[i].id \in Corpus!AllWindows
             /\ mem[kept[i].id] \in Verdict
  <2> HIDE DEF kept
  <2>1. from[i] \in places /\ kept[i] = order[from[i]]
    BY <1>4 DEF InOrder
  <2>2. kept[i].id \in DOMAIN mem
    BY <2>1
  <2> HIDE DEF places
  <2> QED BY <1>2, <2>1, <2>2, VerdictsMade
<1> HIDE DEF kept
<1>6. DOMAIN kept = 1..Len(kept) /\ Len(kept) \in Nat
  BY <1>3
<1>7. ASSUME NEW i \in DOMAIN kept
      PROVE  /\ rows[i] \in ReviewRow /\ rows[i].id = kept[i].id
             /\ rows[i].review = mem[kept[i].id]
             /\ rows[i].review.label \in Corpus!Labels
  <2>1. rows[i] = [id |-> kept[i].id, review |-> mem[kept[i].id]]
    OBVIOUS
  <2>2. mem[kept[i].id] \in AnyReview /\ mem[kept[i].id].label \in Corpus!Labels
    BY <1>5, ReviewKinds
  <2> HIDE DEF rows
  <2> QED BY <1>5, <2>1, <2>2 DEF ReviewRow
<1>8. DOMAIN rows = DOMAIN kept /\ rows \in Seq(ReviewRow)
  <2>1. \A i \in 1..Len(kept) : rows[i] \in ReviewRow
    BY <1>6, <1>7
  <2>2. rows = [i \in 1..Len(kept) |-> rows[i]]
    BY <1>6
  <2>3. DOMAIN rows = DOMAIN kept
    OBVIOUS
  <2> HIDE DEF rows
  <2> QED BY <1>6, <2>1, <2>2, <2>3
<1> HIDE DEF rows
<1>9. Corpus!IsUnique(rows)
  <2> SUFFICES ASSUME NEW i \in DOMAIN kept, NEW j \in DOMAIN kept, rows[i].id = rows[j].id
               PROVE  i = j
    BY <1>8 DEF Corpus!IsUnique
  <2>1. order[from[i]].id = order[from[j]].id
    BY <1>5, <1>7
  <2>2. from[i] = from[j]
    BY <1>5, <2>1, SortedUnique
  <2>3. from[i] \in Nat /\ from[j] \in Nat
    BY <1>5
  <2>4. ~ (i < j) /\ ~ (j < i)
    BY <1>4, <2>2, <2>3 DEF InOrder
  <2> QED BY <1>6, <2>4
<1>10. ASSUME NEW w \in DOMAIN mem \intersect Corpus!IdsOf(order)
       PROVE  \E i \in Corpus!Labelled(rows) : rows[i].id = w
  <2>1. PICK p \in DOMAIN order : order[p].id = w
    BY DEF Corpus!IdsOf
  <2>2. p \in places
    BY <2>1
  <2>3. PICK i \in DOMAIN kept : from[i] = p
    BY <1>4, <2>2 DEF InOrder
  <2>4. i \in Corpus!Labelled(rows) /\ rows[i].id = w
    BY <1>5, <1>7, <1>8, <2>1, <2>3 DEF Corpus!Labelled
  <2> QED BY <2>4
<1>11. \A i \in DOMAIN rows : rows[i].id \in DOMAIN mem /\ rows[i].review = mem[rows[i].id]
  BY <1>5, <1>7, <1>8
<1> QED BY <1>1, <1>8, <1>9, <1>10, <1>11

(* A trajectory of the corpus: a candidate with its review.                *)
Trajectory == [candidate : Item, review : AnyReview]

(* Trajectories of one namespace follow each other.                        *)
InSequence(rows) ==
  \A i, j \in DOMAIN rows :
    i < j /\ rows[i].candidate.ns = rows[j].candidate.ns =>
      rows[i].candidate.last < rows[j].candidate.first

(* What an export takes from the candidates and from a file of reviews.    *)
LEMMA ReviewedRows ==
  ASSUME ReviewBounds, candidates.rows \in Seq(Item), Sorted(candidates.rows),
         NEW rows \in Seq(ReviewRow), Corpus!IdsOf(rows) = Corpus!IdsOf(candidates.rows)
  PROVE  /\ Corpus!Reviewed(rows) \in Seq(Trajectory)
         /\ InSequence(Corpus!Reviewed(rows))
         /\ \A i \in DOMAIN Corpus!Reviewed(rows) : \E j \in DOMAIN rows :
              /\ rows[j].id = Corpus!Reviewed(rows)[i].candidate.id
              /\ Corpus!Reviewed(rows)[i].review = rows[j].review
              /\ rows[j].review.label \in {"benign", "malicious"}
<1> DEFINE items == candidates.rows
           found(c) == Corpus!RowOf(rows, c.id).review
           places == {i \in DOMAIN items :
                        Corpus!RowOf(rows, items[i].id).review.label \in {"benign", "malicious"}}
           kept == Corpus!Picked(items, places)
           all == [i \in DOMAIN kept |->
                     [candidate |-> kept[i], review |-> Corpus!RowOf(rows, kept[i].id).review]]
<1>1. Corpus!Reviewed(rows) = all
  BY DEF Corpus!Reviewed
<1>2. places \in SUBSET DOMAIN items
  OBVIOUS
<1>3. kept \in Seq(Item) /\ \E from : InOrder(items, places, kept, from)
  <2> HIDE DEF places, items
  <2> QED BY <1>2, PickedRows DEF items
<1>4. PICK from : InOrder(items, places, kept, from)
  BY <1>3
<1>5. ASSUME NEW i \in DOMAIN kept
      PROVE  /\ from[i] \in DOMAIN items /\ kept[i] = items[from[i]] /\ kept[i] \in Item
             /\ found(kept[i]).label \in {"benign", "malicious"}
             /\ \E j \in DOMAIN rows :
                  rows[j].id = kept[i].id /\ found(kept[i]) = rows[j].review
  <2> HIDE DEF kept
  <2>1. from[i] \in places /\ kept[i] = items[from[i]]
    BY <1>4 DEF InOrder
  <2>2. from[i] \in DOMAIN items /\ found(kept[i]).label \in {"benign", "malicious"}
    BY <2>1
  <2>3. kept[i] \in Item
    BY <1>3
  <2>4. kept[i].id \in Corpus!IdsOf(rows)
    BY <2>1, <2>2 DEF Corpus!IdsOf
  <2>5. PICK j \in DOMAIN rows :
            Corpus!RowOf(rows, kept[i].id) = rows[j] /\ rows[j].id = kept[i].id
    BY <2>4, RowFound
  <2> QED BY <2>1, <2>2, <2>3, <2>5
<1> HIDE DEF kept
<1>6. DOMAIN kept = 1..Len(kept) /\ Len(kept) \in Nat
  BY <1>3
<1>7. ASSUME NEW i \in DOMAIN kept
      PROVE  /\ all[i] \in Trajectory /\ all[i].candidate = kept[i]
             /\ all[i].review = found(kept[i])
  <2>1. all[i] = [candidate |-> kept[i], review |-> found(kept[i])]
    OBVIOUS
  <2> HIDE DEF all, found
  <2>2. found(kept[i]) \in AnyReview
    <3>1. PICK j \in DOMAIN rows : found(kept[i]) = rows[j].review
      BY <1>5
    <3>2. rows[j] \in ReviewRow
      OBVIOUS
    <3> QED BY <3>1, <3>2 DEF ReviewRow
  <2> QED BY <1>5, <2>1, <2>2 DEF Trajectory
<1>8. DOMAIN all = DOMAIN kept /\ all \in Seq(Trajectory)
  <2>1. \A i \in 1..Len(kept) : all[i] \in Trajectory
    BY <1>6, <1>7
  <2>2. all = [i \in 1..Len(kept) |-> all[i]] /\ DOMAIN all = DOMAIN kept
    BY <1>6
  <2> HIDE DEF all
  <2> QED BY <1>6, <2>1, <2>2
<1> HIDE DEF all, found
<1>9. InSequence(all)
  <2> SUFFICES ASSUME NEW i \in DOMAIN kept, NEW j \in DOMAIN kept, i < j,
                      kept[i].ns = kept[j].ns
               PROVE  kept[i].last < kept[j].first
    BY <1>7, <1>8 DEF InSequence
  <2>1. from[i] < from[j]
    BY <1>4 DEF InOrder
  <2> QED BY <1>5, <2>1 DEF Sorted
<1>10. \A i \in DOMAIN all : \E j \in DOMAIN rows :
          /\ rows[j].id = all[i].candidate.id /\ all[i].review = rows[j].review
          /\ rows[j].review.label \in {"benign", "malicious"}
  <2> SUFFICES ASSUME NEW i \in DOMAIN kept
               PROVE  \E j \in DOMAIN rows :
                        /\ rows[j].id = all[i].candidate.id /\ all[i].review = rows[j].review
                        /\ rows[j].review.label \in {"benign", "malicious"}
    BY <1>8
  <2>1. all[i].candidate = kept[i] /\ all[i].review = found(kept[i])
    BY <1>7
  <2> QED BY <1>5, <2>1
<1> QED BY <1>1, <1>8, <1>9, <1>10

(* The window stays below the limit, a malicious label has a laboratory    *)
(* source, and the reviewer was confident.                                 *)
Conservative(w, review) ==
  /\ w[3] - w[2] + 1 < WindowLimit
  /\ review.label = "benign" \/ review.lab
  /\ review.high

(* A verdict that is taken back.                                           *)
LEMMA TakenBack ==
  ASSUME NEW review \in AnyReview,
         NEW less, less = [review EXCEPT !.label = "inconclusive", !.high = FALSE]
  PROVE  less \in AnyReview /\ less.label = "inconclusive"
<1>1. "inconclusive" \in Corpus!Labels \union {"REVIEW_REQUIRED"} /\ FALSE \in BOOLEAN
  BY DEF Corpus!Labels
<1> DEFINE kinds == Corpus!Labels \union {"REVIEW_REQUIRED"}
           bools == BOOLEAN
<1>2. review \in [label : kinds, lab : bools, high : bools]
  BY DEF AnyReview
<1>3. "inconclusive" \in kinds /\ FALSE \in bools
  BY <1>1
<1> HIDE DEF kinds, bools
<1>4. less \in [label : kinds, lab : bools, high : bools] /\ less.label = "inconclusive"
  BY <1>2, <1>3
<1> QED BY <1>4 DEF AnyReview, kinds, bools

(* The audit keeps a verdict or takes it back.                             *)
LEMMA RevisedRow ==
  ASSUME ReviewBounds, candidates.rows \in Seq(Item), NEW row \in ReviewRow,
         row.id \in Corpus!IdsOf(candidates.rows),
         NEW after, after = Corpus!Revised(row)
  PROVE  /\ after \in ReviewRow /\ after.id = row.id
         /\ after.review.label \in {"benign", "malicious"} =>
              after = row /\ Conservative(row.id, row.review)
<1> DEFINE c == Corpus!RowOf(candidates.rows, row.id)
           review == row.review
<1>1. c \in Item /\ c.id = row.id
  BY RowFound
<1>2. row.id[3] = c.last /\ row.id[2] = c.first /\ c.first \in Nat /\ c.last \in Nat
  BY <1>1, ItemFields
<1>3. review \in AnyReview
  BY DEF ReviewRow
<1> HIDE DEF c
<1>4. CASE Corpus!Ambiguous(c, review)
  <2> DEFINE less == [review EXCEPT !.label = "inconclusive", !.high = FALSE]
  <2>2. less \in AnyReview /\ less.label = "inconclusive"
    BY <1>3, TakenBack
  <2>3. after = [row EXCEPT !.review = less]
    BY <1>4 DEF Corpus!Revised, c
  <2> HIDE DEF less
  <2>4. after = [id |-> row.id, review |-> less]
    BY <2>3 DEF ReviewRow
  <2>5. after \in ReviewRow /\ after.id = row.id /\ after.review = less
    BY <2>2, <2>4 DEF ReviewRow
  <2> QED BY <2>2, <2>5
<1>5. CASE ~ Corpus!Ambiguous(c, review)
  <2>1. after = row
    BY <1>5 DEF Corpus!Revised, c
  <2>2. ASSUME review.label \in {"benign", "malicious"}
        PROVE  Conservative(row.id, review)
    <3>1. review.label = "benign" \/ review.lab
      BY <1>5, <2>2 DEF Corpus!Ambiguous
    <3>2. review.high
      BY <1>5 DEF Corpus!Ambiguous
    <3>3. ~ (c.last - c.first + 1 >= WindowLimit)
      BY <1>5 DEF Corpus!Ambiguous
    <3>4. row.id[3] - row.id[2] + 1 < WindowLimit
      BY <1>2, <3>3 DEF ReviewBounds
    <3> QED BY <3>1, <3>2, <3>4 DEF Conservative
  <2> QED BY <2>1, <2>2
<1> QED BY <1>4, <1>5

(***************************************************************************)
(* The invariant of the review commands.                                   *)
(***************************************************************************)

(* The records of the builder and of the server.                           *)
Builders == [phase : {"idle", "read", "write"}, existing : Verdicts, at : Nat,
             linked : BOOLEAN]
Servers == [up : BOOLEAN, order : Seq(Item), memory : Verdicts]

(* The types of the files, of the programs and of the counters.            *)
ReviewTypes ==
  /\ captured \in [ReviewNamespaces -> 0..ReviewEvents]
  /\ candidates \in FileOf(Item) /\ queue \in FileOf(Item) /\ reviews \in FileOf(ReviewRow)
  /\ builder \in Builders /\ server \in Servers
  /\ posts \in 0..MaxPosts /\ faults \in 0..MaxFaults /\ commands \in 0..MaxCommands
  /\ latest \in Verdicts /\ saved \in Verdicts /\ disturbed \in BOOLEAN

(* Every file of windows is in order and of captured events.               *)
WindowsInOrder ==
  /\ Sorted(candidates.rows) /\ Sorted(queue.rows) /\ Sorted(server.order)
  /\ Within(candidates.rows, captured) /\ Within(queue.rows, captured)
  /\ Within(server.order, captured)
  /\ \A w \in DOMAIN saved : w[3] <= captured[w[1]]

(* What is known by a window is known once, and only for known windows.    *)
KnownOnce ==
  /\ Corpus!IsUnique(reviews.rows)
  /\ DOMAIN server.memory \subseteq Corpus!IdsOf(server.order)
  /\ DOMAIN saved \subseteq DOMAIN latest

(* While the queue is written it is the candidates so far, and so is the   *)
(* review file unless a server has replaced it.                            *)
QueueBuilt ==
  /\ builder.at <= Len(candidates.rows) + 1
  /\ builder.phase = "idle" => builder.at = 0
  /\ builder.phase = "write" =>
       /\ builder.at >= 1 /\ (~disturbed => builder.linked)
       /\ queue.rows = [i \in 1 .. (builder.at - 1) |-> candidates.rows[i]]
       /\ builder.linked =>
            (reviews.rows = [i \in 1 .. (builder.at - 1) |->
                               Corpus!QueueRow(candidates.rows[i].id)])
  /\ builder.phase # "idle" /\ ~disturbed => ~server.up

(* The labels in the review file, in the memory of the server and in that  *)
(* of the builder were given, and if undisturbed they are the last ones.   *)
GivenFor(f, given, unsure) ==
  \A w \in DOMAIN f : w \in DOMAIN given /\ (~unsure => f[w] = given[w])

(* The same for the labelled rows of a file.                               *)
RowsGiven(rows, given, unsure) ==
  \A i \in Corpus!Labelled(rows) :
    rows[i].id \in DOMAIN given /\ (~unsure => rows[i].review = given[rows[i].id])

(* Every place that holds labels holds given ones.                         *)
LabelsGiven ==
  /\ RowsGiven(reviews.rows, latest, disturbed)
  /\ builder.phase # "idle" => GivenFor(builder.existing, latest, disturbed)
  /\ server.up => GivenFor(server.memory, latest, disturbed)

(* The same for an audited row and for a trajectory of the corpus, of what *)
(* was known when the labels were taken.                                   *)
AuditedAs(row, said) ==
  row.review.label \in {"benign", "malicious"} =>
    /\ row.id \in DOMAIN said.latest
    /\ ~said.disturbed => row.review = said.latest[row.id]
    /\ Conservative(row.id, row.review)

(* The same for a trajectory, of reviews or of audited reviews.            *)
ExportedAs(t, from, said) ==
  /\ t.candidate.id \in DOMAIN said.latest
  /\ ~said.disturbed => t.review = said.latest[t.candidate.id]
  /\ from = "audited" => Conservative(t.candidate.id, t.review)

(* The report abstains on a window behind an event of no window.           *)
Abstaining(rows, abstained) ==
  \A i \in DOMAIN rows : rows[i].candidate.id \in abstained <=>
    \E e \in 1 .. (rows[i].candidate.first - 1) :
      \A j \in DOMAIN rows :
        ~ (/\ rows[j].candidate.ns = rows[i].candidate.ns
           /\ e \in rows[j].candidate.first .. rows[j].candidate.last)

(* What the audit made.                                                    *)
AuditedTrue ==
  audited.there =>
    /\ audited.rows \in Seq(ReviewRow)
    /\ \A i \in DOMAIN audited.rows : AuditedAs(audited.rows[i], audited.said)

(* What the export made.                                                   *)
CorpusTrue ==
  corpus.there =>
    /\ corpus.rows \in Seq(Trajectory) /\ InSequence(corpus.rows)
    /\ \A i \in DOMAIN corpus.rows : ExportedAs(corpus.rows[i], corpus.from, corpus.said)

(* What the evaluation made.                                               *)
ReportTrue ==
  report.there =>
    /\ frozen.there /\ report.rows = frozen.rows
    /\ Abstaining(report.rows, report.abstained)

(* What was made of the reviews so far.                                    *)
ProductsTrue == AuditedTrue /\ CorpusTrue /\ ReportTrue

(* Without a fault the candidates hold every live window that the queue,   *)
(* the server or a saved review knows.                                     *)
WindowsRebuilt ==
  faults = 0 =>
    \A w \in Corpus!IdsOf(queue.rows) \union Corpus!IdsOf(server.order) \union DOMAIN saved :
      Live(w, captured) => w \in Corpus!IdsOf(candidates.rows)

(* Without a fault the label of a saved window that is still a candidate   *)
(* is where the next program will look for it.                             *)
LabelsRemain ==
  faults = 0 /\ ~disturbed =>
    \A w \in DOMAIN saved \intersect Corpus!IdsOf(candidates.rows) :
      /\ builder.phase \in {"idle", "read"} =>
           \E i \in Corpus!Labelled(reviews.rows) : reviews.rows[i].id = w
      /\ builder.phase \in {"read", "write"} => w \in DOMAIN builder.existing
      /\ server.up => w \in DOMAIN server.memory

(* The invariant of the review commands.                                   *)
ReviewInv ==
  /\ ReviewTypes /\ WindowsInOrder /\ KnownOnce /\ QueueBuilt /\ LabelsGiven
  /\ ProductsTrue /\ WindowsRebuilt /\ LabelsRemain

(* What is done to the record of the builder.                              *)
LEMMA BuilderOpened ==
  ASSUME NEW b \in Builders,
         NEW r, r = [b EXCEPT !.phase = "write", !.at = 1, !.linked = TRUE]
  PROVE  /\ r \in Builders /\ r.phase = "write" /\ r.at = 1 /\ r.linked = TRUE
         /\ r.existing = b.existing
<1> DEFINE phases == {"idle", "read", "write"}
           bools == BOOLEAN
<1>1. Builders = [phase : phases, existing : Verdicts, at : Nat, linked : bools]
  BY DEF Builders
<1>2. "write" \in phases /\ TRUE \in bools
  OBVIOUS
<1> HIDE DEF phases, bools
<1> QED BY <1>1, <1>2

(* The builder has written one more row.                                   *)
LEMMA BuilderWrote ==
  ASSUME NEW b \in Builders, NEW r, r = [b EXCEPT !.at = @ + 1]
  PROVE  /\ r \in Builders /\ r.at = b.at + 1
         /\ r.phase = b.phase /\ r.linked = b.linked /\ r.existing = b.existing
<1> DEFINE phases == {"idle", "read", "write"}
           bools == BOOLEAN
<1>1. Builders = [phase : phases, existing : Verdicts, at : Nat, linked : bools]
  BY DEF Builders
<1> HIDE DEF phases, bools
<1> QED BY <1>1

(* The builder writes to a file that another one has replaced.             *)
LEMMA BuilderUnlinked ==
  ASSUME NEW b \in Builders, NEW r, r = [b EXCEPT !.linked = FALSE]
  PROVE  /\ r \in Builders /\ r.linked = FALSE
         /\ r.phase = b.phase /\ r.at = b.at /\ r.existing = b.existing
<1> DEFINE phases == {"idle", "read", "write"}
           bools == BOOLEAN
<1>1. Builders = [phase : phases, existing : Verdicts, at : Nat, linked : bools]
  BY DEF Builders
<1>2. FALSE \in bools
  OBVIOUS
<1> HIDE DEF phases, bools
<1> QED BY <1>1, <1>2

(* The builder at rest, and when it has read the review file.              *)
LEMMA BuilderIdle ==
  Corpus!Idle \in Builders /\ Corpus!Idle.phase = "idle" /\ Corpus!Idle.at = 0
<1> DEFINE phases == {"idle", "read", "write"}
           bools == BOOLEAN
<1>1. Builders = [phase : phases, existing : Verdicts, at : Nat, linked : bools]
  BY DEF Builders
<1>2. "idle" \in phases /\ FALSE \in bools /\ << >> \in Verdicts
  BY VerdictsMade
<1> HIDE DEF phases, bools
<1> QED BY <1>1, <1>2 DEF Corpus!Idle

(* The builder has read the review file.                                   *)
LEMMA BuilderStarted ==
  ASSUME NEW f \in Verdicts,
         NEW r, r = [Corpus!Idle EXCEPT !.phase = "read", !.existing = f]
  PROVE  r \in Builders /\ r.phase = "read" /\ r.existing = f /\ r.at = 0
<1> DEFINE phases == {"idle", "read", "write"}
           bools == BOOLEAN
           start == Corpus!Idle
<1>1. Builders = [phase : phases, existing : Verdicts, at : Nat, linked : bools]
  BY DEF Builders
<1>2. "read" \in phases
  OBVIOUS
<1>3. start \in Builders /\ start.at = 0
  BY BuilderIdle
<1>4. r = [start EXCEPT !.phase = "read", !.existing = f]
  OBVIOUS
<1> HIDE DEF phases, bools, start
<1> QED BY <1>1, <1>2, <1>3, <1>4

(* What is done to the record of the server.                               *)
LEMMA ServerDown ==
  /\ Corpus!Down \in Servers /\ Corpus!Down.up = FALSE /\ Corpus!Down.order = << >>
  /\ Corpus!Down.memory = << >>
<1> DEFINE bools == BOOLEAN
           items == Seq(Item)
<1>1. FALSE \in bools /\ << >> \in items /\ << >> \in Verdicts
  BY VerdictsMade
<1>2. Servers = [up : bools, order : items, memory : Verdicts]
  BY DEF Servers
<1> HIDE DEF bools, items
<1> QED BY <1>1, <1>2 DEF Corpus!Down

(* The server has one more review in its memory.                           *)
LEMMA ServerPosted ==
  ASSUME NEW s \in Servers, NEW f \in Verdicts, NEW r, r = [s EXCEPT !.memory = f]
  PROVE  r \in Servers /\ r.memory = f /\ r.up = s.up /\ r.order = s.order
<1> DEFINE bools == BOOLEAN
           items == Seq(Item)
<1>1. Servers = [up : bools, order : items, memory : Verdicts]
  BY DEF Servers
<1> HIDE DEF bools, items
<1> QED BY <1>1

(* What is done to a file.                                                 *)
LEMMA FileMissing ==
  ASSUME NEW S
  PROVE  /\ Corpus!NoFile \in FileOf(S) /\ Corpus!NoFile.there = FALSE
         /\ Corpus!NoFile.rows = << >>
<1> DEFINE bools == BOOLEAN
           seqs == Seq(S)
<1>1. FALSE \in bools /\ << >> \in seqs
  OBVIOUS
<1>2. FileOf(S) = [there : bools, whole : bools, rows : seqs]
  BY DEF FileOf
<1> HIDE DEF bools, seqs
<1> QED BY <1>1, <1>2 DEF Corpus!NoFile

(* A file that is written whole.                                           *)
LEMMA FileWhole ==
  ASSUME NEW S, NEW rows \in Seq(S), NEW r, r = Corpus!Whole(rows)
  PROVE  r \in FileOf(S) /\ r.rows = rows /\ r.there = TRUE
<1> DEFINE bools == BOOLEAN
           seqs == Seq(S)
<1>1. TRUE \in bools /\ rows \in seqs
  OBVIOUS
<1>2. FileOf(S) = [there : bools, whole : bools, rows : seqs]
  BY DEF FileOf
<1> HIDE DEF bools, seqs
<1> QED BY <1>1, <1>2 DEF Corpus!Whole

(* A file with one more row.                                               *)
LEMMA FileLonger ==
  ASSUME NEW S, NEW f \in FileOf(S), NEW x \in S,
         NEW r, r = [f EXCEPT !.rows = Append(@, x)]
  PROVE  r \in FileOf(S) /\ r.rows = Append(f.rows, x)
<1> DEFINE bools == BOOLEAN
           seqs == Seq(S)
           more == Append(f.rows, x)
<1>1. FileOf(S) = [there : bools, whole : bools, rows : seqs]
  BY DEF FileOf
<1>2. f.rows \in seqs
  BY DEF FileOf
<1>3. more \in seqs
  BY <1>2
<1>4. r = [f EXCEPT !.rows = more]
  OBVIOUS
<1> HIDE DEF bools, seqs, more
<1>5. r \in FileOf(S) /\ r.rows = more
  BY <1>1, <1>3, <1>4
<1> QED BY <1>5 DEF more

(* A file whose last row may be cut.                                       *)
LEMMA FileCut ==
  ASSUME NEW S, NEW f \in FileOf(S), NEW w \in BOOLEAN, NEW r, r = [f EXCEPT !.whole = w]
  PROVE  r \in FileOf(S) /\ r.rows = f.rows
<1> DEFINE bools == BOOLEAN
           seqs == Seq(S)
<1>1. FileOf(S) = [there : bools, whole : bools, rows : seqs]
  BY DEF FileOf
<1>2. w \in bools
  OBVIOUS
<1> HIDE DEF bools, seqs
<1> QED BY <1>1, <1>2

(***************************************************************************)
(* What each command does to the state.                                    *)
(***************************************************************************)

(* One more event of a namespace is captured.                              *)
LEMMA CaptureDoes ==
  ASSUME ReviewBounds, ReviewTypes, NEW ns \in ReviewNamespaces, Corpus!Capture(ns)
  PROVE  /\ captured[ns] < ReviewEvents /\ captured' = [captured EXCEPT ![ns] = @ + 1]
         /\ captured' \in [ReviewNamespaces -> 0..ReviewEvents]
         /\ \A m \in ReviewNamespaces : captured[m] <= captured'[m]
         /\ UNCHANGED <<candidates, queue, reviews, audited, corpus, frozen, report, builder,
                        server, posts, faults, commands, latest, saved, disturbed>>
<1>1. captured[ns] < ReviewEvents /\ captured' = [captured EXCEPT ![ns] = @ + 1]
  BY DEF Corpus!Capture
<1>2. /\ captured \in [ReviewNamespaces -> 0..ReviewEvents] /\ captured[ns] \in 0..ReviewEvents
      /\ captured[ns] + 1 \in 0..ReviewEvents
  BY <1>1 DEF ReviewTypes, ReviewBounds
<1>3. captured' \in [ReviewNamespaces -> 0..ReviewEvents]
  BY <1>1, <1>2
<1>4. ASSUME NEW m \in ReviewNamespaces
      PROVE  captured[m] <= captured'[m]
  <2>1. captured[m] \in Nat
    BY <1>2 DEF ReviewBounds
  <2> QED BY <1>1, <1>2, <2>1
<1> QED BY <1>1, <1>3, <1>4 DEF Corpus!Capture, Corpus!products, Corpus!history

(* The candidates are built anew, or only the first of them.               *)
LEMMA BuildDoes ==
  ASSUME ReviewBounds, ReviewTypes, Corpus!BuildCandidates,
         NEW built, built = Corpus!BuiltCandidates
  PROVE  /\ builder.phase = "idle" /\ commands' \in 0..MaxCommands
         /\ candidates' \in FileOf(Item) /\ Len(candidates'.rows) \in 0..Len(built)
         /\ \A i \in 1..Len(candidates'.rows) : candidates'.rows[i] = built[i]
         /\ faults' \in 0..MaxFaults
         /\ faults' = 0 => faults = 0 /\ candidates'.rows = built
         /\ UNCHANGED <<captured, queue, reviews, audited, corpus, frozen, report, builder,
                        server, posts, latest, saved, disturbed>>
<1>1. PICK w \in Corpus!Written(built) : candidates' = w[1] /\ faults' = w[2]
  BY DEF Corpus!BuildCandidates
<1>2. built \in Seq(Item)
  BY Built DEF ReviewTypes
<1>3. faults \in 0..MaxFaults
  BY DEF ReviewTypes
<1>4. /\ w[1] \in FileOf(Item) /\ Len(w[1].rows) \in 0..Len(built)
      /\ \A i \in 1..Len(w[1].rows) : w[1].rows[i] = built[i]
      /\ w[2] \in 0..MaxFaults
      /\ w[2] = 0 => faults = 0 /\ w[1].rows = built
  BY <1>2, <1>3, Writing
<1>5. builder.phase = "idle" /\ commands' \in 0..MaxCommands
  BY DEF Corpus!BuildCandidates, Corpus!Command, ReviewTypes, ReviewBounds
<1>6. UNCHANGED <<captured, queue, reviews, audited, corpus, frozen, report, builder,
                  server, posts, latest, saved, disturbed>>
  BY DEF Corpus!BuildCandidates, Corpus!products, Corpus!history
<1> QED BY <1>1, <1>4, <1>5, <1>6

(* The builder reads the review file, beside a server or not.              *)
LEMMA QueueReadDoes ==
  ASSUME ReviewBounds, ReviewTypes, Corpus!QueueRead
  PROVE  /\ builder.phase = "idle" /\ commands' \in 0..MaxCommands
         /\ builder' \in Builders /\ builder'.phase = "read" /\ builder'.at = 0
         /\ builder'.existing = Corpus!ReviewsIn(reviews.rows)
         /\ disturbed' = (disturbed \/ server.up)
         /\ UNCHANGED <<captured, candidates, queue, reviews, audited, corpus, frozen, report,
                        server, posts, faults, latest, saved>>
<1>1. reviews.rows \in Seq(ReviewRow)
  BY DEF ReviewTypes, FileOf
<1>2. Corpus!ReviewsIn(reviews.rows) \in Verdicts
  BY <1>1, ReviewsRead
<1>3. builder' = [Corpus!Idle EXCEPT !.phase = "read",
                                     !.existing = Corpus!ReviewsIn(reviews.rows)]
  BY DEF Corpus!QueueRead
<1>4. /\ builder' \in Builders /\ builder'.phase = "read" /\ builder'.at = 0
      /\ builder'.existing = Corpus!ReviewsIn(reviews.rows)
  BY <1>2, <1>3, BuilderStarted
<1>5. builder.phase = "idle" /\ commands' \in 0..MaxCommands
  BY DEF Corpus!QueueRead, Corpus!Command, ReviewTypes, ReviewBounds
<1> QED BY <1>4, <1>5 DEF Corpus!QueueRead, Corpus!products

(* The builder empties both of its files.                                  *)
LEMMA QueueOpenDoes ==
  ASSUME ReviewTypes, Corpus!QueueOpen
  PROVE  /\ builder.phase = "read"
         /\ queue' \in FileOf(Item) /\ queue'.rows = << >>
         /\ reviews' \in FileOf(ReviewRow) /\ reviews'.rows = << >>
         /\ builder' \in Builders /\ builder'.phase = "write" /\ builder'.at = 1
         /\ builder'.linked /\ builder'.existing = builder.existing
         /\ UNCHANGED <<captured, candidates, audited, corpus, frozen, report, server, posts,
                        faults, commands, latest, saved, disturbed>>
<1>1. builder \in Builders /\ builder' = [builder EXCEPT !.phase = "write", !.at = 1,
                                                         !.linked = TRUE]
  BY DEF ReviewTypes, Corpus!QueueOpen
<1>2. << >> \in Seq(Item) /\ << >> \in Seq(ReviewRow)
  OBVIOUS
<1>3. queue' \in FileOf(Item) /\ queue'.rows = << >>
  BY <1>2, FileWhole DEF Corpus!QueueOpen
<1>4. reviews' \in FileOf(ReviewRow) /\ reviews'.rows = << >>
  BY <1>2, FileWhole DEF Corpus!QueueOpen
<1>5. /\ builder' \in Builders /\ builder'.phase = "write" /\ builder'.at = 1
      /\ builder'.linked /\ builder'.existing = builder.existing
  BY <1>1, BuilderOpened
<1> QED BY <1>3, <1>4, <1>5 DEF Corpus!QueueOpen, Corpus!products, Corpus!history

(* The row of a candidate.                                                 *)
LEMMA QueueRowMade ==
  ASSUME ReviewBounds, ReviewTypes, NEW w \in Corpus!AllWindows
  PROVE  /\ Corpus!QueueRow(w) \in ReviewRow /\ Corpus!QueueRow(w).id = w
         /\ Corpus!QueueRow(w).review.label \in Corpus!Labels <=> w \in DOMAIN builder.existing
         /\ w \in DOMAIN builder.existing => Corpus!QueueRow(w).review = builder.existing[w]
<1> DEFINE review == IF w \in DOMAIN builder.existing THEN builder.existing[w]
                     ELSE Corpus!Required
<1>1. builder.existing \in Verdicts
  BY DEF ReviewTypes, Builders
<1>2. Corpus!QueueRow(w) = [id |-> w, review |-> review]
  BY DEF Corpus!QueueRow
<1>3. /\ review \in AnyReview
      /\ review.label \in Corpus!Labels <=> w \in DOMAIN builder.existing
      /\ w \in DOMAIN builder.existing => review = builder.existing[w]
  BY <1>1, VerdictsMade, ReviewKinds
<1> HIDE DEF review
<1> QED BY <1>2, <1>3 DEF ReviewRow

(* The builder writes the next candidate and its review.                   *)
LEMMA QueueWriteDoes ==
  ASSUME ReviewBounds, ReviewTypes, Corpus!QueueWrite,
         NEW at, at = builder.at, NEW item, item = candidates.rows[builder.at]
  PROVE  /\ builder.phase = "write" /\ at <= Len(candidates.rows)
         /\ at >= 1 => item \in Item
         /\ item \in Item =>
              /\ queue' \in FileOf(Item) /\ queue'.rows = Append(queue.rows, item)
              /\ reviews' \in FileOf(ReviewRow)
              /\ builder.linked => reviews'.rows = Append(reviews.rows, Corpus!QueueRow(item.id))
              /\ ~builder.linked => reviews' = reviews
         /\ builder' \in Builders /\ builder'.phase = "write" /\ builder'.at = at + 1
         /\ builder'.linked = builder.linked /\ builder'.existing = builder.existing
         /\ UNCHANGED <<captured, candidates, audited, corpus, frozen, report, server, posts,
                        faults, commands, latest, saved, disturbed>>
<1>1. builder \in Builders /\ builder' = [builder EXCEPT !.at = @ + 1]
  BY DEF ReviewTypes, Corpus!QueueWrite
<1>2. builder.phase = "write" /\ at <= Len(candidates.rows)
  BY DEF Corpus!QueueWrite
<1>3. /\ builder' \in Builders /\ builder'.phase = "write" /\ builder'.at = at + 1
      /\ builder'.linked = builder.linked /\ builder'.existing = builder.existing
  BY <1>1, <1>2, BuilderWrote
<1>4. ASSUME at >= 1
      PROVE  item \in Item
  <2>1. candidates.rows \in Seq(Item)
    BY DEF ReviewTypes, FileOf
  <2>2. at \in 1..Len(candidates.rows)
    BY <1>1, <1>2, <1>4 DEF Builders
  <2> QED BY <2>1, <2>2
<1>5. ASSUME item \in Item
      PROVE  /\ queue' \in FileOf(Item) /\ queue'.rows = Append(queue.rows, item)
             /\ reviews' \in FileOf(ReviewRow)
             /\ builder.linked =>
                  reviews'.rows = Append(reviews.rows, Corpus!QueueRow(item.id))
             /\ ~builder.linked => reviews' = reviews
  <2>1. queue \in FileOf(Item) /\ reviews \in FileOf(ReviewRow)
    BY DEF ReviewTypes
  <2>2. queue' = [queue EXCEPT !.rows = Append(@, item)]
    BY DEF Corpus!QueueWrite
  <2>3. queue' \in FileOf(Item) /\ queue'.rows = Append(queue.rows, item)
    BY <1>5, <2>1, <2>2, FileLonger
  <2>4. Corpus!QueueRow(item.id) \in ReviewRow
    BY <1>5, ItemFields, QueueRowMade
  <2>5. CASE builder.linked
    <3>1. reviews' = [reviews EXCEPT !.rows = Append(@, Corpus!QueueRow(item.id))]
      BY <2>5 DEF Corpus!QueueWrite
    <3>2. /\ reviews' \in FileOf(ReviewRow)
          /\ reviews'.rows = Append(reviews.rows, Corpus!QueueRow(item.id))
      BY <2>1, <2>4, <3>1, FileLonger
    <3> QED BY <2>3, <2>5, <3>2
  <2>6. CASE ~builder.linked
    <3>1. reviews' = reviews
      BY <2>6 DEF Corpus!QueueWrite
    <3> QED BY <2>1, <2>3, <2>6, <3>1
  <2> QED BY <2>5, <2>6
<1>6. UNCHANGED <<captured, candidates, audited, corpus, frozen, report, server, posts,
                  faults, commands, latest, saved, disturbed>>
  BY DEF Corpus!QueueWrite, Corpus!products, Corpus!history
<1> QED BY <1>2, <1>3, <1>4, <1>5, <1>6

(* The builder has written every candidate.                                *)
LEMMA QueueDoneDoes ==
  ASSUME ReviewTypes, Corpus!QueueDone
  PROVE  /\ builder.phase = "write" /\ builder.at > Len(candidates.rows)
         /\ builder' \in Builders /\ builder'.phase = "idle" /\ builder'.at = 0
         /\ UNCHANGED <<captured, candidates, queue, reviews, audited, corpus, frozen, report,
                        server, posts, faults, commands, latest, saved, disturbed>>
BY BuilderIdle DEF Corpus!QueueDone, Corpus!products, Corpus!history

(* The builder fails and leaves what it has written.                       *)
LEMMA QueueFailsDoes ==
  ASSUME ReviewBounds, ReviewTypes, Corpus!QueueFails
  PROVE  /\ builder.phase # "idle" /\ disturbed' = TRUE
         /\ builder' \in Builders /\ builder'.phase = "idle" /\ builder'.at = 0
         /\ reviews' \in FileOf(ReviewRow) /\ reviews'.rows = reviews.rows
         /\ faults' \in 0..MaxFaults /\ faults <= faults'
         /\ UNCHANGED <<captured, candidates, queue, audited, corpus, frozen, report, server,
                        posts, commands, latest, saved>>
<1>0. reviews \in FileOf(ReviewRow) /\ faults \in 0..MaxFaults /\ faults \in Nat
  BY DEF ReviewTypes
<1>1. CASE UNCHANGED <<faults, reviews>>
  BY <1>0, <1>1, BuilderIdle DEF Corpus!QueueFails, Corpus!products
<1>2. CASE /\ faults < MaxFaults /\ faults' = faults + 1
           /\ \E w \in BOOLEAN :
                reviews' = IF builder.linked THEN [reviews EXCEPT !.whole = w] ELSE reviews
  <2>1. reviews' \in FileOf(ReviewRow) /\ reviews'.rows = reviews.rows
    <3>1. PICK w \in BOOLEAN :
            reviews' = IF builder.linked THEN [reviews EXCEPT !.whole = w] ELSE reviews
      BY <1>2
    <3>2. CASE builder.linked
      <4>1. reviews' = [reviews EXCEPT !.whole = w]
        BY <3>1, <3>2
      <4> QED BY <1>0, <4>1, FileCut
    <3>3. CASE ~builder.linked
      BY <1>0, <3>1, <3>3
    <3> QED BY <3>2, <3>3
  <2>2. faults' \in 0..MaxFaults /\ faults <= faults'
    BY <1>0, <1>2 DEF ReviewBounds
  <2> QED BY <2>1, <2>2, BuilderIdle DEF Corpus!QueueFails, Corpus!products
<1> QED BY <1>1, <1>2 DEF Corpus!QueueFails

(* The server reads the queue and the review file.                         *)
LEMMA ServeStartDoes ==
  ASSUME ReviewTypes, Corpus!ServeStart
  PROVE  /\ server.up = FALSE
         /\ DOMAIN Corpus!ReviewsIn(reviews.rows) \subseteq Corpus!IdsOf(queue.rows)
         /\ server' \in Servers /\ server'.up = TRUE /\ server'.order = queue.rows
         /\ server'.memory = Corpus!ReviewsIn(reviews.rows)
         /\ disturbed' = (disturbed \/ builder.phase # "idle")
         /\ UNCHANGED <<captured, candidates, queue, reviews, audited, corpus, frozen, report,
                        builder, posts, faults, commands, latest, saved>>
<1>1. queue.rows \in Seq(Item) /\ reviews.rows \in Seq(ReviewRow)
  BY DEF ReviewTypes, FileOf
<1>2. Corpus!ReviewsIn(reviews.rows) \in Verdicts
  BY <1>1, ReviewsRead
<1>3. server' = [up |-> TRUE, order |-> queue.rows, memory |-> Corpus!ReviewsIn(reviews.rows)]
  BY DEF Corpus!ServeStart
<1>4. /\ server' \in Servers /\ server'.up = TRUE /\ server'.order = queue.rows
      /\ server'.memory = Corpus!ReviewsIn(reviews.rows)
  <2> DEFINE bools == BOOLEAN
             items == Seq(Item)
             f == Corpus!ReviewsIn(reviews.rows)
             rows == queue.rows
  <2>1. Servers = [up : bools, order : items, memory : Verdicts]
    BY DEF Servers
  <2>2. TRUE \in bools /\ rows \in items /\ f \in Verdicts
    BY <1>1, <1>2
  <2> HIDE DEF bools, items, f, rows
  <2>3. server' = [up |-> TRUE, order |-> rows, memory |-> f]
    BY <1>3 DEF f, rows
  <2>4. server' \in Servers /\ server'.up = TRUE /\ server'.order = rows /\ server'.memory = f
    BY <2>1, <2>2, <2>3
  <2> QED BY <2>4 DEF f, rows
<1>5. server.up = FALSE
  BY DEF Corpus!ServeStart, ReviewTypes, Servers
<1> QED BY <1>4, <1>5 DEF Corpus!ServeStart, Corpus!products

(* The server stops and forgets.                                           *)
LEMMA ServeStopDoes ==
  ASSUME Corpus!ServeStop
  PROVE  /\ server' \in Servers /\ server'.up = FALSE /\ server'.order = << >>
         /\ server'.memory = << >>
         /\ UNCHANGED <<captured, candidates, queue, reviews, audited, corpus, frozen, report,
                        builder, posts, faults, commands, latest, saved, disturbed>>
BY ServerDown DEF Corpus!ServeStop, Corpus!products, Corpus!history

(* The reviews that may be given are verdicts.                             *)
LEMMA GivenVerdict ==
  ASSUME NEW review \in {Review("benign", FALSE, TRUE), Review("malicious", FALSE, TRUE)}
  PROVE  review \in Verdict
<1> DEFINE bools == BOOLEAN
           kinds == Corpus!Labels
<1>1. TRUE \in bools /\ FALSE \in bools /\ "benign" \in kinds /\ "malicious" \in kinds
  BY DEF Corpus!Labels
<1>2. Verdict = [label : kinds, lab : bools, high : bools]
  BY DEF Verdict
<1> HIDE DEF bools, kinds
<1>3. CASE review = Review("benign", FALSE, TRUE)
  BY <1>1, <1>2, <1>3 DEF Review
<1>4. CASE review = Review("malicious", FALSE, TRUE)
  BY <1>1, <1>2, <1>4 DEF Review
<1> QED BY <1>3, <1>4

(* A review of item w: into the memory, and then to the file or not.       *)
PostSaved(w, review, mem) ==
  /\ reviews' \in FileOf(ReviewRow) /\ reviews'.rows = Corpus!MemoryRows(mem)
  /\ builder' \in Builders /\ builder'.linked = FALSE /\ builder'.phase = builder.phase
  /\ builder'.at = builder.at /\ builder'.existing = builder.existing
  /\ saved' = Corpus!With(saved, w, review)
  /\ UNCHANGED <<faults, disturbed>>

(* The write failed, and only the memory has the review.                   *)
PostFailed ==
  /\ faults' \in 0..MaxFaults /\ faults' # 0 /\ disturbed' = TRUE
  /\ UNCHANGED <<reviews, builder, saved>>

(* A review is given: it reaches the memory, and the file if it is saved.  *)
LEMMA PostDoes ==
  ASSUME ReviewBounds, ReviewTypes, WindowsInOrder, NEW p \in DOMAIN server.order,
         NEW review \in {Review("benign", FALSE, TRUE), Review("malicious", FALSE, TRUE)},
         Corpus!Post(server.order[p], review),
         NEW w, w = server.order[p].id, NEW mem, mem = Corpus!With(server.memory, w, review)
  PROVE  /\ server.up /\ w \in Corpus!AllWindows /\ review \in Verdict /\ mem \in Verdicts
         /\ posts' \in 0..MaxPosts
         /\ server' \in Servers /\ server'.up = TRUE /\ server'.order = server.order
         /\ server'.memory = mem
         /\ latest' = Corpus!With(latest, w, review)
         /\ PostSaved(w, review, mem) \/ PostFailed
         /\ UNCHANGED <<captured, candidates, queue, audited, corpus, frozen, report, commands>>
<1>0. /\ server \in Servers /\ builder \in Builders /\ server.order \in Seq(Item)
      /\ server.memory \in Verdicts
  BY DEF ReviewTypes, Servers
<1>1. server.order[p] \in Item /\ w \in Corpus!AllWindows
      /\ Corpus!WindowOf(server.order[p]) = w
  <2>1. server.order[p] \in Item
    BY <1>0
  <2> QED BY <2>1, ItemFields
<1>2. review \in Verdict
  BY GivenVerdict
<1>3. mem \in Verdicts
  BY <1>0, <1>1, <1>2, WithOne
<1>4. server.up /\ server.up = TRUE
  BY <1>0 DEF Corpus!Post, Servers
<1>5. server' = [server EXCEPT !.memory = mem]
  BY DEF Corpus!Post
<1>6. /\ server' \in Servers /\ server'.up = TRUE /\ server'.order = server.order
      /\ server'.memory = mem
  BY <1>0, <1>3, <1>4, <1>5, ServerPosted
<1>7. posts' \in 0..MaxPosts
  BY DEF Corpus!Post, ReviewTypes, ReviewBounds
<1>8. latest' = Corpus!With(latest, w, review)
  BY <1>1 DEF Corpus!Post
<1>9. PostSaved(w, review, mem) \/ PostFailed
  <2>1. CASE /\ reviews' = Corpus!Whole(Corpus!MemoryRows(server'.memory))
             /\ builder' = [builder EXCEPT !.linked = FALSE]
             /\ saved' = Corpus!With(saved, Corpus!WindowOf(server.order[p]), review)
             /\ UNCHANGED <<faults, disturbed>>
    <3>1. reviews' = Corpus!Whole(Corpus!MemoryRows(mem))
      BY <1>6, <2>1
    <3>2. Corpus!MemoryRows(mem) \in Seq(ReviewRow)
      BY <1>0, <1>3, MemoryKept DEF WindowsInOrder
    <3>3. reviews' \in FileOf(ReviewRow) /\ reviews'.rows = Corpus!MemoryRows(mem)
      BY <3>1, <3>2, FileWhole
    <3>4. /\ builder' \in Builders /\ builder'.linked = FALSE /\ builder'.phase = builder.phase
          /\ builder'.at = builder.at /\ builder'.existing = builder.existing
      BY <1>0, <2>1, BuilderUnlinked
    <3>5. saved' = Corpus!With(saved, w, review) /\ UNCHANGED <<faults, disturbed>>
      BY <1>1, <2>1
    <3> QED BY <3>3, <3>4, <3>5 DEF PostSaved
  <2>2. CASE /\ faults < MaxFaults /\ faults' = faults + 1 /\ disturbed' = TRUE
             /\ UNCHANGED <<reviews, builder, saved>>
    <3>1. faults' \in 0..MaxFaults /\ faults' # 0
      BY <2>2 DEF ReviewTypes, ReviewBounds
    <3> QED BY <2>2, <3>1 DEF PostFailed
  <2> QED BY <2>1, <2>2 DEF Corpus!Post
<1>10. UNCHANGED <<captured, candidates, queue, audited, corpus, frozen, report, commands>>
  BY DEF Corpus!Post, Corpus!products
<1> QED BY <1>1, <1>2, <1>3, <1>4, <1>6, <1>7, <1>8, <1>9, <1>10

(* The commands after the review leave what comes before them alone.       *)
Reviewing == <<captured, candidates, queue, reviews, builder, server, posts, latest, saved,
               disturbed>>

(* The audit writes every review of the file, or only the first of them.   *)
LEMMA AuditDoes ==
  ASSUME ReviewBounds, ReviewTypes, Corpus!Audit,
         NEW rows, rows = [i \in DOMAIN reviews.rows |-> Corpus!Revised(reviews.rows[i])]
  PROVE  /\ Corpus!Matches(reviews.rows)
         /\ rows \in Seq(ReviewRow)
         /\ audited'.rows \in Seq(ReviewRow) /\ Len(audited'.rows) \in 0..Len(rows)
         /\ \A i \in 1..Len(audited'.rows) : audited'.rows[i] = rows[i]
         /\ audited'.said = Corpus!Snapshot
         /\ faults' \in 0..MaxFaults /\ faults <= faults' /\ commands' \in 0..MaxCommands
         /\ UNCHANGED Reviewing /\ UNCHANGED <<corpus, frozen, report>>
<1>1. PICK w \in Corpus!Written(rows) :
        audited' = Corpus!TakenFrom(w[1], "audited", Corpus!Snapshot) /\ faults' = w[2]
  BY DEF Corpus!Audit
<1>2. Corpus!Matches(reviews.rows)
  BY DEF Corpus!Audit
<1>3. /\ reviews.rows \in Seq(ReviewRow) /\ candidates.rows \in Seq(Item)
      /\ DOMAIN reviews.rows = 1..Len(reviews.rows) /\ Len(reviews.rows) \in Nat
  BY DEF ReviewTypes, FileOf
<1>4. ASSUME NEW i \in DOMAIN reviews.rows
      PROVE  Corpus!Revised(reviews.rows[i]) \in ReviewRow
  <2>1. reviews.rows[i] \in ReviewRow
    BY <1>3
  <2>2. reviews.rows[i].id \in Corpus!IdsOf(candidates.rows)
    BY <1>2 DEF Corpus!Matches, Corpus!IdsOf
  <2> QED BY <1>3, <2>1, <2>2, RevisedRow
<1>5. rows \in Seq(ReviewRow)
  BY <1>3, <1>4
<1>6. faults \in 0..MaxFaults
  BY DEF ReviewTypes
<1>7. /\ w[1] \in FileOf(ReviewRow) /\ Len(w[1].rows) \in 0..Len(rows)
      /\ \A i \in 1..Len(w[1].rows) : w[1].rows[i] = rows[i]
      /\ w[2] \in 0..MaxFaults /\ faults <= w[2]
  BY <1>5, <1>6, Writing
<1>8. audited'.rows = w[1].rows /\ audited'.said = Corpus!Snapshot
  BY <1>1 DEF Corpus!TakenFrom
<1>9. w[1].rows \in Seq(ReviewRow)
  BY <1>7 DEF FileOf
<1>10. commands' \in 0..MaxCommands
  BY DEF Corpus!Audit, Corpus!Command, ReviewTypes, ReviewBounds
<1>11. UNCHANGED Reviewing /\ UNCHANGED <<corpus, frozen, report>>
  BY DEF Corpus!Audit, Corpus!history, Reviewing
<1> QED BY <1>1, <1>2, <1>5, <1>7, <1>8, <1>9, <1>10, <1>11

(* The export writes the reviewed candidates, or only the first of them.   *)
LEMMA ExportDoes ==
  ASSUME ReviewBounds, ReviewTypes, WindowsInOrder, NEW source, NEW from, NEW said,
         Corpus!Export(source, from, said), source.rows \in Seq(ReviewRow),
         NEW rows, rows = Corpus!Reviewed(source.rows)
  PROVE  /\ Corpus!IdsOf(source.rows) = Corpus!IdsOf(candidates.rows)
         /\ rows \in Seq(Trajectory)
         /\ corpus'.rows \in Seq(Trajectory) /\ Len(corpus'.rows) \in 0..Len(rows)
         /\ \A i \in 1..Len(corpus'.rows) : corpus'.rows[i] = rows[i]
         /\ corpus'.from = from /\ corpus'.said = said
         /\ faults' \in 0..MaxFaults /\ faults <= faults' /\ commands' \in 0..MaxCommands
         /\ UNCHANGED Reviewing /\ UNCHANGED <<audited, frozen, report>>
<1>1. PICK w \in Corpus!Written(rows) :
        corpus' = Corpus!TakenFrom(w[1], from, said) /\ faults' = w[2]
  BY DEF Corpus!Export
<1>2. Corpus!IdsOf(source.rows) = Corpus!IdsOf(candidates.rows)
  BY DEF Corpus!Export, Corpus!Applicable, Corpus!Matches
<1>3. candidates.rows \in Seq(Item) /\ Sorted(candidates.rows)
  BY DEF ReviewTypes, FileOf, WindowsInOrder
<1>4. rows \in Seq(Trajectory)
  BY <1>2, <1>3, ReviewedRows
<1>5. faults \in 0..MaxFaults
  BY DEF ReviewTypes
<1>6. /\ w[1] \in FileOf(Trajectory) /\ Len(w[1].rows) \in 0..Len(rows)
      /\ \A i \in 1..Len(w[1].rows) : w[1].rows[i] = rows[i]
      /\ w[2] \in 0..MaxFaults /\ faults <= w[2]
  BY <1>4, <1>5, Writing
<1>7. corpus'.rows = w[1].rows /\ corpus'.from = from /\ corpus'.said = said
  BY <1>1 DEF Corpus!TakenFrom
<1>8. w[1].rows \in Seq(Trajectory)
  BY <1>6 DEF FileOf
<1>9. commands' \in 0..MaxCommands
  BY DEF Corpus!Export, Corpus!Command, ReviewTypes, ReviewBounds
<1>10. UNCHANGED Reviewing /\ UNCHANGED <<audited, frozen, report>>
  BY DEF Corpus!Export, Corpus!history, Reviewing
<1> QED BY <1>1, <1>2, <1>4, <1>6, <1>7, <1>8, <1>9, <1>10

(* The corpus is frozen.                                                   *)
LEMMA FreezeDoes ==
  ASSUME Corpus!Freeze
  PROVE  /\ ~frozen.there /\ frozen'.rows = corpus.rows
         /\ UNCHANGED Reviewing /\ UNCHANGED <<audited, corpus, report, faults, commands>>
BY DEF Corpus!Freeze, Corpus!Manifest, Corpus!Whole, Corpus!history, Reviewing

(* The frozen corpus is evaluated.                                         *)
LEMMA EvaluateDoes ==
  ASSUME Corpus!Evaluate
  PROVE  /\ frozen.there /\ corpus.there /\ corpus.rows = frozen.rows
         /\ report'.rows = corpus.rows /\ report'.abstained = Corpus!Abstained(corpus.rows)
         /\ UNCHANGED Reviewing /\ UNCHANGED <<audited, corpus, frozen, faults, commands>>
BY DEF Corpus!Evaluate, Corpus!history, Reviewing

(***************************************************************************)
(* What does not change stays true.                                        *)
(***************************************************************************)

(* The order of the windows, when no file of windows changes.              *)
LEMMA WindowsInOrderStay ==
  ASSUME WindowsInOrder, UNCHANGED <<captured, candidates, queue, server, saved>>
  PROVE  WindowsInOrder'
BY DEF WindowsInOrder, Sorted, Within

(* What is known once, when no row is written.                             *)
LEMMA KnownOnceStays ==
  ASSUME KnownOnce, UNCHANGED <<server, saved, latest>>, reviews'.rows = reviews.rows
  PROVE  KnownOnce'
BY DEF KnownOnce, Corpus!IsUnique, Corpus!IdsOf

(* The queue so far, when the builder does nothing.                        *)
LEMMA QueueBuiltStays ==
  ASSUME QueueBuilt, UNCHANGED <<candidates, queue, reviews, builder, server, disturbed>>
  PROVE  QueueBuilt'
BY DEF QueueBuilt, Corpus!QueueRow

(* The labels, when nothing is said and nothing written.                   *)
LEMMA LabelsGivenStay ==
  ASSUME LabelsGiven, UNCHANGED <<reviews, builder, server, latest, disturbed>>
  PROVE  LabelsGiven'
BY DEF LabelsGiven, RowsGiven, GivenFor, Corpus!Labelled

(* What was made of the reviews, when it is not made again.                *)
LEMMA AuditedTrueStays ==
  ASSUME AuditedTrue, UNCHANGED audited
  PROVE  AuditedTrue'
BY DEF AuditedTrue, AuditedAs, Conservative

(* The same for the corpus.                                                *)
LEMMA CorpusTrueStays ==
  ASSUME CorpusTrue, UNCHANGED corpus
  PROVE  CorpusTrue'
BY DEF CorpusTrue, ExportedAs, InSequence, Conservative

(* The same for the report.                                                *)
LEMMA ReportTrueStays ==
  ASSUME ReportTrue, UNCHANGED <<frozen, report>>
  PROVE  ReportTrue'
BY DEF ReportTrue, Abstaining

(* The same for all of them.                                               *)
LEMMA ProductsTrueStay ==
  ASSUME ProductsTrue, UNCHANGED <<audited, corpus, frozen, report>>
  PROVE  ProductsTrue'
BY AuditedTrueStays, CorpusTrueStays, ReportTrueStays DEF ProductsTrue

(* The live windows, when neither they nor the files change.               *)
LEMMA WindowsRebuiltStay ==
  ASSUME WindowsRebuilt, UNCHANGED <<captured, candidates, queue, server, saved>>,
         faults' = 0 => faults = 0
  PROVE  WindowsRebuilt'
BY DEF WindowsRebuilt, Live, Corpus!IdsOf

(* The saved labels, when the files and the programs stay as they are.     *)
LEMMA LabelsRemainStay ==
  ASSUME LabelsRemain, UNCHANGED <<candidates, reviews, builder, server, saved, disturbed>>,
         faults' = 0 => faults = 0
  PROVE  LabelsRemain'
BY DEF LabelsRemain, Corpus!IdsOf, Corpus!Labelled

(* The commands after the review disturb only what they make.              *)
LEMMA ReviewingStays ==
  ASSUME ReviewBounds, ReviewInv, UNCHANGED Reviewing, ProductsTrue',
         faults' \in 0..MaxFaults, faults <= faults', commands' \in 0..MaxCommands
  PROVE  ReviewInv'
<1>1. UNCHANGED <<captured, candidates, queue, reviews, builder, server, posts, latest, saved,
                  disturbed>>
  BY DEF Reviewing
<1>2. ReviewTypes'
  BY <1>1 DEF ReviewInv, ReviewTypes
<1>3. faults' = 0 => faults = 0
  BY DEF ReviewInv, ReviewTypes, ReviewBounds
<1>4. WindowsInOrder' /\ KnownOnce' /\ QueueBuilt' /\ LabelsGiven'
  BY <1>1, WindowsInOrderStay, KnownOnceStays, QueueBuiltStays, LabelsGivenStay DEF ReviewInv
<1>5. WindowsRebuilt' /\ LabelsRemain'
  BY <1>1, <1>3, WindowsRebuiltStay, LabelsRemainStay DEF ReviewInv
<1> QED BY <1>2, <1>4, <1>5 DEF ReviewInv

(***************************************************************************)
(* Every command keeps the invariant.                                      *)
(***************************************************************************)

(* What the types say of the rows of files.                                *)
LEMMA RowsTyped ==
  ASSUME ReviewTypes
  PROVE  /\ candidates.rows \in Seq(Item) /\ queue.rows \in Seq(Item)
         /\ server.order \in Seq(Item) /\ reviews.rows \in Seq(ReviewRow)
         /\ server \in Servers /\ builder \in Builders
         /\ server.memory \in Verdicts /\ builder.existing \in Verdicts
         /\ latest \in Verdicts /\ saved \in Verdicts
         /\ builder.at \in Nat /\ builder.phase \in {"idle", "read", "write"}
BY DEF ReviewTypes, FileOf, Servers, Builders

(* The windows of a file.                                                  *)
LEMMA KnownWindows ==
  ASSUME ReviewBounds, NEW rows \in Seq(Item), NEW w \in Corpus!IdsOf(rows)
  PROVE  /\ w \in Corpus!AllWindows
         /\ \E i \in DOMAIN rows : rows[i] \in Item /\ rows[i].id = w
                                   /\ w[1] = rows[i].ns /\ w[3] = rows[i].last
<1>1. PICK i \in DOMAIN rows : rows[i].id = w
  BY DEF Corpus!IdsOf
<1>2. rows[i] \in Item
  OBVIOUS
<1>3. w = <<rows[i].ns, rows[i].first, rows[i].last>> /\ w \in Corpus!AllWindows
  BY <1>1, <1>2, ItemFields
<1> QED BY <1>1, <1>2, <1>3

(* One more event: windows that are live now were live before.             *)
LEMMA CaptureKeeps ==
  ASSUME ReviewBounds, ReviewInv, NEW ns \in ReviewNamespaces, Corpus!Capture(ns)
  PROVE  ReviewInv'
<1>0. ReviewTypes /\ WindowsInOrder
  BY DEF ReviewInv
<1>1. /\ captured[ns] < ReviewEvents /\ captured' = [captured EXCEPT ![ns] = @ + 1]
      /\ captured' \in [ReviewNamespaces -> 0..ReviewEvents]
      /\ \A m \in ReviewNamespaces : captured[m] <= captured'[m]
      /\ UNCHANGED <<candidates, queue, reviews, audited, corpus, frozen, report, builder,
                     server, posts, faults, commands, latest, saved, disturbed>>
  BY <1>0, CaptureDoes
<1>2. ReviewTypes'
  BY <1>0, <1>1 DEF ReviewTypes
<1>3. captured \in [ReviewNamespaces -> 0..ReviewEvents]
  BY <1>0 DEF ReviewTypes
<1>4. ASSUME NEW m \in ReviewNamespaces, NEW k \in Nat, k <= captured[m]
      PROVE  k <= captured'[m]
  <2>1. captured[m] \in Nat /\ captured'[m] \in Nat /\ captured[m] <= captured'[m]
    BY <1>1, <1>3 DEF ReviewBounds
  <2> QED BY <1>4, <2>1
<1>5. ASSUME NEW rows \in Seq(Item), Within(rows, captured)
      PROVE  \A i \in DOMAIN rows : rows[i].last <= captured'[rows[i].ns]
  <2> SUFFICES ASSUME NEW i \in DOMAIN rows PROVE rows[i].last <= captured'[rows[i].ns]
    OBVIOUS
  <2>1. rows[i].ns \in ReviewNamespaces /\ rows[i].last \in Nat
    BY ItemFields
  <2> QED BY <1>4, <1>5, <2>1 DEF Within
<1>6. WindowsInOrder'
  <2>1. \A w \in DOMAIN saved : w[3] <= captured'[w[1]]
    <3> SUFFICES ASSUME NEW w \in DOMAIN saved PROVE w[3] <= captured'[w[1]]
      OBVIOUS
    <3>1. w[1] \in ReviewNamespaces /\ w[3] \in Nat
      BY <1>0, RowsTyped, VerdictsMade, WindowFields
    <3> QED BY <1>0, <1>4, <3>1 DEF WindowsInOrder
  <2>2. /\ \A i \in DOMAIN candidates.rows :
             candidates.rows[i].last <= captured'[candidates.rows[i].ns]
        /\ \A i \in DOMAIN queue.rows : queue.rows[i].last <= captured'[queue.rows[i].ns]
        /\ \A i \in DOMAIN server.order : server.order[i].last <= captured'[server.order[i].ns]
    BY <1>0, <1>5, RowsTyped DEF WindowsInOrder
  <2> QED BY <1>0, <1>1, <2>1, <2>2 DEF WindowsInOrder, Sorted, Within
<1>7. WindowsRebuilt'
  <2> SUFFICES ASSUME faults' = 0,
                      NEW w \in Corpus!IdsOf(queue.rows) \union Corpus!IdsOf(server.order)
                                  \union DOMAIN saved,
                      Live(w, captured)'
               PROVE  w \in Corpus!IdsOf(candidates.rows)
    BY <1>1 DEF WindowsRebuilt, Corpus!IdsOf, Live
  <2>1. w \in Corpus!AllWindows /\ w[3] <= captured[w[1]]
    <3>1. CASE w \in DOMAIN saved
      BY <1>0, <3>1, RowsTyped, VerdictsMade DEF WindowsInOrder
    <3>2. CASE w \in Corpus!IdsOf(queue.rows)
      BY <1>0, <3>2, RowsTyped, KnownWindows DEF WindowsInOrder, Within
    <3>3. CASE w \in Corpus!IdsOf(server.order)
      BY <1>0, <3>3, RowsTyped, KnownWindows DEF WindowsInOrder, Within
    <3> QED BY <3>1, <3>2, <3>3
  <2>2. Live(w, [captured EXCEPT ![ns] = @ + 1])
    BY <1>1 DEF Live
  <2>3. Live(w, captured)
    BY <1>1, <1>3, <2>1, <2>2, LiveBefore
  <2> QED BY <1>1, <2>3 DEF ReviewInv, WindowsRebuilt
<1>8. KnownOnce' /\ QueueBuilt' /\ LabelsGiven' /\ ProductsTrue' /\ LabelsRemain'
  BY <1>1, KnownOnceStays, QueueBuiltStays, LabelsGivenStay, ProductsTrueStay,
     LabelsRemainStay DEF ReviewInv
<1> QED BY <1>2, <1>6, <1>7, <1>8 DEF ReviewInv

(* New candidates: a saved window among them was one already.              *)
LEMMA BuildKeeps ==
  ASSUME ReviewBounds, ReviewInv, Corpus!BuildCandidates
  PROVE  ReviewInv'
<1> DEFINE built == Corpus!BuiltCandidates
<1>0. ReviewTypes /\ captured \in [ReviewNamespaces -> 0..ReviewEvents]
  BY DEF ReviewInv, ReviewTypes
<1>1. /\ built \in Seq(Item) /\ Sorted(built) /\ Within(built, captured)
      /\ \A i \in DOMAIN built : Live(built[i].id, captured)
      /\ \A w \in Corpus!AllWindows : Live(w, captured) =>
           \E i \in DOMAIN built : built[i].id = w
  BY <1>0, Built
<1>2. /\ builder.phase = "idle" /\ commands' \in 0..MaxCommands
      /\ candidates' \in FileOf(Item) /\ Len(candidates'.rows) \in 0..Len(built)
      /\ \A i \in 1..Len(candidates'.rows) : candidates'.rows[i] = built[i]
      /\ faults' \in 0..MaxFaults
      /\ faults' = 0 => faults = 0 /\ candidates'.rows = built
      /\ UNCHANGED <<captured, queue, reviews, audited, corpus, frozen, report, builder,
                     server, posts, latest, saved, disturbed>>
  BY <1>0, BuildDoes
<1> HIDE DEF built
<1>3. ReviewTypes'
  BY <1>0, <1>2 DEF ReviewTypes
<1>4. candidates'.rows \in Seq(Item) /\ DOMAIN candidates'.rows = 1..Len(candidates'.rows)
      /\ DOMAIN candidates'.rows \subseteq DOMAIN built
  <2>1. candidates'.rows \in Seq(Item)
    BY <1>2 DEF FileOf
  <2> QED BY <1>1, <1>2, <2>1
<1>5. WindowsInOrder'
  <2>1. /\ \A i, j \in DOMAIN candidates'.rows :
             i < j /\ candidates'.rows[i].ns = candidates'.rows[j].ns =>
               candidates'.rows[i].last < candidates'.rows[j].first
        /\ \A i \in DOMAIN candidates'.rows :
             candidates'.rows[i].last <= captured[candidates'.rows[i].ns]
    BY <1>1, <1>2, <1>4 DEF Sorted, Within
  <2> QED BY <1>2, <2>1 DEF ReviewInv, WindowsInOrder, Sorted, Within
<1>6. QueueBuilt'
  <2>1. builder'.at = 0 /\ 0 <= Len(candidates'.rows) + 1
    BY <1>2, <1>4 DEF ReviewInv, QueueBuilt
  <2> QED BY <1>2, <2>1 DEF QueueBuilt
<1>7. ASSUME faults' = 0, NEW w \in Corpus!AllWindows, Live(w, captured)
      PROVE  \E i \in DOMAIN candidates'.rows : candidates'.rows[i].id = w
  BY <1>1, <1>2, <1>7
<1>8. WindowsRebuilt'
  <2> SUFFICES ASSUME faults' = 0,
                      NEW w \in Corpus!IdsOf(queue.rows) \union Corpus!IdsOf(server.order)
                                  \union DOMAIN saved,
                      Live(w, captured)
               PROVE  \E i \in DOMAIN candidates'.rows : candidates'.rows[i].id = w
    BY <1>2 DEF WindowsRebuilt, Corpus!IdsOf, Live
  <2>1. w \in Corpus!AllWindows
    BY <1>0, RowsTyped, KnownWindows, VerdictsMade
  <2> QED BY <1>7, <2>1
<1>9. LabelsRemain'
  <2> SUFFICES ASSUME faults' = 0, ~disturbed, NEW w \in DOMAIN saved,
                      NEW i \in DOMAIN candidates'.rows, candidates'.rows[i].id = w
               PROVE  /\ \E k \in Corpus!Labelled(reviews.rows) : reviews.rows[k].id = w
                      /\ server.up => w \in DOMAIN server.memory
    BY <1>2 DEF LabelsRemain, Corpus!IdsOf, Corpus!Labelled
  <2>1. Live(w, captured)
    BY <1>1, <1>2, <1>4
  <2>2. faults = 0 /\ w \in Corpus!IdsOf(candidates.rows)
    BY <1>2, <2>1 DEF ReviewInv, WindowsRebuilt
  <2> QED BY <1>2, <2>2 DEF ReviewInv, LabelsRemain
<1>10. KnownOnce' /\ LabelsGiven' /\ ProductsTrue'
  BY <1>2, KnownOnceStays, LabelsGivenStay, ProductsTrueStay DEF ReviewInv
<1> QED BY <1>3, <1>5, <1>6, <1>8, <1>9, <1>10 DEF ReviewInv

(* A label of the review file is one that was given, and so is a review    *)
(* that is read from the file.                                             *)
LEMMA ReadAsGiven ==
  ASSUME ReviewTypes, LabelsGiven, NEW f, f = Corpus!ReviewsIn(reviews.rows)
  PROVE  /\ GivenFor(f, latest, disturbed)
         /\ \A i \in Corpus!Labelled(reviews.rows) : reviews.rows[i].id \in DOMAIN f
<1>1. reviews.rows \in Seq(ReviewRow)
  BY RowsTyped
<1>2. /\ \A i \in Corpus!Labelled(reviews.rows) : reviews.rows[i].id \in DOMAIN f
      /\ \A w \in DOMAIN f : \E i \in Corpus!Labelled(reviews.rows) :
           reviews.rows[i].id = w /\ f[w] = reviews.rows[i].review
  BY <1>1, ReviewsRead
<1> QED BY <1>2 DEF LabelsGiven, RowsGiven, GivenFor

(* The labels of the file are now in the memory of the builder.            *)
LEMMA QueueReadKeeps ==
  ASSUME ReviewBounds, ReviewInv, Corpus!QueueRead
  PROVE  ReviewInv'
<1>0. ReviewTypes
  BY DEF ReviewInv
<1>1. /\ builder.phase = "idle" /\ commands' \in 0..MaxCommands
      /\ builder' \in Builders /\ builder'.phase = "read" /\ builder'.at = 0
      /\ builder'.existing = Corpus!ReviewsIn(reviews.rows)
      /\ disturbed' = (disturbed \/ server.up)
      /\ UNCHANGED <<captured, candidates, queue, reviews, audited, corpus, frozen, report,
                     server, posts, faults, latest, saved>>
  BY <1>0, QueueReadDoes
<1>2. ReviewTypes'
  BY <1>0, <1>1 DEF ReviewTypes
<1>3. QueueBuilt'
  <2>1. 0 <= Len(candidates.rows) + 1
    BY <1>0, RowsTyped
  <2> QED BY <1>1, <2>1 DEF QueueBuilt
<1>4. /\ GivenFor(builder'.existing, latest, disturbed)
      /\ \A i \in Corpus!Labelled(reviews.rows) : reviews.rows[i].id \in DOMAIN builder'.existing
  BY <1>0, <1>1, ReadAsGiven DEF ReviewInv
<1>5. LabelsGiven'
  BY <1>1, <1>4 DEF ReviewInv, LabelsGiven, RowsGiven, GivenFor, Corpus!Labelled
<1>6. LabelsRemain'
  <2> SUFFICES ASSUME faults = 0, ~disturbed,
                      NEW w \in DOMAIN saved \intersect Corpus!IdsOf(candidates.rows)
               PROVE  /\ \E i \in Corpus!Labelled(reviews.rows) : reviews.rows[i].id = w
                      /\ w \in DOMAIN builder'.existing
                      /\ server.up => w \in DOMAIN server.memory
    <3>1. /\ UNCHANGED <<candidates, reviews, server, saved, faults>>
          /\ ~disturbed' => ~disturbed
      BY <1>1
    <3> QED BY <3>1 DEF LabelsRemain, Corpus!IdsOf, Corpus!Labelled
  <2>1. /\ \E i \in Corpus!Labelled(reviews.rows) : reviews.rows[i].id = w
        /\ server.up => w \in DOMAIN server.memory
    BY <1>1 DEF ReviewInv, LabelsRemain
  <2> QED BY <1>4, <2>1
<1>7. WindowsInOrder' /\ KnownOnce' /\ ProductsTrue' /\ WindowsRebuilt'
  BY <1>1, WindowsInOrderStay, KnownOnceStays, ProductsTrueStay, WindowsRebuiltStay
  DEF ReviewInv
<1> QED BY <1>2, <1>3, <1>5, <1>6, <1>7 DEF ReviewInv

(* The files are empty, and the labels only in the memory of the builder.  *)
LEMMA QueueOpenKeeps ==
  ASSUME ReviewBounds, ReviewInv, Corpus!QueueOpen
  PROVE  ReviewInv'
<1>0. ReviewTypes
  BY DEF ReviewInv
<1>1. /\ builder.phase = "read"
      /\ queue' \in FileOf(Item) /\ queue'.rows = << >>
      /\ reviews' \in FileOf(ReviewRow) /\ reviews'.rows = << >>
      /\ builder' \in Builders /\ builder'.phase = "write" /\ builder'.at = 1
      /\ builder'.linked /\ builder'.existing = builder.existing
      /\ UNCHANGED <<captured, candidates, audited, corpus, frozen, report, server, posts,
                     faults, commands, latest, saved, disturbed>>
  BY <1>0, QueueOpenDoes
<1>2. ReviewTypes'
  BY <1>0, <1>1 DEF ReviewTypes
<1>3. WindowsInOrder'
  BY <1>1 DEF ReviewInv, WindowsInOrder, Sorted, Within
<1>4. KnownOnce'
  BY <1>1 DEF ReviewInv, KnownOnce, Corpus!IsUnique, Corpus!IdsOf
<1>5. QueueBuilt'
  <2>1. candidates.rows \in Seq(Item)
    BY <1>0, RowsTyped
  <2>2. 1 <= Len(candidates.rows) + 1
    BY <2>1
  <2>3. << >> = [i \in 1 .. (1 - 1) |-> candidates.rows[i]]
    OBVIOUS
  <2>4. << >> = [i \in 1 .. (1 - 1) |-> Corpus!QueueRow(candidates.rows[i].id)']
    OBVIOUS
  <2> QED BY <1>1, <2>2, <2>3, <2>4 DEF ReviewInv, QueueBuilt, Corpus!QueueRow
<1>6. LabelsGiven'
  BY <1>1 DEF ReviewInv, LabelsGiven, RowsGiven, GivenFor, Corpus!Labelled
<1>7. WindowsRebuilt'
  BY <1>1 DEF ReviewInv, WindowsRebuilt, Corpus!IdsOf, Live
<1>8. LabelsRemain'
  BY <1>1 DEF ReviewInv, LabelsRemain, Corpus!IdsOf
<1>9. ProductsTrue'
  BY <1>1, ProductsTrueStay DEF ReviewInv
<1> QED BY <1>2, <1>3, <1>4, <1>5, <1>6, <1>7, <1>8, <1>9 DEF ReviewInv

(* A failure of the builder may lose labels, and is remembered.            *)
LEMMA QueueFailsKeeps ==
  ASSUME ReviewBounds, ReviewInv, Corpus!QueueFails
  PROVE  ReviewInv'
<1>0. ReviewTypes
  BY DEF ReviewInv
<1>1. /\ builder.phase # "idle" /\ disturbed' = TRUE
      /\ builder' \in Builders /\ builder'.phase = "idle" /\ builder'.at = 0
      /\ reviews' \in FileOf(ReviewRow) /\ reviews'.rows = reviews.rows
      /\ faults' \in 0..MaxFaults /\ faults <= faults'
      /\ UNCHANGED <<captured, candidates, queue, audited, corpus, frozen, report, server,
                     posts, commands, latest, saved>>
  BY <1>0, QueueFailsDoes
<1>2. ReviewTypes'
  BY <1>0, <1>1 DEF ReviewTypes
<1>3. QueueBuilt'
  <2>1. 0 <= Len(candidates.rows) + 1
    BY <1>0, RowsTyped
  <2> QED BY <1>1, <2>1 DEF QueueBuilt
<1>4. LabelsGiven'
  BY <1>1 DEF ReviewInv, LabelsGiven, RowsGiven, GivenFor, Corpus!Labelled
<1>5. LabelsRemain'
  BY <1>1 DEF LabelsRemain
<1>6. faults' = 0 => faults = 0
  BY <1>0, <1>1 DEF ReviewTypes, ReviewBounds
<1>7. WindowsInOrder' /\ KnownOnce' /\ ProductsTrue' /\ WindowsRebuilt'
  BY <1>1, <1>6, WindowsInOrderStay, KnownOnceStays, ProductsTrueStay, WindowsRebuiltStay
  DEF ReviewInv
<1> QED BY <1>2, <1>3, <1>4, <1>5, <1>7 DEF ReviewInv

(* The server takes over the labels of the file.                           *)
LEMMA ServeStartKeeps ==
  ASSUME ReviewBounds, ReviewInv, Corpus!ServeStart
  PROVE  ReviewInv'
<1>0. ReviewTypes
  BY DEF ReviewInv
<1>1. /\ server.up = FALSE
      /\ DOMAIN Corpus!ReviewsIn(reviews.rows) \subseteq Corpus!IdsOf(queue.rows)
      /\ server' \in Servers /\ server'.up = TRUE /\ server'.order = queue.rows
      /\ server'.memory = Corpus!ReviewsIn(reviews.rows)
      /\ disturbed' = (disturbed \/ builder.phase # "idle")
      /\ UNCHANGED <<captured, candidates, queue, reviews, audited, corpus, frozen, report,
                     builder, posts, faults, commands, latest, saved>>
  BY <1>0, ServeStartDoes
<1>2. ReviewTypes'
  BY <1>0, <1>1 DEF ReviewTypes
<1>3. WindowsInOrder'
  BY <1>1 DEF ReviewInv, WindowsInOrder, Sorted, Within
<1>4. KnownOnce'
  BY <1>1 DEF ReviewInv, KnownOnce, Corpus!IsUnique, Corpus!IdsOf
<1>5. QueueBuilt'
  BY <1>1 DEF ReviewInv, QueueBuilt, Corpus!QueueRow
<1>6. /\ GivenFor(server'.memory, latest, disturbed)
      /\ \A i \in Corpus!Labelled(reviews.rows) : reviews.rows[i].id \in DOMAIN server'.memory
  BY <1>0, <1>1, ReadAsGiven DEF ReviewInv
<1>7. LabelsGiven'
  BY <1>1, <1>6 DEF ReviewInv, LabelsGiven, RowsGiven, GivenFor, Corpus!Labelled
<1>8. WindowsRebuilt'
  BY <1>1 DEF ReviewInv, WindowsRebuilt, Corpus!IdsOf, Live
<1>9. LabelsRemain'
  <2> SUFFICES ASSUME faults = 0, ~disturbed, builder.phase = "idle",
                      NEW w \in DOMAIN saved \intersect Corpus!IdsOf(candidates.rows)
               PROVE  /\ \E i \in Corpus!Labelled(reviews.rows) : reviews.rows[i].id = w
                      /\ w \in DOMAIN server'.memory
    <3>1. /\ UNCHANGED <<candidates, reviews, builder, saved, faults>>
          /\ builder.phase # "idle" => disturbed'
          /\ ~disturbed' => ~disturbed
          /\ builder.phase \in {"idle", "read", "write"}
      BY <1>0, <1>1 DEF ReviewTypes, Builders
    <3> QED BY <3>1 DEF LabelsRemain, Corpus!IdsOf, Corpus!Labelled
  <2>1. \E i \in Corpus!Labelled(reviews.rows) : reviews.rows[i].id = w
    BY <1>1 DEF ReviewInv, LabelsRemain
  <2> QED BY <1>6, <2>1
<1>10. ProductsTrue'
  BY <1>1, ProductsTrueStay DEF ReviewInv
<1> QED BY <1>2, <1>3, <1>4, <1>5, <1>7, <1>8, <1>9, <1>10 DEF ReviewInv

(* The memory of the server is no more than its file had.                  *)
LEMMA ServeStopKeeps ==
  ASSUME ReviewBounds, ReviewInv, Corpus!ServeStop
  PROVE  ReviewInv'
<1>1. /\ server' \in Servers /\ server'.up = FALSE /\ server'.order = << >>
      /\ server'.memory = << >>
      /\ UNCHANGED <<captured, candidates, queue, reviews, audited, corpus, frozen, report,
                     builder, posts, faults, commands, latest, saved, disturbed>>
  BY ServeStopDoes
<1>2. ReviewTypes'
  BY <1>1 DEF ReviewInv, ReviewTypes
<1>3. WindowsInOrder'
  BY <1>1 DEF ReviewInv, WindowsInOrder, Sorted, Within
<1>4. KnownOnce'
  BY <1>1 DEF ReviewInv, KnownOnce, Corpus!IsUnique, Corpus!IdsOf
<1>5. QueueBuilt'
  BY <1>1 DEF ReviewInv, QueueBuilt, Corpus!QueueRow
<1>6. LabelsGiven'
  BY <1>1 DEF ReviewInv, LabelsGiven, RowsGiven, GivenFor, Corpus!Labelled
<1>7. WindowsRebuilt'
  BY <1>1 DEF ReviewInv, WindowsRebuilt, Corpus!IdsOf, Live
<1>8. LabelsRemain'
  BY <1>1 DEF ReviewInv, LabelsRemain, Corpus!IdsOf, Corpus!Labelled
<1>9. ProductsTrue'
  BY <1>1, ProductsTrueStay DEF ReviewInv
<1> QED BY <1>2, <1>3, <1>4, <1>5, <1>6, <1>7, <1>8, <1>9 DEF ReviewInv

(* The next row is that of the next candidate.                             *)
LEMMA QueueWriteKeeps ==
  ASSUME ReviewBounds, ReviewInv, Corpus!QueueWrite
  PROVE  ReviewInv'
<1> DEFINE at == builder.at
           item == candidates.rows[builder.at]
<1>0. ReviewTypes
  BY DEF ReviewInv
<1>1. /\ builder.phase = "write" /\ at <= Len(candidates.rows)
      /\ at >= 1 => item \in Item
      /\ item \in Item =>
           /\ queue' \in FileOf(Item) /\ queue'.rows = Append(queue.rows, item)
           /\ reviews' \in FileOf(ReviewRow)
           /\ builder.linked => reviews'.rows = Append(reviews.rows, Corpus!QueueRow(item.id))
           /\ ~builder.linked => reviews' = reviews
      /\ builder' \in Builders /\ builder'.phase = "write" /\ builder'.at = at + 1
      /\ builder'.linked = builder.linked /\ builder'.existing = builder.existing
      /\ UNCHANGED <<captured, candidates, audited, corpus, frozen, report, server, posts,
                     faults, commands, latest, saved, disturbed>>
  BY <1>0, QueueWriteDoes
<1> HIDE DEF at, item
<1>2. /\ at \in Nat /\ candidates.rows \in Seq(Item) /\ queue.rows \in Seq(Item)
      /\ reviews.rows \in Seq(ReviewRow) /\ Len(candidates.rows) \in Nat
      /\ DOMAIN candidates.rows = 1 .. Len(candidates.rows)
  BY <1>0, RowsTyped DEF at
<1>3. at >= 1 /\ item \in Item /\ at \in DOMAIN candidates.rows
  BY <1>1, <1>2 DEF ReviewInv, QueueBuilt, at
<1>4. /\ queue' \in FileOf(Item) /\ queue'.rows = Append(queue.rows, item)
      /\ reviews' \in FileOf(ReviewRow)
      /\ builder.linked => reviews'.rows = Append(reviews.rows, Corpus!QueueRow(item.id))
      /\ ~builder.linked => reviews' = reviews
  BY <1>1, <1>3
<1>5. ReviewTypes'
  BY <1>0, <1>1, <1>4 DEF ReviewTypes
<1>6. queue'.rows = [i \in 1..at |-> candidates.rows[i]]
  <2> DEFINE Row(i) == candidates.rows[i]
  <2>1. queue.rows = [i \in 1 .. (at - 1) |-> Row(i)]
    BY <1>1 DEF ReviewInv, QueueBuilt, at
  <2>2. queue'.rows = Append(queue.rows, Row(at))
    BY <1>4 DEF item, at
  <2> HIDE DEF Row
  <2>3. queue'.rows = [i \in 1..at |-> Row(i)]
    BY <1>2, <1>3, <2>1, <2>2
  <2> QED BY <2>3 DEF Row
<1>7. builder.linked =>
        reviews'.rows = [i \in 1..at |-> Corpus!QueueRow(candidates.rows[i].id)]
  <2> SUFFICES ASSUME builder.linked
               PROVE  reviews'.rows = [i \in 1..at |-> Corpus!QueueRow(candidates.rows[i].id)]
    OBVIOUS
  <2> DEFINE Row(i) == Corpus!QueueRow(candidates.rows[i].id)
  <2>1. reviews.rows = [i \in 1 .. (at - 1) |-> Row(i)]
    BY <1>1 DEF ReviewInv, QueueBuilt, at
  <2>2. reviews'.rows = Append(reviews.rows, Row(at))
    BY <1>4 DEF item, at
  <2> HIDE DEF Row
  <2>3. reviews'.rows = [i \in 1..at |-> Row(i)]
    BY <1>2, <1>3, <2>1, <2>2
  <2> QED BY <2>3 DEF Row
<1>8. \A i \in DOMAIN candidates.rows :
        /\ Corpus!QueueRow(candidates.rows[i].id).id = candidates.rows[i].id
        /\ candidates.rows[i].id \in Corpus!AllWindows
  <2> SUFFICES ASSUME NEW i \in DOMAIN candidates.rows
               PROVE  /\ Corpus!QueueRow(candidates.rows[i].id).id = candidates.rows[i].id
                      /\ candidates.rows[i].id \in Corpus!AllWindows
    OBVIOUS
  <2>1. candidates.rows[i].id \in Corpus!AllWindows
    BY <1>2, ItemFields
  <2> QED BY <1>0, <2>1, QueueRowMade
<1>9. DOMAIN queue'.rows = 1..at /\ 1..at \subseteq DOMAIN candidates.rows
  BY <1>1, <1>2, <1>3, <1>6
<1>10. WindowsInOrder'
  <2>1. /\ \A i, j \in DOMAIN queue'.rows :
             i < j /\ queue'.rows[i].ns = queue'.rows[j].ns =>
               queue'.rows[i].last < queue'.rows[j].first
        /\ \A i \in DOMAIN queue'.rows : queue'.rows[i].last <= captured[queue'.rows[i].ns]
    BY <1>6, <1>9 DEF ReviewInv, WindowsInOrder, Sorted, Within
  <2> QED BY <1>1, <2>1 DEF ReviewInv, WindowsInOrder, Sorted, Within
<1>11. KnownOnce'
  <2>1. Corpus!IsUnique(reviews.rows)'
    <3>1. CASE builder.linked
      <4>1. \A i, j \in DOMAIN candidates.rows :
              candidates.rows[i].id = candidates.rows[j].id => i = j
        BY <1>2, SortedUnique DEF ReviewInv, WindowsInOrder
      <4>2. /\ DOMAIN reviews'.rows = 1..at
            /\ \A i \in 1..at : reviews'.rows[i].id = candidates.rows[i].id
        BY <1>7, <1>8, <1>9, <3>1
      <4>3. \A i, j \in DOMAIN reviews'.rows :
              reviews'.rows[i].id = reviews'.rows[j].id => i = j
        BY <1>9, <4>1, <4>2
      <4> QED BY <4>3 DEF Corpus!IsUnique
    <3>2. CASE ~builder.linked
      BY <1>4, <3>2 DEF ReviewInv, KnownOnce, Corpus!IsUnique
    <3> QED BY <3>1, <3>2
  <2> QED BY <1>1, <2>1 DEF ReviewInv, KnownOnce, Corpus!IdsOf
<1>12. QueueBuilt'
  <2>1. at + 1 <= Len(candidates.rows) + 1 /\ at + 1 >= 1 /\ (at + 1) - 1 = at
    <3>1. at <= Len(candidates.rows)
      BY <1>1
    <3> QED BY ONLY <1>2, <1>3, <3>1
  <2>2. \A w : Corpus!QueueRow(w)' = Corpus!QueueRow(w)
    BY <1>1 DEF Corpus!QueueRow
  <2>3. builder.linked =>
          reviews'.rows = [i \in 1..at |-> Corpus!QueueRow(candidates.rows[i].id)']
    BY <1>1, <1>7, <2>2
  <2>4. /\ ~disturbed => builder.linked
        /\ ~disturbed => ~server.up
    BY <1>1 DEF ReviewInv, QueueBuilt
  <2>5. queue'.rows = [i \in 1 .. (builder'.at - 1) |-> candidates'.rows[i]]
    BY <1>1, <1>6, <2>1
  <2>6. builder'.linked =>
          reviews'.rows = [i \in 1 .. (builder'.at - 1) |->
                             Corpus!QueueRow(candidates.rows[i].id)']
    BY <1>1, <2>1, <2>3
  <2>7. builder'.at <= Len(candidates'.rows) + 1 /\ builder'.at >= 1
    BY <1>1, <2>1
  <2> QED BY <1>1, <2>4, <2>5, <2>6, <2>7 DEF QueueBuilt
<1>13. LabelsGiven'
  <2>1. \A i \in Corpus!Labelled(reviews'.rows) :
          /\ reviews'.rows[i].id \in DOMAIN latest
          /\ ~disturbed => reviews'.rows[i].review = latest[reviews'.rows[i].id]
    <3> SUFFICES ASSUME NEW i \in Corpus!Labelled(reviews'.rows)
                 PROVE  /\ reviews'.rows[i].id \in DOMAIN latest
                        /\ ~disturbed => reviews'.rows[i].review = latest[reviews'.rows[i].id]
      OBVIOUS
    <3>1. CASE builder.linked
      <4> DEFINE w == candidates.rows[i].id
      <4>1. i \in 1..at /\ reviews'.rows[i] = Corpus!QueueRow(w)
        BY <1>7, <3>1 DEF Corpus!Labelled
      <4>2. w \in Corpus!AllWindows /\ reviews'.rows[i].review.label \in Corpus!Labels
        BY <1>8, <1>9, <4>1 DEF Corpus!Labelled
      <4> HIDE DEF w
      <4>3. /\ w \in DOMAIN builder.existing /\ reviews'.rows[i].id = w
            /\ reviews'.rows[i].review = builder.existing[w]
        BY <1>0, <4>1, <4>2, QueueRowMade
      <4> QED BY <1>1, <4>3 DEF ReviewInv, LabelsGiven, GivenFor
    <3>2. CASE ~builder.linked
      BY <1>4, <3>2 DEF ReviewInv, LabelsGiven, RowsGiven
    <3> QED BY <3>1, <3>2
  <2> QED BY <1>1, <2>1 DEF ReviewInv, LabelsGiven, RowsGiven, GivenFor, Corpus!Labelled
<1>14. WindowsRebuilt'
  <2>1. \A i \in DOMAIN queue'.rows : queue'.rows[i].id \in Corpus!IdsOf(candidates.rows)
    BY <1>6, <1>9 DEF Corpus!IdsOf
  <2> SUFFICES ASSUME faults = 0,
                      NEW w \in Corpus!IdsOf(queue.rows)' \union Corpus!IdsOf(server.order)
                                  \union DOMAIN saved,
                      Live(w, captured)
               PROVE  w \in Corpus!IdsOf(candidates.rows)
    BY <1>1 DEF WindowsRebuilt, Corpus!IdsOf, Live
  <2>2. CASE w \in Corpus!IdsOf(queue.rows)'
    BY <2>1, <2>2 DEF Corpus!IdsOf
  <2>3. CASE w \in Corpus!IdsOf(server.order) \union DOMAIN saved
    BY <2>3 DEF ReviewInv, WindowsRebuilt
  <2> QED BY <2>2, <2>3
<1>15. LabelsRemain'
  BY <1>1 DEF ReviewInv, LabelsRemain, Corpus!IdsOf, Corpus!Labelled
<1>16. ProductsTrue'
  BY <1>1, ProductsTrueStay DEF ReviewInv
<1> QED BY <1>5, <1>10, <1>11, <1>12, <1>13, <1>14, <1>15, <1>16 DEF ReviewInv

(* When all rows are written every label is in the file again.             *)
LEMMA QueueDoneKeeps ==
  ASSUME ReviewBounds, ReviewInv, Corpus!QueueDone
  PROVE  ReviewInv'
<1>0. ReviewTypes
  BY DEF ReviewInv
<1>1. /\ builder.phase = "write" /\ builder.at > Len(candidates.rows)
      /\ builder' \in Builders /\ builder'.phase = "idle" /\ builder'.at = 0
      /\ UNCHANGED <<captured, candidates, queue, reviews, audited, corpus, frozen, report,
                     server, posts, faults, commands, latest, saved, disturbed>>
  BY <1>0, QueueDoneDoes
<1>2. ReviewTypes'
  BY <1>0, <1>1 DEF ReviewTypes
<1>3. /\ candidates.rows \in Seq(Item) /\ builder.at \in Nat /\ Len(candidates.rows) \in Nat
      /\ DOMAIN candidates.rows = 1 .. Len(candidates.rows)
  BY <1>0, RowsTyped
<1>4. QueueBuilt'
  <2>1. 0 <= Len(candidates.rows) + 1
    BY <1>3
  <2> QED BY <1>1, <2>1 DEF QueueBuilt
<1>5. LabelsGiven'
  BY <1>1 DEF ReviewInv, LabelsGiven, RowsGiven, GivenFor, Corpus!Labelled
<1>6. LabelsRemain'
  <2> SUFFICES ASSUME faults = 0, ~disturbed,
                      NEW w \in DOMAIN saved, NEW i \in DOMAIN candidates.rows,
                      candidates.rows[i].id = w
               PROVE  /\ \E k \in Corpus!Labelled(reviews.rows) : reviews.rows[k].id = w
                      /\ server.up => w \in DOMAIN server.memory
    BY <1>1 DEF LabelsRemain, Corpus!IdsOf, Corpus!Labelled
  <2>1. w \in DOMAIN builder.existing /\ (server.up => w \in DOMAIN server.memory)
    BY <1>1 DEF ReviewInv, LabelsRemain, Corpus!IdsOf
  <2>2. builder.at - 1 = Len(candidates.rows) /\ builder.linked
    <3>1. builder.at <= Len(candidates.rows) + 1 /\ builder.linked
      BY <1>1 DEF ReviewInv, QueueBuilt
    <3> QED BY <1>1, <1>3, <3>1
  <2>3. reviews.rows = [k \in 1 .. Len(candidates.rows) |->
                          Corpus!QueueRow(candidates.rows[k].id)]
    BY <1>1, <2>2 DEF ReviewInv, QueueBuilt
  <2>4. i \in DOMAIN reviews.rows /\ reviews.rows[i] = Corpus!QueueRow(w)
    BY <1>3, <2>3
  <2>5. w \in Corpus!AllWindows
    BY <1>3, ItemFields
  <2>6. reviews.rows[i].id = w /\ reviews.rows[i].review.label \in Corpus!Labels
    BY <1>0, <2>1, <2>4, <2>5, QueueRowMade
  <2> QED BY <2>1, <2>4, <2>6 DEF Corpus!Labelled
<1>7. WindowsInOrder' /\ KnownOnce' /\ ProductsTrue' /\ WindowsRebuilt'
  BY <1>1, WindowsInOrderStay, KnownOnceStays, ProductsTrueStay, WindowsRebuiltStay
  DEF ReviewInv
<1> QED BY <1>2, <1>4, <1>5, <1>6, <1>7 DEF ReviewInv

(* One more review was given.                                              *)
LEMMA OneMoreGiven ==
  ASSUME NEW f \in Verdicts, NEW given \in Verdicts, NEW unsure, GivenFor(f, given, unsure),
         NEW w \in Corpus!AllWindows, NEW review \in Verdict
  PROVE  GivenFor(Corpus!With(f, w, review), Corpus!With(given, w, review), unsure)
<1>1. /\ DOMAIN Corpus!With(f, w, review) = DOMAIN f \union {w}
      /\ Corpus!With(f, w, review)[w] = review
      /\ \A v \in DOMAIN f : v # w => Corpus!With(f, w, review)[v] = f[v]
  BY WithOne
<1>2. /\ DOMAIN Corpus!With(given, w, review) = DOMAIN given \union {w}
      /\ Corpus!With(given, w, review)[w] = review
      /\ \A v \in DOMAIN given : v # w => Corpus!With(given, w, review)[v] = given[v]
  BY WithOne
<1> QED BY <1>1, <1>2 DEF GivenFor

(* A saved review is in the file; one that is not saved is remembered.     *)
LEMMA PostKeeps ==
  ASSUME ReviewBounds, ReviewInv, NEW p \in DOMAIN server.order,
         NEW review \in {Review("benign", FALSE, TRUE), Review("malicious", FALSE, TRUE)},
         Corpus!Post(server.order[p], review)
  PROVE  ReviewInv'
<1> DEFINE w == server.order[p].id
           mem == Corpus!With(server.memory, w, review)
<1>0. ReviewTypes /\ WindowsInOrder
  BY DEF ReviewInv
<1>1. /\ server.up /\ w \in Corpus!AllWindows /\ review \in Verdict /\ mem \in Verdicts
      /\ posts' \in 0..MaxPosts
      /\ server' \in Servers /\ server'.up = TRUE /\ server'.order = server.order
      /\ server'.memory = mem
      /\ latest' = Corpus!With(latest, w, review)
      /\ PostSaved(w, review, mem) \/ PostFailed
      /\ UNCHANGED <<captured, candidates, queue, audited, corpus, frozen, report, commands>>
  BY <1>0, PostDoes
<1>2. /\ server.order \in Seq(Item) /\ server.memory \in Verdicts
      /\ builder.existing \in Verdicts /\ latest \in Verdicts /\ saved \in Verdicts
  BY <1>0, RowsTyped
<1>3. /\ w \in Corpus!IdsOf(server.order) /\ w[3] <= captured[w[1]]
  <2>1. w \in Corpus!IdsOf(server.order)
    BY DEF Corpus!IdsOf
  <2>2. server.order[p] \in Item /\ server.order[p].last <= captured[server.order[p].ns]
    BY <1>0, <1>2 DEF WindowsInOrder, Within
  <2>3. w = <<server.order[p].ns, server.order[p].first, server.order[p].last>>
    BY <2>2, ItemFields
  <2> QED BY <2>1, <2>2, <2>3
<1> DEFINE rows == Corpus!MemoryRows(mem)
<1>4. /\ rows \in Seq(ReviewRow) /\ Corpus!IsUnique(rows)
      /\ \A i \in DOMAIN rows : rows[i].id \in DOMAIN mem /\ rows[i].review = mem[rows[i].id]
      /\ \A v \in DOMAIN mem \intersect Corpus!IdsOf(server.order) :
           \E i \in Corpus!Labelled(rows) : rows[i].id = v
  BY <1>0, <1>1, <1>2, MemoryKept DEF WindowsInOrder
<1>5. /\ DOMAIN mem = DOMAIN server.memory \union {w}
      /\ DOMAIN latest' = DOMAIN latest \union {w} /\ latest' \in Verdicts
  <2> DEFINE v == w
  <2>1. v \in Corpus!AllWindows /\ latest' = Corpus!With(latest, v, review)
    BY <1>1
  <2> HIDE DEF v
  <2>2. /\ DOMAIN Corpus!With(server.memory, v, review) = DOMAIN server.memory \union {v}
        /\ DOMAIN Corpus!With(latest, v, review) = DOMAIN latest \union {v}
        /\ Corpus!With(latest, v, review) \in Verdicts
    <3>1. /\ server.memory \in Verdicts /\ latest \in Verdicts /\ review \in Verdict
      BY <1>1, <1>2
    <3>2. DOMAIN Corpus!With(server.memory, v, review) = DOMAIN server.memory \union {v}
      BY <2>1, <3>1, WithOne
    <3>3. /\ DOMAIN Corpus!With(latest, v, review) = DOMAIN latest \union {v}
          /\ Corpus!With(latest, v, review) \in Verdicts
      BY <2>1, <3>1, WithOne
    <3> QED BY <3>2, <3>3
  <2> QED BY <2>1, <2>2 DEF v
<1>6. builder.phase # "idle" => disturbed
  BY <1>1 DEF ReviewInv, QueueBuilt
<1>7. GivenFor(mem, latest', disturbed)
  BY <1>1, <1>2, OneMoreGiven DEF ReviewInv, LabelsGiven
<1>8. builder.phase # "idle" => GivenFor(builder.existing, latest', TRUE)
  BY <1>5 DEF ReviewInv, LabelsGiven, GivenFor
<1>9. disturbed \in BOOLEAN /\ faults \in 0..MaxFaults
  BY <1>0 DEF ReviewTypes
<1>10. CASE PostSaved(w, review, mem)
  <2>1. /\ reviews' \in FileOf(ReviewRow) /\ reviews'.rows = rows
        /\ builder' \in Builders /\ builder'.linked = FALSE /\ builder'.phase = builder.phase
        /\ builder'.at = builder.at /\ builder'.existing = builder.existing
        /\ saved' = Corpus!With(saved, w, review)
        /\ faults' = faults /\ disturbed' = disturbed
    BY <1>10 DEF PostSaved
  <2>2. saved' \in Verdicts /\ DOMAIN saved' = DOMAIN saved \union {w}
    <3> DEFINE v == w
    <3>1. v \in Corpus!AllWindows /\ saved' = Corpus!With(saved, v, review)
      BY <1>1, <2>1
    <3> HIDE DEF v
    <3>2. /\ DOMAIN Corpus!With(saved, v, review) = DOMAIN saved \union {v}
          /\ Corpus!With(saved, v, review) \in Verdicts
      <4>1. saved \in Verdicts /\ review \in Verdict
        BY <1>1, <1>2
      <4> QED BY <3>1, <4>1, WithOne
    <3> QED BY <3>1, <3>2 DEF v
  <2> HIDE DEF w, mem, rows
  <2>3. ReviewTypes'
    BY <1>0, <1>1, <1>5, <2>1, <2>2 DEF ReviewTypes
  <2>4. WindowsInOrder'
    BY <1>0, <1>1, <1>3, <2>2 DEF WindowsInOrder, Sorted, Within
  <2>5. KnownOnce'
    <3>1. Corpus!IsUnique(reviews.rows)'
      BY <1>4, <2>1 DEF Corpus!IsUnique
    <3>2. DOMAIN mem \subseteq Corpus!IdsOf(server.order) /\ DOMAIN saved' \subseteq DOMAIN latest'
      BY <1>3, <1>5, <2>2 DEF ReviewInv, KnownOnce
    <3> QED BY <1>1, <3>1, <3>2 DEF KnownOnce, Corpus!IdsOf
  <2>6. QueueBuilt'
    BY <1>1, <1>6, <2>1 DEF ReviewInv, QueueBuilt
  <2>7. LabelsGiven'
    <3>1. \A i \in Corpus!Labelled(rows) :
            /\ rows[i].id \in DOMAIN latest'
            /\ ~disturbed => rows[i].review = latest'[rows[i].id]
      BY <1>4, <1>7 DEF GivenFor, Corpus!Labelled
    <3> QED BY <1>1, <1>6, <1>7, <1>8, <2>1, <3>1
        DEF LabelsGiven, RowsGiven, GivenFor, Corpus!Labelled
  <2>8. WindowsRebuilt'
    <3> SUFFICES ASSUME faults = 0,
                        NEW v \in Corpus!IdsOf(queue.rows) \union Corpus!IdsOf(server.order)
                                    \union DOMAIN saved',
                        Live(v, captured)
                 PROVE  v \in Corpus!IdsOf(candidates.rows)
      BY <1>1, <2>1 DEF WindowsRebuilt, Corpus!IdsOf, Live
    <3> QED BY <1>3, <2>2 DEF ReviewInv, WindowsRebuilt
  <2>9. LabelsRemain'
    <3> SUFFICES ASSUME faults = 0, ~disturbed,
                        NEW v \in DOMAIN saved' \intersect Corpus!IdsOf(candidates.rows)
                 PROVE  /\ builder.phase = "idle"
                        /\ \E i \in Corpus!Labelled(rows) : rows[i].id = v
                        /\ v \in DOMAIN mem
      BY <1>1, <2>1 DEF LabelsRemain, Corpus!IdsOf, Corpus!Labelled
    <3>1. v \in DOMAIN mem
      BY <1>1, <1>5, <2>2 DEF ReviewInv, LabelsRemain
    <3>2. v \in Corpus!IdsOf(server.order)
      BY <1>3, <1>5, <3>1 DEF ReviewInv, KnownOnce
    <3> QED BY <1>4, <1>6, <3>1, <3>2
  <2>10. ProductsTrue'
    BY <1>1, ProductsTrueStay DEF ReviewInv
  <2> QED BY <2>3, <2>4, <2>5, <2>6, <2>7, <2>8, <2>9, <2>10 DEF ReviewInv
<1>11. CASE PostFailed
  <2> HIDE DEF w, mem, rows
  <2>1. /\ faults' \in 0..MaxFaults /\ faults' # 0 /\ disturbed' = TRUE
        /\ UNCHANGED <<reviews, builder, saved>>
    BY <1>11 DEF PostFailed
  <2>2. ReviewTypes'
    BY <1>0, <1>1, <1>5, <2>1 DEF ReviewTypes
  <2>3. WindowsInOrder'
    BY <1>0, <1>1, <2>1 DEF WindowsInOrder, Sorted, Within
  <2>4. KnownOnce'
    <3>1. DOMAIN mem \subseteq Corpus!IdsOf(server.order) /\ DOMAIN saved \subseteq DOMAIN latest'
      BY <1>3, <1>5 DEF ReviewInv, KnownOnce
    <3> QED BY <1>1, <2>1, <3>1 DEF ReviewInv, KnownOnce, Corpus!IdsOf, Corpus!IsUnique
  <2>5. QueueBuilt'
    BY <1>1, <2>1 DEF ReviewInv, QueueBuilt, Corpus!QueueRow
  <2>6. LabelsGiven'
    <3>1. \A i \in Corpus!Labelled(reviews.rows) : reviews.rows[i].id \in DOMAIN latest'
      BY <1>5 DEF ReviewInv, LabelsGiven, RowsGiven
    <3> QED BY <1>1, <1>7, <1>8, <2>1, <3>1
        DEF LabelsGiven, RowsGiven, GivenFor, Corpus!Labelled
  <2>7. WindowsRebuilt' /\ LabelsRemain'
    BY <2>1 DEF WindowsRebuilt, LabelsRemain
  <2>8. ProductsTrue'
    BY <1>1, ProductsTrueStay DEF ReviewInv
  <2> QED BY <2>2, <2>3, <2>4, <2>5, <2>6, <2>7, <2>8 DEF ReviewInv
<1> QED BY <1>1, <1>10, <1>11

(* The audit keeps labels that were given, or takes them back.             *)
LEMMA AuditKeeps ==
  ASSUME ReviewBounds, ReviewInv, Corpus!Audit
  PROVE  ReviewInv'
<1> DEFINE rows == [i \in DOMAIN reviews.rows |-> Corpus!Revised(reviews.rows[i])]
<1>0. ReviewTypes
  BY DEF ReviewInv
<1>1. /\ Corpus!Matches(reviews.rows)
      /\ rows \in Seq(ReviewRow)
      /\ audited'.rows \in Seq(ReviewRow) /\ Len(audited'.rows) \in 0..Len(rows)
      /\ \A i \in 1..Len(audited'.rows) : audited'.rows[i] = rows[i]
      /\ audited'.said = Corpus!Snapshot
      /\ faults' \in 0..MaxFaults /\ faults <= faults' /\ commands' \in 0..MaxCommands
      /\ UNCHANGED Reviewing /\ UNCHANGED <<corpus, frozen, report>>
  BY <1>0, AuditDoes
<1>2. /\ reviews.rows \in Seq(ReviewRow) /\ candidates.rows \in Seq(Item)
  BY <1>0, RowsTyped
<1>3. Corpus!Snapshot.latest = latest /\ Corpus!Snapshot.disturbed = disturbed
  BY DEF Corpus!Snapshot
<1>4. ASSUME NEW i \in DOMAIN audited'.rows
      PROVE  AuditedAs(audited'.rows[i], audited'.said)
  <2>1. i \in DOMAIN reviews.rows /\ audited'.rows[i] = Corpus!Revised(reviews.rows[i])
    <3>1. DOMAIN rows = DOMAIN reviews.rows
          /\ (i \in DOMAIN rows => rows[i] = Corpus!Revised(reviews.rows[i]))
      OBVIOUS
    <3> HIDE DEF rows
    <3>2. /\ DOMAIN audited'.rows = 1..Len(audited'.rows) /\ DOMAIN rows = 1..Len(rows)
          /\ Len(rows) \in Nat
      BY <1>1
    <3>3. i \in DOMAIN rows /\ audited'.rows[i] = rows[i]
      BY <1>1, <3>2
    <3> QED BY <3>1, <3>3
  <2>2. /\ reviews.rows[i] \in ReviewRow
        /\ reviews.rows[i].id \in Corpus!IdsOf(candidates.rows)
    <3>1. reviews.rows[i].id \in Corpus!IdsOf(reviews.rows)
      BY <2>1 DEF Corpus!IdsOf
    <3>2. Corpus!IdsOf(reviews.rows) = Corpus!IdsOf(candidates.rows)
      BY <1>1 DEF Corpus!Matches
    <3> QED BY <1>2, <2>1, <3>1, <3>2
  <2> DEFINE row == reviews.rows[i]
             after == audited'.rows[i]
  <2>3. after.review.label \in {"benign", "malicious"} =>
          after = row /\ Conservative(row.id, row.review)
    BY <1>2, <2>1, <2>2, RevisedRow
  <2>4. row.review.label \in {"benign", "malicious"} => i \in Corpus!Labelled(reviews.rows)
    BY <2>1 DEF Corpus!Labelled, Corpus!Labels
  <2>5. i \in Corpus!Labelled(reviews.rows) =>
          row.id \in DOMAIN latest /\ (~disturbed => row.review = latest[row.id])
    BY DEF ReviewInv, LabelsGiven, RowsGiven
  <2> HIDE DEF row, after
  <2>6. AuditedAs(after, audited'.said)
    BY <1>1, <1>3, <2>3, <2>4, <2>5 DEF AuditedAs
  <2> QED BY <2>6 DEF after
<1>5. ProductsTrue'
  <2>1. AuditedTrue'
    BY <1>1, <1>4 DEF AuditedTrue, AuditedAs, Conservative
  <2>2. CorpusTrue'
    BY <1>1, CorpusTrueStays DEF ReviewInv, ProductsTrue
  <2>3. ReportTrue'
    BY <1>1, ReportTrueStays DEF ReviewInv, ProductsTrue
  <2> QED BY <2>1, <2>2, <2>3 DEF ProductsTrue
<1> QED BY <1>1, <1>5, ReviewingStays

(* A corpus is what was reviewed, of labels that are true.                 *)
LEMMA ExportKeeps ==
  ASSUME ReviewBounds, ReviewInv, NEW source, NEW from, NEW said,
         Corpus!Export(source, from, said), source.rows \in Seq(ReviewRow),
         \A j \in DOMAIN source.rows : source.rows[j].review.label \in {"benign", "malicious"} =>
           /\ source.rows[j].id \in DOMAIN said.latest
           /\ ~said.disturbed => source.rows[j].review = said.latest[source.rows[j].id]
           /\ from = "audited" => Conservative(source.rows[j].id, source.rows[j].review)
  PROVE  ReviewInv'
<1> DEFINE rows == Corpus!Reviewed(source.rows)
<1>0. ReviewTypes /\ WindowsInOrder
  BY DEF ReviewInv
<1>1. /\ Corpus!IdsOf(source.rows) = Corpus!IdsOf(candidates.rows)
      /\ rows \in Seq(Trajectory)
      /\ corpus'.rows \in Seq(Trajectory) /\ Len(corpus'.rows) \in 0..Len(rows)
      /\ \A i \in 1..Len(corpus'.rows) : corpus'.rows[i] = rows[i]
      /\ corpus'.from = from /\ corpus'.said = said
      /\ faults' \in 0..MaxFaults /\ faults <= faults' /\ commands' \in 0..MaxCommands
      /\ UNCHANGED Reviewing /\ UNCHANGED <<audited, frozen, report>>
  BY <1>0, ExportDoes
<1>2. /\ InSequence(rows)
      /\ \A i \in DOMAIN rows : \E j \in DOMAIN source.rows :
           /\ source.rows[j].id = rows[i].candidate.id
           /\ rows[i].review = source.rows[j].review
           /\ source.rows[j].review.label \in {"benign", "malicious"}
  <2>1. candidates.rows \in Seq(Item) /\ Sorted(candidates.rows)
    BY <1>0, RowsTyped DEF WindowsInOrder
  <2> QED BY <1>1, <2>1, ReviewedRows
<1> HIDE DEF rows
<1>3. /\ DOMAIN corpus'.rows = 1..Len(corpus'.rows) /\ DOMAIN rows = 1..Len(rows)
      /\ DOMAIN corpus'.rows \subseteq DOMAIN rows
  <2>1. /\ Len(rows) \in Nat /\ DOMAIN rows = 1..Len(rows)
        /\ DOMAIN corpus'.rows = 1..Len(corpus'.rows)
    BY <1>1
  <2> QED BY <1>1, <2>1
<1>4. InSequence(corpus.rows)'
  <2>1. \A i, j \in DOMAIN corpus'.rows :
          i < j /\ corpus'.rows[i].candidate.ns = corpus'.rows[j].candidate.ns =>
            corpus'.rows[i].candidate.last < corpus'.rows[j].candidate.first
    BY <1>1, <1>2, <1>3 DEF InSequence
  <2> QED BY <2>1 DEF InSequence
<1>5. ASSUME NEW i \in DOMAIN corpus'.rows
      PROVE  /\ corpus'.rows[i].candidate.id \in DOMAIN said.latest
             /\ ~said.disturbed =>
                  corpus'.rows[i].review = said.latest[corpus'.rows[i].candidate.id]
             /\ from = "audited" =>
                  Conservative(corpus'.rows[i].candidate.id, corpus'.rows[i].review)
  <2>1. i \in DOMAIN rows /\ corpus'.rows[i] = rows[i]
    BY <1>1, <1>3
  <2>2. PICK j \in DOMAIN source.rows :
          /\ source.rows[j].id = rows[i].candidate.id
          /\ rows[i].review = source.rows[j].review
          /\ source.rows[j].review.label \in {"benign", "malicious"}
    BY <1>2, <2>1
  <2> QED BY <2>1, <2>2
<1>6. ProductsTrue'
  <2>1. AuditedTrue'
    BY <1>1, AuditedTrueStays DEF ReviewInv, ProductsTrue
  <2>2. CorpusTrue'
    BY <1>1, <1>4, <1>5 DEF CorpusTrue, ExportedAs, Conservative
  <2>3. ReportTrue'
    BY <1>1, ReportTrueStays DEF ReviewInv, ProductsTrue
  <2> QED BY <2>1, <2>2, <2>3 DEF ProductsTrue
<1> QED BY <1>1, <1>6, ReviewingStays

(* An export of the reviews as they are.                                   *)
LEMMA ExportReviewsKeeps ==
  ASSUME ReviewBounds, ReviewInv, Corpus!ExportReviews
  PROVE  ReviewInv'
<1> DEFINE said == Corpus!Snapshot
<1>1. said.latest = latest /\ said.disturbed = disturbed
  BY DEF Corpus!Snapshot
<1>2. Corpus!Export(reviews, "reviews", said)
  BY DEF Corpus!ExportReviews
<1>3. reviews.rows \in Seq(ReviewRow)
  BY RowsTyped DEF ReviewInv
<1> HIDE DEF said
<1>4. ASSUME NEW j \in DOMAIN reviews.rows,
             reviews.rows[j].review.label \in {"benign", "malicious"}
      PROVE  /\ reviews.rows[j].id \in DOMAIN said.latest
             /\ ~said.disturbed => reviews.rows[j].review = said.latest[reviews.rows[j].id]
  <2>1. j \in Corpus!Labelled(reviews.rows)
    BY <1>4 DEF Corpus!Labelled, Corpus!Labels
  <2> QED BY <1>1, <2>1 DEF ReviewInv, LabelsGiven, RowsGiven
<1>5. "reviews" # "audited"
  OBVIOUS
<1> QED BY <1>2, <1>3, <1>4, <1>5, ExportKeeps

(* An export of the audited reviews.                                       *)
LEMMA ExportAuditedKeeps ==
  ASSUME ReviewBounds, ReviewInv, Corpus!ExportAudited
  PROVE  ReviewInv'
<1>1. audited.there /\ Corpus!Export(audited, "audited", audited.said)
  BY DEF Corpus!ExportAudited
<1>2. /\ audited.rows \in Seq(ReviewRow)
      /\ \A j \in DOMAIN audited.rows : AuditedAs(audited.rows[j], audited.said)
  BY <1>1 DEF ReviewInv, ProductsTrue, AuditedTrue
<1>3. \A j \in DOMAIN audited.rows :
        audited.rows[j].review.label \in {"benign", "malicious"} =>
          /\ audited.rows[j].id \in DOMAIN audited.said.latest
          /\ ~audited.said.disturbed =>
               audited.rows[j].review = audited.said.latest[audited.rows[j].id]
          /\ Conservative(audited.rows[j].id, audited.rows[j].review)
  BY <1>2 DEF AuditedAs
<1> QED BY <1>1, <1>2, <1>3, ExportKeeps

(* A corpus is frozen once, before any report.                             *)
LEMMA FreezeKeeps ==
  ASSUME ReviewBounds, ReviewInv, Corpus!Freeze
  PROVE  ReviewInv'
<1>1. /\ ~frozen.there
      /\ UNCHANGED Reviewing /\ UNCHANGED <<audited, corpus, report, faults, commands>>
  BY FreezeDoes
<1>2. ProductsTrue'
  <2>1. ReportTrue'
    BY <1>1 DEF ReviewInv, ProductsTrue, ReportTrue
  <2>2. AuditedTrue'
    BY <1>1, AuditedTrueStays DEF ReviewInv, ProductsTrue
  <2>3. CorpusTrue'
    BY <1>1, CorpusTrueStays DEF ReviewInv, ProductsTrue
  <2> QED BY <2>1, <2>2, <2>3 DEF ProductsTrue
<1>3. faults' \in 0..MaxFaults /\ faults <= faults' /\ commands' \in 0..MaxCommands
  BY <1>1 DEF ReviewInv, ReviewTypes, ReviewBounds
<1> QED BY <1>1, <1>2, <1>3, ReviewingStays

(* A report abstains behind gaps of the frozen corpus.                     *)
LEMMA EvaluateKeeps ==
  ASSUME ReviewBounds, ReviewInv, Corpus!Evaluate
  PROVE  ReviewInv'
<1>1. /\ frozen.there /\ corpus.there /\ corpus.rows = frozen.rows
      /\ report'.rows = corpus.rows /\ report'.abstained = Corpus!Abstained(corpus.rows)
      /\ UNCHANGED Reviewing /\ UNCHANGED <<audited, corpus, frozen, faults, commands>>
  BY EvaluateDoes
<1> DEFINE rows == corpus.rows
           window == [i \in DOMAIN rows |-> rows[i].candidate]
<1>2. rows \in Seq(Trajectory) /\ InSequence(rows)
  BY <1>1 DEF ReviewInv, ProductsTrue, CorpusTrue
<1>3. rows \in Seq([candidate : Item, review : AnyReview])
  BY <1>2 DEF Trajectory
<1>4. Sorted(window)
  BY <1>2 DEF Sorted, InSequence
<1>5. \A i \in DOMAIN window : window[i].id \in Corpus!Abstained(rows) <=> BehindAGap(window, i)
  BY <1>3, <1>4, AbstainsBehindGaps
<1>6. Abstaining(rows, Corpus!Abstained(rows))
  BY <1>5 DEF Abstaining, BehindAGap, CoversAt
<1>7. ProductsTrue'
  <2>1. ReportTrue'
    BY <1>1, <1>6 DEF ReportTrue, Abstaining
  <2>2. AuditedTrue'
    BY <1>1, AuditedTrueStays DEF ReviewInv, ProductsTrue
  <2>3. CorpusTrue'
    BY <1>1, CorpusTrueStays DEF ReviewInv, ProductsTrue
  <2> QED BY <2>1, <2>2, <2>3 DEF ProductsTrue
<1>8. faults' \in 0..MaxFaults /\ faults <= faults' /\ commands' \in 0..MaxCommands
  BY <1>1 DEF ReviewInv, ReviewTypes, ReviewBounds
<1> QED BY <1>1, <1>7, <1>8, ReviewingStays

(* The review commands begin in the invariant.                             *)
LEMMA ReviewInit ==
  ASSUME ReviewBounds, Corpus!Init
  PROVE  ReviewInv
<1> USE DEF Corpus!Init
<1>1. /\ candidates \in FileOf(Item) /\ queue \in FileOf(Item) /\ reviews \in FileOf(ReviewRow)
      /\ candidates.rows = << >> /\ queue.rows = << >> /\ reviews.rows = << >>
      /\ ~audited.there /\ ~corpus.there /\ ~report.there
  BY FileMissing
<1>2. /\ builder \in Builders /\ builder.phase = "idle" /\ builder.at = 0
      /\ server \in Servers /\ server.up = FALSE /\ server.order = << >>
      /\ server.memory = << >>
  BY BuilderIdle, ServerDown
<1>3. latest = << >> /\ saved = << >> /\ << >> \in Verdicts /\ DOMAIN << >> = {}
  BY VerdictsMade
<1>4. ReviewTypes
  <2>1. captured \in [ReviewNamespaces -> 0..ReviewEvents]
    BY DEF ReviewBounds
  <2>2. posts \in 0..MaxPosts /\ faults \in 0..MaxFaults /\ commands \in 0..MaxCommands
    BY DEF ReviewBounds
  <2> QED BY <1>1, <1>2, <1>3, <2>1, <2>2 DEF ReviewTypes
<1>5. WindowsInOrder
  BY <1>1, <1>2, <1>3 DEF WindowsInOrder, Sorted, Within
<1>6. KnownOnce
  BY <1>1, <1>2, <1>3 DEF KnownOnce, Corpus!IsUnique
<1>7. QueueBuilt
  BY <1>1, <1>2 DEF QueueBuilt
<1>8. LabelsGiven
  BY <1>1, <1>2 DEF LabelsGiven, RowsGiven, Corpus!Labelled
<1>9. ProductsTrue
  BY <1>1 DEF ProductsTrue, AuditedTrue, CorpusTrue, ReportTrue
<1>10. WindowsRebuilt
  BY <1>1, <1>2, <1>3 DEF WindowsRebuilt, Corpus!IdsOf
<1>11. LabelsRemain
  BY <1>3 DEF LabelsRemain
<1> QED BY <1>4, <1>5, <1>6, <1>7, <1>8, <1>9, <1>10, <1>11 DEF ReviewInv

(* Every command and every review keeps it.                                *)
LEMMA ReviewStep ==
  ASSUME ReviewBounds, ReviewInv, Corpus!Next
  PROVE  ReviewInv'
<1>1. CASE \E ns \in ReviewNamespaces : Corpus!Capture(ns)
  BY <1>1, CaptureKeeps
<1>2. CASE Corpus!BuildCandidates
  BY <1>2, BuildKeeps
<1>3. CASE Corpus!QueueRead
  BY <1>3, QueueReadKeeps
<1>4. CASE Corpus!QueueOpen
  BY <1>4, QueueOpenKeeps
<1>5. CASE Corpus!QueueWrite
  BY <1>5, QueueWriteKeeps
<1>6. CASE Corpus!QueueDone
  BY <1>6, QueueDoneKeeps
<1>7. CASE Corpus!QueueFails
  BY <1>7, QueueFailsKeeps
<1>8. CASE Corpus!ServeStart
  BY <1>8, ServeStartKeeps
<1>9. CASE Corpus!ServeStop
  BY <1>9, ServeStopKeeps
<1>10. CASE \E p \in DOMAIN server.order,
               review \in {Review("benign", FALSE, TRUE), Review("malicious", FALSE, TRUE)} :
              Corpus!Post(server.order[p], review)
  BY <1>10, PostKeeps
<1>11. CASE Corpus!Audit
  BY <1>11, AuditKeeps
<1>12. CASE Corpus!ExportReviews
  BY <1>12, ExportReviewsKeeps
<1>13. CASE Corpus!ExportAudited
  BY <1>13, ExportAuditedKeeps
<1>14. CASE Corpus!Freeze
  BY <1>14, FreezeKeeps
<1>15. CASE Corpus!Evaluate
  BY <1>15, EvaluateKeeps
<1> QED BY <1>1, <1>2, <1>3, <1>4, <1>5, <1>6, <1>7, <1>8, <1>9, <1>10, <1>11, <1>12, <1>13,
           <1>14, <1>15 DEF Corpus!Next

(* What the invariant says of the labels and of the evaluation.            *)
LEMMA ReviewHolds ==
  ASSUME ReviewBounds, ReviewInv
  PROVE  /\ Corpus!TypeOK /\ Corpus!ExportedAsReviewed /\ Corpus!SavedReviewsKept
         /\ Corpus!AuditedIsConservative /\ Corpus!AbstainsOnlyBehindAGap
         /\ Corpus!FrozenIsEvaluated
<1>0. ReviewTypes
  BY DEF ReviewInv
<1>1. /\ candidates.rows \in Seq(Item) /\ queue.rows \in Seq(Item)
      /\ server.order \in Seq(Item)
      /\ builder.at \in Nat /\ builder.phase \in {"idle", "read", "write"}
  BY <1>0, RowsTyped
<1>2. Corpus!TypeOK
  <2>1. /\ Corpus!IdsOf(candidates.rows) \subseteq Corpus!Ids
        /\ Corpus!IdsOf(queue.rows) \subseteq Corpus!Ids
    BY <1>1, KnownWindows, IdsAreWindows
  <2>2. Corpus!IsUnique(candidates.rows)
    BY <1>1, SortedUnique DEF ReviewInv, WindowsInOrder, Corpus!IsUnique
  <2>3. builder.at \in 0 .. (Len(candidates.rows) + 1)
    <3>1. builder.at <= Len(candidates.rows) + 1
      BY DEF ReviewInv, QueueBuilt
    <3> QED BY <1>1, <3>1
  <2>4. Corpus!IsUnique(reviews.rows) /\ DOMAIN server.memory \subseteq Corpus!IdsOf(server.order)
        /\ DOMAIN saved \subseteq DOMAIN latest
    BY DEF ReviewInv, KnownOnce
  <2>5. /\ captured \in [ReviewNamespaces -> 0..ReviewEvents]
        /\ posts \in 0..MaxPosts /\ faults \in 0..MaxFaults
    BY <1>0 DEF ReviewTypes
  <2> QED BY <1>1, <2>1, <2>2, <2>3, <2>4, <2>5 DEF Corpus!TypeOK
<1>3. corpus.there =>
        /\ corpus.rows \in Seq(Trajectory)
        /\ \A i \in DOMAIN corpus.rows : ExportedAs(corpus.rows[i], corpus.from, corpus.said)
  BY DEF ReviewInv, ProductsTrue, CorpusTrue
<1>4. ASSUME corpus.there, NEW i \in DOMAIN corpus.rows
      PROVE  /\ corpus.rows[i].candidate.id
                  = <<corpus.rows[i].candidate.ns, corpus.rows[i].candidate.first,
                      corpus.rows[i].candidate.last>>
             /\ Corpus!WindowOf(corpus.rows[i].candidate) = corpus.rows[i].candidate.id
  <2>1. corpus.rows[i].candidate \in Item
    <3> DEFINE rows == corpus.rows
    <3>1. rows \in Seq(Trajectory) /\ i \in DOMAIN rows
      BY <1>3, <1>4
    <3> HIDE DEF rows
    <3>2. rows[i] \in Trajectory
      BY <3>1
    <3>3. rows[i].candidate \in Item
      BY <3>2 DEF Trajectory
    <3> QED BY <3>3 DEF rows
  <2> QED BY <2>1, ItemFields
<1>5. Corpus!ExportedAsReviewed
  BY <1>3, <1>4 DEF Corpus!ExportedAsReviewed, ExportedAs
<1>6. Corpus!AuditedIsConservative
  <2> SUFFICES ASSUME corpus.there, corpus.from = "audited", NEW i \in DOMAIN corpus.rows
               PROVE  /\ corpus.rows[i].candidate.last - corpus.rows[i].candidate.first + 1
                           < WindowLimit
                      /\ corpus.rows[i].review.label = "benign" \/ corpus.rows[i].review.lab
                      /\ corpus.rows[i].review.high
    BY DEF Corpus!AuditedIsConservative
  <2>1. Conservative(corpus.rows[i].candidate.id, corpus.rows[i].review)
    BY <1>3 DEF ExportedAs
  <2> QED BY <1>4, <2>1 DEF Conservative
<1>7. Corpus!AbstainsOnlyBehindAGap
  <2> DEFINE rows == report.rows
             window == [i \in DOMAIN rows |-> rows[i].candidate]
  <2> SUFFICES ASSUME report.there
               PROVE  \A i \in DOMAIN window :
                        window[i].id \in report.abstained <=>
                          \E e \in 1 .. (window[i].first - 1) :
                            \A j \in DOMAIN window :
                              ~ (/\ window[j].ns = window[i].ns
                                 /\ e \in window[j].first .. window[j].last)
    BY DEF Corpus!AbstainsOnlyBehindAGap
  <2>1. Abstaining(rows, report.abstained)
    BY DEF ReviewInv, ProductsTrue, ReportTrue
  <2>2. DOMAIN window = DOMAIN rows /\ \A i \in DOMAIN rows : window[i] = rows[i].candidate
    OBVIOUS
  <2> HIDE DEF window, rows
  <2> QED BY <2>1, <2>2 DEF Abstaining
<1>8. Corpus!FrozenIsEvaluated
  BY DEF ReviewInv, ProductsTrue, ReportTrue, Corpus!FrozenIsEvaluated
<1>9. Corpus!SavedReviewsKept
  <2> SUFFICES ASSUME builder.phase = "idle", ~disturbed, faults = 0,
                      NEW i \in DOMAIN candidates.rows,
                      Corpus!WindowOf(candidates.rows[i]) \in DOMAIN saved
               PROVE  \E j \in Corpus!Labelled(reviews.rows) :
                        reviews.rows[j].id = candidates.rows[i].id
    BY DEF Corpus!SavedReviewsKept
  <2>1. candidates.rows[i] \in Item
    BY <1>1
  <2>2. candidates.rows[i].id \in DOMAIN saved \intersect Corpus!IdsOf(candidates.rows)
    BY <2>1, ItemFields DEF Corpus!IdsOf
  <2> QED BY <2>2 DEF ReviewInv, LabelsRemain
<1> QED BY <1>2, <1>5, <1>6, <1>7, <1>8, <1>9

(***************************************************************************)
(* The programs of MCObservation.                                          *)
(***************************************************************************)

(* The assumption on the constants gives each program its own.             *)
LEMMA ObservationBounds == ObserverBounds /\ ReplayBounds /\ ReviewBounds
BY ObservationConstants DEF ObserverBounds, ReplayBounds, ReviewBounds

(* Each of the three programs has its invariant.                           *)
ObservationInv ==
  /\ machine = "observer" => ObserverInv
  /\ machine = "replay" => ReplayInv
  /\ machine = "corpus" => ReviewInv

(* Each program begins in its invariant.                                   *)
LEMMA ObservationInit == Init => ObservationInv
BY ObservationBounds, ObserverInit, ReplayInit, ReviewInit DEF Init, ObservationInv

(* A step of one program keeps its invariant.                              *)
LEMMA ObservationStep ==
  ASSUME ObservationInv, Next
  PROVE  ObservationInv'
<1>1. CASE Observing(Observer!Next)
  <2>1. machine = "observer" /\ machine' = machine /\ Observer!Next
    BY <1>1 DEF Observing
  <2> QED BY <2>1, ObservationBounds, ObserverStep DEF ObservationInv
<1>2. CASE Replaying(Replay!Next)
  <2>1. machine = "replay" /\ machine' = machine /\ Replay!Next
    BY <1>2 DEF Replaying
  <2> QED BY <2>1, ObservationBounds, ReplayStep DEF ObservationInv
<1>3. CASE machine = "corpus" /\ machine' = machine /\ Corpus!Next
  BY <1>3, ObservationBounds, ReviewStep DEF ObservationInv
<1> QED BY <1>1, <1>2, <1>3 DEF Next

(* A step that changes nothing keeps what is said of the observer.         *)
LEMMA ObserverStutters ==
  ASSUME ObserverInv, UNCHANGED vars
  PROVE  ObserverInv'
<1>0. UNCHANGED <<phase, life, alive, call, calls, credential, pipe, lost, lost_events,
                  pending, sequences, skipped, partial, capture>>
  BY DEF vars, ofObserver
<1>1. ObserverTypes'
  BY <1>0 DEF ObserverInv, ObserverTypes
<1>2. Owned'
  <2>1. PICK owner \in [Ids -> Tasks] : OwnedBy(owner)
    BY DEF ObserverInv, Owned
  <2>2. OwnedBy(owner)'
    BY <1>0, <2>1 DEF OwnedBy, InCall
  <2> QED BY <2>2 DEF Owned
<1>3. PipeInOrder'
  BY <1>0 DEF ObserverInv, PipeInOrder, InCall
<1>4. NumbersBehind' /\ RowsBehind'
  BY <1>0 DEF ObserverInv, NumbersBehind, RowsBehind, Later, InCall
<1>5. PendingOld'
  BY <1>0 DEF ObserverInv, PendingOld
<1>6. HalvesMeet'
  BY <1>0 DEF ObserverInv, HalvesMeet, EntryOf, InCall
<1>7. CaptureJoined'
  BY <1>0 DEF ObserverInv, CaptureJoined
<1>8. Counted'
  BY <1>0 DEF ObserverInv, Counted, Numbered, OfBefore
<1>9. Observer!EventsOnceInOrder'
  BY <1>0 DEF ObserverInv, Observer!EventsOnceInOrder
<1> QED BY <1>1, <1>2, <1>3, <1>4, <1>5, <1>6, <1>7, <1>8, <1>9 DEF ObserverInv

(* The same for the replay.                                                *)
LEMMA ReplayStutters ==
  ASSUME ReplayInv, UNCHANGED vars
  PROVE  ReplayInv'
<1>0. UNCHANGED <<phase, memory, trajectory, event, results, combined, past, audit, cached,
                  handled, confusion>>
  BY DEF vars, ofReplay
<1>1. ReplayTypes'
  BY <1>0 DEF ReplayInv, ReplayTypes
<1>2. Remembered'
  BY <1>0 DEF ReplayInv, Remembered
<1>3. Together'
  BY <1>0 DEF ReplayInv, Together
<1>4. Denials'
  BY <1>0 DEF ReplayInv, Denials
<1>5. Tallied'
  BY <1>0 DEF ReplayInv, Tallied, Counts
<1> QED BY <1>1, <1>2, <1>3, <1>4, <1>5 DEF ReplayInv

(* The same for the review commands.                                       *)
LEMMA ReviewStutters ==
  ASSUME ReviewInv, UNCHANGED vars
  PROVE  ReviewInv'
<1>0. UNCHANGED <<captured, candidates, queue, reviews, audited, corpus, frozen, report, builder,
                  server, posts, faults, commands, latest, saved, disturbed>>
  BY DEF vars, ofCorpus
<1>1. ReviewTypes'
  BY <1>0 DEF ReviewInv, ReviewTypes
<1>2. WindowsInOrder' /\ KnownOnce' /\ QueueBuilt' /\ LabelsGiven' /\ ProductsTrue'
  BY <1>0, WindowsInOrderStay, KnownOnceStays, QueueBuiltStays, LabelsGivenStay,
     ProductsTrueStay DEF ReviewInv
<1>3. WindowsRebuilt' /\ LabelsRemain'
  BY <1>0, WindowsRebuiltStay, LabelsRemainStay DEF ReviewInv
<1> QED BY <1>1, <1>2, <1>3 DEF ReviewInv

(* The same for what is said of all three.                                 *)
LEMMA ObservationStutters == ObservationInv /\ UNCHANGED vars => ObservationInv'
<1> SUFFICES ASSUME ObservationInv, UNCHANGED vars PROVE ObservationInv'
  OBVIOUS
<1>1. machine' = machine
  BY DEF vars
<1> QED BY <1>1, ObserverStutters, ReplayStutters, ReviewStutters DEF ObservationInv

(* The programs keep their invariants.                                     *)
LEMMA ObservationInvariant == Spec => []ObservationInv
<1>1. ObservationInv /\ [Next]_vars => ObservationInv'
  BY ObservationStep, ObservationStutters
<1> QED BY <1>1, ObservationInit, PTL DEF Spec

(* Whatever the ring buffer loses and whenever processes end, a published  *)
(* capture joins the halves of one system call in every event, holds no    *)
(* call twice and numbers the events of a namespace in order, and a        *)
(* trajectory is refused exactly for a number that has no event            *)
(* (bpf_to_events.py, run_live_bpf_observer.py and                         *)
(* extract_gate4_live_bpf_trajectory.py).                                  *)
THEOREM CaptureIsSound == Spec => []CaptureSound
<1>1. ObservationInv => CaptureSound
  BY ObservationBounds, ObserverHolds DEF ObservationInv, CaptureSound
<1> QED BY <1>1, ObservationInvariant, PTL

(* Whatever the models predict, for any number of members and any size of  *)
(* the ring: every remembered pair names the event that bound it, a cached *)
(* denial has the votes of the policy and earlier risky events of the      *)
(* relation that was queried as its evidence, the members hold the same    *)
(* tables between events, and a report covers every event of its run and   *)
(* nothing of an earlier one (asm_cm_engine.py, ensemble.py and            *)
(* run_gate3_asm_pipeline.py).                                             *)
THEOREM ReplayIsSound == Spec => []ReplaySound
<1>1. ObservationInv => ReplaySound
  BY ObservationBounds, ReplayHolds DEF ObservationInv, ReplaySound
<1> QED BY <1>1, ObservationInvariant, PTL

(* Whatever is captured, rebuilt, restarted, cut short or sent again in    *)
(* between: a label reaches the corpus only for the window it was given    *)
(* for, unless something was disturbed it is the last one given, and a     *)
(* review that was answered with "saved" is still in the review file when  *)
(* its window is a candidate again (build_trajectory_candidates.py,        *)
(* build_review_queue.py, serve_review_ui.py and                           *)
(* export_reviewed_corpus.py).                                             *)
THEOREM LabelsAreKept == Spec => []LabelsKept
<1>1. ObservationInv => LabelsKept
  BY ObservationBounds, ReviewHolds DEF ObservationInv, LabelsKept
<1> QED BY <1>1, ObservationInvariant, PTL

(* For any number of namespaces, events and windows: a corpus of audited   *)
(* reviews is conservative, the report is about the corpus that was        *)
(* frozen, and the engine abstained on a window exactly when an earlier    *)
(* event of its namespace lies in no window of the corpus                  *)
(* (audit_reviews_conservatively.py, validation_protocol.py and            *)
(* benchmark_gate2.evaluate).                                              *)
THEOREM EvaluationIsSound == Spec => []EvaluationSound
<1>1. ObservationInv => EvaluationSound
  BY ObservationBounds, ReviewHolds DEF ObservationInv, EvaluationSound
<1> QED BY <1>1, ObservationInvariant, PTL
=============================================================================
