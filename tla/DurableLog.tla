----------------------------- MODULE DurableLog ------------------------------
(***************************************************************************)
(* What a persistent state engine promises to its callers, without threads,*)
(* files or restarts.  Every namespace has a log of events; the first      *)
(* durable[n] of them are on stable storage.  An event is answered with a  *)
(* decision only once it is durable; what is durable but not yet answered  *)
(* may still be lost (a failed checkpoint, a crash), what has been answered*)
(* never is.                                                               *)
(***************************************************************************)
EXTENDS Naturals

CONSTANT Namespaces

VARIABLES durable,   \* durable[n]: events of n on stable storage
          answered   \* answered[n]: the numbers of n's answered events

logVars == <<durable, answered>>

LogInit ==
    /\ durable = [n \in Namespaces |-> 0]
    /\ answered = [n \in Namespaces |-> {}]

\* The stored state changes: any namespace may gain events and may lose
\* those nobody was told about.
Store ==
    /\ durable' \in [Namespaces -> Nat]
    /\ \A n \in Namespaces : \A s \in answered[n] : s <= durable'[n]
    /\ UNCHANGED answered

\* A decision about event s of n is handed out.
Answer(n, s) ==
    /\ s \in 1..durable[n]
    /\ answered' = [answered EXCEPT ![n] = @ \union {s}]
    /\ UNCHANGED durable

LogNext == Store \/ \E n \in Namespaces : \E s \in 1..durable[n] : Answer(n, s)

LogSpec == LogInit /\ [][LogNext]_logVars
=============================================================================
