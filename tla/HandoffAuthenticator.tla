------------------------- MODULE HandoffAuthenticator -------------------------
(***************************************************************************)
(* HandoffAuthenticator of guardian_resilience.py with its user, the       *)
(* hand-off proof of run_gate4_control_plane_resilience.py: a client signs *)
(* messages and sends each as often as it likes; some are altered after    *)
(* they were signed or signed for an earlier policy revision.              *)
(***************************************************************************)
EXTENDS Naturals, Sequences, FiniteSets

CONSTANTS
    Peers,       \* processes with the allowed uid and gid
    Nonces,
    Lifetimes,   \* time from signing to expiry
    MaxClock,    \* bound: the clock stops here
    MaxMessages  \* bound: messages on the connection

VARIABLES
    clock,
    sent,        \* messages on the connection or read from it before
    used,        \* self._used_nonces
    accepted,    \* history: the payloads that were accepted, in order
    replayed     \* history: the nonces refused as a replay

vars == <<clock, sent, used, accepted, replayed>>

\* A signature stands for the payload it was made of.
Payload(pid, nonce, expires, revision) ==
    [pid |-> pid, nonce |-> nonce, expires |-> expires, revision |-> revision]
Sign(payload) == [payload |-> payload, hmac |-> payload]

Init == clock = 0 /\ sent = {} /\ used = {} /\ accepted = << >> /\ replayed = {}

\* The client signs a message and sends it.
Send(pid, nonce, lifetime) ==
    /\ Cardinality(sent) < MaxMessages
    /\ sent' = sent \union {Sign(Payload(pid, nonce, clock + lifetime, "current"))}
    /\ UNCHANGED <<clock, used, accepted, replayed>>

\* It sends a copy with another revision or expiry and the old signature.
SendAltered ==
    /\ Cardinality(sent) < MaxMessages
    /\ \E message \in sent, change \in {"revision", "expiry"} :
          sent' = sent \union
              {IF change = "revision" THEN [message EXCEPT !.payload.revision = "stale"]
               ELSE [message EXCEPT !.payload.expires = @ + 1]}
    /\ UNCHANGED <<clock, used, accepted, replayed>>

\* The verdict, in the order of the checks.
Verify(message, peer) ==
    LET p == message.payload
    IN  IF p.pid # peer THEN "PEER_CREDENTIAL_MISMATCH"
        ELSE IF p.revision # "current" THEN "POLICY_REVISION_MISMATCH"
        ELSE IF p.expires <= clock THEN "HANDOFF_EXPIRED"
        ELSE IF p.nonce \in used THEN "HANDOFF_REPLAY"
        ELSE IF message.hmac # p THEN "HANDOFF_HMAC_INVALID"
        ELSE "HANDOFF_AUTHENTICATED"

\* Mutant of Receive: a nonce is used up by a message with a bad signature.
ReceiveBurning(message, peer) ==
    LET verdict == Verify(message, peer)
        nonce == message.payload.nonce
    IN  /\ message \in sent
        /\ used' = IF verdict \in {"HANDOFF_AUTHENTICATED", "HANDOFF_HMAC_INVALID"}
                   THEN used \union {nonce} ELSE used
        /\ accepted' = IF verdict = "HANDOFF_AUTHENTICATED"
                       THEN Append(accepted, message.payload) ELSE accepted
        /\ replayed' = IF verdict = "HANDOFF_REPLAY" THEN replayed \union {nonce} ELSE replayed
        /\ UNCHANGED <<clock, sent>>

\* verify() of the next message, whichever it is.
Receive(message, peer) ==
    LET verdict == Verify(message, peer)
        nonce == message.payload.nonce
    IN  /\ message \in sent
        /\ \/ /\ verdict = "HANDOFF_AUTHENTICATED"
              /\ used' = used \union {nonce} /\ accepted' = Append(accepted, message.payload)
              /\ UNCHANGED replayed
           \/ /\ verdict = "HANDOFF_REPLAY" /\ replayed' = replayed \union {nonce}
              /\ UNCHANGED <<used, accepted>>
           \/ /\ verdict \notin {"HANDOFF_AUTHENTICATED", "HANDOFF_REPLAY"}
              /\ UNCHANGED <<used, accepted, replayed>>
        /\ UNCHANGED <<clock, sent>>

Tick == clock < MaxClock /\ clock' = clock + 1 /\ UNCHANGED <<sent, used, accepted, replayed>>

Next ==
    \/ \E pid \in Peers, nonce \in Nonces, lifetime \in Lifetimes : Send(pid, nonce, lifetime)
    \/ SendAltered
    \/ \E message \in sent, peer \in Peers : Receive(message, peer)
    \/ Tick

Spec == Init /\ [][Next]_vars

-----------------------------------------------------------------------------
\* Each hand-off that was signed is accepted at most once, and only as it was
\* signed; a message that is refused for any other reason uses up nothing,
\* so that the genuine one is not mistaken for a replay.
OncePerHandoff ==
    /\ \A i, j \in DOMAIN accepted : accepted[i].nonce = accepted[j].nonce => i = j
    /\ \A i \in DOMAIN accepted : Sign(accepted[i]) \in sent
    /\ replayed \subseteq {accepted[i].nonce : i \in DOMAIN accepted}
=============================================================================
