----------------------------- MODULE AsmCmEngine -----------------------------
(***************************************************************************)
(* AsmCmEngine.update (asm_cm_engine.py) on the state of one namespace.    *)
(* The engine does not remember risky events itself: it binds each one to  *)
(* the next value of a small ring, feeds the pair (relation, value) to a   *)
(* neural memory, and keeps a table from pairs to event ids.  A query asks *)
(* the memory for the value last bound to its relation and looks the       *)
(* predicted pair up in the table.  What the memory predicts is not        *)
(* modelled: it is a parameter of Update.                                  *)
(***************************************************************************)
EXTENDS Naturals, Sequences

CONSTANTS
    Relations,   \* relation keys; the network relation is one of them
    Network,     \* NETWORK_RELATION_KEY
    Capacity,    \* VALUE_CAPACITY: values 0 .. Capacity - 1
    MaxPairs     \* MAX_CAUSAL_TOKEN_HISTORY in pairs of tokens, <= Capacity

Values == 0..(Capacity - 1)

\* _predict_batched, _predict_streaming: the token with the highest score,
\* which may be any value, bound or not, or no value at all (Capacity).
Predictions == Values \union {Capacity}

\* The events update() tells apart, by operation and label: a trigger or a
\* query of a relation, an event that marks the network safe again (a
\* trusted connect or a trusted reset), and any other event.
Events == [class : {"trigger", "query"}, relation : Relations]
            \union {[class |-> "safe", relation |-> Network],
                    [class |-> "other", relation |-> Network]}

NoEvidence == 0

AsmInit == [revision |-> 0, last_sequence |-> 0, next_value |-> 0,
            evidence |-> << >>, pairs |-> << >>]

Remember(pairs, pair) ==
    LET all == Append(pairs, pair)
    IN  IF Len(all) > MaxPairs THEN Tail(all) ELSE all

\* Mutant of Bind: the value does not wrap.
BindUnwrapped(st, relation) ==
    [st EXCEPT !.next_value = st.next_value + 1,
               !.pairs = Remember(st.pairs, <<relation, st.next_value>>)]

\* The pair is bound to the next value of the ring.
Bind(st, relation) ==
    [st EXCEPT !.next_value = (st.next_value + 1) % Capacity,
               !.pairs = Remember(st.pairs, <<relation, st.next_value>>)]

Lookup(evidence, pair) == IF pair \in DOMAIN evidence THEN evidence[pair] ELSE NoEvidence

WithEvidence(evidence, pair, id) ==
    [p \in DOMAIN evidence \union {pair} |-> IF p = pair THEN id ELSE evidence[p]]

\* Mutant of WithoutEvidence: the older event of a reused pair stays.
EvidenceKept(evidence, pair) == evidence

WithoutEvidence(evidence, pair) == [p \in DOMAIN evidence \ {pair} |-> evidence[p]]

\* The state after the event numbered id: the number and revision, then one
\* of the branches in the order update() tries them.
Advance(st, event, id) ==
    LET next == [st EXCEPT !.last_sequence = id, !.revision = @ + 1]
        pair == <<event.relation, st.next_value>>
    IN  CASE event.class = "trigger" ->
               [Bind(next, event.relation) EXCEPT !.evidence = WithEvidence(@, pair, id)]
          [] event.class = "safe" ->
               [Bind(next, Network) EXCEPT !.evidence = WithoutEvidence(@, pair)]
          [] OTHER -> next

\* The decision: a query is denied when the predicted pair has evidence.
Selected(st, event, predicted) ==
    IF event.class = "query" THEN Lookup(st.evidence, <<event.relation, predicted>>)
    ELSE NoEvidence

Result(st, event, predicted) ==
    LET selected == Selected(st, event, predicted)
    IN  [effect |-> IF selected # NoEvidence THEN "DENY" ELSE "ALLOW",
         evidence |-> {selected} \ {NoEvidence},
         revision |-> st.revision,
         inferred |-> event.class = "query"]

Gap(st) == [effect |-> "ABSTAIN", evidence |-> {}, revision |-> st.revision, inferred |-> FALSE]
=============================================================================
