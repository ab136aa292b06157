----------------------------- MODULE LossyStore -----------------------------
(***************************************************************************)
(* What a MICA instance promises.  It is a cache: a key may be forgotten   *)
(* whenever another one is stored, but a key that is found has the value   *)
(* of its last PUT, and no key comes back without a PUT.  Operations come  *)
(* in batches, and the answer to a GET is one that was right at some       *)
(* moment of its batch.                                                    *)
(***************************************************************************)
CONSTANTS Keys, Values, NotFound

VARIABLES
    store,   \* store[k]: the value of k, or NotFound
    held     \* held[k]: all that store[k] has been since the batch began

vars == <<store, held>>

Init ==
    /\ store = [k \in Keys |-> NotFound]
    /\ held = [k \in Keys |-> {NotFound}]

\* A PUT sets its key or, when the key loses its place in the same batch,
\* is forgotten at once; others may be forgotten too.
Put(k, v) ==
    /\ store' \in [Keys -> Values \cup {NotFound}]
    /\ store'[k] \in {v, NotFound}
    /\ \A j \in Keys \ {k} : store'[j] \in {store[j], NotFound}
    /\ held' = [j \in Keys |-> held[j] \cup {store'[j]} \cup (IF j = k THEN {v} ELSE {})]

\* A new batch begins.
Begin ==
    /\ held' = [k \in Keys |-> {store[k]}]
    /\ UNCHANGED store

Next == Begin \/ \E k \in Keys, v \in Values : Put(k, v)

Spec == Init /\ [][Next]_vars

=============================================================================
