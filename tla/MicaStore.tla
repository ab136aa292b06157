----------------------------- MODULE MicaStore -----------------------------
(***************************************************************************)
(* Mica with a history variable, and what it implements: LossyStore.       *)
(***************************************************************************)
EXTENDS Mica

VARIABLES
    held,    \* held[k]: all that Stored(k) has been since the batch began
    head0    \* log_head when it began

PutValue(k) ==
    IF ~Idle /\ Op.opcode = "PUT" /\ Op.key = k THEN {Op.value} ELSE {}

SInit == Init /\ held = [k \in Keys |-> {NotFound}] /\ head0 = 0

\* Every step records what it makes of each key; a new batch starts afresh.
SNext ==
    \/ /\ \E ops \in Batches : StartBatch(ops)
       /\ held' = [k \in Keys |-> {Stored(k)}]
       /\ head0' = log_head
    \/ /\ ExecuteOp
       /\ held' = [k \in Keys |-> held[k] \cup {Stored(k)'} \cup PutValue(k)]
       /\ UNCHANGED head0
    \/ /\ \E v \in Values : PopulateOne(v)
       /\ held' = [k \in Keys |-> held[k] \cup {Stored(k)'}]
       /\ UNCHANGED head0

SSpec == SInit /\ [][SNext]_<<vars, held, head0>>

Store == INSTANCE LossyStore WITH store <- [k \in Keys |-> Stored(k)]

\* MICA is a lossy store: what it finds is what the last PUT of the key
\* stored, and an evicted or overwritten key stays lost until its next PUT.
ImplementsStore == Store!Spec

\* The answer to the i-th operation of the batch is one that was right at
\* some moment of the batch.
Right(i) ==
    /\ resp[i].type = "GET_SUCCESS" =>
          ValueAt(resp[i].ptr, batch[i].key) \in held[batch[i].key] \ {NotFound}
    /\ resp[i].type = "GET_FAIL" => NotFound \in held[batch[i].key]

\* The head has gone past the entry at p since the batch began.
Lapped(p) == log_head > LogCap + head0 - 1 - ((head0 - 1 - p) % LogCap)

\* The caller reads a GET's answer through val_ptr after the whole batch is
\* executed ("The caller expects @mica_resp to have valid @type, @val_len,
\* and @val_ptr fields"): the answer is a value the key had during the
\* batch, and a miss means the key was absent at some moment of it.
AnswersValid == Idle => \A i \in 1..Len(resp) : Right(i)

\* What holds of the answers although the whole batch is looked up before
\* its first operation is executed: each is right unless the insertions of
\* its own batch took the log once around and past the entry.
AnswersValidUnlessLapped ==
    Idle => \A i \in 1..Len(resp) :
        Right(i) \/ (resp[i].type = "GET_SUCCESS" /\ Lapped(resp[i].ptr))

=============================================================================
