-------------------------------- MODULE Mica --------------------------------
(***************************************************************************)
(* The MICA key-value cache (mica/mica.c): an index of buckets with a      *)
(* fixed number of slots, each pointing into one circular log.  PUTs of a  *)
(* key that is found update the log in place, other PUTs append to the log *)
(* and overwrite a slot; GETs hand out pointers into the log.              *)
(*                                                                         *)
(* The log is measured in units; an entry takes EntryLen of them, the key  *)
(* in the first and the value in the others (every client of this store    *)
(* uses one value length).  One thread owns an instance, and a batch of    *)
(* operations is looked up as a whole before the first one is executed.    *)
(***************************************************************************)
EXTENDS Integers, Sequences, FiniteSets

CONSTANTS
    Keys,        \* records [id, bkt, tag] (struct mica_key)
    Values,
    NumBkts,     \* buckets
    NumSlots,    \* slots per bucket (8)
    LogCap,      \* capacity of the log
    EntryLen,    \* an aligned log entry
    LogMargin,   \* MICA_MAX_VALUE + 32
    VSpace,      \* 1 << MICA_LOG_BITS, the virtual log space
    Word,        \* 2^64, the modulus of uint64_t
    PopKeys,     \* the keys mica_populate_fixed_len inserts, in order
    MaxBatch,    \* bound: operations in a batch
    MaxOps       \* bound: GETs and PUTs after the store is populated

ASSUME MicaAssumption ==
    /\ \A k \in Keys : k.bkt \in Nat /\ k.tag \in Nat
    /\ NumBkts \in Nat \ {0} /\ NumSlots \in Nat \ {0}
    /\ EntryLen \in Nat \ {0, 1} /\ LogMargin \in Nat /\ LogMargin >= EntryLen
    /\ LogCap \in Nat /\ LogCap > LogMargin
    /\ VSpace \in Nat /\ Word \in Nat /\ VSpace + LogCap <= Word
    /\ PopKeys \in Seq(Keys)
    /\ MaxBatch \in Nat /\ MaxOps \in Nat

Bkts == 0..(NumBkts - 1)
Slots == 0..(NumSlots - 1)
Units == 0..(LogCap - 1)

NoPtr == -1                       \* NULL
NotFound == [absent |-> TRUE]     \* no value
Ops == [opcode : {"GET"}, key : Keys] \cup
       [opcode : {"PUT"}, key : Keys, value : Values]

VARIABLES
    index,      \* index[b][s]: a struct mica_slot
    ht_log,     \* ht_log[u]: what the unit holds, [key, value, part]
    log_head,   \* virtual head
    stats,      \* the four counters of struct mica_kv
    populated,  \* how many of PopKeys are inserted
    batch,      \* the operations of the current batch ...
    kv_ptr,     \* ... where the lookup found their keys in the log ...
    resp,       \* ... and the responses of those already executed
    opsLeft     \* the bound MaxOps, counted down

vars == <<index, ht_log, log_head, stats, populated, batch, kv_ptr, resp, opsLeft>>

EmptySlot == [in_use |-> 0, tag |-> 0, offset |-> 0]
EmptyUnit == [key |-> NotFound, value |-> NotFound, part |-> NoPtr]

\* mica_init.
Init ==
    /\ index = [b \in Bkts |-> [s \in Slots |-> EmptySlot]]
    /\ ht_log = [u \in Units |-> EmptyUnit]
    /\ log_head = 0
    /\ stats = [get |-> 0, get_fail |-> 0, put |-> 0, evictions |-> 0]
    /\ populated = 0
    /\ batch = <<>> /\ kv_ptr = <<>> /\ resp = <<>>
    /\ opsLeft = MaxOps

-----------------------------------------------------------------------------
(* Operators on a bucket, and on the log.                                  *)

BktOf(k) == k.bkt % NumBkts

\* Faulty: the scan takes free slots only.
CandidatesFree(bkt, tag) == {s \in Slots : bkt[s].in_use = 0}

\* The scan of mica_insert_one has no break: the last slot that has the tag
\* or is free wins.  A full bucket without the tag gives up a slot.
Candidates(bkt, tag) == {s \in Slots : bkt[s].tag = tag \/ bkt[s].in_use = 0}

\* Faulty: without the tag, the slot is chosen without a look at the free ones.
SlotToUseHashed(bkt, tag) ==
    IF \E s \in Slots : bkt[s].tag = tag
    THEN CHOOSE s \in Slots : bkt[s].tag = tag ELSE tag % NumSlots

SlotToUse(bkt, tag) ==
    IF Candidates(bkt, tag) # {}
    THEN CHOOSE s \in Candidates(bkt, tag) : \A r \in Candidates(bkt, tag) : r <= s
    ELSE tag % NumSlots

\* Faulty: the alignment rounds the head down.
NextHeadRoundedDown(head) ==
    LET h == head + EntryLen - 1
    IN  IF (LogCap - h) % Word <= LogMargin THEN ((h + LogCap) \div LogCap) * LogCap ELSE h

\* The head after an insertion: it steps over the entry and, close to the
\* end of the physical log, to the next multiple of the capacity.  The
\* distance to the end is an unsigned difference.
NextHead(head) ==
    LET h == head + EntryLen
    IN  IF (LogCap - h) % Word <= LogMargin THEN ((h + LogCap) \div LogCap) * LogCap ELSE h

\* Faulty: the entry is copied from one unit further on.
PasteShifted(log, p, k, v) ==
    [u \in Units |-> IF u \in p..(p + EntryLen - 1)
                     THEN [key |-> k, value |-> v, part |-> u - p + 1] ELSE log[u]]

\* memcpy of an entry to the physical position p; what would lie behind the
\* end of ht_log is not recorded.
Paste(log, p, k, v) ==
    [u \in Units |-> IF u \in p..(p + EntryLen - 1)
                     THEN [key |-> k, value |-> v, part |-> u - p] ELSE log[u]]

\* Faulty: the value in the log is not updated.
UpdateForgotten(log, p, v) == log

\* memcpy of a value into an existing entry at p.
Update(log, p, v) ==
    [u \in Units |-> IF u \in (p + 1)..(p + EntryLen - 1)
                     THEN [key |-> log[p].key, value |-> v, part |-> u - p] ELSE log[u]]

\* Faulty: a tag match is taken for a key match.
KeyAtAny(log, p, k) == p \in Units

\* The key words at p are those of k.
KeyAt(log, p, k) == p \in Units /\ log[p].part = 0 /\ log[p].key = k

\* The lookup loop: the first used slot with the tag, unless the head has
\* wrapped around since it was written.
Matches(k) == {s \in Slots : index[BktOf(k)][s].in_use = 1 /\ index[BktOf(k)][s].tag = k.tag}

FirstMatch(k) == CHOOSE s \in Matches(k) : \A r \in Matches(k) : s <= r

LookUp(k) ==
    IF Matches(k) = {} THEN NoPtr
    ELSE LET offset == index[BktOf(k)][FirstMatch(k)].offset
         IN  IF log_head - offset >= LogCap THEN NoPtr ELSE offset % LogCap

\* mica_insert_one, the asserts on the virtual log space included.
InsertOne(k, v) ==
    LET b == BktOf(k)
        s == SlotToUse(index[b], k.tag)
    IN  /\ VSpace - log_head > EntryLen + 1
        /\ index' = [index EXCEPT ![b][s] = [in_use |-> 1, tag |-> k.tag, offset |-> log_head]]
        /\ ht_log' = Paste(ht_log, log_head % LogCap, k, v)
        /\ log_head' = NextHead(log_head)
        /\ stats' = [get |-> stats.get, get_fail |-> stats.get_fail, put |-> stats.put + 1,
                     evictions |-> stats.evictions
                                   + IF Candidates(index[b], k.tag) = {} THEN 1 ELSE 0]

-----------------------------------------------------------------------------
Idle == Len(resp) = Len(batch)

\* One iteration of mica_populate_fixed_len.  The value is a function of the
\* key; any will do here.
PopulateOne(v) ==
    /\ populated < Len(PopKeys)
    /\ InsertOne(PopKeys[populated + 1], v)
    /\ populated' = populated + 1
    /\ UNCHANGED <<batch, kv_ptr, resp, opsLeft>>

\* mica_batch_op, the two lookup loops.
StartBatch(ops) ==
    /\ populated = Len(PopKeys)
    /\ Idle
    /\ Len(ops) <= opsLeft
    /\ opsLeft' = opsLeft - Len(ops)
    /\ batch' = ops
    /\ kv_ptr' = [i \in 1..Len(ops) |-> LookUp(ops[i].key)]
    /\ resp' = <<>>
    /\ UNCHANGED <<index, ht_log, log_head, stats, populated>>

\* mica_batch_op, one iteration of the loop that executes the operations.
Op == batch[Len(resp) + 1]
Ptr == kv_ptr[Len(resp) + 1]
KeyInStore == Ptr # NoPtr /\ KeyAt(ht_log, Ptr, Op.key)

GetHit ==
    /\ ~Idle /\ Op.opcode = "GET" /\ KeyInStore
    /\ stats' = [stats EXCEPT !.get = @ + 1]
    /\ resp' = Append(resp, [type |-> "GET_SUCCESS", ptr |-> Ptr])
    /\ UNCHANGED <<index, ht_log, log_head>>

GetMiss ==
    /\ ~Idle /\ Op.opcode = "GET" /\ ~KeyInStore
    /\ stats' = [stats EXCEPT !.get_fail = @ + 1]
    /\ resp' = Append(resp, [type |-> "GET_FAIL", ptr |-> NoPtr])
    /\ UNCHANGED <<index, ht_log, log_head>>

PutUpdate ==
    /\ ~Idle /\ Op.opcode = "PUT" /\ KeyInStore
    /\ ht_log' = Update(ht_log, Ptr, Op.value)
    /\ stats' = [stats EXCEPT !.put = @ + 1]
    /\ resp' = Append(resp, [type |-> "PUT_SUCCESS", ptr |-> NoPtr])
    /\ UNCHANGED <<index, log_head>>

PutInsert ==
    /\ ~Idle /\ Op.opcode = "PUT" /\ ~KeyInStore
    /\ InsertOne(Op.key, Op.value)
    /\ resp' = Append(resp, [type |-> "PUT_SUCCESS", ptr |-> NoPtr])

ExecuteOp ==
    /\ GetHit \/ GetMiss \/ PutUpdate \/ PutInsert
    /\ UNCHANGED <<populated, batch, kv_ptr, opsLeft>>

Batches == UNION {[1..n -> Ops] : n \in 1..MaxBatch}

Next ==
    \/ \E v \in Values : PopulateOne(v)
    \/ \E ops \in Batches : StartBatch(ops)
    \/ ExecuteOp

Spec == Init /\ [][Next]_vars

-----------------------------------------------------------------------------
\* What the value units at p hold, if they belong together and to key k.
ValueAt(p, k) ==
    LET u == ht_log[p + 1]
    IN  IF \A i \in 1..(EntryLen - 1) :
              p + i \in Units /\ ht_log[p + i] = [key |-> k, value |-> u.value, part |-> i]
        THEN u.value ELSE NotFound

\* What a GET of k would answer now.
Stored(k) ==
    IF LookUp(k) # NoPtr /\ KeyAt(ht_log, LookUp(k), k)
    THEN ValueAt(LookUp(k), k) ELSE NotFound

-----------------------------------------------------------------------------
\* The types of the state.
TypeOK ==
    /\ index \in [Bkts -> [Slots -> [in_use : {0, 1}, tag : Nat, offset : Nat]]]
    /\ ht_log \in [Units -> [key : Keys \cup {NotFound}, value : Values \cup {NotFound},
                             part : {NoPtr} \cup 0..(EntryLen - 1)]]
    /\ log_head \in Nat
    /\ stats \in [get : Nat, get_fail : Nat, put : Nat, evictions : Nat]
    /\ populated \in 0..Len(PopKeys)
    /\ Len(resp) <= Len(batch) /\ Len(kv_ptr) = Len(batch)
    /\ opsLeft \in 0..MaxOps

\* "If there is a slot with the same tag as ours, we are sure to find it":
\* the scan of mica_insert_one picks the used slot that has the tag.
TagIsFound ==
    \A b \in Bkts, s \in Slots :
        index[b][s].in_use = 1 => SlotToUse(index[b], index[b][s].tag) = s

\* The wrap-around test of the lookup is enough: a slot that passes it
\* points at an entry no later insertion has touched, and the entry's key
\* belongs to this slot's bucket and tag.
LiveEntriesIntact ==
    \A b \in Bkts, s \in Slots :
        LET slot == index[b][s]
            p == slot.offset % LogCap
        IN  slot.in_use = 1 /\ log_head - slot.offset < LogCap =>
            /\ p + EntryLen <= LogCap
            /\ ht_log[p].part = 0
            /\ BktOf(ht_log[p].key) = b /\ ht_log[p].key.tag = slot.tag
            /\ ValueAt(p, ht_log[p].key) # NotFound

\* What an insertion may take away.  A key that was in the store has its value
\* still, unless mica_insert_one gave its slot to a key with the same tag,
\* evicted it from a full bucket and counted that in num_index_evictions, or
\* has taken the head of the log past the entry.
LossesAccounted ==
    [][\A k \in Keys :
         log_head' # log_head /\ Stored(k) # NotFound /\ Stored(k)' # Stored(k) =>
         LET old == index[BktOf(k)][FirstMatch(k)]
             new == index'[BktOf(k)][FirstMatch(k)]
         IN  \/ new.tag = k.tag /\ new.offset = log_head
             \/ new.tag # k.tag /\ stats'.evictions = stats.evictions + 1
             \/ log_head' - old.offset >= LogCap]_vars

\* "If we're close to overflowing in the physical log, wrap around to the
\* beginning": the next entry fits behind the head in the physical log.
PhysicalRoom == (log_head % LogCap) + EntryLen <= LogCap

=============================================================================
