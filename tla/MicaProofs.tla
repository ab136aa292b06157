----------------------------- MODULE MicaProofs -----------------------------
(***************************************************************************)
(* The index of a MICA instance for every number of buckets and slots and  *)
(* every set of keys: a tag occurs at most once in a bucket, and the scan  *)
(* of mica_insert_one finds it.  What makes it true is where the free      *)
(* slots are: always in front of the used ones.                            *)
(* From that, and from where the head is, follows what an insertion may    *)
(* take away.                                                              *)
(***************************************************************************)
EXTENDS Mica, WellFoundedInduction, TLAPS

Slot == [in_use : {0, 1}, tag : Nat, offset : Nat]

Response == [type : {"GET_SUCCESS", "GET_FAIL", "PUT_SUCCESS"}, ptr : Int]
Stats == [get : Nat, get_fail : Nat, put : Nat, evictions : Nat]
Unit == [key : Keys \cup {NotFound}, value : Values \cup {NotFound},
         part : {NoPtr} \cup 0..(EntryLen - 1)]

\* No free slot behind a used one.
FreeInFront(bkt) ==
    \A r, s \in Slots : r < s /\ bkt[r].in_use = 1 => bkt[s].in_use = 1

TagsDiffer(bkt) ==
    \A r, s \in Slots :
        bkt[r].in_use = 1 /\ bkt[s].in_use = 1 /\ bkt[r].tag = bkt[s].tag => r = s

\* The inductive invariant.
IndexInv ==
    /\ TypeOK
    /\ batch \in Seq(Ops)
    /\ resp \in Seq(Response)
    /\ \A b \in Bkts : FreeInFront(index[b]) /\ TagsDiffer(index[b])

-----------------------------------------------------------------------------
\* A nonempty set of slots has a last one.
LEMMA LastSlot ==
    ASSUME NEW T \in SUBSET Slots, T # {}
    PROVE  \E s \in T : \A r \in T : r <= s
<1> USE MicaAssumption DEF Slots
<1> DEFINE R == OpToRel(<, Nat)
           M == {NumSlots - s : s \in T}
<1>1. M \subseteq Nat /\ M # {}
  <2>1. \A s \in T : s \in 0..(NumSlots - 1) /\ NumSlots - s \in Nat
    OBVIOUS
  <2>2. PICK s \in T : TRUE
    OBVIOUS
  <2>3. NumSlots - s \in M
    OBVIOUS
  <2> QED
    BY <2>1, <2>3
<1>2. IsWellFoundedOn(R, Nat)
  BY NatLessThanWellFounded
<1> HIDE DEF R
<1>3. \E x \in M : \A y \in M : ~(<<y, x>> \in R)
  <2> HIDE DEF M
  <2> QED
    BY <1>1, <1>2, WFMin
<1>4. PICK x \in M : \A y \in M : ~(<<y, x>> \in R)
  BY <1>3
<1>5. \A y \in M : ~(y < x)
  BY <1>1, <1>4 DEF R, OpToRel
<1>6. PICK s \in T : x = NumSlots - s
  OBVIOUS
<1>7. ASSUME NEW r \in T PROVE r <= s
  <2>1. NumSlots - r \in M
    OBVIOUS
  <2>2. ~(NumSlots - r < NumSlots - s)
    BY <1>5, <1>6, <2>1
  <2>3. r \in 0..(NumSlots - 1) /\ s \in 0..(NumSlots - 1)
    OBVIOUS
  <2> QED
    BY <2>2, <2>3
<1> QED
  BY <1>7

LEMMA SlotToUseLast ==
    ASSUME NEW bkt, NEW tag \in Nat, Candidates(bkt, tag) # {}
    PROVE  /\ SlotToUse(bkt, tag) \in Candidates(bkt, tag)
           /\ \A r \in Candidates(bkt, tag) : r <= SlotToUse(bkt, tag)
<1> DEFINE C == Candidates(bkt, tag)
<1>1. C \in SUBSET Slots
  BY DEF Candidates
<1>2. \E s \in C : \A r \in C : r <= s
  BY <1>1, LastSlot
<1> QED
  BY <1>2 DEF SlotToUse

LEMMA SlotToUseType ==
    ASSUME NEW bkt, NEW tag \in Nat
    PROVE  SlotToUse(bkt, tag) \in Slots
<1>1. CASE Candidates(bkt, tag) # {}
  BY <1>1, SlotToUseLast DEF Candidates
<1>2. CASE Candidates(bkt, tag) = {}
  BY <1>2, MicaAssumption DEF SlotToUse, Slots
<1> QED
  BY <1>1, <1>2

\* With the free slots in front, the scan finds the used slot of a tag.
LEMMA ScanFindsTag ==
    ASSUME NEW bkt \in [Slots -> Slot], FreeInFront(bkt), TagsDiffer(bkt),
           NEW s \in Slots, bkt[s].in_use = 1
    PROVE  SlotToUse(bkt, bkt[s].tag) = s
<1> DEFINE t == bkt[s].tag
           u == SlotToUse(bkt, t)
<1>1. s \in Candidates(bkt, t) /\ t \in Nat
  BY DEF Candidates, Slot
<1>2. u \in Candidates(bkt, t) /\ s <= u
  BY <1>1, SlotToUseLast
<1>3. u \in Slots /\ (bkt[u].tag = t \/ bkt[u].in_use = 0)
  BY <1>2 DEF Candidates
<1>4. bkt[u].in_use = 1
  <2>1. CASE u = s
    BY <2>1
  <2>2. CASE u # s
    <3>1. s < u
      BY <1>2, <1>3, <2>2, MicaAssumption DEF Slots
    <3> QED
      BY <1>3, <3>1 DEF FreeInFront
  <2> QED
    BY <2>1, <2>2
<1> QED
  BY <1>3, <1>4 DEF TagsDiffer

\* Writing the slot the scan chose keeps a bucket in order.
LEMMA WriteSlot ==
    ASSUME NEW bkt \in [Slots -> Slot], FreeInFront(bkt), TagsDiffer(bkt),
           NEW tag \in Nat, NEW o \in Nat, NEW new,
           new = [bkt EXCEPT ![SlotToUse(bkt, tag)] =
                        [in_use |-> 1, tag |-> tag, offset |-> o]]
    PROVE  new \in [Slots -> Slot] /\ FreeInFront(new) /\ TagsDiffer(new)
<1> DEFINE u == SlotToUse(bkt, tag)
<1>1. u \in Slots
  BY SlotToUseType
<1>2. /\ new \in [Slots -> Slot]
      /\ new[u].in_use = 1 /\ new[u].tag = tag
      /\ \A s \in Slots \ {u} : new[s] = bkt[s]
  BY <1>1 DEF Slot
<1>3. ASSUME NEW s \in Slots, s # u, bkt[s].in_use = 1 PROVE bkt[s].tag # tag
  BY <1>3, ScanFindsTag
<1>4. ASSUME NEW s \in Slots, u < s PROVE bkt[s].in_use = 1
  <2>1. CASE Candidates(bkt, tag) = {}
    BY <2>1 DEF Candidates, Slot
  <2>2. CASE Candidates(bkt, tag) # {}
    <3>1. \A r \in Candidates(bkt, tag) : r <= u
      BY <2>2, SlotToUseLast
    <3>2. s \notin Candidates(bkt, tag)
      BY <1>1, <1>4, <3>1, MicaAssumption DEF Slots
    <3> QED
      BY <3>2 DEF Candidates, Slot
  <2> QED
    BY <2>1, <2>2
<1>5. FreeInFront(new)
  <2> SUFFICES ASSUME NEW r \in Slots, NEW s \in Slots, r < s, new[r].in_use = 1
               PROVE  new[s].in_use = 1
    BY DEF FreeInFront
  <2> QED
    BY <1>1, <1>2, <1>4 DEF FreeInFront
<1>6. TagsDiffer(new)
  BY <1>1, <1>2, <1>3 DEF TagsDiffer
<1> QED
  BY <1>2, <1>5, <1>6

-----------------------------------------------------------------------------
LEMMA BktOfType ==
    ASSUME NEW k \in Keys
    PROVE  BktOf(k) \in Bkts /\ k.tag \in Nat
BY MicaAssumption DEF BktOf, Bkts

LEMMA NextHeadType ==
    ASSUME NEW head \in Nat
    PROVE  NextHead(head) \in Nat
<1> DEFINE h == head + EntryLen
           d == (h + LogCap) \div LogCap
<1>1. h \in Nat /\ LogCap \in Nat \ {0}
  BY MicaAssumption
<1>2. d \in Nat
  <2> HIDE DEF h
  <2> QED
    BY <1>1
<1>3. d * LogCap \in Nat
  <2> HIDE DEF d
  <2> QED
    BY <1>1, <1>2
<1> QED
  BY <1>1, <1>3 DEF NextHead

LEMMA PasteType ==
    ASSUME NEW log \in [Units -> Unit], NEW p \in Nat, NEW k \in Keys, NEW v \in Values
    PROVE  Paste(log, p, k, v) \in [Units -> Unit]
BY MicaAssumption DEF Paste, Unit, Units

LEMMA UpdateType ==
    ASSUME NEW log \in [Units -> Unit], NEW p \in Units, NEW v \in Values
    PROVE  Update(log, p, v) \in [Units -> Unit]
BY MicaAssumption DEF Update, Unit, Units

LEMMA CountKeeps ==
    ASSUME NEW s \in Stats
    PROVE  /\ [s EXCEPT !.get = @ + 1] \in Stats
           /\ [s EXCEPT !.get_fail = @ + 1] \in Stats
           /\ [s EXCEPT !.put = @ + 1] \in Stats
BY DEF Stats

LEMMA InsertOneKeeps ==
    ASSUME IndexInv, NEW k \in Keys, NEW v \in Values, InsertOne(k, v)
    PROVE  /\ index' \in [Bkts -> [Slots -> Slot]]
           /\ \A b \in Bkts : FreeInFront(index'[b]) /\ TagsDiffer(index'[b])
           /\ ht_log' \in [Units -> Unit]
           /\ log_head' \in Nat
           /\ stats' \in Stats
<1> DEFINE b == BktOf(k)
           s == SlotToUse(index[b], k.tag)
           new == [index[b] EXCEPT ![s] = [in_use |-> 1, tag |-> k.tag, offset |-> log_head]]
<1>1. b \in Bkts /\ k.tag \in Nat
  BY BktOfType
<1>2. /\ index \in [Bkts -> [Slots -> Slot]] /\ log_head \in Nat
      /\ \A c \in Bkts : FreeInFront(index[c]) /\ TagsDiffer(index[c])
      /\ ht_log \in [Units -> Unit]
      /\ stats \in Stats
  BY DEF IndexInv, TypeOK, Slot, Unit, Stats
<1>3. new \in [Slots -> Slot] /\ FreeInFront(new) /\ TagsDiffer(new)
  BY <1>1, <1>2, WriteSlot
<1>4. index' = [index EXCEPT ![b] = new]
  BY DEF InsertOne
<1>5. \A c \in Bkts : index'[c] = IF c = b THEN new ELSE index[c]
  BY <1>1, <1>2, <1>4
<1>6. index' \in [Bkts -> [Slots -> Slot]]
  BY <1>1, <1>2, <1>3, <1>4
<1>7. \A c \in Bkts : FreeInFront(index'[c]) /\ TagsDiffer(index'[c])
  BY <1>2, <1>3, <1>5
<1>8. ht_log' \in [Units -> Unit]
  <2>1. log_head % LogCap \in Nat
    BY <1>2, MicaAssumption
  <2> QED
    BY <1>2, <2>1, PasteType DEF InsertOne
<1>9. log_head' \in Nat
  BY <1>2, NextHeadType DEF InsertOne
<1>10. stats' \in Stats
  BY <1>2 DEF InsertOne, Stats
<1> QED
  BY <1>6, <1>7, <1>8, <1>9, <1>10

LEMMA InitIndex == Init => IndexInv
<1> SUFFICES ASSUME Init PROVE IndexInv
  OBVIOUS
<1> USE DEF Init
<1>1. TypeOK
  BY MicaAssumption DEF TypeOK, EmptySlot, EmptyUnit
<1>2. \A b \in Bkts : FreeInFront(index[b]) /\ TagsDiffer(index[b])
  BY DEF FreeInFront, TagsDiffer, EmptySlot
<1> QED
  BY <1>1, <1>2 DEF IndexInv

LEMMA NextIndex == IndexInv /\ [Next]_vars => IndexInv'
<1> SUFFICES ASSUME IndexInv, [Next]_vars PROVE IndexInv'
  OBVIOUS
<1> USE DEF IndexInv
<1>1. ASSUME NEW v \in Values, PopulateOne(v) PROVE IndexInv'
  <2>1. PopKeys[populated + 1] \in Keys /\ populated' \in 0..Len(PopKeys)
    BY <1>1, MicaAssumption DEF PopulateOne, TypeOK
  <2>2. InsertOne(PopKeys[populated + 1], v)
    BY <1>1 DEF PopulateOne
  <2> QED
    BY <1>1, <2>1, <2>2, InsertOneKeeps DEF PopulateOne, TypeOK, Slot, Unit, Stats
<1>2. ASSUME NEW ops \in Batches, StartBatch(ops) PROVE IndexInv'
  <2>1. ops \in Seq(Ops) /\ Len(ops) \in Nat
    <3>1. PICK n \in 1..MaxBatch : ops \in [1..n -> Ops]
      BY DEF Batches
    <3>2. n \in Nat
      BY MicaAssumption
    <3> QED
      BY <3>1, <3>2
  <2>2. Len(resp') <= Len(batch') /\ Len(kv_ptr') = Len(batch')
    BY <1>2, <2>1 DEF StartBatch
  <2>3. opsLeft' \in 0..MaxOps
    BY <1>2, <2>1, MicaAssumption DEF StartBatch, TypeOK
  <2> QED
    BY <1>2, <2>1, <2>2, <2>3 DEF StartBatch, TypeOK
<1>3. ASSUME ExecuteOp PROVE IndexInv'
  <2>1. ASSUME ~Idle PROVE Op \in Ops /\ Len(resp) + 1 <= Len(batch)
    BY <2>1 DEF Idle, Op, TypeOK
  <2>2. ASSUME ~Idle, NEW r \in Response, resp' = Append(resp, r)
        PROVE  resp' \in Seq(Response) /\ Len(resp') <= Len(batch)
    BY <2>1, <2>2
  <2>3. UNCHANGED <<populated, batch, kv_ptr, opsLeft>>
    BY <1>3 DEF ExecuteOp
  <2>4. KeyInStore => Ptr \in Units /\ Ptr \in Int
    BY MicaAssumption DEF KeyInStore, KeyAt, Units
  <2>5. stats \in Stats
    BY DEF TypeOK, Stats
  <2>6. CASE GetHit
    <3>1. /\ ~Idle /\ Ptr \in Int
          /\ resp' = Append(resp, [type |-> "GET_SUCCESS", ptr |-> Ptr])
          /\ stats' = [stats EXCEPT !.get = @ + 1]
          /\ UNCHANGED <<index, ht_log, log_head>>
      BY <2>4, <2>6 DEF GetHit
    <3>2. stats' \in Stats
      BY <2>5, <3>1, CountKeeps
    <3>3. [type |-> "GET_SUCCESS", ptr |-> Ptr] \in Response
      BY <3>1 DEF Response
    <3> QED
      BY <2>2, <2>3, <3>1, <3>2, <3>3 DEF TypeOK, Stats
  <2>7. CASE GetMiss
    <3>1. /\ ~Idle
          /\ resp' = Append(resp, [type |-> "GET_FAIL", ptr |-> NoPtr])
          /\ stats' = [stats EXCEPT !.get_fail = @ + 1]
          /\ UNCHANGED <<index, ht_log, log_head>>
      BY <2>7 DEF GetMiss
    <3>2. stats' \in Stats
      BY <2>5, <3>1, CountKeeps
    <3>3. [type |-> "GET_FAIL", ptr |-> NoPtr] \in Response
      BY DEF Response, NoPtr
    <3> QED
      BY <2>2, <2>3, <3>1, <3>2, <3>3 DEF TypeOK, Stats
  <2>8. [type |-> "PUT_SUCCESS", ptr |-> NoPtr] \in Response
    BY DEF Response, NoPtr
  <2>9. CASE PutUpdate
    <3>1. /\ ~Idle
          /\ resp' = Append(resp, [type |-> "PUT_SUCCESS", ptr |-> NoPtr])
          /\ stats' = [stats EXCEPT !.put = @ + 1]
          /\ ht_log' = Update(ht_log, Ptr, Op.value)
          /\ UNCHANGED <<index, log_head>>
      BY <2>9 DEF PutUpdate
    <3>2. Op.value \in Values
      BY <2>1, <2>9 DEF PutUpdate, Ops
    <3>3. ht_log' \in [Units -> Unit]
      BY <2>4, <2>9, <3>2, UpdateType DEF PutUpdate, TypeOK, Unit
    <3>4. stats' \in Stats
      BY <2>5, <3>1, CountKeeps
    <3> QED
      BY <2>2, <2>3, <2>8, <3>1, <3>3, <3>4 DEF TypeOK, Unit, Stats
  <2>10. CASE PutInsert
    <3>1. Op.value \in Values /\ Op.key \in Keys
      BY <2>1, <2>10 DEF PutInsert, Ops
    <3>2. /\ ~Idle /\ InsertOne(Op.key, Op.value)
          /\ resp' = Append(resp, [type |-> "PUT_SUCCESS", ptr |-> NoPtr])
      BY <2>10 DEF PutInsert
    <3>3. resp' \in Seq(Response) /\ Len(resp') <= Len(batch)
      BY <2>2, <2>8, <3>2
    <3> QED
      BY <2>3, <3>1, <3>2, <3>3, InsertOneKeeps DEF TypeOK, Slot, Unit, Stats
  <2> QED
    BY <1>3, <2>6, <2>7, <2>9, <2>10 DEF ExecuteOp
<1>4. CASE UNCHANGED vars
  BY <1>4 DEF vars, TypeOK
<1> QED
  BY <1>1, <1>2, <1>3, <1>4 DEF Next

\* Every behaviour of a MICA instance keeps the index invariant: types, free
\* slots in front, distinct tags.
THEOREM IndexInvariance == Spec => []IndexInv
BY InitIndex, NextIndex, PTL DEF Spec

\* The state of mica_kv stays well typed, whatever the keys and sizes.
THEOREM MicaTypeCorrect == Spec => []TypeOK
<1>1. IndexInv => TypeOK
  BY DEF IndexInv
<1> QED
  BY <1>1, IndexInvariance, PTL

\* The comment in mica_insert_one, for every table: the scan without a break
\* ends on the used slot that has the tag.
THEOREM ScanSound == Spec => []TagIsFound
<1>1. IndexInv => TagIsFound
  BY ScanFindsTag DEF IndexInv, TypeOK, Slot, TagIsFound
<1> QED
  BY <1>1, IndexInvariance, PTL

-----------------------------------------------------------------------------
(* What an insertion takes away.  A slot and the log agree on where an     *)
(* entry is because the head only moves on, and moves on far enough.       *)

\* A used slot points at an entry behind the head.
OffsetsBehind ==
    \A b \in Bkts, s \in Slots :
        index[b][s].in_use = 1 => index[b][s].offset + EntryLen <= log_head

LEMMA Division ==
    ASSUME NEW a \in Nat, NEW c \in Nat \ {0}
    PROVE  /\ a \div c \in Nat /\ a % c \in 0..(c - 1)
           /\ a = c * (a \div c) + (a % c)
OBVIOUS

LEMMA Stretch ==
    ASSUME NEW c \in Nat, NEW x \in Int, NEW y \in Int, x <= y
    PROVE  c * x <= c * y /\ c * x \in Int /\ c * y \in Int
OBVIOUS

\* The head steps over the whole entry.
LEMMA HeadMovesOn ==
    ASSUME NEW head \in Nat
    PROVE  head + EntryLen <= NextHead(head)
<1> DEFINE h == head + EntryLen
           n == h + LogCap
           d == n \div LogCap
<1>1. h \in Nat /\ LogCap \in Nat \ {0} /\ n \in Nat
  BY MicaAssumption
<1>2. /\ d \in Nat /\ n % LogCap \in 0..(LogCap - 1)
      /\ n = LogCap * d + (n % LogCap)
  <2> HIDE DEF n
  <2> QED
    BY <1>1, Division, Zenon
<1>3. LogCap * d = d * LogCap /\ d * LogCap \in Nat
  <2> HIDE DEF d
  <2> QED
    BY <1>1, <1>2
<1>4. h <= d * LogCap
  <2> HIDE DEF d, h
  <2> QED
    BY <1>1, <1>2, <1>3
<1> QED
  BY <1>1, <1>4 DEF NextHead

\* Two entries less than a lap apart do not meet in the physical log.
LEMMA EntriesApart ==
    ASSUME NEW o \in Nat, NEW h \in Nat,
           o + EntryLen <= h, h + EntryLen <= o + LogCap
    PROVE  \/ (o % LogCap) + EntryLen <= h % LogCap
           \/ (h % LogCap) + EntryLen <= o % LogCap
<1> DEFINE a == o \div LogCap
           b == h \div LogCap
           p == o % LogCap
           q == h % LogCap
           x == LogCap * (b - a)
<1>1. LogCap \in Nat \ {0} /\ EntryLen \in Nat
  BY MicaAssumption
<1>2. /\ a \in Nat /\ p \in 0..(LogCap - 1) /\ o = LogCap * a + p
      /\ b \in Nat /\ q \in 0..(LogCap - 1) /\ h = LogCap * b + q
  BY <1>1, Division, Zenon
<1> HIDE DEF a, b, p, q
<1>3. x \in Int /\ h - o = x + q - p
  BY <1>1, <1>2
<1>4. CASE b - a <= -1
  <2>1. x <= LogCap * (-1)
    BY <1>1, <1>2, <1>4, Stretch
  <2> QED
    BY <1>1, <1>2, <1>3, <2>1
<1>5. CASE b - a = 0
  <2>1. x = 0
    BY <1>1, <1>5
  <2> QED
    BY <1>1, <1>2, <1>3, <2>1 DEF p, q
<1>6. CASE b - a = 1
  <2>1. x = LogCap
    BY <1>1, <1>6
  <2> QED
    BY <1>1, <1>2, <1>3, <2>1 DEF p, q
<1>7. CASE b - a >= 2
  <2>1. LogCap * 2 <= x
    BY <1>1, <1>2, <1>7, Stretch
  <2> QED
    BY <1>1, <1>2, <1>3, <2>1
<1> QED
  BY <1>2, <1>4, <1>5, <1>6, <1>7

LEMMA InitOffsets == Init => OffsetsBehind
BY DEF Init, OffsetsBehind, EmptySlot

\* An insertion writes one slot and leaves the others.
LEMMA InsertWrites ==
    ASSUME IndexInv, NEW j \in Keys, NEW v \in Values, InsertOne(j, v),
           NEW b \in Bkts, NEW s \in Slots
    PROVE  \/ /\ b = BktOf(j) /\ s = SlotToUse(index[b], j.tag)
              /\ index'[b][s] = [in_use |-> 1, tag |-> j.tag, offset |-> log_head]
           \/ index'[b][s] = index[b][s]
<1> DEFINE c == BktOf(j)
           u == SlotToUse(index[c], j.tag)
<1>1. c \in Bkts /\ j.tag \in Nat
  BY BktOfType
<1>2. u \in Slots
  BY <1>1, SlotToUseType
<1>3. index \in [Bkts -> [Slots -> Slot]]
  BY DEF IndexInv, TypeOK, Slot
<1>4. index' = [index EXCEPT ![c][u] = [in_use |-> 1, tag |-> j.tag, offset |-> log_head]]
  BY DEF InsertOne
<1> HIDE DEF c, u
<1>5. CASE b = c /\ s = u
  BY <1>1, <1>2, <1>3, <1>4, <1>5 DEF c, u
<1>6. CASE ~(b = c /\ s = u)
  BY <1>1, <1>2, <1>3, <1>4, <1>6
<1> QED
  BY <1>5, <1>6

\* A step inserts a key, or leaves the index and the head alone.
LEMMA StepInserts ==
    ASSUME IndexInv, [Next]_vars
    PROVE  \/ \E j \in Keys, v \in Values : InsertOne(j, v)
           \/ UNCHANGED <<index, log_head>>
<1>1. ASSUME NEW v \in Values, PopulateOne(v)
      PROVE  \E j \in Keys : InsertOne(j, v)
  <2>1. PopKeys[populated + 1] \in Keys
    BY <1>1, MicaAssumption DEF PopulateOne, IndexInv, TypeOK
  <2> QED
    BY <1>1, <2>1 DEF PopulateOne
<1>2. ASSUME PutInsert
      PROVE  \E j \in Keys, v \in Values : InsertOne(j, v)
  <2>1. Op \in Ops
    BY <1>2 DEF PutInsert, Idle, Op, IndexInv, TypeOK
  <2>2. Op.key \in Keys /\ Op.value \in Values
    BY <1>2, <2>1 DEF PutInsert, Ops
  <2> QED
    BY <1>2, <2>2 DEF PutInsert
<1> QED
  BY <1>1, <1>2 DEF Next, StartBatch, ExecuteOp, GetHit, GetMiss, PutUpdate, vars

LEMMA NextOffsets == IndexInv /\ OffsetsBehind /\ [Next]_vars => OffsetsBehind'
<1> SUFFICES ASSUME IndexInv, OffsetsBehind, [Next]_vars,
                    NEW b \in Bkts, NEW s \in Slots, index'[b][s].in_use = 1
             PROVE  index'[b][s].offset + EntryLen <= log_head'
  BY DEF OffsetsBehind
<1>1. /\ log_head \in Nat /\ EntryLen \in Nat
      /\ index \in [Bkts -> [Slots -> Slot]]
  BY MicaAssumption DEF IndexInv, TypeOK, Slot
<1>2. ASSUME NEW j \in Keys, NEW v \in Values, InsertOne(j, v)
      PROVE  index'[b][s].offset + EntryLen <= log_head'
  <2>1. log_head' \in Nat /\ log_head + EntryLen <= log_head'
    BY <1>1, <1>2, HeadMovesOn, NextHeadType DEF InsertOne
  <2>2. CASE index'[b][s] = [in_use |-> 1, tag |-> j.tag, offset |-> log_head]
    BY <1>1, <2>1, <2>2
  <2>3. CASE index'[b][s] = index[b][s]
    <3>1. index[b][s].offset \in Nat
      BY <1>1 DEF Slot
    <3> QED
      BY <1>1, <2>1, <2>3, <3>1 DEF OffsetsBehind
  <2> QED
    BY <1>2, <2>2, <2>3, InsertWrites
<1>3. CASE UNCHANGED <<index, log_head>>
  BY <1>3 DEF OffsetsBehind
<1>4. \/ \E j \in Keys, v \in Values : InsertOne(j, v)
      \/ UNCHANGED <<index, log_head>>
  BY StepInserts
<1> QED
  BY <1>2, <1>3, <1>4

\* What is in the store has one slot, behind the head by less than a lap, and
\* lies in the physical log as a whole.
LEMMA StoredIs ==
    ASSUME IndexInv, NEW k \in Keys, Stored(k) # NotFound
    PROVE  LET s == FirstMatch(k)
               slot == index[BktOf(k)][s]
               p == slot.offset % LogCap
           IN  /\ s \in Slots /\ slot.in_use = 1 /\ slot.tag = k.tag
               /\ log_head - slot.offset < LogCap
               /\ LookUp(k) = p /\ KeyAt(ht_log, p, k) /\ p + EntryLen <= LogCap
<1> DEFINE b == BktOf(k)
           M == Matches(k)
           s == FirstMatch(k)
           p == index[b][s].offset % LogCap
<1>1. b \in Bkts /\ k.tag \in Nat
  BY BktOfType
<1>2. /\ log_head \in Nat /\ EntryLen \in Nat \ {0, 1} /\ LogCap \in Nat \ {0}
      /\ index \in [Bkts -> [Slots -> Slot]] /\ TagsDiffer(index[b])
  BY <1>1, MicaAssumption DEF IndexInv, TypeOK, Slot
<1>3. LookUp(k) # NoPtr /\ KeyAt(ht_log, LookUp(k), k) /\ ValueAt(LookUp(k), k) # NotFound
  BY DEF Stored
<1>4. M # {}
  BY <1>3 DEF LookUp
<1>5. s \in M
  <2>1. PICK m \in M : TRUE
    BY <1>4
  <2>2. \A r \in M : r = m
    BY <1>2, <2>1 DEF Matches, TagsDiffer
  <2>3. m \in Int
    BY MicaAssumption DEF Matches, Slots
  <2>4. \A r \in M : m <= r
    BY <2>2, <2>3
  <2> QED
    BY <2>1, <2>4 DEF FirstMatch
<1>6. s \in Slots /\ index[b][s].in_use = 1 /\ index[b][s].tag = k.tag
  BY <1>5 DEF Matches
<1>7. index[b][s].offset \in Nat
  BY <1>1, <1>2, <1>6 DEF Slot
<1>8. ~(log_head - index[b][s].offset >= LogCap) /\ LookUp(k) = p
  BY <1>3, <1>4 DEF LookUp
<1>9. p \in Nat
  BY <1>2, <1>7
<1>10. p + EntryLen <= LogCap
  <2>1. ValueAt(p, k) # NotFound
    BY <1>3, <1>8
  <2> HIDE DEF p
  <2>2. \A i \in 1..(EntryLen - 1) : p + i \in Units
    BY <2>1, Zenon DEF ValueAt
  <2>3. EntryLen - 1 \in 1..(EntryLen - 1)
    BY <1>2
  <2>4. p + (EntryLen - 1) \in Units
    BY <2>2, <2>3
  <2> QED
    BY <1>2, <1>9, <2>4 DEF Units
<1>11. log_head - index[b][s].offset < LogCap
  BY <1>2, <1>7, <1>8
<1> QED
  BY <1>3, <1>6, <1>8, <1>10, <1>11

\* An insertion that spares the slot of a stored key and does not lap its
\* entry leaves the key where it was, with its value.
LEMMA InsertSpares ==
    ASSUME IndexInv, OffsetsBehind, NEW j \in Keys, NEW v \in Values, InsertOne(j, v),
           NEW k \in Keys, Stored(k) # NotFound,
           NEW s \in Slots, s = FirstMatch(k),
           index'[BktOf(k)][s] = index[BktOf(k)][s],
           ~(log_head' - index[BktOf(k)][s].offset >= LogCap)
    PROVE  Stored(k)' = Stored(k)
<1> DEFINE b == BktOf(k)
           o == index[b][s].offset
           h == log_head
           q == h % LogCap
<1>1. b \in Bkts /\ k.tag \in Nat
  BY BktOfType
<1>2. /\ h \in Nat /\ EntryLen \in Nat \ {0, 1} /\ LogCap \in Nat \ {0}
      /\ index \in [Bkts -> [Slots -> Slot]] /\ ht_log \in [Units -> Unit]
  BY MicaAssumption DEF IndexInv, TypeOK, Slot, Unit
<1>3. o \in Nat
  BY <1>1, <1>2 DEF Slot
<1> PICK p \in Nat : p = o % LogCap
  BY <1>2, <1>3
<1>4. /\ index[b][s].in_use = 1 /\ index[b][s].tag = k.tag
      /\ LookUp(k) = p /\ KeyAt(ht_log, p, k) /\ p + EntryLen <= LogCap
  BY StoredIs
<1>5. /\ index' \in [Bkts -> [Slots -> Slot]] /\ TagsDiffer(index'[b])
      /\ log_head' \in Nat /\ h + EntryLen <= log_head'
  <2>1. log_head' = NextHead(log_head)
    BY DEF InsertOne
  <2>2. log_head' \in Nat /\ h + EntryLen <= log_head'
    BY <1>2, <2>1, HeadMovesOn, NextHeadType
  <2>3. index' \in [Bkts -> [Slots -> Slot]] /\ TagsDiffer(index'[b])
    BY <1>1, InsertOneKeeps
  <2> QED
    BY <2>2, <2>3
<1>6. Matches(k)' = {s}
  BY <1>4, <1>5 DEF Matches, TagsDiffer
<1>7. FirstMatch(k)' = s
  <2>1. s <= s
    BY MicaAssumption DEF Slots
  <2> QED
    BY <1>6, <2>1 DEF FirstMatch
<1>8. LookUp(k)' = p
  BY <1>6, <1>7 DEF LookUp
<1>9. p + EntryLen <= q \/ q + EntryLen <= p
  <2>1. o + EntryLen <= h
    BY <1>1, <1>4 DEF OffsetsBehind
  <2>2. h + EntryLen <= o + LogCap
    <3> HIDE DEF o, h
    <3> QED
      BY <1>2, <1>3, <1>5 DEF o
  <2> QED
    BY <1>2, <1>3, <2>1, <2>2, EntriesApart
<1>10. ASSUME NEW i \in 0..(EntryLen - 1)
       PROVE  p + i \in Units /\ ht_log'[p + i] = ht_log[p + i]
  <2>1. q \in Nat
    BY <1>2
  <2>2. ht_log' = Paste(ht_log, q, j, v)
    BY DEF InsertOne
  <2> HIDE DEF q
  <2>3. p + i \in Units /\ p + i \notin q..(q + EntryLen - 1)
    BY <1>2, <1>4, <1>9, <2>1 DEF Units
  <2> QED
    BY <2>2, <2>3 DEF Paste
<1>11. p \in Units /\ ht_log'[p] = ht_log[p]
  <2>1. 0 \in 0..(EntryLen - 1)
    BY <1>2
  <2>2. p + 0 = p
    OBVIOUS
  <2> QED
    BY <1>10, <2>1, <2>2
<1>12. \A i \in 1..(EntryLen - 1) : ht_log'[p + i] = ht_log[p + i]
  BY <1>2, <1>10
<1>13. ht_log'[p + 1] = ht_log[p + 1]
  BY <1>2, <1>12
<1>14. ValueAt(p, k)' = ValueAt(p, k)
  <2> DEFINE Whole(l) == \A i \in 1..(EntryLen - 1) :
                            /\ p + i \in Units
                            /\ l[p + i] = [key |-> k, value |-> l[p + 1].value, part |-> i]
  <2>1. Whole(ht_log') <=> Whole(ht_log)
    BY <1>12, <1>13, Zenon
  <2>2. ValueAt(p, k) = IF Whole(ht_log) THEN ht_log[p + 1].value ELSE NotFound
    BY Zenon DEF ValueAt
  <2>3. ValueAt(p, k)' = IF Whole(ht_log') THEN ht_log'[p + 1].value ELSE NotFound
    BY Zenon DEF ValueAt
  <2> HIDE DEF Whole
  <2> QED
    BY <1>13, <2>1, <2>2, <2>3, Zenon
<1>15. KeyAt(ht_log', p, k)
  BY <1>4, <1>11 DEF KeyAt
<1>16. Stored(k) = ValueAt(p, k)
  BY <1>4 DEF Stored
<1>17. p # NoPtr
  BY DEF NoPtr
<1>18. Stored(k)' = ValueAt(p, k)'
  BY <1>8, <1>15, <1>17, Zenon DEF Stored
<1> QED
  BY <1>14, <1>16, <1>18

\* A step accounts for every key whose value an insertion takes away.
LEMMA StepAccounts ==
    ASSUME IndexInv, OffsetsBehind, [Next]_vars, NEW k \in Keys,
           log_head' # log_head, Stored(k) # NotFound, Stored(k)' # Stored(k)
    PROVE  LET old == index[BktOf(k)][FirstMatch(k)]
               new == index'[BktOf(k)][FirstMatch(k)]
           IN  \/ new.tag = k.tag /\ new.offset = log_head
               \/ new.tag # k.tag /\ stats'.evictions = stats.evictions + 1
               \/ log_head' - old.offset >= LogCap
<1>1. PICK j \in Keys, v \in Values : InsertOne(j, v)
  BY StepInserts
<1>2. BktOf(k) \in Bkts /\ j.tag \in Nat
  BY BktOfType
<1> DEFINE b == BktOf(k)
<1>3. PICK s \in Slots : s = FirstMatch(k) /\ index[b][s].in_use = 1 /\ index[b][s].tag = k.tag
  BY StoredIs
<1>4. CASE index'[b][s] = index[b][s]
  <2>1. log_head' - index[b][s].offset >= LogCap
    BY <1>1, <1>3, <1>4, InsertSpares
  <2> QED
    BY <1>3, <2>1
<1>5. CASE index'[b][s] # index[b][s]
  <2>1. /\ b = BktOf(j) /\ s = SlotToUse(index[b], j.tag)
        /\ index'[b][s] = [in_use |-> 1, tag |-> j.tag, offset |-> log_head]
    BY <1>1, <1>2, <1>5, InsertWrites
  <2>2. CASE j.tag = k.tag
    BY <1>3, <2>1, <2>2
  <2>3. CASE j.tag # k.tag
    <3>1. s \notin Candidates(index[b], j.tag)
      BY <1>3, <2>3 DEF Candidates
    <3>2. Candidates(index[b], j.tag) = {}
      BY <1>2, <2>1, <3>1, SlotToUseLast
    <3>3. stats'.evictions = stats.evictions + 1
      BY <1>1, <2>1, <3>2 DEF InsertOne
    <3> QED
      BY <1>3, <2>1, <2>3, <3>3
  <2> QED
    BY <2>2, <2>3
<1> QED
  BY <1>4, <1>5

\* No insertion loses a key silently, whatever the table, the log and the keys:
\* mica_insert_one replaces a key with the same tag, counts the eviction from a
\* full bucket, or has lapped the entry.
THEOREM LossesCounted == Spec => LossesAccounted
<1>1. Init => IndexInv /\ OffsetsBehind
  BY InitIndex, InitOffsets
<1>2. IndexInv /\ OffsetsBehind /\ [Next]_vars => (IndexInv /\ OffsetsBehind)'
  BY NextIndex, NextOffsets
<1> DEFINE Accounted ==
             \A k \in Keys :
               log_head' # log_head /\ Stored(k) # NotFound /\ Stored(k)' # Stored(k) =>
               LET old == index[BktOf(k)][FirstMatch(k)]
                   new == index'[BktOf(k)][FirstMatch(k)]
               IN  \/ new.tag = k.tag /\ new.offset = log_head
                   \/ new.tag # k.tag /\ stats'.evictions = stats.evictions + 1
                   \/ log_head' - old.offset >= LogCap
<1>3. IndexInv /\ OffsetsBehind /\ [Next]_vars => [Accounted]_vars
  BY StepAccounts
<1> QED
  BY <1>1, <1>2, <1>3, PTL DEF Spec, LossesAccounted

=============================================================================
