----------------------- MODULE SelectiveSignalProofs -----------------------
(***************************************************************************)
(* The send loop of SelectiveSignal for every UNSIG_BATCH, every number of *)
(* queue pairs and every mix of postlist sizes: hrd_poll_cq is entered     *)
(* only when a signaled WR is with the NIC, at most 2*UNSIG_BATCH-1 WRs    *)
(* are un-ACKed, and ibv_post_send never finds the queue full.             *)
(***************************************************************************)
EXTENDS SelectiveSignal, TLAPS

\* The postlist check and the queue capacity check of main().  For loops that
\* poll ahead the postlist is one WR shorter than main() checks: with its own
\* bound PollFindsSignal is false (SignalAheadFull.cfg).
Admitted ==
    /\ \A pol \in Policies : \A sz \in Sizes[pol] :
          sz <= IF pol = "ahead" THEN UNSIG_BATCH - 1 ELSE UNSIG_BATCH
    /\ Q_DEPTH >= 2 * UNSIG_BATCH

-----------------------------------------------------------------------------
(* The shape of one queue pair's WRs, as a predicate on values:            *)
(*   st, nb   nb_tx > 0 and nb_tx % UNSIG_BATCH                            *)
(*   h, S     posted, un-ACKed WRs and the signaled ones among them        *)
(*   w, U     WRs filled in and not posted, and the signaled ones          *)
(*   sz       the length of the postlist under construction                *)

\* The one unpolled signaled WR is at position p, posted or not.
OnlySignal(h, S, U, p) ==
    \/ p <= h /\ S = {p} /\ U = {}
    \/ p > h /\ S = {} /\ U = {p - h}

\* WRs filled in since (and with) the last signaled one.
Since(nb) == IF nb = 0 THEN UNSIG_BATCH ELSE nb

\* In front of the last signaled WR lies nothing in the first cycle, and the
\* rest of the previous cycle afterwards.
NowShape(st, nb, h, S, w, U) ==
    IF st
    THEN /\ h + w - Since(nb) \in {0, UNSIG_BATCH - 1}
         /\ OnlySignal(h, S, U, h + w - Since(nb) + 1)
    ELSE nb = 0 /\ h = 0 /\ w = 0 /\ S = {} /\ U = {}

AheadShape(st, nb, h, S, w, U) ==
    IF nb = 0
    THEN /\ S = {} /\ U = {}
         /\ h + w = IF st THEN UNSIG_BATCH - 1 ELSE 0
    ELSE /\ st
         /\ h + w - nb \in {0, UNSIG_BATCH - 1}
         /\ OnlySignal(h, S, U, h + w - nb + 1)

LastShape(st, h, S, w, U, sz) ==
    IF w > 0
    THEN st /\ h = 0 /\ S = {} /\ U = IF w = sz THEN {sz} ELSE {}
    ELSE /\ U = {}
         /\ IF st THEN h \in 1..UNSIG_BATCH /\ S = {h} ELSE h = 0 /\ S = {}

Shape(pol, st, nb, h, S, w, U, sz) ==
    /\ pol = "now" => NowShape(st, nb, h, S, w, U)
    /\ pol = "ahead" => AheadShape(st, nb, h, S, w, U)
    /\ pol = "last" => LastShape(st, h, S, w, U, sz)

QPShape(q) ==
    Shape(policy, started[q], nb_tx[q], sq[q].head, sq[q].sig,
          IF q = qp_i THEN w_i ELSE 0, IF q = qp_i THEN flags ELSE {}, size)

\* The inductive invariant.
IInv == TypeOK /\ \A q \in QPs : QPShape(q)

\* MustPoll, Signaled and the increment of nb_tx as functions of the values.
Polls(pol, st, nb, w) ==
    \/ pol = "now" /\ nb = 0 /\ st
    \/ pol = "ahead" /\ nb = UNSIG_BATCH - 1
    \/ pol = "last" /\ w = 0 /\ st

Signals(pol, nb, w, sz) == IF pol = "last" THEN w = sz - 1 ELSE nb = 0

Inc(nb) == IF nb = UNSIG_BATCH - 1 THEN 0 ELSE nb + 1

-----------------------------------------------------------------------------
\* Filling in a WR where the loop does not poll keeps the shape.
LEMMA FillShape ==
    ASSUME Admitted, NEW pol \in Policies, NEW sz \in Sizes[pol], NEW w \in 0..(sz - 1),
           NEW st \in BOOLEAN, NEW nb \in 0..(UNSIG_BATCH - 1), NEW h \in Nat,
           NEW S, NEW U, Shape(pol, st, nb, h, S, w, U, sz), ~Polls(pol, st, nb, w)
    PROVE  Shape(pol, TRUE, Inc(nb), h, S, w + 1,
                 IF Signals(pol, nb, w, sz) THEN U \cup {w + 1} ELSE U, sz)
<1>a. UNSIG_BATCH \in Nat \ {0} /\ pol \in {"now", "ahead", "last"}
  BY SignalAssumption
<1>b. /\ sz \in Nat \ {0} /\ sz <= UNSIG_BATCH /\ w \in Nat /\ w < sz
      /\ pol = "ahead" => sz <= UNSIG_BATCH - 1
  BY SignalAssumption DEF Admitted
<1> USE <1>a, <1>b DEF Shape, Polls, Signals, Inc
<1>1. CASE pol = "now"
  <2> DEFINE V == IF nb = 0 THEN U \cup {w + 1} ELSE U
  <2>1. NowShape(st, nb, h, S, w, U) /\ ~(nb = 0 /\ st)
    BY <1>1
  <2>2. NowShape(TRUE, Inc(nb), h, S, w + 1, V)
    <3>1. CASE nb = 0
      BY <2>1, <3>1 DEF NowShape, OnlySignal, Since
    <3>2. CASE nb # 0
      <4> DEFINE r == h + w - nb
      <4>1. st /\ r \in {0, UNSIG_BATCH - 1} /\ OnlySignal(h, S, U, r + 1)
        BY <2>1, <3>2 DEF NowShape, Since
      <4>2. h + (w + 1) - Since(Inc(nb)) = r /\ V = U
        BY <3>2 DEF Since
      <4> QED
        BY <4>1, <4>2 DEF NowShape
    <3> QED
      BY <3>1, <3>2
  <2> QED
    BY <1>1, <2>2
<1>2. CASE pol = "ahead"
  <2> DEFINE V == IF nb = 0 THEN U \cup {w + 1} ELSE U
             r == h + w - nb
  <2>1. AheadShape(st, nb, h, S, w, U) /\ nb # UNSIG_BATCH - 1
    BY <1>2
  <2>2. r \in {0, UNSIG_BATCH - 1} /\ OnlySignal(h, S, V, r + 1)
    BY <2>1 DEF AheadShape, OnlySignal
  <2>3. AheadShape(TRUE, Inc(nb), h, S, w + 1, V)
    BY <2>1, <2>2 DEF AheadShape
  <2> QED
    BY <1>2, <2>3
<1>3. CASE pol = "last"
  <2> DEFINE V == IF w = sz - 1 THEN U \cup {w + 1} ELSE U
  <2>1. LastShape(st, h, S, w, U, sz) /\ ~(w = 0 /\ st)
    BY <1>3
  <2>2. U = {} /\ h = 0 /\ S = {}
    BY <2>1 DEF LastShape
  <2>3. V = IF w + 1 = sz THEN {sz} ELSE {}
    <3> HIDE DEF Shape, Polls, Signals, Inc
    <3>1. CASE w + 1 = sz
      <4>1. w = sz - 1
        BY <3>1
      <4> QED
        BY <2>2, <3>1, <4>1
    <3>2. CASE w + 1 # sz
      BY <2>2, <3>2
    <3> QED
      BY <3>1, <3>2
  <2>4. LastShape(TRUE, h, S, w + 1, V, sz)
    BY <2>2, <2>3 DEF LastShape
  <2> QED
    BY <1>3, <2>4
<1> QED
  BY <1>1, <1>2, <1>3

\* Exactly one signaled WR is un-ACKed and it is posted; retiring it and
\* filling in the next WR restores the shape.
PollRestores(pol, nb, h, S, w, U, sz) ==
    \E p \in Nat :
        /\ p <= h /\ S = {p} /\ U = {}
        /\ Shape(pol, TRUE, Inc(nb), h - p, {}, w + 1,
                 IF Signals(pol, nb, w, sz) THEN {w + 1} ELSE {}, sz)

\* That is the situation wherever the loop polls.
LEMMA PollShape ==
    ASSUME Admitted, NEW pol \in Policies, NEW sz \in Sizes[pol], NEW w \in 0..(sz - 1),
           NEW st \in BOOLEAN, NEW nb \in 0..(UNSIG_BATCH - 1), NEW h \in Nat,
           NEW S, NEW U, Shape(pol, st, nb, h, S, w, U, sz), Polls(pol, st, nb, w)
    PROVE  PollRestores(pol, nb, h, S, w, U, sz)
<1>a. UNSIG_BATCH \in Nat \ {0} /\ pol \in {"now", "ahead", "last"}
  BY SignalAssumption
<1>b. /\ sz \in Nat \ {0} /\ sz <= UNSIG_BATCH /\ w \in Nat /\ w < sz
      /\ pol = "ahead" => sz <= UNSIG_BATCH - 1
  BY SignalAssumption DEF Admitted
<1> USE <1>a, <1>b DEF Shape, Polls, Signals, Inc, PollRestores
<1>1. CASE pol = "now"
  <2> DEFINE p == h + w - UNSIG_BATCH + 1
  <2>1. p \in Nat /\ p <= h /\ S = {p} /\ U = {}
    BY <1>1 DEF NowShape, OnlySignal, Since
  <2>2. NowShape(TRUE, Inc(nb), h - p, {}, w + 1, {w + 1})
    BY <1>1, <2>1 DEF NowShape, OnlySignal, Since
  <2> QED
    BY <1>1, <2>1, <2>2
<1>2. CASE pol = "ahead"
  <2> DEFINE p == h + w - UNSIG_BATCH + 2
  <2>1. p \in Nat /\ p <= h /\ S = {p} /\ U = {}
    BY <1>2 DEF AheadShape, OnlySignal
  <2>2. AheadShape(TRUE, Inc(nb), h - p, {}, w + 1, {})
    BY <1>2, <2>1 DEF AheadShape
  <2>3. ~Signals(pol, nb, w, sz)
    BY <1>2
  <2> QED
    BY <1>2, <2>1, <2>2, <2>3
<1>3. CASE pol = "last"
  BY <1>3 DEF LastShape
<1> QED
  BY <1>1, <1>2, <1>3

\* Posting the list moves its WRs, signaled or not, behind the others.
LEMMA PostShape ==
    ASSUME Admitted, NEW pol \in Policies, NEW sz \in Sizes[pol], NEW sz2,
           NEW st \in BOOLEAN, NEW nb \in 0..(UNSIG_BATCH - 1), NEW h \in Nat,
           NEW S, NEW U, Shape(pol, st, nb, h, S, sz, U, sz)
    PROVE  Shape(pol, st, nb, h + sz, S \cup {h + p : p \in U}, 0, {}, sz2)
<1>a. UNSIG_BATCH \in Nat \ {0} /\ pol \in {"now", "ahead", "last"}
  BY SignalAssumption
<1>b. /\ sz \in Nat \ {0} /\ sz <= UNSIG_BATCH
      /\ pol = "ahead" => sz <= UNSIG_BATCH - 1
  BY SignalAssumption DEF Admitted
<1> USE <1>a, <1>b DEF Shape
<1> DEFINE T == S \cup {h + p : p \in U}
<1>0. ASSUME NEW p \in Int, p <= h + sz, OnlySignal(h, S, U, p)
      PROVE  OnlySignal(h + sz, T, {}, p)
  BY <1>0 DEF OnlySignal
<1>1. CASE pol = "now"
  BY <1>0, <1>1 DEF NowShape, Since
<1>2. CASE pol = "ahead"
  BY <1>0, <1>2 DEF AheadShape
<1>3. CASE pol = "last"
  BY <1>3 DEF LastShape
<1> QED
  BY <1>1, <1>2, <1>3

\* At most 2*UNSIG_BATCH-1 WRs are filled in and not retired.
LEMMA ShapeBound ==
    ASSUME Admitted, NEW pol \in Policies, NEW sz \in Sizes[pol], NEW w \in 0..sz,
           NEW st \in BOOLEAN, NEW nb \in 0..(UNSIG_BATCH - 1), NEW h \in Nat,
           NEW S, NEW U, Shape(pol, st, nb, h, S, w, U, sz)
    PROVE  h + w <= 2 * UNSIG_BATCH - 1 /\ \A p, r \in S : p = r
<1>a. UNSIG_BATCH \in Nat \ {0} /\ pol \in {"now", "ahead", "last"}
  BY SignalAssumption
<1>b. /\ sz \in Nat \ {0} /\ sz <= UNSIG_BATCH /\ w \in Nat /\ w <= sz
      /\ pol = "ahead" => sz <= UNSIG_BATCH - 1
  BY SignalAssumption DEF Admitted
<1> USE <1>a, <1>b DEF Shape
<1>1. CASE pol = "now"
  BY <1>1 DEF NowShape, Since, OnlySignal
<1>2. CASE pol = "ahead"
  BY <1>2 DEF AheadShape, OnlySignal
<1>3. CASE pol = "last"
  BY <1>3 DEF LastShape
<1> QED
  BY <1>1, <1>2, <1>3

\* Polling the only signaled WR of a queue retires it and all before it.
LEMMA PollOnlySignal ==
    ASSUME NEW q \in [head : Nat, done : Nat, sig : SUBSET Nat],
           NEW p \in Nat, q.sig = {p}, p <= q.done
    PROVE  PollOne(q) = [head |-> q.head - p, done |-> q.done - p, sig |-> {}]
<1>1. Oldest(q.sig) = p
  BY DEF Oldest
<1> QED
  BY <1>1 DEF PollOne

-----------------------------------------------------------------------------
LEMMA InitIInv == Init => IInv
<1> SUFFICES ASSUME Init PROVE IInv
  OBVIOUS
<1> USE SignalAssumption DEF Init, QPs, EmptySQ
<1>1. TypeOK
  BY DEF TypeOK
<1>2. ASSUME NEW q \in QPs PROVE QPShape(q)
  BY DEF QPShape, Shape, NowShape, AheadShape, LastShape
<1> QED
  BY <1>1, <1>2 DEF IInv

\* One iteration of the fill loop.
LEMMA FillWrStep == ASSUME Admitted, IInv, FillWr PROVE IInv'
<1> USE SignalAssumption
<1> DEFINE old == sq[qp_i]
<1>0. /\ qp_i \in QPs /\ policy \in Policies /\ size \in Sizes[policy] /\ size \in Nat
      /\ w_i \in 0..(size - 1) /\ flags \subseteq 1..w_i
      /\ sq \in [QPs -> [head : Nat, done : Nat, sig : SUBSET Nat]]
      /\ \A q \in QPs : sq[q].done <= sq[q].head
      /\ nb_tx \in [QPs -> 0..(UNSIG_BATCH - 1)] /\ started \in [QPs -> BOOLEAN]
  BY DEF IInv, TypeOK, FillWr
<1>1. /\ policy' = policy /\ qp_i' = qp_i /\ size' = size /\ w_i' = w_i + 1
      /\ nb_tx' = [nb_tx EXCEPT ![qp_i] = Inc(nb_tx[qp_i])]
      /\ started' = [started EXCEPT ![qp_i] = TRUE]
      /\ flags' = IF Signals(policy, nb_tx[qp_i], w_i, size) THEN flags \cup {w_i + 1} ELSE flags
      /\ sq' = IF Polls(policy, started[qp_i], nb_tx[qp_i], w_i)
               THEN [sq EXCEPT ![qp_i] = PollOne(old)] ELSE sq
      /\ Polls(policy, started[qp_i], nb_tx[qp_i], w_i) => HasCqe(old)
  BY DEF FillWr, Inc, Signals, Signaled, SignalFirst, SignalLast, Polls, MustPoll,
         PollNow, PollAhead, PollPrevious
<1>2. Shape(policy, started[qp_i], nb_tx[qp_i], old.head, old.sig, w_i, flags, size)
  BY <1>0 DEF IInv, QPShape
<1>3. old \in [head : Nat, done : Nat, sig : SUBSET Nat] /\ old.head \in Nat
  BY <1>0
<1>4. started[qp_i] \in BOOLEAN /\ nb_tx[qp_i] \in 0..(UNSIG_BATCH - 1)
  BY <1>0
<1>5. PICK h \in Nat, d \in Nat, S \in SUBSET Nat :
         /\ d <= h
         /\ sq' = [sq EXCEPT ![qp_i] = [head |-> h, done |-> d, sig |-> S]]
         /\ Shape(policy, TRUE, Inc(nb_tx[qp_i]), h, S, w_i + 1, flags', size)
  <2>1. CASE Polls(policy, started[qp_i], nb_tx[qp_i], w_i)
    <3>1. PICK p \in Nat :
              /\ p <= old.head /\ old.sig = {p} /\ flags = {}
              /\ Shape(policy, TRUE, Inc(nb_tx[qp_i]), old.head - p, {}, w_i + 1,
                       IF Signals(policy, nb_tx[qp_i], w_i, size) THEN {w_i + 1} ELSE {}, size)
      <4>1. policy \in Policies /\ size \in Sizes[policy] /\ w_i \in 0..(size - 1) /\ old.head \in Nat
        BY <1>0, <1>3
      <4>2. PollRestores(policy, nb_tx[qp_i], old.head, old.sig, w_i, flags, size)
        BY <1>2, <1>4, <2>1, <4>1, PollShape
      <4> QED
        BY <4>2 DEF PollRestores
    <3>2. p <= old.done
      BY <1>1, <2>1, <3>1 DEF HasCqe
    <3>3. PollOne(old) = [head |-> old.head - p, done |-> old.done - p, sig |-> {}]
      BY <1>3, <3>1, <3>2, PollOnlySignal
    <3>4. flags' = IF Signals(policy, nb_tx[qp_i], w_i, size) THEN {w_i + 1} ELSE {}
      BY <1>1, <3>1
    <3>5. old.head - p \in Nat /\ old.done - p \in Nat /\ old.done - p <= old.head - p
      BY <1>0, <1>3, <3>1, <3>2
    <3>6. sq' = [sq EXCEPT ![qp_i] =
                   [head |-> old.head - p, done |-> old.done - p, sig |-> {}]]
      BY <1>1, <2>1, <3>3
    <3>7. Shape(policy, TRUE, Inc(nb_tx[qp_i]), old.head - p, {}, w_i + 1, flags', size)
      BY <3>1, <3>4
    <3> QED
      BY <3>5, <3>6, <3>7
  <2>2. CASE ~Polls(policy, started[qp_i], nb_tx[qp_i], w_i)
    <3>1. Shape(policy, TRUE, Inc(nb_tx[qp_i]), old.head, old.sig, w_i + 1, flags', size)
      BY <1>0, <1>1, <1>2, <1>3, <1>4, <2>2, FillShape
    <3>2. sq' = [sq EXCEPT ![qp_i] =
                   [head |-> old.head, done |-> old.done, sig |-> old.sig]]
      BY <1>0, <1>1, <1>3, <2>2
    <3>3. old.head \in Nat /\ old.done \in Nat /\ old.sig \in SUBSET Nat /\ old.done <= old.head
      BY <1>0, <1>3
    <3> QED
      BY <3>1, <3>2, <3>3
  <2> QED
    BY <2>1, <2>2
<1>6. TypeOK'
  <2>1. Inc(nb_tx[qp_i]) \in 0..(UNSIG_BATCH - 1)
    BY <1>4 DEF Inc
  <2>2. nb_tx' \in [QPs -> 0..(UNSIG_BATCH - 1)] /\ started' \in [QPs -> BOOLEAN]
    BY <1>0, <1>1, <2>1
  <2>3. sq' \in [QPs -> [head : Nat, done : Nat, sig : SUBSET Nat]]
    BY <1>0, <1>5
  <2>4. \A q \in QPs : sq'[q].done <= sq'[q].head
    BY <1>0, <1>5
  <2>5. flags' \subseteq 1..w_i' /\ w_i' \in 0..size' /\ qp_i' \in QPs /\ size' \in Sizes[policy']
    BY <1>0, <1>1
  <2> QED
    BY <1>0, <1>1, <2>2, <2>3, <2>4, <2>5 DEF TypeOK, QPs
<1>7. ASSUME NEW q \in QPs PROVE QPShape(q)'
  <2>1. CASE q = qp_i
    <3>1. /\ sq'[q].head = h /\ sq'[q].sig = S /\ started'[q] = TRUE
          /\ nb_tx'[q] = Inc(nb_tx[qp_i]) /\ qp_i' = q
      BY <1>0, <1>1, <1>5, <2>1
    <3> QED
      BY <1>1, <1>5, <3>1 DEF QPShape
  <2>2. CASE q # qp_i
    <3>1. sq'[q] = sq[q] /\ started'[q] = started[q] /\ nb_tx'[q] = nb_tx[q] /\ qp_i' # q
      BY <1>0, <1>1, <1>5, <2>2
    <3>2. Shape(policy, started[q], nb_tx[q], sq[q].head, sq[q].sig, 0, {}, size)
      BY <2>2 DEF IInv, QPShape
    <3> QED
      BY <1>1, <3>1, <3>2 DEF QPShape
  <2> QED
    BY <2>1, <2>2
<1> QED
  BY <1>6, <1>7 DEF IInv, QPs

\* A queue pair whose list is not under construction keeps its shape when
\* the length of the list under construction changes.
LEMMA IdleShape ==
    ASSUME NEW pol, NEW st, NEW nb, NEW h, NEW S, NEW sz, NEW sz2,
           Shape(pol, st, nb, h, S, 0, {}, sz)
    PROVE  Shape(pol, st, nb, h, S, 0, {}, sz2)
BY DEF Shape, LastShape

\* ibv_post_send and the switch to the next queue pair.
LEMMA PostListStep == ASSUME Admitted, IInv, PostList PROVE IInv'
<1> USE SignalAssumption
<1> DEFINE old == sq[qp_i]
           T == old.sig \cup {old.head + p : p \in flags}
<1>0. /\ qp_i \in QPs /\ policy \in Policies /\ size \in Sizes[policy] /\ w_i = size /\ flags \subseteq 1..size /\ size \in Nat
      /\ sq \in [QPs -> [head : Nat, done : Nat, sig : SUBSET Nat]]
      /\ \A q \in QPs : sq[q].done <= sq[q].head
      /\ nb_tx \in [QPs -> 0..(UNSIG_BATCH - 1)] /\ started \in [QPs -> BOOLEAN]
  BY DEF IInv, TypeOK, PostList
<1>1. /\ policy' = policy /\ nb_tx' = nb_tx /\ started' = started /\ w_i' = 0 /\ flags' = {}
      /\ size' \in Sizes[policy] /\ size' \in Nat
      /\ sq' = [sq EXCEPT ![qp_i] = [head |-> old.head + size, done |-> old.done, sig |-> T]]
  BY DEF PostList, PostSend, NextSizes, IInv, TypeOK
<1>2. qp_i' \in QPs
  BY <1>0 DEF PostList, QPs
<1>3. old.head \in Nat /\ old.done \in Nat /\ old.sig \subseteq Nat /\ T \subseteq Nat
  BY <1>0
<1>4. TypeOK'
  <2>1. sq' \in [QPs -> [head : Nat, done : Nat, sig : SUBSET Nat]]
    BY <1>0, <1>1, <1>3
  <2>2. \A q \in QPs : sq'[q].done <= sq'[q].head
    BY <1>0, <1>1, <1>3
  <2>3. w_i' \in 0..size' /\ flags' \subseteq 1..w_i'
    BY <1>1
  <2>4. QPs' = QPs
    BY DEF QPs
  <2> QED
    BY <1>0, <1>1, <1>2, <2>1, <2>2, <2>3, <2>4 DEF TypeOK
<1>5. ASSUME NEW q \in QPs PROVE QPShape(q)'
  <2>1. Shape(policy, started'[q], nb_tx'[q], sq'[q].head, sq'[q].sig, 0, {}, size')
    <3>1. CASE q = qp_i
      <4>1. Shape(policy, started[q], nb_tx[q], old.head, old.sig, size, flags, size)
        BY <1>0, <3>1 DEF IInv, QPShape
      <4>2. Shape(policy, started[q], nb_tx[q], old.head + size, T, 0, {}, size')
        <5>1. started[q] \in BOOLEAN /\ nb_tx[q] \in 0..(UNSIG_BATCH - 1)
          BY <1>0
        <5>2. policy \in Policies /\ size \in Sizes[policy]
          BY <1>0
        <5> QED
          BY <1>3, <4>1, <5>1, <5>2, PostShape
      <4>3. sq'[q].head = old.head + size /\ sq'[q].sig = T
        BY <1>0, <1>1, <3>1
      <4> QED
        BY <1>1, <4>2, <4>3
    <3>2. CASE q # qp_i
      <4>1. Shape(policy, started[q], nb_tx[q], sq[q].head, sq[q].sig, 0, {}, size)
        BY <3>2 DEF IInv, QPShape
      <4>2. sq'[q] = sq[q]
        BY <1>0, <1>1, <3>2
      <4> QED
        BY <1>1, <4>1, <4>2, IdleShape
    <3> QED
      BY <3>1, <3>2
  <2> QED
    BY <1>1, <2>1 DEF QPShape
<1> QED
  BY <1>4, <1>5 DEF IInv, QPs

\* A step of the NIC moves none of the values the shape speaks of.
LEMMA NicStep == ASSUME IInv, NEW q \in QPs, NicExecute(q) PROVE IInv'
<1>0. /\ sq \in [QPs -> [head : Nat, done : Nat, sig : SUBSET Nat]]
      /\ \A r \in QPs : sq[r].done <= sq[r].head
  BY DEF IInv, TypeOK
<1>1. /\ sq[q].done < sq[q].head
      /\ sq' = [sq EXCEPT ![q] = [sq[q] EXCEPT !.done = sq[q].done + 1]]
      /\ UNCHANGED <<policy, nb_tx, started, qp_i, size, w_i, flags>>
  BY DEF NicExecute, CanExecute, ExecuteOne
<1>2. ASSUME NEW r \in QPs
      PROVE  /\ sq'[r].head = sq[r].head /\ sq'[r].sig = sq[r].sig
             /\ sq'[r].done <= sq'[r].head
  BY <1>0, <1>1
<1>3. sq' \in [QPs -> [head : Nat, done : Nat, sig : SUBSET Nat]]
  BY <1>0, <1>1
<1>4. TypeOK'
  BY <1>1, <1>2, <1>3 DEF IInv, TypeOK, QPs
<1>5. ASSUME NEW r \in QPs PROVE QPShape(r)'
  BY <1>1, <1>2 DEF IInv, QPShape
<1> QED
  BY <1>4, <1>5 DEF IInv, QPs

LEMMA NextIInv == ASSUME Admitted PROVE IInv /\ [Next]_vars => IInv'
<1> SUFFICES ASSUME IInv, [Next]_vars PROVE IInv'
  OBVIOUS
<1>1. CASE FillWr
  BY <1>1, FillWrStep
<1>2. CASE PostList
  BY <1>2, PostListStep
<1>3. CASE \E q \in QPs : NicExecute(q)
  BY <1>3, NicStep
<1>4. CASE Spin \/ UNCHANGED vars
  BY <1>4 DEF Spin, vars, IInv, TypeOK, QPShape, QPs
<1> QED
  BY <1>1, <1>2, <1>3, <1>4 DEF Next

\* What the invariant says of the queue pair the thread works on.
LEMMA IInvImplies ==
    ASSUME Admitted, IInv
    PROVE  PollFindsSignal /\ PostFits /\ UnackedBound /\ OneSignalOutstanding
<1> USE SignalAssumption
<1>0. /\ qp_i \in QPs /\ policy \in Policies /\ size \in Sizes[policy] /\ w_i \in 0..size
      /\ \A q \in QPs : /\ sq[q].head \in Nat /\ started[q] \in BOOLEAN
                        /\ nb_tx[q] \in 0..(UNSIG_BATCH - 1)
  BY DEF IInv, TypeOK
<1>1. ASSUME NEW q \in QPs
      PROVE  /\ sq[q].head + (IF q = qp_i THEN w_i ELSE 0) <= 2 * UNSIG_BATCH - 1
             /\ \A p, r \in sq[q].sig : p = r
  <2> DEFINE w == IF q = qp_i THEN w_i ELSE 0
             U == IF q = qp_i THEN flags ELSE {}
             S == sq[q].sig
             h == sq[q].head
  <2>1. Shape(policy, started[q], nb_tx[q], h, S, w, U, size)
    BY DEF IInv, QPShape
  <2>2. w \in 0..size /\ h \in Nat
    BY <1>0
  <2> HIDE DEF w, U, S, h
  <2>3. h + w <= 2 * UNSIG_BATCH - 1 /\ \A p, r \in S : p = r
    BY <1>0, <2>1, <2>2, ShapeBound
  <2> QED
    BY <2>3 DEF w, S, h
<1>2. UnackedBound /\ OneSignalOutstanding
  BY <1>1 DEF UnackedBound, OneSignalOutstanding
<1>3. PostFits
  BY <1>0, <1>1 DEF PostFits, WqOverflow, Admitted
<1>4. ASSUME w_i < size, MustPoll PROVE sq[qp_i].sig # {}
  <2>1. Polls(policy, started[qp_i], nb_tx[qp_i], w_i)
    BY <1>4 DEF MustPoll, PollNow, PollAhead, PollPrevious, Polls
  <2>2. Shape(policy, started[qp_i], nb_tx[qp_i], sq[qp_i].head, sq[qp_i].sig, w_i, flags, size)
    BY <1>0 DEF IInv, QPShape
  <2>3. w_i \in 0..(size - 1)
    BY <1>0, <1>4
  <2>4. PollRestores(policy, nb_tx[qp_i], sq[qp_i].head, sq[qp_i].sig, w_i, flags, size)
    BY <1>0, <2>1, <2>2, <2>3, PollShape
  <2> QED
    BY <2>4 DEF PollRestores
<1> QED
  BY <1>2, <1>3, <1>4 DEF PollFindsSignal

-----------------------------------------------------------------------------
\* With the postlist check and the queue capacity check of main(), the
\* invariant holds in every state of the send loop.
THEOREM Invariance == ASSUME Admitted PROVE Spec => []IInv
<1>1. Init => IInv
  BY InitIInv
<1>2. IInv /\ [Next]_vars => IInv'
  BY NextIInv
<1> QED
  BY <1>1, <1>2, PTL DEF Spec

\* The state of the send loop is well typed.
THEOREM TypeCorrect == ASSUME Admitted PROVE Spec => []TypeOK
<1>1. IInv => TypeOK
  BY DEF IInv
<1> QED
  BY <1>1, Invariance, PTL

\* hrd_poll_cq is entered only when the WR whose completion it waits for has
\* been posted, whatever the postlist sizes and the number of queue pairs.
THEOREM PollSafe == ASSUME Admitted PROVE Spec => []PollFindsSignal
<1>1. IInv => PollFindsSignal
  BY IInvImplies
<1> QED
  BY <1>1, Invariance, PTL

\* ibv_post_send never fails for want of room in the send queue.
THEOREM PostSafe == ASSUME Admitted PROVE Spec => []PostFits
<1>1. IInv => PostFits
  BY IInvImplies
<1> QED
  BY <1>1, Invariance, PTL

\* The README's bound: up to 2*UNSIG_BATCH-1 WRs un-ACKed per queue pair.
THEOREM Unacked == ASSUME Admitted PROVE Spec => []UnackedBound
<1>1. IInv => UnackedBound
  BY IInvImplies
<1> QED
  BY <1>1, Invariance, PTL

\* Every completion is polled in the cycle it belongs to.
THEOREM OneSignal == ASSUME Admitted PROVE Spec => []OneSignalOutstanding
<1>1. IInv => OneSignalOutstanding
  BY IInvImplies
<1> QED
  BY <1>1, Invariance, PTL

=============================================================================
