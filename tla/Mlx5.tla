-------------------------------- MODULE Mlx5 --------------------------------
(***************************************************************************)
(* The data path of the libmlx5 driver: send and receive queues, the       *)
(* shared receive queue, completion queues, and what modify_qp(RESET),     *)
(* destroy_qp and resize_cq do to them while other threads poll.           *)
(*                                                                         *)
(* The NIC shares memory with the driver.  It executes the WQEs of a send  *)
(* queue from its own index up to the doorbell, takes RECVs by index (RQ)  *)
(* or by following the links of the WQEs (SRQ), and writes CQEs at its     *)
(* producer index with the owner bit of that lap.  Actions run under the   *)
(* locks of the code: a poll, a clean and a resize hold their CQ's lock    *)
(* over several steps, with posts and the NIC interleaved.                 *)
(*                                                                         *)
(* sends and recvs record the requests the NIC has still to execute, and a *)
(* CQE carries in `id` the request it completes: the driver never reads    *)
(* these, they say what Verbs promises.                                    *)
(***************************************************************************)
EXTENDS Integers, Sequences, SequencesExt, FiniteSets, FiniteSetsExt

CONSTANTS QPs, CQs, Srq, NoQp,
          cqn,                \* the number of each CQ
          SqCnt, MaxBB,       \* basic blocks of a send queue, and of one WQE
          RqCnt,              \* WQEs of a receive queue
          SrqMax,             \* WQEs of the shared receive queue
          CqSizes,            \* entries a CQ may be given
          Wrap,               \* what queue indices and counters wrap at
          NumPoll,            \* CQEs asked of one poll
          Lists,              \* the postlists of send WRs to explore
          MaxRecvs,           \* RECVs of one postlist
          Scenarios           \* configurations and bounds to explore

\* The CQs of each QP, the QPs that receive from the SRQ, how CQEs name their
\* resource, and whether requests may fail.
Configurations == [send_cq : [QPs -> CQs], recv_cq : [QPs -> CQs],
                   srq_users : SUBSET QPs, cqe_version : {0, 1},
                   faulty : BOOLEAN]

ASSUME Numbers == \A c, d \in CQs : cqn[c] = cqn[d] => c = d

ASSUME Inputs ==
  /\ \A l \in Lists : l \in Seq([sig : BOOLEAN, bb : 1..MaxBB])
  /\ \A s \in Scenarios : s.conf \in Configurations

ASSUME PowersOfTwo == /\ Wrap % (2 * SqCnt) = 0 /\ Wrap % (2 * RqCnt) = 0
                      /\ Wrap % (2 * SrqMax) = 0 /\ SqCnt >= MaxBB
                      /\ \A n \in CqSizes : n > 1 /\ Wrap % (2 * n) = 0

VARIABLES conf,         \* what was set up: see Configurations
          qp,           \* per QP: mode, what thread is at (pc), generation
          sq, rq,       \* per QP: indices and wrid arrays
          srq,          \* the shared receive queue
          cq,           \* per CQ: ring, indices, lock
          poll,         \* per CQ: the poll_cq call under way
          nic,          \* per QP: the NIC's send and receive indices
          snic,         \* the NIC's place in the SRQ
          sends, recvs, \* what the NIC has still to execute
          wc,           \* the last completion a poll returned
          budget        \* what is left of the bounds

vars == <<conf, qp, sq, rq, srq, cq, poll, nic, snic,
          sends, recvs, wc, budget>>

send_cq(q) == conf.send_cq[q]
recv_cq(q) == conf.recv_cq[q]
UsesSrq(q) == q \in conf.srq_users

Add(a, b) == (a + b) % Wrap
Sub(a, b) == (a - b) % Wrap

\* calc_sq_size: as many WQEs as fit when each has the largest size.
max_post == SqCnt \div MaxBB

NoWqe == [id |-> <<0, 0>>, sig |-> FALSE, bb |-> 1, head |-> 0]

NoCqe == [op |-> "INVALID", own |-> 0, qp |-> NoQp, srqn |-> FALSE,
          ctr |-> 0, id |-> <<0, 0>>]

\* mlx5_init_qp_indices; the wrid arrays keep their old contents.
InitSq(s) == [s EXCEPT !.head = 0, !.tail = 0, !.cur = 0]

InitRq(r) == [r EXCEPT !.head = 0, !.tail = 0]

\* The bit of the index above the ring's mask.
OwnerBit(i, n) == (i \div n) % 2

\* A ring fresh from mlx5_alloc_cq_buf: every entry is INVALID.
CqBuf(n) == [i \in 0..(n - 1) |-> NoCqe]

\* resize_buf is NULL: no resize is under way.
NoRing == [n |-> 0, buf |-> <<>>]

NoWc == [qp |-> Srq, op |-> "NONE", id |-> <<0, 0>>]

Idle == [on |-> FALSE, left |-> 0, rsc |-> NoQp, srq |-> FALSE]

\* mlx5_alloc_srq_buf: every WQE is linked into the free list.
SrqBuf == [head |-> 0, tail |-> SrqMax - 1, counter |-> 0,
           next |-> [i \in 0..(SrqMax - 1) |-> (i + 1) % SrqMax],
           wrid |-> [i \in 0..(SrqMax - 1) |-> <<0, 0>>]]

\* An idle ring whose next index is b: fresh, or with the last lap's entries.
IdleBuf(n, b) ==
  [i \in 0..(n - 1) |->
     IF b = 0 THEN CqBuf(n)[i]
     ELSE LET k == CHOOSE k \in (b - n)..(b - 1) : k % n = i
          IN [NoCqe EXCEPT !.op = "REQ", !.own = OwnerBit(k, n)]]

\* Idle queues, just created or after any number of completed requests.
InitAt(b) ==
  /\ sq = [q \in QPs |-> [head |-> b, tail |-> b, cur |-> b,
                          w |-> [i \in 0..(SqCnt - 1) |-> NoWqe]]]
  /\ rq = [q \in QPs |-> [head |-> b, tail |-> b,
                          wrid |-> [i \in 0..(RqCnt - 1) |-> <<0, 0>>]]]
  /\ srq = [SrqBuf EXCEPT !.counter = b]
  /\ cq = [c \in CQs |-> [n |-> Max(CqSizes), buf |-> IdleBuf(Max(CqSizes), b),
                          cons |-> b, ci |-> b, prod |-> b, lock |-> NoQp,
                          resize |-> NoRing]]
  /\ nic = [q \in QPs |-> [sq |-> b, rq |-> b]]
  /\ snic = [head |-> 0, taken |-> b]

Init ==
  /\ \E s \in Scenarios : /\ conf = s.conf
                           /\ budget = s.budget
                           /\ InitAt(s.start)
  /\ qp = [q \in QPs |-> [mode |-> "RTS", pc |-> "idle", gen |-> 0,
                          scan |-> 0, known |-> TRUE]]
  /\ poll = [c \in CQs |-> Idle]
  /\ sends = [q \in QPs |-> <<>>]
  /\ recvs = [r \in QPs \cup {Srq} |-> <<>>]
  /\ wc = NoWc

Resizing(c) == cq[c].resize # NoRing

\* cq->lock is held by a poll_cq call, by resize_cq, or by the thread that
\* resets or destroys the QP `lock`.
Unlocked(c) == ~ poll[c].on /\ ~ Resizing(c) /\ cq[c].lock = NoQp

----------------------------------------------------------------------------
(* Posting. *)

\* Mutant: one request more than max_post.
wq_overflow_late(wq, nreq, max) == Sub(wq.head, wq.tail) + nreq > max

\* mlx5_wq_overflow, with nreq requests of the list posted and head still old.
wq_overflow(wq, nreq, max) == Sub(wq.head, wq.tail) + nreq >= max

\* The slow path of the test waits for the lock of the QP's send CQ, for
\* either queue.
MayTest(q, over) == over => Unlocked(send_cq(q))

\* One WQE of bb basic blocks at scur_post; wqe_head remembers its number.
PostSendOne(q, s, nreq, wr) ==
  [s EXCEPT !.cur = Add(@, wr.bb),
            !.w = [i \in DOMAIN @ |->
                     IF Sub(i, s.cur) % SqCnt < wr.bb
                     THEN [id |-> wr.id, sig |-> wr.sig, bb |-> wr.bb,
                           head |-> Add(s.head, nreq)]
                     ELSE @[i]]]

\* __mlx5_post_send under sq.lock: the WRs up to the first that overflows.
PostSend(q, wrs) ==
  LET fits == Max({n \in 0..Len(wrs) :
                     n = 0 \/ ~ wq_overflow(sq[q], n - 1, max_post)})
      list == [i \in 1..fits |->
                 [id |-> <<qp[q].gen, Add(sq[q].head, i - 1)>>,
                  sig |-> wrs[i].sig, bb |-> wrs[i].bb]]
      s == FoldLeft(LAMBDA a, i : PostSendOne(q, a, i - 1, list[i]),
                    sq[q], [i \in 1..fits |-> i])
  IN /\ qp[q].mode \in {"RTS", "ERR"} /\ qp[q].pc = "idle"
     /\ Len(wrs) <= budget.send
     /\ MayTest(q, fits < Len(wrs))
     /\ sq' = [sq EXCEPT ![q] = [s EXCEPT !.head = Add(@, fits)]]
     /\ sends' = [sends EXCEPT ![q] = @ \o
                    [i \in 1..fits |-> [id |-> list[i].id, sig |-> list[i].sig]]]
     /\ budget' = [budget EXCEPT !.send = @ - fits]
     /\ UNCHANGED <<conf, qp, rq, srq, cq, poll,
                    nic, snic, recvs, wc>>

\* mlx5_post_recv under rq.lock.
PostRecv(q, n) ==
  LET fits == Max({k \in 0..n : k = 0 \/ ~ wq_overflow(rq[q], k - 1, RqCnt)})
      id(i) == <<qp[q].gen, Add(rq[q].head, i - 1)>>
  IN /\ qp[q].mode \in {"RTS", "ERR"} /\ qp[q].pc = "idle"
     /\ ~ UsesSrq(q)
     /\ n <= budget.recv
     /\ MayTest(q, fits < n)
     /\ rq' = [rq EXCEPT ![q].head = Add(@, fits),
                         ![q].wrid = [j \in DOMAIN @ |->
                            LET i == (Sub(j, rq[q].head) % RqCnt) + 1
                            IN IF i <= fits THEN id(i) ELSE @[j]]]
     /\ recvs' = [recvs EXCEPT ![q] = @ \o [i \in 1..fits |-> id(i)]]
     /\ budget' = [budget EXCEPT !.recv = @ - fits]
     /\ UNCHANGED <<conf, qp, sq, srq, cq, poll,
                    nic, snic, sends, wc>>

\* Mutant: the counter is wider than the doorbell record.
PostSrqOneWide(s) ==
  IF s.head = s.tail THEN s
  ELSE [s EXCEPT !.wrid[s.head] = <<0, s.counter>>,
                 !.head = s.next[s.head],
                 !.counter = @ + 1]

\* mlx5_post_srq_recv for one WR: the head of the free list, unless it is the
\* last one.
PostSrqOne(s) ==
  IF s.head = s.tail THEN s
  ELSE [s EXCEPT !.wrid[s.head] = <<0, s.counter>>,
                 !.head = s.next[s.head],
                 !.counter = Add(@, 1)]

PostSrqRecv(n) ==
  LET s == FoldLeft(LAMBDA a, i : PostSrqOne(a), srq, [i \in 1..n |-> i])
      fits == Sub(s.counter, srq.counter)
  IN /\ conf.srq_users # {}
     /\ n <= budget.srq
     /\ srq' = s
     /\ recvs' = [recvs EXCEPT ![Srq] = @ \o
                    [i \in 1..fits |-> <<0, Add(srq.counter, i - 1)>>]]
     /\ budget' = [budget EXCEPT !.srq = @ - fits]
     /\ UNCHANGED <<conf, qp, sq, rq, cq, poll,
                    nic, snic, sends, wc>>

----------------------------------------------------------------------------
(* The NIC. *)

\* The application asked for n - 1 entries and never has more outstanding
\* (the extra one is for resize_cq); the NIC knows what the doorbell record
\* says was consumed.  During a resize the new size counts, and the RESIZE_CQ
\* entry does not.
Room(c) ==
  IF Resizing(c) THEN Sub(cq[c].prod, cq[c].ci) < cq[c].resize.n
                 ELSE Sub(cq[c].prod, cq[c].ci) < cq[c].n - 1

\* Entry e at the producer index of ring r, with the owner bit of its lap.
WriteTo(r, prod, e) ==
  [r EXCEPT !.buf[prod % r.n] = [e EXCEPT !.own = OwnerBit(prod, r.n)]]

\* From the resize command on the NIC writes to the new ring.
NicWrite(c, e) ==
  LET k == IF Resizing(c)
           THEN [cq[c] EXCEPT !.resize = WriteTo(@, cq[c].prod, e)]
           ELSE WriteTo(cq[c], cq[c].prod, e)
  IN cq' = [cq EXCEPT ![c] = [k EXCEPT !.prod = Add(@, 1)]]

\* The next WQE of q is executed.  A failure puts the QP in error, where all
\* that is posted is flushed with an error each.
NicSend(q, fail) ==
  LET w == sq[q].w[nic[q].sq % SqCnt]
  IN /\ qp[q].mode \in {"RTS", "ERR"}
     /\ nic[q].sq # sq[q].cur
     /\ fail => conf.faulty
     /\ qp[q].mode = "ERR" => fail
     /\ nic' = [nic EXCEPT ![q].sq = Add(@, w.bb)]
     /\ sends' = [sends EXCEPT ![q] = Tail(@)]
     /\ IF w.sig \/ fail
        THEN /\ Room(send_cq(q))
             /\ NicWrite(send_cq(q),
                  [NoCqe EXCEPT !.op = IF fail THEN "REQ_ERR" ELSE "REQ",
                                !.qp = q, !.ctr = nic[q].sq, !.id = w.id])
        ELSE UNCHANGED cq
     /\ qp' = [qp EXCEPT ![q].mode = IF fail THEN "ERR" ELSE @]
     /\ UNCHANGED <<conf, sq, rq, srq, poll, snic,
                    recvs, wc, budget>>

RecvCqe(q, fail, ctr, id) ==
  [NoCqe EXCEPT !.op = IF fail THEN "RESP_ERR" ELSE "RESP", !.qp = q,
                !.srqn = conf.cqe_version = 0 /\ UsesSrq(q),
                !.ctr = ctr, !.id = id]

\* A message for q, or a flush, takes the next RECV of its own queue.
NicRecv(q, fail) ==
  /\ qp[q].mode \in {"RTS", "ERR"} /\ ~ UsesSrq(q)
  /\ nic[q].rq # rq[q].head
  /\ fail => conf.faulty
  /\ qp[q].mode = "ERR" => fail
  /\ Room(recv_cq(q))
  /\ NicWrite(recv_cq(q),
       RecvCqe(q, fail, nic[q].rq, rq[q].wrid[nic[q].rq % RqCnt]))
  /\ nic' = [nic EXCEPT ![q].rq = Add(@, 1)]
  /\ recvs' = [recvs EXCEPT ![q] = Tail(@)]
  /\ qp' = [qp EXCEPT ![q].mode = IF fail THEN "ERR" ELSE @]
  /\ UNCHANGED <<conf, sq, rq, srq, poll, snic,
                 sends, wc, budget>>

\* A message for q takes the WQE the NIC has come to in the shared queue, and
\* the NIC follows that WQE's link.  A QP in error takes none.
NicRecvSrq(q, fail) ==
  /\ qp[q].mode = "RTS" /\ UsesSrq(q)
  /\ snic.taken # srq.counter
  /\ fail => conf.faulty
  /\ Room(recv_cq(q))
  /\ NicWrite(recv_cq(q), RecvCqe(q, fail, snic.head, srq.wrid[snic.head]))
  /\ snic' = [head |-> srq.next[snic.head], taken |-> Add(snic.taken, 1)]
  /\ recvs' = [recvs EXCEPT ![Srq] = Tail(@)]
  /\ qp' = [qp EXCEPT ![q].mode = IF fail THEN "ERR" ELSE @]
  /\ UNCHANGED <<conf, sq, rq, srq, poll, nic,
                 sends, wc, budget>>

----------------------------------------------------------------------------
(* Polling. *)

\* get_sw_cqe: the entry for index i was written in this lap.
SwOwned(c, i) == LET e == cq[c].buf[i % cq[c].n]
                 IN e.op # "INVALID" /\ e.own = OwnerBit(i, cq[c].n)

is_requestor(op) == op \in {"REQ", "REQ_ERR"}

is_responder(op) == op \in {"RESP", "RESP_ERR"}

\* mlx5_free_srq_wqe: WQE ind is linked behind the tail of the free list.
FreeSrqWqe(s, ind) == [s EXCEPT !.next[s.tail] = ind, !.tail = ind]

PollStart(c) ==
  /\ Unlocked(c)
  /\ poll' = [poll EXCEPT ![c] = [Idle EXCEPT !.on = TRUE, !.left = NumPoll]]
  /\ UNCHANGED <<conf, qp, sq, rq, srq, cq, nic,
                 snic, sends, recvs, wc, budget>>

\* A good responder CQE is charged to the SRQ when it names one itself; an
\* error to the SRQ that this call, poll_cq, last met.
ChargeSrq(c, e) ==
  LET is_srq == /\ is_responder(e.op)
                /\ IF conf.cqe_version = 1 THEN UsesSrq(e.qp) ELSE e.srqn
  IN is_srq \/ (e.op = "RESP_ERR" /\ poll[c].srq)

\* What the poll hands to the application for CQE e.
Report(e, id) == wc' = [qp |-> e.qp, op |-> e.op, id |-> id]

\* handle_responder, and the same for errors: the RECV is the SRQ WQE that the
\* CQE names, which is free again, or the one at the tail of the QP's RQ.
HandleResponder(e, charge) ==
  \/ /\ charge
     /\ Report(e, srq.wrid[e.ctr])
     /\ srq' = FreeSrqWqe(srq, e.ctr)
     /\ UNCHANGED rq
  \/ /\ ~ charge
     /\ Report(e, rq[e.qp].wrid[rq[e.qp].tail % RqCnt])
     /\ rq' = [rq EXCEPT ![e.qp].tail = Add(@, 1)]
     /\ UNCHANGED srq

\* Mutant: the slot is counted in WQEs, not found from the CQE's wqe_counter.
HandleRequestorByTail(e) ==
  LET idx == sq[e.qp].tail % SqCnt
  IN /\ Report(e, sq[e.qp].w[idx].id)
     /\ sq' = [sq EXCEPT ![e.qp].tail = Add(sq[e.qp].w[idx].head, 1)]

\* A send completed, and with it all unsignaled ones before it: wqe_head
\* gives the number of the WQE in the slot that wqe_counter names.
HandleRequestor(e) ==
  LET idx == e.ctr % SqCnt
  IN /\ Report(e, sq[e.qp].w[idx].id)
     /\ sq' = [sq EXCEPT ![e.qp].tail = Add(sq[e.qp].w[idx].head, 1)]

\* mlx5_poll_one, by the CQE's opcode.
Complete(c, e) ==
  \/ is_requestor(e.op) /\ HandleRequestor(e) /\ UNCHANGED <<rq, srq>>
  \/ is_responder(e.op) /\ HandleResponder(e, ChargeSrq(c, e)) /\ UNCHANGED sq

\* One turn of the loop of poll_cq that finds a CQE.  A QP that is not known
\* ends the call with CQ_POLL_ERR, unless the CQE names the SRQ; the CQE is
\* gone all the same.
PollOne(c) ==
  LET e == cq[c].buf[cq[c].cons % cq[c].n]
      found == poll[c].rsc = e.qp \/ qp[e.qp].known
  IN /\ poll[c].on /\ poll[c].left > 0 /\ SwOwned(c, cq[c].cons)
     /\ cq' = [cq EXCEPT ![c].cons = Add(@, 1)]
     /\ IF found \/ e.srqn
        THEN /\ Complete(c, e)
             /\ poll' = [poll EXCEPT ![c] =
                   [@ EXCEPT !.left = @ - 1, !.rsc = IF found THEN e.qp ELSE NoQp,
                             !.srq = @ \/ (is_responder(e.op) /\ ChargeSrq(c, e))]]
        ELSE /\ poll' = [poll EXCEPT ![c].left = 0]
             /\ UNCHANGED <<sq, rq, srq, wc>>
     /\ UNCHANGED <<conf, qp, nic, snic, sends,
                    recvs, budget>>

\* The loop is done, or the CQ empty: mlx5_update_cons_index, unlock.
PollEnd(c) ==
  /\ poll[c].on
  /\ poll[c].left = 0 \/ ~ SwOwned(c, cq[c].cons)
  /\ cq' = [cq EXCEPT ![c].ci = cq[c].cons]
  /\ poll' = [poll EXCEPT ![c] = Idle]
  /\ UNCHANGED <<conf, qp, sq, rq, srq, nic, snic,
                 sends, recvs, wc, budget>>

----------------------------------------------------------------------------
(* Removing a QP's completions, and resizing. *)

\* Mutant: the scan gives up one entry early.
ProdIndexShort(c) ==
  Add(cq[c].cons, Min({d \in 0..(cq[c].n - 1) :
                         \/ d = cq[c].n - 2
                         \/ ~ SwOwned(c, Add(cq[c].cons, d))}))

\* __mlx5_cq_clean, first loop: where software ownership ends.
ProdIndex(c) ==
  Add(cq[c].cons, Min({d \in 0..(cq[c].n - 1) :
                         \/ d = cq[c].n - 1
                         \/ ~ SwOwned(c, Add(cq[c].cons, d))}))

\* Mutant: a send's CQE is taken to hold a WQE of the SRQ too.
HoldsSrqWqeAlways(e) == TRUE

\* free_res_cqe: whether a removed CQE of a QP that uses the SRQ (srq # NULL)
\* gives an SRQ WQE back.
HoldsSrqWqe(e) == IF conf.cqe_version = 1 THEN is_responder(e.op) ELSE e.srqn

\* Mutant: a moved entry brings its owner bit along.
SweepOneRaw(a, i, n, q, hasSrq) ==
  LET e == a.buf[i % n]
      d == (i + a.nfreed) % n
  IN IF e.qp = q
     THEN [a EXCEPT !.nfreed = @ + 1,
                    !.srq = IF hasSrq /\ HoldsSrqWqe(e)
                            THEN FreeSrqWqe(@, e.ctr) ELSE @]
     ELSE [a EXCEPT !.buf[d] = e]

\* __mlx5_cq_clean, second loop, on entry i: q's are dropped, the others move
\* up over them and keep the owner bit of their new place.
SweepOne(a, i, n, q, hasSrq) ==
  LET e == a.buf[i % n]
      d == (i + a.nfreed) % n
  IN IF e.qp = q
     THEN [a EXCEPT !.nfreed = @ + 1,
                    !.srq = IF hasSrq /\ HoldsSrqWqe(e)
                            THEN FreeSrqWqe(@, e.ctr) ELSE @]
     ELSE [a EXCEPT !.buf[d] = [e EXCEPT !.own = a.buf[d].own]]

\* The sweep from the entry before prod back to cons, on ring k and SRQ s.
Sweep(k, prod, q, hasSrq, s) ==
  LET len == Sub(prod, k.cons)
      a == FoldLeft(LAMBDA b, j : SweepOne(b, Add(k.cons, len - j), k.n, q, hasSrq),
                    [buf |-> k.buf, nfreed |-> 0, srq |-> s],
                    [j \in 1..len |-> j])
      cons == Add(k.cons, a.nfreed)
  IN [cq |-> [k EXCEPT !.buf = a.buf, !.cons = cons,
                       !.ci = IF a.nfreed > 0 THEN cons ELSE @],
      srq |-> a.srq]

\* The kernel takes QP q out of service: the NIC forgets its queues.
TakeDown(q, mode, pc) ==
  /\ qp[q].pc = "idle" /\ budget.ctl > 0
  /\ budget' = [budget EXCEPT !.ctl = @ - 1]
  /\ qp' = [qp EXCEPT ![q].mode = mode, ![q].pc = pc]
  /\ nic' = [nic EXCEPT ![q] = [sq |-> 0, rq |-> 0]]
  /\ sends' = [sends EXCEPT ![q] = <<>>]
  /\ recvs' = [recvs EXCEPT ![q] = <<>>]
  /\ UNCHANGED <<conf, sq, rq, srq, cq, poll, snic,
                 wc>>

\* mlx5_modify_qp to RESET: the receive CQ is cleaned, then the send CQ, then
\* the indices start again.
ModifyReset(q) == /\ qp[q].mode \in {"RTS", "ERR"}
                  /\ TakeDown(q, "RESET", "clean_recv")

CleanScan(q) ==
  LET c == IF qp[q].pc = "clean_recv" THEN recv_cq(q) ELSE send_cq(q)
  IN /\ qp[q].pc \in {"clean_recv", "clean_send"}
     /\ Unlocked(c)
     /\ cq' = [cq EXCEPT ![c].lock = q]
     /\ qp' = [qp EXCEPT ![q].scan = ProdIndex(c),
                         ![q].pc = IF @ = "clean_recv" THEN "sweep_recv"
                                                       ELSE "sweep_send"]
     /\ UNCHANGED <<conf, sq, rq, srq, poll, nic,
                    snic, sends, recvs, wc, budget>>

CleanSweep(q) ==
  LET recv == qp[q].pc = "sweep_recv"
      c == IF recv THEN recv_cq(q) ELSE send_cq(q)
      r == Sweep(cq[c], qp[q].scan, q, recv /\ UsesSrq(q), srq)
      more == recv /\ send_cq(q) # recv_cq(q)
  IN /\ qp[q].pc \in {"sweep_recv", "sweep_send"}
     /\ cq' = [cq EXCEPT ![c] = [r.cq EXCEPT !.lock = NoQp]]
     /\ srq' = r.srq
     /\ qp' = [qp EXCEPT ![q].scan = 0,
                         ![q].pc = IF more THEN "clean_send" ELSE "idle"]
     /\ sq' = IF more THEN sq ELSE [sq EXCEPT ![q] = InitSq(@)]
     /\ rq' = IF more THEN rq ELSE [rq EXCEPT ![q] = InitRq(@)]
     /\ UNCHANGED <<conf, poll, nic, snic, sends,
                    recvs, wc, budget>>

\* The application brings a reset QP to RTS again.
Connect(q) == /\ qp[q].mode = "RESET" /\ qp[q].pc = "idle"
              /\ qp' = [qp EXCEPT ![q].mode = "RTS", ![q].gen = @ + 1]
              /\ UNCHANGED <<conf, sq, rq, srq, cq,
                             poll, nic, snic, sends, recvs, wc, budget>>

\* What a thread in mlx5_destroy_qp may be at.
DestroyPcs == {"lock1", "lock2", "scan_recv", "drop_recv", "scan_send", "drop_send"}

\* rsc_table_mutex, which only CQE version 0 takes.
RscTableFree == conf.cqe_version = 0 => \A q \in QPs : qp[q].pc \notin DestroyPcs

DestroyQp(q) == /\ qp[q].mode # "GONE"
                /\ RscTableFree
                /\ TakeDown(q, "GONE", "lock1")

\* Mutant: the send CQ is always locked first.
FirstCqSend(q) == send_cq(q)

\* mlx5_lock_cqs: one lock if the CQs are the same, else that of the smaller
\* number first.
FirstCq(q) == IF cqn[send_cq(q)] < cqn[recv_cq(q)] THEN send_cq(q)
                                                  ELSE recv_cq(q)

SecondCq(q) == IF FirstCq(q) = send_cq(q) THEN recv_cq(q) ELSE send_cq(q)

LockCq(q) ==
  LET c == IF qp[q].pc = "lock1" THEN FirstCq(q) ELSE SecondCq(q)
  IN /\ qp[q].pc \in {"lock1", "lock2"}
     /\ Unlocked(c)
     /\ cq' = [cq EXCEPT ![c].lock = q]
     /\ qp' = [qp EXCEPT ![q].pc =
                 IF @ = "lock1" /\ send_cq(q) # recv_cq(q) THEN "lock2"
                                                           ELSE "scan_recv"]
     /\ UNCHANGED <<conf, sq, rq, srq, poll, nic,
                    snic, sends, recvs, wc, budget>>

\* With the locks held the receive CQ is cleaned, then the send CQ if it is
\* another, while the NIC goes on writing to both.
DestroyScan(q) ==
  LET c == IF qp[q].pc = "scan_recv" THEN recv_cq(q) ELSE send_cq(q)
  IN /\ qp[q].pc \in {"scan_recv", "scan_send"}
     /\ qp' = [qp EXCEPT ![q].scan = ProdIndex(c),
                         ![q].pc = IF @ = "scan_recv" THEN "drop_recv"
                                                      ELSE "drop_send"]
     /\ UNCHANGED <<conf, sq, rq, srq, cq, poll, nic,
                    snic, sends, recvs, wc, budget>>

\* After the last sweep the QP leaves the table and the locks are released.
DestroySweep(q) ==
  LET recv == qp[q].pc = "drop_recv"
      c == IF recv THEN recv_cq(q) ELSE send_cq(q)
      r == Sweep(cq[c], qp[q].scan, q, recv /\ UsesSrq(q), srq)
      more == recv /\ send_cq(q) # recv_cq(q)
      swept == [cq EXCEPT ![c] = r.cq]
  IN /\ qp[q].pc \in {"drop_recv", "drop_send"}
     /\ cq' = IF more THEN swept
              ELSE [d \in CQs |-> IF d \in {send_cq(q), recv_cq(q)}
                                  THEN [swept[d] EXCEPT !.lock = NoQp]
                                  ELSE swept[d]]
     /\ srq' = r.srq
     /\ qp' = [qp EXCEPT ![q].scan = 0, ![q].known = more,
                         ![q].pc = IF more THEN "scan_send" ELSE "idle"]
     /\ UNCHANGED <<conf, sq, rq, poll, nic, snic,
                    sends, recvs, wc, budget>>

\* create_qp for the slot of a destroyed QP: fresh indices, in the table.
CreateQp(q) == /\ qp[q].mode = "GONE" /\ qp[q].pc = "idle"
               /\ RscTableFree
               /\ qp' = [qp EXCEPT ![q].mode = "RESET", ![q].known = TRUE]
               /\ sq' = [sq EXCEPT ![q] = InitSq(@)]
               /\ rq' = [rq EXCEPT ![q] = InitRq(@)]
               /\ UNCHANGED <<conf, srq, cq, poll,
                              nic, snic, sends, recvs, wc, budget>>

\* mlx5_resize_cq up to the command: with the lock taken and a new ring
\* allocated, the NIC ends the old ring with a RESIZE_CQ entry.
ResizeCq(c, n) ==
  /\ Unlocked(c) /\ budget.ctl > 0
  /\ n # cq[c].n /\ Sub(cq[c].prod, cq[c].cons) < n
  /\ LET old == WriteTo(cq[c], cq[c].prod, [NoCqe EXCEPT !.op = "RESIZE_CQ"])
     IN cq' = [cq EXCEPT ![c] = [old EXCEPT !.prod = Add(@, 1),
                                            !.resize = [n |-> n, buf |-> CqBuf(n)]]]
  /\ budget' = [budget EXCEPT !.ctl = @ - 1]
  /\ UNCHANGED <<conf, qp, sq, rq, srq, poll,
                 nic, snic, sends, recvs, wc>>

\* mlx5_cq_resize_copy_cqes, one turn: entry d of ring k goes one place later
\* in the new ring, with the owner bit of that place.
ResizeCopyOne(new, k, d) ==
  LET i == Add(k.cons, d + 1)
  IN [new EXCEPT ![i % k.resize.n] =
        [k.buf[(k.cons + d) % k.n] EXCEPT !.own = OwnerBit(i, k.resize.n)]]

\* The copy, up to the RESIZE_CQ entry, which it steps over, or to the first
\* entry in hardware ownership ("expected cqe in sw ownership").
ResizeCopyCqes(k) ==
  LET entry(d) == k.buf[(k.cons + d) % k.n]
      is_hw(d) == entry(d).own # OwnerBit(Add(k.cons, d), k.n)
      stop == Min({d \in 0..k.n : is_hw(d) \/ entry(d).op = "RESIZE_CQ"})
  IN [k EXCEPT !.resize.buf = FoldLeft(LAMBDA b, d : ResizeCopyOne(b, k, d - 1),
                                       @, [d \in 1..stop |-> d]),
               !.cons = IF is_hw(stop) THEN @ ELSE Add(@, 1)]

\* mlx5_resize_cq after the command: the copy, the new ring made the active
\* one, mlx5_update_cons_index, unlock.
ResizeCopy(c) ==
  LET k == ResizeCopyCqes(cq[c])
  IN /\ Resizing(c)
     /\ cq' = [cq EXCEPT ![c] = [k EXCEPT !.n = k.resize.n, !.buf = k.resize.buf,
                                          !.ci = k.cons, !.resize = NoRing]]
     /\ UNCHANGED <<conf, qp, sq, rq, srq, poll, nic,
                    snic, sends, recvs, wc, budget>>

----------------------------------------------------------------------------
Next ==
  \/ \E q \in QPs : \/ \E wrs \in Lists : PostSend(q, wrs)
                    \/ \E n \in 1..MaxRecvs : PostRecv(q, n)
                    \/ \E fail \in BOOLEAN : \/ NicSend(q, fail)
                                             \/ NicRecv(q, fail)
                                             \/ NicRecvSrq(q, fail)
                    \/ ModifyReset(q) \/ CleanScan(q) \/ CleanSweep(q)
                    \/ Connect(q) \/ DestroyQp(q) \/ LockCq(q)
                    \/ DestroyScan(q) \/ DestroySweep(q) \/ CreateQp(q)
  \/ \E n \in 1..MaxRecvs : PostSrqRecv(n)
  \/ \E c \in CQs : \/ PollStart(c)
                    \/ PollOne(c) \/ PollEnd(c)
                    \/ \E n \in CqSizes : ResizeCq(c, n)
                    \/ ResizeCopy(c)

Spec == Init /\ [][Next]_vars

----------------------------------------------------------------------------
(* Properties. *)

Ids == Nat \X (0..(Wrap - 1))
Index == 0..(Wrap - 1)
Cqes == [op : {"INVALID", "REQ", "REQ_ERR", "RESP", "RESP_ERR", "RESIZE_CQ"}, own : 0..1,
         qp : QPs \cup {NoQp}, srqn : BOOLEAN, ctr : Index, id : Ids]

\* The type invariant.
TypeOK ==
  /\ conf \in Configurations
  /\ qp \in [QPs -> [mode : {"RTS", "ERR", "RESET", "GONE"},
                     pc : {"idle", "clean_recv", "sweep_recv", "clean_send",
                           "sweep_send"} \cup DestroyPcs,
                     gen : Nat, scan : Index, known : BOOLEAN]]
  /\ sq \in [QPs -> [head : Index, tail : Index, cur : Index,
                     w : [0..(SqCnt - 1) -> [id : Ids, sig : BOOLEAN,
                                             bb : 1..MaxBB, head : Index]]]]
  /\ rq \in [QPs -> [head : Index, tail : Index, wrid : [0..(RqCnt - 1) -> Ids]]]
  /\ srq \in [head : 0..(SrqMax - 1), tail : 0..(SrqMax - 1), counter : Index,
              next : [0..(SrqMax - 1) -> 0..(SrqMax - 1)],
              wrid : [0..(SrqMax - 1) -> Ids]]
  /\ \A c \in CQs : /\ cq[c].n \in CqSizes
                    /\ cq[c].buf \in [0..(cq[c].n - 1) -> Cqes]
                    /\ {cq[c].cons, cq[c].ci, cq[c].prod} \subseteq Index
                    /\ cq[c].lock \in QPs \cup {NoQp}
                    /\ Resizing(c) => LET r == cq[c].resize
                                      IN /\ r.n \in CqSizes
                                         /\ r.buf \in [0..(r.n - 1) -> Cqes]
  /\ poll \in [CQs -> [on : BOOLEAN, left : 0..NumPoll,
                       rsc : QPs \cup {NoQp}, srq : BOOLEAN]]
  /\ nic \in [QPs -> [sq : Index, rq : Index]]
  /\ snic \in [head : 0..(SrqMax - 1), taken : Index]
  /\ budget \in [send : Nat, recv : Nat, srq : Nat, ctl : Nat]

\* The entries the NIC has written and no poll or clean has consumed; during
\* a resize, those before the RESIZE_CQ entry and those of the new ring.
Unread(c) ==
  LET k == cq[c]
      len == Sub(k.prod, k.cons)
      old(j) == k.buf[(k.cons + j - 1) % k.n]
  IN IF ~ Resizing(c) THEN [j \in 1..len |-> old(j)]
     ELSE LET last == Min({j \in 1..k.n : old(j).op = "RESIZE_CQ"})
          IN [j \in 1..(len - 1) |->
                IF j < last THEN old(j) ELSE k.resize.buf[(k.cons + j) % k.resize.n]]

\* No WQE is written over while the NIC may still read it: walking the send
\* queue from where the NIC is, the WQEs are those posted, in order, each
\* whole, and the walk ends at the doorbell.  mlx5_wq_overflow counts WQEs
\* since the last polled completion, while the ring holds basic blocks.
RECURSIVE WqesAre(_, _, _)
WqesAre(q, at, list) ==
  IF list = <<>> THEN at = sq[q].cur
  ELSE LET w == sq[q].w[at % SqCnt]
       IN /\ w.id = Head(list).id
          /\ \A i \in 0..(w.bb - 1) : sq[q].w[(at + i) % SqCnt] = w
          /\ WqesAre(q, Add(at, w.bb), Tail(list))

SendsIntact ==
  \A q \in QPs : qp[q].mode \in {"RTS", "ERR"} => WqesAre(q, nic[q].sq, sends[q])

\* The WQEs of the shared receive queue met from WQE i over n links.
RECURSIVE Chain(_, _)
Chain(i, n) == IF n = 0 THEN <<>> ELSE <<i>> \o Chain(srq.next[i], n - 1)

\* SRQ WQEs whose completion nobody has consumed.
Held == {<<c, j>> \in CQs \X (0..(Wrap - 1)) :
           /\ j + 1 \in DOMAIN Unread(c)
           /\ LET e == Unread(c)[j + 1]
              IN is_responder(e.op) /\ UsesSrq(e.qp)}

\* Every WQE of the SRQ is in one place: waiting for the NIC, which finds the
\* RECVs by its links in the order they were posted, in an unread completion,
\* or in the free list, which starts where the NIC's chain ends.  Two CQs,
\* polls, cleans and posts all relink it.
SrqLinked ==
  LET waiting == Sub(srq.counter, snic.taken)
      held == {Unread(h[1])[h[2] + 1].ctr : h \in Held}
      free == SrqMax - waiting - Cardinality(Held)
      all == Chain(snic.head, waiting + free)
  IN /\ free > 0
     /\ Cardinality(held) = Cardinality(Held)
     /\ ToSet(all) = (0..(SrqMax - 1)) \ held
     /\ all[waiting + 1] = srq.head /\ Last(all) = srq.tail
     /\ [i \in 1..waiting |-> srq.wrid[all[i]]] = recvs[Srq]

\* mlx5_post_srq_recv returns ENOMEM when head meets tail, "SRQ is full":
\* all WQEs but the one kept back are then posted or in unread completions.
FullWhenHeadIsTail ==
  srq.head = srq.tail =>
    Sub(srq.counter, snic.taken) + Cardinality(Held) = SrqMax - 1

\* The entries that software owns are exactly those the NIC wrote and nobody
\* consumed: no entry of an earlier lap, or of the ring before a resize, is
\* taken for a new one, and none is missed.  (While resize_cq holds the lock
\* nobody reads the ring.)
OwnershipExact ==
  \A c \in CQs, d \in 0..(Wrap - 1) :
    d < cq[c].n /\ ~ Resizing(c) => (SwOwned(c, Add(cq[c].cons, d))
                      <=> d < Sub(cq[c].prod, cq[c].cons))

\* A completion that can still be polled belongs to a QP in the table, and to
\* its present life unless its removal is under way: after mlx5_modify_qp or
\* mlx5_destroy_qp returns, no CQE is left that would move the new indices.
CompletionsCurrent ==
  \A c \in CQs : \A e \in ToSet(Unread(c)) :
    /\ qp[e.qp].known
    /\ qp[e.qp].pc = "idle" => qp[e.qp].mode \in {"RTS", "ERR"}
    /\ (is_requestor(e.op) \/ ~ UsesSrq(e.qp)) => e.id[1] = qp[e.qp].gen

\* mlx5_lock_cqs takes the locks by CQ number: two threads that destroy QPs
\* with crossed CQs never each hold the lock the other waits for.
NoLockCycle ==
  ~ \E p, q \in QPs : /\ p # q
                      /\ qp[p].pc = "lock2" /\ qp[q].pc = "lock2"
                      /\ cq[SecondCq(p)].lock = q /\ cq[SecondCq(q)].lock = p

Fifo(c) == [j \in DOMAIN Unread(c) |-> [qp |-> Unread(c)[j].qp,
                                        op |-> Unread(c)[j].op,
                                        id |-> Unread(c)[j].id]]

V == INSTANCE Verbs WITH fifo <- [c \in CQs |-> Fifo(c)]

\* The driver and the NIC together implement the verbs: WRs complete in order
\* with their own wr_id, each once, and a clean or a resize loses and reorders
\* nothing else.
ImplementsVerbs == V!Spec
=============================================================================
