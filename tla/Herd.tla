-------------------------------- MODULE Herd --------------------------------
(***************************************************************************)
(* HERD (herd/client.c, herd/worker.c): clients WRITE requests over UC     *)
(* into their window of the request region, workers poll the region and    *)
(* answer with UD SENDs.  Neither transport acknowledges anything the      *)
(* threads can see: a client counts answers, a worker and a client each    *)
(* keep their own idea of the next window slot.                            *)
(*                                                                         *)
(* A request is known by its client, its worker and its window slot; its   *)
(* contents go to a MICA instance (module Mica).  The fabric keeps the     *)
(* order of one queue pair and loses nothing, as InfiniBand does below its *)
(* error rate; a UD datagram that finds no RECV is dropped.                *)
(***************************************************************************)
EXTENDS Integers, Sequences, FiniteSets, SendQueue

CONSTANTS
    NUM_CLIENTS, NUM_WORKERS, WINDOW_SIZE, UNSIG_BATCH,
    Postlist,        \* -p of the worker process
    NumServerPorts,
    HRD_Q_DEPTH      \* depth of every send and receive queue

\* The asserts of run_worker, and what the two depths must allow.
ASSUME HerdAssumption ==
    /\ NUM_CLIENTS \in Nat \ {0} /\ NUM_WORKERS \in Nat \ {0}
    /\ WINDOW_SIZE \in Nat \ {0}
    /\ UNSIG_BATCH \in Nat \ {0, 1} /\ Postlist \in 1..(UNSIG_BATCH - 1)
    /\ NumServerPorts \in Nat \ {0} /\ NUM_CLIENTS % NumServerPorts = 0
    /\ HRD_Q_DEPTH \in Nat
    /\ HRD_Q_DEPTH >= 2 * UNSIG_BATCH /\ HRD_Q_DEPTH >= 2 * WINDOW_SIZE

Clients == 0..(NUM_CLIENTS - 1)
Workers == 0..(NUM_WORKERS - 1)
Ports == 0..(NumServerPorts - 1)
Slots == 0..(WINDOW_SIZE - 1)

\* Faulty: wraps one too late.
ModAddLate(x, n) == IF x = n THEN 0 ELSE x + 1

\* HRD_MOD_ADD.
ModAdd(x, n) == IF x + 1 = n THEN 0 ELSE x + 1

\* nb_tx is read modulo WINDOW_SIZE and modulo UNSIG_BATCH only.
Period == WINDOW_SIZE * UNSIG_BATCH

VARIABLES
    \* A client thread ...
    pc,        \* where in its loop: "refill", "collect" or "send"
    nb_tx,     \* nb_tx % Period
    cws,       \* cws[c][w]: its ws[w]
    conn_sq,   \* the send queue of its UC queue pair
    wire,      \* the WRITEs of that queue that have not landed
    recvs,     \* RECVs posted on its UD queue pair
    recvd,     \* answers in its UD receive CQ
    \* ... the request region and the fabric ...
    req_buf,   \* req_buf[w][c][s]: what the opcode byte says
    flight,    \* answers on their way
    \* ... and a worker thread.
    wws,       \* wws[w][c]: its ws[c]
    clt_i,     \* clt_i[w]
    cb_i,      \* cb_i[w]
    poll_i,    \* poll_i[w]
    batch,     \* batch[w]: the requests of this pass, [clt, slot, cb, sig]
    wnb_tx,    \* wnb_tx[w][p] % UNSIG_BATCH
    ud_sq,     \* ud_sq[w][p]: send queue of its UD queue pair on port p
    ud_wr      \* ud_wr[w][p]: the answers in it the NIC has not sent

clientVars == <<pc, nb_tx, cws, conn_sq, wire, recvs, recvd>>
workerVars == <<wws, clt_i, cb_i, poll_i, batch, wnb_tx, ud_sq, ud_wr>>
vars == <<clientVars, req_buf, flight, workerVars>>

\* run_client up to its loop, the RECV queue filled once.
ClientInit ==
    /\ pc = [c \in Clients |-> "send"]
    /\ nb_tx = [c \in Clients |-> 0]
    /\ cws = [c \in Clients |-> [w \in Workers |-> 0]]
    /\ conn_sq = [c \in Clients |-> EmptySQ]
    /\ wire = [c \in Clients |-> <<>>]
    /\ recvs = [c \in Clients |-> WINDOW_SIZE]
    /\ recvd = [c \in Clients |-> {}]

\* run_worker up to its loop.
WorkerInit ==
    /\ wws = [w \in Workers |-> [c \in Clients |-> 0]]
    /\ clt_i = [w \in Workers |-> -1]
    /\ cb_i = [w \in Workers |-> -1]
    /\ poll_i = [w \in Workers |-> 0]
    /\ batch = [w \in Workers |-> <<>>]
    /\ wnb_tx = [w \in Workers |-> [p \in Ports |-> 0]]
    /\ ud_sq = [w \in Workers |-> [p \in Ports |-> EmptySQ]]
    /\ ud_wr = [w \in Workers |-> [p \in Ports |-> <<>>]]

\* The master has zeroed the request region.
Init ==
    /\ ClientInit
    /\ WorkerInit
    /\ req_buf = [w \in Workers |-> [c \in Clients |-> [s \in Slots |-> "none"]]]
    /\ flight = {}

-----------------------------------------------------------------------------
(* The client.                                                             *)

\* Faulty: one RECV too few.
RefillShort(c) ==
    /\ pc[c] = "refill"
    /\ recvs' = [recvs EXCEPT ![c] = @ + WINDOW_SIZE - 1]
    /\ pc' = [pc EXCEPT ![c] = "collect"]
    /\ UNCHANGED <<nb_tx, cws, conn_sq, wire, recvd, req_buf, flight, workerVars>>

\* Faulty: the RECVs are posted twice.
RefillDouble(c) ==
    /\ pc[c] = "refill"
    /\ recvs' = [recvs EXCEPT ![c] = @ + 2 * WINDOW_SIZE]
    /\ pc' = [pc EXCEPT ![c] = "collect"]
    /\ UNCHANGED <<nb_tx, cws, conn_sq, wire, recvd, req_buf, flight, workerVars>>

\* A window of requests has been sent: post as many RECVs again ...
Refill(c) ==
    /\ pc[c] = "refill"
    /\ recvs[c] + WINDOW_SIZE <= HRD_Q_DEPTH
    /\ recvs' = [recvs EXCEPT ![c] = @ + WINDOW_SIZE]
    /\ pc' = [pc EXCEPT ![c] = "collect"]
    /\ UNCHANGED <<nb_tx, cws, conn_sq, wire, recvd, req_buf, flight, workerVars>>

\* Faulty: the client waits for one answer less.
CollectEarly(c) ==
    /\ pc[c] = "collect"
    /\ \E answers \in SUBSET recvd[c] :
          /\ Cardinality(answers) = WINDOW_SIZE - 1
          /\ recvd' = [recvd EXCEPT ![c] = @ \ answers]
    /\ pc' = [pc EXCEPT ![c] = "send"]
    /\ UNCHANGED <<nb_tx, cws, conn_sq, wire, recvs, req_buf, flight, workerVars>>

\* ... and wait for as many answers.
Collect(c) ==
    /\ pc[c] = "collect"
    /\ \E answers \in SUBSET recvd[c] :
          /\ Cardinality(answers) = WINDOW_SIZE
          /\ recvd' = [recvd EXCEPT ![c] = @ \ answers]
    /\ pc' = [pc EXCEPT ![c] = "send"]
    /\ UNCHANGED <<nb_tx, cws, conn_sq, wire, recvs, req_buf, flight, workerVars>>

\* hrd_poll_cq comes with the last WR of a cycle of UNSIG_BATCH.
PollsBeforeSend(c) == nb_tx[c] % UNSIG_BATCH = UNSIG_BATCH - 1

ClientPost(c) ==
    LET q == IF PollsBeforeSend(c) THEN PollOne(conn_sq[c]) ELSE conn_sq[c]
    IN  /\ PollsBeforeSend(c) => HasCqe(conn_sq[c])
        /\ ~WqOverflow(q, 1, HRD_Q_DEPTH)
        /\ conn_sq' = [conn_sq EXCEPT ![c] =
                         PostSend(q, 1, IF nb_tx[c] % UNSIG_BATCH = 0 THEN {1} ELSE {})]

\* WRITE the next request to a worker of its choice.
SendRequest(c, w) ==
    /\ pc[c] = "send"
    /\ ClientPost(c)
    /\ wire' = [wire EXCEPT ![c] = Append(@, [wrkr |-> w, slot |-> cws[c][w]])]
    /\ nb_tx' = [nb_tx EXCEPT ![c] = ModAdd(@, Period)]
    /\ cws' = [cws EXCEPT ![c][w] = ModAdd(@, WINDOW_SIZE)]
    /\ pc' = [pc EXCEPT ![c] = IF nb_tx'[c] % WINDOW_SIZE = 0 THEN "refill" ELSE "send"]
    /\ UNCHANGED <<recvs, recvd, req_buf, flight, workerVars>>

-----------------------------------------------------------------------------
(* The NICs and the fabric.                                                *)

\* The client's NIC sends a WRITE; UC completes it at once.
NicWrite(c) ==
    /\ CanExecute(conn_sq[c])
    /\ conn_sq' = [conn_sq EXCEPT ![c] = ExecuteOne(@)]
    /\ UNCHANGED <<pc, nb_tx, cws, wire, recvs, recvd, req_buf, flight, workerVars>>

\* A WRITE that was sent lands in the request region.
Land(c) ==
    /\ Len(wire[c]) > conn_sq[c].head - conn_sq[c].done
    /\ req_buf' = [req_buf EXCEPT ![Head(wire[c]).wrkr][c][Head(wire[c]).slot] = "HERD"]
    /\ wire' = [wire EXCEPT ![c] = Tail(@)]
    /\ UNCHANGED <<pc, nb_tx, cws, conn_sq, recvs, recvd, flight, workerVars>>

\* The worker's NIC sends an answer.
NicAnswer(w, p) ==
    /\ CanExecute(ud_sq[w][p])
    /\ ud_sq' = [ud_sq EXCEPT ![w][p] = ExecuteOne(@)]
    /\ ud_wr' = [ud_wr EXCEPT ![w][p] = Tail(@)]
    /\ flight' = flight \cup {Head(ud_wr[w][p])}
    /\ UNCHANGED <<clientVars, req_buf, wws, clt_i, cb_i, poll_i, batch, wnb_tx>>

\* An answer arrives: it takes a RECV or is dropped.
Arrive(a) ==
    /\ a \in flight
    /\ flight' = flight \ {a}
    /\ IF recvs[a.clt] > 0
       THEN /\ recvs' = [recvs EXCEPT ![a.clt] = @ - 1]
            /\ recvd' = [recvd EXCEPT ![a.clt] = @ \cup {a}]
       ELSE UNCHANGED <<recvs, recvd>>
    /\ UNCHANGED <<pc, nb_tx, cws, conn_sq, wire, req_buf, workerVars>>

-----------------------------------------------------------------------------
(* The worker.                                                             *)

\* The loop over the clients is over: none is left or the list is full.
PassOver(w) == poll_i[w] = NUM_CLIENTS \/ Len(batch[w]) = Postlist

PollsBeforeAnswer(w, p) == wnb_tx[w][p] = UNSIG_BATCH - 1

\* Faulty: the port is advanced after the test for a request.
PollMissKeepsPort(w) ==
    LET c == ModAdd(clt_i[w], NUM_CLIENTS)
    IN  /\ ~PassOver(w)
        /\ req_buf[w][c][wws[w][c]] # "HERD"
        /\ clt_i' = [clt_i EXCEPT ![w] = c]
        /\ poll_i' = [poll_i EXCEPT ![w] = @ + 1]
        /\ UNCHANGED <<clientVars, req_buf, flight, wws, cb_i, batch, wnb_tx, ud_sq, ud_wr>>

\* One iteration of the loop, with no request at the slot it looks at.
PollMiss(w) ==
    LET c == ModAdd(clt_i[w], NUM_CLIENTS)
    IN  /\ ~PassOver(w)
        /\ req_buf[w][c][wws[w][c]] # "HERD"
        /\ clt_i' = [clt_i EXCEPT ![w] = c]
        /\ cb_i' = [cb_i EXCEPT ![w] = ModAdd(@, NumServerPorts)]
        /\ poll_i' = [poll_i EXCEPT ![w] = @ + 1]
        /\ UNCHANGED <<clientVars, req_buf, flight, wws, batch, wnb_tx, ud_sq, ud_wr>>

\* One iteration that finds a request: its opcode becomes a MICA opcode and
\* a WR for the answer joins the list of the client's port.
PollHit(w) ==
    LET c == ModAdd(clt_i[w], NUM_CLIENTS)
        p == ModAdd(cb_i[w], NumServerPorts)
        s == wws[w][c]
    IN  /\ ~PassOver(w)
        /\ req_buf[w][c][s] = "HERD"
        /\ req_buf' = [req_buf EXCEPT ![w][c][s] = "MICA"]
        /\ PollsBeforeAnswer(w, p) => HasCqe(ud_sq[w][p])
        /\ ud_sq' = IF PollsBeforeAnswer(w, p)
                    THEN [ud_sq EXCEPT ![w][p] = PollOne(@)] ELSE ud_sq
        /\ batch' = [batch EXCEPT ![w] = Append(@, [clt |-> c, slot |-> s, cb |-> p,
                                                    sig |-> wnb_tx[w][p] = 0])]
        /\ wws' = [wws EXCEPT ![w][c] = ModAdd(@, WINDOW_SIZE)]
        /\ wnb_tx' = [wnb_tx EXCEPT ![w][p] = ModAdd(@, UNSIG_BATCH)]
        /\ clt_i' = [clt_i EXCEPT ![w] = c]
        /\ cb_i' = [cb_i EXCEPT ![w] = p]
        /\ poll_i' = [poll_i EXCEPT ![w] = @ + 1]
        /\ UNCHANGED <<clientVars, flight, ud_wr>>

\* The WRs of port p in the batch, in order.
ListOf(w, p) == SelectSeq(batch[w], LAMBDA r : r.cb = p)

\* mica_batch_op, then the list of each port is posted.
Answer(w) ==
    LET Signals(p) == {i \in 1..Len(ListOf(w, p)) : ListOf(w, p)[i].sig}
    IN  /\ PassOver(w)
        /\ \A p \in Ports : ~WqOverflow(ud_sq[w][p], Len(ListOf(w, p)), HRD_Q_DEPTH)
        /\ ud_sq' = [ud_sq EXCEPT ![w] = [p \in Ports |->
                        PostSend(ud_sq[w][p], Len(ListOf(w, p)), Signals(p))]]
        /\ ud_wr' = [ud_wr EXCEPT ![w] = [p \in Ports |-> ud_wr[w][p] \o
                        [i \in 1..Len(ListOf(w, p)) |->
                            [clt |-> ListOf(w, p)[i].clt, wrkr |-> w, slot |-> ListOf(w, p)[i].slot]]]]
        /\ batch' = [batch EXCEPT ![w] = <<>>]
        /\ poll_i' = [poll_i EXCEPT ![w] = 0]
        /\ UNCHANGED <<clientVars, req_buf, flight, wws, clt_i, cb_i, wnb_tx>>

Client(c) == Refill(c) \/ Collect(c) \/ \E w \in Workers : SendRequest(c, w)
Worker(w) == PollMiss(w) \/ PollHit(w) \/ Answer(w)
Fabric ==
    \/ \E c \in Clients : NicWrite(c) \/ Land(c)
    \/ \E w \in Workers, p \in Ports : NicAnswer(w, p)
    \/ \E a \in flight : Arrive(a)

Next == (\E c \in Clients : Client(c)) \/ (\E w \in Workers : Worker(w)) \/ Fabric

Spec == Init /\ [][Next]_vars

Answers == [clt : Clients, wrkr : Workers, slot : Slots]

\* Every thread runs (they spin and never block), and the fabric delivers.
Fairness ==
    /\ \A c \in Clients : WF_vars(Client(c)) /\ WF_vars(NicWrite(c)) /\ WF_vars(Land(c))
    /\ \A w \in Workers : WF_vars(Worker(w)) /\ \A p \in Ports : WF_vars(NicAnswer(w, p))
    /\ \A a \in Answers : WF_vars(Arrive(a))

LiveSpec == Spec /\ Fairness

-----------------------------------------------------------------------------
(* Where the requests of client c to worker w are.                         *)

OnWire(c, w) == {i \in 1..Len(wire[c]) : wire[c][i].wrkr = w}
Waiting(c, w) == {s \in Slots : req_buf[w][c][s] = "HERD"}
InBatch(c, w) == {i \in 1..Len(batch[w]) : batch[w][i].clt = c}
Unsent(c, w) ==
    UNION {{ud_wr[w][p][i] : i \in {j \in 1..Len(ud_wr[w][p]) : ud_wr[w][p][j].clt = c}} : p \in Ports}
Flying(c) == {a \in flight : a.clt = c}

\* The RPC a worker has not executed, and the one it has.
Sent(c, w, s) ==
    \/ \E i \in OnWire(c, w) : wire[c][i].slot = s
    \/ s \in Waiting(c, w)
    \/ \E i \in InBatch(c, w) : batch[w][i].slot = s

Done(c, w, s) ==
    [clt |-> c, wrkr |-> w, slot |-> s] \in Unsent(c, w) \cup Flying(c) \cup recvd[c]

Rpc == INSTANCE WindowRpc WITH
    Window <- WINDOW_SIZE,
    call <- [c \in Clients |-> [w \in Workers |-> [s \in Slots |->
                IF Sent(c, w, s) THEN "sent" ELSE IF Done(c, w, s) THEN "done" ELSE "idle"]]]

-----------------------------------------------------------------------------
\* The types of the state of both sides.
TypeOK ==
    /\ pc \in [Clients -> {"refill", "collect", "send"}]
    /\ nb_tx \in [Clients -> 0..(Period - 1)]
    /\ cws \in [Clients -> [Workers -> Slots]]
    /\ \A c \in Clients : wire[c] \in Seq([wrkr : Workers, slot : Slots])
    /\ recvs \in [Clients -> 0..HRD_Q_DEPTH]
    /\ \A c \in Clients : recvd[c] \subseteq Answers
    /\ req_buf \in [Workers -> [Clients -> [Slots -> {"none", "HERD", "MICA"}]]]
    /\ flight \subseteq Answers
    /\ wws \in [Workers -> [Clients -> Slots]]
    /\ clt_i \in [Workers -> Clients \cup {-1}]
    /\ cb_i \in [Workers -> Ports \cup {-1}]
    /\ poll_i \in [Workers -> 0..NUM_CLIENTS]
    /\ wnb_tx \in [Workers -> [Ports -> 0..(UNSIG_BATCH - 1)]]

\* No WRITE on its way lands on a request the worker has not finished with:
\* not one it has yet to see, nor one whose memory mica_batch_op will read.
SlotsNotOverwritten ==
    \A c \in Clients : \A i \in 1..Len(wire[c]) :
        LET r == wire[c][i]
        IN  /\ r.slot \notin Waiting(c, r.wrkr)
            /\ \A j \in InBatch(c, r.wrkr) : batch[r.wrkr][j].slot # r.slot
            /\ \A j \in 1..Len(wire[c]) : wire[c][j] = r => i = j

\* The two window pointers agree without ever being exchanged: the requests
\* a worker has not seen are the slots from its ws up to the client's.
WindowsAgree ==
    \A c \in Clients, w \in Workers :
        LET seen == Cardinality(Waiting(c, w))
            all == seen + Cardinality(OnWire(c, w))
        IN  /\ Waiting(c, w) = {(wws[w][c] + i) % WINDOW_SIZE : i \in 0..(seen - 1)}
            /\ cws[c][w] = (wws[w][c] + all) % WINDOW_SIZE

\* A client has a RECV for every answer still to come, so none is dropped.
RecvsSuffice ==
    \A c \in Clients :
        recvs[c] >= Len(wire[c]) + Cardinality(Flying(c))
                    + Cardinality({ws \in Workers \X Slots : ws[2] \in Waiting(c, ws[1])})
                    + Cardinality({wi \in Workers \X (1..Postlist) : wi[2] \in InBatch(c, wi[1])})
                    + Cardinality(UNION {Unsent(c, w) : w \in Workers})

\* The assert commented out in run_worker (cb_i == clt_i % num_server_ports):
\* two counters that wrap separately stay in step, so each answer leaves by
\* the port whose protection domain holds the client's address handle.
PortMatches ==
    \A w \in Workers :
        /\ clt_i[w] >= 0 => cb_i[w] = clt_i[w] % NumServerPorts
        /\ \A p \in Ports : \A i \in 1..Len(ud_wr[w][p]) : p = ud_wr[w][p][i].clt % NumServerPorts

\* No ibv_post_send finds its queue full and no ibv_post_recv either (the
\* code exits when one does).
QueuesFit ==
    /\ \A c \in Clients :
          /\ pc[c] = "refill" => recvs[c] + WINDOW_SIZE <= HRD_Q_DEPTH
          /\ pc[c] = "send" /\ ~PollsBeforeSend(c) => ~WqOverflow(conn_sq[c], 1, HRD_Q_DEPTH)
    /\ \A w \in Workers, p \in Ports :
          PassOver(w) => ~WqOverflow(ud_sq[w][p], Len(ListOf(w, p)), HRD_Q_DEPTH)

\* HERD is a windowed RPC service: every request is executed exactly once
\* and a window is collected only when all of it has been executed.
ImplementsRpc == Rpc!Spec

\* A client that waits for its window gets it.
WindowReturns == \A c \in Clients : pc[c] = "collect" ~> pc[c] = "send"

=============================================================================
