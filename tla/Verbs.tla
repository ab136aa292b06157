------------------------------- MODULE Verbs -------------------------------
(***************************************************************************)
(* What a user of the verbs data path may rely on, whatever rings, owner   *)
(* bits, free lists and indices the driver uses to provide it.             *)
(*                                                                         *)
(* A send queue is a sequence of work requests, which the NIC executes in  *)
(* order; a receive queue (of a QP, or the shared one) is a sequence of    *)
(* RECVs, which messages consume in order.  A completion queue is a FIFO   *)
(* of completions, and ibv_poll_cq returns them one by one, each with the  *)
(* wr_id of the request that the NIC completed.                            *)
(***************************************************************************)
EXTENDS Integers, Sequences, SequencesExt

CONSTANTS QPs, CQs, Srq

VARIABLES sends, recvs, fifo, wc

vars == <<sends, recvs, fifo, wc>>

\* The queues RECVs are posted to.
RecvQueues == QPs \cup {Srq}

NoWc == [qp |-> Srq, op |-> "NONE", id |-> <<0, 0>>]

Init == /\ sends = [q \in QPs |-> <<>>]
        /\ recvs = [r \in RecvQueues |-> <<>>]
        /\ fifo = [c \in CQs |-> <<>>]
        /\ wc = NoWc

\* A postlist: a prefix of it is accepted, in its order.
PostSend(q) == /\ \E s \in {sends'[q]} :
                     /\ IsPrefix(sends[q], s)
                     /\ sends' = [sends EXCEPT ![q] = s]
               /\ UNCHANGED <<recvs, fifo, wc>>

PostRecv(r) == /\ \E s \in {recvs'[r]} :
                     /\ IsPrefix(recvs[r], s)
                     /\ recvs' = [recvs EXCEPT ![r] = s]
               /\ UNCHANGED <<sends, fifo, wc>>

\* The NIC finishes the oldest send; a signaled or a failed one completes.
FinishSend(q) ==
  /\ sends[q] # <<>>
  /\ sends' = [sends EXCEPT ![q] = Tail(@)]
  /\ \/ /\ ~ Head(sends[q]).sig
        /\ UNCHANGED fifo
     \/ \E c \in CQs, op \in {"REQ", "REQ_ERR"} :
          fifo' = [fifo EXCEPT ![c] =
                     Append(@, [qp |-> q, op |-> op, id |-> Head(sends[q]).id])]
  /\ UNCHANGED <<recvs, wc>>

\* A message for QP q takes the oldest RECV of the queue q receives from.
Receive(q, r) ==
  /\ recvs[r] # <<>>
  /\ recvs' = [recvs EXCEPT ![r] = Tail(@)]
  /\ \E c \in CQs, op \in {"RESP", "RESP_ERR"} :
       fifo' = [fifo EXCEPT ![c] =
                  Append(@, [qp |-> q, op |-> op, id |-> Head(recvs[r])])]
  /\ UNCHANGED <<sends, wc>>

Poll(c) == /\ fifo[c] # <<>>
           /\ wc' = Head(fifo[c])
           /\ fifo' = [fifo EXCEPT ![c] = Tail(@)]
           /\ UNCHANGED <<sends, recvs>>

\* A reset or destroyed QP forgets what was posted to it ...
Reset(q) == /\ sends' = [sends EXCEPT ![q] = <<>>]
            /\ recvs' = [recvs EXCEPT ![q] = <<>>]
            /\ UNCHANGED <<fifo, wc>>

\* ... and its completions, and no other's, leave the completion queues.
Forget(q) ==
  /\ \E C \in SUBSET CQs :
       fifo' = [c \in CQs |->
                  IF c \in C THEN SelectSeq(fifo[c], LAMBDA e : e.qp # q)
                             ELSE fifo[c]]
  /\ UNCHANGED <<sends, recvs, wc>>

Next == \/ \E q \in QPs : \/ PostSend(q) \/ FinishSend(q)
                          \/ Reset(q) \/ Forget(q)
                          \/ \E r \in {q, Srq} : Receive(q, r)
        \/ \E r \in RecvQueues : PostRecv(r)
        \/ \E c \in CQs : Poll(c)

Spec == Init /\ [][Next]_vars
=============================================================================
