----------------------------- MODULE SendQueue -----------------------------
(***************************************************************************)
(* The send side of one queue pair, as libmlx5 keeps it: the send queue    *)
(* between sq.tail and sq.head, how far the NIC has executed it, and which *)
(* of its work requests (WRs) are signaled.  Positions count from sq.tail, *)
(* the oldest WR being at position 1, so nothing here grows without bound. *)
(*                                                                         *)
(*   head   sq.head - sq.tail, the WRs posted and not yet retired          *)
(*   done   how many of those the NIC has executed (in order)              *)
(*   sig    the positions of the signaled WRs among them                   *)
(*                                                                         *)
(* The CQ holds one completion for every signaled WR that is executed and  *)
(* has not been polled.                                                    *)
(***************************************************************************)
EXTENDS Integers

\* mlx5_init_qp_indices: head = tail = 0.
EmptySQ == [head |-> 0, done |-> 0, sig |-> {}]

\* mlx5_wq_overflow, asked of each WR of the list in turn: n more WRs fit
\* exactly when the last of them does.
WqOverflow(q, n, depth) == q.head + n > depth

\* __mlx5_post_send of a postlist of n WRs whose signaled positions are S.
PostSend(q, n, S) ==
    [head |-> q.head + n,
     done |-> q.done,
     sig  |-> q.sig \cup {q.head + p : p \in S}]

\* The NIC executes the oldest WR it has not executed.
CanExecute(q) == q.done < q.head

ExecuteOne(q) == [q EXCEPT !.done = @ + 1]

\* next_cqe_sw: the CQ holds a completion.
HasCqe(q) == \E p \in q.sig : p <= q.done

Oldest(S) == CHOOSE p \in S : \A r \in S : p <= r

\* mlx5_poll_one on a requester completion: it retires the signaled WR and
\* every WR posted before it (sq.tail = wqe_head[idx] + 1).
PollOne(q) ==
    LET p == Oldest(q.sig)
    IN  [head |-> q.head - p,
         done |-> q.done - p,
         sig  |-> {r - p : r \in q.sig \ {p}}]

=============================================================================
