-------------------------- MODULE SelectiveSignal --------------------------
(***************************************************************************)
(* The send loop with selective signaling that most benchmarks and servers *)
(* of this repository have.  A thread fills a postlist of WRs for a queue  *)
(* pair, marks one WR in UNSIG_BATCH as signaled, blocks in hrd_poll_cq at *)
(* a fixed place of that cycle, hands the list to ibv_post_send and moves  *)
(* on to its next queue pair.  Three variants of "where is the signal and  *)
(* where is the poll" occur; a behaviour has one of them.                  *)
(***************************************************************************)
EXTENDS SendQueue

CONSTANTS
    UNSIG_BATCH,   \* one WR in UNSIG_BATCH is signaled
    Policies,      \* the variants: "now", "ahead", "last"
    Sizes,         \* Sizes[p]: the postlist sizes a thread of variant p uses
    NumQPs,        \* queue pairs, used round-robin, one postlist each
    Q_DEPTH        \* depth of every send queue (HRD_Q_DEPTH, kHrdSQDepth)

ASSUME SignalAssumption ==
    /\ UNSIG_BATCH \in Nat \ {0}
    /\ Policies \subseteq {"now", "ahead", "last"}
    /\ Sizes \in [Policies -> SUBSET (Nat \ {0})]
    /\ NumQPs \in Nat \ {0}
    /\ Q_DEPTH \in Nat

QPs == 0..(NumQPs - 1)

VARIABLES
    policy,    \* the variant this program uses
    sq,        \* sq[q]: the send queue of queue pair q
    nb_tx,     \* nb_tx[q] % UNSIG_BATCH, the only way the code reads nb_tx ...
    started,   \* ... except for nb_tx[q] > 0
    qp_i,      \* the queue pair of the postlist under construction
    size,      \* its length
    w_i,       \* how many of its WRs are filled in
    flags      \* the positions in it whose WR is IBV_SEND_SIGNALED

vars == <<policy, sq, nb_tx, started, qp_i, size, w_i, flags>>

Init ==
    /\ policy \in Policies
    /\ sq = [q \in QPs |-> EmptySQ]
    /\ nb_tx = [q \in QPs |-> 0]
    /\ started = [q \in QPs |-> FALSE]
    /\ qp_i = 0
    /\ size \in Sizes[policy]
    /\ w_i = 0
    /\ flags = {}

-----------------------------------------------------------------------------
(* Where the code signals and where it polls.                              *)

\* Faulty: every second WR is signaled.
SignalTooOften == nb_tx[qp_i] % 2 = 0

\* nb_tx % UNSIG_BATCH == 0 is signaled.
SignalFirst == nb_tx[qp_i] = 0

\* rw-postlist-latency: only the last WR of a postlist is signaled.
SignalLast == w_i = size - 1

Signaled == IF policy = "last" THEN SignalLast ELSE SignalFirst

\* "now": poll just before the next signaled WR is filled in.
PollNow == nb_tx[qp_i] = 0 /\ started[qp_i]

\* Faulty: the poll comes with the first WR of the cycle.
PollAheadOffByOne == nb_tx[qp_i] = 0

\* "ahead": poll at the last WR of the cycle, one WR earlier.
PollAhead == nb_tx[qp_i] = UNSIG_BATCH - 1

\* Faulty: the first postlist polls too.
PollPreviousUnguarded == w_i = 0

\* "last": poll for the previous postlist before filling in the next.
PollPrevious == w_i = 0 /\ started[qp_i]

MustPoll ==
    \/ policy = "now" /\ PollNow
    \/ policy = "ahead" /\ PollAhead
    \/ policy = "last" /\ PollPrevious

\* The benchmarks that poll "now" or "last" use one postlist size throughout
\* (FLAGS_postlist); the servers that poll "ahead" answer as many requests
\* as they find.
NextSizes == IF policy = "ahead" THEN Sizes[policy] ELSE {size}

-----------------------------------------------------------------------------
\* Faulty: the loop runs one WR past the end of the list.
FillWrPastEnd ==
    /\ w_i <= size
    /\ w_i' = w_i + 1
    /\ UNCHANGED <<policy, sq, nb_tx, started, qp_i, size, flags>>

\* One iteration of the loop that fills in the postlist.  hrd_poll_cq spins
\* until the CQ has a completion.
FillWr ==
    /\ w_i < size
    /\ MustPoll => HasCqe(sq[qp_i])
    /\ sq' = IF MustPoll THEN [sq EXCEPT ![qp_i] = PollOne(@)] ELSE sq
    /\ flags' = IF Signaled THEN flags \cup {w_i + 1} ELSE flags
    /\ w_i' = w_i + 1
    /\ nb_tx' = [nb_tx EXCEPT ![qp_i] = IF @ = UNSIG_BATCH - 1 THEN 0 ELSE @ + 1]
    /\ started' = [started EXCEPT ![qp_i] = TRUE]
    /\ UNCHANGED <<policy, qp_i, size>>

\* hrd_poll_cq keeps calling ibv_poll_cq while the CQ is empty.
Spin ==
    /\ w_i < size
    /\ MustPoll
    /\ ~HasCqe(sq[qp_i])
    /\ UNCHANGED vars

\* Faulty: the list is posted a second time.
PostListTwice ==
    /\ w_i = size
    /\ sq' = [sq EXCEPT ![qp_i] = PostSend(@, 2 * size, flags)]
    /\ qp_i' = IF qp_i = NumQPs - 1 THEN 0 ELSE qp_i + 1
    /\ size' \in NextSizes
    /\ w_i' = 0
    /\ flags' = {}
    /\ UNCHANGED <<policy, nb_tx, started>>

\* ibv_post_send of the filled list, then the next queue pair's turn.
PostList ==
    /\ w_i = size
    /\ ~WqOverflow(sq[qp_i], size, Q_DEPTH)
    /\ sq' = [sq EXCEPT ![qp_i] = PostSend(@, size, flags)]
    /\ qp_i' = IF qp_i = NumQPs - 1 THEN 0 ELSE qp_i + 1
    /\ size' \in NextSizes
    /\ w_i' = 0
    /\ flags' = {}
    /\ UNCHANGED <<policy, nb_tx, started>>

\* The NIC executes one WR of queue pair q.
NicExecute(q) ==
    /\ CanExecute(sq[q])
    /\ sq' = [sq EXCEPT ![q] = ExecuteOne(@)]
    /\ UNCHANGED <<policy, nb_tx, started, qp_i, size, w_i, flags>>

Next == FillWr \/ Spin \/ PostList \/ \E q \in QPs : NicExecute(q)

Spec == Init /\ [][Next]_vars

\* The thread runs and so does the NIC: nobody stops for good while it has
\* something to do.
Fairness ==
    /\ WF_vars(FillWr)
    /\ WF_vars(PostList)
    /\ \A q \in QPs : WF_vars(NicExecute(q))

FairSpec == Spec /\ Fairness

-----------------------------------------------------------------------------
\* The types of the state, and that the NIC never runs past the queue.
TypeOK ==
    /\ policy \in Policies
    /\ sq \in [QPs -> [head : Nat, done : Nat, sig : SUBSET Nat]]
    /\ \A q \in QPs : sq[q].done <= sq[q].head
    /\ nb_tx \in [QPs -> 0..(UNSIG_BATCH - 1)]
    /\ started \in [QPs -> BOOLEAN]
    /\ qp_i \in QPs
    /\ size \in Sizes[policy]
    /\ w_i \in 0..size
    /\ flags \subseteq 1..w_i

\* "We poll for a completion only after a signaled send": whenever the loop
\* enters hrd_poll_cq, a signaled WR is already in the NIC's hands, so the
\* busy-wait ends.  (Postlist check.)
PollFindsSignal ==
    w_i < size /\ MustPoll => sq[qp_i].sig # {}

\* Queue capacity check: a filled postlist always fits the send queue, so
\* ibv_post_send never returns ENOMEM and the assert behind it holds.
PostFits ==
    w_i = size => ~WqOverflow(sq[qp_i], size, Q_DEPTH)

\* README: "up to 2*UNSIG_BATCH-1 work requests can be un-ACKed by the QP"
\* (counting the ones filled in and not posted yet).
UnackedBound ==
    \A q \in QPs :
        sq[q].head + (IF q = qp_i THEN w_i ELSE 0) <= 2 * UNSIG_BATCH - 1

\* A QP never has two unpolled completions, so one CQE per QP is enough and
\* every poll consumes the completion of the cycle it belongs to.
OneSignalOutstanding ==
    \A q \in QPs : \A p, r \in sq[q].sig : p = r

\* The thread keeps posting: no poll blocks forever.
SenderProgress == []<><<PostList>>_vars

=============================================================================
