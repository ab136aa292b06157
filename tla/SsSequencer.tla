---------------------------- MODULE SsSequencer ----------------------------
(***************************************************************************)
(* The SEND/SEND sequencer (ss-sequencer/client.c, server.c).  Server      *)
(* threads share one 64-bit counter and answer batches of requests.  A     *)
(* client tells in its request what it takes the high half of the counter  *)
(* to be; the answer is the low half as immediate data when that is right, *)
(* and else the whole counter, written to the buffer of the RECV it meets. *)
(*                                                                         *)
(* A server sends consecutive batches through different queue pairs, so    *)
(* answers of different batches may overtake each other.                   *)
(***************************************************************************)
EXTENDS Integers, Sequences, FiniteSetsExt, SequencesExt

CONSTANTS Clients, Servers,
          srv_gid,     \* the server of each client
          Postlist,
          NUM_UD_QPS,
          Half,        \* 2^32: how many values the low half has
          MaxCount     \* numbers to hand out

VARIABLES counter,       \* *params.counter
          qp_i,          \* qp_i[s]
          requests,      \* requests[s]: what s has received, [clt, hi]
          sent,          \* sent[s][k]: answers of s in UD queue pair k
          reqs_to_send, req_wi, counter_hi,
          dgram_buf,     \* dgram_buf[c][i]: the counter in cacheline i
          recv_queue,    \* recv_queue[c]: cachelines of the posted RECVs
          recv_cq,       \* recv_cq[c]: answers received and not polled
          counted        \* counted[c]: [issued, got] of the last poll

clientVars == <<reqs_to_send, req_wi, counter_hi, counted>>
vars == <<counter, qp_i, requests, sent, clientVars, dgram_buf, recv_queue,
          recv_cq>>

Init == /\ counter = 0
        /\ qp_i = [s \in Servers |-> 0]
        /\ requests = [s \in Servers |-> <<>>]
        /\ sent = [s \in Servers |-> [k \in 0..(NUM_UD_QPS - 1) |-> <<>>]]
        /\ reqs_to_send = [c \in Clients |-> Postlist]
        /\ req_wi = [c \in Clients |-> 0]
        /\ counter_hi = [c \in Clients |-> 0]
        /\ dgram_buf = [c \in Clients |-> [i \in 0..(Postlist - 1) |-> 0]]
        /\ recv_queue = [c \in Clients |-> <<>>]
        /\ recv_cq = [c \in Clients |-> <<>>]
        /\ counted = [c \in Clients |-> <<>>]

----------------------------------------------------------------------------
\* One request per answer counted last time, each with a RECV of its own
\* cacheline and the high half as the client assumes it.
SendRequests(c) ==
  LET n == reqs_to_send[c]
  IN /\ n > 0
     /\ recv_queue' = [recv_queue EXCEPT ![c] = @ \o
                         [i \in 1..n |-> (req_wi[c] + i - 1) % Postlist]]
     /\ requests' = [requests EXCEPT ![srv_gid[c]] = @ \o
                       [i \in 1..n |-> [clt |-> c, hi |-> counter_hi[c]]]]
     /\ req_wi' = [req_wi EXCEPT ![c] = (@ + n) % Postlist]
     /\ reqs_to_send' = [reqs_to_send EXCEPT ![c] = 0]
     /\ UNCHANGED <<counter, qp_i, sent, counter_hi, counted, dgram_buf, recv_cq>>

\* The answer to request r with number v.
Response(r, v) == [clt |-> r.clt, val |-> v, imm |-> r.hi = v \div Half]

\* ibv_poll_cq returns up to postlist of the requests that have arrived;
\* they get consecutive numbers and leave through the next queue pair.
Serve(s) ==
  \E n \in 1..Min({Postlist, Len(requests[s])}) :
    LET list == [i \in 1..n |-> Response(requests[s][i], counter + i - 1)]
    IN /\ counter + n <= MaxCount
       /\ counter' = counter + n
       /\ requests' = [requests EXCEPT ![s] = SubSeq(@, n + 1, Len(@))]
       /\ sent' = [sent EXCEPT ![s][qp_i[s]] = @ \o list]
       /\ qp_i' = [qp_i EXCEPT ![s] = (@ + 1) % NUM_UD_QPS]
       /\ UNCHANGED <<clientVars, dgram_buf, recv_queue, recv_cq>>

\* An answer reaches its client and takes the oldest RECV.
Deliver(s, k) ==
  LET a == Head(sent[s][k])
      c == a.clt
  IN /\ sent[s][k] # <<>>
     /\ sent' = [sent EXCEPT ![s][k] = Tail(@)]
     /\ recv_queue' = [recv_queue EXCEPT ![c] = Tail(@)]
     /\ recv_cq' = [recv_cq EXCEPT ![c] = Append(@, a)]
     /\ dgram_buf' = IF a.imm THEN dgram_buf
                     ELSE [dgram_buf EXCEPT ![c][Head(recv_queue[c])] = a.val]
     /\ UNCHANGED <<counter, qp_i, requests, clientVars>>

\* Answer number i of a poll: a whole counter is read from cacheline i and
\* sets the high half, an immediate is added to the high half.
CountOne(c, st, i) ==
  LET a == recv_cq[c][i]
      got == IF a.imm THEN st.hi * Half + (a.val % Half) ELSE dgram_buf[c][i - 1]
  IN [hi |-> IF a.imm THEN st.hi ELSE got \div Half,
      list |-> Append(st.list, [issued |-> a.val, got |-> got])]

Count(c) ==
  LET n == Min({Postlist, Len(recv_cq[c])})
      r == FoldLeft(LAMBDA st, i : CountOne(c, st, i),
                    [hi |-> counter_hi[c], list |-> <<>>], [i \in 1..n |-> i])
  IN /\ reqs_to_send[c] = 0 /\ n > 0
     /\ recv_cq' = [recv_cq EXCEPT ![c] = SubSeq(@, n + 1, Len(@))]
     /\ counter_hi' = [counter_hi EXCEPT ![c] = r.hi]
     /\ counted' = [counted EXCEPT ![c] = r.list]
     /\ reqs_to_send' = [reqs_to_send EXCEPT ![c] = n]
     /\ UNCHANGED <<counter, qp_i, requests, sent, req_wi, dgram_buf, recv_queue>>

Next == \/ \E c \in Clients : SendRequests(c) \/ Count(c)
        \/ \E s \in Servers : \/ Serve(s)
                              \/ \E k \in 0..(NUM_UD_QPS - 1) : Deliver(s, k)

Spec == Init /\ [][Next]_vars

----------------------------------------------------------------------------
\* The client takes every answer for the number the server issued: if the
\* server did not use SEND_WITH_IMM, the complete counter value is in the
\* buffer the client reads, and no order of the answers matters.
CountedAsIssued ==
  \A c \in Clients : \A i \in 1..Len(counted[c]) :
    counted[c][i].got = counted[c][i].issued
=============================================================================
