----------------------------- MODULE Discipline -----------------------------
(***************************************************************************)
(* The discipline that the benchmarks keep in their set-up, a property of  *)
(* the text of their threads alone.  TLC evaluates it for every program of *)
(* Benchmarks; HandshakeProofs shows that it is enough for Handshake's     *)
(* safety properties, whatever the program and the interleaving.           *)
(***************************************************************************)
EXTENDS Handshake

\* Call k of thread t of program p comes after the call c of the same thread.
Earlier(p, t, k, c) == \E j \in 1..(k - 1) : p[t][j] = c

\* Every call op of p on the name is by thread t, after its call k.
OnlyAfter(p, t, k, op, name) ==
  \A u \in DOMAIN p : \A l \in 1..Len(p[u]) :
    p[u][l].op = op /\ p[u][l].name = name => u = t /\ k < l

\* A name is published for one QP.
NamesUnique(p) ==
  \A t, u \in DOMAIN p : \A k \in 1..Len(p[t]), l \in 1..Len(p[u]) :
    (p[t][k].op = "publish" /\ p[u][l].op = "publish"
       /\ p[t][k].name = p[u][l].name) => p[t][k].qp = p[u][l].qp

\* A thread transfers on a QP that it has connected, after the other side has
\* said it is ready; it says so after connecting back.
ConnectBeforeReady(p) ==
  \A t \in DOMAIN p : \A k \in 1..Len(p[t]) : p[t][k].op = "rdma" =>
    /\ Earlier(p, t, k, Connect(p[t][k].qp, p[t][k].name))
    /\ Earlier(p, t, k, WaitTillReady(p[t][k].name))
    /\ \A u \in DOMAIN p : \A l \in 1..Len(p[u]) :
         p[u][l].op = "ready" /\ p[u][l].name = p[t][k].name =>
           \E j \in 1..(l - 1) : /\ p[u][j].op = "connect"
                                /\ Published(p, p[u][j].qp, p[u][l].name)
                                /\ Published(p, p[t][k].qp, p[u][j].name)

\* A region is cleared before its owner says or publishes what the threads
\* that transfer to it wait for.
ClearBeforeUse(p) ==
  \A t, u \in DOMAIN p : \A k \in 1..Len(p[t]), l \in 1..Len(p[u]) :
    (p[t][k].op = "rdma" /\ p[u][l].op \in {"init", "memset"}
       /\ p[t][k].region = p[u][l].region) =>
      \/ OnlyAfter(p, u, l, "ready", p[t][k].name)
      \/ /\ Earlier(p, t, k, GetPublished(p[t][k].attr))
         /\ OnlyAfter(p, u, l, "publish", p[t][k].attr)

\* A datagram QP that others send to unasked is published with RECVs posted.
RecvBeforePublish(p) ==
  \A t \in DOMAIN p : \A k \in 1..Len(p[t]) : p[t][k].op = "send" =>
    /\ Earlier(p, t, k, GetPublished(p[t][k].name))
    /\ \A u \in DOMAIN p : \A l \in 1..Len(p[u]) :
         p[u][l].op = "publish" /\ p[u][l].name = p[t][k].name =>
           /\ Earlier(p, u, l, PostRecvs(p[u][l].qp))
           /\ \E j \in 1..(l - 1) : /\ p[u][j].op = "init"
                                   /\ p[u][l].qp \in p[u][j].dgram

Disciplined(p) ==
  /\ \A t \in DOMAIN p : Len(p[t]) \in Nat
  /\ NamesUnique(p)
  /\ ConnectBeforeReady(p)
  /\ ClearBeforeUse(p)
  /\ RecvBeforePublish(p)

ASSUME ProgramsAssumption == \A p \in Programs : Disciplined(p)
=============================================================================
