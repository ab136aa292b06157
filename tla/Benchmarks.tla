----------------------------- MODULE Benchmarks -----------------------------
(***************************************************************************)
(* The set-up of every benchmark, as a program of Handshake: the libhrd    *)
(* calls of each of its threads in their order, up to the first transfer   *)
(* on each queue pair.  Numbers of threads, ports and QPs are parameters.  *)
(***************************************************************************)
EXTENDS Handshake
LOCAL INSTANCE SequencesExt

\* for (i = 0; i < n; i++) body(i)
For(n, body(_)) == FlattenSeq([k \in 1..n |-> body(k - 1)])

Below(n) == 0..(n - 1)

\* A thread, its QPs (by control block) and its buffers.
Thread(role, i) == <<role, i>>
Conn(t, cb, n) == <<t, "conn", cb, n>>
Dgram(t, n) == <<t, "dgram", n>>
Host(role, i) == <<role, i>>
Shm(host, key) == <<"shm", host, key>>
Heap(t) == <<"heap", t>>

\* The threads that main() starts for one role are one process, all clients
\* being on one machine; rc-swarm names the process of each thread.
ProcessOf(t) == IF Len(t) = 3 THEN <<t[1], t[2]>> ELSE <<t[1]>>

----------------------------------------------------------------------------
(* HERD, and ws-sequencer with the same set-up. *)

MASTER_SHM_KEY == 24

RequestRegion == Shm(Host("server", 0), MASTER_SHM_KEY)

Master == Thread("master", 0)

\* Every port's control block has a QP for every client; all use one region,
\* which is zeroed again for every port.
HerdPort(i, nc) ==
  <<CtrlBlkInit({Conn(Master, i, j) : j \in Below(nc)}, {},
                IF i = 0 THEN RequestRegion ELSE NoRegion),
    Memset(RequestRegion)>>
  \o For(nc, LAMBDA j : <<Publish(Conn(Master, i, j), <<"master", i, j>>)>>)

\* Client i is served by port i % np.
HerdConnect(i, np) ==
  <<GetPublished(<<"client-conn", i>>),
    Connect(Conn(Master, i % np, i), <<"client-conn", i>>),
    PublishReady(<<"master", i % np, i>>)>>

HerdMaster(nc, np) ==
  For(np, LAMBDA i : HerdPort(i, nc)) \o For(nc, LAMBDA i : HerdConnect(i, np))

HerdClient(i, np) ==
  LET c == Thread("client", i)
      mstr_qp_name == <<"master", i % np, i>>
  IN <<CtrlBlkInit({Conn(c, 0, 0)}, {Dgram(c, 0)}, Heap(c)),
       Publish(Conn(c, 0, 0), <<"client-conn", i>>),
       Publish(Dgram(c, 0), <<"client-dgram", i>>),
       GetPublished(mstr_qp_name),
       Connect(Conn(c, 0, 0), mstr_qp_name),
       WaitTillReady(mstr_qp_name),
       PostRecvs(Dgram(c, 0)),
       Rdma(Conn(c, 0, 0), mstr_qp_name, mstr_qp_name,
            RequestRegion)>>

HerdWorker(w, nc, np) ==
  LET k == Thread("worker", w)
  IN For(np, LAMBDA i : <<CtrlBlkInit({}, {Dgram(k, i)}, NoRegion)>>)
     \o <<ShmGet(RequestRegion)>>
     \o For(nc, LAMBDA i : <<GetPublished(<<"client-dgram", i>>)>>)

WsSequencerMaster(nc, np) == HerdMaster(nc, np)

WsSequencerClient(i, np) == HerdClient(i, np)

WsSequencerWorker(w, nc, np) == HerdWorker(w, nc, np)

Threads(role, n) == {Thread(role, i) : i \in Below(n)}

Herd(nc, np, nw) ==
  [t \in {Master} \cup Threads("client", nc)
            \cup Threads("worker", nw) |->
     IF t[1] = "master" THEN HerdMaster(nc, np)
     ELSE IF t[1] = "client" THEN HerdClient(t[2], np)
     ELSE HerdWorker(t[2], nc, np)]

WsSequencer(nc, np, nw) ==
  [t \in {Master} \cup Threads("client", nc)
            \cup Threads("worker", nw) |->
     IF t[1] = "master" THEN WsSequencerMaster(nc, np)
     ELSE IF t[1] = "client" THEN WsSequencerClient(t[2], np)
     ELSE WsSequencerWorker(t[2], nc, np)]

----------------------------------------------------------------------------
(* ws-echo: two control blocks with a region and half of the QPs each. *)

EchoRegion(i) == Shm(Host("server", 0), MASTER_SHM_KEY + i)

WsEchoMaster(nc) ==
  For(2, LAMBDA i :
    <<CtrlBlkInit({Conn(Master, i, j) : j \in Below(nc \div 2)}, {},
                  EchoRegion(i)),
      Memset(EchoRegion(i))>>)
  \o For(nc, LAMBDA i : <<Publish(Conn(Master, i % 2, i \div 2), <<"master", i>>)>>)
  \o For(nc, LAMBDA i :
       <<GetPublished(<<"client-conn", i>>),
         Connect(Conn(Master, i % 2, i \div 2), <<"client-conn", i>>),
         PublishReady(<<"master", i>>)>>)

WsEchoClient(i) ==
  LET c == Thread("client", i)
  IN <<CtrlBlkInit({Conn(c, 0, 0)}, {Dgram(c, 0)}, Heap(c)),
       Publish(Conn(c, 0, 0), <<"client-conn", i>>),
       Publish(Dgram(c, 0), <<"client-dgram", i>>),
       GetPublished(<<"master", i>>),
       Connect(Conn(c, 0, 0), <<"master", i>>),
       WaitTillReady(<<"master", i>>),
       PostRecvs(Dgram(c, 0)),
       Rdma(Conn(c, 0, 0), <<"master", i>>, <<"master", i>>,
            EchoRegion(i % 2))>>

WsEchoWorker(w, nc) ==
  LET k == Thread("worker", w)
  IN For(2, LAMBDA i : <<CtrlBlkInit({}, {Dgram(k, i)}, NoRegion),
                         ShmGet(EchoRegion(i))>>)
     \o For(nc, LAMBDA i : <<GetPublished(<<"client-dgram", i>>)>>)

WsEcho(nc, nw) ==
  [t \in {Master} \cup Threads("client", nc) \cup Threads("worker", nw) |->
     IF t[1] = "master" THEN WsEchoMaster(nc)
     ELSE IF t[1] = "client" THEN WsEchoClient(t[2])
     ELSE WsEchoWorker(t[2], nc)]

----------------------------------------------------------------------------
(* Benchmarks with server and client threads. *)

Pairs(ns, nc, server(_), client(_)) ==
  [t \in Threads("server", ns) \cup Threads("client", nc) |->
     IF t[1] = "server" THEN server(t[2]) ELSE client(t[2])]

Server(i) == Thread("server", i)
Client(i) == Thread("client", i)

(* atomics-sequencer *)

kAppServerSHMKey == 24

AtomicsServer(nc, np, qps) ==
  For(np, LAMBDA i :
    <<CtrlBlkInit({Conn(Server(0), i, j) : j \in Below(nc * qps)}, {},
                  IF i = 0 THEN Shm(Host("server", 0), kAppServerSHMKey) ELSE NoRegion)>>
    \o For(nc * qps, LAMBDA j :
         <<Publish(Conn(Server(0), i, j), <<"server", i, j>>)>>))
  \o For(nc, LAMBDA i : For(qps, LAMBDA j :
       <<GetPublished(<<"client", i, j>>),
         Connect(Conn(Server(0), i % np, i * qps + j), <<"client", i, j>>),
         PublishReady(<<"server", i % np, i * qps + j>>)>>))

\* The client asks for the NUMA node 9 and gives no SHM key: heap memory when
\* 9 is the invalid node of libhrd, a hugepage buffer without a key otherwise.
AtomicsClient(i, np, qps, invalidNode) ==
  LET c == Client(i)
  IN <<CtrlBlkInit({Conn(c, 0, j) : j \in Below(qps)}, {},
                   IF invalidNode = 9 THEN Heap(c) ELSE BadKey),
       Memset(Heap(c))>>
     \o For(qps, LAMBDA j : LET srv_name == <<"server", i % np, i * qps + j>> IN
          <<Publish(Conn(c, 0, j), <<"client", i, j>>),
            GetPublished(srv_name),
            Connect(Conn(c, 0, j), srv_name),
            WaitTillReady(srv_name)>>)
     \o For(qps, LAMBDA j : LET srv_name == <<"server", i % np, i * qps + j>> IN
          <<Rdma(Conn(c, 0, j), srv_name, srv_name,
                 Shm(Host("server", 0), kAppServerSHMKey))>>)

AtomicsSequencer(nc, np, qps, invalidNode) ==
  Pairs(1, nc, LAMBDA i : AtomicsServer(nc, np, qps),
        LAMBDA i : AtomicsClient(i, np, qps, invalidNode))

(* One server and one client thread per number: rw-tput-sender (several QPs),
   rw-tput-receiver, rw-allsig. *)

RwSenderServer(i, qps) ==
  LET s == Server(i)
  IN <<CtrlBlkInit({Conn(s, 0, j) : j \in Below(qps)}, {}, Heap(s)),
       Memset(Heap(s))>>
     \o For(qps, LAMBDA j : <<Publish(Conn(s, 0, j), <<"server", i, j>>)>>)
     \o For(qps, LAMBDA j : <<GetPublished(<<"client", i, j>>),
                              Connect(Conn(s, 0, j), <<"client", i, j>>),
                              WaitTillReady(<<"client", i, j>>)>>)
     \o For(qps, LAMBDA j :
          <<Rdma(Conn(s, 0, j), <<"client", i, j>>, <<"client", i, j>>,
                 Heap(Client(i)))>>)

RwSenderClient(i, qps) ==
  LET c == Client(i)
  IN <<CtrlBlkInit({Conn(c, 0, j) : j \in Below(qps)}, {}, Heap(c))>>
     \o For(qps, LAMBDA j : <<Publish(Conn(c, 0, j), <<"client", i, j>>)>>)
     \o For(qps, LAMBDA j : <<GetPublished(<<"server", i, j>>),
                              Connect(Conn(c, 0, j), <<"server", i, j>>),
                              PublishReady(<<"client", i, j>>)>>)

RwTputSender(n, qps) ==
  Pairs(n, n, LAMBDA i : RwSenderServer(i, qps),
        LAMBDA i : RwSenderClient(i, qps))

\* The side that says it is ready, and the side that waits for it and starts.
ReadySide(t, name, remote) ==
  <<Publish(Conn(t, 0, 0), name), GetPublished(remote),
    Connect(Conn(t, 0, 0), remote), PublishReady(name)>>

StartSide(t, name, remote, region) ==
  <<Publish(Conn(t, 0, 0), name), GetPublished(remote),
    Connect(Conn(t, 0, 0), remote), WaitTillReady(remote),
    Rdma(Conn(t, 0, 0), remote, remote, region)>>

RwReceiverServer(i) ==
  <<CtrlBlkInit({Conn(Server(i), 0, 0)}, {}, Heap(Server(i)))>>
  \o ReadySide(Server(i), <<"server", i>>, <<"client", i>>)

RwReceiverClient(i) ==
  <<CtrlBlkInit({Conn(Client(i), 0, 0)}, {}, Heap(Client(i))),
    Memset(Heap(Client(i)))>>
  \o StartSide(Client(i), <<"client", i>>, <<"server", i>>, Heap(Server(i)))

RwTputReceiver(n) ==
  Pairs(n, n, LAMBDA i : RwReceiverServer(i), LAMBDA i : RwReceiverClient(i))

\* Every server thread asks for the SHM key 24.
RwAllsigServer(i) ==
  <<CtrlBlkInit({Conn(Server(i), 0, 0)}, {}, Shm(Host("server", 0), 24)),
    Memset(Shm(Host("server", 0), 24))>>
  \o StartSide(Server(i), <<"server", i>>, <<"client", i>>, Heap(Client(i)))

RwAllsigClient(i) ==
  <<CtrlBlkInit({Conn(Client(i), 0, 0)}, {}, Heap(Client(i))),
    Memset(Heap(Client(i)))>>
  \o ReadySide(Client(i), <<"client", i>>, <<"server", i>>)

RwAllsig(n) ==
  Pairs(n, n, LAMBDA i : RwAllsigServer(i), LAMBDA i : RwAllsigClient(i))

(* write-flush, write-incomplete, write-reordering: one server, one client.
   write-incomplete runs both in one process, on heap buffers. *)

WriteServer(region) ==
  <<CtrlBlkInit({Conn(Server(0), 0, 0)}, {}, region), Memset(region)>>
  \o ReadySide(Server(0), <<"server">>, <<"client">>)

WriteClient(own, region) ==
  <<CtrlBlkInit({Conn(Client(0), 0, 0)}, {}, own)>>
  \o StartSide(Client(0), <<"client">>, <<"server">>, region)

WriteFlush ==
  Pairs(1, 1, LAMBDA i : WriteServer(Shm(Host("server", 0), 3185)),
        LAMBDA i : WriteClient(Shm(Host("client", 0), 3185), Shm(Host("server", 0), 3185)))

WriteIncomplete ==
  Pairs(1, 1, LAMBDA i : WriteServer(Heap(Server(0))),
        LAMBDA i : WriteClient(Heap(Client(0)), Heap(Server(0))))

WriteReordering == WriteFlush

----------------------------------------------------------------------------
(* sender-scalability: every server thread is connected to every client; with
   XRC, to the first client thread of every machine (clt client threads each),
   which receives for the SRQs of the others. *)

kAppBaseSHMKey == 2

\* The QP, or the SRQ of a client thread that has none of its own.
XrcQp(c, i, xrc, clt) ==
  IF xrc /\ c % clt # 0 THEN <<Client(c), "srq", i>> ELSE Conn(Client(c), 0, i)

ScalabilityClientRegion(c, clt) == Shm(Host("client", c \div clt), kAppBaseSHMKey + (c % clt))

ScalabilityServer(s, nc, clt, xrc) ==
  LET num_qps == IF xrc THEN nc \div clt ELSE nc
      region == Shm(Host("server", 0), kAppBaseSHMKey + s)
      first(i) == xrc => i % clt = 0
  IN <<CtrlBlkInit({Conn(Server(s), 0, i) : i \in Below(num_qps)}, {}, region),
       Memset(region)>>
     \o For(num_qps, LAMBDA i :
          <<Publish(Conn(Server(s), 0, i),
                    <<"server", s, IF xrc THEN i * clt ELSE i>>)>>)
     \o For(nc, LAMBDA i :
          <<GetPublished(<<"client", i, s>>)>> \o
          IF first(i) THEN <<Connect(Conn(Server(s), 0, i), <<"client", i, s>>),
                             WaitTillReady(<<"client", i, s>>)>>
                      ELSE << >>)
     \o For(nc, LAMBDA i :
          <<Rdma(Conn(Server(s), 0, IF xrc THEN i \div clt ELSE i),
                 <<"client", IF xrc THEN i - (i % clt) ELSE i, s>>,
                 <<"client", i, s>>, ScalabilityClientRegion(i, clt))>>)

ScalabilityClient(c, ns, clt, xrc) ==
  <<CtrlBlkInit({XrcQp(c, i, xrc, clt) : i \in Below(ns)}, {},
                ScalabilityClientRegion(c, clt)),
    Memset(ScalabilityClientRegion(c, clt))>>
  \o For(ns, LAMBDA i : <<Publish(XrcQp(c, i, xrc, clt), <<"client", c, i>>)>>)
  \o IF xrc /\ c % clt # 0
       THEN << >>
       ELSE For(ns, LAMBDA i : <<GetPublished(<<"server", i, c>>),
                                 Connect(Conn(Client(c), 0, i), <<"server", i, c>>),
                                 PublishReady(<<"client", c, i>>)>>)

SenderScalability(ns, nc, machines, xrc) ==
  LET clt == nc \div machines
  IN Pairs(ns, nc, LAMBDA s : ScalabilityServer(s, nc, clt, xrc),
           LAMBDA c : ScalabilityClient(c, ns, clt, xrc))

----------------------------------------------------------------------------
(* rc-swarm: np processes of nt threads; thread t of process p has a QP for
   every process and VM, and connects it to the same thread there. *)

kAppWorkerBaseSHMKey == 24

SwarmThread(p, t) == <<"worker", p, t>>
get_qp_name_local(p, t, i, np) == <<"on", p, t, i % np, i \div np>>
get_qp_name_remote(p, t, i, np) == <<"on", i % np, t, p, i \div np>>

\* The loop waits for the remote QP before it says that its own is ready.
SwarmFindWaits(p, t, i, np) ==
  <<GetPublished(get_qp_name_remote(p, t, i, np)),
    Connect(Conn(SwarmThread(p, t), 0, i), get_qp_name_remote(p, t, i, np)),
    WaitTillReady(get_qp_name_remote(p, t, i, np)),
    PublishReady(get_qp_name_local(p, t, i, np))>>

SwarmFind(p, t, i, np) ==
  <<GetPublished(get_qp_name_remote(p, t, i, np)),
    Connect(Conn(SwarmThread(p, t), 0, i), get_qp_name_remote(p, t, i, np)),
    PublishReady(get_qp_name_local(p, t, i, np))>>

SwarmWorker(p, t, np, nt, vms) ==
  LET w == SwarmThread(p, t)
      region(q) == Shm(Host("process", q), kAppWorkerBaseSHMKey + q * nt + t)
      remote(body(_)) ==
        For(np * vms, LAMBDA i : IF i % np = p THEN << >> ELSE body(i))
  IN <<CtrlBlkInit({Conn(w, 0, i) : i \in Below(np * vms)}, {}, region(p)),
       Memset(region(p))>>
     \o For(np * vms, LAMBDA i :
          <<Publish(Conn(w, 0, i), get_qp_name_local(p, t, i, np))>>)
     \o remote(LAMBDA i : SwarmFind(p, t, i, np))
     \o remote(LAMBDA i : <<WaitTillReady(get_qp_name_remote(p, t, i, np))>>)
     \o remote(LAMBDA i :
          <<Rdma(Conn(w, 0, i), get_qp_name_remote(p, t, i, np),
                 get_qp_name_remote(p, t, i, np), region(i % np))>>)

RcSwarm(np, nt, vms) ==
  [w \in {SwarmThread(p, t) : p \in Below(np), t \in Below(nt)} |->
     SwarmWorker(w[2], w[3], np, nt, vms)]

----------------------------------------------------------------------------
(* Datagram benchmarks. *)

\* ss-echo and ss-sequencer: the server fills its RECV queue and publishes;
\* a client posts the RECV for the answer and then the SEND.
SsServer(i) ==
  <<CtrlBlkInit({}, {Dgram(Server(i), 0)}, Heap(Server(i))),
    Memset(Heap(Server(i))),
    PostRecvs(Dgram(Server(i), 0)),
    Publish(Dgram(Server(i), 0), <<"server", i>>)>>

SsClient(c, ns) ==
  <<CtrlBlkInit({}, {Dgram(Client(c), 0)}, Heap(Client(c))),
    Memset(Heap(Client(c))),
    Publish(Dgram(Client(c), 0), <<"client", c>>),
    GetPublished(<<"server", c % ns>>),
    PostRecvs(Dgram(Client(c), 0)),
    Send(Dgram(Client(c), 0), <<"server", c % ns>>)>>

SsEcho(ns, nc) == Pairs(ns, nc, SsServer, LAMBDA c : SsClient(c, ns))

SsSequencerServer(i) == SsServer(i)

SsSequencerClient(c, ns) == SsClient(c, ns)

SsSequencer(ns, nc) ==
  Pairs(ns, nc, SsSequencerServer, LAMBDA c : SsSequencerClient(c, ns))

UdSenderServer(s, nc) ==
  <<CtrlBlkInit({}, {Dgram(Server(s), 0)}, Heap(Server(s))),
    Memset(Heap(Server(s)))>>
  \o For(nc, LAMBDA i : <<GetPublished(<<"client", i>>)>>)
  \o For(nc, LAMBDA i : <<Send(Dgram(Server(s), 0), <<"client", i>>)>>)

UdSenderClient(c) ==
  <<CtrlBlkInit({}, {Dgram(Client(c), 0)}, Heap(Client(c))),
    PostRecvs(Dgram(Client(c), 0)),
    Publish(Dgram(Client(c), 0), <<"client", c>>)>>

UdSender(ns, nc) == Pairs(ns, nc, LAMBDA s : UdSenderServer(s, nc), UdSenderClient)

UdReceiverServer(s, qps) ==
  <<CtrlBlkInit({}, {Dgram(Server(s), j) : j \in Below(qps)}, Heap(Server(s))),
    Memset(Heap(Server(s)))>>
  \o For(qps, LAMBDA j : <<PostRecvs(Dgram(Server(s), j)),
                           Publish(Dgram(Server(s), j), <<"server", s, j>>)>>)

UdReceiverClient(c, ns, qps) ==
  <<CtrlBlkInit({}, {Dgram(Client(c), 0)}, Heap(Client(c))),
    Memset(Heap(Client(c)))>>
  \o For(qps, LAMBDA j : <<GetPublished(<<"server", c % ns, j>>)>>)
  \o For(qps, LAMBDA j : <<Send(Dgram(Client(c), 0), <<"server", c % ns, j>>)>>)

UdReceiver(ns, nc, qps) ==
  Pairs(ns, nc, LAMBDA s : UdReceiverServer(s, qps),
        LAMBDA c : UdReceiverClient(c, ns, qps))
============================================================================
