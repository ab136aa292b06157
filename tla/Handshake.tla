----------------------------- MODULE Handshake -----------------------------
(***************************************************************************)
(* How the threads of a benchmark find and connect each other: through a   *)
(* registry (memcached), the queue-pair states, and the shared memory      *)
(* segments of the server machine.  A benchmark is a program: for every    *)
(* thread the sequence of libhrd calls it makes before its data path, and  *)
(* the first transfer it makes on each queue pair.  The actions are the    *)
(* libhrd calls; Benchmarks.tla holds the programs.                        *)
(***************************************************************************)
EXTENDS Naturals, Sequences

CONSTANTS Programs,   \* the programs: functions from threads to calls
          Process(_), \* the process a thread runs in
          NoRegion,   \* no buffer, or one that was given to the call
          BadKey      \* a hugepage buffer asked for with the SHM key -1

VARIABLES
  prog,      \* the program being run
  pc,        \* per thread, its next call
  dead,      \* threads in which an assert() has failed
  registry,  \* pairs <<name, qp>>: the memcached entries of the QPs
  ready,     \* names with an entry under the reserved prefix
  got,       \* triples <<thread, name, qp>>: the entries a thread has read
  inited,    \* connected QPs, from their creation on
  rts,       \* QPs in the state RTS
  peer,      \* pairs <<qp, remote qp>> of the connected QPs
  recvs,     \* QPs whose RECV queue has been filled
  regions,   \* SHM segments that exist
  written    \* regions some remote thread has transferred to

vars == <<prog, pc, dead, registry, ready, got, inited, rts, peer, recvs,
          regions, written>>

----------------------------------------------------------------------------
(* The calls, of libhrd and of libhrd_cpp, its C++ version. *)

CtrlBlkInit(conn, dgram, region) ==
  [op |-> "init", conn |-> conn, dgram |-> dgram, region |-> region]
Memset(region) == [op |-> "memset", region |-> region]
ShmGet(region) == [op |-> "shmget", region |-> region]
PostRecvs(qp) == [op |-> "recv", qp |-> qp]
Publish(qp, name) == [op |-> "publish", qp |-> qp, name |-> name]
GetPublished(name) == [op |-> "get", name |-> name]
Connect(qp, name) == [op |-> "connect", qp |-> qp, name |-> name]
PublishReady(name) == [op |-> "ready", name |-> name]
WaitTillReady(name) == [op |-> "wait", name |-> name]
Rdma(qp, name, attr, region) ==
  [op |-> "rdma", qp |-> qp, name |-> name, attr |-> attr, region |-> region]
Send(qp, name) == [op |-> "send", qp |-> qp, name |-> name]

AllThreads == UNION {DOMAIN p : p \in Programs}

----------------------------------------------------------------------------

Init ==
  /\ prog \in Programs
  /\ pc = [t \in DOMAIN prog |-> 1]
  /\ dead = {} /\ registry = {} /\ ready = {} /\ got = {}
  /\ inited = {} /\ rts = {} /\ peer = {} /\ recvs = {}
  /\ regions = {} /\ written = {}

\* abort() ends the whole process of the thread whose assert() failed.
Aborted(t) == \E u \in dead : Process(u) = Process(t)

Running(t) == t \in DOMAIN prog /\ ~ Aborted(t) /\ pc[t] <= Len(prog[t])

At(t, op) == Running(t) /\ prog[t][pc[t]].op = op

Call(t) == prog[t][pc[t]]

Advance(t) == pc' = [pc EXCEPT ![t] = @ + 1] /\ UNCHANGED <<prog, dead>>

\* Connected QPs are created in INIT, datagram QPs go on to RTS.
hrd_create_conn_qps(qps) == inited' = inited \cup qps

hrd_create_dgram_qps(qps) == rts' = rts \cup qps

\* assert(buf_shm_key >= 1), and IPC_EXCL: the segment must not exist yet.
hrd_malloc_socket_fails(region) == region \in regions \cup {BadKey}

hrd_malloc_socket(region) == regions' = regions \cup ({region} \ {NoRegion})

\* The control block: its QPs and its buffer.
hrd_ctrl_blk_init(t) ==
  /\ At(t, "init")
  /\ IF hrd_malloc_socket_fails(Call(t).region)
       THEN /\ dead' = dead \cup {t}
            /\ UNCHANGED <<prog, pc, inited, rts, regions>>
       ELSE /\ hrd_create_conn_qps(Call(t).conn)
            /\ hrd_create_dgram_qps(Call(t).dgram)
            /\ hrd_malloc_socket(Call(t).region)
            /\ Advance(t)
  /\ UNCHANGED <<registry, ready, got, peer, recvs, written>>

memset(t) ==
  /\ At(t, "memset")
  /\ Advance(t)
  /\ UNCHANGED <<registry, ready, got, inited, rts, peer, recvs, regions,
                 written>>

\* A worker maps the master's request region; assert(sid != -1).
shmget(t) ==
  /\ At(t, "shmget")
  /\ IF Call(t).region \in regions
       THEN Advance(t)
       ELSE dead' = dead \cup {t} /\ UNCHANGED <<prog, pc>>
  /\ UNCHANGED <<registry, ready, got, inited, rts, peer, recvs, regions,
                 written>>

hrd_post_dgram_recv(t) ==
  /\ At(t, "recv")
  /\ recvs' = recvs \cup {Call(t).qp}
  /\ Advance(t)
  /\ UNCHANGED <<registry, ready, got, inited, rts, peer, regions, written>>

\* memcached_set replaces the entry of the key.
hrd_publish(name, qp) ==
  registry' = {e \in registry : e[1] # name} \cup {<<name, qp>>}

\* assert(n < num_qps)
hrd_publish_qp(t) ==
  /\ At(t, "publish")
  /\ IF Call(t).qp \in inited \cup rts
       THEN hrd_publish(Call(t).name, Call(t).qp) /\ Advance(t)
       ELSE /\ dead' = dead \cup {t}
            /\ UNCHANGED <<prog, pc, registry>>
  /\ UNCHANGED <<ready, got, inited, rts, peer, recvs, regions, written>>

\* The polling loop around hrd_get_published_qp.
hrd_get_published_qp(t) ==
  /\ At(t, "get")
  /\ \E e \in registry :
       /\ e[1] = Call(t).name
       /\ got' = got \cup {<<t, e[1], e[2]>>}
  /\ Advance(t)
  /\ UNCHANGED <<registry, ready, inited, rts, peer, recvs, regions, written>>

\* hrd_connect_qp without the second ibv_modify_qp: the QP stays in RTR.
hrd_connect_qp_rtr(t) ==
  /\ At(t, "connect")
  /\ \E g \in got :
       /\ g[1] = t /\ g[2] = Call(t).name
       /\ peer' = peer \cup {<<Call(t).qp, g[3]>>}
  /\ Advance(t)
  /\ UNCHANGED <<registry, ready, got, inited, rts, recvs, regions, written>>

\* RTR, then RTS, with the QP number read from the registry;
\* assert(n < num_qps), and ibv_modify_qp refuses a QP that is not in INIT.
hrd_connect_qp(t) ==
  /\ At(t, "connect")
  /\ \E g \in got :
       /\ g[1] = t /\ g[2] = Call(t).name
       /\ IF Call(t).qp \in inited \ rts
            THEN /\ rts' = rts \cup {Call(t).qp}
                 /\ peer' = peer \cup {<<Call(t).qp, g[3]>>}
                 /\ Advance(t)
            ELSE /\ dead' = dead \cup {t}
                 /\ UNCHANGED <<prog, pc, rts, peer>>
  /\ UNCHANGED <<registry, ready, got, inited, recvs, regions, written>>

\* The entry under the reserved prefix leaves the QP's own entry alone.
hrd_publish_ready(t) ==
  /\ At(t, "ready")
  /\ ready' = ready \cup {Call(t).name}
  /\ Advance(t)
  /\ UNCHANGED <<registry, got, inited, rts, peer, recvs, regions, written>>

\* hrd_wait_till_ready gives up after some tries instead of starting over.
hrd_wait_a_while(t) ==
  /\ At(t, "wait")
  /\ Advance(t)
  /\ UNCHANGED <<registry, ready, got, inited, rts, peer, recvs, regions,
                 written>>

hrd_wait_till_ready(t) ==
  /\ At(t, "wait")
  /\ Call(t).name \in ready
  /\ Advance(t)
  /\ UNCHANGED <<registry, ready, got, inited, rts, peer, recvs, regions,
                 written>>

\* The first READ, WRITE or atomic of the data path on a connected QP.
ibv_post_rdma(t) ==
  /\ At(t, "rdma")
  /\ written' = written \cup ({Call(t).region} \ {NoRegion})
  /\ Advance(t)
  /\ UNCHANGED <<registry, ready, got, inited, rts, peer, recvs, regions>>

\* The first unsolicited SEND of the data path on a datagram QP.
ibv_post_ud(t) ==
  /\ At(t, "send")
  /\ Advance(t)
  /\ UNCHANGED <<registry, ready, got, inited, rts, peer, recvs, regions,
                 written>>

Step(t) ==
  \/ hrd_ctrl_blk_init(t) \/ memset(t) \/ shmget(t)
  \/ hrd_post_dgram_recv(t) \/ hrd_publish_qp(t)
  \/ hrd_get_published_qp(t) \/ hrd_connect_qp(t) \/ hrd_publish_ready(t)
  \/ hrd_wait_till_ready(t) \/ ibv_post_rdma(t) \/ ibv_post_ud(t)

Next == \E t \in AllThreads : Step(t)

Spec == Init /\ [][Next]_vars

LiveSpec == Spec /\ \A t \in AllThreads : WF_vars(Step(t))

----------------------------------------------------------------------------
(* Properties. *)

\* The text of program p holds a call that publishes the QP under the name.
Published(p, qp, name) ==
  \E t \in DOMAIN p : \E k \in 1..Len(p[t]) :
    p[t][k].op = "publish" /\ p[t][k].qp = qp /\ p[t][k].name = name

TypeOK ==
  /\ prog \in Programs
  /\ DOMAIN pc = DOMAIN prog
  /\ \A t \in DOMAIN prog : pc[t] \in 1..(Len(prog[t]) + 1)
  /\ dead \subseteq DOMAIN prog
  /\ \A e \in registry : Published(prog, e[2], e[1])
  /\ \A g \in got : Published(prog, g[3], g[2])
  /\ \A c \in peer : c[1] \in inited \cap rts

\* Whoever transfers on a connected QP (the data paths after
\* hrd_wait_till_ready) finds both ends connected to each other and in RTS,
\* and whoever sends to a datagram QP finds RECVs there: neither a transfer
\* that the remote NIC would refuse nor a datagram it would drop.
SendersConnected ==
  \A t \in DOMAIN prog : \A k \in 1..(pc[t] - 1) :
    /\ prog[t][k].op = "rdma" =>
         \E c \in peer : /\ c[1] = prog[t][k].qp
                         /\ <<c[2], c[1]>> \in peer
                         /\ {c[1], c[2]} \subseteq rts
    /\ prog[t][k].op = "send" =>
         \E g \in got : /\ g[1] = t /\ g[2] = prog[t][k].name
                        /\ g[3] \in rts \cap recvs

\* The buffer of a control block is never allocated or zeroed (the memset
\* after hrd_ctrl_blk_init, which HERD's master repeats on the shared region
\* for every port) once somebody has written to it.
RequestsKept ==
  [][\A t \in AllThreads :
       hrd_ctrl_blk_init(t) \/ memset(t) => Call(t).region \notin written]_vars

\* The polling loops of the handshake all end: every thread reaches its data
\* path, except those of a process in which a worker maps the request region
\* before it exists; such a process holds up nobody else.
HandshakeCompletes ==
  <>[](\A t \in DOMAIN prog :
         \/ pc[t] > Len(prog[t])
         \/ \E u \in dead : Process(u) = Process(t) /\ Call(u).op = "shmget")

\* No assert() of hrd_ctrl_blk_init, hrd_connect_qp or hrd_publish_conn_qp
\* fails.
NoAssertFails == \A t \in dead : Call(t).op = "shmget"
============================================================================
