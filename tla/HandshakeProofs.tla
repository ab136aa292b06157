--------------------------- MODULE HandshakeProofs ---------------------------
(***************************************************************************)
(* The safety properties of Handshake for every set of programs that keep  *)
(* the discipline.  The inductive invariant says what each executed call   *)
(* has left behind, and that what is in the registry, in the hands of a    *)
(* thread, ready or written was put there by an executed call.             *)
(***************************************************************************)
EXTENDS Discipline, TLAPS

\* Thread t has executed its call k.
Done(t, k) == t \in DOMAIN prog /\ k \in 1..(pc[t] - 1)

DonePublish(qp, name) ==
  \E t, k : /\ Done(t, k)
            /\ prog[t][k].op = "publish"
            /\ prog[t][k].qp = qp
            /\ prog[t][k].name = name

DoneReady(name) ==
  \E t, k : Done(t, k) /\ prog[t][k].op = "ready" /\ prog[t][k].name = name

DoneRdma(region) ==
  \E t, k : Done(t, k) /\ prog[t][k].op = "rdma" /\ prog[t][k].region = region

\* Where each thread stands.
PcInv ==
  /\ prog \in Programs
  /\ pc = [t \in DOMAIN prog |-> pc[t]]
  /\ \A t \in DOMAIN prog : pc[t] \in 1..(Len(prog[t]) + 1)
  /\ dead \subseteq DOMAIN prog

\* What is there was put there by an executed call.
SourceInv ==
  /\ \A e \in registry : DonePublish(e[2], e[1])
  /\ \A g \in got : DonePublish(g[3], g[2])
  /\ \A n \in ready : DoneReady(n)
  /\ \A r \in written : r # NoRegion /\ DoneRdma(r)
  /\ \A c \in peer : c[1] \in inited \cap rts

\* What an executed call has left behind.
EffectInv ==
  \A t, k : Done(t, k) =>
    /\ prog[t][k].op = "init" => prog[t][k].dgram \subseteq rts
    /\ prog[t][k].op = "recv" => prog[t][k].qp \in recvs
    /\ prog[t][k].op = "wait" => prog[t][k].name \in ready
    /\ prog[t][k].op = "get" =>
         \E g \in got : g[1] = t /\ g[2] = prog[t][k].name
    /\ prog[t][k].op = "connect" =>
         \E g \in got : /\ g[2] = prog[t][k].name
                        /\ prog[t][k].qp \in rts
                        /\ <<prog[t][k].qp, g[3]>> \in peer

IInv == PcInv /\ SourceInv /\ EffectInv

\* Initially no call has been executed.
LEMMA InitInv == Init => IInv
<1> SUFFICES ASSUME Init PROVE IInv
  OBVIOUS
<1>1. \A t \in DOMAIN prog : Len(prog[t]) \in Nat
  BY ProgramsAssumption DEF Init, Disciplined
<1>2. PcInv
  BY <1>1 DEF Init, PcInv
<1>3. SourceInv
  BY DEF Init, SourceInv
<1>4. \A t, k : ~Done(t, k)
  BY DEF Init, Done
<1>5. EffectInv
  BY <1>4 DEF EffectInv
<1> QED BY <1>2, <1>3, <1>5 DEF IInv

\* A step in which thread t goes on executes its call and no other.
LEMMA AdvanceDone ==
  ASSUME PcInv, NEW t, Running(t), Advance(t)
  PROVE  /\ PcInv'
         /\ \A k : k = pc[t] => Done(t, k)'
         /\ \A u, k : Done(u, k) => Done(u, k)'
         /\ \A u, k : Done(u, k)' => Done(u, k) \/ (u = t /\ k = pc[t])
<1>1. \A u \in DOMAIN prog : Len(prog[u]) \in Nat
  BY ProgramsAssumption DEF PcInv, Disciplined
<1>2. /\ prog' = prog /\ dead' = dead /\ t \in DOMAIN prog
      /\ pc' = [pc EXCEPT ![t] = pc[t] + 1] /\ DOMAIN pc = DOMAIN prog
      /\ pc[t] \in Nat /\ pc[t] >= 1 /\ pc[t] <= Len(prog[t])
  BY <1>1 DEF PcInv, Running, Advance
<1>3. \A u \in DOMAIN prog : pc'[u] = IF u = t THEN pc[t] + 1 ELSE pc[u]
  BY <1>2
<1>4. PcInv'
  <2>1. pc' = [u \in DOMAIN prog' |-> pc'[u]]
    BY <1>2
  <2>2. \A u \in DOMAIN prog' : pc'[u] \in 1..(Len(prog'[u]) + 1)
    BY <1>1, <1>2, <1>3 DEF PcInv
  <2> QED BY <2>1, <2>2, <1>2 DEF PcInv
<1>5. \A u \in DOMAIN prog : pc[u] \in Nat
  BY <1>1 DEF PcInv
<1> QED BY <1>2, <1>3, <1>4, <1>5 DEF Done

\* The facts a step keeps when it executes call pc[t] of thread t, adds to the
\* sets and justifies what it adds.
LEMMA KeepsInv ==
  ASSUME IInv, NEW t, Running(t), Advance(t),
         registry' \subseteq registry \cup {<<Call(t).name, Call(t).qp>>},
         registry' # registry => Call(t).op = "publish",
         got \subseteq got', inited \subseteq inited', rts \subseteq rts',
         peer \subseteq peer', ready \subseteq ready', recvs \subseteq recvs',
         \A g \in got' : g \in got \/ DonePublish(g[3], g[2]),
         \A n \in ready' : n \in ready \/ (Call(t).op = "ready" /\ n = Call(t).name),
         \A r \in written' :
           \/ r \in written
           \/ Call(t).op = "rdma" /\ r = Call(t).region /\ r # NoRegion,
         \A c \in peer' : c \in peer \/ c[1] \in inited' \cap rts',
         Call(t).op = "init" => Call(t).dgram \subseteq rts',
         Call(t).op = "recv" => Call(t).qp \in recvs',
         Call(t).op = "wait" => Call(t).name \in ready',
         Call(t).op = "get" => \E g \in got' : g[1] = t /\ g[2] = Call(t).name,
         Call(t).op = "connect" =>
           \E g \in got' : /\ g[2] = Call(t).name
                           /\ Call(t).qp \in rts'
                           /\ <<Call(t).qp, g[3]>> \in peer'
  PROVE  IInv'
<1> USE DEF IInv
<1>1. PcInv'
  BY AdvanceDone
<1>2. prog' = prog
  BY DEF Advance
<1>3. /\ \A k : k = pc[t] => Done(t, k)'
      /\ \A u, k : Done(u, k) => Done(u, k)'
      /\ \A u, k : Done(u, k)' => Done(u, k) \/ (u = t /\ k = pc[t])
  BY AdvanceDone
<1>4. SourceInv'
  <2>1. \A q, n : DonePublish(q, n) => DonePublish(q, n)'
    BY <1>2, <1>3 DEF DonePublish
  <2>2. \A e \in registry' : DonePublish(e[2], e[1])'
    <3> SUFFICES ASSUME NEW e \in registry' PROVE DonePublish(e[2], e[1])'
      OBVIOUS
    <3>1. CASE e \in registry
      BY <3>1, <2>1 DEF SourceInv
    <3>2. CASE e \notin registry
      <4>1. /\ Call(t).op = "publish"
            /\ e[1] = Call(t).name /\ e[2] = Call(t).qp
        BY <3>2
      <4> QED BY <4>1, <1>2, <1>3 DEF DonePublish, Call
    <3> QED BY <3>1, <3>2
  <2>3. \A g \in got' : DonePublish(g[3], g[2])'
    <3> SUFFICES ASSUME NEW g \in got' PROVE DonePublish(g[3], g[2])'
      OBVIOUS
    <3>1. DonePublish(g[3], g[2])
      BY DEF SourceInv
    <3> QED BY <3>1, <2>1
  <2>4. \A n \in ready' : DoneReady(n)'
    <3> SUFFICES ASSUME NEW n \in ready' PROVE DoneReady(n)'
      OBVIOUS
    <3>1. CASE n \in ready
      <4>1. DoneReady(n)
        BY <3>1 DEF SourceInv
      <4> QED BY <4>1, <1>2, <1>3 DEF DoneReady
    <3>2. CASE n \notin ready
      BY <3>2, <1>2, <1>3 DEF DoneReady, Call
    <3> QED BY <3>1, <3>2
  <2>5. \A r \in written' : r # NoRegion /\ DoneRdma(r)'
    <3> SUFFICES ASSUME NEW r \in written' PROVE r # NoRegion /\ DoneRdma(r)'
      OBVIOUS
    <3>1. CASE r \in written
      <4>1. r # NoRegion /\ DoneRdma(r)
        BY <3>1 DEF SourceInv
      <4> QED BY <4>1, <1>2, <1>3 DEF DoneRdma
    <3>2. CASE r \notin written
      BY <3>2, <1>2, <1>3 DEF DoneRdma, Call
    <3> QED BY <3>1, <3>2
  <2>6. \A c \in peer' : c[1] \in inited' \cap rts'
    BY DEF SourceInv
  <2> QED BY <2>2, <2>3, <2>4, <2>5, <2>6 DEF SourceInv
<1>5. EffectInv'
  <2> SUFFICES ASSUME NEW u, NEW k, Done(u, k)'
               PROVE  /\ prog[u][k].op = "init" => prog[u][k].dgram \subseteq rts'
                      /\ prog[u][k].op = "recv" => prog[u][k].qp \in recvs'
                      /\ prog[u][k].op = "wait" => prog[u][k].name \in ready'
                      /\ prog[u][k].op = "get" =>
                           \E g \in got' : g[1] = u /\ g[2] = prog[u][k].name
                      /\ prog[u][k].op = "connect" =>
                           \E g \in got' : /\ g[2] = prog[u][k].name
                                           /\ prog[u][k].qp \in rts'
                                           /\ <<prog[u][k].qp, g[3]>> \in peer'
    BY <1>2 DEF EffectInv
  <2>1. CASE Done(u, k)
    BY <2>1 DEF EffectInv
  <2>2. CASE u = t /\ k = pc[t]
    BY <2>2 DEF Call
  <2> QED BY <2>1, <2>2, <1>3
<1> QED BY <1>1, <1>4, <1>5

\* A failed assert stops a thread and changes nothing else.
LEMMA AbortInv ==
  ASSUME IInv, NEW t, Running(t), dead' = dead \cup {t},
         UNCHANGED <<prog, pc, registry, ready, got, inited, rts, peer, recvs,
                     regions, written>>
  PROVE  IInv'
<1>1. PcInv'
  BY DEF IInv, PcInv, Running
<1>2. SourceInv'
  BY DEF IInv, SourceInv, DonePublish, DoneReady, DoneRdma, Done
<1>3. EffectInv'
  BY DEF IInv, EffectInv, Done
<1> QED BY <1>1, <1>2, <1>3 DEF IInv

\* Every call preserves the invariant.
LEMMA NextInv == IInv /\ [Next]_vars => IInv'
<1> SUFFICES ASSUME IInv, [Next]_vars PROVE IInv'
  OBVIOUS
<1>1. CASE UNCHANGED vars
  BY <1>1 DEF vars, IInv, PcInv, SourceInv, EffectInv, DonePublish, DoneReady,
              DoneRdma, Done
<1>2. CASE Next
  <2> PICK t \in AllThreads : Step(t)
    BY <1>2 DEF Next
  <2>1. CASE hrd_ctrl_blk_init(t)
    <3>1. Running(t) /\ Call(t).op = "init"
      BY <2>1 DEF hrd_ctrl_blk_init, At, Call
    <3>2. CASE hrd_malloc_socket_fails(Call(t).region)
      BY <2>1, <3>1, <3>2, AbortInv DEF hrd_ctrl_blk_init
    <3>3. CASE ~hrd_malloc_socket_fails(Call(t).region)
      BY <2>1, <3>1, <3>3, KeepsInv DEF hrd_ctrl_blk_init, hrd_create_conn_qps,
         hrd_create_dgram_qps, IInv, SourceInv
    <3> QED BY <3>2, <3>3
  <2>2. CASE memset(t)
    <3>1. Running(t) /\ Call(t).op = "memset"
      BY <2>2 DEF memset, At, Call
    <3> QED BY <2>2, <3>1, KeepsInv DEF memset
  <2>3. CASE shmget(t)
    <3>1. Running(t) /\ Call(t).op = "shmget"
      BY <2>3 DEF shmget, At, Call
    <3>2. CASE Call(t).region \in regions
      BY <2>3, <3>1, <3>2, KeepsInv DEF shmget
    <3>3. CASE Call(t).region \notin regions
      BY <2>3, <3>1, <3>3, AbortInv DEF shmget
    <3> QED BY <3>2, <3>3
  <2>4. CASE hrd_post_dgram_recv(t)
    <3>1. Running(t) /\ Call(t).op = "recv"
      BY <2>4 DEF hrd_post_dgram_recv, At, Call
    <3> QED BY <2>4, <3>1, KeepsInv DEF hrd_post_dgram_recv
  <2>5. CASE hrd_publish_qp(t)
    <3>1. Running(t) /\ Call(t).op = "publish"
      BY <2>5 DEF hrd_publish_qp, At, Call
    <3>2. CASE Call(t).qp \in inited \cup rts
      BY <2>5, <3>1, <3>2, KeepsInv DEF hrd_publish_qp, hrd_publish
    <3>3. CASE Call(t).qp \notin inited \cup rts
      BY <2>5, <3>1, <3>3, AbortInv DEF hrd_publish_qp
    <3> QED BY <3>2, <3>3
  <2>6. CASE hrd_get_published_qp(t)
    <3>1. Running(t) /\ Call(t).op = "get"
      BY <2>6 DEF hrd_get_published_qp, At, Call
    <3>2. PICK e \in registry :
            e[1] = Call(t).name /\ got' = got \cup {<<t, e[1], e[2]>>}
      BY <2>6 DEF hrd_get_published_qp
    <3>3. \A g \in got' : g \in got \/ DonePublish(g[3], g[2])
      BY <3>2 DEF IInv, SourceInv
    <3>4. <<t, e[1], e[2]>> \in got' /\ got \subseteq got'
      BY <3>2
    <3>5. \E g \in got' : g[1] = t /\ g[2] = Call(t).name
      <4> DEFINE h == <<t, e[1], e[2]>>
      <4>1. h[1] = t /\ h[2] = e[1]
        OBVIOUS
      <4> QED BY <3>2, <3>4, <4>1
    <3>6. /\ Advance(t)
          /\ UNCHANGED <<registry, ready, inited, rts, peer, recvs, regions,
                         written>>
      BY <2>6 DEF hrd_get_published_qp
    <3> QED BY <3>1, <3>3, <3>4, <3>5, <3>6, KeepsInv
  <2>7. CASE hrd_connect_qp(t)
    <3>1. Running(t) /\ Call(t).op = "connect"
      BY <2>7 DEF hrd_connect_qp, At, Call
    <3>2. CASE Call(t).qp \in inited \ rts
      BY <2>7, <3>1, <3>2, KeepsInv DEF hrd_connect_qp
    <3>3. CASE Call(t).qp \notin inited \ rts
      BY <2>7, <3>1, <3>3, AbortInv DEF hrd_connect_qp
    <3> QED BY <3>2, <3>3
  <2>8. CASE hrd_publish_ready(t)
    <3>1. Running(t) /\ Call(t).op = "ready"
      BY <2>8 DEF hrd_publish_ready, At, Call
    <3> QED BY <2>8, <3>1, KeepsInv DEF hrd_publish_ready
  <2>9. CASE hrd_wait_till_ready(t)
    <3>1. Running(t) /\ Call(t).op = "wait"
      BY <2>9 DEF hrd_wait_till_ready, At, Call
    <3> QED BY <2>9, <3>1, KeepsInv DEF hrd_wait_till_ready
  <2>10. CASE ibv_post_rdma(t)
    <3>1. Running(t) /\ Call(t).op = "rdma"
      BY <2>10 DEF ibv_post_rdma, At, Call
    <3> QED BY <2>10, <3>1, KeepsInv DEF ibv_post_rdma
  <2>11. CASE ibv_post_ud(t)
    <3>1. Running(t) /\ Call(t).op = "send"
      BY <2>11 DEF ibv_post_ud, At, Call
    <3> QED BY <2>11, <3>1, KeepsInv DEF ibv_post_ud
  <2> QED BY <2>1, <2>2, <2>3, <2>4, <2>5, <2>6, <2>7, <2>8, <2>9, <2>10,
             <2>11 DEF Step
<1> QED BY <1>1, <1>2

\* IInv is an invariant of the handshake.
THEOREM HandshakeInvariance == Spec => []IInv
  BY InitInv, NextInv, PTL DEF Spec

\* The handshake's state is well typed: what the registry and the threads hold
\* was published by the program, and only connected QPs have a peer.
THEOREM HandshakeTypeCorrect == Spec => []TypeOK
<1>1. IInv => TypeOK
  <2> SUFFICES ASSUME IInv PROVE TypeOK
    OBVIOUS
  <2>1. \A t \in DOMAIN prog : Len(prog[t]) \in Nat
    BY ProgramsAssumption DEF IInv, PcInv, Disciplined
  <2>2. \A q, n : DonePublish(q, n) => Published(prog, q, n)
    BY <2>1 DEF DonePublish, Published, Done, IInv, PcInv
  <2>3. DOMAIN pc = DOMAIN prog
    BY DEF IInv, PcInv
  <2> QED BY <2>2, <2>3 DEF TypeOK, IInv, PcInv, SourceInv
<1> QED BY <1>1, HandshakeInvariance, PTL

\* A call that an executed call comes after has been executed as well.
LEMMA EarlierDone ==
  ASSUME PcInv, NEW t, NEW k, Done(t, k), NEW j \in 1..(k - 1)
  PROVE  Done(t, j)
<1>1. pc[t] \in Nat
  BY ProgramsAssumption DEF Done, PcInv, Disciplined
<1> QED BY <1>1 DEF Done

\* An executed call is a call of the program.
LEMMA DoneIsCall == ASSUME PcInv, NEW t, NEW k, Done(t, k)
                    PROVE  t \in DOMAIN prog /\ k \in 1..Len(prog[t])
<1>1. Len(prog[t]) \in Nat /\ pc[t] \in 1..(Len(prog[t]) + 1)
  BY ProgramsAssumption DEF Done, PcInv, Disciplined
<1> QED BY <1>1 DEF Done

\* A name stands for one QP, whoever looks it up.
LEMMA NameOfOne ==
  ASSUME PcInv, NEW n, NEW q, NEW r, Published(prog, q, n), Published(prog, r, n)
  PROVE  q = r
<1>1. NamesUnique(prog)
  BY ProgramsAssumption DEF PcInv, Disciplined
<1> QED BY <1>1 DEF Published, NamesUnique

\* A connected QP's peer is the one published under the name.
LEMMA PeerOfName ==
  ASSUME IInv, NEW t, NEW k, Done(t, k), prog[t][k].op = "connect",
         NEW r, Published(prog, r, prog[t][k].name)
  PROVE  prog[t][k].qp \in rts /\ <<prog[t][k].qp, r>> \in peer
<1>1. PICK g \in got : /\ g[2] = prog[t][k].name
                       /\ prog[t][k].qp \in rts
                       /\ <<prog[t][k].qp, g[3]>> \in peer
  BY DEF IInv, EffectInv
<1>2. DonePublish(g[3], g[2])
  BY DEF IInv, SourceInv
<1>3. Published(prog, g[3], g[2])
  BY <1>2, DoneIsCall DEF DonePublish, Published, IInv
<1>4. g[3] = r
  BY <1>1, <1>3, NameOfOne DEF IInv
<1> QED BY <1>1, <1>4

\* A transfer on a connected QP finds both ends connected to each other.
LEMMA RdmaConnected ==
  ASSUME IInv, NEW t, NEW k, Done(t, k), prog[t][k].op = "rdma"
  PROVE  \E c \in peer : /\ c[1] = prog[t][k].qp
                         /\ <<c[2], c[1]>> \in peer
                         /\ {c[1], c[2]} \subseteq rts
<1> DEFINE q == prog[t][k].qp
           m == prog[t][k].name
<1>1. t \in DOMAIN prog /\ k \in 1..Len(prog[t])
  BY DoneIsCall DEF IInv
<1>2. /\ Earlier(prog, t, k, Connect(q, m))
      /\ Earlier(prog, t, k, WaitTillReady(m))
      /\ \A u \in DOMAIN prog : \A l \in 1..Len(prog[u]) :
           prog[u][l].op = "ready" /\ prog[u][l].name = m =>
             \E j \in 1..(l - 1) : /\ prog[u][j].op = "connect"
                                  /\ Published(prog, prog[u][j].qp, m)
                                  /\ Published(prog, q, prog[u][j].name)
  <2>1. ConnectBeforeReady(prog)
    BY ProgramsAssumption DEF IInv, PcInv, Disciplined
  <2> QED BY <1>1, <2>1 DEF ConnectBeforeReady
<1>3. PICK j \in 1..(k - 1) : prog[t][j] = Connect(q, m)
  BY <1>2 DEF Earlier
<1>4. /\ Done(t, j) /\ prog[t][j].op = "connect"
      /\ prog[t][j].qp = q /\ prog[t][j].name = m
  BY <1>3, EarlierDone DEF Connect, IInv
<1>5. PICK w \in 1..(k - 1) : prog[t][w] = WaitTillReady(m)
  BY <1>2 DEF Earlier
<1>6. Done(t, w) /\ prog[t][w].op = "wait" /\ prog[t][w].name = m
  BY <1>5, EarlierDone DEF WaitTillReady, IInv
<1>7. DoneReady(m)
  BY <1>6 DEF IInv, EffectInv, SourceInv
<1>8. PICK u, l : Done(u, l) /\ prog[u][l].op = "ready" /\ prog[u][l].name = m
  BY <1>7 DEF DoneReady
<1>9. u \in DOMAIN prog /\ l \in 1..Len(prog[u])
  BY <1>8, DoneIsCall DEF IInv
<1>10. PICK i \in 1..(l - 1) : /\ prog[u][i].op = "connect"
                               /\ Published(prog, prog[u][i].qp, m)
                               /\ Published(prog, q, prog[u][i].name)
  BY <1>2, <1>8, <1>9
<1>11. Done(u, i)
  BY <1>8, EarlierDone DEF IInv
<1> DEFINE r == prog[u][i].qp
<1>12. q \in rts /\ <<q, r>> \in peer
  BY <1>4, <1>10, PeerOfName
<1>13. r \in rts /\ <<r, q>> \in peer
  BY <1>10, <1>11, PeerOfName
<1> HIDE DEF q, r
<1>14. \E c \in peer : c[1] = q /\ <<c[2], c[1]>> \in peer /\ {c[1], c[2]} \subseteq rts
  <2> DEFINE c == <<q, r>>
  <2>1. c[1] = q /\ c[2] = r
    OBVIOUS
  <2> QED BY <1>12, <1>13, <2>1
<1> QED BY <1>14 DEF q

\* A datagram sent unasked finds RECVs at a QP that can receive.
LEMMA SendReceived ==
  ASSUME IInv, NEW t, NEW k, Done(t, k), prog[t][k].op = "send"
  PROVE  \E g \in got : /\ g[1] = t /\ g[2] = prog[t][k].name
                        /\ g[3] \in rts \cap recvs
<1> DEFINE m == prog[t][k].name
<1>1. t \in DOMAIN prog /\ k \in 1..Len(prog[t])
  BY DoneIsCall DEF IInv
<1>2. /\ Earlier(prog, t, k, GetPublished(m))
      /\ \A u \in DOMAIN prog : \A l \in 1..Len(prog[u]) :
           prog[u][l].op = "publish" /\ prog[u][l].name = m =>
             /\ Earlier(prog, u, l, PostRecvs(prog[u][l].qp))
             /\ \E j \in 1..(l - 1) : /\ prog[u][j].op = "init"
                                     /\ prog[u][l].qp \in prog[u][j].dgram
  <2>1. RecvBeforePublish(prog)
    BY ProgramsAssumption DEF IInv, PcInv, Disciplined
  <2> QED BY <1>1, <2>1 DEF RecvBeforePublish
<1>3. PICK j \in 1..(k - 1) : prog[t][j] = GetPublished(m)
  BY <1>2 DEF Earlier
<1>4. Done(t, j) /\ prog[t][j].op = "get" /\ prog[t][j].name = m
  BY <1>3, EarlierDone DEF GetPublished, IInv
<1>5. PICK g \in got : g[1] = t /\ g[2] = m
  BY <1>4 DEF IInv, EffectInv
<1>6. PICK u, l : /\ Done(u, l) /\ prog[u][l].op = "publish"
                  /\ prog[u][l].qp = g[3] /\ prog[u][l].name = m
  BY <1>5 DEF IInv, SourceInv, DonePublish
<1>7. u \in DOMAIN prog /\ l \in 1..Len(prog[u])
  BY <1>6, DoneIsCall DEF IInv
<1>8. PICK i \in 1..(l - 1) : prog[u][i] = PostRecvs(g[3])
  BY <1>2, <1>6, <1>7 DEF Earlier
<1>9. Done(u, i) /\ prog[u][i].op = "recv" /\ prog[u][i].qp = g[3]
  BY <1>6, <1>8, EarlierDone DEF PostRecvs, IInv
<1>10. g[3] \in recvs
  BY <1>9 DEF IInv, EffectInv
<1>11. PICK a \in 1..(l - 1) : prog[u][a].op = "init" /\ g[3] \in prog[u][a].dgram
  BY <1>2, <1>6, <1>7
<1>12. Done(u, a)
  BY <1>6, EarlierDone DEF IInv
<1>13. g[3] \in rts
  BY <1>11, <1>12 DEF IInv, EffectInv
<1> QED BY <1>5, <1>10, <1>13

\* Every data path that the handshake leads to may start: SendersConnected,
\* for every program that keeps the discipline and every interleaving.
THEOREM StartSafe == Spec => []SendersConnected
<1>1. IInv => SendersConnected
  BY RdmaConnected, SendReceived DEF SendersConnected, Done
<1> QED BY <1>1, HandshakeInvariance, PTL

\* No buffer is cleared once it has been written to: RequestsKept, for every
\* program that keeps the discipline and every interleaving.
THEOREM ClearSafe == Spec => RequestsKept
<1>1. ASSUME IInv, NEW t \in AllThreads, hrd_ctrl_blk_init(t) \/ memset(t),
             Call(t).region \in written
      PROVE  FALSE
  <2> DEFINE r == Call(t).region
  <2>1. /\ Running(t) /\ Call(t).op \in {"init", "memset"}
        /\ t \in DOMAIN prog /\ pc[t] \in 1..Len(prog[t])
    <3>1. Running(t) /\ Call(t).op \in {"init", "memset"}
      BY <1>1 DEF hrd_ctrl_blk_init, memset, At, Call
    <3>2. t \in DOMAIN prog /\ pc[t] \in 1..(Len(prog[t]) + 1)
          /\ pc[t] <= Len(prog[t]) /\ Len(prog[t]) \in Nat
      BY <1>1, <3>1, ProgramsAssumption DEF Running, IInv, PcInv, Disciplined
    <3> QED BY <3>1, <3>2
  <2>2. PICK s, k : Done(s, k) /\ prog[s][k].op = "rdma" /\ prog[s][k].region = r
    BY <1>1 DEF IInv, SourceInv, DoneRdma
  <2>3. s \in DOMAIN prog /\ k \in 1..Len(prog[s])
    BY <1>1, <2>2, DoneIsCall DEF IInv
  <2> DEFINE m == prog[s][k].name
             a == prog[s][k].attr
  <2>4. \/ OnlyAfter(prog, t, pc[t], "ready", m)
        \/ /\ Earlier(prog, s, k, GetPublished(a))
           /\ OnlyAfter(prog, t, pc[t], "publish", a)
    <3>1. ClearBeforeUse(prog)
      BY <1>1, ProgramsAssumption DEF IInv, PcInv, Disciplined
    <3> QED BY <2>1, <2>2, <2>3, <3>1 DEF ClearBeforeUse, Call
  <2>5. \A l : Done(t, l) => ~(pc[t] < l)
    BY <2>1 DEF Done
  <2>6. CASE OnlyAfter(prog, t, pc[t], "ready", m)
    <3>1. Earlier(prog, s, k, WaitTillReady(m))
      <4>1. ConnectBeforeReady(prog)
        BY <1>1, ProgramsAssumption DEF IInv, PcInv, Disciplined
      <4> QED BY <4>1, <2>2, <2>3 DEF ConnectBeforeReady
    <3>2. PICK w \in 1..(k - 1) : prog[s][w] = WaitTillReady(m)
      BY <3>1 DEF Earlier
    <3>3. Done(s, w) /\ prog[s][w].op = "wait" /\ prog[s][w].name = m
      BY <1>1, <2>2, <3>2, EarlierDone DEF WaitTillReady, IInv
    <3>4. PICK u, l : Done(u, l) /\ prog[u][l].op = "ready" /\ prog[u][l].name = m
      BY <1>1, <3>3 DEF IInv, EffectInv, SourceInv, DoneReady
    <3>5. u \in DOMAIN prog /\ l \in 1..Len(prog[u])
      BY <1>1, <3>4, DoneIsCall DEF IInv
    <3> QED BY <2>5, <2>6, <3>4, <3>5 DEF OnlyAfter
  <2>7. CASE /\ Earlier(prog, s, k, GetPublished(a))
             /\ OnlyAfter(prog, t, pc[t], "publish", a)
    <3>1. PICK w \in 1..(k - 1) : prog[s][w] = GetPublished(a)
      BY <2>7 DEF Earlier
    <3>2. Done(s, w) /\ prog[s][w].op = "get" /\ prog[s][w].name = a
      BY <1>1, <2>2, <3>1, EarlierDone DEF GetPublished, IInv
    <3>3. PICK g \in got : g[2] = a
      BY <1>1, <3>2 DEF IInv, EffectInv
    <3>4. PICK u, l : Done(u, l) /\ prog[u][l].op = "publish" /\ prog[u][l].name = a
      BY <1>1, <3>3 DEF IInv, SourceInv, DonePublish
    <3>5. u \in DOMAIN prog /\ l \in 1..Len(prog[u])
      BY <1>1, <3>4, DoneIsCall DEF IInv
    <3> QED BY <2>5, <2>7, <3>4, <3>5 DEF OnlyAfter
  <2> QED BY <2>4, <2>6, <2>7
<1>2. IInv => [\A t \in AllThreads : hrd_ctrl_blk_init(t) \/ memset(t) =>
                 Call(t).region \notin written]_vars
  BY <1>1
<1> QED BY <1>2, HandshakeInvariance, PTL DEF RequestsKept
==============================================================================
