------------------------------- MODULE MCMlx5 -------------------------------
(* Two QPs that share a CQ, or whose send and receive CQs are crossed. *)
EXTENDS Mlx5

CONSTANTS q1, q2, c1, c2

MCcqn == c1 :> 1 @@ c2 :> 2

\* Signaled and unsignaled WQEs of one and of two basic blocks.
Wr(sig, bb) == [sig |-> sig, bb |-> bb]
MCLists == {<<Wr(TRUE, 1)>>, <<Wr(FALSE, 1)>>, <<Wr(TRUE, 2)>>,
            <<Wr(FALSE, 2), Wr(TRUE, 2)>>}

Conf(s1, s2, r1, r2, users, ver, fails) ==
  [send_cq |-> q1 :> s1 @@ q2 :> s2, recv_cq |-> q1 :> r1 @@ q2 :> r2,
   srq_users |-> users, cqe_version |-> ver, faulty |-> fails]
Crossed(users, ver, fails) == Conf(c1, c2, c2, c1, users, ver, fails)
Shared(users, ver, fails) == Conf(c1, c1, c1, c1, users, ver, fails)

Scenario(cf, start, send, recv, srqs, ctl) ==
  [conf |-> cf, start |-> start,
   budget |-> [send |-> send, recv |-> recv, srq |-> srqs, ctl |-> ctl]]

\* Each kind of queue near its wrap, with room for the others' completions to
\* mix in, and resets, destroys and resizes among them.
MCScenarios ==
  {Scenario(Shared({}, 0, FALSE), 6, 4, 0, 0, 0),
   Scenario(Crossed({}, 1, TRUE), 6, 2, 0, 0, 1),
   Scenario(Shared({}, 0, FALSE), 0, 2, 0, 0, 2),
   Scenario(Shared({}, 0, TRUE), 6, 0, 3, 0, 1),
   Scenario(Shared({q1, q2}, 1, TRUE), 6, 0, 0, 3, 1),
   Scenario(Crossed({q1, q2}, 0, TRUE), 6, 0, 0, 3, 1),
   Scenario(Crossed({q1, q2}, 0, FALSE), 6, 0, 0, 4, 1),
   Scenario(Shared({q1}, 0, FALSE), 0, 1, 1, 1, 1),
   Scenario(Shared({q1}, 1, FALSE), 0, 1, 1, 1, 1),
   Scenario(Crossed({q1, q2}, 1, FALSE), 0, 0, 0, 0, 3)}

\* A QP with the SRQ and a QP with its own RQ, with errors, on one CQ.
MixedScenarios == {Scenario(Shared({q1}, 1, TRUE), 0, 0, 2, 1, 0)}
=============================================================================
