---- MODULE MCHandshake ----
(* Instances of Handshake for TLC: all benchmarks, on a few threads each. *)
EXTENDS Benchmarks, Discipline

MCPrograms ==
  {Herd(2, 2, 1), Herd(1, 1, 2), WsSequencer(2, 2, 1), WsEcho(2, 1),
   AtomicsSequencer(2, 2, 2, 9), RwTputSender(2, 2), RwTputReceiver(2),
   RwAllsig(1), WriteFlush, WriteIncomplete, WriteReordering,
   SenderScalability(2, 2, 2, FALSE), SenderScalability(2, 2, 1, TRUE),
   RcSwarm(3, 1, 1), RcSwarm(2, 1, 2),
   SsEcho(1, 2), SsSequencer(2, 2), UdSender(2, 2), UdReceiver(2, 2, 2)}
====
