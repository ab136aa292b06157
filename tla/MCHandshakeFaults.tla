---- MODULE MCHandshakeFaults ----
(* Instances of Handshake in which an assert of the library fails: the
   constants the repository ships, its scripts use or its code allows. *)
EXTENDS Benchmarks

AllsigPrograms == {RwAllsig(2)}
XrcPrograms == {SenderScalability(1, 4, 2, TRUE)}
AtomicsPrograms == {AtomicsSequencer(1, 1, 1, 16)}
====
