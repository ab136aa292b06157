------------------------------ MODULE MCSignal ------------------------------
(* Small instances of SelectiveSignal.                                     *)
EXTENDS SelectiveSignal

\* Every postlist size the three kinds of loop can bear with UNSIG_BATCH = 4.
MCSizes == [now |-> 1..4, ahead |-> 1..3, last |-> 1..4]

\* A server that polls "ahead", with the postlist its start-up check admits.
MCSizesFull == [ahead |-> {4}]
=============================================================================
