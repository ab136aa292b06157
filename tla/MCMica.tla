------------------------------- MODULE MCMica -------------------------------
(* Small instances of Mica.                                                *)
EXTENDS MicaStore

\* Two keys that share a tag and a bucket, and two more of that bucket.
MCKeys == {[id |-> 1, bkt |-> 0, tag |-> 1], [id |-> 2, bkt |-> 0, tag |-> 1],
           [id |-> 3, bkt |-> 2, tag |-> 0], [id |-> 4, bkt |-> 2, tag |-> 3]}

MCPopKeys == << [id |-> 1, bkt |-> 0, tag |-> 1] >>

\* Enough to fill the log of MicaStale.cfg once.
MCPopKeysLap == << [id |-> 3, bkt |-> 2, tag |-> 0], [id |-> 1, bkt |-> 0, tag |-> 1],
                   [id |-> 4, bkt |-> 2, tag |-> 3] >>
=============================================================================
