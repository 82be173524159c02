------------------------------- MODULE MCLogRW -------------------------------
(* Instances of LogRW for TLC. *)
EXTENDS LogRW

CONSTANTS w1, w2, r1, d1, d2

OneWriter       == {w1}
TwoWriters      == {w1, w2}
WriterAndReader == {w1, r1}

OneBlock  == {d1}
TwoBlocks == {d1, d2}

=============================================================================
