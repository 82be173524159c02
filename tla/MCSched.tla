------------------------------ MODULE MCSched ------------------------------
(* Instances of Sched for TLC. *)
EXTENDS Sched

CONSTANTS main, t1, t2

ThreeThreads == {main, t1, t2}

(* Kept is SelectSeq. *)
ASSUME \A n \in 0 .. 4 : \A q \in [1 .. n -> Threads] : \A S \in SUBSET Threads :
    Kept(q, S) = LET in(t) == t \in S IN SelectSeq(q, in)

=============================================================================
