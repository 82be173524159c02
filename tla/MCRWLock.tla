------------------------------ MODULE MCRWLock ------------------------------
(* Instances of RWLock for TLC. *)
EXTENDS RWLock

CONSTANTS t1, t2, t3

ThreeThreads == {t1, t2, t3}

=============================================================================
