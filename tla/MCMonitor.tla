----------------------------- MODULE MCMonitor -----------------------------
(* An instance of Monitor for TLC. *)
EXTENDS Monitor

CONSTANTS t1, t2, t3

ThreeThreads == {t1, t2, t3}

=============================================================================
