-------------------------------- MODULE MCFS --------------------------------
(* Instances of FS for TLC. *)
EXTENDS FS, TLC

CONSTANTS n1, n2, d1, d2

TwoNames == {n1, n2}
TwoCells == {d1, d2}

(* Names and cells are only ever compared. *)
Symmetry == Permutations(TwoNames) \cup Permutations(TwoCells)

(* No action reads asked, and a step is checked with its own asked'. *)
View == <<meta, disk, image>>

=============================================================================
