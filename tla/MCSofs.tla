------------------------------- MODULE MCSofs -------------------------------
(* Instances of Sofs for TLC. *)
EXTENDS Sofs, TLC

CONSTANTS n1, n2, n3, long, d1, d2, h1, h2

ThreeNames == {n1, n2, n3}
TwoCells == {d1, d2}
TwoHandles == {h1, h2}
OneLongName == {long}

(* Names, cells and handles are only ever compared. *)
Symmetry == Permutations(ThreeNames) \cup Permutations(TwoCells) \cup Permutations(TwoHandles)

(* No action reads asked or reply, and a step is checked with its own. *)
View == <<meta, disk, image, fh, memory>>

=============================================================================
