----------------------------- MODULE MCUthash -----------------------------
(* Instances of Uthash, and of its loops, for TLC. *)
EXTENDS UthashLoops, TLC

CONSTANTS e1, e2, e3, e4, e5, k1, k2, k3

FiveElements == {e1, e2, e3, e4, e5}
ThreeKeys == {k1, k2, k3}

(* The same key twice, twice. *)
SharedKeys == e1 :> k1 @@ e2 :> k1 @@ e3 :> k2 @@ e4 :> k2 @@ e5 :> k3

TwoHashValues == {0, 1}

OneRanking == {[e \in FiveElements |-> IF e \in {e1, e3} THEN 1 ELSE 0]}

(* The handle of an element that is in no table is never read. *)
View == <<HASH_FCN, head, tbl, [e \in Members(AppOrder) |-> hh[e]]>>

=============================================================================
