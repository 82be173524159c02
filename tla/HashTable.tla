----------------------------- MODULE HashTable -----------------------------
(***************************************************************************)
(* What src/uthash/uthash.h promises its application: a collection of      *)
(* elements in the order in which they were added, or sorted, with a       *)
(* look-up by key.                                                         *)
(***************************************************************************)
EXTENDS Naturals, Sequences

CONSTANTS Elements, Keys, NULL,
    KeyOf,      \* [Elements -> Keys]
    Ranks       \* what a comparison function may compare: [Elements -> Int]

VARIABLES
    items,      \* the elements, in application order
    found       \* found[k]: what HASH_FIND gives for k

hashvars == <<items, found>>

Members(s) == {s[n] : n \in DOMAIN s}

(* An element with the key, if there is one.  Which one, of several, is not said. *)
LooksUp(s, f) == \A k \in Keys :
    LET match == {e \in Members(s) : KeyOf[e] = k}
    IN  IF match = {} THEN f[k] = NULL ELSE f[k] \in match

Init == items = << >> /\ found = [k \in Keys |-> NULL]

Add(e) ==
    /\ e \notin Members(items)
    /\ items' = Append(items, e)

Delete(e) ==
    /\ \E i \in DOMAIN items :
          /\ items[i] = e
          /\ items' = [n \in 1 .. Len(items) - 1 |-> IF n < i THEN items[n] ELSE items[n+1]]

(* s sorted by rank, with those of equal rank left in their order *)
SortedBy(rank, s, new) ==
    /\ Len(new) = Len(s) /\ Members(new) = Members(s)
    /\ \A i, j \in DOMAIN s : \A m, n \in DOMAIN new :
          (i < j /\ new[m] = s[j] /\ new[n] = s[i] /\ m < n) => rank[s[j]] < rank[s[i]]
    /\ \A m, n \in DOMAIN new : m < n => rank[new[m]] <= rank[new[n]]

Sort == \E rank \in Ranks : SortedBy(rank, items, items')

Clear == items' = << >>

Next ==
    /\ Sort \/ Clear \/ \E e \in Elements : Add(e) \/ Delete(e)
    /\ LooksUp(items', found')

Spec == Init /\ [][Next]_hashvars

=============================================================================
