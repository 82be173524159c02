----------------------------- MODULE UthashLoops -----------------------------
(***************************************************************************)
(* The two loops of src/uthash/uthash.h that re-link a whole table,        *)
(* HASH_EXPAND_BUCKETS and HASH_SRT, assignment by assignment.  Uthash has *)
(* only their outcome, computed from the sequences that the chains are;    *)
(* LoopsRelink says that the loops come to the same.                       *)
(***************************************************************************)
EXTENDS Uthash

(* HASH_EXPAND_BUCKETS.  s is what it has so far: the handles, the new buckets and the
   number of nonideal items. *)
ForgetsBack(s, e, b, ideal) ==      \* mutation: hh_prev of the former head stays
    LET first == s.buckets[b].hh_head
        count == s.buckets[b].count + 1
    IN  [nonideal |-> IF count > ideal THEN s.nonideal + 1 ELSE s.nonideal,
         buckets |-> [s.buckets EXCEPT ![b] =
             [hh_head |-> e, count |-> count,
              expand_mult |-> IF count > ideal THEN count \div ideal ELSE @.expand_mult]],
         hh |-> [s.hh EXCEPT ![e].hh_prev = NULL, ![e].hh_next = first]]

Push(s, e, b, ideal) ==             \* e becomes the head of the new bucket b
    LET first == s.buckets[b].hh_head
        count == s.buckets[b].count + 1
        taken == [s.hh EXCEPT ![e].hh_prev = NULL, ![e].hh_next = first]
    IN  [nonideal |-> IF count > ideal THEN s.nonideal + 1 ELSE s.nonideal,
         buckets |-> [s.buckets EXCEPT ![b] =
             [hh_head |-> e, count |-> count,
              expand_mult |-> IF count > ideal THEN count \div ideal ELSE @.expand_mult]],
         hh |-> IF first = NULL THEN taken ELSE [taken EXCEPT ![first].hh_prev = e]]

RECURSIVE Unchain(_, _, _, _)
Unchain(s, e, num_bkts, ideal) ==   \* an old chain from e on
    IF e = NULL THEN s
    ELSE Unchain(Push(s, e, HASH_TO_BKT(s.hh[e].hashv, num_bkts), ideal),
                 s.hh[e].hh_next, num_bkts, ideal)

ExpandLoop(t, h) ==
    LET num_bkts == 2 * t.num_buckets
        ideal == t.num_items \div num_bkts + (IF t.num_items % num_bkts = 0 THEN 0 ELSE 1)
        after[b \in 0 .. t.num_buckets] ==
            IF b = 0
            THEN [nonideal |-> 0, hh |-> h, buckets |-> [n \in 0 .. num_bkts - 1 |-> EmptyBucket]]
            ELSE Unchain(after[b-1], t.buckets[b-1].hh_head, num_bkts, ideal)
        s == after[t.num_buckets]
        ineff == IF s.nonideal > t.num_items \div 2 THEN t.ineff_expands + 1 ELSE 0
    IN  [tbl |-> [t EXCEPT !.num_buckets = num_bkts, !.buckets = s.buckets,
                           !.ineff_expands = ineff,
                           !.noexpand = IF ineff > 1 THEN 1 ELSE @],
         hh |-> s.hh]

-----------------------------------------------------------------------------
(* HASH_SRT.  s holds the handles, _hs_list and _hs_tail, and the two runs that are being
   merged: where they go on and how much of them is left. *)
RECURSIVE RunEnd(_, _, _, _)
RunEnd(h, q, psize, insize) ==      \* q goes on until the run has insize elements
    IF psize = insize \/ q = NULL THEN [q |-> q, psize |-> psize]
    ELSE RunEnd(h, h[q].next, psize + 1, insize)

Link(s, e) ==                       \* e becomes the tail of the list
    LET linked == IF s.tail = NULL THEN s.hh ELSE [s.hh EXCEPT ![s.tail].next = e]
    IN  [s EXCEPT !.hh = [linked EXCEPT ![e].prev = s.tail],
                  !.list = IF s.tail = NULL THEN e ELSE @,
                  !.tail = e]

RECURSIVE MergeRuns(_, _)
MergeRuns(rank, s) ==
    LET q_left == s.qsize > 0 /\ s.q # NULL
        from_p == s.psize > 0 /\ (q_left => Stays(rank, s.p, s.q))
    IN  IF s.psize = 0 /\ ~q_left THEN s
        ELSE IF from_p
        THEN MergeRuns(rank, Link([s EXCEPT !.p = s.hh[s.p].next, !.psize = @ - 1], s.p))
        ELSE MergeRuns(rank, Link([s EXCEPT !.q = s.hh[s.q].next, !.qsize = @ - 1], s.q))

RECURSIVE PassLoop(_, _, _)
PassLoop(rank, s, insize) ==        \* nmerges counts the merges of a pass
    IF s.p = NULL THEN [s EXCEPT !.hh[s.tail].next = NULL]
    ELSE LET end == RunEnd(s.hh, s.p, 0, insize)
             merged == MergeRuns(rank,
                 [s EXCEPT !.q = end.q, !.psize = end.psize, !.qsize = insize])
         IN  PassLoop(rank, [merged EXCEPT !.p = merged.q, !.nmerges = @ + 1], insize)

RECURSIVE SortLoop(_, _, _, _)
SortLoop(rank, h, list, insize) ==
    LET s == PassLoop(rank, [hh |-> h, list |-> NULL, tail |-> NULL, p |-> list, q |-> NULL,
                             psize |-> 0, qsize |-> 0, nmerges |-> 0], insize)
    IN  IF s.nmerges <= 1 THEN s ELSE SortLoop(rank, s.hh, s.list, 2 * insize)

-----------------------------------------------------------------------------
(* Whatever table additions, deletions, expansions and sorts have led to, the next
   expansion and the next sort, which overwrite the links that they follow (655-671,
   697-757), leave the chains in both directions, the counts and the multipliers that
   ExpandBuckets and Sorted say. *)
LoopsRelink ==
    head # NULL =>
        /\ ExpandLoop(tbl, hh) = ExpandBuckets(tbl, hh)
        /\ \A rank \in Ranks :
              LET s == SortLoop(rank, hh, head, 1)
                  list == Sorted(rank, AppOrder)
              IN  /\ Chain(s.list, Nexts(s.hh)) = list
                  /\ IsListOf(list, [e \in Elements |-> s.hh[e].prev], Members(list))
                  /\ s.tail = list[Len(list)]

=============================================================================
