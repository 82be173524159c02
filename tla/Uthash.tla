------------------------------ MODULE Uthash ------------------------------
(***************************************************************************)
(* The hash table of src/uthash/uthash.h (version 1.9.4), on which the     *)
(* block cache keeps its map: two chains of pointers through every         *)
(* element, one of its bucket and one of all elements in application       *)
(* order, and the buckets, doubled when a chain gets long.                 *)
(*                                                                         *)
(* The application sees to it that an element is added only when it is in  *)
(* no table, and deleted only from the table it is in.                     *)
(***************************************************************************)
EXTENDS Integers, Sequences, FiniteSets

CONSTANTS
    Elements, Keys, NULL,
    KeyOf,                      \* KeyOf[e]: the key field of element e
    HashValues,                 \* what the hash function yields
    Ranks,                      \* what comparison functions compare, see HashTable
    HASH_INITIAL_NUM_BUCKETS,   \* 32
    HASH_BKT_CAPACITY_THRESH,   \* 10
    MaxBuckets                  \* bound: elements that come and go can make them double for ever

ASSUME UthashAssumption ==
    /\ NULL \notin Elements /\ IsFiniteSet(Elements)
    /\ KeyOf \in [Elements -> Keys]
    /\ HashValues \subseteq Nat
    /\ Ranks \subseteq [Elements -> Int]
    /\ HASH_INITIAL_NUM_BUCKETS \in Nat \ {0}
    /\ \E log2 \in 0 .. 31 : HASH_INITIAL_NUM_BUCKETS = 2 ^ log2
    /\ HASH_BKT_CAPACITY_THRESH \in Nat \ {0}
    /\ MaxBuckets \in Nat

VARIABLES
    HASH_FCN,       \* the hash function: any function of the key
    head,           \* the application's pointer to the table
    hh,             \* hh[e]: the hash handle in element e
    tbl             \* the table that all handles in it point to

vars == <<HASH_FCN, head, hh, tbl>>

Pointers == Elements \cup {NULL}

UT_hash_handle == [prev : Pointers, next : Pointers,
                   hh_prev : Pointers, hh_next : Pointers, hashv : Nat]

UT_hash_bucket == [hh_head : Pointers, count : Nat, expand_mult : Nat]

EmptyBucket == [hh_head |-> NULL, count |-> 0, expand_mult |-> 0]

NoTable == [tail |-> NULL, num_buckets |-> 0, num_items |-> 0,
            ineff_expands |-> 0, noexpand |-> 0, buckets |-> << >>]

TypeOK ==
    /\ head \in Pointers
    /\ hh \in [Elements -> UT_hash_handle]
    /\ (head = NULL) <=> (tbl = NoTable)
    /\ tbl.tail \in Pointers
    /\ tbl.num_items \in 0 .. Cardinality(Elements)
    /\ tbl.ineff_expands \in Nat /\ tbl.noexpand \in {0, 1}
    /\ tbl.noexpand = 1 <=> tbl.ineff_expands > 1
    /\ head # NULL => tbl.buckets \in [0 .. tbl.num_buckets - 1 -> UT_hash_bucket]

Init ==
    /\ HASH_FCN \in [Keys -> HashValues]
    /\ head = NULL
    /\ tbl = NoTable
    /\ hh = [e \in Elements |-> [prev |-> NULL, next |-> NULL,
                                hh_prev |-> NULL, hh_next |-> NULL, hashv |-> 0]]

-----------------------------------------------------------------------------
(* The elements from e on, following link; one more than there are, if they go round. *)
Chain(e, link) ==
    LET at[n \in 1 .. Cardinality(Elements) + 1] == IF n = 1 THEN e ELSE link[at[n-1]]
    IN  SubSeq(at, 1, Cardinality({n \in DOMAIN at : at[n] # NULL}))

Nexts(h)    == [x \in Pointers |-> IF x = NULL THEN NULL ELSE h[x].next]
HhNexts(h)  == [x \in Pointers |-> IF x = NULL THEN NULL ELSE h[x].hh_next]

AppOrder == Chain(head, Nexts(hh))

BucketChain(t, h, b) == Chain(t.buckets[b].hh_head, HhNexts(h))

(* hashv & (num_bkts - 1), for a power of two *)
HASH_TO_BKT(hashv, num_bkts) == hashv % num_bkts

(* HASH_FIND and HASH_FIND_IN_BKT *)
Find(k) ==
    IF head = NULL THEN NULL
    ELSE LET chain == BucketChain(tbl, hh, HASH_TO_BKT(HASH_FCN[k], tbl.num_buckets))
             hits  == {n \in DOMAIN chain : KeyOf[chain[n]] = k}
         IN  IF hits = {} THEN NULL
             ELSE chain[CHOOSE n \in hits : \A m \in hits : n <= m]

MakeTable(e) ==     \* HASH_MAKE_TABLE
    [NoTable EXCEPT !.tail = e,
                    !.num_buckets = HASH_INITIAL_NUM_BUCKETS,
                    !.buckets = [b \in 0 .. HASH_INITIAL_NUM_BUCKETS - 1 |-> EmptyBucket]]

-----------------------------------------------------------------------------
(* HASH_EXPAND_BUCKETS: twice as many buckets.  The elements are taken bucket by
   bucket, each chain from its head, and each goes to the head of its new chain. *)

Position(s, e) == CHOOSE n \in DOMAIN s : s[n] = e

Members(s) == {s[n] : n \in DOMAIN s}

NeverMultiplies(count, ideal) == 0      \* mutation: expand_mult stays 0

ExpandMult(count, ideal) == IF count > ideal THEN count \div ideal ELSE 0

BucketByBucket(t, h) ==
    LET upto[b \in 0 .. t.num_buckets] ==
            IF b = 0 THEN << >> ELSE upto[b-1] \o BucketChain(t, h, b - 1)
    IN  upto[t.num_buckets]

Spread(h, order, num_bkts) ==
    LET new[n \in 0 .. Len(order)] ==
            IF n = 0 THEN [b \in 0 .. num_bkts - 1 |-> << >>]
            ELSE [new[n-1] EXCEPT ![HASH_TO_BKT(h[order[n]].hashv, num_bkts)] = <<order[n]>> \o @]
    IN  new[Len(order)]

ExpandBuckets(t, h) ==
    LET old == t.num_buckets
        order == BucketByBucket(t, h)
        new == Spread(h, order, 2 * old)
        ideal_chain_maxlen ==
            t.num_items \div (2 * old) + (IF t.num_items % (2 * old) = 0 THEN 0 ELSE 1)
        nonideal == {at \in (0 .. 2 * old - 1) \X (1 .. Cardinality(Elements)) :
                        ideal_chain_maxlen < at[2] /\ at[2] <= Len(new[at[1]])}
        ineff == IF Cardinality(nonideal) > t.num_items \div 2 THEN t.ineff_expands + 1 ELSE 0
    IN  [tbl |-> [t EXCEPT
            !.num_buckets = 2 * old,
            !.buckets = [b \in 0 .. 2 * old - 1 |->
                [hh_head |-> IF new[b] = << >> THEN NULL ELSE new[b][1],
                 count |-> Len(new[b]),
                 expand_mult |-> ExpandMult(Len(new[b]), ideal_chain_maxlen)]],
            !.ineff_expands = ineff,
            !.noexpand = IF ineff > 1 THEN 1 ELSE @],
         hh |-> [e \in Elements |->
            IF e \notin Members(order) THEN h[e]
            ELSE LET chain == new[HASH_TO_BKT(h[e].hashv, 2 * old)]
                     n == Position(chain, e)
                 IN  [h[e] EXCEPT !.hh_prev = IF n = 1 THEN NULL ELSE chain[n-1],
                                  !.hh_next = IF n = Len(chain) THEN NULL ELSE chain[n+1]]]]

AddToBkt(t, h, b, e) ==     \* HASH_ADD_TO_BKT
    LET first == t.buckets[b].hh_head
        added == [t EXCEPT !.buckets[b].count = @ + 1, !.buckets[b].hh_head = e]
        linked == [x \in Elements |->
            IF x = e THEN [h[e] EXCEPT !.hh_next = first, !.hh_prev = NULL]
            ELSE IF x = first THEN [h[x] EXCEPT !.hh_prev = e]
            ELSE h[x]]
    IN  IF /\ added.buckets[b].count >= (added.buckets[b].expand_mult + 1) * HASH_BKT_CAPACITY_THRESH
           /\ t.noexpand # 1
        THEN ExpandBuckets(added, linked)
        ELSE [tbl |-> added, hh |-> linked]

Add(e) ==       \* HASH_ADD_KEYPTR
    /\ e \notin Members(AppOrder)
    /\ LET t == IF head = NULL THEN MakeTable(e) ELSE [tbl EXCEPT !.tail = e]
           hashv == HASH_FCN[KeyOf[e]]
           linked == [x \in Elements |->
               IF x = e THEN [hh[e] EXCEPT !.next = NULL, !.prev = tbl.tail, !.hashv = hashv]
               ELSE IF x = tbl.tail THEN [hh[x] EXCEPT !.next = e]
               ELSE hh[x]]
           s == AddToBkt([t EXCEPT !.num_items = @ + 1], linked,
                         HASH_TO_BKT(hashv, t.num_buckets), e)
       IN  /\ s.tbl.num_buckets <= MaxBuckets
           /\ tbl' = s.tbl /\ hh' = s.hh
    /\ head' = IF head = NULL THEN e ELSE head
    /\ UNCHANGED HASH_FCN

PatchesOneWay(e) ==     \* mutation: hh_prev of the next in the bucket stays
    LET d == hh[e]
        b == HASH_TO_BKT(d.hashv, tbl.num_buckets)
    IN  /\ e \in Members(AppOrder)
        /\ IF d.prev = NULL /\ d.next = NULL
           THEN head' = NULL /\ tbl' = NoTable /\ UNCHANGED hh
           ELSE /\ head' = IF d.prev = NULL THEN d.next ELSE head
                /\ tbl' = [tbl EXCEPT
                      !.tail = IF @ = e THEN d.prev ELSE @,
                      !.num_items = @ - 1,
                      !.buckets[b].count = @ - 1,
                      !.buckets[b].hh_head = IF @ = e THEN d.hh_next ELSE @]
                /\ hh' = [x \in Elements |-> [hh[x] EXCEPT
                      !.next    = IF x = d.prev THEN d.next ELSE @,
                      !.prev    = IF x = d.next THEN d.prev ELSE @,
                      !.hh_next = IF x = d.hh_prev THEN d.hh_next ELSE @]]
        /\ UNCHANGED HASH_FCN

Delete(e) ==    \* HASH_DELETE and HASH_DEL_IN_BKT
    LET d == hh[e]
        b == HASH_TO_BKT(d.hashv, tbl.num_buckets)
    IN  /\ e \in Members(AppOrder)
        /\ IF d.prev = NULL /\ d.next = NULL
           THEN head' = NULL /\ tbl' = NoTable /\ UNCHANGED hh
           ELSE /\ head' = IF d.prev = NULL THEN d.next ELSE head
                /\ tbl' = [tbl EXCEPT
                      !.tail = IF @ = e THEN d.prev ELSE @,
                      !.num_items = @ - 1,
                      !.buckets[b].count = @ - 1,
                      !.buckets[b].hh_head = IF @ = e THEN d.hh_next ELSE @]
                /\ hh' = [x \in Elements |-> [hh[x] EXCEPT
                      !.next    = IF x = d.prev THEN d.next ELSE @,
                      !.prev    = IF x = d.next THEN d.prev ELSE @,
                      !.hh_next = IF x = d.hh_prev THEN d.hh_next ELSE @,
                      !.hh_prev = IF x = d.hh_next THEN d.hh_prev ELSE @]]
        /\ UNCHANGED HASH_FCN

-----------------------------------------------------------------------------
(* HASH_SORT: runs of insize elements are merged two by two, insize doubles, until
   a pass merges only once. *)

Overtakes(rank, x, y) == rank[x] < rank[y]      \* mutation: equals change places

Stays(rank, x, y) == rank[x] <= rank[y]         \* cmpfcn(x, y) <= 0

(* m[<<i, j>>]: the merge of what is left of p and of q after i and j elements *)
Merge(rank, p, q) ==
    LET m[at \in (0 .. Len(p)) \X (0 .. Len(q))] ==
            LET i == at[1]
                j == at[2]
            IN  IF i = Len(p) THEN SubSeq(q, j + 1, Len(q))
                ELSE IF j = Len(q) THEN SubSeq(p, i + 1, Len(p))
                ELSE IF Stays(rank, p[i+1], q[j+1]) THEN <<p[i+1]>> \o m[<<i + 1, j>>]
                ELSE <<q[j+1]>> \o m[<<i, j + 1>>]
    IN  m[<<0, 0>>]

MergePass(rank, s, insize) ==
    LET run(n) == SubSeq(s, n * insize + 1,
                         IF Len(s) < (n + 1) * insize THEN Len(s) ELSE (n + 1) * insize)
        merged(n) == Merge(rank, run(2 * n), run(2 * n + 1))
        out == [k \in 1 .. Len(s) |->
                    merged((k - 1) \div (2 * insize))[((k - 1) % (2 * insize)) + 1]]
    IN  SubSeq(out, 1, Len(s))

Sorted(rank, s) ==
    LET insize[n \in 0 .. Len(s)] == IF n = 0 THEN 1 ELSE 2 * insize[n-1]
        after[n \in 0 .. Len(s)] ==
            IF n = 0 THEN s ELSE MergePass(rank, after[n-1], insize[n-1])
        done == {n \in 1 .. Len(s) : Len(s) <= insize[n]}      \* nmerges was 1
    IN  after[CHOOSE n \in done : \A m \in done : n <= m]

Sort(rank) ==
    /\ IF head = NULL THEN UNCHANGED <<head, tbl, hh>>
       ELSE LET list == Sorted(rank, AppOrder) IN
            /\ head' = list[1]
            /\ tbl' = [tbl EXCEPT !.tail = list[Len(list)]]
            /\ hh' = [e \in Elements |->
                 IF e \notin Members(list) THEN hh[e]
                 ELSE LET n == Position(list, e)
                      IN  [hh[e] EXCEPT !.prev = IF n = 1 THEN NULL ELSE list[n-1],
                                        !.next = IF n = Len(list) THEN NULL ELSE list[n+1]]]
    /\ UNCHANGED HASH_FCN

KeepsTable ==   \* mutation: the table is not freed
    /\ head' = NULL
    /\ UNCHANGED <<HASH_FCN, tbl, hh>>

Clear ==        \* HASH_CLEAR
    /\ head' = NULL /\ tbl' = NoTable
    /\ UNCHANGED <<HASH_FCN, hh>>

Next ==
    \/ \E e \in Elements : Add(e) \/ Delete(e)
    \/ \E rank \in Ranks : Sort(rank)
    \/ Clear

Spec == Init /\ [][Next]_vars

-----------------------------------------------------------------------------
(* Correctness *)

IsListOf(s, back, S) ==      \* no element twice, and every way back is right
    /\ Members(s) = S /\ Len(s) = Cardinality(S)
    /\ \A n \in DOMAIN s : back[s[n]] = IF n = 1 THEN NULL ELSE s[n-1]

(* HASH_FSCK: both chains can be followed from their heads, forwards and backwards,
   every element of the table is in both, in the bucket of its hash value, and the
   counts of the buckets and of the table are right. *)
Fsck ==
    head # NULL =>
        LET list == AppOrder
            chain(b) == BucketChain(tbl, hh, b)
            there(b) == {e \in Members(list) : HASH_TO_BKT(hh[e].hashv, tbl.num_buckets) = b}
        IN  /\ IsListOf(list, [e \in Elements |-> hh[e].prev], Members(list))
            /\ tbl.num_items = Len(list)
            /\ tbl.tail = list[Len(list)]
            /\ \A b \in DOMAIN tbl.buckets :
                  /\ IsListOf(chain(b), [e \in Elements |-> hh[e].hh_prev], there(b))
                  /\ tbl.buckets[b].count = Len(chain(b))

(* "by expanding buckets the hash keeps a bound on the chain length" (line 616): as
   long as expansion is not inhibited, no chain is longer than the length at which its
   bucket expands, whatever was deleted and added since its multiplier was set. *)
BoundedChains ==
    head # NULL /\ tbl.noexpand = 0 =>
        \A b \in DOMAIN tbl.buckets :
            tbl.buckets[b].count <= (tbl.buckets[b].expand_mult + 1) * HASH_BKT_CAPACITY_THRESH

Abstract == INSTANCE HashTable WITH
    items <- AppOrder, found <- [k \in Keys |-> Find(k)]

(* However the buckets are doubled and the chains re-linked, the table is a collection
   in application order in which every element is found by its key, and HASH_SORT
   sorts it without changing the order of equals. *)
IsHashTable == Abstract!Spec

=============================================================================
