---------------------------- MODULE Sched_proofs ----------------------------
(***************************************************************************)
(* Proofs about Sched: for any number of threads and any ticks, no         *)
(* operation loses a thread or queues it twice, and a join that returns    *)
(* means that its target has terminated.                                   *)
(***************************************************************************)
EXTENDS Sched, TLAPS, FiniteSetTheorems

-----------------------------------------------------------------------------
(* Lists of threads *)

LEMMA ElementsType ==
    ASSUME NEW S, NEW q \in Seq(S)
    PROVE  /\ Elements(q) \subseteq S
           /\ Elements(q) = {} <=> q = << >>
BY DEF Elements

LEMMA ElementsAppend ==
    ASSUME NEW S, NEW q \in Seq(S), NEW x \in S
    PROVE  /\ Append(q, x) \in Seq(S) /\ Append(q, x) # << >>
           /\ Elements(Append(q, x)) = Elements(q) \cup {x}
           /\ Once(q) /\ x \notin Elements(q) => Once(Append(q, x))
<1> DEFINE a == Append(q, x)
<1>1. /\ a \in Seq(S) /\ a # << >>
      /\ DOMAIN q = 1 .. Len(q) /\ Len(q) \in Nat
      /\ DOMAIN a = 1 .. Len(q) + 1
      /\ a[Len(q) + 1] = x
      /\ \A k \in 1 .. Len(q) : a[k] = q[k]
    OBVIOUS
<1> HIDE DEF a
<1>2. Elements(a) = Elements(q) \cup {x}
  <2>1. \A k \in DOMAIN a : k \in DOMAIN q \/ k = Len(q) + 1
      BY <1>1
  <2>2. \A k \in DOMAIN q : k \in DOMAIN a
      BY <1>1
  <2>3. QED
      BY <1>1, <2>1, <2>2 DEF Elements
<1>3. Once(q) /\ x \notin Elements(q) => Once(a)
    BY <1>1 DEF Once, Elements
<1>4. QED
    BY <1>1, <1>2, <1>3 DEF a

LEMMA ElementsTail ==
    ASSUME NEW S, NEW q \in Seq(S), q # << >>
    PROVE  /\ Head(q) \in S /\ Tail(q) \in Seq(S)
           /\ Elements(q) = {Head(q)} \cup Elements(Tail(q))
           /\ Once(q) => Once(Tail(q)) /\ Head(q) \notin Elements(Tail(q))
<1> DEFINE r == Tail(q)
<1>1. /\ r \in Seq(S) /\ Head(q) \in S
      /\ DOMAIN q = 1 .. Len(q) /\ Len(q) \in Nat \ {0}
      /\ DOMAIN r = 1 .. Len(q) - 1
      /\ Head(q) = q[1]
      /\ \A k \in 1 .. Len(q) - 1 : r[k] = q[k + 1]
    OBVIOUS
<1> HIDE DEF r
<1>2. \A k \in DOMAIN r : k + 1 \in DOMAIN q /\ k + 1 # 1 /\ r[k] = q[k + 1]
    BY <1>1
<1>3. \A k \in DOMAIN q : k = 1 \/ (k - 1 \in DOMAIN r /\ r[k - 1] = q[k])
    BY <1>1
<1>4. Elements(q) = {Head(q)} \cup Elements(r)
  <2>1. Elements(q) \subseteq {Head(q)} \cup Elements(r)
      BY <1>1, <1>3 DEF Elements
  <2>2. {Head(q)} \cup Elements(r) \subseteq Elements(q)
      BY <1>1, <1>2 DEF Elements
  <2>3. QED
      BY <2>1, <2>2
<1>5. ASSUME Once(q) PROVE Once(r) /\ Head(q) \notin Elements(r)
  <2>1. 1 \in DOMAIN q
      BY <1>1
  <2>2. Head(q) \notin Elements(r)
      BY <1>1, <1>2, <1>5, <2>1 DEF Once, Elements
  <2>3. Once(r)
    <3>1. SUFFICES ASSUME NEW j \in DOMAIN r, NEW k \in DOMAIN r, r[j] = r[k]
                   PROVE  j = k
        BY DEF Once
    <3>2. j + 1 = k + 1
        BY <1>2, <1>5, <3>1 DEF Once
    <3>3. QED
        BY <1>1, <3>2
  <2>4. QED
      BY <2>2, <2>3
<1>6. QED
    BY <1>1, <1>4, <1>5 DEF r

LEMMA ElementsConcat ==
    ASSUME NEW S, NEW p \in Seq(S), NEW q \in Seq(S)
    PROVE  /\ p \o q \in Seq(S)
           /\ Elements(p \o q) = Elements(p) \cup Elements(q)
           /\ Once(p) /\ Once(q) /\ Elements(p) \cap Elements(q) = {} => Once(p \o q)
<1> DEFINE a == p \o q
<1>1. /\ a \in Seq(S) /\ Len(p) \in Nat /\ Len(q) \in Nat
      /\ DOMAIN p = 1 .. Len(p) /\ DOMAIN q = 1 .. Len(q)
      /\ DOMAIN a = 1 .. Len(p) + Len(q)
      /\ \A k \in 1 .. Len(p) : a[k] = p[k]
      /\ \A k \in 1 .. Len(q) : a[Len(p) + k] = q[k]
    OBVIOUS
<1> HIDE DEF a
<1>2. \A k \in DOMAIN a : \/ k \in DOMAIN p /\ a[k] = p[k]
                          \/ k - Len(p) \in DOMAIN q /\ a[k] = q[k - Len(p)]
  <2>1. SUFFICES ASSUME NEW k \in DOMAIN a, k \notin DOMAIN p
                 PROVE  k - Len(p) \in DOMAIN q /\ a[k] = q[k - Len(p)]
      BY <1>1
  <2>2. k - Len(p) \in 1 .. Len(q) /\ Len(p) + (k - Len(p)) = k
      BY <1>1, <2>1
  <2>3. QED
      BY <1>1, <2>2
<1>3. /\ \A k \in DOMAIN p : k \in DOMAIN a /\ a[k] = p[k]
      /\ \A k \in DOMAIN q : Len(p) + k \in DOMAIN a /\ a[Len(p) + k] = q[k]
    BY <1>1
<1>4. Elements(a) = Elements(p) \cup Elements(q)
  <2>1. Elements(a) \subseteq Elements(p) \cup Elements(q)
      BY <1>2 DEF Elements
  <2>2. Elements(p) \cup Elements(q) \subseteq Elements(a)
      BY <1>3 DEF Elements
  <2>3. QED
      BY <2>1, <2>2
<1>5. ASSUME Once(p), Once(q), Elements(p) \cap Elements(q) = {} PROVE Once(a)
  <2>1. SUFFICES ASSUME NEW j \in DOMAIN a, NEW k \in DOMAIN a, a[j] = a[k]
                 PROVE  j = k
      BY DEF Once
  <2>2. \A l \in DOMAIN p : p[l] \in Elements(p)
      BY DEF Elements
  <2>3. \A l \in DOMAIN q : q[l] \in Elements(q)
      BY DEF Elements
  <2>4. CASE j \in DOMAIN p /\ a[j] = p[j] /\ k \in DOMAIN p /\ a[k] = p[k]
      BY <1>5, <2>1, <2>4 DEF Once
  <2>5. CASE /\ j - Len(p) \in DOMAIN q /\ a[j] = q[j - Len(p)]
             /\ k - Len(p) \in DOMAIN q /\ a[k] = q[k - Len(p)]
    <3>1. j - Len(p) = k - Len(p)
        BY <1>5, <2>1, <2>5 DEF Once
    <3>2. QED
        BY <1>1, <2>1, <3>1
  <2>6. QED
      BY <1>2, <1>5, <2>1, <2>2, <2>3, <2>4, <2>5
<1>6. QED
    BY <1>1, <1>4, <1>5 DEF a

(* A list without repetition is as long as the set of its elements. *)
LEMMA OnceLength ==
    ASSUME NEW S, NEW q \in Seq(S), Once(q)
    PROVE  IsFiniteSet(Elements(q)) /\ Cardinality(Elements(q)) = Len(q)
<1> DEFINE E == Elements(q)
           D == 1 .. Len(q)
<1>1. /\ Len(q) \in Nat /\ DOMAIN q = D /\ q \in [D -> E]
      /\ \A x \in E : \E k \in D : q[k] = x
    BY DEF Elements
<1>2. q \in Surjection(D, E) /\ q \in Injection(D, E)
    BY <1>1 DEF Once, Surjection, Injection, IsInjective
<1>3. IsFiniteSet(D) /\ Cardinality(D) = Len(q)
  <2>1. 1 \in Int /\ Len(q) \in Int
      BY <1>1
  <2>2. IsFiniteSet(D) /\ Cardinality(D) = IF 1 > Len(q) THEN 0 ELSE Len(q) - 1 + 1
      BY <2>1, FS_Interval
  <2>3. QED
      BY <1>1, <2>2
<1>4. QED
    BY <1>2, <1>3, FS_Surjection

LEMMA DisjointUnion ==
    ASSUME NEW S, IsFiniteSet(S), NEW T, IsFiniteSet(T), S \cap T = {}
    PROVE  /\ IsFiniteSet(S \cup T)
           /\ Cardinality(S \cup T) = Cardinality(S) + Cardinality(T)
<1>1. Cardinality(S) \in Nat /\ Cardinality(T) \in Nat
    BY FS_CardinalityType
<1>2. Cardinality(S \cap T) = 0
    BY FS_EmptySet
<1> DEFINE U == S \cup T
           n == Cardinality(S \cap T)
<1>3. IsFiniteSet(U) /\ Cardinality(U) = Cardinality(S) + Cardinality(T) - n
    BY FS_Union
<1> HIDE DEF U
<1>4. IsFiniteSet(U) /\ Cardinality(U) = Cardinality(S) + Cardinality(T)
    BY <1>1, <1>2, <1>3
<1>5. QED
    BY <1>4 DEF U

(* The numbers of a set below each of its elements count it through. *)
LEMMA Ranks ==
    ASSUME NEW P, NEW m \in Nat, P \subseteq 1 .. m
    PROVE  /\ IsFiniteSet(P) /\ Cardinality(P) \in Nat
           /\ \A k \in P : Cardinality(P \cap 1 .. k) \in 1 .. Cardinality(P)
           /\ \A j, k \in P : Cardinality(P \cap 1 .. j) = Cardinality(P \cap 1 .. k) => j = k
           /\ \A n \in 1 .. Cardinality(P) : \E k \in P : Cardinality(P \cap 1 .. k) = n
<1> DEFINE C == Cardinality(P)
           upto(k) == P \cap 1 .. k
           rank == [k \in P |-> Cardinality(upto(k))]
<1>1. IsFiniteSet(P) /\ C \in Nat
  <2>1. 1 \in Int /\ m \in Int
      OBVIOUS
  <2>2. IsFiniteSet(1 .. m)
      BY <2>1, FS_Interval
  <2>3. IsFiniteSet(P)
      BY <2>2, FS_Subset
  <2>4. QED
      BY <2>3, FS_CardinalityType
<1> HIDE DEF C
<1>2. ASSUME NEW k \in P
      PROVE  /\ IsFiniteSet(upto(k)) /\ Cardinality(upto(k)) \in Nat
             /\ Cardinality(upto(k)) \in 1 .. C
  <2> DEFINE U == upto(k)
  <2>1. U \in SUBSET P /\ k \in U
      OBVIOUS
  <2> HIDE DEF U
  <2>2. IsFiniteSet(U) /\ Cardinality(U) <= C /\ Cardinality(U) \in Nat
      BY <1>1, <2>1, FS_Subset, FS_CardinalityType DEF C
  <2>3. Cardinality(U) # 0
      BY <2>1, <2>2, FS_EmptySet
  <2>4. QED
      BY <1>1, <2>2, <2>3 DEF U
<1>3. ASSUME NEW j \in P, NEW k \in P, j < k
      PROVE  Cardinality(upto(j)) # Cardinality(upto(k))
  <2> DEFINE U == upto(j)
             V == upto(k)
  <2>1. U \in SUBSET V /\ k \in V /\ k \notin U
      BY <1>3
  <2>2. IsFiniteSet(V)
      BY <1>2
  <2> HIDE DEF U, V
  <2>3. Cardinality(V) # Cardinality(U)
      BY <2>1, <2>2, FS_Subset
  <2>4. QED
      BY <2>3 DEF U, V
<1>4. ASSUME NEW j \in P, NEW k \in P, Cardinality(upto(j)) = Cardinality(upto(k))
      PROVE  j = k
  <2>1. j \in Nat /\ k \in Nat
      OBVIOUS
  <2>2. ~(j < k) /\ ~(k < j)
      BY <1>3, <1>4
  <2>3. QED
      BY <2>1, <2>2
<1> HIDE DEF upto
<1>5. rank \in Injection(P, 1 .. C)
    BY <1>2, <1>4 DEF Injection, IsInjective
<1>6. rank \in Surjection(P, 1 .. C)
  <2>1. 1 \in Int /\ C \in Int
      BY <1>1
  <2>2. IsFiniteSet(1 .. C) /\ Cardinality(1 .. C) = IF 1 > C THEN 0 ELSE C - 1 + 1
      BY <2>1, FS_Interval
  <2>3. Cardinality(1 .. C) = C
      BY <1>1, <2>2
  <2> HIDE DEF rank
  <2>4. QED
      BY <1>5, <2>2, <2>3, FS_Injection DEF C
<1>7. \A n \in 1 .. C : \E k \in P : Cardinality(upto(k)) = n
    BY <1>6 DEF Surjection
<1>8. QED
    BY <1>1, <1>2, <1>4, <1>7 DEF C, upto

(* What Kept keeps. *)
LEMMA KeptElements ==
    ASSUME NEW T, NEW q \in Seq(T), NEW S
    PROVE  /\ Kept(q, S) \in Seq(T)
           /\ Elements(Kept(q, S)) = Elements(q) \cap S
           /\ Once(q) => Once(Kept(q, S))
<1> DEFINE ks == {k \in DOMAIN q : q[k] \in S}
           C == Cardinality(ks)
           nth(n) == CHOOSE k \in ks : Cardinality(ks \cap 1 .. k) = n
           r == [n \in 1 .. C |-> q[nth(n)]]
<1>1. Len(q) \in Nat /\ DOMAIN q = 1 .. Len(q) /\ ks \subseteq 1 .. Len(q)
    OBVIOUS
<1>2. r = Kept(q, S)
    BY DEF Kept
<1> HIDE DEF ks
<1>3. /\ C \in Nat
      /\ \A k \in ks : Cardinality(ks \cap 1 .. k) \in 1 .. C
      /\ \A j, k \in ks : Cardinality(ks \cap 1 .. j) = Cardinality(ks \cap 1 .. k) => j = k
      /\ \A n \in 1 .. C : \E k \in ks : Cardinality(ks \cap 1 .. k) = n
    BY <1>1, Ranks
<1> HIDE DEF C
<1>4. \A n \in 1 .. C : nth(n) \in ks /\ Cardinality(ks \cap 1 .. nth(n)) = n
    BY <1>3
<1>5. \A k \in ks : \E n \in 1 .. C : nth(n) = k
    BY <1>3, <1>4
<1> HIDE DEF nth
<1>6. \A k \in ks : k \in DOMAIN q /\ q[k] \in S /\ q[k] \in T
    BY <1>1 DEF ks
<1>7. r \in Seq(T)
  <2>1. \A n \in 1 .. C : q[nth(n)] \in T
      BY <1>4, <1>6
  <2>2. r \in [1 .. C -> T]
      BY <2>1
  <2> HIDE DEF r
  <2>3. QED
      BY <1>3, <2>2
<1>8. Elements(r) = Elements(q) \cap S
  <2>1. Elements(r) \subseteq Elements(q) \cap S
      BY <1>4, <1>6 DEF Elements
  <2>2. ASSUME NEW x \in Elements(q), x \in S PROVE x \in Elements(r)
    <3>1. PICK k \in DOMAIN q : q[k] = x
        BY <2>2 DEF Elements
    <3>2. k \in ks
        BY <2>2, <3>1 DEF ks
    <3>3. PICK n \in 1 .. C : nth(n) = k
        BY <1>5, <3>2
    <3>4. n \in DOMAIN r /\ r[n] = x
        BY <3>1, <3>3
    <3>5. QED
        BY <3>4 DEF Elements
  <2>3. QED
      BY <2>1, <2>2
<1>9. ASSUME Once(q) PROVE Once(r)
  <2>1. SUFFICES ASSUME NEW j \in 1 .. C, NEW k \in 1 .. C, q[nth(j)] = q[nth(k)]
                 PROVE  j = k
      BY DEF Once
  <2>2. nth(j) = nth(k)
      BY <1>4, <1>6, <1>9, <2>1 DEF Once
  <2>3. QED
      BY <1>4, <2>2
<1>10. QED
    BY <1>2, <1>7, <1>8, <1>9

-----------------------------------------------------------------------------
(* The inductive invariant *)

(* No thread is in two interrupts, or twice in one. *)
Apart ==
    /\ \A h \in Handlers : Once(tmp[h]) /\ hand[h] \notin Elements(tmp[h])
    /\ \A g, h \in Handlers : g # h => Holds(g) \cap Holds(h) = {}

(* As long as the program runs, the threads that were created, have not exited and were
   not freed are the active one, those of the lists and those of the interrupts, each in
   one place. *)
Placed ==
    /\ Once(exe) /\ Once(sleep) /\ Once(join) /\ Apart
    /\ Elements(exe) \cap Elements(sleep) = {}
    /\ Elements(exe) \cap Elements(join) = {}
    /\ Elements(sleep) \cap Elements(join) = {}
    /\ active \notin Elements(exe) \cup Elements(sleep) \cup Elements(join)
    /\ Interrupted \cap ({active} \cup Elements(exe) \cup Elements(sleep) \cup Elements(join)) = {}
    /\ {active} \cup Elements(exe) \cup Elements(sleep) \cup Elements(join) \cup Interrupted
         = Alive \ freed
    /\ \A t \in freed : pc[t] # "new"

(* An interrupt has a thread in its hands exactly between its queue_remove and its
   queue_insert; those that have not begun have none; and who has freed the list of
   sleepers is on top of the active thread's stack until there is a new one. *)
Stacked ==
    /\ \A h \in Handlers : hand[h] # NoThread <=> at[h] \in {"compare", "wake", "keep"}
    /\ \A h \in Handlers : h[2] > depth[h[1]] => at[h] = "none"
    /\ \A h \in Handlers : at[h] = "assign" => h = Top /\ sleep = << >>

Exited(t) == t \in Threads /\ pc[t] = "exited"

(* Who is in the join list waits for a thread that has not exited; who was there and is
   no longer, joined one that has; and a zombie that nobody has asked for has exited. *)
Joins ==
    /\ \A t \in Elements(join) : /\ pc[t] = "joined" /\ join_tid[t] \in Threads
                                 /\ ~Exited(join_tid[t])
    /\ \A t \in Threads : pc[t] = "joined" => t \in Elements(join) \/ Exited(join_tid[t])
    /\ \A z \in Elements(zombie) : Exited(z) \/ z \in asked
    /\ \A t \in Threads : result[t].is = "ok" => Exited(result[t].of)

IInv == TypeOK /\ (program = "runs" => Placed /\ Stacked) /\ Joins

-----------------------------------------------------------------------------
(* What the parts of an operation do to the lists *)

LEMMA SwitchKeeps ==
    ASSUME NEW q \in Seq(Threads), q # << >>, Once(q), SwitchTo(q)
    PROVE  /\ active' \in Threads /\ exe' \in Seq(Threads) /\ Once(exe')
           /\ active' \notin Elements(exe')
           /\ {active'} \cup Elements(exe') = Elements(q)
BY ElementsTail DEF SwitchTo

(* The active thread goes behind the others, as it does in yield. *)
LEMMA GiveWay ==
    ASSUME TypeOK, Placed, SwitchTo(Append(exe, active))
    PROVE  /\ active' \in Threads /\ exe' \in Seq(Threads) /\ Once(exe')
           /\ active' \notin Elements(exe')
           /\ {active'} \cup Elements(exe') = {active} \cup Elements(exe)
<1> DEFINE q == Append(exe, active)
<1>1. exe \in Seq(Threads) /\ active \in Threads /\ Once(exe) /\ active \notin Elements(exe)
    BY DEF TypeOK, Placed
<1>2. q \in Seq(Threads) /\ q # << >> /\ Once(q) /\ Elements(q) = Elements(exe) \cup {active}
    BY <1>1, ElementsAppend
<1>3. SwitchTo(q)
    OBVIOUS
<1> HIDE DEF q
<1>4. QED
    BY <1>2, <1>3, SwitchKeeps

(* The operations that neither join nor exit leave who joined whom as it is. *)
LEMMA JoinsKept ==
    ASSUME TypeOK, Joins, UNCHANGED <<join, zombie, join_tid, result, asked>>,
           \A t \in Threads : /\ pc'[t] = "joined" <=> pc[t] = "joined"
                              /\ pc'[t] = "exited" <=> pc[t] = "exited"
    PROVE  Joins'
<1>1. join \in Seq(Threads) /\ Elements(join) \subseteq Threads
    BY ElementsType DEF TypeOK
<1>2. \A x : Exited(x)' <=> Exited(x)
    BY DEF Exited
<1>3. Elements(join)' = Elements(join) /\ Elements(zombie)' = Elements(zombie)
    OBVIOUS
<1>4. QED
    BY <1>1, <1>2, <1>3 DEF Joins

(* What leaves the interrupts alone leaves what they hold. *)
LEMMA HeldKept ==
    ASSUME UNCHANGED <<hand, tmp>>
    PROVE  Interrupted' = Interrupted /\ (Apart <=> Apart')
BY DEF Interrupted, Holds, Apart

(* A thread that is not in an interrupt has none at "assign". *)
LEMMA NotInside ==
    ASSUME TypeOK, Stacked, depth[active] = 0, UNCHANGED <<depth, at, hand, tmp>>
    PROVE  Stacked'
<1>1. \A h \in Handlers : at[h] # "assign"
    BY DEF Stacked, Handlers, Top
<1>2. QED
    BY <1>1 DEF Stacked

(* The operations of a thread that is in no interrupt and leaves the interrupts alone
   have to look after the lists. *)
LEMMA OutsideKeeps ==
    ASSUME IInv, depth[active] = 0, UNCHANGED handler, program = "runs",
           TypeOK', Joins', \A t \in Threads : pc[t] # "new" => pc'[t] # "new",
           program' = "runs" =>
             /\ Once(exe') /\ Once(sleep') /\ Once(join')
             /\ Elements(exe') \cap Elements(sleep') = {}
             /\ Elements(exe') \cap Elements(join') = {}
             /\ Elements(sleep') \cap Elements(join') = {}
             /\ active' \notin Elements(exe') \cup Elements(sleep') \cup Elements(join')
             /\ Interrupted \cap ({active'} \cup Elements(exe') \cup Elements(sleep')
                                            \cup Elements(join')) = {}
             /\ {active'} \cup Elements(exe') \cup Elements(sleep') \cup Elements(join')
                  \cup Interrupted = Alive' \ freed
    PROVE  IInv'
<1>1. Placed /\ Stacked /\ TypeOK /\ UNCHANGED <<depth, at, hand, tmp, freed>>
    BY DEF IInv, handler
<1>2. Interrupted' = Interrupted /\ Apart'
    BY <1>1, HeldKept DEF Placed
<1>3. program' = "runs" => Placed'
    BY <1>1, <1>2 DEF Placed, TypeOK
<1>4. Stacked'
    BY <1>1, NotInside
<1>5. QED
    BY <1>3, <1>4 DEF IInv

(* What one interrupt does to the threads it holds. *)
LEMMA HoldsChange ==
    ASSUME Apart, NEW top \in Handlers, NEW new,
           Holds(top)' = new, \A h \in Handlers \ {top} : Holds(h)' = Holds(h),
           new \cap (Interrupted \ Holds(top)) = {}
    PROVE  /\ Interrupted' = (Interrupted \ Holds(top)) \cup new
           /\ \A g, h \in Handlers : g # h => Holds(g)' \cap Holds(h)' = {}
<1>1. \A x : x \in Interrupted <=> \E h \in Handlers : x \in Holds(h)
    BY DEF Interrupted
<1>2. \A x : x \in Interrupted' <=> \E h \in Handlers : x \in Holds(h)'
    BY DEF Interrupted
<1>3. \A h \in Handlers \ {top} : Holds(h) \cap Holds(top) = {}
    BY DEF Apart
<1>4. \A h \in Handlers \ {top} : Holds(h) \subseteq Interrupted \ Holds(top)
    BY <1>1, <1>3
<1>5. \A x \in Interrupted \ Holds(top) : \E h \in Handlers \ {top} : x \in Holds(h)
    BY <1>1
<1>6. Interrupted' = (Interrupted \ Holds(top)) \cup new
    BY <1>2, <1>4, <1>5
<1>7. ASSUME NEW g \in Handlers, NEW h \in Handlers, g # h
      PROVE  Holds(g)' \cap Holds(h)' = {}
  <2>1. CASE g = top
      BY <1>4, <1>7, <2>1
  <2>2. CASE h = top
      BY <1>4, <1>7, <2>2
  <2>3. CASE g # top /\ h # top
      BY <1>7, <2>3 DEF Apart
  <2>4. QED
      BY <2>1, <2>2, <2>3
<1>8. QED
    BY <1>6, <1>7

-----------------------------------------------------------------------------
(* Each operation keeps the invariant. *)

LEMMA CreateKeeps ==
    ASSUME IInv, Create
    PROVE  IInv'
<1>1. /\ TypeOK /\ Placed /\ Joins /\ program = "runs" /\ depth[active] = 0
      /\ UNCHANGED <<program, active, sleep, join, zombie, ticks_left, min_delay, join_tid,
                     result, asked, handler>>
    BY DEF IInv, Create, Running
<1>2. PICK t \in Threads : /\ pc[t] = "new" /\ exe' = Append(exe, t)
                           /\ pc' = [pc EXCEPT ![t] = "run"]
    BY DEF Create, Goto
<1>3. exe \in Seq(Threads) /\ pc \in [Threads -> PCs]
    BY <1>1 DEF TypeOK
<1>4. t \notin Alive
    BY <1>2 DEF Alive
<1>5. t \notin freed
    BY <1>1, <1>2 DEF Placed
<1>6. /\ exe' \in Seq(Threads) /\ Elements(exe') = Elements(exe) \cup {t} /\ Once(exe')
    BY <1>1, <1>2, <1>3, <1>4, ElementsAppend DEF Placed
<1>7. TypeOK'
    BY <1>1, <1>2, <1>6 DEF TypeOK, PCs, handler
<1>8. Alive' = Alive \cup {t}
    BY <1>2, <1>3 DEF Alive
<1>9. Joins'
    BY <1>1, <1>2, <1>3, JoinsKept
<1>10. \A u \in Threads : pc[u] # "new" => pc'[u] # "new"
    BY <1>2, <1>3
<1> DEFINE E == Elements(exe)  L == Elements(sleep)  J == Elements(join)
           I == Interrupted  X == Alive \ freed
<1>11. /\ E \cap L = {} /\ E \cap J = {} /\ L \cap J = {} /\ active \notin E \cup L \cup J
       /\ I \cap ({active} \cup E \cup L \cup J) = {}
       /\ {active} \cup E \cup L \cup J \cup I = X
       /\ Once(sleep') /\ Once(join') /\ t \notin X
    BY <1>1, <1>4 DEF Placed
<1>12. Alive' \ freed = X \cup {t}
    BY <1>5, <1>8
<1>13. /\ Elements(exe') = E \cup {t} /\ Elements(sleep') = L /\ Elements(join') = J
       /\ active' = active
    BY <1>1, <1>6
<1> HIDE DEF E, L, J, I, X
<1>14. /\ (E \cup {t}) \cap L = {} /\ (E \cup {t}) \cap J = {}
       /\ active \notin (E \cup {t}) \cup L \cup J
       /\ I \cap ({active} \cup (E \cup {t}) \cup L \cup J) = {}
       /\ {active} \cup (E \cup {t}) \cup L \cup J \cup I = X \cup {t}
    BY <1>11
<1>15. QED
    BY <1>1, <1>6, <1>7, <1>9, <1>10, <1>11, <1>12, <1>13, <1>14, OutsideKeeps DEF I

LEMMA YieldKeeps ==
    ASSUME IInv, Yield
    PROVE  IInv'
<1>1. /\ TypeOK /\ Placed /\ Joins /\ program = "runs" /\ depth[active] = 0
      /\ SwitchTo(Append(exe, active))
      /\ UNCHANGED <<program, sleep, join, zombie, ticks_left, min_delay, join_tid, pc, result,
                     asked, handler>>
    BY DEF IInv, Yield, Running
<1>2. /\ active' \in Threads /\ exe' \in Seq(Threads) /\ Once(exe')
      /\ active' \notin Elements(exe')
      /\ {active'} \cup Elements(exe') = {active} \cup Elements(exe)
    BY <1>1, GiveWay
<1>3. TypeOK'
    BY <1>1, <1>2 DEF TypeOK, handler
<1>4. Alive' = Alive
    BY <1>1 DEF Alive
<1>5. Joins'
    BY <1>1, JoinsKept
<1>6. QED
    BY <1>1, <1>2, <1>3, <1>4, <1>5, OutsideKeeps DEF Placed

(* The clocks count in their ranges. *)
LEMMA CountsType ==
    ASSUME TypeOK
    PROVE  /\ [min_delay EXCEPT ![active] = Delayed] \in [Threads -> 0 .. YieldAfter]
           /\ Passed \in [Threads -> -1 .. MaxSleep]
<1>1. active \in Threads /\ min_delay[active] \in 0 .. YieldAfter /\ YieldAfter \in Nat
    BY SchedAssumption DEF TypeOK
<1>2. Delayed \in 0 .. YieldAfter
    BY <1>1 DEF Delayed
<1>3. \A t \in Threads : ticks_left[t] \in -1 .. MaxSleep
    BY DEF TypeOK
<1>4. Passed \in [Threads -> -1 .. MaxSleep]
    BY <1>3, SchedAssumption DEF Passed
<1>5. QED
    BY <1>2, <1>4 DEF TypeOK

(* A tick begins an interrupt on top of those that its thread is in. *)
LEMMA TickKeeps ==
    ASSUME IInv, Tick
    PROVE  IInv'
<1>1. /\ TypeOK /\ Placed /\ Stacked /\ Joins /\ program = "runs" /\ depth[active] < MaxHandlers
      /\ UNCHANGED <<active, exe, sleep, join, zombie, join_tid, pc, result, asked, hand, tmp,
                     freed>>
    BY DEF IInv, Tick, lists
<1>2. Joins'
    BY <1>1, JoinsKept
<1>3. CASE program' = "undefined" /\ UNCHANGED <<depth, at, min_delay, ticks_left>>
  <2>1. TypeOK'
      BY <1>1, <1>3 DEF TypeOK
  <2>2. QED
      BY <1>2, <1>3, <2>1 DEF IInv
<1>4. CASE /\ ~Dangling
           /\ depth' = [depth EXCEPT ![active] = @ + 1]
           /\ at' = [at EXCEPT ![<<active, depth[active] + 1>>] = "count"]
           /\ min_delay' = [min_delay EXCEPT ![active] = Delayed]
           /\ ticks_left' = Passed
           /\ UNCHANGED program
  <2> DEFINE h0 == <<active, depth[active] + 1>>
  <2>1. /\ active \in Threads /\ depth \in [Threads -> 0 .. MaxHandlers] /\ MaxHandlers \in Nat
        /\ at \in [Handlers -> Places] /\ hand \in [Handlers -> Threads \cup {NoThread}]
      BY <1>1, SchedAssumption DEF TypeOK
  <2>2. depth[active] \in Nat /\ depth[active] + 1 \in 1 .. MaxHandlers
      BY <1>1, <2>1
  <2>3. h0 \in Handlers /\ h0[1] = active /\ h0[2] = depth[active] + 1
      BY <2>1, <2>2 DEF Handlers
  <2>4. depth' \in [Threads -> 0 .. MaxHandlers] /\ at' \in [Handlers -> Places]
    <3>1. depth[active] + 1 \in 0 .. MaxHandlers
        BY <2>1, <2>2
    <3>2. QED
        BY <1>4, <2>1, <3>1 DEF Places
  <2>5. TypeOK'
      BY <1>1, <1>4, <2>4, CountsType DEF TypeOK
  <2>6. at[h0] = "none"
    <3>1. h0[2] > depth[h0[1]]
        BY <2>2, <2>3
    <3>2. QED
        BY <1>1, <2>3, <3>1 DEF Stacked
  <2>7. hand[h0] = NoThread
      BY <1>1, <2>3, <2>6 DEF Stacked
  <2>8. \A h \in Handlers : at[h] # "assign"
    <3>1. SUFFICES ASSUME NEW h \in Handlers, at[h] = "assign" PROVE FALSE
        OBVIOUS
    <3>2. h = Top
        BY <1>1, <3>1 DEF Stacked
    <3>3. depth[active] \in 1 .. MaxHandlers
        BY <3>1, <3>2 DEF Top, Handlers
    <3>4. QED
        BY <1>4, <3>1, <3>2, <3>3 DEF Dangling
  <2> HIDE DEF h0
  <2>9. at'[h0] = "count" /\ \A h \in Handlers : h # h0 => at'[h] = at[h]
      BY <1>4, <2>1, <2>3 DEF h0
  <2>10. \A h \in Handlers : h[2] > depth'[h[1]] => at'[h] = "none"
    <3>1. SUFFICES ASSUME NEW h \in Handlers, h[2] > depth'[h[1]] PROVE at'[h] = "none"
        OBVIOUS
    <3>2. h[1] \in Threads /\ h[2] \in Nat /\ h = <<h[1], h[2]>>
        BY DEF Handlers
    <3>3. depth[h[1]] \in Nat /\ (h[1] # active => depth'[h[1]] = depth[h[1]])
          /\ depth'[active] = depth[active] + 1
        BY <1>4, <2>1, <3>2
    <3>4. h # h0
        BY <2>2, <2>3, <3>1, <3>2, <3>3
    <3>5. h[2] > depth[h[1]]
        BY <2>2, <3>1, <3>2, <3>3
    <3>6. QED
        BY <1>1, <2>9, <3>4, <3>5 DEF Stacked
  <2>11. Stacked'
      BY <1>1, <2>7, <2>8, <2>9, <2>10 DEF Stacked
  <2>12. Interrupted' = Interrupted /\ Apart'
      BY <1>1, HeldKept DEF Placed
  <2>13. Placed'
      BY <1>1, <2>12 DEF Placed, Alive
  <2>14. QED
      BY <1>2, <2>5, <2>11, <2>13 DEF IInv
<1>5. QED
    BY <1>3, <1>4 DEF Tick

-----------------------------------------------------------------------------
(* The steps of an interrupt *)

LEMMA TopType ==
    ASSUME TypeOK, NEW place, In(place)
    PROVE  Top \in Handlers /\ active \in Threads /\ at[Top] = place /\ program = "runs"
           /\ Top[1] = active /\ Top[2] = depth[active] /\ depth[active] \in 1 .. MaxHandlers
<1>1. active \in Threads /\ depth[active] \in 0 .. MaxHandlers /\ depth[active] > 0
    BY DEF TypeOK, In
<1>2. depth[active] \in 1 .. MaxHandlers
    BY <1>1, SchedAssumption
<1>3. QED
    BY <1>1, <1>2 DEF In, Top, Handlers

(* The interrupt goes on, and nothing is between delete_queue and the new list. *)
LEMMA ProceedKeeps ==
    ASSUME TypeOK, Stacked, NEW place, In(place), place # "assign",
           NEW next \in Places \ {"assign"}, Proceed(next), UNCHANGED depth,
           \A h \in Handlers \ {Top} : hand'[h] = hand[h],
           hand'[Top] # NoThread <=> next \in {"compare", "wake", "keep"}
    PROVE  at' \in [Handlers -> Places] /\ Stacked'
<1> DEFINE top == Top
<1>1. top \in Handlers /\ at[top] = place /\ at \in [Handlers -> Places]
      /\ top[1] = active /\ top[2] = depth[active] /\ depth[active] \in Nat
    BY TopType DEF TypeOK
<1>2. at' = [at EXCEPT ![top] = next]
    BY DEF Proceed
<1>3. /\ \A h \in Handlers \ {top} : hand'[h] = hand[h]
      /\ hand'[top] # NoThread <=> next \in {"compare", "wake", "keep"}
    OBVIOUS
<1>4. \A h \in Handlers : at[h] = "assign" => h = top
    BY DEF Stacked
<1>5. \A h \in Handlers : at[h] # "assign"
    BY <1>1, <1>4
<1> HIDE DEF top
<1>6. \A h \in Handlers : at'[h] = IF h = top THEN next ELSE at[h]
    BY <1>1, <1>2
<1>7. \A h \in Handlers : hand'[h] # NoThread <=> at'[h] \in {"compare", "wake", "keep"}
    BY <1>3, <1>6 DEF Stacked
<1>8. \A h \in Handlers : h[2] > depth[h[1]] => at'[h] = "none"
  <2>1. ~(top[2] > depth[top[1]])
      BY <1>1
  <2>2. QED
      BY <1>6, <2>1 DEF Stacked
<1>9. at' \in [Handlers -> Places]
    BY <1>1, <1>2
<1>10. \A h \in Handlers : at'[h] # "assign"
    BY <1>5, <1>6
<1>11. Stacked'
    BY <1>7, <1>8, <1>10 DEF Stacked
<1>12. QED
    BY <1>9, <1>11

(* An interrupt that gives way goes on when its thread is dispatched again. *)
LEMMA PreemptKeeps ==
    ASSUME IInv, Preempt
    PROVE  IInv'
<1>1. /\ TypeOK /\ Placed /\ Stacked /\ Joins /\ program = "runs"
      /\ In("count") /\ Proceed("test")
      /\ UNCHANGED <<program, sleep, join, zombie, ticks_left, min_delay, join_tid, pc, result,
                     asked, depth, hand, tmp, freed>>
    BY DEF IInv, Preempt, In
<1>2. /\ active' \in Threads /\ exe' \in Seq(Threads) /\ Once(exe')
      /\ active' \notin Elements(exe')
      /\ {active'} \cup Elements(exe') = {active} \cup Elements(exe)
  <2>1. CASE SwitchTo(Append(exe, active))
      BY <1>1, <2>1, GiveWay
  <2>2. CASE UNCHANGED <<active, exe>>
      BY <1>1, <2>2 DEF TypeOK, Placed
  <2>3. QED
      BY <2>1, <2>2 DEF Preempt
<1>3. at' \in [Handlers -> Places] /\ Stacked'
  <2>1. Top \in Handlers /\ at[Top] = "count"
      BY <1>1, TopType
  <2>2. hand[Top] = NoThread
      BY <1>1, <2>1 DEF Stacked
  <2>3. "test" \in Places \ {"assign"}
      BY DEF Places
  <2>4. QED
      BY <1>1, <2>2, <2>3, ProceedKeeps
<1>4. TypeOK'
    BY <1>1, <1>2, <1>3 DEF TypeOK
<1>5. Alive' = Alive
    BY <1>1 DEF Alive
<1>6. Interrupted' = Interrupted /\ Apart'
    BY <1>1, HeldKept DEF Placed
<1>7. Placed'
    BY <1>1, <1>2, <1>5, <1>6 DEF Placed
<1>8. Joins'
    BY <1>1, JoinsKept
<1>9. QED
    BY <1>3, <1>4, <1>7, <1>8 DEF IInv

LEMMA ScanTestKeeps ==
    ASSUME IInv, ScanTest
    PROVE  IInv'
<1>1. /\ TypeOK /\ Placed /\ Stacked /\ Joins /\ program = "runs" /\ In("test")
      /\ UNCHANGED <<program, active, exe, sleep, join, zombie, ticks_left, min_delay, join_tid,
                     pc, result, asked, depth, hand, tmp, freed>>
    BY DEF IInv, ScanTest, In, lists
<1>2. PICK next \in {"delete", "remove"} : Proceed(next)
    BY DEF ScanTest
<1>3. at' \in [Handlers -> Places] /\ Stacked'
  <2>1. Top \in Handlers /\ at[Top] = "test"
      BY <1>1, TopType
  <2>2. hand[Top] = NoThread
      BY <1>1, <2>1 DEF Stacked
  <2>3. next \in Places \ {"assign"} /\ next \notin {"compare", "wake", "keep"}
      BY DEF Places
  <2>4. QED
      BY <1>1, <1>2, <2>2, <2>3, ProceedKeeps
<1>4. TypeOK'
    BY <1>1, <1>3 DEF TypeOK
<1>5. Interrupted' = Interrupted /\ Apart'
    BY <1>1, HeldKept DEF Placed
<1>6. Placed'
    BY <1>1, <1>5 DEF Placed, Alive
<1>7. Joins'
    BY <1>1, JoinsKept
<1>8. QED
    BY <1>3, <1>4, <1>6, <1>7 DEF IInv

LEMMA ScanCompareKeeps ==
    ASSUME IInv, ScanCompare
    PROVE  IInv'
<1>1. /\ TypeOK /\ Placed /\ Stacked /\ Joins /\ program = "runs" /\ In("compare")
      /\ UNCHANGED <<program, active, exe, sleep, join, zombie, ticks_left, min_delay, join_tid,
                     pc, result, asked, depth, hand, tmp, freed>>
    BY DEF IInv, ScanCompare, In, lists
<1>2. PICK next \in {"wake", "keep"} : Proceed(next)
    BY DEF ScanCompare
<1>3. at' \in [Handlers -> Places] /\ Stacked'
  <2>1. Top \in Handlers /\ at[Top] = "compare"
      BY <1>1, TopType
  <2>2. hand[Top] # NoThread
      BY <1>1, <2>1 DEF Stacked
  <2>3. next \in Places \ {"assign"} /\ next \in {"compare", "wake", "keep"}
      BY DEF Places
  <2>4. QED
      BY <1>1, <1>2, <2>2, <2>3, ProceedKeeps
<1>4. TypeOK'
    BY <1>1, <1>3 DEF TypeOK
<1>5. Interrupted' = Interrupted /\ Apart'
    BY <1>1, HeldKept DEF Placed
<1>6. Placed'
    BY <1>1, <1>5 DEF Placed, Alive
<1>7. Joins'
    BY <1>1, JoinsKept
<1>8. QED
    BY <1>3, <1>4, <1>6, <1>7 DEF IInv

(* The first of the sleeping threads goes from the list into the interrupt's hands. *)
LEMMA ScanRemoveKeeps ==
    ASSUME IInv, ScanRemove
    PROVE  IInv'
<1>1. /\ TypeOK /\ Placed /\ Stacked /\ Joins /\ program = "runs" /\ In("remove")
      /\ UNCHANGED <<active, exe, join, zombie, ticks_left, min_delay, join_tid, pc, result,
                     asked, depth, tmp, freed>>
    BY DEF IInv, ScanRemove, In
<1>2. Joins'
    BY <1>1, JoinsKept
<1>3. CASE program' = "crashed" /\ UNCHANGED <<hand, sleep, at>>
  <2>1. TypeOK'
      BY <1>1, <1>3 DEF TypeOK
  <2>2. QED
      BY <1>2, <1>3, <2>1 DEF IInv
<1>4. CASE /\ sleep # << >>
           /\ hand' = [hand EXCEPT ![Top] = Head(sleep)]
           /\ sleep' = Tail(sleep)
           /\ Proceed("compare")
           /\ UNCHANGED program
  <2>1. PICK top \in Handlers : top = Top /\ at[top] = "remove"
      BY <1>1, TopType
  <2>a. /\ hand[top] = NoThread
        /\ hand \in [Handlers -> Threads \cup {NoThread}]
        /\ sleep \in Seq(Threads) /\ tmp \in [Handlers -> Seq(Threads)]
      BY <1>1, <2>1 DEF TypeOK, Stacked
  <2>b. PICK t \in Threads : t = Head(sleep)
      BY <1>4, <2>a, ElementsTail
  <2>2. /\ t \in Threads /\ t # NoThread /\ sleep' \in Seq(Threads) /\ Once(sleep')
        /\ Elements(sleep) = {t} \cup Elements(sleep') /\ t \notin Elements(sleep')
      BY <1>1, <1>4, <2>a, <2>b, ElementsTail, SchedAssumption DEF Placed
  <2>3. hand' = [hand EXCEPT ![top] = t]
      BY <1>4, <2>1, <2>b
  <2>4. at' \in [Handlers -> Places] /\ Stacked'
    <3>1. hand'[Top] # NoThread /\ \A h \in Handlers \ {Top} : hand'[h] = hand[h]
        BY <2>1, <2>a, <2>2, <2>3
    <3>2. "compare" \in Places \ {"assign"}
        BY DEF Places
    <3>3. QED
        BY <1>1, <1>4, <3>1, <3>2, ProceedKeeps
  <2>5. TypeOK'
    <3>1. hand' \in [Handlers -> Threads \cup {NoThread}]
        BY <2>a, <2>2, <2>3
    <3>2. QED
        BY <1>1, <1>4, <2>2, <2>4, <3>1 DEF TypeOK
  <2>6. /\ Holds(top) = Elements(tmp[top]) /\ Holds(top)' = Holds(top) \cup {t}
        /\ \A h \in Handlers \ {top} : Holds(h)' = Holds(h)
      BY <1>1, <2>1, <2>a, <2>2, <2>3 DEF Holds
  <2>7. t \notin Interrupted
      BY <1>1, <2>2 DEF Placed
  <2>8. /\ Interrupted' = Interrupted \cup {t}
        /\ \A g, h \in Handlers : g # h => Holds(g)' \cap Holds(h)' = {}
    <3>1. Holds(top) \subseteq Interrupted
        BY <2>1 DEF Interrupted
    <3>2. Holds(top)' \cap (Interrupted \ Holds(top)) = {}
        BY <2>6, <2>7
    <3>3. /\ Interrupted' = (Interrupted \ Holds(top)) \cup Holds(top)'
          /\ \A g, h \in Handlers : g # h => Holds(g)' \cap Holds(h)' = {}
        BY <1>1, <2>1, <2>a, <2>6, <3>2, HoldsChange DEF Placed
    <3>4. QED
        BY <2>6, <3>1, <3>3
  <2>9. Apart'
    <3>1. \A h \in Handlers : Once(tmp[h])' /\ hand'[h] \notin Elements(tmp[h])'
      <4>1. t \notin Elements(tmp[top])
          BY <2>1, <2>a, <2>6, <2>7 DEF Interrupted
      <4>2. QED
          BY <1>1, <2>1, <2>a, <2>3, <4>1 DEF Placed, Apart, Once
    <3>2. QED
        BY <2>8, <3>1 DEF Apart
  <2>10. Placed'
    <3>1. Alive' = Alive
        BY <1>1 DEF Alive
    <3>2. QED
        BY <1>1, <2>2, <2>8, <2>9, <3>1 DEF Placed
  <2>11. QED
      BY <1>2, <2>4, <2>5, <2>10 DEF IInv
<1>5. QED
    BY <1>3, <1>4 DEF ScanRemove

(* The thread in the interrupt's hands: where it is, and that nothing else changes for
   the other interrupts when it is put down. *)
LEMMA InHand ==
    ASSUME TypeOK, Placed, Stacked, NEW place \in {"wake", "keep"}, In(place)
    PROVE  /\ Top \in Handlers /\ hand[Top] \in Threads
           /\ hand[Top] \notin Elements(tmp[Top]) /\ Once(tmp[Top])
           /\ Holds(Top) = Elements(tmp[Top]) \cup {hand[Top]}
           /\ Holds(Top) \subseteq Interrupted
           /\ hand \in [Handlers -> Threads \cup {NoThread}]
           /\ tmp \in [Handlers -> Seq(Threads)]
<1>1. Top \in Handlers /\ at[Top] = place
    BY TopType
<1>2. hand[Top] # NoThread /\ hand[Top] \in Threads \cup {NoThread}
    BY <1>1 DEF Stacked, TypeOK
<1>3. Holds(Top) = Elements(tmp[Top]) \cup {hand[Top]}
    BY <1>2 DEF Holds
<1>4. Holds(Top) \subseteq Interrupted
    BY <1>1 DEF Interrupted
<1>5. QED
    BY <1>1, <1>2, <1>3, <1>4 DEF Placed, Apart, TypeOK

LEMMA ScanWakeKeeps ==
    ASSUME IInv, ScanWake
    PROVE  IInv'
<1>a. In("wake") /\ TypeOK /\ Placed /\ Stacked
    BY DEF IInv, ScanWake, In
<1>b. Top \in Handlers /\ hand[Top] \in Threads
    BY <1>a, InHand
<1>c. PICK top \in Handlers, t \in Threads : top = Top /\ t = hand[Top]
    BY <1>b
<1>1. /\ TypeOK /\ Placed /\ Stacked /\ Joins /\ program = "runs" /\ In("wake")
      /\ exe' = Append(exe, t)
      /\ hand' = [hand EXCEPT ![top] = NoThread] /\ Proceed("test")
      /\ UNCHANGED <<program, active, sleep, join, zombie, ticks_left, min_delay, join_tid, pc,
                     result, asked, depth, tmp, freed>>
    BY <1>c DEF IInv, ScanWake, In
<1>2. /\ top \in Handlers /\ t \in Threads /\ t = hand[top]
      /\ t \notin Elements(tmp[top])
      /\ Holds(top) = Elements(tmp[top]) \cup {t} /\ Holds(top) \subseteq Interrupted
      /\ hand \in [Handlers -> Threads \cup {NoThread}]
    BY <1>1, <1>c, InHand
<1>3. at' \in [Handlers -> Places] /\ Stacked'
  <2>1. hand'[Top] = NoThread /\ \A h \in Handlers \ {Top} : hand'[h] = hand[h]
      BY <1>1, <1>2, <1>c
  <2>2. "test" \in Places \ {"assign"}
      BY DEF Places
  <2>3. QED
      BY <1>1, <2>1, <2>2, ProceedKeeps
<1>4. exe \in Seq(Threads) /\ Once(exe) /\ t \in Interrupted /\ t \notin Elements(exe)
    BY <1>1, <1>2 DEF TypeOK, Placed
<1>5. exe' \in Seq(Threads) /\ Once(exe') /\ Elements(exe') = Elements(exe) \cup {t}
    BY <1>1, <1>2, <1>4, ElementsAppend
<1>6. hand' \in [Handlers -> Threads \cup {NoThread}]
    BY <1>1, <1>2
<1>7. TypeOK'
    BY <1>1, <1>3, <1>5, <1>6 DEF TypeOK
<1>8. /\ Holds(top)' = Holds(top) \ {t}
      /\ \A h \in Handlers \ {top} : Holds(h)' = Holds(h)
    BY <1>1, <1>2 DEF Holds
<1>9. /\ Interrupted' = Interrupted \ {t}
      /\ \A g, h \in Handlers : g # h => Holds(g)' \cap Holds(h)' = {}
  <2>1. Holds(top)' \cap (Interrupted \ Holds(top)) = {}
      BY <1>8
  <2>2. /\ Interrupted' = (Interrupted \ Holds(top)) \cup Holds(top)'
        /\ \A g, h \in Handlers : g # h => Holds(g)' \cap Holds(h)' = {}
      BY <1>1, <1>2, <1>8, <2>1, HoldsChange DEF Placed
  <2>3. QED
      BY <1>2, <1>8, <2>2
<1>10. Apart'
  <2>1. \A h \in Handlers : Once(tmp[h])' /\ hand'[h] \notin Elements(tmp[h])'
    <3>1. NoThread \notin Elements(tmp[top])
      <4>1. tmp[top] \in Seq(Threads)
          BY <1>1, <1>2 DEF TypeOK
      <4>2. QED
          BY <4>1, ElementsType, SchedAssumption
    <3>2. QED
        BY <1>1, <1>2, <3>1 DEF Placed, Apart, Once
  <2>2. QED
      BY <1>9, <2>1 DEF Apart
<1>11. Placed'
  <2>1. Alive' = Alive
      BY <1>1 DEF Alive
  <2>2. QED
      BY <1>1, <1>4, <1>5, <1>9, <1>10, <2>1 DEF Placed
<1>12. Joins'
    BY <1>1, JoinsKept
<1>13. QED
    BY <1>3, <1>7, <1>11, <1>12 DEF IInv

LEMMA ScanKeepKeeps ==
    ASSUME IInv, ScanKeep
    PROVE  IInv'
<1>a. In("keep") /\ TypeOK /\ Placed /\ Stacked
    BY DEF IInv, ScanKeep, In
<1>b. Top \in Handlers /\ hand[Top] \in Threads
    BY <1>a, InHand
<1>c. PICK top \in Handlers, t \in Threads : top = Top /\ t = hand[Top]
    BY <1>b
<1>1. /\ TypeOK /\ Placed /\ Stacked /\ Joins /\ program = "runs" /\ In("keep")
      /\ tmp' = [tmp EXCEPT ![top] = Append(@, t)]
      /\ hand' = [hand EXCEPT ![top] = NoThread] /\ Proceed("test")
      /\ UNCHANGED <<program, active, exe, sleep, join, zombie, ticks_left, min_delay, join_tid,
                     pc, result, asked, depth, freed>>
    BY <1>c DEF IInv, ScanKeep, In, lists
<1>2. /\ top \in Handlers /\ t \in Threads /\ t = hand[top]
      /\ t \notin Elements(tmp[top]) /\ Once(tmp[top])
      /\ Holds(top) = Elements(tmp[top]) \cup {t} /\ Holds(top) \subseteq Interrupted
      /\ hand \in [Handlers -> Threads \cup {NoThread}]
      /\ tmp \in [Handlers -> Seq(Threads)]
    BY <1>1, <1>c, InHand
<1>3. at' \in [Handlers -> Places] /\ Stacked'
  <2>1. hand'[Top] = NoThread /\ \A h \in Handlers \ {Top} : hand'[h] = hand[h]
      BY <1>1, <1>2, <1>c
  <2>2. "test" \in Places \ {"assign"}
      BY DEF Places
  <2>3. QED
      BY <1>1, <2>1, <2>2, ProceedKeeps
<1>4. /\ tmp'[top] = Append(tmp[top], t) /\ \A h \in Handlers \ {top} : tmp'[h] = tmp[h]
      /\ hand'[top] = NoThread /\ \A h \in Handlers \ {top} : hand'[h] = hand[h]
    BY <1>1, <1>2
<1>5. /\ tmp'[top] \in Seq(Threads) /\ Once(tmp'[top])
      /\ Elements(tmp'[top]) = Elements(tmp[top]) \cup {t}
  <2> DEFINE q == tmp[top]
  <2>1. q \in Seq(Threads) /\ Once(q) /\ t \notin Elements(q)
      BY <1>2
  <2> HIDE DEF q
  <2>2. /\ Append(q, t) \in Seq(Threads) /\ Once(Append(q, t))
        /\ Elements(Append(q, t)) = Elements(q) \cup {t}
      BY <1>2, <2>1, ElementsAppend
  <2>3. QED
      BY <1>4, <2>2 DEF q
<1>6. /\ hand' \in [Handlers -> Threads \cup {NoThread}]
      /\ tmp' \in [Handlers -> Seq(Threads)]
    BY <1>1, <1>2, <1>4, <1>5
<1>7. TypeOK'
    BY <1>1, <1>3, <1>6 DEF TypeOK
<1>8. \A h \in Handlers : Holds(h)' = Holds(h)
  <2>1. \A h \in Handlers : Holds(h)' = Elements(tmp'[h]) \cup ({hand'[h]} \ {NoThread})
      BY DEF Holds
  <2>2. Holds(top)' = Holds(top)
      BY <1>2, <1>4, <1>5, <2>1
  <2>3. \A h \in Handlers \ {top} : Holds(h)' = Holds(h)
      BY <1>4, <2>1 DEF Holds
  <2>4. QED
      BY <2>2, <2>3
<1>9. Interrupted' = Interrupted
    BY <1>8 DEF Interrupted
<1>10. Apart'
  <2>1. \A h \in Handlers : Once(tmp'[h]) /\ hand'[h] \notin Elements(tmp'[h])
    <3>1. hand'[top] \notin Elements(tmp'[top])
        BY <1>4, <1>5, ElementsType, SchedAssumption
    <3>2. QED
        BY <1>1, <1>4, <1>5, <3>1 DEF Placed, Apart
  <2>2. \A h \in Handlers : Once(tmp[h])' /\ hand'[h] \notin Elements(tmp[h])'
      BY <2>1 DEF Once
  <2>3. QED
      BY <1>1, <1>8, <2>2 DEF Apart, Placed
<1>11. Placed'
    BY <1>1, <1>9, <1>10 DEF Placed, Alive
<1>12. Joins'
    BY <1>1, JoinsKept
<1>13. QED
    BY <1>3, <1>7, <1>11, <1>12 DEF IInv

(* The threads that delete_queue frees were created. *)
LEMMA ScanDeleteKeeps ==
    ASSUME IInv, ScanDelete
    PROVE  IInv'
<1> DEFINE top == Top
<1>1. /\ TypeOK /\ Placed /\ Stacked /\ Joins /\ program = "runs" /\ In("delete")
      /\ freed' = freed \cup Elements(sleep) /\ sleep' = << >> /\ Proceed("assign")
      /\ UNCHANGED <<program, active, exe, join, zombie, ticks_left, min_delay, join_tid, pc,
                     result, asked, depth, hand, tmp>>
    BY DEF IInv, ScanDelete, In
<1>2. /\ top \in Handlers /\ at[top] = "delete" /\ top[1] = active /\ top[2] = depth[active]
      /\ at \in [Handlers -> Places] /\ depth[active] \in Nat /\ hand[top] = NoThread
  <2>1. top \in Handlers /\ at[top] = "delete" /\ top[1] = active /\ top[2] = depth[active]
      BY <1>1, TopType
  <2>2. depth[active] \in 0 .. MaxHandlers /\ at \in [Handlers -> Places]
      BY <1>1 DEF TypeOK
  <2>3. hand[top] = NoThread
      BY <1>1, <2>1 DEF Stacked
  <2>4. QED
      BY <2>1, <2>2, <2>3, SchedAssumption
<1>3. at' = [at EXCEPT ![top] = "assign"] /\ top' = top
    BY <1>1 DEF Proceed, Top
<1>4. \A h \in Handlers : at[h] # "assign"
    BY <1>1, <1>2 DEF Stacked
<1>5. at' \in [Handlers -> Places]
    BY <1>2, <1>3 DEF Places
<1>6. Stacked'
  <2>1. ~(top[2] > depth[top[1]])
      BY <1>2
  <2>2. \A h \in Handlers : h[2] > depth'[h[1]] => at'[h] = "none"
      BY <1>1, <1>2, <1>3, <2>1 DEF Stacked
  <2>3. \A h \in Handlers : hand'[h] # NoThread <=> at'[h] \in {"compare", "wake", "keep"}
      BY <1>1, <1>2, <1>3 DEF Stacked
  <2>4. \A h \in Handlers : at'[h] = "assign" => h = Top' /\ sleep' = << >>
      BY <1>1, <1>2, <1>3, <1>4
  <2>5. QED
      BY <2>2, <2>3, <2>4 DEF Stacked
<1>7. sleep \in Seq(Threads) /\ Elements(sleep) \subseteq Threads
    BY <1>1, ElementsType DEF TypeOK
<1>8. << >> \in Seq(Threads) /\ Elements(<< >>) = {} /\ Once(<< >>)
    BY DEF Elements, Once
<1>9. TypeOK'
    BY <1>1, <1>5, <1>7, <1>8 DEF TypeOK
<1>10. Interrupted' = Interrupted /\ Apart'
    BY <1>1, HeldKept DEF Placed
<1>11. Placed'
  <2>1. Alive' = Alive
      BY <1>1 DEF Alive
  <2>2. Elements(sleep) \subseteq Alive \ freed
      BY <1>1 DEF Placed
  <2>3. \A t \in freed' : pc[t] # "new"
      BY <1>1, <2>2 DEF Placed, Alive
  <2>4. Elements(sleep') = {} /\ Once(sleep')
      BY <1>1, <1>8
  <2>5. {active} \cup Elements(exe) \cup Elements(sleep') \cup Elements(join) \cup Interrupted
          = Alive \ freed'
      BY <1>1, <2>4 DEF Placed
  <2>6. QED
      BY <1>1, <1>10, <2>1, <2>3, <2>4, <2>5 DEF Placed
<1>12. Joins'
    BY <1>1, JoinsKept
<1>13. QED
    BY <1>6, <1>9, <1>11, <1>12 DEF IInv

(* The new list of sleepers is the interrupt's, which had freed an old one with nobody in
   it. *)
LEMMA ScanAssignKeeps ==
    ASSUME IInv, ScanAssign
    PROVE  IInv'
<1>a. TypeOK /\ In("assign")
    BY DEF IInv, ScanAssign
<1>b. PICK top \in Handlers : /\ top = Top /\ at[top] = "assign" /\ active \in Threads
                              /\ top[1] = active /\ top[2] = depth[active]
                              /\ depth[active] \in 1 .. MaxHandlers
    BY <1>a, TopType
<1>1. /\ TypeOK /\ Placed /\ Stacked /\ Joins /\ program = "runs" /\ In("assign")
      /\ sleep' = tmp[top] /\ tmp' = [tmp EXCEPT ![top] = << >>] /\ Proceed("none")
      /\ depth' = [depth EXCEPT ![active] = @ - 1]
      /\ UNCHANGED <<program, active, exe, join, zombie, ticks_left, min_delay, join_tid, pc,
                     result, asked, hand, freed>>
    BY <1>b DEF IInv, ScanAssign, In
<1>2. /\ top \in Handlers /\ at[top] = "assign" /\ top = <<active, depth[active]>>
      /\ top[1] = active /\ top[2] = depth[active] /\ active \in Threads
      /\ at \in [Handlers -> Places] /\ depth[active] \in 1 .. MaxHandlers
      /\ hand[top] = NoThread /\ sleep = << >>
      /\ tmp \in [Handlers -> Seq(Threads)] /\ depth \in [Threads -> 0 .. MaxHandlers]
    BY <1>1, <1>b DEF TypeOK, Stacked, Top
<1>3. at' = [at EXCEPT ![top] = "none"]
    BY <1>1, <1>b DEF Proceed
<1>4. \A h \in Handlers : at[h] = "assign" => h = top
    BY <1>1, <1>b DEF Stacked
<1>5. at' \in [Handlers -> Places] /\ \A h \in Handlers : at'[h] # "assign"
    BY <1>2, <1>3, <1>4 DEF Places
<1>6. /\ depth' \in [Threads -> 0 .. MaxHandlers] /\ depth'[active] = depth[active] - 1
      /\ \A t \in Threads \ {active} : depth'[t] = depth[t]
  <2>1. depth[active] - 1 \in 0 .. MaxHandlers
      BY <1>2, SchedAssumption
  <2>2. QED
      BY <1>1, <1>2, <2>1
<1>7. Stacked'
  <2>1. SUFFICES ASSUME NEW h \in Handlers, h[2] > depth'[h[1]] PROVE at'[h] = "none"
    <3>1. \A h \in Handlers : hand'[h] # NoThread <=> at'[h] \in {"compare", "wake", "keep"}
        BY <1>1, <1>2, <1>3 DEF Stacked
    <3>2. QED
        BY <1>5, <3>1 DEF Stacked
  <2>2. h[1] \in Threads /\ h[2] \in 1 .. MaxHandlers /\ h = <<h[1], h[2]>>
      BY DEF Handlers
  <2>3. CASE h = top
      BY <1>2, <1>3, <2>3
  <2>4. CASE h # top
    <3>1. h[1] # active \/ h[2] # depth[active]
        BY <1>2, <2>2, <2>4
    <3>2. h[2] > depth[h[1]]
      <4>1. CASE h[1] # active
          BY <1>6, <2>1, <2>2, <4>1
      <4>2. CASE h[1] = active
        <5>1. h[2] # depth[active] /\ h[2] > depth[active] - 1
            BY <1>6, <2>1, <3>1, <4>2
        <5>2. h[2] \in Nat /\ depth[active] \in Nat
            BY <1>2, <2>2
        <5>3. h[2] > depth[active]
            BY <5>1, <5>2
        <5>4. QED
            BY <4>2, <5>3
      <4>3. QED
          BY <4>1, <4>2
    <3>3. at[h] = "none"
        BY <1>1, <3>2 DEF Stacked
    <3>4. QED
        BY <1>2, <1>3, <2>4, <3>3
  <2>5. QED
      BY <2>3, <2>4
<1>8. << >> \in Seq(Threads) /\ Elements(<< >>) = {} /\ Once(<< >>)
    BY DEF Elements, Once
<1>9. tmp' \in [Handlers -> Seq(Threads)] /\ sleep' \in Seq(Threads)
    BY <1>1, <1>2, <1>8
<1>10. TypeOK'
    BY <1>1, <1>5, <1>6, <1>9 DEF TypeOK
<1>11. /\ tmp'[top] = << >> /\ \A h \in Handlers \ {top} : tmp'[h] = tmp[h]
    BY <1>1, <1>2
<1>12. /\ Holds(top) = Elements(tmp[top]) /\ Holds(top)' = {}
       /\ \A h \in Handlers \ {top} : Holds(h)' = Holds(h)
    BY <1>1, <1>2, <1>8, <1>11 DEF Holds
<1>13. /\ Interrupted' = Interrupted \ Elements(tmp[top])
       /\ \A g, h \in Handlers : g # h => Holds(g)' \cap Holds(h)' = {}
  <2>1. Holds(top)' \cap (Interrupted \ Holds(top)) = {}
      BY <1>12
  <2>2. /\ Interrupted' = (Interrupted \ Holds(top)) \cup Holds(top)'
        /\ \A g, h \in Handlers : g # h => Holds(g)' \cap Holds(h)' = {}
      BY <1>1, <1>2, <1>12, <2>1, HoldsChange DEF Placed
  <2>3. QED
      BY <1>12, <2>2
<1>14. Apart'
  <2>1. \A h \in Handlers : Once(tmp[h])' /\ hand'[h] \notin Elements(tmp[h])'
    <3>1. \A h \in Handlers : Once(tmp'[h]) /\ hand'[h] \notin Elements(tmp'[h])
        BY <1>1, <1>8, <1>11 DEF Placed, Apart
    <3>2. QED
        BY <3>1 DEF Once
  <2>2. QED
      BY <1>13, <2>1 DEF Apart
<1>15. Placed'
  <2>1. Alive' = Alive
      BY <1>1 DEF Alive
  <2>2. /\ Elements(sleep) = {} /\ Elements(tmp[top]) \subseteq Interrupted
        /\ Once(tmp[top])
    <3>1. Holds(top) \subseteq Interrupted
        BY <1>2 DEF Interrupted
    <3>2. QED
        BY <1>1, <1>2, <1>8, <1>12, <3>1 DEF Placed, Apart
  <2>3. Elements(sleep') = Elements(tmp[top]) /\ Once(sleep')
      BY <1>1, <2>2
  <2>4. {active} \cup Elements(exe) \cup Elements(sleep') \cup Elements(join) \cup Interrupted'
          = Alive \ freed
      BY <1>1, <1>13, <2>2, <2>3 DEF Placed
  <2>5. QED
      BY <1>1, <1>13, <1>14, <2>1, <2>2, <2>3, <2>4 DEF Placed
<1>16. Joins'
    BY <1>1, JoinsKept
<1>17. QED
    BY <1>7, <1>10, <1>15, <1>16 DEF IInv

-----------------------------------------------------------------------------
(* exit, join and sleep *)

LEMMA EndOrSwitchKeeps ==
    ASSUME active \in Threads, program = "runs",
           NEW q \in Seq(Threads), Once(q), EndOrSwitch(q)
    PROVE  /\ active' \in Threads /\ exe' \in Seq(Threads) /\ program' \in {"runs", "ended"}
           /\ program' = "runs" => /\ Once(exe') /\ active' \notin Elements(exe')
                                   /\ {active'} \cup Elements(exe') = Elements(q)
<1>1. CASE q = << >>
    BY <1>1 DEF EndOrSwitch
<1>2. CASE q # << >>
    BY <1>2, SwitchKeeps DEF EndOrSwitch
<1>3. QED
    BY <1>1, <1>2

(* The threads that joined the one that exits go back to the run queue, the others stay. *)
LEMMA ExitKeeps ==
    ASSUME IInv, Exit
    PROVE  IInv'
<1> DEFINE mine == {t \in Threads : join_tid[t] = active}
           waiters == Kept(join, mine)
           q == exe \o waiters
<1>1. /\ TypeOK /\ Placed /\ Joins /\ program = "runs" /\ pc[active] = "run"
      /\ depth[active] = 0
      /\ join' = Kept(join, Threads \ mine)
      /\ zombie' = IF waiters = << >> THEN Append(zombie, active) ELSE zombie
      /\ EndOrSwitch(q)
      /\ pc' = [pc EXCEPT ![active] = "exited"]
      /\ UNCHANGED <<sleep, ticks_left, min_delay, join_tid, result, asked, handler>>
    BY DEF IInv, Exit, Running, Goto
<1>2. /\ active \in Threads /\ pc \in [Threads -> PCs]
      /\ exe \in Seq(Threads) /\ join \in Seq(Threads) /\ zombie \in Seq(Threads)
    BY <1>1 DEF TypeOK
<1>3. Elements(join) \subseteq Threads /\ Elements(zombie) \subseteq Threads
    BY <1>2, ElementsType
<1>4. /\ Once(exe) /\ Once(join) /\ Elements(exe) \cap Elements(join) = {}
    BY <1>1 DEF Placed
<1>5. \A t \in Elements(join) : t \in mine <=> join_tid[t] = active
    BY <1>3
<1> HIDE DEF mine
<1>6. /\ waiters \in Seq(Threads) /\ Once(waiters) /\ Elements(waiters) = Elements(join) \cap mine
      /\ join' \in Seq(Threads) /\ Once(join')
      /\ Elements(join') = Elements(join) \cap (Threads \ mine)
    BY <1>1, <1>2, <1>4, KeptElements
<1> HIDE DEF waiters
<1>7. q \in Seq(Threads) /\ Once(q) /\ Elements(q) = Elements(exe) \cup Elements(waiters)
    BY <1>2, <1>4, <1>6, ElementsConcat
<1> HIDE DEF q
<1>8. /\ active' \in Threads /\ exe' \in Seq(Threads) /\ program' \in {"runs", "ended"}
      /\ program' = "runs" => /\ Once(exe') /\ active' \notin Elements(exe')
                              /\ {active'} \cup Elements(exe') = Elements(q)
    BY <1>1, <1>2, <1>7, EndOrSwitchKeeps
<1>9. /\ zombie' \in Seq(Threads)
      /\ Elements(zombie') \subseteq Elements(zombie) \cup {active}
    BY <1>1, <1>2, ElementsAppend
<1>10. TypeOK'
    BY <1>1, <1>2, <1>6, <1>8, <1>9 DEF TypeOK, PCs, handler
<1>11. Alive' = Alive \ {active}
    BY <1>1, <1>2 DEF Alive
<1>12. program' = "runs" =>
         /\ Once(exe') /\ Once(sleep') /\ Once(join')
         /\ Elements(exe') \cap Elements(sleep') = {}
         /\ Elements(exe') \cap Elements(join') = {}
         /\ Elements(sleep') \cap Elements(join') = {}
         /\ active' \notin Elements(exe') \cup Elements(sleep') \cup Elements(join')
         /\ Interrupted \cap ({active'} \cup Elements(exe') \cup Elements(sleep')
                                        \cup Elements(join')) = {}
         /\ {active'} \cup Elements(exe') \cup Elements(sleep') \cup Elements(join')
              \cup Interrupted = Alive' \ freed
  <2>1. Elements(join') \cup Elements(waiters) = Elements(join)
      BY <1>3, <1>6
  <2>2. Elements(join') \cap Elements(waiters) = {}
      BY <1>6
  <2>3. /\ Once(sleep) /\ sleep' = sleep
        /\ Elements(exe) \cap Elements(sleep) = {}
        /\ Elements(exe) \cap Elements(join) = {}
        /\ Elements(sleep) \cap Elements(join) = {}
        /\ active \notin Elements(exe) \cup Elements(sleep) \cup Elements(join)
        /\ Interrupted \cap ({active} \cup Elements(exe) \cup Elements(sleep)
                                      \cup Elements(join)) = {}
        /\ {active} \cup Elements(exe) \cup Elements(sleep) \cup Elements(join) \cup Interrupted
             = Alive \ freed
      BY <1>1 DEF Placed
  <2>4. SUFFICES ASSUME program' = "runs"
                 PROVE  /\ Once(exe') /\ Once(sleep') /\ Once(join')
                        /\ Elements(exe') \cap Elements(sleep') = {}
                        /\ Elements(exe') \cap Elements(join') = {}
                        /\ Elements(sleep') \cap Elements(join') = {}
                        /\ active' \notin Elements(exe') \cup Elements(sleep') \cup Elements(join')
                        /\ Interrupted \cap ({active'} \cup Elements(exe') \cup Elements(sleep')
                                                       \cup Elements(join')) = {}
                        /\ {active'} \cup Elements(exe') \cup Elements(sleep') \cup Elements(join')
                             \cup Interrupted = Alive' \ freed
      OBVIOUS
  <2> DEFINE E == Elements(exe)  L == Elements(sleep)  J == Elements(join)
             W == Elements(waiters)  F == Elements(exe')  K == Elements(join')
             I == Interrupted  X == Alive \ freed
  <2>5. /\ {active'} \cup F = E \cup W /\ active' \notin F
        /\ K \cup W = J /\ K \cap W = {}
        /\ E \cap L = {} /\ E \cap J = {} /\ L \cap J = {}
        /\ active \notin E \cup L \cup J
        /\ I \cap ({active} \cup E \cup L \cup J) = {}
        /\ {active} \cup E \cup L \cup J \cup I = X
      BY <1>7, <1>8, <2>1, <2>2, <2>3, <2>4
  <2> HIDE DEF E, L, J, W, F, K, I, X
  <2>6. F \cap L = {} /\ F \cap K = {} /\ L \cap K = {}
      BY <2>5
  <2>7. active' \notin F \cup L \cup K
      BY <2>5
  <2>8. I \cap ({active'} \cup F \cup L \cup K) = {}
      BY <2>5
  <2>9. {active'} \cup F \cup L \cup K \cup I = X \ {active}
      BY <2>5
  <2>10. X \ {active} = Alive' \ freed
      BY <1>11 DEF X
  <2>11. QED
      BY <1>6, <1>8, <2>3, <2>4, <2>6, <2>7, <2>8, <2>9, <2>10 DEF E, L, J, F, K, I
<1>13. Joins'
  <2>1. \A x : Exited(x)' <=> Exited(x) \/ x = active
      BY <1>1, <1>2 DEF Exited
  <2>2. \A t \in Elements(join') : t \in Elements(join) /\ join_tid[t] # active
      BY <1>3, <1>5, <1>6
  <2>3. \A t \in Elements(join) : t \in Elements(join') \/ join_tid[t] = active
      BY <1>3, <1>5, <1>6
  <2>4. active \notin Elements(join)
      BY <1>1 DEF Placed
  <2>5. \A t \in Elements(join') : /\ pc'[t] = "joined" /\ join_tid'[t] \in Threads
                                   /\ ~Exited(join_tid[t])'
      BY <1>1, <1>2, <1>3, <2>1, <2>2, <2>4 DEF Joins
  <2>6. \A t \in Threads : pc'[t] = "joined" => t \in Elements(join') \/ Exited(join_tid[t])'
      BY <1>1, <1>2, <2>1, <2>3 DEF Joins
  <2>7. \A z \in Elements(zombie') : Exited(z)' \/ z \in asked'
      BY <1>1, <1>9, <2>1 DEF Joins
  <2>8. \A t \in Threads : result'[t].is = "ok" => Exited(result[t].of)'
      BY <1>1, <2>1 DEF Joins
  <2>9. QED
      BY <2>5, <2>6, <2>7, <2>8, <1>1 DEF Joins
<1>14. \A t \in Threads : pc[t] # "new" => pc'[t] # "new"
    BY <1>1, <1>2
<1>15. QED
    BY <1>1, <1>10, <1>12, <1>13, <1>14, OutsideKeeps

(* After a join the zombies are copies of its target. *)
LEMMA RescannedType ==
    ASSUME TypeOK, NEW target \in Threads
    PROVE  /\ Rescanned(target) \in Seq(Threads)
           /\ Elements(Rescanned(target)) \subseteq {target}
<1> DEFINE q == Kept(zombie, Threads \ {target})
           r == [k \in DOMAIN q |-> target]
<1>1. q \in Seq(Threads)
    BY KeptElements DEF TypeOK
<1>2. r = Rescanned(target)
    BY DEF Rescanned
<1> HIDE DEF q
<1>3. Len(q) \in Nat /\ r \in [1 .. Len(q) -> Threads] /\ \A k \in DOMAIN r : r[k] = target
    BY <1>1
<1> HIDE DEF r
<1>4. r \in Seq(Threads)
    BY <1>3
<1>5. QED
    BY <1>2, <1>3, <1>4 DEF Elements

(* A join of a freed thread is not in the program's hands any more. *)
LEMMA JoinFreedKeeps ==
    ASSUME IInv, NEW target \in Threads, JoinFreed(target)
    PROVE  IInv'
<1>1. /\ TypeOK /\ Joins /\ program' = "undefined"
      /\ UNCHANGED <<active, exe, sleep, join, zombie, ticks_left, min_delay, join_tid, pc, result,
                     asked, depth, at, hand, tmp, freed>>
    BY DEF IInv, JoinFreed, lists, handler
<1>2. TypeOK'
    BY <1>1 DEF TypeOK
<1>3. Joins'
    BY <1>1, JoinsKept
<1>4. QED
    BY <1>1, <1>2, <1>3 DEF IInv

(* A join of a zombie returns at once, a join of a living thread when that exits. *)
LEMMA JoinKeeps ==
    ASSUME IInv, NEW target \in Threads, Join(target)
    PROVE  IInv'
<1>1. /\ TypeOK /\ Placed /\ Joins /\ program = "runs" /\ pc[active] = "run"
      /\ depth[active] = 0
      /\ target \notin asked /\ asked' = asked \cup {target}
      /\ zombie' = Rescanned(target)
      /\ UNCHANGED <<sleep, ticks_left, min_delay, handler>>
    BY DEF IInv, Join, Running
<1>2. /\ active \in Threads /\ pc \in [Threads -> PCs] /\ exe \in Seq(Threads)
      /\ join \in Seq(Threads) /\ join_tid \in [Threads -> Threads \cup {NoThread}]
      /\ result \in [Threads -> [of : Threads \cup {NoThread}, is : {"none", "ok", "error"}]]
    BY <1>1 DEF TypeOK
<1>3. Elements(join) \subseteq Threads
    BY <1>2, ElementsType
<1>4. zombie' \in Seq(Threads) /\ Elements(zombie') \subseteq {target}
    BY <1>1, RescannedType
<1>5. \A z \in Elements(zombie') : z \in asked'
    BY <1>1, <1>4
<1>6. asked' \subseteq Threads
    BY <1>1 DEF TypeOK
<1>7. ASSUME NEW code \in {"ok", "error"}, Returns(active, target, code),
             code = "ok" => target \in Elements(zombie),
             UNCHANGED <<program, active, exe, join, join_tid, pc>>
      PROVE  IInv'
  <2>1. result' = [result EXCEPT ![active] = [of |-> target, is |-> code]]
      BY <1>7 DEF Returns
  <2>2. TypeOK'
      BY <1>1, <1>2, <1>4, <1>6, <1>7, <2>1 DEF TypeOK, handler
  <2>3. Alive' = Alive
      BY <1>7 DEF Alive
  <2>4. \A x : Exited(x)' <=> Exited(x)
      BY <1>7 DEF Exited
  <2>5. code = "ok" => Exited(target)
      BY <1>1, <1>7 DEF Joins
  <2>6. \A t \in Threads : result'[t].is = "ok" => Exited(result'[t].of)
      BY <1>1, <1>2, <2>1, <2>5 DEF Joins
  <2>7. Joins'
      BY <1>1, <1>5, <1>7, <2>4, <2>6 DEF Joins
  <2>8. QED
      BY <1>1, <1>7, <2>2, <2>3, <2>7, OutsideKeeps DEF Placed
<1>8. ASSUME target \notin Elements(zombie), Living(target),
             join_tid' = [join_tid EXCEPT ![active] = target],
             join' = Append(join, active),
             Goto(active, "joined"),
             Returns(active, target, "none"),
             IF exe = << >> THEN program' = "crashed" /\ UNCHANGED <<active, exe>>
             ELSE SwitchTo(exe) /\ UNCHANGED program
      PROVE  IInv'
  <2>1. /\ result' = [result EXCEPT ![active] = [of |-> target, is |-> "none"]]
        /\ pc' = [pc EXCEPT ![active] = "joined"]
      BY <1>8 DEF Returns, Goto
  <2>2. /\ Once(exe) /\ Once(join) /\ active \notin Elements(join)
      BY <1>1 DEF Placed
  <2>3. /\ join' \in Seq(Threads) /\ Once(join')
        /\ Elements(join') = Elements(join) \cup {active}
      BY <1>2, <1>8, <2>2, ElementsAppend
  <2>4. /\ active' \in Threads /\ exe' \in Seq(Threads) /\ program' \in {"runs", "crashed"}
        /\ program' = "runs" => /\ Once(exe') /\ active' \notin Elements(exe')
                                /\ {active'} \cup Elements(exe') = Elements(exe)
      BY <1>1, <1>2, <1>8, <2>2, SwitchKeeps
  <2>5. TypeOK'
      BY <1>1, <1>2, <1>4, <1>6, <1>8, <2>1, <2>3, <2>4 DEF TypeOK, PCs, handler
  <2>6. Alive' = Alive
      BY <1>1, <1>2, <2>1 DEF Alive
  <2>7. \A t \in Threads : pc[t] # "new" => pc'[t] # "new"
      BY <1>2, <2>1
  <2>8. \A x : Exited(x)' <=> Exited(x)
      BY <1>1, <1>2, <2>1 DEF Exited
  <2>9. ~Exited(target)
      BY <1>1, <1>8 DEF Living, Placed, Alive, Exited
  <2>10. \A t \in Elements(join') : /\ pc'[t] = "joined" /\ join_tid'[t] \in Threads
                                    /\ ~Exited(join_tid'[t])
      BY <1>1, <1>2, <1>3, <1>8, <2>1, <2>2, <2>3, <2>9 DEF Joins
  <2>11. \A t \in Threads : pc'[t] = "joined" => t \in Elements(join') \/ Exited(join_tid'[t])
      BY <1>1, <1>2, <1>8, <2>1, <2>3 DEF Joins
  <2>12. \A t \in Threads : result'[t].is = "ok" => Exited(result'[t].of)
      BY <1>1, <1>2, <2>1 DEF Joins
  <2>13. Joins'
      BY <1>5, <2>8, <2>10, <2>11, <2>12 DEF Joins
  <2>14. QED
      BY <1>1, <2>3, <2>4, <2>5, <2>6, <2>7, <2>13, OutsideKeeps DEF Placed
<1>9. QED
    BY <1>7, <1>8 DEF Join

LEMMA JoinReturnKeeps ==
    ASSUME IInv, JoinReturn
    PROVE  IInv'
<1>1. /\ TypeOK /\ Placed /\ Joins /\ program = "runs" /\ pc[active] = "joined"
      /\ depth[active] = 0
      /\ result' = [result EXCEPT ![active] = [of |-> join_tid[active], is |-> "ok"]]
      /\ pc' = [pc EXCEPT ![active] = "run"]
      /\ UNCHANGED <<program, active, exe, sleep, join, zombie, ticks_left, min_delay, join_tid,
                     asked, handler>>
    BY DEF IInv, JoinReturn, Running, Returns, Goto, lists
<1>2. /\ active \in Threads /\ pc \in [Threads -> PCs]
      /\ join \in Seq(Threads) /\ join_tid \in [Threads -> Threads \cup {NoThread}]
      /\ result \in [Threads -> [of : Threads \cup {NoThread}, is : {"none", "ok", "error"}]]
    BY <1>1 DEF TypeOK
<1>3. Elements(join) \subseteq Threads /\ active \notin Elements(join)
    BY <1>1, <1>2, ElementsType DEF Placed
<1>4. TypeOK'
    BY <1>1, <1>2 DEF TypeOK, PCs, handler
<1>5. Alive' = Alive
    BY <1>1, <1>2 DEF Alive
<1>6. \A t \in Threads : pc[t] # "new" => pc'[t] # "new"
    BY <1>1, <1>2
<1>7. \A x : Exited(x)' <=> Exited(x)
    BY <1>1, <1>2 DEF Exited
<1>8. Exited(join_tid[active])
    BY <1>1, <1>2, <1>3 DEF Joins
<1>9. \A t \in Threads : result'[t].is = "ok" => Exited(result'[t].of)
    BY <1>1, <1>2, <1>8 DEF Joins
<1>10. \A t \in Elements(join) : pc'[t] = "joined"
    BY <1>1, <1>2, <1>3 DEF Joins
<1>11. \A t \in Threads : pc'[t] = "joined" => pc[t] = "joined"
    BY <1>1, <1>2
<1>12. Joins'
    BY <1>1, <1>7, <1>9, <1>10, <1>11 DEF Joins
<1>13. QED
    BY <1>1, <1>4, <1>5, <1>6, <1>12, OutsideKeeps DEF Placed

LEMMA SleepKeeps ==
    ASSUME IInv, NEW n \in 1 .. MaxSleep, Sleep(n)
    PROVE  IInv'
<1>1. /\ TypeOK /\ Placed /\ Joins /\ program = "runs" /\ depth[active] = 0
      /\ ticks_left' = [ticks_left EXCEPT ![active] = n]
      /\ sleep' = Append(sleep, active) /\ EndOrSwitch(exe)
      /\ UNCHANGED <<join, zombie, min_delay, join_tid, pc, result, asked, handler>>
    BY DEF IInv, Sleep, Running
<1>2. active \in Threads /\ exe \in Seq(Threads) /\ sleep \in Seq(Threads)
    BY <1>1 DEF TypeOK
<1>3. Once(exe) /\ Once(sleep) /\ active \notin Elements(sleep)
    BY <1>1 DEF Placed
<1>4. /\ sleep' \in Seq(Threads) /\ Once(sleep')
      /\ Elements(sleep') = Elements(sleep) \cup {active}
    BY <1>1, <1>2, <1>3, ElementsAppend
<1>5. /\ active' \in Threads /\ exe' \in Seq(Threads) /\ program' \in {"runs", "ended"}
      /\ program' = "runs" => /\ Once(exe') /\ active' \notin Elements(exe')
                              /\ {active'} \cup Elements(exe') = Elements(exe)
    BY <1>1, <1>2, <1>3, EndOrSwitchKeeps
<1>6. ticks_left' \in [Threads -> -1 .. MaxSleep]
    BY <1>1, SchedAssumption DEF TypeOK
<1>7. TypeOK'
    BY <1>1, <1>4, <1>5, <1>6 DEF TypeOK, handler
<1>8. Alive' = Alive
    BY <1>1 DEF Alive
<1>9. Joins'
    BY <1>1, JoinsKept
<1>10. QED
    BY <1>1, <1>4, <1>5, <1>7, <1>8, <1>9, OutsideKeeps DEF Placed

LEMMA InitKeeps == Init => IInv
<1> SUFFICES ASSUME Init PROVE IInv
    OBVIOUS
<1>1. << >> \in Seq(Threads) /\ Elements(<< >>) = {} /\ Once(<< >>)
    BY DEF Elements, Once
<1>2. /\ tmp = [h \in Handlers |-> << >>] /\ hand = [h \in Handlers |-> NoThread]
      /\ at = [h \in Handlers |-> "none"] /\ depth = [t \in Threads |-> 0]
    BY DEF Init
<1>3. /\ tmp \in [Handlers -> Seq(Threads)] /\ hand \in [Handlers -> Threads \cup {NoThread}]
      /\ at \in [Handlers -> Places] /\ depth \in [Threads -> 0 .. MaxHandlers]
    BY <1>1, <1>2, SchedAssumption DEF Places
<1>4. TypeOK
    BY <1>1, <1>3, SchedAssumption DEF Init, TypeOK, PCs
<1>5. Alive = {Main}
    BY SchedAssumption DEF Init, Alive
<1>6. Apart /\ Interrupted = {}
  <2>1. \A h \in Handlers : Holds(h) = {}
      BY <1>1, <1>2 DEF Holds
  <2>2. Interrupted = {}
      BY <2>1 DEF Interrupted
  <2>3. \A h \in Handlers : Once(tmp[h]) /\ hand[h] \notin Elements(tmp[h])
      BY <1>1, <1>2
  <2>4. QED
      BY <2>1, <2>2, <2>3 DEF Apart
<1>7. Placed
    BY <1>1, <1>5, <1>6 DEF Init, Placed
<1>8. Stacked
    BY <1>2 DEF Stacked
<1>9. Joins
    BY <1>1 DEF Init, Joins
<1>10. QED
    BY <1>4, <1>7, <1>8, <1>9 DEF IInv

-----------------------------------------------------------------------------
(* The theorems *)

(* The invariant holds for any number of threads, of ticks before one takes the processor
   away and of ticks one upon the other, in whatever order threads create, join, sleep and
   exit. *)
THEOREM Invariance == SafetySpec => []IInv
<1>1. IInv /\ [Next]_vars => IInv'
  <2> SUFFICES ASSUME IInv, [Next]_vars PROVE IInv'
      OBVIOUS
  <2>1. CASE UNCHANGED vars
    <3>1. UNCHANGED <<program, active, exe, sleep, join, zombie, ticks_left, min_delay, join_tid,
                      pc, result, asked, depth, at, hand, tmp, freed>>
        BY <2>1 DEF vars, lists, handler
    <3>2. TypeOK'
        BY <3>1 DEF IInv, TypeOK
    <3>3. Interrupted' = Interrupted /\ (Apart <=> Apart')
        BY <3>1, HeldKept
    <3>4. program' = "runs" => Placed' /\ Stacked'
        BY <3>1, <3>3 DEF IInv, Placed, Stacked, Alive, Top
    <3>5. Joins'
        BY <3>1, JoinsKept DEF IInv
    <3>6. QED
        BY <3>2, <3>4, <3>5 DEF IInv
  <2>2. CASE Scan
      BY <2>2, ScanTestKeeps, ScanRemoveKeeps, ScanCompareKeeps, ScanWakeKeeps, ScanKeepKeeps,
         ScanDeleteKeeps, ScanAssignKeeps DEF Scan
  <2>3. QED
      BY <2>1, <2>2, CreateKeeps, YieldKeeps, TickKeeps, PreemptKeeps, ExitKeeps, JoinKeeps,
         JoinFreedKeeps, JoinReturnKeeps, SleepKeeps DEF Next
<1>2. QED
    BY <1>1, InitKeeps, PTL DEF SafetySpec

(* The variables have their types (sthread_user.c 26-57). *)
THEOREM TypeCorrect == SafetySpec => []TypeOK
<1>1. IInv => TypeOK
    BY DEF IInv
<1>2. QED
    BY <1>1, Invariance, PTL

(* No operation loses a thread or queues it twice, with ticks and other threads between
   any two steps of an interrupt (lines 114-433). *)
THEOREM OnePlaceCorrect == SafetySpec => []OnePlace
<1>1. IInv => OnePlace
  <2> SUFFICES ASSUME IInv, program = "runs"
               PROVE  /\ {active} \cup Elements(exe) \cup Elements(sleep) \cup Elements(join)
                            \cup Interrupted = Alive \ freed
                      /\ 1 + Len(exe) + Len(sleep) + Len(join) + Cardinality(Interrupted)
                           = Cardinality(Alive \ freed)
                      /\ Apart
      BY DEF OnePlace, Apart
  <2> DEFINE A == {active}  B == Elements(exe)  C == Elements(sleep)  D == Elements(join)
             I == Interrupted
             AB == A \cup B  ABC == AB \cup C  ABCD == ABC \cup D
  <2>1. /\ A \cap B = {} /\ AB \cap C = {} /\ ABC \cap D = {} /\ ABCD \cap I = {}
        /\ ABCD \cup I = Alive \ freed /\ Apart
      BY DEF IInv, Placed
  <2>2. /\ IsFiniteSet(B) /\ Cardinality(B) = Len(exe)
        /\ IsFiniteSet(C) /\ Cardinality(C) = Len(sleep)
        /\ IsFiniteSet(D) /\ Cardinality(D) = Len(join)
        /\ Len(exe) \in Nat /\ Len(sleep) \in Nat /\ Len(join) \in Nat
      BY OnceLength DEF IInv, TypeOK, Placed
  <2>3. IsFiniteSet(A) /\ Cardinality(A) = 1
      BY FS_Singleton
  <2>4. IsFiniteSet(I) /\ Cardinality(I) \in Nat
    <3>1. I \subseteq Alive
        BY DEF IInv, Placed
    <3>2. I \subseteq Threads /\ IsFiniteSet(Threads)
        BY <3>1, SchedAssumption DEF Alive
    <3>3. IsFiniteSet(I)
        BY <3>2, FS_Subset
    <3>4. QED
        BY <3>3, FS_CardinalityType
  <2> HIDE DEF A, B, C, D, I, AB, ABC, ABCD
  <2>5. IsFiniteSet(AB) /\ Cardinality(AB) = 1 + Len(exe)
    <3>1. IsFiniteSet(A \cup B) /\ Cardinality(A \cup B) = Cardinality(A) + Cardinality(B)
        BY <2>1, <2>2, <2>3, DisjointUnion
    <3>2. QED
        BY <2>2, <2>3, <3>1 DEF AB
  <2>6. IsFiniteSet(ABC) /\ Cardinality(ABC) = 1 + Len(exe) + Len(sleep)
    <3>1. IsFiniteSet(AB \cup C) /\ Cardinality(AB \cup C) = Cardinality(AB) + Cardinality(C)
        BY <2>1, <2>2, <2>5, DisjointUnion
    <3>2. QED
        BY <2>2, <2>5, <3>1 DEF ABC
  <2>7. IsFiniteSet(ABCD) /\ Cardinality(ABCD) = 1 + Len(exe) + Len(sleep) + Len(join)
    <3>1. IsFiniteSet(ABC \cup D) /\ Cardinality(ABC \cup D) = Cardinality(ABC) + Cardinality(D)
        BY <2>1, <2>2, <2>6, DisjointUnion
    <3>2. QED
        BY <2>2, <2>6, <3>1 DEF ABCD
  <2>8. Cardinality(ABCD \cup I) = 1 + Len(exe) + Len(sleep) + Len(join) + Cardinality(I)
    <3>1. Cardinality(ABCD \cup I) = Cardinality(ABCD) + Cardinality(I)
        BY <2>1, <2>4, <2>7, DisjointUnion
    <3>2. QED
        BY <2>2, <2>4, <2>7, <3>1
  <2>9. QED
      BY <2>1, <2>8 DEF A, B, C, D, I, AB, ABC, ABCD
<1>2. QED
    BY <1>1, Invariance, PTL

(* Nobody waits in join for a thread that has exited (lines 146-172, 320-395). *)
THEOREM JoinersWaitForLivingCorrect == SafetySpec => []JoinersWaitForLiving
<1>1. IInv => JoinersWaitForLiving
    BY DEF IInv, Joins, Exited, JoinersWaitForLiving
<1>2. QED
    BY <1>1, Invariance, PTL

(* "When a join returns successfully, the target thread has been terminated" (lines
   312-313). *)
THEOREM JoinMeansTerminatedCorrect == SafetySpec => []JoinMeansTerminated
<1>1. IInv => JoinMeansTerminated
    BY DEF IInv, Joins, Exited, JoinMeansTerminated
<1>2. QED
    BY <1>1, Invariance, PTL

=============================================================================
